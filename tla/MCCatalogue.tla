----------------------------- MODULE MCCatalogue -----------------------------
(* The schema of the repository, and requests about a few of its tables. *)
EXTENDS Catalogue, Schema

MCClasses    == OrmTables
MCUpgrades   == UpgradeSteps
MCDowngrades == DowngradeSteps

MCSeeds == 1 :> [table |-> "orgs", cols |-> [slug |-> 1, rest |-> 1]] @@
           2 :> [table |-> "orgs", cols |-> [slug |-> 2, rest |-> 1]] @@
           3 :> [table |-> "projects", cols |-> [orgs |-> 1, rest |-> 1]]

Member(status, permissions) == [status |-> status, permissions |-> permissions]

(* An admin of org 1 that may write orgs and datasets as a member of org 2, and someone     *)
(* whose membership has ended.                                              *)
MCDirectory ==
    [ann |-> [active |-> TRUE,
              member |-> 1 :> Member("active", {<<"admin", "all">>}) @@
                         2 :> Member("active", {<<"datasets", "write">>, <<"orgs", "write">>})],
     bob |-> [active |-> TRUE, member |-> 1 :> Member("ended", {<<"projects", "write">>})]]

MCDemo == [on |-> TRUE, user |-> "ann", org |-> 1]
=============================================================================
