------------------------------ MODULE Catalogue ------------------------------
(***************************************************************************)
(* The database as migrations build it and as the admin API changes it:    *)
(* generic create, update and delete of the rows of a resource, each in a  *)
(* transaction with the audit event that tells of it.  Requests overlap: a *)
(* request loads its row, and writes in a later step.                      *)
(*                                                                         *)
(* A row has its table and its columns: a reference goes by the name of    *)
(* the table it refers to (0 is null), "rest" stands for what is neither   *)
(* a reference nor part of a key.                                          *)
(***************************************************************************)
EXTENDS Integers, Sequences, SequencesExt, FiniteSets, TLC

CONSTANTS
    Classes,      \* the tables that db/models.py declares
    Upgrades,     \* the steps of upgrade(): tables with their constraints
    Downgrades,   \* the steps of downgrade(): names of tables
    Resources,    \* the tables that requests are about
    Directory,    \* by user: whether active, and by org the membership's status and permissions
    Demo,         \* GSIP_DEMO_AUTH, with the demo user and org
    Seeds,        \* rows at the start
    Values,       \* values of a column that is not a reference
    Slots,        \* requests at a time
    MaxRows, MaxRequests   \* bounds: rows ever made, requests ever served

VARIABLES
    schema,         \* the tables there are
    done, undone,   \* steps of upgrade() and downgrade() that are done
    rows,           \* by id
    audit,          \* audit_events
    request,        \* by slot
    lastId, served

vars == <<schema, done, undone, rows, audit, request, lastId, served>>

-----------------------------------------------------------------------------
(* Tables and rows. *)
Parents(t) == Classes[t].required \cup Classes[t].optional
Columns(t) == Parents(t) \cup UNION Classes[t].keys \cup {"rest"}

(* _is_org_scoped *)
Scoped(t) == "orgs" \in Parents(t)

ASSUME CatalogueAssumption ==
    /\ {MaxRows, MaxRequests} \subseteq Nat
    /\ Resources \subseteq DOMAIN Classes \ {"audit_events"}
    /\ Len(Upgrades) \in Nat /\ Len(Downgrades) \in Nat \ {0}
    /\ \A i \in 1..Len(Upgrades) : Upgrades[i][1] \in DOMAIN Classes

(* memberships.org_id is not null. *)
ASSUME DirectoryAssumption == \A user \in DOMAIN Directory : 0 \notin DOMAIN Directory[user].member

Refers(r, id) == \E p \in Parents(r.table) : r.cols[p] = id

(* The constraints that row id of the table has to satisfy.                 *)
Fits(table, id) ==
    LET r == table[id]
    IN  /\ \A p \in Parents(r.table) :
              \/ r.cols[p] \in DOMAIN table /\ table[r.cols[p]].table = p
              \/ r.cols[p] = 0 /\ p \in Classes[r.table].optional
        /\ \A other \in DOMAIN table \ {id}, key \in Classes[r.table].keys :
              table[other].table = r.table =>
                  \E c \in key : table[other].cols[c] # r.cols[c]

(* The seeds are rows of a database: the constraints hold of them. *)
ASSUME SeedsAssumption ==
    /\ Cardinality(DOMAIN Seeds) \in 0..MaxRows
    /\ Seeds = [id \in 1..Cardinality(DOMAIN Seeds) |->
                  [table |-> Seeds[id].table,
                   cols  |-> [c \in Columns(Seeds[id].table) |-> Seeds[id].cols[c]]]]
    /\ \A id \in DOMAIN Seeds : Seeds[id].table \in DOMAIN Classes /\ Fits(Seeds, id)

(* Variant: org_id of audit_events is no foreign key. *)
CanGoUntold(id, org) == \A other \in DOMAIN rows : ~Refers(rows[other], id)

(* ... and those that let row id go: nothing refers to it, audit events     *)
(* included, the one of its deletion too.                                   *)
CanGo(id, org) ==
    /\ \A other \in DOMAIN rows : ~Refers(rows[other], id)
    /\ id \notin {org} \cup {audit[i].org : i \in DOMAIN audit}

-----------------------------------------------------------------------------
(* Who asks: get_current_user.                                              *)
NoOne == "no one"

(* _load_permissions does not look at the status of the membership.         *)
Permissions(user, org) ==
    IF org \in DOMAIN Directory[user].member THEN Directory[user].member[org].permissions ELSE {}

Context(user, org) == [user |-> user, org |-> org, permissions |-> Permissions(user, org)]

IsMember(user, org) ==
    org \in DOMAIN Directory[user].member /\ Directory[user].member[org].status = "active"

DemoResolves == Demo.on /\ Directory[Demo.user].active /\ Demo.org \in DOMAIN rows

(* The context of a request with these headers, or none if it is refused.   *)
Contexts(user, org) ==
    IF user = NoOne THEN {Context(Demo.user, Demo.org) : x \in {y \in {0} : DemoResolves}}
    ELSE IF ~Directory[user].active THEN {}
    ELSE IF org # 0 THEN {Context(user, org) : x \in {y \in {0} : IsMember(user, org)}}
    ELSE IF Demo.on THEN {Context(user, Demo.org) : x \in {y \in {0} : DemoResolves}}
    ELSE {Context(user, 0)}

(* _require_resource_permission *)
Allowed(ctx, t, action) == {<<t, action>>, <<"admin", "all">>} \cap ctx.permissions # {}

(* Variant: org_id is a column like the others. *)
SettableUnscoped(t) == Columns(t)

(* _filter_payload, and org_id is not for the caller to set.                *)
Settable(t) == Columns(t) \ (IF Scoped(t) THEN {"orgs"} ELSE {})

Domain(c) == IF c \in DOMAIN Classes THEN 0..lastId ELSE Values

-----------------------------------------------------------------------------
NoRequest == [op |-> "none"]

Init ==
    /\ schema = << >> /\ done = 0 /\ undone = 0
    /\ rows = << >> /\ audit = << >>
    /\ request = [q \in Slots |-> NoRequest]
    /\ lastId = 0 /\ served = 0

AtHead == done = Len(Upgrades) /\ undone = 0
Quiet == rows = << >> /\ lastId = 0

(* A step of upgrade(): what the table refers to must be there.             *)
Upgrade ==
    /\ done < Len(Upgrades)
    /\ LET name == Upgrades[done + 1][1]
           table == Upgrades[done + 1][2]
       IN  /\ name \notin DOMAIN schema
           /\ table.required \cup table.optional \subseteq DOMAIN schema
           /\ schema' = [t \in DOMAIN schema \cup {name} |-> IF t = name THEN table ELSE schema[t]]
    /\ done' = done + 1
    /\ UNCHANGED <<undone, rows, audit, request, lastId, served>>

(* A step of downgrade(): nothing may refer to the table.  Bound: only of   *)
(* a database without rows.                                                 *)
Downgrade ==
    /\ done = Len(Upgrades) /\ Quiet
    /\ LET name == Downgrades[undone + 1]
           left == DOMAIN schema \ {name}
       IN  /\ name \in DOMAIN schema
           /\ \A t \in left : name \notin schema[t].required \cup schema[t].optional
           /\ schema' = [t \in left |-> schema[t]]
    /\ IF undone + 1 = Len(Downgrades) THEN done' = 0 /\ undone' = 0
                                       ELSE undone' = undone + 1 /\ UNCHANGED done
    /\ UNCHANGED <<rows, audit, request, lastId, served>>

Seed ==
    /\ AtHead /\ Quiet
    /\ rows' = Seeds /\ lastId' = Cardinality(DOMAIN Seeds)
    /\ UNCHANGED <<schema, done, undone, audit, request, served>>

Start(q, record) ==
    /\ request[q] = NoRequest /\ served < MaxRequests
    /\ request' = [request EXCEPT ![q] = record]
    /\ served' = served + 1
    /\ UNCHANGED <<schema, done, undone, rows, audit, lastId>>

Orgs == {0} \cup {id \in DOMAIN rows : rows[id].table = "orgs"}
Callers == UNION {Contexts(u, o) : u \in DOMAIN Directory \cup {NoOne}, o \in Orgs}

(* create_resource, to the insert. *)
BeginCreate(q) ==
    \E ctx \in Callers, t \in Resources :
        /\ Allowed(ctx, t, "write") /\ lastId < MaxRows
        /\ Scoped(t) => ctx.org # 0
        /\ \E given \in [Columns(t) -> 0..lastId \cup Values] :
              /\ \A c \in Columns(t) : given[c] \in Domain(c)
              /\ Scoped(t) => given["orgs"] = ctx.org
              /\ Start(q, [op |-> "create", user |-> ctx.user, org |-> ctx.org,
                           table |-> t, id |-> 0, after |-> given])

(* The row that update_resource or delete_resource loads. *)
Loaded(ctx, t) ==
    {id \in DOMAIN rows : /\ rows[id].table = t
                          /\ Scoped(t) => ctx.org # 0 /\ rows[id].cols["orgs"] = ctx.org}

(* update_resource, to the flush.  One column is enough for what follows.   *)
BeginUpdate(q) ==
    \E ctx \in Callers, t \in Resources :
        /\ Allowed(ctx, t, "write")
        /\ \E id \in Loaded(ctx, t), c \in Settable(t) : \E v \in Domain(c) :
              Start(q, [op |-> "update", user |-> ctx.user, org |-> ctx.org,
                        table |-> t, id |-> id, before |-> rows[id].cols,
                        after |-> [rows[id].cols EXCEPT ![c] = v]])

(* delete_resource, to the flush. *)
BeginDelete(q) ==
    \E ctx \in Callers, t \in Resources :
        /\ Allowed(ctx, t, "delete")
        /\ \E id \in Loaded(ctx, t) :
              Start(q, [op |-> "delete", user |-> ctx.user, org |-> ctx.org,
                        table |-> t, id |-> id, before |-> rows[id].cols])

(* The transaction ends: with rows and an event, or with neither.           *)
Commit(q, table, event) ==
    /\ event.org \in {0} \cup DOMAIN table
    /\ rows' = table /\ audit' = Append(audit, event)
    /\ request' = [request EXCEPT ![q] = NoRequest]
    /\ UNCHANGED <<schema, done, undone, served>>

Rollback(q) ==
    /\ request' = [request EXCEPT ![q] = NoRequest]
    /\ UNCHANGED <<schema, done, undone, rows, audit, lastId, served>>

Create(q) ==
    /\ request[q].op = "create" /\ lastId < MaxRows
    /\ LET r == request[q]
           id == lastId + 1
           table == [x \in DOMAIN rows \cup {id} |->
                        IF x = id THEN [table |-> r.table, cols |-> r.after] ELSE rows[x]]
       IN  IF Fits(table, id) THEN Commit(q, table, [r EXCEPT !.id = id]) /\ lastId' = id
                              ELSE Rollback(q)

(* Variant: the UPDATE sets every column. *)
FlushedWhole(r) == r.after

(* The UPDATE sets the columns whose value differs from the one loaded, in  *)
(* the row as it is by now.                                                 *)
Flushed(r) ==
    [c \in DOMAIN r.after |-> IF r.after[c] # r.before[c] THEN r.after[c] ELSE rows[r.id].cols[c]]

(* No UPDATE if nothing differs, also of a row that has gone; else the row  *)
(* must be there (StaleDataError).  Reading updated_at for the event may    *)
(* raise, as the UPDATE has left it to be loaded.                           *)
Update(q) ==
    /\ request[q].op = "update"
    /\ LET r == request[q]
           table == [rows EXCEPT ![r.id] = [table |-> r.table, cols |-> Flushed(r)]]
       IN  IF r.before = r.after THEN Commit(q, rows, r) /\ UNCHANGED lastId
           ELSE IF r.id \notin DOMAIN rows THEN Rollback(q)
           ELSE \/ Fits(table, r.id) /\ Commit(q, table, r) /\ UNCHANGED lastId
                \/ Rollback(q)

(* A DELETE of a row that has gone is no error.                             *)
Delete(q) ==
    /\ request[q].op = "delete"
    /\ LET r == request[q]
           table == [id \in DOMAIN rows \ {r.id} |-> rows[id]]
       IN  IF r.id \in DOMAIN rows => CanGo(r.id, r.org)
             THEN Commit(q, table, r) /\ UNCHANGED lastId
             ELSE Rollback(q)

Next == \/ Upgrade \/ Downgrade \/ Seed
        \/ \E q \in Slots : \/ BeginCreate(q) \/ BeginUpdate(q) \/ BeginDelete(q)
                            \/ Create(q) \/ Update(q) \/ Delete(q)

Spec == Init /\ [][Next]_vars

-----------------------------------------------------------------------------
(* Properties. *)

(* The type invariant: rows and events have the columns of their table, and *)
(* every row satisfies the constraints, whatever overlaps.                  *)
CatalogueTypeOK ==
    /\ DOMAIN schema \subseteq DOMAIN Classes
    /\ done \in 0..Len(Upgrades) /\ undone \in 0..(Len(Downgrades) - 1)
    /\ lastId \in 0..MaxRows /\ served \in 0..MaxRequests
    /\ DOMAIN rows \subseteq 1..lastId
    /\ \A id \in DOMAIN rows :
          /\ rows[id].table \in DOMAIN Classes /\ DOMAIN rows[id].cols = Columns(rows[id].table)
          /\ Fits(rows, id)
    /\ \A i \in DOMAIN audit : audit[i].org \in {0} \cup DOMAIN rows
    /\ \A q \in Slots : request[q].op \in {"none", "create", "update", "delete"}

(* What is written by hand twice agrees: every step of upgrade() finds what *)
(* it refers to, all of them together make the tables, references and       *)
(* unique constraints that the classes of db/models.py declare, and every   *)
(* step of downgrade() finds its table and nothing that refers to it.       *)
MigrationBuildsModels ==
    /\ AtHead => schema = Classes
    /\ done < Len(Upgrades) => ENABLED Upgrade
    /\ AtHead /\ Quiet => ENABLED Downgrade
    /\ undone > 0 => ENABLED Downgrade

(* The audit event tells the change: the columns where before and after     *)
(* differ, set in the order of the events, give the rows there are.  Two    *)
(* requests may have loaded the same row before either has written it, and  *)
(* the row may be gone by then.                                             *)
Replay(table, e) ==
    CASE e.op = "create" ->
            [id \in DOMAIN table \cup {e.id} |->
                IF id = e.id THEN [table |-> e.table, cols |-> e.after] ELSE table[id]]
      [] e.op = "delete" -> [id \in DOMAIN table \ {e.id} |-> table[id]]
      [] e.op = "update" ->
            [id \in DOMAIN table |->
                IF id # e.id THEN table[id]
                ELSE [table[id] EXCEPT !.cols =
                        [c \in DOMAIN @ |-> IF e.before[c] # e.after[c] THEN e.after[c] ELSE @[c]]]]

AuditReplays == lastId > 0 => FoldLeft(Replay, Seeds, audit) = rows

(* An event about a row of an org is an event of that org, before and after *)
(* the change: rows do not wander between orgs, and no org's trail tells of *)
(* another's rows.                                                          *)
EventsOfOwnOrg ==
    \A i \in DOMAIN audit :
        LET e == audit[i]
        IN  Scoped(e.table) =>
                /\ e.op # "create" => e.before["orgs"] = e.org
                /\ e.op # "delete" => e.after["orgs"] = e.org
=============================================================================
