---------------------------- MODULE MCSimFabric ----------------------------
(* The fabric with two processes that share scenarios, and one of each kind. *)
EXTENDS SimFabric

S(id, kind) == [id |-> id, hash |-> <<"hash", id>>, kind |-> kind]

MCBatches == {<<S(1, "good"), S(2, "wild")>>, <<S(3, "nan"), S(4, "infeasible")>>, <<S(5, "good")>>}
=============================================================================
