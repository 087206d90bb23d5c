--------------------------- MODULE CatalogueProofs ---------------------------
(***************************************************************************)
(* Proofs about the admin API for any schema, directory, seeds and number  *)
(* of overlapping requests: the audit trail of an org tells of rows of     *)
(* that org only (IInv), every row satisfies its constraints (Sound), and  *)
(* the trail replays to the rows (Told).  A request on a scoped table      *)
(* carries its own org from the moment it has loaded its row; a row keeps  *)
(* its table, and the columns of that table, for as long as it is there,   *)
(* and its id is not given to another row once it has gone.                *)
(***************************************************************************)
EXTENDS Catalogue, NumberProofs

(* A request, and the event that it becomes, on a row of its org. *)
OwnOrg(e) ==
    Scoped(e.table) =>
        /\ e.op # "create" => e.before["orgs"] = e.org
        /\ e.op # "delete" => e.after["orgs"] = e.org

RowsOk ==
    /\ lastId \in Nat
    /\ DOMAIN rows \subseteq 1..lastId
    /\ \A id \in DOMAIN rows : DOMAIN rows[id].cols = Columns(rows[id].table)

RequestsOk ==
    /\ request = [q \in Slots |-> request[q]]
    /\ \A q \in Slots :
         LET r == request[q]
         IN  \/ r.op = "none"
             \/ /\ r.op \in {"create", "update", "delete"}
                /\ OwnOrg(r)
                /\ r.op = "create" => {"op", "org", "table", "id", "after"} \subseteq DOMAIN r
                /\ r.op # "delete" => DOMAIN r.after = Columns(r.table)
                /\ r.op # "create" => /\ r.id \in 1..lastId
                                      /\ r.id \in DOMAIN rows => rows[r.id].table = r.table

AuditOk ==
    /\ DOMAIN audit = 1..Len(audit) /\ Len(audit) \in Nat
    /\ \A i \in 1..Len(audit) : OwnOrg(audit[i])

IInv == RowsOk /\ RequestsOk /\ AuditOk

-----------------------------------------------------------------------------
(* Appending keeps what was there. *)
LEMMA Appended ==
    ASSUME NEW e, OwnOrg(e), AuditOk, audit' = Append(audit, e)
    PROVE  AuditOk'
  <1>1. /\ Len(audit') = Len(audit) + 1
        /\ DOMAIN audit' = 1..(Len(audit) + 1)
        /\ \A i \in 1..Len(audit) : audit'[i] = audit[i]
        /\ audit'[Len(audit) + 1] = e
    BY DEF AuditOk
  <1> QED
    BY <1>1 DEF AuditOk, OwnOrg

LEMMA Initially == Init => IInv
  <1> SUFFICES ASSUME Init PROVE IInv
    OBVIOUS
  <1>1. RowsOk
    BY DEF Init, RowsOk
  <1>2. RequestsOk
    BY DEF Init, RequestsOk, NoRequest
  <1>3. AuditOk
    BY DEF Init, AuditOk
  <1> QED
    BY <1>1, <1>2, <1>3 DEF IInv

-----------------------------------------------------------------------------
(* A request that begins is about a row of its org. *)
LEMMA Beginning ==
    ASSUME RequestsOk, NEW q \in Slots, NEW r, UNCHANGED <<rows, lastId>>,
           request' = [request EXCEPT ![q] = r],
           r.op \in {"create", "update", "delete"}, OwnOrg(r),
           r.op = "create" => {"op", "org", "table", "id", "after"} \subseteq DOMAIN r,
           r.op # "delete" => DOMAIN r.after = Columns(r.table),
           r.op # "create" => /\ r.id \in 1..lastId
                              /\ r.id \in DOMAIN rows => rows[r.id].table = r.table
    PROVE  RequestsOk'
  <1>1. request' = [p \in Slots |-> request'[p]]
    BY DEF RequestsOk
  <1>2. /\ request'[q] = r
        /\ \A p \in Slots \ {q} : request'[p] = request[p]
    BY DEF RequestsOk
  <1> QED
    BY <1>1, <1>2 DEF RequestsOk, OwnOrg

(* A request that ends leaves the others, whose rows keep their tables. *)
RowsStay ==
    /\ lastId' = lastId \/ lastId' = lastId + 1
    /\ \A id \in 1..lastId : id \in DOMAIN rows' =>
          id \in DOMAIN rows /\ rows'[id].table = rows[id].table

LEMMA Ending ==
    ASSUME IInv, RowsStay,
           NEW q \in Slots, request' = [request EXCEPT ![q] = NoRequest]
    PROVE  RequestsOk'
  <1>1. request' = [p \in Slots |-> request'[p]]
    BY DEF IInv, RequestsOk
  <1>2. /\ request'[q].op = "none"
        /\ \A p \in Slots \ {q} : request'[p] = request[p]
    BY DEF IInv, RequestsOk, NoRequest
  <1>3. lastId \in Nat /\ \A id \in 1..lastId : id \in 1..lastId'
    BY DEF IInv, RowsOk, RowsStay
  <1>4. SUFFICES ASSUME NEW p \in Slots, p # q, request[p].op # "none"
                 PROVE  LET r == request[p]
                        IN  /\ r.op \in {"create", "update", "delete"}
                            /\ OwnOrg(r)
                            /\ r.op = "create" => {"op", "org", "table", "id", "after"} \subseteq DOMAIN r
                            /\ r.op # "delete" => DOMAIN r.after = Columns(r.table)
                            /\ r.op # "create" =>
                                  /\ r.id \in 1..lastId'
                                  /\ r.id \in DOMAIN rows' => rows'[r.id].table = r.table
    BY <1>1, <1>2 DEF RequestsOk, OwnOrg
  <1> DEFINE r == request[p]
  <1>5. /\ r.op \in {"create", "update", "delete"}
        /\ OwnOrg(r)
        /\ r.op = "create" => {"op", "org", "table", "id", "after"} \subseteq DOMAIN r
        /\ r.op # "delete" => DOMAIN r.after = Columns(r.table)
        /\ r.op # "create" => /\ r.id \in 1..lastId
                              /\ r.id \in DOMAIN rows => rows[r.id].table = r.table
    BY <1>4 DEF IInv, RequestsOk
  <1>6. ASSUME r.op # "create", r.id \in DOMAIN rows'
        PROVE  rows'[r.id].table = r.table
    BY <1>5, <1>6 DEF RowsStay
  <1> HIDE DEF r
  <1> QED
    BY <1>3, <1>5, <1>6 DEF r

(* Nothing that the invariant is about changes. *)
LEMMA Unaffected ==
    ASSUME IInv, UNCHANGED <<rows, lastId, request, audit>>
    PROVE  IInv'
  BY DEF IInv, RowsOk, RequestsOk, AuditOk, OwnOrg

LEMMA RolledBack ==
    ASSUME IInv, NEW q \in Slots, Rollback(q)
    PROVE  IInv'
  <1>1. RowsOk' /\ AuditOk'
    BY DEF IInv, Rollback, RowsOk, AuditOk, OwnOrg
  <1>2. RowsStay
    BY DEF IInv, Rollback, RowsStay
  <1>3. RequestsOk'
    BY <1>2, Ending DEF Rollback
  <1> QED
    BY <1>1, <1>3 DEF IInv

LEMMA Creating ==
    ASSUME IInv, NEW q \in Slots, Create(q)
    PROVE  IInv'
  <1> DEFINE r  == request[q]
             id == lastId + 1
             table == [x \in DOMAIN rows \cup {id} |->
                          IF x = id THEN [table |-> r.table, cols |-> r.after] ELSE rows[x]]
             e == [r EXCEPT !.id = id]
  <1>1. CASE Rollback(q)
    BY <1>1, RolledBack
  <1>2. CASE Commit(q, table, e) /\ lastId' = id
    <2>1. r.op = "create" /\ OwnOrg(r) /\ DOMAIN r.after = Columns(r.table)
      BY DEF Create, IInv, RequestsOk
    <2>2. OwnOrg(e)
      <3>1. {"op", "org", "table", "id", "after"} \subseteq DOMAIN r
        BY DEF Create, IInv, RequestsOk
      <3>2. e.op = r.op /\ e.org = r.org /\ e.table = r.table /\ e.after = r.after
        BY <3>1
      <3> QED
        BY <2>1, <3>2 DEF OwnOrg
    <2>3. AuditOk'
      BY <1>2, <2>2, Appended DEF Commit, IInv
    <2>4. /\ DOMAIN rows' = DOMAIN rows \cup {id}
          /\ \A x \in DOMAIN rows : x # id => rows'[x] = rows[x]
          /\ rows'[id].table = r.table /\ rows'[id].cols = r.after
      BY <1>2 DEF Commit
    <2>5. RowsOk'
      BY <1>2, <2>1, <2>4 DEF IInv, RowsOk, Columns, Parents
    <2>6. RequestsOk'
      <3>1. RowsStay
        BY <1>2, <2>4 DEF Commit, RowsStay, IInv, RowsOk
      <3> QED
        BY <3>1, <1>2, <2>4, Ending DEF Commit
    <2> QED
      BY <2>3, <2>5, <2>6 DEF IInv
  <1> QED
    BY <1>1, <1>2 DEF Create

LEMMA Updating ==
    ASSUME IInv, NEW q \in Slots, Update(q)
    PROVE  IInv'
  <1> DEFINE r == request[q]
             table == [rows EXCEPT ![r.id] = [table |-> r.table, cols |-> Flushed(r)]]
  <1>1. CASE Rollback(q)
    BY <1>1, RolledBack
  <1>2. /\ r.op = "update" /\ OwnOrg(r) /\ DOMAIN r.after = Columns(r.table)
        /\ r.id \in 1..lastId
        /\ r.id \in DOMAIN rows => rows[r.id].table = r.table
    BY DEF Update, IInv, RequestsOk
  <1>3. CASE Commit(q, rows, r) /\ UNCHANGED lastId
    <2>1. AuditOk'
      BY <1>2, <1>3, Appended DEF Commit, IInv
    <2>2. RowsOk'
      BY <1>3 DEF Commit, IInv, RowsOk
    <2>3. RequestsOk'
      <3>1. RowsStay
        BY <1>3 DEF Commit, RowsStay, IInv, RowsOk
      <3> QED
        BY <3>1, <1>3, Ending DEF Commit
    <2> QED
      BY <2>1, <2>2, <2>3 DEF IInv
  <1>4. CASE r.id \in DOMAIN rows /\ Commit(q, table, r) /\ UNCHANGED lastId
    <2>1. AuditOk'
      BY <1>2, <1>4, Appended DEF Commit, IInv
    <2>2. /\ DOMAIN rows' = DOMAIN rows
          /\ \A x \in DOMAIN rows : x # r.id => rows'[x] = rows[x]
      BY <1>4 DEF Commit
    <2>3. /\ rows'[r.id].table = rows[r.id].table
          /\ rows'[r.id].cols = Flushed(r)
      BY <1>2, <1>4 DEF Commit
    <2>4. DOMAIN Flushed(r) = Columns(r.table)
      BY <1>2 DEF Flushed
    <2>5. RowsOk'
      BY <1>2, <1>4, <2>2, <2>3, <2>4 DEF Commit, IInv, RowsOk
    <2>6. RequestsOk'
      <3>1. RowsStay
        BY <1>4, <2>2, <2>3 DEF Commit, RowsStay, IInv, RowsOk
      <3> QED
        BY <3>1, <1>4, <2>2, <2>3, Ending DEF Commit
    <2> QED
      BY <2>1, <2>5, <2>6 DEF IInv
  <1> QED
    BY <1>1, <1>3, <1>4 DEF Update

LEMMA Deleting ==
    ASSUME IInv, NEW q \in Slots, Delete(q)
    PROVE  IInv'
  <1> DEFINE r == request[q]
             table == [id \in DOMAIN rows \ {r.id} |-> rows[id]]
  <1>1. CASE Rollback(q)
    BY <1>1, RolledBack
  <1>2. CASE Commit(q, table, r) /\ UNCHANGED lastId
    <2>1. OwnOrg(r)
      BY DEF Delete, IInv, RequestsOk
    <2>2. AuditOk'
      BY <1>2, <2>1, Appended DEF Commit, IInv
    <2>3. /\ DOMAIN rows' = DOMAIN rows \ {r.id}
          /\ \A x \in DOMAIN rows' : rows'[x] = rows[x]
      BY <1>2 DEF Commit
    <2>4. RowsOk'
      BY <1>2, <2>3 DEF IInv, RowsOk, Columns, Parents
    <2>5. RequestsOk'
      <3>1. RowsStay
        BY <1>2, <2>3 DEF Commit, RowsStay, IInv, RowsOk
      <3> QED
        BY <3>1, <1>2, <2>3, Ending DEF Commit
    <2> QED
      BY <2>2, <2>4, <2>5 DEF IInv
  <1> QED
    BY <1>1, <1>2 DEF Delete

LEMMA BegunCreate ==
    ASSUME IInv, NEW q \in Slots, BeginCreate(q)
    PROVE  IInv'
  <1>1. PICK ctx \in Callers, t \in Resources :
           \E given \in [Columns(t) -> 0..lastId \cup Values] :
              /\ Scoped(t) => given["orgs"] = ctx.org
              /\ Start(q, [op |-> "create", user |-> ctx.user, org |-> ctx.org,
                           table |-> t, id |-> 0, after |-> given])
    BY DEF BeginCreate
  <1>2. PICK given \in [Columns(t) -> 0..lastId \cup Values] :
              /\ Scoped(t) => given["orgs"] = ctx.org
              /\ Start(q, [op |-> "create", user |-> ctx.user, org |-> ctx.org,
                           table |-> t, id |-> 0, after |-> given])
    BY <1>1
  <1> DEFINE r == [op |-> "create", user |-> ctx.user, org |-> ctx.org,
                   table |-> t, id |-> 0, after |-> given]
  <1>3. /\ r.op = "create" /\ OwnOrg(r) /\ DOMAIN r.after = Columns(r.table)
        /\ {"op", "org", "table", "id", "after"} \subseteq DOMAIN r
    BY <1>2 DEF OwnOrg
  <1>4. request' = [request EXCEPT ![q] = r] /\ UNCHANGED <<rows, lastId, audit>>
    BY <1>2 DEF Start
  <1> HIDE DEF r
  <1>5. RequestsOk'
    BY <1>3, <1>4, Beginning DEF IInv
  <1> QED
    BY <1>4, <1>5 DEF IInv, RowsOk, AuditOk, OwnOrg

LEMMA BegunUpdate ==
    ASSUME IInv, NEW q \in Slots, BeginUpdate(q)
    PROVE  IInv'
  <1>1. PICK ctx \in Callers, t \in Resources :
           \E id \in Loaded(ctx, t), c \in Settable(t) : \E v \in Domain(c) :
              Start(q, [op |-> "update", user |-> ctx.user, org |-> ctx.org,
                        table |-> t, id |-> id, before |-> rows[id].cols,
                        after |-> [rows[id].cols EXCEPT ![c] = v]])
    BY DEF BeginUpdate
  <1>2. PICK id \in Loaded(ctx, t), c \in Settable(t) : \E v \in Domain(c) :
              Start(q, [op |-> "update", user |-> ctx.user, org |-> ctx.org,
                        table |-> t, id |-> id, before |-> rows[id].cols,
                        after |-> [rows[id].cols EXCEPT ![c] = v]])
    BY <1>1
  <1>3. PICK v \in Domain(c) :
              Start(q, [op |-> "update", user |-> ctx.user, org |-> ctx.org,
                        table |-> t, id |-> id, before |-> rows[id].cols,
                        after |-> [rows[id].cols EXCEPT ![c] = v]])
    BY <1>2
  <1> DEFINE new == [rows[id].cols EXCEPT ![c] = v]
             r == [op |-> "update", user |-> ctx.user, org |-> ctx.org,
                   table |-> t, id |-> id, before |-> rows[id].cols, after |-> new]
  <1>4. /\ id \in DOMAIN rows /\ rows[id].table = t
        /\ Scoped(t) => rows[id].cols["orgs"] = ctx.org
    BY DEF Loaded
  <1>5. DOMAIN new = Columns(t)
    BY <1>4 DEF IInv, RowsOk
  <1>6. Scoped(t) => new["orgs"] = ctx.org
    <2>1. Scoped(t) => c # "orgs" /\ "orgs" \in Columns(t)
      BY DEF Settable, Scoped, Columns
    <2> QED
      BY <2>1, <1>4, <1>5
  <1>7. /\ r.op = "update" /\ OwnOrg(r) /\ DOMAIN r.after = Columns(r.table)
        /\ r.id \in 1..lastId /\ rows[r.id].table = r.table
    BY <1>4, <1>5, <1>6 DEF OwnOrg, IInv, RowsOk
  <1>8. request' = [request EXCEPT ![q] = r] /\ UNCHANGED <<rows, lastId, audit>>
    BY <1>3 DEF Start
  <1> HIDE DEF r
  <1>9. RequestsOk'
    BY <1>7, <1>8, Beginning DEF IInv
  <1> QED
    BY <1>8, <1>9 DEF IInv, RowsOk, AuditOk, OwnOrg

LEMMA BegunDelete ==
    ASSUME IInv, NEW q \in Slots, BeginDelete(q)
    PROVE  IInv'
  <1>1. PICK ctx \in Callers, t \in Resources : \E id \in Loaded(ctx, t) :
              Start(q, [op |-> "delete", user |-> ctx.user, org |-> ctx.org,
                        table |-> t, id |-> id, before |-> rows[id].cols])
    BY DEF BeginDelete
  <1>2. PICK id \in Loaded(ctx, t) :
              Start(q, [op |-> "delete", user |-> ctx.user, org |-> ctx.org,
                        table |-> t, id |-> id, before |-> rows[id].cols])
    BY <1>1
  <1> DEFINE r == [op |-> "delete", user |-> ctx.user, org |-> ctx.org,
                   table |-> t, id |-> id, before |-> rows[id].cols]
  <1>3. /\ id \in DOMAIN rows /\ rows[id].table = t
        /\ Scoped(t) => rows[id].cols["orgs"] = ctx.org
    BY DEF Loaded
  <1>4. /\ r.op = "delete" /\ OwnOrg(r)
        /\ r.id \in 1..lastId /\ rows[r.id].table = r.table
    BY <1>3 DEF OwnOrg, IInv, RowsOk
  <1>5. request' = [request EXCEPT ![q] = r] /\ UNCHANGED <<rows, lastId, audit>>
    BY <1>2 DEF Start
  <1> HIDE DEF r
  <1>6. RequestsOk'
    BY <1>4, <1>5, Beginning DEF IInv
  <1> QED
    BY <1>5, <1>6 DEF IInv, RowsOk, AuditOk, OwnOrg

(* The seeds come before any row: no request can be about one of them. *)
LEMMA Seeding ==
    ASSUME IInv, Seed
    PROVE  IInv'
  <1>1. /\ lastId = 0 /\ rows' = Seeds /\ lastId' = Cardinality(DOMAIN Seeds)
        /\ UNCHANGED <<request, audit>>
    BY DEF Seed, Quiet
  <1>2. RowsOk'
    BY <1>1, SeedsAssumption DEF RowsOk
  <1>3. \A q \in Slots : request[q].op \in {"none", "create"}
    BY <1>1 DEF IInv, RequestsOk
  <1>4. RequestsOk'
    BY <1>1, <1>3 DEF IInv, RequestsOk, OwnOrg
  <1> QED
    BY <1>1, <1>2, <1>4 DEF IInv, AuditOk, OwnOrg

LEMMA Inductive == IInv /\ [Next]_vars => IInv'
  <1> SUFFICES ASSUME IInv, [Next]_vars PROVE IInv'
    OBVIOUS
  <1>1. CASE Upgrade
    BY <1>1, Unaffected DEF Upgrade
  <1>2. CASE Downgrade
    BY <1>2, Unaffected DEF Downgrade
  <1>3. CASE Seed
    BY <1>3, Seeding
  <1>4. ASSUME NEW q \in Slots,
               \/ BeginCreate(q) \/ BeginUpdate(q) \/ BeginDelete(q)
               \/ Create(q) \/ Update(q) \/ Delete(q)
        PROVE  IInv'
    BY <1>4, BegunCreate, BegunUpdate, BegunDelete, Creating, Updating, Deleting
  <1>5. CASE UNCHANGED vars
    BY <1>5, Unaffected DEF vars
  <1> QED
    BY <1>1, <1>2, <1>3, <1>4, <1>5 DEF Next

-----------------------------------------------------------------------------
(* Whatever requests overlap, the events of an org tell of rows that were   *)
(* that org's before and after the change (_is_org_scoped, _filter_payload  *)
(* and the queries of routers/admin.py).                                    *)
THEOREM OwnTrail == Spec => []EventsOfOwnOrg
  <1>1. IInv => EventsOfOwnOrg
    BY DEF IInv, AuditOk, OwnOrg, EventsOfOwnOrg
  <1> QED
    BY <1>1, Initially, Inductive, PTL DEF Spec

-----------------------------------------------------------------------------
(* The constraints.  Every row satisfies them because the row that a        *)
(* transaction writes does, and because what the others are held to does    *)
(* not depend on what is written: a row keeps its table, a key holds both   *)
(* ways, and nothing refers to a row that goes.                             *)
SchemaOk ==
    /\ DOMAIN schema \subseteq DOMAIN Classes
    /\ done \in 0..Len(Upgrades) /\ undone \in 0..(Len(Downgrades) - 1)

Constrained ==
    /\ lastId \in 0..MaxRows /\ served \in 0..MaxRequests
    /\ \A id \in DOMAIN rows : rows[id].table \in DOMAIN Classes /\ Fits(rows, id)
    /\ \A i \in DOMAIN audit : audit[i].org \in {0} \cup DOMAIN rows
    /\ \A q \in Slots : request[q].op # "none" => request[q].table \in DOMAIN Classes

Sound == IInv /\ SchemaOk /\ Constrained

(* One row is new, or written anew. *)
LEMMA OthersFit ==
    ASSUME NEW old, NEW new, NEW id, DOMAIN new = DOMAIN old \cup {id},
           \A x \in DOMAIN old \ {id} : new[x] = old[x],
           id \in DOMAIN old => new[id].table = old[id].table,
           \A x \in DOMAIN old : Fits(old, x),
           Fits(new, id)
    PROVE  \A x \in DOMAIN new : Fits(new, x)
  <1> SUFFICES ASSUME NEW x \in DOMAIN old, x # id PROVE Fits(new, x)
    OBVIOUS
  <1>1. new[x] = old[x] /\ Fits(old, x)
    OBVIOUS
  <1>2. \A y \in DOMAIN old : y \in DOMAIN new /\ new[y].table = old[y].table
    OBVIOUS
  <1>3. \A p \in Parents(new[x].table) :
           \/ new[x].cols[p] \in DOMAIN new /\ new[new[x].cols[p]].table = p
           \/ new[x].cols[p] = 0 /\ p \in Classes[new[x].table].optional
    BY <1>1, <1>2 DEF Fits
  <1>4. ASSUME NEW y \in DOMAIN new \ {x}, NEW key \in Classes[new[x].table].keys,
               new[y].table = new[x].table
        PROVE  \E c \in key : new[y].cols[c] # new[x].cols[c]
    <2>1. CASE y = id
      <3>1. \E c \in key : new[x].cols[c] # new[id].cols[c]
        BY <1>4, <2>1 DEF Fits
      <3> QED
        BY <2>1, <3>1
    <2>2. CASE y # id
      BY <1>1, <1>4, <2>2 DEF Fits
    <2> QED
      BY <2>1, <2>2
  <1> QED
    BY <1>3, <1>4 DEF Fits

(* A row goes that nothing refers to. *)
LEMMA RestFits ==
    ASSUME NEW old, NEW new, NEW id, DOMAIN new = DOMAIN old \ {id},
           \A x \in DOMAIN new : new[x] = old[x],
           id \in DOMAIN old => \A x \in DOMAIN old : ~Refers(old[x], id),
           \A x \in DOMAIN old : Fits(old, x)
    PROVE  \A x \in DOMAIN new : Fits(new, x)
  <1> SUFFICES ASSUME NEW x \in DOMAIN new PROVE Fits(new, x)
    OBVIOUS
  <1>1. new[x] = old[x] /\ Fits(old, x) /\ x \in DOMAIN old
    OBVIOUS
  <1>2. ASSUME NEW p \in Parents(new[x].table), new[x].cols[p] \in DOMAIN old
        PROVE  new[x].cols[p] \in DOMAIN new
    BY <1>1, <1>2 DEF Refers
  <1> QED
    BY <1>1, <1>2 DEF Fits

(* The table after a transaction satisfies the constraints, and so does     *)
(* everything that hangs on it.                                             *)
LEMMA CommitKeeps ==
    ASSUME IInv, SchemaOk, Constrained, NEW q \in Slots, NEW table, NEW e,
           Commit(q, table, e), lastId' \in 0..MaxRows,
           DOMAIN rows \subseteq DOMAIN table \/ \A i \in DOMAIN audit : audit[i].org \in {0} \cup DOMAIN table,
           \A id \in DOMAIN table : table[id].table \in DOMAIN Classes /\ Fits(table, id)
    PROVE  SchemaOk' /\ Constrained'
  <1>1. /\ rows' = table /\ audit' = Append(audit, e) /\ e.org \in {0} \cup DOMAIN table
        /\ request' = [request EXCEPT ![q] = NoRequest]
        /\ UNCHANGED <<schema, done, undone, served>>
    BY DEF Commit
  <1>2. SchemaOk'
    BY <1>1 DEF SchemaOk
  <1>3. \A id \in DOMAIN rows' : rows'[id].table \in DOMAIN Classes /\ Fits(rows', id)
    BY <1>1
  <1>4. \A i \in DOMAIN audit' : audit'[i].org \in {0} \cup DOMAIN rows'
    <2>1. \A i \in DOMAIN audit : audit[i].org \in {0} \cup DOMAIN table
      BY DEF Constrained
    <2>2. /\ DOMAIN audit = 1..Len(audit) /\ Len(audit) \in Nat
          /\ DOMAIN audit' = 1..(Len(audit) + 1)
          /\ \A i \in 1..Len(audit) : audit'[i] = audit[i]
          /\ audit'[Len(audit) + 1] = e
      BY <1>1 DEF IInv, AuditOk
    <2> QED
      BY <1>1, <2>1, <2>2
  <1>5. \A p \in Slots : request'[p].op # "none" => request'[p].table \in DOMAIN Classes
    BY <1>1 DEF Constrained, NoRequest, IInv, RequestsOk
  <1> QED
    BY <1>1, <1>2, <1>3, <1>4, <1>5 DEF Constrained

LEMMA RollbackKeeps ==
    ASSUME IInv, SchemaOk, Constrained, NEW q \in Slots, Rollback(q)
    PROVE  SchemaOk' /\ Constrained'
  <1>1. \A p \in Slots : request'[p].op # "none" => request'[p].table \in DOMAIN Classes
    BY DEF Rollback, Constrained, NoRequest, IInv, RequestsOk
  <1>2. UNCHANGED <<schema, done, undone, rows, audit, lastId, served>>
    BY DEF Rollback
  <1>3. \A id \in DOMAIN rows' : rows'[id].table \in DOMAIN Classes /\ Fits(rows', id)
    BY <1>2 DEF Constrained
  <1> QED
    BY <1>1, <1>2, <1>3 DEF SchemaOk, Constrained

LEMMA CreateKeeps ==
    ASSUME IInv, SchemaOk, Constrained, NEW q \in Slots, Create(q)
    PROVE  SchemaOk' /\ Constrained'
  <1> DEFINE r  == request[q]
             id == lastId + 1
             table == [x \in DOMAIN rows \cup {id} |->
                          IF x = id THEN [table |-> r.table, cols |-> r.after] ELSE rows[x]]
             e == [r EXCEPT !.id = id]
  <1>1. CASE Rollback(q)
    BY <1>1, RollbackKeeps
  <1>2. CASE Fits(table, id) /\ Commit(q, table, e) /\ lastId' = id
    <2>1. id \notin DOMAIN rows /\ lastId' \in 0..MaxRows
      BY <1>2, CatalogueAssumption DEF Create, IInv, RowsOk, Constrained
    <2>2. /\ DOMAIN table = DOMAIN rows \cup {id} /\ table[id].table = r.table
          /\ \A x \in DOMAIN rows \ {id} : table[x] = rows[x]
      OBVIOUS
    <2>3. r.table \in DOMAIN Classes /\ Fits(table, id) /\ Commit(q, table, e)
      BY <1>2 DEF Create, Constrained
    <2> HIDE DEF table, e, id
    <2>4. \A x \in DOMAIN table : Fits(table, x)
      BY <2>1, <2>2, <2>3, OthersFit DEF Constrained
    <2>5. \A x \in DOMAIN table : table[x].table \in DOMAIN Classes
      BY <2>1, <2>2, <2>3 DEF Constrained
    <2>6. DOMAIN rows \subseteq DOMAIN table
      BY <2>2
    <2> QED
      BY <2>1, <2>3, <2>4, <2>5, <2>6, CommitKeeps
  <1> QED
    BY <1>1, <1>2 DEF Create

LEMMA UpdateKeeps ==
    ASSUME IInv, SchemaOk, Constrained, NEW q \in Slots, Update(q)
    PROVE  SchemaOk' /\ Constrained'
  <1> DEFINE r == request[q]
             table == [rows EXCEPT ![r.id] = [table |-> r.table, cols |-> Flushed(r)]]
  <1>1. CASE Rollback(q)
    BY <1>1, RollbackKeeps
  <1>2. CASE Commit(q, rows, r) /\ UNCHANGED lastId
    <2>1. /\ lastId' \in 0..MaxRows
          /\ \A id \in DOMAIN rows : rows[id].table \in DOMAIN Classes /\ Fits(rows, id)
      BY <1>2 DEF Constrained
    <2> QED
      BY <1>2, <2>1, CommitKeeps
  <1>3. CASE /\ r.id \in DOMAIN rows /\ Fits(table, r.id)
             /\ Commit(q, table, r) /\ UNCHANGED lastId
    <2>1. r.op = "update" /\ rows[r.id].table = r.table
      BY <1>3 DEF Update, IInv, RequestsOk
    <2>2. /\ DOMAIN table = DOMAIN rows \cup {r.id} /\ table[r.id].table = r.table
          /\ \A x \in DOMAIN rows \ {r.id} : table[x] = rows[x]
      BY <1>3
    <2>3. Fits(table, r.id) /\ Commit(q, table, r) /\ lastId' \in 0..MaxRows
      BY <1>3 DEF Constrained
    <2> HIDE DEF table
    <2>4. \A x \in DOMAIN table : Fits(table, x)
      BY <2>1, <2>2, <2>3, OthersFit DEF Constrained
    <2>5. \A x \in DOMAIN table : table[x].table \in DOMAIN Classes
      BY <1>3, <2>1, <2>2 DEF Constrained
    <2>6. DOMAIN rows \subseteq DOMAIN table
      BY <2>2
    <2> QED
      BY <2>3, <2>4, <2>5, <2>6, CommitKeeps
  <1> QED
    BY <1>1, <1>2, <1>3 DEF Update

LEMMA DeleteKeeps ==
    ASSUME IInv, SchemaOk, Constrained, NEW q \in Slots, Delete(q)
    PROVE  SchemaOk' /\ Constrained'
  <1> DEFINE r == request[q]
             table == [id \in DOMAIN rows \ {r.id} |-> rows[id]]
  <1>1. CASE Rollback(q)
    BY <1>1, RollbackKeeps
  <1>2. CASE /\ r.id \in DOMAIN rows => CanGo(r.id, r.org)
             /\ Commit(q, table, r) /\ UNCHANGED lastId
    <2>1. /\ DOMAIN table = DOMAIN rows \ {r.id}
          /\ \A x \in DOMAIN table : table[x] = rows[x]
      OBVIOUS
    <2>2. /\ r.id \in DOMAIN rows => \A x \in DOMAIN rows : ~Refers(rows[x], r.id)
          /\ Commit(q, table, r) /\ lastId' \in 0..MaxRows
      BY <1>2 DEF CanGo, Constrained
    <2> HIDE DEF table
    <2>3. \A x \in DOMAIN table : Fits(table, x)
      BY <2>1, <2>2, RestFits DEF Constrained
    <2>4. \A x \in DOMAIN table : table[x].table \in DOMAIN Classes
      BY <2>1 DEF Constrained
    <2>5. \A i \in DOMAIN audit : audit[i].org \in {0} \cup DOMAIN table
      BY <1>2, <2>1 DEF CanGo, Constrained
    <2> QED
      BY <2>2, <2>3, <2>4, <2>5, CommitKeeps
  <1> QED
    BY <1>1, <1>2 DEF Delete

(* A request begins. *)
LEMMA StartKeeps ==
    ASSUME IInv, SchemaOk, Constrained, NEW q \in Slots, NEW r, Start(q, r),
           r.table \in Resources
    PROVE  SchemaOk' /\ Constrained'
  <1>1. /\ request' = [request EXCEPT ![q] = r] /\ served' = served + 1
        /\ served < MaxRequests
        /\ UNCHANGED <<schema, done, undone, rows, audit, lastId>>
    BY DEF Start
  <1>2. \A p \in Slots : request'[p].op # "none" => request'[p].table \in DOMAIN Classes
    BY <1>1, CatalogueAssumption DEF Constrained, IInv, RequestsOk
  <1>3. served' \in 0..MaxRequests
    BY <1>1, CatalogueAssumption DEF Constrained
  <1>4. \A id \in DOMAIN rows' : rows'[id].table \in DOMAIN Classes /\ Fits(rows', id)
    BY <1>1 DEF Constrained
  <1> QED
    BY <1>1, <1>2, <1>3, <1>4 DEF SchemaOk, Constrained

LEMMA BeginKeeps ==
    ASSUME IInv, SchemaOk, Constrained, NEW q \in Slots,
           BeginCreate(q) \/ BeginUpdate(q) \/ BeginDelete(q)
    PROVE  SchemaOk' /\ Constrained'
  <1>1. \E r : Start(q, r) /\ r.table \in Resources
    <2>1. CASE BeginCreate(q)
      <3>1. PICK ctx \in Callers, t \in Resources :
               \E given \in [Columns(t) -> 0..lastId \cup Values] :
                  Start(q, [op |-> "create", user |-> ctx.user, org |-> ctx.org,
                            table |-> t, id |-> 0, after |-> given])
        BY <2>1 DEF BeginCreate
      <3> QED
        BY <3>1
    <2>2. CASE BeginUpdate(q)
      <3>1. PICK ctx \in Callers, t \in Resources :
               \E id \in Loaded(ctx, t), c \in Settable(t) : \E v \in Domain(c) :
                  Start(q, [op |-> "update", user |-> ctx.user, org |-> ctx.org,
                            table |-> t, id |-> id, before |-> rows[id].cols,
                            after |-> [rows[id].cols EXCEPT ![c] = v]])
        BY <2>2 DEF BeginUpdate
      <3> QED
        BY <3>1
    <2>3. CASE BeginDelete(q)
      <3>1. PICK ctx \in Callers, t \in Resources : \E id \in Loaded(ctx, t) :
                  Start(q, [op |-> "delete", user |-> ctx.user, org |-> ctx.org,
                            table |-> t, id |-> id, before |-> rows[id].cols])
        BY <2>3 DEF BeginDelete
      <3> QED
        BY <3>1
    <2> QED
      BY <2>1, <2>2, <2>3
  <1> QED
    BY <1>1, StartKeeps

LEMMA MigrationKeeps ==
    ASSUME IInv, SchemaOk, Constrained, Upgrade \/ Downgrade
    PROVE  SchemaOk' /\ Constrained'
  <1>1. Constrained'
    <2>1. UNCHANGED <<rows, audit, request, lastId, served>>
      BY DEF Upgrade, Downgrade
    <2>2. \A id \in DOMAIN rows' : rows'[id].table \in DOMAIN Classes /\ Fits(rows', id)
      BY <2>1 DEF Constrained
    <2> QED
      BY <2>1, <2>2 DEF Constrained
  <1>2. CASE Upgrade
    <2>1. done + 1 \in 1..Len(Upgrades) /\ done' = done + 1 /\ undone' = undone
      BY <1>2, CatalogueAssumption DEF Upgrade, SchemaOk
    <2>3. DOMAIN schema' = DOMAIN schema \cup {Upgrades[done + 1][1]}
      BY <1>2 DEF Upgrade
    <2>4. Upgrades[done + 1][1] \in DOMAIN Classes
      BY <2>1, CatalogueAssumption
    <2>5. done' \in 0..Len(Upgrades)
      BY <2>1, CatalogueAssumption
    <2> QED
      BY <1>1, <2>1, <2>3, <2>4, <2>5 DEF SchemaOk
  <1>3. CASE Downgrade
    <2>1. DOMAIN schema' \subseteq DOMAIN schema
      BY <1>3 DEF Downgrade
    <2>2. /\ \/ done' = 0 /\ undone' = 0
             \/ undone' = undone + 1 /\ undone + 1 # Len(Downgrades) /\ done' = done
      BY <1>3 DEF Downgrade
    <2>3. done' \in 0..Len(Upgrades) /\ undone' \in 0..(Len(Downgrades) - 1)
      BY <2>2, CatalogueAssumption DEF SchemaOk
    <2> QED
      BY <1>1, <2>1, <2>3 DEF SchemaOk
  <1> QED
    BY <1>2, <1>3

LEMMA SeedKeeps ==
    ASSUME IInv, SchemaOk, Constrained, Seed
    PROVE  SchemaOk' /\ Constrained'
  <1>1. /\ rows = << >> /\ rows' = Seeds /\ lastId' = Cardinality(DOMAIN Seeds)
        /\ UNCHANGED <<schema, done, undone, audit, request, served>>
    BY DEF Seed, Quiet
  <1>2. \A id \in DOMAIN rows' : rows'[id].table \in DOMAIN Classes /\ Fits(rows', id)
    BY <1>1, SeedsAssumption
  <1>3. \A i \in DOMAIN audit : audit[i].org \in {0} \cup DOMAIN rows'
    BY <1>1 DEF Constrained
  <1>4. lastId' \in 0..MaxRows
    BY <1>1, SeedsAssumption
  <1> QED
    BY <1>1, <1>2, <1>3, <1>4 DEF SchemaOk, Constrained

LEMMA SoundFirst == Init => Sound
  <1> SUFFICES ASSUME Init PROVE Sound
    OBVIOUS
  <1>1. SchemaOk
    BY CatalogueAssumption DEF Init, SchemaOk
  <1>2. Constrained
    BY CatalogueAssumption DEF Init, Constrained, NoRequest
  <1> QED
    BY <1>1, <1>2, Initially DEF Sound

LEMMA SoundInductive == Sound /\ [Next]_vars => Sound'
  <1> SUFFICES ASSUME IInv, SchemaOk, Constrained, [Next]_vars
               PROVE  SchemaOk' /\ Constrained'
    BY Inductive DEF Sound
  <1>1. CASE Upgrade \/ Downgrade
    BY <1>1, MigrationKeeps
  <1>2. CASE Seed
    BY <1>2, SeedKeeps
  <1>3. ASSUME NEW q \in Slots, BeginCreate(q) \/ BeginUpdate(q) \/ BeginDelete(q)
        PROVE  SchemaOk' /\ Constrained'
    BY <1>3, BeginKeeps
  <1>4. ASSUME NEW q \in Slots, Create(q) \/ Update(q) \/ Delete(q)
        PROVE  SchemaOk' /\ Constrained'
    BY <1>4, CreateKeeps, UpdateKeeps, DeleteKeeps
  <1>5. CASE UNCHANGED vars
    <2>1. UNCHANGED <<schema, done, undone, rows, audit, request, lastId, served>>
      BY <1>5 DEF vars
    <2>2. \A id \in DOMAIN rows' : rows'[id].table \in DOMAIN Classes /\ Fits(rows', id)
      BY <2>1 DEF Constrained
    <2> QED
      BY <2>1, <2>2 DEF SchemaOk, Constrained
  <1> QED
    BY <1>1, <1>2, <1>3, <1>4, <1>5 DEF Next

(* Type correctness: whatever requests overlap, and whichever of them are   *)
(* refused, every row satisfies the foreign keys and unique constraints of  *)
(* its table, and every audit event belongs to an org that is there         *)
(* (create_resource, update_resource and delete_resource commit the row     *)
(* and its event in one transaction, and the constraints are the            *)
(* database's).                                                             *)
THEOREM TypeCorrect == Spec => []CatalogueTypeOK
  <1>1. Sound => CatalogueTypeOK
    BY DEF Sound, IInv, RowsOk, RequestsOk, SchemaOk, Constrained, CatalogueTypeOK
  <1> QED
    BY <1>1, SoundFirst, SoundInductive, PTL DEF Spec

-----------------------------------------------------------------------------
(* The audit trail as a program.  FoldLeft goes over the sets of places, so *)
(* that its value is proved over these: Folding(f, s) says that f is what   *)
(* it computes.                                                             *)
Folding(f, s, n) ==
    f = [S \in SUBSET (1..n) |->
            IF S = {} THEN Seeds ELSE Replay(f[S \ {Max(S)}], s[Max(S)])]

LEMMA FoldIs ==
    ASSUME NEW s, NEW n \in Nat, DOMAIN s = 1..n
    PROVE  FoldLeft(Replay, Seeds, s) = (CHOOSE f : Folding(f, s, n))[1..n]
  BY Zenon DEF FoldLeft, MapThenFoldSet, Folding

LEMMA FoldingIsThere ==
    ASSUME NEW s, NEW n \in Nat
    PROVE  \E f : Folding(f, s, n)
  <1> DEFINE T == {m \in Nat : \E f : Folding(f, s, m)}
  <1>1. 0 \in T
    <2> DEFINE f == [S \in SUBSET (1..0) |-> Seeds]
    <2>1. \A S \in SUBSET (1..0) : S = {}
      OBVIOUS
    <2>2. f = [S \in SUBSET (1..0) |->
                  IF S = {} THEN Seeds ELSE Replay(f[S \ {Max(S)}], s[Max(S)])]
      BY <2>1, Zenon
    <2> HIDE DEF f
    <2> QED
      BY <2>2 DEF Folding
  <1>2. ASSUME NEW m \in Nat, NEW f, Folding(f, s, m)
        PROVE  \E g : Folding(g, s, m + 1)
    <2> DEFINE D == SUBSET (1..(m + 1))
               g == [S \in D |-> IF m + 1 \in S THEN Replay(f[S \ {m + 1}], s[m + 1]) ELSE f[S]]
    <2>1. \A S \in D : m + 1 \notin S => S \in SUBSET (1..m)
      OBVIOUS
    <2>2. \A S \in D : m + 1 \in S => Max(S) = m + 1
      <3> SUFFICES ASSUME NEW S \in D, m + 1 \in S PROVE Max(S) = m + 1
        OBVIOUS
      <3>1. \A y \in S : y \in Nat /\ m + 1 >= y
        OBVIOUS
      <3>2. \A x \in S : (\A y \in S : x >= y) => x = m + 1
        BY <3>1
      <3> QED
        BY <3>1, <3>2 DEF Max
    <2>3. \A S \in SUBSET (1..m) :
             f[S] = IF S = {} THEN Seeds ELSE Replay(f[S \ {Max(S)}], s[Max(S)])
      BY <1>2, Zenon DEF Folding
    <2>4. \A S \in D : m + 1 \notin S => g[S] = f[S]
      OBVIOUS
    <2>5. ASSUME NEW S \in D
          PROVE  g[S] = IF S = {} THEN Seeds ELSE Replay(g[S \ {Max(S)}], s[Max(S)])
      <3>1. CASE m + 1 \in S
        <4>1. S \ {m + 1} \in D /\ m + 1 \notin S \ {m + 1}
          OBVIOUS
        <4>2. g[S \ {m + 1}] = f[S \ {m + 1}]
          BY <2>4, <4>1
        <4>3. g[S] = Replay(f[S \ {m + 1}], s[m + 1])
          BY <3>1, Zenon
        <4>4. S # {} /\ Max(S) = m + 1
          BY <2>2, <3>1
        <4> HIDE DEF g
        <4> QED
          BY <4>2, <4>3, <4>4, Zenon
      <3>2. CASE m + 1 \notin S
        <4>1. S \in SUBSET (1..m) /\ g[S] = f[S]
          BY <2>1, <2>4, <3>2
        <4>2. S \ {Max(S)} \in D /\ m + 1 \notin S \ {Max(S)}
          BY <3>2
        <4>3. g[S \ {Max(S)}] = f[S \ {Max(S)}]
          BY <2>4, <4>2
        <4> HIDE DEF g
        <4> QED
          BY <2>3, <4>1, <4>3, Zenon
      <3> QED
        BY <3>1, <3>2
    <2>6. g = [S \in D |-> g[S]]
      BY Zenon
    <2> HIDE DEF g
    <2>7. g = [S \in D |-> IF S = {} THEN Seeds ELSE Replay(g[S \ {Max(S)}], s[Max(S)])]
      BY <2>5, <2>6, Zenon
    <2> QED
      BY <2>7 DEF Folding
  <1>3. \A m \in Nat : m \in T => m + 1 \in T
    BY <1>2
  <1> HIDE DEF T
  <1>4. n \in T
    BY <1>1, <1>3, Climbing
  <1> QED
    BY <1>4 DEF T

(* The fold over the first places. *)
LEMMA FoldingAt ==
    ASSUME NEW f, NEW s, NEW n \in Nat, Folding(f, s, n)
    PROVE  /\ f[1..0] = Seeds
           /\ \A m \in Nat : m + 1 <= n => f[1..(m + 1)] = Replay(f[1..m], s[m + 1])
  <1>1. \A S \in SUBSET (1..n) :
           f[S] = IF S = {} THEN Seeds ELSE Replay(f[S \ {Max(S)}], s[Max(S)])
    BY Zenon DEF Folding
  <1>2. 1..0 = {} /\ 1..0 \in SUBSET (1..n)
    OBVIOUS
  <1>3. f[1..0] = Seeds
    BY <1>1, <1>2
  <1>4. ASSUME NEW m \in Nat, m + 1 <= n
        PROVE  f[1..(m + 1)] = Replay(f[1..m], s[m + 1])
    <2> DEFINE S == 1..(m + 1)
    <2>1. S \in SUBSET (1..n) /\ S # {}
      BY <1>4
    <2>2. Max(S) = m + 1
      <3>1. m + 1 \in S /\ \A y \in S : y \in Nat /\ m + 1 >= y
        OBVIOUS
      <3>2. \A x \in S : (\A y \in S : x >= y) => x = m + 1
        BY <3>1
      <3> HIDE DEF S
      <3> QED
        BY <3>1, <3>2 DEF Max
    <2>3. S \ {m + 1} = 1..m
      OBVIOUS
    <2> HIDE DEF S
    <2>4. f[S] = Replay(f[1..m], s[m + 1])
      BY <1>1, <2>1, <2>2, <2>3, Zenon
    <2> QED
      BY <2>4 DEF S
  <1> QED
    BY <1>3, <1>4

(* One more event is one more change. *)
LEMMA FoldStep ==
    ASSUME NEW s, NEW t, NEW n \in Nat, DOMAIN s = 1..n, DOMAIN t = 1..(n + 1),
           \A i \in 1..n : t[i] = s[i]
    PROVE  FoldLeft(Replay, Seeds, t) = Replay(FoldLeft(Replay, Seeds, s), t[n + 1])
  <1> DEFINE f == CHOOSE h : Folding(h, s, n)
             g == CHOOSE h : Folding(h, t, n + 1)
  <1>1. n + 1 \in Nat
    OBVIOUS
  <1>2. /\ FoldLeft(Replay, Seeds, s) = f[1..n]
        /\ FoldLeft(Replay, Seeds, t) = g[1..(n + 1)]
    BY <1>1, FoldIs
  <1>3. Folding(f, s, n)
    BY FoldingIsThere
  <1>4. Folding(g, t, n + 1)
    BY <1>1, FoldingIsThere
  <1> HIDE DEF f, g
  <1>5. /\ f[1..0] = Seeds
        /\ \A m \in Nat : m + 1 <= n => f[1..(m + 1)] = Replay(f[1..m], s[m + 1])
    BY <1>3, FoldingAt
  <1>6. /\ g[1..0] = Seeds
        /\ \A m \in Nat : m + 1 <= n + 1 => g[1..(m + 1)] = Replay(g[1..m], t[m + 1])
    BY <1>1, <1>4, FoldingAt
  <1> DEFINE T == {m \in Nat : m <= n => f[1..m] = g[1..m]}
  <1>7. 0 \in T
    BY <1>5, <1>6
  <1>8. ASSUME NEW m \in Nat, m \in T, m + 1 <= n PROVE f[1..(m + 1)] = g[1..(m + 1)]
    <2>1. m <= n /\ m + 1 <= n + 1 /\ m + 1 \in 1..n
      BY <1>8
    <2>2. f[1..m] = g[1..m] /\ t[m + 1] = s[m + 1]
      BY <1>8, <2>1
    <2>3. /\ f[1..(m + 1)] = Replay(f[1..m], s[m + 1])
          /\ g[1..(m + 1)] = Replay(g[1..m], t[m + 1])
      BY <1>5, <1>6, <1>8, <2>1
    <2> QED
      BY <2>2, <2>3, Zenon
  <1>9. \A m \in Nat : m \in T => m + 1 \in T
    BY <1>8
  <1> HIDE DEF T
  <1>10. n \in T
    BY <1>7, <1>9, Climbing
  <1>11. f[1..n] = g[1..n]
    BY <1>10 DEF T
  <1>12. g[1..(n + 1)] = Replay(g[1..n], t[n + 1])
    BY <1>6
  <1> QED
    BY <1>2, <1>11, <1>12, Zenon

(* No event, no change. *)
LEMMA FoldFirst == FoldLeft(Replay, Seeds, << >>) = Seeds
  <1>1. DOMAIN << >> = 1..0
    OBVIOUS
  <1>2. FoldLeft(Replay, Seeds, << >>) = (CHOOSE f : Folding(f, << >>, 0))[1..0]
    BY <1>1, FoldIs
  <1>3. Folding(CHOOSE f : Folding(f, << >>, 0), << >>, 0)
    BY FoldingIsThere
  <1> QED
    BY <1>2, <1>3, FoldingAt

-----------------------------------------------------------------------------
(* The trail tells every change.  A row is a record of the columns of its   *)
(* table and nothing more, which is what replaying a change leaves alone;   *)
(* and nobody can ask for a change before there is an org to be a member    *)
(* of, so that the trail starts at the seeds.                               *)
Whole ==
    /\ rows = [id \in DOMAIN rows |-> rows[id]]
    /\ \A id \in DOMAIN rows :
          rows[id] = [table |-> rows[id].table,
                      cols  |-> [c \in Columns(rows[id].table) |-> rows[id].cols[c]]]

Prepared ==
    \A q \in Slots : request[q].op = "create" =>
        request[q].after = [c \in Columns(request[q].table) |-> request[q].after[c]]

Fresh == lastId = 0 => audit = << >> /\ \A q \in Slots : request[q].op = "none"

Told == IInv /\ Whole /\ Prepared /\ Fresh /\ AuditReplays

(* Nobody is allowed anything in an empty database. *)
LEMMA NobodyYet ==
    ASSUME RowsOk, lastId = 0, NEW ctx \in Callers, NEW t, NEW action
    PROVE  ~Allowed(ctx, t, action)
  <1>1. DOMAIN rows = {}
    BY DEF RowsOk
  <1>2. PICK user \in DOMAIN Directory \cup {NoOne}, org \in Orgs : ctx \in Contexts(user, org)
    BY DEF Callers
  <1>3. org = 0 /\ ~DemoResolves
    BY <1>1 DEF Orgs, DemoResolves
  <1>4. user \in DOMAIN Directory /\ ctx = Context(user, 0)
    BY <1>2, <1>3 DEF Contexts
  <1>5. ctx.permissions = {}
    BY <1>4, DirectoryAssumption DEF Context, Permissions
  <1> QED
    BY <1>5 DEF Allowed

LEMMA BegunLate ==
    ASSUME IInv, NEW q \in Slots, BeginCreate(q) \/ BeginUpdate(q) \/ BeginDelete(q)
    PROVE  lastId # 0
  <1>1. \E ctx \in Callers : \E t, action : Allowed(ctx, t, action)
    <2>1. CASE BeginCreate(q)
      BY <2>1 DEF BeginCreate
    <2>2. CASE BeginUpdate(q)
      BY <2>2 DEF BeginUpdate
    <2>3. CASE BeginDelete(q)
      BY <2>3 DEF BeginDelete
    <2> QED
      BY <2>1, <2>2, <2>3
  <1> QED
    BY <1>1, NobodyYet DEF IInv

(* A change and its event. *)
LEMMA Recorded ==
    ASSUME Told, lastId # 0, NEW e, audit' = Append(audit, e), rows' = Replay(rows, e)
    PROVE  FoldLeft(Replay, Seeds, audit') = rows'
  <1> DEFINE n == Len(audit)
  <1>1. /\ n \in Nat /\ DOMAIN audit = 1..n /\ DOMAIN audit' = 1..(n + 1)
        /\ \A i \in 1..n : audit'[i] = audit[i]
        /\ audit'[n + 1] = e
    BY DEF Told, IInv, AuditOk
  <1>2. FoldLeft(Replay, Seeds, audit) = rows
    BY DEF Told, IInv, RowsOk, AuditReplays
  <1> HIDE DEF n
  <1>3. FoldLeft(Replay, Seeds, audit') = Replay(FoldLeft(Replay, Seeds, audit), audit'[n + 1])
    BY <1>1, FoldStep
  <1> QED
    BY <1>1, <1>2, <1>3, Zenon

(* The rest of a transaction. *)
LEMMA Concluded ==
    ASSUME Told, NEW q \in Slots, request[q].op # "none", NEW e,
           audit' = Append(audit, e), rows' = Replay(rows, e),
           request' = [request EXCEPT ![q] = NoRequest],
           lastId' \in {lastId, lastId + 1},
           Whole', IInv'
    PROVE  Told'
  <1>1. lastId # 0
    BY DEF Told, Fresh
  <1>2. AuditReplays'
    BY <1>1, Recorded DEF AuditReplays
  <1>3. Prepared'
    BY DEF Told, Prepared, IInv, RequestsOk, NoRequest
  <1>4. Fresh'
    BY <1>1 DEF Told, IInv, RowsOk, Fresh
  <1> QED
    BY <1>2, <1>3, <1>4 DEF Told

LEMMA RollbackTold ==
    ASSUME Told, NEW q \in Slots, Rollback(q)
    PROVE  Told'
  <1>1. /\ request' = [request EXCEPT ![q] = NoRequest]
        /\ UNCHANGED <<rows, audit, lastId>>
    BY DEF Rollback
  <1>2. IInv'
    BY RolledBack DEF Told
  <1>3. \A p \in Slots : request'[p] = request[p] \/ request'[p].op = "none"
    BY <1>1 DEF Told, IInv, RequestsOk, NoRequest
  <1>4. Prepared' /\ Fresh'
    BY <1>1, <1>3 DEF Told, Prepared, Fresh
  <1>5. Whole' /\ AuditReplays'
    BY <1>1 DEF Told, Whole, AuditReplays
  <1> QED
    BY <1>2, <1>4, <1>5 DEF Told

LEMMA CreateTold ==
    ASSUME Told, NEW q \in Slots, Create(q)
    PROVE  Told'
  <1> DEFINE r  == request[q]
             id == lastId + 1
             new == [table |-> r.table, cols |-> r.after]
             table == [x \in DOMAIN rows \cup {id} |-> IF x = id THEN new ELSE rows[x]]
             e == [r EXCEPT !.id = id]
  <1>1. CASE Rollback(q)
    BY <1>1, RollbackTold
  <1>2. CASE Commit(q, table, e) /\ lastId' = id
    <2>1. /\ r.op = "create" /\ {"op", "org", "table", "id", "after"} \subseteq DOMAIN r
          /\ r.after = [c \in Columns(r.table) |-> r.after[c]]
      BY DEF Create, Told, IInv, RequestsOk, Prepared
    <2>2. e.op = "create" /\ e.id = id /\ e.table = r.table /\ e.after = r.after
      BY <2>1
    <2>3. /\ rows' = table /\ audit' = Append(audit, e)
          /\ request' = [request EXCEPT ![q] = NoRequest]
      BY <1>2 DEF Commit
    <2> HIDE DEF e, id
    <2>4. rows' = Replay(rows, e)
      BY <2>2, <2>3 DEF Replay
    <2>5. Whole'
      <3>1. rows' = [x \in DOMAIN rows' |-> rows'[x]]
        BY <2>3
      <3>2. /\ DOMAIN rows' = DOMAIN rows \cup {id} /\ rows'[id] = new
            /\ \A x \in DOMAIN rows \ {id} : rows'[x] = rows[x]
        BY <2>3
      <3>3. new = [table |-> new.table, cols |-> [c \in Columns(new.table) |-> new.cols[c]]]
        BY <2>1
      <3> HIDE DEF new, table
      <3> QED
        BY <3>1, <3>2, <3>3 DEF Whole, Told
    <2>6. IInv'
      BY Creating DEF Told
    <2> QED
      BY <1>2, <2>1, <2>3, <2>4, <2>5, <2>6, Concluded DEF id
  <1> QED
    BY <1>1, <1>2 DEF Create

(* Of a row, one field. *)
LEMMA OneColumn ==
    ASSUME NEW row, NEW cols, row = [table |-> row.table, cols |-> row.cols]
    PROVE  [row EXCEPT !.cols = cols] = [table |-> row.table, cols |-> cols]
  OBVIOUS

LEMMA UpdateTold ==
    ASSUME Told, NEW q \in Slots, Update(q)
    PROVE  Told'
  <1> DEFINE r == request[q]
             new == [table |-> r.table, cols |-> Flushed(r)]
             table == [rows EXCEPT ![r.id] = new]
             set(cols) == [c \in DOMAIN cols |-> IF r.before[c] # r.after[c] THEN r.after[c]
                                                                             ELSE cols[c]]
  <1>1. CASE Rollback(q)
    BY <1>1, RollbackTold
  <1>2. /\ r.op = "update" /\ DOMAIN r.after = Columns(r.table)
        /\ r.id \in DOMAIN rows => rows[r.id].table = r.table
    BY DEF Update, Told, IInv, RequestsOk
  <1>3. IInv'
    BY Updating DEF Told
  <1>4. Replay(rows, r) = [x \in DOMAIN rows |->
                              IF x # r.id THEN rows[x]
                              ELSE [rows[x] EXCEPT !.cols = set(rows[x].cols)]]
    BY <1>2 DEF Replay
  <1>5. ASSUME NEW x \in DOMAIN rows
        PROVE  /\ rows[x].cols = [c \in Columns(rows[x].table) |-> rows[x].cols[c]]
               /\ rows[x] = [table |-> rows[x].table, cols |-> rows[x].cols]
    BY DEF Told, Whole
  <1>6. ASSUME NEW x \in DOMAIN rows
        PROVE  [rows[x] EXCEPT !.cols = set(rows[x].cols)]
                  = [table |-> rows[x].table, cols |-> set(rows[x].cols)]
    BY <1>5, OneColumn
  <1>7. rows = [x \in DOMAIN rows |-> rows[x]]
    BY DEF Told, Whole
  <1>8. CASE r.before = r.after /\ Commit(q, rows, r) /\ UNCHANGED lastId
    <2>1. /\ rows' = rows /\ audit' = Append(audit, r)
          /\ request' = [request EXCEPT ![q] = NoRequest]
      BY <1>8 DEF Commit
    <2>2. ASSUME NEW x \in DOMAIN rows
          PROVE  set(rows[x].cols) = rows[x].cols
      <3>1. set(rows[x].cols) = [c \in DOMAIN rows[x].cols |-> rows[x].cols[c]]
        BY <1>8
      <3>2. rows[x].cols = [c \in DOMAIN rows[x].cols |-> rows[x].cols[c]]
        BY <1>5
      <3> QED
        BY <3>1, <3>2, Zenon
    <2> HIDE DEF set
    <2>3. Replay(rows, r) = [x \in DOMAIN rows |-> rows[x]]
      <3>1. ASSUME NEW x \in DOMAIN rows
            PROVE  [rows[x] EXCEPT !.cols = set(rows[x].cols)] = rows[x]
        <4>1. [rows[x] EXCEPT !.cols = set(rows[x].cols)]
                 = [table |-> rows[x].table, cols |-> rows[x].cols]
          BY <1>6, <2>2
        <4> QED
          BY <1>5, <4>1
      <3> QED
        BY <1>4, <3>1, Zenon
    <2>4. Whole'
      BY <2>1 DEF Told, Whole
    <2> QED
      BY <1>2, <1>3, <1>7, <1>8, <2>1, <2>3, <2>4, Concluded
  <1>9. CASE r.id \in DOMAIN rows /\ Commit(q, table, r) /\ UNCHANGED lastId
    <2>1. /\ rows' = table /\ audit' = Append(audit, r)
          /\ request' = [request EXCEPT ![q] = NoRequest]
      BY <1>9 DEF Commit
    <2>2. DOMAIN rows[r.id].cols = DOMAIN r.after
      BY <1>2, <1>5, <1>9
    <2>3. set(rows[r.id].cols) = Flushed(r)
      BY <2>2 DEF Flushed
    <2>4. rows' = [x \in DOMAIN rows |-> IF x # r.id THEN rows[x] ELSE new]
      BY <2>1
    <2> HIDE DEF set
    <2>5. rows' = Replay(rows, r)
      BY <1>2, <1>4, <1>6, <1>9, <2>3, <2>4
    <2>6. Whole'
      <3>1. rows' = [x \in DOMAIN rows' |-> rows'[x]]
        BY <2>4
      <3>2. /\ DOMAIN rows' = DOMAIN rows /\ rows'[r.id] = new
            /\ \A x \in DOMAIN rows : x # r.id => rows'[x] = rows[x]
        BY <1>9, <2>4
      <3>3. new = [table |-> new.table, cols |-> [c \in Columns(new.table) |-> new.cols[c]]]
        BY <1>2 DEF Flushed
      <3> HIDE DEF new, table
      <3> QED
        BY <3>1, <3>2, <3>3 DEF Whole, Told
    <2> QED
      BY <1>2, <1>3, <1>9, <2>1, <2>5, <2>6, Concluded
  <1> QED
    BY <1>1, <1>8, <1>9 DEF Update

LEMMA DeleteTold ==
    ASSUME Told, NEW q \in Slots, Delete(q)
    PROVE  Told'
  <1> DEFINE r == request[q]
             table == [id \in DOMAIN rows \ {r.id} |-> rows[id]]
  <1>1. CASE Rollback(q)
    BY <1>1, RollbackTold
  <1>2. CASE Commit(q, table, r) /\ UNCHANGED lastId
    <2>1. /\ rows' = table /\ audit' = Append(audit, r) /\ r.op = "delete"
          /\ request' = [request EXCEPT ![q] = NoRequest]
      BY <1>2 DEF Commit, Delete
    <2>2. rows' = Replay(rows, r)
      BY <2>1 DEF Replay
    <2>3. Whole'
      <3>1. /\ rows' = [x \in DOMAIN rows' |-> rows'[x]]
            /\ \A x \in DOMAIN rows' : x \in DOMAIN rows /\ rows'[x] = rows[x]
        BY <2>1
      <3> QED
        BY <3>1 DEF Whole, Told
    <2>4. IInv'
      BY Deleting DEF Told
    <2> QED
      BY <1>2, <2>1, <2>2, <2>3, <2>4, Concluded
  <1> QED
    BY <1>1, <1>2 DEF Delete

(* A request that begins changes no row. *)
LEMMA StartTold ==
    ASSUME Told, IInv', lastId # 0, NEW q \in Slots, NEW r, Start(q, r),
           r.op = "create" => r.after = [c \in Columns(r.table) |-> r.after[c]]
    PROVE  Told'
  <1>1. /\ request' = [request EXCEPT ![q] = r]
        /\ UNCHANGED <<rows, audit, lastId>>
    BY DEF Start
  <1>2. \A p \in Slots : request'[p] = request[p] \/ request'[p] = r
    BY <1>1 DEF Told, IInv, RequestsOk
  <1>3. Prepared' /\ Fresh'
    BY <1>1, <1>2 DEF Told, Prepared, Fresh
  <1>4. Whole' /\ AuditReplays'
    BY <1>1 DEF Told, Whole, AuditReplays
  <1> QED
    BY <1>3, <1>4 DEF Told

LEMMA BeginTold ==
    ASSUME Told, NEW q \in Slots, BeginCreate(q) \/ BeginUpdate(q) \/ BeginDelete(q)
    PROVE  Told'
  <1>1. IInv' /\ lastId # 0
    BY BegunCreate, BegunUpdate, BegunDelete, BegunLate DEF Told
  <1>2. CASE BeginCreate(q)
    <2>1. PICK ctx \in Callers, t \in Resources :
             \E given \in [Columns(t) -> 0..lastId \cup Values] :
                Start(q, [op |-> "create", user |-> ctx.user, org |-> ctx.org,
                          table |-> t, id |-> 0, after |-> given])
      BY <1>2 DEF BeginCreate
    <2>2. PICK given \in [Columns(t) -> 0..lastId \cup Values] :
                Start(q, [op |-> "create", user |-> ctx.user, org |-> ctx.org,
                          table |-> t, id |-> 0, after |-> given])
      BY <2>1
    <2> DEFINE r == [op |-> "create", user |-> ctx.user, org |-> ctx.org,
                     table |-> t, id |-> 0, after |-> given]
    <2>3. Start(q, r) /\ r.after = [c \in Columns(r.table) |-> r.after[c]]
      BY <2>2
    <2> HIDE DEF r
    <2> QED
      BY <1>1, <2>3, StartTold
  <1>3. CASE BeginUpdate(q)
    <2>1. PICK ctx \in Callers, t \in Resources :
             \E id \in Loaded(ctx, t), c \in Settable(t) : \E v \in Domain(c) :
                Start(q, [op |-> "update", user |-> ctx.user, org |-> ctx.org,
                          table |-> t, id |-> id, before |-> rows[id].cols,
                          after |-> [rows[id].cols EXCEPT ![c] = v]])
      BY <1>3 DEF BeginUpdate
    <2>2. \E r : Start(q, r) /\ r.op = "update"
      BY <2>1
    <2> QED
      BY <1>1, <2>2, StartTold
  <1>4. CASE BeginDelete(q)
    <2>1. PICK ctx \in Callers, t \in Resources : \E id \in Loaded(ctx, t) :
                Start(q, [op |-> "delete", user |-> ctx.user, org |-> ctx.org,
                          table |-> t, id |-> id, before |-> rows[id].cols])
      BY <1>4 DEF BeginDelete
    <2>2. \E r : Start(q, r) /\ r.op = "delete"
      BY <2>1
    <2> QED
      BY <1>1, <2>2, StartTold
  <1> QED
    BY <1>2, <1>3, <1>4

LEMMA SeedTold ==
    ASSUME Told, Seed
    PROVE  Told'
  <1>1. /\ lastId = 0 /\ rows' = Seeds /\ UNCHANGED <<audit, request>>
    BY DEF Seed, Quiet
  <1>2. audit' = << >> /\ \A q \in Slots : request'[q].op = "none"
    BY <1>1 DEF Told, Fresh
  <1>3. IInv'
    BY Seeding DEF Told
  <1>4. Whole'
    <2>1. /\ Seeds = [id \in DOMAIN Seeds |-> Seeds[id]]
          /\ \A id \in DOMAIN Seeds :
                Seeds[id] = [table |-> Seeds[id].table,
                             cols  |-> [c \in Columns(Seeds[id].table) |-> Seeds[id].cols[c]]]
      <3> DEFINE row(id) == [table |-> Seeds[id].table,
                             cols  |-> [c \in Columns(Seeds[id].table) |-> Seeds[id].cols[c]]]
      <3> DEFINE g == [id \in 1..Cardinality(DOMAIN Seeds) |-> row(id)]
      <3>1. Seeds = g
        BY SeedsAssumption
      <3> HIDE DEF row
      <3>2. g = [id \in DOMAIN g |-> g[id]] /\ \A id \in DOMAIN g : g[id] = row(id)
        OBVIOUS
      <3> HIDE DEF g
      <3>3. /\ Seeds = [id \in DOMAIN Seeds |-> Seeds[id]]
            /\ \A id \in DOMAIN Seeds : Seeds[id] = row(id)
        BY <3>1, <3>2
      <3> QED
        BY <3>3 DEF row
    <2> QED
      BY <1>1, <2>1 DEF Whole
  <1>5. Prepared' /\ Fresh'
    BY <1>2 DEF Prepared, Fresh
  <1>6. AuditReplays'
    BY <1>1, <1>2, FoldFirst DEF AuditReplays
  <1> QED
    BY <1>3, <1>4, <1>5, <1>6 DEF Told

LEMMA ToldFirst == Init => Told
  <1> SUFFICES ASSUME Init PROVE Told
    OBVIOUS
  <1>1. rows = << >> /\ audit = << >> /\ lastId = 0 /\ \A q \in Slots : request[q].op = "none"
    BY DEF Init, NoRequest
  <1>2. Whole
    BY <1>1 DEF Whole
  <1>3. Prepared /\ Fresh /\ AuditReplays
    BY <1>1 DEF Prepared, Fresh, AuditReplays
  <1> QED
    BY <1>2, <1>3, Initially DEF Told

LEMMA ToldInductive == Told /\ [Next]_vars => Told'
  <1> SUFFICES ASSUME Told, [Next]_vars PROVE Told'
    OBVIOUS
  <1>1. CASE Seed
    BY <1>1, SeedTold
  <1>2. ASSUME NEW q \in Slots,
               \/ BeginCreate(q) \/ BeginUpdate(q) \/ BeginDelete(q)
               \/ Create(q) \/ Update(q) \/ Delete(q)
        PROVE  Told'
    BY <1>2, BeginTold, CreateTold, UpdateTold, DeleteTold
  <1>3. CASE Upgrade \/ Downgrade \/ UNCHANGED vars
    <2>1. UNCHANGED <<rows, audit, request, lastId>>
      BY <1>3 DEF Upgrade, Downgrade, vars
    <2>2. IInv'
      BY <2>1, Unaffected DEF Told
    <2> QED
      BY <2>1, <2>2 DEF Told, Whole, Prepared, Fresh, AuditReplays
  <1> QED
    BY <1>1, <1>2, <1>3 DEF Next

(* The audit events, replayed in their order over the seeds, give the rows  *)
(* there are: for any number of requests, of which several may have loaded  *)
(* a row before one of them wrote it or deleted it (update_resource records *)
(* what differs between the row it loaded and the row it left, and the ORM  *)
(* writes these columns only).                                              *)
THEOREM TrailReplays == Spec => []AuditReplays
  <1>1. Told => AuditReplays
    BY DEF Told
  <1> QED
    BY <1>1, ToldFirst, ToldInductive, PTL DEF Spec
=============================================================================
