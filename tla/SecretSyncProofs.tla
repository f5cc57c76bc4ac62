--------------------------- MODULE SecretSyncProofs ---------------------------
(***************************************************************************)
(* Proofs about SecretSync for any number of copying processes and URLs,   *)
(* any defaults and any set of faults: what the copies leave in the cache. *)
(***************************************************************************)
EXTENDS SecretSync, TLAPS

Copying(s) == pc[s] \in {"ensure", "insert", "commit"}

(* A copy has yet to write rows of its export; before its DELETE and at    *)
(* its end, none.                                                          *)
TodoOK ==
  \A s \in Syncer :
    /\ todo[s] \subseteq Rows(export[s])
    /\ pc[s] \in {"idle", "delete", "commit"} => todo[s] = {}

(* The table as the next statement finds it. *)
View == IF writer = None THEN cache ELSE draft

(* The export that s would be the source of a row of u by.                 *)
Source(s, u) == IF Copying(s) THEN export[s][u] ELSE last[s][u]

(* Since the table was last emptied, every row is from the present copy of *)
(* a process or from its last one; and the process that emptied it has     *)
(* written all the rows of its export, or has yet to.                      *)
MixInv ==
  ~crumbs =>
    /\ \A u \in Url : View[u] # "absent" => \E s \in Syncer : View[u] = Source(s, u)
    /\ \E s \in Syncer : \A u \in Url :
         View[u] = "absent" => \/ Copying(s) /\ u \in todo[s]
                               \/ Source(s, u) = "absent"

Inv == TypeOK /\ TodoOK /\ MixInv
-----------------------------------------------------------------------------
(* The start: empty tables, nothing under way. *)
LEMMA InvInit == Init => Inv
<1> SUFFICES ASSUME Init PROVE Inv
  OBVIOUS
<1> USE ConstantsAssumption DEF Init, Empty, Table, Status
<1>1. TypeOK
  <2>1. Empty \in Table BY DEF Empty
  <2>2. relay = Empty /\ cache = Empty /\ draft = Empty BY DEF Init
  <2>3. last \in [Syncer -> Table] /\ export \in [Syncer -> Table] BY <2>1 DEF Init
  <2>4. pc \in [Syncer -> {"idle", "delete", "ensure", "insert", "commit"}]
        /\ \A s \in Syncer : pc[s] = "idle"
    BY DEF Init
  <2>5. todo \in [Syncer -> SUBSET Url] /\ cur \in [Syncer -> Url \cup {None}] BY DEF Init
  <2>6. writer = None /\ faults \in 0..MaxFaults
    <3>1. faults = 0 /\ writer = None BY DEF Init
    <3>2. MaxFaults \in Nat OBVIOUS
    <3> HIDE ConstantsAssumption DEF Init
    <3> QED BY <3>1, <3>2
  <2>7. crumbs \in BOOLEAN BY Zenon DEF Init
  <2> HIDE DEF Init, Empty, Table, Status
  <2> QED BY <2>1, <2>2, <2>3, <2>4, <2>5, <2>6, <2>7 DEF TypeOK
<1>2. TodoOK BY DEF TodoOK, Rows
<1>3. MixInv BY DEF MixInv, View, Source, Copying
<1> QED BY <1>1, <1>2, <1>3 DEF Inv

(* Tables stay tables. *)
LEMMA TablesTyped ==
  /\ Empty \in Table
  /\ \A t \in Table : \A D : WithDefault(t, D) \in Table
  /\ \A t \in Table, u \in Url, x \in Status : [t EXCEPT ![u] = x] \in Table
BY DEF Empty, Table, Status, WithDefault

(* Every step of a copy keeps the types. *)
LEMMA CopyTypes ==
  ASSUME TypeOK, TodoOK, NEW s \in Syncer, Export(s) \/ Copy(s) \/ Abort(s)
  PROVE  TypeOK'
<1> USE ConstantsAssumption DEF exit, local, Goto
<1>1. CASE Export(s)
  <2>1. relay' \in Table BY <1>1, TablesTyped DEF Export, TypeOK
  <2> QED BY <1>1, <2>1 DEF Export, TypeOK
<1>2. CASE DeleteRows(s)
  <2>1. draft' \in Table BY <1>2, TablesTyped DEF DeleteRows
  <2>2. Rows(export[s]) \subseteq Url BY DEF Rows
  <2>3. todo' \in [Syncer -> SUBSET Url] BY <1>2, <2>2 DEF DeleteRows, TypeOK
  <2> QED BY <1>2, <2>1, <2>3 DEF DeleteRows, TypeOK
<1>3. CASE Ensure(s)
  <2>1. PICK u \in todo[s] : cur' = [cur EXCEPT ![s] = u] BY <1>3 DEF Ensure
  <2>2. u \in Url BY <2>1 DEF TypeOK
  <2> QED BY <1>3, <2>1, <2>2 DEF Ensure, TypeOK
<1>4. CASE Insert(s)
  <2>1. cur[s] \in Url /\ ActiveOf(s) \in Status
    BY <1>4 DEF Insert, TypeOK, ActiveOf, Table
  <2>2. draft' \in Table BY <1>4, <2>1, TablesTyped DEF Insert, TypeOK
  <2>3. todo' = [todo EXCEPT ![s] = todo[s] \ {cur[s]}] /\ cur' = [cur EXCEPT ![s] = None]
        /\ writer' = s /\ writer = None
    BY <1>4 DEF Insert
  <2>4. \/ pc' = [pc EXCEPT ![s] = "commit"]
        \/ pc' = [pc EXCEPT ![s] = "ensure"]
    BY <1>4 DEF Insert
  <2>5. UNCHANGED <<relay, cache, export, faults, last, crumbs>> BY <1>4 DEF Insert
  <2> QED BY <2>2, <2>3, <2>4, <2>5 DEF TypeOK
<1>5. CASE Commit(s) BY <1>5, TablesTyped DEF Commit, Leave, TypeOK
<1>6. CASE Abort(s)
  <2>1. faults' \in 0..MaxFaults BY <1>6 DEF Abort, FaultHappens, TypeOK
  <2> QED BY <1>6, <2>1, TablesTyped DEF Abort, Leave, TypeOK
<1> QED BY <1>1, <1>2, <1>3, <1>4, <1>5, <1>6 DEF Copy

(* Every step keeps the types. *)
LEMMA TypeStep ==
  ASSUME TypeOK, TodoOK, [Next]_vars
  PROVE  TypeOK'
<1> USE ConstantsAssumption DEF exit, local
<1>1. ASSUME NEW u \in Url, Create(u) \/ Delete(u) \/ ImportReplace(u) PROVE TypeOK'
  <2>1. WithDefault(relay, RelayDefault) \in Table BY TablesTyped DEF TypeOK
  <2>2. "absent" \in Status /\ "active" \in Status /\ "deleted" \in Status BY DEF Status
  <2>3. relay' \in Table
    <3>1. CASE Create(u) BY <3>1, <2>1, <2>2, TablesTyped DEF Create
    <3>2. CASE Delete(u) BY <3>2, <2>1, <2>2, TablesTyped DEF Delete
    <3>3. CASE ImportReplace(u) BY <3>3, <2>2, TablesTyped DEF ImportReplace, TypeOK
    <3> QED BY <1>1, <3>1, <3>2, <3>3
  <2> QED BY <1>1, <2>3 DEF Create, Delete, ImportReplace, TypeOK
<1>2. ASSUME NEW s \in Syncer, Export(s) \/ Copy(s) \/ Abort(s) PROVE TypeOK'
  BY <1>2, CopyTypes
<1>3. CASE PhoneStarts
  <2>1. faults' \in 0..MaxFaults BY <1>3 DEF PhoneStarts, FaultHappens, TypeOK
  <2>2. cache' \in Table /\ draft' \in Table BY <1>3, TablesTyped DEF PhoneStarts, TypeOK
  <2> QED BY <1>3, <2>1, <2>2 DEF PhoneStarts, TypeOK
<1>4. CASE UNCHANGED vars BY <1>4 DEF vars, TypeOK
<1> QED BY <1>1, <1>2, <1>3, <1>4 DEF Next

(* A copy writes the rows of its export and no others. *)
LEMMA TodoStep ==
  ASSUME TypeOK, TodoOK, [Next]_vars
  PROVE  TodoOK'
<1> USE DEF exit, local, Goto
<1>1. CASE UNCHANGED <<pc, export, todo>> BY <1>1 DEF TodoOK, Rows
<1>2. ASSUME NEW s \in Syncer, Export(s) \/ Copy(s) \/ Abort(s) PROVE TodoOK'
  <2>1. \A r \in Syncer : r # s => pc'[r] = pc[r] /\ todo'[r] = todo[r] /\ export'[r] = export[r]
    <3>1. CASE Export(s) BY <3>1 DEF Export, TypeOK
    <3>2. CASE DeleteRows(s) BY <3>2 DEF DeleteRows, TypeOK
    <3>3. CASE Ensure(s) BY <3>3 DEF Ensure, TypeOK
    <3>4. CASE Insert(s) BY <3>4 DEF Insert, TypeOK
    <3>5. CASE Commit(s) BY <3>5 DEF Commit, Leave, TypeOK
    <3>6. CASE Abort(s) BY <3>6 DEF Abort, Leave, TypeOK
    <3> QED BY <1>2, <3>1, <3>2, <3>3, <3>4, <3>5, <3>6 DEF Copy
  <2>2. /\ todo'[s] \subseteq Rows(export'[s])
        /\ pc'[s] \in {"idle", "delete", "commit"} => todo'[s] = {}
    <3>1. CASE Export(s) \/ Commit(s) \/ Abort(s)
      <4>1. todo'[s] = {}
        BY <3>1 DEF Export, Commit, Abort, Leave, TypeOK, TodoOK
      <4> QED BY <4>1
    <3>2. CASE DeleteRows(s)
      <4>1. todo'[s] = Rows(export[s]) /\ export' = export BY <3>2 DEF DeleteRows, TypeOK
      <4>2. pc'[s] = IF Rows(export[s]) = {} THEN "commit" ELSE "ensure"
        BY <3>2 DEF DeleteRows, TypeOK
      <4> QED BY <4>1, <4>2
    <3>3. CASE Ensure(s)
      <4>1. todo' = todo /\ export' = export /\ pc'[s] = "insert" BY <3>3 DEF Ensure, TypeOK
      <4> QED BY <4>1 DEF TodoOK
    <3>4. CASE Insert(s)
      <4>1. todo'[s] = todo[s] \ {cur[s]} /\ export' = export BY <3>4 DEF Insert, TypeOK
      <4>2. pc'[s] = IF todo[s] \ {cur[s]} = {} THEN "commit" ELSE "ensure"
        BY <3>4 DEF Insert, TypeOK
      <4> QED BY <4>1, <4>2 DEF TodoOK
    <3> QED BY <1>2, <3>1, <3>2, <3>3, <3>4 DEF Copy
  <2> QED BY <2>1, <2>2 DEF TodoOK, Rows
<1>3. CASE \E u \in Url : Create(u) \/ Delete(u) \/ ImportReplace(u)
  BY <1>1, <1>3 DEF Create, Delete, ImportReplace
<1>4. CASE PhoneStarts BY <1>1, <1>4 DEF PhoneStarts
<1>5. CASE UNCHANGED vars BY <1>1, <1>5 DEF vars
<1> QED BY <1>2, <1>3, <1>4, <1>5 DEF Next
-----------------------------------------------------------------------------
(* MixInv is about the table, the sources of its rows and what the copies  *)
(* have to write: it stays when these do.                                  *)
LEMMA MixKept ==
  ASSUME MixInv, crumbs' = crumbs,
         View' = View,
         \A s \in Syncer, u \in Url : Source(s, u)' = Source(s, u),
         \A s \in Syncer : Copying(s) => Copying(s)' \/ todo[s] = {},
         \A s \in Syncer : todo'[s] = todo[s] \/ todo[s] = {}
  PROVE  MixInv'
<1> SUFFICES ASSUME ~crumbs PROVE MixInv'
  BY DEF MixInv
<1>1. \A u \in Url : View[u] # "absent" => \E s \in Syncer : View[u] = Source(s, u)
  BY DEF MixInv
<1>2. PICK s \in Syncer : \A u \in Url :
        View[u] = "absent" => (Copying(s) /\ u \in todo[s]) \/ Source(s, u) = "absent"
  BY DEF MixInv
<1> QED BY <1>1, <1>2 DEF MixInv

(* The table is emptied: the copy that empties it has its whole export to  *)
(* write.                                                                  *)
LEMMA MixDelete ==
  ASSUME TypeOK, NEW s \in Syncer, DeleteRows(s)
  PROVE  MixInv'
<1>1. View' = Empty BY ConstantsAssumption DEF DeleteRows, View
<1>2. todo'[s] = Rows(export[s]) /\ export' = export /\ pc'[s] \in {"commit", "ensure"}
  BY DEF DeleteRows, Goto, TypeOK
<1>3. Copying(s)' BY <1>2 DEF Copying
<1>4. \A u \in Url : u \in todo'[s] \/ Source(s, u)' = "absent"
  BY <1>2, <1>3 DEF Source, Rows
<1> QED BY <1>1, <1>3, <1>4 DEF MixInv, Empty

(* A row is written: the copy's export is its source. *)
LEMMA MixInsert ==
  ASSUME TypeOK, TodoOK, MixInv, NEW s \in Syncer, Insert(s)
  PROVE  MixInv'
<1> SUFFICES ASSUME ~crumbs PROVE MixInv'
  BY DEF MixInv, Insert
<1> DEFINE c == cur[s]
<1>1. c \in todo[s] /\ c \in Url /\ export[s][c] # "absent"
  BY DEF Insert, TypeOK, TodoOK, Rows
<1>2. View = cache /\ View' = [cache EXCEPT ![c] = export[s][c]]
  BY ConstantsAssumption DEF Insert, View, ActiveOf
<1>3. View'[c] = export[s][c] /\ \A u \in Url : u # c => View'[u] = View[u]
  BY <1>1, <1>2 DEF TypeOK, Table
<1>4. /\ UNCHANGED <<export, last>>
      /\ \A r \in Syncer : r # s => pc'[r] = pc[r] /\ todo'[r] = todo[r]
      /\ todo'[s] = todo[s] \ {c}
      /\ pc'[s] \in {"commit", "ensure"} /\ pc[s] = "insert"
  BY DEF Insert, Goto, TypeOK
<1>5. \A r \in Syncer : Copying(r)' = Copying(r)
  BY <1>4 DEF Copying
<1>6. \A r \in Syncer, u \in Url : Source(r, u)' = Source(r, u)
  BY <1>4, <1>5 DEF Source
<1>7. Source(s, c) = export[s][c]
  BY <1>4 DEF Source, Copying
<1> HIDE DEF c
<1>8. \A u \in Url : View'[u] # "absent" => \E r \in Syncer : View'[u] = Source(r, u)'
  BY <1>1, <1>3, <1>6, <1>7 DEF MixInv
<1>9. PICK r \in Syncer : \A u \in Url :
        View[u] = "absent" => (Copying(r) /\ u \in todo[r]) \/ Source(r, u) = "absent"
  BY DEF MixInv
<1>10. \A u \in Url : View'[u] = "absent" =>
         (Copying(r)' /\ u \in todo'[r]) \/ Source(r, u)' = "absent"
  <2> SUFFICES ASSUME NEW u \in Url, View'[u] = "absent"
               PROVE  (Copying(r)' /\ u \in todo'[r]) \/ Source(r, u)' = "absent"
    OBVIOUS
  <2>1. u # c /\ View[u] = "absent" BY <1>1, <1>3
  <2>2. u \in todo[r] => u \in todo'[r] BY <2>1, <1>4
  <2> QED BY <2>1, <2>2, <1>5, <1>6, <1>9
<1> QED BY <1>8, <1>10 DEF MixInv

(* Every step keeps MixInv. *)
LEMMA MixStep ==
  ASSUME TypeOK, TodoOK, MixInv, [Next]_vars
  PROVE  MixInv'
<1> USE DEF exit, local, Goto
<1>1. CASE UNCHANGED <<exit, pc, export, todo, last, crumbs>>
  BY <1>1, MixKept DEF View, Source, Copying
<1>2. ASSUME NEW s \in Syncer, Export(s) PROVE MixInv'
  <2>1. UNCHANGED <<exit, todo, last, crumbs>> /\ pc[s] = "idle" /\ pc'[s] = "delete"
    BY <1>2 DEF Export, TypeOK
  <2>2. \A r \in Syncer : r # s => pc'[r] = pc[r] /\ export'[r] = export[r]
    BY <1>2 DEF Export, TypeOK
  <2>3. \A r \in Syncer : Copying(r)' = Copying(r) BY <2>1, <2>2 DEF Copying
  <2>4. \A r \in Syncer, u \in Url : Source(r, u)' = Source(r, u)
    BY <2>1, <2>2, <2>3 DEF Source, Copying
  <2>5. View' = View BY <2>1 DEF View
  <2> QED BY <2>1, <2>3, <2>4, <2>5, MixKept
<1>3. ASSUME NEW s \in Syncer, Ensure(s) PROVE MixInv'
  <2>1. UNCHANGED <<export, todo, last, crumbs>> /\ pc[s] = "ensure" /\ pc'[s] = "insert"
    BY <1>3 DEF Ensure, TypeOK
  <2>2. \A r \in Syncer : r # s => pc'[r] = pc[r]
    BY <1>3 DEF Ensure, TypeOK
  <2>3. \A r \in Syncer : Copying(r)' = Copying(r) BY <2>1, <2>2 DEF Copying
  <2>4. \A r \in Syncer, u \in Url : Source(r, u)' = Source(r, u)
    BY <2>1, <2>3 DEF Source
  <2>5. writer = s BY <2>1 DEF TypeOK
  <2>6. View' = View BY <1>3, <2>5, ConstantsAssumption DEF View, Ensure
  <2> QED BY <2>1, <2>3, <2>4, <2>6, MixKept
<1>4. ASSUME NEW s \in Syncer, Commit(s) PROVE MixInv'
  <2>1. UNCHANGED crumbs /\ pc[s] = "commit" /\ pc'[s] = "idle" /\ todo'[s] = {}
        /\ last'[s] = export[s]
    BY <1>4 DEF Commit, Leave, TypeOK
  <2>2. \A r \in Syncer : r # s => pc'[r] = pc[r] /\ todo'[r] = todo[r]
                                   /\ export'[r] = export[r] /\ last'[r] = last[r]
    BY <1>4 DEF Commit, Leave, TypeOK
  <2>3. todo[s] = {} /\ writer = s BY <2>1 DEF TypeOK, TodoOK
  <2>4. \A r \in Syncer : Copying(r) => Copying(r)' \/ todo[r] = {}
    BY <2>1, <2>2, <2>3 DEF Copying
  <2>5. \A r \in Syncer, u \in Url : Source(r, u)' = Source(r, u)
    BY <2>1, <2>2 DEF Source, Copying
  <2>6. View' = View BY <1>4, <2>3, ConstantsAssumption DEF View, Commit
  <2> QED BY <2>1, <2>2, <2>3, <2>4, <2>5, <2>6, MixKept
<1>5. ASSUME NEW s \in Syncer, Abort(s) PROVE MixInv'
  BY <1>5 DEF Abort, MixInv
<1>6. CASE PhoneStarts BY <1>6 DEF PhoneStarts, MixInv
<1>7. CASE \E u \in Url : Create(u) \/ Delete(u) \/ ImportReplace(u)
  BY <1>1, <1>7 DEF Create, Delete, ImportReplace
<1>8. CASE UNCHANGED vars BY <1>1, <1>8 DEF vars
<1> QED BY <1>2, <1>3, <1>4, <1>5, <1>6, <1>7, <1>8, MixDelete, MixInsert DEF Next, Copy
-----------------------------------------------------------------------------
LEMMA InvHolds == Spec => []Inv
<1>1. Inv /\ [Next]_vars => Inv'
  BY TypeStep, TodoStep, MixStep DEF Inv
<1> QED BY <1>1, InvInit, PTL DEF Spec

(* The tables stay tables of known states, the connection that writes is   *)
(* one whose copy is in a transaction, and at most one is.                 *)
THEOREM TypeCorrect == Spec => []TypeOK
<1>1. Inv => TypeOK BY DEF Inv
<1> QED BY <1>1, InvHolds, PTL

(* Between the copies, every row of the cache is what the last complete    *)
(* copy of one of the processes had for it (exitnode.py:64-92,             *)
(* state.py:694-741), however many processes copy and however their        *)
(* statements interleave.                                                  *)
THEOREM CacheIsMixOfExports == Spec => []MixOfExports
<1>1. ASSUME Inv PROVE MixOfExports
  <2> SUFFICES ASSUME AllIdle, ~crumbs, NEW u \in Url
               PROVE  \E s \in Syncer : cache[u] = last[s][u]
    BY DEF MixOfExports
  <2>1. writer = None /\ \A s \in Syncer : pc[s] = "idle"
    BY <1>1 DEF Inv, TypeOK, AllIdle
  <2>2. View = cache /\ \A s \in Syncer : ~Copying(s) /\ Source(s, u) = last[s][u]
    BY <2>1 DEF View, Copying, Source
  <2>3. CASE cache[u] = "absent"
    BY <1>1, <2>2, <2>3 DEF Inv, MixInv
  <2>4. CASE cache[u] # "absent"
    BY <1>1, <2>2, <2>4 DEF Inv, MixInv
  <2> QED BY <2>3, <2>4
<1> QED BY <1>1, InvHolds, PTL
=============================================================================
