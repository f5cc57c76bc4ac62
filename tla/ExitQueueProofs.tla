---------------------------- MODULE ExitQueueProofs ----------------------------
(***************************************************************************)
(* Proofs about ExitQueue for any number of request threads, URLs, sources *)
(* and visits, any batch and any set of faults: visits are honoured and    *)
(* hits are not invented.                                                  *)
(***************************************************************************)
EXTENDS ExitQueue, FiniteSetTheorems, TLAPS

(* The rows have ids of their own, from the counter. *)
RowsOK ==
  /\ \A r \in queue : r.id \in 1..(nextId - 1)
  /\ \A r, q \in queue : r.id = q.id => r = q

(* The worker alone deletes rows: what it has yet to send is in the table, *)
(* each row once.                                                          *)
BatchOK ==
  /\ \A k \in DOMAIN batch : \E r \in queue : r.id = batch[k].id /\ r.item = batch[k].item
  /\ \A j, k \in DOMAIN batch : batch[j].id = batch[k].id => j = k

(* A thread that has found a row has found its own payload, if the row is  *)
(* still there; nobody else gets its id.                                   *)
ThreadsOK ==
  \A h \in Handler :
    /\ at[h] # "put" => found[h] = 0
    /\ found[h] < nextId
    /\ \A r \in queue : r.id = found[h] => r.item = Payload(h)
-----------------------------------------------------------------------------
(* State.due_queue's answer: its rows, and how many come before a row.     *)
DueSet == {r \in queue : r.due}
Earlier(r) == {q \in DueSet : q.id < r.id}
Before(r) == Cardinality(Earlier(r))
First == {r \in DueSet : Before(r) < Batch}

(* The names above are those of DueRows. *)
LEMMA DueRowsIs ==
  DueRows = [n \in 1..Cardinality(First) |-> CHOOSE r \in First : Before(r) = n - 1]
BY DEF DueRows, First, Before, Earlier, DueSet

(* The table is finite, since its ids are. *)
LEMMA QueueFinite ==
  ASSUME TypeOK, RowsOK
  PROVE  IsFiniteSet(queue)
<1> DEFINE id == [r \in queue |-> r.id]
<1>1. nextId \in Nat BY DEF TypeOK
<1>2. IsFiniteSet(1..(nextId - 1)) BY <1>1, FS_Interval
<1>3. id \in Injection(queue, 1..(nextId - 1))
  BY DEF RowsOK, Injection, IsInjective
<1> HIDE DEF id
<1> QED BY <1>2, <1>3, FS_Injection

(* Before numbers the due rows from 0 on, by their ids. *)
LEMMA BeforeRanks ==
  ASSUME TypeOK, RowsOK
  PROVE  /\ IsFiniteSet(DueSet)
         /\ \A r \in DueSet : Before(r) \in 0..(Cardinality(DueSet) - 1)
         /\ \A r, q \in DueSet : r.id < q.id => Before(r) < Before(q)
<1>1. IsFiniteSet(DueSet) BY QueueFinite, FS_Subset DEF DueSet
<1>2. ASSUME NEW r \in DueSet
      PROVE  /\ IsFiniteSet(Earlier(r)) /\ Cardinality(Earlier(r)) \in Nat
             /\ Before(r) \in 0..(Cardinality(DueSet) - 1)
  <2>1. r.id \in Nat BY DEF DueSet, TypeOK, Row
  <2>2. Earlier(r) \subseteq DueSet \ {r} BY <2>1 DEF Earlier
  <2>3. IsFiniteSet(DueSet \ {r}) /\ Cardinality(DueSet \ {r}) = Cardinality(DueSet) - 1
    BY <1>1, FS_RemoveElement
  <2>4. IsFiniteSet(Earlier(r)) /\ Cardinality(Earlier(r)) <= Cardinality(DueSet \ {r})
    BY <2>2, <2>3, FS_Subset
  <2>5. Cardinality(Earlier(r)) \in Nat /\ Cardinality(DueSet) \in Nat
    BY <1>1, <2>4, FS_CardinalityType
  <2> QED BY <2>3, <2>4, <2>5 DEF Before
<1>3. ASSUME NEW r \in DueSet, NEW q \in DueSet, r.id < q.id
      PROVE  Before(r) < Before(q)
  <2>1. \A s \in DueSet : s.id \in Nat BY DEF DueSet, TypeOK, Row
  <2>2. Earlier(r) \subseteq Earlier(q) \ {r} /\ r \in Earlier(q)
    BY <1>3, <2>1 DEF Earlier
  <2>3. IsFiniteSet(Earlier(q) \ {r}) /\ Cardinality(Earlier(q) \ {r}) = Cardinality(Earlier(q)) - 1
    BY <1>2, <2>2, FS_RemoveElement
  <2>4. Cardinality(Earlier(r)) <= Cardinality(Earlier(q)) - 1
    BY <2>2, <2>3, FS_Subset
  <2> QED BY <1>2, <2>4 DEF Before
<1> QED BY <1>1, <1>2, <1>3

(* The rows that due_queue returns are numbered without gaps. *)
LEMMA FirstRanks ==
  ASSUME TypeOK, RowsOK
  PROVE  /\ Cardinality(First) \in Nat
         /\ \A t \in 0..(Cardinality(First) - 1) : \E r \in First : Before(r) = t
<1> DEFINE n == Cardinality(DueSet)
           m == IF Batch < n THEN Batch ELSE n
           rank == [r \in DueSet |-> Before(r)]
           rank1 == [r \in First |-> Before(r)]
<1>1. n \in Nat /\ Batch \in Nat /\ m \in Nat
  BY BeforeRanks, FS_CardinalityType, ConstantsAssumption
<1>2. \A r, q \in DueSet : Before(r) = Before(q) => r = q
  <2>1. \A s \in DueSet : s.id \in Nat /\ s \in queue BY DEF DueSet, TypeOK, Row
  <2>2. \A s \in DueSet : Before(s) \in Nat BY <1>1, BeforeRanks
  <2>3. ASSUME NEW r \in DueSet, NEW q \in DueSet, Before(r) = Before(q)
        PROVE  r.id = q.id
    BY <2>1, <2>2, <2>3, BeforeRanks
  <2> QED BY <2>1, <2>3 DEF RowsOK
<1>3. rank \in Injection(DueSet, 0..(n - 1))
  BY <1>2, BeforeRanks DEF Injection, IsInjective
<1>4. IsFiniteSet(0..(n - 1)) /\ Cardinality(0..(n - 1)) = n
  BY <1>1, FS_Interval
<1>5. rank \in Surjection(DueSet, 0..(n - 1))
  BY <1>3, <1>4, FS_Injection
<1>6. \A t \in 0..(n - 1) : \E r \in DueSet : Before(r) = t
  BY <1>5 DEF Surjection
<1>7. rank1 \in Injection(First, 0..(m - 1))
  <2>1. \A r \in First : r \in DueSet /\ Before(r) \in 0..(m - 1)
    BY <1>1, BeforeRanks DEF First
  <2>2. rank1 \in [First -> 0..(m - 1)] BY <2>1
  <2>3. IsInjective(rank1) BY <1>2, <2>1 DEF IsInjective
  <2> HIDE DEF rank1, m
  <2> QED BY <2>2, <2>3 DEF Injection
<1>8. \A t \in 0..(m - 1) : \E r \in First : Before(r) = t
  BY <1>1, <1>6 DEF First
<1>9. rank1 \in Surjection(First, 0..(m - 1))
  <2>1. \A t \in 0..(m - 1) : \E r \in First : rank1[r] = t BY <1>8
  <2> HIDE DEF rank1, m
  <2> QED BY <1>7, <2>1 DEF Injection, Surjection
<1>10. IsFiniteSet(0..(m - 1)) /\ Cardinality(0..(m - 1)) = m
  <2> HIDE DEF m
  <2>1. m - 1 \in Int /\ (0 > m - 1 => m = 0) BY <1>1
  <2> QED BY <1>1, <2>1, FS_Interval
<1>11. Cardinality(First) = m
  <2> HIDE DEF rank1, m
  <2> QED BY <1>7, <1>9, <1>10, FS_Injection
<1> QED BY <1>1, <1>8, <1>11

(* due_queue returns rows of the table, each once. *)
LEMMA DueRowsAre ==
  ASSUME TypeOK, RowsOK
  PROVE  /\ DueRows \in Seq(Row)
         /\ \A k \in DOMAIN DueRows : DueRows[k] \in queue
         /\ \A j, k \in DOMAIN DueRows : DueRows[j].id = DueRows[k].id => j = k
<1> DEFINE n == Cardinality(First)
<1>1. n \in Nat BY FirstRanks
<1>2. DOMAIN DueRows = 1..n BY DueRowsIs
<1>3. ASSUME NEW k \in 1..n
      PROVE  DueRows[k] \in First /\ Before(DueRows[k]) = k - 1
  <2>1. k - 1 \in 0..(n - 1) BY <1>1
  <2>2. \E r \in First : Before(r) = k - 1 BY <2>1, FirstRanks
  <2>3. DueRows[k] = CHOOSE r \in First : Before(r) = k - 1 BY DueRowsIs
  <2> QED BY <2>2, <2>3
<1>4. First \subseteq queue /\ queue \subseteq Row BY DEF First, DueSet, TypeOK
<1>5. DueRows \in [1..n -> Row]
  BY <1>2, <1>3, <1>4, DueRowsIs
<1>6. \A j, k \in 1..n : DueRows[j].id = DueRows[k].id => j = k
  BY <1>3, <1>4 DEF RowsOK
<1> QED BY <1>1, <1>2, <1>3, <1>4, <1>5, <1>6
-----------------------------------------------------------------------------
(* The payloads of a thread that is under way are items of the queue. *)
LEMMA PayloadTyped ==
  ASSUME TypeOK, NEW h \in Handler, at[h] # "idle"
  PROVE  Payload(h) \in Item /\ VisitsOf(Payload(h)) \subseteq Url \X Ip
BY DEF TypeOK, Payload, Item, VisitsOf

(* The worker moves on to a shorter batch. *)
LEMMA NextRowTyped ==
  ASSUME TypeOK, step # "sleep", NextRow
  PROVE  /\ batch' \in Seq(Row)
         /\ step' \in {"sleep", "send"}
         /\ step' # "sleep" <=> batch' # <<>>
<1>1. batch \in Seq(Row) /\ batch # <<>> BY DEF TypeOK
<1>2. Tail(batch) \in Seq(Row) /\ Len(Tail(batch)) = Len(batch) - 1 BY <1>1
<1>3. Tail(batch) = <<>> <=> Len(Tail(batch)) = 0
  <2>1. \A s \in Seq(Row) : s = <<>> <=> Len(s) = 0 OBVIOUS
  <2> DEFINE t == Tail(batch)
  <2>2. t \in Seq(Row) BY <1>2
  <2> HIDE DEF t
  <2>3. t = <<>> <=> Len(t) = 0 BY <2>1, <2>2
  <2> QED BY <2>3 DEF t
<1>4. Tail(batch) = <<>> <=> Len(batch) = 1
  <2>1. Len(batch) \in Nat BY <1>1
  <2> QED BY <2>1, <1>2, <1>3
<1> QED BY <1>2, <1>4 DEF NextRow

(* Init has the types. *)
LEMMA TypeInit == Init => TypeOK
BY ConstantsAssumption DEF Init, TypeOK

(* Every step of a request thread keeps the types. *)
LEMMA ThreadTypes ==
  ASSUME TypeOK, NEW h \in Handler, Look(h) \/ Put(h) \/ HandlerFails(h)
  PROVE  TypeOK'
<1> USE DEF table, threads, worker, relay, history
<1>1. CASE Look(h)
  <2>1. \A r \in queue : r.id \in Nat BY DEF TypeOK, Row
  <2>2. PICK n \in Nat : found' = [found EXCEPT ![h] = n]
    <3> DEFINE same == {r.id : r \in {q \in queue : q.item = Payload(h)}}
    <3>1. same \subseteq Nat BY <2>1
    <3>2. \E n \in IF same = {} THEN {0} ELSE same : found' = [found EXCEPT ![h] = n]
      BY <1>1 DEF Look
    <3> HIDE DEF same
    <3> QED BY <3>1, <3>2
  <2> QED BY <1>1, <2>2 DEF Look, TypeOK
<1>2. CASE Put(h)
  <2>1. Payload(h) \in Item /\ VisitsOf(Payload(h)) \subseteq Url \X Ip
    BY <1>2, PayloadTyped DEF Put
  <2>2. queue' \subseteq Row /\ nextId' \in Nat \ {0}
    <3>1. CASE found[h] = 0
      <4> DEFINE row == [id |-> nextId, item |-> Payload(h), tries |-> 0, due |-> TRUE, old |-> FALSE]
      <4>1. row \in Row BY <2>1 DEF TypeOK, Row
      <4>2. queue' = queue \cup {row} /\ nextId' = nextId + 1 BY <1>2, <3>1 DEF Put
      <4> HIDE DEF row
      <4> QED BY <4>1, <4>2 DEF TypeOK
    <3>2. CASE found[h] # 0
      <4>1. \A r \in Row : [r EXCEPT !.due = @ \/ r.id = found[h]] \in Row BY DEF Row
      <4>2. queue' = {[r EXCEPT !.due = @ \/ r.id = found[h]] : r \in queue} /\ nextId' = nextId
        BY <1>2, <3>2 DEF Put
      <4> QED BY <4>1, <4>2 DEF TypeOK
    <3> QED BY <3>1, <3>2
  <2>3. owed' \subseteq Url \X Ip BY <1>2, <2>1 DEF Put, TypeOK
  <2>4. /\ at' \in [Handler -> {"idle", "look", "put"}]
        /\ visit' \in [Handler -> (Url \X Ip) \cup {None}]
        /\ kind' \in [Handler -> {"ingest", "hit"}]
        /\ found' \in [Handler -> Nat]
        /\ \A g \in Handler : at'[g] # "idle" => visit'[g] \in Url \X Ip
    <3>1. found' \in [Handler -> Nat] BY <1>2 DEF Put, TypeOK
    <3>2. CASE kind[h] = "ingest"
      <4>1. /\ at' = [at EXCEPT ![h] = "look"] /\ kind' = [kind EXCEPT ![h] = "hit"]
            /\ visit' = visit /\ at[h] = "put"
        BY <1>2, <3>2 DEF Put
      <4> QED BY <3>1, <4>1 DEF TypeOK
    <3>3. CASE kind[h] # "ingest"
      <4>1. /\ at' = [at EXCEPT ![h] = "idle"] /\ kind' = [kind EXCEPT ![h] = "ingest"]
            /\ visit' = [visit EXCEPT ![h] = None]
        BY <1>2, <3>3 DEF Put
      <4> QED BY <3>1, <4>1 DEF TypeOK
    <3> QED BY <3>2, <3>3
  <2> QED BY <1>2, <2>2, <2>3, <2>4 DEF Put, TypeOK
<1>3. CASE HandlerFails(h)
  <2>1. faults' \in 0..MaxFaults /\ UNCHANGED <<table, recent, worker, relay, accepted, owed>>
    BY <1>3, ConstantsAssumption DEF HandlerFails, FaultHappens, TypeOK
  <2>2. /\ at' = [at EXCEPT ![h] = "idle"] /\ kind' = [kind EXCEPT ![h] = "ingest"]
        /\ visit' = [visit EXCEPT ![h] = None] /\ found' = [found EXCEPT ![h] = 0]
    BY <1>3 DEF HandlerFails
  <2> QED BY <2>1, <2>2 DEF TypeOK
<1> QED BY <1>1, <1>2, <1>3

(* Every step of the worker keeps the types. *)
LEMMA WorkerTypes ==
  ASSUME TypeOK, RowsOK, Drain \/ Work \/ ReplyLost \/ WorkerFails
  PROVE  TypeOK'
<1> USE DEF table, threads, worker, relay, history
<1>1. step # "sleep" => Head(batch) \in Row
  <2>1. step # "sleep" => batch \in Seq(Row) /\ batch # <<>> BY DEF TypeOK
  <2> QED BY <2>1
<1>2. ASSUME step # "sleep", Effect(Head(batch).item)
      PROVE  active' \subseteq Ip /\ mode' \in {"regular", "attack"} /\ hits' \in [Url -> Nat]
  <2>1. Head(batch).item \in Item BY <1>1, <1>2 DEF Row
  <2>2. Head(batch).item.url \in Url
        /\ (Head(batch).item.kind = "ingest" => Head(batch).item.ip \in Ip)
    BY <2>1 DEF Item
  <2>3. hits' \in [Url -> Nat] BY <1>2, <2>2 DEF Effect, TypeOK
  <2>4. active' \subseteq Ip BY <1>2, <2>2 DEF Effect, TypeOK
  <2> QED BY <1>2, <2>3, <2>4 DEF Effect, TypeOK
<1>3. CASE Drain
  <2>1. DueRows \in Seq(Row) BY DueRowsAre
  <2> QED BY <1>3, <2>1 DEF Drain, TypeOK
<1>4. CASE Answered BY <1>2, <1>4 DEF Answered, TypeOK
<1>5. CASE ReplyLost BY <1>2, <1>5, ConstantsAssumption DEF ReplyLost, FaultHappens, TypeOK
<1>6. CASE Unreachable BY <1>6 DEF Unreachable, TypeOK
<1>7. CASE Ack BY <1>7, NextRowTyped DEF Ack, TypeOK
<1>8. CASE Nack
  <2>1. ASSUME NEW r \in Row PROVE [r EXCEPT !.tries = @ + 1, !.due = FALSE] \in Row
    <3>1. r.tries + 1 \in Nat BY DEF Row
    <3> QED BY <3>1 DEF Row
  <2>2. \A r \in queue' : r \in queue \/ \E q \in queue : r = [q EXCEPT !.tries = @ + 1, !.due = FALSE]
    BY <1>8 DEF Nack
  <2>6. queue' \subseteq Row
    <3>1. queue \subseteq Row BY DEF TypeOK
    <3> QED BY <2>1, <2>2, <3>1
  <2>3. owed' \subseteq owed BY <1>8 DEF Nack
  <2>4. UNCHANGED <<nextId, threads, relay, faults, accepted>> BY <1>8 DEF Nack
  <2>5. batch' \in Seq(Row) /\ step' \in {"sleep", "send"} /\ (step' # "sleep" <=> batch' # <<>>)
    BY <1>8, NextRowTyped DEF Nack
  <2> QED BY <2>6, <2>3, <2>4, <2>5 DEF TypeOK
<1>9. CASE WorkerFails
  BY <1>9, ConstantsAssumption DEF WorkerFails, FaultHappens, TypeOK
<1> QED BY <1>3, <1>4, <1>5, <1>6, <1>7, <1>8, <1>9 DEF Work

(* Every step keeps the types. *)
LEMMA TypeStep ==
  ASSUME TypeOK, RowsOK, [Next]_vars
  PROVE  TypeOK'
<1> USE DEF table, threads, worker, relay, history
<1>1. ASSUME NEW h \in Handler, NEW u \in Url, NEW i \in Ip, Visit(h, u, i) PROVE TypeOK'
  <2>1. accepted' \in [Url -> Nat] BY <1>1 DEF Visit, TypeOK
  <2>2. recent' \subseteq Url \X Ip BY <1>1 DEF Visit, TypeOK
  <2>3. /\ at' \in [Handler -> {"idle", "look", "put"}]
        /\ visit' \in [Handler -> (Url \X Ip) \cup {None}]
        /\ \A g \in Handler : at'[g] # "idle" => visit'[g] \in Url \X Ip
    BY <1>1 DEF Visit, TypeOK
  <2> QED BY <1>1, <2>1, <2>2, <2>3 DEF Visit, TypeOK
<1>2. CASE \E h \in Handler : Look(h) \/ Put(h) \/ HandlerFails(h) BY <1>2, ThreadTypes
<1>3. ASSUME NEW v \in Url \X Ip, Forget(v) PROVE TypeOK' BY <1>3 DEF Forget, TypeOK
<1>4. CASE PhoneRestarts
  <2>1. faults' \in 0..MaxFaults BY <1>4, ConstantsAssumption DEF PhoneRestarts, FaultHappens, TypeOK
  <2> QED BY <1>4, <2>1 DEF PhoneRestarts, TypeOK
<1>5. CASE Drain \/ Work \/ ReplyLost \/ WorkerFails BY <1>5, WorkerTypes
<1>6. ASSUME NEW r \in queue, ComesDue(r) \/ GrowsOld(r) PROVE TypeOK'
  <2>1. [r EXCEPT !.due = TRUE] \in Row /\ [r EXCEPT !.old = TRUE] \in Row BY DEF TypeOK, Row
  <2>2. queue' \subseteq Row BY <1>6, <2>1 DEF ComesDue, GrowsOld, TypeOK
  <2> QED BY <1>6, <2>2 DEF ComesDue, GrowsOld, TypeOK
<1>7. ASSUME NEW i \in Ip, Removed(i) PROVE TypeOK' BY <1>7 DEF Removed, TypeOK
<1>8. ASSUME NEW m \in {"regular", "attack"}, SetMode(m) PROVE TypeOK' BY <1>8 DEF SetMode, TypeOK
<1>9. CASE UNCHANGED vars BY <1>9 DEF vars, TypeOK
<1> QED BY <1>1, <1>2, <1>3, <1>4, <1>5, <1>6, <1>7, <1>8, <1>9 DEF Next
-----------------------------------------------------------------------------
SameRow(q, r) == q.id = r.id /\ q.item = r.item

(* Only Put, the worker's two ends of a row, and time change the table. *)
LEMMA QueueActions ==
  ASSUME [Next]_vars
  PROVE  \/ \E h \in Handler : Put(h)
         \/ Ack \/ Nack
         \/ \E r \in queue : ComesDue(r) \/ GrowsOld(r)
         \/ UNCHANGED <<queue, nextId>>
<1> USE DEF table, threads, worker, relay, history
<1>1. CASE \E h \in Handler, u \in Url, i \in Ip : Visit(h, u, i) BY <1>1 DEF Visit
<1>2. CASE \E h \in Handler : Look(h) \/ HandlerFails(h) BY <1>2 DEF Look, HandlerFails
<1>3. CASE (\E v \in Url \X Ip : Forget(v)) \/ PhoneRestarts BY <1>3 DEF Forget, PhoneRestarts
<1>4. CASE Drain \/ Answered \/ Unreachable \/ ReplyLost \/ WorkerFails
  BY <1>4 DEF Drain, Answered, Unreachable, ReplyLost, WorkerFails
<1>5. CASE (\E i \in Ip : Removed(i)) \/ \E m \in {"regular", "attack"} : SetMode(m)
  BY <1>5 DEF Removed, SetMode
<1>6. CASE UNCHANGED vars BY <1>6 DEF vars
<1> QED BY <1>1, <1>2, <1>3, <1>4, <1>5, <1>6 DEF Next, Work

(* What Put does to the table. *)
LEMMA PutRows ==
  ASSUME TypeOK, NEW h \in Handler, Put(h)
  PROVE  \/ /\ found[h] = 0 /\ nextId' = nextId + 1
            /\ \A r \in queue : r \in queue'
            /\ \E n \in Row : /\ n \in queue' /\ n.id = nextId /\ n.item = Payload(h)
                              /\ \A r \in queue' : r \in queue \/ r = n
         \/ /\ found[h] # 0 /\ nextId' = nextId
            /\ \A r \in queue : \E q \in queue' : SameRow(r, q)
            /\ \A q \in queue' : \E r \in queue : SameRow(r, q) /\ q = [r EXCEPT !.due = @ \/ r.id = found[h]]
<1>1. CASE found[h] = 0
  <2> DEFINE row == [id |-> nextId, item |-> Payload(h), tries |-> 0, due |-> TRUE, old |-> FALSE]
  <2>1. queue' = queue \cup {row} /\ nextId' = nextId + 1 BY <1>1 DEF Put
  <2>2. row.id = nextId /\ row.item = Payload(h) OBVIOUS
  <2>3. row \in Row BY PayloadTyped DEF Put, TypeOK, Row
  <2> HIDE DEF row
  <2> QED BY <1>1, <2>1, <2>2, <2>3
<1>2. CASE found[h] # 0
  <2> DEFINE f(r) == [r EXCEPT !.due = @ \/ r.id = found[h]]
  <2>1. queue' = {f(r) : r \in queue} /\ nextId' = nextId BY <1>2 DEF Put
  <2>2. \A r \in queue : SameRow(r, f(r)) BY DEF TypeOK, Row, SameRow
  <2> QED BY <1>2, <2>1, <2>2
<1> QED BY <1>1, <1>2

(* What Nack does to the table. *)
LEMMA NackRows ==
  ASSUME TypeOK, Nack
  PROVE  /\ nextId' = nextId
         /\ \A r \in queue : r.id # Head(batch).id => r \in queue'
         /\ \A q \in queue' :
              \/ q \in queue /\ q.id # Head(batch).id
              \/ \E r \in queue : /\ r.id = Head(batch).id /\ SameRow(r, q)
                                  /\ q = [r EXCEPT !.tries = @ + 1, !.due = FALSE]
<1> DEFINE f(r) == [r EXCEPT !.tries = @ + 1, !.due = FALSE]
           mine == {r \in queue : r.id = Head(batch).id}
           last == {r \in mine : r.tries + 1 >= MaxTries \/ r.old}
<1>1. \A r \in queue : SameRow(r, f(r)) BY DEF TypeOK, Row, SameRow
<1>2. queue' = (queue \ mine) \cup {f(r) : r \in mine \ last} BY DEF Nack
<1>3. nextId' = nextId BY DEF Nack
<1> QED BY <1>1, <1>2, <1>3

(* A row comes due or grows old. *)
LEMMA TimeRows ==
  ASSUME TypeOK, NEW r \in queue, ComesDue(r) \/ GrowsOld(r)
  PROVE  /\ nextId' = nextId
         /\ \E n \in queue' : SameRow(r, n) /\ \A q \in queue' : q = n \/ (q \in queue /\ q # r)
         /\ \A q \in queue : q # r => q \in queue'
<1>1. SameRow(r, [r EXCEPT !.due = TRUE]) /\ SameRow(r, [r EXCEPT !.old = TRUE])
  BY DEF TypeOK, Row, SameRow
<1>2. CASE ComesDue(r) BY <1>1, <1>2 DEF ComesDue
<1>3. CASE GrowsOld(r) BY <1>1, <1>3 DEF GrowsOld
<1> QED BY <1>2, <1>3

(* The worker deletes rows, and only its own. *)
LEMMA RowsStay ==
  ASSUME TypeOK, [Next]_vars, NEW q \in queue
  PROVE  \/ \E r \in queue' : SameRow(q, r)
         \/ (Ack \/ Nack) /\ q.id = Head(batch).id
<1> USE DEF SameRow
<1>1. CASE \E h \in Handler : Put(h) BY <1>1, PutRows
<1>2. CASE Ack BY <1>2 DEF Ack
<1>3. CASE Nack BY <1>3, NackRows
<1>4. CASE \E r \in queue : ComesDue(r) \/ GrowsOld(r) BY <1>4, TimeRows
<1> QED BY <1>1, <1>2, <1>3, <1>4, QueueActions

(* Threads insert rows, with new ids. *)
LEMMA RowsCome ==
  ASSUME TypeOK, [Next]_vars, NEW r \in queue'
  PROVE  \/ \E q \in queue : SameRow(q, r)
         \/ r.id = nextId /\ nextId' = nextId + 1 /\ \E h \in Handler : Put(h)
<1> USE DEF SameRow
<1>1. CASE \E h \in Handler : Put(h) BY <1>1, PutRows
<1>2. CASE Ack BY <1>2 DEF Ack
<1>3. CASE Nack BY <1>3, NackRows
<1>4. CASE \E s \in queue : ComesDue(s) \/ GrowsOld(s) BY <1>4, TimeRows
<1> QED BY <1>1, <1>2, <1>3, <1>4, QueueActions

(* Ids grow. *)
LEMMA IdsGrow ==
  ASSUME TypeOK, [Next]_vars
  PROVE  nextId \in Nat /\ nextId' \in Nat /\ nextId <= nextId'
<1>1. nextId \in Nat \ {0} BY DEF TypeOK
<1>2. CASE \E h \in Handler : Put(h) BY <1>1, <1>2, PutRows
<1>3. CASE Ack BY <1>1, <1>3 DEF Ack
<1>4. CASE Nack
  <2>1. nextId' = nextId BY <1>4 DEF Nack
  <2> QED BY <1>1, <2>1
<1>5. CASE \E s \in queue : ComesDue(s) \/ GrowsOld(s) BY <1>1, <1>5, TimeRows
<1> QED BY <1>1, <1>2, <1>3, <1>4, <1>5, QueueActions

(* Ids stay unique. *)
LEMMA RowsStep ==
  ASSUME TypeOK, RowsOK, [Next]_vars
  PROVE  RowsOK'
<1>1. \A r \in queue' : r.id \in 1..(nextId' - 1)
  <2> SUFFICES ASSUME NEW r \in queue' PROVE r.id \in 1..(nextId' - 1) OBVIOUS
  <2>1. nextId \in Nat \ {0} BY DEF TypeOK
  <2> QED BY <2>1, RowsCome, IdsGrow DEF RowsOK, SameRow
<1>2. ASSUME NEW r \in queue', NEW q \in queue', r.id = q.id PROVE r = q
  <2>1. \A s \in queue : s.id < nextId BY IdsGrow DEF RowsOK
  <2> USE DEF SameRow
  <2>2. ASSUME NEW h \in Handler, Put(h) PROVE r = q
    <3>1. CASE found[h] = 0 BY <1>2, <2>1, <2>2, <3>1, PutRows, IdsGrow DEF RowsOK
    <3>2. CASE found[h] # 0 BY <1>2, <2>2, <3>2, PutRows DEF RowsOK
    <3> QED BY <3>1, <3>2
  <2>3. CASE Ack BY <1>2, <2>3 DEF Ack, RowsOK
  <2>4. CASE Nack
    <3> DEFINE f(s) == [s EXCEPT !.tries = @ + 1, !.due = FALSE]
    <3>1. \A p \in queue' :
             \/ p \in queue /\ p.id # Head(batch).id
             \/ \E s \in queue : s.id = Head(batch).id /\ p.id = s.id /\ p = f(s)
      BY <2>4, NackRows
    <3> HIDE DEF f
    <3> QED BY <1>2, <3>1 DEF RowsOK
  <2>5. ASSUME NEW s \in queue, ComesDue(s) \/ GrowsOld(s) PROVE r = q
    BY <1>2, <2>5, TimeRows DEF RowsOK
  <2>6. CASE UNCHANGED <<queue, nextId>> BY <1>2, <2>6 DEF RowsOK
  <2> QED BY <2>2, <2>3, <2>4, <2>5, <2>6, QueueActions
<1> QED BY <1>1, <1>2 DEF RowsOK
-----------------------------------------------------------------------------
(* The first row of a batch, and the batch without it. *)
LEMMA BatchParts ==
  ASSUME TypeOK, step # "sleep"
  PROVE  /\ Head(batch) = batch[1] /\ 1 \in DOMAIN batch /\ Head(batch) \in Row
         /\ \A k \in DOMAIN Tail(batch) : k + 1 \in DOMAIN batch /\ Tail(batch)[k] = batch[k + 1] /\ k + 1 # 1
<1>1. batch \in Seq(Row) /\ batch # <<>> BY DEF TypeOK
<1>2. Len(batch) \in Nat /\ Len(batch) # 0 BY <1>1
<1>3. DOMAIN batch = 1..Len(batch) BY <1>1
<1>4. Head(batch) = batch[1] BY <1>1
<1>5. DOMAIN Tail(batch) = 1..(Len(batch) - 1) BY <1>1, <1>2
<1>6. \A k \in 1..(Len(batch) - 1) : Tail(batch)[k] = batch[k + 1] BY <1>1, <1>2
<1> QED BY <1>1, <1>2, <1>3, <1>4, <1>5, <1>6

(* Where the worker is and what it has yet to send changes in Drain, at    *)
(* the end of a row, and when it fails.                                    *)
LEMMA BatchActions ==
  ASSUME [Next]_vars
  PROVE  \/ Drain
         \/ (Ack \/ Nack) /\ step # "sleep" /\ NextRow
         \/ WorkerFails
         \/ batch' = batch /\ ~Ack /\ ~Nack
<1> USE DEF table, threads, worker, relay, history
<1>1. Ack \/ Nack => step # "sleep" /\ NextRow BY DEF Ack, Nack
<1>2. CASE \E h \in Handler, u \in Url, i \in Ip : Visit(h, u, i)
  BY <1>1, <1>2 DEF Visit
<1>3. CASE \E h \in Handler : Look(h) \/ Put(h) \/ HandlerFails(h)
  BY <1>1, <1>3 DEF Look, Put, HandlerFails
<1>4. CASE (\E v \in Url \X Ip : Forget(v)) \/ PhoneRestarts
  BY <1>1, <1>4 DEF Forget, PhoneRestarts
<1>5. CASE Drain \/ Work \/ ReplyLost \/ WorkerFails
  BY <1>1, <1>5 DEF Work, Answered, Unreachable, ReplyLost
<1>6. CASE \E r \in queue : ComesDue(r) \/ GrowsOld(r) BY <1>1, <1>6 DEF ComesDue, GrowsOld
<1>7. CASE (\E i \in Ip : Removed(i)) \/ \E m \in {"regular", "attack"} : SetMode(m)
  BY <1>1, <1>7 DEF Removed, SetMode
<1>8. CASE UNCHANGED vars BY <1>1, <1>8 DEF vars
<1> QED BY <1>2, <1>3, <1>4, <1>5, <1>6, <1>7, <1>8 DEF Next

(* What the worker has yet to send stays in the table. *)
LEMMA BatchStep ==
  ASSUME TypeOK, RowsOK, BatchOK, [Next]_vars
  PROVE  BatchOK'
<1> USE DEF SameRow
<1>1. CASE Drain
  <2>1. batch' = DueRows /\ queue' = queue BY <1>1 DEF Drain, table
  <2> QED BY <2>1, DueRowsAre DEF BatchOK
<1>2. CASE (Ack \/ Nack) /\ step # "sleep" /\ NextRow
  <2>1. batch' = Tail(batch) BY <1>2 DEF NextRow
  <2>2. ASSUME NEW k \in DOMAIN batch'
        PROVE  /\ k + 1 \in DOMAIN batch /\ batch'[k] = batch[k + 1]
               /\ batch[k + 1].id # Head(batch).id
    BY <1>2, <2>1, BatchParts DEF BatchOK
  <2>3. ASSUME NEW k \in DOMAIN batch'
        PROVE  \E r \in queue' : r.id = batch'[k].id /\ r.item = batch'[k].item
    <3>1. PICK q \in queue : q.id = batch[k + 1].id /\ q.item = batch[k + 1].item
      BY <2>2 DEF BatchOK
    <3> QED BY <2>2, <3>1, RowsStay
  <2>4. ASSUME NEW j \in DOMAIN batch', NEW k \in DOMAIN batch', batch'[j].id = batch'[k].id
        PROVE  j = k
    <3>1. j + 1 = k + 1 BY <2>2, <2>4 DEF BatchOK
    <3>2. j \in Nat /\ k \in Nat
      <4>1. batch' \in Seq(Row) BY <1>2, NextRowTyped
      <4> QED BY <4>1
    <3> QED BY <3>1, <3>2
  <2> QED BY <2>3, <2>4 DEF BatchOK
<1>3. CASE WorkerFails BY <1>3 DEF WorkerFails, BatchOK
<1>4. CASE batch' = batch /\ ~Ack /\ ~Nack
  <2>1. \A q \in queue : \E r \in queue' : SameRow(q, r) BY <1>4, RowsStay
  <2> QED BY <1>4, <2>1 DEF BatchOK
<1> QED BY <1>1, <1>2, <1>3, <1>4, BatchActions

(* What a thread has found stays what it looked for. *)
LEMMA ThreadsStep ==
  ASSUME TypeOK, RowsOK, ThreadsOK, [Next]_vars
  PROVE  ThreadsOK'
<1> USE DEF table, threads, worker, relay, history
<1>1. nextId \in Nat \ {0} /\ nextId' \in Nat /\ nextId <= nextId' BY IdsGrow DEF TypeOK
<1>2. \A r \in queue' : r.id # 0 BY RowsStep DEF RowsOK
<1>3. ASSUME NEW g \in Handler,
             found'[g] = found[g], at'[g] = at[g], Payload(g)' = Payload(g)
      PROVE  /\ at'[g] # "put" => found'[g] = 0
             /\ found'[g] < nextId'
             /\ \A r \in queue' : r.id = found'[g] => r.item = Payload(g)'
  <2>1. found[g] \in Nat /\ found[g] < nextId BY DEF TypeOK, ThreadsOK
  <2>2. found'[g] < nextId' BY <1>1, <1>3, <2>1
  <2>3. ASSUME NEW r \in queue', r.id = found'[g] PROVE r.item = Payload(g)'
    <3>1. \E q \in queue : SameRow(q, r) BY <1>1, <1>3, <2>1, <2>3, RowsCome
    <3> QED BY <1>3, <2>3, <3>1 DEF ThreadsOK, SameRow
  <2> QED BY <1>3, <2>2, <2>3 DEF ThreadsOK
<1>4. ASSUME NEW g \in Handler, found'[g] = 0
      PROVE  /\ at'[g] # "put" => found'[g] = 0
             /\ found'[g] < nextId'
             /\ \A r \in queue' : r.id = found'[g] => r.item = Payload(g)'
  BY <1>1, <1>2, <1>4
<1>5. ASSUME NEW h \in Handler, NEW u \in Url, NEW i \in Ip, Visit(h, u, i) PROVE ThreadsOK'
  <2>1. \A g \in Handler : found'[g] = found[g] BY <1>5 DEF Visit
  <2>2. found[h] = 0 BY <1>5 DEF Visit, ThreadsOK
  <2>3. \A g \in Handler \ {h} : at'[g] = at[g] /\ Payload(g)' = Payload(g)
    BY <1>5 DEF Visit, Payload, TypeOK
  <2> QED BY <1>3, <1>4, <2>1, <2>2, <2>3 DEF ThreadsOK
<1>6. ASSUME NEW h \in Handler, Look(h) PROVE ThreadsOK'
  <2>1. \A g \in Handler : Payload(g)' = Payload(g) BY <1>6 DEF Look, Payload
  <2>2. PICK n : found' = [found EXCEPT ![h] = n]
                 /\ (n = 0 \/ \E q \in queue : n = q.id /\ q.item = Payload(h))
    BY <1>6 DEF Look
  <2>3. \A g \in Handler \ {h} : found'[g] = found[g] /\ at'[g] = at[g]
    BY <1>6, <2>2 DEF Look, TypeOK
  <2>4. CASE n = 0 BY <1>3, <1>4, <2>1, <2>2, <2>3, <2>4 DEF ThreadsOK, TypeOK
  <2>5. CASE n # 0
    <3>1. PICK q \in queue : n = q.id /\ q.item = Payload(h) BY <2>2, <2>5
    <3>2. at'[h] = "put" /\ found'[h] = n BY <1>6, <2>2 DEF Look, TypeOK
    <3>3. queue' = queue /\ nextId' = nextId BY <1>6 DEF Look
    <3>4. n < nextId BY <1>1, <3>1 DEF RowsOK
    <3>5. \A r \in queue' : r.id = n => r.item = Payload(h)' BY <2>1, <3>1, <3>3 DEF RowsOK
    <3> QED BY <1>3, <2>1, <2>3, <3>2, <3>3, <3>4, <3>5 DEF ThreadsOK
  <2> QED BY <2>4, <2>5
<1>7. ASSUME NEW h \in Handler, Put(h) \/ HandlerFails(h) PROVE ThreadsOK'
  <2>1. found'[h] = 0 BY <1>7 DEF Put, HandlerFails, TypeOK
  <2>2. ASSUME NEW g \in Handler \ {h}
        PROVE  found'[g] = found[g] /\ at'[g] = at[g] /\ visit'[g] = visit[g] /\ kind'[g] = kind[g]
    <3>1. CASE HandlerFails(h) BY <3>1 DEF HandlerFails, TypeOK
    <3>2. CASE Put(h) BY <3>2 DEF Put, TypeOK
    <3> QED BY <1>7, <3>1, <3>2
  <2>3. \A g \in Handler \ {h} : Payload(g)' = Payload(g) BY <2>2 DEF Payload
  <2> QED BY <1>3, <1>4, <2>1, <2>2, <2>3 DEF ThreadsOK
<1>8. CASE PhoneRestarts
  <2>1. \A g \in Handler : found'[g] = 0 BY <1>8 DEF PhoneRestarts
  <2> QED BY <1>4, <2>1 DEF ThreadsOK
<1>9. CASE UNCHANGED <<at, visit, kind, found>>
  <2>1. \A g \in Handler : Payload(g)' = Payload(g) BY <1>9 DEF Payload
  <2> QED BY <1>3, <1>9, <2>1 DEF ThreadsOK
<1>10. CASE (\E v \in Url \X Ip : Forget(v)) \/ Drain \/ Work \/ ReplyLost \/ WorkerFails
  BY <1>9, <1>10 DEF Forget, Drain, Work, Answered, Unreachable, Ack, Nack, ReplyLost, WorkerFails
<1>11. CASE \/ \E r \in queue : ComesDue(r) \/ GrowsOld(r)
            \/ \E i \in Ip : Removed(i)
            \/ \E m \in {"regular", "attack"} : SetMode(m)
            \/ UNCHANGED vars
  BY <1>9, <1>11 DEF ComesDue, GrowsOld, Removed, SetMode, vars
<1> QED BY <1>5, <1>6, <1>7, <1>8, <1>10, <1>11 DEF Next
-----------------------------------------------------------------------------
(* Between the relay's acceptance and the deletion of the row, each visit  *)
(* that the row stands for has its source admitted or another row.         *)
AckOK ==
  step = "ack" =>
    \A v \in owed : v \in VisitsOf(Head(batch).item) =>
      \/ v[2] \in active
      \/ \E r \in queue : r.id # Head(batch).id /\ v \in VisitsOf(r.item)

(* Everything the queue's promises need. *)
QueueInv == TypeOK /\ RowsOK /\ BatchOK /\ ThreadsOK
HonourInv == AckOK /\ VisitHonoured

(* Sources and debts: who changes them. *)
LEMMA OwedActions ==
  ASSUME [Next]_vars
  PROVE  \/ \E h \in Handler : Put(h)
         \/ Nack \/ Answered \/ ReplyLost
         \/ \E i \in Ip : Removed(i)
         \/ UNCHANGED <<owed, active>>
<1> USE DEF table, threads, worker, relay, history
<1>1. CASE \E h \in Handler, u \in Url, i \in Ip : Visit(h, u, i) BY <1>1 DEF Visit
<1>2. CASE \E h \in Handler : Look(h) \/ HandlerFails(h) BY <1>2 DEF Look, HandlerFails
<1>3. CASE (\E v \in Url \X Ip : Forget(v)) \/ PhoneRestarts BY <1>3 DEF Forget, PhoneRestarts
<1>4. CASE Drain \/ Ack \/ Unreachable \/ WorkerFails
  BY <1>4 DEF Drain, Ack, Unreachable, WorkerFails
<1>5. CASE (\E r \in queue : ComesDue(r) \/ GrowsOld(r)) \/ \E m \in {"regular", "attack"} : SetMode(m)
  BY <1>5 DEF ComesDue, GrowsOld, SetMode
<1>6. CASE UNCHANGED vars BY <1>6 DEF vars
<1> QED BY <1>1, <1>2, <1>3, <1>4, <1>5, <1>6 DEF Next, Work

(* Step "ack" is reached by an answer alone, and left by the worker alone. *)
LEMMA AckActions ==
  ASSUME TypeOK, [Next]_vars, step' = "ack"
  PROVE  \/ Answered /\ Accepts(Head(batch).item)
         \/ step = "ack" /\ batch' = batch /\ ~Ack /\ ~Nack /\ ~Answered /\ ~ReplyLost
<1> USE DEF table, threads, worker, relay, history
<1>1. ~Ack /\ ~Nack /\ ~ReplyLost /\ (step = "ack" => ~Answered)
  BY DEF Ack, Nack, NextRow, ReplyLost, Answered
<1>2. CASE \E h \in Handler, u \in Url, i \in Ip : Visit(h, u, i) BY <1>1, <1>2 DEF Visit
<1>3. CASE \E h \in Handler : Look(h) \/ Put(h) \/ HandlerFails(h)
  BY <1>1, <1>3 DEF Look, Put, HandlerFails
<1>4. CASE (\E v \in Url \X Ip : Forget(v)) \/ PhoneRestarts
  BY <1>1, <1>4 DEF Forget, PhoneRestarts
<1>5. CASE Drain \/ Unreachable \/ WorkerFails BY <1>5 DEF Drain, Unreachable, WorkerFails
<1>6. CASE Answered BY <1>6 DEF Answered
<1>7. CASE (\E r \in queue : ComesDue(r) \/ GrowsOld(r))
           \/ (\E i \in Ip : Removed(i)) \/ \E m \in {"regular", "attack"} : SetMode(m)
  BY <1>1, <1>7 DEF ComesDue, GrowsOld, Removed, SetMode
<1>8. CASE UNCHANGED vars BY <1>1, <1>8 DEF vars
<1> QED BY <1>1, <1>2, <1>3, <1>4, <1>5, <1>6, <1>7, <1>8 DEF Next, Work

(* A row that Put has made, or has found undisturbed, honours its visit. *)
LEMMA PutHonours ==
  ASSUME QueueInv, NEW h \in Handler, Put(h), NEW v \in owed', v \notin owed
  PROVE  /\ active' = active /\ step' = step /\ batch' = batch
         /\ \/ v[2] \in active'
            \/ \E r \in queue' : /\ v \in VisitsOf(r.item)
                                 /\ step = "ack" => r.id # Head(batch).id
<1> USE DEF QueueInv, SameRow
<1>1. v \in VisitsOf(Payload(h)) /\ ~Overlooked(h) BY DEF Put
<1>2. active' = active /\ step' = step /\ batch' = batch BY DEF Put, worker, relay
<1>3. CASE found[h] = 0
  <2>1. PICK n \in queue' : n.id = nextId /\ n.item = Payload(h) BY <1>3, PutRows
  <2>2. step = "ack" => Head(batch).id # nextId
    <3>1. nextId \in Nat BY DEF TypeOK
    <3>2. step = "ack" => \E r \in queue : r.id = Head(batch).id BY BatchParts DEF BatchOK
    <3> QED BY <3>1, <3>2 DEF RowsOK
  <2> QED BY <1>1, <1>2, <2>1, <2>2
<1>4. CASE found[h] # 0 /\ visit[h][2] \in active
  <2>1. v[2] = visit[h][2] BY <1>1 DEF VisitsOf, Payload
  <2> QED BY <1>2, <1>4, <2>1
<1>5. CASE found[h] # 0 /\ visit[h][2] \notin active
  <2>1. PICK r \in queue : r.id = found[h] BY <1>1, <1>5 DEF Overlooked
  <2>2. r.item = Payload(h) BY <2>1 DEF ThreadsOK
  <2>3. step = "ack" => Head(batch).id # found[h] BY <1>1, <1>5 DEF Overlooked
  <2>4. PICK q \in queue' : SameRow(r, q) BY <1>5, PutRows
  <2> QED BY <1>1, <1>2, <2>1, <2>2, <2>3, <2>4
<1> QED BY <1>3, <1>4, <1>5

(* What the relay takes away it takes from the debts as well. *)
LEMMA ActiveStays ==
  ASSUME TypeOK, [Next]_vars, NEW v \in owed, v \in owed', v[2] \in active
  PROVE  v[2] \in active'
<1> USE DEF table, threads, worker, relay, history
<1>1. CASE \E h \in Handler : Put(h) BY <1>1 DEF Put
<1>2. CASE Nack BY <1>2 DEF Nack
<1>3. CASE Answered \/ ReplyLost BY <1>3 DEF Answered, ReplyLost, Effect
<1>4. ASSUME NEW i \in Ip, Removed(i) PROVE v[2] \in active'
  <2>1. v \in Url \X Ip BY DEF TypeOK
  <2>2. v[2] # i BY <1>4, <2>1 DEF Removed
  <2> QED BY <1>4, <2>2 DEF Removed
<1> QED BY <1>1, <1>2, <1>3, <1>4, OwedActions

(* Debts are made by Put alone. *)
LEMMA OwedComes ==
  ASSUME [Next]_vars, NEW v \in owed', v \notin owed
  PROVE  \E h \in Handler : Put(h)
BY OwedActions DEF Nack, Answered, ReplyLost, Removed, history, threads

(* The row that the worker has under way is its first one. *)
LEMMA HeadRow ==
  ASSUME QueueInv, step # "sleep", NEW r \in queue, r.id = Head(batch).id
  PROVE  r.item = Head(batch).item
<1>1. \E q \in queue : q.id = Head(batch).id /\ q.item = Head(batch).item
  BY BatchParts DEF QueueInv, BatchOK
<1> QED BY <1>1 DEF QueueInv, RowsOK

(* A row that is deleted has been accepted or given up. *)
LEMMA HonouredStays ==
  ASSUME QueueInv, HonourInv, [Next]_vars, NEW v \in owed, v \in owed'
  PROVE  Honoured(v)'
<1> USE DEF QueueInv, SameRow
<1>1. CASE v[2] \in active BY <1>1, ActiveStays DEF Honoured
<1>2. CASE v[2] \notin active
  <2>1. PICK r \in queue : v \in VisitsOf(r.item) BY <1>2 DEF HonourInv, VisitHonoured, Honoured
  <2>2. CASE \E q \in queue' : SameRow(r, q) BY <2>1, <2>2 DEF Honoured
  <2>3. CASE Ack /\ r.id = Head(batch).id
    <3>1. v \in VisitsOf(Head(batch).item) /\ step = "ack" BY <2>1, <2>3, HeadRow DEF Ack
    <3>2. PICK q \in queue : q.id # Head(batch).id /\ v \in VisitsOf(q.item)
      BY <1>2, <3>1 DEF HonourInv, AckOK
    <3>3. q \in queue' BY <2>3, <3>2 DEF Ack
    <3> QED BY <3>2, <3>3 DEF Honoured
  <2>4. CASE Nack /\ r.id = Head(batch).id
    <3> DEFINE f(s) == [s EXCEPT !.tries = @ + 1, !.due = FALSE]
               mine == {s \in queue : s.id = Head(batch).id}
               last == {s \in mine : s.tries + 1 >= MaxTries \/ s.old}
    <3>1. queue' = (queue \ mine) \cup {f(s) : s \in mine \ last}
          /\ owed' = owed \ UNION {VisitsOf(s.item) : s \in last}
      BY <2>4 DEF Nack
    <3>2. r \in mine \ last BY <2>1, <2>4, <3>1
    <3>3. f(r) \in queue' BY <3>1, <3>2
    <3>4. f(r).item = r.item BY DEF TypeOK, Row
    <3> HIDE DEF f
    <3> QED BY <2>1, <3>3, <3>4 DEF Honoured
  <2> QED BY <2>2, <2>3, <2>4, RowsStay
<1> QED BY <1>1, <1>2

(* Every step keeps visits honoured, and ready for their rows to go. *)
LEMMA HonourStep ==
  ASSUME QueueInv, HonourInv, [Next]_vars
  PROVE  HonourInv'
<1> USE DEF QueueInv
<1>1. ASSUME NEW v \in owed' PROVE Honoured(v)'
  <2>1. CASE v \in owed BY <2>1, HonouredStays
  <2>2. CASE v \notin owed BY <2>2, OwedComes, PutHonours DEF Honoured
  <2> QED BY <2>1, <2>2
<1>2. ASSUME step' = "ack", NEW v \in owed', v \in VisitsOf(Head(batch').item)
      PROVE  v[2] \in active' \/ \E r \in queue' : r.id # Head(batch').id /\ v \in VisitsOf(r.item)
  <2>1. CASE Answered /\ Accepts(Head(batch).item)
    <3>1. batch' = batch BY <2>1 DEF Answered
    <3>2. Head(batch).item.kind = "ingest" /\ v[2] = Head(batch).item.ip
      BY <1>2, <3>1 DEF VisitsOf
    <3> QED BY <2>1, <3>2 DEF Answered, Effect, Accepts
  <2>2. CASE step = "ack" /\ batch' = batch /\ ~Ack /\ ~Nack /\ ~Answered /\ ~ReplyLost
    <3>1. CASE v \notin owed BY <2>2, <3>1, OwedComes, PutHonours
    <3>2. CASE v \in owed /\ v[2] \in active BY <3>2, ActiveStays
    <3>3. CASE v \in owed /\ v[2] \notin active
      <4>1. PICK r \in queue : r.id # Head(batch).id /\ v \in VisitsOf(r.item)
        BY <1>2, <2>2, <3>3 DEF HonourInv, AckOK
      <4>2. PICK q \in queue' : SameRow(r, q) BY <2>2, RowsStay
      <4> QED BY <2>2, <4>1, <4>2 DEF SameRow
    <3> QED BY <3>1, <3>2, <3>3
  <2> QED BY <1>2, <2>1, <2>2, AckActions
<1> QED BY <1>1, <1>2 DEF HonourInv, VisitHonoured, AckOK

(* The start. *)
LEMMA HonourInit == Init => QueueInv /\ HonourInv
<1> SUFFICES ASSUME Init PROVE QueueInv /\ HonourInv
  OBVIOUS
<1>1. RowsOK /\ ThreadsOK BY DEF Init, RowsOK, ThreadsOK
<1>2. BatchOK BY DEF Init, BatchOK
<1>3. HonourInv BY DEF Init, HonourInv, AckOK, VisitHonoured
<1> QED BY <1>1, <1>2, <1>3, TypeInit DEF QueueInv

(* All that the proofs rest on holds together. *)
LEMMA QueueStep ==
  ASSUME QueueInv, [Next]_vars
  PROVE  QueueInv'
BY TypeStep, RowsStep, BatchStep, ThreadsStep DEF QueueInv

(* Types, of all variables of threads, worker and relay. *)
THEOREM TypeCorrect == Spec => []TypeOK
<1>1. Init => QueueInv BY HonourInit
<1>2. QueueInv /\ [Next]_vars => QueueInv' BY QueueStep
<1>3. QueueInv => TypeOK BY DEF QueueInv
<1> QED BY <1>1, <1>2, <1>3, PTL DEF Spec

(* A visit whose payload was queued is in the queue or its source is       *)
(* admitted, until the relay removes it or the row is given up, whatever   *)
(* fails and however visits merge into rows that are being sent            *)
(* (exitnode.py:95-116, state.py:569-620).                                 *)
THEOREM VisitsSafe == Spec => []VisitHonoured
<1>1. Init => QueueInv /\ HonourInv BY HonourInit
<1>2. QueueInv /\ HonourInv /\ [Next]_vars => (QueueInv /\ HonourInv)'
  BY QueueStep, HonourStep
<1>3. HonourInv => VisitHonoured BY DEF HonourInv
<1> QED BY <1>1, <1>2, <1>3, PTL DEF Spec
-----------------------------------------------------------------------------
(* Hits that may still be counted on the relay: a row of the queue each,   *)
(* but for the one that was counted and is about to be deleted, and one    *)
(* for each thread that is under way.                                      *)
Unsent(u) ==
  {r \in queue : /\ r.item.kind = "hit" /\ r.item.url = u
                 /\ ~(step = "ack" /\ r.id = Head(batch).id)}
HitIds(u) == {r.id : r \in Unsent(u)}
Busy(u) == {h \in Handler : at[h] # "idle" /\ visit[h][1] = u}

(* Hits counted and hits to come are paid for by visits and faults. *)
HitsInv ==
  \A u \in Url :
    /\ IsFiniteSet(Busy(u))
    /\ hits[u] + Cardinality(HitIds(u)) + Cardinality(Busy(u)) <= accepted[u] + faults

(* The sums are sums of numbers. *)
LEMMA HitsTyped ==
  ASSUME QueueInv, HitsInv, NEW u \in Url
  PROVE  /\ IsFiniteSet(HitIds(u)) /\ Cardinality(HitIds(u)) \in Nat
         /\ IsFiniteSet(Busy(u)) /\ Cardinality(Busy(u)) \in Nat
         /\ hits[u] \in Nat /\ accepted[u] \in Nat /\ faults \in Nat
<1>1. nextId \in Nat BY DEF QueueInv, TypeOK
<1>2. HitIds(u) \subseteq 1..(nextId - 1) BY DEF HitIds, Unsent, QueueInv, RowsOK
<1>3. IsFiniteSet(HitIds(u))
  <2>1. IsFiniteSet(1..(nextId - 1)) BY <1>1, FS_Interval
  <2> QED BY <1>2, <2>1, FS_Subset
<1>4. IsFiniteSet(Busy(u)) BY DEF HitsInv
<1>5. MaxFaults \in Nat BY ConstantsAssumption
<1> QED BY <1>3, <1>4, <1>5, FS_CardinalityType DEF QueueInv, TypeOK

(* An answered row waits for its deletion, unless the worker fails. *)
LEMMA AckStays ==
  ASSUME [Next]_vars, step = "ack", ~Ack, ~WorkerFails
  PROVE  step' = "ack" /\ batch' = batch
<1> USE DEF table, threads, worker, relay, history
<1>1. CASE \E h \in Handler, u \in Url, i \in Ip : Visit(h, u, i) BY <1>1 DEF Visit
<1>2. CASE \E h \in Handler : Look(h) \/ Put(h) \/ HandlerFails(h)
  BY <1>2 DEF Look, Put, HandlerFails
<1>3. CASE (\E v \in Url \X Ip : Forget(v)) \/ PhoneRestarts BY <1>3 DEF Forget, PhoneRestarts
<1>4. CASE Drain \/ Answered \/ Unreachable \/ Nack \/ ReplyLost
  BY <1>4 DEF Drain, Answered, Unreachable, Nack, ReplyLost
<1>5. CASE (\E r \in queue : ComesDue(r) \/ GrowsOld(r))
           \/ (\E i \in Ip : Removed(i)) \/ \E m \in {"regular", "attack"} : SetMode(m)
  BY <1>5 DEF ComesDue, GrowsOld, Removed, SetMode
<1>6. CASE UNCHANGED vars BY <1>6 DEF vars
<1> QED BY <1>1, <1>2, <1>3, <1>4, <1>5, <1>6 DEF Next, Work

(* A hit comes to the queue with its thread, or comes back with a fault. *)
LEMMA HitIdsCome ==
  ASSUME QueueInv, [Next]_vars, NEW u \in Url, NEW n \in HitIds(u)', n \notin HitIds(u)
  PROVE  \/ WorkerFails /\ step = "ack" /\ n = Head(batch).id
         \/ /\ n = nextId
            /\ \E h \in Handler : Put(h) /\ found[h] = 0 /\ kind[h] = "hit" /\ visit[h][1] = u
<1> USE DEF QueueInv
<1>1. PICK r \in Unsent(u)' : r.id = n BY DEF HitIds
<1>2. /\ r \in queue' /\ r.item.kind = "hit" /\ r.item.url = u
      /\ ~(step' = "ack" /\ n = Head(batch').id)
  BY <1>1 DEF Unsent
<1>3. CASE \E q \in queue : SameRow(q, r)
  <2>1. PICK q \in queue : q.id = n /\ q.item = r.item BY <1>1, <1>3 DEF SameRow
  <2>2. step = "ack" /\ n = Head(batch).id BY <1>2, <2>1 DEF HitIds, Unsent
  <2>3. ~Ack BY <1>1, <1>2, <2>2 DEF Ack
  <2> QED BY <1>2, <2>2, <2>3, AckStays
<1>4. CASE r.id = nextId /\ ~(\E q \in queue : SameRow(q, r)) /\ \E h \in Handler : Put(h)
  <2>1. PICK h \in Handler : Put(h) BY <1>4
  <2>2. found[h] = 0 /\ r.item = Payload(h)
    <3>1. r \notin queue BY <1>4 DEF SameRow
    <3> QED BY <1>2, <1>4, <2>1, <3>1, PutRows
  <2>3. kind[h] = "hit" /\ visit[h][1] = u BY <1>2, <2>2 DEF Payload
  <2> QED BY <1>1, <1>4, <2>1, <2>2, <2>3
<1> QED BY <1>2, <1>3, <1>4, RowsCome

(* T is S but for at most one element, which came (1) or went (-1). *)
Moved(S, T, d) ==
  \/ d = 0 /\ T \subseteq S
  \/ d = 1 /\ \E n : T \subseteq S \cup {n}
  \/ d = -1 /\ \E n \in S : T \subseteq S \ {n}

LEMMA MovedCount ==
  ASSUME NEW S, NEW T, NEW d, IsFiniteSet(S), Moved(S, T, d)
  PROVE  /\ IsFiniteSet(T) /\ d \in Int
         /\ Cardinality(T) \in Nat /\ Cardinality(S) \in Nat
         /\ Cardinality(T) <= Cardinality(S) + d
<1>0. Cardinality(S) \in Nat BY FS_CardinalityType
<1>1. CASE d = 0 /\ T \subseteq S
  <2>1. IsFiniteSet(T) /\ Cardinality(T) <= Cardinality(S) BY <1>1, FS_Subset
  <2>2. Cardinality(T) \in Nat BY <2>1, FS_CardinalityType
  <2> QED BY <1>0, <1>1, <2>1, <2>2
<1>2. ASSUME d = 1, NEW n, T \subseteq S \cup {n}
      PROVE  IsFiniteSet(T) /\ Cardinality(T) \in Nat /\ Cardinality(T) <= Cardinality(S) + 1
  <2>1. IsFiniteSet(S \cup {n})
        /\ (Cardinality(S \cup {n}) = Cardinality(S) \/ Cardinality(S \cup {n}) = Cardinality(S) + 1)
    BY FS_AddElement
  <2>2. IsFiniteSet(T) /\ Cardinality(T) <= Cardinality(S \cup {n}) BY <1>2, <2>1, FS_Subset
  <2>3. Cardinality(T) \in Nat BY <2>2, FS_CardinalityType
  <2> QED BY <1>0, <2>1, <2>2, <2>3
<1>3. ASSUME d = -1, NEW n \in S, T \subseteq S \ {n}
      PROVE  IsFiniteSet(T) /\ Cardinality(T) \in Nat /\ Cardinality(T) <= Cardinality(S) - 1
  <2>1. IsFiniteSet(S \ {n}) /\ Cardinality(S \ {n}) = Cardinality(S) - 1 BY FS_RemoveElement
  <2>2. IsFiniteSet(T) /\ Cardinality(T) <= Cardinality(S \ {n}) BY <1>3, <2>1, FS_Subset
  <2>3. Cardinality(T) \in Nat BY <2>2, FS_CardinalityType
  <2> QED BY <1>0, <2>1, <2>2, <2>3
<1> QED BY <1>0, <1>1, <1>2, <1>3 DEF Moved

(* The balance of one URL: what comes in is paid for. *)
Balanced(u, d, e) ==
  /\ Moved(HitIds(u), HitIds(u)', d)
  /\ Moved(Busy(u), Busy(u)', e)
  /\ hits'[u] - hits[u] + d + e <= accepted'[u] - accepted[u] + faults' - faults

LEMMA BalancedStep ==
  ASSUME QueueInv, HitsInv, QueueInv', NEW u \in Url, NEW d, NEW e, Balanced(u, d, e)
  PROVE  /\ IsFiniteSet(Busy(u)')
         /\ hits'[u] + Cardinality(HitIds(u)') + Cardinality(Busy(u)') <= accepted'[u] + faults'
<1>1. IsFiniteSet(HitIds(u)) /\ IsFiniteSet(Busy(u))
      /\ hits[u] \in Nat /\ accepted[u] \in Nat /\ faults \in Nat
  BY HitsTyped
<1>2. hits'[u] \in Nat /\ accepted'[u] \in Nat /\ faults' \in Nat
  <2>1. MaxFaults \in Nat BY ConstantsAssumption
  <2> QED BY <2>1 DEF QueueInv, TypeOK
<1>3. /\ d \in Int /\ Cardinality(HitIds(u)') \in Nat /\ Cardinality(HitIds(u)) \in Nat
      /\ Cardinality(HitIds(u)') <= Cardinality(HitIds(u)) + d
  BY <1>1, MovedCount DEF Balanced
<1>4. /\ IsFiniteSet(Busy(u)') /\ e \in Int
      /\ Cardinality(Busy(u)') \in Nat /\ Cardinality(Busy(u)) \in Nat
      /\ Cardinality(Busy(u)') <= Cardinality(Busy(u)) + e
  BY <1>1, MovedCount DEF Balanced
<1>5. hits[u] + Cardinality(HitIds(u)) + Cardinality(Busy(u)) <= accepted[u] + faults
  BY DEF HitsInv
<1>6. hits'[u] - hits[u] + d + e <= accepted'[u] - accepted[u] + faults' - faults
  BY DEF Balanced
<1> QED BY <1>1, <1>2, <1>3, <1>4, <1>5, <1>6

(* Threads: a visit begins with its count, and puts its hit at its end. *)
LEMMA ThreadBalance ==
  ASSUME QueueInv, NEW h \in Handler, [Next]_vars, NEW u \in Url,
         \/ \E w \in Url, i \in Ip : Visit(h, w, i)
         \/ Look(h) \/ Put(h) \/ HandlerFails(h)
  PROVE  \E d, e : Balanced(u, d, e)
<1> USE DEF table, threads, worker, relay, history
<1>0. hits[u] \in Nat /\ accepted[u] \in Nat /\ faults \in Nat
  <2>1. MaxFaults \in Nat BY ConstantsAssumption
  <2> QED BY <2>1 DEF QueueInv, TypeOK
<1>1. ASSUME NEW w \in Url, NEW i \in Ip, Visit(h, w, i) PROVE \E d, e : Balanced(u, d, e)
  <2>1. HitIds(u)' \subseteq HitIds(u) BY <1>1 DEF Visit, HitIds, Unsent
  <2>2. CASE u = w
    <3>1. Busy(u)' \subseteq Busy(u) \cup {h} BY <1>1 DEF Visit, Busy, QueueInv, TypeOK
    <3>2. hits' = hits /\ faults' = faults /\ accepted'[u] = accepted[u] + 1
      BY <1>1, <2>2 DEF Visit, QueueInv, TypeOK
    <3>3. Balanced(u, 0, 1) BY <1>0, <2>1, <3>1, <3>2 DEF Balanced, Moved
    <3> QED BY <3>3
  <2>3. CASE u # w
    <3>1. Busy(u)' \subseteq Busy(u) BY <1>1, <2>3 DEF Visit, Busy, QueueInv, TypeOK
    <3>2. hits' = hits /\ faults' = faults /\ accepted'[u] = accepted[u]
      BY <1>1, <2>3 DEF Visit, QueueInv, TypeOK
    <3>3. Balanced(u, 0, 0) BY <1>0, <2>1, <3>1, <3>2 DEF Balanced, Moved
    <3> QED BY <3>3
  <2> QED BY <2>2, <2>3
<1>2. CASE Look(h)
  <2>1. HitIds(u)' \subseteq HitIds(u) BY <1>2 DEF Look, HitIds, Unsent
  <2>2. Busy(u)' \subseteq Busy(u) BY <1>2 DEF Look, Busy, QueueInv, TypeOK
  <2>3. Balanced(u, 0, 0) BY <1>0, <1>2, <2>1, <2>2 DEF Look, Balanced, Moved
  <2> QED BY <2>3
<1>3. CASE Put(h)
  <2>1. hits' = hits /\ faults' = faults /\ accepted' = accepted BY <1>3 DEF Put
  <2>2. step' = step BY <1>3 DEF Put
  <2>3. ~WorkerFails BY <1>3, <2>1, <1>0 DEF WorkerFails, FaultHappens
  <2>4. CASE kind[h] = "hit" /\ visit[h][1] = u
    <3>1. HitIds(u)' \subseteq HitIds(u) \cup {nextId} BY <2>3, HitIdsCome
    <3>2. h \in Busy(u) BY <1>3, <2>4 DEF Put, Busy
    <3>3. Busy(u)' \subseteq Busy(u) \ {h} BY <1>3, <2>4 DEF Put, Busy, QueueInv, TypeOK
    <3>4. Balanced(u, 1, -1) BY <1>0, <2>1, <3>1, <3>2, <3>3 DEF Balanced, Moved
    <3> QED BY <3>4
  <2>5. CASE ~(kind[h] = "hit" /\ visit[h][1] = u)
    <3>1. \A g \in Handler : Put(g) => g = h
      BY <1>3 DEF Put, QueueInv, TypeOK
    <3>2. HitIds(u)' \subseteq HitIds(u) BY <2>3, <2>5, <3>1, HitIdsCome
    <3>3. Busy(u)' \subseteq Busy(u) BY <1>3 DEF Put, Busy, QueueInv, TypeOK
    <3>4. Balanced(u, 0, 0) BY <1>0, <2>1, <3>2, <3>3 DEF Balanced, Moved
    <3> QED BY <3>4
  <2> QED BY <2>4, <2>5
<1>4. CASE HandlerFails(h)
  <2>1. HitIds(u)' \subseteq HitIds(u) BY <1>4 DEF HandlerFails, HitIds, Unsent
  <2>2. Busy(u)' \subseteq Busy(u) BY <1>4 DEF HandlerFails, Busy, QueueInv, TypeOK
  <2>3. hits' = hits /\ accepted' = accepted /\ faults' = faults + 1
    BY <1>4 DEF HandlerFails, FaultHappens
  <2>4. Balanced(u, 0, 0) BY <1>0, <2>1, <2>2, <2>3 DEF Balanced, Moved
  <2> QED BY <2>4
<1> QED BY <1>1, <1>2, <1>3, <1>4

(* The worker: an answered hit is no longer to come, but for faults. *)
LEMMA WorkerBalance ==
  ASSUME QueueInv, [Next]_vars, NEW u \in Url, Drain \/ Work \/ ReplyLost \/ WorkerFails
  PROVE  \E d, e : Balanced(u, d, e)
<1> USE DEF table, threads, worker, relay, history
<1>0. hits[u] \in Nat /\ accepted[u] \in Nat /\ faults \in Nat
  <2>1. MaxFaults \in Nat BY ConstantsAssumption
  <2> QED BY <2>1 DEF QueueInv, TypeOK
<1>1. Busy(u)' \subseteq Busy(u)
  BY DEF Busy, Drain, Work, Answered, Unreachable, Ack, Nack, ReplyLost, WorkerFails
<1>2. accepted' = accepted
  BY DEF Drain, Work, Answered, Unreachable, Ack, Nack, ReplyLost, WorkerFails
<1>3. ~\E h \in Handler : Put(h)
  <2>1. at' = at
    BY DEF Drain, Work, Answered, Unreachable, Ack, Nack, ReplyLost, WorkerFails
  <2> QED BY <2>1 DEF Put, QueueInv, TypeOK
<1>4. ~WorkerFails => HitIds(u)' \subseteq HitIds(u) BY <1>3, HitIdsCome
<1>5. CASE Drain \/ Unreachable \/ Ack \/ Nack
  <2>1. hits' = hits /\ faults' = faults BY <1>5 DEF Drain, Unreachable, Ack, Nack
  <2>2. ~WorkerFails BY <1>0, <2>1 DEF WorkerFails, FaultHappens
  <2>3. Balanced(u, 0, 0) BY <1>0, <1>1, <1>2, <1>4, <2>1, <2>2 DEF Balanced, Moved
  <2> QED BY <2>3
<1>6. CASE Answered
  <2>1. faults' = faults /\ queue' = queue /\ batch' = batch BY <1>6 DEF Answered
  <2>2. ~WorkerFails BY <1>0, <2>1 DEF WorkerFails, FaultHappens
  <2>3. CASE Head(batch).item.kind = "hit" /\ Head(batch).item.url = u
    <3>1. hits'[u] = hits[u] + 1 /\ step' = "ack"
      BY <1>6, <2>3 DEF Answered, Effect, Accepts, QueueInv, TypeOK
    <3>2. \E r \in queue : r.id = Head(batch).id /\ r.item = Head(batch).item
      BY <1>6, BatchParts DEF Answered, QueueInv, BatchOK
    <3>3. Head(batch).id \in HitIds(u)
      BY <1>6, <2>3, <3>2 DEF Answered, HitIds, Unsent
    <3>4. HitIds(u)' \subseteq HitIds(u) \ {Head(batch).id}
      BY <1>6, <2>1, <3>1 DEF Answered, HitIds, Unsent
    <3>5. Balanced(u, -1, 0) BY <1>0, <1>1, <1>2, <2>1, <3>1, <3>3, <3>4 DEF Balanced, Moved
    <3> QED BY <3>5
  <2>4. CASE ~(Head(batch).item.kind = "hit" /\ Head(batch).item.url = u)
    <3>1. hits'[u] = hits[u] BY <1>6, <2>4 DEF Answered, Effect, QueueInv, TypeOK
    <3>2. Balanced(u, 0, 0) BY <1>0, <1>1, <1>2, <1>4, <2>1, <2>2, <3>1 DEF Balanced, Moved
    <3> QED BY <3>2
  <2> QED BY <2>3, <2>4
<1>7. CASE ReplyLost
  <2>1. faults' = faults + 1 /\ step = "send" BY <1>7 DEF ReplyLost, FaultHappens
  <2>2. hits'[u] - hits[u] <= 1 /\ hits'[u] \in Int
    <3>1. CASE hits' = hits BY <1>0, <3>1
    <3>2. CASE hits' = [hits EXCEPT ![Head(batch).item.url] = @ + 1]
      BY <1>0, <3>2 DEF QueueInv, TypeOK
    <3> QED BY <1>7, <3>1, <3>2 DEF ReplyLost, Effect
  <2>3. HitIds(u)' \subseteq HitIds(u) BY <1>7 DEF ReplyLost, HitIds, Unsent
  <2>4. Balanced(u, 0, 0) BY <1>0, <1>1, <1>2, <2>1, <2>2, <2>3 DEF Balanced, Moved
  <2> QED BY <2>4
<1>8. CASE WorkerFails
  <2>1. hits' = hits /\ faults' = faults + 1 BY <1>8 DEF WorkerFails, FaultHappens
  <2>2. HitIds(u)' \subseteq HitIds(u) \cup {Head(batch).id} BY <1>3, HitIdsCome
  <2>3. Balanced(u, 1, 0) BY <1>0, <1>1, <1>2, <2>1, <2>2 DEF Balanced, Moved
  <2> QED BY <2>3
<1> QED BY <1>5, <1>6, <1>7, <1>8 DEF Work

(* Every step keeps the balance of every URL. *)
LEMMA HitsStep ==
  ASSUME QueueInv, HitsInv, [Next]_vars
  PROVE  HitsInv'
<1> USE DEF table, threads, worker, relay, history
<1>1. QueueInv' BY QueueStep
<1>2. ASSUME NEW u \in Url PROVE \E d, e : Balanced(u, d, e)
  <2>0. hits[u] \in Nat /\ accepted[u] \in Nat /\ faults \in Nat BY HitsTyped
  <2>1. CASE \E h \in Handler : \/ \E w \in Url, i \in Ip : Visit(h, w, i)
                                \/ Look(h) \/ Put(h) \/ HandlerFails(h)
    BY <2>1, ThreadBalance
  <2>2. CASE Drain \/ Work \/ ReplyLost \/ WorkerFails BY <2>2, WorkerBalance
  <2>3. CASE PhoneRestarts
    <3>1. Busy(u)' \subseteq Busy(u) BY <2>3 DEF PhoneRestarts, Busy
    <3>2. HitIds(u)' \subseteq HitIds(u) BY <2>3 DEF PhoneRestarts, HitIds, Unsent
    <3>3. Balanced(u, 0, 0)
      BY <2>0, <2>3, <3>1, <3>2 DEF PhoneRestarts, FaultHappens, Balanced, Moved
    <3> QED BY <3>3
  <2>4. CASE \/ \E v \in Url \X Ip : Forget(v)
             \/ \E r \in queue : ComesDue(r) \/ GrowsOld(r)
             \/ \E i \in Ip : Removed(i)
             \/ \E m \in {"regular", "attack"} : SetMode(m)
             \/ UNCHANGED vars
    <3>1. UNCHANGED <<at, visit, kind, found, step, hits, accepted, faults>>
      BY <2>4 DEF Forget, ComesDue, GrowsOld, Removed, SetMode, vars
    <3>2. ~WorkerFails BY <2>0, <3>1 DEF WorkerFails, FaultHappens
    <3>3. ~\E h \in Handler : Put(h) BY <3>1 DEF Put, QueueInv, TypeOK
    <3>4. HitIds(u)' \subseteq HitIds(u) BY <3>2, <3>3, HitIdsCome
    <3>5. Busy(u)' \subseteq Busy(u) BY <3>1 DEF Busy
    <3>6. Balanced(u, 0, 0) BY <2>0, <3>1, <3>4, <3>5 DEF Balanced, Moved
    <3> QED BY <3>6
  <2> QED BY <2>1, <2>2, <2>3, <2>4 DEF Next
<1> QED BY <1>1, <1>2, BalancedStep DEF HitsInv

(* The relay never counts more hits of a URL than there were visits, but   *)
(* for one more with each fault (exitnode.py:95-116).                      *)
THEOREM HitsSafe == Spec => []HitsNotInvented
<1>1. Init => QueueInv /\ HitsInv
  <2> SUFFICES ASSUME Init, NEW u \in Url
               PROVE  IsFiniteSet(Busy(u)) /\ hits[u] + Cardinality(HitIds(u)) + Cardinality(Busy(u)) <= accepted[u] + faults
    BY HonourInit DEF HitsInv
  <2>1. HitIds(u) = {} /\ Busy(u) = {} BY DEF Init, HitIds, Unsent, Busy
  <2> QED BY <2>1, FS_EmptySet DEF Init
<1>2. QueueInv /\ HitsInv /\ [Next]_vars => (QueueInv /\ HitsInv)'
  BY QueueStep, HitsStep
<1>3. QueueInv /\ HitsInv => HitsNotInvented
  <2> SUFFICES ASSUME QueueInv, HitsInv, NEW u \in Url PROVE hits[u] <= accepted[u] + faults
    BY DEF HitsNotInvented
  <2> QED BY HitsTyped DEF HitsInv
<1> QED BY <1>1, <1>2, <1>3, PTL DEF Spec
=============================================================================
