---------------------------- MODULE DdnsSyncProofs ----------------------------
(***************************************************************************)
(* Proofs about DdnsSync for any hosts, networks and answers: types for    *)
(* any number of runs and any edits and faults, and that hosts that share  *)
(* a network keep it, for one timer at a time.                             *)
(***************************************************************************)
EXTENDS DdnsSync, Integers, TLAPS

LEMMA InitTyped == Init => TypeOK
<1> SUFFICES ASSUME Init PROVE TypeOK
  OBVIOUS
<1> USE ConstantsAssumption
<1>1. config \in Seq(Host)
  <2>1. CASE config = <<>>
    BY <2>1
  <2>2. ASSUME NEW k \in 1..Cardinality(Host), config \in [1..k -> Host]
        PROVE  config \in Seq(Host)
    <3>1. k \in Nat
      OBVIOUS
    <3> QED
      BY <2>2, <3>1
  <2> QED
    BY <2>1, <2>2, Zenon DEF Init
<1>2. /\ note \in [Net -> Host \cup {None}] /\ seen \in [Host -> SUBSET Net]
      /\ admin \in [at : {"idle", "rows", "apply"}, host : Host \cup {None}]
      /\ dns \in [Host -> Answers] /\ mode \in {"regular", "attack"} /\ live \subseteq Net
  BY DEF Init
<1>3. /\ pc \in [Run -> {"idle", "next", "ingest"}] /\ todo \in [Run -> Seq(Host)]
      /\ host \in [Run -> Host \cup {None}]
      /\ nets \in [Run -> SUBSET Net] /\ current \in [Run -> SUBSET Net]
      /\ changed \in [Run -> BOOLEAN]
  BY DEF Init
<1>4. \A r \in Run : nets[r] \subseteq current[r] /\ (pc[r] = "ingest" <=> host[r] # None)
  BY DEF Init
<1>5. edits \in 0..MaxEdits /\ faults \in 0..MaxFaults
  BY DEF Init
<1>6. pending \in BOOLEAN /\ unapplied \in BOOLEAN
  BY Zenon DEF Init
<1> QED
  BY <1>1, <1>2, <1>3, <1>4, <1>5, <1>6 DEF TypeOK

(* The parts of TypeOK, by what they are about. *)
RelayOK ==
  /\ mode \in {"regular", "attack"}
  /\ note \in [Net -> Host \cup {None}]
  /\ live \subseteq Net
  /\ pending \in BOOLEAN

RunsOK ==
  /\ pc \in [Run -> {"idle", "next", "ingest"}]
  /\ todo \in [Run -> Seq(Host)]
  /\ host \in [Run -> Host \cup {None}]
  /\ nets \in [Run -> SUBSET Net]
  /\ current \in [Run -> SUBSET Net]
  /\ \A r \in Run : nets[r] \subseteq current[r] /\ (pc[r] = "ingest" <=> host[r] # None)
  /\ changed \in [Run -> BOOLEAN]

RestOK ==
  /\ config \in Seq(Host)
  /\ dns \in [Host -> Answers]
  /\ admin \in [at : {"idle", "rows", "apply"}, host : Host \cup {None}]
  /\ edits \in 0..MaxEdits /\ faults \in 0..MaxFaults
  /\ seen \in [Host -> SUBSET Net]
  /\ unapplied \in BOOLEAN

LEMMA TypeParts == TypeOK <=> RelayOK /\ RunsOK /\ RestOK
BY DEF TypeOK, RelayOK, RunsOK, RestOK

LEMMA Counts ==
  ASSUME TypeOK
  PROVE  /\ \A k : FaultHappens(k) => faults' \in 0..MaxFaults
         /\ \A k : Edit(k) => edits' \in 0..MaxEdits
BY ConstantsAssumption DEF FaultHappens, Edit, TypeOK

LEMMA ApplyTyped ==
  ASSUME TypeOK, ApplyState
  PROVE  /\ live' \subseteq Net /\ pending' \in BOOLEAN
         /\ unapplied' \in BOOLEAN /\ faults' \in 0..MaxFaults
<1>1. Rows \subseteq Net
  BY DEF Rows
<1>2. CASE live' = Rows /\ pending' = FALSE /\ unapplied' = FALSE /\ UNCHANGED faults
  BY <1>1, <1>2 DEF TypeOK
<1>3. CASE UNCHANGED <<live, unapplied>> /\ pending' = TRUE /\ FaultHappens("nft")
  BY <1>3, Counts DEF TypeOK
<1> QED
  BY <1>2, <1>3 DEF ApplyState

LEMMA RestTyped == ASSUME TypeOK, NEW r \in Run, Rest(r) PROVE RunsOK'
BY DEF Rest, TypeOK, RunsOK

LEMMA WithoutTyped == ASSUME TypeOK, NEW S PROVE Without(S) \in [Net -> Host \cup {None}]
BY DEF Without, TypeOK

(* The steps of a run. *)
LEMMA RunTypes ==
  ASSUME TypeOK, NEW r \in Run, Start(r) \/ Step(r) \/ Stop(r)
  PROVE  TypeOK'
<1> USE DEF relay, local, counters, history
<1>1. CASE Start(r)
  <2>1. live' \subseteq Net /\ pending' \in BOOLEAN /\ unapplied' \in BOOLEAN
        /\ faults' \in 0..MaxFaults
    <3>1. CASE ApplyState BY <3>1, ApplyTyped
    <3>2. CASE UNCHANGED <<live, pending, faults, unapplied>> BY <3>2 DEF TypeOK
    <3> QED BY <1>1, <3>1, <3>2 DEF Start
  <2>2. RunsOK'
    <3>1. CASE UNCHANGED local BY <3>1 DEF RunsOK, TypeOK
    <3>2. CASE /\ pc' = [pc EXCEPT ![r] = "next"] /\ todo' = [todo EXCEPT ![r] = config]
               /\ UNCHANGED <<host, nets, current, changed>> /\ pc[r] = "idle"
      BY <3>2 DEF RunsOK, TypeOK
    <3> QED BY <1>1, <3>1, <3>2 DEF Start
  <2>3. RelayOK' BY <1>1, <2>1 DEF Start, RelayOK, TypeOK
  <2>4. RestOK' BY <1>1, <2>1 DEF Start, RestOK, TypeOK
  <2> QED BY <2>2, <2>3, <2>4, TypeParts, PTL
<1>2. CASE Resolve(r)
  <2>1. Head(todo[r]) \in Host /\ Tail(todo[r]) \in Seq(Host)
    BY <1>2 DEF Resolve, TypeOK
  <2>2. dns[Head(todo[r])] \subseteq Net
    BY <2>1, ConstantsAssumption DEF TypeOK
  <2>3. todo' \in [Run -> Seq(Host)] /\ changed' = changed
    BY <1>2, <2>1 DEF Resolve, TypeOK
  <2> DEFINE h == Head(todo[r])
  <2>4. CASE /\ pc' = [pc EXCEPT ![r] = "ingest"] /\ host' = [host EXCEPT ![r] = h]
             /\ nets' = [nets EXCEPT ![r] = dns[h]] /\ current' = [current EXCEPT ![r] = dns[h]]
             /\ seen' = [seen EXCEPT ![h] = dns[h]] /\ UNCHANGED faults
    <3>1. RunsOK' BY <2>1, <2>2, <2>3, <2>4, ConstantsAssumption DEF RunsOK, TypeOK
    <3>2. RelayOK' BY <1>2 DEF Resolve, RelayOK, TypeOK
    <3>3. RestOK' BY <1>2, <2>1, <2>2, <2>4 DEF Resolve, RestOK, TypeOK
    <3> QED BY <3>1, <3>2, <3>3, TypeParts, PTL
  <2>5. CASE FaultHappens("dns") /\ UNCHANGED <<pc, host, nets, current, seen>>
    <3>1. RunsOK' BY <2>3, <2>5 DEF RunsOK, TypeOK
    <3>2. RelayOK' BY <1>2 DEF Resolve, RelayOK, TypeOK
    <3>3. RestOK' BY <1>2, <2>5, Counts DEF Resolve, RestOK, TypeOK
    <3> QED BY <3>1, <3>2, <3>3, TypeParts, PTL
  <2> QED BY <1>2, <2>4, <2>5 DEF Resolve
<1>3. CASE Ingest(r)
  <2>1. PICK n \in nets[r] :
          /\ nets' = [nets EXCEPT ![r] = @ \ {n}]
          /\ note' = IF mode = "regular" THEN [note EXCEPT ![n] = host[r]] ELSE note
          /\ changed' = [changed EXCEPT ![r] = @ \/ (mode = "regular" /\ note[n] = None)]
    BY <1>3 DEF Ingest
  <2>2. n \in Net /\ host[r] \in Host \cup {None} BY <2>1 DEF TypeOK
  <2>3. note' \in [Net -> Host \cup {None}] BY <2>1, <2>2 DEF TypeOK
  <2>4. changed' \in [Run -> BOOLEAN] BY <2>1 DEF TypeOK
  <2>5. RunsOK' BY <1>3, <2>1, <2>4 DEF Ingest, RunsOK, TypeOK
  <2>6. RelayOK' BY <1>3, <2>3 DEF Ingest, RelayOK, TypeOK
  <2>7. RestOK' BY <1>3 DEF Ingest, RestOK, TypeOK
  <2> QED BY <2>5, <2>6, <2>7, TypeParts, PTL
<1>4. CASE Reconcile(r)
  <2>1. changed' \in [Run -> BOOLEAN] BY <1>4 DEF Reconcile, TypeOK
  <2>2. RunsOK' BY <1>4, <2>1 DEF Reconcile, RunsOK, TypeOK
  <2>3. RelayOK' BY <1>4, WithoutTyped DEF Reconcile, RelayOK, TypeOK
  <2>4. RestOK' BY <1>4 DEF Reconcile, RestOK, TypeOK
  <2> QED BY <2>2, <2>3, <2>4, TypeParts, PTL
<1>5. CASE Finish(r)
  <2>1. live' \subseteq Net /\ pending' \in BOOLEAN /\ unapplied' \in BOOLEAN
        /\ faults' \in 0..MaxFaults
    <3>1. CASE ApplyState BY <3>1, ApplyTyped
    <3>2. CASE UNCHANGED <<live, pending, faults, unapplied>> BY <3>2 DEF TypeOK
    <3> QED BY <1>5, <3>1, <3>2 DEF Finish
  <2>2. RunsOK' BY <1>5, RestTyped DEF Finish
  <2>3. RelayOK' BY <1>5, <2>1 DEF Finish, RelayOK, TypeOK
  <2>4. RestOK' BY <1>5, <2>1 DEF Finish, RestOK, TypeOK
  <2> QED BY <2>2, <2>3, <2>4, TypeParts, PTL
<1>6. CASE Stop(r)
  <2>1. RunsOK' BY <1>6, RestTyped DEF Stop
  <2>2. RelayOK' BY <1>6 DEF Stop, RelayOK, TypeOK
  <2>3. unapplied' \in BOOLEAN BY <1>6 DEF Stop, TypeOK
  <2>4. RestOK' BY <1>6, <2>3, Counts DEF Stop, RestOK, TypeOK
  <2> QED BY <2>1, <2>2, <2>4, TypeParts, PTL
<1> QED BY <1>1, <1>2, <1>3, <1>4, <1>5, <1>6 DEF Step

(* The steps of the administrator, and of the hosts. *)
LEMMA AdminTypes ==
  ASSUME TypeOK,
         \/ \E h \in Host : DdnsAdd(h) \/ DdnsDelete(h)
         \/ \E h \in Host, a \in Answers : Moves(h, a)
         \/ DdnsDeleteRows \/ DdnsDeleteApply \/ DdnsDeleteStops
         \/ \E m \in {"regular", "attack"} : SetMode(m)
  PROVE  TypeOK'
<1> USE DEF relay, local, counters, history
<1>1. ASSUME NEW h \in Host, DdnsAdd(h) PROVE TypeOK'
  <2>1. config' \in Seq(Host) BY <1>1 DEF DdnsAdd, TypeOK
  <2> QED BY <1>1, <2>1, Counts DEF DdnsAdd, TypeOK
<1>2. ASSUME NEW h \in Host, DdnsDelete(h) PROVE TypeOK'
  <2>1. \A k \in DOMAIN config :
          SubSeq(config, 1, k - 1) \o SubSeq(config, k + 1, Len(config)) \in Seq(Host)
    BY DEF TypeOK
  <2>2. \E k \in DOMAIN config : config[k] = h
    BY <1>2 DEF DdnsDelete, Configured
  <2>3. config' \in Seq(Host)
    BY <1>2, <2>1, <2>2 DEF DdnsDelete, Others
  <2>4. admin' \in [at : {"idle", "rows", "apply"}, host : Host \cup {None}]
    BY <1>2 DEF DdnsDelete, TypeOK
  <2>5. edits' \in 0..MaxEdits
    BY <1>2, Counts DEF DdnsDelete
  <2> QED BY <1>2, <2>3, <2>4, <2>5 DEF DdnsDelete, TypeOK
<1>3. ASSUME NEW h \in Host, NEW a \in Answers, Moves(h, a) PROVE TypeOK'
  BY <1>3 DEF Moves, TypeOK
<1>4. CASE DdnsDeleteRows
  <2>1. admin' \in [at : {"idle", "rows", "apply"}, host : Host \cup {None}]
    <3>1. \/ admin' = [admin EXCEPT !.at = "apply"]
          \/ admin' = [at |-> "idle", host |-> None]
      BY <1>4 DEF DdnsDeleteRows, AdminRests
    <3>2. CASE admin' = [admin EXCEPT !.at = "apply"]
      <4>1. admin \in [at : {"idle", "rows", "apply"}, host : Host \cup {None}]
        BY DEF TypeOK
      <4> QED
        BY <3>2, <4>1
    <3>3. CASE admin' = [at |-> "idle", host |-> None]
      BY <3>3
    <3> QED
      BY <3>1, <3>2, <3>3
  <2>2. note' \in [Net -> Host \cup {None}]
    BY <1>4, WithoutTyped DEF DdnsDeleteRows
  <2> QED BY <1>4, <2>1, <2>2 DEF DdnsDeleteRows, TypeOK
<1>5. CASE DdnsDeleteApply
  <2>1. Rows \subseteq Net BY DEF Rows
  <2>2. live' \subseteq Net /\ unapplied' \in BOOLEAN /\ faults' \in 0..MaxFaults
    BY <1>5, <2>1, Counts DEF DdnsDeleteApply, TypeOK
  <2> QED BY <1>5, <2>2 DEF DdnsDeleteApply, AdminRests, TypeOK
<1>6. CASE DdnsDeleteStops
  <2>1. unapplied' \in BOOLEAN BY <1>6 DEF DdnsDeleteStops, TypeOK
  <2> QED BY <1>6, <2>1, Counts DEF DdnsDeleteStops, AdminRests, TypeOK
<1>7. ASSUME NEW m \in {"regular", "attack"}, SetMode(m) PROVE TypeOK'
  BY <1>7, Counts DEF SetMode, TypeOK
<1> QED BY <1>1, <1>2, <1>3, <1>4, <1>5, <1>6, <1>7

LEMMA TypeStep == TypeOK /\ [Next]_vars => TypeOK'
<1>1. UNCHANGED vars /\ TypeOK => TypeOK'
  BY DEF vars, relay, local, counters, history, TypeOK
<1> QED BY <1>1, RunTypes, AdminTypes DEF Next

(* However runs and edits overlap, a network's row names a host, and what  *)
(* a run has still to ingest is part of the answer it has got.             *)
THEOREM TypeCorrect == Spec => []TypeOK
BY InitTyped, TypeStep, PTL DEF Spec
-----------------------------------------------------------------------------
(* Sharing a network: one timer at a time, records that are only added,    *)
(* lookups that answer, and no failed reload with a later stop.            *)
OneTimer ==
  /\ \A r, s \in Run : r = s
  /\ Edits \subseteq {"add"}
  /\ "dns" \notin Fault
  /\ MaxFaults <= 1 \/ ~({"nft", "stop"} \subseteq Fault)

Distinct(s) == \A j, k \in DOMAIN s : s[j] = s[k] => j = k

InTodo(r, h) == \E k \in DOMAIN todo[r] : todo[r][k] = h

(* A run has each record once before it, and a host without a record has   *)
(* never been looked up.                                                   *)
OrderInv ==
  /\ Distinct(config) /\ mode = "regular" /\ admin.at = "idle"
  /\ \A h \in Host \ Configured : seen[h] = {}
  /\ \A r \in Run :
       /\ Distinct(todo[r])
       /\ \A h \in Host : InTodo(r, h) => h \in Configured /\ h # host[r]
       /\ host[r] # None => host[r] \in Configured

(* Every network of a last answer has its row. *)
AllHeld == \A h \in Configured : \A n \in seen[h] : note[n] # None

(* What is still to be ingested of the answer of h. *)
Left(r, h) == IF h = host[r] THEN nets[r] ELSE {}

(* In the middle of a run the networks of the hosts that it has dealt with *)
(* have rows that name such hosts too, so that none of the following will  *)
(* take one away; the rows of the others may be as an earlier run left     *)
(* them. Only a run that was stopped leaves them so, and then no apply is  *)
(* pending that would put them in the table.                               *)
HeldInv ==
  /\ pending => "nft" \in Fault /\ faults >= 1
  /\ \A r \in Run :
       pc[r] = "idle" =>
         AllHeld \/ (~pending /\ ("nft" \notin Fault \/ faults = MaxFaults))
  /\ \A r \in Run : pc[r] # "idle" =>
       \A h \in Configured : ~InTodo(r, h) =>
         \A n \in seen[h] \ Left(r, h) :
           /\ note[n] # None /\ ~InTodo(r, note[n])
           /\ note[n] = host[r] => n \in current[r]

SharedInv == OneTimer /\ TypeOK /\ OrderInv /\ HeldInv

LEMMA InitShared == OneTimer /\ Init => SharedInv
<1> SUFFICES ASSUME OneTimer, Init PROVE SharedInv
  OBVIOUS
<1>1. TypeOK
  BY InitTyped
<1>2. OrderInv
  <2>1. Distinct(config)
    BY DEF Init, Distinct
  <2>2. \A r \in Run : todo[r] = <<>> /\ host[r] = None
    BY DEF Init
  <2>3. mode = "regular" /\ admin.at = "idle" /\ \A h \in Host : seen[h] = {}
    BY DEF Init
  <2> QED
    BY <2>1, <2>2, <2>3 DEF OrderInv, Distinct, InTodo
<1>3. HeldInv
  <2>1. pending = FALSE /\ \A r \in Run : pc[r] = "idle"
    BY DEF Init
  <2>2. AllHeld
    BY <1>1 DEF Init, AllHeld, Configured, TypeOK
  <2> QED
    BY <2>1, <2>2 DEF HeldInv
<1> QED
  BY <1>1, <1>2, <1>3 DEF SharedInv

(* The hosts of a typed sequence. *)
LEMMA Hosts ==
  ASSUME TypeOK
  PROVE  /\ \A h \in Configured : h \in Host /\ h # None
         /\ \A r \in Run : \A h : InTodo(r, h) => h \in Host /\ h # None
BY ConstantsAssumption DEF TypeOK, Configured, InTodo

(* An apply while every answer has its rows keeps the table's networks of  *)
(* answers, and a failed apply is marked.                                  *)
LEMMA ApplyKeeps ==
  ASSUME TypeOK, ApplyState, AllHeld
  PROVE  \A n \in live \ live' : \A h \in Configured : n \notin seen[h]
BY Hosts DEF ApplyState, AllHeld, Rows, TypeOK

LEMMA ApplyMarks ==
  ASSUME TypeOK, HeldInv, ApplyState
  PROVE  /\ pending' => "nft" \in Fault /\ faults' >= 1
         /\ ~pending /\ ("nft" \notin Fault \/ faults = MaxFaults) =>
              ~pending' /\ faults' = faults
<1>1. faults \in Nat /\ faults <= MaxFaults
  BY ConstantsAssumption DEF TypeOK
<1>2. CASE pending' = FALSE /\ UNCHANGED faults
  BY <1>2
<1>3. CASE pending' = TRUE /\ FaultHappens("nft")
  BY <1>1, <1>3, ConstantsAssumption DEF FaultHappens
<1> QED
  BY <1>2, <1>3 DEF ApplyState

(* A run starts with every record before it. *)
LEMMA StartShared ==
  ASSUME SharedInv, NEW r \in Run, Start(r)
  PROVE  OrderInv' /\ HeldInv'
<1>1. /\ UNCHANGED <<config, mode, note, admin, seen, host, nets, current>>
      /\ pc[r] = "idle" /\ host[r] = None
  BY DEF Start, local, SharedInv, TypeOK
<1>2. /\ pending' => "nft" \in Fault /\ faults' >= 1
      /\ ~pending /\ ("nft" \notin Fault \/ faults = MaxFaults) =>
           ~pending' /\ faults' = faults
  <2>1. CASE ApplyState
    BY <2>1, ApplyMarks DEF SharedInv
  <2>2. CASE UNCHANGED <<live, pending, faults, unapplied>>
    BY <2>2 DEF SharedInv, HeldInv
  <2> QED
    BY <2>1, <2>2 DEF Start
<1>3. \A s \in Run : s = r
  BY DEF SharedInv, OneTimer
<1>4. AllHeld' <=> AllHeld
  BY <1>1 DEF AllHeld, Configured
<1>5. CASE UNCHANGED local
  <2>1. OrderInv'
    BY <1>1, <1>5 DEF local, SharedInv, OrderInv, InTodo, Configured
  <2>2. pc' = pc
    BY <1>5 DEF local
  <2>3. HeldInv'
    BY <1>1, <1>2, <1>3, <1>4, <2>2 DEF SharedInv, HeldInv
  <2> QED
    BY <2>1, <2>3
<1>6. CASE pc' = [pc EXCEPT ![r] = "next"] /\ todo' = [todo EXCEPT ![r] = config]
  <2>1. pc'[r] = "next" /\ todo'[r] = config
    BY <1>6 DEF SharedInv, TypeOK
  <2>2. \A h : InTodo(r, h)' <=> h \in Configured
    BY <2>1 DEF InTodo, Configured
  <2>3. OrderInv'
    BY <1>1, <1>3, <2>1, <2>2, Hosts DEF SharedInv, OrderInv, Configured
  <2>4. HeldInv'
    BY <1>1, <1>2, <1>3, <2>1, <2>2 DEF HeldInv, Configured
  <2> QED
    BY <2>3, <2>4
<1> QED
  BY <1>5, <1>6 DEF Start

LEMMA TailFacts ==
  ASSUME NEW s \in Seq(Host), s # <<>>
  PROVE  /\ DOMAIN Tail(s) = 1..(Len(s) - 1)
         /\ \A k \in DOMAIN Tail(s) : Tail(s)[k] = s[k + 1]
         /\ DOMAIN s = 1..Len(s) /\ Len(s) \in Nat \ {0} /\ Head(s) = s[1]
<1>1. Len(s) \in Nat /\ Len(s) # 0
  OBVIOUS
<1>2. DOMAIN s = 1..Len(s) /\ Head(s) = s[1]
  OBVIOUS
<1>3. Tail(s) \in Seq(Host) /\ Len(Tail(s)) = Len(s) - 1
  BY <1>1
<1>4. DOMAIN Tail(s) = 1..(Len(s) - 1)
  BY <1>3
<1>5. \A k \in DOMAIN Tail(s) : Tail(s)[k] = s[k + 1]
  BY <1>1, <1>4
<1> QED
  BY <1>1, <1>2, <1>4, <1>5

(* The first of the records that are left is looked up. *)
LEMMA ResolveShared ==
  ASSUME SharedInv, NEW r \in Run, Resolve(r)
  PROVE  OrderInv' /\ HeldInv'
<1> DEFINE g == Head(todo[r])
<1>1. /\ pc[r] = "next" /\ todo[r] # <<>> /\ todo' = [todo EXCEPT ![r] = Tail(@)]
      /\ pc' = [pc EXCEPT ![r] = "ingest"] /\ host' = [host EXCEPT ![r] = g]
      /\ nets' = [nets EXCEPT ![r] = dns[g]] /\ current' = [current EXCEPT ![r] = dns[g]]
      /\ seen' = [seen EXCEPT ![g] = dns[g]]
      /\ UNCHANGED <<faults, config, mode, note, admin, pending>>
  BY DEF Resolve, relay, SharedInv, OneTimer, FaultHappens
<1>2. todo[r] \in Seq(Host) /\ todo'[r] = Tail(todo[r]) /\ pc'[r] = "ingest" /\ host[r] = None
  BY <1>1 DEF SharedInv, TypeOK
<1>3. g \in Host /\ InTodo(r, g)
  <2>1. 1 \in DOMAIN todo[r] /\ g = todo[r][1]
    BY <1>1, <1>2
  <2> QED
    BY <1>2, <2>1 DEF InTodo
<1>4. /\ \A h : InTodo(r, h)' => InTodo(r, h) /\ h # g
      /\ \A h : InTodo(r, h) => InTodo(r, h)' \/ h = g
      /\ Distinct(todo'[r])
  <2>1. /\ DOMAIN todo'[r] = 1..(Len(todo[r]) - 1)
        /\ \A k \in DOMAIN todo'[r] : todo'[r][k] = todo[r][k + 1]
        /\ DOMAIN todo[r] = 1..Len(todo[r]) /\ Len(todo[r]) \in Nat \ {0} /\ g = todo[r][1]
    BY <1>1, <1>2, TailFacts
  <2>2. Distinct(todo[r])
    BY DEF SharedInv, OrderInv
  <2>3. Distinct(todo'[r])
    <3> SUFFICES ASSUME NEW j \in DOMAIN todo'[r], NEW k \in DOMAIN todo'[r],
                        todo'[r][j] = todo'[r][k]
                 PROVE  j = k
      BY DEF Distinct
    <3>1. j \in Int /\ k \in Int /\ j + 1 \in DOMAIN todo[r] /\ k + 1 \in DOMAIN todo[r]
      BY <2>1
    <3>2. j + 1 = k + 1
      BY <2>1, <2>2, <3>1 DEF Distinct
    <3> QED
      BY <3>1, <3>2
  <2>4. ASSUME NEW h, InTodo(r, h)' PROVE InTodo(r, h) /\ h # g
    <3>1. PICK k \in DOMAIN todo'[r] : todo'[r][k] = h
      BY <2>4 DEF InTodo
    <3>2. k \in Int /\ k >= 1 /\ k + 1 \in DOMAIN todo[r] /\ 1 \in DOMAIN todo[r]
          /\ todo[r][k + 1] = h
      BY <2>1, <3>1
    <3>3. k + 1 # 1
      BY <3>2
    <3> QED
      BY <2>1, <2>2, <3>2, <3>3 DEF Distinct, InTodo
  <2>5. ASSUME NEW h, InTodo(r, h), h # g PROVE InTodo(r, h)'
    <3>1. PICK k \in DOMAIN todo[r] : todo[r][k] = h
      BY <2>5 DEF InTodo
    <3>2. k \in Int /\ k # 1 /\ k - 1 \in DOMAIN todo'[r]
      BY <2>1, <2>5, <3>1
    <3>3. todo'[r][k - 1] = h
      BY <2>1, <3>1, <3>2
    <3> QED
      BY <3>2, <3>3 DEF InTodo
  <2> QED
    BY <2>3, <2>4, <2>5
<1>5. \A s \in Run : s = r
  BY DEF SharedInv, OneTimer
<1>6. host'[r] = g /\ nets'[r] = dns[g] /\ current'[r] = dns[g] /\ seen'[g] = dns[g]
      /\ (\A h \in Host : h # g => seen'[h] = seen[h])
  BY <1>1, <1>3 DEF SharedInv, TypeOK
<1>7. g \in Configured /\ Configured' = Configured
  BY <1>1, <1>3 DEF SharedInv, OrderInv, Configured
<1> HIDE DEF g
<1>8. OrderInv'
  BY <1>1, <1>3, <1>4, <1>5, <1>6, <1>7 DEF SharedInv, OrderInv
<1>9. ASSUME NEW h \in Configured, ~InTodo(r, h)', NEW n \in seen'[h] \ Left(r, h)'
      PROVE  /\ note[n] # None /\ ~InTodo(r, note[n])'
             /\ note[n] = host'[r] => n \in current'[r]
  <2>1. h # g
    BY <1>6, <1>9 DEF Left
  <2>2. h \in Host /\ h # None
    BY Hosts DEF SharedInv
  <2>3. ~InTodo(r, h) /\ n \in seen[h] \ Left(r, h)
    BY <1>2, <1>4, <1>6, <1>9, <2>1, <2>2 DEF Left
  <2>4. note[n] # None /\ ~InTodo(r, note[n])
    BY <1>1, <2>3 DEF SharedInv, HeldInv
  <2> QED
    <3>1. note[n] # g
      BY <1>3, <2>4
    <3>2. ~InTodo(r, note[n])'
      <4> DEFINE m == note[n]
      <4>1. note'[n] = m
        BY <1>1
      <4>2. \A x : x = m => ~InTodo(r, x)'
        BY <1>4, <2>4
      <4> QED
        BY <4>1, <4>2 DEF InTodo
    <3> QED
      BY <1>6, <2>4, <3>1, <3>2
<1>10. HeldInv'
  <2>1. note' = note /\ pending' = pending /\ faults' = faults /\ pc'[r] # "idle"
    BY <1>1, <1>2
  <2>2. pending => "nft" \in Fault /\ faults >= 1
    BY DEF SharedInv, HeldInv
  <2> QED
    BY <1>5, <1>7, <1>9, <2>1, <2>2 DEF HeldInv
<1> QED
  BY <1>8, <1>10

(* One network gets its row, which names the host that is dealt with. *)
LEMMA IngestShared ==
  ASSUME SharedInv, NEW r \in Run, Ingest(r)
  PROVE  OrderInv' /\ HeldInv'
<1>1. PICK m \in nets[r] :
        /\ nets' = [nets EXCEPT ![r] = @ \ {m}]
        /\ note' = [note EXCEPT ![m] = host[r]]
  BY DEF Ingest, SharedInv, OrderInv
<1>2. /\ pc[r] = "ingest"
      /\ UNCHANGED <<config, mode, pending, pc, todo, host, current, admin, faults, seen>>
  BY DEF Ingest, counters, history
<1>3. /\ m \in Net /\ host[r] \in Host /\ host[r] # None /\ m \in current[r]
      /\ nets'[r] = nets[r] \ {m}
      /\ note'[m] = host[r] /\ \A n : n # m => note'[n] = note[n]
  BY <1>1, <1>2 DEF SharedInv, TypeOK
<1>4. OrderInv'
  BY <1>2 DEF SharedInv, OrderInv, InTodo, Configured
<1>5. \A s \in Run : s = r
  BY DEF SharedInv, OneTimer
<1>6. ASSUME NEW h \in Configured, ~InTodo(r, h), NEW n \in seen[h] \ Left(r, h)'
      PROVE  /\ note'[n] # None /\ ~InTodo(r, note'[n])
             /\ note'[n] = host[r] => n \in current[r]
  <2>1. CASE n = m
    <3>1. ~InTodo(r, host[r])
      BY <1>3 DEF SharedInv, OrderInv
    <3> QED
      BY <1>3, <2>1, <3>1
  <2>2. CASE n # m
    <3>1. n \in seen[h] \ Left(r, h)
      BY <1>2, <1>3, <1>6, <2>2 DEF Left
    <3> QED
      BY <1>2, <1>3, <1>6, <2>2, <3>1 DEF SharedInv, HeldInv
  <2> QED
    BY <2>1, <2>2
<1>7. HeldInv'
  BY <1>2, <1>5, <1>6 DEF SharedInv, HeldInv, InTodo, Configured
<1> QED
  BY <1>4, <1>7

(* The rows that go name the host, and are not in its answer. *)
LEMMA ReconcileShared ==
  ASSUME SharedInv, NEW r \in Run, Reconcile(r)
  PROVE  OrderInv' /\ HeldInv'
<1>1. /\ pc[r] = "ingest" /\ nets[r] = {} /\ note' = Without(StaleRows(r))
      /\ pc' = [pc EXCEPT ![r] = "next"] /\ host' = [host EXCEPT ![r] = None]
      /\ UNCHANGED <<config, mode, pending, todo, nets, admin, faults, seen>>
  BY DEF Reconcile, counters, history
<1>2. pc'[r] = "next" /\ host'[r] = None
  BY <1>1 DEF SharedInv, TypeOK
<1>3. \A s \in Run : s = r
  BY DEF SharedInv, OneTimer
<1>4. OrderInv'
  BY <1>1, <1>2, <1>3, Hosts DEF SharedInv, OrderInv, InTodo, Configured
<1>5. ASSUME NEW h \in Configured, ~InTodo(r, h), NEW n \in seen[h]
      PROVE  note'[n] # None /\ ~InTodo(r, note'[n])
  <2>1. n \notin Left(r, h)
    BY <1>1 DEF Left
  <2>2. note[n] # None /\ ~InTodo(r, note[n]) /\ (note[n] = host[r] => n \in current[r])
    BY <1>1, <1>5, <2>1 DEF SharedInv, HeldInv
  <2>3. n \notin StaleRows(r)
    BY <2>2 DEF StaleRows
  <2>4. n \in Net
    BY <1>5, Hosts DEF SharedInv, TypeOK
  <2> QED
    BY <1>1, <2>2, <2>3, <2>4 DEF Without
<1>6. HeldInv'
  BY <1>1, <1>2, <1>3, <1>5 DEF SharedInv, HeldInv, InTodo, Configured
<1> QED
  BY <1>4, <1>6

(* At its end a run has dealt with every record. *)
LEMMA FinishHeld ==
  ASSUME SharedInv, NEW r \in Run, pc[r] = "next", todo[r] = <<>>
  PROVE  AllHeld
<1>1. host[r] = None /\ \A h : ~InTodo(r, h)
  BY DEF SharedInv, TypeOK, InTodo
<1>2. \A h \in Configured : Left(r, h) = {}
  BY <1>1, Hosts DEF SharedInv, Left
<1> QED
  BY <1>1, <1>2 DEF SharedInv, HeldInv, AllHeld

LEMMA FinishShared ==
  ASSUME SharedInv, NEW r \in Run, Finish(r)
  PROVE  OrderInv' /\ HeldInv'
<1>1. /\ UNCHANGED <<config, mode, note, admin, seen>> /\ Rest(r)
      /\ pc[r] = "next" /\ todo[r] = <<>>
  BY DEF Finish
<1>2. \A s \in Run : s = r
  BY DEF SharedInv, OneTimer
<1>3. pc'[r] = "idle" /\ todo'[r] = <<>> /\ host'[r] = None
  BY <1>1 DEF Rest, SharedInv, TypeOK
<1>4. pending' => "nft" \in Fault /\ faults' >= 1
  <2>1. CASE ApplyState
    BY <2>1, ApplyMarks DEF SharedInv
  <2>2. CASE UNCHANGED <<live, pending, faults, unapplied>>
    BY <2>2 DEF SharedInv, HeldInv
  <2> QED
    BY <2>1, <2>2 DEF Finish
<1>5. AllHeld'
  BY <1>1, FinishHeld DEF AllHeld, Configured
<1>6. OrderInv'
  BY <1>1, <1>2, <1>3 DEF SharedInv, OrderInv, InTodo, Configured, Distinct
<1>7. HeldInv'
  BY <1>2, <1>3, <1>4, <1>5 DEF HeldInv
<1> QED
  BY <1>6, <1>7

(* A run that is stopped leaves no apply pending. *)
LEMMA StopShared ==
  ASSUME SharedInv, NEW r \in Run, Stop(r)
  PROVE  OrderInv' /\ HeldInv'
<1>1. /\ UNCHANGED <<config, mode, note, admin, seen, pending>> /\ Rest(r)
      /\ FaultHappens("stop")
  BY DEF Stop, relay
<1>2. \A s \in Run : s = r
  BY DEF SharedInv, OneTimer
<1>3. pc'[r] = "idle" /\ todo'[r] = <<>> /\ host'[r] = None
  BY <1>1 DEF Rest, SharedInv, TypeOK
<1>4. faults \in Nat /\ MaxFaults \in Nat /\ faults < MaxFaults /\ faults' = faults + 1
      /\ "stop" \in Fault
  BY <1>1, ConstantsAssumption DEF FaultHappens, SharedInv, TypeOK
<1>5. ~pending /\ ("nft" \notin Fault \/ faults' = MaxFaults)
  <2>1. CASE "nft" \notin Fault
    BY <2>1 DEF SharedInv, HeldInv
  <2>2. CASE "nft" \in Fault
    <3>1. MaxFaults <= 1
      BY <1>4, <2>2 DEF SharedInv, OneTimer
    <3>2. faults = 0
      BY <1>4, <3>1
    <3> QED
      BY <1>4, <3>1, <3>2 DEF SharedInv, HeldInv
  <2> QED
    BY <2>1, <2>2
<1>6. OrderInv'
  BY <1>1, <1>2, <1>3 DEF SharedInv, OrderInv, InTodo, Configured, Distinct
<1>7. HeldInv'
  BY <1>1, <1>2, <1>3, <1>5 DEF HeldInv
<1> QED
  BY <1>6, <1>7

(* A record is added: its host has not been looked up. *)
LEMMA AddShared ==
  ASSUME SharedInv, NEW g \in Host, DdnsAdd(g)
  PROVE  OrderInv' /\ HeldInv'
<1>1. /\ config' = Append(config, g) /\ g \notin Configured
      /\ UNCHANGED <<mode, note, pending, pc, todo, host, nets, current, admin, faults, seen>>
  BY DEF DdnsAdd, relay, local, history
<1>2. config \in Seq(Host)
  BY DEF SharedInv, TypeOK
<1>3. /\ DOMAIN config' = DOMAIN config \cup {Len(config) + 1}
      /\ Len(config) + 1 \notin DOMAIN config
      /\ config'[Len(config) + 1] = g
      /\ \A k \in DOMAIN config : config'[k] = config[k]
  BY <1>1, <1>2
<1>4. Configured' = Configured \cup {g}
  BY <1>3 DEF Configured
<1>5. Distinct(config')
  BY <1>1, <1>3 DEF Distinct, SharedInv, OrderInv, Configured
<1>6. seen[g] = {}
  BY <1>1 DEF SharedInv, OrderInv
<1>7. OrderInv'
  BY <1>1, <1>4, <1>5 DEF SharedInv, OrderInv, InTodo
<1>8. AllHeld => AllHeld'
  BY <1>1, <1>4, <1>6 DEF AllHeld
<1>9. HeldInv'
  BY <1>1, <1>4, <1>6, <1>8 DEF SharedInv, HeldInv, InTodo, Left
<1> QED
  BY <1>7, <1>9

LEMMA SharedStep == SharedInv /\ [Next]_vars => SharedInv'
<1> SUFFICES ASSUME SharedInv, [Next]_vars PROVE SharedInv'
  OBVIOUS
<1>1. OneTimer' /\ TypeOK'
  BY TypeStep DEF SharedInv, OneTimer
<1>2. CASE UNCHANGED <<config, mode, note, pending, pc, todo, host, nets, current, admin, faults, seen>>
  <2>1. OrderInv'
    BY <1>2 DEF SharedInv, OrderInv, InTodo, Configured
  <2>2. HeldInv'
    BY <1>2 DEF SharedInv, HeldInv, AllHeld, InTodo, Left, Configured
  <2> QED
    BY <1>1, <2>1, <2>2 DEF SharedInv
<1>3. ASSUME NEW h \in Host, DdnsDelete(h) PROVE FALSE
  BY <1>3 DEF DdnsDelete, Edit, SharedInv, OneTimer
<1>4. ~DdnsDeleteRows /\ ~DdnsDeleteApply /\ ~DdnsDeleteStops
  BY DEF SharedInv, OrderInv, DdnsDeleteRows, DdnsDeleteApply, DdnsDeleteStops
<1>5. ASSUME NEW m \in {"regular", "attack"}, SetMode(m) PROVE FALSE
  BY <1>5 DEF SetMode, Edit, SharedInv, OneTimer
<1>6. ASSUME NEW h \in Host, NEW a \in Answers, Moves(h, a) PROVE SharedInv'
  BY <1>1, <1>2, <1>6 DEF Moves, relay, local, counters, history, SharedInv
<1>7. CASE UNCHANGED vars
  BY <1>1, <1>2, <1>7 DEF vars, relay, local, counters, history, SharedInv
<1>8. ASSUME NEW r \in Run, Start(r) \/ Step(r) \/ Stop(r) PROVE SharedInv'
  BY <1>1, <1>8, StartShared, ResolveShared, IngestShared, ReconcileShared, FinishShared,
     StopShared DEF Step, SharedInv
<1>9. ASSUME NEW h \in Host, DdnsAdd(h) PROVE SharedInv'
  BY <1>1, <1>9, AddShared DEF SharedInv
<1> QED
  BY <1>3, <1>4, <1>5, <1>6, <1>7, <1>8, <1>9 DEF Next

(* The table is written by the applies only. *)
LEMMA SharedAction ==
  ASSUME SharedInv, [Next]_vars
  PROVE  \A n \in live \ live' : \A h \in Configured : n \notin seen[h]
<1>1. CASE UNCHANGED live
  BY <1>1
<1>2. ASSUME NEW r \in Run, Start(r), live' # live
      PROVE  \A n \in live \ live' : \A h \in Configured : n \notin seen[h]
  <2>1. pc[r] = "idle" /\ pending /\ ApplyState
    BY <1>2 DEF Start
  <2>2. AllHeld
    BY <2>1 DEF SharedInv, HeldInv
  <2> QED
    BY <2>1, <2>2, ApplyKeeps DEF SharedInv
<1>3. ASSUME NEW r \in Run, Finish(r), live' # live
      PROVE  \A n \in live \ live' : \A h \in Configured : n \notin seen[h]
  <2>1. pc[r] = "next" /\ todo[r] = <<>> /\ ApplyState
    BY <1>3 DEF Finish
  <2> QED
    BY <2>1, FinishHeld, ApplyKeeps DEF SharedInv
<1>4. ASSUME NEW r \in Run, Resolve(r) \/ Ingest(r) \/ Reconcile(r) \/ Stop(r)
      PROVE  UNCHANGED live
  BY <1>4 DEF Resolve, Ingest, Reconcile, Stop, relay
<1>5. ~DdnsDeleteApply
  BY DEF SharedInv, OrderInv, DdnsDeleteApply
<1>6. CASE \/ \E h \in Host : DdnsAdd(h) \/ DdnsDelete(h)
           \/ \E h \in Host, a \in Answers : Moves(h, a)
           \/ DdnsDeleteRows \/ DdnsDeleteStops
           \/ \E m \in {"regular", "attack"} : SetMode(m)
           \/ UNCHANGED vars
  BY <1>1, <1>6 DEF DdnsAdd, DdnsDelete, Moves, DdnsDeleteRows, DdnsDeleteStops, SetMode,
     vars, relay
<1> QED
  BY <1>1, <1>2, <1>3, <1>4, <1>5, <1>6 DEF Next, Step

(* With one timer, any hosts that share any networks keep those of their   *)
(* last answers in the table when one of them moves (relay.py:117-142),    *)
(* while reloads fail or runs are stopped, but not one after the other.    *)
THEOREM SharedKept == OneTimer /\ Spec => SharedNetworkKept
<1>1. SharedInv /\ [Next]_vars =>
        [\A n \in live \ live' : \A h \in Configured : n \notin seen[h]]_vars
  BY SharedAction
<1> QED
  BY <1>1, InitShared, SharedStep, PTL DEF Spec, SharedNetworkKept
=============================================================================
