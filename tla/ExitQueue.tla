------------------------------- MODULE ExitQueue -------------------------------
(***************************************************************************)
(* The exit node's way from a visit of a Secret URL to the relay's allow   *)
(* list: the request threads of phone_server.py put two items per visit    *)
(* into the table exit_queue, the queue worker of exitnode.py sends the    *)
(* due rows to the relay over ssh and deletes or postpones them (state.py, *)
(* enqueue to retry_queue), and the relay admits the source (cli.py,       *)
(* cmd_ingest).                                                            *)
(*                                                                         *)
(* Request threads and worker have database connections of their own and   *)
(* share the queue. Every URL here belongs to one ruleset, so that two     *)
(* URLs are two payloads for one source of the relay.                      *)
(***************************************************************************)
EXTENDS Naturals, FiniteSets, Sequences, FiniteSetsExt

CONSTANTS
  Handler,    \* request threads
  Url, Ip,    \* active secret URLs, sources of visitors
  MaxVisits,  \* bound: visits that are not throttled
  MaxTries,   \* QUEUE_MAX_ATTEMPTS
  Batch,      \* rows of one drain: the limit of due_queue
  Fault,      \* which faults happen: subset of FaultKinds
  MaxFaults,  \* bound: how many of them
  None

FaultKinds == {"down", "reply", "worker", "locked", "phone", "age"}

ASSUME ConstantsAssumption ==
  /\ MaxVisits \in Nat /\ MaxFaults \in Nat
  /\ MaxTries \in Nat \ {0} /\ Batch \in Nat \ {0}
  /\ Fault \subseteq FaultKinds
  /\ None \notin Ip

(* A payload: push this source, or count one hit of this URL. *)
Item == [kind : {"ingest"}, url : Url, ip : Ip]
          \cup [kind : {"hit"}, url : Url, ip : {None}]

Row == [id : Nat, item : Item, tries : Nat, due : BOOLEAN, old : BOOLEAN]

VARIABLES
  queue,      \* the table exit_queue
  nextId,     \* its AUTOINCREMENT
  recent,     \* _RECENT_HITS of the last 10 s
  at, visit, kind, found,   \* locals of each request thread
  step, batch,              \* the worker: where it is, the rows it read
  active,     \* sources in the relay's allow list
  mode,       \* the relay's mode
  hits,       \* hit_count of each URL on the relay
  faults,     \* faults so far
  accepted,   \* history: visits of each URL that were not throttled
  owed        \* history: visits put into the queue and not yet settled

table   == <<queue, nextId>>
threads == <<recent, at, visit, kind, found>>
worker  == <<step, batch>>
relay   == <<active, mode, hits>>
history == <<faults, accepted, owed>>
vars    == <<table, threads, worker, relay, history>>

TypeOK ==
  /\ queue \subseteq Row
  /\ nextId \in Nat \ {0}
  /\ recent \subseteq Url \X Ip
  /\ at \in [Handler -> {"idle", "look", "put"}]
  /\ visit \in [Handler -> (Url \X Ip) \cup {None}]
  /\ kind \in [Handler -> {"ingest", "hit"}]
  /\ found \in [Handler -> Nat]
  /\ \A h \in Handler : at[h] # "idle" => visit[h] \in Url \X Ip
  /\ step \in {"sleep", "send", "ack", "nack"}
  /\ batch \in Seq(Row)
  /\ step # "sleep" <=> batch # <<>>
  /\ active \subseteq Ip
  /\ mode \in {"regular", "attack"}
  /\ hits \in [Url -> Nat]
  /\ faults \in 0..MaxFaults
  /\ accepted \in [Url -> Nat]
  /\ owed \subseteq Url \X Ip

Init ==
  /\ queue = {} /\ nextId = 1
  /\ recent = {}
  /\ at = [h \in Handler |-> "idle"]
  /\ visit = [h \in Handler |-> None]
  /\ kind = [h \in Handler |-> "ingest"]
  /\ found = [h \in Handler |-> 0]
  /\ step = "sleep" /\ batch = <<>>
  /\ active = {} /\ mode = "regular"
  /\ hits = [u \in Url |-> 0]
  /\ faults = 0
  /\ accepted = [u \in Url |-> 0]
  /\ owed = {}
-----------------------------------------------------------------------------
FaultHappens(k) ==
  /\ k \in Fault
  /\ faults < MaxFaults
  /\ faults' = faults + 1

(* The visits that stand behind a payload. *)
VisitsOf(item) == {v \in Url \X Ip : item.kind = "ingest" /\ v = <<item.url, item.ip>>}

(* What thread h is about to enqueue. *)
Payload(h) ==
  [kind |-> kind[h], url |-> visit[h][1],
   ip |-> IF kind[h] = "ingest" THEN visit[h][2] ELSE None]

AllVisits == MapThenSumSet(LAMBDA u : accepted[u], Url)

(* The row that thread h has found is deleted, or about to be after it was *)
(* sent, and the relay has removed the source meanwhile: the visit is lost *)
(* although it is answered 202 with queued true.                           *)
Overlooked(h) ==
  /\ found[h] # 0
  /\ \/ \A r \in queue : r.id # found[h]
     \/ step = "ack" /\ Head(batch).id = found[h]
  /\ visit[h][2] \notin active
-----------------------------------------------------------------------------
(* PhoneHandler.do_GET for a known URL, up to accept_hit. A visit within   *)
(* the window is answered 202 as well, with queued false, and changes      *)
(* nothing.                                                                *)
Visit(h, u, i) ==
  /\ at[h] = "idle"
  /\ <<u, i>> \notin recent
  /\ AllVisits < MaxVisits
  /\ recent' = recent \cup {<<u, i>>}
  /\ at' = [at EXCEPT ![h] = "look"]
  /\ visit' = [visit EXCEPT ![h] = <<u, i>>]
  /\ accepted' = [accepted EXCEPT ![u] = @ + 1]
  /\ UNCHANGED <<table, kind, found, worker, relay, faults, owed>>

(* The throttle's window of one visit has passed. *)
Forget(v) ==
  /\ v \in recent
  /\ recent' = recent \ {v}
  /\ UNCHANGED <<table, at, visit, kind, found, worker, relay, history>>

(* State.enqueue: is the payload queued already? *)
Look(h) ==
  /\ at[h] = "look"
  /\ LET same == {r.id : r \in {q \in queue : q.item = Payload(h)}}
     IN  \E n \in IF same = {} THEN {0} ELSE same : found' = [found EXCEPT ![h] = n]
  /\ at' = [at EXCEPT ![h] = "put"]
  /\ UNCHANGED <<table, recent, visit, kind, worker, relay, history>>

(* State.enqueue: insert a row, or make the one that was found due now -   *)
(* if it is still there. After the second item the thread counts the hit   *)
(* in its own database and answers 202 with queued true.                   *)
Put(h) ==
  /\ at[h] = "put"
  /\ IF found[h] = 0
       THEN /\ queue' = queue \cup {[id |-> nextId, item |-> Payload(h),
                                     tries |-> 0, due |-> TRUE, old |-> FALSE]}
            /\ nextId' = nextId + 1
       ELSE /\ queue' = {[r EXCEPT !.due = @ \/ r.id = found[h]] : r \in queue}
            /\ UNCHANGED nextId
  /\ owed' = IF Overlooked(h) THEN owed ELSE owed \cup VisitsOf(Payload(h))
  /\ found' = [found EXCEPT ![h] = 0]
  /\ IF kind[h] = "ingest"
       THEN /\ at' = [at EXCEPT ![h] = "look"]
            /\ kind' = [kind EXCEPT ![h] = "hit"]
            /\ UNCHANGED visit
       ELSE /\ at' = [at EXCEPT ![h] = "idle"]
            /\ visit' = [visit EXCEPT ![h] = None]
            /\ kind' = [kind EXCEPT ![h] = "ingest"]
  /\ UNCHANGED <<recent, worker, relay, faults, accepted>>

(* The database stays locked for more than the busy timeout: the thread    *)
(* dies without an answer, but its visit stays in the throttle.            *)
HandlerFails(h) ==
  /\ at[h] # "idle"
  /\ FaultHappens("locked")
  /\ at' = [at EXCEPT ![h] = "idle"]
  /\ visit' = [visit EXCEPT ![h] = None]
  /\ kind' = [kind EXCEPT ![h] = "ingest"]
  /\ found' = [found EXCEPT ![h] = 0]
  /\ UNCHANGED <<table, recent, worker, relay, accepted, owed>>

(* The phone service restarts. *)
PhoneRestarts ==
  /\ FaultHappens("phone")
  /\ recent' = {}
  /\ at' = [h \in Handler |-> "idle"]
  /\ visit' = [h \in Handler |-> None]
  /\ kind' = [h \in Handler |-> "ingest"]
  /\ found' = [h \in Handler |-> 0]
  /\ UNCHANGED <<table, worker, relay, accepted, owed>>
-----------------------------------------------------------------------------
(* State.due_queue: the oldest due rows, at most Batch of them. *)
DueRows ==
  LET due == {r \in queue : r.due}
      Before(r) == Cardinality({q \in due : q.id < r.id})
      first == {r \in due : Before(r) < Batch}
  IN  [n \in 1..Cardinality(first) |-> CHOOSE r \in first : Before(r) = n - 1]

(* exitnode.drain_queue begins; a drain without due rows does nothing. *)
Drain ==
  /\ step = "sleep"
  /\ DueRows # <<>>
  /\ batch' = DueRows
  /\ step' = "send"
  /\ UNCHANGED <<table, threads, relay, history>>

(* The relay runs the command of one row. cli.cmd_ingest exits with 0 only *)
(* if the source became active: it refuses in attack mode and reports      *)
(* "rejected" for a source that is active already.                         *)
Effect(item) ==
  /\ active' = IF item.kind = "ingest" /\ mode = "regular"
                 THEN active \cup {item.ip} ELSE active
  /\ hits' = IF item.kind = "hit" THEN [hits EXCEPT ![item.url] = @ + 1] ELSE hits
  /\ UNCHANGED mode

Accepts(item) ==
  item.kind = "ingest" => mode = "regular" /\ item.ip \notin active

(* The command runs and its exit code comes back. *)
Answered ==
  /\ step = "send"
  /\ Effect(Head(batch).item)
  /\ step' = IF Accepts(Head(batch).item) THEN "ack" ELSE "nack"
  /\ UNCHANGED <<table, threads, batch, history>>

(* The command runs and the connection breaks, or the relay's reload fails *)
(* after its commit. sshutil.ssh_command tries again or gives up.          *)
ReplyLost ==
  /\ step = "send"
  /\ FaultHappens("reply")
  /\ Effect(Head(batch).item)
  /\ step' \in {"send", "nack"}
  /\ UNCHANGED <<table, threads, batch, accepted, owed>>

(* No attempt of ssh_command reaches the relay. *)
Unreachable ==
  /\ step = "send"
  /\ "down" \in Fault
  /\ step' = "nack"
  /\ UNCHANGED <<table, threads, batch, relay, history>>

(* Mutant: the worker goes on when no row is left. *)
NextRowOffByOne ==
  /\ batch' = Tail(batch)
  /\ step' = IF Len(batch) = 0 THEN "sleep" ELSE "send"

NextRow ==
  /\ batch' = Tail(batch)
  /\ step' = IF Len(batch) = 1 THEN "sleep" ELSE "send"

(* Mutant: a row leaves the queue after one attempt, whatever came of it.  *)
NackDeletes ==
  /\ step = "nack"
  /\ queue' = {r \in queue : r.id # Head(batch).id}
  /\ NextRow
  /\ UNCHANGED <<nextId, threads, relay, history>>

(* Mutant: the row stays in the queue. *)
AckKeepsRow ==
  /\ step = "ack"
  /\ NextRow
  /\ UNCHANGED <<table, threads, relay, history>>

(* State.delete_queue. *)
Ack ==
  /\ step = "ack"
  /\ queue' = {r \in queue : r.id # Head(batch).id}
  /\ NextRow
  /\ UNCHANGED <<nextId, threads, relay, history>>

(* Mutant: a failure is not counted. *)
NackForever ==
  /\ step = "nack"
  /\ queue' = {[r EXCEPT !.due = @ /\ r.id # Head(batch).id] : r \in queue}
  /\ NextRow
  /\ UNCHANGED <<nextId, threads, relay, history>>

(* State.retry_queue: the row is postponed, or discarded after MaxTries    *)
(* failures or 30 days. Only the worker deletes rows and counts failures,  *)
(* so its read and its write are one step.                                 *)
Nack ==
  /\ step = "nack"
  /\ LET mine == {r \in queue : r.id = Head(batch).id}
         last == {r \in mine : r.tries + 1 >= MaxTries \/ r.old}
         settled == UNION {VisitsOf(r.item) : r \in last}
     IN  /\ queue' = (queue \ mine) \cup
                      {[r EXCEPT !.tries = @ + 1, !.due = FALSE] : r \in mine \ last}
         /\ owed' = owed \ settled
  /\ NextRow
  /\ UNCHANGED <<nextId, threads, relay, faults, accepted>>

(* The worker is restarted, or a statement of its own raises: the loop     *)
(* forgets the batch and sleeps.                                           *)
WorkerFails ==
  /\ step # "sleep"
  /\ FaultHappens("worker")
  /\ step' = "sleep"
  /\ batch' = <<>>
  /\ UNCHANGED <<table, threads, relay, accepted, owed>>

(* next_attempt_at of a postponed row is reached. *)
ComesDue(r) ==
  /\ r \in queue /\ ~r.due
  /\ queue' = (queue \ {r}) \cup {[r EXCEPT !.due = TRUE]}
  /\ UNCHANGED <<nextId, threads, worker, relay, history>>

(* created_at of a row is 30 days ago. *)
GrowsOld(r) ==
  /\ r \in queue /\ ~r.old
  /\ "age" \in Fault
  /\ queue' = (queue \ {r}) \cup {[r EXCEPT !.old = TRUE]}
  /\ UNCHANGED <<nextId, threads, worker, relay, history>>
-----------------------------------------------------------------------------
(* The relay's own commands: a source is removed or expires, the mode is   *)
(* switched.                                                               *)
Removed(i) ==
  /\ i \in active
  /\ active' = active \ {i}
  /\ owed' = owed \ (Url \X {i})
  /\ UNCHANGED <<table, threads, worker, mode, hits, faults, accepted>>

SetMode(m) ==
  /\ mode # m
  /\ mode' = m
  /\ UNCHANGED <<table, threads, worker, active, hits, history>>
-----------------------------------------------------------------------------
Work == Answered \/ Unreachable \/ Ack \/ Nack

Next ==
  \/ \E h \in Handler, u \in Url, i \in Ip : Visit(h, u, i)
  \/ \E h \in Handler : Look(h) \/ Put(h) \/ HandlerFails(h)
  \/ \E v \in Url \X Ip : Forget(v)
  \/ PhoneRestarts
  \/ Drain \/ Work \/ ReplyLost \/ WorkerFails
  \/ \E r \in queue : ComesDue(r) \/ GrowsOld(r)
  \/ \E i \in Ip : Removed(i)
  \/ \E m \in {"regular", "attack"} : SetMode(m)

Spec == Init /\ [][Next]_vars

(* The worker's service is restarted whenever it ends and its loop runs    *)
(* every 10 s; time passes.                                                *)
FairSpec ==
  /\ Spec
  /\ WF_vars(Drain) /\ WF_vars(Work)
  /\ WF_vars(\E r \in queue : ComesDue(r))
-----------------------------------------------------------------------------
Honoured(v) ==
  v[2] \in active \/ \E r \in queue : v \in VisitsOf(r.item)

(* A visit whose payload was queued is still in the queue or its source is *)
(* admitted, until the relay removes the source or the row is given up -   *)
(* whatever fails in between, and however visits are merged into rows that *)
(* are being sent. The one exception is Overlooked (exitnode.py:95-116,    *)
(* state.py:569-620).                                                      *)
VisitHonoured == \A v \in owed : Honoured(v)

(* The relay never counts more hits of a URL than there were visits, but   *)
(* for one more with each fault: rows are deleted before they can be sent  *)
(* again (exitnode.py:95-116).                                             *)
HitsNotInvented == \A u \in Url : hits[u] <= accepted[u] + faults

(* No row stays for ever: it is delivered or given up (state.py:600-620).  *)
RowsLeave ==
  \A n \in 1..(2 * MaxVisits) :
    (\E r \in queue : r.id = n) ~> ~(\E r \in queue : r.id = n)
=============================================================================
