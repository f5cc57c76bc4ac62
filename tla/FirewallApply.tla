---------------------------- MODULE FirewallApply ----------------------------
(***************************************************************************)
(* The relay's core: the allow list in SQLite, the nftables table in the   *)
(* kernel, and the processes that change the first and must bring the      *)
(* second into line (relay.py, nft.py, the allow-list part of state.py).   *)
(*                                                                         *)
(* Every command, timer and log watcher is an operating-system process of  *)
(* its own with its own database connection; they share the database, the  *)
(* kernel table, the persisted nft file and the advisory apply.lock.       *)
(* A row of the allow list is an element of Entry; "in allow" means that   *)
(* active_allow_entries() returns it (present and not expired).            *)
(***************************************************************************)
EXTENDS Naturals, FiniteSets

CONSTANTS
  Worker,     \* processes
  Entry,      \* allow-list rows: (ruleset, source, channel)
  Dynamic,    \* the rows of the channels ssh_login, ddns and web
  Can,        \* Can[w]: the operations that process w performs
  Fault,      \* which faults and expiries happen: subset of FaultKinds
  MaxFaults,  \* how many of them at most
  None        \* no process, no row

Op == {"ingest", "allow", "remove", "apply", "retry", "repair", "mode"}
FaultKinds == {"nft", "conf", "kill", "reboot", "expiry"}

ASSUME ConstantsAssumption ==
  /\ Dynamic \subseteq Entry
  /\ Can \in [Worker -> SUBSET Op]
  /\ Fault \subseteq FaultKinds
  /\ MaxFaults \in Nat
  /\ None \notin Worker
  /\ None \notin Entry
  /\ \A S \in SUBSET Entry : S # None

VARIABLES
  allow,      \* rows the database holds active
  mode,       \* meta key "mode"
  pending,    \* meta key "apply_pending"
  due,        \* 30 s have passed since last_stale_live_repair_at
  live,       \* rows the kernel table lets through
  conf,       \* rows of the persisted nft file, loaded at boot
  lock,       \* holder of apply.lock
  pc, job, arg, seen, text,   \* locals of each process
  faults,     \* faults so far
  drift,      \* history: rows on which table and database were left apart
  torn        \* history: a process stopped between table and nft file

db      == <<allow, mode, pending, due>>
kernel  == <<live, conf, lock>>
local   == <<pc, job, arg, seen, text>>
history == <<faults, drift, torn>>
vars    == <<db, kernel, local, history>>

Labels == {"idle", "check", "read", "upsert", "mark", "lock", "render",
           "install", "conf", "done", "failed"}

(* Operations that go through relay.apply_state; the others call           *)
(* nft.write_and_apply directly.                                           *)
ApplyState == {"ingest", "retry", "repair"}

(* The steps taken with apply.lock held. *)
Critical == {"render", "install", "conf"}

TypeOK ==
  /\ allow \subseteq Entry
  /\ mode \in {"regular", "attack"}
  /\ pending \in BOOLEAN
  /\ due \in BOOLEAN
  /\ live \subseteq Entry
  /\ conf \subseteq Entry
  /\ lock \in Worker \cup {None}
  /\ pc \in [Worker -> Labels]
  /\ job \in [Worker -> Op \cup {None}]
  /\ arg \in [Worker -> Entry \cup {None}]
  /\ seen \in [Worker -> BOOLEAN]
  /\ text \in [Worker -> SUBSET Entry]
  /\ \A w \in Worker : pc[w] \in {"check", "read", "upsert"} => arg[w] \in Entry
  /\ faults \in 0..MaxFaults
  /\ drift \subseteq Entry
  /\ torn \in BOOLEAN
Init ==
  /\ allow = {} /\ mode = "regular" /\ pending = FALSE /\ due = TRUE
  /\ live = {} /\ conf = {} /\ lock = None
  /\ pc = [w \in Worker |-> "idle"]
  /\ job = [w \in Worker |-> None]
  /\ arg = [w \in Worker |-> None]
  /\ seen = [w \in Worker |-> FALSE]
  /\ text = [w \in Worker |-> {}]
  /\ faults = 0 /\ drift = {} /\ torn = FALSE
-----------------------------------------------------------------------------
(* The kernel table, or the text about to replace it, disagrees with the   *)
(* database on row e.                                                      *)
Stale(e) ==
  \/ (e \in allow) # (e \in live)
  \/ \E w \in Worker : pc[w] = "install" /\ (e \in text[w]) # (e \in allow)

(* Process w is still going to install a table that is right about e. *)
Owes(w, e) ==
  \/ pc[w] \in {"mark", "lock", "render"}
  \/ pc[w] = "install" /\ (e \in text[w]) = (e \in allow)

(* The rows that nobody but w was going to put right. *)
LeftBy(w) ==
  {e \in Entry : Stale(e) /\ \A v \in Worker \ {w} : ~Owes(v, e)}

(* A row enters drift with a cause and leaves it when it is right again. *)
DriftBecomes(S) == drift' = {e \in S : Stale(e)'}

Goto(w, l) == pc' = [pc EXCEPT ![w] = l]

Start(w, o, e, l) ==
  /\ pc[w] = "idle"
  /\ o \in Can[w]
  /\ Goto(w, l)
  /\ job' = [job EXCEPT ![w] = o]
  /\ arg' = [arg EXCEPT ![w] = e]
  /\ UNCHANGED <<seen, text>>

(* The process ends, or its long-running loop goes back to its input. *)
Rest(w) ==
  /\ Goto(w, "idle")
  /\ job' = [job EXCEPT ![w] = None]
  /\ arg' = [arg EXCEPT ![w] = None]
  /\ seen' = [seen EXCEPT ![w] = FALSE]
  /\ text' = [text EXCEPT ![w] = {}]

Unlock(w) == lock' = IF lock = w THEN None ELSE lock
-----------------------------------------------------------------------------
(* relay.ingest_source up to the call of add_allow: the source is          *)
(* normalised and located, which may take a remote lookup.                 *)
StartIngest(w, e) ==
  /\ Start(w, "ingest", e, "check")
  /\ UNCHANGED <<db, kernel, history>>

(* cli.cmd_allow up to the call of add_allow. *)
StartAllow(w, e) ==
  /\ Start(w, "allow", e, "check")
  /\ UNCHANGED <<db, kernel, history>>

(* State.add_allow, attack mode: dynamic channels are refused. An ingest   *)
(* returns at once; cmd_allow counts nothing and still applies.            *)
CheckMode(w) ==
  /\ pc[w] = "check"
  /\ IF mode = "attack" /\ arg[w] \in Dynamic
       THEN IF job[w] = "ingest"
              THEN Rest(w)
              ELSE Goto(w, "lock") /\ UNCHANGED <<job, arg, seen, text>>
       ELSE Goto(w, "read") /\ UNCHANGED <<job, arg, seen, text>>
  /\ UNCHANGED <<db, kernel, history>>

(* State.add_allow: was the row active before? *)
ReadExisting(w) ==
  /\ pc[w] = "read"
  /\ seen' = [seen EXCEPT ![w] = arg[w] \in allow]
  /\ Goto(w, "upsert")
  /\ UNCHANGED <<db, kernel, history, job, arg, text>>

(* Mutant: cmd_allow, too, applies only if add_allow reported a new row. *)
UpsertAppliesIfNew(w) ==
  /\ pc[w] = "upsert"
  /\ allow' = allow \cup {arg[w]}
  /\ UNCHANGED <<mode, pending, due, kernel, faults, torn>>
  /\ \/ seen[w] /\ Rest(w)
     \/ /\ ~seen[w]
        /\ Goto(w, IF job[w] = "ingest" THEN "mark" ELSE "lock")
        /\ UNCHANGED <<job, arg, seen, text>>
  /\ DriftBecomes(drift)

(* State.add_allow: the upsert and its commit. An ingest applies only if   *)
(* add_allow reported a newly active row; cmd_allow applies always. A row  *)
(* that vanished after it was read is inserted again and reported as       *)
(* nothing new.                                                            *)
Upsert(w) ==
  /\ pc[w] = "upsert"
  /\ allow' = allow \cup {arg[w]}
  /\ UNCHANGED <<mode, pending, due, kernel, faults, torn>>
  /\ \/ /\ job[w] = "ingest" /\ seen[w]
        /\ Rest(w)
        /\ DriftBecomes(drift \cup {arg[w]})
     \/ /\ ~(job[w] = "ingest" /\ seen[w])
        /\ Goto(w, IF job[w] = "ingest" THEN "mark" ELSE "lock")
        /\ UNCHANGED <<job, arg, seen, text>>
        /\ DriftBecomes(drift)

(* apply_pending is set before the apply (ingest_source, record_block_line). *)
MarkPending(w) ==
  /\ pc[w] = "mark"
  /\ pending' = TRUE
  /\ Goto(w, "lock")
  /\ UNCHANGED <<allow, mode, due, kernel, history, job, arg, seen, text>>

(* Mutant: the delete is not followed by an apply. *)
RemoveWithoutApply(w, e) ==
  /\ pc[w] = "idle" /\ "remove" \in Can[w]
  /\ allow' = allow \ {e}
  /\ UNCHANGED <<mode, pending, due, kernel, local, faults, torn>>
  /\ DriftBecomes(drift)

(* cli.cmd_remove_allow: the delete is committed, then applied. *)
Remove(w, e) ==
  /\ Start(w, "remove", e, "lock")
  /\ allow' = allow \ {e}
  /\ UNCHANGED <<mode, pending, due, kernel, faults, torn>>
  /\ DriftBecomes(drift)

(* cli.cmd_apply. *)
Apply(w) ==
  /\ Start(w, "apply", None, "lock")
  /\ UNCHANGED <<db, kernel, history>>

(* Mutant: the retry goes through add_allow again, with no source to add. *)
RetryAsIngest(w) ==
  /\ pending
  /\ Start(w, "retry", None, "check")
  /\ UNCHANGED <<db, kernel, history>>

(* relay.retry_pending_apply, called by the DDNS timer's sync_ddns. *)
Retry(w) ==
  /\ pending
  /\ Start(w, "retry", None, "lock")
  /\ UNCHANGED <<db, kernel, history>>

(* Mutant: the throttle never opens again. *)
ThrottleForever == ~due /\ UNCHANGED vars

(* relay.record_block_line for a logged drop of a source that the database *)
(* allows; the log line may be older than the last apply.                  *)
Repair(w, e) ==
  /\ e \in allow
  /\ due
  /\ due' = FALSE
  /\ Start(w, "repair", e, "mark")
  /\ UNCHANGED <<allow, mode, pending, kernel, history>>

ThrottleOver ==
  /\ ~due
  /\ due' = TRUE
  /\ UNCHANGED <<allow, mode, pending, kernel, local, history>>

(* State.set_mode. *)
SetMode(w, m) ==
  /\ pc[w] = "idle"
  /\ "mode" \in Can[w]
  /\ mode' = m
  /\ UNCHANGED <<allow, pending, due, kernel, local, history>>
-----------------------------------------------------------------------------
(* Mutant: a shared lock. *)
AcquireShared(w) ==
  /\ pc[w] = "lock"
  /\ lock' = w
  /\ Goto(w, "render")
  /\ UNCHANGED <<db, live, conf, job, arg, seen, text, history>>

(* nft.apply_lock. *)
Acquire(w) ==
  /\ pc[w] = "lock"
  /\ lock = None
  /\ lock' = w
  /\ Goto(w, "render")
  /\ UNCHANGED <<db, live, conf, job, arg, seen, text, history>>

(* nft.render_nft, from the rows that are active now. *)
Render(w) ==
  /\ pc[w] = "render"
  /\ text' = [text EXCEPT ![w] = allow]
  /\ Goto(w, "install")
  /\ UNCHANGED <<db, kernel, job, arg, seen, history>>

(* The nft batch replaces the table in one kernel transaction. *)
Install(w) ==
  /\ pc[w] = "install"
  /\ live' = text[w]
  /\ Goto(w, "conf")
  /\ UNCHANGED <<db, conf, lock, job, arg, seen, text, faults, torn>>
  /\ DriftBecomes(drift)

(* Mutant: the file is rendered anew. *)
WriteConfRendersAgain(w) ==
  /\ pc[w] = "conf"
  /\ conf' = allow
  /\ torn' = FALSE
  /\ Unlock(w)
  /\ Goto(w, "done")
  /\ UNCHANGED <<db, live, job, arg, seen, text, faults, drift>>

(* nft.write_config_atomically; then the lock is released. *)
WriteConf(w) ==
  /\ pc[w] = "conf"
  /\ conf' = text[w]
  /\ torn' = FALSE
  /\ Unlock(w)
  /\ Goto(w, "done")
  /\ UNCHANGED <<db, live, job, arg, seen, text, faults, drift>>

(* Mutant: only an ingest clears the marker. *)
FinishClearsForIngest(w) ==
  /\ pc[w] = "done"
  /\ pending' = IF job[w] = "ingest" THEN FALSE ELSE pending
  /\ Rest(w)
  /\ UNCHANGED <<allow, mode, due, kernel, history>>

(* relay.apply_state, success: the marker is cleared after the lock has    *)
(* been released.                                                          *)
Finish(w) ==
  /\ pc[w] = "done"
  /\ pending' = IF job[w] \in ApplyState THEN FALSE ELSE pending
  /\ Rest(w)
  /\ UNCHANGED <<allow, mode, due, kernel, history>>

(* relay.apply_state, exception: the marker is set and the error raised.   *)
(* A direct caller of write_and_apply only reports it.                     *)
Fail(w) ==
  /\ pc[w] = "failed"
  /\ pending' = IF job[w] \in ApplyState THEN TRUE ELSE pending
  /\ Rest(w)
  /\ UNCHANGED <<allow, mode, due, kernel, history>>
-----------------------------------------------------------------------------
FaultHappens(k) ==
  /\ k \in Fault
  /\ faults < MaxFaults
  /\ faults' = faults + 1

(* validate_nft or the nft batch fails. A batch that timed out may have    *)
(* been committed by the kernel all the same.                              *)
InstallFails(w) ==
  /\ pc[w] = "install"
  /\ FaultHappens("nft")
  /\ \/ UNCHANGED <<live, torn>>
     \/ live' = text[w] /\ torn' = TRUE
  /\ Unlock(w)
  /\ Goto(w, "failed")
  /\ UNCHANGED <<db, conf, job, arg, seen, text>>
  /\ DriftBecomes(drift \cup LeftBy(w))

(* The table is installed, the file cannot be written. *)
WriteConfFails(w) ==
  /\ pc[w] = "conf"
  /\ FaultHappens("conf")
  /\ torn' = TRUE
  /\ Unlock(w)
  /\ Goto(w, "failed")
  /\ UNCHANGED <<db, live, conf, job, arg, seen, text, drift>>

(* Process w dies, or a statement of its own finds the database locked and *)
(* raises past it. The kernel releases a dead process's flock.             *)
Kill(w) ==
  /\ pc[w] # "idle"
  /\ FaultHappens("kill")
  /\ Rest(w)
  /\ Unlock(w)
  /\ torn' = (torn \/ pc[w] = "conf")
  /\ UNCHANGED <<db, live, conf>>
  /\ DriftBecomes(drift \cup LeftBy(w))

(* The host restarts: the nftables service loads the persisted file. *)
Reboot ==
  /\ FaultHappens("reboot")
  /\ live' = conf
  /\ lock' = None
  /\ pc' = [w \in Worker |-> "idle"]
  /\ job' = [w \in Worker |-> None]
  /\ arg' = [w \in Worker |-> None]
  /\ seen' = [w \in Worker |-> FALSE]
  /\ text' = [w \in Worker |-> {}]
  /\ torn' = FALSE
  /\ UNCHANGED <<db, conf>>
  /\ DriftBecomes(Entry)

(* A row passes its expires_at; nothing runs when that happens. *)
Expire(e) ==
  /\ FaultHappens("expiry")
  /\ e \in allow \cap Dynamic
  /\ allow' = allow \ {e}
  /\ UNCHANGED <<mode, pending, due, kernel, local, torn>>
  /\ DriftBecomes(drift \cup {e})
-----------------------------------------------------------------------------
Step(w) ==
  \/ CheckMode(w) \/ ReadExisting(w) \/ Upsert(w) \/ MarkPending(w)
  \/ Acquire(w) \/ Render(w) \/ Install(w) \/ WriteConf(w)
  \/ Finish(w) \/ Fail(w)

Command(w) ==
  \/ \E e \in Entry : StartIngest(w, e) \/ StartAllow(w, e) \/ Remove(w, e)
  \/ \E e \in Entry : Repair(w, e)
  \/ Apply(w) \/ Retry(w)
  \/ \E m \in {"regular", "attack"} : SetMode(w, m)

Failure(w) == InstallFails(w) \/ WriteConfFails(w) \/ Kill(w)

Next ==
  \/ \E w \in Worker : Step(w) \/ Command(w) \/ Failure(w)
  \/ ThrottleOver
  \/ Reboot
  \/ \E e \in Entry : Expire(e)

Spec == Init /\ [][Next]_vars
-----------------------------------------------------------------------------
(* Fairness: a process that runs goes on running, systemd starts the DDNS  *)
(* timer every 10 s, time passes, a client that is dropped although the    *)
(* database allows it keeps sending and so keeps being logged, and the     *)
(* kernel does not pass over a process waiting in flock for ever.          *)
RepairDropped(w) == \E e \in allow \ live : Repair(w, e)

FairSpec ==
  /\ Spec
  /\ WF_vars(ThrottleOver)
  /\ \A w \in Worker :
       /\ WF_vars(Step(w)) /\ SF_vars(Acquire(w))
       /\ WF_vars(Retry(w)) /\ WF_vars(RepairDropped(w))
-----------------------------------------------------------------------------
(* The relay implements the lagging mirror of MirrorOfDatabase: the shot on *)
(* its way is the text that the holder of apply.lock has rendered.         *)
OnItsWay ==
  IF \E w \in Worker : lock = w /\ pc[w] \in {"install", "conf"}
    THEN text[lock]
    ELSE None

Mirror == INSTANCE MirrorOfDatabase
            WITH Row <- Entry, Nothing <- None, rows <- allow,
                 shot <- OnItsWay, table <- live, saved <- conf

(* The kernel table is always the whole allow list of one instant, newer   *)
(* tables never give way to older ones, and the file of the next boot is a *)
(* table that was installed (nft.py:223-242 renders and installs under one *)
(* hold of the lock).                                                      *)
ImplementsMirror == Mirror!Spec

AllIdle == \A w \in Worker : pc[w] = "idle"

(* At most one process is between rendering the table and writing the      *)
(* file, and it is the one that holds apply.lock.                          *)
LockInv ==
  \A w \in Worker : pc[w] \in Critical <=> lock = w

(* Whenever the kernel table disagrees with the database about a row,      *)
(* either a process is on its way to install a table that is right about   *)
(* it, or the row went stale for one of the causes that the code leaves to *)
(* later repair: it expired, its last applier failed, or it was refreshed  *)
(* while it was being removed (relay.py:55-83, nft.py:223-242).            *)
DivergenceExplained ==
  \A e \in Entry : Stale(e) => e \in drift \/ \E w \in Worker : Owes(w, e)

(* The file that the next boot loads is the running table, except while    *)
(* the lock holder is between the two or after a process stopped there     *)
(* (nft.py:223-242).                                                       *)
BootMatchesLive ==
  conf = live \/ torn \/ \E w \in Worker : pc[w] = "conf"

(* As long as nothing has failed or expired, a source that was removed is  *)
(* never left admitted: either the table drops it or a process that will   *)
(* drop it is under way (cli.py:478-501).                                  *)
RevokedIsDropped ==
  faults = 0 =>
    \A e \in live \ allow : \E w \in Worker : Owes(w, e)

(* A client that the database allows and the table drops gets in, or       *)
(* loses its row: the repair of a stale table from the block log           *)
(* (relay.py:146-192).                                                     *)
DroppedClientRepaired ==
  \A e \in Entry : (e \in allow \ live) ~> (e \in live \/ e \notin allow)

(* A marker set by a failed apply is worked off (relay.py:36-46). *)
PendingWorkedOff == pending ~> ~pending

(* What the ingest test says of a failed reload: the marker is left set    *)
(* (tests/test_core.py:136-152). Stated for any number of processes, when  *)
(* all are done.                                                           *)
FailedReloadIsRemembered == AllIdle /\ allow # live => pending
=============================================================================
