------------------------------- MODULE DdnsSync -------------------------------
(***************************************************************************)
(* The DDNS records: the timer (and anybody who calls sync-ddns) resolves  *)
(* the hosts of the relay's config, keeps the allow list's ddns rows in    *)
(* step with the answers and applies once at the end (relay.sync_ddns,     *)
(* State.reconcile_ddns_allow_entries), while an administrator adds and    *)
(* deletes records (cli.cmd_ddns) and switches the mode.                   *)
(*                                                                         *)
(* One ruleset: a ddns row is a network, and its note names the record     *)
(* that wrote it last. Reloads are one step here; FirewallApply has the    *)
(* steps they consist of.                                                  *)
(***************************************************************************)
EXTENDS Naturals, Sequences, FiniteSets

CONSTANTS
  Run,        \* processes that run sync_ddns
  Host, Net,
  Answers,    \* what a host's addresses can be, as sets of networks
  Edits,      \* which edits the administrator makes: subset of EditKinds
  MaxEdits,   \* bound: how many of them
  Fault,      \* which faults happen: subset of FaultKinds
  MaxFaults,  \* bound: how many of them
  None        \* no host

EditKinds == {"add", "delete", "keep", "mode"}
FaultKinds == {"dns", "nft", "stop"}

ASSUME ConstantsAssumption ==
  /\ Answers \subseteq SUBSET Net
  /\ Edits \subseteq EditKinds
  /\ Fault \subseteq FaultKinds
  /\ MaxEdits \in Nat /\ MaxFaults \in Nat
  /\ None \notin Host

VARIABLES
  config,   \* the hosts of config.json's "ddns", in order
  dns,      \* the networks of each host's addresses
  mode,
  note,     \* the record that a network's row names; None: no row
  live,     \* networks of ddns rows in the kernel table
  pending,  \* meta key "apply_pending"
  pc, todo, host, nets, current, changed,   \* locals of each run
  admin,    \* the administrator's ddns delete: where it is, its record
  edits, faults,
  seen,     \* history: each host's answer to its last lookup
  unapplied \* history: rows were committed whose apply failed or never came

relay    == <<mode, note, live, pending>>
local    == <<pc, todo, host, nets, current, changed>>
counters == <<edits, faults>>
history  == <<seen, unapplied>>
vars     == <<config, dns, relay, local, admin, counters, history>>

Rows == {n \in Net : note[n] # None}
Configured == {config[k] : k \in DOMAIN config}

TypeOK ==
  /\ config \in Seq(Host)
  /\ dns \in [Host -> Answers]
  /\ mode \in {"regular", "attack"}
  /\ note \in [Net -> Host \cup {None}]
  /\ live \subseteq Net
  /\ pending \in BOOLEAN
  /\ pc \in [Run -> {"idle", "next", "ingest"}]
  /\ todo \in [Run -> Seq(Host)]
  /\ host \in [Run -> Host \cup {None}]
  /\ nets \in [Run -> SUBSET Net]
  /\ current \in [Run -> SUBSET Net]
  /\ \A r \in Run : nets[r] \subseteq current[r] /\ (pc[r] = "ingest" <=> host[r] # None)
  /\ changed \in [Run -> BOOLEAN]
  /\ admin \in [at : {"idle", "rows", "apply"}, host : Host \cup {None}]
  /\ edits \in 0..MaxEdits /\ faults \in 0..MaxFaults
  /\ seen \in [Host -> SUBSET Net]
  /\ unapplied \in BOOLEAN

Init ==
  /\ config \in {s \in {<<>>} \cup UNION {[1..k -> Host] : k \in 1..Cardinality(Host)} :
                   \A j, k \in DOMAIN s : s[j] = s[k] => j = k}
  /\ dns \in [Host -> Answers]
  /\ mode = "regular"
  /\ note = [n \in Net |-> None]
  /\ live = {} /\ pending = FALSE
  /\ pc = [r \in Run |-> "idle"]
  /\ todo = [r \in Run |-> <<>>]
  /\ host = [r \in Run |-> None]
  /\ nets = [r \in Run |-> {}]
  /\ current = [r \in Run |-> {}]
  /\ changed = [r \in Run |-> FALSE]
  /\ admin = [at |-> "idle", host |-> None]
  /\ edits = 0 /\ faults = 0
  /\ seen = [h \in Host |-> {}]
  /\ unapplied = FALSE
-----------------------------------------------------------------------------
FaultHappens(k) ==
  /\ k \in Fault
  /\ faults < MaxFaults
  /\ faults' = faults + 1

Edit(k) ==
  /\ k \in Edits
  /\ edits < MaxEdits
  /\ edits' = edits + 1

(* relay.apply_state: the table becomes the rows of this instant, or the   *)
(* marker is set.                                                          *)
ApplyState ==
  \/ live' = Rows /\ pending' = FALSE /\ unapplied' = FALSE /\ UNCHANGED faults
  \/ UNCHANGED <<live, unapplied>> /\ pending' = TRUE /\ FaultHappens("nft")

Rest(r) ==
  /\ pc' = [pc EXCEPT ![r] = "idle"]
  /\ todo' = [todo EXCEPT ![r] = <<>>]
  /\ host' = [host EXCEPT ![r] = None]
  /\ nets' = [nets EXCEPT ![r] = {}]
  /\ current' = [current EXCEPT ![r] = {}]
  /\ changed' = [changed EXCEPT ![r] = FALSE]
-----------------------------------------------------------------------------
(* sync_ddns: a pending apply is retried; then the config is read, and in  *)
(* attack mode the run is over.                                            *)
Start(r) ==
  /\ pc[r] = "idle"
  /\ \/ pending /\ ApplyState
     \/ ~pending /\ UNCHANGED <<live, pending, faults, unapplied>>
  /\ IF mode = "attack" \/ config = <<>>
       THEN UNCHANGED local
       ELSE /\ pc' = [pc EXCEPT ![r] = "next"]
            /\ todo' = [todo EXCEPT ![r] = config]
            /\ UNCHANGED <<host, nets, current, changed>>
  /\ UNCHANGED <<config, dns, mode, note, admin, edits, seen>>

(* The next host is looked up; a host that cannot be resolved is skipped.  *)
Resolve(r) ==
  /\ pc[r] = "next" /\ todo[r] # <<>>
  /\ todo' = [todo EXCEPT ![r] = Tail(@)]
  /\ LET h == Head(todo[r])
     IN  \/ /\ pc' = [pc EXCEPT ![r] = "ingest"]
            /\ host' = [host EXCEPT ![r] = h]
            /\ nets' = [nets EXCEPT ![r] = dns[h]]
            /\ current' = [current EXCEPT ![r] = dns[h]]
            /\ seen' = [seen EXCEPT ![h] = dns[h]]
            /\ UNCHANGED faults
         \/ /\ FaultHappens("dns")
            /\ UNCHANGED <<pc, host, nets, current, seen>>
  /\ UNCHANGED <<config, dns, relay, changed, admin, edits, unapplied>>

(* Mutant: add_allow is believed to have changed nothing. *)
IngestUncounted(r) ==
  /\ pc[r] = "ingest"
  /\ \E n \in nets[r] :
       /\ nets' = [nets EXCEPT ![r] = @ \ {n}]
       /\ note' = IF mode = "regular" THEN [note EXCEPT ![n] = host[r]] ELSE note
  /\ UNCHANGED <<config, dns, mode, live, pending, pc, todo, host, current, changed, admin, counters, history>>

(* ingest_source of one address, without an apply: the row is inserted or  *)
(* taken over; only a new row counts as a change. Attack mode refuses.     *)
Ingest(r) ==
  /\ pc[r] = "ingest"
  /\ \E n \in nets[r] :
       /\ nets' = [nets EXCEPT ![r] = @ \ {n}]
       /\ note' = IF mode = "regular" THEN [note EXCEPT ![n] = host[r]] ELSE note
       /\ changed' = [changed EXCEPT ![r] = @ \/ (mode = "regular" /\ note[n] = None)]
  /\ UNCHANGED <<config, dns, mode, live, pending, pc, todo, host, current, admin, counters, history>>

(* Mutant: every record's rows are compared with this record's answer. *)
StaleOfAll(r) == {n \in Rows : n \notin current[r]}

(* The rows that name this record and are not in its answer. *)
StaleRows(r) == {n \in Net : note[n] = host[r] /\ n \notin current[r]}

Without(S) == [n \in Net |-> IF n \in S THEN None ELSE note[n]]

(* Mutant: the record stays the current one. *)
ReconcileKeepsHost(r) ==
  /\ pc[r] = "ingest" /\ nets[r] = {}
  /\ note' = Without(StaleRows(r))
  /\ changed' = [changed EXCEPT ![r] = @ \/ StaleRows(r) # {}]
  /\ pc' = [pc EXCEPT ![r] = "next"]
  /\ current' = [current EXCEPT ![r] = {}]
  /\ UNCHANGED <<config, dns, mode, live, pending, todo, host, nets, admin, counters, history>>

(* reconcile_ddns_allow_entries. *)
Reconcile(r) ==
  /\ pc[r] = "ingest" /\ nets[r] = {}
  /\ note' = Without(StaleRows(r))
  /\ changed' = [changed EXCEPT ![r] = @ \/ StaleRows(r) # {}]
  /\ pc' = [pc EXCEPT ![r] = "next"]
  /\ host' = [host EXCEPT ![r] = None]
  /\ current' = [current EXCEPT ![r] = {}]
  /\ UNCHANGED <<config, dns, mode, live, pending, todo, nets, admin, counters, history>>

(* The end of the run: one apply, if anything changed. *)
Finish(r) ==
  /\ pc[r] = "next" /\ todo[r] = <<>>
  /\ IF changed[r] THEN ApplyState ELSE UNCHANGED <<live, pending, faults, unapplied>>
  /\ Rest(r)
  /\ UNCHANGED <<config, dns, mode, note, admin, edits, seen>>

(* The process dies or a statement of it raises. *)
Stop(r) ==
  /\ pc[r] # "idle"
  /\ FaultHappens("stop")
  /\ unapplied' = (unapplied \/ changed[r])
  /\ Rest(r)
  /\ UNCHANGED <<config, dns, relay, admin, edits, seen>>
-----------------------------------------------------------------------------
(* A host gets other addresses; the old ones may come back.   *)
Moves(h, a) ==
  /\ dns[h] # a
  /\ dns' = [dns EXCEPT ![h] = a]
  /\ UNCHANGED <<config, relay, local, admin, counters, history>>

DdnsAdd(h) ==
  /\ admin.at = "idle" /\ h \notin Configured
  /\ Edit("add")
  /\ config' = Append(config, h)
  /\ UNCHANGED <<dns, relay, local, admin, faults, history>>

AdminRests == admin' = [at |-> "idle", host |-> None]

(* The records but that of h; add leaves a host with one record.           *)
Others(h) ==
  LET k == CHOOSE k \in DOMAIN config : config[k] = h
  IN  SubSeq(config, 1, k - 1) \o SubSeq(config, k + 1, Len(config))

(* cli.cmd_ddns delete: the config is written, and with --keep-allowlist   *)
(* that is all. Otherwise the rows of the record are deleted, and what     *)
(* changed is applied; a failed reload leaves no marker.                   *)
DdnsDelete(h) ==
  /\ admin.at = "idle" /\ h \in Configured
  /\ config' = Others(h)
  /\ \/ Edit("keep") /\ UNCHANGED admin
     \/ Edit("delete") /\ admin' = [at |-> "rows", host |-> h]
  /\ UNCHANGED <<dns, relay, local, faults, history>>

DdnsDeleteRows ==
  /\ admin.at = "rows"
  /\ LET mine == {n \in Net : note[n] = admin.host}
     IN  /\ note' = Without(mine)
         /\ IF mine # {} THEN admin' = [admin EXCEPT !.at = "apply"] ELSE AdminRests
  /\ UNCHANGED <<config, dns, mode, live, pending, local, counters, history>>

DdnsDeleteApply ==
  /\ admin.at = "apply"
  /\ \/ live' = Rows /\ unapplied' = FALSE /\ UNCHANGED faults
     \/ UNCHANGED live /\ unapplied' = TRUE /\ FaultHappens("nft")
  /\ AdminRests
  /\ UNCHANGED <<config, dns, mode, note, pending, local, edits, seen>>

DdnsDeleteStops ==
  /\ admin.at # "idle"
  /\ FaultHappens("stop")
  /\ unapplied' = (unapplied \/ admin.at = "apply")
  /\ AdminRests
  /\ UNCHANGED <<config, dns, relay, local, edits, seen>>

SetMode(m) ==
  /\ mode # m
  /\ Edit("mode")
  /\ mode' = m
  /\ UNCHANGED <<config, dns, note, live, pending, local, admin, faults, history>>
-----------------------------------------------------------------------------
Step(r) == Resolve(r) \/ Ingest(r) \/ Reconcile(r) \/ Finish(r)

Next ==
  \/ \E r \in Run : Start(r) \/ Step(r) \/ Stop(r)
  \/ \E h \in Host : DdnsAdd(h) \/ DdnsDelete(h)
  \/ \E h \in Host, a \in Answers : Moves(h, a)
  \/ DdnsDeleteRows \/ DdnsDeleteApply \/ DdnsDeleteStops
  \/ \E m \in {"regular", "attack"} : SetMode(m)

Spec == Init /\ [][Next]_vars

(* systemd starts sync-ddns every 10 s; what runs goes on running. *)
FairSpec ==
  /\ Spec
  /\ \A r \in Run : WF_vars(Start(r)) /\ WF_vars(Step(r))
  /\ WF_vars(DdnsDeleteRows \/ DdnsDeleteApply)
-----------------------------------------------------------------------------
(* The networks that the records stand for now. *)
Current == UNION {dns[h] : h \in Configured}

(* Once no host moves any more, every network of a record has a row, a row *)
(* that is not the network of a record names a deleted record, and the     *)
(* table is the rows - whatever lookups and reloads failed before, however *)
(* runs and edits overlap -, unless a run or a deletion was stopped before *)
(* its apply, or a deletion's apply failed (relay.py:86-144,               *)
(* state.py:490-502).                                                      *)
TableFollows ==
  \A f \in [Host -> Answers] :
    <>[](dns = f /\ mode = "regular") =>
      <>[](/\ Current \subseteq Rows
           /\ \A n \in Rows \ Current : note[n] \notin Configured
           /\ live = Rows \/ unapplied)

(* A network leaves the table only when no record had it in its last       *)
(* answer: moving one of two hosts that share a network does not shut out  *)
(* the other one (relay.py:117-142). For one timer at a time and records   *)
(* that are not deleted; a lookup that fails, or a switch to attack mode   *)
(* in mid-run, does break it: the row cannot change hands then. So does a  *)
(* failed reload with a stop of the next run: the run after it retries the *)
(* apply first, with the rows of the run that was broken off.              *)
SharedNetworkKept ==
  [][\A n \in live \ live' : \A h \in Configured : n \notin seen[h]]_vars

=============================================================================
