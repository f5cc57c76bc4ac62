------------------------------ MODULE SecretSync ------------------------------
(***************************************************************************)
(* The exit node's cache of Secret URLs (exitnode.sync_from_relay,         *)
(* State.replace_secret_urls) and the relay's table that it copies.        *)
(*                                                                         *)
(* The queue worker, the Telegram bot, the phone service and the command   *)
(* sync-from-relay each copy the table on a database connection of their   *)
(* own. One copy is not one transaction: upsert_secret_url_record calls    *)
(* ensure_ruleset, which commits, so that the DELETE and each row are      *)
(* committed before the next row is written. SQLite lets one connection    *)
(* write at a time; readers see what is committed.                         *)
(***************************************************************************)
EXTENDS Naturals, FiniteSets

CONSTANTS
  Syncer,       \* processes that copy the table
  Url,          \* secret URLs
  RelayDefault, \* URLs that the relay's config names as phone.secret_path
  ExitDefault,  \* the same in the exit node's config
  Fault,        \* which faults happen: subset of FaultKinds
  MaxFaults,    \* bound: how many of them
  None

FaultKinds == {"abort", "phone"}

ASSUME ConstantsAssumption ==
  /\ Syncer # {}
  /\ RelayDefault \subseteq Url
  /\ ExitDefault \subseteq Url
  /\ Fault \subseteq FaultKinds
  /\ MaxFaults \in Nat
  /\ None \notin Syncer
  /\ None \notin Url

Status == {"absent", "active", "deleted"}
Table == [Url -> Status]
Empty == [u \in Url |-> "absent"]

VARIABLES
  relay,   \* the relay's table secret_urls
  cache,   \* the exit node's, as committed
  draft,   \* the exit node's, as its writer sees it
  writer,  \* the connection with an open write transaction
  pc, export, todo, cur,   \* locals of each copy
  faults,  \* faults so far
  last,    \* history: the export of each process's last complete copy
  crumbs   \* history: something else was written since the last DELETE

exit  == <<cache, draft, writer>>
local == <<pc, export, todo, cur>>
vars  == <<relay, exit, local, faults, last, crumbs>>

TypeOK ==
  /\ relay \in Table
  /\ cache \in Table
  /\ draft \in Table
  /\ writer \in Syncer \cup {None}
  /\ pc \in [Syncer -> {"idle", "delete", "ensure", "insert", "commit"}]
  /\ export \in [Syncer -> Table]
  /\ todo \in [Syncer -> SUBSET Url]
  /\ cur \in [Syncer -> Url \cup {None}]
  /\ \A s \in Syncer :
       /\ pc[s] \in {"ensure", "commit"} <=> writer = s
       /\ pc[s] = "insert" => cur[s] \in todo[s]
  /\ last \in [Syncer -> Table]
  /\ faults \in 0..MaxFaults
  /\ crumbs \in BOOLEAN

Init ==
  /\ relay = Empty /\ cache = Empty /\ draft = Empty /\ writer = None
  /\ pc = [s \in Syncer |-> "idle"]
  /\ export = [s \in Syncer |-> Empty]
  /\ todo = [s \in Syncer |-> {}]
  /\ cur = [s \in Syncer |-> None]
  /\ last = [s \in Syncer |-> Empty]
  /\ faults = 0 /\ crumbs = FALSE
-----------------------------------------------------------------------------
Goto(s, l) == pc' = [pc EXCEPT ![s] = l]

FaultHappens(k) ==
  /\ k \in Fault
  /\ faults < MaxFaults
  /\ faults' = faults + 1

(* State.ensure_secret_url of the configured default path: inserted, or    *)
(* made active again. cli.migrate_secret_path calls it on the relay before *)
(* every secret-url command and every export.                              *)
WithDefault(t, D) == [u \in Url |-> IF u \in D THEN "active" ELSE t[u]]
-----------------------------------------------------------------------------
(* The relay's commands: secret-url create and delete; import --replace    *)
(* drops the rows that its file does not have.                             *)
Create(u) ==
  /\ relay[u] = "absent"
  /\ relay' = [WithDefault(relay, RelayDefault) EXCEPT ![u] = "active"]
  /\ UNCHANGED <<exit, local, faults, last, crumbs>>

Delete(u) ==
  /\ relay[u] = "active"
  /\ relay' = [WithDefault(relay, RelayDefault) EXCEPT ![u] = "deleted"]
  /\ UNCHANGED <<exit, local, faults, last, crumbs>>

ImportReplace(u) ==
  /\ relay[u] # "absent"
  /\ relay' = [relay EXCEPT ![u] = "absent"]
  /\ UNCHANGED <<exit, local, faults, last, crumbs>>

(* sync_from_relay: the relay runs export; the answer is under way. An     *)
(* unreachable relay ends the copy before it touches the cache.            *)
Export(s) ==
  /\ pc[s] = "idle"
  /\ relay' = WithDefault(relay, RelayDefault)
  /\ export' = [export EXCEPT ![s] = relay']
  /\ Goto(s, "delete")
  /\ UNCHANGED <<exit, todo, cur, faults, last, crumbs>>

Rows(t) == {u \in Url : t[u] # "absent"}

(* Mutant: the old rows stay. *)
KeepOldRows(s) ==
  /\ pc[s] = "delete"
  /\ writer = None
  /\ writer' = s
  /\ draft' = cache
  /\ todo' = [todo EXCEPT ![s] = Rows(export[s])]
  /\ Goto(s, IF Rows(export[s]) = {} THEN "commit" ELSE "ensure")
  /\ crumbs' = FALSE
  /\ UNCHANGED <<relay, cache, export, cur, faults, last>>

(* replace_secret_urls: the DELETE opens a transaction. *)
DeleteRows(s) ==
  /\ pc[s] = "delete"
  /\ writer = None
  /\ writer' = s
  /\ draft' = Empty
  /\ todo' = [todo EXCEPT ![s] = Rows(export[s])]
  /\ Goto(s, IF Rows(export[s]) = {} THEN "commit" ELSE "ensure")
  /\ crumbs' = FALSE
  /\ UNCHANGED <<relay, cache, export, cur, faults, last>>

(* Mutant: ensure_ruleset does not commit. *)
EnsureWithoutCommit(s) ==
  /\ pc[s] = "ensure"
  /\ \E u \in todo[s] : cur' = [cur EXCEPT ![s] = u]
  /\ Goto(s, "insert")
  /\ UNCHANGED <<relay, exit, export, todo, faults, last, crumbs>>

(* upsert_secret_url_record: ensure_ruleset commits what there is.         *)
Ensure(s) ==
  /\ pc[s] = "ensure"
  /\ \E u \in todo[s] : cur' = [cur EXCEPT ![s] = u]
  /\ cache' = draft
  /\ writer' = None
  /\ Goto(s, "insert")
  /\ UNCHANGED <<relay, draft, export, todo, faults, last, crumbs>>

(* Mutant: the row of the URL is taken for a new one, whatever it was. *)
AlwaysActive(s) == "active"

(* The status that the export has for the URL. *)
ActiveOf(s) == export[s][cur[s]]

(* upsert_secret_url_record: the insert opens the next transaction; a path *)
(* that somebody else has inserted meanwhile is updated.                   *)
Insert(s) ==
  /\ pc[s] = "insert"
  /\ writer = None
  /\ writer' = s
  /\ draft' = [cache EXCEPT ![cur[s]] = ActiveOf(s)]
  /\ LET rest == todo[s] \ {cur[s]}
     IN  /\ todo' = [todo EXCEPT ![s] = rest]
         /\ Goto(s, IF rest = {} THEN "commit" ELSE "ensure")
  /\ cur' = [cur EXCEPT ![s] = None]
  /\ UNCHANGED <<relay, cache, export, faults, last, crumbs>>

Leave(s) ==
  /\ Goto(s, "idle")
  /\ export' = [export EXCEPT ![s] = Empty]
  /\ todo' = [todo EXCEPT ![s] = {}]
  /\ cur' = [cur EXCEPT ![s] = None]

(* Mutant: the last row is not committed. *)
NoCommit(s) ==
  /\ pc[s] = "commit"
  /\ draft' = cache
  /\ writer' = None
  /\ last' = [last EXCEPT ![s] = export[s]]
  /\ Leave(s)
  /\ UNCHANGED <<relay, cache, faults, crumbs>>

(* replace_secret_urls: the last row is committed. *)
Commit(s) ==
  /\ pc[s] = "commit"
  /\ cache' = draft
  /\ writer' = None
  /\ last' = [last EXCEPT ![s] = export[s]]
  /\ Leave(s)
  /\ UNCHANGED <<relay, draft, faults, crumbs>>

(* The process dies, or a statement raises: another writer kept the        *)
(* database locked for 5 s, or a local row has the id of an exported one.  *)
(* What is not committed is rolled back.                                   *)
Abort(s) ==
  /\ pc[s] # "idle"
  /\ FaultHappens("abort")
  /\ writer' = IF writer = s THEN None ELSE writer
  /\ draft' = IF writer = s THEN cache ELSE draft
  /\ crumbs' = TRUE
  /\ Leave(s)
  /\ UNCHANGED <<relay, cache, last>>

(* phone_server.run: the service restarts; after its own copy, which may   *)
(* fail, it makes sure of its default URL.                                 *)
PhoneStarts ==
  /\ FaultHappens("phone")
  /\ writer = None
  /\ cache' = WithDefault(cache, ExitDefault)
  /\ draft' = cache'
  /\ crumbs' = TRUE
  /\ UNCHANGED <<relay, writer, local, last>>
-----------------------------------------------------------------------------
Copy(s) == DeleteRows(s) \/ Ensure(s) \/ Insert(s) \/ Commit(s)

Next ==
  \/ \E u \in Url : Create(u) \/ Delete(u) \/ ImportReplace(u)
  \/ \E s \in Syncer : Export(s) \/ Copy(s) \/ Abort(s)
  \/ PhoneStarts

Spec == Init /\ [][Next]_vars

(* The queue worker copies every 60 s, a copy that has begun goes on, and  *)
(* SQLite's busy handler gets a connection that waits its turn. A process  *)
(* has one step to take at a time, so that this is about its loop.         *)
FairSpec == Spec /\ \A s \in Syncer : SF_vars(Export(s) \/ Copy(s))
-----------------------------------------------------------------------------
AllIdle == \A s \in Syncer : pc[s] = "idle"

(* Between the copies, every row of the cache is what the last complete    *)
(* copy of one of the processes had for it, unless a copy was broken off   *)
(* or the default URL put in since the table was last emptied: interleaved *)
(* copies may mix two exports, and leave no other row behind; the copies   *)
(* of one process alone leave exactly its last export (exitnode.py:64-92,  *)
(* state.py:694-741).                                                      *)
MixOfExports ==
  AllIdle /\ ~crumbs =>
    \A u \in Url : \E s \in Syncer : cache[u] = last[s][u]

(* A URL that stays deleted on the relay is refused for good after a       *)
(* while, whatever was broken off (state.py:694-698).                      *)
StaysRefused ==
  \A u \in Url :
    <>[](relay[u] # "active") => <>[](cache[u] # "active")

(* A URL that the relay has active is served after a while (exitnode.py:   *)
(* 119-131).                                                               *)
NewUrlServed ==
  \A u \in Url :
    relay[u] = "active" ~> (cache[u] = "active" \/ relay[u] # "active")

(* README.en.md:228-230: the exit node "keeps serving the last synced      *)
(* active URL cache". A URL leaves the cache only if the relay has it      *)
(* active no longer.                                                       *)
KeepsServing ==
  [][\A u \in Url : cache[u] = "active" /\ cache'[u] # "active"
       => relay[u] # "active"]_vars

=============================================================================
