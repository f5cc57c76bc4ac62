------------------------------- MODULE RuleEdit -------------------------------
(***************************************************************************)
(* The forwarding rules: the commands add-rule, edit-rule, delete-rule and *)
(* capture set, and the timer that follows the addresses of destination    *)
(* hosts (cli.py, destination_sync.py, capture.py, the rule part of        *)
(* state.py).                                                              *)
(*                                                                         *)
(* A command reads and resolves without any lock; then it takes apply.lock *)
(* and opens a write transaction, checks what it had read, changes the     *)
(* rules, installs the table that follows from them and commits.           *)
(* delete-rule commits first and applies afterwards, as the allow-list     *)
(* commands do. An edit names one field here; ports, ruleset, flags and    *)
(* note of a rule but its listening port are its "policy". Recording is    *)
(* switched on, so that the table shows which rules are recorded.          *)
(***************************************************************************)
EXTENDS Naturals, FiniteSets

CONSTANTS
  Proc,         \* processes
  Can,          \* Can[p]: the operations of process p
  Port,         \* listening ports
  Host, Pool,   \* destination hosts, the addresses each of them ever has
  Fixed,        \* addresses that are given as such
  Policy,
  MaxRules,     \* bound: rules ever added
  MaxCommands,  \* bound: commands of users
  Fault,        \* which faults happen: subset of FaultKinds
  MaxFaults,    \* bound: how many of them
  None          \* no process, no host, no command

Op == {"add", "port", "target", "policy", "delete", "capture", "sync"}
FaultKinds == {"dns", "nft", "conf", "stop"}

ASSUME ConstantsAssumption ==
  /\ Can \in [Proc -> SUBSET Op]
  /\ \A h \in Host : Pool[h] # {}
  /\ Fault \subseteq FaultKinds
  /\ MaxRules \in Nat /\ MaxCommands \in Nat /\ MaxFaults \in Nat
  /\ None \notin Proc
  /\ None \notin Host

VARIABLES
  book,     \* the database's rules, recorded rules and next id, as committed
  draft,    \* the same as the writer sees it
  writer,   \* the connection with an open write transaction
  lock,     \* holder of apply.lock
  live,     \* rules and recorded rules of the kernel table
  dns,      \* the addresses that each host has now
  pc, cmd, text,   \* locals of each process
  commands, faults,
  torn      \* history: table and database were left apart

database == <<book, draft, writer>>
local    == <<pc, cmd, text>>
counters == <<commands, faults, torn>>
vars     == <<database, lock, live, dns, local, counters>>

Addr == Fixed \cup UNION {Pool[h] : h \in Host}

Rule == [id : 1..MaxRules, lport : Port, host : Host \cup {None},
         ip : Addr, policy : Policy]

Shown(b) == [rules |-> b.rules, selected |-> b.selected]

IsBook(b) ==
  /\ b.rules \subseteq Rule
  /\ b.selected \subseteq 1..MaxRules
  /\ b.next \in 1..(MaxRules + 1)

TypeOK ==
  /\ IsBook(book) /\ IsBook(draft)
  /\ writer \in Proc \cup {None}
  /\ writer = None => draft = book
  /\ lock \in Proc \cup {None}
  /\ live.rules \subseteq Rule /\ live.selected \subseteq 1..MaxRules
  /\ \A h \in Host : dns[h] # {} /\ dns[h] \subseteq Pool[h]
  /\ pc \in [Proc -> {"idle", "lock", "begin", "render", "install", "commit"}]
  /\ \A p \in Proc : IF pc[p] = "idle" THEN cmd[p] = None ELSE cmd[p].op \in Op
  /\ commands \in 0..MaxCommands
  /\ faults \in 0..MaxFaults
  /\ torn \in BOOLEAN

Blank == [rules |-> {}, selected |-> {}, next |-> 1]

Init ==
  /\ book = Blank /\ draft = Blank /\ writer = None
  /\ lock = None
  /\ live = Shown(Blank)
  /\ dns \in [Host -> UNION {SUBSET Pool[h] : h \in Host}]
  /\ \A h \in Host : dns[h] # {} /\ dns[h] \subseteq Pool[h]
  /\ pc = [p \in Proc |-> "idle"]
  /\ cmd = [p \in Proc |-> None]
  /\ text = [p \in Proc |-> Shown(Blank)]
  /\ commands = 0 /\ faults = 0 /\ torn = FALSE
-----------------------------------------------------------------------------
Goto(p, l) == pc' = [pc EXCEPT ![p] = l]

FaultHappens(k) ==
  /\ k \in Fault
  /\ faults < MaxFaults
  /\ faults' = faults + 1

(* The rule on a port, as a set of one or no element. *)
On(b, port) == {r \in b.rules : r.lport = port}

(* The first address of a sorted answer. *)
First(S) == CHOOSE a \in S : TRUE

Begun(p, o, c) ==
  /\ pc[p] = "idle"
  /\ o \in Can[p]
  /\ cmd' = [cmd EXCEPT ![p] = c]
  /\ UNCHANGED text

ByUser ==
  /\ commands < MaxCommands
  /\ commands' = commands + 1
  /\ UNCHANGED <<faults, torn>>

Rest(p) ==
  /\ Goto(p, "idle")
  /\ cmd' = [cmd EXCEPT ![p] = None]
  /\ text' = [text EXCEPT ![p] = Shown(Blank)]

(* Mutant: the transaction is not rolled back. *)
GiveUpKeepsDraft(p) ==
  /\ writer' = IF writer = p THEN None ELSE writer
  /\ draft' = draft
  /\ lock' = IF lock = p THEN None ELSE lock
  /\ Rest(p)

(* The transaction is rolled back, the lock released, the command over. *)
GiveUp(p) ==
  /\ writer' = IF writer = p THEN None ELSE writer
  /\ draft' = IF writer = p THEN book ELSE draft
  /\ lock' = IF lock = p THEN None ELSE lock
  /\ Rest(p)
-----------------------------------------------------------------------------
(* destination.prepare_destination of a host: the address of the rule that *)
(* has this host already, or the first of what DNS says.                   *)
Resolved(h, current) ==
  IF \E r \in current : r.host = h
    THEN (CHOOSE r \in current : r.host = h).ip
    ELSE First(dns[h])

Targets(current) ==
  [host : {None}, ip : Fixed]
    \cup {[host |-> h, ip |-> Resolved(h, current)] : h \in Host}

(* cli.cmd_add_rule, before the lock. A lookup that fails ends it here. *)
AddRule(p, port, y) ==
  /\ \E t \in Targets(On(book, port)) :
       Begun(p, "add", [op |-> "add", lport |-> port, target |-> t, policy |-> y])
  /\ ByUser
  /\ Goto(p, "lock")
  /\ UNCHANGED <<database, lock, live, dns>>

(* cli.cmd_edit_rule, before the lock: the rule must exist. *)
EditPort(p, port, new) ==
  /\ \E r \in On(book, port) :
       Begun(p, "port", [op |-> "port", lport |-> port, old |-> r, new |-> new])
  /\ ByUser
  /\ Goto(p, "lock")
  /\ UNCHANGED <<database, lock, live, dns>>

EditTarget(p, port) ==
  /\ \E r \in On(book, port), t \in Targets(On(book, port)) :
       Begun(p, "target", [op |-> "target", lport |-> port, old |-> r, target |-> t])
  /\ ByUser
  /\ Goto(p, "lock")
  /\ UNCHANGED <<database, lock, live, dns>>

EditPolicy(p, port, y) ==
  /\ \E r \in On(book, port) :
       Begun(p, "policy", [op |-> "policy", lport |-> port, old |-> r, policy |-> y])
  /\ ByUser
  /\ Goto(p, "lock")
  /\ UNCHANGED <<database, lock, live, dns>>

(* capture.configure with a list of ports, before the lock. *)
Capture(p, ports) ==
  /\ Begun(p, "capture", [op |-> "capture", ports |-> ports])
  /\ ByUser
  /\ Goto(p, "lock")
  /\ UNCHANGED <<database, lock, live, dns>>

(* destination_sync.sync_destinations, before the lock: the rules with a   *)
(* host and the answers to their lookups; a failed lookup is no address.   *)
StartSync(p) ==
  LET snapshot == {r \in book.rules : r.host # None}
  IN  /\ snapshot # {}
      /\ \E failed \in SUBSET {r.host : r \in snapshot} :
           /\ Begun(p, "sync",
                [op |-> "sync", old |-> snapshot,
                 answer |-> [h \in {r.host : r \in snapshot} |->
                               IF h \in failed THEN {} ELSE dns[h]]])
           /\ IF failed = {} THEN UNCHANGED faults ELSE FaultHappens("dns")
      /\ Goto(p, "lock")
      /\ UNCHANGED <<database, lock, live, dns, commands, torn>>

(* Mutant: the selection of recorded rules is left alone. *)
DeleteKeepsSelection(p, port) ==
  /\ writer = None
  /\ Begun(p, "delete", [op |-> "delete"])
  /\ ByUser
  /\ book' = [book EXCEPT !.rules = @ \ On(book, port)]
  /\ draft' = book'
  /\ Goto(p, "lock")
  /\ UNCHANGED <<writer, lock, live, dns>>

(* cli.cmd_delete_rule: State.delete_rule commits without apply.lock. *)
DeleteRule(p, port) ==
  /\ writer = None
  /\ Begun(p, "delete", [op |-> "delete"])
  /\ ByUser
  /\ book' = [book EXCEPT !.rules = @ \ On(book, port),
                          !.selected = @ \ {r.id : r \in On(book, port)}]
  /\ draft' = book'
  /\ Goto(p, "lock")
  /\ UNCHANGED <<writer, lock, live, dns>>

(* The hosts change their addresses. *)
DnsChanges(h, S) ==
  /\ S # {} /\ S \subseteq Pool[h] /\ S # dns[h]
  /\ dns' = [dns EXCEPT ![h] = S]
  /\ UNCHANGED <<database, lock, live, local, counters>>
-----------------------------------------------------------------------------
Lock(p) ==
  /\ pc[p] = "lock"
  /\ lock = None
  /\ lock' = p
  /\ Goto(p, IF cmd[p].op = "delete" THEN "render" ELSE "begin")
  /\ UNCHANGED <<database, live, dns, cmd, text, counters>>

(* BEGIN IMMEDIATE and the changes, which make the book b; its table is to *)
(* be installed.                                                           *)
Stage(p, b) ==
  /\ writer = None
  /\ writer' = p
  /\ draft' = b
  /\ text' = [text EXCEPT ![p] = Shown(b)]
  /\ Goto(p, "install")
  /\ UNCHANGED <<book, lock, live, dns, cmd, counters>>

Refuse(p) ==
  /\ writer = None
  /\ GiveUp(p)
  /\ UNCHANGED <<book, live, dns, counters>>

(* Edits, lookups and selections that change nothing install nothing.      *)
StageIfNew(p, b) == IF b # book THEN Stage(p, b) ELSE Refuse(p)

(* State.add_rule: a new rule, or the one on this port rewritten. *)
BeginAdd(p) ==
  /\ pc[p] = "begin" /\ cmd[p].op = "add"
  /\ LET c   == cmd[p]
         old == On(book, c.lport)
         New(n) == [id |-> n, lport |-> c.lport, host |-> c.target.host,
                    ip |-> c.target.ip, policy |-> c.policy]
     IN  \/ /\ old = {}
            /\ book.next <= MaxRules
            /\ Stage(p, [book EXCEPT !.rules = @ \cup {New(book.next)},
                                     !.next = @ + 1])
         \/ /\ old = {} /\ book.next > MaxRules
            /\ Refuse(p)
         \/ \E r \in old :
              Stage(p, [book EXCEPT !.rules = (@ \ {r}) \cup {New(r.id)}])

(* Mutant: the port is not checked. *)
NeverTaken(r, port) == FALSE

(* State.update_rule: another rule has the port. *)
TakenByOther(r, port) == On(book, port) \ {r} # {}

(* Mutant: the rule that was read before the lock is written back. *)
EditedFromOld(r, c) ==
  CASE c.op = "port"   -> [c.old EXCEPT !.lport = c.new]
    [] c.op = "target" -> [c.old EXCEPT !.host = c.target.host, !.ip = c.target.ip]
    [] c.op = "policy" -> [c.old EXCEPT !.policy = c.policy]

(* The current rule with the fields that the command names. *)
Edited(r, c) ==
  CASE c.op = "port"   -> [r EXCEPT !.lport = c.new]
    [] c.op = "target" -> [r EXCEPT !.host = c.target.host, !.ip = c.target.ip]
    [] c.op = "policy" -> [r EXCEPT !.policy = c.policy]

(* cli.cmd_edit_rule, in the transaction: the same rule must still be on   *)
(* the port, with the destination that was read if that is to be changed.  *)
BeginEdit(p) ==
  /\ pc[p] = "begin" /\ cmd[p].op \in {"port", "target", "policy"}
  /\ LET c == cmd[p]
         Same == {r \in On(book, c.lport) : r.id = c.old.id}
         Conflict(r) ==
           \/ c.op = "target" /\ <<r.host, r.ip>> # <<c.old.host, c.old.ip>>
           \/ c.op = "port" /\ TakenByOther(r, c.new)
     IN  \/ /\ \A r \in Same : Conflict(r)
            /\ Refuse(p)
         \/ \E r \in Same :
              /\ ~Conflict(r)
              /\ StageIfNew(p, [book EXCEPT !.rules = (@ \ {r}) \cup {Edited(r, c)}])

(* Mutant: the answer is used whatever became of the rule's destination. *)
SyncTrustsAnswer(p) ==
  /\ pc[p] = "begin" /\ cmd[p].op = "sync"
  /\ LET c == cmd[p]
         Answer(r) == c.answer[(CHOOSE o \in c.old : o.id = r.id).host]
         Stale(r) == /\ \E o \in c.old : o.id = r.id
                     /\ Answer(r) # {} /\ r.ip \notin Answer(r)
     IN  StageIfNew(p, [book EXCEPT !.rules =
           {IF Stale(r) THEN [r EXCEPT !.ip = First(Answer(r))] ELSE r : r \in @}])

(* Mutant: a rule is never moved from an address that it has. *)
SyncKeepsAddress(p) ==
  /\ pc[p] = "begin" /\ cmd[p].op = "sync"
  /\ StageIfNew(p, book)

(* sync_destinations, in the transaction: the rules whose destination is   *)
(* the one that was looked up and whose address is not in the answer.      *)
BeginSync(p) ==
  /\ pc[p] = "begin" /\ cmd[p].op = "sync"
  /\ LET c == cmd[p]
         Stale(r) ==
           /\ \E o \in c.old : o.id = r.id /\ o.host = r.host /\ o.ip = r.ip
           /\ c.answer[r.host] # {} /\ r.ip \notin c.answer[r.host]
     IN  StageIfNew(p, [book EXCEPT !.rules =
           {IF Stale(r) THEN [r EXCEPT !.ip = First(c.answer[r.host])] ELSE r : r \in @}])

(* capture.configure, in the transaction: ports become the ids of their    *)
(* rules; a port without a rule refuses the whole list.                    *)
BeginCapture(p) ==
  /\ pc[p] = "begin" /\ cmd[p].op = "capture"
  /\ LET ports == cmd[p].ports
     IN  IF \E port \in ports : On(book, port) = {}
           THEN Refuse(p)
           ELSE StageIfNew(p, [book EXCEPT !.selected =
                            {r.id : r \in {q \in book.rules : q.lport \in ports}}])

(* write_and_apply of delete-rule renders what is committed now. *)
Render(p) ==
  /\ pc[p] = "render"
  /\ text' = [text EXCEPT ![p] = Shown(book)]
  /\ Goto(p, "install")
  /\ UNCHANGED <<database, lock, live, dns, cmd, counters>>

Install(p) ==
  /\ pc[p] = "install"
  /\ live' = text[p]
  /\ torn' = (torn /\ text[p] # Shown(draft))
  /\ Goto(p, "commit")
  /\ UNCHANGED <<database, lock, dns, cmd, text, commands, faults>>

(* Mutant: the lock stays with a process that is done. *)
CommitKeepsLock(p) ==
  /\ pc[p] = "commit"
  /\ book' = IF writer = p THEN draft ELSE book
  /\ writer' = IF writer = p THEN None ELSE writer
  /\ UNCHANGED <<draft, lock, live, dns, counters>>
  /\ Rest(p)

(* The nft file is written, the transaction committed, the lock released.  *)
Commit(p) ==
  /\ pc[p] = "commit"
  /\ book' = IF writer = p THEN draft ELSE book
  /\ writer' = IF writer = p THEN None ELSE writer
  /\ lock' = None
  /\ UNCHANGED <<draft, live, dns, counters>>
  /\ Rest(p)
-----------------------------------------------------------------------------
(* The table that p was to install for a change that stays committed.      *)
Undone(p) == cmd[p].op = "delete"

(* Mutant: the exception leaves the transaction open and it is committed.  *)
InstallFailsCommits(p) ==
  /\ pc[p] = "install"
  /\ FaultHappens("nft")
  /\ book' = IF writer = p THEN draft ELSE book
  /\ writer' = IF writer = p THEN None ELSE writer
  /\ lock' = None
  /\ torn' = (torn \/ Undone(p))
  /\ Rest(p)
  /\ UNCHANGED <<draft, live, dns, commands>>

(* validate_nft or the batch fails: the transaction is rolled back. A      *)
(* batch that timed out may have been committed by the kernel all the same. *)
InstallFails(p) ==
  /\ pc[p] = "install"
  /\ FaultHappens("nft")
  /\ \/ UNCHANGED live /\ torn' = (torn \/ Undone(p))
     \/ live' = text[p] /\ torn' = TRUE
  /\ GiveUp(p)
  /\ UNCHANGED <<book, dns, commands>>

(* The table is installed and the nft file cannot be written. *)
WriteConfFails(p) ==
  /\ pc[p] = "commit"
  /\ FaultHappens("conf")
  /\ torn' = TRUE
  /\ GiveUp(p)
  /\ UNCHANGED <<book, live, dns, commands>>

(* The process dies, or finds the database locked for too long. *)
Stop(p) ==
  /\ pc[p] # "idle"
  /\ FaultHappens("stop")
  /\ torn' = (torn \/ Undone(p) \/ pc[p] = "commit")
  /\ GiveUp(p)
  /\ UNCHANGED <<book, live, dns, commands>>
-----------------------------------------------------------------------------
Command(p) ==
  \/ \E port \in Port :
       \/ \E y \in Policy : AddRule(p, port, y) \/ EditPolicy(p, port, y)
       \/ \E new \in Port : EditPort(p, port, new)
       \/ EditTarget(p, port)
       \/ DeleteRule(p, port)
  \/ \E ports \in SUBSET Port : Capture(p, ports)

Step(p) ==
  \/ BeginAdd(p) \/ BeginEdit(p) \/ BeginSync(p) \/ BeginCapture(p)
  \/ Render(p) \/ Install(p) \/ Commit(p)

Next ==
  \/ \E p \in Proc :
       \/ Command(p) \/ StartSync(p) \/ Lock(p) \/ Step(p)
       \/ InstallFails(p) \/ WriteConfFails(p) \/ Stop(p)
  \/ \E h \in Host, S \in SUBSET Addr : DnsChanges(h, S)

Spec == Init /\ [][Next]_vars

(* The timer starts sync-destinations every 10 s, a process that runs goes *)
(* on running, and flock does not pass over a waiting process for ever.    *)
FairSpec ==
  /\ Spec
  /\ \A p \in Proc :
       /\ WF_vars(StartSync(p)) /\ WF_vars(Step(p)) /\ SF_vars(Lock(p))
-----------------------------------------------------------------------------
Book == INSTANCE RuleBook
          WITH NoHost <- None, rules <- book.rules, selected <- book.selected,
               next <- book.next

(* Whatever the interleaving, every commit changes only the fields that    *)
(* its command names, of the rule that it names: no edit is undone by one  *)
(* that had read the rule before (cli.py:397-449, state.py:280-347).       *)
ImplementsRuleBook == Book!Spec

(* No two rules listen on one port (state.py:318-338). *)
OneRulePerPort ==
  \A r, s \in book.rules : r.lport = s.lport => r = s

(* A rule with a host has an address of that very host, whoever edits it   *)
(* while its lookup is under way (destination_sync.py:33-50).              *)
AddressBelongsToHost ==
  \A r \in book.rules : r.host # None => r.ip \in Pool[r.host]

(* Recording is selected for existing rules only (README.en.md:426-427).   *)
SelectedExist == book.selected \subseteq {r.id : r \in book.rules}

(* Whenever nobody holds apply.lock, the kernel table has exactly the      *)
(* committed rules - also after a command whose table was not accepted -   *)
(* unless a delete has still to be applied, or a process was stopped       *)
(* between the two (README.en.md:180, cli.py:357-449).                     *)
TableMatchesBook ==
  lock = None =>
    \/ live = Shown(book)
    \/ torn
    \/ \E p \in Proc : pc[p] = "lock" /\ Undone(p)

(* Every command comes to an end: the lock order is the same everywhere    *)
(* (nft.py:175-197).                                                       *)
CommandsEnd == \A p \in Proc : pc[p] # "idle" ~> pc[p] = "idle"

(* When a host's addresses stay as they are, its rules get one of them,    *)
(* whatever was edited or failed before (destination_sync.py:12-66).       *)
AddressesFollow ==
  \A h \in Host : \A S \in SUBSET Pool[h] :
    <>[](dns[h] = S) =>
      <>[](\A r \in book.rules : r.host = h => r.ip \in S)
=============================================================================
