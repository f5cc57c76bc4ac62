------------------------------- MODULE Rulesets -------------------------------
(***************************************************************************)
(* Rulesets, and all that refers to them by name: forwarding rules, allow  *)
(* rows, Secret URLs and the DDNS records of config.json. There is no      *)
(* foreign key: each command keeps the references by itself, and several   *)
(* commands (of the administrator, the bot, the log watchers, timers) run  *)
(* at the same time. A transaction is one step; what a command commits or  *)
(* reads on its own is a step of its own, and it may be killed between two.*)
(*                                                                         *)
(* Left out: the ruleset public, which cannot be deleted; destinations and *)
(* ports of rules (RuleEdit), which addresses a row admits (FirewallApply, *)
(* DdnsSync), ids of Secret URLs and the default URL (SecretSync).         *)
(***************************************************************************)
EXTENDS Naturals, FiniteSets

CONSTANTS
  Name,         \* rulesets other than public
  Port, Path,   \* ports of rules, paths of Secret URLs
  Worker,       \* commands that run at the same time
  Start,        \* states to begin with: [sets, refs, rows, urls, ddns]
  Backup,       \* files an export wrote earlier, of the same form
  MaxCommands, MaxKills,  \* bounds
  None

(* What a ruleset accepts: all channels, or not that of the sources here;  *)
(* Secret URLs, rules, and what a file has of them.                        *)
Channels == {"all", "few"}
SecretURL == [ruleset : Name, active : BOOLEAN]
Rule == [id : Nat, refs : SUBSET Name]
Payload ==
  [sets : [Name -> Channels \cup {None}], refs : [Port -> {None} \cup SUBSET Name],
   urls : [Path -> {None} \cup SecretURL], ddns : SUBSET Name]
OfPayload(s) == [sets |-> s.sets, refs |-> s.refs, urls |-> s.urls, ddns |-> s.ddns]

ASSUME ConstantsAssumption ==
  /\ Cardinality(Port) \in Nat /\ Port = 1..Cardinality(Port)
  /\ None \notin Channels \cup Name \cup Worker /\ None \notin Rule
  /\ \A R \in SUBSET Name : R # None
  /\ MaxCommands \in Nat /\ MaxKills \in Nat
  /\ Backup \subseteq Payload
  /\ \A s \in Start : OfPayload(s) \in Payload /\ s.rows \subseteq Name

VARIABLES
  sets,     \* rulesets: what each accepts
  rules,    \* forward_rules: id and rulesets of each port
  rows,     \* rulesets that have allow rows
  urls,     \* secret_urls
  ddns,     \* rulesets of the records in config.json
  backup,   \* the file of the last export
  proc,     \* the commands under way
  ids,      \* ids of rules given out
  commands, kills,
  dropped,  \* names deleted, and named by no command since
  raced,    \* names deleted between the steps of a command that had made them sure
  alone     \* the worker that took all steps since it began

vars == <<sets, rules, rows, urls, ddns, backup, proc, ids, commands, kills, dropped, raced, alone>>

(* The commands that take several steps: what they have read or made sure  *)
(* of, and what is left to do.                                             *)
Idle == [cmd |-> "idle"]
DeleteCommand == [cmd : {"delete"}, names : SUBSET Name, todo : SUBSET Name, records : SUBSET Name]
DdnsCommand == [cmd : {"ddns add", "ddns delete"}, name : Name, records : SUBSET Name]
EditCommand == [cmd : {"edit"}, port : Port, refs : {None} \cup SUBSET Name, original : Rule]
IngestCommand ==
  [cmd : {"allow", "sync"}, at : {"check", "ensure", "accepts", "insert"},
   name : Name, records : SUBSET Name]
SyncCommand == [cmd : {"sync"}, at : {"next"}, name : {None} \cup Name, records : SUBSET Name]
UrlCommand == [cmd : {"url"}, at : {"ensure", "insert"}, path : Path, name : Name]
ExportCommand == [cmd : {"export"}, at : {"rules", "ddns", "urls"}, file : Payload]
(* What a part of a file has, and which part an import has come to. *)
Listed(part) == {x \in DOMAIN part : part[x] # None}
Part(at, file) == IF at = "rules" THEN file.refs ELSE IF at = "urls" THEN file.urls ELSE file.sets
ImportCommand ==
  {c \in [cmd : {"import"}, at : {"wipe", "sets", "rules", "urls"}, replace : BOOLEAN,
          file : Payload, sure : SUBSET Name, todo : SUBSET (Name \cup Port \cup Path)] :
     c.todo \subseteq Listed(Part(c.at, c.file))}
Command ==
  {Idle} \cup DeleteCommand \cup DdnsCommand \cup EditCommand \cup IngestCommand
    \cup SyncCommand \cup UrlCommand \cup ExportCommand \cup ImportCommand

Existing == {n \in Name : sets[n] # None}
Active(n) == {u \in Path : urls[u] # None /\ urls[u].ruleset = n /\ urls[u].active}
Referring(n) == {p \in Port : rules[p] # None /\ n \in rules[p].refs}

TypeOK ==
  /\ sets \in [Name -> {None} \cup Channels]
  /\ rules \in [Port -> {None} \cup Rule]
  /\ \A p, q \in Port : rules[p] # None /\ rules[q] # None =>
       rules[p].id \in 1..ids /\ (rules[p].id = rules[q].id => p = q)
  /\ rows \subseteq Name
  /\ urls \in [Path -> {None} \cup SecretURL]
  /\ ddns \subseteq Name
  /\ backup \in Payload
  /\ proc \in [Worker -> Command]
  /\ ids \in Nat /\ commands \in 0..MaxCommands /\ kills \in 0..MaxKills
  /\ dropped \subseteq Name /\ raced \subseteq Name
  /\ alone \in {None} \cup Worker

Init ==
  /\ \E s \in Start :
       /\ sets = s.sets /\ rows = s.rows /\ urls = s.urls /\ ddns = s.ddns
       /\ rules = [p \in Port |-> IF s.refs[p] = None THEN None ELSE [id |-> p, refs |-> s.refs[p]]]
  /\ backup \in Backup
  /\ proc = [w \in Worker |-> Idle]
  /\ ids = Cardinality(Port) /\ commands = 0 /\ kills = 0
  /\ dropped = {} /\ raced = {} /\ alone = None
-----------------------------------------------------------------------------
(* Names that a command under way has made sure of, to refer to next; and  *)
(* those it may bring back when they are deleted meanwhile.                *)
Between(c) ==
  {n \in Name : \/ c.cmd = "import" /\ n \in c.sure
                \/ c.cmd = "url" /\ c.at = "insert" /\ n = c.name}

NamedIn(file) ==
  {n \in Name : \/ file.sets[n] # None
                \/ \E p \in Port : file.refs[p] # None /\ n \in file.refs[p]
                \/ \E u \in Path : file.urls[u] # None /\ n = file.urls[u].ruleset}

Named(c) ==
  {n \in Name : \/ c.cmd = "import" /\ n \in NamedIn(c.file)
                \/ c.cmd = "url" /\ n = c.name
                \/ c.cmd = "edit" /\ c.refs # None /\ n \in c.refs
                \/ c.cmd \in {"allow", "sync"} /\ c.at \in {"ensure", "accepts", "insert"} /\ n = c.name}

Others(w) == Worker \ {w}

(* State.ensure_ruleset. *)
Ensured(N) == [n \in Name |-> IF n \in N /\ sets[n] = None THEN "all" ELSE sets[n]]

(* A step of worker w, after which its command is c. *)
Step(w, c) ==
  /\ proc' = [proc EXCEPT ![w] = c]
  /\ alone' = IF alone = w THEN w ELSE None
  /\ UNCHANGED <<commands, kills>>

Begin(w, c) ==
  /\ proc[w] = Idle /\ commands < MaxCommands
  /\ commands' = commands + 1
  /\ proc' = [proc EXCEPT ![w] = c]
  /\ alone' = w
  /\ dropped' = dropped \ Named(c)
  /\ UNCHANGED <<kills, raced, sets, rules, rows, urls, ddns, backup, ids>>

Kill(w) ==
  /\ proc[w] # Idle /\ kills < MaxKills
  /\ kills' = kills + 1
  /\ proc' = [proc EXCEPT ![w] = Idle]
  /\ alone' = None
  /\ UNCHANGED <<commands, dropped, raced, sets, rules, rows, urls, ddns, backup, ids>>
-----------------------------------------------------------------------------
(* Commands of one transaction. *)
AtOnce ==
  /\ commands < MaxCommands /\ commands' = commands + 1
  /\ alone' = None
  /\ UNCHANGED <<kills, proc, raced, ddns, backup>>

(* ruleset create, set. *)
SetRuleset(n, c) ==
  /\ AtOnce
  /\ sets' = [sets EXCEPT ![n] = c]
  /\ dropped' = dropped \ {n}
  /\ UNCHANGED <<rules, rows, urls, ids>>

(* The rule of a port with these rulesets; a port keeps its id. *)
Upserted(p, refs) ==
  [rules EXCEPT ![p] = [id |-> IF @ = None THEN ids + 1 ELSE @.id, refs |-> refs]]
(* Mutant: an id is given out again. *)
TakenAgain(p) == ids

Taken(p) == IF rules[p] = None THEN ids + 1 ELSE ids

AddRule(p, refs) ==
  /\ AtOnce
  /\ sets' = Ensured(refs) /\ rules' = Upserted(p, refs) /\ ids' = Taken(p)
  /\ dropped' = dropped \ refs
  /\ UNCHANGED <<rows, urls>>

DeleteRule(p) ==
  /\ AtOnce
  /\ rules[p] # None /\ rules' = [rules EXCEPT ![p] = None]
  /\ UNCHANGED <<sets, rows, urls, ids, dropped>>

DeleteUrl(u) ==
  /\ AtOnce
  /\ urls[u] # None /\ urls[u].active /\ urls' = [urls EXCEPT ![u].active = FALSE]
  /\ UNCHANGED <<sets, rules, rows, ids, dropped>>

(* remove-allow, ddns delete, expiry: the last row of a ruleset goes. *)
RemoveRows(n) ==
  /\ AtOnce
  /\ n \in rows /\ rows' = rows \ {n}
  /\ UNCHANGED <<sets, rules, urls, ids, dropped>>
-----------------------------------------------------------------------------
(* ruleset delete: config.json is read, each name is deleted in a          *)
(* transaction of its own, then the records are written back without them. *)
BeginDelete(w, N) ==
  Begin(w, [cmd |-> "delete", names |-> N, todo |-> N, records |-> ddns])

(* Mutant: the rules keep the name. *)
KeptRefs(n) == rules

Detached(n) ==
  [p \in Port |-> IF rules[p] = None THEN None ELSE [rules[p] EXCEPT !.refs = @ \ {n}]]

Disabled(n) == [u \in Path |-> IF u \in Active(n) THEN [urls[u] EXCEPT !.active = FALSE] ELSE urls[u]]

DeleteRuleset(w, n) ==
  LET c == proc[w]
  IN  /\ c.cmd = "delete" /\ n \in c.todo
      /\ IF sets[n] = None THEN UNCHANGED <<sets, rules, rows, urls, dropped, raced>>
         ELSE /\ sets' = [sets EXCEPT ![n] = None]
              /\ rows' = rows \ {n} /\ rules' = Detached(n) /\ urls' = Disabled(n)
              /\ dropped' = IF \E v \in Others(w) : n \in Named(proc[v]) THEN dropped ELSE dropped \cup {n}
              /\ raced' = IF \E v \in Others(w) : n \in Between(proc[v]) THEN raced \cup {n} ELSE raced
      /\ Step(w, [c EXCEPT !.todo = @ \ {n}])
      /\ UNCHANGED <<ddns, backup, ids>>

(* Mutant: the records are not written back. *)
RecordsStay(c) == ddns

Purged(c) == IF c.records \cap c.names = {} THEN ddns ELSE c.records \ c.names

EndDelete(w) ==
  /\ proc[w].cmd = "delete" /\ proc[w].todo = {}
  /\ ddns' = Purged(proc[w])
  /\ Step(w, Idle)
  /\ UNCHANGED <<sets, rules, rows, urls, backup, ids, dropped, raced>>

(* ddns add and delete of a record of the ruleset n. *)
BeginDdns(w, n, cmd) == Begin(w, [cmd |-> cmd, name |-> n, records |-> ddns])

EndDdns(w) ==
  LET c == proc[w]
  IN  /\ c.cmd \in {"ddns add", "ddns delete"}
      /\ ddns' = IF c.cmd = "ddns add" THEN c.records \cup {c.name} ELSE c.records \ {c.name}
      /\ Step(w, Idle)
      /\ UNCHANGED <<sets, rules, rows, urls, backup, ids, dropped, raced>>
-----------------------------------------------------------------------------
(* edit-rule reads the rule, resolves, and writes in one transaction what  *)
(* it reads there; refs is None when the rulesets are not to change.       *)
BeginEdit(w, p, refs) ==
  rules[p] # None /\ Begin(w, [cmd |-> "edit", port |-> p, refs |-> refs, original |-> rules[p]])

(* Mutant: the rulesets are those read at first. *)
OriginalRefs(c) == IF c.refs = None THEN c.original.refs ELSE c.refs

EditedRefs(c) == IF c.refs = None THEN rules[c.port].refs ELSE c.refs

EndEdit(w) ==
  LET c == proc[w]
  IN  /\ c.cmd = "edit"
      /\ \/ /\ rules[c.port] # None /\ rules[c.port].id = c.original.id
            /\ sets' = Ensured(EditedRefs(c))
            /\ rules' = [rules EXCEPT ![c.port].refs = EditedRefs(c)]
         \/ UNCHANGED <<sets, rules>>   \* the rule is another one, or the reload fails
      /\ Step(w, Idle)
      /\ UNCHANGED <<rows, urls, ddns, backup, ids, dropped, raced>>
-----------------------------------------------------------------------------
(* allow and ingest: the prefix is looked up, which refuses an unknown     *)
(* ruleset, then add_allow makes sure of it, asks it and inserts.          *)
BeginAllow(w, n) == Begin(w, [cmd |-> "allow", at |-> "check", name |-> n, records |-> {}])

(* sync-ddns does so for the records it has read, and goes on after one    *)
(* whose ruleset is unknown.                                               *)
BeginSync(w) == Begin(w, [cmd |-> "sync", at |-> "next", name |-> None, records |-> ddns])

HasRuleset(n) == sets[n] # None

NextRecord(w) ==
  LET c == proc[w]
  IN  /\ c.cmd = "sync" /\ c.at = "next"
      /\ IF c.records = {} THEN Step(w, Idle)
         ELSE \E n \in c.records :
                Step(w, [c EXCEPT !.records = @ \ {n}, !.name = n,
                                  !.at = IF HasRuleset(n) THEN "check" ELSE "next"])
      /\ UNCHANGED <<sets, rules, rows, urls, ddns, backup, ids, dropped, raced>>

(* What an ingest that is through leaves of the command. *)
Through(c) == IF c.cmd = "sync" THEN [c EXCEPT !.at = "next"] ELSE Idle

Ingest(w) ==
  LET c == proc[w]
  IN  /\ c.cmd \in {"allow", "sync"}
      /\ \/ /\ c.at = "check"
            /\ Step(w, IF HasRuleset(c.name) THEN [c EXCEPT !.at = "ensure"] ELSE Idle)
            /\ UNCHANGED <<sets, rows>>
         \/ /\ c.at = "ensure"
            /\ sets' = Ensured({c.name}) /\ Step(w, [c EXCEPT !.at = "accepts"])
            /\ UNCHANGED rows
         \/ /\ c.at = "accepts"
            /\ \/ sets[c.name] = None /\ Step(w, Idle)
               \/ sets[c.name] # None /\ Step(w, Through(c))   \* other channels, or attack mode
               \/ sets[c.name] = "all" /\ Step(w, [c EXCEPT !.at = "insert"])
            /\ UNCHANGED <<sets, rows>>
         \/ /\ c.at = "insert"
            /\ rows' = rows \cup {c.name} /\ Step(w, Through(c))
            /\ UNCHANGED sets
      /\ UNCHANGED <<rules, urls, ddns, backup, ids, dropped, raced>>
-----------------------------------------------------------------------------
(* secret-url create: a path that is taken is refused. *)
BeginUrl(w, u, n) == Begin(w, [cmd |-> "url", at |-> "ensure", path |-> u, name |-> n])

CreateUrl(w) ==
  LET c == proc[w]
  IN  /\ c.cmd = "url"
      /\ \/ /\ c.at = "ensure"
            /\ sets' = Ensured({c.name}) /\ Step(w, [c EXCEPT !.at = "insert"])
            /\ UNCHANGED urls
         \/ /\ c.at = "insert"
            /\ urls' = IF urls[c.path] # None THEN urls
                       ELSE [urls EXCEPT ![c.path] = [ruleset |-> c.name, active |-> TRUE]]
            /\ Step(w, Idle)
            /\ UNCHANGED sets
      /\ UNCHANGED <<rules, rows, ddns, backup, ids, dropped, raced>>
-----------------------------------------------------------------------------
(* export reads one table after the other, and config.json, and writes the *)
(* file at the end.                                                        *)
BeginExport(w) == Begin(w, [cmd |-> "export", at |-> "rules", file |-> [backup EXCEPT !.sets = sets]])

Export(w) ==
  LET c == proc[w]
      Read(part, to) == Step(w, [c EXCEPT !.at = to, !.file = part]) /\ UNCHANGED backup
  IN  /\ c.cmd = "export"
      /\ \/ /\ c.at = "rules"
            /\ Read([c.file EXCEPT !.refs = [p \in Port |-> IF rules[p] = None THEN None ELSE rules[p].refs]], "ddns")
         \/ c.at = "ddns" /\ Read([c.file EXCEPT !.ddns = ddns], "urls")
         \/ c.at = "urls" /\ backup' = [c.file EXCEPT !.urls = urls] /\ Step(w, Idle)
      /\ UNCHANGED <<sets, rules, rows, urls, ddns, ids, dropped, raced>>

(* import reads the file. --replace empties the tables first; rulesets,    *)
(* rules and URLs follow in commits of their own.                          *)
BeginImport(w, replace) ==
  Begin(w, [cmd |-> "import", at |-> IF replace THEN "wipe" ELSE "sets", replace |-> replace,
            file |-> backup, sure |-> {}, todo |-> Listed(backup.sets)])

(* Mutant: the rulesets stay. *)
SetsKept == sets

WipedSets == [n \in Name |-> None]

Wipe(w) ==
  LET c == proc[w]
  IN  /\ c.cmd = "import" /\ c.at = "wipe"
      /\ sets' = WipedSets
      /\ rules' = [p \in Port |-> None] /\ urls' = [u \in Path |-> None]
      /\ raced' = raced \cup {n \in Existing : \E v \in Others(w) : n \in Between(proc[v])}
      /\ Step(w, [c EXCEPT !.at = "sets"])
      /\ UNCHANGED <<rows, ddns, backup, ids, dropped>>

(* A stage is through when nothing is left to do. *)
ImportSets(w) ==
  LET c == proc[w]
  IN  /\ c.cmd = "import" /\ c.at = "sets"
      /\ IF c.todo = {}
           THEN /\ Step(w, [c EXCEPT !.at = "rules", !.todo = Listed(c.file.refs)])
                /\ UNCHANGED sets
           ELSE \E n \in c.todo :
                  sets' = [sets EXCEPT ![n] = c.file.sets[n]] /\ Step(w, [c EXCEPT !.todo = @ \ {n}])
      /\ UNCHANGED <<rules, rows, urls, ddns, backup, ids, dropped, raced>>

(* Each name is made sure of in a commit of its own before the row. *)
Unsure(c, N) == N \ c.sure

MakeSure(w, n) ==
  sets' = Ensured({n}) /\ Step(w, [proc[w] EXCEPT !.sure = @ \cup {n}])

ImportRules(w) ==
  LET c == proc[w]
  IN  /\ c.cmd = "import" /\ c.at = "rules"
      /\ \/ /\ c.todo = {}
            /\ Step(w, [c EXCEPT !.at = "urls", !.todo = Listed(c.file.urls)])
            /\ UNCHANGED <<sets, rules, ids>>
         \/ \E p \in c.todo :
              /\ c.sure \subseteq c.file.refs[p]
              /\ IF Unsure(c, c.file.refs[p]) # {}
                   THEN /\ \E n \in Unsure(c, c.file.refs[p]) : MakeSure(w, n)
                        /\ UNCHANGED <<rules, ids>>
                   ELSE /\ rules' = Upserted(p, c.file.refs[p]) /\ ids' = Taken(p)
                        /\ Step(w, [c EXCEPT !.todo = @ \ {p}, !.sure = {}])
                        /\ UNCHANGED sets
      /\ UNCHANGED <<rows, urls, ddns, backup, dropped, raced>>

(* A row is committed with the name of the next one, the last row at the   *)
(* end; then come the records of config.json.                              *)
Following(c, u) ==
  IF c.todo = {u} THEN {{}} ELSE {{c.file.urls[v].ruleset} : v \in c.todo \ {u}}

ImportUrls(w) ==
  LET c == proc[w]
  IN  /\ c.cmd = "import" /\ c.at = "urls"
      /\ \/ /\ c.todo = {}
            /\ ddns' = c.file.ddns /\ Step(w, Idle)
            /\ UNCHANGED <<sets, urls>>
         \/ /\ c.sure = {}
            /\ \E u \in c.todo : MakeSure(w, c.file.urls[u].ruleset)
            /\ UNCHANGED <<urls, ddns>>
         \/ /\ \E u \in c.todo : \E N \in Following(c, u) :
                 /\ c.file.urls[u].ruleset \in c.sure
                 /\ urls' = [urls EXCEPT ![u] = c.file.urls[u]]
                 /\ sets' = Ensured(N)
                 /\ Step(w, [c EXCEPT !.todo = @ \ {u}, !.sure = N])
            /\ UNCHANGED ddns
      /\ UNCHANGED <<rules, rows, backup, ids, dropped, raced>>
-----------------------------------------------------------------------------
Next ==
  \/ \E n \in Name, c \in Channels : SetRuleset(n, c)
  \/ \E p \in Port, refs \in SUBSET Name : AddRule(p, refs)
  \/ \E p \in Port : DeleteRule(p)
  \/ \E u \in Path : DeleteUrl(u)
  \/ \E n \in Name : RemoveRows(n)
  \/ \E w \in Worker :
       \/ \E N \in (SUBSET Name) \ {{}} : BeginDelete(w, N)
       \/ \E n \in Name : DeleteRuleset(w, n)
       \/ EndDelete(w)
       \/ \E n \in Name, cmd \in {"ddns add", "ddns delete"} : BeginDdns(w, n, cmd)
       \/ EndDdns(w)
       \/ \E p \in Port, refs \in {None} \cup SUBSET Name : BeginEdit(w, p, refs)
       \/ EndEdit(w)
       \/ \E n \in Name : BeginAllow(w, n)
       \/ BeginSync(w) \/ NextRecord(w) \/ Ingest(w)
       \/ \E u \in Path, n \in Name : BeginUrl(w, u, n)
       \/ CreateUrl(w)
       \/ BeginExport(w) \/ Export(w)
       \/ \E replace \in BOOLEAN : BeginImport(w, replace)
       \/ Wipe(w) \/ ImportSets(w) \/ ImportRules(w) \/ ImportUrls(w)
       \/ Kill(w)

Spec == Init /\ [][Next]_vars
-----------------------------------------------------------------------------
(* Rules and active URLs refer to rulesets that exist, unless one was      *)
(* deleted between the commits of an import or of secret-url create.       *)
RefsExist ==
  \A n \in Name \ (Existing \cup raced) : Referring(n) = {} /\ Active(n) = {}

(* A ruleset that is deleted stays away, and nothing of it comes back,     *)
(* until a command names it: neither by an edit that had read the rule     *)
(* before, nor by the DDNS records of a deletion that was killed.          *)
DeletedStaysGone ==
  \A n \in dropped : n \notin Existing \cup rows /\ Referring(n) = {} /\ Active(n) = {}

(* Command cmd of w ends by itself, and took all steps since it began.     *)
EndsAlone(w, cmd) ==
  /\ proc[w].cmd = cmd /\ proc'[w] = Idle /\ kills' = kills
  /\ alone = w

(* ruleset delete leaves neither a reference nor a DDNS record behind,     *)
(* also when it makes up for one that was killed.                          *)
DeleteCleans ==
  [][\A w \in Worker : EndsAlone(w, "delete") =>
       \A n \in proc[w].names :
         /\ n \notin ddns' \cup Existing'
         /\ n \notin raced => Referring(n)' = {} /\ Active(n)' = {}]_vars

(* import --replace makes the tables what the file says, whatever they     *)
(* held, and whatever an import left that was killed.                      *)
ImportReplaces ==
  [][\A w \in Worker : EndsAlone(w, "import") /\ proc[w].replace =>
       LET file == proc[w].file
       IN  /\ sets' = [n \in Name |-> IF file.sets[n] # None THEN file.sets[n]
                                      ELSE IF n \in NamedIn(file) THEN "all" ELSE None]
           /\ urls' = file.urls /\ ddns' = file.ddns
           /\ \A p \in Port : IF file.refs[p] = None THEN rules'[p] = None
                               ELSE rules'[p] # None /\ rules'[p].refs = file.refs[p]]_vars
=============================================================================
