---------------------------- MODULE RulesetProofs ----------------------------
(***************************************************************************)
(* Theorems about Rulesets, for any sets of rulesets, ports, paths and     *)
(* workers, any files and states to begin with of the right form, and any  *)
(* bounds.                                                                 *)
(***************************************************************************)
EXTENDS Rulesets, TLAPS

(* What is under way is one of the commands, and its name says which.      *)
LEMMA CommandKinds ==
  ASSUME NEW c \in Command
  PROVE  /\ c.cmd = "delete" => c \in DeleteCommand
         /\ c.cmd \in {"ddns add", "ddns delete"} => c \in DdnsCommand
         /\ c.cmd = "edit" => c \in EditCommand
         /\ c.cmd \in {"allow", "sync"} => c \in IngestCommand \/ c \in SyncCommand
         /\ c.cmd = "url" => c \in UrlCommand
         /\ c.cmd = "export" => c \in ExportCommand
         /\ c.cmd = "import" => c \in ImportCommand
<1>1. c \in DeleteCommand => c.cmd = "delete" BY DEF DeleteCommand
<1>2. c \in DdnsCommand => c.cmd \in {"ddns add", "ddns delete"} BY DEF DdnsCommand
<1>3. c \in EditCommand => c.cmd = "edit" BY DEF EditCommand
<1>4. c \in IngestCommand => c.cmd \in {"allow", "sync"} BY DEF IngestCommand
<1>5. c \in SyncCommand => c.cmd = "sync" BY DEF SyncCommand
<1>6. c \in UrlCommand => c.cmd = "url" BY DEF UrlCommand
<1>7. c \in ExportCommand => c.cmd = "export" BY DEF ExportCommand
<1>8. c \in ImportCommand => c.cmd = "import" BY DEF ImportCommand
<1>9. c = Idle => c.cmd = "idle" BY DEF Idle
<1> QED BY <1>1, <1>2, <1>3, <1>4, <1>5, <1>6, <1>7, <1>8, <1>9 DEF Command

(* A step of worker w leaves its command in its place. *)
LEMMA StepType ==
  ASSUME TypeOK, NEW w \in Worker, NEW c \in Command, Step(w, c)
  PROVE  /\ proc' \in [Worker -> Command] /\ alone' \in {None} \cup Worker
         /\ commands' \in 0..MaxCommands /\ kills' \in 0..MaxKills
BY DEF TypeOK, Step

(* A command begins with all its fields in place.                          *)
LEMMA BeginType ==
  ASSUME TypeOK, NEW w \in Worker, NEW c \in Command, Begin(w, c)
  PROVE  TypeOK'
<1>1. proc' \in [Worker -> Command] BY DEF TypeOK, Begin
<1>2. commands' \in 0..MaxCommands BY ConstantsAssumption DEF TypeOK, Begin
<1> QED BY <1>1, <1>2 DEF TypeOK, Begin

(* Rules that lose a ruleset stay rules, and keep their ids.               *)
LEMMA DetachedType ==
  ASSUME TypeOK, NEW n \in Name
  PROVE  /\ Detached(n) \in [Port -> {None} \cup Rule]
         /\ \A p \in Port : Detached(n)[p] # None => rules[p] # None /\ Detached(n)[p].id = rules[p].id
<1>1. ASSUME NEW p \in Port, rules[p] # None
      PROVE  /\ [rules[p] EXCEPT !.refs = @ \ {n}] \in Rule
             /\ [rules[p] EXCEPT !.refs = @ \ {n}].id = rules[p].id
  BY <1>1 DEF TypeOK, Rule
<1> QED BY <1>1 DEF Detached

(* URLs of a deleted ruleset stay URLs.                                    *)
LEMMA DisabledType ==
  ASSUME TypeOK, NEW n \in Name PROVE Disabled(n) \in [Path -> {None} \cup SecretURL]
BY DEF TypeOK, Disabled, Active, SecretURL

(* The deletion of a name.                                                 *)
LEMMA TypeDelete ==
  ASSUME TypeOK, NEW w \in Worker, NEW n \in Name, DeleteRuleset(w, n)
  PROVE TypeOK'
<1>1. proc[w] \in DeleteCommand BY CommandKinds DEF DeleteRuleset, TypeOK
<1>2. [proc[w] EXCEPT !.todo = @ \ {n}] \in DeleteCommand BY <1>1 DEF DeleteCommand
<1>3. /\ proc' \in [Worker -> Command] /\ alone' \in {None} \cup Worker
      /\ commands' \in 0..MaxCommands /\ kills' \in 0..MaxKills
  BY <1>2, StepType DEF DeleteRuleset, Command
<1>4. urls' \in [Path -> {None} \cup SecretURL] BY DisabledType DEF DeleteRuleset, TypeOK
<1>5. /\ rules' \in [Port -> {None} \cup Rule]
      /\ \A p \in Port : rules'[p] # None => rules[p] # None /\ rules'[p].id = rules[p].id
  BY DetachedType DEF DeleteRuleset, TypeOK
<1>6. sets' \in [Name -> {None} \cup Channels] BY DEF DeleteRuleset, TypeOK
<1>7. dropped' \subseteq Name /\ raced' \subseteq Name /\ rows' \subseteq Name BY DEF DeleteRuleset, TypeOK
<1>8. UNCHANGED <<ddns, backup, ids>> BY DEF DeleteRuleset
<1> QED BY <1>3, <1>4, <1>5, <1>6, <1>7, <1>8 DEF TypeOK

(* Making sure of names leaves a table of rulesets.                        *)
LEMMA EnsuredType ==
  ASSUME TypeOK, NEW N PROVE Ensured(N) \in [Name -> {None} \cup Channels]
BY DEF TypeOK, Ensured, Channels

(* A rule that is put in has an id of its own: that of its port, or the    *)
(* next one.                                                               *)
LEMMA UpsertedType ==
  ASSUME TypeOK, NEW p \in Port, NEW refs \in SUBSET Name,
         rules' = Upserted(p, refs), ids' = Taken(p)
  PROVE  /\ ids' \in Nat
         /\ rules' \in [Port -> {None} \cup Rule]
         /\ \A q, r \in Port : rules'[q] # None /\ rules'[r] # None =>
              rules'[q].id \in 1..ids' /\ (rules'[q].id = rules'[r].id => q = r)
<1>1. ids' \in Nat /\ ids \in Nat /\ ids' >= ids BY DEF TypeOK, Taken
<1> DEFINE new == [id |-> IF rules[p] = None THEN ids + 1 ELSE rules[p].id, refs |-> refs]
<1>2. new \in Rule /\ new.id \in 1..ids' BY DEF TypeOK, Rule, Taken
<1>3. rules' = [rules EXCEPT ![p] = new] BY DEF Upserted
<1>4. rules' \in [Port -> {None} \cup Rule] BY <1>2, <1>3 DEF TypeOK
<1>5. \A q \in Port : rules'[q] = IF q = p THEN new ELSE rules[q] BY <1>3 DEF TypeOK
<1>6. ASSUME NEW q \in Port, q # p, rules[q] # None PROVE rules[q].id \in 1..ids' /\ rules[q].id # new.id
  BY <1>1, <1>6 DEF TypeOK, Taken
<1>7. new.id \in 1..ids' BY <1>2
<1> HIDE DEF new
<1>8. ASSUME NEW q \in Port, rules'[q] # None PROVE rules'[q].id \in 1..ids'
  <2>1. CASE q = p BY <1>5, <1>7, <2>1
  <2>2. CASE q # p BY <1>5, <1>6, <1>8, <2>2
  <2> QED BY <2>1, <2>2
<1>9. ASSUME NEW q \in Port, NEW r \in Port, rules'[q] # None, rules'[r] # None, rules'[q].id = rules'[r].id
      PROVE  q = r
  <2>1. CASE q = p BY <1>5, <1>6, <1>9, <2>1
  <2>2. CASE r = p BY <1>5, <1>6, <1>9, <2>2
  <2>3. CASE q # p /\ r # p BY <1>5, <1>9, <2>3 DEF TypeOK
  <2> QED BY <2>1, <2>2, <2>3
<1> QED BY <1>1, <1>4, <1>8, <1>9

(* A worker without a command.                                             *)
LEMMA IdleType == Idle \in Command
BY DEF Command

(* The last step of each command, and the steps of those without tables.   *)
LEMMA TypeEnds ==
  ASSUME TypeOK, NEW w \in Worker,
         EndDelete(w) \/ EndDdns(w) \/ EndEdit(w) \/ Kill(w)
  PROVE  TypeOK'
<1>1. CASE EndDelete(w)
  <2>1. proc[w] \in DeleteCommand BY <1>1, CommandKinds DEF EndDelete, TypeOK
  <2>2. ddns' \subseteq Name BY <1>1, <2>1 DEF EndDelete, Purged, TypeOK, DeleteCommand
  <2>3. Step(w, Idle) BY <1>1 DEF EndDelete
  <2> QED BY <1>1, <2>2, <2>3, IdleType, StepType DEF EndDelete, TypeOK
<1>2. CASE EndDdns(w)
  <2>1. proc[w] \in DdnsCommand BY <1>2, CommandKinds DEF EndDdns, TypeOK
  <2>2. ddns' \subseteq Name BY <1>2, <2>1 DEF EndDdns, TypeOK, DdnsCommand
  <2>3. Step(w, Idle) BY <1>2 DEF EndDdns
  <2> QED BY <1>2, <2>2, <2>3, IdleType, StepType DEF EndDdns, TypeOK
<1>3. CASE EndEdit(w)
  <2>1. proc[w] \in EditCommand BY <1>3, CommandKinds DEF EndEdit, TypeOK
  <2>2. Step(w, Idle) /\ UNCHANGED <<rows, urls, ddns, backup, ids, dropped, raced>> BY <1>3 DEF EndEdit
  <2> DEFINE p == proc[w].port
  <2>3. p \in Port BY <2>1 DEF EditCommand
  <2>4. CASE UNCHANGED <<sets, rules>> BY <2>2, <2>4, IdleType, StepType DEF TypeOK
  <2>5. CASE /\ rules[p] # None
             /\ sets' = Ensured(EditedRefs(proc[w]))
             /\ rules' = [rules EXCEPT ![p].refs = EditedRefs(proc[w])]
    <3>1. sets' \in [Name -> {None} \cup Channels] BY <2>5, EnsuredType
    <3>2. rules[p] \in Rule BY <2>3, <2>5 DEF TypeOK
    <3>3. EditedRefs(proc[w]) \in SUBSET Name BY <2>1, <3>2 DEF EditedRefs, EditCommand, Rule
    <3> DEFINE new == [rules[p] EXCEPT !.refs = EditedRefs(proc[w])]
    <3>4. new \in Rule /\ new.id = rules[p].id BY <3>2, <3>3 DEF Rule
    <3>5. rules' = [rules EXCEPT ![p] = new] BY <2>5
    <3> HIDE DEF new
    <3>6. rules' \in [Port -> {None} \cup Rule] BY <3>4, <3>5 DEF TypeOK
    <3>7. \A q \in Port : rules'[q] # None => rules[q] # None /\ rules'[q].id = rules[q].id
      BY <2>3, <2>5, <3>4, <3>5 DEF TypeOK
    <3> QED BY <2>2, <3>1, <3>6, <3>7, IdleType, StepType DEF TypeOK
  <2> QED BY <1>3, <2>4, <2>5 DEF EndEdit
<1>4. CASE Kill(w)
  <2>1. kills' \in 0..MaxKills BY <1>4, ConstantsAssumption DEF Kill, TypeOK
  <2> QED BY <1>4, <2>1, IdleType DEF Kill, TypeOK
<1> QED BY <1>1, <1>2, <1>3, <1>4

(* Commands of one transaction. *)
LEMMA TypeAtOnce ==
  ASSUME TypeOK,
         \/ \E n \in Name, c \in Channels : SetRuleset(n, c)
         \/ \E p \in Port, refs \in SUBSET Name : AddRule(p, refs)
         \/ \E p \in Port : DeleteRule(p)
         \/ \E u \in Path : DeleteUrl(u)
         \/ \E n \in Name : RemoveRows(n)
  PROVE  TypeOK'
<1> DEFINE Once == /\ commands' \in 0..MaxCommands /\ kills' = kills /\ proc' = proc
                   /\ raced' = raced /\ ddns' = ddns /\ backup' = backup /\ alone' = None
<1>0. ASSUME AtOnce PROVE Once BY <1>0, ConstantsAssumption DEF AtOnce, TypeOK
<1>1. ASSUME NEW n \in Name, NEW c \in Channels, SetRuleset(n, c) PROVE TypeOK'
  BY <1>0, <1>1 DEF SetRuleset, TypeOK
<1>2. ASSUME NEW p \in Port, NEW refs \in SUBSET Name, AddRule(p, refs) PROVE TypeOK'
  <2>1. sets' \in [Name -> {None} \cup Channels] BY <1>2, EnsuredType DEF AddRule
  <2>2. Once /\ dropped' \subseteq Name /\ UNCHANGED <<rows, urls>>
    BY <1>0, <1>2 DEF AddRule, TypeOK
  <2>3. rules' = Upserted(p, refs) /\ ids' = Taken(p) BY <1>2 DEF AddRule
  <2> QED BY <2>1, <2>2, <2>3, UpsertedType DEF TypeOK
<1>3. ASSUME NEW p \in Port, DeleteRule(p) PROVE TypeOK'
  BY <1>0, <1>3 DEF DeleteRule, TypeOK
<1>4. ASSUME NEW u \in Path, DeleteUrl(u) PROVE TypeOK'
  <2>1. urls[u] \in SecretURL BY <1>4 DEF DeleteUrl, TypeOK
  <2>2. [urls[u] EXCEPT !.active = FALSE] \in SecretURL BY <2>1 DEF SecretURL
  <2>3. urls' \in [Path -> {None} \cup SecretURL] BY <1>4, <2>2 DEF DeleteUrl, TypeOK
  <2> QED BY <1>0, <1>4, <2>3 DEF DeleteUrl, TypeOK
<1>5. ASSUME NEW n \in Name, RemoveRows(n) PROVE TypeOK'
  BY <1>0, <1>5 DEF RemoveRows, TypeOK
<1> QED BY <1>1, <1>2, <1>3, <1>4, <1>5

(* Ingest, sync, and the commands on Secret URLs and files. *)
LEMMA TypeIngest ==
  ASSUME TypeOK, NEW w \in Worker, NextRecord(w) \/ Ingest(w)
  PROVE  TypeOK'
<1> DEFINE c == proc[w]
<1>1. c \in Command BY DEF TypeOK
<1>2. CASE NextRecord(w)
  <2>1. c \in SyncCommand BY <1>1, <1>2, CommandKinds DEF NextRecord, SyncCommand, IngestCommand
  <2>2. ASSUME NEW n \in c.records
        PROVE  [c EXCEPT !.records = @ \ {n}, !.name = n,
                         !.at = IF HasRuleset(n) THEN "check" ELSE "next"] \in Command
    <3>1. CASE HasRuleset(n)
      <4>1. [c EXCEPT !.records = @ \ {n}, !.name = n, !.at = "check"] \in IngestCommand
        BY <2>1, <2>2 DEF SyncCommand, IngestCommand
      <4> QED BY <3>1, <4>1 DEF Command
    <3>2. CASE ~HasRuleset(n)
      <4>1. [c EXCEPT !.records = @ \ {n}, !.name = n, !.at = "next"] \in SyncCommand
        BY <2>1, <2>2 DEF SyncCommand
      <4> QED BY <3>2, <4>1 DEF Command
    <3> QED BY <3>1, <3>2
  <2>3. PICK d \in Command : Step(w, d) BY <1>2, <2>2, IdleType DEF NextRecord
  <2> QED BY <1>2, <2>3, StepType DEF NextRecord, TypeOK
<1>3. CASE Ingest(w)
  <2>1. c \in IngestCommand \/ (c \in SyncCommand /\ c.at = "next") BY <1>1, <1>3, CommandKinds DEF Ingest, SyncCommand
  <2>2. c \in IngestCommand BY <1>3, <2>1 DEF Ingest
  <2>3. Through(c) \in Command
    <3>1. CASE c.cmd = "sync"
      <4>1. [c EXCEPT !.at = "next"] \in SyncCommand BY <2>2, <3>1 DEF IngestCommand, SyncCommand
      <4> QED BY <3>1, <4>1 DEF Through, Command
    <3> QED BY <3>1, IdleType DEF Through
  <2>4. ASSUME NEW to \in {"ensure", "accepts", "insert"} PROVE [c EXCEPT !.at = to] \in Command
    <3>1. [c EXCEPT !.at = to] \in IngestCommand BY <2>2 DEF IngestCommand
    <3> QED BY <3>1 DEF Command
  <2>5. PICK d \in Command : Step(w, d) BY <1>3, <2>3, <2>4, IdleType DEF Ingest
  <2>6. sets' \in [Name -> {None} \cup Channels] BY <1>3, EnsuredType DEF Ingest, TypeOK
  <2>7. rows' \subseteq Name BY <1>3, <2>2 DEF Ingest, TypeOK, IngestCommand
  <2> QED BY <1>3, <2>5, <2>6, <2>7, StepType DEF Ingest, TypeOK
<1> QED BY <1>2, <1>3

(* The creation of a Secret URL.                                           *)
LEMMA TypeUrl ==
  ASSUME TypeOK, NEW w \in Worker, CreateUrl(w)
  PROVE  TypeOK'
<1> DEFINE c == proc[w]
<1>1. c \in UrlCommand BY CommandKinds DEF CreateUrl, TypeOK
<1>2. [c EXCEPT !.at = "insert"] \in UrlCommand BY <1>1 DEF UrlCommand
<1>3. PICK d \in Command : Step(w, d) BY <1>2, IdleType DEF CreateUrl, Command
<1>4. sets' \in [Name -> {None} \cup Channels] BY EnsuredType DEF CreateUrl, TypeOK
<1>5. c.path \in Path /\ [ruleset |-> c.name, active |-> TRUE] \in SecretURL BY <1>1 DEF UrlCommand, SecretURL
<1>6. urls' \in [Path -> {None} \cup SecretURL] BY <1>5 DEF CreateUrl, TypeOK
<1> QED BY <1>3, <1>4, <1>6, StepType DEF CreateUrl, TypeOK

(* The parts of a file come from the tables.                               *)
LEMMA TypeExport ==
  ASSUME TypeOK, NEW w \in Worker, Export(w)
  PROVE  TypeOK'
<1> DEFINE c == proc[w]
           refs == [p \in Port |-> IF rules[p] = None THEN None ELSE rules[p].refs]
<1>1. c \in ExportCommand BY CommandKinds DEF Export, TypeOK
<1>2. refs \in [Port -> {None} \cup SUBSET Name] BY DEF TypeOK, Rule
<1>3. c.file \in Payload BY <1>1 DEF ExportCommand
<1>4. /\ [c.file EXCEPT !.refs = refs] \in Payload
      /\ [c.file EXCEPT !.ddns = ddns] \in Payload
      /\ [c.file EXCEPT !.urls = urls] \in Payload
  BY <1>2, <1>3 DEF Payload, TypeOK
<1>5. ASSUME NEW f \in Payload, NEW to \in {"ddns", "urls"} PROVE [c EXCEPT !.at = to, !.file = f] \in Command
  <2>1. [c EXCEPT !.at = to, !.file = f] \in ExportCommand BY <1>1 DEF ExportCommand
  <2> QED BY <2>1 DEF Command
<1>6. PICK d \in Command : Step(w, d) BY <1>4, <1>5, IdleType DEF Export
<1>7. backup' \in Payload BY <1>4 DEF Export, TypeOK
<1> QED BY <1>6, <1>7, StepType DEF Export, TypeOK

(* The stages of an import.                                                *)
LEMMA TypeImport ==
  ASSUME TypeOK, NEW w \in Worker, Wipe(w) \/ ImportSets(w) \/ ImportRules(w) \/ ImportUrls(w)
  PROVE  TypeOK'
<1> DEFINE c == proc[w]
           All == Name \cup Port \cup Path
<1>1. c \in ImportCommand BY CommandKinds DEF Wipe, ImportSets, ImportRules, ImportUrls, TypeOK
<1>2. /\ c.file \in Payload /\ c.sure \in SUBSET Name /\ c.todo \in SUBSET All
      /\ c.todo \subseteq Listed(Part(c.at, c.file))
  BY <1>1 DEF ImportCommand
<1>3. ASSUME NEW n \in Name PROVE [c EXCEPT !.sure = @ \cup {n}] \in ImportCommand
  BY <1>1 DEF ImportCommand
<1>4. ASSUME NEW x PROVE [c EXCEPT !.todo = @ \ {x}] \in ImportCommand
  BY <1>1 DEF ImportCommand
<1>5. ASSUME NEW x, NEW N \in SUBSET Name PROVE [c EXCEPT !.todo = @ \ {x}, !.sure = N] \in ImportCommand
  BY <1>1 DEF ImportCommand
<1> DEFINE Commanded == Step(w, Idle) \/ \E d \in ImportCommand : Step(w, d)
<1>6. ASSUME Commanded, sets' \in [Name -> {None} \cup Channels],
             rules' \in [Port -> {None} \cup Rule],
             \A p, q \in Port : rules'[p] # None /\ rules'[q] # None =>
               rules'[p].id \in 1..ids' /\ (rules'[p].id = rules'[q].id => p = q),
             ids' \in Nat, urls' \in [Path -> {None} \cup SecretURL], ddns' \subseteq Name,
             raced' \subseteq Name, UNCHANGED <<rows, backup, dropped>>
      PROVE  TypeOK'
  <2>1. PICK d \in Command : Step(w, d) BY <1>6, IdleType DEF Command
  <2> QED BY <1>6, <2>1, StepType DEF TypeOK
<1> HIDE DEF Commanded
<1>7. ASSUME NEW n \in Name, MakeSure(w, n) PROVE Commanded /\ sets' \in [Name -> {None} \cup Channels]
  BY <1>3, <1>7, EnsuredType DEF MakeSure, Commanded
<1>8. CASE Wipe(w)
  <2>1. [c EXCEPT !.at = "sets"] \in ImportCommand BY <1>1, <1>8 DEF Wipe, ImportCommand, Part
  <2>2. Commanded BY <1>8, <2>1 DEF Wipe, Commanded
  <2>3. sets' \in [Name -> {None} \cup Channels] BY <1>8 DEF Wipe, WipedSets
  <2>4. rules' \in [Port -> {None} \cup Rule] /\ \A p \in Port : rules'[p] = None BY <1>8 DEF Wipe
  <2>5. urls' \in [Path -> {None} \cup SecretURL] BY <1>8 DEF Wipe
  <2>6. raced' \subseteq Name /\ ids' = ids /\ ddns' = ddns BY <1>8 DEF Wipe, Existing, TypeOK
  <2> QED BY <1>6, <1>8, <2>2, <2>3, <2>4, <2>5, <2>6 DEF Wipe, TypeOK
<1>9. CASE ImportSets(w)
  <2>1. CASE c.todo = {}
    <3>1. Listed(c.file.refs) \in SUBSET All BY <1>2 DEF Listed, Payload
    <3>2. [c EXCEPT !.at = "rules", !.todo = Listed(c.file.refs)] \in ImportCommand
      BY <1>1, <3>1 DEF ImportCommand, Part
    <3>3. Commanded BY <1>9, <2>1, <3>2 DEF ImportSets, Commanded
    <3> QED BY <1>6, <1>9, <2>1, <3>3 DEF ImportSets, TypeOK
  <2>2. CASE c.todo # {}
    <3>1. PICK n \in c.todo : sets' = [sets EXCEPT ![n] = c.file.sets[n]] /\ Step(w, [c EXCEPT !.todo = @ \ {n}])
      BY <1>9, <2>2 DEF ImportSets
    <3>2. Commanded BY <1>4, <3>1 DEF Commanded
    <3>3. sets' \in [Name -> {None} \cup Channels] BY <1>2, <3>1 DEF TypeOK, Payload
    <3> QED BY <1>6, <1>9, <3>2, <3>3 DEF ImportSets, TypeOK
  <2> QED BY <2>1, <2>2
<1>10. CASE ImportRules(w)
  <2>0. \A p \in c.todo : p \in Port /\ c.file.refs[p] \in SUBSET Name
    BY <1>2, <1>10 DEF ImportRules, Listed, Part, Payload
  <2>1. CASE /\ c.todo = {}
             /\ Step(w, [c EXCEPT !.at = "urls", !.todo = Listed(c.file.urls)])
             /\ UNCHANGED <<sets, rules, ids>>
    <3>1. Listed(c.file.urls) \in SUBSET All BY <1>2 DEF Listed, Payload
    <3>2. [c EXCEPT !.at = "urls", !.todo = Listed(c.file.urls)] \in ImportCommand
      BY <1>1, <3>1 DEF ImportCommand, Part
    <3>3. Commanded BY <2>1, <3>2 DEF Commanded
    <3> QED BY <1>6, <1>10, <2>1, <3>3 DEF ImportRules, TypeOK
  <2>2. ASSUME NEW p \in c.todo, NEW n \in Unsure(c, c.file.refs[p]), MakeSure(w, n),
               UNCHANGED <<rules, ids>>
        PROVE  TypeOK'
    <3>1. n \in Name BY <2>0, <2>2 DEF Unsure
    <3> QED BY <1>6, <1>7, <1>10, <2>2, <3>1 DEF ImportRules, TypeOK
  <2>3. ASSUME NEW p \in c.todo, rules' = Upserted(p, c.file.refs[p]), ids' = Taken(p),
               Step(w, [c EXCEPT !.todo = @ \ {p}, !.sure = {}]), UNCHANGED sets
        PROVE  TypeOK'
    <3>1. Commanded BY <1>5, <2>3 DEF Commanded
    <3>2. /\ rules' \in [Port -> {None} \cup Rule] /\ ids' \in Nat
          /\ \A q, r \in Port : rules'[q] # None /\ rules'[r] # None =>
               rules'[q].id \in 1..ids' /\ (rules'[q].id = rules'[r].id => q = r)
      BY <2>0, <2>3, UpsertedType
    <3> QED BY <1>6, <1>10, <2>3, <3>1, <3>2 DEF ImportRules, TypeOK
  <2> QED BY <1>10, <2>1, <2>2, <2>3 DEF ImportRules
<1>11. CASE ImportUrls(w)
  <2>0. \A u \in c.todo : u \in Path /\ c.file.urls[u] \in SecretURL
    BY <1>2, <1>11 DEF ImportUrls, Listed, Part, Payload
  <2>1. CASE c.todo = {} /\ ddns' = c.file.ddns /\ Step(w, Idle) /\ UNCHANGED <<sets, urls>>
    <3>1. ddns' \subseteq Name /\ Commanded BY <1>2, <2>1 DEF Payload, Commanded
    <3> QED BY <1>6, <1>11, <2>1, <3>1 DEF ImportUrls, TypeOK
  <2>2. ASSUME NEW u \in c.todo, MakeSure(w, c.file.urls[u].ruleset), UNCHANGED <<urls, ddns>>
        PROVE  TypeOK'
    <3>1. c.file.urls[u].ruleset \in Name BY <2>0 DEF SecretURL
    <3> QED BY <1>6, <1>7, <1>11, <2>2, <3>1 DEF ImportUrls, TypeOK
  <2>3. ASSUME NEW u \in c.todo, NEW N \in Following(c, u), urls' = [urls EXCEPT ![u] = c.file.urls[u]],
               sets' = Ensured(N), Step(w, [c EXCEPT !.todo = @ \ {u}, !.sure = N]), UNCHANGED ddns
        PROVE  TypeOK'
    <3>0. N \in SUBSET Name BY <2>0 DEF Following, SecretURL
    <3>1. Commanded BY <1>5, <2>3, <3>0 DEF Commanded
    <3>2. urls' \in [Path -> {None} \cup SecretURL] BY <2>0, <2>3 DEF TypeOK
    <3>3. sets' \in [Name -> {None} \cup Channels] BY <2>3, EnsuredType
    <3> QED BY <1>6, <1>11, <2>3, <3>1, <3>2, <3>3 DEF ImportUrls, TypeOK
  <2> QED BY <1>11, <2>1, <2>2, <2>3 DEF ImportUrls
<1> QED BY <1>8, <1>9, <1>10, <1>11

(* The first step of a command. *)
LEMMA TypeBegins ==
  ASSUME TypeOK, NEW w \in Worker,
         \/ \E N \in (SUBSET Name) \ {{}} : BeginDelete(w, N)
         \/ \E n \in Name, cmd \in {"ddns add", "ddns delete"} : BeginDdns(w, n, cmd)
         \/ \E p \in Port, refs \in {None} \cup SUBSET Name : BeginEdit(w, p, refs)
         \/ \E n \in Name : BeginAllow(w, n)
         \/ BeginSync(w)
         \/ \E u \in Path, n \in Name : BeginUrl(w, u, n)
         \/ BeginExport(w)
         \/ \E replace \in BOOLEAN : BeginImport(w, replace)
  PROVE  \E c \in Command : Begin(w, c)
<1>1. ASSUME NEW N \in SUBSET Name, BeginDelete(w, N) PROVE \E c \in Command : Begin(w, c)
  <2>1. [cmd |-> "delete", names |-> N, todo |-> N, records |-> ddns] \in DeleteCommand
    BY DEF DeleteCommand, TypeOK
  <2> QED BY <1>1, <2>1 DEF BeginDelete, Command
<1>2. ASSUME NEW n \in Name, NEW cmd \in {"ddns add", "ddns delete"}, BeginDdns(w, n, cmd)
      PROVE  \E c \in Command : Begin(w, c)
  <2>1. [cmd |-> cmd, name |-> n, records |-> ddns] \in DdnsCommand BY DEF DdnsCommand, TypeOK
  <2> QED BY <1>2, <2>1 DEF BeginDdns, Command
<1>3. ASSUME NEW p \in Port, NEW refs \in {None} \cup SUBSET Name, BeginEdit(w, p, refs)
      PROVE  \E c \in Command : Begin(w, c)
  <2>1. rules[p] \in Rule BY <1>3 DEF BeginEdit, TypeOK
  <2>2. [cmd |-> "edit", port |-> p, refs |-> refs, original |-> rules[p]] \in EditCommand
    BY <2>1 DEF EditCommand
  <2> QED BY <1>3, <2>2 DEF BeginEdit, Command
<1>4. ASSUME NEW n \in Name, BeginAllow(w, n) PROVE \E c \in Command : Begin(w, c)
  <2>1. [cmd |-> "allow", at |-> "check", name |-> n, records |-> {}] \in IngestCommand BY DEF IngestCommand
  <2> QED BY <1>4, <2>1 DEF BeginAllow, Command
<1>5. ASSUME BeginSync(w) PROVE \E c \in Command : Begin(w, c)
  <2>1. [cmd |-> "sync", at |-> "next", name |-> None, records |-> ddns] \in SyncCommand
    BY DEF SyncCommand, TypeOK
  <2> QED BY <1>5, <2>1 DEF BeginSync, Command
<1>6. ASSUME NEW u \in Path, NEW n \in Name, BeginUrl(w, u, n) PROVE \E c \in Command : Begin(w, c)
  <2>1. [cmd |-> "url", at |-> "ensure", path |-> u, name |-> n] \in UrlCommand BY DEF UrlCommand
  <2> QED BY <1>6, <2>1 DEF BeginUrl, Command
<1>7. ASSUME BeginExport(w) PROVE \E c \in Command : Begin(w, c)
  <2>1. [backup EXCEPT !.sets = sets] \in Payload BY DEF TypeOK, Payload
  <2>2. [cmd |-> "export", at |-> "rules", file |-> [backup EXCEPT !.sets = sets]] \in ExportCommand
    BY <2>1 DEF ExportCommand
  <2> QED BY <1>7, <2>2 DEF BeginExport, Command
<1>8. ASSUME NEW replace \in BOOLEAN, BeginImport(w, replace) PROVE \E c \in Command : Begin(w, c)
  <2> DEFINE at == IF replace THEN "wipe" ELSE "sets"
  <2>1. Part(at, backup) = backup.sets BY DEF Part
  <2>2. Listed(backup.sets) \subseteq Name BY DEF TypeOK, Payload, Listed
  <2>3. [cmd |-> "import", at |-> at, replace |-> replace,
         file |-> backup, sure |-> {}, todo |-> Listed(backup.sets)] \in ImportCommand
    BY <2>1, <2>2 DEF ImportCommand, TypeOK
  <2> QED BY <1>8, <2>3 DEF BeginImport, Command
<1> QED BY <1>1, <1>2, <1>3, <1>4, <1>5, <1>6, <1>7, <1>8

(* The states to begin with. *)
LEMMA TypeInit == Init => TypeOK
<1> SUFFICES ASSUME Init PROVE TypeOK OBVIOUS
<1>1. PICK s \in Start :
        /\ sets = s.sets /\ rows = s.rows /\ urls = s.urls /\ ddns = s.ddns
        /\ rules = [p \in Port |-> IF s.refs[p] = None THEN None ELSE [id |-> p, refs |-> s.refs[p]]]
  BY DEF Init
<1>2. OfPayload(s) \in Payload /\ s.rows \subseteq Name BY ConstantsAssumption
<1>3. /\ s.sets \in [Name -> Channels \cup {None}] /\ s.refs \in [Port -> {None} \cup SUBSET Name]
      /\ s.urls \in [Path -> {None} \cup SecretURL] /\ s.ddns \subseteq Name
  BY <1>2 DEF OfPayload, Payload
<1>4. ids \in Nat /\ Port = 1..ids BY ConstantsAssumption DEF Init
<1>5. ASSUME NEW p \in Port, s.refs[p] # None PROVE [id |-> p, refs |-> s.refs[p]] \in Rule
  BY <1>3, <1>4, <1>5 DEF Rule
<1>6. rules \in [Port -> {None} \cup Rule] BY <1>1, <1>5
<1>7. \A p \in Port : rules[p] # None => rules[p].id = p BY <1>1
<1>8. \A p, q \in Port : rules[p] # None /\ rules[q] # None =>
        rules[p].id \in 1..ids /\ (rules[p].id = rules[q].id => p = q)
  BY <1>4, <1>7
<1>9. proc \in [Worker -> Command] BY IdleType DEF Init
<1> QED BY <1>1, <1>2, <1>3, <1>4, <1>6, <1>8, <1>9, ConstantsAssumption DEF Init, TypeOK

(* Every step keeps the types. *)
LEMMA TypeStep == TypeOK /\ [Next]_vars => TypeOK'
<1> SUFFICES ASSUME TypeOK, [Next]_vars PROVE TypeOK' OBVIOUS
<1>1. CASE UNCHANGED vars BY <1>1 DEF vars, TypeOK
<1>2. CASE \/ \E n \in Name, c \in Channels : SetRuleset(n, c)
           \/ \E p \in Port, refs \in SUBSET Name : AddRule(p, refs)
           \/ \E p \in Port : DeleteRule(p)
           \/ \E u \in Path : DeleteUrl(u)
           \/ \E n \in Name : RemoveRows(n)
  BY <1>2, TypeAtOnce
<1>3. ASSUME NEW w \in Worker, NEW c \in Command, Begin(w, c) PROVE TypeOK' BY <1>3, BeginType
<1>4. ASSUME NEW w \in Worker, NEW n \in Name, DeleteRuleset(w, n) PROVE TypeOK' BY <1>4, TypeDelete
<1>5. ASSUME NEW w \in Worker, EndDelete(w) \/ EndDdns(w) \/ EndEdit(w) \/ Kill(w) PROVE TypeOK'
  BY <1>5, TypeEnds
<1>6. ASSUME NEW w \in Worker, NextRecord(w) \/ Ingest(w) PROVE TypeOK' BY <1>6, TypeIngest
<1>7. ASSUME NEW w \in Worker, CreateUrl(w) \/ Export(w) PROVE TypeOK' BY <1>7, TypeUrl, TypeExport
<1>8. ASSUME NEW w \in Worker, Wipe(w) \/ ImportSets(w) \/ ImportRules(w) \/ ImportUrls(w) PROVE TypeOK'
  BY <1>8, TypeImport
<1> QED BY <1>1, <1>2, <1>3, <1>4, <1>5, <1>6, <1>7, <1>8, TypeBegins DEF Next

(* In every behaviour of the commands each variable keeps its type, no two *)
(* rules have the same id, and no id above the last one given out is used: *)
(* upserts, edits, detachment and imports included.                        *)
THEOREM TypeCorrect == Spec => []TypeOK
<1> QED BY TypeInit, TypeStep, PTL DEF Spec
-----------------------------------------------------------------------------
(* RefsExist is not inductive: an import and secret-url create make sure   *)
(* of a name in one commit and refer to it in a later one. What they rely  *)
(* on in between has to exist, or to have been deleted since.              *)
Sure == Existing \cup raced

RulesSure == \A p \in Port : rules[p] # None => rules[p].refs \subseteq Sure
UrlsSure == \A u \in Path : urls[u] # None /\ urls[u].active => urls[u].ruleset \in Sure
BetweenSure == \A w \in Worker : Between(proc[w]) \subseteq Sure
StartsUnsure ==
  \A w \in Worker : proc[w].cmd = "import" /\ proc[w].at \in {"wipe", "sets"} => proc[w].sure = {}

RefInv == RulesSure /\ UrlsSure /\ BetweenSure /\ StartsUnsure

(* A table of rulesets with more names made sure of has those names.       *)
LEMMA EnsuredExist ==
  ASSUME TypeOK, NEW N, sets' = Ensured(N)
  PROVE  Existing' = Existing \cup (N \cap Name)
BY ConstantsAssumption DEF Existing, Ensured, TypeOK, Channels

(* What a step refers to anew has to be sure; the rest follows if nothing  *)
(* that was sure is lost.                                                  *)
LEMMA RefFrame ==
  ASSUME RefInv, Sure \subseteq Sure',
         \A p \in Port : rules'[p] = rules[p] \/ rules'[p] = None \/ rules'[p].refs \subseteq Sure',
         \A u \in Path : \/ urls'[u] = urls[u] \/ urls'[u] = None
                         \/ ~urls'[u].active \/ urls'[u].ruleset \in Sure',
         \A w \in Worker :
           \/ proc'[w] = proc[w]
           \/ /\ Between(proc'[w]) \subseteq Sure'
              /\ proc'[w].cmd = "import" /\ proc'[w].at \in {"wipe", "sets"} => proc'[w].sure = {}
  PROVE  RefInv'
<1>1. RulesSure' BY DEF RefInv, RulesSure
<1>2. UrlsSure' BY DEF RefInv, UrlsSure
<1>3. BetweenSure' BY DEF RefInv, BetweenSure
<1>4. StartsUnsure' BY DEF RefInv, StartsUnsure
<1> QED BY <1>1, <1>2, <1>3, <1>4 DEF RefInv

(* Only worker w goes on, to command c. *)
LEMMA StepProc ==
  ASSUME TypeOK, NEW w \in Worker, NEW c, Step(w, c) \/ Begin(w, c)
  PROVE  \A v \in Worker : proc'[v] = IF v = w THEN c ELSE proc[v]
BY DEF TypeOK, Step, Begin

(* The names a command relies on, by its kind.                             *)
LEMMA BetweenKinds ==
  ASSUME NEW c
  PROVE  /\ c.cmd \notin {"import", "url"} => Between(c) = {}
         /\ c.cmd = "url" /\ c.at # "insert" => Between(c) = {}
         /\ c.cmd = "url" => Between(c) \subseteq {c.name}
         /\ c.cmd = "import" => Between(c) = c.sure \cap Name
BY DEF Between

(* Commands of one transaction. *)
LEMMA RefAtOnce ==
  ASSUME TypeOK, RefInv,
         \/ \E n \in Name, c \in Channels : SetRuleset(n, c)
         \/ \E p \in Port, refs \in SUBSET Name : AddRule(p, refs)
         \/ \E p \in Port : DeleteRule(p)
         \/ \E u \in Path : DeleteUrl(u)
         \/ \E n \in Name : RemoveRows(n)
  PROVE  RefInv'
<1>1. ASSUME NEW n \in Name, NEW c \in Channels, SetRuleset(n, c) PROVE RefInv'
  <2>1. Sure \subseteq Sure'
    BY <1>1, ConstantsAssumption DEF SetRuleset, AtOnce, Sure, Existing, TypeOK
  <2> QED BY <1>1, <2>1, RefFrame DEF SetRuleset, AtOnce
<1>2. ASSUME NEW p \in Port, NEW refs \in SUBSET Name, AddRule(p, refs) PROVE RefInv'
  <2>1. Existing' = Existing \cup refs BY <1>2, EnsuredExist DEF AddRule
  <2>2. Sure \subseteq Sure' /\ refs \subseteq Sure' BY <1>2, <2>1 DEF AddRule, AtOnce, Sure
  <2>3. \A q \in Port : rules'[q] = rules[q] \/ rules'[q].refs = refs BY <1>2 DEF AddRule, Upserted, TypeOK
  <2> QED BY <1>2, <2>2, <2>3, RefFrame DEF AddRule, AtOnce
<1>3. ASSUME NEW p \in Port, DeleteRule(p) PROVE RefInv'
  <2>1. Sure' = Sure BY <1>3 DEF DeleteRule, AtOnce, Sure, Existing
  <2>2. \A q \in Port : rules'[q] = rules[q] \/ rules'[q] = None BY <1>3 DEF DeleteRule, TypeOK
  <2> QED BY <1>3, <2>1, <2>2, RefFrame DEF DeleteRule, AtOnce
<1>4. ASSUME NEW u \in Path, DeleteUrl(u) PROVE RefInv'
  <2>1. Sure' = Sure BY <1>4 DEF DeleteUrl, AtOnce, Sure, Existing
  <2>2. urls[u] \in SecretURL BY <1>4 DEF DeleteUrl, TypeOK
  <2>3. \A v \in Path : urls'[v] = urls[v] \/ ~urls'[v].active
    BY <1>4, <2>2 DEF DeleteUrl, TypeOK, SecretURL
  <2> QED BY <1>4, <2>1, <2>3, RefFrame DEF DeleteUrl, AtOnce
<1>5. ASSUME NEW n \in Name, RemoveRows(n) PROVE RefInv'
  <2>1. Sure' = Sure BY <1>5 DEF RemoveRows, AtOnce, Sure, Existing
  <2> QED BY <1>5, <2>1, RefFrame DEF RemoveRows, AtOnce
<1> QED BY <1>1, <1>2, <1>3, <1>4, <1>5

(* A command begins without relying on any name. *)
LEMMA RefBegins ==
  ASSUME TypeOK, RefInv, NEW w \in Worker,
         \/ \E N \in (SUBSET Name) \ {{}} : BeginDelete(w, N)
         \/ \E n \in Name, cmd \in {"ddns add", "ddns delete"} : BeginDdns(w, n, cmd)
         \/ \E p \in Port, refs \in {None} \cup SUBSET Name : BeginEdit(w, p, refs)
         \/ \E n \in Name : BeginAllow(w, n)
         \/ BeginSync(w)
         \/ \E u \in Path, n \in Name : BeginUrl(w, u, n)
         \/ BeginExport(w)
         \/ \E replace \in BOOLEAN : BeginImport(w, replace)
  PROVE  RefInv'
<1>1. ASSUME NEW c, Begin(w, c), Between(c) = {}, c.cmd = "import" => c.sure = {} PROVE RefInv'
  <2>1. Sure' = Sure BY <1>1 DEF Begin, Sure, Existing
  <2>2. \A v \in Worker : proc'[v] = IF v = w THEN c ELSE proc[v] BY <1>1, StepProc
  <2> QED BY <1>1, <2>1, <2>2, RefFrame DEF Begin
<1>2. ASSUME NEW N, BeginDelete(w, N) PROVE RefInv' BY <1>1, <1>2, BetweenKinds DEF BeginDelete
<1>3. ASSUME NEW n, NEW cmd \in {"ddns add", "ddns delete"}, BeginDdns(w, n, cmd) PROVE RefInv'
  BY <1>1, <1>3, BetweenKinds DEF BeginDdns
<1>4. ASSUME NEW p, NEW refs, BeginEdit(w, p, refs) PROVE RefInv' BY <1>1, <1>4, BetweenKinds DEF BeginEdit
<1>5. ASSUME NEW n, BeginAllow(w, n) PROVE RefInv' BY <1>1, <1>5, BetweenKinds DEF BeginAllow
<1>6. ASSUME BeginSync(w) PROVE RefInv' BY <1>1, <1>6, BetweenKinds DEF BeginSync
<1>7. ASSUME NEW u, NEW n, BeginUrl(w, u, n) PROVE RefInv' BY <1>1, <1>7, BetweenKinds DEF BeginUrl
<1>8. ASSUME BeginExport(w) PROVE RefInv' BY <1>1, <1>8, BetweenKinds DEF BeginExport
<1>9. ASSUME NEW replace, BeginImport(w, replace) PROVE RefInv' BY <1>1, <1>9, BetweenKinds DEF BeginImport
<1> QED BY <1>2, <1>3, <1>4, <1>5, <1>6, <1>7, <1>8, <1>9

(* A deletion takes its name from the rules and the active URLs; commands  *)
(* that rely on it are noted.                                              *)
LEMMA RefDelete ==
  ASSUME TypeOK, RefInv, NEW w \in Worker, NEW n \in Name, DeleteRuleset(w, n)
  PROVE  RefInv'
<1> DEFINE d == [proc[w] EXCEPT !.todo = @ \ {n}]
<1>1. proc[w] \in DeleteCommand BY CommandKinds DEF DeleteRuleset, TypeOK
<1>2. d.cmd = "delete" /\ Between(d) = {} BY <1>1, BetweenKinds DEF DeleteCommand
<1>3. Step(w, d) BY DEF DeleteRuleset
<1>4. \A v \in Worker : proc'[v] = IF v = w THEN d ELSE proc[v] BY <1>3, StepProc
<1> HIDE DEF d
<1>5. CASE UNCHANGED <<sets, rules, rows, urls, dropped, raced>>
  <2>1. Sure' = Sure BY <1>5 DEF Sure, Existing
  <2> QED BY <1>2, <1>4, <1>5, <2>1, RefFrame
<1>6. CASE /\ sets' = [sets EXCEPT ![n] = None]
           /\ rules' = Detached(n) /\ urls' = Disabled(n)
           /\ raced' = IF \E v \in Others(w) : n \in Between(proc[v]) THEN raced \cup {n} ELSE raced
  <2>1. Sure \ {n} \subseteq Sure' BY <1>6 DEF Sure, Existing, TypeOK
  <2>2. \A v \in Worker : n \in Between(proc'[v]) => n \in Sure'
    BY <1>2, <1>4, <1>6 DEF Others, Sure
  <2>3. RulesSure'
    <3> SUFFICES ASSUME NEW p \in Port, rules'[p] # None PROVE rules'[p].refs \subseteq Sure'
      BY DEF RulesSure
    <3>1. rules[p] # None /\ rules'[p] = [rules[p] EXCEPT !.refs = @ \ {n}] BY <1>6 DEF Detached
    <3>2. rules[p] \in Rule BY <3>1 DEF TypeOK
    <3>3. rules'[p].refs = rules[p].refs \ {n} BY <3>1, <3>2 DEF Rule
    <3> QED BY <2>1, <3>1, <3>3 DEF RefInv, RulesSure
  <2>4. UrlsSure'
    <3> SUFFICES ASSUME NEW u \in Path, urls'[u] # None, urls'[u].active PROVE urls'[u].ruleset \in Sure'
      BY DEF UrlsSure
    <3>1. u \notin Active(n)
      <4>1. SUFFICES ASSUME u \in Active(n) PROVE FALSE OBVIOUS
      <4>2. urls[u] \in SecretURL BY <4>1 DEF Active, TypeOK
      <4>3. urls'[u] = [urls[u] EXCEPT !.active = FALSE] BY <1>6, <4>1 DEF Disabled
      <4> QED BY <4>2, <4>3 DEF SecretURL
    <3>2. urls'[u] = urls[u] BY <1>6, <3>1 DEF Disabled
    <3> QED BY <2>1, <3>1, <3>2 DEF RefInv, UrlsSure, Active
  <2>5. BetweenSure' BY <1>2, <1>4, <2>1, <2>2 DEF RefInv, BetweenSure
  <2>6. StartsUnsure' BY <1>2, <1>4 DEF RefInv, StartsUnsure
  <2> QED BY <2>3, <2>4, <2>5, <2>6 DEF RefInv
<1> QED BY <1>5, <1>6 DEF DeleteRuleset

(* Ends of commands, ingests and exports: the references of an edit are    *)
(* made sure of in the transaction that writes them.                       *)
LEMMA RefSteps ==
  ASSUME TypeOK, RefInv, NEW w \in Worker,
         \/ EndDelete(w) \/ EndDdns(w) \/ EndEdit(w) \/ Kill(w)
         \/ NextRecord(w) \/ Ingest(w) \/ Export(w)
  PROVE  RefInv'
<1> DEFINE c == proc[w]
<1>1. ASSUME NEW d, Step(w, d), d.cmd \notin {"import", "url"}, Sure \subseteq Sure', rules' = rules, urls' = urls
      PROVE  RefInv'
  <2>1. \A v \in Worker : proc'[v] = IF v = w THEN d ELSE proc[v] BY <1>1, StepProc
  <2> QED BY <1>1, <2>1, BetweenKinds, RefFrame
<1>2. Idle.cmd = "idle" BY DEF Idle
<1>3. CASE EndDelete(w) \/ EndDdns(w)
  <2>1. Sure' = Sure BY <1>3 DEF EndDelete, EndDdns, Sure, Existing
  <2> QED BY <1>1, <1>2, <1>3, <2>1 DEF EndDelete, EndDdns
<1>4. CASE EndEdit(w)
  <2>1. CASE UNCHANGED <<sets, rules>>
    <3>1. Sure' = Sure BY <1>4, <2>1 DEF EndEdit, Sure, Existing
    <3> QED BY <1>1, <1>2, <1>4, <2>1, <3>1 DEF EndEdit
  <2>2. CASE /\ rules[c.port] # None
             /\ sets' = Ensured(EditedRefs(c))
             /\ rules' = [rules EXCEPT ![c.port].refs = EditedRefs(c)]
    <3>1. c \in EditCommand BY <1>4, CommandKinds DEF EndEdit, TypeOK
    <3>2. c.port \in Port /\ rules[c.port] \in Rule BY <2>2, <3>1 DEF EditCommand, TypeOK
    <3>3. EditedRefs(c) \subseteq Name BY <3>1, <3>2 DEF EditCommand, EditedRefs, Rule
    <3>4. Sure \subseteq Sure' /\ EditedRefs(c) \subseteq Sure'
      BY <1>4, <2>2, <3>3, EnsuredExist DEF EndEdit, Sure
    <3>5. \A q \in Port : rules'[q] = rules[q] \/ rules'[q].refs = EditedRefs(c)
      BY <2>2, <3>2 DEF TypeOK, Rule
    <3>6. \A v \in Worker : proc'[v] = IF v = w THEN Idle ELSE proc[v] BY <1>4, StepProc DEF EndEdit
    <3> QED BY <1>2, <1>4, <3>4, <3>5, <3>6, BetweenKinds, RefFrame DEF EndEdit
  <2> QED BY <1>4, <2>1, <2>2 DEF EndEdit
<1>5. CASE Kill(w)
  <2>1. Sure' = Sure BY <1>5 DEF Kill, Sure, Existing
  <2>2. \A v \in Worker : proc'[v] = IF v = w THEN Idle ELSE proc[v] BY <1>5 DEF Kill, TypeOK
  <2> QED BY <1>2, <1>5, <2>1, <2>2, BetweenKinds, RefFrame DEF Kill
<1>6. CASE NextRecord(w)
  <2>0. c \in Command BY DEF TypeOK
  <2>1. c \in SyncCommand BY <1>6, <2>0, CommandKinds DEF NextRecord, SyncCommand, IngestCommand
  <2>4. \A n, to : [c EXCEPT !.records = @ \ {n}, !.name = n, !.at = to].cmd = "sync" BY <2>1 DEF SyncCommand
  <2>2. PICK d : Step(w, d) /\ d.cmd \in {"idle", "sync"} BY <1>2, <1>6, <2>4 DEF NextRecord
  <2>3. Sure' = Sure BY <1>6 DEF NextRecord, Sure, Existing
  <2> QED BY <1>1, <1>6, <2>2, <2>3 DEF NextRecord
<1>7. CASE Ingest(w)
  <2>0. c \in Command BY DEF TypeOK
  <2>1. c \in IngestCommand BY <1>7, <2>0, CommandKinds DEF Ingest, SyncCommand, IngestCommand
  <2>2. Through(c).cmd \in {"idle", "sync"} BY <1>2, <2>1 DEF Through, IngestCommand
  <2>3. \A to : [c EXCEPT !.at = to].cmd = c.cmd BY <2>1 DEF IngestCommand
  <2>4. PICK d : Step(w, d) /\ d.cmd \in {"idle", "allow", "sync"} BY <1>2, <1>7, <2>2, <2>3 DEF Ingest
  <2>5. Sure \subseteq Sure' BY <1>7, EnsuredExist DEF Ingest, Sure, Existing
  <2> QED BY <1>1, <1>7, <2>4, <2>5 DEF Ingest
<1>8. CASE Export(w)
  <2>1. c \in ExportCommand BY <1>8, CommandKinds DEF Export, TypeOK
  <2>2. \A to, f : [c EXCEPT !.at = to, !.file = f].cmd = "export" BY <2>1 DEF ExportCommand
  <2>3. PICK d : Step(w, d) /\ d.cmd \in {"idle", "export"} BY <1>2, <1>8, <2>2 DEF Export
  <2>4. Sure' = Sure BY <1>8 DEF Export, Sure, Existing
  <2> QED BY <1>1, <1>8, <2>3, <2>4 DEF Export
<1> QED BY <1>3, <1>4, <1>5, <1>6, <1>7, <1>8

(* What secret-url create refers to, it has made sure of before.           *)
LEMMA RefUrl ==
  ASSUME TypeOK, RefInv, NEW w \in Worker, CreateUrl(w)
  PROVE  RefInv'
<1> DEFINE c == proc[w]
<1>1. c \in UrlCommand BY CommandKinds DEF CreateUrl, TypeOK
<1>2. CASE c.at = "ensure" /\ sets' = Ensured({c.name}) /\ Step(w, [c EXCEPT !.at = "insert"]) /\ UNCHANGED urls
  <2> DEFINE d == [c EXCEPT !.at = "insert"]
  <2>1. d.cmd = "url" /\ d.name = c.name /\ c.name \in Name BY <1>1 DEF UrlCommand
  <2>2. \A v \in Worker : proc'[v] = IF v = w THEN d ELSE proc[v] BY <1>2, StepProc
  <2> HIDE DEF d
  <2>3. Sure \subseteq Sure' /\ c.name \in Sure' BY <1>2, <2>1, EnsuredExist DEF CreateUrl, Sure
  <2>4. Between(d) \subseteq Sure' BY <2>1, <2>3, BetweenKinds
  <2> QED BY <1>2, <2>1, <2>2, <2>3, <2>4, RefFrame DEF CreateUrl
<1>3. CASE /\ c.at = "insert"
           /\ urls' = IF urls[c.path] # None THEN urls
                      ELSE [urls EXCEPT ![c.path] = [ruleset |-> c.name, active |-> TRUE]]
           /\ Step(w, Idle)
           /\ UNCHANGED sets
  <2>1. c.name \in Between(c) BY <1>1, <1>3 DEF Between, UrlCommand
  <2>2. Sure' = Sure BY <1>3 DEF CreateUrl, Sure, Existing
  <2>3. c.name \in Sure' BY <2>1, <2>2 DEF RefInv, BetweenSure
  <2>4. \A u \in Path : urls'[u] = urls[u] \/ urls'[u].ruleset \in Sure' BY <1>3, <2>3 DEF TypeOK
  <2>5. \A v \in Worker : proc'[v] = IF v = w THEN Idle ELSE proc[v] BY <1>3, StepProc
  <2>6. Idle.cmd = "idle" BY DEF Idle
  <2> QED BY <2>2, <2>4, <2>5, <2>6, BetweenKinds, RefFrame DEF CreateUrl
<1> QED BY <1>2, <1>3 DEF CreateUrl

(* So does an import, row by row; --replace drops the references with the  *)
(* rulesets.                                                               *)
LEMMA RefImport ==
  ASSUME TypeOK, RefInv, NEW w \in Worker, Wipe(w) \/ ImportSets(w) \/ ImportRules(w) \/ ImportUrls(w)
  PROVE  RefInv'
<1> DEFINE c == proc[w]
<1>0. c \in ImportCommand BY CommandKinds DEF Wipe, ImportSets, ImportRules, ImportUrls, TypeOK
<1>1. /\ c \in ImportCommand /\ c.file \in Payload /\ c.sure \subseteq Name
      /\ c.todo \subseteq Listed(Part(c.at, c.file))
  BY <1>0 DEF ImportCommand
<1>2. c.sure \subseteq Sure BY <1>1, BetweenKinds DEF RefInv, BetweenSure, Wipe, ImportSets, ImportRules, ImportUrls
<1>3. Idle.cmd = "idle" /\ Between(Idle) = {} BY BetweenKinds DEF Idle
<1>4. ASSUME NEW d, Step(w, d), Between(d) \subseteq Sure', Sure \subseteq Sure',
             d.cmd = "import" /\ d.at \in {"wipe", "sets"} => d.sure = {},
             \A p \in Port : rules'[p] = rules[p] \/ rules'[p].refs \subseteq Sure',
             \A u \in Path : urls'[u] = urls[u] \/ ~urls'[u].active \/ urls'[u].ruleset \in Sure'
      PROVE  RefInv'
  <2>1. \A v \in Worker : proc'[v] = IF v = w THEN d ELSE proc[v] BY <1>4, StepProc
  <2> QED BY <1>4, <2>1, RefFrame
<1>5. ASSUME NEW n \in Name, MakeSure(w, n), raced' = raced, rules' = rules, urls' = urls,
             c.at \in {"rules", "urls"}
      PROVE  RefInv'
  <2> DEFINE d == [c EXCEPT !.sure = @ \cup {n}]
  <2>1. d.cmd = "import" /\ d.sure = c.sure \cup {n} /\ d.at = c.at BY <1>1 DEF ImportCommand
  <2>2. Step(w, d) BY <1>5 DEF MakeSure
  <2> HIDE DEF d
  <2>3. Sure \subseteq Sure' /\ n \in Sure' BY <1>5, EnsuredExist DEF MakeSure, Sure
  <2>4. Between(d) \subseteq Sure' BY <1>2, <2>1, <2>3, BetweenKinds
  <2> QED BY <1>4, <1>5, <2>1, <2>2, <2>3, <2>4
<1>6. \A x, N : /\ [c EXCEPT !.todo = @ \ {x}, !.sure = N].cmd = "import"
                /\ [c EXCEPT !.todo = @ \ {x}, !.sure = N].at = c.at
                /\ [c EXCEPT !.todo = @ \ {x}, !.sure = N].sure = N
  BY <1>1 DEF ImportCommand
<1>7. CASE Wipe(w)
  <2> DEFINE d == [c EXCEPT !.at = "sets"]
  <2>1. c.sure = {} BY <1>7 DEF RefInv, StartsUnsure, Wipe
  <2>2. d.cmd = "import" /\ d.sure = {} BY <1>1, <2>1 DEF ImportCommand
  <2>3. Between(d) = {} BY <2>2, BetweenKinds
  <2>4. Step(w, d) BY <1>7 DEF Wipe
  <2>5. \A v \in Worker : proc'[v] = IF v = w THEN d ELSE proc[v] BY <2>4, StepProc
  <2> HIDE DEF d
  <2>6. RulesSure' /\ UrlsSure' BY <1>7 DEF Wipe, RulesSure, UrlsSure
  <2>7. BetweenSure'
    <3> SUFFICES ASSUME NEW v \in Worker, NEW n \in Between(proc'[v]) PROVE n \in Sure'
      BY DEF BetweenSure
    <3>1. v # w /\ proc'[v] = proc[v] BY <2>3, <2>5
    <3>2. n \in Sure BY <3>1 DEF RefInv, BetweenSure
    <3> QED BY <1>7, <3>1, <3>2 DEF Wipe, Sure, Others
  <2>8. StartsUnsure' BY <2>2, <2>5 DEF RefInv, StartsUnsure
  <2> QED BY <2>6, <2>7, <2>8 DEF RefInv
<1>8. CASE ImportSets(w)
  <2>1. c.sure = {} BY <1>8 DEF RefInv, StartsUnsure, ImportSets
  <2>2. CASE c.todo = {}
    <3> DEFINE d == [c EXCEPT !.at = "rules", !.todo = Listed(c.file.refs)]
    <3>1. d.cmd = "import" /\ d.sure = {} BY <1>1, <2>1 DEF ImportCommand
    <3>2. Step(w, d) /\ UNCHANGED sets BY <1>8, <2>2 DEF ImportSets
    <3> HIDE DEF d
    <3>3. Sure' = Sure BY <1>8, <3>2 DEF ImportSets, Sure, Existing
    <3> QED BY <1>4, <1>8, <3>1, <3>2, <3>3, BetweenKinds DEF ImportSets
  <2>3. ASSUME NEW n \in c.todo, sets' = [sets EXCEPT ![n] = c.file.sets[n]], Step(w, [c EXCEPT !.todo = @ \ {n}])
        PROVE  RefInv'
    <3> DEFINE d == [c EXCEPT !.todo = @ \ {n}]
    <3>1. d.cmd = "import" /\ d.sure = {} BY <1>1, <2>1 DEF ImportCommand
    <3>2. n \in Name /\ c.file.sets[n] # None BY <1>1, <1>8 DEF ImportSets, Listed, Part, Payload
    <3>3. Step(w, d) BY <2>3
    <3> HIDE DEF d
    <3>4. Sure \subseteq Sure' BY <1>8, <2>3, <3>2 DEF ImportSets, Sure, Existing, TypeOK
    <3> QED BY <1>4, <1>8, <3>1, <3>3, <3>4, BetweenKinds DEF ImportSets
  <2> QED BY <1>8, <2>2, <2>3 DEF ImportSets
<1>9. CASE ImportRules(w)
  <2>0. /\ \A p \in c.todo : p \in Port /\ c.file.refs[p] \in SUBSET Name
        /\ c.at = "rules" /\ raced' = raced /\ urls' = urls
    BY <1>1, <1>9 DEF ImportRules, Listed, Part, Payload
  <2>1. CASE Step(w, [c EXCEPT !.at = "urls", !.todo = Listed(c.file.urls)]) /\ UNCHANGED <<sets, rules, ids>>
    <3> DEFINE d == [c EXCEPT !.at = "urls", !.todo = Listed(c.file.urls)]
    <3>1. d.cmd = "import" /\ d.sure = c.sure /\ d.at = "urls" BY <1>1 DEF ImportCommand
    <3> HIDE DEF d
    <3>2. Sure' = Sure BY <2>0, <2>1 DEF Sure, Existing
    <3>3. Between(d) \subseteq Sure' BY <1>2, <3>1, <3>2, BetweenKinds
    <3> QED BY <1>4, <2>0, <2>1, <3>1, <3>2, <3>3 DEF d
  <2>2. ASSUME NEW p \in c.todo, NEW n \in Unsure(c, c.file.refs[p]), MakeSure(w, n), UNCHANGED <<rules, ids>>
        PROVE  RefInv'
    <3>1. n \in Name BY <2>0 DEF Unsure
    <3> QED BY <1>5, <2>0, <2>2, <3>1
  <2>3. ASSUME NEW p \in c.todo, Unsure(c, c.file.refs[p]) = {}, rules' = Upserted(p, c.file.refs[p]),
               Step(w, [c EXCEPT !.todo = @ \ {p}, !.sure = {}]), UNCHANGED sets
        PROVE  RefInv'
    <3>1. Sure' = Sure BY <2>0, <2>3 DEF Sure, Existing
    <3>2. c.file.refs[p] \subseteq Sure' BY <1>2, <2>3, <3>1 DEF Unsure
    <3>3. \A q \in Port : rules'[q] = rules[q] \/ rules'[q].refs = c.file.refs[p]
      BY <2>3 DEF Upserted, TypeOK
    <3> DEFINE d == [c EXCEPT !.todo = @ \ {p}, !.sure = {}]
    <3>4. d.cmd = "import" /\ d.at = c.at /\ d.sure = {} /\ Step(w, d) BY <1>6, <2>3
    <3> HIDE DEF d
    <3>5. Between(d) = {} BY <3>4, BetweenKinds
    <3> QED BY <1>4, <2>0, <2>3, <3>1, <3>2, <3>3, <3>4, <3>5
  <2> QED BY <1>9, <2>1, <2>2, <2>3 DEF ImportRules
<1>10. CASE ImportUrls(w)
  <2>0. /\ \A u \in c.todo : u \in Path /\ c.file.urls[u] \in SecretURL
        /\ c.at = "urls" /\ raced' = raced /\ rules' = rules
    BY <1>1, <1>10 DEF ImportUrls, Listed, Part, Payload
  <2>1. CASE Step(w, Idle) /\ UNCHANGED <<sets, urls>>
    <3>1. Sure' = Sure BY <2>0, <2>1 DEF Sure, Existing
    <3> QED BY <1>3, <1>4, <2>0, <2>1, <3>1
  <2>2. ASSUME NEW u \in c.todo, MakeSure(w, c.file.urls[u].ruleset), UNCHANGED urls
        PROVE  RefInv'
    <3>1. c.file.urls[u].ruleset \in Name BY <2>0 DEF SecretURL
    <3> QED BY <1>5, <2>0, <2>2, <3>1
  <2>3. ASSUME NEW u \in c.todo, NEW N \in Following(c, u), c.file.urls[u].ruleset \in c.sure,
               urls' = [urls EXCEPT ![u] = c.file.urls[u]], sets' = Ensured(N),
               Step(w, [c EXCEPT !.todo = @ \ {u}, !.sure = N])
        PROVE  RefInv'
    <3>0. N \subseteq Name BY <2>0 DEF Following, SecretURL
    <3>1. Sure \subseteq Sure' /\ N \subseteq Sure' BY <2>0, <2>3, <3>0, EnsuredExist DEF Sure
    <3>2. \A v \in Path : urls'[v] = urls[v] \/ urls'[v].ruleset \in Sure' BY <1>2, <2>3, <3>1 DEF TypeOK
    <3> DEFINE d == [c EXCEPT !.todo = @ \ {u}, !.sure = N]
    <3>3. d.cmd = "import" /\ d.at = c.at /\ d.sure = N /\ Step(w, d) BY <1>6, <2>3
    <3> HIDE DEF d
    <3>4. Between(d) \subseteq N BY <3>3, BetweenKinds
    <3> QED BY <1>4, <2>0, <2>3, <3>0, <3>1, <3>2, <3>3, <3>4
  <2> QED BY <1>10, <2>1, <2>2, <2>3 DEF ImportUrls
<1> QED BY <1>7, <1>8, <1>9, <1>10

(* RefInv holds of the states to begin with if RefsExist does. *)
LEMMA RefInit == Init /\ RefsExist => RefInv
<1> SUFFICES ASSUME Init, RefsExist PROVE RefInv OBVIOUS
<1>1. TypeOK BY TypeInit
<1>2. Existing \cup raced = Sure BY DEF Sure
<1>3. RulesSure BY <1>1, <1>2 DEF RefsExist, RulesSure, Referring, TypeOK, Rule
<1>4. UrlsSure BY <1>1, <1>2 DEF RefsExist, UrlsSure, Active, TypeOK, SecretURL
<1>5. \A w \in Worker : proc[w].cmd = "idle" BY DEF Init, Idle
<1> QED BY <1>3, <1>4, <1>5, BetweenKinds DEF RefInv, BetweenSure, StartsUnsure

(* RefInv is inductive with the types. *)
LEMMA RefStep == TypeOK /\ RefInv /\ [Next]_vars => RefInv'
<1> SUFFICES ASSUME TypeOK, RefInv, [Next]_vars PROVE RefInv' OBVIOUS
<1>1. CASE UNCHANGED vars
  <2>1. Sure' = Sure BY <1>1 DEF vars, Sure, Existing
  <2> QED BY <1>1, <2>1, RefFrame DEF vars
<1>2. CASE \/ \E n \in Name, c \in Channels : SetRuleset(n, c)
           \/ \E p \in Port, refs \in SUBSET Name : AddRule(p, refs)
           \/ \E p \in Port : DeleteRule(p)
           \/ \E u \in Path : DeleteUrl(u)
           \/ \E n \in Name : RemoveRows(n)
  BY <1>2, RefAtOnce
<1>3. ASSUME NEW w \in Worker, NEW n \in Name, DeleteRuleset(w, n) PROVE RefInv' BY <1>3, RefDelete
<1>4. ASSUME NEW w \in Worker,
             \/ EndDelete(w) \/ EndDdns(w) \/ EndEdit(w) \/ Kill(w)
             \/ NextRecord(w) \/ Ingest(w) \/ Export(w)
      PROVE  RefInv'
  BY <1>4, RefSteps
<1>5. ASSUME NEW w \in Worker, CreateUrl(w) PROVE RefInv' BY <1>5, RefUrl
<1>6. ASSUME NEW w \in Worker, Wipe(w) \/ ImportSets(w) \/ ImportRules(w) \/ ImportUrls(w) PROVE RefInv'
  BY <1>6, RefImport
<1> QED BY <1>1, <1>2, <1>3, <1>4, <1>5, <1>6, RefBegins DEF Next

(* If the tables begin without a dangling reference, no rule and no active *)
(* URL ever refers to a ruleset that does not exist, whatever commands run *)
(* at the same time and wherever they are killed: but for a name that was  *)
(* deleted between the commits of a command that had made sure of it.      *)
THEOREM RefsAlwaysExist == Spec /\ RefsExist => []RefsExist
<1>1. TypeOK /\ RefInv => RefsExist
  <2> SUFFICES ASSUME TypeOK, RefInv, NEW n \in Name \ (Existing \cup raced)
               PROVE  Referring(n) = {} /\ Active(n) = {}
    BY DEF RefsExist
  <2>1. Referring(n) = {} BY DEF RefInv, RulesSure, Referring, Sure
  <2>2. Active(n) = {} BY DEF RefInv, UrlsSure, Active, Sure
  <2> QED BY <2>1, <2>2
<1> QED BY <1>1, TypeInit, TypeStep, RefInit, RefStep, PTL DEF Spec
-----------------------------------------------------------------------------
(* DeletedStaysGone is not inductive either: a command that names a        *)
(* ruleset which is gone would bring it back in one of its next steps.     *)
Unmentioned(n) == \A w \in Worker : n \notin Named(proc[w])
NotInTables(n) ==
  /\ n \notin Existing \cup rows
  /\ \A p \in Port : rules[p] # None => n \notin rules[p].refs
  /\ \A u \in Path : ~(urls[u] # None /\ urls[u].ruleset = n /\ urls[u].active)

GoneInv == \A n \in dropped : NotInTables(n) /\ Unmentioned(n)

(* What no table has is neither referred to nor served.                    *)
LEMMA NotInTablesGone ==
  ASSUME NEW n, NotInTables(n)
  PROVE  n \notin Existing \cup rows /\ Referring(n) = {} /\ Active(n) = {}
BY DEF NotInTables, Referring, Active

(* The names a command brings back, by its kind.                           *)
LEMMA NamedKinds ==
  ASSUME NEW c
  PROVE  /\ c.cmd \in {"idle", "delete", "ddns add", "ddns delete", "export"} => Named(c) = {}
         /\ c.cmd \in {"allow", "sync"} /\ c.at \in {"check", "next"} => Named(c) = {}
         /\ c.cmd \in {"allow", "sync"} => Named(c) \subseteq {c.name}
         /\ c.cmd = "url" => Named(c) = {c.name} \cap Name
         /\ c.cmd = "edit" /\ c.refs # None => Named(c) = c.refs \cap Name
         /\ c.cmd = "edit" /\ c.refs = None => Named(c) = {}
         /\ c.cmd = "import" => Named(c) = NamedIn(c.file)
BY DEF Named, NamedIn

(* A step of w, to a command that names nothing new, after which n is in   *)
(* no table.                                                               *)
LEMMA GoneFrame ==
  ASSUME TypeOK, GoneInv, NEW w \in Worker, NEW c, Step(w, c), dropped' \subseteq dropped,
         Named(c) \subseteq Named(proc[w]),
         \A n \in dropped : NotInTables(n)'
  PROVE  GoneInv'
<1>1. \A v \in Worker : proc'[v] = IF v = w THEN c ELSE proc[v] BY StepProc
<1>2. \A n \in dropped' : Unmentioned(n)' BY <1>1 DEF GoneInv, Unmentioned
<1> QED BY <1>2 DEF GoneInv

(* Commands of one transaction: those that name a ruleset take it out of   *)
(* the ones that are gone.                                                 *)
LEMMA GoneAtOnce ==
  ASSUME TypeOK, GoneInv,
         \/ \E n \in Name, c \in Channels : SetRuleset(n, c)
         \/ \E p \in Port, refs \in SUBSET Name : AddRule(p, refs)
         \/ \E p \in Port : DeleteRule(p)
         \/ \E u \in Path : DeleteUrl(u)
         \/ \E n \in Name : RemoveRows(n)
  PROVE  GoneInv'
<1>0. AtOnce BY DEF SetRuleset, AddRule, DeleteRule, DeleteUrl, RemoveRows
<1>1. \A n : Unmentioned(n)' <=> Unmentioned(n) BY <1>0 DEF AtOnce, Unmentioned
<1>2. ASSUME dropped' \subseteq dropped, \A n \in dropped' : NotInTables(n)' PROVE GoneInv'
  BY <1>1, <1>2 DEF GoneInv
<1>3. ASSUME NEW n \in Name, NEW c \in Channels, SetRuleset(n, c) PROVE GoneInv'
  <2>1. \A x \in dropped' : x \in dropped /\ x # n BY <1>3 DEF SetRuleset
  <2>2. \A x \in Name \ {n} : sets'[x] = sets[x] BY <1>3 DEF SetRuleset, TypeOK
  <2>3. UNCHANGED <<rules, rows, urls>> BY <1>3 DEF SetRuleset
  <2>4. ASSUME NEW x \in dropped' PROVE NotInTables(x)'
    BY <2>1, <2>2, <2>3 DEF GoneInv, NotInTables, Existing, TypeOK
  <2> QED BY <1>2, <2>1, <2>4
<1>4. ASSUME NEW p \in Port, NEW refs \in SUBSET Name, AddRule(p, refs) PROVE GoneInv'
  <2>1. \A x \in dropped' : x \in dropped /\ x \notin refs BY <1>4 DEF AddRule
  <2>2. Existing' = Existing \cup refs BY <1>4, EnsuredExist DEF AddRule
  <2>3. \A q \in Port : rules'[q] = rules[q] \/ rules'[q].refs = refs BY <1>4 DEF AddRule, Upserted, TypeOK
  <2>4. UNCHANGED <<rows, urls>> BY <1>4 DEF AddRule
  <2>5. ASSUME NEW x \in dropped' PROVE NotInTables(x)'
    BY <2>1, <2>2, <2>3, <2>4 DEF GoneInv, NotInTables
  <2> QED BY <1>2, <2>1, <2>5
<1>5. ASSUME NEW p \in Port, DeleteRule(p) PROVE GoneInv'
  <2>1. \A q \in Port : rules'[q] = rules[q] \/ rules'[q] = None BY <1>5 DEF DeleteRule, TypeOK
  <2>2. UNCHANGED <<sets, rows, urls, dropped>> BY <1>5 DEF DeleteRule
  <2>3. Existing' = Existing BY <2>2 DEF Existing
  <2>4. ASSUME NEW x \in dropped PROVE NotInTables(x)' BY <2>1, <2>2, <2>3 DEF GoneInv, NotInTables
  <2> QED BY <1>2, <2>2, <2>4
<1>6. ASSUME NEW u \in Path, DeleteUrl(u) PROVE GoneInv'
  <2>1. urls[u] \in SecretURL BY <1>6 DEF DeleteUrl, TypeOK
  <2>2. \A v \in Path : urls'[v] = urls[v] \/ ~urls'[v].active BY <1>6, <2>1 DEF DeleteUrl, TypeOK, SecretURL
  <2>3. UNCHANGED <<sets, rules, rows, dropped>> BY <1>6 DEF DeleteUrl
  <2>4. Existing' = Existing BY <2>3 DEF Existing
  <2>5. ASSUME NEW x \in dropped PROVE NotInTables(x)' BY <2>2, <2>3, <2>4 DEF GoneInv, NotInTables
  <2> QED BY <1>2, <2>3, <2>5
<1>7. ASSUME NEW n \in Name, RemoveRows(n) PROVE GoneInv'
  <2>1. UNCHANGED <<sets, rules, urls, dropped>> /\ rows' \subseteq rows BY <1>7 DEF RemoveRows
  <2>2. Existing' = Existing BY <2>1 DEF Existing
  <2>3. ASSUME NEW x \in dropped PROVE NotInTables(x)' BY <2>1, <2>2 DEF GoneInv, NotInTables
  <2> QED BY <1>2, <2>1, <2>3
<1> QED BY <1>3, <1>4, <1>5, <1>6, <1>7

(* A command that names a ruleset takes it out as it begins. *)
LEMMA GoneBegins ==
  ASSUME TypeOK, GoneInv, NEW w \in Worker, NEW c, Begin(w, c)
  PROVE  GoneInv'
<1>1. \A v \in Worker : proc'[v] = IF v = w THEN c ELSE proc[v] BY StepProc
<1>2. UNCHANGED <<sets, rules, rows, urls>> /\ dropped' = dropped \ Named(c) BY DEF Begin
<1>3. Existing' = Existing BY <1>2 DEF Existing
<1>4. ASSUME NEW n \in dropped' PROVE NotInTables(n)' BY <1>2, <1>3 DEF GoneInv, NotInTables
<1>5. ASSUME NEW n \in dropped' PROVE Unmentioned(n)' BY <1>1, <1>2 DEF GoneInv, Unmentioned
<1> QED BY <1>4, <1>5 DEF GoneInv

(* What a deletion leaves of a name: nothing. *)
LEMMA GoneDelete ==
  ASSUME TypeOK, GoneInv, NEW w \in Worker, NEW n \in Name, DeleteRuleset(w, n)
  PROVE  GoneInv'
<1> DEFINE d == [proc[w] EXCEPT !.todo = @ \ {n}]
<1>1. proc[w] \in DeleteCommand BY CommandKinds DEF DeleteRuleset, TypeOK
<1>2. Named(d) = {}
  <2>1. d.cmd = "delete" BY <1>1 DEF DeleteCommand
  <2> QED BY <2>1, NamedKinds
<1>3. Step(w, d) BY DEF DeleteRuleset
<1>4. \A v \in Worker : proc'[v] = IF v = w THEN d ELSE proc[v] BY <1>3, StepProc
<1> HIDE DEF d
<1>5. CASE UNCHANGED <<sets, rules, rows, urls, dropped, raced>>
  <2>1. Existing' = Existing BY <1>5 DEF Existing
  <2>2. \A x \in dropped : NotInTables(x)' BY <1>5, <2>1 DEF GoneInv, NotInTables
  <2> QED BY <1>2, <1>3, <1>5, <2>2, GoneFrame
<1>6. CASE /\ sets' = [sets EXCEPT ![n] = None]
           /\ rows' = rows \ {n} /\ rules' = Detached(n) /\ urls' = Disabled(n)
           /\ dropped' = IF \E v \in Others(w) : n \in Named(proc[v]) THEN dropped ELSE dropped \cup {n}
  <2>1. Existing' = Existing \ {n} BY <1>6 DEF Existing, TypeOK
  <2>2. ASSUME NEW p \in Port, rules'[p] # None
        PROVE  rules[p] # None /\ rules'[p].refs = rules[p].refs \ {n}
    <3>1. rules[p] # None /\ rules'[p] = [rules[p] EXCEPT !.refs = @ \ {n}] BY <1>6, <2>2 DEF Detached
    <3>2. rules[p] \in Rule BY <3>1 DEF TypeOK
    <3> QED BY <3>1, <3>2 DEF Rule
  <2>3. ASSUME NEW u \in Path, urls'[u] # None, urls'[u].active
        PROVE  urls'[u] = urls[u] /\ u \notin Active(n)
    <3>1. u \notin Active(n)
      <4>1. SUFFICES ASSUME u \in Active(n) PROVE FALSE OBVIOUS
      <4>2. urls[u] \in SecretURL BY <4>1 DEF Active, TypeOK
      <4>3. urls'[u] = [urls[u] EXCEPT !.active = FALSE] BY <1>6, <4>1 DEF Disabled
      <4> QED BY <2>3, <4>2, <4>3 DEF SecretURL
    <3> QED BY <1>6, <3>1 DEF Disabled
  <2>4. NotInTables(n)' BY <1>6, <2>1, <2>2, <2>3 DEF NotInTables, Active
  <2>5. ASSUME NEW x \in dropped PROVE NotInTables(x)'
    <3>1. NotInTables(x) BY DEF GoneInv
    <3> QED BY <1>6, <2>1, <2>2, <2>3, <3>1 DEF NotInTables
  <2>6. ASSUME NEW x \in dropped' PROVE Unmentioned(x)'
    <3>1. \A v \in Others(w) : x \notin Named(proc[v]) BY <1>6 DEF GoneInv, Unmentioned, Others
    <3> QED BY <1>2, <1>4, <3>1 DEF Unmentioned, Others
  <2> QED BY <1>6, <2>4, <2>5, <2>6 DEF GoneInv
<1> QED BY <1>5, <1>6 DEF DeleteRuleset

(* Steps that leave the tables of the database alone. *)
LEMMA GoneSteps ==
  ASSUME TypeOK, GoneInv, NEW w \in Worker,
         EndDelete(w) \/ EndDdns(w) \/ Kill(w) \/ NextRecord(w) \/ Export(w)
  PROVE  GoneInv'
<1> DEFINE c == proc[w]
<1>0. Idle.cmd = "idle" BY DEF Idle
<1>1. UNCHANGED <<sets, rules, rows, urls, dropped>> BY DEF EndDelete, EndDdns, Kill, NextRecord, Export
<1>2. Existing' = Existing BY <1>1 DEF Existing
<1>3. \A n \in dropped : NotInTables(n)' BY <1>1, <1>2 DEF GoneInv, NotInTables
<1>4. ASSUME NEW d, Step(w, d), Named(d) = {} PROVE GoneInv' BY <1>1, <1>3, <1>4, GoneFrame
<1>5. CASE EndDelete(w) \/ EndDdns(w) BY <1>0, <1>4, <1>5, NamedKinds DEF EndDelete, EndDdns
<1>6. CASE Kill(w)
  <2>1. \A v \in Worker : proc'[v] = IF v = w THEN Idle ELSE proc[v] BY <1>6 DEF Kill, TypeOK
  <2>2. Named(Idle) = {} BY <1>0, NamedKinds
  <2>3. \A n \in dropped : Unmentioned(n)' BY <2>1, <2>2 DEF GoneInv, Unmentioned
  <2> QED BY <1>1, <1>3, <2>3 DEF GoneInv
<1>7. CASE NextRecord(w)
  <2>1. c \in Command BY DEF TypeOK
  <2>2. c \in SyncCommand BY <1>7, <2>1, CommandKinds DEF NextRecord, SyncCommand, IngestCommand
  <2>3. ASSUME NEW n, NEW to \in {"check", "next"}
        PROVE  Named([c EXCEPT !.records = @ \ {n}, !.name = n, !.at = to]) = {}
    <3> DEFINE d == [c EXCEPT !.records = @ \ {n}, !.name = n, !.at = to]
    <3>1. d.cmd = "sync" /\ d.at = to BY <2>2 DEF SyncCommand
    <3> HIDE DEF d
    <3>2. Named(d) = {} BY <3>1, NamedKinds
    <3> QED BY <3>2 DEF d
  <2>4. Named(Idle) = {} BY <1>0, NamedKinds
  <2>5. PICK d : Step(w, d) /\ Named(d) = {} BY <1>7, <2>3, <2>4 DEF NextRecord
  <2> QED BY <1>4, <2>5
<1>8. CASE Export(w)
  <2>1. c \in ExportCommand BY <1>8, CommandKinds DEF Export, TypeOK
  <2>2. \A to, f : [c EXCEPT !.at = to, !.file = f].cmd = "export" BY <2>1 DEF ExportCommand
  <2>3. PICK d : Step(w, d) /\ d.cmd \in {"idle", "export"} BY <1>0, <1>8, <2>2 DEF Export
  <2> QED BY <1>4, <2>3, NamedKinds
<1> QED BY <1>5, <1>6, <1>7, <1>8

(* An edit names the rulesets it writes, or writes those it reads in its   *)
(* transaction, which exist.                                               *)
LEMMA GoneEdit ==
  ASSUME TypeOK, GoneInv, NEW w \in Worker, EndEdit(w)
  PROVE  GoneInv'
<1> DEFINE c == proc[w]
<1>0. Named(Idle) = {} BY NamedKinds DEF Idle
<1>1. c \in EditCommand BY CommandKinds DEF EndEdit, TypeOK
<1>2. Step(w, Idle) /\ UNCHANGED <<rows, urls, dropped>> BY DEF EndEdit
<1>3. CASE UNCHANGED <<sets, rules>>
  <2>1. Existing' = Existing BY <1>3 DEF Existing
  <2>2. \A n \in dropped : NotInTables(n)' BY <1>2, <1>3, <2>1 DEF GoneInv, NotInTables
  <2> QED BY <1>0, <1>2, <2>2, GoneFrame
<1>4. CASE /\ rules[c.port] # None
           /\ sets' = Ensured(EditedRefs(c))
           /\ rules' = [rules EXCEPT ![c.port].refs = EditedRefs(c)]
  <2>1. c.port \in Port /\ c.cmd = "edit" /\ rules[c.port] \in Rule BY <1>1, <1>4 DEF EditCommand, TypeOK
  <2>2. EditedRefs(c) \subseteq Name BY <1>1, <2>1 DEF EditedRefs, EditCommand, Rule
  <2>3. ASSUME NEW n \in dropped PROVE n \notin EditedRefs(c)
    <3>1. CASE c.refs = None BY <1>4, <2>1, <3>1 DEF EditedRefs, GoneInv, NotInTables
    <3>2. CASE c.refs # None
      <4>1. Named(c) = c.refs \cap Name BY <2>1, <3>2, NamedKinds
      <4>2. n \notin Named(c) BY DEF GoneInv, Unmentioned
      <4> QED BY <2>2, <3>2, <4>1, <4>2 DEF EditedRefs
    <3> QED BY <3>1, <3>2
  <2>4. Existing' = Existing \cup EditedRefs(c) BY <1>4, <2>2, EnsuredExist
  <2>5. \A q \in Port : rules'[q] = rules[q] \/ rules'[q].refs = EditedRefs(c) BY <1>4, <2>1 DEF TypeOK, Rule
  <2>6. \A n \in dropped : NotInTables(n)' BY <1>2, <2>3, <2>4, <2>5 DEF GoneInv, NotInTables
  <2> QED BY <1>0, <1>2, <2>6, GoneFrame
<1> QED BY <1>3, <1>4 DEF EndEdit

(* An ingest names its ruleset once it has seen that it exists. *)
LEMMA GoneIngest ==
  ASSUME TypeOK, GoneInv, NEW w \in Worker, Ingest(w)
  PROVE  GoneInv'
<1> DEFINE c == proc[w]
<1>0. Named(Idle) = {} BY NamedKinds DEF Idle
<1>1. c \in Command BY DEF TypeOK
<1>2. c \in IngestCommand \/ c \in SyncCommand BY <1>1, CommandKinds DEF Ingest
<1>3. c \in IngestCommand BY <1>2 DEF Ingest, SyncCommand
<1>4. c.name \in Name /\ c.cmd \in {"allow", "sync"} BY <1>3 DEF IngestCommand
<1>5. UNCHANGED <<rules, urls, dropped>> BY DEF Ingest
<1>6. Named(Through(c)) = {}
  <2>1. CASE c.cmd = "sync"
    <3> DEFINE d == [c EXCEPT !.at = "next"]
    <3>1. d.cmd = "sync" /\ d.at = "next" BY <1>3, <2>1 DEF IngestCommand
    <3> HIDE DEF d
    <3>2. Named(d) = {} BY <3>1, NamedKinds
    <3> QED BY <2>1, <3>2 DEF Through, d
  <2> QED BY <1>0, <2>1 DEF Through
<1>7. ASSUME NEW to \in {"ensure", "accepts", "insert"}
      PROVE  Named([c EXCEPT !.at = to]) \subseteq {c.name}
  <2> DEFINE d == [c EXCEPT !.at = to]
  <2>1. d.cmd \in {"allow", "sync"} /\ d.name = c.name BY <1>3 DEF IngestCommand
  <2> HIDE DEF d
  <2>2. Named(d) \subseteq {c.name} BY <2>1, NamedKinds
  <2> QED BY <2>2 DEF d
<1>8. c.at # "check" => Named(c) = {c.name} BY <1>3 DEF Named, IngestCommand
<1>9. c.at # "check" => c.name \notin dropped BY <1>8 DEF GoneInv, Unmentioned
<1>10. Existing' \subseteq Existing \cup ({c.name} \ dropped)
  <2>1. CASE c.at = "ensure" /\ sets' = Ensured({c.name}) BY <1>4, <1>9, <2>1, EnsuredExist
  <2>2. CASE sets' = sets BY <2>2 DEF Existing
  <2> QED BY <2>1, <2>2 DEF Ingest
<1>11. rows' \subseteq rows \cup ({c.name} \ dropped) BY <1>9 DEF Ingest
<1>12. \A n \in dropped : NotInTables(n)' BY <1>5, <1>10, <1>11 DEF GoneInv, NotInTables
<1>13. ASSUME NEW d, Step(w, d), Named(d) \subseteq {c.name}, c.name \notin dropped PROVE GoneInv'
  <2>1. \A v \in Worker : proc'[v] = IF v = w THEN d ELSE proc[v] BY <1>13, StepProc
  <2>2. \A n \in dropped : Unmentioned(n)' BY <1>13, <2>1 DEF GoneInv, Unmentioned
  <2> QED BY <1>5, <1>12, <2>2 DEF GoneInv
<1>14. ASSUME NEW d, Step(w, d), Named(d) = {} PROVE GoneInv' BY <1>5, <1>12, <1>14, GoneFrame
<1>15. CASE c.at = "check"
  <2>1. CASE HasRuleset(c.name)
    <3>1. c.name \notin dropped BY <1>4, <2>1 DEF HasRuleset, GoneInv, NotInTables, Existing
    <3>2. Step(w, [c EXCEPT !.at = "ensure"]) BY <1>15, <2>1 DEF Ingest
    <3> QED BY <1>7, <1>13, <3>1, <3>2
  <2>2. CASE ~HasRuleset(c.name)
    <3>1. Step(w, Idle) BY <1>15, <2>2 DEF Ingest
    <3> QED BY <1>0, <1>14, <3>1
  <2> QED BY <2>1, <2>2
<1>16. CASE c.at # "check"
  <2>1. PICK d : Step(w, d) /\ Named(d) \subseteq {c.name} BY <1>0, <1>6, <1>7, <1>16 DEF Ingest
  <2> QED BY <1>9, <1>13, <1>16, <2>1
<1> QED BY <1>15, <1>16

(* secret-url create names its ruleset all along. *)
LEMMA GoneUrl ==
  ASSUME TypeOK, GoneInv, NEW w \in Worker, CreateUrl(w)
  PROVE  GoneInv'
<1> DEFINE c == proc[w]
           d == [c EXCEPT !.at = "insert"]
<1>1. c \in UrlCommand BY CommandKinds DEF CreateUrl, TypeOK
<1>2. c.cmd = "url" /\ c.name \in Name /\ d.cmd = "url" /\ d.name = c.name BY <1>1 DEF UrlCommand
<1> HIDE DEF d
<1>3. Named(c) = {c.name} /\ Named(d) = {c.name} /\ Named(Idle) = {}
  <2>1. Named(Idle) = {} BY NamedKinds DEF Idle
  <2>2. Named(c) = {c.name} \cap Name BY <1>2, NamedKinds
  <2>3. Named(d) = {d.name} \cap Name BY <1>2, NamedKinds
  <2> QED BY <1>2, <2>1, <2>2, <2>3
<1>4. c.name \notin dropped BY <1>3 DEF GoneInv, Unmentioned
<1>5. UNCHANGED <<rules, rows, dropped>> BY DEF CreateUrl
<1>6. Existing' \subseteq Existing \cup {c.name} BY <1>2, EnsuredExist DEF CreateUrl, Existing
<1>7. \A u \in Path : urls'[u] = urls[u] \/ urls'[u].ruleset = c.name BY DEF CreateUrl, TypeOK
<1>8. \A n \in dropped : NotInTables(n)' BY <1>4, <1>5, <1>6, <1>7 DEF GoneInv, NotInTables
<1>9. PICK e : Step(w, e) /\ Named(e) \subseteq Named(c) BY <1>3 DEF CreateUrl, d
<1> QED BY <1>5, <1>8, <1>9, GoneFrame

(* An import names what its file names. *)
LEMMA GoneImport ==
  ASSUME TypeOK, GoneInv, NEW w \in Worker, Wipe(w) \/ ImportSets(w) \/ ImportRules(w) \/ ImportUrls(w)
  PROVE  GoneInv'
<1> DEFINE c == proc[w]
<1>0. c \in ImportCommand BY CommandKinds DEF Wipe, ImportSets, ImportRules, ImportUrls, TypeOK
<1>1. /\ c.cmd = "import" /\ c.file \in Payload
      /\ c.todo \subseteq Listed(Part(c.at, c.file))
  BY <1>0 DEF ImportCommand
<1>2. Named(c) = NamedIn(c.file) /\ Named(Idle) = {} BY <1>1, NamedKinds DEF Idle
<1>3. NamedIn(c.file) \cap dropped = {} BY <1>2 DEF GoneInv, Unmentioned
<1>4. UNCHANGED <<rows, dropped>> BY DEF Wipe, ImportSets, ImportRules, ImportUrls
<1>5. ASSUME NEW d, Step(w, d), d = Idle \/ (d.cmd = "import" /\ d.file = c.file),
             Existing' \subseteq Existing \cup NamedIn(c.file),
             \A p \in Port : rules'[p] = rules[p] \/ rules'[p] = None \/ rules'[p].refs \subseteq NamedIn(c.file),
             \A u \in Path : urls'[u] = urls[u] \/ urls'[u] = None \/ urls'[u].ruleset \in NamedIn(c.file)
      PROVE  GoneInv'
  <2>1. Named(d) \subseteq Named(c) BY <1>2, <1>5, NamedKinds
  <2>2. \A n \in dropped : NotInTables(n)' BY <1>3, <1>4, <1>5 DEF GoneInv, NotInTables
  <2> QED BY <1>4, <1>5, <2>1, <2>2, GoneFrame
<1>6. ASSUME NEW n \in NamedIn(c.file), MakeSure(w, n), rules' = rules, urls' = urls PROVE GoneInv'
  <2>1. n \in Name BY DEF NamedIn
  <2>2. Existing' = Existing \cup {n} BY <1>6, <2>1, EnsuredExist DEF MakeSure
  <2> DEFINE d == [c EXCEPT !.sure = @ \cup {n}]
  <2>3. d.cmd = "import" /\ d.file = c.file BY <1>0 DEF ImportCommand
  <2>4. Step(w, d) BY <1>6 DEF MakeSure
  <2> HIDE DEF d
  <2> QED BY <1>5, <1>6, <2>2, <2>3, <2>4
<1>7. \A x, N : /\ [c EXCEPT !.todo = @ \ {x}, !.sure = N].cmd = "import"
                /\ [c EXCEPT !.todo = @ \ {x}, !.sure = N].file = c.file
  BY <1>0 DEF ImportCommand
<1>8. \A at, todo : /\ [c EXCEPT !.at = at, !.todo = todo].cmd = "import"
                    /\ [c EXCEPT !.at = at, !.todo = todo].file = c.file
  BY <1>0 DEF ImportCommand
<1>9. CASE Wipe(w)
  <2>1. [c EXCEPT !.at = "sets"].cmd = "import" /\ [c EXCEPT !.at = "sets"].file = c.file
    BY <1>0 DEF ImportCommand
  <2>2. Existing' = {} BY <1>9 DEF Wipe, WipedSets, Existing
  <2>3. \A p \in Port : rules'[p] = None BY <1>9 DEF Wipe
  <2>4. \A u \in Path : urls'[u] = None BY <1>9 DEF Wipe
  <2>5. Step(w, [c EXCEPT !.at = "sets"]) BY <1>9 DEF Wipe
  <2> QED BY <1>5, <2>1, <2>2, <2>3, <2>4, <2>5
<1>10. CASE ImportSets(w)
  <2>0. UNCHANGED <<rules, urls>> BY <1>10 DEF ImportSets
  <2>1. CASE c.todo = {}
    <3>1. Step(w, [c EXCEPT !.at = "rules", !.todo = Listed(c.file.refs)]) /\ UNCHANGED sets
      BY <1>10, <2>1 DEF ImportSets
    <3>2. Existing' = Existing BY <3>1 DEF Existing
    <3> QED BY <1>5, <1>8, <2>0, <3>1, <3>2
  <2>2. ASSUME NEW n \in c.todo, sets' = [sets EXCEPT ![n] = c.file.sets[n]], Step(w, [c EXCEPT !.todo = @ \ {n}])
        PROVE  GoneInv'
    <3>1. n \in Name /\ c.file.sets[n] # None BY <1>1, <1>10, <2>2 DEF ImportSets, Listed, Part, Payload
    <3>2. n \in NamedIn(c.file) BY <3>1 DEF NamedIn
    <3>3. Existing' \subseteq Existing \cup {n} BY <2>2 DEF Existing, TypeOK
    <3>4. [c EXCEPT !.todo = @ \ {n}].cmd = "import" /\ [c EXCEPT !.todo = @ \ {n}].file = c.file
      BY <1>0 DEF ImportCommand
    <3> QED BY <1>5, <2>0, <2>2, <3>2, <3>3, <3>4
  <2> QED BY <1>10, <2>1, <2>2 DEF ImportSets
<1>11. CASE ImportRules(w)
  <2>0. /\ \A p \in c.todo : p \in Port /\ c.file.refs[p] \in SUBSET Name /\ c.file.refs[p] # None
        /\ UNCHANGED urls
    BY <1>1, <1>11 DEF ImportRules, Listed, Part, Payload
  <2>1. \A p \in c.todo : c.file.refs[p] \subseteq NamedIn(c.file) BY <2>0 DEF NamedIn
  <2>2. CASE Step(w, [c EXCEPT !.at = "urls", !.todo = Listed(c.file.urls)]) /\ UNCHANGED <<sets, rules>>
    <3>1. Existing' = Existing BY <2>2 DEF Existing
    <3> QED BY <1>5, <1>8, <2>0, <2>2, <3>1
  <2>3. ASSUME NEW p \in c.todo, NEW n \in Unsure(c, c.file.refs[p]), MakeSure(w, n), UNCHANGED rules
        PROVE  GoneInv'
    BY <1>6, <2>0, <2>1, <2>3 DEF Unsure
  <2>4. ASSUME NEW p \in c.todo, rules' = Upserted(p, c.file.refs[p]),
               Step(w, [c EXCEPT !.todo = @ \ {p}, !.sure = {}]), UNCHANGED sets
        PROVE  GoneInv'
    <3>1. Existing' = Existing BY <2>4 DEF Existing
    <3>2. \A q \in Port : rules'[q] = rules[q] \/ rules'[q].refs = c.file.refs[p]
      BY <2>4 DEF Upserted, TypeOK
    <3> QED BY <1>5, <1>7, <2>0, <2>1, <2>4, <3>1, <3>2
  <2> QED BY <1>11, <2>2, <2>3, <2>4 DEF ImportRules
<1>12. CASE ImportUrls(w)
  <2>0. /\ \A u \in c.todo : u \in Path /\ c.file.urls[u] \in SecretURL /\ c.file.urls[u] # None
        /\ UNCHANGED rules
    BY <1>1, <1>12 DEF ImportUrls, Listed, Part, Payload
  <2>1. \A u \in c.todo : c.file.urls[u].ruleset \in NamedIn(c.file) BY <2>0 DEF NamedIn, SecretURL
  <2>2. CASE Step(w, Idle) /\ UNCHANGED <<sets, urls>>
    <3>1. Existing' = Existing BY <2>2 DEF Existing
    <3> QED BY <1>5, <2>0, <2>2, <3>1
  <2>3. ASSUME NEW u \in c.todo, MakeSure(w, c.file.urls[u].ruleset), UNCHANGED urls PROVE GoneInv'
    BY <1>6, <2>0, <2>1, <2>3
  <2>4. ASSUME NEW u \in c.todo, NEW N \in Following(c, u), urls' = [urls EXCEPT ![u] = c.file.urls[u]],
               sets' = Ensured(N), Step(w, [c EXCEPT !.todo = @ \ {u}, !.sure = N])
        PROVE  GoneInv'
    <3>0. N \subseteq NamedIn(c.file) BY <2>1 DEF Following
    <3>1. Existing' \subseteq Existing \cup N BY <2>4, EnsuredExist
    <3>2. \A v \in Path : urls'[v] = urls[v] \/ urls'[v].ruleset = c.file.urls[u].ruleset BY <2>4 DEF TypeOK
    <3> QED BY <1>5, <1>7, <2>0, <2>1, <2>4, <3>0, <3>1, <3>2
  <2> QED BY <1>12, <2>2, <2>3, <2>4 DEF ImportUrls
<1> QED BY <1>9, <1>10, <1>11, <1>12

(* GoneInv is inductive with the types. *)
LEMMA GoneStep == TypeOK /\ GoneInv /\ [Next]_vars => GoneInv'
<1> SUFFICES ASSUME TypeOK, GoneInv, [Next]_vars PROVE GoneInv' OBVIOUS
<1>1. CASE UNCHANGED vars
  <2>1. UNCHANGED <<sets, rules, rows, urls, dropped, proc>> BY <1>1 DEF vars
  <2>2. Existing' = Existing BY <2>1 DEF Existing
  <2>3. ASSUME NEW n \in dropped PROVE NotInTables(n)' /\ Unmentioned(n)'
    BY <2>1, <2>2 DEF GoneInv, NotInTables, Unmentioned
  <2> QED BY <2>1, <2>3 DEF GoneInv
<1>2. CASE \/ \E n \in Name, c \in Channels : SetRuleset(n, c)
           \/ \E p \in Port, refs \in SUBSET Name : AddRule(p, refs)
           \/ \E p \in Port : DeleteRule(p)
           \/ \E u \in Path : DeleteUrl(u)
           \/ \E n \in Name : RemoveRows(n)
  BY <1>2, GoneAtOnce
<1>3. ASSUME NEW w \in Worker, NEW c, Begin(w, c) PROVE GoneInv' BY <1>3, GoneBegins
<1>4. ASSUME NEW w \in Worker, NEW n \in Name, DeleteRuleset(w, n) PROVE GoneInv' BY <1>4, GoneDelete
<1>5. ASSUME NEW w \in Worker, EndDelete(w) \/ EndDdns(w) \/ Kill(w) \/ NextRecord(w) \/ Export(w) PROVE GoneInv'
  BY <1>5, GoneSteps
<1>6. ASSUME NEW w \in Worker, EndEdit(w) \/ Ingest(w) \/ CreateUrl(w) PROVE GoneInv'
  BY <1>6, GoneEdit, GoneIngest, GoneUrl
<1>7. ASSUME NEW w \in Worker, Wipe(w) \/ ImportSets(w) \/ ImportRules(w) \/ ImportUrls(w) PROVE GoneInv'
  BY <1>7, GoneImport
<1> QED BY <1>1, <1>2, <1>3, <1>4, <1>5, <1>6, <1>7, TypeBegins DEF Next

(* A ruleset that was deleted while no command named it is in no table     *)
(* until one does, whatever the commands that were under way had read      *)
(* before: rules they edit, DDNS records they ingest for.                  *)
THEOREM DeletedGone == Spec => []DeletedStaysGone
<1>1. Init => GoneInv BY DEF Init, GoneInv
<1>2. TypeOK /\ GoneInv => DeletedStaysGone
  <2> SUFFICES ASSUME TypeOK, GoneInv, NEW n \in dropped
               PROVE  n \notin Existing \cup rows /\ Referring(n) = {} /\ Active(n) = {}
    BY DEF DeletedStaysGone
  <2>1. NotInTables(n) BY DEF GoneInv
  <2> QED BY <2>1, NotInTablesGone
<1> QED BY <1>1, <1>2, TypeInit, TypeStep, GoneStep, PTL DEF Spec

(* What a deletion that ran alone so far has reached: the records it wants *)
(* to write back are still those of config.json, and the names it is       *)
(* through with are gone.                                                  *)
DeleteSoFar(c) == c.records = ddns /\ (c.names \ c.todo) \cap Existing = {}

(* The parts of its file that an import has brought in.                    *)
SetsIn(c) == IF c.at = "sets" THEN Listed(c.file.sets) \ c.todo ELSE Listed(c.file.sets)
RulesIn(c) ==
  IF c.at = "rules" THEN Listed(c.file.refs) \ c.todo
  ELSE IF c.at = "urls" THEN Listed(c.file.refs) ELSE {}
UrlsIn(c) == IF c.at = "urls" THEN Listed(c.file.urls) \ c.todo ELSE {}
NamesIn(c) ==
  {n \in Name : \/ n \in c.sure
                \/ \E p \in RulesIn(c) : n \in c.file.refs[p]
                \/ \E u \in UrlsIn(c) : n = c.file.urls[u].ruleset}

(* The rules and URLs are what was brought in.                             *)
RowsAre(c, R, U) ==
  /\ \A p \in Port : IF p \in RulesIn(c) THEN R[p] # None /\ R[p].refs = c.file.refs[p]
                     ELSE R[p] = None
  /\ \A u \in Path : U[u] = IF u \in UrlsIn(c) THEN c.file.urls[u] ELSE None

(* A name is made sure of only for a row that is still to come.            *)
SureToCome(c) ==
  /\ c.at = "sets" => c.sure = {}
  /\ c.at = "rules" => \A n \in c.sure : \E p \in c.todo : n \in c.file.refs[p]
  /\ c.at = "urls" => /\ \A n \in c.sure : \E u \in c.todo : n = c.file.urls[u].ruleset
                      /\ \A n, m \in c.sure : n = m

(* What an import --replace that ran alone so far has reached: the tables  *)
(* are what it has brought in and made sure of.                            *)
ImportSoFar(c) ==
  IF c.at = "wipe" THEN c.todo = Listed(c.file.sets) /\ c.sure = {}
  ELSE /\ \A n \in Name : sets[n] = IF n \in SetsIn(c) THEN c.file.sets[n]
                                    ELSE IF n \in NamesIn(c) THEN "all" ELSE None
       /\ RowsAre(c, rules, urls) /\ SureToCome(c)

AloneInv ==
  \A w \in Worker : alone = w =>
    /\ proc[w].cmd = "delete" => DeleteSoFar(proc[w])
    /\ proc[w].cmd = "import" /\ proc[w].replace => ImportSoFar(proc[w])
-----------------------------------------------------------------------------
(* A worker that has taken all steps so far began with this step, or takes *)
(* one more; its command goes on or ends.                                  *)
OwnStep(w) ==
  \/ \E n \in Name : DeleteRuleset(w, n)
  \/ EndDelete(w) \/ EndDdns(w) \/ EndEdit(w) \/ NextRecord(w) \/ Ingest(w) \/ CreateUrl(w)
  \/ Export(w) \/ Wipe(w) \/ ImportSets(w) \/ ImportRules(w) \/ ImportUrls(w)

LEMMA OwnStepIs ==
  ASSUME NEW w, OwnStep(w)
  PROVE  \E c : Step(w, c)
<1>1. ASSUME NEW n, DeleteRuleset(w, n) PROVE \E c : Step(w, c) BY <1>1 DEF DeleteRuleset
<1>2. CASE EndDelete(w) \/ EndDdns(w) \/ EndEdit(w) BY <1>2 DEF EndDelete, EndDdns, EndEdit
<1>3. CASE NextRecord(w) BY <1>3 DEF NextRecord
<1>4. CASE Ingest(w) BY <1>4 DEF Ingest
<1>5. CASE CreateUrl(w) BY <1>5 DEF CreateUrl
<1>6. CASE Export(w) BY <1>6 DEF Export
<1>7. CASE Wipe(w) BY <1>7 DEF Wipe
<1>8. CASE ImportSets(w) BY <1>8 DEF ImportSets
<1>9. CASE ImportRules(w) BY <1>9 DEF ImportRules, MakeSure
<1>10. CASE ImportUrls(w) BY <1>10 DEF ImportUrls, MakeSure
<1> QED BY <1>1, <1>2, <1>3, <1>4, <1>5, <1>6, <1>7, <1>8, <1>9, <1>10 DEF OwnStep

(* Which command begins.                                                   *)
BeginsAny(v) ==
  \/ \E N \in (SUBSET Name) \ {{}} : BeginDelete(v, N)
  \/ \E n \in Name, cmd \in {"ddns add", "ddns delete"} : BeginDdns(v, n, cmd)
  \/ \E p \in Port, refs \in {None} \cup SUBSET Name : BeginEdit(v, p, refs)
  \/ \E n \in Name : BeginAllow(v, n)
  \/ BeginSync(v)
  \/ \E u \in Path, n \in Name : BeginUrl(v, u, n)
  \/ BeginExport(v)
  \/ \E replace \in BOOLEAN : BeginImport(v, replace)

LEMMA BeginsIs ==
  ASSUME NEW w, BeginsAny(w)
  PROVE  \E c : /\ Begin(w, c)
                /\ c.cmd = "delete" => \E N \in SUBSET Name : BeginDelete(w, N)
                /\ c.cmd = "import" => \E replace \in BOOLEAN : BeginImport(w, replace)
<1>1. CASE \E N \in (SUBSET Name) \ {{}} : BeginDelete(w, N) BY <1>1 DEF BeginDelete
<1>2. CASE \E n \in Name, cmd \in {"ddns add", "ddns delete"} : BeginDdns(w, n, cmd)
  <2>1. PICK n \in Name, cmd \in {"ddns add", "ddns delete"} : BeginDdns(w, n, cmd) BY <1>2
  <2> DEFINE c == [cmd |-> cmd, name |-> n, records |-> ddns]
  <2>2. c.cmd = cmd /\ Begin(w, c) BY <2>1 DEF BeginDdns
  <2> QED BY <2>2
<1>3. CASE \E p \in Port, refs \in {None} \cup SUBSET Name : BeginEdit(w, p, refs)
  BY <1>3 DEF BeginEdit
<1>4. CASE \E n \in Name : BeginAllow(w, n) BY <1>4 DEF BeginAllow
<1>5. CASE BeginSync(w) BY <1>5 DEF BeginSync
<1>6. CASE \E u \in Path, n \in Name : BeginUrl(w, u, n) BY <1>6 DEF BeginUrl
<1>7. CASE BeginExport(w) BY <1>7 DEF BeginExport
<1>8. CASE \E replace \in BOOLEAN : BeginImport(w, replace) BY <1>8 DEF BeginImport
<1> QED BY <1>1, <1>2, <1>3, <1>4, <1>5, <1>6, <1>7, <1>8 DEF BeginsAny

(* The steps there are.                                                    *)
LEMMA StepsAre ==
  ASSUME TypeOK, [Next]_vars
  PROVE  \/ UNCHANGED vars
         \/ alone' = None /\ UNCHANGED proc
         \/ \E v \in Worker : BeginsAny(v) \/ OwnStep(v) \/ Kill(v)
<1>1. CASE \/ \E n \in Name, c \in Channels : SetRuleset(n, c)
           \/ \E p \in Port, refs \in SUBSET Name : AddRule(p, refs)
           \/ \E p \in Port : DeleteRule(p)
           \/ \E u \in Path : DeleteUrl(u)
           \/ \E n \in Name : RemoveRows(n)
  BY <1>1 DEF SetRuleset, AddRule, DeleteRule, DeleteUrl, RemoveRows, AtOnce
<1> QED BY <1>1 DEF Next, BeginsAny, OwnStep

(* Whoever is alone after a step took it.                                  *)
LEMMA AloneSteps ==
  ASSUME TypeOK, [Next]_vars, NEW w \in Worker, alone' = w
  PROVE  UNCHANGED vars \/ BeginsAny(w) \/ (alone = w /\ OwnStep(w))
<1>0. w # None BY ConstantsAssumption
<1>1. ASSUME NEW v \in Worker, BeginsAny(v) PROVE v = w
  <2>1. PICK c : Begin(v, c) BY <1>1, BeginsIs
  <2> QED BY <2>1 DEF Begin
<1>2. ASSUME NEW v \in Worker, OwnStep(v) PROVE v = w /\ alone = w
  <2>1. PICK c : Step(v, c) BY <1>2, OwnStepIs
  <2> QED BY <2>1, <1>0 DEF Step
<1>3. ASSUME NEW v \in Worker, Kill(v) PROVE FALSE BY <1>0, <1>3 DEF Kill
<1> QED BY <1>0, <1>1, <1>2, <1>3, StepsAre

(* A command that ends by itself ends with a step of its own.              *)
LEMMA EndSteps ==
  ASSUME TypeOK, [Next]_vars, NEW w \in Worker, NEW cmd, cmd # "idle", EndsAlone(w, cmd)
  PROVE  OwnStep(w) /\ proc[w].cmd = cmd /\ proc'[w] = Idle /\ alone = w
<1>0. proc[w] # Idle /\ proc'[w] # proc[w] /\ kills' = kills /\ proc[w].cmd = cmd BY DEF EndsAlone, Idle
<1>1. ~UNCHANGED vars /\ ~UNCHANGED proc BY <1>0 DEF vars
<1>2. ASSUME NEW v \in Worker, BeginsAny(v) PROVE FALSE
  <2>1. PICK c : Begin(v, c) BY <1>2, BeginsIs
  <2>2. proc' = [proc EXCEPT ![v] = c] /\ proc[v] = Idle BY <2>1 DEF Begin
  <2> QED BY <1>0, <2>2 DEF TypeOK
<1>3. ASSUME NEW v \in Worker, OwnStep(v) PROVE v = w
  <2>1. PICK c : Step(v, c) BY <1>3, OwnStepIs
  <2>2. proc' = [proc EXCEPT ![v] = c] BY <2>1 DEF Step
  <2> QED BY <1>0, <2>2 DEF TypeOK
<1>4. ASSUME NEW v \in Worker, Kill(v) PROVE FALSE
  <2>1. kills' = kills + 1 /\ kills \in Nat BY <1>4, ConstantsAssumption DEF Kill, TypeOK
  <2> QED BY <1>0, <2>1
<1> QED BY <1>1, <1>2, <1>3, <1>4, StepsAre DEF EndsAlone

(* A step of a command leaves it the same command, or ends it.             *)
LEMMA OwnStepCmd ==
  ASSUME TypeOK, NEW w \in Worker, OwnStep(w)
  PROVE  proc'[w] = Idle \/ proc'[w].cmd = proc[w].cmd
<1> DEFINE c == proc[w]
<1>0. c \in Command BY DEF TypeOK
<1>s. ASSUME NEW d, Step(w, d) PROVE proc'[w] = d BY <1>s, StepProc
<1>1. ASSUME NEW n \in Name, DeleteRuleset(w, n) PROVE proc'[w].cmd = c.cmd
  <2>1. [c EXCEPT !.todo = @ \ {n}].cmd = c.cmd
    BY <1>0, <1>1, CommandKinds DEF DeleteRuleset, DeleteCommand
  <2> QED BY <2>1, <1>1, <1>s DEF DeleteRuleset
<1>2. CASE EndDelete(w) \/ EndDdns(w) \/ EndEdit(w) BY <1>2, <1>s DEF EndDelete, EndDdns, EndEdit
<1>3. CASE NextRecord(w)
  <2>1. c \in SyncCommand BY <1>3, <1>0, CommandKinds DEF NextRecord, SyncCommand, IngestCommand
  <2>2. \A n, to : [c EXCEPT !.records = @ \ {n}, !.name = n, !.at = to].cmd = c.cmd
    BY <2>1 DEF SyncCommand
  <2>3. PICK d : Step(w, d) /\ (d = Idle \/ d.cmd = c.cmd) BY <2>2, <1>3 DEF NextRecord
  <2> QED BY <2>3, <1>s
<1>4. CASE Ingest(w)
  <2>1. c \in IngestCommand BY <1>4, <1>0, CommandKinds DEF Ingest, SyncCommand, IngestCommand
  <2>2. \A to : [c EXCEPT !.at = to].cmd = c.cmd BY <2>1 DEF IngestCommand
  <2>3. PICK d : Step(w, d) /\ (d = Idle \/ d = Through(c) \/ \E to : d = [c EXCEPT !.at = to])
    BY <1>4 DEF Ingest
  <2> QED BY <2>2, <2>3, <1>s DEF Through
<1>5. CASE CreateUrl(w)
  <2>1. c \in UrlCommand BY <1>5, <1>0, CommandKinds DEF CreateUrl
  <2>2. [c EXCEPT !.at = "insert"].cmd = c.cmd BY <2>1 DEF UrlCommand
  <2> QED BY <2>2, <1>5, <1>s DEF CreateUrl
<1>6. CASE Export(w)
  <2>1. c \in ExportCommand BY <1>6, <1>0, CommandKinds DEF Export
  <2>2. \A to, part : [c EXCEPT !.at = to, !.file = part].cmd = c.cmd BY <2>1 DEF ExportCommand
  <2> DEFINE refs == [p \in Port |-> IF rules[p] = None THEN None ELSE rules[p].refs]
             d1 == [c EXCEPT !.at = "ddns", !.file = [c.file EXCEPT !.refs = refs]]
             d2 == [c EXCEPT !.at = "urls", !.file = [c.file EXCEPT !.ddns = ddns]]
  <2>3. Step(w, d1) \/ Step(w, d2) \/ Step(w, Idle) BY <1>6 DEF Export
  <2>4. d1.cmd = c.cmd /\ d2.cmd = c.cmd BY <2>2
  <2> HIDE DEF d1, d2
  <2> QED BY <2>3, <2>4, <1>s
<1>7. CASE Wipe(w) \/ ImportSets(w) \/ ImportRules(w) \/ ImportUrls(w)
  <2>1. c \in ImportCommand
    BY <1>7, <1>0, CommandKinds DEF Wipe, ImportSets, ImportRules, ImportUrls
  <2>2. /\ [c EXCEPT !.at = "sets"].cmd = c.cmd
        /\ \A x : [c EXCEPT !.todo = @ \ {x}].cmd = c.cmd
        /\ \A n : [c EXCEPT !.sure = @ \cup {n}].cmd = c.cmd
    BY <2>1 DEF ImportCommand
  <2>3. CASE Wipe(w) BY <2>2, <2>3, <1>s DEF Wipe
  <2>4. CASE ImportSets(w)
    <3>1. CASE Step(w, [c EXCEPT !.at = "rules", !.todo = Listed(c.file.refs)])
      <4> DEFINE d == [c EXCEPT !.at = "rules", !.todo = Listed(c.file.refs)]
      <4>1. d.cmd = c.cmd BY <2>1 DEF ImportCommand
      <4>2. Step(w, d) BY <3>1
      <4> HIDE DEF d
      <4> QED BY <4>1, <4>2, <1>s
    <3>2. ASSUME NEW n, Step(w, [c EXCEPT !.todo = @ \ {n}]) PROVE proc'[w].cmd = c.cmd
      BY <2>2, <3>2, <1>s
    <3> QED BY <2>4, <3>1, <3>2 DEF ImportSets
  <2>5. ASSUME NEW n, MakeSure(w, n) PROVE proc'[w].cmd = c.cmd
    <3>1. Step(w, [c EXCEPT !.sure = @ \cup {n}]) BY <2>5 DEF MakeSure
    <3> QED BY <2>2, <3>1, <1>s
  <2>6. ASSUME NEW x, NEW N, Step(w, [c EXCEPT !.todo = @ \ {x}, !.sure = N])
        PROVE  proc'[w].cmd = c.cmd
    <3> DEFINE d == [c EXCEPT !.todo = @ \ {x}, !.sure = N]
    <3>1. d.cmd = c.cmd BY <2>1 DEF ImportCommand
    <3>2. Step(w, d) BY <2>6
    <3> HIDE DEF d
    <3> QED BY <3>1, <3>2, <1>s
  <2>7. CASE ImportRules(w)
    <3>1. CASE Step(w, [c EXCEPT !.at = "urls", !.todo = Listed(c.file.urls)])
      <4> DEFINE d == [c EXCEPT !.at = "urls", !.todo = Listed(c.file.urls)]
      <4>1. d.cmd = c.cmd BY <2>1 DEF ImportCommand
      <4>2. Step(w, d) BY <3>1
      <4> HIDE DEF d
      <4> QED BY <4>1, <4>2, <1>s
    <3> QED BY <2>7, <3>1, <2>5, <2>6 DEF ImportRules
  <2>8. CASE ImportUrls(w) BY <2>8, <2>5, <2>6, <1>s DEF ImportUrls
  <2> QED BY <1>7, <2>3, <2>4, <2>7, <2>8
<1> QED BY <1>1, <1>2, <1>3, <1>4, <1>5, <1>6, <1>7 DEF OwnStep

(* The steps of a deletion and of an import.                               *)
LEMMA OwnStepOf ==
  ASSUME NEW w, OwnStep(w)
  PROVE  /\ proc[w].cmd = "delete" => EndDelete(w) \/ \E n \in Name : DeleteRuleset(w, n)
         /\ proc[w].cmd = "import" =>
              Wipe(w) \/ ImportSets(w) \/ ImportRules(w) \/ ImportUrls(w)
BY DEF OwnStep, DeleteRuleset, EndDelete, EndDdns, EndEdit, NextRecord, Ingest, CreateUrl, Export,
       Wipe, ImportSets, ImportRules, ImportUrls

LEMMA DeleteGoesOn ==
  ASSUME TypeOK, AloneInv, [Next]_vars, NEW w \in Worker, alone' = w, proc'[w].cmd = "delete"
  PROVE  DeleteSoFar(proc[w])'
<1>0. proc'[w] # Idle BY DEF Idle
<1>1. CASE UNCHANGED vars
  BY <1>1 DEF vars, AloneInv, DeleteSoFar, Existing
<1>2. CASE BeginsAny(w)
  <2>1. PICK c : Begin(w, c) /\ (c.cmd = "delete" => \E N \in SUBSET Name : BeginDelete(w, N))
    BY <1>2, BeginsIs
  <2>2. proc'[w] = c BY <2>1, StepProc
  <2>3. PICK N \in SUBSET Name : BeginDelete(w, N) BY <2>1, <2>2
  <2>4. proc'[w] = [cmd |-> "delete", names |-> N, todo |-> N, records |-> ddns] /\ ddns' = ddns
    BY <2>3, StepProc DEF BeginDelete, Begin
  <2> QED BY <2>4 DEF DeleteSoFar
<1>3. CASE alone = w /\ OwnStep(w)
  <2>1. proc[w].cmd = "delete" BY <1>0, <1>3, OwnStepCmd
  <2>2. ~EndDelete(w) BY <1>0, StepProc DEF EndDelete
  <2>3. PICK n \in Name : DeleteRuleset(w, n) BY <1>3, <2>1, <2>2, OwnStepOf
  <2> DEFINE c == proc[w]
             d == [c EXCEPT !.todo = @ \ {n}]
  <2>4. proc'[w] = d BY <2>3, StepProc DEF DeleteRuleset
  <2>5. c \in DeleteCommand BY <2>1, CommandKinds DEF TypeOK
  <2>6. d.records = c.records /\ d.names = c.names /\ d.todo = c.todo \ {n}
    BY <2>5 DEF DeleteCommand
  <2> HIDE DEF d
  <2>7. DeleteSoFar(c) /\ ddns' = ddns BY <1>3, <2>1, <2>3 DEF AloneInv, DeleteRuleset
  <2>8. Existing' \subseteq Existing \ {n} BY <2>3 DEF DeleteRuleset, Existing, TypeOK
  <2>9. proc'[w].records = ddns' /\ (proc'[w].names \ proc'[w].todo) \cap Existing' = {}
    BY <2>4, <2>6, <2>7, <2>8 DEF DeleteSoFar
  <2> QED BY <2>9 DEF DeleteSoFar
<1> QED BY <1>1, <1>2, <1>3, AloneSteps

(* What a step of an import leaves of its command.                         *)
LEMMA ImportFields ==
  ASSUME NEW c \in ImportCommand
  PROVE  /\ \A to, S : LET d == [c EXCEPT !.at = to, !.todo = S]
                       IN  /\ d.file = c.file /\ d.replace = c.replace /\ d.sure = c.sure
                           /\ d.at = to /\ d.todo = S
         /\ \A S : LET d == [c EXCEPT !.todo = S]
                   IN  /\ d.file = c.file /\ d.replace = c.replace /\ d.sure = c.sure
                       /\ d.at = c.at /\ d.todo = S
         /\ \A to : LET d == [c EXCEPT !.at = to]
                    IN  /\ d.file = c.file /\ d.replace = c.replace /\ d.sure = c.sure
                        /\ d.at = to /\ d.todo = c.todo
         /\ \A N : LET d == [c EXCEPT !.sure = N]
                   IN  /\ d.file = c.file /\ d.replace = c.replace /\ d.sure = N
                       /\ d.at = c.at /\ d.todo = c.todo
         /\ \A S, N : LET d == [c EXCEPT !.todo = S, !.sure = N]
                      IN  /\ d.file = c.file /\ d.replace = c.replace /\ d.sure = N
                          /\ d.at = c.at /\ d.todo = S
BY DEF ImportCommand

LEMMA ImportParts ==
  ASSUME NEW c \in ImportCommand
  PROVE  /\ c.file \in Payload /\ c.sure \subseteq Name
         /\ SetsIn(c) \subseteq Listed(c.file.sets) /\ NamesIn(c) \subseteq Name
         /\ c.at \in {"wipe", "sets"} => c.todo \subseteq Listed(c.file.sets)
         /\ c.at = "rules" => c.todo \subseteq Listed(c.file.refs)
         /\ c.at = "urls" => c.todo \subseteq Listed(c.file.urls)
         /\ Listed(c.file.sets) \subseteq Name /\ Listed(c.file.refs) \subseteq Port
         /\ Listed(c.file.urls) \subseteq Path
         /\ \A n \in Listed(c.file.sets) : c.file.sets[n] \in Channels
         /\ \A p \in Listed(c.file.refs) : c.file.refs[p] \in SUBSET Name
         /\ \A u \in Listed(c.file.urls) : c.file.urls[u] \in SecretURL /\ c.file.urls[u].ruleset \in Name
<1>1. c.file \in Payload /\ c.sure \subseteq Name /\ c.todo \subseteq Listed(Part(c.at, c.file))
  BY DEF ImportCommand
<1>2. /\ Listed(c.file.sets) \subseteq Name /\ Listed(c.file.refs) \subseteq Port
      /\ Listed(c.file.urls) \subseteq Path
      /\ \A n \in Listed(c.file.sets) : c.file.sets[n] \in Channels
      /\ \A p \in Listed(c.file.refs) : c.file.refs[p] \in SUBSET Name
      /\ \A u \in Listed(c.file.urls) : c.file.urls[u] \in SecretURL
  BY <1>1 DEF Payload, Listed
<1>3. \A u \in Listed(c.file.urls) : c.file.urls[u].ruleset \in Name BY <1>2 DEF SecretURL
<1> QED BY <1>1, <1>2, <1>3 DEF Part, SetsIn, NamesIn

(* The names made sure of so far, and no more, are in the table besides    *)
(* the rulesets that were brought in.                                      *)
LEMMA ImportMore ==
  ASSUME NEW w \in Worker, NEW c \in ImportCommand, c.at # "wipe", ImportSoFar(c),
         NEW d, proc'[w] = d, d.at # "wipe", d.file = c.file,
         NEW N, SetsIn(d) = SetsIn(c), NamesIn(d) = NamesIn(c) \cup N,
         \A n \in Name : sets'[n] = IF n \in N /\ sets[n] = None THEN "all" ELSE sets[n],
         RowsAre(d, rules', urls'), SureToCome(d)
  PROVE  ImportSoFar(proc[w])'
<1>1. ASSUME NEW n \in Name
      PROVE  sets'[n] = IF n \in SetsIn(d) THEN d.file.sets[n]
                        ELSE IF n \in NamesIn(d) THEN "all" ELSE None
  <2>1. sets[n] = IF n \in SetsIn(c) THEN c.file.sets[n]
                  ELSE IF n \in NamesIn(c) THEN "all" ELSE None
    BY DEF ImportSoFar
  <2>2. n \in SetsIn(c) => c.file.sets[n] # None BY ImportParts, ConstantsAssumption
  <2>3. "all" # None BY ConstantsAssumption DEF Channels
  <2> QED BY <2>1, <2>2, <2>3
<1> QED BY <1>1 DEF ImportSoFar

(* A name is made sure of for a row that is to come.                       *)
LEMMA ImportSure ==
  ASSUME TypeOK, NEW w \in Worker, NEW c, c = proc[w], c \in ImportCommand, c.at \in {"rules", "urls"},
         ImportSoFar(c), NEW n \in Name, MakeSure(w, n), rules' = rules, urls' = urls,
         c.at = "rules" => \E p \in c.todo : n \in c.file.refs[p],
         c.at = "urls" => c.sure = {} /\ \E u \in c.todo : n = c.file.urls[u].ruleset
  PROVE  ImportSoFar(proc[w])'
<1> DEFINE d == [c EXCEPT !.sure = c.sure \cup {n}]
<1>1. proc'[w] = d BY StepProc DEF MakeSure
<1>2. d.file = c.file /\ d.sure = c.sure \cup {n} /\ d.at = c.at /\ d.todo = c.todo BY ImportFields
<1> HIDE DEF d
<1>3. SetsIn(d) = SetsIn(c) /\ RulesIn(d) = RulesIn(c) /\ UrlsIn(d) = UrlsIn(c)
  BY <1>2 DEF SetsIn, RulesIn, UrlsIn
<1>4. NamesIn(d) = NamesIn(c) \cup {n} BY <1>2, <1>3 DEF NamesIn
<1>5. \A m \in Name : sets'[m] = IF m \in {n} /\ sets[m] = None THEN "all" ELSE sets[m]
  BY DEF MakeSure, Ensured
<1>6. RowsAre(c, rules, urls) /\ SureToCome(c) BY DEF ImportSoFar
<1>7. RowsAre(d, rules', urls') BY <1>2, <1>3, <1>6 DEF RowsAre
<1>8. SureToCome(d) /\ d.at # "wipe" /\ c.at # "wipe" BY <1>2, <1>6 DEF SureToCome
<1> QED BY <1>1, <1>2, <1>3, <1>4, <1>5, <1>7, <1>8, ImportMore

(* The tables are emptied.                                                 *)
LEMMA ImportWipes ==
  ASSUME TypeOK, NEW w \in Worker, NEW c, c = proc[w], c \in ImportCommand, ImportSoFar(c), Wipe(w)
  PROVE  ImportSoFar(proc[w])'
<1> DEFINE d == [c EXCEPT !.at = "sets"]
<1>1. proc'[w] = d BY StepProc DEF Wipe
<1>2. c.todo = Listed(c.file.sets) /\ c.sure = {} BY DEF ImportSoFar, Wipe
<1>3. d.file = c.file /\ d.sure = {} /\ d.at = "sets" /\ d.todo = Listed(d.file.sets)
  BY <1>2, ImportFields
<1> HIDE DEF d
<1>4. SetsIn(d) = {} /\ RulesIn(d) = {} /\ UrlsIn(d) = {} BY <1>3 DEF SetsIn, RulesIn, UrlsIn
<1>5. NamesIn(d) = {} BY <1>3, <1>4 DEF NamesIn
<1>6. /\ \A n \in Name : sets'[n] = None
      /\ \A p \in Port : rules'[p] = None
      /\ \A u \in Path : urls'[u] = None
  BY DEF Wipe, WipedSets
<1>7. RowsAre(d, rules', urls') /\ SureToCome(d) BY <1>3, <1>4, <1>6 DEF RowsAre, SureToCome
<1> QED BY <1>1, <1>3, <1>4, <1>5, <1>6, <1>7 DEF ImportSoFar

(* A ruleset is brought in, or all of them are.                            *)
LEMMA ImportsSets ==
  ASSUME TypeOK, NEW w \in Worker, NEW c, c = proc[w], c \in ImportCommand, ImportSoFar(c), ImportSets(w)
  PROVE  ImportSoFar(proc[w])'
<1>0. c.at = "sets" /\ c.sure = {} /\ UNCHANGED <<rules, urls>>
  BY DEF ImportSoFar, SureToCome, ImportSets
<1>1. /\ \A p \in Port : rules'[p] = None
      /\ \A u \in Path : urls'[u] = None
      /\ NamesIn(c) = {} /\ SetsIn(c) = Listed(c.file.sets) \ c.todo
      /\ \A n \in Name : sets[n] = IF n \in SetsIn(c) THEN c.file.sets[n] ELSE None
  BY <1>0 DEF ImportSoFar, RowsAre, SetsIn, RulesIn, UrlsIn, NamesIn
<1>2. CASE /\ c.todo = {} /\ UNCHANGED sets
           /\ Step(w, [c EXCEPT !.at = "rules", !.todo = Listed(c.file.refs)])
  <2> DEFINE d == [c EXCEPT !.at = "rules", !.todo = Listed(c.file.refs)]
  <2>1. proc'[w] = d BY <1>2, StepProc
  <2>2. d.file = c.file /\ d.sure = {} /\ d.at = "rules" /\ d.todo = Listed(d.file.refs)
    BY <1>0, ImportFields
  <2> HIDE DEF d
  <2>3. SetsIn(d) = SetsIn(c) /\ RulesIn(d) = {} /\ UrlsIn(d) = {}
    BY <1>1, <1>2, <2>2 DEF SetsIn, RulesIn, UrlsIn
  <2>4. NamesIn(d) = {} BY <2>2, <2>3 DEF NamesIn
  <2>5. RowsAre(d, rules', urls') /\ SureToCome(d) BY <1>1, <2>2, <2>3 DEF RowsAre, SureToCome
  <2> QED BY <1>1, <1>2, <2>1, <2>2, <2>3, <2>4, <2>5 DEF ImportSoFar
<1>3. ASSUME NEW n \in c.todo, sets' = [sets EXCEPT ![n] = c.file.sets[n]],
             Step(w, [c EXCEPT !.todo = @ \ {n}])
      PROVE  ImportSoFar(proc[w])'
  <2> DEFINE d == [c EXCEPT !.todo = c.todo \ {n}]
  <2>1. proc'[w] = d BY <1>3, StepProc
  <2>2. d.file = c.file /\ d.sure = {} /\ d.at = "sets" /\ d.todo = c.todo \ {n}
    BY <1>0, ImportFields
  <2> HIDE DEF d
  <2>3. n \in Listed(c.file.sets) /\ n \in Name BY <1>0, ImportParts
  <2>4. SetsIn(d) = SetsIn(c) \cup {n} /\ RulesIn(d) = {} /\ UrlsIn(d) = {}
    BY <1>1, <2>2, <2>3 DEF SetsIn, RulesIn, UrlsIn
  <2>5. NamesIn(d) = {} BY <2>2, <2>4 DEF NamesIn
  <2>6. \A m \in Name : sets'[m] = IF m \in SetsIn(d) THEN d.file.sets[m] ELSE None
    BY <1>1, <1>3, <2>2, <2>3, <2>4 DEF TypeOK
  <2>7. RowsAre(d, rules', urls') /\ SureToCome(d) BY <1>1, <2>2, <2>4 DEF RowsAre, SureToCome
  <2> QED BY <1>1, <2>1, <2>2, <2>4, <2>5, <2>6, <2>7 DEF ImportSoFar
<1> QED BY <1>2, <1>3 DEF ImportSets

(* A rule is brought in after its names, or all of them are.               *)
LEMMA ImportsRules ==
  ASSUME TypeOK, NEW w \in Worker, NEW c, c = proc[w], c \in ImportCommand, ImportSoFar(c), ImportRules(w)
  PROVE  ImportSoFar(proc[w])'
<1>0. c.at = "rules" /\ UNCHANGED urls BY DEF ImportRules
<1>1. /\ \A p \in Port : IF p \in RulesIn(c) THEN rules[p] # None /\ rules[p].refs = c.file.refs[p]
                         ELSE rules[p] = None
      /\ \A u \in Path : urls'[u] = None
      /\ RulesIn(c) = Listed(c.file.refs) \ c.todo /\ UrlsIn(c) = {}
      /\ SetsIn(c) = Listed(c.file.sets)
      /\ \A n \in c.sure : \E p \in c.todo : n \in c.file.refs[p]
  BY <1>0 DEF ImportSoFar, RowsAre, SureToCome, RulesIn, UrlsIn, SetsIn
<1>2. CASE /\ c.todo = {} /\ UNCHANGED <<sets, rules>>
           /\ Step(w, [c EXCEPT !.at = "urls", !.todo = Listed(c.file.urls)])
  <2> DEFINE d == [c EXCEPT !.at = "urls", !.todo = Listed(c.file.urls)]
  <2>1. proc'[w] = d BY <1>2, StepProc
  <2>2. d.file = c.file /\ d.sure = {} /\ d.at = "urls" /\ d.todo = Listed(d.file.urls)
    BY <1>1, <1>2, ImportFields
  <2> HIDE DEF d
  <2>3. SetsIn(d) = SetsIn(c) /\ RulesIn(d) = RulesIn(c) /\ UrlsIn(d) = {}
    BY <1>1, <1>2, <2>2 DEF SetsIn, RulesIn, UrlsIn
  <2>4. c.sure = {} BY <1>1, <1>2
  <2>5. NamesIn(d) = NamesIn(c) \cup {} BY <1>1, <2>2, <2>3, <2>4 DEF NamesIn
  <2>6. \A n \in Name : sets'[n] = IF n \in {} /\ sets[n] = None THEN "all" ELSE sets[n]
    BY <1>2
  <2>7. RowsAre(d, rules', urls') BY <1>1, <1>2, <2>2, <2>3 DEF RowsAre
  <2>8. SureToCome(d) /\ d.at # "wipe" /\ c.at # "wipe" BY <1>0, <2>2 DEF SureToCome
  <2> QED BY <2>1, <2>2, <2>3, <2>5, <2>6, <2>7, <2>8, ImportMore
<1>3. ASSUME NEW p \in c.todo, NEW n \in Unsure(c, c.file.refs[p]), MakeSure(w, n), UNCHANGED rules
      PROVE  ImportSoFar(proc[w])'
  <2>1. n \in c.file.refs[p] /\ n \in Name BY <1>0, ImportParts DEF Unsure
  <2> QED BY <1>0, <1>3, <2>1, ImportSure
<1>4. ASSUME NEW p \in c.todo, c.sure \subseteq c.file.refs[p], Unsure(c, c.file.refs[p]) = {},
             rules' = Upserted(p, c.file.refs[p]), UNCHANGED sets,
             Step(w, [c EXCEPT !.todo = @ \ {p}, !.sure = {}])
      PROVE  ImportSoFar(proc[w])'
  <2> DEFINE d == [c EXCEPT !.todo = c.todo \ {p}, !.sure = {}]
  <2>1. proc'[w] = d BY <1>4, StepProc
  <2>2. d.file = c.file /\ d.sure = {} /\ d.at = "rules" /\ d.todo = c.todo \ {p}
    BY <1>0, ImportFields
  <2> HIDE DEF d
  <2>3. p \in Listed(c.file.refs) /\ p \in Port BY <1>0, ImportParts
  <2>4. SetsIn(d) = SetsIn(c) /\ RulesIn(d) = RulesIn(c) \cup {p} /\ UrlsIn(d) = {}
    BY <1>1, <2>2, <2>3 DEF SetsIn, RulesIn, UrlsIn
  <2>5. c.sure = c.file.refs[p] BY <1>4 DEF Unsure
  <2>6. NamesIn(d) = NamesIn(c) \cup {} BY <1>1, <2>2, <2>4, <2>5 DEF NamesIn
  <2>7. \A n \in Name : sets'[n] = IF n \in {} /\ sets[n] = None THEN "all" ELSE sets[n]
    BY <1>4
  <2>8. \A q \in Port : rules'[q] = IF q = p
                                    THEN [id |-> IF rules[p] = None THEN ids + 1 ELSE rules[p].id,
                                          refs |-> c.file.refs[p]]
                                    ELSE rules[q]
    BY <1>4, <2>3 DEF Upserted, TypeOK
  <2>9. rules'[p] # None /\ rules'[p].refs = c.file.refs[p]
    <3> DEFINE r == [id |-> IF rules[p] = None THEN ids + 1 ELSE rules[p].id,
                     refs |-> c.file.refs[p]]
    <3>1. r \in Rule BY <2>3, ImportParts DEF Rule, TypeOK
    <3> QED BY <2>3, <2>8, <3>1, ConstantsAssumption
  <2>10. RowsAre(d, rules', urls') BY <1>1, <2>2, <2>4, <2>8, <2>9 DEF RowsAre
  <2>11. SureToCome(d) /\ d.at # "wipe" /\ c.at # "wipe" BY <1>0, <2>2 DEF SureToCome
  <2> QED BY <2>1, <2>2, <2>4, <2>6, <2>7, <2>10, <2>11, ImportMore
<1> QED BY <1>2, <1>3, <1>4 DEF ImportRules

(* A URL is brought in with the name of the next one.                      *)
LEMMA ImportsUrls ==
  ASSUME TypeOK, NEW w \in Worker, NEW c, c = proc[w], c \in ImportCommand, ImportSoFar(c),
         ImportUrls(w), proc'[w] # Idle
  PROVE  ImportSoFar(proc[w])'
<1>0. c.at = "urls" /\ UNCHANGED rules BY DEF ImportUrls
<1>1. /\ RowsAre(c, rules, urls) /\ SureToCome(c)
      /\ RulesIn(c) = Listed(c.file.refs) /\ UrlsIn(c) = Listed(c.file.urls) \ c.todo
      /\ SetsIn(c) = Listed(c.file.sets)
  BY <1>0 DEF ImportSoFar, RulesIn, UrlsIn, SetsIn
<1>2. CASE Step(w, Idle) BY <1>2, StepProc
<1>3. ASSUME c.sure = {}, NEW u \in c.todo, MakeSure(w, c.file.urls[u].ruleset), UNCHANGED urls
      PROVE  ImportSoFar(proc[w])'
  <2>1. c.file.urls[u].ruleset \in Name BY <1>0, ImportParts
  <2> QED BY <1>0, <1>3, <2>1, ImportSure
<1>4. ASSUME NEW u \in c.todo, NEW N \in Following(c, u), c.file.urls[u].ruleset \in c.sure,
             urls' = [urls EXCEPT ![u] = c.file.urls[u]], sets' = Ensured(N),
             Step(w, [c EXCEPT !.todo = @ \ {u}, !.sure = N])
      PROVE  ImportSoFar(proc[w])'
  <2> DEFINE d == [c EXCEPT !.todo = c.todo \ {u}, !.sure = N]
  <2>1. proc'[w] = d BY <1>4, StepProc
  <2>2. d.file = c.file /\ d.sure = N /\ d.at = "urls" /\ d.todo = c.todo \ {u}
    BY <1>0, ImportFields
  <2> HIDE DEF d
  <2>3. u \in Listed(c.file.urls) /\ u \in Path BY <1>0, ImportParts
  <2>4. SetsIn(d) = SetsIn(c) /\ RulesIn(d) = RulesIn(c) /\ UrlsIn(d) = UrlsIn(c) \cup {u}
    BY <1>1, <2>2, <2>3 DEF SetsIn, RulesIn, UrlsIn
  <2>5. N = {} \/ \E v \in c.todo \ {u} : N = {c.file.urls[v].ruleset} BY DEF Following
  <2>6. N \subseteq Name
    <3>1. \A v \in c.todo : c.file.urls[v].ruleset \in Name BY <1>0, ImportParts
    <3> QED BY <2>5, <3>1
  <2>7. c.sure = {c.file.urls[u].ruleset} BY <1>0, <1>1, <1>4 DEF SureToCome
  <2>8. NamesIn(d) = NamesIn(c) \cup N BY <1>1, <2>2, <2>4, <2>6, <2>7 DEF NamesIn
  <2>9. \A n \in Name : sets'[n] = IF n \in N /\ sets[n] = None THEN "all" ELSE sets[n]
    BY <1>4 DEF Ensured
  <2>10. RowsAre(d, rules', urls') BY <1>0, <1>1, <1>4, <2>2, <2>3, <2>4 DEF RowsAre, TypeOK
  <2>11. SureToCome(d) /\ d.at # "wipe" /\ c.at # "wipe" BY <1>0, <2>2, <2>5 DEF SureToCome
  <2> QED BY <2>1, <2>2, <2>4, <2>8, <2>9, <2>10, <2>11, ImportMore
<1> QED BY <1>2, <1>3, <1>4 DEF ImportUrls

(* An import of one kind stays one of that kind.                           *)
LEMMA ImportReplacesStill ==
  ASSUME TypeOK, NEW w \in Worker, proc[w] \in ImportCommand, proc'[w] # Idle,
         Wipe(w) \/ ImportSets(w) \/ ImportRules(w) \/ ImportUrls(w)
  PROVE  proc'[w].replace = proc[w].replace
<1> DEFINE c == proc[w]
<1>1. ASSUME NEW d, Step(w, d) PROVE proc'[w] = d BY <1>1, StepProc
<1>2. ASSUME NEW n, MakeSure(w, n) PROVE proc'[w].replace = c.replace
  <2> DEFINE d == [c EXCEPT !.sure = c.sure \cup {n}]
  <2>1. Step(w, d) BY <1>2 DEF MakeSure
  <2>2. d.replace = c.replace BY ImportFields
  <2> HIDE DEF d
  <2> QED BY <2>1, <2>2, <1>1
<1>3. ASSUME NEW x, NEW N, Step(w, [c EXCEPT !.todo = @ \ {x}, !.sure = N])
      PROVE  proc'[w].replace = c.replace
  <2> DEFINE d == [c EXCEPT !.todo = c.todo \ {x}, !.sure = N]
  <2>1. Step(w, d) BY <1>3
  <2>2. d.replace = c.replace BY ImportFields
  <2> HIDE DEF d
  <2> QED BY <2>1, <2>2, <1>1
<1>4. ASSUME NEW to, NEW S, Step(w, [c EXCEPT !.at = to, !.todo = S])
      PROVE  proc'[w].replace = c.replace
  <2> DEFINE d == [c EXCEPT !.at = to, !.todo = S]
  <2>1. Step(w, d) BY <1>4
  <2>2. d.replace = c.replace BY ImportFields
  <2> HIDE DEF d
  <2> QED BY <2>1, <2>2, <1>1
<1>5. CASE Wipe(w)
  <2> DEFINE d == [c EXCEPT !.at = "sets"]
  <2>1. Step(w, d) BY <1>5 DEF Wipe
  <2>2. d.replace = c.replace BY ImportFields
  <2> HIDE DEF d
  <2> QED BY <2>1, <2>2, <1>1
<1>6. CASE ImportSets(w)
  <2>1. ASSUME NEW n, Step(w, [c EXCEPT !.todo = @ \ {n}]) PROVE proc'[w].replace = c.replace
    <3> DEFINE d == [c EXCEPT !.todo = c.todo \ {n}]
    <3>1. Step(w, d) BY <2>1
    <3>2. d.replace = c.replace BY ImportFields
    <3> HIDE DEF d
    <3> QED BY <3>1, <3>2, <1>1
  <2> QED BY <1>4, <1>6, <2>1 DEF ImportSets
<1>7. CASE ImportRules(w) BY <1>2, <1>3, <1>4, <1>7 DEF ImportRules
<1>8. CASE ImportUrls(w)
  <2>1. ~Step(w, Idle) BY <1>1
  <2> QED BY <1>2, <1>3, <1>8, <2>1 DEF ImportUrls
<1> QED BY <1>5, <1>6, <1>7, <1>8

LEMMA ImportGoesOn ==
  ASSUME TypeOK, AloneInv, [Next]_vars, NEW w \in Worker, alone' = w,
         proc'[w].cmd = "import", proc'[w].replace
  PROVE  ImportSoFar(proc[w])'
<1>0. proc'[w] # Idle BY DEF Idle
<1>1. CASE UNCHANGED vars
  <2>1. UNCHANGED <<sets, rules, urls, proc, alone>> BY <1>1 DEF vars
  <2>2. ImportSoFar(proc[w]) BY <2>1 DEF AloneInv
  <2> QED BY <2>1, <2>2 DEF ImportSoFar
<1>2. CASE BeginsAny(w)
  <2>1. PICK c : Begin(w, c) /\ (c.cmd = "import" => \E replace \in BOOLEAN : BeginImport(w, replace))
    BY <1>2, BeginsIs
  <2>2. PICK replace \in BOOLEAN : BeginImport(w, replace) BY <2>1, StepProc
  <2> DEFINE d == [cmd |-> "import", at |-> IF replace THEN "wipe" ELSE "sets", replace |-> replace,
                   file |-> backup, sure |-> {}, todo |-> Listed(backup.sets)]
  <2>3. proc'[w] = d BY <2>2, StepProc DEF BeginImport
  <2>4. d.replace = replace /\ d.file = backup /\ d.sure = {} /\ d.todo = Listed(backup.sets)
        /\ (replace => d.at = "wipe")
    OBVIOUS
  <2> HIDE DEF d
  <2>5. d.at = "wipe" /\ d.todo = Listed(d.file.sets) /\ d.sure = {} BY <2>3, <2>4
  <2> QED BY <2>3, <2>5 DEF ImportSoFar
<1>3. CASE alone = w /\ OwnStep(w)
  <2>1. proc[w].cmd = "import" BY <1>0, <1>3, OwnStepCmd
  <2>2. proc[w] \in ImportCommand BY <2>1, CommandKinds DEF TypeOK
  <2>3. Wipe(w) \/ ImportSets(w) \/ ImportRules(w) \/ ImportUrls(w) BY <1>3, <2>1, OwnStepOf
  <2>4. ImportSoFar(proc[w]) BY <1>0, <1>3, <2>1, <2>2, <2>3, ImportReplacesStill DEF AloneInv
  <2> QED BY <1>0, <2>2, <2>3, <2>4, ImportWipes, ImportsSets, ImportsRules, ImportsUrls
<1> QED BY <1>1, <1>2, <1>3, AloneSteps

LEMMA AloneStep == TypeOK /\ AloneInv /\ [Next]_vars => AloneInv'
BY DeleteGoesOn, ImportGoesOn DEF AloneInv

LEMMA AloneInit == Init => AloneInv
BY ConstantsAssumption DEF Init, AloneInv

(* If the tables begin without a dangling reference, a ruleset delete that *)
(* runs by itself leaves no reference to what it deletes and no DDNS       *)
(* record of it, whatever deletions were killed half way before            *)
(* (cmd_ruleset).                                                          *)
THEOREM DeletionCleans == Spec /\ RefsExist => DeleteCleans
<1>1. ASSUME TypeOK, TypeOK', AloneInv, RefsExist', [Next]_vars, NEW w \in Worker, EndsAlone(w, "delete"),
             NEW n \in proc[w].names
      PROVE  /\ n \notin ddns' \cup Existing'
             /\ n \notin raced => Referring(n)' = {} /\ Active(n)' = {}
  <2>1. OwnStep(w) /\ proc[w].cmd = "delete" /\ proc'[w] = Idle /\ alone = w BY <1>1, EndSteps
  <2>2. proc[w] \in DeleteCommand BY <2>1, CommandKinds, <1>1 DEF TypeOK
  <2>3. ASSUME NEW m \in Name, DeleteRuleset(w, m) PROVE FALSE
    <3> DEFINE d == [proc[w] EXCEPT !.todo = @ \ {m}]
    <3>1. d.cmd = "delete" BY <2>2 DEF DeleteCommand
    <3>2. Step(w, d) BY <2>3 DEF DeleteRuleset
    <3> HIDE DEF d
    <3> QED BY <1>1, <2>1, <3>1, <3>2, StepProc DEF Idle
  <2>4. EndDelete(w) BY <2>1, <2>3, OwnStepOf
  <2>5. /\ proc[w].todo = {} /\ ddns' = Purged(proc[w]) /\ raced' = raced /\ sets' = sets
    BY <2>4 DEF EndDelete
  <2>6. proc[w].records = ddns /\ proc[w].names \cap Existing = {}
    BY <1>1, <2>1, <2>5 DEF AloneInv, DeleteSoFar
  <2>7. n \in Name BY <1>1, <2>2 DEF DeleteCommand
  <2>8. n \notin ddns' BY <1>1, <2>5, <2>6 DEF Purged
  <2>9. n \notin Existing' BY <1>1, <2>5, <2>6 DEF Existing
  <2>10. n \notin raced => Referring(n)' = {} /\ Active(n)' = {}
    BY <1>1, <2>5, <2>7, <2>9 DEF RefsExist
  <2> QED BY <2>8, <2>9, <2>10
<1>2. TypeOK /\ TypeOK' /\ AloneInv /\ RefsExist' /\ [Next]_vars =>
        [\A w \in Worker : EndsAlone(w, "delete") =>
           \A n \in proc[w].names :
             /\ n \notin ddns' \cup Existing'
             /\ n \notin raced => Referring(n)' = {} /\ Active(n)' = {}]_vars
  BY <1>1
<1> QED BY <1>2, TypeInit, TypeStep, AloneInit, AloneStep, RefsAlwaysExist, PTL DEF Spec, DeleteCleans

(* An import --replace that runs by itself makes the tables what its file  *)
(* says, whatever they held and whatever an import that was killed has     *)
(* left (cmd_import).                                                      *)
THEOREM ImportMakesFile == Spec => ImportReplaces
<1>1. ASSUME TypeOK, AloneInv, [Next]_vars, NEW w \in Worker, EndsAlone(w, "import"), proc[w].replace
      PROVE  LET file == proc[w].file
             IN  /\ sets' = [n \in Name |-> IF file.sets[n] # None THEN file.sets[n]
                                            ELSE IF n \in NamedIn(file) THEN "all" ELSE None]
                 /\ urls' = file.urls /\ ddns' = file.ddns
                 /\ \A p \in Port : IF file.refs[p] = None THEN rules'[p] = None
                                     ELSE rules'[p] # None /\ rules'[p].refs = file.refs[p]
  <2> DEFINE c == proc[w]
             file == c.file
  <2>1. OwnStep(w) /\ c.cmd = "import" /\ proc'[w] = Idle /\ alone = w BY <1>1, EndSteps
  <2>2. c \in ImportCommand BY <2>1, CommandKinds, <1>1 DEF TypeOK
  <2>3. ImportSoFar(c) BY <1>1, <2>1 DEF AloneInv
  <2>4. c.at = "urls" /\ c.todo = {} /\ ddns' = file.ddns /\ UNCHANGED <<sets, urls, rules>>
    <3>0. Idle.cmd # "import" BY DEF Idle
    <3>1. ASSUME NEW d, Step(w, d) PROVE d = Idle BY <1>1, <2>1, <3>1, StepProc
    <3>c. ASSUME NEW S, NEW N, NEW to
          PROVE  /\ [c EXCEPT !.todo = S].cmd = "import" /\ [c EXCEPT !.at = to].cmd = "import"
                 /\ [c EXCEPT !.sure = N].cmd = "import"
      BY <2>2 DEF ImportCommand
    <3>2. ~Wipe(w)
      <4>1. ~Step(w, [c EXCEPT !.at = "sets"]) BY <3>0, <3>1, <3>c
      <4> QED BY <4>1 DEF Wipe
    <3>3. ASSUME NEW n PROVE ~MakeSure(w, n)
      <4>1. ~Step(w, [c EXCEPT !.sure = c.sure \cup {n}]) BY <3>0, <3>1, <3>c
      <4> QED BY <4>1 DEF MakeSure
    <3>4. ASSUME NEW x, NEW N PROVE ~Step(w, [c EXCEPT !.todo = c.todo \ {x}, !.sure = N])
      <4> DEFINE d == [c EXCEPT !.todo = c.todo \ {x}, !.sure = N]
      <4>1. d.cmd = "import" BY <2>2 DEF ImportCommand
      <4> HIDE DEF d
      <4>2. ~Step(w, d) BY <4>1, <3>0, <3>1
      <4> QED BY <4>2 DEF d
    <3>5. ASSUME NEW to, NEW S PROVE ~Step(w, [c EXCEPT !.at = to, !.todo = S])
      <4> DEFINE d == [c EXCEPT !.at = to, !.todo = S]
      <4>1. d.cmd = "import" BY <2>2 DEF ImportCommand
      <4> HIDE DEF d
      <4>2. ~Step(w, d) BY <4>1, <3>0, <3>1
      <4> QED BY <4>2 DEF d
    <3>6. ASSUME NEW n PROVE ~Step(w, [c EXCEPT !.todo = c.todo \ {n}])
      BY <3>0, <3>1, <3>c
    <3>7. ~ImportSets(w) BY <3>5, <3>6 DEF ImportSets
    <3>8. ~ImportRules(w) BY <3>3, <3>4, <3>5 DEF ImportRules
    <3>9. ImportUrls(w) BY <2>1, <3>2, <3>7, <3>8, OwnStepOf
    <3> QED BY <3>3, <3>4, <3>9 DEF ImportUrls
  <2>5. file \in Payload BY <2>2, ImportParts
  <2>6. /\ SetsIn(c) = Listed(file.sets) /\ RulesIn(c) = Listed(file.refs)
        /\ UrlsIn(c) = Listed(file.urls) /\ c.sure = {}
    BY <2>3, <2>4 DEF ImportSoFar, SureToCome, SetsIn, RulesIn, UrlsIn
  <2>7. /\ \A n \in Name : n \in SetsIn(c) <=> file.sets[n] # None
        /\ \A p \in Port : p \in RulesIn(c) <=> file.refs[p] # None
        /\ \A u \in Path : u \in UrlsIn(c) <=> file.urls[u] # None
    BY <2>5, <2>6 DEF Listed, Payload
  <2>8. \A n \in Name : file.sets[n] = None => (n \in NamesIn(c) <=> n \in NamedIn(file))
    <3>1. /\ RulesIn(c) \subseteq Port /\ UrlsIn(c) \subseteq Path BY <2>2, <2>6, ImportParts
    <3> QED BY <2>6, <2>7, <3>1 DEF NamesIn, NamedIn
  <2>9. /\ \A n \in Name : sets[n] = IF n \in SetsIn(c) THEN file.sets[n]
                                     ELSE IF n \in NamesIn(c) THEN "all" ELSE None
        /\ RowsAre(c, rules, urls)
    BY <2>3, <2>4 DEF ImportSoFar
  <2>10. sets' = [n \in Name |-> IF file.sets[n] # None THEN file.sets[n]
                                 ELSE IF n \in NamedIn(file) THEN "all" ELSE None]
    <3>1. sets' = sets /\ sets = [n \in Name |-> sets[n]] BY <1>1, <2>4 DEF TypeOK
    <3>2. ASSUME NEW n \in Name
          PROVE  sets[n] = IF file.sets[n] # None THEN file.sets[n]
                           ELSE IF n \in NamedIn(file) THEN "all" ELSE None
      BY <2>7, <2>8, <2>9
    <3> HIDE DEF file
    <3> QED BY <3>1, <3>2
  <2>11. urls' = file.urls
    <3>1. \A u \in Path : urls[u] = file.urls[u] BY <2>7, <2>9 DEF RowsAre
    <3>2. urls \in [Path -> {None} \cup SecretURL] /\ file.urls \in [Path -> {None} \cup SecretURL]
      BY <1>1, <2>5 DEF TypeOK, Payload
    <3> QED BY <2>4, <3>1, <3>2
  <2>12. \A p \in Port : IF file.refs[p] = None THEN rules'[p] = None
                         ELSE rules'[p] # None /\ rules'[p].refs = file.refs[p]
    BY <2>4, <2>7, <2>9 DEF RowsAre
  <2> QED BY <2>4, <2>10, <2>11, <2>12
<1>2. TypeOK /\ AloneInv /\ [Next]_vars =>
        [\A w \in Worker : EndsAlone(w, "import") /\ proc[w].replace =>
           LET file == proc[w].file
           IN  /\ sets' = [n \in Name |-> IF file.sets[n] # None THEN file.sets[n]
                                          ELSE IF n \in NamedIn(file) THEN "all" ELSE None]
               /\ urls' = file.urls /\ ddns' = file.ddns
               /\ \A p \in Port : IF file.refs[p] = None THEN rules'[p] = None
                                   ELSE rules'[p] # None /\ rules'[p].refs = file.refs[p]]_vars
  BY <1>1
<1> QED BY <1>2, TypeInit, TypeStep, AloneInit, AloneStep, PTL DEF Spec, ImportReplaces
=============================================================================
