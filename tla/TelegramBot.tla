------------------------------ MODULE TelegramBot ------------------------------
(***************************************************************************)
(* The Telegram bot of the exit node: the loop that fetches updates        *)
(* (telegram_bot.run) and the dialogue of one chat. Presses of inline      *)
(* buttons and texts arrive as updates; a handler reads and writes the     *)
(* chat's pending action, which lives in memory only, runs commands on the *)
(* relay, and edits the message that was pressed or sends a new one.       *)
(* Handlers run one after the other; what interleaves with them is the     *)
(* user, who presses buttons of what was on the screen, another            *)
(* administrator, restarts, and answers of the relay and of Telegram that  *)
(* do not come.                                                            *)
(*                                                                         *)
(* A message's screen is what its keyboard offers: "menu" stands for every *)
(* screen without a selection, "list" for the four lists to delete from,   *)
(* "rule" and "sets" for a forwarding rule and the custom rule sets of it. *)
(* The pages of the recording and of the blocked history are menus here:   *)
(* what they show is left out, what they do to the pending action is not.  *)
(***************************************************************************)
EXTENDS Naturals, Sequences, FiniteSets

CONSTANTS
  Name, Id,    \* custom rule sets; ids of sources, secret URLs, DDNS records
  Rule,        \* forwarding rules
  Message,     \* the messages whose keyboards the user still uses
  Lists,       \* the lists to delete from that the user opens
  Asked,       \* the prompts that the user answers
  Texts,       \* the texts that the user sends
  MaxUpdates,  \* bound: updates the chat ever sends
  MaxInbox,    \* bound: updates that Telegram keeps at a time
  Fault,       \* which faults happen
  MaxFaults,   \* bound: how many of them
  None

AllLists == {"ruleset", "source", "secret", "ddns"}
Prompts == {"ruleset_create", "source_add", "ddns_add", "add_rule", "remove_rule",
            "change_rulesets", "edit_rule_field", "edit_rule_note"}
Pages == {"capture_input", "log_filter"}
TextKinds == {"start", "command", "good", "bad"}
FaultKinds == {"relay", "edit", "lost", "restart", "other"}

ASSUME ConstantsAssumption ==
  /\ Id \subseteq Nat \ {0} /\ Name \cap Id = {} /\ None \notin Message
  /\ Lists \subseteq AllLists /\ Asked \subseteq Prompts \cup Pages
  /\ Texts \subseteq TextKinds /\ Fault \subseteq FaultKinds
  /\ MaxUpdates \in Nat /\ MaxInbox \in Nat /\ MaxFaults \in Nat

VARIABLES
  inbox,    \* updates that Telegram has and the bot has not confirmed
  sent,     \* number of the last update
  batch,    \* updates fetched and not handled yet
  offset,   \* the bot's offset, in memory
  pending,  \* PENDING_ACTIONS of the chat
  screen,   \* the keyboard of each message
  rows,     \* the relay's rows, as each list shows them
  given,    \* the last id of a secret URL
  sets,     \* custom rule sets of each forwarding rule
  faults,
  done,     \* history: the update that was handled last since the start
  ever,     \* history: the last update that was ever handled
  toggled,  \* history: <<list, row>> that the user ever selected
  astray    \* history: the user pressed what was no longer on the screen,
            \* used another message than the one with a selection, or did
            \* not get to see an answer; or the bot restarted

loop    == <<inbox, sent, batch, offset>>
relay   == <<rows, given, sets>>
history == <<done, ever, toggled, astray>>
vars    == <<loop, pending, screen, relay, faults, history>>

Items(l) == IF l = "ruleset" THEN Name ELSE Id

NoPending == [action |-> "none", on |-> None, selected |-> {}]
Menu == [at |-> "menu", on |-> None, shown |-> {}]
RuleScreen(p) == [Menu EXCEPT !.at = "rule", !.on = p]
Unused == [Menu EXCEPT !.at = "unused"]

(* What is pending is a selection of one list, of one rule's sets, or a    *)
(* prompt, and only the first two hold selected rows. The updates fetched  *)
(* are among those that Telegram still has.                                *)
TypeOK ==
  /\ sent \in 0..MaxUpdates /\ offset \in 0..(MaxUpdates + 1)
  /\ Len(inbox) <= MaxInbox /\ Len(batch) <= Len(inbox)
  /\ pending.action \in {"none", "delete", "sets", "input"}
  /\ pending.action = "delete" => pending.on \in Lists
  /\ pending.action = "sets" => pending.on \in Rule
  /\ pending.selected \subseteq Name \cup Id
  /\ pending.action \in {"none", "input"} => pending.selected = {}
  /\ \A l \in AllLists : rows[l] \subseteq Items(l)
  /\ sets \in [Rule -> SUBSET rows["ruleset"]]
  /\ faults \in 0..MaxFaults

(* The bot starts with an empty memory; the chat has one menu.             *)
Init ==
  /\ inbox = <<>> /\ sent = 0 /\ batch = <<>> /\ offset = 0
  /\ pending = NoPending
  /\ screen = [n \in Message |-> IF n = CHOOSE m \in Message : TRUE THEN Menu ELSE Unused]
  /\ rows = [l \in AllLists |-> CASE l = "ruleset" -> Name [] l = "secret" -> {} [] OTHER -> Id]
  /\ given = 0
  /\ sets = [p \in Rule |-> Name]
  /\ faults = 0
  /\ done = 0 /\ ever = 0 /\ toggled = {} /\ astray = FALSE
-----------------------------------------------------------------------------
(* What the keyboard of a message offers: <<what to do, on what, item>>.   *)
Buttons(s) ==
  CASE s.at = "unused" -> {}
    [] s.at = "menu" ->
         {<<"open", l, None>> : l \in Lists} \cup {<<"rule", p, None>> : p \in Rule}
           \cup {<<"ask", k, None>> : k \in Asked \ Pages}
           \cup {<<"page", k, None>> : k \in Asked \cap Pages}
           \cup {<<"create", None, None>>, <<"menu", None, None>>}
    [] s.at = "list" ->
         {<<"toggle", s.on, i>> : i \in s.shown}
           \cup {<<d, s.on, None>> : d \in {"clear", "delete"}} \cup {<<"menu", None, None>>}
    [] s.at = "rule" -> {<<"sets", s.on, None>>, <<"change", s.on, None>>, <<"menu", None, None>>}
    [] s.at = "sets" ->
         {<<"setsToggle", s.on, n>> : n \in s.shown}
           \cup {<<d, s.on, None>> : d \in {"setsClear", "save", "rule"}}

Sends(m, d, x, i) ==
  /\ sent < MaxUpdates /\ Len(inbox) < MaxInbox
  /\ sent' = sent + 1
  /\ inbox' = Append(inbox, [no |-> sent + 1, msg |-> m, do |-> d, on |-> x, item |-> i])
  /\ UNCHANGED <<batch, offset, pending, screen, relay, faults, history>>

(* The user, who does not wait for the answer to the press before.         *)
Press(m) == \E b \in Buttons(screen[m]) : Sends(m, b[1], b[2], b[3])
Text(t) == Sends(None, "text", t, None)
-----------------------------------------------------------------------------
(* getUpdates: Telegram forgets what is below the offset, the first k, and *)
(* sends the rest. A call that fails changes nothing and is repeated.      *)
Poll ==
  /\ batch = <<>>
  /\ \E k \in 0..Len(inbox) :
       /\ \A i \in DOMAIN inbox : i <= k <=> inbox[i].no < offset
       /\ inbox' = SubSeq(inbox, k + 1, Len(inbox))
       /\ batch' = inbox'
  /\ UNCHANGED <<sent, offset, pending, screen, relay, faults, history>>

(* Mutant: an update whose handler raises is fetched again. *)
OffsetIfHandled(u, raised) == IF raised THEN offset ELSE u.no + 1

(* The offset is past an update before its handler runs. *)
OffsetAfter(u, raised) == u.no + 1

(* A handler that raises ends the batch; the rest of it is fetched again.  *)
Loop(u, raised) ==
  /\ offset' = OffsetAfter(u, raised)
  /\ batch' = IF raised THEN <<>> ELSE Tail(batch)
  /\ done' = u.no
  /\ ever' = IF u.no > ever THEN u.no ELSE ever
  /\ UNCHANGED <<inbox, sent>>

(* A message that the bot sends: in the place of one that the user has     *)
(* given up if there is no other.                                          *)
NewMessage(s) ==
  \E m \in Message :
    /\ screen[m] = Unused \/ \A n \in Message : screen[n] # Unused
    /\ screen' = [screen EXCEPT ![m] = s]

(* bot.edit: the pressed message becomes the answer. If Telegram refuses   *)
(* that, the answer comes as a new message, or it is lost altogether.      *)
Answer(m, s, f) ==
  CASE f = "edit" -> NewMessage(s)
    [] f = "lost" -> UNCHANGED screen
    [] OTHER -> screen' = [screen EXCEPT ![m] = s]

Pop == pending' = NoPending
SetPending(a, x, S) == pending' = [action |-> a, on |-> x, selected |-> S]

(* Mutant: what was asked before stays. *)
AskKeepsSelection(k) == pending' = [pending EXCEPT !.action = "input", !.on = k]

(* set_pending, and the callbacks that ask for a line of text: a prompt    *)
(* replaces what was pending.                                              *)
AskFor(k) == SetPending("input", k, {})
-----------------------------------------------------------------------------
(* What a callback that is not one of the selections below does: "menu:",  *)
(* "status:", "mode:", the sections and their lists to read drop what is   *)
(* pending and show a screen without a selection.                          *)
PressMenu(u, f) ==
  /\ u.do = "menu"
  /\ Pop
  /\ Answer(u.msg, Menu, f)
  /\ Loop(u, FALSE)
  /\ UNCHANGED relay

PressAsk(u, f) ==
  /\ u.do = "ask"
  /\ AskFor(u.on)
  /\ Answer(u.msg, Menu, f)
  /\ Loop(u, FALSE)
  /\ UNCHANGED relay

(* The callbacks of the recording ("cap:") and of the blocked history      *)
(* ("log:") drop what is pending first. The buttons for input then ask;    *)
(* the others show, or change settings that are kept elsewhere, and catch  *)
(* the errors that this meets.                                             *)
PressPage(u, f) ==
  /\ u.do = "page"
  /\ Pop \/ AskFor(u.on)
  /\ Answer(u.msg, Menu, f)
  /\ Loop(u, FALSE)
  /\ UNCHANGED relay

(* "secret:create": what is pending stays. *)
PressCreate(u, f) ==
  /\ u.do = "create"
  /\ IF f # "relay" /\ given + 1 \in Id
       THEN given' = given + 1 /\ rows' = [rows EXCEPT !["secret"] = @ \cup {given + 1}]
       ELSE UNCHANGED <<rows, given>>
  /\ Answer(u.msg, Menu, f)
  /\ Loop(u, FALSE)
  /\ UNCHANGED <<pending, sets>>
-----------------------------------------------------------------------------
(* Mutant: the selection of another list is taken over. *)
KeptFromAny(l) == pending.selected

(* render_..._delete: the selection so far, if it is one of this list. *)
Kept(l) ==
  IF pending.action = "delete" /\ pending.on = l THEN pending.selected ELSE {}

(* The list with the selection S. If the relay does not answer, the        *)
(* section's menu is shown and the pending action stays at "before".       *)
ShowList(m, l, S, before, f) ==
  IF f = "relay"
    THEN pending' = before /\ Answer(m, Menu, f)
    ELSE /\ SetPending("delete", l, S)
         /\ Answer(m, [at |-> "list", on |-> l, shown |-> rows[l]], f)

PressOpen(u, f) ==
  /\ u.do = "open"
  /\ ShowList(u.msg, u.on, Kept(u.on), pending, f)
  /\ Loop(u, FALSE)
  /\ UNCHANGED relay

Toggled(S, i) == IF i \in S THEN S \ {i} ELSE S \cup {i}

(* "rulesets:toggle:": the selection is that of the pending action,        *)
(* whatever list it is of.                                                 *)
ToggleName(u, f) ==
  LET S == Toggled(pending.selected, u.item)
  IN  /\ u.on = "ruleset"
      /\ ShowList(u.msg, u.on, S, [action |-> "delete", on |-> u.on, selected |-> S], f)
      /\ Loop(u, FALSE)

(* "sources:toggle:", "secret:toggle:", "ddns:toggle:" likewise; but the   *)
(* name of a rule set in the selection is no number: ValueError.           *)
ToggleId(u, f) ==
  LET S == Toggled(pending.selected, u.item)
  IN  /\ u.on # "ruleset"
      /\ IF pending.selected \cap Name # {}
           THEN UNCHANGED <<pending, screen>> /\ Loop(u, TRUE)
           ELSE /\ ShowList(u.msg, u.on, S, [action |-> "delete", on |-> u.on, selected |-> S], f)
                /\ Loop(u, FALSE)

PressToggle(u, f) ==
  /\ u.do = "toggle"
  /\ ToggleName(u, f) \/ ToggleId(u, f)
  /\ UNCHANGED relay

PressClear(u, f) ==
  /\ u.do = "clear"
  /\ ShowList(u.msg, u.on, {}, [action |-> "delete", on |-> u.on, selected |-> {}], f)
  /\ Loop(u, FALSE)
  /\ UNCHANGED relay

(* "ruleset delete" of all the names at once: the rules lose the rule sets *)
(* that are deleted.                                                       *)
DeleteRulesets(left) ==
  /\ rows' = [rows EXCEPT !["ruleset"] = left]
  /\ sets' = [p \in Rule |-> sets[p] \cap left]
  /\ left = rows["ruleset"] \ pending.selected

(* "remove-allow" for one source after the other, each on its own. *)
DeleteSources(f) ==
  /\ \E S \in SUBSET (pending.selected \cap rows["source"]) :
       /\ f # "relay" => S = pending.selected \cap rows["source"]
       /\ rows' = [rows EXCEPT !["source"] = @ \ S]
  /\ UNCHANGED sets

(* "secret-url delete", whose arguments are numbers, or nothing is done. *)
DeleteSecrets ==
  /\ pending.selected \cap Name = {}
  /\ rows' = [rows EXCEPT !["secret"] = @ \ pending.selected]
  /\ UNCHANGED sets

(* "ddns delete", with and without --keep-allowlist: other arguments than  *)
(* numbers are hosts, which no record has.                                 *)
DeleteDdns ==
  /\ rows' = [rows EXCEPT !["ddns"] = @ \ pending.selected]
  /\ UNCHANGED sets

(* A command whose answer does not come may have been carried out. *)
DeleteSelected(l, f) ==
  \/ l = "ruleset" /\ DeleteRulesets(rows[l] \ pending.selected)
  \/ l = "source" /\ DeleteSources(f)
  \/ l = "secret" /\ DeleteSecrets
  \/ l = "ddns" /\ DeleteDdns
  \/ /\ f = "relay" \/ (l = "secret" /\ pending.selected \cap Name # {})
     /\ UNCHANGED <<rows, sets>>

(* "...:delete_selected": without a selection what is pending stays. *)
PressDelete(u, f) ==
  /\ u.do = "delete"
  /\ IF pending.selected = {} THEN UNCHANGED <<pending, rows, sets>>
     ELSE DeleteSelected(u.on, f) /\ Pop
  /\ Answer(u.msg, Menu, f)
  /\ Loop(u, FALSE)
  /\ UNCHANGED given
-----------------------------------------------------------------------------
(* "edit_rule:select:": the rule's screen. *)
PressRule(u, f) ==
  /\ u.do = "rule"
  /\ Pop
  /\ Answer(u.msg, IF f = "relay" THEN Menu ELSE RuleScreen(u.on), f)
  /\ Loop(u, FALSE)
  /\ UNCHANGED relay

(* "edit_rule:access:", "edit_rule:public:" and "edit_rule:note_clear:"    *)
(* change another field of the rule; what is pending stays.                *)
PressChange(u, f) ==
  /\ u.do = "change"
  /\ Answer(u.msg, IF f = "relay" THEN Menu ELSE RuleScreen(u.on), f)
  /\ Loop(u, FALSE)
  /\ UNCHANGED <<pending, relay>>

(* render_edit_rule_rulesets: the selection S so far. *)
ShowSets(m, p, S, before, f) ==
  IF f = "relay"
    THEN pending' = before /\ Answer(m, Menu, f)
    ELSE /\ SetPending("sets", p, S)
         /\ Answer(m, [at |-> "sets", on |-> p, shown |-> rows["ruleset"]], f)

PressSets(u, f) ==
  /\ u.do = "sets"
  /\ ShowSets(u.msg, u.on,
              IF pending.action = "sets" /\ pending.on = u.on THEN pending.selected
              ELSE sets[u.on], pending, f)
  /\ Loop(u, FALSE)
  /\ UNCHANGED relay

(* "edit_rule:ruleset_toggle:": again whatever the selection is of. *)
PressSetsToggle(u, f) ==
  /\ u.do = "setsToggle"
  /\ LET S == Toggled(pending.selected, u.item)
     IN  ShowSets(u.msg, u.on, S, [action |-> "sets", on |-> u.on, selected |-> S], f)
  /\ Loop(u, FALSE)
  /\ UNCHANGED relay

PressSetsClear(u, f) ==
  /\ u.do = "setsClear"
  /\ ShowSets(u.msg, u.on, {}, [action |-> "sets", on |-> u.on, selected |-> {}], f)
  /\ Loop(u, FALSE)
  /\ UNCHANGED relay

(* "edit_rule:ruleset_save:": the rule gets the selected sets, and none if *)
(* nothing is pending; the relay creates those that are not there. An id   *)
(* in the selection would name a rule set of its own; it is left out.      *)
PressSave(u, f) ==
  /\ u.do = "save"
  /\ \/ /\ sets' = [sets EXCEPT ![u.on] = pending.selected \cap Name]
        /\ rows' = [rows EXCEPT !["ruleset"] = @ \cup (pending.selected \cap Name)]
     \/ f = "relay" /\ UNCHANGED <<sets, rows>>
  /\ Pop
  /\ Answer(u.msg, IF f = "relay" THEN Menu ELSE RuleScreen(u.on), f)
  /\ Loop(u, FALSE)
  /\ UNCHANGED given
-----------------------------------------------------------------------------
(* What a line of text does for the prompt k: a row is added, or a rule's  *)
(* sets change. Edits of other fields are not represented.                 *)
Carried(k) ==
  CASE k = "source_add" ->
         (\E i \in Id : rows' = [rows EXCEPT !["source"] = @ \cup {i}]) /\ UNCHANGED sets
    [] k = "ddns_add" ->
         (\E i \in Id : rows' = [rows EXCEPT !["ddns"] = @ \cup {i}]) /\ UNCHANGED sets
    [] k = "ruleset_create" ->
         (\E n \in Name : rows' = [rows EXCEPT !["ruleset"] = @ \cup {n}]) /\ UNCHANGED sets
    [] k = "change_rulesets" ->
         \E p \in Rule, S \in SUBSET Name :
           /\ sets' = [sets EXCEPT ![p] = S]
           /\ rows' = [rows EXCEPT !["ruleset"] = @ \cup S]
    [] OTHER -> UNCHANGED <<rows, sets>>

(* The answer of the relay did not come, or the input is no good. *)
Failed(u, f) == u.on = "bad" \/ f = "relay"

Reply(s, f) == IF f = "lost" THEN UNCHANGED screen ELSE NewMessage(s)

(* handle_pending: what is pending is dropped. A field of a rule is asked  *)
(* again after a failure, and so are the ports and destinations of a new   *)
(* rule if they are incomplete. A selection is dropped: the text is not    *)
(* for it.                                                                 *)
TextPending(u, f) ==
  /\ u.do = "text" /\ u.on \in {"good", "bad"}
  /\ pending # NoPending /\ pending.on \notin Pages
  /\ IF pending.action = "input" /\ ~Failed(u, f)
       THEN Carried(pending.on) ELSE UNCHANGED <<rows, sets>>
  /\ pending' = IF \/ pending.on = "edit_rule_field" /\ Failed(u, f)
                   \/ pending.on \in {"add_rule", "remove_rule"} /\ u.on = "bad"
                  THEN pending ELSE NoPending
  /\ Reply(Menu, f)
  /\ Loop(u, FALSE)
  /\ UNCHANGED given

(* handle_input of the recording and of the blocked history: a failure     *)
(* leaves the prompt pending.                                              *)
TextPage(u, f) ==
  /\ u.do = "text" /\ u.on \in {"good", "bad"} /\ pending.on \in Pages
  /\ IF Failed(u, f) THEN UNCHANGED pending ELSE Pop
  /\ Reply(Menu, f)
  /\ Loop(u, FALSE)
  /\ UNCHANGED relay

(* handle_message: /start, /help and /menu drop what is pending and send a *)
(* new menu; the messages before it keep their keyboards.                  *)
TextStart(u, f) ==
  /\ u.do = "text" /\ u.on = "start"
  /\ Pop
  /\ Reply(Menu, f)
  /\ Loop(u, FALSE)
  /\ UNCHANGED relay

(* handle_command: other commands leave what is pending alone and are      *)
(* answered without a keyboard; so is a text when nothing is pending.      *)
TextCommand(u, f) ==
  /\ u.do = "text"
  /\ u.on = "command" \/ (u.on \in {"good", "bad"} /\ pending = NoPending)
  /\ Loop(u, FALSE)
  /\ UNCHANGED <<pending, screen, relay>>
-----------------------------------------------------------------------------
Handler(u, f) ==
  \/ PressMenu(u, f) \/ PressAsk(u, f) \/ PressPage(u, f) \/ PressCreate(u, f)
  \/ PressOpen(u, f) \/ PressToggle(u, f) \/ PressClear(u, f) \/ PressDelete(u, f)
  \/ PressRule(u, f) \/ PressChange(u, f) \/ PressSets(u, f) \/ PressSetsToggle(u, f)
  \/ PressSetsClear(u, f) \/ PressSave(u, f)
  \/ TextPending(u, f) \/ TextPage(u, f) \/ TextStart(u, f) \/ TextCommand(u, f)

Selecting(m) == screen[m].at \in {"list", "sets"}

(* One update is handled; f is the fault that this meets.                  *)
Handle ==
  /\ batch # <<>>
  /\ \E f \in {"none"} \cup (Fault \ {"restart", "other"}) :
       LET u == Head(batch)
       IN  /\ Handler(u, f)
           /\ f # "none" => faults < MaxFaults
           /\ faults' = IF f = "none" THEN faults ELSE faults + 1
           /\ toggled' = IF u.do = "toggle" THEN toggled \cup {<<u.on, u.item>>} ELSE toggled
           /\ astray' = (\/ astray \/ f \in {"edit", "lost"}
                         \/ \E m \in Message : Selecting(m) /\ m # u.msg
                         \/ u.do # "text" /\ <<u.do, u.on, u.item>> \notin Buttons(screen[u.msg]))

(* Mutant: the bot starts with the next update. *)
RestartSkipsBacklog ==
  /\ "restart" \in Fault /\ faults < MaxFaults
  /\ faults' = faults + 1
  /\ offset' = sent + 1 /\ batch' = <<>> /\ Pop
  /\ done' = 0
  /\ astray' = (astray \/ \E m \in Message : Selecting(m))
  /\ UNCHANGED <<inbox, sent, screen, relay, ever, toggled>>

(* The service restarts: offset, batch and pending action are gone. *)
Restart ==
  /\ "restart" \in Fault /\ faults < MaxFaults
  /\ faults' = faults + 1
  /\ offset' = 0 /\ batch' = <<>> /\ Pop
  /\ done' = 0
  /\ astray' = (astray \/ \E m \in Message : Selecting(m))
  /\ UNCHANGED <<inbox, sent, screen, relay, ever, toggled>>

(* Somebody else deletes a row, from the command line. *)
OtherDeletes(l) ==
  /\ "other" \in Fault /\ faults < MaxFaults
  /\ faults' = faults + 1
  /\ \E i \in rows[l] : rows' = [rows EXCEPT ![l] = @ \ {i}]
  /\ sets' = [p \in Rule |-> IF l = "ruleset" THEN sets[p] \cap rows'[l] ELSE sets[p]]
  /\ UNCHANGED <<loop, pending, screen, given, history>>

Next ==
  \/ \E m \in Message : Press(m)
  \/ \E t \in Texts : Text(t)
  \/ Poll \/ Handle \/ Restart
  \/ \E l \in Lists : OtherDeletes(l)

Spec == Init /\ [][Next]_vars

(* systemd restarts the bot, its loop polls for ever, and a handler ends:  *)
(* every command and request in it has a timeout.                          *)
FairSpec == Spec /\ WF_vars(Poll) /\ WF_vars(Handle)
-----------------------------------------------------------------------------
(* The updates of one run of the bot are handled one after the other, none *)
(* twice and none left out, also when a handler raises in the middle of a  *)
(* batch; a restart repeats at most updates that were handled before, and  *)
(* leaves none out.                                                        *)
HandledInOrder ==
  [][ \A n \in 1..MaxUpdates :
        (batch # <<>> /\ Head(batch).no = n /\ Handle) => (n > done /\ n <= ever + 1) ]_vars

(* Every update is handled in the end, however often the bot restarts or   *)
(* the relay fails meanwhile.                                              *)
EveryUpdateHandled == []<>(ever = sent)

(* A row that the bot deletes from a list was selected by the user in this *)
(* very list, as long as the user stays with the message that shows the    *)
(* selection and the answers arrive: what was selected in another list     *)
(* before is not taken over, although all lists share one pending action.  *)
(* This press, too, must be of what is on the screen when it is handled:   *)
(* one that was sent to a list shown again after a restart deletes what    *)
(* has been selected in the list shown meanwhile.                          *)
OnlySelectedDeleted ==
  [][ \A l \in Lists :
        (batch # <<>> /\ Handle /\ ~astray') => \A i \in rows[l] \ rows'[l] : <<l, i>> \in toggled ]_vars
=============================================================================
