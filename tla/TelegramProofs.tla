----------------------------- MODULE TelegramProofs ----------------------------
(***************************************************************************)
(* Proofs about TelegramBot for any messages, lists, texts and faults:     *)
(* that updates are handled in their order and none is left out, and that  *)
(* only what was selected in a list is deleted from it.                    *)
(***************************************************************************)
EXTENDS TelegramBot, Integers, SequenceTheorems, TLAPS

On == Lists \cup Rule \cup Asked \cup Texts \cup {None}
Row == Name \cup Id

Doing == {"open", "rule", "ask", "page", "create", "menu", "toggle", "clear", "delete", "sets",
          "change", "setsToggle", "setsClear", "save", "text"}

(* An update is a press of a button that some screen has, or a text. *)
Update ==
  { u \in [no : Nat, msg : Message \cup {None}, do : Doing, on : On, item : Row \cup {None}] :
      /\ u.do = "text" => u.msg = None
      /\ u.do # "text" => u.msg \in Message
      /\ u.do \in {"open", "toggle", "clear", "delete"} => u.on \in Lists
      /\ u.do = "toggle" => u.item \in Items(u.on)
      /\ u.do \in {"rule", "sets", "change", "setsToggle", "setsClear", "save"} => u.on \in Rule
      /\ u.do = "setsToggle" => u.item \in Name }

Screens ==
  { s \in [at : {"unused", "menu", "list", "rule", "sets"}, on : On, shown : SUBSET Row] :
      /\ s.at = "list" => s.on \in Lists /\ s.shown \subseteq Items(s.on)
      /\ s.at \in {"rule", "sets"} => s.on \in Rule
      /\ s.at = "sets" => s.shown \subseteq Name }

Pendings ==
  { p \in [action : {"none", "delete", "sets", "input"}, on : On, selected : SUBSET Row] :
      /\ p.action = "delete" => p.on \in Lists
      /\ p.action = "sets" => p.on \in Rule
      /\ p.action \in {"none", "input"} => p.selected = {} }

(* What the chat and the relay hold has its type. *)
RowsOK ==
  /\ rows \in [AllLists -> SUBSET Row]
  /\ \A l \in AllLists : rows[l] \subseteq Items(l)
  /\ sets \in [Rule -> SUBSET rows["ruleset"]]

DialogInv ==
  /\ screen \in [Message -> Screens]
  /\ pending \in Pendings
  /\ RowsOK

(* Telegram has the last updates up to "sent", and none below them that    *)
(* was not handled. The batch goes on after what was handled last.         *)
QueueInv ==
  /\ sent \in 0..MaxUpdates /\ offset \in Nat /\ done \in Nat /\ ever \in Nat
  /\ inbox \in Seq(Update) /\ Len(inbox) <= MaxInbox /\ Len(inbox) <= sent
  /\ \A i \in DOMAIN inbox : inbox[i].no = sent - Len(inbox) + i
  /\ sent - Len(inbox) <= ever /\ ever <= sent /\ done <= ever
  /\ offset = done + 1 \/ (offset = 0 /\ done = 0)
  /\ batch \in Seq(Update) /\ Len(batch) <= Len(inbox)
  /\ \A i \in DOMAIN batch : batch[i].no = batch[1].no + i - 1 /\ batch[i].no <= sent
  /\ batch # <<>> => batch[1].no > done /\ batch[1].no <= ever + 1

(* As long as nothing has gone astray: the list that is shown is the one   *)
(* of the pending action, and what is selected was selected in its list.   *)
SelInv ==
  ~astray =>
    /\ \A m \in Message : screen[m].at = "list" =>
         pending.action = "delete" /\ pending.on = screen[m].on
    /\ pending.action = "delete" => \A i \in pending.selected : <<pending.on, i>> \in toggled

BotInv == DialogInv /\ QueueInv /\ SelInv /\ faults \in 0..MaxFaults
-----------------------------------------------------------------------------
(* What the buttons of a screen are. *)
LEMMA ButtonsOf ==
  ASSUME NEW s \in Screens, NEW b \in Buttons(s)
  PROVE  /\ b = <<b[1], b[2], b[3]>>
         /\ b[1] \in Doing \ {"text"} /\ b[2] \in On /\ b[3] \in Row \cup {None}
         /\ b[1] \in {"open", "toggle", "clear", "delete"} => b[2] \in Lists
         /\ b[1] \in {"rule", "sets", "change", "setsToggle", "setsClear", "save"} => b[2] \in Rule
         /\ b[1] = "toggle" => b[3] \in Items(b[2])
         /\ b[1] = "setsToggle" => b[3] \in Name
         /\ b[1] \in {"toggle", "delete"} => s.at = "list" /\ s.on = b[2]
<1>1. /\ s.at \in {"unused", "menu", "list", "rule", "sets"} /\ s.on \in On
      /\ s.shown \in SUBSET Row
      /\ s.at = "list" => s.on \in Lists /\ s.shown \subseteq Items(s.on)
      /\ s.at \in {"rule", "sets"} => s.on \in Rule
      /\ s.at = "sets" => s.shown \subseteq Name
  BY DEF Screens
<1>2. CASE s.at = "unused"
  BY <1>2 DEF Buttons
<1>3. CASE s.at = "menu"
  <2>1. b \in {<<"open", l, None>> : l \in Lists} \cup {<<"rule", p, None>> : p \in Rule}
                \cup {<<"ask", k, None>> : k \in Asked \ Pages}
                \cup {<<"page", k, None>> : k \in Asked \cap Pages}
                \cup {<<"create", None, None>>, <<"menu", None, None>>}
    BY <1>3 DEF Buttons
  <2>2. CASE \E l \in Lists : b = <<"open", l, None>>
    BY <2>2 DEF Doing, On
  <2>3. CASE \E p \in Rule : b = <<"rule", p, None>>
    BY <2>3 DEF Doing, On
  <2>4. CASE \E k \in Asked : b = <<"ask", k, None>> \/ b = <<"page", k, None>>
    BY <2>4 DEF Doing, On
  <2>5. CASE b = <<"create", None, None>> \/ b = <<"menu", None, None>>
    BY <2>5 DEF Doing, On
  <2> QED
    BY <2>1, <2>2, <2>3, <2>4, <2>5
<1>4. CASE s.at = "list"
  <2>1. b \in {<<"toggle", s.on, i>> : i \in s.shown}
                \cup {<<d, s.on, None>> : d \in {"clear", "delete"}} \cup {<<"menu", None, None>>}
    BY <1>4 DEF Buttons
  <2>2. CASE \E i \in s.shown : b = <<"toggle", s.on, i>>
    BY <1>1, <1>4, <2>2 DEF Doing, On
  <2>3. CASE \E d \in {"clear", "delete"} : b = <<d, s.on, None>>
    BY <1>1, <1>4, <2>3 DEF Doing, On
  <2>4. CASE b = <<"menu", None, None>>
    BY <2>4 DEF Doing, On
  <2> QED
    BY <2>1, <2>2, <2>3, <2>4
<1>5. CASE s.at = "rule"
  <2>1. b \in {<<"sets", s.on, None>>, <<"change", s.on, None>>, <<"menu", None, None>>}
    BY <1>5 DEF Buttons
  <2> QED
    BY <1>1, <1>5, <2>1 DEF Doing, On
<1>6. CASE s.at = "sets"
  <2>1. b \in {<<"setsToggle", s.on, n>> : n \in s.shown}
                \cup {<<d, s.on, None>> : d \in {"setsClear", "save", "rule"}}
    BY <1>6 DEF Buttons
  <2>2. CASE \E n \in s.shown : b = <<"setsToggle", s.on, n>>
    BY <1>1, <1>6, <2>2 DEF Doing, On
  <2>3. CASE \E d \in {"setsClear", "save", "rule"} : b = <<d, s.on, None>>
    BY <1>1, <1>6, <2>3 DEF Doing, On
  <2> QED
    BY <2>1, <2>2, <2>3
<1> QED
  BY <1>1, <1>2, <1>3, <1>4, <1>5, <1>6

LEMMA PressSent ==
  ASSUME DialogInv, NEW m \in Message, NEW b \in Buttons(screen[m]), NEW n \in Nat
  PROVE  [no |-> n, msg |-> m, do |-> b[1], on |-> b[2], item |-> b[3]] \in Update
<1>1. screen[m] \in Screens
  BY DEF DialogInv
<1>2. /\ b[1] \in Doing \ {"text"} /\ b[2] \in On /\ b[3] \in Row \cup {None}
      /\ b[1] \in {"open", "toggle", "clear", "delete"} => b[2] \in Lists
      /\ b[1] \in {"rule", "sets", "change", "setsToggle", "setsClear", "save"} => b[2] \in Rule
      /\ b[1] = "toggle" => b[3] \in Items(b[2])
      /\ b[1] = "setsToggle" => b[3] \in Name
  BY <1>1, ButtonsOf
<1> QED
  BY <1>2 DEF Update

LEMMA TextSent ==
  ASSUME NEW t \in Texts, NEW n \in Nat
  PROVE  [no |-> n, msg |-> None, do |-> "text", on |-> t, item |-> None] \in Update
BY DEF Update, Doing, On
-----------------------------------------------------------------------------
(* Answers show screens. *)
LEMMA ScreensAre ==
  /\ Menu \in Screens /\ Unused \in Screens
  /\ \A p \in Rule : RuleScreen(p) \in Screens
  /\ \A l \in Lists : RowsOK => [at |-> "list", on |-> l, shown |-> rows[l]] \in Screens
  /\ \A p \in Rule : RowsOK => [at |-> "sets", on |-> p, shown |-> rows["ruleset"]] \in Screens
  /\ Menu.at = "menu" /\ \A p \in Rule : RuleScreen(p).at = "rule"
<1>1. Menu \in Screens /\ Menu.at = "menu"
  BY DEF Menu, Screens, On
<1>2. Unused = [at |-> "unused", on |-> None, shown |-> {}]
  BY DEF Unused, Menu
<1>3. Unused \in Screens
  BY <1>2 DEF Screens, On
<1>4. ASSUME NEW p \in Rule PROVE RuleScreen(p) \in Screens /\ RuleScreen(p).at = "rule"
  <2>1. Menu \in [at : {"menu"}, on : {None}, shown : {{}}]
    BY DEF Menu
  <2>2. RuleScreen(p) \in [at : {"rule"}, on : {p}, shown : {{}}]
    BY <2>1 DEF RuleScreen
  <2> HIDE DEF RuleScreen
  <2> QED
    BY <2>2 DEF Screens, On
<1>5. ASSUME NEW l \in Lists, RowsOK
      PROVE  [at |-> "list", on |-> l, shown |-> rows[l]] \in Screens
  <2>1. l \in AllLists /\ rows[l] \in SUBSET Row /\ rows[l] \subseteq Items(l)
    BY <1>5, ConstantsAssumption DEF RowsOK
  <2> QED
    BY <2>1 DEF Screens, On
<1>6. ASSUME NEW p \in Rule, RowsOK
      PROVE  [at |-> "sets", on |-> p, shown |-> rows["ruleset"]] \in Screens
  <2>1. rows["ruleset"] \in SUBSET Row /\ rows["ruleset"] \subseteq Name
    BY <1>6 DEF RowsOK, AllLists, Items
  <2> QED
    BY <2>1 DEF Screens, On
<1> QED
  BY <1>1, <1>3, <1>4, <1>5, <1>6

LEMMA AnswerShows ==
  ASSUME screen \in [Message -> Screens], NEW s \in Screens, NEW m, NEW f, Answer(m, s, f)
  PROVE  screen' \in [Message -> Screens]
BY DEF Answer, NewMessage

LEMMA ReplyShows ==
  ASSUME screen \in [Message -> Screens], NEW s \in Screens, NEW f, Reply(s, f)
  PROVE  screen' \in [Message -> Screens]
BY DEF Reply, NewMessage

LEMMA PendingsAre ==
  /\ NoPending \in Pendings
  /\ \A k \in On : [action |-> "input", on |-> k, selected |-> {}] \in Pendings
  /\ \A l \in Lists, S \in SUBSET Row : [action |-> "delete", on |-> l, selected |-> S] \in Pendings
  /\ \A p \in Rule, S \in SUBSET Row : [action |-> "sets", on |-> p, selected |-> S] \in Pendings
BY DEF Pendings, NoPending, On

LEMMA ListShows ==
  ASSUME DialogInv, NEW m, NEW l \in Lists, NEW S \in SUBSET Row, NEW before \in Pendings, NEW f,
         ShowList(m, l, S, before, f)
  PROVE  screen' \in [Message -> Screens] /\ pending' \in Pendings
<1>1. CASE f = "relay"
  BY <1>1, ScreensAre, AnswerShows DEF ShowList, DialogInv
<1>2. CASE f # "relay"
  BY <1>2, ScreensAre, PendingsAre, AnswerShows DEF ShowList, SetPending, DialogInv
<1> QED
  BY <1>1, <1>2

LEMMA SetsShow ==
  ASSUME DialogInv, NEW m, NEW p \in Rule, NEW S \in SUBSET Row, NEW before \in Pendings, NEW f,
         ShowSets(m, p, S, before, f)
  PROVE  screen' \in [Message -> Screens] /\ pending' \in Pendings
<1>1. CASE f = "relay"
  BY <1>1, ScreensAre, AnswerShows DEF ShowSets, DialogInv
<1>2. CASE f # "relay"
  BY <1>2, ScreensAre, PendingsAre, AnswerShows DEF ShowSets, SetPending, DialogInv
<1> QED
  BY <1>1, <1>2
-----------------------------------------------------------------------------
(* Every change of the relay's rows is one of one list, together with what *)
(* the forwarding rules then use.                                          *)
LEMMA RowsSet ==
  ASSUME RowsOK, NEW l \in AllLists, NEW S \in SUBSET Items(l), rows' = [rows EXCEPT ![l] = S],
         sets' \in [Rule -> SUBSET rows'["ruleset"]]
  PROVE  RowsOK'
<1>1. S \in SUBSET Row
  BY DEF Items, Row
<1>2. rows' \in [AllLists -> SUBSET Row]
  BY <1>1 DEF RowsOK
<1>3. ASSUME NEW k \in AllLists PROVE rows'[k] \subseteq Items(k)
  BY <1>3 DEF RowsOK
<1> QED
  BY <1>2, <1>3 DEF RowsOK, Items

LEMMA RowsKept ==
  ASSUME RowsOK, rows' = rows, sets' = sets
  PROVE  RowsOK'
BY DEF RowsOK, Items

(* No list but that of the rule sets matters to the forwarding rules. *)
LEMMA RowsOfOther ==
  ASSUME RowsOK, NEW l \in AllLists \ {"ruleset"}, NEW S \in SUBSET Id,
         rows' = [rows EXCEPT ![l] = S], sets' = sets
  PROVE  RowsOK'
<1>1. rows'["ruleset"] = rows["ruleset"]
  BY DEF RowsOK, AllLists
<1>2. sets' \in [Rule -> SUBSET rows'["ruleset"]] /\ S \in SUBSET Items(l)
  BY <1>1 DEF RowsOK, Items
<1> QED
  BY <1>2, RowsSet

LEMMA RowsOf ==
  ASSUME RowsOK
  PROVE  /\ rows["ruleset"] \in SUBSET Name /\ sets \in [Rule -> SUBSET rows["ruleset"]]
         /\ \A l \in AllLists \ {"ruleset"} : rows[l] \in SUBSET Id
BY DEF RowsOK, AllLists, Items

LEMMA RowsDeleted ==
  ASSUME RowsOK, NEW l \in AllLists, NEW f, DeleteSelected(l, f)
  PROVE  RowsOK'
<1>1. CASE l = "ruleset" /\ DeleteRulesets(rows[l] \ pending.selected)
  <2> DEFINE left == rows["ruleset"] \ pending.selected
  <2>1. rows' = [rows EXCEPT !["ruleset"] = left] /\ sets' = [p \in Rule |-> sets[p] \cap left]
    BY <1>1 DEF DeleteRulesets
  <2>2. left \in SUBSET Items("ruleset") /\ "ruleset" \in AllLists
    BY RowsOf DEF Items, AllLists
  <2>3. rows'["ruleset"] = left
    BY <2>1, <2>2 DEF RowsOK
  <2>4. sets' \in [Rule -> SUBSET rows'["ruleset"]]
    BY <2>1, <2>3
  <2> HIDE DEF left
  <2> QED
    BY <2>1, <2>2, <2>4, RowsSet
<1>2. CASE DeleteSources(f)
  <2>1. PICK S \in SUBSET (pending.selected \cap rows["source"]) :
          rows' = [rows EXCEPT !["source"] = rows["source"] \ S]
    BY <1>2 DEF DeleteSources
  <2>2. "source" \in AllLists \ {"ruleset"} /\ rows["source"] \ S \in SUBSET Id /\ sets' = sets
    BY <1>2, RowsOf DEF AllLists, DeleteSources
  <2> QED
    BY <2>1, <2>2, RowsOfOther
<1>3. CASE DeleteSecrets
  <2>1. rows' = [rows EXCEPT !["secret"] = rows["secret"] \ pending.selected] /\ sets' = sets
    BY <1>3 DEF DeleteSecrets
  <2>2. "secret" \in AllLists \ {"ruleset"} /\ rows["secret"] \ pending.selected \in SUBSET Id
    BY RowsOf DEF AllLists
  <2> QED
    BY <2>1, <2>2, RowsOfOther
<1>4. CASE DeleteDdns
  <2>1. rows' = [rows EXCEPT !["ddns"] = rows["ddns"] \ pending.selected] /\ sets' = sets
    BY <1>4 DEF DeleteDdns
  <2>2. "ddns" \in AllLists \ {"ruleset"} /\ rows["ddns"] \ pending.selected \in SUBSET Id
    BY RowsOf DEF AllLists
  <2> QED
    BY <2>1, <2>2, RowsOfOther
<1>5. CASE UNCHANGED <<rows, sets>>
  BY <1>5, RowsKept
<1> QED
  BY <1>1, <1>2, <1>3, <1>4, <1>5 DEF DeleteSelected

(* A rule is given the sets S, which are created if need be. *)
LEMMA RowsGiven ==
  ASSUME RowsOK, NEW p \in Rule, NEW S \in SUBSET Name, sets' = [sets EXCEPT ![p] = S],
         rows' = [rows EXCEPT !["ruleset"] = rows["ruleset"] \cup S]
  PROVE  RowsOK'
<1>1. rows["ruleset"] \cup S \in SUBSET Items("ruleset") /\ "ruleset" \in AllLists
  BY RowsOf DEF Items, AllLists
<1>2. rows'["ruleset"] = rows["ruleset"] \cup S
  BY <1>1 DEF RowsOK
<1>3. sets' \in [Rule -> SUBSET rows'["ruleset"]]
  BY <1>2, RowsOf
<1> QED
  BY <1>1, <1>3, RowsSet

LEMMA RowsCarried ==
  ASSUME RowsOK, NEW k, Carried(k)
  PROVE  RowsOK'
<1> USE RowsOf
<1>1. CASE k = "source_add"
  <2>1. PICK i \in Id : rows' = [rows EXCEPT !["source"] = rows["source"] \cup {i}]
    BY <1>1 DEF Carried
  <2>2. "source" \in AllLists \ {"ruleset"} /\ rows["source"] \cup {i} \in SUBSET Id /\ sets' = sets
    BY <1>1 DEF AllLists, Carried
  <2> QED
    BY <2>1, <2>2, RowsOfOther
<1>2. CASE k = "ddns_add"
  <2>1. PICK i \in Id : rows' = [rows EXCEPT !["ddns"] = rows["ddns"] \cup {i}]
    BY <1>2 DEF Carried
  <2>2. "ddns" \in AllLists \ {"ruleset"} /\ rows["ddns"] \cup {i} \in SUBSET Id /\ sets' = sets
    BY <1>2 DEF AllLists, Carried
  <2> QED
    BY <2>1, <2>2, RowsOfOther
<1>3. CASE k = "ruleset_create"
  <2>1. PICK n \in Name : rows' = [rows EXCEPT !["ruleset"] = rows["ruleset"] \cup {n}]
    BY <1>3 DEF Carried
  <2>2. "ruleset" \in AllLists /\ rows["ruleset"] \cup {n} \in SUBSET Items("ruleset")
    BY DEF AllLists, Items
  <2>3. sets' = sets
    BY <1>3 DEF Carried
  <2>4. rows'["ruleset"] = rows["ruleset"] \cup {n}
    BY <2>1, <2>2 DEF RowsOK
  <2>5. sets' \in [Rule -> SUBSET rows'["ruleset"]]
    BY <2>3, <2>4
  <2> QED
    BY <2>1, <2>2, <2>5, RowsSet
<1>4. CASE k = "change_rulesets"
  <2>1. PICK p \in Rule, S \in SUBSET Name :
          /\ sets' = [sets EXCEPT ![p] = S]
          /\ rows' = [rows EXCEPT !["ruleset"] = rows["ruleset"] \cup S]
    BY <1>4 DEF Carried
  <2> QED
    BY <2>1, RowsGiven
<1>5. CASE k \notin {"source_add", "ddns_add", "ruleset_create", "change_rulesets"}
  BY <1>5, RowsKept DEF Carried
<1> QED
  BY <1>1, <1>2, <1>3, <1>4, <1>5

LEMMA RowsLost ==
  ASSUME RowsOK, NEW l \in Lists, OtherDeletes(l)
  PROVE  RowsOK'
<1>1. PICK i \in rows[l] : rows' = [rows EXCEPT ![l] = rows[l] \ {i}]
  BY DEF OtherDeletes
<1>2. l \in AllLists /\ rows[l] \ {i} \in SUBSET Items(l)
  BY ConstantsAssumption DEF RowsOK
<1>3. rows'[l] = rows[l] \ {i} /\ (l # "ruleset" => rows'["ruleset"] = rows["ruleset"])
  BY <1>1, <1>2 DEF RowsOK, AllLists
<1>4. sets' \in [Rule -> SUBSET rows'["ruleset"]]
  <2>1. CASE l = "ruleset"
    <3>1. sets' = [p \in Rule |-> sets[p] \cap rows'["ruleset"]]
      BY <2>1 DEF OtherDeletes
    <3> QED
      BY <3>1
  <2>2. CASE l # "ruleset"
    <3>1. sets' = [p \in Rule |-> sets[p]]
      BY <2>2 DEF OtherDeletes
    <3> QED
      BY <3>1, <2>2, <1>3, RowsOf
  <2> QED
    BY <2>1, <2>2
<1> QED
  BY <1>1, <1>2, <1>4, RowsSet
-----------------------------------------------------------------------------
(* What an update is about. *)
LEMMA UpdateIs ==
  ASSUME NEW u \in Update
  PROVE  /\ u.on \in On /\ u.no \in Nat /\ u.do \in Doing
         /\ u.do \in {"open", "toggle", "clear", "delete"} => u.on \in Lists /\ u.on \in AllLists
         /\ u.do \in {"rule", "sets", "change", "setsToggle", "setsClear", "save"} => u.on \in Rule
         /\ u.do \in {"toggle", "setsToggle"} => u.item \in Row
         /\ u.do = "toggle" => u.item \in Items(u.on)
         /\ u.do = "text" <=> u.msg = None
BY ConstantsAssumption DEF Update, Items, Row

(* A selection stays one of rows. *)
LEMMA SelectionIs ==
  ASSUME pending \in Pendings
  PROVE  /\ pending.selected \in SUBSET Row
         /\ \A i \in Row : Toggled(pending.selected, i) \in SUBSET Row
         /\ \A l : Kept(l) \in SUBSET Row
BY DEF Pendings, Toggled, Kept

(* What the handlers make of the chat and of the relay has its type. *)
LEMMA HandlerTyped ==
  ASSUME DialogInv, NEW u \in Update, NEW f, Handler(u, f)
  PROVE  DialogInv'
<1> USE UpdateIs
<1>0. /\ screen \in [Message -> Screens] /\ pending \in Pendings /\ RowsOK
      /\ pending.selected \in SUBSET Row
  BY SelectionIs DEF DialogInv
<1>s. SUFFICES screen' \in [Message -> Screens] /\ pending' \in Pendings /\ RowsOK'
  BY DEF DialogInv
<1>k. UNCHANGED relay => RowsOK'
  BY <1>0, RowsKept DEF relay
<1>m. ASSUME NEW m, Answer(m, Menu, f) PROVE screen' \in [Message -> Screens]
  BY <1>0, <1>m, ScreensAre, AnswerShows
<1>t. Reply(Menu, f) => screen' \in [Message -> Screens]
  BY <1>0, ScreensAre, ReplyShows
<1>r. ASSUME u.on \in Rule, Answer(u.msg, IF f = "relay" THEN Menu ELSE RuleScreen(u.on), f)
      PROVE  screen' \in [Message -> Screens]
  <2>1. (IF f = "relay" THEN Menu ELSE RuleScreen(u.on)) \in Screens
    BY <1>r, ScreensAre
  <2> QED
    BY <2>1, <1>0, <1>r, AnswerShows
<1>p. Pop => pending' \in Pendings
  BY PendingsAre DEF Pop
<1>a. AskFor(u.on) => pending' \in Pendings
  BY PendingsAre DEF AskFor, SetPending
<1>1. CASE PressMenu(u, f)
  BY <1>1, <1>k, <1>m, <1>p DEF PressMenu
<1>2. CASE PressAsk(u, f)
  BY <1>2, <1>k, <1>m, <1>a DEF PressAsk
<1>3. CASE PressPage(u, f)
  BY <1>3, <1>k, <1>m, <1>p, <1>a DEF PressPage
<1>4. CASE PressCreate(u, f)
  <2>1. pending' \in Pendings /\ screen' \in [Message -> Screens] /\ sets' = sets
    BY <1>4, <1>m, <1>0 DEF PressCreate
  <2>2. CASE f # "relay" /\ given + 1 \in Id
    <3>1. rows' = [rows EXCEPT !["secret"] = rows["secret"] \cup {given + 1}]
      BY <1>4, <2>2 DEF PressCreate
    <3>2. "secret" \in AllLists \ {"ruleset"} /\ rows["secret"] \cup {given + 1} \in SUBSET Id
      BY <1>0, <2>2, RowsOf DEF AllLists
    <3> QED
      BY <2>1, <3>1, <3>2, <1>0, RowsOfOther
  <2>3. CASE ~(f # "relay" /\ given + 1 \in Id)
    BY <1>0, <1>4, <2>1, <2>3, RowsKept DEF PressCreate
  <2> QED
    BY <2>2, <2>3
<1>5. CASE PressOpen(u, f)
  BY <1>5, <1>0, <1>k, SelectionIs, ListShows DEF PressOpen
<1>6. CASE PressToggle(u, f)
  <2> DEFINE S == Toggled(pending.selected, u.item)
  <2>1. u.on \in Lists /\ S \in SUBSET Row /\ UNCHANGED relay
    BY <1>6, <1>0, SelectionIs DEF PressToggle
  <2>2. [action |-> "delete", on |-> u.on, selected |-> S] \in Pendings
    BY <2>1, PendingsAre
  <2>3. ShowList(u.msg, u.on, S, [action |-> "delete", on |-> u.on, selected |-> S], f)
          \/ UNCHANGED <<pending, screen>>
    BY <1>6 DEF PressToggle, ToggleName, ToggleId
  <2> HIDE DEF S
  <2> QED
    BY <2>1, <2>2, <2>3, <1>0, <1>k, ListShows
<1>7. CASE PressClear(u, f)
  <2>1. [action |-> "delete", on |-> u.on, selected |-> {}] \in Pendings /\ u.on \in Lists
    BY <1>7, PendingsAre DEF PressClear
  <2> QED
    BY <2>1, <1>7, <1>k, ListShows DEF PressClear
<1>8. CASE PressDelete(u, f)
  <2>1. screen' \in [Message -> Screens]
    BY <1>8, <1>m DEF PressDelete
  <2>2. CASE pending.selected = {}
    BY <1>8, <2>1, <2>2, <1>0, RowsKept DEF PressDelete
  <2>3. CASE pending.selected # {}
    <3>1. DeleteSelected(u.on, f) /\ Pop /\ u.on \in AllLists
      BY <1>8, <2>3 DEF PressDelete
    <3> QED
      BY <2>1, <3>1, <1>0, <1>p, RowsDeleted
  <2> QED
    BY <2>2, <2>3
<1>9. CASE PressRule(u, f)
  BY <1>9, <1>k, <1>r, <1>p DEF PressRule
<1>10. CASE PressChange(u, f)
  BY <1>10, <1>0, <1>k, <1>r DEF PressChange
<1>11. CASE PressSets(u, f)
  <2> DEFINE S == IF pending.action = "sets" /\ pending.on = u.on THEN pending.selected
                  ELSE sets[u.on]
  <2>1. u.on \in Rule /\ S \in SUBSET Row
    BY <1>11, <1>0, RowsOf DEF PressSets, Row
  <2>2. ShowSets(u.msg, u.on, S, pending, f)
    BY <1>11 DEF PressSets
  <2> HIDE DEF S
  <2> QED
    BY <1>11, <2>1, <2>2, <1>0, <1>k, SetsShow DEF PressSets
<1>12. CASE PressSetsToggle(u, f)
  <2> DEFINE S == Toggled(pending.selected, u.item)
  <2>1. u.on \in Rule /\ S \in SUBSET Row /\ UNCHANGED relay
    BY <1>12, <1>0, SelectionIs DEF PressSetsToggle
  <2>2. [action |-> "sets", on |-> u.on, selected |-> S] \in Pendings
    BY <2>1, PendingsAre
  <2>3. ShowSets(u.msg, u.on, S, [action |-> "sets", on |-> u.on, selected |-> S], f)
    BY <1>12 DEF PressSetsToggle
  <2> HIDE DEF S
  <2> QED
    BY <2>1, <2>2, <2>3, <1>k, SetsShow
<1>13. CASE PressSetsClear(u, f)
  <2>1. [action |-> "sets", on |-> u.on, selected |-> {}] \in Pendings /\ u.on \in Rule
    BY <1>13, PendingsAre DEF PressSetsClear
  <2> QED
    BY <2>1, <1>13, <1>k, SetsShow DEF PressSetsClear
<1>14. CASE PressSave(u, f)
  <2>1. u.on \in Rule /\ screen' \in [Message -> Screens] /\ pending' \in Pendings
    BY <1>14, <1>r, <1>p DEF PressSave
  <2>2. CASE UNCHANGED <<sets, rows>>
    BY <2>1, <2>2, <1>0, RowsKept
  <2>3. CASE /\ sets' = [sets EXCEPT ![u.on] = pending.selected \cap Name]
             /\ rows' = [rows EXCEPT !["ruleset"] = rows["ruleset"] \cup (pending.selected \cap Name)]
    <3>1. pending.selected \cap Name \in SUBSET Name
      OBVIOUS
    <3> QED
      BY <2>1, <2>3, <3>1, <1>0, RowsGiven
  <2> QED
    BY <1>14, <2>2, <2>3 DEF PressSave
<1>15. CASE TextPending(u, f)
  <2>1. screen' \in [Message -> Screens] /\ (pending' = pending \/ pending' = NoPending)
    BY <1>15, <1>t DEF TextPending
  <2>2. Carried(pending.on) \/ UNCHANGED <<rows, sets>>
    BY <1>15 DEF TextPending
  <2> QED
    BY <2>1, <2>2, <1>0, PendingsAre, RowsCarried, RowsKept
<1>16. CASE TextPage(u, f)
  BY <1>16, <1>0, <1>k, <1>t, <1>p DEF TextPage
<1>17. CASE TextStart(u, f)
  BY <1>17, <1>k, <1>t, <1>p DEF TextStart
<1>18. CASE TextCommand(u, f)
  BY <1>18, <1>0, <1>k DEF TextCommand
<1> QED
  BY <1>1, <1>2, <1>3, <1>4, <1>5, <1>6, <1>7, <1>8, <1>9, <1>10, <1>11, <1>12, <1>13, <1>14,
     <1>15, <1>16, <1>17, <1>18 DEF Handler
-----------------------------------------------------------------------------
(* Every handler ends with the loop's bookkeeping. *)
LEMMA HandlerLoops ==
  ASSUME NEW u, NEW f, Handler(u, f)
  PROVE  \E raised \in BOOLEAN : Loop(u, raised)
<1>1. Loop(u, FALSE) \/ Loop(u, TRUE)
  <2>1. CASE PressToggle(u, f)
    BY <2>1 DEF PressToggle, ToggleName, ToggleId
  <2>2. CASE \/ PressMenu(u, f) \/ PressAsk(u, f) \/ PressPage(u, f) \/ PressCreate(u, f)
             \/ PressOpen(u, f) \/ PressClear(u, f) \/ PressDelete(u, f) \/ PressRule(u, f)
             \/ PressChange(u, f) \/ PressSets(u, f)
    BY <2>2 DEF PressMenu, PressAsk, PressPage, PressCreate, PressOpen, PressClear, PressDelete,
                PressRule, PressChange, PressSets
  <2>3. CASE \/ PressSetsToggle(u, f) \/ PressSetsClear(u, f) \/ PressSave(u, f)
             \/ TextPending(u, f) \/ TextPage(u, f) \/ TextStart(u, f) \/ TextCommand(u, f)
    BY <2>3 DEF PressSetsToggle, PressSetsClear, PressSave, TextPending, TextPage, TextStart,
                TextCommand
  <2> QED
    BY <2>1, <2>2, <2>3 DEF Handler
<1> QED
  BY <1>1

LEMMA TailIs ==
  ASSUME NEW X, NEW s \in Seq(X), s # <<>>
  PROVE  /\ Head(s) = s[1] /\ Head(s) \in X /\ Tail(s) \in Seq(X) /\ Len(Tail(s)) = Len(s) - 1
         /\ Len(s) \in Nat \ {0} /\ 1 \in DOMAIN s
         /\ \A i \in DOMAIN Tail(s) : i + 1 \in DOMAIN s /\ Tail(s)[i] = s[i + 1]
BY HeadTailProperties, EmptySeq, LenProperties

(* A new update is the last one. *)
LEMMA QueueSends ==
  ASSUME QueueInv, NEW m, NEW d, NEW x, NEW i, Sends(m, d, x, i),
         [no |-> sent + 1, msg |-> m, do |-> d, on |-> x, item |-> i] \in Update
  PROVE  QueueInv'
<1> DEFINE u == [no |-> sent + 1, msg |-> m, do |-> d, on |-> x, item |-> i]
<1>1. /\ sent < MaxUpdates /\ Len(inbox) < MaxInbox /\ sent' = sent + 1
      /\ inbox' = Append(inbox, u) /\ UNCHANGED <<batch, offset, done, ever>>
  BY DEF Sends, history
<1>2. u \in Update /\ u.no = sent + 1
  OBVIOUS
<1> HIDE DEF u
<1>3. /\ inbox' \in Seq(Update) /\ Len(inbox') = Len(inbox) + 1
      /\ \A j \in DOMAIN inbox' : inbox'[j] = IF j \in DOMAIN inbox THEN inbox[j] ELSE u
      /\ DOMAIN inbox' = 1..(Len(inbox) + 1) /\ DOMAIN inbox = 1..Len(inbox)
  BY <1>1, <1>2, AppendProperties, LenProperties DEF QueueInv
<1>4. sent \in Nat /\ Len(inbox) \in Nat /\ MaxUpdates \in Nat /\ MaxInbox \in Nat
  BY ConstantsAssumption, LenProperties DEF QueueInv
<1>5. ASSUME NEW j \in DOMAIN inbox' PROVE inbox'[j].no = sent' - Len(inbox') + j
  <2>1. sent' - Len(inbox') = sent - Len(inbox)
    BY <1>1, <1>3, <1>4
  <2>2. CASE j \in DOMAIN inbox
    BY <2>1, <2>2, <1>3 DEF QueueInv
  <2>3. CASE j \notin DOMAIN inbox
    <3>1. j = Len(inbox) + 1 /\ inbox'[j] = u
      BY <2>3, <1>3, <1>4
    <3> QED
      BY <2>1, <3>1, <1>2, <1>4
  <2> QED
    BY <2>2, <2>3
<1>6. /\ sent' \in 0..MaxUpdates /\ Len(inbox') <= MaxInbox /\ Len(inbox') <= sent'
      /\ sent' - Len(inbox') <= ever' /\ ever' <= sent' /\ done' <= ever'
      /\ offset' \in Nat /\ done' \in Nat /\ ever' \in Nat /\ Len(batch') <= Len(inbox')
  BY <1>1, <1>3, <1>4, LenProperties DEF QueueInv
<1>7. /\ batch' \in Seq(Update)
      /\ \A j \in DOMAIN batch' : batch'[j].no = batch'[1].no + j - 1 /\ batch'[j].no <= sent'
      /\ batch' # <<>> => batch'[1].no > done' /\ batch'[1].no <= ever' + 1
      /\ offset' = done' + 1 \/ (offset' = 0 /\ done' = 0)
  <2>1. ASSUME NEW j \in DOMAIN batch PROVE batch[j].no <= sent + 1
    <3>1. batch[j].no <= sent /\ batch[j] \in Update
      BY <2>1, ElementOfSeq, LenProperties DEF QueueInv
    <3> QED
      BY <3>1, <1>4, UpdateIs
  <2> QED
    BY <1>1, <2>1 DEF QueueInv
<1> QED
  BY <1>3, <1>5, <1>6, <1>7 DEF QueueInv

(* What is left of the inbox after the updates below the offset. *)
LEMMA QueuePolls ==
  ASSUME QueueInv, Poll
  PROVE  QueueInv'
<1>1. PICK k \in 0..Len(inbox) :
        /\ \A i \in DOMAIN inbox : i <= k <=> inbox[i].no < offset
        /\ inbox' = SubSeq(inbox, k + 1, Len(inbox)) /\ batch' = inbox'
  BY DEF Poll
<1>2. UNCHANGED <<sent, offset, done, ever>>
  BY DEF Poll, history
<1>3. /\ sent \in Nat /\ Len(inbox) \in Nat /\ DOMAIN inbox = 1..Len(inbox) /\ k \in Nat
      /\ offset \in Nat /\ done \in Nat /\ ever \in Nat /\ inbox \in Seq(Update)
  BY ConstantsAssumption, LenProperties DEF QueueInv
<1>n. Len(inbox) \in Nat /\ k \in Nat /\ k <= Len(inbox)
  BY <1>3
<1>4. /\ inbox' \in Seq(Update) /\ Len(inbox') = Len(inbox) - k
      /\ DOMAIN inbox' = 1..(Len(inbox) - k)
      /\ \A i \in 1..(Len(inbox) - k) : inbox'[i] = inbox[k + i]
  <2>1. k + 1 \in 1..(Len(inbox) + 1) /\ Len(inbox) \in (k + 1) - 1..Len(inbox)
    BY <1>3
  <2>2. /\ inbox' \in Seq(Update) /\ Len(inbox') = Len(inbox) - (k + 1) + 1
        /\ \A i \in 1..(Len(inbox) - (k + 1) + 1) : inbox'[i] = inbox[k + 1 + i - 1]
    <3>1. \A i \in k + 1..Len(inbox) : inbox[i] \in Update
      BY <1>3, ElementOfSeq
    <3>2. k + 1 \in Int /\ Len(inbox) \in Int
      BY <1>3
    <3>3. /\ SubSeq(inbox, k + 1, Len(inbox)) \in Seq(Update)
          /\ Len(SubSeq(inbox, k + 1, Len(inbox)))
               = IF k + 1 <= Len(inbox) THEN Len(inbox) - (k + 1) + 1 ELSE 0
          /\ \A i \in 1..(Len(inbox) - (k + 1) + 1) :
               SubSeq(inbox, k + 1, Len(inbox))[i] = inbox[k + 1 + i - 1]
      BY <3>1, <3>2, SubSeqProperties
    <3>4. (IF k + 1 <= Len(inbox) THEN Len(inbox) - (k + 1) + 1 ELSE 0) = Len(inbox) - (k + 1) + 1
      BY <1>n
    <3>5. inbox' = SubSeq(inbox, k + 1, Len(inbox))
      BY <1>1
    <3> QED
      BY <3>3, <3>4, <3>5
  <2> QED
    BY <1>3, <2>2, LenProperties
<1>5. \A i \in 1..(Len(inbox) - k) : inbox'[i].no = sent - Len(inbox') + i
  BY <1>3, <1>4 DEF QueueInv
<1>6. sent - Len(inbox') <= ever
  <2>1. CASE k = 0
    BY <2>1, <1>3, <1>4 DEF QueueInv
  <2>2. CASE k > 0
    <3>1. k \in DOMAIN inbox
      BY <1>3, <2>2
    <3>2. inbox[k].no < offset
      BY <1>1, <1>3, <3>1
    <3>3. inbox[k].no = sent - Len(inbox) + k
      BY <3>1 DEF QueueInv
    <3>4. sent - Len(inbox) + k < offset /\ sent - Len(inbox) \in Nat
      BY <3>2, <3>3, <1>3 DEF QueueInv
    <3>5. offset = done + 1 /\ done <= ever
      BY <3>4, <1>3 DEF QueueInv
    <3> QED
      BY <3>4, <3>5, <1>3, <1>4
  <2> QED
    BY <2>1, <2>2, <1>3
<1>7. inbox' # <<>> => inbox'[1].no > done /\ inbox'[1].no <= ever + 1
  <2> SUFFICES ASSUME inbox' # <<>> PROVE inbox'[1].no > done /\ inbox'[1].no <= ever + 1
    OBVIOUS
  <2>1. Len(inbox') # 0
    BY <1>4, EmptySeq
  <2>2. k + 1 \in DOMAIN inbox /\ 1 \in 1..(Len(inbox) - k)
    <3>1. Len(inbox) - k # 0
      BY <2>1, <1>4
    <3>2. k + 1 \in 1..Len(inbox) /\ 1 \in 1..(Len(inbox) - k)
      BY <3>1, <1>n
    <3> QED
      BY <3>2, <1>3
  <2>3. inbox'[1] = inbox[k + 1] /\ inbox'[1].no = sent - Len(inbox') + 1
    BY <2>2, <1>4, <1>5
  <2>4. ~(inbox[k + 1].no < offset)
    BY <1>1, <1>3, <2>2
  <2> QED
    BY <2>3, <2>4, <1>3, <1>4, <1>6 DEF QueueInv
<1>8. /\ Len(inbox') <= MaxInbox /\ Len(inbox') <= sent
      /\ \A i \in DOMAIN inbox' : inbox'[i].no = inbox'[1].no + i - 1 /\ inbox'[i].no <= sent
  <2>1. MaxInbox \in Nat
    BY ConstantsAssumption
  <2>2. Len(inbox') <= MaxInbox /\ Len(inbox') <= sent
    BY <2>1, <1>3, <1>4 DEF QueueInv
  <2>3. ASSUME NEW i \in DOMAIN inbox'
        PROVE  inbox'[i].no = inbox'[1].no + i - 1 /\ inbox'[i].no <= sent
    <3>1. i \in 1..(Len(inbox) - k) /\ 1 \in 1..(Len(inbox) - k)
      BY <1>3, <1>4
    <3>2. inbox'[i].no = sent - Len(inbox') + i /\ inbox'[1].no = sent - Len(inbox') + 1
      BY <3>1, <1>5
    <3> QED
      BY <3>1, <3>2, <1>3, <1>4
  <2> QED
    BY <2>2, <2>3
<1>10. \A i \in DOMAIN inbox' : inbox'[i].no = sent' - Len(inbox') + i
  BY <1>2, <1>4, <1>5
<1>11. batch' = inbox' /\ Len(batch') <= Len(inbox')
  <2>1. Len(inbox') \in Nat
    BY <1>4, LenProperties
  <2> QED
    BY <1>1, <2>1
<1>12. /\ sent' \in 0..MaxUpdates /\ offset' \in Nat /\ done' \in Nat /\ ever' \in Nat
       /\ sent' - Len(inbox') <= ever' /\ ever' <= sent' /\ done' <= ever'
       /\ offset' = done' + 1 \/ (offset' = 0 /\ done' = 0)
  BY <1>2, <1>6 DEF QueueInv
<1> QED
  BY <1>2, <1>4, <1>7, <1>8, <1>10, <1>11, <1>12 DEF QueueInv

(* The update handled now is the one after the update handled last. *)
LEMMA QueueLoops ==
  ASSUME QueueInv, batch # <<>>, NEW raised \in BOOLEAN, Loop(Head(batch), raised)
  PROVE  QueueInv'
<1> DEFINE u == Head(batch)
<1>1. /\ offset' = u.no + 1 /\ done' = u.no /\ UNCHANGED <<inbox, sent>>
      /\ batch' = IF raised THEN <<>> ELSE Tail(batch)
      /\ ever' = IF u.no > ever THEN u.no ELSE ever
  BY DEF Loop, OffsetAfter
<1>2. batch \in Seq(Update)
  BY DEF QueueInv
<1>3. /\ u = batch[1] /\ u \in Update /\ Tail(batch) \in Seq(Update)
      /\ Len(Tail(batch)) = Len(batch) - 1 /\ Len(batch) \in Nat \ {0} /\ 1 \in DOMAIN batch
      /\ \A i \in DOMAIN Tail(batch) : i + 1 \in DOMAIN batch /\ Tail(batch)[i] = batch[i + 1]
  BY <1>2, TailIs
<1>4. u.no \in Nat /\ u.no > done /\ u.no <= ever + 1 /\ u.no <= sent
  BY <1>3, UpdateIs DEF QueueInv
<1> HIDE DEF u
<1>5. /\ sent \in Nat /\ ever \in Nat /\ done \in Nat /\ Len(inbox) \in Nat
      /\ sent - Len(inbox) <= ever /\ ever <= sent
  BY LenProperties DEF QueueInv
<1>6. /\ offset' \in Nat /\ done' \in Nat /\ ever' \in Nat /\ offset' = done' + 1
      /\ sent' - Len(inbox') <= ever' /\ ever' <= sent' /\ done' <= ever'
  BY <1>1, <1>4, <1>5
<1>7. /\ batch' \in Seq(Update) /\ Len(batch') <= Len(inbox')
      /\ \A i \in DOMAIN batch' : batch'[i].no = batch'[1].no + i - 1 /\ batch'[i].no <= sent'
      /\ batch' # <<>> => batch'[1].no > done' /\ batch'[1].no <= ever' + 1
  <2>1. CASE batch' = <<>>
    <3>1. batch' \in Seq(Update) /\ Len(batch') = 0 /\ DOMAIN batch' = {}
      BY <2>1, EmptySeq
    <3> QED
      BY <2>1, <3>1, <1>1, <1>5
  <2>2. CASE batch' # <<>>
    <3>1. batch' = Tail(batch)
      BY <1>1, <2>2
    <3>2. 1 \in DOMAIN batch' /\ DOMAIN batch' = 1..Len(batch')
      BY <3>1, <1>3, <2>2, TailIs, LenProperties
    <3>3. ASSUME NEW i \in DOMAIN batch'
          PROVE  batch'[i].no = u.no + i /\ batch'[i].no <= sent
      BY <3>1, <1>3, <1>4, <3>2 DEF QueueInv
    <3>4. batch'[1].no = u.no + 1
      BY <3>2, <3>3
    <3>5. \A i \in DOMAIN batch' : batch'[i].no = batch'[1].no + i - 1 /\ batch'[i].no <= sent
      BY <3>2, <3>3, <3>4, <1>4
    <3>6. batch'[1].no > done' /\ batch'[1].no <= ever' + 1
      BY <3>4, <1>1, <1>4, <1>5
    <3>7. Len(batch') <= Len(inbox)
      BY <3>1, <1>3, <1>5 DEF QueueInv
    <3> QED
      BY <3>1, <1>3, <3>5, <3>6, <3>7, <1>1
  <2> QED
    BY <2>1, <2>2
<1> QED
  BY <1>1, <1>6, <1>7 DEF QueueInv
-----------------------------------------------------------------------------
(* What a step may rely on that does not go astray: the answer is on the   *)
(* message that was pressed, the only one with a selection, and the press  *)
(* is one of a button that is on the screen.                               *)
Straight(u, f) ==
  /\ ~astray /\ f \notin {"edit", "lost"}
  /\ \A m \in Message : Selecting(m) => m = u.msg
  /\ u.do # "text" => <<u.do, u.on, u.item>> \in Buttons(screen[u.msg])

(* Only the pressed message shows a list after the answer. *)
LEMMA ListAnswered ==
  ASSUME screen \in [Message -> Screens], NEW u, NEW f, Straight(u, f), u.msg \in Message,
         NEW s, Answer(u.msg, s, f), NEW n \in Message, screen'[n].at = "list"
  PROVE  n = u.msg /\ screen'[n] = s
<1>1. screen' = [screen EXCEPT ![u.msg] = s]
  BY DEF Answer, Straight
<1>2. n = u.msg
  BY <1>1 DEF Straight, Selecting
<1> QED
  BY <1>1, <1>2

(* A text finds no selection on the screen and shows none. *)
LEMMA NoListReplied ==
  ASSUME screen \in [Message -> Screens], NEW u, NEW f, Straight(u, f), u.msg = None,
         Reply(Menu, f) \/ UNCHANGED screen, NEW n \in Message
  PROVE  screen'[n].at # "list"
<1>1. \A m \in Message : screen[m].at # "list"
  BY ConstantsAssumption DEF Straight, Selecting
<1>2. Menu.at # "list"
  BY ScreensAre
<1> QED
  BY <1>1, <1>2 DEF Reply, NewMessage

(* Whoever toggles or deletes does so in the list of the pending action. *)
LEMMA PressedInItsList ==
  ASSUME DialogInv, SelInv, NEW u \in Update, NEW f, Straight(u, f), u.do \in {"toggle", "delete"}
  PROVE  pending.action = "delete" /\ pending.on = u.on
<1>1. u.msg \in Message /\ u.do # "text"
  BY DEF Update
<1>2. screen[u.msg] \in Screens /\ <<u.do, u.on, u.item>> \in Buttons(screen[u.msg])
  BY <1>1 DEF DialogInv, Straight
<1> DEFINE b == <<u.do, u.on, u.item>>
<1>3. b[1] = u.do /\ b[2] = u.on
  OBVIOUS
<1> HIDE DEF b
<1>4. b \in Buttons(screen[u.msg])
  BY <1>2 DEF b
<1>5. screen[u.msg].at = "list" /\ screen[u.msg].on = b[2]
  BY <1>2, <1>3, <1>4, ButtonsOf
<1> QED
  BY <1>1, <1>3, <1>5 DEF SelInv, Straight

(* The handlers keep that the selection on the screen is the pending one,  *)
(* made in its own list.                                                   *)
LEMMA SelectionKept ==
  ASSUME DialogInv, SelInv, NEW u \in Update, NEW f, Handler(u, f),
         astray' \/ Straight(u, f),
         toggled' = IF u.do = "toggle" THEN toggled \cup {<<u.on, u.item>>} ELSE toggled
  PROVE  SelInv'
<1> SUFFICES ASSUME ~astray'
             PROVE  /\ \A m \in Message : screen'[m].at = "list" =>
                         pending'.action = "delete" /\ pending'.on = screen'[m].on
                    /\ pending'.action = "delete" =>
                         \A i \in pending'.selected : <<pending'.on, i>> \in toggled'
  BY DEF SelInv
<1>0. /\ Straight(u, f) /\ screen \in [Message -> Screens] /\ toggled \subseteq toggled'
      /\ u.do # "text" => u.msg \in Message
  BY DEF DialogInv, Update
<1>s. /\ \A m \in Message : screen[m].at = "list" =>
           pending.action = "delete" /\ pending.on = screen[m].on
      /\ pending.action = "delete" => \A i \in pending.selected : <<pending.on, i>> \in toggled
  BY <1>0 DEF SelInv, Straight
<1>p. ASSUME pending' = pending \/ pending' = NoPending
      PROVE  pending'.action = "delete" => \A i \in pending'.selected : <<pending'.on, i>> \in toggled'
  BY <1>p, <1>0, <1>s DEF NoPending
<1>a. ASSUME u.do # "text", NEW s, s.at # "list", Answer(u.msg, s, f), NEW m \in Message
      PROVE  screen'[m].at # "list"
  BY <1>a, <1>0, ListAnswered
<1>m. Menu.at # "list" /\ (u.on \in Rule => RuleScreen(u.on).at # "list")
  BY ScreensAre
<1>i. ASSUME NEW p, NEW S PROVE [at |-> "sets", on |-> p, shown |-> S].at # "list"
  OBVIOUS
(* A list is shown with the selection S, all of which was selected in it. *)
<1>l. ASSUME u.do # "text", NEW S, NEW before, ShowList(u.msg, u.on, S, before, f),
             before = pending \/ before = [action |-> "delete", on |-> u.on, selected |-> S],
             \A i \in S : <<u.on, i>> \in toggled'
      PROVE  /\ \A m \in Message : screen'[m].at = "list" =>
                  pending'.action = "delete" /\ pending'.on = screen'[m].on
             /\ pending'.action = "delete" =>
                  \A i \in pending'.selected : <<pending'.on, i>> \in toggled'
  <2>1. CASE f = "relay"
    <3>1. pending' = before /\ Answer(u.msg, Menu, f)
      BY <1>l, <2>1 DEF ShowList
    <3>2. \A m \in Message : screen'[m].at # "list"
      BY <1>l, <1>a, <1>m, <3>1
    <3>3. CASE before = pending
      BY <3>1, <3>2, <3>3, <1>p
    <3>4. CASE before = [action |-> "delete", on |-> u.on, selected |-> S]
      BY <3>1, <3>2, <3>4, <1>l
    <3> QED
      BY <3>3, <3>4, <1>l
  <2>2. CASE f # "relay"
    <3> DEFINE s == [at |-> "list", on |-> u.on, shown |-> rows[u.on]]
    <3>1. pending' = [action |-> "delete", on |-> u.on, selected |-> S] /\ Answer(u.msg, s, f)
      BY <1>l, <2>2 DEF ShowList, SetPending
    <3>2. s.on = u.on
      OBVIOUS
    <3> HIDE DEF s
    <3>3. \A m \in Message : screen'[m].at = "list" => screen'[m] = s
      BY <1>0, <1>l, <3>1, ListAnswered
    <3> QED
      BY <3>1, <3>2, <3>3, <1>l
  <2> QED
    BY <2>1, <2>2
(* The sets of a forwarding rule are shown: that is no list. *)
<1>r. ASSUME u.do # "text", NEW S, NEW before, ShowSets(u.msg, u.on, S, before, f),
             before = pending \/ before = [action |-> "sets", on |-> u.on, selected |-> S]
      PROVE  /\ \A m \in Message : screen'[m].at # "list"
             /\ pending'.action = "delete" =>
                  \A i \in pending'.selected : <<pending'.on, i>> \in toggled'
  <2>1. CASE f = "relay"
    <3>1. pending' = before /\ Answer(u.msg, Menu, f)
      BY <1>r, <2>1 DEF ShowSets
    <3>2. \A m \in Message : screen'[m].at # "list"
      BY <1>r, <1>a, <1>m, <3>1
    <3>3. CASE before = pending
      BY <3>1, <3>2, <3>3, <1>p
    <3>4. CASE before = [action |-> "sets", on |-> u.on, selected |-> S]
      BY <3>1, <3>2, <3>4
    <3> QED
      BY <3>3, <3>4, <1>r
  <2>2. CASE f # "relay"
    <3> DEFINE s == [at |-> "sets", on |-> u.on, shown |-> rows["ruleset"]]
    <3>1. pending' = [action |-> "sets", on |-> u.on, selected |-> S] /\ Answer(u.msg, s, f)
      BY <1>r, <2>2 DEF ShowSets, SetPending
    <3>2. s.at # "list"
      OBVIOUS
    <3> HIDE DEF s
    <3>3. \A m \in Message : screen'[m].at # "list"
      BY <1>r, <1>a, <3>1, <3>2
    <3> QED
      BY <3>1, <3>3
  <2> QED
    BY <2>1, <2>2
<1>1. CASE PressMenu(u, f)
  BY <1>1, <1>a, <1>m, <1>p DEF PressMenu, Pop
<1>2. CASE PressAsk(u, f)
  <2>1. u.do # "text" /\ Answer(u.msg, Menu, f) /\ pending'.action # "delete"
    BY <1>2 DEF PressAsk, AskFor, SetPending
  <2> QED
    BY <2>1, <1>a, <1>m
<1>3. CASE PressPage(u, f)
  <2>1. u.do # "text" /\ Answer(u.msg, Menu, f) /\ pending'.action # "delete"
    BY <1>3 DEF PressPage, AskFor, SetPending, Pop, NoPending
  <2> QED
    BY <2>1, <1>a, <1>m
<1>4. CASE PressCreate(u, f)
  BY <1>4, <1>a, <1>m, <1>p DEF PressCreate
<1>5. CASE PressOpen(u, f)
  <2>1. \A i \in Kept(u.on) : <<u.on, i>> \in toggled'
    BY <1>0, <1>s DEF Kept
  <2> QED
    BY <1>5, <2>1, <1>l DEF PressOpen
<1>6. CASE PressToggle(u, f)
  <2> DEFINE S == Toggled(pending.selected, u.item)
  <2>1. u.do = "toggle" /\ pending.action = "delete" /\ pending.on = u.on
    BY <1>6, <1>0, PressedInItsList DEF PressToggle
  <2>2. \A i \in S : i \in pending.selected \/ i = u.item
    BY DEF Toggled
  <2>3. \A i \in S : <<u.on, i>> \in toggled'
    BY <2>1, <2>2, <1>0, <1>s
  <2>4. ShowList(u.msg, u.on, S, [action |-> "delete", on |-> u.on, selected |-> S], f)
          \/ UNCHANGED <<pending, screen>>
    BY <1>6 DEF PressToggle, ToggleName, ToggleId
  <2> HIDE DEF S
  <2>5. CASE UNCHANGED <<pending, screen>>
    BY <2>5, <1>s, <1>p
  <2>6. CASE ShowList(u.msg, u.on, S, [action |-> "delete", on |-> u.on, selected |-> S], f)
    BY <2>1, <2>3, <2>6, <1>l
  <2> QED
    BY <2>4, <2>5, <2>6
<1>7. CASE PressClear(u, f)
  BY <1>7, <1>l DEF PressClear
<1>8. CASE PressDelete(u, f)
  BY <1>8, <1>a, <1>m, <1>p DEF PressDelete, Pop
<1>9. CASE PressRule(u, f)
  <2>1. u.on \in Rule /\ u.do # "text" /\ pending' = NoPending
    BY <1>9, UpdateIs DEF PressRule, Pop
  <2> QED
    BY <1>9, <2>1, <1>a, <1>m, <1>p DEF PressRule
<1>10. CASE PressChange(u, f)
  <2>1. u.on \in Rule /\ u.do # "text" /\ pending' = pending
    BY <1>10, UpdateIs DEF PressChange
  <2> QED
    BY <1>10, <2>1, <1>a, <1>m, <1>p DEF PressChange
<1>11. CASE PressSets(u, f)
  BY <1>11, <1>r DEF PressSets
<1>12. CASE PressSetsToggle(u, f)
  BY <1>12, <1>r DEF PressSetsToggle
<1>13. CASE PressSetsClear(u, f)
  BY <1>13, <1>r DEF PressSetsClear
<1>14. CASE PressSave(u, f)
  <2>1. u.on \in Rule /\ u.do # "text" /\ pending' = NoPending
    BY <1>14, UpdateIs DEF PressSave, Pop
  <2> QED
    BY <1>14, <2>1, <1>a, <1>m, <1>p DEF PressSave
<1>15. CASE TextPending(u, f) \/ TextPage(u, f) \/ TextStart(u, f) \/ TextCommand(u, f)
  <2>1. /\ u.msg = None /\ (Reply(Menu, f) \/ UNCHANGED screen)
        /\ pending' = pending \/ pending' = NoPending
    BY <1>15, UpdateIs DEF TextPending, TextPage, TextStart, TextCommand, Pop
  <2> QED
    BY <2>1, <1>0, <1>p, NoListReplied
<1> QED
  BY <1>1, <1>2, <1>3, <1>4, <1>5, <1>6, <1>7, <1>8, <1>9, <1>10, <1>11, <1>12, <1>13, <1>14,
     <1>15 DEF Handler
-----------------------------------------------------------------------------
(* What was not selected in a list is not deleted from it. *)
LEMMA RowsLeft ==
  ASSUME RowsOK, NEW u, NEW f, Handler(u, f), NEW l \in AllLists, NEW i \in rows[l] \ rows'[l]
  PROVE  u.do = "delete" /\ u.on = l /\ i \in pending.selected
<1>0. UNCHANGED rows => FALSE
  OBVIOUS
<1>1. ASSUME NEW k \in AllLists, NEW S, rows' = [rows EXCEPT ![k] = S]
      PROVE  l = k /\ rows'[l] = S
  BY <1>1 DEF RowsOK
<1>2. ~ \E k \in AllLists : \E S : rows' = [rows EXCEPT ![k] = rows[k] \cup S]
  BY <1>1
<1>n. {"ruleset", "source", "secret", "ddns"} = AllLists
  BY DEF AllLists
<1>3. CASE PressDelete(u, f)
  <2>1. u.do = "delete" /\ DeleteSelected(u.on, f)
    BY <1>3, <1>0 DEF PressDelete
  <2>2. CASE u.on = "ruleset" /\ DeleteRulesets(rows["ruleset"] \ pending.selected)
    BY <2>1, <2>2, <1>1, <1>n DEF DeleteRulesets
  <2>3. CASE u.on = "source" /\ DeleteSources(f)
    BY <2>1, <2>3, <1>1, <1>n DEF DeleteSources
  <2>4. CASE u.on = "secret" /\ DeleteSecrets
    BY <2>1, <2>4, <1>1, <1>n DEF DeleteSecrets
  <2>5. CASE u.on = "ddns" /\ DeleteDdns
    BY <2>1, <2>5, <1>1, <1>n DEF DeleteDdns
  <2> QED
    BY <2>1, <2>2, <2>3, <2>4, <2>5, <1>0 DEF DeleteSelected
<1>4. CASE PressCreate(u, f)
  BY <1>4, <1>0, <1>2, <1>n DEF PressCreate
<1>5. CASE PressSave(u, f)
  BY <1>5, <1>0, <1>2, <1>n DEF PressSave
<1>6. CASE TextPending(u, f)
  <2>1. CASE Carried(pending.on)
    BY <2>1, <1>0, <1>2, <1>n DEF Carried
  <2> QED
    BY <2>1, <1>6, <1>0 DEF TextPending
<1>7. CASE \/ PressMenu(u, f) \/ PressAsk(u, f) \/ PressPage(u, f) \/ PressOpen(u, f)
           \/ PressToggle(u, f) \/ PressClear(u, f) \/ PressRule(u, f) \/ PressChange(u, f)
  BY <1>7, <1>0 DEF PressMenu, PressAsk, PressPage, PressOpen, PressToggle, PressClear, PressRule,
                    PressChange, relay
<1>8. CASE \/ PressSets(u, f) \/ PressSetsToggle(u, f) \/ PressSetsClear(u, f)
           \/ TextPage(u, f) \/ TextStart(u, f) \/ TextCommand(u, f)
  BY <1>8, <1>0 DEF PressSets, PressSetsToggle, PressSetsClear, TextPage, TextStart, TextCommand,
                    relay
<1> QED
  BY <1>3, <1>4, <1>5, <1>6, <1>7, <1>8 DEF Handler
-----------------------------------------------------------------------------
(* The update that is handled, and what its step relies on. *)
LEMMA HandleIs ==
  ASSUME BotInv, batch # <<>>, Handle
  PROVE  \E f \in {"none"} \cup (Fault \ {"restart", "other"}) :
           /\ Head(batch) \in Update /\ Head(batch).no = batch[1].no /\ Handler(Head(batch), f)
           /\ faults' \in 0..MaxFaults
           /\ toggled' = IF Head(batch).do = "toggle"
                           THEN toggled \cup {<<Head(batch).on, Head(batch).item>>} ELSE toggled
           /\ astray' \/ Straight(Head(batch), f)
<1>1. PICK f \in {"none"} \cup (Fault \ {"restart", "other"}) :
        LET u == Head(batch)
        IN  /\ Handler(u, f)
            /\ f # "none" => faults < MaxFaults
            /\ faults' = IF f = "none" THEN faults ELSE faults + 1
            /\ toggled' = IF u.do = "toggle" THEN toggled \cup {<<u.on, u.item>>} ELSE toggled
            /\ astray' = (\/ astray \/ f \in {"edit", "lost"}
                          \/ \E m \in Message : Selecting(m) /\ m # u.msg
                          \/ u.do # "text" /\ <<u.do, u.on, u.item>> \notin Buttons(screen[u.msg]))
  BY DEF Handle
<1>2. Head(batch) \in Update /\ Head(batch) = batch[1]
  BY TailIs DEF BotInv, QueueInv
<1> DEFINE u == Head(batch)
<1> HIDE DEF u
<1>3. astray' = (\/ astray \/ f \in {"edit", "lost"}
                 \/ \E m \in Message : Selecting(m) /\ m # u.msg
                 \/ u.do # "text" /\ <<u.do, u.on, u.item>> \notin Buttons(screen[u.msg]))
  BY <1>1 DEF u
<1>4. astray' \/ Straight(u, f)
  BY <1>3, Zenon DEF Straight
<1>5. faults' \in 0..MaxFaults
  BY <1>1, ConstantsAssumption DEF BotInv
<1> QED
  BY <1>1, <1>2, <1>4, <1>5 DEF u

LEMMA BotInit ==
  ASSUME Init
  PROVE  BotInv
<1>1. screen \in [Message -> Screens] /\ \A m \in Message : screen[m].at # "list"
  <2>1. Unused.at # "list"
    <3>1. Menu \in [at : {"menu"}, on : {None}, shown : {{}}]
      BY DEF Menu
    <3>2. Unused \in [at : {"unused"}, on : {None}, shown : {{}}]
      BY <3>1 DEF Unused
    <3> QED
      BY <3>2
  <2> QED
    BY <2>1, ScreensAre DEF Init
<1>2. pending \in Pendings /\ pending.action # "delete"
  BY PendingsAre DEF Init, NoPending
<1>3. RowsOK
  BY DEF Init, RowsOK, AllLists, Items, Row
<1>4. QueueInv
  BY ConstantsAssumption, EmptySeq DEF Init, QueueInv
<1>5. faults \in 0..MaxFaults
  BY ConstantsAssumption DEF Init
<1> QED
  BY <1>1, <1>2, <1>3, <1>4, <1>5 DEF BotInv, DialogInv, SelInv

LEMMA QueueKept ==
  ASSUME QueueInv, UNCHANGED <<loop, done, ever>>
  PROVE  QueueInv'
BY DEF QueueInv, loop

LEMMA DialogKept ==
  ASSUME DialogInv, UNCHANGED <<screen, pending, rows, sets>>
  PROVE  DialogInv'
BY RowsKept DEF DialogInv

LEMMA SelectionSame ==
  ASSUME SelInv, UNCHANGED <<screen, pending, toggled, astray>>
  PROVE  SelInv'
BY DEF SelInv

LEMMA BotStep ==
  ASSUME BotInv, [Next]_vars
  PROVE  BotInv'
<1>0. DialogInv /\ QueueInv /\ SelInv /\ faults \in 0..MaxFaults
  BY DEF BotInv
<1>s. ASSUME NEW m, NEW d, NEW x, NEW i, Sends(m, d, x, i),
             [no |-> sent + 1, msg |-> m, do |-> d, on |-> x, item |-> i] \in Update
      PROVE  BotInv'
  <2>1. QueueInv'
    BY <1>0, <1>s, QueueSends
  <2>2. UNCHANGED <<pending, screen, relay, faults, history>>
    BY <1>s DEF Sends
  <2>3. DialogInv' /\ SelInv' /\ faults' \in 0..MaxFaults
    BY <1>0, <2>2, DialogKept, SelectionSame DEF relay, history
  <2> QED
    BY <2>1, <2>3 DEF BotInv
<1>n. sent + 1 \in Nat
  BY <1>0, ConstantsAssumption DEF QueueInv
<1>1. ASSUME NEW m \in Message, Press(m) PROVE BotInv'
  <2>1. PICK b \in Buttons(screen[m]) : Sends(m, b[1], b[2], b[3])
    BY <1>1 DEF Press
  <2> QED
    BY <2>1, <1>0, <1>n, <1>s, PressSent
<1>2. ASSUME NEW t \in Texts, Text(t) PROVE BotInv'
  BY <1>2, <1>n, <1>s, TextSent DEF Text
<1>3. CASE Poll
  <2>1. UNCHANGED <<pending, screen, relay, faults, history>>
    BY <1>3 DEF Poll
  <2>2. DialogInv' /\ SelInv' /\ faults' \in 0..MaxFaults
    BY <1>0, <2>1, DialogKept, SelectionSame DEF relay, history
  <2> QED
    BY <1>0, <1>3, <2>2, QueuePolls DEF BotInv
<1>4. CASE Handle
  <2> DEFINE u == Head(batch)
  <2>1. batch # <<>>
    BY <1>4 DEF Handle
  <2>2. PICK f : /\ u \in Update /\ Handler(u, f) /\ faults' \in 0..MaxFaults
                 /\ toggled' = IF u.do = "toggle" THEN toggled \cup {<<u.on, u.item>>} ELSE toggled
                 /\ astray' \/ Straight(u, f)
    BY <1>4, <2>1, HandleIs
  <2>3. QueueInv'
    BY <1>0, <2>1, <2>2, HandlerLoops, QueueLoops
  <2> HIDE DEF u
  <2>4. DialogInv' /\ SelInv'
    BY <1>0, <2>2, HandlerTyped, SelectionKept
  <2> QED
    BY <2>2, <2>3, <2>4 DEF BotInv
<1>5. CASE Restart
  <2>1. /\ offset' = 0 /\ batch' = <<>> /\ done' = 0 /\ pending' = NoPending
        /\ UNCHANGED <<inbox, sent, screen, relay, ever, toggled>>
        /\ faults < MaxFaults /\ faults' = faults + 1
    BY <1>5 DEF Restart, Pop
  <2>2. QueueInv'
    BY <1>0, <2>1, EmptySeq, LenProperties DEF QueueInv
  <2>3. screen' \in [Message -> Screens] /\ pending' \in Pendings /\ RowsOK'
    BY <1>0, <2>1, PendingsAre, RowsKept DEF DialogInv, relay
  <2>4. pending'.action # "delete"
    BY <2>1 DEF NoPending
  <2>5. ~astray' => \A m \in Message : screen'[m].at # "list"
    <3>1. astray' = (astray \/ \E m \in Message : Selecting(m))
      BY <1>5 DEF Restart
    <3>2. ~astray' => \A m \in Message : ~Selecting(m)
      BY <3>1, Zenon
    <3> QED
      BY <3>2, <2>1 DEF Selecting
  <2>6. faults' \in 0..MaxFaults
    BY <1>0, <2>1, ConstantsAssumption
  <2> QED
    BY <2>2, <2>3, <2>4, <2>5, <2>6 DEF BotInv, DialogInv, SelInv
<1>6. ASSUME NEW l \in Lists, OtherDeletes(l) PROVE BotInv'
  <2>1. UNCHANGED <<loop, pending, screen, given, history>> /\ faults < MaxFaults
        /\ faults' = faults + 1
    BY <1>6 DEF OtherDeletes
  <2>2. DialogInv'
    BY <1>0, <1>6, <2>1, RowsLost DEF DialogInv
  <2>3. QueueInv' /\ SelInv' /\ faults' \in 0..MaxFaults
    BY <1>0, <2>1, QueueKept, SelectionSame, ConstantsAssumption DEF history
  <2> QED
    BY <2>2, <2>3 DEF BotInv
<1>7. CASE UNCHANGED vars
  BY <1>0, <1>7, DialogKept, QueueKept, SelectionSame DEF BotInv, vars, relay, history
<1> QED
  BY <1>1, <1>2, <1>3, <1>4, <1>5, <1>6, <1>7 DEF Next

LEMMA BotAlways == Spec => []BotInv
<1>1. Init => BotInv
  BY BotInit
<1>2. BotInv /\ [Next]_vars => BotInv'
  BY BotStep
<1> QED
  BY <1>1, <1>2, PTL DEF Spec
-----------------------------------------------------------------------------
(* TypeOK holds for every chat: what is pending is a selection of one list *)
(* or of one rule, or a prompt, and no update is fetched that Telegram     *)
(* does not have (PENDING_ACTIONS, run).                                   *)
THEOREM TypeCorrect == Spec => []TypeOK
<1>1. BotInv => TypeOK
  <2> SUFFICES ASSUME BotInv PROVE TypeOK
    OBVIOUS
  <2>1. /\ sent \in 0..MaxUpdates /\ offset \in 0..(MaxUpdates + 1)
        /\ Len(inbox) <= MaxInbox /\ Len(batch) <= Len(inbox)
    BY ConstantsAssumption DEF BotInv, QueueInv
  <2>2. /\ pending.action \in {"none", "delete", "sets", "input"}
        /\ pending.action = "delete" => pending.on \in Lists
        /\ pending.action = "sets" => pending.on \in Rule
        /\ pending.selected \subseteq Name \cup Id
        /\ pending.action \in {"none", "input"} => pending.selected = {}
    BY DEF BotInv, DialogInv, Pendings, Row
  <2> QED
    BY <2>1, <2>2 DEF TypeOK, BotInv, DialogInv, RowsOK
<1> QED
  BY <1>1, BotAlways, PTL

(* Updates are handled in order, none twice in one run of the bot and none *)
(* left out, whatever fails, raises or restarts (run: the offset is past   *)
(* an update before its handler runs, and starts from nothing).            *)
THEOREM InOrder == Spec => HandledInOrder
<1>1. ASSUME BotInv, NEW n \in 1..MaxUpdates, batch # <<>>, Head(batch).no = n, Handle
      PROVE  n > done /\ n <= ever + 1
  <2>1. Head(batch).no = batch[1].no
    BY <1>1, HandleIs
  <2> QED
    BY <1>1, <2>1 DEF BotInv, QueueInv
<1>2. BotInv /\ [Next]_vars =>
        [ \A n \in 1..MaxUpdates :
            (batch # <<>> /\ Head(batch).no = n /\ Handle) => (n > done /\ n <= ever + 1) ]_vars
  BY <1>1
<1> QED
  BY <1>2, BotAlways, PTL DEF Spec, HandledInOrder

(* What the bot deletes from a list was selected by the user in that list  *)
(* (the render_..._delete functions, callback "...:delete_selected").      *)
THEOREM OnlySelected == Spec => OnlySelectedDeleted
<1>1. ASSUME BotInv, NEW l \in Lists, batch # <<>>, Handle, ~astray', NEW i \in rows[l] \ rows'[l]
      PROVE  <<l, i>> \in toggled
  <2> DEFINE u == Head(batch)
  <2>1. PICK f : u \in Update /\ Handler(u, f) /\ Straight(u, f)
    BY <1>1, HandleIs
  <2> HIDE DEF u
  <2>2. u.do = "delete" /\ u.on = l /\ i \in pending.selected
    BY <1>1, <2>1, RowsLeft, ConstantsAssumption DEF BotInv, DialogInv
  <2>3. pending.action = "delete" /\ pending.on = u.on
    BY <1>1, <2>1, <2>2, PressedInItsList DEF BotInv
  <2> QED
    BY <1>1, <2>1, <2>2, <2>3 DEF BotInv, SelInv, Straight
<1>2. BotInv /\ [Next]_vars =>
        [ \A l \in Lists : (batch # <<>> /\ Handle /\ ~astray') =>
            \A i \in rows[l] \ rows'[l] : <<l, i>> \in toggled ]_vars
  BY <1>1
<1> QED
  BY <1>2, BotAlways, PTL DEF Spec, OnlySelectedDeleted
=============================================================================
