------------------------------ MODULE RuleProofs ------------------------------
(***************************************************************************)
(* Safety of the forwarding rules for any processes, ports, hosts, pools   *)
(* and faults: one rule on a port, addresses of the rule's own host,       *)
(* recorded rules that exist, a kernel table that matches the committed    *)
(* rules, and the plain RuleBook implemented.                              *)
(***************************************************************************)
EXTENDS RuleEdit, TLAPS

Books == [rules : SUBSET Rule, selected : SUBSET (1..MaxRules), next : 1..(MaxRules + 1)]

(* An address that the host, if there is one, has had. *)
Fits(h, a) ==
  /\ h \in Host \cup {None} /\ a \in Addr
  /\ h # None => a \in Pool[h]

(* What the three properties ask of a book, committed or not. *)
Good(b) ==
  /\ b \in Books
  /\ \A r, s \in b.rules : r.lport = s.lport => r = s
  /\ \A r \in b.rules : Fits(r.host, r.ip)
  /\ b.selected \subseteq {r.id : r \in b.rules}

(* What a command carries from before the lock into its transaction. *)
Sane(c) ==
  /\ c.op \in {"add", "target"} => Fits(c.target.host, c.target.ip)
  /\ c.op = "add" => c.lport \in Port
  /\ c.op \in {"add", "policy"} => c.policy \in Policy
  /\ c.op = "port" => c.new \in Port
  /\ c.op = "sync" =>
       \A o \in c.old : o.host \in Host /\ c.answer[o.host] \subseteq Pool[o.host]

(* The inductive invariant: whatever may become the committed book is good *)
(* already, and the answers that commands wait with are of the right host. *)
RuleInv ==
  /\ Good(book) /\ Good(draft)
  /\ \A h \in Host : dns[h] # {} /\ dns[h] \subseteq Pool[h]
  /\ dns = [h \in Host |-> dns[h]]
  /\ pc = [p \in Proc |-> pc[p]] /\ cmd = [p \in Proc |-> cmd[p]]
  /\ \A p \in Proc : pc[p] # "idle" => Sane(cmd[p])

(* At first the books are the initial ones, and nobody is writing. *)
LEMMA InitGood == Init => RuleInv
<1> SUFFICES ASSUME Init PROVE RuleInv
  OBVIOUS
<1>1. Good(Blank)
  BY ConstantsAssumption DEF Good, Blank, Books
<1> QED
  BY <1>1 DEF Init, RuleInv

(* First picks a member. *)
LEMMA FirstMember == ASSUME NEW S, S # {} PROVE First(S) \in S
BY DEF First

(* The addresses of one host are addresses. *)
LEMMA PoolInAddr == ASSUME NEW h \in Host PROVE Pool[h] \subseteq Addr
BY DEF Addr

(* Replacing a rule by one with the same id on a port of its own. *)
LEMMA Replaced ==
  ASSUME NEW b, Good(b), NEW r \in b.rules, NEW s \in Rule,
         s.id = r.id, Fits(s.host, s.ip),
         \A q \in b.rules \ {r} : q.lport # s.lport
  PROVE  Good([b EXCEPT !.rules = (@ \ {r}) \cup {s}])
<1> DEFINE c == [b EXCEPT !.rules = (@ \ {r}) \cup {s}]
<1>1. c.rules = (b.rules \ {r}) \cup {s} /\ c.selected = b.selected /\ c \in Books
  BY DEF Good, Books
<1>2. \A i \in c.selected : \E q \in c.rules : q.id = i
  BY <1>1 DEF Good
<1> QED
  BY <1>1, <1>2 DEF Good

(* A new rule on a free port. *)
LEMMA Added ==
  ASSUME NEW b, Good(b), NEW s \in Rule, Fits(s.host, s.ip),
         b.next <= MaxRules, \A q \in b.rules : q.lport # s.lport
  PROVE  Good([b EXCEPT !.rules = @ \cup {s}, !.next = @ + 1])
<1> DEFINE c == [b EXCEPT !.rules = @ \cup {s}, !.next = @ + 1]
<1>1. b.next \in 1..MaxRules
  BY ConstantsAssumption DEF Good, Books
<1>2. b.next + 1 \in 1..(MaxRules + 1)
  BY <1>1, ConstantsAssumption
<1>3. c.rules = b.rules \cup {s} /\ c.selected = b.selected /\ c \in Books
  BY <1>2 DEF Good, Books
<1> QED
  BY <1>3 DEF Good

(* Rules that keep their ids and ports. *)
LEMMA Readdressed ==
  ASSUME NEW b, Good(b), NEW f \in [b.rules -> Rule],
         \A r \in b.rules : /\ f[r].id = r.id /\ f[r].lport = r.lport
                            /\ Fits(f[r].host, f[r].ip)
  PROVE  Good([b EXCEPT !.rules = {f[r] : r \in b.rules}])
<1> DEFINE c == [b EXCEPT !.rules = {f[r] : r \in b.rules}]
<1>1. c.rules = {f[r] : r \in b.rules} /\ c.selected = b.selected
  BY DEF Good, Books
<1>2. c \in Books
  BY <1>1 DEF Good, Books
<1>3. c.selected \subseteq {q.id : q \in c.rules}
  <2>1. \A r \in b.rules : f[r] \in c.rules /\ f[r].id = r.id
    BY <1>1
  <2> QED
    BY <1>1, <2>1 DEF Good
<1>4. \A q, s \in c.rules : q.lport = s.lport => q = s
  <2>1. \A r, t \in b.rules : f[r].lport = f[t].lport => r = t
    BY DEF Good
  <2> QED
    BY <1>1, <2>1
<1>5. \A q \in c.rules : Fits(q.host, q.ip)
  BY <1>1
<1> QED
  BY <1>2, <1>3, <1>4, <1>5 DEF Good

(* Without a rule, and without the selection of its id. *)
LEMMA Deleted ==
  ASSUME NEW b, Good(b), NEW S
  PROVE  Good([b EXCEPT !.rules = @ \ S, !.selected = @ \ {r.id : r \in S}])
<1> DEFINE c == [b EXCEPT !.rules = @ \ S, !.selected = @ \ {r.id : r \in S}]
<1>1. c.rules = b.rules \ S /\ c.selected = b.selected \ {r.id : r \in S} /\ c \in Books
  BY DEF Good, Books
<1>2. \A i \in c.selected : \E r \in c.rules : r.id = i
  BY <1>1 DEF Good
<1> QED
  BY <1>1, <1>2 DEF Good

(* An action that leaves the books, the addresses and the commands alone,  *)
(* or lets commands end, keeps the invariant.                              *)
LEMMA Quiet ==
  ASSUME RuleInv, UNCHANGED <<book, dns>>, Good(draft'),
         pc' = [p \in Proc |-> pc'[p]], cmd' = [p \in Proc |-> cmd'[p]],
         \A p \in Proc : pc'[p] # "idle" => pc[p] # "idle" /\ cmd'[p] = cmd[p]
  PROVE  RuleInv'
<1>1. Good(book)' /\ Good(draft)'
  BY DEF RuleInv, Good, Books
<1>2. \A p \in Proc : pc'[p] # "idle" => Sane(cmd[p])
  BY DEF RuleInv
<1> QED
  BY <1>1, <1>2 DEF RuleInv, Sane

(* A command that begins carries something sane. *)
LEMMA Beginning ==
  ASSUME RuleInv, NEW p \in Proc, NEW o, NEW c, Begun(p, o, c), Sane(c),
         Goto(p, "lock"), UNCHANGED dns, Good(book'), Good(draft')
  PROVE  RuleInv'
<1>1. pc' = [q \in Proc |-> pc'[q]] /\ cmd' = [q \in Proc |-> cmd'[q]]
  BY DEF RuleInv, Begun, Goto
<1>2. \A q \in Proc : pc'[q] # "idle" => Sane(cmd'[q])
  <2>1. cmd'[p] = c
    BY DEF RuleInv, Begun
  <2>2. \A q \in Proc \ {p} : pc'[q] = pc[q] /\ cmd'[q] = cmd[q]
    BY DEF RuleInv, Begun, Goto
  <2>3. \A q \in Proc \ {p} : pc'[q] # "idle" => Sane(cmd'[q])
    <3>1. \A q \in Proc : pc[q] # "idle" => Sane(cmd[q])
      BY DEF RuleInv
    <3> QED
      BY <2>2, <3>1
  <2> QED
    BY <2>1, <2>3
<1> QED
  BY <1>1, <1>2 DEF RuleInv, Good, Books, Sane

(* The transactions: what becomes the draft is good. *)
LEMMA Staged ==
  ASSUME RuleInv, NEW p \in Proc, NEW b, Good(b), pc[p] = "begin",
         Stage(p, b) \/ StageIfNew(p, b) \/ Refuse(p)
  PROVE  RuleInv'
<1>1. CASE Stage(p, b)
  <2>1. Good(draft')
    BY <1>1 DEF Stage
  <2>2. /\ pc' = [q \in Proc |-> pc'[q]] /\ cmd' = cmd
        /\ \A q \in Proc : pc'[q] # "idle" => pc[q] # "idle"
    BY <1>1 DEF Stage, Goto, RuleInv
  <2> QED
    BY <1>1, <2>1, <2>2, Quiet DEF Stage, RuleInv
<1>2. CASE Refuse(p)
  <2>1. Good(draft')
    BY <1>2 DEF Refuse, GiveUp, RuleInv
  <2>2. /\ pc' = [q \in Proc |-> pc'[q]] /\ cmd' = [q \in Proc |-> cmd'[q]]
        /\ \A q \in Proc : pc'[q] # "idle" => pc[q] # "idle" /\ cmd'[q] = cmd[q]
    BY <1>2 DEF Refuse, GiveUp, Rest, Goto, RuleInv
  <2> QED
    BY <1>2, <2>1, <2>2, Quiet DEF Refuse
<1> QED
  BY <1>1, <1>2 DEF StageIfNew

(* add-rule inserts under an unused id and refuses a port that is taken. *)
LEMMA AddGood == ASSUME RuleInv, NEW p \in Proc, BeginAdd(p) PROVE RuleInv'
<1> DEFINE c == cmd[p]
           New(n) == [id |-> n, lport |-> c.lport, host |-> c.target.host,
                      ip |-> c.target.ip, policy |-> c.policy]
<1>1. /\ pc[p] = "begin" /\ Good(book)
      /\ c.lport \in Port /\ c.policy \in Policy /\ Fits(c.target.host, c.target.ip)
  BY DEF BeginAdd, RuleInv, Sane
<1>2. \A n \in 1..MaxRules :
        /\ New(n) \in Rule /\ New(n).id = n /\ New(n).lport = c.lport
        /\ Fits(New(n).host, New(n).ip)
  BY <1>1 DEF Rule, Fits
<1>3. CASE On(book, c.lport) = {} /\ book.next <= MaxRules
           /\ Stage(p, [book EXCEPT !.rules = @ \cup {New(book.next)}, !.next = @ + 1])
  <2>1. book.next \in 1..MaxRules
    BY <1>1, <1>3, ConstantsAssumption DEF Good, Books
  <2>2. \A q \in book.rules : q.lport # c.lport
    BY <1>3 DEF On
  <2>3. Good([book EXCEPT !.rules = @ \cup {New(book.next)}, !.next = @ + 1])
    BY <1>1, <1>2, <1>3, <2>1, <2>2, Added
  <2> QED
    BY <1>1, <1>3, <2>3, Staged
<1>4. CASE Refuse(p)
  BY <1>1, <1>4, Staged
<1>5. ASSUME NEW r \in On(book, c.lport),
             Stage(p, [book EXCEPT !.rules = (@ \ {r}) \cup {New(r.id)}])
      PROVE  RuleInv'
  <2>1. r \in book.rules /\ r.lport = c.lport /\ r.id \in 1..MaxRules
    BY <1>1, <1>5 DEF On, Good, Books, Rule
  <2>2. \A q \in book.rules \ {r} : q.lport # c.lport
    BY <1>1, <2>1 DEF Good
  <2>3. Good([book EXCEPT !.rules = (@ \ {r}) \cup {New(r.id)}])
    BY <1>1, <1>2, <2>1, <2>2, Replaced
  <2> QED
    BY <1>1, <1>5, <2>3, Staged
<1> QED
  BY <1>3, <1>4, <1>5 DEF BeginAdd

(* edit-rule refuses a port of another rule and writes the destination it *)
(* has resolved.                                                          *)
LEMMA EditGood == ASSUME RuleInv, NEW p \in Proc, BeginEdit(p) PROVE RuleInv'
<1> DEFINE c == cmd[p]
<1>1. /\ pc[p] = "begin" /\ Good(book) /\ c.op \in {"port", "target", "policy"}
      /\ c.op = "target" => Fits(c.target.host, c.target.ip)
      /\ c.op = "policy" => c.policy \in Policy
      /\ c.op = "port" => c.new \in Port
  BY DEF BeginEdit, RuleInv, Sane
<1>2. CASE Refuse(p)
  BY <1>1, <1>2, Staged
<1>3. ASSUME NEW r \in On(book, c.lport), ~(c.op = "port" /\ TakenByOther(r, c.new)),
             StageIfNew(p, [book EXCEPT !.rules = (@ \ {r}) \cup {Edited(r, c)}])
      PROVE  RuleInv'
  <2>1. r \in book.rules /\ r \in Rule /\ Fits(r.host, r.ip)
    BY <1>1, <1>3 DEF On, Good, Books
  <2>2. \A q \in book.rules \ {r} : q.lport # r.lport
    BY <1>1, <2>1 DEF Good
  <2>3. /\ Edited(r, c) \in Rule /\ Edited(r, c).id = r.id
        /\ Fits(Edited(r, c).host, Edited(r, c).ip)
        /\ \A q \in book.rules \ {r} : q.lport # Edited(r, c).lport
    <3>1. CASE c.op = "port"
      <4>1. Edited(r, c) = [r EXCEPT !.lport = c.new]
        BY <3>1 DEF Edited
      <4>2. \A q \in book.rules \ {r} : q.lport # c.new
        BY <1>3, <3>1 DEF TakenByOther, On
      <4> QED
        BY <1>1, <2>1, <3>1, <4>1, <4>2 DEF Rule
    <3>2. CASE c.op = "target"
      <4>1. Edited(r, c) = [r EXCEPT !.host = c.target.host, !.ip = c.target.ip]
        BY <3>2 DEF Edited
      <4> QED
        BY <1>1, <2>1, <2>2, <3>2, <4>1 DEF Rule, Fits
    <3>3. CASE c.op = "policy"
      <4>1. Edited(r, c) = [r EXCEPT !.policy = c.policy]
        BY <3>3 DEF Edited
      <4> QED
        BY <1>1, <2>1, <2>2, <3>3, <4>1 DEF Rule
    <3> QED
      BY <1>1, <3>1, <3>2, <3>3
  <2>4. Good([book EXCEPT !.rules = (@ \ {r}) \cup {Edited(r, c)}])
    BY <1>1, <2>1, <2>3, Replaced
  <2> QED
    BY <1>1, <1>3, <2>4, Staged
<1> QED
  BY <1>2, <1>3 DEF BeginEdit

(* The timer changes addresses only, and only of rules that still have    *)
(* the host whose answer it holds.                                        *)
LEMMA SyncGood == ASSUME RuleInv, NEW p \in Proc, BeginSync(p) PROVE RuleInv'
<1> DEFINE c == cmd[p]
           Stale(r) ==
             /\ \E o \in c.old : o.id = r.id /\ o.host = r.host /\ o.ip = r.ip
             /\ c.answer[r.host] # {} /\ r.ip \notin c.answer[r.host]
           f == [r \in book.rules |->
                   IF Stale(r) THEN [r EXCEPT !.ip = First(c.answer[r.host])] ELSE r]
<1>1. /\ pc[p] = "begin" /\ Good(book)
      /\ \A o \in c.old : o.host \in Host /\ c.answer[o.host] \subseteq Pool[o.host]
  BY DEF BeginSync, RuleInv, Sane
<1>2. ASSUME NEW r \in book.rules
      PROVE  /\ f[r] \in Rule /\ f[r].id = r.id /\ f[r].lport = r.lport
             /\ Fits(f[r].host, f[r].ip)
  <2>1. r \in Rule /\ Fits(r.host, r.ip)
    BY <1>1 DEF Good, Books
  <2>2. CASE Stale(r)
    <3>1. r.host \in Host /\ c.answer[r.host] \subseteq Pool[r.host]
      BY <1>1, <2>2
    <3>2. First(c.answer[r.host]) \in c.answer[r.host]
      BY <2>2, FirstMember
    <3>3. First(c.answer[r.host]) \in Pool[r.host] /\ First(c.answer[r.host]) \in Addr
      BY <3>1, <3>2, PoolInAddr
    <3>4. f[r] = [r EXCEPT !.ip = First(c.answer[r.host])]
      BY <2>2
    <3> HIDE DEF f, c, Stale
    <3> QED
      BY <2>1, <3>1, <3>3, <3>4 DEF Rule, Fits
  <2>3. CASE ~Stale(r)
    BY <2>1, <2>3
  <2> QED
    BY <2>2, <2>3
<1>3. f \in [book.rules -> Rule]
  BY <1>2
<1>4. Good([book EXCEPT !.rules = {f[r] : r \in book.rules}])
  <2> HIDE DEF f
  <2> QED
    BY <1>1, <1>2, <1>3, Readdressed
<1>5. StageIfNew(p, [book EXCEPT !.rules = {f[r] : r \in book.rules}])
  <2>1. {IF Stale(r) THEN [r EXCEPT !.ip = First(c.answer[r.host])] ELSE r : r \in book.rules}
          = {f[r] : r \in book.rules}
    OBVIOUS
  <2>2. StageIfNew(p, [book EXCEPT !.rules =
          {IF Stale(r) THEN [r EXCEPT !.ip = First(c.answer[r.host])] ELSE r : r \in book.rules}])
    BY DEF BeginSync
  <2> HIDE DEF f, Stale
  <2> QED
    BY <2>1, <2>2
<1> HIDE DEF f
<1> QED
  BY <1>1, <1>4, <1>5, Staged

(* capture set selects among the rules of the database it reads. *)
LEMMA CaptureGood == ASSUME RuleInv, NEW p \in Proc, BeginCapture(p) PROVE RuleInv'
<1> DEFINE S == {r.id : r \in {q \in book.rules : q.lport \in cmd[p].ports}}
<1>1. pc[p] = "begin" /\ Good(book)
  BY DEF BeginCapture, RuleInv
<1>2. CASE Refuse(p)
  BY <1>1, <1>2, Staged
<1>3. CASE StageIfNew(p, [book EXCEPT !.selected = S])
  <2>1. S \subseteq 1..MaxRules /\ S \subseteq {r.id : r \in book.rules}
    BY <1>1 DEF Good, Books, Rule
  <2>2. Good([book EXCEPT !.selected = S])
    <3> HIDE DEF S
    <3> QED
      BY <1>1, <2>1 DEF Good, Books
  <2> QED
    BY <1>1, <1>3, <2>2, Staged
<1> QED
  BY <1>2, <1>3 DEF BeginCapture

(* The commands, up to their wait for the lock. *)
LEMMA TargetFits ==
  ASSUME RuleInv, NEW port, NEW t \in Targets(On(book, port))
  PROVE  Fits(t.host, t.ip)
<1>1. CASE t \in [host : {None}, ip : Fixed]
  BY <1>1 DEF Fits, Addr
<1>2. ASSUME NEW h \in Host, t = [host |-> h, ip |-> Resolved(h, On(book, port))]
      PROVE  Fits(t.host, t.ip)
  <2>1. Resolved(h, On(book, port)) \in Pool[h]
    <3>1. CASE \E r \in On(book, port) : r.host = h
      <4> DEFINE q == CHOOSE r \in On(book, port) : r.host = h
      <4>1. q \in book.rules /\ q.host = h
        BY <3>1 DEF On
      <4>2. q.ip \in Pool[h]
        <5> HIDE DEF q
        <5> QED
          BY <4>1, ConstantsAssumption DEF RuleInv, Good, Fits
      <4> QED
        BY <3>1, <4>2 DEF Resolved
    <3>2. CASE ~\E r \in On(book, port) : r.host = h
      <4>1. dns[h] # {} /\ dns[h] \subseteq Pool[h]
        BY DEF RuleInv
      <4>2. First(dns[h]) \in Pool[h]
        BY <4>1, FirstMember
      <4> QED
        BY <3>2, <4>2 DEF Resolved
    <3> QED
      BY <3>1, <3>2
  <2> QED
    BY <1>2, <2>1, PoolInAddr DEF Fits
<1> QED
  BY <1>1, <1>2 DEF Targets

(* Every command that is begun carries a destination that fits and an     *)
(* answer of the host it asked about.                                     *)
LEMMA CommandGood == ASSUME RuleInv, NEW p \in Proc, Command(p) PROVE RuleInv'
<1>0. Good(book) /\ Good(draft)
  BY DEF RuleInv
<1>1. ASSUME UNCHANGED <<book, draft>> PROVE Good(book') /\ Good(draft')
  BY <1>0, <1>1
<1>2. ASSUME NEW port \in Port, NEW y \in Policy, AddRule(p, port, y) PROVE RuleInv'
  <2>1. PICK t \in Targets(On(book, port)) :
          Begun(p, "add", [op |-> "add", lport |-> port, target |-> t, policy |-> y])
    BY <1>2 DEF AddRule
  <2>2. Sane([op |-> "add", lport |-> port, target |-> t, policy |-> y])
    BY <2>1, TargetFits DEF Sane
  <2>3. Goto(p, "lock") /\ UNCHANGED dns /\ UNCHANGED <<book, draft>>
    BY <1>2 DEF AddRule, database
  <2> QED
    BY <1>1, <2>1, <2>2, <2>3, Beginning
<1>3. ASSUME NEW port \in Port, NEW y \in Policy, EditPolicy(p, port, y) PROVE RuleInv'
  <2>1. PICK r \in On(book, port) :
          Begun(p, "policy", [op |-> "policy", lport |-> port, old |-> r, policy |-> y])
    BY <1>3 DEF EditPolicy
  <2>2. Sane([op |-> "policy", lport |-> port, old |-> r, policy |-> y])
    BY DEF Sane
  <2>3. Goto(p, "lock") /\ UNCHANGED dns /\ UNCHANGED <<book, draft>>
    BY <1>3 DEF EditPolicy, database
  <2> QED
    BY <1>1, <2>1, <2>2, <2>3, Beginning
<1>4. ASSUME NEW port \in Port, NEW new \in Port, EditPort(p, port, new) PROVE RuleInv'
  <2>1. PICK r \in On(book, port) :
          Begun(p, "port", [op |-> "port", lport |-> port, old |-> r, new |-> new])
    BY <1>4 DEF EditPort
  <2>2. Sane([op |-> "port", lport |-> port, old |-> r, new |-> new])
    BY DEF Sane
  <2>3. Goto(p, "lock") /\ UNCHANGED dns /\ UNCHANGED <<book, draft>>
    BY <1>4 DEF EditPort, database
  <2> QED
    BY <1>1, <2>1, <2>2, <2>3, Beginning
<1>5. ASSUME NEW port \in Port, EditTarget(p, port) PROVE RuleInv'
  <2>1. PICK r \in On(book, port), t \in Targets(On(book, port)) :
          Begun(p, "target", [op |-> "target", lport |-> port, old |-> r, target |-> t])
    BY <1>5 DEF EditTarget
  <2>2. Sane([op |-> "target", lport |-> port, old |-> r, target |-> t])
    BY <2>1, TargetFits DEF Sane
  <2>3. Goto(p, "lock") /\ UNCHANGED dns /\ UNCHANGED <<book, draft>>
    BY <1>5 DEF EditTarget, database
  <2> QED
    BY <1>1, <2>1, <2>2, <2>3, Beginning
<1>6. ASSUME NEW ports \in SUBSET Port, Capture(p, ports) PROVE RuleInv'
  <2>1. Sane([op |-> "capture", ports |-> ports])
    BY DEF Sane
  <2>2. Goto(p, "lock") /\ UNCHANGED dns /\ UNCHANGED <<book, draft>>
    BY <1>6 DEF Capture, database
  <2> QED
    BY <1>1, <1>6, <2>1, <2>2, Beginning DEF Capture
<1>7. ASSUME NEW port \in Port, DeleteRule(p, port) PROVE RuleInv'
  <2>1. Good(book') /\ Good(draft')
    BY <1>0, <1>7, Deleted DEF DeleteRule
  <2>2. Sane([op |-> "delete"])
    BY DEF Sane
  <2> QED
    BY <1>7, <2>1, <2>2, Beginning DEF DeleteRule
<1> QED
  BY <1>2, <1>3, <1>4, <1>5, <1>6, <1>7 DEF Command

(* The timer carries answers of the hosts it asked about. *)
LEMMA StartSyncGood == ASSUME RuleInv, NEW p \in Proc, StartSync(p) PROVE RuleInv'
<1> DEFINE snapshot == {r \in book.rules : r.host # None}
           answer(failed) == [h \in {r.host : r \in snapshot} |->
                                IF h \in failed THEN {} ELSE dns[h]]
           c(failed) == [op |-> "sync", old |-> snapshot, answer |-> answer(failed)]
<1>1. PICK failed \in SUBSET {r.host : r \in snapshot} : Begun(p, "sync", c(failed))
  BY DEF StartSync
<1>2. Sane(c(failed))
  <2>1. ASSUME NEW o \in snapshot
        PROVE  o.host \in Host /\ answer(failed)[o.host] \subseteq Pool[o.host]
    <3>1. o.host \in Host
      BY DEF RuleInv, Good, Fits
    <3>2. dns[o.host] \subseteq Pool[o.host]
      BY <3>1 DEF RuleInv
    <3> QED
      BY <3>1, <3>2
  <2>2. /\ c(failed).op = "sync" /\ c(failed).old = snapshot
        /\ c(failed).answer = answer(failed)
    OBVIOUS
  <2> HIDE DEF c, answer, snapshot
  <2> QED
    BY <2>1, <2>2 DEF Sane
<1>3. /\ Goto(p, "lock") /\ UNCHANGED dns
      /\ Good(book') /\ Good(draft')
  BY DEF StartSync, database, RuleInv
<1> HIDE DEF c
<1> QED
  BY <1>1, <1>2, <1>3, Beginning

(* A failure rolls back; the lock, the table and the text are none of the  *)
(* invariant's business.                                                   *)
LEMMA GiveUpGood ==
  ASSUME RuleInv, NEW p \in Proc, GiveUp(p), UNCHANGED <<book, dns>>
  PROVE  RuleInv'
<1>1. Good(draft')
  BY DEF GiveUp, RuleInv
<1>2. /\ pc' = [q \in Proc |-> pc'[q]] /\ cmd' = [q \in Proc |-> cmd'[q]]
      /\ \A q \in Proc : pc'[q] # "idle" => pc[q] # "idle" /\ cmd'[q] = cmd[q]
  BY DEF GiveUp, Rest, Goto, RuleInv
<1> QED
  BY <1>1, <1>2, Quiet

(* The commit makes a good draft the book. *)
LEMMA CommitGood == ASSUME RuleInv, NEW p \in Proc, Commit(p) PROVE RuleInv'
<1>1. Good(book') /\ Good(draft')
  BY DEF Commit, RuleInv
<1>2. /\ pc' = [q \in Proc |-> pc'[q]] /\ cmd' = [q \in Proc |-> cmd'[q]]
      /\ \A q \in Proc : pc'[q] # "idle" => pc[q] # "idle" /\ cmd'[q] = cmd[q]
  BY DEF Commit, Rest, Goto, RuleInv
<1>3. \A q \in Proc : pc'[q] # "idle" => Sane(cmd'[q])
  BY <1>2 DEF RuleInv
<1> QED
  BY <1>1, <1>2, <1>3 DEF Commit, RuleInv, Good, Books, Sane

(* The invariant is inductive: one case for each action. *)
LEMMA StepInv == RuleInv /\ [Next]_vars => RuleInv'
<1> SUFFICES ASSUME RuleInv, [Next]_vars PROVE RuleInv'
  OBVIOUS
<1>1. ASSUME NEW p \in Proc, Lock(p) \/ Render(p) \/ Install(p) PROVE RuleInv'
  <2>1. UNCHANGED <<book, draft, dns, cmd>> /\ pc[p] # "idle"
    BY <1>1 DEF Lock, Render, Install, database
  <2>2. Good(draft') /\ cmd' = [q \in Proc |-> cmd'[q]]
    BY <2>1 DEF RuleInv
  <2>3. /\ pc' = [q \in Proc |-> pc'[q]]
        /\ \A q \in Proc : pc'[q] # "idle" => pc[q] # "idle" /\ cmd'[q] = cmd[q]
    BY <1>1, <2>1 DEF Lock, Render, Install, Goto, RuleInv
  <2> QED
    BY <2>1, <2>2, <2>3, Quiet
<1>2. ASSUME NEW p \in Proc, Step(p) PROVE RuleInv'
  BY <1>1, <1>2, AddGood, EditGood, SyncGood, CaptureGood, CommitGood DEF Step
<1>3. ASSUME NEW p \in Proc, InstallFails(p) \/ WriteConfFails(p) \/ Stop(p) PROVE RuleInv'
  BY <1>3, GiveUpGood DEF InstallFails, WriteConfFails, Stop
<1>4. ASSUME NEW h \in Host, NEW S \in SUBSET Addr, DnsChanges(h, S) PROVE RuleInv'
  <2>1. UNCHANGED <<book, draft, pc, cmd>>
    BY <1>4 DEF DnsChanges, database, local
  <2>2. /\ \A g \in Host : dns'[g] # {} /\ dns'[g] \subseteq Pool[g]
        /\ dns' = [g \in Host |-> dns'[g]]
    BY <1>4 DEF DnsChanges, RuleInv
  <2>3. \A q \in Proc : pc'[q] # "idle" => Sane(cmd'[q])
    BY <2>1 DEF RuleInv
  <2> QED
    BY <2>1, <2>2, <2>3 DEF RuleInv, Good, Books, Sane
<1>5. CASE UNCHANGED vars
  BY <1>5 DEF vars, database, local, RuleInv, Good, Books, Sane
<1> QED
  BY <1>1, <1>2, <1>3, <1>4, <1>5, CommandGood, StartSyncGood DEF Next

(* The strengthened invariant holds in every reachable state. *)
THEOREM RulesSound == Spec => []RuleInv
BY InitGood, StepInv, PTL DEF Spec

(* However commands, timer runs and failures interleave, no two rules      *)
(* listen on one port.                                                     *)
THEOREM PortsDistinct == Spec => []OneRulePerPort
<1>1. RuleInv => OneRulePerPort
  BY DEF RuleInv, Good, OneRulePerPort
<1> QED
  BY <1>1, RulesSound, PTL

(* A rule with a host has an address that this very host has had.          *)
THEOREM AddressesRight == Spec => []AddressBelongsToHost
<1>1. RuleInv => AddressBelongsToHost
  BY DEF RuleInv, Good, Fits, AddressBelongsToHost
<1> QED
  BY <1>1, RulesSound, PTL

(* What is selected for recording is a rule that there is.                 *)
THEOREM SelectionRight == Spec => []SelectedExist
<1>1. RuleInv => SelectedExist
  BY DEF RuleInv, Good, SelectedExist
<1> QED
  BY <1>1, RulesSound, PTL
-----------------------------------------------------------------------------
(* RuleEdit implements RuleBook. A commit is one step of the book, so the  *)
(* invariant has to know, from the transaction's first statement on, that  *)
(* the draft is one step of the book ahead; nobody else commits meanwhile. *)
Target == Book!Target

Renewed(a, b, r, s) ==
  /\ b.rules = (a.rules \ {r}) \cup {s}
  /\ b.selected = a.selected /\ b.next = a.next

(* The steps of RuleBook but Remove, from one book to another. *)
OneStep(a, b) ==
  \/ \E p \in Port, t \in Target, y \in Policy :
       /\ p \notin {r.lport : r \in a.rules}
       /\ b.rules = a.rules \cup {[id |-> a.next, lport |-> p, host |-> t.host,
                                   ip |-> t.ip, policy |-> y]}
       /\ b.next = a.next + 1 /\ b.selected = a.selected
  \/ \E r \in a.rules, t \in Target, y \in Policy :
       Renewed(a, b, r, [r EXCEPT !.host = t.host, !.ip = t.ip, !.policy = y])
  \/ \E r \in a.rules, p \in Port :
       p \notin {q.lport : q \in a.rules} /\ Renewed(a, b, r, [r EXCEPT !.lport = p])
  \/ \E r \in a.rules, t \in Target :
       Renewed(a, b, r, [r EXCEPT !.host = t.host, !.ip = t.ip])
  \/ \E r \in a.rules, y \in Policy : Renewed(a, b, r, [r EXCEPT !.policy = y])
  \/ /\ \E f \in [a.rules -> {r.ip : r \in a.rules} \cup UNION {Pool[h] : h \in Host}] :
          /\ \A r \in a.rules : f[r] = r.ip \/ (r.host \in Host /\ f[r] \in Pool[r.host])
          /\ b.rules = {[r EXCEPT !.ip = f[r]] : r \in a.rules}
     /\ b.selected = a.selected /\ b.next = a.next
  \/ /\ b.selected \in SUBSET {r.id : r \in a.rules}
     /\ b.rules = a.rules /\ b.next = a.next

Aimed(c) == c.op \in {"add", "target"} => c.target \in Target

Ahead ==
  /\ writer # None => OneStep(book, draft)
  /\ \A p \in Proc : pc[p] # "idle" => Aimed(cmd[p])

(* What a draft may differ by is a step of the rule book. *)
LEMMA BookStep == ASSUME OneStep(book, book') PROVE Book!Next
<1>1. ASSUME NEW p \in Port, NEW t \in Target, NEW y \in Policy,
             p \notin {r.lport : r \in book.rules},
             book'.rules = book.rules \cup {[id |-> book.next, lport |-> p, host |-> t.host,
                                             ip |-> t.ip, policy |-> y]},
             book'.next = book.next + 1, book'.selected = book.selected
      PROVE  Book!Next
  <2>1. Book!New(p, t, y)
    BY <1>1 DEF Book!New, Book!Taken
  <2> QED
    BY <2>1 DEF Book!Next, Target
<1>2. ASSUME NEW r \in book.rules, NEW t \in Target, NEW y \in Policy,
             Renewed(book, book', r, [r EXCEPT !.host = t.host, !.ip = t.ip, !.policy = y])
      PROVE  Book!Next
  <2>1. Book!Rewrite(r, t, y)
    BY <1>2 DEF Book!Rewrite, Book!Change, Renewed
  <2> QED
    BY <2>1 DEF Book!Next, Target
<1>3. ASSUME NEW r \in book.rules, NEW p \in Port, p \notin {q.lport : q \in book.rules},
             Renewed(book, book', r, [r EXCEPT !.lport = p])
      PROVE  Book!Next
  <2>1. Book!SetPort(r, p)
    BY <1>3 DEF Book!SetPort, Book!Change, Book!Taken, Renewed
  <2> QED
    BY <2>1 DEF Book!Next
<1>4. ASSUME NEW r \in book.rules, NEW t \in Target,
             Renewed(book, book', r, [r EXCEPT !.host = t.host, !.ip = t.ip])
      PROVE  Book!Next
  <2>1. Book!SetTarget(r, t)
    BY <1>4 DEF Book!SetTarget, Book!Change, Renewed
  <2> QED
    BY <2>1 DEF Book!Next, Target
<1>5. ASSUME NEW r \in book.rules, NEW y \in Policy,
             Renewed(book, book', r, [r EXCEPT !.policy = y])
      PROVE  Book!Next
  <2>1. Book!SetPolicy(r, y)
    BY <1>5 DEF Book!SetPolicy, Book!Change, Renewed
  <2> QED
    BY <2>1 DEF Book!Next
<1>6. ASSUME NEW f \in [book.rules -> {r.ip : r \in book.rules} \cup UNION {Pool[h] : h \in Host}],
             \A r \in book.rules : f[r] = r.ip \/ (r.host \in Host /\ f[r] \in Pool[r.host]),
             book'.rules = {[r EXCEPT !.ip = f[r]] : r \in book.rules},
             book'.selected = book.selected, book'.next = book.next
      PROVE  Book!Next
  <2>1. Book!Refresh
    BY <1>6 DEF Book!Refresh
  <2> QED
    BY <2>1 DEF Book!Next
<1>7. ASSUME book'.selected \in SUBSET {r.id : r \in book.rules},
             book'.rules = book.rules, book'.next = book.next
      PROVE  Book!Next
  <2>1. Book!Select
    BY <1>7 DEF Book!Select
  <2> QED
    BY <2>1 DEF Book!Next
<1> QED
  BY <1>1, <1>2, <1>3, <1>4, <1>5, <1>6, <1>7 DEF OneStep

(* Transactions: a draft is staged one step ahead, or nothing is.          *)
LEMMA StagedAhead ==
  ASSUME RuleInv, Ahead, NEW p \in Proc, NEW b, pc[p] = "begin",
         (Stage(p, b) /\ OneStep(book, b)) \/ Refuse(p)
  PROVE  Ahead'
<1>1. CASE Stage(p, b) /\ OneStep(book, b)
  <2>1. book' = book /\ draft' = b /\ cmd' = cmd
    BY <1>1 DEF Stage
  <2>2. \A q \in Proc : pc'[q] # "idle" => pc[q] # "idle"
    BY <1>1 DEF Stage, Goto, RuleInv
  <2> QED
    BY <1>1, <2>1, <2>2 DEF Ahead
<1>2. CASE Refuse(p)
  <2>1. book' = book /\ writer = None /\ writer' = None
    BY <1>2, ConstantsAssumption DEF Refuse, GiveUp
  <2>2. \A q \in Proc : pc'[q] # "idle" => pc[q] # "idle" /\ cmd'[q] = cmd[q]
    BY <1>2 DEF Refuse, GiveUp, Rest, Goto, RuleInv
  <2> QED
    BY <2>1, <2>2 DEF Ahead
<1> QED
  BY <1>1, <1>2

(* A target of a command is a target of the book. *)
LEMMA TargetAimed ==
  ASSUME RuleInv, NEW port, NEW t \in Targets(On(book, port))
  PROVE  t \in Target
<1>1. Fits(t.host, t.ip)
  BY TargetFits
<1>2. CASE t \in [host : {None}, ip : Fixed]
  BY <1>2 DEF Target, Book!Target
<1>3. ASSUME NEW h \in Host, t = [host |-> h, ip |-> Resolved(h, On(book, port))]
      PROVE  t \in Target
  <2>1. t.ip \in Pool[h] /\ t \in [host : {h}, ip : Pool[h]]
    BY <1>1, <1>3, ConstantsAssumption DEF Fits
  <2> QED
    BY <2>1 DEF Target, Book!Target
<1> QED
  BY <1>2, <1>3 DEF Targets

(* A draft with a new rule is one step ahead. *)
LEMMA AddAhead == ASSUME RuleInv, Ahead, NEW p \in Proc, BeginAdd(p) PROVE Ahead'
<1> DEFINE c == cmd[p]
           New(n) == [id |-> n, lport |-> c.lport, host |-> c.target.host,
                      ip |-> c.target.ip, policy |-> c.policy]
<1>1. /\ pc[p] = "begin" /\ Good(book)
      /\ c.lport \in Port /\ c.policy \in Policy /\ c.target \in Target
  BY DEF BeginAdd, RuleInv, Sane, Ahead, Aimed
<1>2. CASE On(book, c.lport) = {}
           /\ Stage(p, [book EXCEPT !.rules = @ \cup {New(book.next)}, !.next = @ + 1])
  <2> DEFINE b == [book EXCEPT !.rules = @ \cup {New(book.next)}, !.next = @ + 1]
  <2>1. c.lport \notin {r.lport : r \in book.rules}
    BY <1>2 DEF On
  <2>2. /\ b.rules = book.rules \cup {New(book.next)}
        /\ b.next = book.next + 1 /\ b.selected = book.selected
    BY <1>1 DEF Good, Books
  <2>3. OneStep(book, b)
    <3> HIDE DEF b
    <3> QED
      BY <1>1, <2>1, <2>2 DEF OneStep
  <2> QED
    BY <1>1, <1>2, <2>3, StagedAhead
<1>3. CASE Refuse(p)
  BY <1>1, <1>3, StagedAhead
<1>4. ASSUME NEW r \in On(book, c.lport),
             Stage(p, [book EXCEPT !.rules = (@ \ {r}) \cup {New(r.id)}])
      PROVE  Ahead'
  <2> DEFINE b == [book EXCEPT !.rules = (@ \ {r}) \cup {New(r.id)}]
             s == [r EXCEPT !.host = c.target.host, !.ip = c.target.ip, !.policy = c.policy]
  <2>1. r \in book.rules /\ r.lport = c.lport /\ r \in Rule
    BY <1>1, <1>4 DEF On, Good, Books
  <2>2. s = New(r.id)
    <3>1. Fits(c.target.host, c.target.ip)
      BY DEF BeginAdd, RuleInv, Sane
    <3>2. s \in Rule /\ New(r.id) \in Rule
      BY <1>1, <2>1, <3>1 DEF Rule, Fits
    <3>3. /\ s.id = New(r.id).id /\ s.lport = New(r.id).lport /\ s.host = New(r.id).host
          /\ s.ip = New(r.id).ip /\ s.policy = New(r.id).policy
      BY <2>1 DEF Rule
    <3> HIDE DEF s, New
    <3> QED
      BY <3>2, <3>3 DEF Rule
  <2>3. Renewed(book, b, r, s)
    <3>1. b.rules = (book.rules \ {r}) \cup {New(r.id)} /\ b.selected = book.selected
          /\ b.next = book.next
      BY <1>1 DEF Good, Books
    <3> HIDE DEF b, s, New
    <3> QED
      BY <2>2, <3>1 DEF Renewed
  <2>4. OneStep(book, b)
    <3> HIDE DEF b
    <3> QED
      BY <1>1, <2>1, <2>3 DEF OneStep
  <2> QED
    BY <1>1, <1>4, <2>4, StagedAhead
<1> QED
  BY <1>2, <1>3, <1>4 DEF BeginAdd

(* A draft with an edited rule is one step ahead: only the named fields   *)
(* differ.                                                                *)
LEMMA EditAhead == ASSUME RuleInv, Ahead, NEW p \in Proc, BeginEdit(p) PROVE Ahead'
<1> DEFINE c == cmd[p]
<1>1. /\ pc[p] = "begin" /\ Good(book) /\ c.op \in {"port", "target", "policy"}
      /\ c.op = "target" => c.target \in Target
      /\ c.op = "policy" => c.policy \in Policy
      /\ c.op = "port" => c.new \in Port
  BY DEF BeginEdit, RuleInv, Sane, Ahead, Aimed
<1>2. CASE Refuse(p)
  BY <1>1, <1>2, StagedAhead
<1>3. ASSUME NEW r \in On(book, c.lport), ~(c.op = "port" /\ TakenByOther(r, c.new)),
             StageIfNew(p, [book EXCEPT !.rules = (@ \ {r}) \cup {Edited(r, c)}])
      PROVE  Ahead'
  <2> DEFINE b == [book EXCEPT !.rules = (@ \ {r}) \cup {Edited(r, c)}]
  <2>1. r \in book.rules /\ r \in Rule
    BY <1>1, <1>3 DEF On, Good, Books
  <2>2. /\ b.rules = (book.rules \ {r}) \cup {Edited(r, c)}
        /\ b.selected = book.selected /\ b.next = book.next
    BY <1>1 DEF Good, Books
  <2>3. Renewed(book, b, r, Edited(r, c))
    BY <2>2 DEF Renewed
  <2>4. ASSUME b # book PROVE OneStep(book, b)
    <3>1. CASE c.op = "port"
      <4>1. Edited(r, c) = [r EXCEPT !.lport = c.new]
        BY <3>1 DEF Edited
      <4>2. c.new # r.lport
        <5>1. SUFFICES ASSUME c.new = r.lport PROVE FALSE
          OBVIOUS
        <5>2. Edited(r, c) = r
          BY <2>1, <4>1, <5>1 DEF Rule
        <5>3. b = book
          BY <1>1, <2>1, <5>2 DEF Good, Books
        <5> QED
          BY <2>4, <5>3
      <4>3. c.new \notin {q.lport : q \in book.rules}
        BY <1>3, <3>1, <4>2 DEF TakenByOther, On
      <4> HIDE DEF b, c
      <4> QED
        BY <1>1, <2>1, <2>3, <3>1, <4>1, <4>3 DEF OneStep
    <3>2. CASE c.op = "target"
      <4>1. Edited(r, c) = [r EXCEPT !.host = c.target.host, !.ip = c.target.ip]
        BY <3>2 DEF Edited
      <4> HIDE DEF b, c
      <4> QED
        BY <1>1, <2>1, <2>3, <3>2, <4>1 DEF OneStep
    <3>3. CASE c.op = "policy"
      <4>1. Edited(r, c) = [r EXCEPT !.policy = c.policy]
        BY <3>3 DEF Edited
      <4> HIDE DEF b, c
      <4> QED
        BY <1>1, <2>1, <2>3, <3>3, <4>1 DEF OneStep
    <3> QED
      BY <1>1, <3>1, <3>2, <3>3
  <2> HIDE DEF b
  <2> QED
    BY <1>1, <1>3, <2>4, StagedAhead DEF StageIfNew, b
<1> QED
  BY <1>2, <1>3 DEF BeginEdit

(* A draft with refreshed addresses is one step ahead. *)
LEMMA SyncAhead == ASSUME RuleInv, Ahead, NEW p \in Proc, BeginSync(p) PROVE Ahead'
<1> DEFINE c == cmd[p]
           Stale(r) ==
             /\ \E o \in c.old : o.id = r.id /\ o.host = r.host /\ o.ip = r.ip
             /\ c.answer[r.host] # {} /\ r.ip \notin c.answer[r.host]
           f == [r \in book.rules |-> IF Stale(r) THEN First(c.answer[r.host]) ELSE r.ip]
           R == {IF Stale(r) THEN [r EXCEPT !.ip = First(c.answer[r.host])] ELSE r :
                   r \in book.rules}
           b == [book EXCEPT !.rules = R]
<1>1. /\ pc[p] = "begin" /\ Good(book)
      /\ \A o \in c.old : o.host \in Host /\ c.answer[o.host] \subseteq Pool[o.host]
  BY DEF BeginSync, RuleInv, Sane
<1>2. ASSUME NEW r \in book.rules
      PROVE  f[r] = r.ip \/ (r.host \in Host /\ f[r] \in Pool[r.host])
  BY <1>1, <1>2, FirstMember
<1>3. f \in [book.rules -> {r.ip : r \in book.rules} \cup UNION {Pool[h] : h \in Host}]
  BY <1>2
<1>4. R = {[r EXCEPT !.ip = f[r]] : r \in book.rules}
  <2>1. ASSUME NEW r \in book.rules
        PROVE  [r EXCEPT !.ip = f[r]] =
                 IF Stale(r) THEN [r EXCEPT !.ip = First(c.answer[r.host])] ELSE r
    <3>1. r \in Rule
      BY <1>1 DEF Good, Books
    <3>2. [r EXCEPT !.ip = r.ip] = r
      BY <3>1 DEF Rule
    <3> QED
      BY <3>2
  <2> HIDE DEF f, Stale
  <2> QED
    BY <2>1
<1>5. b.rules = R /\ b.selected = book.selected /\ b.next = book.next
  BY <1>1 DEF Good, Books
<1>6. OneStep(book, b)
  <2> HIDE DEF f, R, b
  <2> QED
    BY <1>2, <1>3, <1>4, <1>5 DEF OneStep
<1>7. StageIfNew(p, b)
  BY DEF BeginSync
<1> HIDE DEF b, f, R
<1> QED
  BY <1>1, <1>6, <1>7, StagedAhead DEF StageIfNew

(* A draft with a new selection is one step ahead. *)
LEMMA CaptureAhead == ASSUME RuleInv, Ahead, NEW p \in Proc, BeginCapture(p) PROVE Ahead'
<1> DEFINE S == {r.id : r \in {q \in book.rules : q.lport \in cmd[p].ports}}
           b == [book EXCEPT !.selected = S]
<1>1. pc[p] = "begin" /\ Good(book)
  BY DEF BeginCapture, RuleInv
<1>2. OneStep(book, b)
  <2>1. S \in SUBSET {r.id : r \in book.rules}
    OBVIOUS
  <2>2. b.selected = S /\ b.rules = book.rules /\ b.next = book.next
    BY <1>1 DEF Good, Books
  <2> HIDE DEF S, b
  <2> QED
    BY <2>1, <2>2 DEF OneStep
<1>3. Refuse(p) \/ StageIfNew(p, b)
  BY DEF BeginCapture
<1> HIDE DEF b
<1> QED
  BY <1>1, <1>2, <1>3, StagedAhead DEF StageIfNew

(* Steps that leave the book alone, or lets a writer end.                  *)
LEMMA QuietAhead ==
  ASSUME RuleInv, Ahead,
         writer' = None \/ UNCHANGED <<writer, book, draft>>,
         \A q \in Proc : pc'[q] # "idle" => pc[q] # "idle" /\ cmd'[q] = cmd[q]
  PROVE  Ahead'
<1>1. \A q \in Proc : pc'[q] # "idle" => Aimed(cmd'[q])
  BY DEF Ahead
<1> QED
  BY <1>1 DEF Ahead

(* A command that begins leaves book and draft alone and is aimed at a    *)
(* target of the book.                                                    *)
LEMMA BeginningAhead ==
  ASSUME RuleInv, Ahead, NEW p \in Proc, NEW o, NEW c, Begun(p, o, c), Aimed(c),
         Goto(p, "lock"),
         writer' = None \/ UNCHANGED <<writer, book, draft>>
  PROVE  Ahead'
<1>1. cmd'[p] = c /\ \A q \in Proc \ {p} : pc'[q] = pc[q] /\ cmd'[q] = cmd[q]
  BY DEF RuleInv, Begun, Goto
<1>2. \A q \in Proc : pc'[q] # "idle" => Aimed(cmd'[q])
  BY <1>1 DEF Ahead
<1> QED
  BY <1>2 DEF Ahead

(* Each command, from its start to its own transaction. *)
LEMMA CommandAhead == ASSUME RuleInv, Ahead, NEW p \in Proc, Command(p) PROVE Ahead'
<1>1. ASSUME NEW port \in Port, NEW y \in Policy, AddRule(p, port, y) PROVE Ahead'
  <2>1. PICK t \in Targets(On(book, port)) :
          Begun(p, "add", [op |-> "add", lport |-> port, target |-> t, policy |-> y])
    BY <1>1 DEF AddRule
  <2>2. Aimed([op |-> "add", lport |-> port, target |-> t, policy |-> y])
    BY <2>1, TargetAimed DEF Aimed
  <2> QED
    BY <1>1, <2>1, <2>2, BeginningAhead DEF AddRule, database
<1>2. ASSUME NEW port \in Port, NEW y \in Policy, EditPolicy(p, port, y) PROVE Ahead'
  <2>1. \A r : Aimed([op |-> "policy", lport |-> port, old |-> r, policy |-> y])
    BY DEF Aimed
  <2> QED
    BY <1>2, <2>1, BeginningAhead DEF EditPolicy, database
<1>3. ASSUME NEW port \in Port, NEW new \in Port, EditPort(p, port, new) PROVE Ahead'
  <2>1. \A r : Aimed([op |-> "port", lport |-> port, old |-> r, new |-> new])
    BY DEF Aimed
  <2> QED
    BY <1>3, <2>1, BeginningAhead DEF EditPort, database
<1>4. ASSUME NEW port \in Port, EditTarget(p, port) PROVE Ahead'
  <2>1. PICK r \in On(book, port), t \in Targets(On(book, port)) :
          Begun(p, "target", [op |-> "target", lport |-> port, old |-> r, target |-> t])
    BY <1>4 DEF EditTarget
  <2>2. Aimed([op |-> "target", lport |-> port, old |-> r, target |-> t])
    BY <2>1, TargetAimed DEF Aimed
  <2> QED
    BY <1>4, <2>1, <2>2, BeginningAhead DEF EditTarget, database
<1>5. ASSUME NEW ports \in SUBSET Port, Capture(p, ports) PROVE Ahead'
  <2>1. Aimed([op |-> "capture", ports |-> ports])
    BY DEF Aimed
  <2> QED
    BY <1>5, <2>1, BeginningAhead DEF Capture, database
<1>6. ASSUME NEW port \in Port, DeleteRule(p, port) PROVE Ahead'
  <2>1. Aimed([op |-> "delete"])
    BY DEF Aimed
  <2> QED
    BY <1>6, <2>1, BeginningAhead DEF DeleteRule
<1> QED
  BY <1>1, <1>2, <1>3, <1>4, <1>5, <1>6 DEF Command

(* Together with RuleInv, being one step ahead is inductive. *)
LEMMA AheadStep == RuleInv /\ Ahead /\ [Next]_vars => Ahead'
<1> SUFFICES ASSUME RuleInv, Ahead, [Next]_vars PROVE Ahead'
  OBVIOUS
<1>1. ASSUME NEW p \in Proc, Lock(p) \/ Render(p) \/ Install(p) PROVE Ahead'
  <2>1. UNCHANGED <<writer, book, draft>>
        /\ \A q \in Proc : pc'[q] # "idle" => pc[q] # "idle" /\ cmd'[q] = cmd[q]
    BY <1>1 DEF Lock, Render, Install, Goto, database, RuleInv
  <2> QED
    BY <2>1, QuietAhead
<1>2. ASSUME NEW p \in Proc, Commit(p) \/ (GiveUp(p) /\ UNCHANGED book) PROVE Ahead'
  <2>1. \A q \in Proc : pc'[q] # "idle" => pc[q] # "idle" /\ cmd'[q] = cmd[q]
    BY <1>2 DEF Commit, GiveUp, Rest, Goto, RuleInv
  <2>2. writer' = None \/ UNCHANGED <<writer, book, draft>>
    BY <1>2 DEF Commit, GiveUp
  <2> QED
    BY <2>1, <2>2, QuietAhead
<1>3. ASSUME NEW p \in Proc, InstallFails(p) \/ WriteConfFails(p) \/ Stop(p) PROVE Ahead'
  BY <1>2, <1>3 DEF InstallFails, WriteConfFails, Stop
<1>4. ASSUME NEW p \in Proc, Step(p) PROVE Ahead'
  BY <1>1, <1>2, <1>4, AddAhead, EditAhead, SyncAhead, CaptureAhead DEF Step
<1>5. ASSUME NEW p \in Proc, StartSync(p) PROVE Ahead'
  <2>1. \A x, y : Aimed([op |-> "sync", old |-> x, answer |-> y])
    BY DEF Aimed
  <2> QED
    BY <1>5, <2>1, BeginningAhead DEF StartSync, database
<1>6. ASSUME NEW h \in Host, NEW S \in SUBSET Addr, DnsChanges(h, S) PROVE Ahead'
  BY <1>6, QuietAhead DEF DnsChanges, database, local
<1>7. CASE UNCHANGED vars
  BY <1>7, QuietAhead DEF vars, database, local
<1> QED
  BY <1>1, <1>3, <1>4, <1>5, <1>6, <1>7, CommandAhead DEF Next

(* The steps that commit are steps of the book; the others stutter.        *)
LEMMA BookNext == RuleInv /\ Ahead /\ [Next]_vars => [Book!Next]_(Book!bookVars)
<1> SUFFICES ASSUME RuleInv, Ahead, [Next]_vars, book' # book PROVE Book!Next
  BY DEF Book!bookVars
<1>1. ASSUME NEW p \in Proc, Commit(p) PROVE Book!Next
  <2>1. writer = p /\ book' = draft
    BY <1>1 DEF Commit
  <2>2. OneStep(book, book')
    BY <2>1, ConstantsAssumption DEF Ahead
  <2> QED
    BY <2>2, BookStep
<1>2. ASSUME NEW p \in Proc, NEW port \in Port, DeleteRule(p, port) PROVE Book!Next
  <2>1. /\ book'.rules = book.rules \ On(book, port)
        /\ book'.selected = book.selected \ {r.id : r \in On(book, port)}
        /\ book'.next = book.next
    BY <1>2 DEF DeleteRule, RuleInv, Good, Books
  <2>2. PICK r \in book.rules : On(book, port) = {r}
    <3>1. On(book, port) # {}
      <4>1. SUFFICES ASSUME On(book, port) = {} PROVE book' = book
        OBVIOUS
      <4>2. book' \in Books /\ book \in Books
        BY <1>2 DEF DeleteRule, RuleInv, Good, Books
      <4>3. /\ book'.rules = book.rules /\ book'.selected = book.selected
            /\ book'.next = book.next
        BY <2>1, <4>1
      <4> QED
        BY <4>2, <4>3 DEF Books
    <3> QED
      BY <3>1 DEF On, RuleInv, Good
  <2>3. Book!Remove(r)
    BY <2>1, <2>2 DEF Book!Remove
  <2> QED
    BY <2>3 DEF Book!Next
<1>3. ASSUME NEW p \in Proc, Command(p) PROVE Book!Next
  BY <1>2, <1>3 DEF Command, AddRule, EditPolicy, EditPort, EditTarget, Capture, database
<1>4. ASSUME NEW p \in Proc, Step(p) PROVE Book!Next
  BY <1>1, <1>4 DEF Step, BeginAdd, BeginEdit, BeginSync, BeginCapture, StageIfNew,
     Stage, Refuse, Render, Install, database
<1> QED
  BY <1>3, <1>4 DEF Next, StartSync, Lock, InstallFails, WriteConfFails, Stop,
     DnsChanges, vars, database

(* The commands with their locks and lookups implement the plain book.     *)
THEOREM BookImplemented == Spec => ImplementsRuleBook
<1>1. Init => Ahead
  BY DEF Init, Ahead
<1>2. Init => Book!Init
  BY DEF Init, Book!Init, Blank
<1> QED
  BY <1>1, <1>2, AheadStep, BookNext, RulesSound, PTL DEF Spec, ImplementsRuleBook, Book!Spec
-----------------------------------------------------------------------------
(* The kernel table. A transaction is open exactly while its command, not  *)
(* a delete, holds the lock between its first statement and its commit.    *)
Held(p) == pc[p] \in {"begin", "render", "install", "commit"}

LockInv ==
  /\ writer \in Proc \cup {None}
  /\ lock \in Proc \cup {None}
  /\ writer = None => draft = book
  /\ pc \in [Proc -> {"idle", "lock", "begin", "render", "install", "commit"}]
  /\ cmd = [p \in Proc |-> cmd[p]]
  /\ text = [p \in Proc |-> text[p]]
  /\ \A p \in Proc :
       /\ IF pc[p] = "idle" THEN cmd[p] = None ELSE cmd[p].op \in Op
       /\ Held(p) <=> lock = p
       /\ writer = p <=> pc[p] \in {"install", "commit"} /\ ~Undone(p)
       /\ pc[p] = "begin" => ~Undone(p)
       /\ pc[p] = "render" => Undone(p)

(* A committed delete waits for the lock to be applied. *)
Pending == \E p \in Proc : pc[p] = "lock" /\ Undone(p)

Settled == live = Shown(book) \/ torn \/ Pending

(* What the table is, or will be once its command has installed its text:  *)
(* the text of a delete may be old, but then another delete waits, or had  *)
(* waited and was stopped.                                                 *)
TableInv ==
  /\ lock = None => Settled
  /\ \A p \in Proc :
       /\ pc[p] = "begin" => Settled
       /\ pc[p] = "install" /\ ~Undone(p) => Settled /\ text[p] = Shown(draft)
       /\ pc[p] = "install" /\ Undone(p) => text[p] = Shown(book) \/ Pending \/ torn
       /\ pc[p] = "commit" /\ ~Undone(p) => live = Shown(draft)
       /\ pc[p] = "commit" /\ Undone(p) => Settled

(* The shape of every step of a process: only its own locals change.       *)
Only(p) ==
  /\ pc' \in [Proc -> {"idle", "lock", "begin", "render", "install", "commit"}]
  /\ cmd' = [q \in Proc |-> cmd'[q]]
  /\ text' = [q \in Proc |-> text'[q]]
  /\ \A q \in Proc \ {p} : pc'[q] = pc[q] /\ cmd'[q] = cmd[q] /\ text'[q] = text[q]

(* A delete of another process goes on waiting. *)
LEMMA PendingKept ==
  ASSUME Pending, NEW p \in Proc, Only(p), pc[p] = "lock" => ~Undone(p)
  PROVE  Pending'
<1>1. PICK q \in Proc : pc[q] = "lock" /\ Undone(q)
  BY DEF Pending
<1>2. q # p /\ pc'[q] = "lock" /\ cmd'[q].op = "delete"
  BY <1>1 DEF Only, Undone
<1> QED
  BY <1>2 DEF Pending, Undone

(* A command other than delete begins: nothing of the table changes. *)
LEMMA BegunTable ==
  ASSUME LockInv, TableInv, NEW p \in Proc, Only(p),
         pc[p] = "idle", pc'[p] = "lock", cmd'[p].op \in Op \ {"delete"},
         UNCHANGED <<book, draft, writer, lock, live, torn>>
  PROVE  LockInv' /\ TableInv'
<1>1. LockInv'
  BY DEF LockInv, Only, Held, Undone
<1>2. Pending => Pending'
  BY PendingKept
<1>3. Settled => Settled'
  BY <1>2 DEF Settled, Shown
<1>4. TableInv'
  BY <1>2, <1>3 DEF TableInv, Only, Undone, Shown
<1> QED
  BY <1>1, <1>4

(* A delete is committed while nobody has a transaction open; now it waits *)
(* for the lock.                                                           *)
LEMMA DeletedTable ==
  ASSUME LockInv, TableInv, NEW p \in Proc, Only(p),
         pc[p] = "idle", pc'[p] = "lock", cmd'[p].op = "delete",
         writer = None, draft' = book',
         UNCHANGED <<writer, lock, live, torn>>
  PROVE  LockInv' /\ TableInv'
<1>1. LockInv'
  BY DEF LockInv, Only, Held, Undone, Op
<1>2. Pending' /\ Settled'
  BY DEF Pending, Settled, Undone
<1>3. \A q \in Proc : pc[q] \in {"install", "commit"} => Undone(q)
  BY ConstantsAssumption DEF LockInv
<1>4. TableInv'
  BY <1>2, <1>3 DEF TableInv, Only, Undone
<1> QED
  BY <1>1, <1>4

(* The lock is taken by a process that waited for it. *)
LEMMA LockTable ==
  ASSUME LockInv, TableInv, NEW p \in Proc, Lock(p)
  PROVE  LockInv' /\ TableInv'
<1>1. /\ pc[p] = "lock" /\ lock = None /\ lock' = p /\ cmd' = cmd
      /\ pc' = [pc EXCEPT ![p] = IF Undone(p) THEN "render" ELSE "begin"]
      /\ UNCHANGED <<book, draft, writer, live, torn, text>>
  BY DEF Lock, Goto, database, counters, Undone
<1>2. Only(p) /\ pc'[p] = IF Undone(p) THEN "render" ELSE "begin"
  BY <1>1 DEF Only, LockInv
<1>3. LockInv'
  BY <1>1, <1>2, ConstantsAssumption DEF LockInv, Only, Held, Undone
<1>4. \A q \in Proc \ {p} : ~Held(q)
  BY <1>1, ConstantsAssumption DEF LockInv
<1>5. Settled
  BY <1>1 DEF TableInv
<1>6. ~Undone(p) => Settled'
  BY <1>1, <1>2, <1>5, PendingKept DEF Settled, Shown
<1>7. TableInv'
  BY <1>1, <1>2, <1>4, <1>6, ConstantsAssumption DEF TableInv, Only, Held, Undone
<1> QED
  BY <1>3, <1>7

(* While p has the lock, no other process is past it. *)
LEMMA Alone ==
  ASSUME LockInv, NEW p \in Proc, Held(p)
  PROVE  lock = p /\ lock # None /\ \A q \in Proc \ {p} : ~Held(q)
BY ConstantsAssumption DEF LockInv

(* A transaction is staged: the text to install is the draft's. *)
LEMMA StageTable ==
  ASSUME LockInv, TableInv, NEW p \in Proc, NEW b, pc[p] = "begin", Stage(p, b)
  PROVE  LockInv' /\ TableInv'
<1>1. /\ writer = None /\ writer' = p /\ draft' = b /\ cmd' = cmd
      /\ pc' = [pc EXCEPT ![p] = "install"]
      /\ text' = [text EXCEPT ![p] = Shown(b)]
      /\ UNCHANGED <<book, lock, live, torn>>
  BY DEF Stage, Goto, counters
<1>2. Only(p) /\ pc'[p] = "install" /\ text'[p] = Shown(b) /\ ~Undone(p) /\ Settled
  BY <1>1 DEF Only, LockInv, TableInv
<1>3. lock = p /\ lock # None /\ \A q \in Proc \ {p} : ~Held(q)
  BY Alone DEF Held
<1>4. LockInv'
  BY <1>1, <1>2, <1>3, ConstantsAssumption DEF LockInv, Only, Held, Undone
<1>5. Settled'
  BY <1>1, <1>2, PendingKept DEF Settled, Shown
<1>6. TableInv'
  BY <1>1, <1>2, <1>3, <1>5 DEF TableInv, Only, Held, Undone, Shown
<1> QED
  BY <1>4, <1>6

(* A command gives up: the table is marked as torn, or a transaction is    *)
(* rolled back before its text was installed, or nothing was begun.        *)
LEMMA GiveUpTable ==
  ASSUME LockInv, TableInv, NEW p \in Proc, pc[p] # "idle", GiveUp(p), UNCHANGED book,
         Held(p) \/ UNCHANGED live,
         torn' \/ (~Undone(p) /\ pc[p] # "commit" /\ UNCHANGED live /\ (torn' <=> torn))
  PROVE  LockInv' /\ TableInv'
<1>1. /\ writer' = (IF writer = p THEN None ELSE writer)
      /\ draft' = (IF writer = p THEN book ELSE draft)
      /\ lock' = (IF lock = p THEN None ELSE lock)
      /\ pc' = [pc EXCEPT ![p] = "idle"]
      /\ cmd' = [cmd EXCEPT ![p] = None]
      /\ text' = [text EXCEPT ![p] = Shown(Blank)]
  BY DEF GiveUp, Rest, Goto
<1>2. Only(p) /\ pc'[p] = "idle" /\ cmd'[p] = None
  BY <1>1 DEF Only, LockInv
<1>3. LockInv'
  BY <1>1, <1>2, ConstantsAssumption DEF LockInv, Only, Held, Undone
<1>4. \A q \in Proc \ {p} : Held(q) => ~Held(p) /\ UNCHANGED live
  BY Alone
<1>5. \A q \in Proc \ {p} : pc[q] \in {"install", "commit"} /\ ~Undone(q) =>
        UNCHANGED <<live, draft>>
  BY <1>1, <1>4 DEF Held, LockInv
<1>6. /\ lock' = None => Settled'
      /\ Settled => Settled'
      /\ Pending \/ torn => Pending' \/ torn'
      => TableInv'
  <2> HAVE /\ lock' = None => Settled'
           /\ Settled => Settled'
           /\ Pending \/ torn => Pending' \/ torn'
  <2>1. ASSUME NEW q \in Proc \ {p}
        PROVE  /\ pc'[q] = "begin" => Settled'
               /\ pc'[q] = "install" /\ ~Undone(q)' => Settled' /\ text'[q] = Shown(draft)'
               /\ pc'[q] = "install" /\ Undone(q)' =>
                    text'[q] = Shown(book)' \/ Pending' \/ torn'
               /\ pc'[q] = "commit" /\ ~Undone(q)' => live' = Shown(draft)'
               /\ pc'[q] = "commit" /\ Undone(q)' => Settled'
    <3>1. pc'[q] = pc[q] /\ text'[q] = text[q] /\ (Undone(q)' <=> Undone(q))
      BY <1>2 DEF Only, Undone
    <3>2. Shown(book)' = Shown(book) /\ (draft' = draft => Shown(draft)' = Shown(draft))
      BY DEF Shown
    <3>3. pc[q] \in {"install", "commit"} /\ ~Undone(q) => UNCHANGED <<live, draft>>
      BY <1>5
    <3> QED
      BY <3>1, <3>2, <3>3 DEF TableInv
  <2> QED
    BY <1>2, <2>1 DEF TableInv
<1>7. CASE torn'
  <2>1. Settled'
    BY <1>7 DEF Settled
  <2> QED
    BY <1>3, <1>6, <1>7, <2>1
<1>8. CASE ~torn'
  <2>1. ~Undone(p) /\ pc[p] # "commit" /\ UNCHANGED live /\ (torn' <=> torn)
    BY <1>8
  <2>2. Pending => Pending'
    BY <1>2, <2>1, PendingKept
  <2>3. Settled => Settled'
    BY <2>1, <2>2 DEF Settled, Shown
  <2>4. lock' = None => Settled
    <3>1. CASE lock = None
      BY <3>1 DEF TableInv
    <3>2. CASE lock = p
      <4>1. Held(p)
        BY <3>2 DEF LockInv
      <4>2. pc[p] = "begin" \/ (pc[p] = "install" /\ ~Undone(p))
        BY <2>1, <4>1 DEF Held, LockInv
      <4> QED
        BY <4>2 DEF TableInv
    <3> QED
      BY <1>1, <3>1, <3>2
  <2>5. lock' = None => Settled'
    BY <2>3, <2>4
  <2>6. Pending \/ torn => Pending' \/ torn'
    BY <2>1, <2>2
  <2> QED
    BY <1>3, <1>6, <2>3, <2>5, <2>6
<1> QED
  BY <1>7, <1>8

(* A delete takes the text of what is committed now. *)
LEMMA RenderTable ==
  ASSUME LockInv, TableInv, NEW p \in Proc, Render(p)
  PROVE  LockInv' /\ TableInv'
<1>1. /\ pc[p] = "render" /\ cmd' = cmd
      /\ pc' = [pc EXCEPT ![p] = "install"]
      /\ text' = [text EXCEPT ![p] = Shown(book)]
      /\ UNCHANGED <<book, draft, writer, lock, live, torn>>
  BY DEF Render, Goto, database, counters
<1>2. Only(p) /\ pc'[p] = "install" /\ text'[p] = Shown(book) /\ Undone(p)
  BY <1>1 DEF Only, LockInv
<1>3. lock = p /\ lock # None /\ \A q \in Proc \ {p} : ~Held(q)
  BY <1>1, Alone DEF Held
<1>4. LockInv'
  BY <1>1, <1>2, <1>3 DEF LockInv, Only, Held, Undone
<1>5. TableInv'
  BY <1>1, <1>2, <1>3 DEF TableInv, Only, Held, Undone, Shown
<1> QED
  BY <1>4, <1>5

(* The table is installed. *)
LEMMA InstallTable ==
  ASSUME LockInv, TableInv, NEW p \in Proc, Install(p)
  PROVE  LockInv' /\ TableInv'
<1>1. /\ pc[p] = "install" /\ cmd' = cmd /\ text' = text
      /\ live' = text[p] /\ torn' = (torn /\ text[p] # Shown(draft))
      /\ pc' = [pc EXCEPT ![p] = "commit"]
      /\ UNCHANGED <<book, draft, writer, lock>>
  BY DEF Install, Goto, database
<1>2. Only(p) /\ pc'[p] = "commit"
  BY <1>1 DEF Only, LockInv
<1>3. lock = p /\ lock # None /\ \A q \in Proc \ {p} : ~Held(q)
  BY <1>1, Alone DEF Held
<1>4. LockInv'
  BY <1>1, <1>2, <1>3 DEF LockInv, Only, Held, Undone
<1>5. Undone(p) => Settled'
  <2> SUFFICES ASSUME Undone(p), text[p] # Shown(book), ~Pending' PROVE torn'
    BY <1>1 DEF Settled, Shown
  <2>1. ~Pending
    BY <1>1, <1>2, PendingKept
  <2>2. torn
    BY <1>1, <2>1 DEF TableInv
  <2>3. draft = book
    BY <1>1, <1>3 DEF LockInv, Held
  <2> QED
    BY <1>1, <2>2, <2>3
<1>6. ~Undone(p) => live' = Shown(draft')
  BY <1>1 DEF TableInv, Shown
<1>7. TableInv'
  BY <1>1, <1>2, <1>3, <1>5, <1>6 DEF TableInv, Only, Held, Undone, Shown
<1> QED
  BY <1>4, <1>7

(* The transaction, if the command has one, is committed under its table. *)
LEMMA CommitTable ==
  ASSUME LockInv, TableInv, NEW p \in Proc, Commit(p)
  PROVE  LockInv' /\ TableInv'
<1>1. /\ pc[p] = "commit"
      /\ book' = (IF writer = p THEN draft ELSE book)
      /\ writer' = (IF writer = p THEN None ELSE writer)
      /\ lock' = None
      /\ pc' = [pc EXCEPT ![p] = "idle"]
      /\ cmd' = [cmd EXCEPT ![p] = None]
      /\ text' = [text EXCEPT ![p] = Shown(Blank)]
      /\ UNCHANGED <<draft, live, torn>>
  BY DEF Commit, Rest, Goto, counters
<1>2. Only(p) /\ pc'[p] = "idle" /\ cmd'[p] = None
  BY <1>1 DEF Only, LockInv
<1>3. lock = p /\ lock # None /\ \A q \in Proc \ {p} : ~Held(q)
  BY <1>1, Alone DEF Held
<1>4. writer = None \/ writer = p
  BY <1>3 DEF LockInv, Held
<1>5. LockInv'
  BY <1>1, <1>2, <1>3, <1>4, ConstantsAssumption DEF LockInv, Only, Held, Undone
<1>6. Pending => Pending'
  BY <1>1, <1>2, PendingKept
<1>7. Settled'
  <2>1. CASE Undone(p)
    BY <1>1, <1>6, <2>1 DEF TableInv, LockInv, Settled, Shown
  <2>2. CASE ~Undone(p)
    BY <1>1, <2>2 DEF TableInv, LockInv, Settled, Shown
  <2> QED
    BY <2>1, <2>2
<1>8. TableInv'
  BY <1>1, <1>2, <1>3, <1>7 DEF TableInv, Only, Held
<1> QED
  BY <1>5, <1>8

(* What is refused or fails leaves the table settled, or is marked. *)
LEMMA RefuseTable ==
  ASSUME LockInv, TableInv, NEW p \in Proc,
         \/ pc[p] = "begin" /\ Refuse(p)
         \/ InstallFails(p) \/ WriteConfFails(p) \/ Stop(p)
  PROVE  LockInv' /\ TableInv'
<1>1. CASE pc[p] = "begin" /\ Refuse(p)
  <2>1. GiveUp(p) /\ UNCHANGED <<book, live, torn>> /\ ~Undone(p)
    BY <1>1 DEF Refuse, counters, LockInv
  <2> QED
    BY <1>1, <2>1, GiveUpTable
<1>2. CASE InstallFails(p)
  <2>1. pc[p] = "install" /\ GiveUp(p) /\ UNCHANGED book /\ Held(p)
    BY <1>2 DEF InstallFails, Held
  <2>2. torn' \/ (~Undone(p) /\ UNCHANGED live /\ (torn' <=> torn))
    BY <1>2 DEF InstallFails
  <2> QED
    BY <2>1, <2>2, GiveUpTable
<1>3. CASE WriteConfFails(p)
  <2>1. pc[p] = "commit" /\ GiveUp(p) /\ UNCHANGED <<book, live>> /\ torn' = TRUE
    BY <1>3 DEF WriteConfFails
  <2> QED
    BY <2>1, GiveUpTable
<1>4. CASE Stop(p)
  <2>1. /\ pc[p] # "idle" /\ GiveUp(p) /\ UNCHANGED <<book, live>>
        /\ torn' = (torn \/ Undone(p) \/ pc[p] = "commit")
    BY <1>4 DEF Stop
  <2>2. torn' \/ (~Undone(p) /\ pc[p] # "commit" /\ (torn' <=> torn))
    BY <2>1
  <2> QED
    BY <2>1, <2>2, GiveUpTable
<1> QED
  BY <1>1, <1>2, <1>3, <1>4

(* The commands, and the timer, begin without a transaction of their own;  *)
(* delete-rule has committed then.                                         *)
LEMMA CommandTable ==
  ASSUME LockInv, TableInv, NEW p \in Proc, Command(p) \/ StartSync(p)
  PROVE  LockInv' /\ TableInv'
<1>1. ASSUME NEW o, NEW c, Begun(p, o, c), Goto(p, "lock")
      PROVE  Only(p) /\ pc[p] = "idle" /\ pc'[p] = "lock" /\ cmd'[p] = c
  BY <1>1 DEF Begun, Goto, Only, LockInv
<1>2. ASSUME NEW o, NEW c, Begun(p, o, c), Goto(p, "lock"), c.op \in Op \ {"delete"},
             UNCHANGED <<database, lock, live, torn>>
      PROVE  LockInv' /\ TableInv'
  BY <1>1, <1>2, BegunTable DEF database
<1>3. ASSUME NEW port \in Port, DeleteRule(p, port) PROVE LockInv' /\ TableInv'
  <2>1. Only(p) /\ pc[p] = "idle" /\ pc'[p] = "lock" /\ cmd'[p] = [op |-> "delete"]
    BY <1>1, <1>3 DEF DeleteRule
  <2>2. cmd'[p].op = "delete" /\ UNCHANGED torn
    BY <1>3, <2>1 DEF DeleteRule, ByUser
  <2> QED
    BY <1>3, <2>1, <2>2, DeletedTable DEF DeleteRule
<1>4. ASSUME NEW port \in Port, NEW y \in Policy, AddRule(p, port, y)
      PROVE  LockInv' /\ TableInv'
  <2>1. PICK t \in Targets(On(book, port)) :
          Begun(p, "add", [op |-> "add", lport |-> port, target |-> t, policy |-> y])
    BY <1>4 DEF AddRule
  <2> QED
    BY <1>2, <1>4, <2>1 DEF AddRule, ByUser, Op
<1>5. ASSUME NEW port \in Port, NEW y \in Policy, EditPolicy(p, port, y)
      PROVE  LockInv' /\ TableInv'
  <2>1. PICK r \in On(book, port) :
          Begun(p, "policy", [op |-> "policy", lport |-> port, old |-> r, policy |-> y])
    BY <1>5 DEF EditPolicy
  <2> QED
    BY <1>2, <1>5, <2>1 DEF EditPolicy, ByUser, Op
<1>6. ASSUME NEW port \in Port, NEW new \in Port, EditPort(p, port, new)
      PROVE  LockInv' /\ TableInv'
  <2>1. PICK r \in On(book, port) :
          Begun(p, "port", [op |-> "port", lport |-> port, old |-> r, new |-> new])
    BY <1>6 DEF EditPort
  <2> QED
    BY <1>2, <1>6, <2>1 DEF EditPort, ByUser, Op
<1>7. ASSUME NEW port \in Port, EditTarget(p, port) PROVE LockInv' /\ TableInv'
  <2>1. PICK r \in On(book, port), t \in Targets(On(book, port)) :
          Begun(p, "target", [op |-> "target", lport |-> port, old |-> r, target |-> t])
    BY <1>7 DEF EditTarget
  <2> QED
    BY <1>2, <1>7, <2>1 DEF EditTarget, ByUser, Op
<1>8. ASSUME NEW ports \in SUBSET Port, Capture(p, ports) PROVE LockInv' /\ TableInv'
  BY <1>2, <1>8 DEF Capture, ByUser, Op
<1>9. CASE StartSync(p)
  <2>1. PICK a, b : Begun(p, "sync", [op |-> "sync", old |-> a, answer |-> b])
    BY <1>9 DEF StartSync
  <2> QED
    BY <1>2, <1>9, <2>1 DEF StartSync, Op
<1> QED
  BY <1>3, <1>4, <1>5, <1>6, <1>7, <1>8, <1>9 DEF Command

(* The invariant of the table is inductive. *)
LEMMA TableStep == LockInv /\ TableInv /\ [Next]_vars => LockInv' /\ TableInv'
<1> SUFFICES ASSUME LockInv, TableInv, [Next]_vars PROVE LockInv' /\ TableInv'
  OBVIOUS
<1>1. ASSUME NEW p \in Proc, Step(p) PROVE LockInv' /\ TableInv'
  <2>1. ASSUME NEW b, pc[p] = "begin", Stage(p, b) \/ StageIfNew(p, b) \/ Refuse(p)
        PROVE  LockInv' /\ TableInv'
    BY <2>1, StageTable, RefuseTable DEF StageIfNew
  <2>2. CASE BeginAdd(p)
    BY <2>1, <2>2 DEF BeginAdd
  <2>3. CASE BeginEdit(p)
    BY <2>1, <2>3 DEF BeginEdit
  <2>4. CASE BeginSync(p)
    BY <2>1, <2>4 DEF BeginSync
  <2>5. CASE BeginCapture(p)
    BY <2>1, <2>5 DEF BeginCapture
  <2> QED
    BY <1>1, <2>2, <2>3, <2>4, <2>5, RenderTable, InstallTable, CommitTable DEF Step
<1>2. CASE UNCHANGED <<book, draft, writer, lock, live, pc, cmd, text, torn>>
  BY <1>2 DEF LockInv, TableInv, Held, Undone, Settled, Pending, Shown
<1>3. ASSUME NEW h \in Host, NEW S \in SUBSET Addr, DnsChanges(h, S)
      PROVE  LockInv' /\ TableInv'
  BY <1>2, <1>3 DEF DnsChanges, database, local, counters
<1>4. CASE UNCHANGED vars
  BY <1>2, <1>4 DEF vars, database, local, counters
<1> QED
  BY <1>1, <1>3, <1>4, LockTable, RefuseTable, CommandTable DEF Next

LEMMA InitTable == Init => LockInv /\ TableInv
<1> SUFFICES ASSUME Init PROVE LockInv /\ TableInv
  OBVIOUS
<1>1. \A p \in Proc : pc[p] = "idle" /\ cmd[p] = None
  BY DEF Init
<1>2. LockInv
  BY <1>1, ConstantsAssumption DEF Init, LockInv, Held
<1>3. TableInv
  BY <1>1 DEF Init, TableInv, Settled
<1> QED
  BY <1>2, <1>3

(* Whenever nobody holds apply.lock, the kernel table has the committed    *)
(* rules, but for a delete that waits for the lock and a process that was  *)
(* stopped between the two, whatever number of users and timers there is.  *)
THEOREM TableRight == Spec => []TableMatchesBook
<1>1. TableInv => TableMatchesBook
  BY DEF TableInv, Settled, Pending, TableMatchesBook
<1> QED
  BY <1>1, InitTable, TableStep, PTL DEF Spec
-----------------------------------------------------------------------------
(* The rest of TypeOK: what is installed, and the bounds. *)
ShownOK(t) == t.rules \subseteq Rule /\ t.selected \subseteq 1..MaxRules

RestInv ==
  /\ ShownOK(live)
  /\ \A p \in Proc : ShownOK(text[p])
  /\ commands \in 0..MaxCommands
  /\ faults \in 0..MaxFaults
  /\ torn \in BOOLEAN

LEMMA GoodShown == \A b : Good(b) => ShownOK(Shown(b))
BY DEF Good, Books, ShownOK, Shown

LEMMA BlankShown == ShownOK(Shown(Blank))
BY DEF ShownOK, Shown, Blank

(* What is installed was the text of a command. *)
LEMMA LiveStep == ASSUME RestInv, [Next]_vars PROVE ShownOK(live')
<1>1. live' = live \/ \E p \in Proc : live' = text[p]
  BY DEF Next, Command, AddRule, EditPolicy, EditPort, EditTarget, DeleteRule, Capture,
     StartSync, Lock, Step, BeginAdd, BeginEdit, BeginSync, BeginCapture, StageIfNew,
     Stage, Refuse, Render, Install, Commit, InstallFails, WriteConfFails, Stop,
     DnsChanges, vars
<1> QED
  BY <1>1 DEF RestInv

(* A text is a draft's, the book's or none. *)
LEMMA TextStep ==
  ASSUME RuleInv, RuleInv', LockInv, RestInv, [Next]_vars
  PROVE  \A q \in Proc : ShownOK(text'[q])
<1>1. ShownOK(Shown(draft')) /\ ShownOK(Shown(book))
  BY GoodShown DEF RuleInv
<1>2. ASSUME NEW p \in Proc, NEW t, ShownOK(t), text' = [text EXCEPT ![p] = t]
      PROVE  \A q \in Proc : ShownOK(text'[q])
  BY <1>2 DEF LockInv, RestInv
<1>3. CASE UNCHANGED text
  BY <1>3 DEF RestInv
<1>4. ASSUME NEW p \in Proc, GiveUp(p) \/ Rest(p) PROVE \A q \in Proc : ShownOK(text'[q])
  BY <1>2, <1>4, BlankShown DEF GiveUp, Rest
<1>5. ASSUME NEW p \in Proc, NEW b, Stage(p, b) \/ StageIfNew(p, b) \/ Refuse(p)
      PROVE  \A q \in Proc : ShownOK(text'[q])
  <2>1. CASE Stage(p, b)
    BY <1>1, <1>2, <2>1 DEF Stage
  <2>2. CASE Refuse(p)
    BY <1>4, <2>2 DEF Refuse
  <2> QED
    BY <1>5, <2>1, <2>2 DEF StageIfNew
<1>6. ASSUME NEW p \in Proc, Step(p) PROVE \A q \in Proc : ShownOK(text'[q])
  <2>1. CASE BeginAdd(p)
    BY <1>5, <2>1 DEF BeginAdd
  <2>2. CASE BeginEdit(p)
    BY <1>5, <2>2 DEF BeginEdit
  <2>3. CASE BeginSync(p)
    BY <1>5, <2>3 DEF BeginSync
  <2>4. CASE BeginCapture(p)
    BY <1>5, <2>4 DEF BeginCapture
  <2>5. CASE Render(p)
    BY <1>1, <1>2, <2>5 DEF Render
  <2>6. CASE Install(p)
    BY <1>3, <2>6 DEF Install
  <2>7. CASE Commit(p)
    BY <1>4, <2>7 DEF Commit
  <2> QED
    BY <1>6, <2>1, <2>2, <2>3, <2>4, <2>5, <2>6, <2>7 DEF Step
<1>7. ASSUME NEW p \in Proc, InstallFails(p) \/ WriteConfFails(p) \/ Stop(p)
      PROVE  \A q \in Proc : ShownOK(text'[q])
  BY <1>4, <1>7 DEF InstallFails, WriteConfFails, Stop
<1>8. ASSUME NEW p \in Proc, Command(p) \/ StartSync(p) \/ Lock(p)
      PROVE  \A q \in Proc : ShownOK(text'[q])
  BY <1>3, <1>8 DEF Command, AddRule, EditPolicy, EditPort, EditTarget, DeleteRule,
     Capture, StartSync, Begun, Lock
<1>9. CASE UNCHANGED vars \/ \E h \in Host, S \in SUBSET Addr : DnsChanges(h, S)
  BY <1>3, <1>9 DEF DnsChanges, vars, local
<1> QED
  BY <1>6, <1>7, <1>8, <1>9 DEF Next

(* The bounds are kept. *)
LEMMA CountStep ==
  ASSUME RestInv, [Next]_vars
  PROVE  commands' \in 0..MaxCommands /\ faults' \in 0..MaxFaults /\ torn' \in BOOLEAN
<1>1. ByUser => commands' \in 0..MaxCommands /\ faults' = faults /\ torn' = torn
  BY ConstantsAssumption DEF ByUser, RestInv
<1>2. \A k : FaultHappens(k) => faults' \in 0..MaxFaults
  BY ConstantsAssumption DEF FaultHappens, RestInv
<1>3. CASE UNCHANGED counters
  BY <1>3 DEF counters, RestInv
<1>4. CASE ByUser
  BY <1>1, <1>4 DEF RestInv
<1>5. ASSUME NEW p \in Proc, Command(p) PROVE ByUser
  BY <1>5 DEF Command, AddRule, EditPolicy, EditPort, EditTarget, DeleteRule, Capture
<1>6. ASSUME NEW p \in Proc, StartSync(p)
      PROVE  /\ UNCHANGED <<commands, torn>>
             /\ UNCHANGED faults \/ FaultHappens("dns")
  BY <1>6 DEF StartSync
<1>7. ASSUME NEW p \in Proc, Install(p)
      PROVE  commands' = commands /\ faults' = faults /\ torn' \in BOOLEAN
  BY <1>7 DEF Install
<1>8. ASSUME NEW p \in Proc, InstallFails(p) \/ WriteConfFails(p) \/ Stop(p)
      PROVE  commands' = commands /\ torn' \in BOOLEAN /\ \E k : FaultHappens(k)
  BY <1>8 DEF InstallFails, WriteConfFails, Stop
<1>9. ASSUME NEW p \in Proc, Step(p) PROVE UNCHANGED counters \/ Install(p)
  BY <1>9 DEF Step, BeginAdd, BeginEdit, BeginSync, BeginCapture, StageIfNew, Stage,
     Refuse, Render, Commit
<1>10. ASSUME NEW p \in Proc, Lock(p) PROVE UNCHANGED counters
  BY <1>10 DEF Lock
<1>11. CASE UNCHANGED vars \/ \E h \in Host, S \in SUBSET Addr : DnsChanges(h, S)
  BY <1>3, <1>11 DEF DnsChanges, vars
<1> QED
  BY <1>2, <1>3, <1>4, <1>5, <1>6, <1>7, <1>8, <1>9, <1>10, <1>11 DEF Next, RestInv

LEMMA RestHolds == Spec => []RestInv
<1>1. Init => RestInv
  <2> SUFFICES ASSUME Init PROVE RestInv
    OBVIOUS
  <2>1. ShownOK(live) /\ \A p \in Proc : ShownOK(text[p])
    BY BlankShown DEF Init
  <2>2. commands \in 0..MaxCommands /\ faults \in 0..MaxFaults
    BY ConstantsAssumption DEF Init
  <2>3. torn \in BOOLEAN
    BY Zenon DEF Init
  <2> QED
    BY <2>1, <2>2, <2>3 DEF RestInv
<1>2. RuleInv /\ RuleInv' /\ LockInv /\ RestInv /\ [Next]_vars => RestInv'
  BY LiveStep, TextStep, CountStep DEF RestInv
<1> QED
  BY <1>1, <1>2, InitTable, TableStep, RulesSound, PTL DEF Spec

(* A transaction in progress belongs to one process, and without one the   *)
(* draft is the committed book; addresses of hosts are from their pools.   *)
THEOREM RulesTyped == Spec => []TypeOK
<1>1. RuleInv /\ LockInv /\ RestInv => TypeOK
  BY DEF RuleInv, Good, Books, IsBook, LockInv, RestInv, ShownOK, TypeOK
<1>2. Spec => []LockInv
  BY InitTable, TableStep, PTL DEF Spec
<1> QED
  BY <1>1, <1>2, RestHolds, RulesSound, PTL
=============================================================================
