------------------------------- MODULE RuleBook -------------------------------
(***************************************************************************)
(* What the forwarding rules promise, without locks, transactions or       *)
(* lookups: a book of rules in which every operation changes, at one       *)
(* instant, the fields that it names of the rule that it names, and        *)
(* nothing else.                                                           *)
(***************************************************************************)
EXTENDS Naturals

CONSTANTS Port, Host, Pool, Fixed, Policy, NoHost

VARIABLES rules, selected, next

bookVars == <<rules, selected, next>>

(* A target: an address as such, or a host with an address it had. *)
Target ==
  [host : {NoHost}, ip : Fixed]
    \cup UNION {[host : {h}, ip : Pool[h]] : h \in Host}

Init == rules = {} /\ selected = {} /\ next = 1

Taken == {r.lport : r \in rules}

New(p, t, y) ==
  /\ p \notin Taken
  /\ rules' = rules \cup {[id |-> next, lport |-> p, host |-> t.host,
                           ip |-> t.ip, policy |-> y]}
  /\ next' = next + 1
  /\ UNCHANGED selected

Change(r, new) ==
  /\ rules' = (rules \ {r}) \cup {new}
  /\ UNCHANGED <<selected, next>>

(* Adding on an occupied port rewrites the rule and keeps its identity. *)
Rewrite(r, t, y) == Change(r, [r EXCEPT !.host = t.host, !.ip = t.ip, !.policy = y])
SetPort(r, p)    == p \notin Taken /\ Change(r, [r EXCEPT !.lport = p])
SetTarget(r, t)  == Change(r, [r EXCEPT !.host = t.host, !.ip = t.ip])
SetPolicy(r, y)  == Change(r, [r EXCEPT !.policy = y])

(* Only addresses change, to addresses of the rule's own host. *)
Refresh ==
  /\ \E f \in [rules -> {r.ip : r \in rules} \cup UNION {Pool[h] : h \in Host}] :
       /\ \A r \in rules : f[r] = r.ip \/ (r.host \in Host /\ f[r] \in Pool[r.host])
       /\ rules' = {[r EXCEPT !.ip = f[r]] : r \in rules}
  /\ UNCHANGED <<selected, next>>

Remove(r) ==
  /\ rules' = rules \ {r}
  /\ selected' = selected \ {r.id}
  /\ UNCHANGED next

(* Recording is selected for existing rules. *)
Select ==
  /\ \E S \in SUBSET {r.id : r \in rules} : selected' = S
  /\ UNCHANGED <<rules, next>>

Next ==
  \/ \E p \in Port, t \in Target, y \in Policy : New(p, t, y)
  \/ \E r \in rules :
       \/ \E t \in Target, y \in Policy : Rewrite(r, t, y)
       \/ \E p \in Port : SetPort(r, p)
       \/ \E t \in Target : SetTarget(r, t)
       \/ \E y \in Policy : SetPolicy(r, y)
       \/ Remove(r)
  \/ Refresh
  \/ Select

Spec == Init /\ [][Next]_bookVars
=============================================================================
