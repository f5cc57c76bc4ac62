------------------------------ MODULE MCRuleEdit ------------------------------
EXTENDS RuleEdit, TLC

CONSTANTS p1, p2, h1, h2, a1, a2, b1

(* A user, and the timer. *)
UserAndTimer == [p \in Proc |-> IF p = p1 THEN Op \ {"sync"} ELSE {"sync"}]
(* Two hosts; the first has two addresses. *)
TwoHosts == h1 :> {a1, a2} @@ h2 :> {b1}
=============================================================================
