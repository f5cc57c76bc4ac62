------------------------------ MODULE MCRulesets ------------------------------
EXTENDS Rulesets, TLC

CONSTANTS n1, n2, u1

(* Two rulesets in use; and one of a restricted selection, with a Secret   *)
(* URL that was deleted and a record of a ruleset that is not there.       *)
States ==
  { [sets |-> [n \in Name |-> "all"], refs |-> <<{n1, n2}>>, rows |-> {n1},
     urls |-> u1 :> [ruleset |-> n1, active |-> TRUE], ddns |-> {n1}],
    [sets |-> n1 :> "few" @@ n2 :> None, refs |-> <<None>>, rows |-> {},
     urls |-> u1 :> [ruleset |-> n1, active |-> FALSE], ddns |-> {n2}] }

(* A file whose rules and URLs name more rulesets than it lists.           *)
Files ==
  { [sets |-> n1 :> "few" @@ n2 :> None, refs |-> <<{n1, n2}>>,
     urls |-> u1 :> [ruleset |-> n2, active |-> TRUE], ddns |-> {n2}] }

Same == Permutations(Worker)
=============================================================================
