-------------------------- MODULE MCCaptureRecorder --------------------------
EXTENDS CaptureRecorder

(* Two selections that record different ports within different budgets,    *)
(* and one that records nothing.                                           *)
Settings ==
  { [on |-> TRUE, ports |-> {"p"}, budget |-> 4],
    [on |-> TRUE, ports |-> {"q"}, budget |-> 3],
    [on |-> FALSE, ports |-> {"p"}, budget |-> 4] }
=============================================================================
