--------------------------- MODULE MirrorOfDatabase ---------------------------
(***************************************************************************)
(* What the relay promises about its table, without saying how: the kernel *)
(* table is a mirror of the allow list that may lag but is never made up.  *)
(* Each new table is the whole allow list of one single instant, tables    *)
(* are published in the order in which those instants were, and what the   *)
(* next boot loads is a table that was published.                          *)
(***************************************************************************)
CONSTANTS Row, Nothing

VARIABLES
  rows,    \* the rows the database holds active
  shot,    \* the allow list of one instant, on its way to the kernel
  table,   \* the rows the kernel lets through
  saved    \* the table of the next boot

mirrorVars == <<rows, shot, table, saved>>

Init == rows = {} /\ shot = Nothing /\ table = {} /\ saved = {}

(* One commit changes one row. *)
Commit ==
  /\ \E r \in Row : rows' = rows \cup {r} \/ rows' = rows \ {r}
  /\ UNCHANGED <<shot, table, saved>>

(* No shot is taken while another is on its way. *)
Shoot ==
  /\ shot = Nothing
  /\ shot' = rows
  /\ UNCHANGED <<rows, table, saved>>

Publish ==
  /\ shot # Nothing
  /\ table' = shot
  /\ shot' \in {shot, Nothing}
  /\ UNCHANGED <<rows, saved>>

(* Only a shot that has been published is saved. *)
Save ==
  /\ shot # Nothing
  /\ table = shot
  /\ saved' = shot
  /\ shot' = Nothing
  /\ UNCHANGED <<rows, table>>

Discard ==
  /\ shot' = Nothing
  /\ UNCHANGED <<rows, table, saved>>

Boot ==
  /\ table' = saved
  /\ shot' = Nothing
  /\ UNCHANGED <<rows, saved>>

Next == Commit \/ Shoot \/ Publish \/ Save \/ Discard \/ Boot

Spec == Init /\ [][Next]_mirrorVars
=============================================================================
