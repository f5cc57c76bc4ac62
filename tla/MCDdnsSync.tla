------------------------------ MODULE MCDdnsSync ------------------------------
EXTENDS DdnsSync

CONSTANTS n1, n2

(* A host with one address, which changes. *)
OneAddress == {{n1}, {n2}}
(* Hosts with one or two addresses. *)
OneOrTwo == OneAddress \cup {{n1, n2}}
=============================================================================
