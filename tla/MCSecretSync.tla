---------------------------- MODULE MCSecretSync ----------------------------
EXTENDS SecretSync

(* The relay's configured URL and the exit node's tell the URLs apart. *)
CONSTANTS u1, u2
=============================================================================
