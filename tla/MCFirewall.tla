------------------------------ MODULE MCFirewall ------------------------------
EXTENDS FirewallApply

CONSTANTS w1, w2, w3, e1, e2

(* Two log watchers, and the timer that retries. *)
Ingests == [w \in Worker |-> {"ingest"}]
(* An administrator, the web and ssh ingest, and the timer with block log. *)
Roles == [w \in Worker |->
            IF w = w1 THEN {"allow", "remove", "apply", "mode"}
            ELSE IF w = w2 THEN {"ingest"}
            ELSE {"retry", "repair"}]
=============================================================================
