----------------------------- MODULE MCExitQueue -----------------------------
EXTENDS ExitQueue, TLC

Symmetric == Permutations(Handler) \cup Permutations(Url) \cup Permutations(Ip)
=============================================================================
