---------------------------- MODULE MCReplacement -----------------------------
(* Replacement on one request, with a few indexers and agreements.         *)
EXTENDS Replacement, TLC

CONSTANTS k1

OneKey == [r \in Requests |-> k1]

Identities == Permutations(Agreements) \cup Permutations(Runners)
=============================================================================
