----------------------------- MODULE MCApiKeys -----------------------------
(***************************************************************************)
(* A small instance of the API keys: one key, two of everything else.      *)
(***************************************************************************)
EXTENDS ApiKeys, TLC

CONSTANTS k1, v1, v2, n1, n2

OneKey == {k1}
TwoRevocations == {v1, v2}
TwoEntries == {n1, n2}
AllOfIt == [x \in Revocations \cup Entries |-> k1]

Alike == Permutations(Revocations) \cup Permutations(Entries)
=============================================================================
