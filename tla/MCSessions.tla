----------------------------- MODULE MCSessions -----------------------------
(* Sessions on small instances; rows and slots are interchangeable.         *)
EXTENDS Sessions, TLC

Symmetry == Permutations(Tokens) \cup Permutations(Codes) \cup Permutations(Slots)
=============================================================================
