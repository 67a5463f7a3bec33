----------------------------- MODULE MCSessions -----------------------------
(***************************************************************************)
(* Sessions with interchangeable users, tokens and threads.                *)
(***************************************************************************)
EXTENDS Sessions, TLC

Symmetry == Permutations(Users) \cup Permutations(Tokens) \cup Permutations(Threads)
=============================================================================
