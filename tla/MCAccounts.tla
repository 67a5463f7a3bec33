----------------------------- MODULE MCAccounts -----------------------------
(***************************************************************************)
(* Accounts with as many threads as a race needs; codes and threads are    *)
(* interchangeable.                                                        *)
(***************************************************************************)
EXTENDS Accounts, TLC

Symmetry == Permutations(Codes) \cup Permutations(Threads) \cup Permutations(Emails)
=============================================================================
