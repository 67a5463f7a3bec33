---------------------------- MODULE MCRetriever ----------------------------
(***************************************************************************)
(* Retriever on a small instance; nothing is replaced, and liveness rules  *)
(* symmetry out.                                                           *)
(***************************************************************************)
EXTENDS Retriever
=============================================================================
