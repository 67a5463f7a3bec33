--------------------------- MODULE MCA2ASubscribe ---------------------------
(***************************************************************************)
(* A2ASubscribe with fewer slots than clients, so that the semaphore runs  *)
(* out while streams end, time out and lose their client.                  *)
(***************************************************************************)
EXTENDS A2ASubscribe
=============================================================================
