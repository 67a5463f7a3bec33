-------------------------- MODULE MCTicketLifecycle --------------------------
(***************************************************************************)
(* TicketLifecycle with one intent that needs a confirmation, one that     *)
(* does not, and unparsable triage ("unknown"); the trusted confidence 9   *)
(* falls to 3 with an injection or without an answer, and to 5 with the    *)
(* parse error.                                                            *)
(***************************************************************************)
EXTENDS TicketLifecycle

MCCategories == {"password_reset", "account_lock"}
MCConfidences == {9}
=============================================================================
