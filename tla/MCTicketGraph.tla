---------------------------- MODULE MCTicketGraph ----------------------------
(***************************************************************************)
(* TicketGraph with the service's own retry schedule (3 delays, 4          *)
(* attempts), one label of each kind the nodes tell apart, and confidences *)
(* on both sides of every threshold, 0 among them.                         *)
(***************************************************************************)
EXTENDS TicketGraph

MCCategories == {"password_reset", "incident_report", "account_lock", "unknown"}
MCConfidences == {0, 3, 5, 6, 10}
MCConfigured == {"support_email", "user_email"}
=============================================================================
