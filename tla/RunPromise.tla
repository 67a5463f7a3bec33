----------------------------- MODULE RunPromise -----------------------------
(***************************************************************************)
(* What one run of the agent graph promises about the enterprise systems,  *)
(* and nothing of how: an effect only for an intent that has an endpoint   *)
(* and, when it is destructive, only in a run approved beforehand; a       *)
(* "resolved" only with an effect behind it; one outcome, for good.        *)
(* Effects may outlive the run: a request still on its way when the caller *)
(* gave up can be served afterwards.                                       *)
(***************************************************************************)
EXTENDS AgentNodes

CONSTANT EffectIds       \* the effects a run can have, one per request

VARIABLES
  intent,     \* what the ticket was understood to ask, "none" before
  approved,   \* did the user approve destructive intents before the run
  outcome,    \* "open", or how the run ended
  effects     \* the effects on the enterprise systems

vars == <<intent, approved, outcome, effects>>

Outcomes == {"resolved", "escalated", "awaiting_confirmation", "abandoned"}

MayAct ==
  /\ intent \in EndpointIntents
  /\ intent \in DestructiveIntents => approved

Init ==
  /\ intent = "none"
  /\ approved \in BOOLEAN
  /\ outcome = "open"
  /\ effects = {}

Understand(i) ==
  /\ outcome = "open" /\ intent = "none"
  /\ intent' = i
  /\ UNCHANGED <<approved, outcome, effects>>

Effect(k) ==
  /\ MayAct
  /\ effects' = effects \cup {k}
  /\ UNCHANGED <<intent, approved, outcome>>

Close(o) ==
  /\ outcome = "open"
  /\ o # "abandoned" => intent # "none"
  /\ o = "resolved" => effects # {}
  /\ o = "awaiting_confirmation" => ~MayAct /\ effects = {}
  /\ outcome' = o
  /\ UNCHANGED <<intent, approved, effects>>

Next ==
  \/ \E i \in ValidCategories : Understand(i)
  \/ \E k \in EffectIds : Effect(k)
  \/ \E o \in Outcomes : Close(o)

Spec == Init /\ [][Next]_vars
=============================================================================
