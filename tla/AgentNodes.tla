----------------------------- MODULE AgentNodes -----------------------------
(***************************************************************************)
(* The ticket state that flows through the agent graph and the four node   *)
(* functions that rewrite it (agents/*_node.py), with the router that      *)
(* follows the action node (agents/graph.py).                              *)
(*                                                                         *)
(* Each node of the program returns {**state, **updates}, so a node is an  *)
(* operator from a state record to a state record.  What a node reads from *)
(* outside (the classifier, the index, the enterprise API) is a parameter. *)
(* Texts are abstracted to the distinctions the router, the escalation     *)
(* node and the callers make; confidences are tenths, 0.6 being 6.         *)
(***************************************************************************)
EXTENDS Integers

CONSTANTS
  Categories,    \* the labels the classifier emits in this instance
  Confidences    \* the confidences it reports, in tenths

(***************************************************************************)
(* agents/action_node.py: intents that need explicit confirmation, and     *)
(* those with an enterprise endpoint; dspy_modules/triage.py: every label. *)
(***************************************************************************)
DestructiveIntents == {"access_revoke", "account_lock", "account_delete"}

EndpointIntents ==
  {"password_reset", "access_request", "leave_approval", "incident_report",
   "software_install"} \cup DestructiveIntents

ValidCategories == EndpointIntents \cup {"unknown"}

ASSUME CategoriesAssumption == Categories \subseteq ValidCategories
ASSUME ConfidencesAssumption == Confidences \subseteq 0..10

-----------------------------------------------------------------------------
(* The state record (agents/state.py)                                      *)

NoConfidence == -1        \* confidence is None
InjectionCap == 3         \* _INJECTION_CONFIDENCE_CAP
ParseErrorConfidence == 5 \* what classify() reports when the model's output does not parse
RetrievalCap == 3         \* what knowledge_node writes when the index has no answer
Threshold == 6            \* the router's 0.6

GraphStatus == {"triaging", "retrieving", "acting", "resolved", "escalated",
                "awaiting_confirmation"}
Priority == {"none", "LOW", "MEDIUM", "HIGH", "CRITICAL"}
Group == {"none", "tier-1-support", "tier-2-support", "sre-oncall"}
NodeReason == {"none", "confirm_required", "category_unknown",
               "category_undetermined", "low_confidence", "action_error", "policy"}

\* The text of the exception that ended the call.  httpx gives its timeouts and
\* broken connections an empty one, which a test for a truthy error misses.
FailureTexts == {"text", "blank"}

TicketState ==
  [status     : GraphStatus,
   category   : ValidCategories \cup {"none"},       \* category, and intent with it
   priority   : Priority,
   confidence : 0..10 \cup {NoConfidence},
   confirmed  : {"unset", "no", "yes"},              \* action_confirmed
   template   : BOOLEAN,                             \* is resolution_template set
   resolution : {"none", "draft", "sent", "stock"},
   reason     : NodeReason,                          \* escalation_reason
   assignee   : Group,
   error      : {"none", "confirm"} \cup FailureTexts]

\* build_initial_state, with action_confirmed as confirm_action sets it.
InitialState(confirmed) ==
  [status |-> "triaging", category |-> "none", priority |-> "none",
   confidence |-> NoConfidence,
   confirmed |-> IF confirmed THEN "yes" ELSE "unset",
   template |-> FALSE, resolution |-> "none", reason |-> "none",
   assignee |-> "none", error |-> "none"]

-----------------------------------------------------------------------------
(* intake_node                                                             *)

\* _assign_priority: a critical keyword in the text overrides the category's default.
AssignPriority(category, critical) ==
  CASE critical -> "CRITICAL"
    [] ~critical /\ category \in {"incident_report"} \cup DestructiveIntents -> "HIGH"
    [] ~critical /\ category = "leave_approval" -> "LOW"
    [] OTHER -> "MEDIUM"

\* apply_injection_guard: min(confidence, cap) when a pattern matches.
InjectionGuard(injected, confidence) ==
  IF injected /\ confidence > InjectionCap THEN InjectionCap ELSE confidence

\* What classify() may return: a label with a clamped confidence, or the
\* parse-error fallback.
Classifications ==
  (Categories \X Confidences) \cup {<<"unknown", ParseErrorConfidence>>}

Intake(st, label, injected, critical) ==
  [st EXCEPT !.category   = label[1],
             !.priority   = AssignPriority(label[1], critical),
             !.confidence = InjectionGuard(injected, label[2]),
             !.status     = "retrieving"]

-----------------------------------------------------------------------------
(* knowledge_node                                                          *)

\* No chunk, a top chunk below the score threshold, or an answer (written by
\* the model, or the chunk itself when the model fails).
Retrievals == {"empty", "weak", "answer"}

Knowledge(st, retrieval) ==
  IF retrieval = "answer"
  THEN [st EXCEPT !.template = TRUE, !.resolution = "draft", !.status = "acting"]
  ELSE [st EXCEPT !.confidence = RetrievalCap, !.status = "acting"]

-----------------------------------------------------------------------------
(* action_node                                                             *)

ActionUnknown(st) == st.category = "unknown"

\* Mutant: the gate tests `is False`, which an unset flag passes.
ActionGated_IsFalse(st) == st.category \in DestructiveIntents /\ st.confirmed = "no"

ActionGated(st) == st.category \in DestructiveIntents /\ st.confirmed # "yes"

\* Neither early return applies: the node calls the enterprise API.
ActionCalls(st) == ~ActionUnknown(st) /\ ~ActionGated(st)

EscalateUnknown(st) ==
  [st EXCEPT !.reason = "category_unknown", !.status = "escalated"]

AwaitConfirmation(st) ==
  [st EXCEPT !.confirmed = "no", !.status = "awaiting_confirmation",
             !.reason = "confirm_required", !.error = "confirm"]

\* resolution is the formatted template, or the stock "Action completed."
\* when the knowledge node left no template.
ActionDone(st) ==
  [st EXCEPT !.confirmed = "yes", !.status = "resolved", !.error = "none",
             !.resolution = IF st.template THEN "sent" ELSE "stock"]

\* Mutant: the error is logged and not recorded.
ActionFailed_NoError(st, text) == [st EXCEPT !.status = "escalated"]

ActionFailed(st, text) == [st EXCEPT !.status = "escalated", !.error = text]

-----------------------------------------------------------------------------
(* _should_escalate and escalation_node                                    *)

\* `confidence or 1.0`: None and 0.0 are both falsy.
EffectiveConfidence(st) ==
  IF st.confidence \in {NoConfidence, 0} THEN 10 ELSE st.confidence

\* Mutant: the router looks at the triage only.
ShouldEscalate_TriageOnly(st) ==
  /\ st.status # "awaiting_confirmation"
  /\ EffectiveConfidence(st) < Threshold \/ st.category = "unknown"

ShouldEscalate(st) ==
  /\ st.status # "awaiting_confirmation"
  /\ \/ st.status = "escalated"
     \/ EffectiveConfidence(st) < Threshold
     \/ st.category = "unknown"

\* The branch for errors that say "confirmation" is left out: action_node writes
\* "Confirm required", and such a ticket is not routed here.
EscalationReason(st) ==
  CASE st.category = "unknown" -> "category_undetermined"
    [] st.category # "unknown" /\ EffectiveConfidence(st) < Threshold -> "low_confidence"
    [] st.category # "unknown" /\ EffectiveConfidence(st) >= Threshold
         /\ st.error \in {"confirm", "text"} -> "action_error"
    [] OTHER -> "policy"

\* _PRIORITY_GROUP
AssigneeFor(priority) ==
  CASE priority = "CRITICAL" -> "sre-oncall"
    [] priority = "HIGH"     -> "tier-2-support"
    [] OTHER                 -> "tier-1-support"

Escalate(st) ==
  [st EXCEPT !.reason = EscalationReason(st),
             !.assignee = AssigneeFor(st.priority),
             !.status = "escalated"]
=============================================================================
