-------------------------- MODULE AgentNodesProofs --------------------------
(***************************************************************************)
(* What the node functions of AgentNodes return, for every label set and   *)
(* every confidence set: the type of the ticket state, and the fields the  *)
(* invariants of TicketGraph and TicketLifecycle speak of.                 *)
(***************************************************************************)
EXTENDS AgentNodes, TLAPS

\* Every label the classifier can return is a category, with a confidence in range.
LEMMA ClassificationType ==
  ASSUME NEW label \in Classifications
  PROVE  label[1] \in ValidCategories /\ label[2] \in 0..10
<1>1. CASE label \in Categories \X Confidences
  BY <1>1, CategoriesAssumption, ConfidencesAssumption
<1>2. CASE label = <<"unknown", ParseErrorConfidence>>
  BY <1>2 DEF ValidCategories, ParseErrorConfidence
<1>3. QED
  BY <1>1, <1>2 DEF Classifications

\* intake_node returns a ticket state whose category is a label.
LEMMA IntakeType ==
  ASSUME NEW s \in TicketState, NEW label \in Classifications,
         NEW injected \in BOOLEAN, NEW critical \in BOOLEAN
  PROVE  /\ Intake(s, label, injected, critical) \in TicketState
         /\ Intake(s, label, injected, critical).category = label[1]
         /\ Intake(s, label, injected, critical).category \in ValidCategories
         /\ Intake(s, label, injected, critical).status = "retrieving"
         /\ Intake(s, label, injected, critical).confirmed = s.confirmed
<1>1. label[1] \in ValidCategories /\ label[2] \in 0..10
  BY ClassificationType
<1>2. AssignPriority(label[1], critical) \in Priority
  BY DEF AssignPriority, Priority
<1>3. InjectionGuard(injected, label[2]) \in 0..10
  BY <1>1 DEF InjectionGuard, InjectionCap
<1>4. QED
  BY <1>1, <1>2, <1>3 DEF Intake, TicketState, GraphStatus

\* knowledge_node keeps the type, the category and the confirmation flag.
LEMMA KnowledgeType ==
  ASSUME NEW s \in TicketState, NEW retrieval \in Retrievals
  PROVE  /\ Knowledge(s, retrieval) \in TicketState
         /\ Knowledge(s, retrieval).category = s.category
         /\ Knowledge(s, retrieval).status = "acting"
         /\ Knowledge(s, retrieval).confirmed = s.confirmed
<1>1. CASE retrieval = "answer"
  BY <1>1 DEF Knowledge, TicketState, GraphStatus
<1>2. CASE retrieval # "answer"
  <2>1. RetrievalCap \in 0..10 \cup {NoConfidence}
    BY DEF RetrievalCap
  <2>2. QED
    BY <1>2, <2>1 DEF Knowledge, TicketState, GraphStatus
<1>3. QED
  BY <1>1, <1>2

\* The results of action_node are ticket states of the same category, with the
\* same assignee: its early returns and its success, ...
LEMMA ActionType ==
  ASSUME NEW s \in TicketState
  PROVE  /\ {EscalateUnknown(s), AwaitConfirmation(s), ActionDone(s)} \subseteq TicketState
         /\ \A r \in {EscalateUnknown(s), AwaitConfirmation(s), ActionDone(s)} :
              r.category = s.category /\ r.assignee = s.assignee
         /\ EscalateUnknown(s).status = "escalated"
         /\ AwaitConfirmation(s).status = "awaiting_confirmation"
         /\ ActionDone(s).status = "resolved"
<1>1. EscalateUnknown(s) \in TicketState
  BY DEF EscalateUnknown, TicketState, GraphStatus, NodeReason
<1>2. AwaitConfirmation(s) \in TicketState
  BY DEF AwaitConfirmation, TicketState, GraphStatus, NodeReason
<1>3. ActionDone(s) \in TicketState
  BY DEF ActionDone, TicketState, GraphStatus
<1>4. QED
  BY <1>1, <1>2, <1>3
     DEF EscalateUnknown, AwaitConfirmation, ActionDone, TicketState

\* ... and a failed call, with the text of its exception.
LEMMA FailureType ==
  ASSUME NEW s \in TicketState, NEW text \in FailureTexts
  PROVE  /\ ActionFailed(s, text) \in TicketState
         /\ ActionFailed(s, text).category = s.category
         /\ ActionFailed(s, text).assignee = s.assignee
         /\ ActionFailed(s, text).status = "escalated"
         /\ ActionFailed(s, text).error = text
  BY DEF ActionFailed, TicketState, GraphStatus

\* escalation_node keeps the type and the category.
LEMMA EscalateType ==
  ASSUME NEW s \in TicketState
  PROVE  /\ Escalate(s) \in TicketState
         /\ Escalate(s).category = s.category
         /\ Escalate(s).status = "escalated"
<1>1. EscalationReason(s) \in NodeReason
  BY DEF EscalationReason, NodeReason
<1>2. AssigneeFor(s.priority) \in Group
  BY DEF AssigneeFor, Group
<1>3. QED
  BY <1>1, <1>2 DEF Escalate, TicketState, GraphStatus

\* A ticket enters the graph as a ticket state with no category.
LEMMA InitialType ==
  ASSUME NEW c \in BOOLEAN
  PROVE  /\ InitialState(c) \in TicketState
         /\ InitialState(c).category = "none"
         /\ InitialState(c).status = "triaging"
         /\ InitialState(c).confirmed = "yes" <=> c
  BY DEF InitialState, TicketState, GraphStatus, Priority, Group, NodeReason

\* The fields of a ticket state that the invariant speaks of.
LEMMA FieldType ==
  ASSUME NEW s \in TicketState
  PROVE  s.category \in ValidCategories \cup {"none"} /\ s.status \in GraphStatus
  BY DEF TicketState

\* The nodes before the action name no assignee either.
LEMMA AssigneeField ==
  ASSUME NEW s \in TicketState
  PROVE  /\ \A label \in Classifications, injected \in BOOLEAN, critical \in BOOLEAN :
              Intake(s, label, injected, critical).assignee = s.assignee
         /\ \A retrieval \in Retrievals : Knowledge(s, retrieval).assignee = s.assignee
  BY DEF TicketState, Intake, Knowledge

\* What escalation_node leaves behind.
LEMMA EscalateFields ==
  ASSUME NEW s \in TicketState
  PROVE  /\ Escalate(s).assignee = AssigneeFor(s.priority)
         /\ Escalate(s).priority = s.priority
         /\ Escalate(s).confidence = s.confidence
         /\ Escalate(s).error = s.error
         /\ Escalate(s).reason = EscalationReason(s)
  BY DEF TicketState, Escalate

\* A known category, a trusted confidence and a failed call: the reason is the call.
LEMMA ReasonOfFailure ==
  ASSUME NEW s \in TicketState, s.category # "unknown",
         EffectiveConfidence(s) >= Threshold, s.error = "text"
  PROVE  EscalationReason(s) = "action_error"
<1>1. ~(EffectiveConfidence(s) < Threshold)
  BY DEF EffectiveConfidence, Threshold, TicketState, NoConfidence
<1>2. QED
  BY <1>1 DEF EscalationReason
=============================================================================
