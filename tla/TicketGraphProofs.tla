-------------------------- MODULE TicketGraphProofs --------------------------
(***************************************************************************)
(* The safety of one graph run, for every label set, every confidence set, *)
(* every retry count and every set of notice channels.                     *)
(*                                                                         *)
(* The properties of TicketGraph are not inductive as they stand: that a   *)
(* request left only through the gate needs to know what the gate saw.     *)
(* Control ties the run's position to the ticket state the nodes have left *)
(* behind and to the requests sent so far.                                 *)
(***************************************************************************)
EXTENDS TicketGraph, AgentNodesProofs

Posting == {"post", "waiting", "backoff"}

Sent == {k \in Attempts : req[k] # "unsent"}

\* Where the run is, what its caller knows, how many outputs it has.
ControlInv ==
  /\ pc \notin {"end", "escalation"} => verdict = "running"
  /\ pc = "end" => verdict # "running"
  /\ verdict = "completed" => pc = "end"
  /\ pc \in {"intake", "knowledge", "action"} \cup Posting => noticeIx = 0
  /\ pc = "intake" => nodes = 0
  /\ pc = "knowledge" => nodes = 1
  /\ pc \in {"action"} \cup Posting => nodes = 2
  /\ pc \in {"route", "escalation"} => nodes = 3

\* What the ticket state says at each position.
StateInv ==
  /\ pc = "intake" => st = InitialState(approved)
  /\ pc \notin {"intake", "end"} => st.category # "none"
  /\ pc \in {"knowledge", "action"} \cup Posting => (st.confirmed = "yes" <=> approved)
  /\ pc \in Posting => ActionCalls(st)
  /\ pc \in {"route", "escalation"} =>
       st.status \in {"resolved", "escalated", "awaiting_confirmation"}
  /\ st.status \in {"resolved", "escalated", "awaiting_confirmation"} =>
       pc \in {"route", "escalation", "end"}
  /\ st.status = "awaiting_confirmation" =>
       st.category \in DestructiveIntents /\ ~approved
  /\ verdict = "completed" =>
       /\ st.status \in {"resolved", "escalated", "awaiting_confirmation"}
       /\ st.category # "none"
       /\ st.status = "resolved" => ~ShouldEscalate(st)

\* Which requests can have left.
RequestInv ==
  /\ pc \in {"intake", "knowledge", "action"} => Sent = {}
  /\ \A k \in Attempts : k > attempt => req[k] = "unsent"
  /\ pc \in {"post", "backoff"} => req[attempt] = "unsent"
  /\ st.status = "resolved" => req[attempt] = "applied"
  /\ st.status = "awaiting_confirmation" => Sent = {}

IInv == TypeOK /\ ControlInv /\ StateInv /\ RequestInv /\ GateHolds

-----------------------------------------------------------------------------
(* The invariant                                                           *)

\* A run starts in the invariant.
LEMMA InitInv == Init => IInv
<1> SUFFICES ASSUME Init PROVE IInv
  OBVIOUS
<1> USE DEF Init
<1>1. st \in TicketState /\ st.category = "none" /\ st.status = "triaging"
  BY InitialType
<1>2. TypeOK
  BY <1>1, MaxAttemptsAssumption DEF TypeOK, PC, Verdict, Attempts, Request
<1>3. ControlInv
  BY DEF ControlInv, Posting
<1>4. StateInv
  BY <1>1 DEF StateInv, Posting
<1>5. RequestInv
  BY <1>1 DEF RequestInv, Sent
<1>6. GateHolds
  BY DEF GateHolds
<1>7. QED
  BY <1>2, <1>3, <1>4, <1>5, <1>6 DEF IInv

\* intake_node: the first output names the category.
LEMMA IntakeStep == IInv /\ IntakeNode => IInv'
<1> SUFFICES ASSUME IInv, IntakeNode PROVE IInv'
  OBVIOUS
<1> USE DEF IInv, service, escalationVars
<1>1. PICK label \in Classifications, injected \in BOOLEAN, critical \in BOOLEAN :
        NodeReturns("knowledge", Intake(st, label, injected, critical))
  BY DEF IntakeNode
<1>2. /\ st' \in TicketState /\ st'.category \in ValidCategories
      /\ st'.status = "retrieving" /\ st'.confirmed = st.confirmed
  BY <1>1, IntakeType DEF NodeReturns, TypeOK
<1>3. st.confirmed = "yes" <=> approved
  BY InitialType DEF IntakeNode, StateInv, TypeOK
<1>4. st'.category # "none"
  BY <1>2 DEF ValidCategories, EndpointIntents, DestructiveIntents
<1>5. pc = "intake" /\ pc' = "knowledge" /\ nodes' = nodes + 1
      /\ UNCHANGED <<verdict, approved, attempt, req, noticeIx, notices>>
  BY <1>1 DEF NodeReturns, IntakeNode
<1>6. TypeOK'
  BY <1>2, <1>5 DEF TypeOK, ControlInv, PC, Verdict
<1>7. ControlInv'
  BY <1>5 DEF ControlInv, Posting
<1>8. StateInv'
  BY <1>2, <1>3, <1>4, <1>5 DEF StateInv, ControlInv, Posting
<1>9. RequestInv' /\ GateHolds'
  BY <1>2, <1>5 DEF RequestInv, Sent, GateHolds
<1>10. QED
  BY <1>6, <1>7, <1>8, <1>9

\* knowledge_node: the category and the confirmation flag stay.
LEMMA KnowledgeStep == IInv /\ KnowledgeNode => IInv'
<1> SUFFICES ASSUME IInv, KnowledgeNode PROVE IInv'
  OBVIOUS
<1> USE DEF IInv, service, escalationVars
<1>1. PICK retrieval \in Retrievals : NodeReturns("action", Knowledge(st, retrieval))
  BY DEF KnowledgeNode
<1>2. /\ st' \in TicketState /\ st'.category = st.category
      /\ st'.status = "acting" /\ st'.confirmed = st.confirmed
  BY <1>1, KnowledgeType DEF NodeReturns, TypeOK
<1>3. pc = "knowledge" /\ pc' = "action" /\ nodes' = nodes + 1
      /\ UNCHANGED <<verdict, approved, attempt, req, noticeIx, notices>>
  BY <1>1 DEF NodeReturns, KnowledgeNode
<1>4. TypeOK'
  BY <1>2, <1>3 DEF TypeOK, ControlInv, PC, Verdict
<1>5. ControlInv'
  BY <1>3 DEF ControlInv, Posting
<1>6. StateInv'
  BY <1>2, <1>3 DEF StateInv, ControlInv, Posting
<1>7. RequestInv' /\ GateHolds'
  BY <1>2, <1>3 DEF RequestInv, Sent, GateHolds
<1>8. QED
  BY <1>4, <1>5, <1>6, <1>7

\* The action node's four ways back to the router leave the requests alone.
LEMMA ReturnToRouter ==
  ASSUME IInv, NEW result \in TicketState,
         pc \in {"action", "waiting"},
         NodeReturns("route", result), UNCHANGED <<service, escalationVars>>,
         result.category = st.category,
         result.status \in {"resolved", "escalated", "awaiting_confirmation"},
         result.status = "resolved" => req[attempt] = "applied",
         result.status = "awaiting_confirmation" =>
           st.category \in DestructiveIntents /\ ~approved /\ Sent = {}
  PROVE  IInv'
<1> USE DEF IInv, service, escalationVars
<1>1. pc' = "route" /\ st' = result /\ nodes' = nodes + 1
      /\ UNCHANGED <<verdict, approved, attempt, req, noticeIx, notices>>
  BY DEF NodeReturns
<1>2. TypeOK'
  BY <1>1 DEF TypeOK, ControlInv, Posting, PC, Verdict
<1>3. ControlInv'
  BY <1>1 DEF ControlInv, Posting
<1>4. StateInv'
  BY <1>1 DEF StateInv, ControlInv, Posting
<1>5. RequestInv' /\ GateHolds'
  BY <1>1 DEF RequestInv, Sent, GateHolds
<1>6. QED
  BY <1>2, <1>3, <1>4, <1>5

\* action_node's early returns.
LEMMA EarlyStep == IInv /\ ActionReturnsEarly => IInv'
<1> SUFFICES ASSUME IInv, ActionReturnsEarly PROVE IInv'
  OBVIOUS
<1>1. st \in TicketState /\ pc = "action" /\ Sent = {}
  BY DEF IInv, TypeOK, ActionReturnsEarly, RequestInv
<1>2. CASE NodeReturns("route", EscalateUnknown(st))
  BY <1>1, <1>2, ActionType, ReturnToRouter DEF ActionReturnsEarly
<1>3. CASE ActionGated(st) /\ NodeReturns("route", AwaitConfirmation(st))
  <2>1. st.category \in DestructiveIntents /\ ~approved
    BY <1>1, <1>3 DEF ActionGated, IInv, StateInv
  <2>2. QED
    BY <1>1, <1>3, <2>1, ActionType, ReturnToRouter DEF ActionReturnsEarly
<1>4. QED
  BY <1>2, <1>3 DEF ActionReturnsEarly

\* A reply ends the call: a success is an applied request.
LEMMA ReplyStep == IInv /\ (PostSucceeds \/ PostFails) => IInv'
<1> SUFFICES ASSUME IInv, PostSucceeds \/ PostFails PROVE IInv'
  OBVIOUS
<1>1. st \in TicketState
  BY DEF IInv, TypeOK
<1>2. CASE PostSucceeds
  BY <1>1, <1>2, ActionType, ReturnToRouter DEF PostSucceeds
<1>3. CASE PostFails
  BY <1>1, <1>3, FailureType, ReturnToRouter DEF PostFails
<1>4. QED
  BY <1>2, <1>3

\* A retry moves on to a request that was never sent.
LEMMA RetryStep == IInv /\ PostRetries => IInv'
<1> SUFFICES ASSUME IInv, PostRetries PROVE IInv'
  OBVIOUS
<1>1. st \in TicketState /\ attempt \in Attempts
  BY DEF IInv, TypeOK
<1>2. CASE attempt < MaxAttempts
  <2>1. /\ attempt' = attempt + 1 /\ pc = "waiting" /\ pc' = "backoff"
        /\ UNCHANGED <<verdict, st, nodes, approved, req, noticeIx, notices>>
    BY <1>2 DEF PostRetries, escalationVars
  <2>2. attempt' \in Attempts
    BY <1>1, <1>2, <2>1, MaxAttemptsAssumption DEF Attempts
  <2>3. TypeOK'
    BY <2>1, <2>2 DEF IInv, TypeOK, PC
  <2>4. ControlInv' /\ StateInv'
    BY <2>1 DEF IInv, ControlInv, StateInv, Posting
  <2>5. RequestInv' /\ GateHolds'
    <3>1. st.status # "resolved" /\ st.status # "awaiting_confirmation"
      BY <2>1 DEF IInv, StateInv
    <3>2. \A k \in Attempts : k > attempt' => k > attempt
      BY <1>1, <2>1 DEF Attempts
    <3>3. req[attempt'] = "unsent"
      BY <1>1, <2>1, <2>2 DEF IInv, RequestInv, Attempts
    <3>4. QED
      BY <2>1, <3>1, <3>2, <3>3 DEF IInv, RequestInv, Sent, GateHolds
  <2>6. QED
    BY <2>3, <2>4, <2>5 DEF IInv
<1>3. CASE ~(attempt < MaxAttempts)
  <2>1. /\ \E text \in FailureTexts : NodeReturns("route", ActionFailed(st, text))
        /\ UNCHANGED <<service, escalationVars>>
    BY <1>3 DEF PostRetries, service, escalationVars
  <2>2. QED
    BY <1>1, <2>1, FailureType, ReturnToRouter DEF PostRetries
<1>4. QED
  BY <1>2, <1>3

\* The steps that send the request: the gate is behind them.
LEMMA PostStep == IInv /\ (ActionStarts \/ Post \/ BackoffElapses) => IInv'
<1> SUFFICES ASSUME IInv, ActionStarts \/ Post \/ BackoffElapses PROVE IInv'
  OBVIOUS
<1> USE DEF IInv, service, escalationVars
<1>1. CASE ActionStarts
  <2> USE <1>1 DEF ActionStarts
  <2>1. TypeOK' /\ ControlInv'
    BY DEF TypeOK, PC, ControlInv, Posting
  <2>2. StateInv'
    BY DEF StateInv, Posting
  <2>3. RequestInv' /\ GateHolds'
    BY DEF RequestInv, Sent, GateHolds, TypeOK
  <2>4. QED
    BY <2>1, <2>2, <2>3
<1>2. CASE Post
  <2> USE <1>2 DEF Post
  <2>1. TypeOK' /\ ControlInv'
    BY DEF TypeOK, PC, ControlInv, Posting, Request
  <2>2. StateInv'
    BY DEF StateInv, Posting
  <2>3. st.category \in EndpointIntents /\ (st.category \in DestructiveIntents => approved)
    BY FieldType DEF TypeOK, StateInv, Posting, ActionCalls, ActionUnknown, ActionGated,
       ValidCategories
  <2>4. GateHolds'
    BY <2>3 DEF GateHolds
  <2>5. RequestInv'
    BY DEF RequestInv, Sent, TypeOK, StateInv, Attempts
  <2>6. QED
    BY <2>1, <2>2, <2>4, <2>5
<1>3. CASE BackoffElapses
  <2> USE <1>3 DEF BackoffElapses
  <2>1. TypeOK' /\ ControlInv'
    BY DEF TypeOK, PC, ControlInv, Posting
  <2>2. StateInv'
    BY DEF StateInv, Posting
  <2>3. RequestInv' /\ GateHolds'
    BY DEF RequestInv, Sent, GateHolds
  <2>4. QED
    BY <2>1, <2>2, <2>3
<1>4. QED
  BY <1>1, <1>2, <1>3

\* The service's steps change one request that had already been sent.
LEMMA ServeStep == ASSUME NEW k \in Attempts PROVE IInv /\ Serve(k) => IInv'
<1> SUFFICES ASSUME IInv, Serve(k) PROVE IInv'
  OBVIOUS
<1> USE DEF IInv, Serve, escalationVars
<1>1. \A j \in Attempts : req[j] = "unsent" <=> req'[j] = "unsent"
  BY DEF TypeOK
<1>2. TypeOK'
  BY DEF TypeOK, Request
<1>3. ControlInv' /\ StateInv'
  BY DEF ControlInv, StateInv, Posting, ShouldEscalate, EffectiveConfidence
<1>4. GateHolds'
  BY <1>1 DEF GateHolds
<1>5. RequestInv'
  BY <1>1 DEF RequestInv, Sent, TypeOK, Attempts
<1>6. QED
  BY <1>2, <1>3, <1>4, <1>5

\* The router and the escalation node touch no request.
LEMMA EscalationStep == IInv /\ (Route \/ SendNotice \/ EscalationReturns) => IInv'
<1> SUFFICES ASSUME IInv, Route \/ SendNotice \/ EscalationReturns PROVE IInv'
  OBVIOUS
<1> USE DEF IInv, service, escalationVars
<1>1. CASE Route
  <2> USE <1>1 DEF Route
  <2>1. TypeOK' /\ ControlInv'
    BY DEF TypeOK, PC, Verdict, ControlInv, Posting
  <2>2. StateInv'
    BY DEF StateInv, ControlInv, Posting, ShouldEscalate, EffectiveConfidence
  <2>3. RequestInv' /\ GateHolds'
    BY DEF RequestInv, Sent, GateHolds
  <2>4. QED
    BY <2>1, <2>2, <2>3
<1>2. CASE SendNotice
  <2> USE <1>2 DEF SendNotice
  <2>1. TypeOK' /\ ControlInv'
    BY DEF TypeOK, ControlInv, Posting
  <2>2. StateInv' /\ RequestInv' /\ GateHolds'
    BY DEF StateInv, Posting, RequestInv, Sent, GateHolds, ShouldEscalate, EffectiveConfidence
  <2>3. QED
    BY <2>1, <2>2
<1>3. CASE EscalationReturns /\ verdict = "running"
  <2>1. /\ pc = "escalation" /\ pc' = "end" /\ st' = Escalate(st) /\ nodes' = nodes + 1
        /\ verdict' = "completed"
        /\ UNCHANGED <<approved, attempt, req, noticeIx, notices>>
    BY <1>3 DEF EscalationReturns
  <2>2. st' \in TicketState /\ st'.category = st.category /\ st'.status = "escalated"
    BY <2>1, EscalateType DEF TypeOK
  <2>3. TypeOK' /\ ControlInv'
    BY <2>1, <2>2 DEF TypeOK, PC, Verdict, ControlInv, Posting
  <2>4. StateInv' /\ RequestInv' /\ GateHolds'
    BY <2>1, <2>2 DEF StateInv, Posting, RequestInv, Sent, GateHolds
  <2>5. QED
    BY <2>3, <2>4
<1>4. CASE EscalationReturns /\ verdict # "running"
  <2>1. /\ pc = "escalation" /\ pc' = "end"
        /\ UNCHANGED <<st, nodes, verdict, approved, attempt, req, noticeIx, notices>>
    BY <1>4 DEF EscalationReturns
  <2>2. TypeOK' /\ ControlInv'
    BY <1>4, <2>1 DEF TypeOK, PC, ControlInv, Posting
  <2>3. StateInv' /\ RequestInv' /\ GateHolds'
    BY <2>1 DEF StateInv, ControlInv, Posting, RequestInv, Sent, GateHolds
  <2>4. QED
    BY <2>2, <2>3
<1>5. QED
  BY <1>1, <1>2, <1>3, <1>4

\* A run that raises or is abandoned sends nothing more.
LEMMA AbandonStep == IInv /\ (NodeRaises \/ RunTimesOut) => IInv'
<1> SUFFICES ASSUME IInv, NodeRaises \/ RunTimesOut PROVE IInv'
  OBVIOUS
<1> USE DEF IInv, service, escalationVars, NodeRaises, RunTimesOut
<1>1. TypeOK' /\ ControlInv'
  BY DEF TypeOK, PC, Verdict, ControlInv, Posting
<1>2. StateInv' /\ RequestInv' /\ GateHolds'
  BY DEF StateInv, ControlInv, Posting, RequestInv, Sent, GateHolds
<1>3. QED
  BY <1>1, <1>2

\* Every step of a run preserves the invariant.
LEMMA NextInv == IInv /\ [Next]_vars => IInv'
<1> SUFFICES ASSUME IInv, [Next]_vars PROVE IInv'
  OBVIOUS
<1>1. CASE Next
  BY <1>1, IntakeStep, KnowledgeStep, EarlyStep, PostStep, ReplyStep, RetryStep,
     ServeStep, EscalationStep, AbandonStep DEF Next, NodeStep
<1>2. CASE UNCHANGED vars
  BY <1>2 DEF vars, service, escalationVars, IInv, TypeOK, ControlInv, StateInv, Posting,
     RequestInv, Sent, GateHolds, ShouldEscalate, EffectiveConfidence
<1>3. QED
  BY <1>1, <1>2

\* The inductive invariant holds throughout a run.
THEOREM Invariant == Spec => []IInv
  BY InitInv, NextInv, PTL DEF Spec

-----------------------------------------------------------------------------
(* The theorems                                                            *)

\* The ticket state and the run's bookkeeping keep their types.
THEOREM TypeCorrect == Spec => []TypeOK
  BY Invariant, PTL DEF IInv

\* No destructive request without approval, and none without an endpoint.
THEOREM GateIsSafe == Spec => []GateHolds
  BY Invariant, PTL DEF IInv

\* "resolved" is backed by an applied request and a trusted triage.
THEOREM ResolvedIsBacked == Spec => []ResolvedIsReal
<1>1. IInv => ResolvedIsReal
  <2> SUFFICES ASSUME IInv, verdict = "completed", st.status = "resolved"
               PROVE  /\ req[attempt] = "applied"
                      /\ \A k \in Attempts : k > attempt => req[k] = "unsent"
                      /\ st.category # "unknown" /\ EffectiveConfidence(st) >= Threshold
    BY DEF ResolvedIsReal
  <2>1. req[attempt] = "applied" /\ \A k \in Attempts : k > attempt => req[k] = "unsent"
    BY DEF IInv, RequestInv
  <2>2. ~ShouldEscalate(st)
    BY DEF IInv, StateInv
  <2>3. st.confidence \in 0..10 \cup {NoConfidence}
    BY DEF IInv, TypeOK, TicketState
  <2>4. QED
    BY <2>1, <2>2, <2>3 DEF ShouldEscalate, EffectiveConfidence, Threshold
<1>2. QED
  BY <1>1, Invariant, PTL

\* After the verdict no request leaves.
THEOREM VerdictStopsRequests == Spec => NoRequestAfterVerdict
<1>1. ASSUME IInv, [Next]_vars, verdict # "running", NEW k \in Attempts, req[k] = "unsent"
      PROVE  req'[k] = "unsent"
  <2>1. pc \in {"end", "escalation"}
    BY <1>1 DEF IInv, ControlInv
  <2>2. CASE \E j \in Attempts : Serve(j)
    BY <1>1, <2>2 DEF Serve, IInv, TypeOK
  <2>3. CASE ~\E j \in Attempts : Serve(j)
    <3>1. UNCHANGED req
      BY <1>1, <2>1, <2>3
         DEF Next, NodeStep, IntakeNode, KnowledgeNode, ActionReturnsEarly, ActionStarts,
             Post, PostSucceeds, PostFails, PostRetries, BackoffElapses, Route, SendNotice,
             EscalationReturns, NodeRaises, RunTimesOut, vars, service
    <3>2. QED
      BY <1>1, <3>1
  <2>4. QED
    BY <2>2, <2>3
<1>2. IInv /\ [Next]_vars =>
        [verdict # "running" =>
           \A k \in Attempts : req[k] = "unsent" => req'[k] = "unsent"]_vars
  BY <1>1
<1>3. QED
  BY <1>2, Invariant, PTL DEF Spec, NoRequestAfterVerdict

-----------------------------------------------------------------------------
(* A run implements RunPromise                                             *)

\* The promise speaks of the same intents.
LEMMA SameSets ==
  /\ Promise!DestructiveIntents = DestructiveIntents
  /\ Promise!EndpointIntents = EndpointIntents
  /\ Promise!ValidCategories = ValidCategories
  BY DEF Promise!DestructiveIntents, Promise!EndpointIntents, Promise!ValidCategories,
     DestructiveIntents, EndpointIntents, ValidCategories

\* A run starts where the promise does.
LEMMA PromiseInit == Init => Promise!Init
  BY InitialType DEF Init, Promise!Init, Outcome, Applied

\* The requests applied change only when the service serves one, the outcome
\* only when the run ends, the intent only at intake and where outputs do not
\* change the category.
LEMMA PromiseNext == IInv /\ IInv' /\ [Next]_vars => [Promise!Next]_(Promise!vars)
<1> SUFFICES ASSUME IInv, IInv', [Next]_vars PROVE [Promise!Next]_(Promise!vars)
  OBVIOUS
<1> USE DEF Promise!vars, Outcome, Applied, service, escalationVars
<1>t. st \in TicketState /\ st' \in TicketState
  BY DEF IInv, TypeOK
<1>1. CASE IntakeNode
  <2>1. PICK label \in Classifications, injected \in BOOLEAN, critical \in BOOLEAN :
          NodeReturns("knowledge", Intake(st, label, injected, critical))
    BY <1>1 DEF IntakeNode
  <2>2. st'.category \in ValidCategories
    BY <1>t, <2>1, IntakeType DEF NodeReturns
  <2>3. st.category = "none"
    BY <1>1, InitialType DEF IntakeNode, IInv, StateInv, TypeOK
  <2>4. verdict = "running" /\ UNCHANGED <<verdict, req, approved>>
    BY <1>1, <2>1 DEF NodeReturns, IntakeNode, IInv, ControlInv
  <2>5. Promise!Understand(st'.category)
    BY <2>3, <2>4 DEF Promise!Understand
  <2>6. QED
    BY <2>2, <2>5, SameSets DEF Promise!Next
<1>2. CASE KnowledgeNode \/ ActionReturnsEarly \/ ActionStarts \/ Post \/ PostSucceeds
           \/ PostFails \/ PostRetries \/ BackoffElapses \/ SendNotice
  <2>1. st'.category = st.category /\ verdict' = verdict
    BY <1>2, <1>t, KnowledgeType, ActionType, FailureType
       DEF KnowledgeNode, ActionReturnsEarly, ActionStarts, Post, PostSucceeds, PostFails,
           PostRetries, BackoffElapses, SendNotice, NodeReturns
  <2>2. \A k \in Attempts : req'[k] = "applied" <=> req[k] = "applied"
    BY <1>2
       DEF KnowledgeNode, ActionReturnsEarly, ActionStarts, Post, PostSucceeds, PostFails,
           PostRetries, BackoffElapses, SendNotice, NodeReturns, IInv, TypeOK, RequestInv
  <2>3. approved' = approved /\ (verdict = "completed" => st' = st)
    BY <1>2
       DEF KnowledgeNode, ActionReturnsEarly, ActionStarts, Post, PostSucceeds, PostFails,
           PostRetries, BackoffElapses, SendNotice, NodeReturns, IInv, ControlInv
  <2>4. QED
    BY <2>1, <2>2, <2>3
<1>3. ASSUME NEW k \in Attempts, Serve(k) PROVE [Promise!Next]_(Promise!vars)
  <2>1. UNCHANGED <<st, verdict, approved>>
    BY <1>3 DEF Serve
  <2>2. CASE req'[k] = "applied"
    <3>1. Applied' = Applied \cup {k}
      BY <1>3, <2>2 DEF Serve, IInv, TypeOK
    <3>2. Promise!MayAct
      BY <1>3, SameSets DEF Serve, IInv, GateHolds, Promise!MayAct
    <3>3. Promise!Effect(k)
      BY <2>1, <3>1, <3>2 DEF Promise!Effect
    <3>4. QED
      BY <3>3 DEF Promise!Next
  <2>3. CASE req'[k] # "applied"
    <3>1. Applied' = Applied
      BY <1>3, <2>3 DEF Serve, IInv, TypeOK
    <3>2. QED
      BY <2>1, <3>1
  <2>4. QED
    BY <2>2, <2>3
<1>4. CASE Route
  <2>1. CASE ShouldEscalate(st)
    BY <1>4, <2>1 DEF Route
  <2>2. CASE ~ShouldEscalate(st)
    <3>1. /\ verdict = "running" /\ verdict' = "completed" /\ st' = st
          /\ UNCHANGED <<approved, req>>
      BY <1>4, <2>2 DEF Route, IInv, ControlInv
    <3>2. st.category # "none" /\ st.status \in {"resolved", "escalated", "awaiting_confirmation"}
      BY <1>4 DEF Route, IInv, StateInv
    <3>3. st.status = "resolved" => Applied # {}
      BY DEF IInv, RequestInv, TypeOK
    <3>4. st.status = "awaiting_confirmation" => ~Promise!MayAct /\ Applied = {}
      BY SameSets DEF IInv, StateInv, RequestInv, Sent, Promise!MayAct
    <3>5. Promise!Close(st.status)
      BY <3>1, <3>2, <3>3, <3>4 DEF Promise!Close
    <3>6. QED
      BY <3>2, <3>5 DEF Promise!Next, Promise!Outcomes
  <2>3. QED
    BY <2>1, <2>2
<1>5. CASE EscalationReturns
  <2>1. CASE verdict = "running"
    <3>1. /\ verdict' = "completed" /\ st' = Escalate(st) /\ UNCHANGED <<approved, req>>
          /\ st.category # "none"
      BY <1>5, <2>1 DEF EscalationReturns, IInv, StateInv
    <3>2. st'.category = st.category /\ st'.status = "escalated"
      BY <1>t, <3>1, EscalateType
    <3>3. Promise!Close("escalated")
      BY <2>1, <3>1, <3>2 DEF Promise!Close
    <3>4. QED
      BY <3>3 DEF Promise!Next, Promise!Outcomes
  <2>2. CASE verdict # "running"
    BY <1>5, <2>2 DEF EscalationReturns
  <2>3. QED
    BY <2>1, <2>2
<1>6. CASE NodeRaises \/ RunTimesOut
  <2>1. verdict = "running" /\ verdict' \in {"raised", "timed_out"} /\ UNCHANGED <<st, approved, req>>
    BY <1>6 DEF NodeRaises, RunTimesOut, IInv, ControlInv
  <2>2. Promise!Close("abandoned")
    BY <2>1 DEF Promise!Close
  <2>3. QED
    BY <2>2 DEF Promise!Next, Promise!Outcomes
<1>7. CASE UNCHANGED vars
  BY <1>7 DEF vars
<1>8. QED
  BY <1>1, <1>2, <1>3, <1>4, <1>5, <1>6, <1>7 DEF Next, NodeStep

\* The graph run implements the promise: the detailed specification, with its
\* retries, late requests and abandoned runs, refines RunPromise.
THEOREM RunKeepsPromise == Spec => KeepsPromise
  BY PromiseInit, PromiseNext, Invariant, PTL DEF Spec, KeepsPromise, Promise!Spec

-----------------------------------------------------------------------------
(* What an escalated ticket tells the human who takes over                 *)

\* Nobody is told, and no group named, before the escalation node; it is entered
\* for a reason, and a request that left is that reason unless triage gave one.
HandoverInv ==
  /\ verdict # "completed" => st.assignee = "none"
  /\ pc \notin {"escalation", "end"} => noticeIx = 0 /\ notices = {}
  /\ pc = "escalation" => ShouldEscalate(st)
  /\ pc \in {"route", "escalation"} /\ st.status = "escalated" /\ Sent # {} =>
       st.error \in FailureTexts
  /\ EscalatedIsHandedOver
  /\ UncertainActionIsRecorded

\* A run starts with nobody told.
LEMMA HandoverInit == Init => HandoverInv
  BY DEF Init, HandoverInv, InitialState, Sent, EscalatedIsHandedOver,
     UncertainActionIsRecorded, UncertainAction

\* Steps before the router.
LEMMA HandoverBefore ==
  ASSUME IInv, HandoverInv, IInv',
         IntakeNode \/ KnowledgeNode \/ ActionReturnsEarly \/ ActionStarts \/ Post
         \/ PostSucceeds \/ PostFails \/ PostRetries \/ BackoffElapses
  PROVE  HandoverInv'
<1>1. /\ pc \in {"intake", "knowledge", "action"} \cup Posting /\ verdict = "running"
      /\ UNCHANGED <<verdict, noticeIx, notices>>
      /\ pc' \in {"knowledge", "action", "route"} \cup Posting
  BY DEF IntakeNode, KnowledgeNode, ActionReturnsEarly, ActionStarts, Post, PostSucceeds,
     PostFails, PostRetries, BackoffElapses, NodeReturns, escalationVars, Posting, IInv,
     ControlInv
<1>2. st'.assignee = st.assignee
  BY AssigneeField, ActionType, FailureType
     DEF IntakeNode, KnowledgeNode, ActionReturnsEarly, ActionStarts, Post, PostSucceeds,
         PostFails, PostRetries, BackoffElapses, NodeReturns, IInv, TypeOK
<1>3. pc' = "route" /\ st'.status = "escalated" /\ Sent' # {} => st'.error \in FailureTexts
  <2>1. CASE ActionReturnsEarly
    <3>1. Sent' = {}
      BY <2>1 DEF ActionReturnsEarly, service, IInv, RequestInv, Sent
    <3>2. QED
      BY <3>1
  <2>2. CASE PostFails \/ PostRetries
    BY <2>2, FailureType DEF PostFails, PostRetries, NodeReturns, IInv, TypeOK
  <2>3. CASE PostSucceeds
    BY <2>3, ActionType DEF PostSucceeds, NodeReturns, IInv, TypeOK
  <2>4. CASE IntakeNode \/ KnowledgeNode \/ ActionStarts \/ Post \/ BackoffElapses
    BY <2>4 DEF IntakeNode, KnowledgeNode, ActionStarts, Post, BackoffElapses, NodeReturns
  <2>5. QED
    BY <2>1, <2>2, <2>3, <2>4
<1>4. EscalatedIsHandedOver' /\ UncertainActionIsRecorded'
  BY <1>1 DEF EscalatedIsHandedOver, UncertainActionIsRecorded, UncertainAction
<1>5. QED
  BY <1>1, <1>2, <1>3, <1>4 DEF HandoverInv, Posting

\* A request that left is for a known category.
LEMMA SentIsKnown == IInv /\ Sent # {} => st.category # "unknown"
  BY DEF IInv, GateHolds, Sent, EndpointIntents, DestructiveIntents

\* The router: what it lets through is not escalated and has told nobody.
LEMMA HandoverRoute == IInv /\ HandoverInv /\ Route => HandoverInv'
<1> SUFFICES ASSUME IInv, HandoverInv, Route PROVE HandoverInv'
  OBVIOUS
<1>1. pc = "route" /\ verdict = "running" /\ UNCHANGED <<st, nodes, req, noticeIx, notices>>
  BY DEF Route, service, escalationVars, IInv, ControlInv
<1>2. CASE ShouldEscalate(st)
  BY <1>1, <1>2
     DEF Route, HandoverInv, EscalatedIsHandedOver, UncertainActionIsRecorded,
         UncertainAction, Sent,
         ShouldEscalate, EffectiveConfidence
<1>3. CASE ~ShouldEscalate(st)
  <2>1. pc' = "end" /\ verdict' = "completed"
    BY <1>3 DEF Route
  <2>2. st.status # "escalated"
    BY <1>3 DEF ShouldEscalate
  <2>3. EscalatedIsHandedOver' /\ UncertainActionIsRecorded'
    BY <1>1, <2>2
       DEF HandoverInv, EscalatedIsHandedOver, UncertainActionIsRecorded, UncertainAction
  <2>4. QED
    BY <2>1, <2>3 DEF HandoverInv
<1>4. QED
  BY <1>2, <1>3

\* The escalation node: a ticket it hands over has been through every notice, and
\* a failed call is what it reports when triage is not to blame.
LEMMA HandoverEscalation ==
  IInv /\ HandoverInv /\ (SendNotice \/ EscalationReturns) => HandoverInv'
<1> SUFFICES ASSUME IInv, HandoverInv, SendNotice \/ EscalationReturns PROVE HandoverInv'
  OBVIOUS
<1>1. CASE SendNotice
  <2>1. pc = "escalation" /\ UNCHANGED <<pc, verdict, st, nodes, req>> /\ verdict # "completed"
    BY <1>1 DEF SendNotice, service, IInv, ControlInv
  <2>2. QED
    BY <2>1
       DEF HandoverInv, EscalatedIsHandedOver, UncertainActionIsRecorded, UncertainAction, Sent,
           ShouldEscalate, EffectiveConfidence
<1>2. CASE EscalationReturns /\ verdict # "running"
  <2>1. pc' = "end" /\ UNCHANGED <<verdict, st, nodes, req, noticeIx, notices>>
        /\ verdict # "completed"
    BY <1>2 DEF EscalationReturns, service, escalationVars, IInv, ControlInv
  <2>2. QED
    BY <2>1 DEF HandoverInv, EscalatedIsHandedOver, UncertainActionIsRecorded, UncertainAction
<1>3. CASE EscalationReturns /\ verdict = "running"
  <2>1. /\ pc = "escalation" /\ noticeIx = 3 /\ pc' = "end" /\ verdict' = "completed"
        /\ st' = Escalate(st) /\ nodes' = nodes + 1 /\ nodes = 3
        /\ UNCHANGED <<req, noticeIx, notices>>
    BY <1>3 DEF EscalationReturns, service, escalationVars, IInv, ControlInv
  <2>2. st \in TicketState
    BY DEF IInv, TypeOK
  <2>3. /\ st'.status = "escalated" /\ st'.assignee = AssigneeFor(st.priority)
        /\ st'.priority = st.priority /\ st'.confidence = st.confidence
        /\ st'.error = st.error
        /\ st'.reason = EscalationReason(st)
    BY <2>1, <2>2, EscalateType, EscalateFields
  <2>4. EscalatedIsHandedOver'
    BY <2>1, <2>3 DEF EscalatedIsHandedOver
  <2>5. ASSUME EffectiveConfidence(st) >= Threshold, Sent # {}
        PROVE  /\ st.error \in FailureTexts
               /\ st.error = "text" => EscalationReason(st) = "action_error"
    <3>1. st.category # "unknown"
      BY <2>5, SentIsKnown
    <3>2. ~(EffectiveConfidence(st) < Threshold)
      BY <2>2, <2>5 DEF EffectiveConfidence, Threshold, TicketState, NoConfidence
    <3>3. st.status = "escalated"
      BY <2>1, <3>1, <3>2 DEF HandoverInv, ShouldEscalate
    <3>4. st.error \in FailureTexts
      BY <2>1, <2>5, <3>3 DEF HandoverInv
    <3>5. QED
      BY <2>2, <2>5, <3>1, <3>4, ReasonOfFailure
  <2>6. EffectiveConfidence(st') = EffectiveConfidence(st)
    BY <2>3 DEF EffectiveConfidence
  <2>7. UncertainActionIsRecorded'
    BY <2>1, <2>3, <2>5, <2>6 DEF UncertainActionIsRecorded, UncertainAction, Sent,
       EffectiveConfidence
  <2>8. QED
    BY <2>1, <2>4, <2>7 DEF HandoverInv
<1>4. QED
  BY <1>1, <1>2, <1>3

\* Every step keeps the handover.
LEMMA HandoverNext == IInv /\ IInv' /\ HandoverInv /\ [Next]_vars => HandoverInv'
<1> SUFFICES ASSUME IInv, IInv', HandoverInv, [Next]_vars PROVE HandoverInv'
  OBVIOUS
<1>1. CASE NodeRaises \/ RunTimesOut
  <2>1. /\ verdict = "running" /\ verdict' \in {"raised", "timed_out"}
        /\ pc' \in {pc, "end"} /\ (pc' = pc => pc = "escalation" \/ pc = "end")
        /\ UNCHANGED <<st, nodes, req, noticeIx, notices>>
    BY <1>1 DEF NodeRaises, RunTimesOut, service, escalationVars, IInv, ControlInv
  <2>2. QED
    BY <2>1
       DEF HandoverInv, EscalatedIsHandedOver, UncertainActionIsRecorded, UncertainAction, Sent,
           ShouldEscalate, EffectiveConfidence
<1>2. ASSUME NEW k \in Attempts, Serve(k) PROVE HandoverInv'
  <2>1. UNCHANGED <<pc, verdict, st, nodes, noticeIx, notices>>
    BY <1>2 DEF Serve, escalationVars
  <2>2. Sent' = Sent
    BY <1>2 DEF Serve, Sent, IInv, TypeOK
  <2>3. UncertainActionIsRecorded'
    BY <2>1, <2>2
       DEF HandoverInv, UncertainActionIsRecorded, UncertainAction, Sent, EffectiveConfidence
  <2>4. QED
    BY <2>1, <2>2, <2>3
       DEF HandoverInv, EscalatedIsHandedOver, ShouldEscalate, EffectiveConfidence
<1>3. CASE UNCHANGED vars
  BY <1>3
     DEF vars, service, escalationVars, HandoverInv, EscalatedIsHandedOver,
         UncertainActionIsRecorded, UncertainAction, Sent, ShouldEscalate, EffectiveConfidence
<1>4. QED
  BY <1>1, <1>2, <1>3, HandoverBefore, HandoverRoute, HandoverEscalation DEF Next, NodeStep

\* An escalated ticket has been handed over, and nobody is told of any other.
THEOREM EscalationHandsOver == Spec => []EscalatedIsHandedOver
<1>1. Spec => []HandoverInv
  BY HandoverInit, HandoverNext, Invariant, PTL DEF Spec
<1>2. QED
  BY <1>1, PTL DEF HandoverInv

\* When triage is trusted, an escalated run that acted records the failed call.
THEOREM FailureIsRecorded == Spec => []UncertainActionIsRecorded
<1>1. Spec => []HandoverInv
  BY HandoverInit, HandoverNext, Invariant, PTL DEF Spec
<1>2. QED
  BY <1>1, PTL DEF HandoverInv

-----------------------------------------------------------------------------
(* What the router's exception is worth                                    *)

\* graph.py's header promises that low confidence escalates, and the run of
\* LowConfidenceEscalates shows a ticket that does not.  This is the only one:
\* a completed run escapes the header's rule only when its confidence is 0.
THEOREM OnlyZeroEscapes == Spec => [](LowConfidenceEscalates \/ st.confidence = 0)
<1>1. IInv => LowConfidenceEscalates \/ st.confidence = 0
  <2> SUFFICES ASSUME IInv, verdict = "completed", st.status # "awaiting_confirmation",
                      st.confidence \in 0..(Threshold - 1), st.confidence # 0
               PROVE  st.status = "escalated"
    BY DEF LowConfidenceEscalates
  <2>1. st.status = "resolved" => ~ShouldEscalate(st)
    BY DEF IInv, StateInv
  <2>2. ShouldEscalate(st)
    BY DEF ShouldEscalate, EffectiveConfidence, NoConfidence, Threshold
  <2>3. QED
    BY <2>1, <2>2 DEF IInv, StateInv
<1>2. QED
  BY <1>1, Invariant, PTL

-----------------------------------------------------------------------------
(* A run comes to an end                                                   *)
(*                                                                         *)
(* RunEnds needs three things.  A run that has not ended has a step due;   *)
(* a step of a node brings the end nearer, by a distance that is bounded   *)
(* and that nothing increases; and the event loop takes the step.  The     *)
(* first two are proved here, the third is the fairness of FairSpec.       *)

\* How far the position is from the end, the loops over attempts and notices aside.
Stage ==
  CASE pc = "intake"     -> 8
    [] pc = "knowledge"  -> 7
    [] pc = "action"     -> 6
    [] pc = "backoff"    -> 5
    [] pc = "post"       -> 4
    [] pc = "waiting"    -> 3
    [] pc = "route"      -> 2
    [] pc = "escalation" -> 1
    [] OTHER             -> 0

\* An attempt more costs the three steps from backoff to the next reply.
Left == Stage + 3 * (MaxAttempts - attempt) + (3 - noticeIx)

\* The guards of NodeStep, position by position: the two that depend on more
\* than the position are the reply, which takes a request that was sent, and
\* the notices, of which there are three.
StepDue ==
  \/ pc \in {"intake", "knowledge", "post", "backoff", "route"}
  \/ pc = "action" /\ (ActionUnknown(st) \/ ActionGated(st) \/ ActionCalls(st))
  \/ pc = "waiting" /\ req[attempt] \in {"in_flight", "applied", "rejected", "lost"}
  \/ pc = "escalation" /\ noticeIx <= 3

\* A node waits for the reply to a request that left.
WaitsForReply == pc = "waiting" => req[attempt] # "unsent"

\* Only the post leads to the wait, and no request is taken back.
LEMMA WaitStep == IInv /\ WaitsForReply /\ [Next]_vars => WaitsForReply'
<1> SUFFICES ASSUME IInv, WaitsForReply, [Next]_vars PROVE WaitsForReply'
  OBVIOUS
<1>1. CASE Post
  BY <1>1 DEF Post, WaitsForReply, IInv, TypeOK
<1>2. ASSUME NEW k \in Attempts, Serve(k) PROVE WaitsForReply'
  BY <1>2 DEF Serve, WaitsForReply, IInv, TypeOK
<1>3. CASE PostRetries
  BY <1>3 DEF PostRetries, NodeReturns, WaitsForReply
<1>4. CASE IntakeNode \/ KnowledgeNode \/ ActionReturnsEarly \/ ActionStarts \/ PostSucceeds
           \/ PostFails \/ BackoffElapses \/ Route \/ SendNotice \/ EscalationReturns
  BY <1>4
     DEF IntakeNode, KnowledgeNode, ActionReturnsEarly, ActionStarts, PostSucceeds, PostFails,
         BackoffElapses, Route, SendNotice, EscalationReturns, NodeReturns, WaitsForReply
<1>5. CASE NodeRaises \/ RunTimesOut \/ UNCHANGED vars
  BY <1>5 DEF NodeRaises, RunTimesOut, vars, service, WaitsForReply
<1>6. QED
  BY <1>1, <1>2, <1>3, <1>4, <1>5 DEF Next, NodeStep

\* A run that has not ended has a step due: nobody waits for a reply to a
\* request that never left, and no position is a dead end.
THEOREM UnfinishedHasStep == Spec => [](pc # "end" => StepDue)
<1>1. Init => WaitsForReply
  BY DEF Init, WaitsForReply
<1>2. Spec => []WaitsForReply
  BY <1>1, WaitStep, Invariant, PTL DEF Spec
<1>3. IInv /\ WaitsForReply => (pc # "end" => StepDue)
  <2> SUFFICES ASSUME IInv, WaitsForReply, pc # "end" PROVE StepDue
    OBVIOUS
  <2>1. CASE pc = "waiting"
    BY <2>1 DEF WaitsForReply, StepDue, IInv, TypeOK, Request
  <2>2. CASE pc = "escalation"
    BY <2>2 DEF StepDue, IInv, TypeOK
  <2>3. CASE pc = "action"
    BY <2>3 DEF StepDue, ActionCalls
  <2>4. CASE pc \in {"intake", "knowledge", "post", "backoff", "route"}
    BY <2>4 DEF StepDue
  <2>5. QED
    BY <2>1, <2>2, <2>3, <2>4 DEF IInv, TypeOK, PC
<1>4. QED
  BY <1>2, <1>3, Invariant, PTL

\* The distance is a number, and no run starts further away than this.
LeftBounded == Left \in 0..(8 + 3 * MaxAttempts)

\* The positions, attempts and notices bound it.
LEMMA LeftType == IInv => LeftBounded
<1> SUFFICES ASSUME IInv PROVE LeftBounded
  OBVIOUS
<1>1. attempt \in 1..MaxAttempts /\ noticeIx \in 0..3 /\ MaxAttempts \in Nat \ {0}
  BY MaxAttemptsAssumption DEF IInv, TypeOK, Attempts
<1>2. Stage \in 0..8
  BY DEF Stage, IInv, TypeOK, PC
<1>3. QED
  BY <1>1, <1>2 DEF Left, LeftBounded

\* A node's step shortens the distance.
LEMMA NodeStepShortens == IInv /\ NodeStep => Left' < Left
<1> SUFFICES ASSUME IInv, NodeStep PROVE Left' < Left
  OBVIOUS
<1>1. attempt \in 1..MaxAttempts /\ noticeIx \in 0..3 /\ MaxAttempts \in Nat \ {0}
  BY MaxAttemptsAssumption DEF IInv, TypeOK, Attempts
<1>2. CASE IntakeNode \/ KnowledgeNode \/ ActionReturnsEarly \/ ActionStarts
  <2>1. UNCHANGED <<attempt, noticeIx>>
    BY <1>2 DEF IntakeNode, KnowledgeNode, ActionReturnsEarly, ActionStarts, service,
       escalationVars
  <2>2. \/ pc = "intake" /\ pc' = "knowledge"
        \/ pc = "knowledge" /\ pc' = "action"
        \/ pc = "action" /\ pc' \in {"route", "post"}
    BY <1>2 DEF IntakeNode, KnowledgeNode, ActionReturnsEarly, ActionStarts, NodeReturns
  <2>3. QED
    BY <1>1, <2>1, <2>2 DEF Left, Stage
<1>3. CASE Post \/ PostSucceeds \/ PostFails \/ BackoffElapses
  <2>1. UNCHANGED <<attempt, noticeIx>>
    BY <1>3 DEF Post, PostSucceeds, PostFails, BackoffElapses, service, escalationVars
  <2>2. \/ pc = "post" /\ pc' = "waiting"
        \/ pc = "waiting" /\ pc' = "route"
        \/ pc = "backoff" /\ pc' = "post"
    BY <1>3 DEF Post, PostSucceeds, PostFails, BackoffElapses, NodeReturns
  <2>3. QED
    BY <1>1, <2>1, <2>2 DEF Left, Stage
<1>4. CASE PostRetries
  <2>1. pc = "waiting" /\ noticeIx' = noticeIx
    BY <1>4 DEF PostRetries, escalationVars
  <2>2. \/ pc' = "backoff" /\ attempt' = attempt + 1
        \/ pc' = "route" /\ attempt' = attempt
    BY <1>4 DEF PostRetries, NodeReturns
  <2>3. QED
    BY <1>1, <2>1, <2>2 DEF Left, Stage
<1>5. CASE Route \/ EscalationReturns
  <2>1. UNCHANGED <<attempt, noticeIx>>
    BY <1>5 DEF Route, EscalationReturns, service, escalationVars
  <2>2. \/ pc = "route" /\ pc' \in {"escalation", "end"}
        \/ pc = "escalation" /\ pc' = "end"
    BY <1>5 DEF Route, EscalationReturns
  <2>3. QED
    BY <1>1, <2>1, <2>2 DEF Left, Stage
<1>6. CASE SendNotice
  BY <1>1, <1>6 DEF SendNotice, service, Left, Stage
<1>7. QED
  BY <1>2, <1>3, <1>4, <1>5, <1>6 DEF NodeStep

\* The rest of the world never lengthens it: not a late request, not a timeout.
LEMMA OthersDoNotLengthen ==
  ASSUME IInv, NodeRaises \/ RunTimesOut \/ (\E k \in Attempts : Serve(k)) \/ UNCHANGED vars
  PROVE  Left' <= Left
<1>1. /\ attempt \in 1..MaxAttempts /\ noticeIx \in 0..3 /\ MaxAttempts \in Nat \ {0}
      /\ pc \in PC
  BY MaxAttemptsAssumption DEF IInv, TypeOK, Attempts
<1>2. UNCHANGED <<attempt, noticeIx>> /\ pc' \in {pc, "end"}
  BY DEF NodeRaises, RunTimesOut, Serve, vars, service, escalationVars
<1>3. QED
  BY <1>1, <1>2 DEF Left, Stage, PC

\* Every step of a node brings the end of the run nearer and nothing puts it off,
\* over a distance bounded by the retry count: a run takes at most
\* 8 + 3 * MaxAttempts node steps, however the requests, the timeout and the
\* abandoned escalation thread interleave.
THEOREM RunGetsOn ==
  Spec => /\ []LeftBounded
          /\ [][(NodeStep => Left' < Left) /\ Left' <= Left]_vars
<1>1. IInv /\ [Next]_vars => [(NodeStep => Left' < Left) /\ Left' <= Left]_vars
  <2> SUFFICES ASSUME IInv, [Next]_vars
               PROVE  [(NodeStep => Left' < Left) /\ Left' <= Left]_vars
    OBVIOUS
  <2>1. CASE UNCHANGED vars
    BY <2>1
  <2>2. CASE NodeStep
    <3>1. Left' < Left
      BY <2>2, NodeStepShortens
    <3>2. Left \in Int /\ Left' \in Int
      <4>1. IInv'
        BY NextInv
      <4>2. LeftBounded /\ LeftBounded'
        BY <4>1, LeftType, PTL
      <4>3. QED
        BY <4>2, MaxAttemptsAssumption DEF LeftBounded
    <3>3. QED
      BY <3>1, <3>2
  <2>3. CASE ~NodeStep /\ Next
    BY <2>3, OthersDoNotLengthen DEF Next
  <2>4. QED
    BY <2>1, <2>2, <2>3
<1>2. QED
  BY <1>1, LeftType, Invariant, PTL DEF Spec
=============================================================================
