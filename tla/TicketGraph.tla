----------------------------- MODULE TicketGraph -----------------------------
(***************************************************************************)
(* One run of the agent graph over one ticket: intake, knowledge, action,  *)
(* the router, escalation (agents/graph.py), with the enterprise API       *)
(* request of the action node attempt by attempt (_post_enterprise) and    *)
(* the wait_for that the WebSocket handler puts around the run             *)
(* (api/main.py).                                                          *)
(*                                                                         *)
(* A request is a message: the service may apply it while the node waits,  *)
(* after the node has given up on the attempt and sent another, or after   *)
(* the whole run was abandoned.  The escalation node is synchronous and    *)
(* runs in an executor thread, which a timeout does not stop: its notices  *)
(* may go out after the run was abandoned.                                 *)
(***************************************************************************)
EXTENDS AgentNodes, FiniteSets

CONSTANTS
  MaxAttempts,   \* 1 + len(_RETRY_DELAYS)
  Configured     \* the notice channels this ticket has an address for

Channels == <<"support_email", "user_email", "slack">>
Attempts == 1..MaxAttempts

ASSUME MaxAttemptsAssumption == MaxAttempts \in Nat \ {0}
ASSUME ConfiguredAssumption == Configured \subseteq {Channels[i] : i \in 1..3}

VARIABLES
  pc,        \* where the run is
  verdict,   \* what the caller of the graph has been told
  st,        \* the ticket state, as the last completed node left it
  nodes,     \* the number of node outputs streamed to the caller
  approved,  \* did the caller set action_confirmed (only confirm_action does)
  attempt,   \* the current attempt of _post_enterprise
  req,       \* each attempt's request, as the enterprise service sees it
  noticeIx,  \* the notices the escalation node has been through
  notices    \* the notices delivered

service == <<approved, attempt, req>>
escalationVars == <<noticeIx, notices>>
vars == <<pc, verdict, st, nodes, service, escalationVars>>

PC == {"intake", "knowledge", "action", "post", "waiting", "backoff", "route",
       "escalation", "end"}
Verdict == {"running", "completed", "raised", "timed_out"}
Request == {"unsent", "in_flight", "applied", "rejected", "lost"}

TypeOK ==
  /\ pc \in PC
  /\ verdict \in Verdict
  /\ st \in TicketState
  /\ nodes \in 0..4
  /\ approved \in BOOLEAN
  /\ attempt \in Attempts
  /\ req \in [Attempts -> Request]
  /\ noticeIx \in 0..3
  /\ notices \subseteq Configured

\* The effects of this run on the enterprise systems.
Applied == {k \in Attempts : req[k] = "applied"}

Init ==
  /\ pc = "intake"
  /\ verdict = "running"
  /\ approved \in BOOLEAN
  /\ st = InitialState(approved)
  /\ nodes = 0
  /\ attempt = 1
  /\ req = [k \in Attempts |-> "unsent"]
  /\ noticeIx = 0
  /\ notices = {}

-----------------------------------------------------------------------------
(* The nodes before the API call                                           *)

\* A node returns: the caller receives its output.
NodeReturns(next, result) ==
  /\ pc' = next
  /\ st' = result
  /\ nodes' = nodes + 1
  /\ UNCHANGED verdict

IntakeNode ==
  /\ pc = "intake"
  /\ \E label \in Classifications, injected, critical \in BOOLEAN :
       NodeReturns("knowledge", Intake(st, label, injected, critical))
  /\ UNCHANGED <<service, escalationVars>>

KnowledgeNode ==
  /\ pc = "knowledge"
  /\ \E retrieval \in Retrievals :
       NodeReturns("action", Knowledge(st, retrieval))
  /\ UNCHANGED <<service, escalationVars>>

\* The two early returns of action_node.
ActionReturnsEarly ==
  /\ pc = "action"
  /\ \/ ActionUnknown(st) /\ NodeReturns("route", EscalateUnknown(st))
     \/ ActionGated(st) /\ NodeReturns("route", AwaitConfirmation(st))
  /\ UNCHANGED <<service, escalationVars>>

\* Past the gate the resolution is formatted and the request goes out.
ActionStarts ==
  /\ pc = "action"
  /\ ActionCalls(st)
  /\ pc' = "post"
  /\ UNCHANGED <<verdict, st, nodes, service, escalationVars>>

\* An exception that no node catches ends the run: the classifier's in intake_node,
\* the retriever's in knowledge_node, str.format's on a model-written template in
\* action_node.
NodeRaises ==
  /\ \/ pc \in {"intake", "knowledge"}
     \/ pc = "action" /\ ActionCalls(st) /\ st.template
  /\ pc' = "end"
  /\ verdict' = "raised"
  /\ UNCHANGED <<st, nodes, service, escalationVars>>

-----------------------------------------------------------------------------
(* _post_enterprise, and the service at the other end                      *)

Post ==
  /\ pc = "post"
  /\ req' = [req EXCEPT ![attempt] = "in_flight"]
  /\ pc' = "waiting"
  /\ UNCHANGED <<verdict, st, nodes, approved, attempt, escalationVars>>

\* The service gets to a request, however late, or never does.
Serve(k) ==
  /\ req[k] = "in_flight"
  /\ \E fate \in {"applied", "rejected", "lost"} :
       req' = [req EXCEPT ![k] = fate]
  /\ UNCHANGED <<pc, verdict, st, nodes, approved, attempt, escalationVars>>

\* Mutant: raise_for_status is not called.
PostSucceeds_AnyReply ==
  /\ pc = "waiting"
  /\ req[attempt] \in {"applied", "rejected", "lost"}
  /\ NodeReturns("route", ActionDone(st))
  /\ UNCHANGED <<service, escalationVars>>

\* A 2xx reply with a JSON body.
PostSucceeds ==
  /\ pc = "waiting"
  /\ req[attempt] = "applied"
  /\ NodeReturns("route", ActionDone(st))
  /\ UNCHANGED <<service, escalationVars>>

\* Not retried: a 4xx reply, and any error that is neither a timeout nor a
\* failure to connect (a connection cut before the reply or while it is read, with
\* the service perhaps still at work; a body that is not JSON).  A status error
\* always has a text.
PostFails ==
  /\ pc = "waiting"
  /\ \E text \in FailureTexts :
       /\ req[attempt] = "rejected" => text = "text"
       /\ NodeReturns("route", ActionFailed(st, text))
  /\ UNCHANGED <<service, escalationVars>>

\* Mutants of _post_enterprise: one attempt too many; the counter never advances;
\* the last error is not raised.
PostRetries_OneTooMany ==
  /\ pc = "waiting" /\ req[attempt] \in {"in_flight", "applied", "lost"}
  /\ attempt' = attempt + 1 /\ pc' = "backoff"
  /\ UNCHANGED <<verdict, st, nodes, approved, req, escalationVars>>

PostRetries_SameAttempt ==
  /\ pc = "waiting" /\ req[attempt] \in {"in_flight", "applied", "lost"}
  /\ pc' = "backoff"
  /\ UNCHANGED <<verdict, st, nodes, service, escalationVars>>

PostRetries_Swallowed ==
  /\ pc = "waiting" /\ req[attempt] \in {"in_flight", "applied", "lost"}
  /\ NodeReturns("route", ActionDone(st))
  /\ UNCHANGED <<service, escalationVars>>

\* Retried: a 5xx reply, a timeout (the request may still be in flight) or a
\* refused connection.  After the last attempt the last error is raised.
PostRetries ==
  /\ pc = "waiting"
  /\ req[attempt] \in {"in_flight", "applied", "lost"}
  /\ IF attempt < MaxAttempts
     THEN /\ attempt' = attempt + 1
          /\ pc' = "backoff"
          /\ UNCHANGED <<verdict, st, nodes>>
     ELSE /\ \E text \in FailureTexts : NodeReturns("route", ActionFailed(st, text))
          /\ UNCHANGED attempt
  /\ UNCHANGED <<approved, req, escalationVars>>

BackoffElapses ==
  /\ pc = "backoff"
  /\ pc' = "post"
  /\ UNCHANGED <<verdict, st, nodes, service, escalationVars>>

-----------------------------------------------------------------------------
(* The router and the escalation node                                      *)

Route ==
  /\ pc = "route"
  /\ IF ShouldEscalate(st)
     THEN pc' = "escalation" /\ UNCHANGED verdict
     ELSE pc' = "end" /\ verdict' = "completed"
  /\ UNCHANGED <<st, nodes, service, escalationVars>>

\* The notices go out one after the other; a failed one is logged and skipped.
\* No condition on the verdict: a timeout does not stop the thread.
SendNotice ==
  /\ pc = "escalation" /\ noticeIx < 3
  /\ noticeIx' = noticeIx + 1
  /\ \/ notices' = notices \cup ({Channels[noticeIx + 1]} \cap Configured)
     \/ UNCHANGED notices
  /\ UNCHANGED <<pc, verdict, st, nodes, service>>

\* The node's result reaches the caller only if it still waits for it.
EscalationReturns ==
  /\ pc = "escalation" /\ noticeIx = 3
  /\ pc' = "end"
  /\ IF verdict = "running"
     THEN st' = Escalate(st) /\ nodes' = nodes + 1 /\ verdict' = "completed"
     ELSE UNCHANGED <<st, nodes, verdict>>
  /\ UNCHANGED <<service, escalationVars>>

\* Mutant: the action's awaits are shielded from the cancellation.
RunTimesOut_Shielded ==
  /\ verdict = "running"
  /\ verdict' = "timed_out"
  /\ UNCHANGED <<pc, st, nodes, service, escalationVars>>

\* asyncio.wait_for cancels the run.  An await (a post, a reply, a backoff) is
\* interrupted; a synchronous node runs on in its thread, with an effect only
\* in the escalation node.
RunTimesOut ==
  /\ verdict = "running"
  /\ verdict' = "timed_out"
  /\ pc' = IF pc = "escalation" THEN pc ELSE "end"
  /\ UNCHANGED <<st, nodes, service, escalationVars>>

-----------------------------------------------------------------------------
NodeStep ==
  \/ IntakeNode \/ KnowledgeNode \/ ActionReturnsEarly \/ ActionStarts
  \/ Post \/ PostSucceeds \/ PostFails \/ PostRetries \/ BackoffElapses
  \/ Route \/ SendNotice \/ EscalationReturns

Next == NodeStep \/ NodeRaises \/ RunTimesOut \/ \E k \in Attempts : Serve(k)

Spec == Init /\ [][Next]_vars

\* The event loop and the executor keep running the nodes; every call a node
\* makes has a client timeout of its own.
FairSpec == Spec /\ WF_vars(NodeStep)

-----------------------------------------------------------------------------
(* Properties                                                              *)

\* The gate of action_node holds across retries, late requests and abandoned
\* runs: no request leaves for an intent without an endpoint, and none for a
\* destructive intent that the user did not approve before this run.
GateHolds ==
  \A k \in Attempts : req[k] # "unsent" =>
    /\ st.category \in EndpointIntents
    /\ st.category \in DestructiveIntents => approved

\* A run that reports "resolved" has its last request applied, sent nothing
\* after it, and was trusted by the router: action_node's answer survives only
\* with a known category and a confidence of 0.6 or more (or none).
ResolvedIsReal ==
  verdict = "completed" /\ st.status = "resolved" =>
    /\ req[attempt] = "applied"
    /\ \A k \in Attempts : k > attempt => req[k] = "unsent"
    /\ st.category # "unknown" /\ EffectiveConfidence(st) >= Threshold

\* An "escalated" ticket has been handed over: whichever way it got that status
\* (unknown intent, failed API call, low confidence after a successful one), the
\* escalation node has run over it, tried every notice and named the group of
\* its priority, and a ticket that is not escalated has told nobody it is.
EscalatedIsHandedOver ==
  verdict = "completed" =>
    IF st.status = "escalated"
    THEN noticeIx = 3 /\ st.assignee = AssigneeFor(st.priority) /\ nodes = 4
    ELSE noticeIx = 0 /\ st.assignee = "none" /\ notices = {}

\* The run acted, its triage was trusted, and it ends in escalation all the same:
\* the enterprise systems may have been touched.
UncertainAction ==
  /\ verdict = "completed" /\ st.status = "escalated"
  /\ EffectiveConfidence(st) >= Threshold
  /\ \E k \in Attempts : req[k] # "unsent"

\* An uncertain action is recorded as a failed call, and the reason a human who
\* takes over reads says so, unless the failure had no text.
UncertainActionIsRecorded ==
  UncertainAction =>
    /\ st.error \in FailureTexts
    /\ st.error = "text" => st.reason = "action_error"

\* Once the caller has its answer, or has given up, no new request is sent.
\* (One already in flight may still be served: see Serve.)
NoRequestAfterVerdict ==
  [][verdict # "running" =>
       \A k \in Attempts : req[k] = "unsent" => req'[k] = "unsent"]_vars

\* A run ends, with or without the caller's timeout: the retries run out and
\* the escalation node's notices too.
RunEnds == <>(pc = "end")

\* The run keeps the promise of RunPromise.
Outcome ==
  CASE verdict = "running"   -> "open"
    [] verdict = "completed" -> st.status
    [] OTHER                 -> "abandoned"

Promise == INSTANCE RunPromise WITH
  EffectIds <- Attempts, intent <- st.category, outcome <- Outcome,
  effects <- Applied

KeepsPromise == Promise!Spec

-----------------------------------------------------------------------------
(* What the documentation says and the code does not do                    *)

\* agents/graph.py's header: the router escalates when confidence < 0.6.
\* (A ticket that waits for a confirmation has not been routed yet.)
LowConfidenceEscalates ==
  /\ verdict = "completed" /\ st.status # "awaiting_confirmation"
  /\ st.confidence \in 0..(Threshold - 1)
  => st.status = "escalated"
=============================================================================
