--------------------------- MODULE TicketLifecycle ---------------------------
(***************************************************************************)
(* One row of the tickets table and everything that writes it: the         *)
(* WebSocket handler that runs the agent graph, confirm and cancel, the    *)
(* admin's PATCH, and the stale-ticket recovery loop (api/main.py,         *)
(* api/admin.py).                                                          *)
(*                                                                         *)
(* No handler locks the row.  Each loads it once, decides on that copy,    *)
(* and at commit SQLAlchemy issues UPDATE ... WHERE id = ... with the      *)
(* columns whose value differs from the copy it loaded: the others keep    *)
(* whatever is in the database by then.  Handlers interleave between load  *)
(* and commit: the endpoints are threads of a pool, the WebSocket handlers *)
(* await their graph for seconds, and several workers may serve the same   *)
(* database.  Rows do not interact, so one is enough.                      *)
(*                                                                         *)
(* A graph run is stepped node by node with the operators of AgentNodes;   *)
(* what TicketGraph does between post and reply is one step here, by the   *)
(* promise that TicketGraph is shown to keep.                              *)
(***************************************************************************)
EXTENDS AgentNodes, FiniteSets

CONSTANTS
  Conns,      \* WebSocket connections to /ws/{ticket_id}, each served once
  Confirms,   \* POST /tickets/{id}/confirm-action requests
  Cancels,    \* POST /tickets/{id}/cancel requests
  Patches,    \* PATCH /admin/tickets/{id} requests
  Critical,   \* outcomes of the critical-keyword test in this instance
  Texts,      \* texts of a failed call's exception in this instance
  MaxCrashes, \* bound on server crashes
  SyncInvoke  \* what graph.invoke(), which confirm calls, does on reaching a node
              \* that is only a coroutine function, as action_node is: LangGraph
              \* "raises" a TypeError.  "runs" is what the caller counts on; the
              \* results hold for either, so that the fix is covered too.

Runners == Conns \cup Confirms
Handlers == Runners \cup Cancels \cup Patches

ASSUME CriticalAssumption == Critical \subseteq BOOLEAN
ASSUME TextsAssumption == Texts \subseteq FailureTexts
ASSUME MaxCrashesAssumption == MaxCrashes \in Nat
ASSUME SyncInvokeAssumption == SyncInvoke \subseteq {"runs", "raises"}
ASSUME HandlersAssumption ==
  /\ Conns \cap Confirms = {}
  /\ Runners \cap (Cancels \cup Patches) = {}
  /\ Cancels \cap Patches = {}

VARIABLES
  row,       \* the row in the database
  old,       \* is created_at further back than the recovery cutoff
  pc,        \* where each handler is
  snap,      \* the copy of the row each handler loaded
  st,        \* the ticket state of each handler's graph run
  effects,   \* the effects on the enterprise systems, with the run that had them
  cut,       \* the runs that were cut short and persisted all the same
  told,      \* has the owner been mailed that the ticket is resolved
  recovery,  \* the recovery loop: "asleep", or its copy of the row
  crashes

vars == <<row, old, pc, snap, st, effects, told, cut, recovery, crashes>>

RowStatus == {"pending", "retrieving", "acting", "resolved", "escalated",
              "awaiting_confirmation", "failed"}

\* The columns the handlers disagree about.  category, intent, confidence,
\* priority, assignee_group and trace_url are written with these, the same way.
Row == [status     : RowStatus,
        resolution : {"none", "draft", "sent", "stock", "note"},
        reason     : NodeReason \cup {"timed_out", "recovered", "cancelled"},
        resolver   : BOOLEAN]               \* is resolved_by set

NoRow == [status |-> "absent", resolution |-> "none", reason |-> "none",
          resolver |-> FALSE]

NewRow == [NoRow EXCEPT !.status = "pending"]

Idle == InitialState(FALSE)

PC == {"off", "auth", "intake", "knowledge", "action", "escalation",
       "persist", "saved", "loaded", "closed", "error", "uncallable"}

TypeOK ==
  /\ row \in Row \cup {NoRow}
  /\ old \in BOOLEAN
  /\ pc \in [Handlers -> PC]
  /\ snap \in [Handlers -> Row \cup {NoRow}]
  /\ st \in [Runners -> TicketState]
  /\ effects \subseteq Runners \X EndpointIntents
  /\ told \in BOOLEAN
  /\ cut \subseteq Conns
  /\ recovery \in Row \cup {NoRow}
  /\ crashes \in 0..MaxCrashes

Init ==
  /\ row = NoRow
  /\ old = FALSE
  /\ pc = [h \in Handlers |-> "off"]
  /\ snap = [h \in Handlers |-> NoRow]
  /\ st = [h \in Runners |-> Idle]
  /\ effects = {}
  /\ told = FALSE
  /\ cut = {}
  /\ recovery = NoRow
  /\ crashes = 0

-----------------------------------------------------------------------------
(* Rows and handlers                                                       *)

Goto(h, where) == pc' = [pc EXCEPT ![h] = where]

\* The handler returns; its session and its graph state go with it.  What a
\* confirmation was decided on is remembered for DestructiveOnlyConfirmed.
Ends(h, where) ==
  /\ Goto(h, where)
  /\ snap' = IF h \in Confirms THEN snap ELSE [snap EXCEPT ![h] = NoRow]
  /\ st' = IF h \in Runners THEN [st EXCEPT ![h] = Idle] ELSE st

\* UPDATE with the columns that differ from the copy the session loaded.
Merge(new, copy) ==
  [c \in DOMAIN row |-> IF new[c] # copy[c] THEN new[c] ELSE row[c]]

\* db.get / db.query: the session keeps this copy until it commits.
Load(h) == row # NoRow /\ snap' = [snap EXCEPT ![h] = row]

\* create_ticket
CreateTicket ==
  /\ row = NoRow
  /\ row' = NewRow
  /\ UNCHANGED <<old, pc, snap, st, effects, told, cut, recovery, crashes>>

\* created_at passes the recovery cutoff, and stays behind it for good.
TimePasses ==
  /\ row # NoRow /\ ~old
  /\ old' = TRUE
  /\ UNCHANGED <<row, pc, snap, st, effects, told, cut, recovery, crashes>>

-----------------------------------------------------------------------------
(* websocket_ticket                                                        *)

\* The row is loaded once, before the first message is read.
Connect(h) ==
  /\ h \in Conns /\ pc[h] = "off"
  /\ Load(h)
  /\ Goto(h, "auth")
  /\ UNCHANGED <<row, old, st, effects, told, cut, recovery, crashes>>

\* The token is valid and the caller owns the ticket; or not, or too late.
Authenticate(h) ==
  /\ h \in Conns /\ pc[h] = "auth"
  /\ \/ Goto(h, "intake") /\ st' = [st EXCEPT ![h] = InitialState(FALSE)]
        /\ UNCHANGED snap
     \/ Ends(h, "closed")
  /\ UNCHANGED <<row, old, effects, told, cut, recovery, crashes>>

NodeReturns(h, result, next) ==
  /\ st' = [st EXCEPT ![h] = result]
  /\ Goto(h, next)

IntakeNode(h) ==
  /\ h \in Runners /\ pc[h] = "intake"
  /\ \E label \in Classifications, injected \in BOOLEAN, critical \in Critical :
       NodeReturns(h, Intake(st[h], label, injected, critical), "knowledge")
  /\ UNCHANGED <<row, old, snap, effects, told, cut, recovery, crashes>>

KnowledgeNode(h) ==
  /\ h \in Runners /\ pc[h] = "knowledge"
  /\ \E retrieval \in Retrievals :
       NodeReturns(h, Knowledge(st[h], retrieval), "action")
  /\ UNCHANGED <<row, old, snap, effects, told, cut, recovery, crashes>>

\* Can the handler's graph call enter action_node, a coroutine function?
Enters(h) == h \in Conns \/ "runs" \in SyncInvoke

AfterAction(result) == IF ShouldEscalate(result) THEN "escalation" ELSE "persist"

ActionReturnsEarly(h) ==
  /\ h \in Runners /\ pc[h] = "action" /\ Enters(h)
  /\ \E result \in {EscalateUnknown(st[h]), AwaitConfirmation(st[h])} :
       /\ result = EscalateUnknown(st[h]) => ActionUnknown(st[h])
       /\ result = AwaitConfirmation(st[h]) => ActionGated(st[h])
       /\ NodeReturns(h, result, AfterAction(result))
  /\ UNCHANGED <<row, old, snap, effects, told, cut, recovery, crashes>>

\* The call succeeds with its effect, or fails with or without one.
ActionCallsApi(h) ==
  /\ h \in Runners /\ pc[h] = "action" /\ Enters(h)
  /\ ActionCalls(st[h])
  /\ \E done, effect \in BOOLEAN, text \in Texts :
       /\ done => effect
       /\ effects' = effects \cup (IF effect THEN {<<h, st[h].category>>} ELSE {})
       /\ LET result == IF done THEN ActionDone(st[h]) ELSE ActionFailed(st[h], text)
          IN  NodeReturns(h, result, AfterAction(result))
  /\ UNCHANGED <<row, old, snap, told, cut, recovery, crashes>>

EscalationNode(h) ==
  /\ h \in Runners /\ pc[h] = "escalation"
  /\ NodeReturns(h, Escalate(st[h]), "persist")
  /\ UNCHANGED <<row, old, snap, effects, told, cut, recovery, crashes>>

\* The request of a run that stops inside action_node may have left.
UnderWay(h) ==
  IF h \in Runners /\ pc[h] = "action" /\ Enters(h) /\ ActionCalls(st[h])
  THEN {<<h, st[h].category>>} ELSE {}

\* A node raises, or the handler's task is cancelled: the WebSocket handler
\* swallows both and goes on to persist what the last node left.
RunCut(h) ==
  /\ h \in Conns /\ pc[h] \in {"intake", "knowledge", "action", "escalation"}
  /\ cut' = cut \cup {h}
  /\ effects' \in {effects, effects \cup UnderWay(h)}
  /\ Goto(h, "persist")
  /\ UNCHANGED <<row, old, snap, st, told, recovery, crashes>>

\* Mutant (of RunTimesOut): the row keeps the status of the last node.
RunTimesOut_LastStatus(h) ==
  /\ h \in Conns /\ pc[h] \in {"intake", "knowledge", "action", "escalation"}
  /\ row' = Merge([snap[h] EXCEPT !.status = IF st[h].status = "triaging" THEN "failed"
                                             ELSE st[h].status], snap[h])
  /\ effects' \in {effects, effects \cup UnderWay(h)}
  /\ Ends(h, "closed")
  /\ UNCHANGED <<old, told, cut, recovery, crashes>>

\* wait_for expires: the row is failed at once and nothing else is done.
RunTimesOut(h) ==
  /\ h \in Conns /\ pc[h] \in {"intake", "knowledge", "action", "escalation"}
  /\ \/ /\ row' = Merge([snap[h] EXCEPT !.status = "failed", !.reason = "timed_out"],
                       snap[h])
        /\ Ends(h, "closed")
     \/ UNCHANGED row /\ Ends(h, "error")     \* the commit fails
  /\ effects' \in {effects, effects \cup UnderWay(h)}
  /\ UNCHANGED <<old, told, cut, recovery, crashes>>

\* Mutant: a run without output leaves the ticket for another attempt.
Final_Pending(h) ==
  [snap[h] EXCEPT
     !.status     = IF st[h].status = "triaging" THEN "pending" ELSE st[h].status,
     !.resolution = st[h].resolution,
     !.reason     = st[h].reason]

\* Mutant: a run without output writes the status of the initial state.
Final_Triaging(h) ==
  [snap[h] EXCEPT !.status = st[h].status, !.resolution = st[h].resolution,
                  !.reason = st[h].reason]

\* What a run writes.  "triaging" is the state no node has touched: the stream
\* had no output, and the reason set for that case is overwritten with None.
Final(h) ==
  [snap[h] EXCEPT
     !.status     = IF st[h].status = "triaging" THEN "failed" ELSE st[h].status,
     !.resolution = st[h].resolution,
     !.reason     = st[h].reason]

\* The WebSocket handler's and confirm_action's commit.
Persist(h) ==
  /\ h \in Runners /\ pc[h] = "persist"
  /\ row' = Merge(Final(h), snap[h])
  /\ Ends(h, IF h \in Conns THEN "saved" ELSE "closed")
  /\ UNCHANGED <<old, effects, told, cut, recovery, crashes>>

\* Mutant: the handler returns only after a mail.
Announce_Stuck(h) ==
  /\ h \in Conns /\ pc[h] = "saved" /\ row.status = "resolved"
  /\ told' = TRUE
  /\ Ends(h, "closed")
  /\ UNCHANGED <<row, old, effects, cut, recovery, crashes>>

\* The commit expired the copy: the mail is decided on the row read back.
Announce(h) ==
  /\ h \in Conns /\ pc[h] = "saved"
  /\ told' = (told \/ row.status = "resolved")
  /\ Goto(h, "closed")
  /\ UNCHANGED <<row, old, snap, st, effects, cut, recovery, crashes>>

-----------------------------------------------------------------------------
(* confirm_action, cancel_action, resolve_ticket                           *)

\* confirm and cancel answer 409, and do nothing, unless the copy they loaded
\* awaits confirmation.  A confirmed ticket's graph runs again from the start.
\* Mutant (of Confirm): the status check is gone.
Confirm_NoCheck(h) ==
  /\ h \in Confirms /\ pc[h] = "off"
  /\ Load(h)
  /\ Goto(h, "intake")
  /\ st' = [st EXCEPT ![h] = InitialState(TRUE)]
  /\ UNCHANGED <<row, old, effects, told, cut, recovery, crashes>>

Confirm(h) ==
  /\ h \in Confirms /\ pc[h] = "off"
  /\ row.status = "awaiting_confirmation"
  /\ Load(h)
  /\ Goto(h, "intake")
  /\ st' = [st EXCEPT ![h] = InitialState(TRUE)]
  /\ UNCHANGED <<row, old, effects, told, cut, recovery, crashes>>

\* A node raises, or invoke() does: before any node when the graph has a checkpointer
\* and the call names no thread, at action_node because it cannot call it.  The
\* request ends in a 500 and the session is rolled back.
ConfirmRaises(h) ==
  /\ h \in Confirms
  /\ \/ pc[h] \in {"intake", "knowledge", "action"} /\ Ends(h, "error")
     \/ pc[h] = "action" /\ "raises" \in SyncInvoke /\ Ends(h, "uncallable")
  /\ UNCHANGED <<row, old, effects, told, cut, recovery, crashes>>

CancelLoads(h) ==
  /\ h \in Cancels /\ pc[h] = "off"
  /\ row.status = "awaiting_confirmation"
  /\ Load(h)
  /\ Goto(h, "loaded")
  /\ UNCHANGED <<row, old, st, effects, told, cut, recovery, crashes>>

CancelCommits(h) ==
  /\ h \in Cancels /\ pc[h] = "loaded"
  /\ row' = Merge([snap[h] EXCEPT !.status = "escalated", !.reason = "cancelled"], snap[h])
  /\ Ends(h, "closed")
  /\ UNCHANGED <<old, effects, told, cut, recovery, crashes>>

PatchLoads(h) ==
  /\ h \in Patches /\ pc[h] = "off"
  /\ Load(h)
  /\ Goto(h, "loaded")
  /\ UNCHANGED <<row, old, st, effects, told, cut, recovery, crashes>>

\* Mutant: resolved_by is only recorded with a note.
Patched_NoResolver(copy, status, note) ==
  [copy EXCEPT !.status = status, !.resolver = copy.resolver \/ note]

\* The note becomes the resolution when the admin resolves a ticket without one.
Patched(copy, status, note) ==
  [copy EXCEPT !.status = status, !.resolver = TRUE,
               !.resolution = IF note /\ status = "resolved" /\ copy.resolution = "none"
                              THEN "note" ELSE copy.resolution]

PatchCommits(h) ==
  /\ h \in Patches /\ pc[h] = "loaded"
  /\ \E status \in {"resolved", "escalated", "pending"}, note \in BOOLEAN :
       row' = Merge(Patched(snap[h], status, note), snap[h])
  /\ Ends(h, "closed")
  /\ UNCHANGED <<old, effects, told, cut, recovery, crashes>>

-----------------------------------------------------------------------------
(* _recover_stale_tickets                                                  *)

\* Mutant: the query looks for failed tickets.
Stale_Failed == row.status = "failed" /\ old

Stale == row.status = "pending" /\ old

RecoveryReads ==
  /\ recovery = NoRow /\ Stale
  /\ recovery' = row
  /\ UNCHANGED <<row, old, pc, snap, st, effects, told, cut, crashes>>

RecoveryCommits ==
  /\ recovery # NoRow
  /\ row' = Merge([recovery EXCEPT !.status = "failed", !.reason = "recovered"], recovery)
  /\ recovery' = NoRow
  /\ UNCHANGED <<old, pc, snap, st, effects, told, cut, crashes>>

-----------------------------------------------------------------------------
(* Failures                                                                *)

\* A commit fails: the handler answers with an error, the row is untouched.
CommitFails(h) ==
  /\ pc[h] \in {"persist", "loaded"}
  /\ Ends(h, "error")
  /\ UNCHANGED <<row, old, effects, told, cut, recovery, crashes>>

RecoveryFails ==
  /\ recovery # NoRow
  /\ recovery' = NoRow
  /\ UNCHANGED <<row, old, pc, snap, st, effects, told, cut, crashes>>

\* The process dies with everything in it; requests to come find it restarted.
Crash ==
  /\ crashes < MaxCrashes
  /\ crashes' = crashes + 1
  /\ pc' = [h \in Handlers |-> IF pc[h] = "off" THEN "off" ELSE "closed"]
  /\ snap' = [h \in Handlers |-> IF h \in Confirms THEN snap[h] ELSE NoRow]
  /\ st' = [h \in Runners |-> Idle]
  /\ recovery' = NoRow
  /\ \E H \in SUBSET Handlers : effects' = effects \cup UNION {UnderWay(h) : h \in H}
  /\ UNCHANGED <<row, old, told, cut>>

-----------------------------------------------------------------------------
RunStep(h) ==
  \/ IntakeNode(h) \/ KnowledgeNode(h) \/ ActionReturnsEarly(h) \/ ActionCallsApi(h)
  \/ EscalationNode(h) \/ Persist(h) \/ Announce(h)

HandlerStep(h) ==
  \/ RunStep(h) \/ Authenticate(h)
  \/ ConfirmRaises(h) \/ CancelCommits(h) \/ PatchCommits(h)

Request(h) == Connect(h) \/ Confirm(h) \/ CancelLoads(h) \/ PatchLoads(h)

Next ==
  \/ CreateTicket \/ TimePasses \/ RecoveryReads \/ RecoveryCommits
  \/ RecoveryFails \/ Crash
  \/ \E h \in Handlers :
       \/ HandlerStep(h) \/ Request(h)
       \/ RunCut(h) \/ RunTimesOut(h) \/ CommitFails(h)

Spec == Init /\ [][Next]_vars

\* The event loop and the thread pool serve every handler they have started;
\* the recovery loop polls for ever and its commit does not fail every time.
FairSpec ==
  /\ Spec
  /\ WF_vars(TimePasses)
  /\ WF_vars(RecoveryReads)
  /\ SF_vars(RecoveryCommits)
  /\ \A h \in Handlers : WF_vars(HandlerStep(h))

-----------------------------------------------------------------------------
(* Properties                                                              *)

\* A destructive effect belongs to a confirm-action request that found the
\* ticket awaiting confirmation.  Reconnecting, cancelling, patching, crashing
\* or losing a race with any of these never lets another run have one.
DestructiveOnlyConfirmed ==
  \A e \in effects : e[2] \in DestructiveIntents =>
    e[1] \in Confirms /\ snap[e[1]].status = "awaiting_confirmation"

\* "resolved", in the row or in the owner's mailbox, has an enterprise effect or
\* an administrator behind it, whatever updates were lost on the way.
ResolvedClaimsAreBacked ==
  row.status = "resolved" \/ told => effects # {} \/ row.resolver

\* A row is left in a status of the graph's inner nodes, which the recovery loop
\* does not look for, only by a run that was cut short.
StuckOnlyByCutRun ==
  row.status \in {"retrieving", "acting"} => cut # {}

\* The ticket is handed back to "pending" by an administrator only: no run,
\* cancellation or recovery puts it there, with any copy of the row.
OnlyAdminReopens ==
  [][row'.status = "pending" /\ row.status \notin {"absent", "pending"} =>
       \E h \in Patches : pc[h] = "loaded" /\ pc'[h] = "closed"]_vars

\* A pending ticket does not stay pending, with no client, after a crash, or
\* reopened by an administrator.
PendingIsRescued == row.status = "pending" ~> row.status # "pending"

\* Every handler that started ends.
HandlersEnd ==
  \A h \in Handlers : pc[h] # "off" ~> pc[h] \in {"closed", "error", "uncallable"}

-----------------------------------------------------------------------------
(* What the documentation says and the code does not do                    *)

\* tests/test_api.py, test_confirm_action_resolves_destructive_ticket:
\* confirm-action re-runs the graph, its action included, and returns the
\* result.  (The test puts a stub in the graph's place.)
ConfirmRunsTheAction ==
  \A h \in Confirms : pc[h] # "uncallable"

\* _recover_stale_tickets: "Mark tickets stuck in 'pending' ... as failed".
RecoveryFailsPendingOnly ==
  [][recovery # NoRow /\ recovery' = NoRow /\ row' # row =>
       row.status = "pending"]_vars

=============================================================================
