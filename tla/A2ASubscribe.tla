---------------------------- MODULE A2ASubscribe ----------------------------
(***************************************************************************)
(* POST /tasks/sendSubscribe (api/a2a.py): a bounded number of event       *)
(* streams, each an async generator that says "working", asks a thread of  *)
(* its own for the answer, and says how it went.                           *)
(*                                                                         *)
(* The slot is taken by the request handler and given back by the finally  *)
(* block of the generator.  The generator is suspended at each yield while *)
(* the chunk is sent; a client that leaves then abandons it there, and the *)
(* event loop's asyncgen hook closes it later.  Closing a generator that   *)
(* was never started runs none of its body.  The thread is a daemon that   *)
(* nobody joins: it may answer after its stream timed out or ended.        *)
(***************************************************************************)
EXTENDS Integers, FiniteSets, Sequences, SequencesExt

CONSTANTS
  Tasks,      \* the subscriptions requested
  MaxSlots    \* _A2A_MAX_CONCURRENT_SUBSCRIPTIONS

ASSUME MaxSlotsAssumption == MaxSlots \in Nat \ {0}
ASSUME TasksAssumption == IsFiniteSet(Tasks)

VARIABLES
  free,     \* the semaphore's value
  pc,       \* where each subscription is
  events,   \* what each stream has yielded
  thread,   \* each stream's query thread: "none", "running", "ended"
  result    \* each stream's result_queue: "none", or what the thread put there

vars == <<free, pc, events, thread, result>>

\* The generator is suspended at one of its yields.
AtYield == {"said_working", "said_failed", "said_artifact", "said_completed"}

\* The subscription has a slot.
Holding == {"accepted", "asking", "abandoned", "never_started"} \cup AtYield

PC == Holding \cup {"off", "refused", "closed"}

Event == {"working", "artifact", "completed", "failed"}

TypeOK ==
  /\ free \in 0..MaxSlots
  /\ pc \in [Tasks -> PC]
  /\ events \in [Tasks -> Seq(Event)]
  /\ thread \in [Tasks -> {"none", "running", "ended"}]
  /\ result \in [Tasks -> {"none", "ok", "error"}]

Init ==
  /\ free = MaxSlots
  /\ pc = [t \in Tasks |-> "off"]
  /\ events = [t \in Tasks |-> <<>>]
  /\ thread = [t \in Tasks |-> "none"]
  /\ result = [t \in Tasks |-> "none"]

Goto(t, where) == pc' = [pc EXCEPT ![t] = where]

\* yield: the event is on its way and the generator waits to be resumed.
Say(t, event, where) ==
  /\ events' = [events EXCEPT ![t] = Append(@, event)]
  /\ Goto(t, where)

-----------------------------------------------------------------------------
(* task_send_subscribe                                                     *)

\* Mutant: the semaphore is not asked first.
Subscribe_Unchecked(t) ==
  /\ pc[t] = "off"
  /\ free' = free - 1
  /\ Goto(t, "accepted")
  /\ UNCHANGED <<events, thread, result>>

Subscribe(t) ==
  /\ pc[t] = "off"
  /\ IF free = 0
     THEN Goto(t, "refused") /\ UNCHANGED free
     ELSE Goto(t, "accepted") /\ free' = free - 1
  /\ UNCHANGED <<events, thread, result>>

\* The response headers are out; the generator runs to its first yield.
Start(t) ==
  /\ pc[t] = "accepted"
  /\ Say(t, "working", "said_working")
  /\ UNCHANGED <<free, thread, result>>

\* The client leaves while the headers are being sent.
LeaveBeforeStart(t) ==
  /\ pc[t] = "accepted"
  /\ Goto(t, "never_started")
  /\ UNCHANGED <<free, events, thread, result>>

-----------------------------------------------------------------------------
(* _event_stream                                                           *)

NoQuery(t) ==
  /\ pc[t] = "said_working"
  /\ Say(t, "failed", "said_failed")
  /\ UNCHANGED <<free, thread, result>>

Ask(t) ==
  /\ pc[t] = "said_working"
  /\ thread' = [thread EXCEPT ![t] = "running"]
  /\ Goto(t, "asking")
  /\ UNCHANGED <<free, events, result>>

\* _run_in_thread: the answer or the exception is put in the queue, whether or
\* not anybody still waits there.
ThreadEnds(t) ==
  /\ thread[t] = "running"
  /\ thread' = [thread EXCEPT ![t] = "ended"]
  /\ \E r \in {"ok", "error"} : result' = [result EXCEPT ![t] = r]
  /\ UNCHANGED <<free, pc, events>>

Answer(t) ==
  /\ pc[t] = "asking" /\ result[t] # "none"
  /\ IF result[t] = "ok"
     THEN Say(t, "artifact", "said_artifact")
     ELSE Say(t, "failed", "said_failed")
  /\ UNCHANGED <<free, thread, result>>

\* Mutant: the timeout does not return, the stream goes on waiting.
QueryTimesOut_NoReturn(t) ==
  /\ pc[t] = "asking" /\ Len(events[t]) < 2
  /\ Say(t, "failed", "asking")
  /\ UNCHANGED <<free, thread, result>>

\* Mutant: get() without wait_for.
QueryTimesOut_Never(t) ==
  /\ pc[t] = "asking" /\ result[t] # "none"
  /\ Say(t, "failed", "said_failed")
  /\ UNCHANGED <<free, thread, result>>

\* wait_for expires, if need be while the answer arrives.
QueryTimesOut(t) ==
  /\ pc[t] = "asking"
  /\ Say(t, "failed", "said_failed")
  /\ UNCHANGED <<free, thread, result>>

Complete(t) ==
  /\ pc[t] = "said_artifact"
  /\ Say(t, "completed", "said_completed")
  /\ UNCHANGED <<free, thread, result>>

\* Mutant: the handler's epilogue gives the slot back once more.
Release_Twice(t) ==
  /\ Goto(t, "closed")
  /\ free' = free + (IF events[t] # <<>> /\ Last(events[t]) = "failed" THEN 2 ELSE 1)

\* The finally block.
Release(t) ==
  /\ Goto(t, "closed")
  /\ free' = free + 1

\* The body returns after its final event.
End(t) ==
  /\ pc[t] \in {"said_failed", "said_completed"}
  /\ Release(t)
  /\ UNCHANGED <<events, thread, result>>

\* The client leaves: the await of the result is cancelled, inside the body; at
\* a yield the body is not running and stays suspended.
Leave(t) ==
  /\ \/ pc[t] = "asking" /\ Release(t)
     \/ pc[t] \in AtYield /\ Goto(t, "abandoned") /\ UNCHANGED free
  /\ UNCHANGED <<events, thread, result>>

\* The event loop closes an abandoned generator.
Finalize(t) ==
  /\ pc[t] = "abandoned"
  /\ Release(t)
  /\ UNCHANGED <<events, thread, result>>

-----------------------------------------------------------------------------
\* What the server does of its own accord.
StreamStep(t) ==
  \/ Start(t) \/ NoQuery(t) \/ Ask(t) \/ Answer(t) \/ QueryTimesOut(t)
  \/ Complete(t) \/ End(t) \/ Finalize(t)

Next ==
  \E t \in Tasks :
    StreamStep(t) \/ Subscribe(t) \/ ThreadEnds(t) \/ Leave(t) \/ LeaveBeforeStart(t)

Spec == Init /\ [][Next]_vars

\* The event loop resumes every stream: three short events fit the socket's
\* buffer, so no client can hold one at a yield.  Nothing is assumed of the
\* query threads, which may hang for ever.
FairSpec == Spec /\ \A t \in Tasks : WF_vars(StreamStep(t))

-----------------------------------------------------------------------------
(* Properties                                                              *)

Holders == {t \in Tasks : pc[t] \in Holding}

\* Slots are neither lost nor made: every way out of a stream, however many at
\* once, gives back exactly the one it took.
SlotsAccounted == free + Cardinality(Holders) = MaxSlots

GuaranteedOrder ==
  \A t \in Tasks :
    \/ IsPrefix(events[t], <<"working", "artifact", "completed">>)
    \/ IsPrefix(events[t], <<"working", "failed">>)

ArtifactIsAnswer ==
  \A t \in Tasks : (\E i \in 1..Len(events[t]) : events[t][i] = "artifact") =>
    thread[t] = "ended" /\ result[t] = "ok"

\* Safety: every stream follows the "guaranteed order" of docs/a2a-agent-card.md,
\* working, artifact, completed or working, failed, and has an artifact only when
\* its own thread found an answer; a late answer adds nothing to a stream that has
\* said its last event.
StreamsAreScripted == GuaranteedOrder /\ ArtifactIsAnswer

\* Action property: a client is refused only when all the slots are in use by
\* other streams (proved, from SlotsAccounted).
RefusedWhenFull ==
  [][\A t \in Tasks : pc[t] = "off" /\ pc'[t] = "refused" =>
       Cardinality(Holders \ {t}) = MaxSlots]_vars

\* Every stream that started ends and gives its slot back, also when the client
\* left at any point or the query thread never answers.
StreamsEnd == \A t \in Tasks : pc[t] \in AtYield \cup {"asking"} ~> pc[t] = "closed"

-----------------------------------------------------------------------------
(* What a comment says and the code does not do                            *)

\* _event_stream: the slot "is released in the finally block when the stream
\* ends - normally, on timeout, on error, or when the client disconnects".
SlotsComeBack == \A t \in Tasks : pc[t] \in Holding ~> pc[t] \notin Holding
=============================================================================
