------------------------- MODULE A2ASubscribeProofs -------------------------
(***************************************************************************)
(* The slots and the event order of A2ASubscribe, for any number of        *)
(* clients and of slots.                                                   *)
(*                                                                         *)
(* Script ties what a stream has said to where its generator is; it is     *)
(* what makes the late answer of a thread harmless.  That the semaphore    *)
(* never exceeds its limit follows from the accounting of the slots.  The  *)
(* last two sections are the provable half of StreamsEnd, and what a slot  *)
(* lost as SlotsComeBack shows costs the service.                          *)
(***************************************************************************)
EXTENDS A2ASubscribe, FiniteSetTheorems, SequenceTheorems, TLAPS

W == <<"working">>
WF == <<"working", "failed">>
WA == <<"working", "artifact">>
WAC == <<"working", "artifact", "completed">>

\* What the stream has said, by the place its generator is at.
Script(t) ==
  /\ pc[t] \in {"off", "refused", "accepted", "never_started"} =>
       events[t] = <<>> /\ thread[t] = "none"
  /\ pc[t] = "said_working" => events[t] = W /\ thread[t] = "none"
  /\ pc[t] = "asking" => events[t] = W
  /\ pc[t] = "said_failed" => events[t] = WF
  /\ pc[t] = "said_artifact" => events[t] = WA
  /\ pc[t] = "said_completed" => events[t] = WAC
  /\ pc[t] \in {"abandoned", "closed"} => events[t] \in {W, WF, WA, WAC}

\* The thread's answer is there once it has ended, and stays.
ThreadInv(t) ==
  /\ result[t] # "none" <=> thread[t] = "ended"
  /\ events[t] \in {WA, WAC} => result[t] = "ok"

Types ==
  /\ free \in Nat
  /\ pc \in [Tasks -> PC]
  /\ thread \in [Tasks -> {"none", "running", "ended"}]
  /\ result \in [Tasks -> {"none", "ok", "error"}]
  /\ events \in [Tasks -> {<<>>, W, WF, WA, WAC}]

IInv == Types /\ (\A t \in Tasks : Script(t) /\ ThreadInv(t)) /\ SlotsAccounted

-----------------------------------------------------------------------------
(* Slots                                                                   *)

\* There are finitely many holders.
LEMMA HoldersFinite == IsFiniteSet(Holders) /\ Cardinality(Holders) \in Nat
<1>1. Holders \in SUBSET Tasks
  BY DEF Holders
<1>2. IsFiniteSet(Holders)
  BY <1>1, TasksAssumption, FS_Subset
<1>3. QED
  BY <1>2, FS_CardinalityType

\* A step that moves one subscription keeps the account when the semaphore moves
\* with the subscription's hold.
LEMMA SlotStep ==
  ASSUME IInv, NEW t \in Tasks, NEW where \in PC, Goto(t, where),
         free' = free + (IF pc[t] \in Holding THEN 1 ELSE 0)
                      - (IF where \in Holding THEN 1 ELSE 0)
  PROVE  SlotsAccounted'
<1>1. pc' = [pc EXCEPT ![t] = where] /\ pc \in [Tasks -> PC] /\ free \in Nat
      /\ free + Cardinality(Holders) = MaxSlots
  BY DEF Goto, IInv, Types, SlotsAccounted
<1>2. t \in Holders <=> pc[t] \in Holding
  BY DEF Holders
<1>3. CASE where \in Holding
  <2>1. Holders' = Holders \cup {t}
    BY <1>1, <1>3 DEF Holders
  <2>2. Cardinality(Holders') =
          IF pc[t] \in Holding THEN Cardinality(Holders) ELSE Cardinality(Holders) + 1
    BY <1>2, <2>1, HoldersFinite, FS_AddElement
  <2>3. free' = IF pc[t] \in Holding THEN free ELSE free - 1
    BY <1>1, <1>3
  <2>4. QED
    BY <1>1, <2>2, <2>3, HoldersFinite, MaxSlotsAssumption DEF SlotsAccounted
<1>4. CASE where \notin Holding
  <2>1. Holders' = Holders \ {t}
    BY <1>1, <1>4 DEF Holders
  <2>2. Cardinality(Holders') =
          IF pc[t] \in Holding THEN Cardinality(Holders) - 1 ELSE Cardinality(Holders)
    BY <1>2, <2>1, HoldersFinite, FS_RemoveElement
  <2>3. free' = IF pc[t] \in Holding THEN free + 1 ELSE free
    BY <1>1, <1>4
  <2>4. QED
    BY <1>1, <2>2, <2>3, HoldersFinite, MaxSlotsAssumption DEF SlotsAccounted
<1>5. QED
  BY <1>3, <1>4

-----------------------------------------------------------------------------
(* The invariant                                                           *)

\* The initial state.
LEMMA InitInv == Init => IInv
<1> SUFFICES ASSUME Init PROVE IInv
  OBVIOUS
<1> USE DEF Init
<1>1. Types
  BY MaxSlotsAssumption DEF Types, PC
<1>2. ASSUME NEW t \in Tasks PROVE Script(t) /\ ThreadInv(t)
  BY DEF Script, ThreadInv, W, WF, WA, WAC
<1>3. Holders = {}
  BY DEF Holders, Holding, AtYield
<1>4. SlotsAccounted
  BY <1>3, FS_EmptySet, MaxSlotsAssumption DEF SlotsAccounted
<1>5. QED
  BY <1>1, <1>2, <1>4 DEF IInv

\* A step that moves one subscription, by what it does to that subscription.
LEMMA MoveStep ==
  ASSUME IInv, NEW t \in Tasks, NEW where \in PC, Goto(t, where), free' \in Nat,
         free' = free + (IF pc[t] \in Holding THEN 1 ELSE 0)
                      - (IF where \in Holding THEN 1 ELSE 0),
         NEW said \in {<<>>, W, WF, WA, WAC}, events' = [events EXCEPT ![t] = said],
         NEW running \in {"none", "running", "ended"},
         thread' = [thread EXCEPT ![t] = running],
         UNCHANGED result, Script(t)', ThreadInv(t)'
  PROVE  IInv'
<1>1. Types'
  BY DEF IInv, Types, Goto
<1>2. ASSUME NEW u \in Tasks, u # t PROVE Script(u)' /\ ThreadInv(u)'
  <2>1. /\ pc'[u] = pc[u] /\ events'[u] = events[u]
        /\ thread'[u] = thread[u] /\ result'[u] = result[u]
    BY <1>2 DEF IInv, Types, Goto
  <2>2. Script(u) /\ ThreadInv(u)
    BY DEF IInv
  <2>3. QED
    BY <2>1, <2>2 DEF Script, ThreadInv
<1>3. SlotsAccounted'
  BY SlotStep
<1>4. QED
  BY <1>1, <1>2, <1>3 DEF IInv

\* The events a stream can append.
LEMMA Appends ==
  /\ Append(<<>>, "working") = W
  /\ Append(W, "failed") = WF
  /\ Append(W, "artifact") = WA
  /\ Append(WA, "completed") = WAC
<1>1. /\ <<>> \in Seq(Event) /\ W \in Seq(Event) /\ WF \in Seq(Event)
      /\ WA \in Seq(Event) /\ WAC \in Seq(Event)
  BY DEF Event, W, WF, WA, WAC
<1>2. /\ Len(W) = 1 /\ W[1] = "working"
      /\ Len(WF) = 2 /\ WF[1] = "working" /\ WF[2] = "failed"
      /\ Len(WA) = 2 /\ WA[1] = "working" /\ WA[2] = "artifact"
      /\ Len(WAC) = 3 /\ WAC[1] = "working" /\ WAC[2] = "artifact" /\ WAC[3] = "completed"
  BY DEF W, WF, WA, WAC
<1>3. ASSUME NEW s \in Seq(Event), NEW e \in Event, NEW r \in Seq(Event),
             Len(r) = Len(s) + 1, r[Len(s) + 1] = e, \A i \in 1..Len(s) : r[i] = s[i]
      PROVE  Append(s, e) = r
  <2>1. /\ Append(s, e) \in Seq(Event) /\ Len(Append(s, e)) = Len(s) + 1
        /\ Append(s, e)[Len(s) + 1] = e
        /\ \A i \in 1..Len(s) : Append(s, e)[i] = s[i]
    BY AppendProperties
  <2>2. ASSUME NEW i \in 1..Len(Append(s, e)) PROVE Append(s, e)[i] = r[i]
    <3>1. Len(s) \in Nat
      OBVIOUS
    <3>2. i \in 1..Len(s) \/ i = Len(s) + 1
      BY <2>1, <3>1
    <3>3. QED
      BY <1>3, <2>1, <3>2
  <2>3. QED
    BY <1>3, <2>1, <2>2, SeqEqual
<1>4. {"working", "artifact", "completed", "failed"} \subseteq Event
  BY DEF Event
<1>5. Append(<<>>, "working") = W
  BY DEF W
<1>6. Append(W, "failed") = WF
  <2>1. \A i \in 1..Len(W) : WF[i] = W[i]
    BY <1>2
  <2>2. Len(WF) = Len(W) + 1 /\ WF[Len(W) + 1] = "failed"
    BY <1>2
  <2>3. QED
    BY <1>1, <1>3, <1>4, <2>1, <2>2
<1>7. Append(W, "artifact") = WA
  <2>1. \A i \in 1..Len(W) : WA[i] = W[i]
    BY <1>2
  <2>2. Len(WA) = Len(W) + 1 /\ WA[Len(W) + 1] = "artifact"
    BY <1>2
  <2>3. QED
    BY <1>1, <1>3, <1>4, <2>1, <2>2
<1>8. Append(WA, "completed") = WAC
  <2>1. \A i \in 1..Len(WA) : WAC[i] = WA[i]
    BY <1>2
  <2>2. Len(WAC) = Len(WA) + 1 /\ WAC[Len(WA) + 1] = "completed"
    BY <1>2
  <2>3. QED
    BY <1>1, <1>3, <1>4, <2>1, <2>2
<1>9. QED
  BY <1>5, <1>6, <1>7, <1>8

\* The scripts differ.
LEMMA ScriptsDiffer ==
  /\ W \notin {<<>>, WF, WA, WAC} /\ WF \notin {<<>>, WA, WAC} /\ <<>> \notin {WA, WAC}
<1>1. Len(<<>>) = 0 /\ Len(W) = 1 /\ Len(WF) = 2 /\ Len(WA) = 2 /\ Len(WAC) = 3
  BY DEF W, WF, WA, WAC
<1>2. WF[2] # WA[2]
  BY DEF WF, WA
<1>3. QED
  BY <1>1, <1>2

\* Subscribe, and a client that leaves at once.
LEMMA RequestStep ==
  ASSUME NEW t \in Tasks PROVE IInv /\ (Subscribe(t) \/ LeaveBeforeStart(t)) => IInv'
<1> SUFFICES ASSUME IInv, Subscribe(t) \/ LeaveBeforeStart(t) PROVE IInv'
  OBVIOUS
<1>1. PICK where \in {"refused", "accepted", "never_started"} :
        /\ Goto(t, where)
        /\ free' = free + (IF pc[t] \in Holding THEN 1 ELSE 0)
                        - (IF where \in Holding THEN 1 ELSE 0)
        /\ free' \in Nat
        /\ pc[t] \in {"off", "accepted"}
  <2>1. CASE Subscribe(t) /\ free = 0
    <3>1. Goto(t, "refused") /\ free' = free /\ pc[t] = "off"
      BY <2>1 DEF Subscribe
    <3>2. QED
      BY <3>1 DEF Holding, AtYield, IInv, Types
  <2>2. CASE Subscribe(t) /\ free # 0
    <3>1. Goto(t, "accepted") /\ free' = free - 1 /\ pc[t] = "off"
      BY <2>2 DEF Subscribe
    <3>2. free' \in Nat
      BY <2>2, <3>1 DEF IInv, Types
    <3>3. "off" \notin Holding /\ "accepted" \in Holding
      BY DEF Holding, AtYield
    <3>4. QED
      BY <3>1, <3>2, <3>3 DEF IInv, Types
  <2>3. CASE LeaveBeforeStart(t)
    <3>1. Goto(t, "never_started") /\ free' = free /\ pc[t] = "accepted"
      BY <2>3 DEF LeaveBeforeStart
    <3>2. QED
      BY <3>1 DEF Holding, AtYield, IInv, Types
  <2>4. QED
    BY <2>1, <2>2, <2>3
<1>2. UNCHANGED <<events, thread, result>>
  BY DEF Subscribe, LeaveBeforeStart
<1>3. where \in PC
  BY DEF PC, Holding, AtYield
<1>4. pc'[t] = where
  BY <1>1 DEF Goto, IInv, Types
<1>5. Script(t)' /\ ThreadInv(t)'
  BY <1>1, <1>2, <1>4 DEF IInv, Types, Script, ThreadInv
<1>6. /\ events' = [events EXCEPT ![t] = events[t]]
      /\ thread' = [thread EXCEPT ![t] = thread[t]]
      /\ thread[t] \in {"none", "running", "ended"}
      /\ events[t] \in {<<>>, W, WF, WA, WAC}
  BY <1>2 DEF IInv, Types
<1>7. QED
  BY <1>1, <1>2, <1>3, <1>5, <1>6, MoveStep

\* A step in which the stream says something.
LEMMA SayStep ==
  ASSUME IInv, NEW t \in Tasks, NEW event,
         NEW where \in {"said_working", "said_failed", "said_artifact", "said_completed"},
         Say(t, event, where), pc[t] \in Holding,
         Append(events[t], event) =
           CASE where = "said_working"   -> W
             [] where = "said_failed"    -> WF
             [] where = "said_artifact"  -> WA
             [] where = "said_completed" -> WAC,
         where = "said_working" => thread[t] = "none",
         where \in {"said_artifact", "said_completed"} => result[t] = "ok",
         UNCHANGED <<free, thread, result>>
  PROVE  IInv'
<1> DEFINE said == CASE where = "said_working"   -> W
                     [] where = "said_failed"    -> WF
                     [] where = "said_artifact"  -> WA
                     [] where = "said_completed" -> WAC
<1>1. Goto(t, where) /\ events' = [events EXCEPT ![t] = said]
  BY DEF Say
<1>2. said \in {<<>>, W, WF, WA, WAC} /\ where \in PC /\ where \in Holding
  BY DEF PC, Holding, AtYield
<1>3. pc'[t] = where /\ events'[t] = said /\ thread'[t] = thread[t] /\ result'[t] = result[t]
  BY <1>1 DEF Goto, IInv, Types
<1>4. Script(t)'
  BY <1>3 DEF Script
<1>5. ThreadInv(t)'
  BY <1>3, ScriptsDiffer DEF IInv, ThreadInv
<1>6. /\ thread' = [thread EXCEPT ![t] = thread[t]]
      /\ thread[t] \in {"none", "running", "ended"}
  BY DEF IInv, Types
<1>7. /\ free' \in Nat
      /\ free' = free + (IF pc[t] \in Holding THEN 1 ELSE 0)
                      - (IF where \in Holding THEN 1 ELSE 0)
  BY <1>2 DEF IInv, Types
<1> HIDE DEF said
<1>8. QED
  BY <1>1, <1>2, <1>4, <1>5, <1>6, <1>7, MoveStep

\* The steps that say something.
LEMMA SpeakingStep ==
  ASSUME NEW t \in Tasks
  PROVE  IInv /\ (Start(t) \/ NoQuery(t) \/ Answer(t) \/ QueryTimesOut(t) \/ Complete(t)) => IInv'
<1> SUFFICES ASSUME IInv,
                    Start(t) \/ NoQuery(t) \/ Answer(t) \/ QueryTimesOut(t) \/ Complete(t)
             PROVE  IInv'
  OBVIOUS
<1>1. /\ pc[t] \in {"accepted", "said_working", "asking", "said_artifact"}
      /\ UNCHANGED <<free, thread, result>>
  BY DEF Start, NoQuery, Answer, QueryTimesOut, Complete
<1>2. pc[t] \in Holding /\ Script(t) /\ ThreadInv(t)
  BY <1>1 DEF Holding, AtYield, IInv
<1>3. CASE Start(t)
  BY <1>1, <1>2, <1>3, Appends, SayStep DEF Start, Script
<1>4. CASE NoQuery(t) \/ QueryTimesOut(t)
  <2>1. Say(t, "failed", "said_failed") /\ events[t] = W
    BY <1>2, <1>4 DEF NoQuery, QueryTimesOut, Script
  <2>2. QED
    BY <1>1, <1>2, <2>1, Appends, SayStep
<1>5. CASE Answer(t)
  <2>1. events[t] = W
    BY <1>2, <1>5 DEF Answer, Script
  <2>2. CASE result[t] = "ok"
    BY <1>1, <1>2, <1>5, <2>1, <2>2, Appends, SayStep DEF Answer
  <2>3. CASE result[t] # "ok"
    BY <1>1, <1>2, <1>5, <2>1, <2>3, Appends, SayStep DEF Answer
  <2>4. QED
    BY <2>2, <2>3
<1>6. CASE Complete(t)
  <2>1. Say(t, "completed", "said_completed") /\ events[t] = WA /\ result[t] = "ok"
    BY <1>2, <1>6 DEF Complete, Script, ThreadInv
  <2>2. QED
    BY <1>1, <1>2, <2>1, Appends, SayStep
<1>7. QED
  BY <1>3, <1>4, <1>5, <1>6

\* The steps that move a stream without a word.
LEMMA SilentStep ==
  ASSUME NEW t \in Tasks
  PROVE  IInv /\ (Ask(t) \/ End(t) \/ Leave(t) \/ Finalize(t)) => IInv'
<1> SUFFICES ASSUME IInv, Ask(t) \/ End(t) \/ Leave(t) \/ Finalize(t) PROVE IInv'
  OBVIOUS
<1>1. PICK where \in {"asking", "closed", "abandoned"} :
        /\ Goto(t, where)
        /\ free' = IF where = "closed" THEN free + 1 ELSE free
        /\ where = "asking" <=> Ask(t)
  BY DEF Ask, End, Leave, Finalize, Release
<1>2. /\ pc[t] \in AtYield \cup {"asking", "abandoned"}
      /\ UNCHANGED <<events, result>>
      /\ Ask(t) => pc[t] = "said_working" /\ thread' = [thread EXCEPT ![t] = "running"]
      /\ ~Ask(t) => thread' = thread
  BY DEF Ask, End, Leave, Finalize, AtYield
<1>3. pc[t] \in Holding /\ where \in PC /\ (where \in Holding <=> where # "closed")
  BY <1>2 DEF Holding, AtYield, PC
<1>4. /\ free' = free + (IF pc[t] \in Holding THEN 1 ELSE 0)
                      - (IF where \in Holding THEN 1 ELSE 0)
      /\ free' \in Nat
  BY <1>1, <1>3 DEF IInv, Types
<1>5. pc'[t] = where /\ events'[t] = events[t] /\ result'[t] = result[t]
      /\ Script(t) /\ ThreadInv(t)
  BY <1>1, <1>2 DEF Goto, IInv, Types
<1>6. events[t] \in {W, WF, WA, WAC} /\ (pc[t] = "said_working" => events[t] = W)
  BY <1>2, <1>5 DEF Script, AtYield
<1>7. Script(t)'
  BY <1>1, <1>2, <1>5, <1>6 DEF Script
<1> DEFINE running == IF Ask(t) THEN "running" ELSE thread[t]
<1>8. /\ thread' = [thread EXCEPT ![t] = running]
      /\ running \in {"none", "running", "ended"}
  BY <1>2 DEF IInv, Types
<1>9. ThreadInv(t)'
  <2>1. CASE Ask(t)
    <3>1. thread[t] = "none" /\ thread'[t] = "running"
      BY <1>2, <1>5, <2>1 DEF Script, IInv, Types
    <3>2. QED
      BY <1>5, <3>1 DEF ThreadInv
  <2>2. CASE ~Ask(t)
    BY <1>2, <1>5, <2>2 DEF ThreadInv
  <2>3. QED
    BY <2>1, <2>2
<1>10. /\ events' = [events EXCEPT ![t] = events[t]]
       /\ events[t] \in {<<>>, W, WF, WA, WAC}
  BY <1>2 DEF IInv, Types
<1> HIDE DEF running
<1>11. QED
  BY <1>1, <1>2, <1>3, <1>4, <1>7, <1>8, <1>9, <1>10, MoveStep

\* A thread that ends changes its result only: a stream that has said an
\* artifact has one already.
LEMMA ThreadStep == ASSUME NEW t \in Tasks PROVE IInv /\ ThreadEnds(t) => IInv'
<1> SUFFICES ASSUME IInv, ThreadEnds(t) PROVE IInv'
  OBVIOUS
<1>1. PICK r \in {"ok", "error"} : result' = [result EXCEPT ![t] = r]
  BY DEF ThreadEnds
<1>2. /\ thread[t] = "running" /\ thread' = [thread EXCEPT ![t] = "ended"]
      /\ UNCHANGED <<free, pc, events>>
  BY DEF ThreadEnds
<1>3. Types'
  BY <1>1, <1>2 DEF IInv, Types
<1>4. ASSUME NEW u \in Tasks PROVE Script(u)' /\ ThreadInv(u)'
  <2>1. Script(u) /\ ThreadInv(u)
    BY DEF IInv
  <2>2. CASE u = t
    <3>1. thread'[t] = "ended" /\ result'[t] = r /\ pc'[t] = pc[t] /\ events'[t] = events[t]
      BY <1>1, <1>2 DEF IInv, Types
    <3>2. result[t] = "none"
      BY <1>2, <2>1, <2>2 DEF ThreadInv, IInv, Types
    <3>3. QED
      BY <1>2, <2>1, <2>2, <3>1, <3>2 DEF Script, ThreadInv
  <2>3. CASE u # t
    BY <1>1, <1>2, <2>1, <2>3 DEF Script, ThreadInv, IInv, Types
  <2>4. QED
    BY <2>2, <2>3
<1>5. SlotsAccounted'
  BY <1>2 DEF IInv, SlotsAccounted, Holders
<1>6. QED
  BY <1>3, <1>4, <1>5 DEF IInv

\* Every step keeps the invariant.
LEMMA NextInv == IInv /\ [Next]_vars => IInv'
<1> SUFFICES ASSUME IInv, [Next]_vars PROVE IInv'
  OBVIOUS
<1>1. CASE UNCHANGED vars
  BY <1>1 DEF vars, IInv, Types, Script, ThreadInv, SlotsAccounted, Holders
<1>2. CASE Next
  BY <1>2, RequestStep, SpeakingStep, SilentStep, ThreadStep DEF Next, StreamStep
<1>3. QED
  BY <1>1, <1>2

-----------------------------------------------------------------------------
(* The theorems                                                            *)

\* The inductive invariant, from which the safety results follow.
THEOREM Invariant == Spec => []IInv
  BY InitInv, NextInv, PTL DEF Spec

\* No slot is lost or made, by any number of clients.
THEOREM SlotsAreAccounted == Spec => []SlotsAccounted
  BY Invariant, PTL DEF IInv

\* Every variable keeps its type: the semaphore stays between 0 and its limit.
THEOREM TypeCorrect == Spec => []TypeOK
<1>1. IInv => TypeOK
  <2> SUFFICES ASSUME IInv PROVE TypeOK
    OBVIOUS
  <2>1. free \in 0..MaxSlots
    <3>1. free <= MaxSlots
      BY HoldersFinite, MaxSlotsAssumption DEF IInv, Types, SlotsAccounted
    <3>2. free >= 0
      BY DEF IInv, Types
    <3>3. QED
      BY <3>1, <3>2 DEF IInv, Types
  <2>2. {<<>>, W, WF, WA, WAC} \subseteq Seq(Event)
    BY DEF W, WF, WA, WAC, Event
  <2>3. QED
    BY <2>1, <2>2 DEF IInv, Types, TypeOK
<1>2. QED
  BY <1>1, Invariant, PTL

\* The documented order.
LEMMA Ordered == IInv => GuaranteedOrder
<1>1. /\ IsPrefix(<<>>, WAC) /\ IsPrefix(W, WAC) /\ IsPrefix(WA, WAC) /\ IsPrefix(WAC, WAC)
      /\ IsPrefix(WF, WF)
  BY DEF IsPrefix, W, WF, WA, WAC
<1>2. QED
  BY <1>1 DEF IInv, Types, GuaranteedOrder, WF, WAC

\* An artifact is what the stream's own thread answered.
LEMMA Answered == IInv => ArtifactIsAnswer
<1> SUFFICES ASSUME IInv, NEW t \in Tasks, NEW i \in 1..Len(events[t]),
                    events[t][i] = "artifact"
             PROVE  thread[t] = "ended" /\ result[t] = "ok"
  BY DEF ArtifactIsAnswer
<1>1. events[t] \in {<<>>, W, WF, WA, WAC} /\ ThreadInv(t)
  BY DEF IInv, Types
<1>2. events[t] \notin {<<>>, W, WF}
  BY DEF W, WF
<1>3. QED
  BY <1>1, <1>2 DEF ThreadInv

\* Every stream follows the documented order, says nothing after its end, and has
\* an artifact only for its own thread's answer.
THEOREM ScriptIsKept == Spec => []StreamsAreScripted
<1>1. IInv => StreamsAreScripted
  BY Ordered, Answered DEF StreamsAreScripted
<1>2. QED
  BY <1>1, Invariant, PTL

\* A refusal means that every slot is in use.
THEOREM RefusalMeansFull == Spec => RefusedWhenFull
<1>1. ASSUME IInv, [Next]_vars, NEW t \in Tasks, pc[t] = "off", pc'[t] = "refused"
      PROVE  Cardinality(Holders \ {t}) = MaxSlots
  <2>1. Holders \ {t} = Holders
    BY <1>1 DEF Holders, Holding, AtYield
  <2>2. PICK u \in Tasks : StreamStep(u) \/ Subscribe(u) \/ ThreadEnds(u) \/ Leave(u)
                          \/ LeaveBeforeStart(u)
    BY <1>1 DEF Next, vars
  <2>3. free = 0
    BY <1>1, <2>2
       DEF IInv, Types, StreamStep, Start, NoQuery, Ask, Answer, QueryTimesOut, Complete, End,
           Finalize, Subscribe, ThreadEnds, Leave, LeaveBeforeStart, Say, Goto, Release, AtYield
  <2>4. Cardinality(Holders) = MaxSlots
    BY <1>1, <2>3, HoldersFinite, MaxSlotsAssumption DEF IInv, SlotsAccounted
  <2>5. QED
    BY <2>1, <2>4
<1>2. IInv /\ [Next]_vars =>
        [\A t \in Tasks : pc[t] = "off" /\ pc'[t] = "refused" =>
           Cardinality(Holders \ {t}) = MaxSlots]_vars
  BY <1>1
<1>3. QED
  BY <1>2, Invariant, PTL DEF Spec, RefusedWhenFull

-----------------------------------------------------------------------------
(* A stream that started gets on                                           *)
(*                                                                         *)
(* StreamsEnd needs that every step of a stream brings its end nearer and  *)
(* nothing puts it off; that the event loop takes those steps is the       *)
(* fairness of FairSpec.                                                   *)

\* The generator has run to its first yield and not to its end.
Started == AtYield \cup {"asking", "abandoned"}

\* How far such a stream is from its end.
ToGo(t) ==
  CASE pc[t] = "said_working"                     -> 5
    [] pc[t] = "asking"                           -> 4
    [] pc[t] = "said_artifact"                    -> 3
    [] pc[t] \in {"said_failed", "said_completed"} -> 2
    [] pc[t] = "abandoned"                        -> 1
    [] OTHER                                      -> 0

\* A step of one subscription leaves the others where they are.
LEMMA OthersStay ==
  ASSUME IInv, NEW u \in Tasks, NEW t \in Tasks, t # u,
         StreamStep(u) \/ Subscribe(u) \/ ThreadEnds(u) \/ Leave(u) \/ LeaveBeforeStart(u)
  PROVE  pc'[t] = pc[t]
  BY DEF IInv, Types, StreamStep, Start, NoQuery, Ask, Answer, QueryTimesOut, Complete, End,
         Finalize, Subscribe, ThreadEnds, Leave, LeaveBeforeStart, Say, Goto, Release

\* A stream that started moves towards its end with each of its own steps, at most
\* five of them, and neither its thread, nor its client, nor another stream puts
\* the end off or sends it anywhere but to "closed".
THEOREM StreamsGetOn ==
  Spec => [][\A t \in Tasks : pc[t] \in Started =>
               /\ pc'[t] \in Started \cup {"closed"}
               /\ StreamStep(t) => ToGo(t)' < ToGo(t)
               /\ ToGo(t)' <= ToGo(t)]_vars
<1>1. ASSUME IInv, [Next]_vars, NEW t \in Tasks, pc[t] \in Started
      PROVE  /\ pc'[t] \in Started \cup {"closed"}
             /\ StreamStep(t) => ToGo(t)' < ToGo(t)
             /\ ToGo(t)' <= ToGo(t)
  <2>1. pc[t] \notin {"off", "accepted"}
    BY <1>1 DEF Started, AtYield
  <2>2. ASSUME StreamStep(t) PROVE pc'[t] \in Started \cup {"closed"} /\ ToGo(t)' < ToGo(t)
    <3> USE DEF IInv, Types, Goto, Say, ToGo, Started, AtYield
    <3>1. CASE NoQuery(t) \/ Ask(t)
      BY <1>1, <3>1 DEF NoQuery, Ask
    <3>2. CASE Answer(t) \/ QueryTimesOut(t)
      BY <1>1, <3>2 DEF Answer, QueryTimesOut
    <3>3. CASE Complete(t)
      BY <1>1, <3>3 DEF Complete
    <3>4. CASE End(t) \/ Finalize(t)
      BY <1>1, <3>4 DEF End, Finalize, Release
    <3>5. QED
      BY <2>1, <2>2, <3>1, <3>2, <3>3, <3>4 DEF StreamStep, Start
  <2>3. ASSUME Leave(t) PROVE pc'[t] \in {"abandoned", "closed"} /\ ToGo(t)' <= ToGo(t)
    BY <1>1, <2>3 DEF Leave, Release, IInv, Types, Goto, ToGo, AtYield
  <2>4. CASE pc'[t] = pc[t]
    BY <1>1, <2>2, <2>4 DEF ToGo
  <2>5. CASE pc'[t] # pc[t]
    <3>1. StreamStep(t) \/ Leave(t)
      BY <1>1, <2>1, <2>5, OthersStay
         DEF Next, vars, Subscribe, ThreadEnds, LeaveBeforeStart
    <3>2. ToGo(t)' \in 0..5 /\ ToGo(t) \in 0..5
      BY DEF ToGo
    <3>3. QED
      BY <2>2, <2>3, <3>1, <3>2 DEF Started
  <2>6. QED
    BY <2>4, <2>5
<1>2. IInv /\ [Next]_vars =>
        [\A t \in Tasks : pc[t] \in Started =>
           /\ pc'[t] \in Started \cup {"closed"}
           /\ StreamStep(t) => ToGo(t)' < ToGo(t)
           /\ ToGo(t)' <= ToGo(t)]_vars
  BY <1>1
<1>3. QED
  BY <1>2, Invariant, PTL DEF Spec

-----------------------------------------------------------------------------
(* What the leak of SlotsComeBack costs                                    *)

\* The slots of the streams whose client left before the generator started.
Lost == {t \in Tasks : pc[t] = "never_started"}

\* A slot lost is lost for good, and the slots in circulation are the others: when
\* as many clients have left early as there are slots, no subscription is accepted
\* ever after, though nobody is using the service.
THEOREM LostSlotsStayLost ==
  Spec => [][/\ Lost \subseteq Lost'
             /\ Cardinality(Lost) = MaxSlots =>
                  \A t \in Tasks : pc[t] = "off" => pc'[t] \in {"off", "refused"}]_vars
<1>1. ASSUME IInv, [Next]_vars, NEW t \in Tasks, pc[t] = "never_started"
      PROVE  pc'[t] = "never_started"
  BY <1>1, OthersStay
     DEF Next, vars, StreamStep, Start, NoQuery, Ask, Answer, QueryTimesOut, Complete, End,
         Finalize, Subscribe, ThreadEnds, Leave, LeaveBeforeStart, AtYield
<1>2. ASSUME IInv, Cardinality(Lost) = MaxSlots PROVE free = 0
  <2>1. Lost \subseteq Holders
    BY DEF Lost, Holders, Holding
  <2>2. Cardinality(Lost) <= Cardinality(Holders)
    BY <2>1, HoldersFinite, FS_Subset
  <2>3. QED
    BY <1>2, <2>2, HoldersFinite, MaxSlotsAssumption DEF IInv, Types, SlotsAccounted
<1>3. ASSUME IInv, [Next]_vars, Cardinality(Lost) = MaxSlots, NEW t \in Tasks, pc[t] = "off"
      PROVE  pc'[t] \in {"off", "refused"}
  <2>1. free = 0
    BY <1>2, <1>3
  <2>2. CASE Subscribe(t)
    BY <1>3, <2>1, <2>2 DEF Subscribe, Goto, IInv, Types
  <2>3. CASE ~Subscribe(t)
    <3>1. pc'[t] = pc[t]
      BY <1>3, <2>3, OthersStay
         DEF Next, vars, StreamStep, Start, NoQuery, Ask, Answer, QueryTimesOut, Complete, End,
             Finalize, ThreadEnds, Leave, LeaveBeforeStart, AtYield
    <3>2. QED
      BY <1>3, <3>1
  <2>4. QED
    BY <2>2, <2>3
<1>4. IInv /\ [Next]_vars =>
        [/\ Lost \subseteq Lost'
         /\ Cardinality(Lost) = MaxSlots =>
              \A t \in Tasks : pc[t] = "off" => pc'[t] \in {"off", "refused"}]_vars
  <2> SUFFICES ASSUME IInv, [Next]_vars
               PROVE  /\ Lost \subseteq Lost'
                      /\ Cardinality(Lost) = MaxSlots =>
                           \A t \in Tasks : pc[t] = "off" => pc'[t] \in {"off", "refused"}
    OBVIOUS
  <2>1. Lost \subseteq Lost'
    BY <1>1 DEF Lost
  <2>2. QED
    BY <1>3, <2>1
<1>5. QED
  BY <1>4, Invariant, PTL DEF Spec
=============================================================================
