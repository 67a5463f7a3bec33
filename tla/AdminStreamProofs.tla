-------------------------- MODULE AdminStreamProofs --------------------------
(***************************************************************************)
(* The registry of AdminStream, for any number of streams, organisations   *)
(* and events.                                                             *)
(*                                                                         *)
(* RegistryIsExact is not inductive: it does not say what is left in a     *)
(* list the registry dropped.  Lists adds that a list holds exactly the    *)
(* running streams that joined it, and that an organisation's list was     *)
(* made by a stream of that organisation.                                  *)
(***************************************************************************)
EXTENDS AdminStream, SequenceTheorems, TLAPS

Lists ==
  /\ \A l \in Streams, m \in Streams :
       m \in members[l] <=> Live(m) /\ joined[m] = l
  /\ \A m \in Streams :
       Live(m) => joined[m] \in Streams /\ joined[m] = registry[OrgOf[m]]
  /\ \A o \in Orgs :
       registry[o] # None => OrgOf[registry[o]] = o /\ members[registry[o]] # {}

IInv == TypeOK /\ Lists

-----------------------------------------------------------------------------

\* The registry's entries, as the running streams see them.
LEMMA Exact == IInv => RegistryIsExact
<1> SUFFICES ASSUME IInv PROVE RegistryIsExact
  OBVIOUS
<1>1. \A s \in Streams : Live(s) => joined[s] = registry[OrgOf[s]]
  BY DEF IInv, Lists
<1>2. ASSUME NEW o \in Orgs PROVE registry[o] # None => Listeners(o) # {}
  BY <1>2 DEF IInv, Lists, Listeners
<1>3. ASSUME NEW o \in Orgs
      PROVE  Listeners(o) = {s \in Streams : Live(s) /\ OrgOf[s] = o}
  <2>1. CASE registry[o] = None
    BY <2>1, NoneAssumption DEF IInv, Lists, Listeners
  <2>2. CASE registry[o] # None
    <3>1. registry[o] \in Streams /\ OrgOf[registry[o]] = o
      BY <2>2 DEF IInv, TypeOK, Lists
    <3>2. members[registry[o]] \subseteq Streams
      BY <3>1 DEF IInv, TypeOK
    <3>3. ASSUME NEW m \in Streams
          PROVE  m \in members[registry[o]] <=> Live(m) /\ OrgOf[m] = o
      <4>1. m \in members[registry[o]] <=> Live(m) /\ joined[m] = registry[o]
        BY <3>1 DEF IInv, Lists
      <4>2. Live(m) => joined[m] \in Streams /\ joined[m] = registry[OrgOf[m]]
        BY DEF IInv, Lists
      <4>3. registry[OrgOf[m]] \in Streams => OrgOf[registry[OrgOf[m]]] = OrgOf[m]
        BY OrgOfAssumption, NoneAssumption DEF IInv, Lists
      <4>4. QED
        BY <3>1, <4>1, <4>2, <4>3
    <3>4. QED
      BY <2>2, <3>2, <3>3 DEF Listeners
  <2>3. QED
    BY <2>1, <2>2
<1>4. QED
  BY <1>1, <1>2, <1>3 DEF RegistryIsExact

\* The initial state.
LEMMA InitInv == Init => IInv
<1> SUFFICES ASSUME Init PROVE IInv
  OBVIOUS
<1> USE DEF Init
<1>1. <<>> \in Seq(1..MaxEvents) /\ Len(<<>>) = 0
  OBVIOUS
<1>2. TypeOK
  BY <1>1, QueueSizeAssumption, MaxEventsAssumption DEF TypeOK, Running, Open
<1>3. Lists
  BY DEF Lists, Live, Running
<1>4. QED
  BY <1>2, <1>3 DEF IInv

\* A step that starts and ends no generator keeps the lists.
LEMMA ListsKept ==
  ASSUME IInv, UNCHANGED <<registry, members, joined>>, \A s \in Streams : Live(s)' <=> Live(s)
  PROVE  Lists'
BY DEF IInv, Lists

\* A generator starts.
LEMMA StartStep == ASSUME IInv, NEW s \in Streams, Start(s) PROVE IInv'
<1> DEFINE list == IF registry[OrgOf[s]] = None THEN s ELSE registry[OrgOf[s]]
<1>1. /\ pc[s] = "accepted" /\ Goto(s, "waiting")
      /\ registry' = [registry EXCEPT ![OrgOf[s]] = list]
      /\ members' = [members EXCEPT ![list] = @ \cup {s}]
      /\ joined' = [joined EXCEPT ![s] = list]
      /\ UNCHANGED <<client, queue, published>>
  BY DEF Start
<1>2. OrgOf[s] \in Orgs /\ list \in Streams /\ OrgOf[list] = OrgOf[s]
  BY OrgOfAssumption DEF IInv, TypeOK, Lists
<1>3. TypeOK'
  BY <1>1, <1>2 DEF IInv, TypeOK, Goto, Running
<1> HIDE DEF list
<1>4. ~Live(s) /\ Live(s)' /\ \A m \in Streams : m # s => (Live(m)' <=> Live(m))
  BY <1>1 DEF IInv, TypeOK, Goto, Live, Running
<1>5. /\ joined'[s] = list /\ \A m \in Streams : m # s => joined'[m] = joined[m]
      /\ registry'[OrgOf[s]] = list /\ \A o \in Orgs : o # OrgOf[s] => registry'[o] = registry[o]
      /\ members'[list] = members[list] \cup {s}
      /\ \A l \in Streams : l # list => members'[l] = members[l]
  BY <1>1, <1>2 DEF IInv, TypeOK
<1>6. ASSUME NEW m \in Streams, Live(m)
      PROVE  /\ m # s /\ joined[m] \in Streams
             /\ joined[m] = registry'[OrgOf[m]]
  <2>1. m # s /\ joined[m] \in Streams /\ joined[m] = registry[OrgOf[m]] /\ OrgOf[m] \in Orgs
    BY <1>4, <1>6, OrgOfAssumption DEF IInv, Lists
  <2>2. OrgOf[m] = OrgOf[s] => registry[OrgOf[m]] = list
    BY <2>1, NoneAssumption DEF list
  <2>3. QED
    BY <1>5, <2>1, <2>2
<1>7. ASSUME NEW l \in Streams, NEW m \in Streams
      PROVE  m \in members'[l] <=> Live(m)' /\ joined'[m] = l
  <2>1. m \in members[l] <=> Live(m) /\ joined[m] = l
    BY DEF IInv, Lists
  <2>2. CASE m = s
    BY <1>4, <1>5, <2>1, <2>2
  <2>3. CASE m # s
    BY <1>4, <1>5, <2>1, <2>3
  <2>4. QED
    BY <2>2, <2>3
<1>8. ASSUME NEW m \in Streams, Live(m)'
      PROVE  joined'[m] \in Streams /\ joined'[m] = registry'[OrgOf[m]]
  BY <1>2, <1>4, <1>5, <1>6, <1>8
<1>9. ASSUME NEW o \in Orgs, registry'[o] # None
      PROVE  OrgOf[registry'[o]] = o /\ members'[registry'[o]] # {}
  <2>1. CASE o = OrgOf[s]
    BY <1>2, <1>5, <2>1
  <2>2. CASE o # OrgOf[s]
    <3>1. registry[o] \in Streams /\ OrgOf[registry[o]] = o /\ members[registry[o]] # {}
      BY <1>5, <1>9, <2>2 DEF IInv, TypeOK, Lists
    <3>2. QED
      BY <1>2, <1>5, <2>2, <3>1
  <2>3. QED
    BY <2>1, <2>2
<1>10. QED
  BY <1>3, <1>7, <1>8, <1>9 DEF IInv, Lists

\* A generator's finally block, run in any order with those of the others.
LEMMA UnregisterStep ==
  ASSUME IInv, NEW s \in Streams, Live(s), Goto(s, "closed"), Unregister(s),
         UNCHANGED <<client, joined, queue, published>>
  PROVE  IInv'
<1> DEFINE list == joined[s]
<1>1. list \in Streams /\ list = registry[OrgOf[s]] /\ OrgOf[s] \in Orgs /\ OrgOf[list] = OrgOf[s]
  BY OrgOfAssumption, NoneAssumption DEF IInv, Lists
<1>2. /\ members' = [members EXCEPT ![list] = @ \ {s}]
      /\ registry' = IF members'[list] = {}
                     THEN [registry EXCEPT ![OrgOf[s]] = None] ELSE registry
      /\ pc' = [pc EXCEPT ![s] = "closed"]
  BY DEF Unregister, Goto
<1>3. TypeOK'
  BY <1>1, <1>2 DEF IInv, TypeOK
<1> HIDE DEF list
<1>4. Live(s) /\ ~Live(s)' /\ \A m \in Streams : m # s => (Live(m)' <=> Live(m))
  BY <1>2 DEF IInv, TypeOK, Live, Running
<1>5. /\ members'[list] = members[list] \ {s}
      /\ \A l \in Streams : l # list => members'[l] = members[l]
      /\ \A o \in Orgs : o # OrgOf[s] => registry'[o] = registry[o]
      /\ members'[list] = {} => registry'[OrgOf[s]] = None
      /\ members'[list] # {} => registry'[OrgOf[s]] = list
  BY <1>1, <1>2 DEF IInv, TypeOK
<1>6. ASSUME NEW l \in Streams, NEW m \in Streams
      PROVE  m \in members'[l] <=> Live(m)' /\ joined[m] = l
  <2>1. m \in members[l] <=> Live(m) /\ joined[m] = l
    BY DEF IInv, Lists
  <2>2. CASE m = s
    BY <1>1, <1>4, <1>5, <2>1, <2>2 DEF list
  <2>3. CASE m # s
    BY <1>4, <1>5, <2>1, <2>3
  <2>4. QED
    BY <2>2, <2>3
<1>7. ASSUME NEW m \in Streams, Live(m)'
      PROVE  joined[m] \in Streams /\ joined[m] = registry'[OrgOf[m]]
  <2>1. m # s /\ joined[m] \in Streams /\ joined[m] = registry[OrgOf[m]] /\ OrgOf[m] \in Orgs
    BY <1>4, <1>7, OrgOfAssumption DEF IInv, Lists
  <2>2. CASE OrgOf[m] = OrgOf[s]
    <3>1. m \in members'[list]
      BY <1>1, <1>6, <1>7, <2>1, <2>2
    <3>2. QED
      BY <1>1, <1>5, <2>1, <2>2, <3>1
  <2>3. CASE OrgOf[m] # OrgOf[s]
    BY <1>5, <2>1, <2>3
  <2>4. QED
    BY <2>2, <2>3
<1>8. ASSUME NEW o \in Orgs, registry'[o] # None
      PROVE  OrgOf[registry'[o]] = o /\ members'[registry'[o]] # {}
  <2>1. CASE o = OrgOf[s]
    BY <1>1, <1>5, <1>8, <2>1
  <2>2. CASE o # OrgOf[s]
    <3>1. registry[o] \in Streams /\ OrgOf[registry[o]] = o /\ members[registry[o]] # {}
      BY <1>5, <1>8, <2>2 DEF IInv, TypeOK, Lists
    <3>2. QED
      BY <1>1, <1>5, <2>2, <3>1
  <2>3. QED
    BY <2>1, <2>2
<1>9. QED
  BY <1>3, <1>6, <1>7, <1>8 DEF IInv, Lists

\* Every step keeps the invariant.
LEMMA StepInv == IInv /\ [Next]_vars => IInv'
<1> SUFFICES ASSUME IInv, [Next]_vars PROVE IInv'
  OBVIOUS
<1>1. ASSUME NEW s \in Streams, Connect(s) PROVE IInv'
  <2>1. TypeOK'
    BY <1>1 DEF Connect, Goto, IInv, TypeOK, Open
  <2>2. \A m \in Streams : Live(m)' <=> Live(m)
    BY <1>1 DEF Connect, Goto, IInv, TypeOK, Live, Running
  <2>3. QED
    BY <1>1, <2>1, <2>2, ListsKept DEF Connect, IInv
<1>2. ASSUME NEW s \in Streams, Receive(s) \/ Ping(s) PROVE IInv'
  <2>1. Yield(s)
    BY <1>2 DEF Receive, Ping
  <2>2. /\ queue' \in [Streams -> Seq(1..MaxEvents)]
        /\ \A m \in Streams : Len(queue'[m]) <= QueueSize
    <3>1. queue \in [Streams -> Seq(1..MaxEvents)] /\ \A m \in Streams : Len(queue[m]) <= QueueSize
      BY DEF IInv, TypeOK
    <3>2. CASE Ping(s)
      BY <3>1, <3>2 DEF Ping
    <3>3. CASE Receive(s)
      <4>1. queue[s] \in Seq(1..MaxEvents) /\ queue[s] # <<>> /\ Len(queue[s]) <= QueueSize
        BY <3>1, <3>3 DEF Receive
      <4>2. Tail(queue[s]) \in Seq(1..MaxEvents) /\ Len(Tail(queue[s])) = Len(queue[s]) - 1
        BY <4>1, HeadTailProperties
      <4>3. Len(Tail(queue[s])) <= QueueSize
        BY <4>1, <4>2, QueueSizeAssumption, LenProperties
      <4>4. queue' = [queue EXCEPT ![s] = Tail(queue[s])]
        BY <3>3 DEF Receive
      <4>5. QED
        BY <3>1, <4>2, <4>3, <4>4
    <3>4. QED
      BY <1>2, <3>2, <3>3
  <2>3. TypeOK'
    BY <2>1, <2>2 DEF Yield, Goto, IInv, TypeOK, Open
  <2>4. \A m \in Streams : Live(m)' <=> Live(m)
    BY <2>1 DEF Yield, Goto, IInv, TypeOK, Live, Running
  <2>5. QED
    BY <2>1, <2>3, <2>4, ListsKept DEF Yield, IInv
<1>3. ASSUME NEW s \in Streams, Resume(s) PROVE IInv'
  <2>1. TypeOK'
    BY <1>3 DEF Resume, Goto, IInv, TypeOK, Open
  <2>2. \A m \in Streams : Live(m)' <=> Live(m)
    BY <1>3 DEF Resume, Goto, IInv, TypeOK, Live, Running
  <2>3. QED
    BY <1>3, <2>1, <2>2, ListsKept DEF Resume, IInv
<1>4. ASSUME NEW s \in Streams, Disconnect(s) PROVE IInv'
  <2>1. CASE pc[s] = "waiting"
    BY <1>4, <2>1, UnregisterStep DEF Disconnect, Live, Running
  <2>2. CASE pc[s] # "waiting"
    <3>1. TypeOK'
      BY <1>4, <2>2 DEF Disconnect, Goto, IInv, TypeOK, Open, Running
    <3>2. \A m \in Streams : Live(m)' <=> Live(m)
      BY <1>4, <2>2 DEF Disconnect, Goto, IInv, TypeOK, Live, Running
    <3>3. QED
      BY <1>4, <2>2, <3>1, <3>2, ListsKept DEF Disconnect, IInv
  <2>3. QED
    BY <2>1, <2>2
<1>5. ASSUME NEW s \in Streams, Finalize(s) PROVE IInv'
  BY <1>5, UnregisterStep DEF Finalize, Live, Running
<1>6. ASSUME NEW s \in Streams, FallSilent(s) PROVE IInv'
  <2>1. TypeOK'
    BY <1>6 DEF FallSilent, IInv, TypeOK
  <2>2. QED
    BY <1>6, <2>1, ListsKept DEF FallSilent, IInv, Live
<1>7. ASSUME NEW o \in Orgs, Publish(o) PROVE IInv'
  <2>1. published \in 0..MaxEvents /\ published < MaxEvents /\ published' = published + 1
    BY <1>7 DEF Publish, IInv, TypeOK
  <2>2. published' \in 1..MaxEvents
    BY <2>1, MaxEventsAssumption
  <2>3. ASSUME NEW m \in Streams
        PROVE  queue'[m] \in Seq(1..MaxEvents) /\ Len(queue'[m]) <= QueueSize
    <3>1. queue[m] \in Seq(1..MaxEvents) /\ Len(queue[m]) \in Nat /\ Len(queue[m]) <= QueueSize
      BY DEF IInv, TypeOK
    <3>2. /\ Append(queue[m], published') \in Seq(1..MaxEvents)
          /\ Len(Append(queue[m], published')) = Len(queue[m]) + 1
      BY <2>2, <3>1, AppendProperties
    <3>3. queue'[m] = IF m \in Listeners(o) /\ Len(queue[m]) < QueueSize
                      THEN Append(queue[m], published') ELSE queue[m]
      BY <1>7 DEF Publish
    <3>4. CASE m \in Listeners(o) /\ Len(queue[m]) < QueueSize
      <4>1. Len(queue[m]) + 1 <= QueueSize
        BY <3>1, <3>4, QueueSizeAssumption
      <4>2. QED
        BY <3>2, <3>3, <3>4, <4>1
    <3>5. CASE ~(m \in Listeners(o) /\ Len(queue[m]) < QueueSize)
      BY <3>1, <3>3, <3>5
    <3>6. QED
      BY <3>4, <3>5
  <2>4. queue' \in [Streams -> Seq(1..MaxEvents)]
    <3>1. queue' = [m \in Streams |-> queue'[m]]
      BY <1>7 DEF Publish
    <3>2. QED
      BY <2>3, <3>1
  <2>5. TypeOK'
    BY <1>7, <2>2, <2>3, <2>4, MaxEventsAssumption DEF Publish, IInv, TypeOK
  <2>6. QED
    BY <1>7, <2>5, ListsKept DEF Publish, IInv, Live
<1>8. CASE UNCHANGED vars
  BY <1>8 DEF vars, IInv, TypeOK, Lists, Live
<1>9. QED
  BY <1>1, <1>2, <1>3, <1>4, <1>5, <1>6, <1>7, <1>8, StartStep DEF Next, Step

-----------------------------------------------------------------------------

\* The inductive invariant holds in every reachable state.
LEMMA Invariant == Spec => []IInv
<1>1. QED
  BY InitInv, StepInv, PTL DEF Spec

\* Type correctness, with the queues never above their size.
THEOREM TypeCorrect == Spec => []TypeOK
<1>1. IInv => TypeOK
  BY DEF IInv
<1>2. QED
  BY <1>1, Invariant, PTL

\* The registry is exactly the running streams, in any order of starts and ends.
THEOREM RegistryCorrect == Spec => []RegistryIsExact
<1>1. QED
  BY Exact, Invariant, PTL

\* A finally block finds what it removes: the queue is in the list it joined and
\* the organisation has an entry, that list.  So neither queues.remove nor the del
\* after it raises, and what is deleted is never another list's entry.
THEOREM FinallyFinds ==
  Spec => [](\A s \in Streams : Live(s) =>
               /\ joined[s] \in Streams /\ s \in members[joined[s]]
               /\ registry[OrgOf[s]] = joined[s])
<1>1. IInv => \A s \in Streams : Live(s) =>
                /\ joined[s] \in Streams /\ s \in members[joined[s]]
                /\ registry[OrgOf[s]] = joined[s]
  BY DEF IInv, Lists
<1>2. QED
  BY <1>1, Invariant, PTL

-----------------------------------------------------------------------------
(* The streams implement Fanout                                            *)

\* What a client of Fanout sees of a stream.
LEMMA ListeningIs ==
  ASSUME NEW s \in Streams
  PROVE  /\ Listening[s] = "before" <=> pc[s] \in {"off", "accepted"}
         /\ Listening[s] = "now" <=> Live(s)
         /\ pc[s] = "closed" => Listening[s] = "over"
  BY DEF Listening, Live, Running

\* It is a matter of the position only.
LEMMA ListeningKept ==
  ASSUME \A s \in Streams : Listening'[s] = Listening[s]
  PROVE  Listening' = Listening
  BY DEF Listening

\* One stream's position changes.
LEMMA ListeningMoves ==
  ASSUME TypeOK, NEW s \in Streams, NEW where, Goto(s, where), NEW l, Listening'[s] = l
  PROVE  Listening' = [Listening EXCEPT ![s] = l]
<1>1. \A m \in Streams : m # s => pc'[m] = pc[m]
  BY DEF Goto, TypeOK
<1>2. \A m \in Streams : m # s => Listening'[m] = Listening[m]
  BY <1>1 DEF Listening, Live
<1>3. Listening' = [m \in Streams |-> Listening'[m]] /\ DOMAIN Listening = Streams
  BY DEF Listening
<1>4. QED
  BY <1>2, <1>3

\* A step that neither starts nor ends a generator is none of its clients' business.
LEMMA StillListening ==
  ASSUME TypeOK, NEW s \in Streams, NEW where, Goto(s, where),
         \/ pc[s] \in {"off", "accepted"} /\ where \in {"off", "accepted"}
         \/ Live(s) /\ where \in Running
  PROVE  Listening' = Listening
<1>1. pc'[s] = where /\ \A m \in Streams : m # s => pc'[m] = pc[m]
  BY DEF Goto, TypeOK
<1>2. \A m \in Streams : Listening'[m] = Listening[m]
  BY <1>1 DEF Listening, Live, Running
<1>3. QED
  BY <1>2, ListeningKept

\* An event reaches every running stream of its organisation that has room, and
\* no other: what the registry lists is what Fanout's clients see.
LEMMA PublishReaches == ASSUME IInv, NEW o \in Orgs, Publish(o) PROVE Fan!Announce(o)
<1>1. Listening' = Listening
  <2>1. \A s \in Streams : Listening'[s] = Listening[s]
    BY DEF Publish, Listening, Live
  <2>2. QED
    BY <2>1, ListeningKept
<1>2. \A s \in Streams : s \in Listeners(o) <=> Listening[s] = "now" /\ OrgOf[s] = o
  BY Exact, ListeningIs DEF RegistryIsExact
<1>3. queue' = [s \in Streams |->
                  IF Listening[s] = "now" /\ OrgOf[s] = o /\ Len(queue[s]) < QueueSize
                  THEN Append(queue[s], published') ELSE queue[s]]
  BY <1>2 DEF Publish
<1>4. QED
  BY <1>1, <1>3 DEF Publish, Fan!Announce

\* Each step of the streams is one of Fanout, or none.
LEMMA FanoutNext == IInv /\ [Next]_vars => [Fan!Next]_(Fan!vars)
<1> SUFFICES ASSUME IInv, [Next]_vars PROVE [Fan!Next]_(Fan!vars)
  OBVIOUS
<1>t. TypeOK
  BY DEF IInv
<1>1. ASSUME NEW s \in Streams, Connect(s) \/ Resume(s) PROVE UNCHANGED Fan!vars
  <2>1. Listening' = Listening
    <3>1. CASE Connect(s)
      BY <1>t, <3>1, StillListening DEF Connect
    <3>2. CASE Resume(s)
      BY <1>t, <3>2, StillListening DEF Resume, Live, Running
    <3>3. QED
      BY <1>1, <3>1, <3>2
  <2>2. QED
    BY <1>1, <2>1 DEF Connect, Resume, Fan!vars
<1>2. ASSUME NEW s \in Streams, Start(s) PROVE Fan!Join(s)
  <2>1. pc[s] = "accepted" /\ Goto(s, "waiting") /\ pc'[s] = "waiting"
        /\ UNCHANGED <<queue, published>>
    BY <1>t, <1>2 DEF Start, Goto, TypeOK
  <2>2. Listening[s] = "before" /\ Listening'[s] = "now"
    BY <2>1 DEF Listening, Live, Running
  <2>3. Listening' = [Listening EXCEPT ![s] = "now"]
    BY <1>t, <2>1, <2>2, ListeningMoves
  <2>4. QED
    BY <2>1, <2>2, <2>3 DEF Fan!Join
<1>3. ASSUME NEW s \in Streams, Receive(s) \/ Ping(s) PROVE [Fan!Next]_(Fan!vars)
  <2>1. pc[s] = "waiting" /\ Goto(s, "sending") /\ published' = published
    BY <1>3 DEF Receive, Ping, Yield
  <2>2. Listening' = Listening /\ Listening[s] = "now"
    BY <1>t, <2>1, StillListening, ListeningIs DEF Live, Running
  <2>3. CASE Receive(s)
    BY <2>1, <2>2, <2>3 DEF Receive, Fan!Take, Fan!Next
  <2>4. CASE Ping(s)
    BY <2>1, <2>2, <2>4 DEF Ping, Fan!vars
  <2>5. QED
    BY <1>3, <2>3, <2>4
<1>4. ASSUME NEW s \in Streams, Disconnect(s) \/ Finalize(s) PROVE [Fan!Next]_(Fan!vars)
  <2>1. UNCHANGED <<queue, published>>
    BY <1>4 DEF Disconnect, Finalize
  <2>2. CASE Goto(s, "closed") /\ pc[s] # "closed"
    <3>1. pc[s] \in Running \cup Open \cup {"off"} /\ pc'[s] = "closed"
      BY <1>t, <2>2 DEF TypeOK, Goto
    <3>2. Listening[s] # "over" /\ Listening'[s] = "over"
      BY <3>1 DEF Listening, Live, Running, Open
    <3>3. Listening' = [Listening EXCEPT ![s] = "over"]
      BY <1>t, <2>2, <3>2, ListeningMoves
    <3>4. QED
      BY <2>1, <3>2, <3>3 DEF Fan!Leave, Fan!Next
  <2>3. CASE Goto(s, "abandoned") /\ pc[s] = "sending"
    <3>1. Listening' = Listening
      BY <1>t, <2>3, StillListening DEF Live, Running
    <3>2. QED
      BY <2>1, <3>1 DEF Fan!vars
  <2>4. QED
    BY <1>4, <2>2, <2>3 DEF Disconnect, Finalize, Open
<1>5. ASSUME NEW s \in Streams, FallSilent(s) PROVE UNCHANGED Fan!vars
  BY <1>5 DEF FallSilent, Fan!vars, Listening, Live
<1>6. CASE UNCHANGED vars
  BY <1>6 DEF vars, Fan!vars, Listening, Live
<1>7. QED
  BY <1>1, <1>2, <1>3, <1>4, <1>5, <1>6, PublishReaches DEF Next, Step, Fan!Next

\* The event streams, with the registry of shared lists, implement Fanout, which
\* has neither: each client listens once, and gets its organisation's events, in
\* order, unless its box is full.
THEOREM StreamsKeepFanout == Spec => KeepsFanout
<1>1. ASSUME Init PROVE Fan!Init
  <2>1. \A s \in Streams : pc[s] = "off"
    BY <1>1 DEF Init
  <2>2. Listening = [s \in Streams |-> "before"]
    <3>1. \A s \in Streams : Listening[s] = "before"
      BY <2>1, ListeningIs
    <3>2. Listening = [s \in Streams |-> Listening[s]]
      BY DEF Listening
    <3>3. QED
      BY <3>1, <3>2
  <2>3. queue = [s \in Streams |-> <<>>] /\ published = 0
    BY <1>1 DEF Init
  <2>4. QED
    BY <2>2, <2>3 DEF Fan!Init
<1>2. QED
  BY <1>1, FanoutNext, Invariant, PTL DEF Spec, KeepsFanout, Fan!Spec

-----------------------------------------------------------------------------
(* What waits for a client                                                 *)

\* The events in a queue are in the order of publication, none of them twice.
InOrder ==
  \A s \in Streams :
    /\ \A i, j \in 1..Len(queue[s]) : i < j => queue[s][i] < queue[s][j]
    /\ \A i \in 1..Len(queue[s]) : queue[s][i] <= published

\* Events join at the end and leave at the front.
LEMMA OrderStep == IInv /\ InOrder /\ [Next]_vars => InOrder'
<1> SUFFICES ASSUME IInv, InOrder, [Next]_vars, NEW s \in Streams
             PROVE  /\ \A i, j \in 1..Len(queue'[s]) : i < j => queue'[s][i] < queue'[s][j]
                    /\ \A i \in 1..Len(queue'[s]) : queue'[s][i] <= published'
  BY DEF InOrder
<1>1. /\ queue[s] \in Seq(1..MaxEvents) /\ Len(queue[s]) \in Nat /\ published \in Nat
      /\ \A i \in 1..Len(queue[s]) : queue[s][i] \in 1..MaxEvents
  BY MaxEventsAssumption DEF IInv, TypeOK
<1>2. /\ \A i, j \in 1..Len(queue[s]) : i < j => queue[s][i] < queue[s][j]
      /\ \A i \in 1..Len(queue[s]) : queue[s][i] <= published
  BY DEF InOrder
<1>3. CASE queue'[s] = queue[s] /\ published' = published
  BY <1>2, <1>3
<1>4. CASE queue[s] # <<>> /\ queue'[s] = Tail(queue[s]) /\ published' = published
  <2>1. /\ Len(Tail(queue[s])) = Len(queue[s]) - 1
        /\ \A i \in 1..Len(Tail(queue[s])) : Tail(queue[s])[i] = queue[s][i + 1]
    BY <1>1, <1>4, HeadTailProperties
  <2>2. \A i \in 1..Len(Tail(queue[s])) : i + 1 \in 1..Len(queue[s])
    BY <1>1, <2>1
  <2>3. QED
    BY <1>2, <1>4, <2>1, <2>2
<1>5. CASE /\ published' = published + 1
           /\ queue'[s] \in {queue[s], Append(queue[s], published')}
  <2>1. CASE queue'[s] = queue[s]
    BY <1>1, <1>2, <1>5, <2>1
  <2>2. CASE queue'[s] = Append(queue[s], published')
    <3>1. /\ Len(queue'[s]) = Len(queue[s]) + 1
          /\ queue'[s][Len(queue[s]) + 1] = published'
          /\ \A i \in 1..Len(queue[s]) : queue'[s][i] = queue[s][i]
      BY <1>1, <2>2, AppendProperties
    <3>2. \A i \in 1..Len(queue'[s]) : i \in 1..Len(queue[s]) \/ i = Len(queue[s]) + 1
      BY <1>1, <3>1
    <3>3. \A i \in 1..Len(queue[s]) : queue'[s][i] < published'
      BY <1>1, <1>2, <1>5, <3>1
    <3>4. ASSUME NEW i \in 1..Len(queue'[s]), NEW j \in 1..Len(queue'[s]), i < j
          PROVE  queue'[s][i] < queue'[s][j]
      <4>1. i \in 1..Len(queue[s])
        BY <1>1, <3>1, <3>4
      <4>2. CASE j \in 1..Len(queue[s])
        BY <1>2, <3>1, <3>4, <4>1, <4>2
      <4>3. CASE j = Len(queue[s]) + 1
        BY <3>1, <3>3, <4>1, <4>3
      <4>4. QED
        BY <3>2, <4>2, <4>3
    <3>5. \A i \in 1..Len(queue'[s]) : queue'[s][i] <= published'
      BY <1>1, <1>2, <1>5, <3>1, <3>2
    <3>6. QED
      BY <3>4, <3>5
  <2>3. QED
    BY <1>5, <2>1, <2>2
<1>6. \/ queue'[s] = queue[s] /\ published' = published
      \/ queue[s] # <<>> /\ queue'[s] = Tail(queue[s]) /\ published' = published
      \/ published' = published + 1 /\ queue'[s] \in {queue[s], Append(queue[s], published')}
  <2>1. ASSUME NEW m \in Streams, Step(m)
        PROVE  /\ published' = published
               /\ \/ queue'[s] = queue[s]
                  \/ queue[s] # <<>> /\ queue'[s] = Tail(queue[s])
    <3>1. CASE Receive(m)
      <4>1. queue[m] # <<>> /\ queue' = [queue EXCEPT ![m] = Tail(@)] /\ published' = published
        BY <3>1 DEF Receive, Yield
      <4>2. queue \in [Streams -> Seq(1..MaxEvents)]
        BY DEF IInv, TypeOK
      <4>3. QED
        BY <4>1, <4>2
    <3>2. CASE ~Receive(m)
      BY <2>1, <3>2 DEF Step, Connect, Start, Ping, Yield, Resume, Disconnect, Finalize,
         FallSilent
    <3>3. QED
      BY <3>1, <3>2
  <2>2. ASSUME NEW o \in Orgs, Publish(o)
        PROVE  published' = published + 1 /\ queue'[s] \in {queue[s], Append(queue[s], published')}
    BY <2>2 DEF Publish
  <2>3. QED
    BY <2>1, <2>2 DEF Next, vars
<1>7. QED
  BY <1>3, <1>4, <1>5, <1>6

\* No administrator sees an event twice or out of order, whatever was dropped from
\* a full queue in between.
THEOREM EventsInOrder == Spec => []InOrder
<1>1. ASSUME Init PROVE InOrder
  <2>1. ASSUME NEW s \in Streams PROVE Len(queue[s]) = 0
    <3>1. queue[s] = <<>>
      BY <1>1 DEF Init
    <3>2. Len(<<>>) = 0
      OBVIOUS
    <3>3. QED
      BY <3>1, <3>2
  <2>2. ASSUME NEW s \in Streams, NEW i \in 1..Len(queue[s]) PROVE FALSE
    <3>1. Len(queue[s]) = 0
      BY <2>1
    <3>2. QED
      BY <2>2, <3>1
  <2>3. QED
    BY <2>2 DEF InOrder
<1>2. QED
  BY <1>1, OrderStep, Invariant, PTL DEF Spec

-----------------------------------------------------------------------------
(* A client that is gone is found out                                      *)
(*                                                                         *)
(* SilentAreRemoved needs that the stream of a client that is gone has a   *)
(* step due that brings its end nearer, and that the event loop takes it.  *)
(* The first is proved here; the second is Fairness.                       *)

\* A client falls silent on a stream that is open, and one that was sent to is lost.
GoneInv ==
  \A s \in Streams :
    /\ client[s] = "silent" => pc[s] \in {"accepted", "waiting"}
    /\ client[s] = "lost" => pc[s] # "off"

\* How far the stream of a client that is gone is from its end.
ToGo(s) ==
  CASE pc[s] = "closed"    -> 0
    [] pc[s] = "abandoned" -> 1
    [] pc[s] \in Open /\ client[s] = "lost"          -> 2
    [] pc[s] = "waiting" /\ client[s] = "silent"     -> 3
    [] OTHER               -> 4

\* The step that does so: what is sent finds a silent client out, and a lost one
\* is disconnected.
FindsOut(s) ==
  \/ client[s] = "silent" /\ (Start(s) \/ Receive(s) \/ Ping(s))
  \/ client[s] = "lost" /\ (Disconnect(s) \/ Finalize(s))

\* Its guard.
FindsOutDue(s) ==
  \/ client[s] = "silent" /\ pc[s] \in {"accepted", "waiting"}
  \/ client[s] = "lost" /\ pc[s] \in Open
  \/ client[s] = "lost" /\ pc[s] = "abandoned"

\* A stream's step, as far as its client is concerned.
LEMMA OneStream ==
  ASSUME TypeOK, NEW s \in Streams, Step(s)
  PROVE  /\ pc' \in [Streams -> Running \cup Open \cup {"off", "closed"}]
         /\ client' \in [Streams -> {"here", "silent", "lost"}]
         /\ \A m \in Streams : m # s => pc'[m] = pc[m] /\ client'[m] = client[m]
         /\ \/ Connect(s) /\ pc[s] = "off" /\ pc'[s] = "accepted" /\ client'[s] = client[s]
            \/ Start(s) /\ pc[s] = "accepted" /\ pc'[s] = "waiting" /\ client'[s] = client[s]
            \/ /\ Receive(s) \/ Ping(s)
               /\ pc[s] = "waiting" /\ pc'[s] = "sending"
               /\ client'[s] = IF client[s] = "silent" THEN "lost" ELSE client[s]
            \/ Resume(s) /\ pc[s] = "sending" /\ pc'[s] = "waiting" /\ client'[s] = client[s]
            \/ Disconnect(s) /\ client[s] # "silent" /\ client'[s] = client[s]
               /\ pc[s] \in Open /\ pc'[s] \in {"closed", "abandoned"}
            \/ Finalize(s) /\ pc[s] = "abandoned" /\ pc'[s] = "closed" /\ client'[s] = client[s]
            \/ /\ FallSilent(s) /\ pc[s] \in Open /\ pc'[s] = pc[s] /\ client[s] = "here"
               /\ client'[s] = IF pc[s] = "sending" THEN "lost" ELSE "silent"
<1> USE DEF TypeOK, Goto, Running, Open
<1>1. CASE Connect(s)
  BY <1>1 DEF Connect
<1>2. CASE Start(s)
  BY <1>2 DEF Start
<1>3. CASE Receive(s) \/ Ping(s)
  BY <1>3 DEF Receive, Ping, Yield
<1>4. CASE Resume(s)
  BY <1>4 DEF Resume
<1>5. CASE Disconnect(s)
  BY <1>5 DEF Disconnect
<1>6. CASE Finalize(s)
  BY <1>6 DEF Finalize
<1>7. CASE FallSilent(s)
  BY <1>7 DEF FallSilent
<1>8. QED
  BY <1>1, <1>2, <1>3, <1>4, <1>5, <1>6, <1>7 DEF Step

\* Silence is found out before the stream goes on.
LEMMA GoneStep == TypeOK /\ GoneInv /\ [Next]_vars => GoneInv'
<1> SUFFICES ASSUME TypeOK, GoneInv, [Next]_vars PROVE GoneInv'
  OBVIOUS
<1>1. ASSUME NEW s \in Streams, Step(s) PROVE GoneInv'
  <2>1. \A m \in Streams : m # s => pc'[m] = pc[m] /\ client'[m] = client[m]
    BY <1>1, OneStream
  <2>2. /\ client'[s] = "silent" => pc'[s] \in {"accepted", "waiting"}
        /\ client'[s] = "lost" => pc'[s] # "off"
    BY <1>1, OneStream DEF GoneInv, Open
  <2>3. QED
    BY <2>1, <2>2 DEF GoneInv
<1>2. CASE \E o \in Orgs : Publish(o)
  BY <1>2 DEF Publish, GoneInv
<1>3. CASE UNCHANGED vars
  BY <1>3 DEF vars, GoneInv
<1>4. QED
  BY <1>1, <1>2, <1>3 DEF Next

\* Until it is closed, the stream of a client that is gone has a step due that
\* finds it out or takes it down.
THEOREM GoneHasStep ==
  Spec => [](\A s \in Streams : client[s] # "here" /\ pc[s] # "closed" => FindsOutDue(s))
<1>1. Init => GoneInv
  BY DEF Init, GoneInv
<1>2. Spec => []GoneInv
  BY <1>1, GoneStep, TypeCorrect, PTL DEF Spec
<1>3. TypeOK /\ GoneInv =>
        \A s \in Streams : client[s] # "here" /\ pc[s] # "closed" => FindsOutDue(s)
  BY DEF TypeOK, GoneInv, FindsOutDue, Running, Open
<1>4. QED
  BY <1>2, <1>3, TypeCorrect, PTL

\* That step brings the end of the stream nearer, over at most four steps; nothing
\* else, not events, not pings, not other streams, puts it off, and a client that
\* is gone does not come back.
THEOREM GoneGetsOn ==
  Spec => [][\A s \in Streams : client[s] # "here" =>
               /\ client'[s] # "here"
               /\ FindsOut(s) => ToGo(s)' < ToGo(s)
               /\ ToGo(s)' <= ToGo(s)]_vars
<1>1. ASSUME TypeOK, [Next]_vars, NEW s \in Streams, client[s] # "here"
      PROVE  /\ client'[s] # "here"
             /\ FindsOut(s) => ToGo(s)' < ToGo(s)
             /\ ToGo(s)' <= ToGo(s)
  <2>1. ASSUME pc'[s] = pc[s], client'[s] = client[s] PROVE ToGo(s)' = ToGo(s)
    BY <2>1 DEF ToGo
  <2>2. ToGo(s) \in 0..4
    BY DEF ToGo
  <2>3. FindsOut(s) => Step(s)
    BY DEF FindsOut, Step
  <2>4. CASE Step(s)
    <3>1. client'[s] # "here" /\ ToGo(s)' <= ToGo(s)
      BY <1>1, <2>4, OneStream DEF ToGo, Open
    <3>2. FindsOut(s) => ToGo(s)' < ToGo(s)
      <4> SUFFICES ASSUME FindsOut(s) PROVE ToGo(s)' < ToGo(s)
        OBVIOUS
      <4>1. CASE client[s] = "silent" /\ Start(s)
        BY <1>1, <4>1 DEF Start, Goto, TypeOK, ToGo, Open
      <4>2. CASE client[s] = "silent" /\ (Receive(s) \/ Ping(s))
        BY <1>1, <4>2 DEF Receive, Ping, Yield, Goto, TypeOK, ToGo, Open
      <4>3. CASE client[s] = "lost" /\ Disconnect(s)
        BY <1>1, <4>3 DEF Disconnect, Goto, TypeOK, ToGo, Open
      <4>4. CASE client[s] = "lost" /\ Finalize(s)
        BY <1>1, <4>4 DEF Finalize, Goto, TypeOK, ToGo, Open
      <4>5. QED
        BY <4>1, <4>2, <4>3, <4>4 DEF FindsOut
    <3>3. QED
      BY <3>1, <3>2
  <2>5. CASE ~Step(s)
    <3>1. pc'[s] = pc[s] /\ client'[s] = client[s]
      <4>1. ASSUME NEW m \in Streams, Step(m) PROVE pc'[s] = pc[s] /\ client'[s] = client[s]
        BY <1>1, <2>5, <4>1, OneStream
      <4>2. CASE \E o \in Orgs : Publish(o)
        BY <4>2 DEF Publish
      <4>3. QED
        BY <1>1, <4>1, <4>2 DEF Next, vars
    <3>2. QED
      BY <1>1, <2>1, <2>2, <2>3, <2>5, <3>1
  <2>6. QED
    BY <2>4, <2>5
<1>2. TypeOK /\ [Next]_vars =>
        [\A s \in Streams : client[s] # "here" =>
           /\ client'[s] # "here"
           /\ FindsOut(s) => ToGo(s)' < ToGo(s)
           /\ ToGo(s)' <= ToGo(s)]_vars
  BY <1>1
<1>3. QED
  BY <1>2, TypeCorrect, PTL DEF Spec
=============================================================================
