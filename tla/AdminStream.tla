----------------------------- MODULE AdminStream -----------------------------
(***************************************************************************)
(* GET /admin/stream (api/admin.py): the administrators' event streams and *)
(* the registry through which a finished ticket reaches them.              *)
(*                                                                         *)
(* The registry maps an organisation to a list of queues.  A generator     *)
(* keeps a reference to the list it joined, and its finally block takes    *)
(* its queue out of that list and deletes the organisation's entry when    *)
(* the list is empty.  A list is named here by the stream that made it.    *)
(* Everything runs on the event loop; a step ends where the code awaits.   *)
(*                                                                         *)
(* A client may leave, which the server is told, or fall silent, which it  *)
(* learns only from the fate of what it sends next.                        *)
(***************************************************************************)
EXTENDS Naturals, Sequences

CONSTANTS
  Streams,     \* the connections administrators make
  Orgs,        \* the organisations
  OrgOf,       \* the organisation of each connection's administrator
  QueueSize,   \* admin_sse_queue_size
  MaxEvents,   \* bound: the tickets that finish
  None

ASSUME OrgOfAssumption == OrgOf \in [Streams -> Orgs]
ASSUME QueueSizeAssumption == QueueSize \in Nat \ {0}
ASSUME MaxEventsAssumption == MaxEvents \in Nat
ASSUME NoneAssumption == None \notin Streams

VARIABLES
  pc,         \* where each stream is
  client,     \* what became of its client: "here", "silent", "lost"
  registry,   \* _admin_sse_queues: each organisation's list, or None
  members,    \* the queues in each list, by stream
  joined,     \* the list each generator holds in `queues`
  queue,      \* what waits in each stream's queue
  published   \* how many events were published

vars == <<pc, client, registry, members, joined, queue, published>>

\* The generator is between its append and its finally block.
Running == {"waiting", "sending", "abandoned"}

\* The response still has its connection.
Open == {"accepted", "waiting", "sending"}

Live(s) == pc[s] \in Running

TypeOK ==
  /\ pc \in [Streams -> Running \cup Open \cup {"off", "closed"}]
  /\ client \in [Streams -> {"here", "silent", "lost"}]
  /\ registry \in [Orgs -> Streams \cup {None}]
  /\ members \in [Streams -> SUBSET Streams]
  /\ joined \in [Streams -> Streams \cup {None}]
  /\ queue \in [Streams -> Seq(1..MaxEvents)]
  /\ \A s \in Streams : Len(queue[s]) <= QueueSize
  /\ published \in 0..MaxEvents

Init ==
  /\ pc = [s \in Streams |-> "off"]
  /\ client = [s \in Streams |-> "here"]
  /\ registry = [o \in Orgs |-> None]
  /\ members = [s \in Streams |-> {}]
  /\ joined = [s \in Streams |-> None]
  /\ queue = [s \in Streams |-> <<>>]
  /\ published = 0

Goto(s, where) == pc' = [pc EXCEPT ![s] = where]

-----------------------------------------------------------------------------
(* admin_stream, _sse_event_stream                                         *)

\* The token, the role and the organisation were accepted.
Connect(s) ==
  /\ pc[s] = "off"
  /\ Goto(s, "accepted")
  /\ UNCHANGED <<client, registry, members, joined, queue, published>>

\* setdefault and append: the organisation's list, or a new one.
Start(s) ==
  LET list == IF registry[OrgOf[s]] = None THEN s ELSE registry[OrgOf[s]]
  IN /\ pc[s] = "accepted"
     /\ registry' = [registry EXCEPT ![OrgOf[s]] = list]
     /\ members' = [members EXCEPT ![list] = @ \cup {s}]
     /\ joined' = [joined EXCEPT ![s] = list]
     /\ Goto(s, "waiting")
     /\ UNCHANGED <<client, queue, published>>

\* A yield: bytes go out, so a silent client will be found out.
Yield(s) ==
  /\ pc[s] = "waiting"
  /\ Goto(s, "sending")
  /\ client' = [client EXCEPT ![s] = IF @ = "silent" THEN "lost" ELSE @]
  /\ UNCHANGED <<registry, members, joined, published>>

Receive(s) ==
  /\ queue[s] # <<>>
  /\ queue' = [queue EXCEPT ![s] = Tail(@)]
  /\ Yield(s)

\* Mutant: the generator waits for an event without a timeout.
Ping_Never(s) == FALSE /\ queue[s] = <<>> /\ UNCHANGED queue /\ Yield(s)

\* Thirty seconds without an event.
Ping(s) == queue[s] = <<>> /\ UNCHANGED queue /\ Yield(s)

\* The chunk is with the transport.
Resume(s) ==
  /\ pc[s] = "sending"
  /\ Goto(s, "waiting")
  /\ UNCHANGED <<client, registry, members, joined, queue, published>>

-----------------------------------------------------------------------------
(* The finally block                                                       *)

\* Mutant: the entry goes with the first stream that ends.
Unregister_Always(s) ==
  /\ members' = [members EXCEPT ![joined[s]] = @ \ {s}]
  /\ registry' = [registry EXCEPT ![OrgOf[s]] = None]

\* Mutant: an empty list stays in the registry.
Unregister_KeepsEmpty(s) ==
  /\ members' = [members EXCEPT ![joined[s]] = @ \ {s}]
  /\ UNCHANGED registry

Unregister(s) ==
  /\ members' = [members EXCEPT ![joined[s]] = @ \ {s}]
  /\ registry' = IF members'[joined[s]] = {}
                 THEN [registry EXCEPT ![OrgOf[s]] = None] ELSE registry

\* The response is cancelled.  A generator that never started has nothing to
\* undo, one that waits in get() unwinds, one suspended at a yield is abandoned.
Disconnect(s) ==
  /\ pc[s] \in Open /\ client[s] # "silent"
  /\ \/ pc[s] = "accepted" /\ Goto(s, "closed") /\ UNCHANGED <<registry, members>>
     \/ pc[s] = "waiting" /\ Goto(s, "closed") /\ Unregister(s)
     \/ pc[s] = "sending" /\ Goto(s, "abandoned") /\ UNCHANGED <<registry, members>>
  /\ UNCHANGED <<client, joined, queue, published>>

\* The event loop closes the abandoned generator.
Finalize(s) ==
  /\ pc[s] = "abandoned"
  /\ Goto(s, "closed")
  /\ Unregister(s)
  /\ UNCHANGED <<client, joined, queue, published>>

\* The client's network goes away without a word.
FallSilent(s) ==
  /\ pc[s] \in Open /\ client[s] = "here"
  /\ client' = [client EXCEPT ![s] = IF pc[s] = "sending" THEN "lost" ELSE "silent"]
  /\ UNCHANGED <<pc, registry, members, joined, queue, published>>

-----------------------------------------------------------------------------
(* _publish_sse                                                            *)

Listeners(o) == IF registry[o] = None THEN {} ELSE members[registry[o]]

\* Mutant: QueueFull is not caught, here because put_nowait has no limit.
Publish_Unbounded(o) ==
  /\ published < MaxEvents
  /\ published' = published + 1
  /\ queue' = [s \in Streams |-> IF s \in Listeners(o)
                                 THEN Append(queue[s], published') ELSE queue[s]]
  /\ UNCHANGED <<pc, client, registry, members, joined>>

\* A full queue misses the event; the others do not.
Publish(o) ==
  /\ published < MaxEvents
  /\ published' = published + 1
  /\ queue' = [s \in Streams |-> IF s \in Listeners(o) /\ Len(queue[s]) < QueueSize
                                 THEN Append(queue[s], published') ELSE queue[s]]
  /\ UNCHANGED <<pc, client, registry, members, joined>>

Step(s) ==
  \/ Connect(s) \/ Start(s) \/ Receive(s) \/ Ping(s) \/ Resume(s)
  \/ Disconnect(s) \/ Finalize(s) \/ FallSilent(s)

Next == (\E s \in Streams : Step(s)) \/ (\E o \in Orgs : Publish(o))

Spec == Init /\ [][Next]_vars

\* The event loop runs what is ready, wait_for keeps its timeout, a connection
\* whose peer does not acknowledge is given up, and asyncgen hooks close what was
\* abandoned.  That a send completes is not assumed.
Fairness ==
  \A s \in Streams :
    /\ WF_vars(Start(s))
    /\ WF_vars(Receive(s) \/ Ping(s))
    /\ WF_vars(client[s] = "lost" /\ Disconnect(s))
    /\ WF_vars(Finalize(s))

FairSpec == Spec /\ Fairness

-----------------------------------------------------------------------------
(* Properties                                                              *)

\* Safety: the registry is exactly the running streams.  Each is in the list the
\* registry has for its organisation, whatever order others joined and were
\* finalised in, and no organisation keeps an entry without a stream.
RegistryIsExact ==
  /\ \A s \in Streams : Live(s) => joined[s] = registry[OrgOf[s]]
  /\ \A o \in Orgs :
       /\ Listeners(o) = {s \in Streams : Live(s) /\ OrgOf[s] = o}
       /\ registry[o] # None => Listeners(o) # {}

\* Refinement: the streams keep the promise of Fanout.  An event reaches every
\* running stream of its organisation that has room, and nobody else: a slow
\* administrator, or one being finalised, or a list that was emptied, dropped and
\* made anew costs the others nothing (_publish_sse goes through the registry, the
\* promise does not know it).
Listening ==
  [s \in Streams |-> CASE pc[s] \in {"off", "accepted"} -> "before"
                       [] Live(s)                       -> "now"
                       [] OTHER                         -> "over"]

Fan == INSTANCE Fanout WITH listening <- Listening, box <- queue

KeepsFanout == Fan!Spec

\* Liveness: a client that fell silent is found out and its queue removed, also
\* when its organisation has no more events: the ping is what finds it.
SilentAreRemoved ==
  \A s \in Streams : client[s] # "here" ~> pc[s] = "closed"
=============================================================================
