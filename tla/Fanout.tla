------------------------------- MODULE Fanout -------------------------------
(***************************************************************************)
(* What the administrators' streams promise, and nothing of how: a client  *)
(* listens once, from some moment to another; an event of its organisation *)
(* is put into the box of each client that listens and has room, in the    *)
(* order of publication, and into no other box; and what is in a box       *)
(* leaves it from the front.  The registry, its lists and the generators   *)
(* that share them are not part of the promise.                            *)
(***************************************************************************)
EXTENDS Naturals, Sequences

CONSTANTS Streams, Orgs, OrgOf, QueueSize, MaxEvents

VARIABLES
  listening,  \* has each client listened: "before", "now" or "over"
  box,        \* the events waiting for each client
  published   \* how many events there were

vars == <<listening, box, published>>

Init ==
  /\ listening = [s \in Streams |-> "before"]
  /\ box = [s \in Streams |-> <<>>]
  /\ published = 0

Join(s) ==
  /\ listening[s] = "before"
  /\ listening' = [listening EXCEPT ![s] = "now"]
  /\ UNCHANGED <<box, published>>

Leave(s) ==
  /\ listening[s] # "over"
  /\ listening' = [listening EXCEPT ![s] = "over"]
  /\ UNCHANGED <<box, published>>

Take(s) ==
  /\ listening[s] = "now" /\ box[s] # <<>>
  /\ box' = [box EXCEPT ![s] = Tail(@)]
  /\ UNCHANGED <<listening, published>>

Announce(o) ==
  /\ published < MaxEvents
  /\ published' = published + 1
  /\ box' = [s \in Streams |->
               IF listening[s] = "now" /\ OrgOf[s] = o /\ Len(box[s]) < QueueSize
               THEN Append(box[s], published') ELSE box[s]]
  /\ UNCHANGED listening

Next ==
  \/ \E s \in Streams : Join(s) \/ Leave(s) \/ Take(s)
  \/ \E o \in Orgs : Announce(o)

Spec == Init /\ [][Next]_vars
=============================================================================
