------------------------------ MODULE TokenBook ------------------------------
(***************************************************************************)
(* What the token endpoints promise, and nothing of how: a token is given  *)
(* out once and to one user, a revoked one stays revoked, and a password   *)
(* changes either by a code sent to the user's address or by a token of    *)
(* that user, which the change spends: it was not revoked and it is now.   *)
(***************************************************************************)

CONSTANTS Users, Tokens, Nobody

VARIABLES
  out,        \* whose token each one is, Nobody's before it is given out
  revoked,    \* the tokens revoked
  password    \* the token that chose each user's password; Nobody: a code did

vars == <<out, revoked, password>>

Init ==
  /\ out = [k \in Tokens |-> Nobody]
  /\ revoked = {}
  /\ password = [u \in Users |-> Nobody]

Issue(k, u) ==
  /\ out[k] = Nobody
  /\ out' = [out EXCEPT ![k] = u]
  /\ UNCHANGED <<revoked, password>>

Revoke(k) ==
  /\ out[k] # Nobody
  /\ revoked' = revoked \cup {k}
  /\ UNCHANGED <<out, password>>

Change(k) ==
  /\ out[k] # Nobody /\ k \notin revoked
  /\ password' = [password EXCEPT ![out[k]] = k]
  /\ revoked' = revoked \cup {k}
  /\ UNCHANGED out

Reset(u) ==
  /\ password' = [password EXCEPT ![u] = Nobody]
  /\ UNCHANGED <<out, revoked>>

Next ==
  \/ \E k \in Tokens : (\E u \in Users : Issue(k, u)) \/ Revoke(k) \/ Change(k)
  \/ \E u \in Users : Reset(u)

Spec == Init /\ [][Next]_vars
=============================================================================
