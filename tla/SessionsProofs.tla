--------------------------- MODULE SessionsProofs ---------------------------
(***************************************************************************)
(* Tokens and sessions, for any number of users, tokens and threads.       *)
(*                                                                         *)
(* ListIsHonest is not inductive: it needs that a token a client holds has *)
(* its row under the same user (Rowed), and what a handler between its     *)
(* check and its commit, or between its two queries, may still rely on     *)
(* (HoldsFor): the row of the token it is about to revoke, and a list that *)
(* contains all it owes.                                                   *)
(***************************************************************************)
EXTENDS Sessions, TLAPS

Rowed == \A k \in Tokens : handed[k] \in {Nobody, sessions[k]}

HoldsFor(t) ==
  /\ req[t].at = "change" => req[t].tok \in Tokens /\ sessions[req[t].tok] = req[t].user
  /\ req[t].at = "block" => req[t].tok \in Tokens /\ sessions[req[t].tok] \in Users
  /\ req[t].at = "list" => req[t].owed \subseteq req[t].seen /\ req[t].dead \subseteq blocked
  /\ req[t].at = "listed" => /\ req[t].owed \ blocked \subseteq req[t].seen
                             /\ req[t].seen \cap req[t].dead = {}

IInv ==
  /\ TypeOK
  /\ Rowed
  /\ \A t \in Threads : HoldsFor(t)

-----------------------------------------------------------------------------

\* The initial state.
LEMMA InitInv == Init => IInv
<1> SUFFICES ASSUME Init PROVE IInv
  OBVIOUS
<1>1. TypeOK
  BY DEF Init, TypeOK, Idle, Handler, Stage, Owner
<1>2. Rowed /\ \A t \in Threads : HoldsFor(t)
  BY DEF Init, Rowed, HoldsFor, Idle, Handler
<1>3. QED
  BY <1>1, <1>2 DEF IInv

\* What the other threads hold survives every step: no row changes its user once
\* it has one, and the blocklist only grows.
LEMMA OthersHold ==
  ASSUME IInv, NEW s \in Threads, blocked \subseteq blocked',
         \A k \in Tokens : sessions[k] \in Users => sessions'[k] = sessions[k],
         req'[s] = req[s]
  PROVE  HoldsFor(s)'
<1>1. HoldsFor(s) /\ (req[s].at # "idle" => req[s].user \in Users)
  BY DEF IInv, TypeOK
<1>2. QED
  BY <1>1 DEF HoldsFor

\* A step of thread t is judged by what t holds after it.
LEMMA OneThread ==
  ASSUME IInv, NEW t \in Threads, TypeOK', Rowed', HoldsFor(t)',
         blocked \subseteq blocked',
         \A k \in Tokens : sessions[k] \in Users => sessions'[k] = sessions[k],
         \A s \in Threads : s # t => req'[s] = req[s]
  PROVE  IInv'
<1>1. ASSUME NEW s \in Threads PROVE HoldsFor(s)'
  BY OthersHold
<1>2. QED
  BY <1>1 DEF IInv

\* A request begins, and holds no more than its user and a token.
LEMMA BeginStep ==
  ASSUME IInv, NEW t \in Threads, NEW at \in {"issue", "change", "block"},
         NEW u \in Users, NEW k \in Tokens \cup {Nobody}, Begin(t, at, u, k),
         UNCHANGED <<handed, expired, sessions, blocked>>,
         password' \in [Users -> Tokens \cup {Nobody}],
         at = "change" => k \in Tokens /\ sessions[k] = u,
         at = "block" => k \in Tokens /\ sessions[k] = u
  PROVE  IInv'
<1> DEFINE r == Handler(at, u, k)
<1>1. req' = [req EXCEPT ![t] = r] /\ req'[t] = r
  BY DEF Begin, IInv, TypeOK
<1>2. r = [at |-> at, user |-> u, tok |-> k, seen |-> {}, owed |-> {}, dead |-> {}]
  BY DEF Handler
<1> HIDE DEF r
<1>3. TypeOK'
  BY <1>1, <1>2 DEF IInv, TypeOK, Stage, Owner
<1>4. HoldsFor(t)'
  BY <1>1, <1>2 DEF HoldsFor
<1>5. QED
  BY <1>1, <1>3, <1>4, OneThread DEF IInv, Rowed, TypeOK

\* A request ends, with or without a blocklist row of its own.
LEMMA EndStep ==
  ASSUME IInv, NEW t \in Threads, End(t), UNCHANGED <<handed, expired, sessions, password>>,
         blocked \subseteq blocked', blocked' \in SUBSET Tokens
  PROVE  IInv'
<1>1. req' = [req EXCEPT ![t] = Idle] /\ req'[t] = Idle
  BY DEF End, IInv, TypeOK
<1>2. TypeOK'
  BY <1>1 DEF IInv, TypeOK, Idle, Handler, Stage, Owner
<1>3. HoldsFor(t)'
  BY <1>1 DEF HoldsFor, Idle, Handler
<1>4. QED
  BY <1>1, <1>2, <1>3, OneThread DEF IInv, Rowed, TypeOK

\* A presented token has its row, under the same user.
LEMMA PresentedHasRow ==
  ASSUME IInv, NEW k \in Tokens, Presented(k)
  PROVE  handed[k] \in Users /\ sessions[k] = handed[k]
BY DEF IInv, TypeOK, Owner, Rowed, Presented

\* The token's row and the token appear together.
LEMMA IssueStep == ASSUME IInv, NEW t \in Threads, IssueCommits(t) PROVE IInv'
<1> PICK k \in Tokens :
      /\ Fresh(k)
      /\ sessions' = [sessions EXCEPT ![k] = req[t].user]
      /\ handed' \in {handed, [handed EXCEPT ![k] = req[t].user]}
  BY DEF IssueCommits
<1>1. /\ req[t].at = "issue" /\ req[t].user \in Users
      /\ req' = [req EXCEPT ![t] = Idle] /\ req'[t] = Idle
      /\ UNCHANGED <<expired, blocked, password>>
  BY DEF IssueCommits, End, IInv, TypeOK
<1>2. TypeOK'
  BY <1>1 DEF IInv, TypeOK, Idle, Handler, Stage, Owner
<1>3. Rowed'
  BY <1>1 DEF IInv, TypeOK, Rowed, Fresh
<1>4. \A j \in Tokens : sessions[j] \in Users => sessions'[j] = sessions[j]
  BY NobodyAssumption DEF Fresh, IInv, TypeOK
<1>5. HoldsFor(t)'
  BY <1>1 DEF HoldsFor, Idle, Handler
<1>6. QED
  BY <1>1, <1>2, <1>3, <1>4, <1>5, OneThread DEF IInv, TypeOK

\* The password and the blocklist row.
LEMMA ChangeStep == ASSUME IInv, NEW t \in Threads, ChangeCommits(t) PROVE IInv'
<1> DEFINE r == Handler("issue", req[t].user, Nobody)
<1>1. /\ req[t].at = "change" /\ req[t].user \in Users /\ req[t].tok \in Tokens
      /\ blocked' = blocked \cup {req[t].tok}
      /\ password' = [password EXCEPT ![req[t].user] = req[t].tok]
      /\ req' = [req EXCEPT ![t] = r] /\ req'[t] = r
      /\ UNCHANGED <<handed, expired, sessions>>
  BY DEF ChangeCommits, IInv, TypeOK, HoldsFor
<1>2. r = [at |-> "issue", user |-> req[t].user, tok |-> Nobody,
           seen |-> {}, owed |-> {}, dead |-> {}]
  BY DEF Handler
<1> HIDE DEF r
<1>3. TypeOK'
  BY <1>1, <1>2 DEF IInv, TypeOK, Stage, Owner
<1>4. HoldsFor(t)'
  BY <1>1, <1>2 DEF HoldsFor
<1>5. QED
  BY <1>1, <1>3, <1>4, OneThread DEF IInv, Rowed, TypeOK

\* The first query of a list finds a row for every token it owes.
LEMMA ReadStep == ASSUME IInv, NEW t \in Threads, ListReadsRows(t) PROVE IInv'
<1> PICK c \in Tokens :
      /\ Presented(c)
      /\ req' = [req EXCEPT ![t] =
           [at |-> "list", user |-> handed[c], tok |-> c, seen |-> Rows(handed[c]),
            owed |-> {k \in Tokens : handed[k] = handed[c]} \ (expired \cup blocked),
            dead |-> blocked]]
  BY DEF ListReadsRows
<1> DEFINE owed == {k \in Tokens : handed[k] = handed[c]} \ (expired \cup blocked)
           r == [at |-> "list", user |-> handed[c], tok |-> c, seen |-> Rows(handed[c]),
                 owed |-> owed, dead |-> blocked]
<1>1. UNCHANGED <<handed, expired, sessions, blocked, password>>
  BY DEF ListReadsRows
<1>2. handed[c] \in Users
  BY PresentedHasRow
<1>3. owed \subseteq Rows(handed[c])
  BY <1>2, NobodyAssumption DEF Rows, IInv, Rowed
<1>4. Rows(handed[c]) \in SUBSET Tokens /\ owed \in SUBSET Tokens
  BY DEF Rows
<1>5. req' = [req EXCEPT ![t] = r] /\ req'[t] = r
  BY DEF IInv, TypeOK
<1> HIDE DEF owed
<1>6. TypeOK'
  BY <1>1, <1>2, <1>4, <1>5 DEF IInv, TypeOK, Stage, Owner
<1>7. HoldsFor(t)'
  BY <1>1, <1>3, <1>5 DEF HoldsFor
<1>8. QED
  BY <1>1, <1>5, <1>6, <1>7, OneThread DEF IInv, Rowed, TypeOK

\* The second query takes the revoked ones out.
LEMMA AnswerStep == ASSUME IInv, NEW t \in Threads, ListAnswers(t) PROVE IInv'
<1> DEFINE r == [req[t] EXCEPT !.at = "listed", !.seen = @ \ blocked]
<1>1. /\ req[t].at = "list" /\ UNCHANGED <<handed, expired, sessions, blocked, password>>
      /\ req' = [req EXCEPT ![t] = r] /\ req'[t] = r
  BY DEF ListAnswers, IInv, TypeOK
<1>2. /\ r.at = "listed" /\ r.user = req[t].user /\ r.tok = req[t].tok
      /\ r.seen = req[t].seen \ blocked /\ r.owed = req[t].owed /\ r.dead = req[t].dead
      /\ r \in [at : Stage, user : Owner, tok : Tokens \cup {Nobody}, seen : SUBSET Tokens,
                owed : SUBSET Tokens, dead : SUBSET Tokens]
  BY DEF IInv, TypeOK, Stage
<1>3. HoldsFor(t)
  BY DEF IInv
<1> HIDE DEF r
<1>4. TypeOK'
  BY <1>1, <1>2 DEF IInv, TypeOK
<1>5. HoldsFor(t)'
  BY <1>1, <1>2, <1>3 DEF HoldsFor
<1>6. QED
  BY <1>1, <1>4, <1>5, OneThread DEF IInv, Rowed, TypeOK

\* A token expires.
LEMMA ExpireStep == ASSUME IInv, NEW k \in Tokens, Expires(k) PROVE IInv'
<1>1. TypeOK' /\ Rowed'
  BY DEF IInv, TypeOK, Rowed, Expires
<1>2. ASSUME NEW s \in Threads PROVE HoldsFor(s)'
  BY OthersHold DEF Expires
<1>3. QED
  BY <1>1, <1>2 DEF IInv

-----------------------------------------------------------------------------

\* Every step preserves the invariant.
LEMMA NextInv == IInv /\ [Next]_vars => IInv'
<1> SUFFICES ASSUME IInv, [Next]_vars PROVE IInv'
  OBVIOUS
<1>1. ASSUME NEW t \in Threads, Serve(t) PROVE IInv'
  <2>1. CASE Login(t)
    <3>1. PICK u \in Users : Begin(t, "issue", u, Nobody)
      BY <2>1 DEF Login
    <3>2. QED
      BY <2>1, <3>1, BeginStep DEF Login, IInv, TypeOK
  <2>2. CASE ResetCommits(t)
    <3>1. PICK u \in Users : /\ Begin(t, "issue", u, Nobody)
                             /\ password' = [password EXCEPT ![u] = Nobody]
      BY <2>2 DEF ResetCommits
    <3>2. password' \in [Users -> Tokens \cup {Nobody}]
      BY <3>1 DEF IInv, TypeOK
    <3>3. QED
      BY <2>2, <3>1, <3>2, BeginStep DEF ResetCommits
  <2>3. CASE RefreshChecks(t)
    <3>1. PICK k \in Tokens : Presented(k) /\ Begin(t, "issue", handed[k], Nobody)
      BY <2>3 DEF RefreshChecks
    <3>2. QED
      BY <2>3, <3>1, BeginStep, PresentedHasRow DEF RefreshChecks, IInv, TypeOK
  <2>4. CASE ChangeChecks(t)
    <3>1. PICK k \in Tokens : Presented(k) /\ Begin(t, "change", handed[k], k)
      BY <2>4 DEF ChangeChecks
    <3>2. QED
      BY <2>4, <3>1, BeginStep, PresentedHasRow DEF ChangeChecks, IInv, TypeOK
  <2>5. CASE LogoutChecks(t)
    <3>1. PICK k \in Tokens : Presented(k) /\ Begin(t, "block", handed[k], k)
      BY <2>5 DEF LogoutChecks
    <3>2. QED
      BY <2>5, <3>1, BeginStep, PresentedHasRow DEF LogoutChecks, IInv, TypeOK
  <2>6. CASE RevokeChecks(t)
    <3>1. PICK k \in Tokens, c \in Tokens :
            /\ Presented(c) /\ sessions[k] = handed[c] /\ Begin(t, "block", sessions[k], k)
      BY <2>6 DEF RevokeChecks
    <3>2. QED
      BY <2>6, <3>1, BeginStep, PresentedHasRow DEF RevokeChecks, IInv, TypeOK
  <2>7. CASE RecordFails(t) \/ Ends(t)
    BY <2>7, EndStep DEF RecordFails, Ends, IInv, TypeOK
  <2>8. CASE BlockCommits(t)
    <3>1. req[t].tok \in Tokens
      BY <2>8 DEF BlockCommits, IInv, HoldsFor
    <3>2. QED
      BY <2>8, <3>1, EndStep DEF BlockCommits, IInv, TypeOK
  <2>9. CASE IssueCommits(t)
    BY <2>9, IssueStep
  <2>10. CASE ChangeCommits(t)
    BY <2>10, ChangeStep
  <2>11. CASE ListReadsRows(t)
    BY <2>11, ReadStep
  <2>12. CASE ListAnswers(t)
    BY <2>12, AnswerStep
  <2>13. QED
    BY <1>1, <2>1, <2>2, <2>3, <2>4, <2>5, <2>6, <2>7, <2>8, <2>9, <2>10, <2>11, <2>12
    DEF Serve
<1>2. CASE UNCHANGED vars
  BY <1>2 DEF vars, IInv, TypeOK, Rowed, HoldsFor
<1>3. QED
  BY <1>1, <1>2, ExpireStep DEF Next

\* The inductive invariant.
LEMMA Invariant == Spec => []IInv
BY InitInv, NextInv, PTL DEF Spec

-----------------------------------------------------------------------------

\* Rows, tokens and requests are well-formed: a request under way has a user that
\* exists, whatever token it was called with.
THEOREM TypeCorrect == Spec => []TypeOK
<1>1. IInv => TypeOK
  BY DEF IInv
<1>2. QED
  BY <1>1, Invariant, PTL

\* The list of sessions omits no usable token and shows no revoked one, although
\* its two queries see two moments.
THEOREM ListsAreHonest == Spec => []ListIsHonest
<1>1. IInv => ListIsHonest
  BY DEF IInv, ListIsHonest, HoldsFor
<1>2. QED
  BY <1>1, Invariant, PTL

\* Every step of the endpoints is a step of the book, or none.
LEMMA BookStep == IInv /\ [Next]_vars => [Book!Next]_(Book!vars)
<1> SUFFICES ASSUME IInv, [Next]_vars PROVE [Book!Next]_(Book!vars)
  OBVIOUS
<1> USE DEF Book!vars
<1>1. ASSUME NEW t \in Threads, IssueCommits(t) PROVE Book!Next
  <2>1. PICK k \in Tokens : Fresh(k) /\ sessions' = [sessions EXCEPT ![k] = req[t].user]
    BY <1>1 DEF IssueCommits
  <2>2. Book!Issue(k, req[t].user) /\ req[t].user \in Users
    BY <1>1, <2>1 DEF IssueCommits, Book!Issue, Fresh, IInv, TypeOK
  <2>3. QED
    BY <2>2 DEF Book!Next
<1>2. ASSUME NEW t \in Threads, ChangeCommits(t) PROVE Book!Next
  <2>1. req[t].tok \in Tokens /\ sessions[req[t].tok] = req[t].user /\ req[t].user \in Users
    BY <1>2 DEF ChangeCommits, IInv, TypeOK, HoldsFor
  <2>2. Book!Change(req[t].tok)
    BY <1>2, <2>1, NobodyAssumption DEF ChangeCommits, Book!Change
  <2>3. QED
    BY <2>1, <2>2 DEF Book!Next
<1>3. ASSUME NEW t \in Threads, BlockCommits(t) PROVE Book!Next
  <2>1. req[t].tok \in Tokens /\ sessions[req[t].tok] \in Users
    BY <1>3 DEF BlockCommits, IInv, HoldsFor
  <2>2. Book!Revoke(req[t].tok)
    BY <1>3, <2>1, NobodyAssumption DEF BlockCommits, Book!Revoke
  <2>3. QED
    BY <2>1, <2>2 DEF Book!Next
<1>4. ASSUME NEW t \in Threads, ResetCommits(t) PROVE Book!Next
  BY <1>4 DEF ResetCommits, Book!Next, Book!Reset
<1>5. ASSUME NEW t \in Threads, Serve(t),
             ~(IssueCommits(t) \/ ChangeCommits(t) \/ BlockCommits(t) \/ ResetCommits(t))
      PROVE  UNCHANGED <<sessions, blocked, password>>
  BY <1>5 DEF Serve, Login, RefreshChecks, RecordFails, ChangeChecks, LogoutChecks,
              RevokeChecks, ListReadsRows, ListAnswers, Ends
<1>6. ASSUME NEW k \in Tokens, Expires(k) PROVE UNCHANGED <<sessions, blocked, password>>
  BY <1>6 DEF Expires
<1>7. QED
  BY <1>1, <1>2, <1>3, <1>4, <1>5, <1>6 DEF Next, vars

\* Tokens and passwords keep the book: no token changes a password twice, or once
\* it is revoked, however the requests overlap.
THEOREM BookIsKept == Spec => KeepsBook
<1>1. Init => Book!Init
  BY DEF Init, Book!Init
<1>2. QED
  BY <1>1, BookStep, Invariant, PTL DEF Spec, KeepsBook, Book!Spec
=============================================================================
