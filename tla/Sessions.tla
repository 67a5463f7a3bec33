------------------------------ MODULE Sessions ------------------------------
(***************************************************************************)
(* Access tokens, the table of sessions and the blocklist (api/auth.py).   *)
(*                                                                         *)
(* A token is a signed JWT: what it says (its user, its expiry) is in the  *)
(* client's hands, and the server keeps one user_sessions row per token it *)
(* issued and one token_blocklist row per token it revoked.  Each request  *)
(* runs on a thread with a database session of its own, and other requests *)
(* run between its queries and its commit.  Nothing is locked; what the    *)
(* database refuses is a second blocklist row for one token (the jti is    *)
(* the primary key), whose transaction is rolled back.  Rows are never     *)
(* deleted.                                                                *)
(*                                                                         *)
(* Passwords are not distinguished by their text but by who chose them:    *)
(* the token presented, or a code sent by mail.  How a code is accepted is *)
(* in Accounts.                                                            *)
(***************************************************************************)

CONSTANTS
  Users, Tokens,
  Threads,   \* the server threads that serve requests
  Nobody

ASSUME NobodyAssumption == Nobody \notin Users \cup Tokens

VARIABLES
  handed,     \* the user of each token a client holds
  expired,    \* the tokens whose exp is past
  sessions,   \* user_sessions: the user of each row, by token
  blocked,    \* token_blocklist
  password,   \* the token that chose each user's password; Nobody: a code did
  req         \* what each thread is doing, and what its handler holds

vars == <<handed, expired, sessions, blocked, password, req>>

Owner == Users \cup {Nobody}

\* owed and dead are history: the tokens a list must not omit, and those it must
\* not show.
Handler(at, u, k) ==
  [at |-> at, user |-> u, tok |-> k, seen |-> {}, owed |-> {}, dead |-> {}]

Idle == Handler("idle", Nobody, Nobody)

Stage == {"idle", "issue", "change", "block", "list", "listed"}

TypeOK ==
  /\ handed \in [Tokens -> Owner]
  /\ expired \in SUBSET Tokens
  /\ sessions \in [Tokens -> Owner]
  /\ blocked \in SUBSET Tokens
  /\ password \in [Users -> Tokens \cup {Nobody}]
  /\ req \in [Threads -> [at : Stage, user : Owner, tok : Tokens \cup {Nobody},
                          seen : SUBSET Tokens, owed : SUBSET Tokens,
                          dead : SUBSET Tokens]]
  /\ \A t \in Threads : req[t].at # "idle" => req[t].user \in Users

Init ==
  /\ handed = [k \in Tokens |-> Nobody]
  /\ expired = {}
  /\ sessions = [k \in Tokens |-> Nobody]
  /\ blocked = {}
  /\ password = [u \in Users |-> Nobody]
  /\ req = [t \in Threads |-> Idle]

\* Mutant: the token is decoded and its signature not verified.
Presented_Unsigned(k) == k \notin expired

\* _decode_token: a token of ours, not past its expiry.  The endpoints below ask
\* no more than this of the token they are called with.
Presented(k) == handed[k] # Nobody /\ k \notin expired

Begin(t, at, u, k) ==
  /\ req[t] = Idle
  /\ req' = [req EXCEPT ![t] = Handler(at, u, k)]

End(t) == req' = [req EXCEPT ![t] = Idle]

-----------------------------------------------------------------------------
(* A token is issued                                                       *)

\* login accepts the password of a verified account.
Login(t) ==
  /\ \E u \in Users : Begin(t, "issue", u, Nobody)
  /\ UNCHANGED <<handed, expired, sessions, blocked, password>>

\* The first commit of reset_password, which accepted a code.
ResetCommits(t) ==
  /\ \E u \in Users :
       /\ Begin(t, "issue", u, Nobody)
       /\ password' = [password EXCEPT ![u] = Nobody]
  /\ UNCHANGED <<handed, expired, sessions, blocked>>

RefreshChecks(t) ==
  /\ \E k \in Tokens : Presented(k) /\ Begin(t, "issue", handed[k], Nobody)
  /\ UNCHANGED <<handed, expired, sessions, blocked, password>>

Fresh(k) == sessions[k] = Nobody /\ handed[k] = Nobody

\* Mutant: a failed insert of the session row is skipped and login goes on.
RecordFails_Skipped(t) ==
  /\ req[t].at = "issue"
  /\ \E k \in Tokens : Fresh(k) /\ handed' = [handed EXCEPT ![k] = req[t].user]
  /\ End(t)
  /\ UNCHANGED <<expired, sessions, blocked, password>>

\* _record_session swallows the failed flush, but the commit that follows is
\* refused by the session it left behind: the request ends with an error.
RecordFails(t) ==
  /\ req[t].at = "issue"
  /\ End(t)
  /\ UNCHANGED <<handed, expired, sessions, blocked, password>>

\* The row is committed and the token returned; the answer may be lost.
IssueCommits(t) ==
  /\ req[t].at = "issue"
  /\ \E k \in Tokens :
       /\ Fresh(k)
       /\ sessions' = [sessions EXCEPT ![k] = req[t].user]
       /\ handed' \in {handed, [handed EXCEPT ![k] = req[t].user]}
  /\ End(t)
  /\ UNCHANGED <<expired, blocked, password>>

-----------------------------------------------------------------------------
(* change_password, logout, revoke_session                                 *)

ChangeChecks(t) ==
  /\ \E k \in Tokens : Presented(k) /\ Begin(t, "change", handed[k], k)
  /\ UNCHANGED <<handed, expired, sessions, blocked, password>>

\* Mutant: as in logout, a token on the blocklist already is not inserted again.
ChangeCommits_Checked(t) ==
  /\ req[t].at = "change"
  /\ blocked' = blocked \cup {req[t].tok}
  /\ password' = [password EXCEPT ![req[t].user] = req[t].tok]
  /\ req' = [req EXCEPT ![t] = Handler("issue", req[t].user, Nobody)]
  /\ UNCHANGED <<handed, expired, sessions>>

\* The new password and the blocklist row are one transaction, refused when the
\* token has a row already; a token is issued next.
ChangeCommits(t) ==
  /\ req[t].at = "change" /\ req[t].tok \notin blocked
  /\ blocked' = blocked \cup {req[t].tok}
  /\ password' = [password EXCEPT ![req[t].user] = req[t].tok]
  /\ req' = [req EXCEPT ![t] = Handler("issue", req[t].user, Nobody)]
  /\ UNCHANGED <<handed, expired, sessions>>

LogoutChecks(t) ==
  /\ \E k \in Tokens : Presented(k) /\ k \notin blocked /\ Begin(t, "block", handed[k], k)
  /\ UNCHANGED <<handed, expired, sessions, blocked, password>>

\* The caller's token is any other one of the session's user.
RevokeChecks(t) ==
  /\ \E k, c \in Tokens :
       /\ Presented(c) /\ c # k
       /\ sessions[k] = handed[c] /\ k \notin blocked
       /\ Begin(t, "block", sessions[k], k)
  /\ UNCHANGED <<handed, expired, sessions, blocked, password>>

\* Refused when another request revoked the token since the check.
BlockCommits(t) ==
  /\ req[t].at = "block" /\ req[t].tok \notin blocked
  /\ blocked' = blocked \cup {req[t].tok}
  /\ End(t)
  /\ UNCHANGED <<handed, expired, sessions, password>>

-----------------------------------------------------------------------------
(* list_sessions                                                           *)

Rows(u) == {k \in Tokens : sessions[k] = u} \ expired

ListReadsRows(t) ==
  /\ req[t] = Idle
  /\ \E c \in Tokens :
       /\ Presented(c)
       /\ req' = [req EXCEPT ![t] =
            [at |-> "list", user |-> handed[c], tok |-> c, seen |-> Rows(handed[c]),
             owed |-> {k \in Tokens : handed[k] = handed[c]} \ (expired \cup blocked),
             dead |-> blocked]]
  /\ UNCHANGED <<handed, expired, sessions, blocked, password>>

\* A second query leaves out the rows revoked by now.
ListAnswers(t) ==
  /\ req[t].at = "list"
  /\ req' = [req EXCEPT ![t].at = "listed", ![t].seen = @ \ blocked]
  /\ UNCHANGED <<handed, expired, sessions, blocked, password>>

-----------------------------------------------------------------------------
\* The answer is out, the database refuses or fails, or the process dies: what
\* was not committed is rolled back.
Ends(t) ==
  /\ req[t].at \in Stage \ {"idle", "issue"}
  /\ End(t)
  /\ UNCHANGED <<handed, expired, sessions, blocked, password>>

Expires(k) ==
  /\ sessions[k] # Nobody /\ k \notin expired
  /\ expired' = expired \cup {k}
  /\ UNCHANGED <<handed, sessions, blocked, password, req>>

Serve(t) ==
  \/ Login(t) \/ ResetCommits(t) \/ RefreshChecks(t)
  \/ RecordFails(t) \/ IssueCommits(t)
  \/ ChangeChecks(t) \/ ChangeCommits(t)
  \/ LogoutChecks(t) \/ RevokeChecks(t) \/ BlockCommits(t)
  \/ ListReadsRows(t) \/ ListAnswers(t)
  \/ Ends(t)

Next == (\E t \in Threads : Serve(t)) \/ (\E k \in Tokens : Expires(k))

Spec == Init /\ [][Next]_vars

-----------------------------------------------------------------------------
(* Properties                                                              *)

\* Safety: the list of sessions a user is shown omits no token of theirs that was
\* usable from the request's start to its end, and shows none that was revoked
\* before the request came.  It rests on no token ever reaching a client without
\* its row, whatever failed while it was issued.
ListIsHonest ==
  \A t \in Threads :
    req[t].at = "listed" => /\ req[t].owed \ (blocked \cup expired) \subseteq req[t].seen
                            /\ req[t].seen \cap req[t].dead = {}

\* Refinement: a token spends itself on one change of password, although the
\* endpoint never asks whether the token is revoked: the blocklist's key refuses
\* the second, also of two that overlapped, or one that overlapped a logout.
Book == INSTANCE TokenBook WITH out <- sessions, revoked <- blocked

KeepsBook == Book!Spec
=============================================================================
