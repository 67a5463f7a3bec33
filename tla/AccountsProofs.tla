--------------------------- MODULE AccountsProofs ---------------------------
(***************************************************************************)
(* The codes, invitations and tokens of Accounts, for any number of        *)
(* addresses, invitations, codes and threads.                              *)
(*                                                                         *)
(* The argument for the codes: a code waiting in a handler to be stored is *)
(* not in any row, is not held by another handler and was never spent      *)
(* (Fresh).  So no commit brings a spent code back, however late it is.    *)
(***************************************************************************)
EXTENDS Accounts, TLAPS

\* The code a handler is about to store is its own.
Fresh(t) ==
  req[t].at \in Generating =>
    /\ req[t].code \in made
    /\ \A e \in Emails : users[e].otp # req[t].code
    /\ \A u \in Threads : u # t => req[u].code # req[t].code
    /\ \A e \in Emails : <<e, req[t].code>> \notin spent

\* Every code that is stored, held or spent was generated.
Generated ==
  /\ \A e \in Emails : users[e].otp \in made \cup {NoCode}
  /\ \A t \in Threads : req[t].code \in made \cup {NoCode}
  /\ \A e \in Emails, c \in Codes : <<e, c>> \in spent => c \in made

\* What a handler knows of the row it works for.
Holds(t) ==
  /\ req[t].at \in Generating \cup Spending \cup {"send", "issue"} => req[t].email \in Emails
  /\ req[t].at \in Generating \cup Spending \cup {"send"} => req[t].code \in Codes
  /\ req[t].at \in {"register", "registered"} => req[t].invite \in Invites \cup {Founder}
  /\ req[t].at = "revoke" => req[t].invite \in Invites
  /\ req[t].at = "registered" =>
       <<req[t].email, req[t].code>> \in (IF smtp THEN mailed ELSE logged)
  /\ req[t].at \in Spending \cup {"renew", "send", "issue"} => users[req[t].email] # Absent
  /\ req[t].at = "issue" => users[req[t].email].verified

\* Every account's address was mailed a code, or had one logged for it.
AccountsWereMailed ==
  \A e \in Emails : users[e] # Absent => \E c \in Codes : <<e, c>> \in mailed \cup logged

IInv ==
  /\ TypeOK
  /\ Generated
  /\ \A t \in Threads : Fresh(t) /\ Holds(t)
  /\ \A e \in Emails : users[e].joined = Nobody => users[e] = Absent
  /\ SpentCodesStayDead
  /\ AccountsWereMailed
  /\ InvitesAccountForMembers
  /\ TokensAreVerified

-----------------------------------------------------------------------------
(* What the helpers do to the threads                                      *)

Row == [joined : Invites \cup {Nobody, Founder}, verified : BOOLEAN,
        otp : Codes \cup {NoCode}, live : BOOLEAN]

ReqRec == [at : Stage, email : Emails \cup {Nobody},
           invite : Invites \cup {Nobody, Founder}, code : Codes \cup {NoCode}]

\* Only thread t moves, and its record becomes r.
Moves(t, r) ==
  /\ req' \in [Threads -> ReqRec]
  /\ req'[t] = r
  /\ \A u \in Threads : u # t => req'[u] = req[u]

\* A request begins.
LEMMA BeginMoves ==
  ASSUME TypeOK, NEW t \in Threads, NEW at \in Stage, NEW e \in Emails \cup {Nobody},
         NEW i \in Invites \cup {Nobody, Founder}, NEW c \in Codes \cup {NoCode},
         Begin(t, at, e, i, c)
  PROVE  Moves(t, [at |-> at, email |-> e, invite |-> i, code |-> c]) /\ req[t] = Idle
BY DEF TypeOK, ReqRec, Begin, Moves

\* A request goes on.
LEMMA ContinueMoves ==
  ASSUME TypeOK, NEW t \in Threads, NEW from, NEW to \in Stage, Continue(t, from, to)
  PROVE  /\ Moves(t, [at |-> to, email |-> req[t].email, invite |-> req[t].invite,
                      code |-> req[t].code])
         /\ req[t].at = from
<1>1. req \in [Threads -> ReqRec]
  BY DEF TypeOK, ReqRec
<1>2. req[t] \in ReqRec
  BY <1>1
<1>3. [req[t] EXCEPT !.at = to] = [at |-> to, email |-> req[t].email,
                                   invite |-> req[t].invite, code |-> req[t].code]
  BY <1>2 DEF ReqRec
<1>4. req' = [req EXCEPT ![t] = [req[t] EXCEPT !.at = to]]
  BY DEF Continue
<1>5. [at |-> to, email |-> req[t].email, invite |-> req[t].invite,
       code |-> req[t].code] \in ReqRec
  BY <1>2 DEF ReqRec
<1>6. QED
  BY <1>1, <1>3, <1>4, <1>5 DEF Moves, Continue

\* A request ends.
LEMMA EndMoves ==
  ASSUME TypeOK, NEW t \in Threads, End(t)
  PROVE  Moves(t, Idle)
<1>1. Idle \in ReqRec
  BY DEF Idle, ReqRec, Stage
<1>2. QED
  BY <1>1 DEF TypeOK, ReqRec, End, Moves

\* A row is written.
LEMMA UserWritten ==
  ASSUME TypeOK, NEW e \in Emails,
         NEW r \in Row,
         r.live => r.otp # NoCode, users' = [users EXCEPT ![e] = r]
  PROVE  /\ users' \in [Emails -> Row]
         /\ \A f \in Emails : users'[f].live => users'[f].otp # NoCode
         /\ users'[e] = r
         /\ \A f \in Emails : f # e => users'[f] = users[f]
BY DEF TypeOK, Row

\* A code goes to its address or to the log, and neither forgets one.
LEMMA SendSends ==
  ASSUME TypeOK, NEW e \in Emails, NEW c \in Codes, Send(e, c)
  PROVE  /\ mailed' \in SUBSET (Emails \X Codes) /\ logged' \in SUBSET (Emails \X Codes)
         /\ mailed \subseteq mailed' /\ logged \subseteq logged'
BY DEF TypeOK, Send

\* Another handler's code stays its own when thread t moves.
LEMMA OthersFresh ==
  ASSUME IInv, NEW t \in Threads, NEW u \in Threads, u # t, NEW r, Moves(t, r),
         made \subseteq made',
         req[u].at \in Generating => r.code # req[u].code,
         \A e \in Emails : users'[e].otp \in {users[e].otp, NoCode, req[t].code},
         \A e \in Emails, c \in Codes :
            <<e, c>> \in spent' => <<e, c>> \in spent \/ c = req[t].code
  PROVE  Fresh(u)'
<1> SUFFICES ASSUME req'[u].at \in Generating PROVE Fresh(u)'
  BY DEF Fresh
<1>1. req'[u] = req[u] /\ req'[t] = r
  BY DEF Moves
<1>2. req[u].at \in Generating /\ req[u].code \in Codes
  BY <1>1 DEF IInv, Holds
<1>3. /\ req[u].code \in made
      /\ \A e \in Emails : users[e].otp # req[u].code
      /\ \A v \in Threads : v # u => req[v].code # req[u].code
      /\ \A e \in Emails : <<e, req[u].code>> \notin spent
  BY <1>2 DEF IInv, Fresh
<1>4. req[t].code # req[u].code /\ req[u].code # NoCode
  BY <1>2, <1>3, CodesAssumption
<1>5. \A e \in Emails : users'[e].otp # req[u].code
  BY <1>3, <1>4
<1>6. \A e \in Emails : <<e, req[u].code>> \notin spent'
  BY <1>2, <1>3, <1>4
<1>7. ASSUME NEW v \in Threads, v # u PROVE req'[v].code # req'[u].code
  <2>1. CASE v = t
    BY <1>1, <1>2, <2>1
  <2>2. CASE v # t
    BY <1>1, <1>3, <1>7, <2>2 DEF Moves
  <2>3. QED
    BY <2>1, <2>2
<1>8. QED
  BY <1>1, <1>3, <1>5, <1>6, <1>7 DEF Fresh

\* Thread t moves and no row of users changes: what is left to show concerns the
\* thread, the types, the invitations and the tokens.
LEMMA ThreadStep ==
  ASSUME IInv, NEW t \in Threads, NEW r, Moves(t, r), UNCHANGED <<users, smtp, spent>>,
         TypeOK', InvitesAccountForMembers', \A f \in tokens' : users[f].verified,
         made \subseteq made', mailed \subseteq mailed', logged \subseteq logged',
         r.code \in made' \cup {NoCode},
         \A u \in Threads : u # t /\ req[u].at \in Generating => r.code # req[u].code,
         Fresh(t)', Holds(t)'
  PROVE  IInv'
<1>1. Generated' /\ SpentCodesStayDead'
  BY DEF IInv, Generated, SpentCodesStayDead, Moves
<1>2. ASSUME NEW u \in Threads, u # t PROVE Fresh(u)'
  BY <1>2, OthersFresh
<1>3. ASSUME NEW u \in Threads, u # t PROVE Holds(u)'
  <2>1. Holds(u) /\ req'[u] = req[u]
    BY <1>3 DEF IInv, Moves
  <2>2. QED
    BY <2>1 DEF Holds, Absent, Account
<1>4. AccountsWereMailed' /\ TokensAreVerified'
  BY DEF IInv, AccountsWereMailed, TokensAreVerified, Absent, Account
<1>5. (\A f \in Emails : users[f].joined = Nobody => users[f] = Absent)'
  BY DEF IInv, Absent, Account
<1>6. QED
  BY <1>1, <1>2, <1>3, <1>4, <1>5 DEF IInv

-----------------------------------------------------------------------------
(* One lemma per step                                                      *)

\* The checks of register: the code is new.
LEMMA RegisterChecksStep == ASSUME IInv, NEW t \in Threads, RegisterChecks(t) PROVE IInv'
<1>1. PICK e \in Emails, i \in Invites \cup {Founder}, c \in Codes \ made :
        /\ users[e] = Absent
        /\ made' = made \cup {c}
        /\ Begin(t, "register", e, i, c)
        /\ UNCHANGED <<users, invites, mailed, logged, smtp, spent, tokens>>
  BY DEF RegisterChecks
<1>2. Moves(t, [at |-> "register", email |-> e, invite |-> i, code |-> c]) /\ req[t] = Idle
  <2>1. "register" \in Stage
    BY DEF Stage, Generating, Spending
  <2>2. QED
    BY <1>1, <2>1, BeginMoves DEF IInv
<1>3. TypeOK'
  BY <1>1, <1>2 DEF IInv, TypeOK, ReqRec, Moves
<1>4. \A u \in Threads : u # t /\ req[u].at \in Generating => c # req[u].code
  BY <1>1, <1>2, CodesAssumption DEF IInv, TypeOK, Generated, Fresh, Holds
<1>5. Fresh(t)'
  BY <1>1, <1>2, CodesAssumption
  DEF IInv, TypeOK, Generated, Fresh, Moves, Idle, Generating
<1>6. Holds(t)'
  BY <1>1, <1>2
  DEF IInv, TypeOK, Holds, Absent, Account, Moves, Idle, Generating, Spending
<1>7. InvitesAccountForMembers'
  BY <1>1, <1>2 DEF IInv, InvitesAccountForMembers
<1>8. \A f \in tokens' : users[f].verified
  BY <1>1, <1>2 DEF IInv, TokensAreVerified, Holds
<1>9. QED
  BY <1>1, <1>2, <1>3, <1>4, <1>5, <1>6, <1>7, <1>8, ThreadStep
  DEF IInv, Generated, Idle

\* The checks of verify_otp: the code is in the row.
LEMMA VerifyChecksStep == ASSUME IInv, NEW t \in Threads, VerifyChecks(t) PROVE IInv'
<1>1. PICK e \in Emails, c \in Codes :
        /\ Accepts(e, c)
        /\ Begin(t, "verify", e, Nobody, c)
        /\ UNCHANGED <<users, invites, made, mailed, logged, smtp, spent, tokens>>
  BY DEF VerifyChecks
<1>2. Moves(t, [at |-> "verify", email |-> e, invite |-> Nobody, code |-> c]) /\ req[t] = Idle
  <2>1. "verify" \in Stage
    BY DEF Stage, Generating, Spending
  <2>2. QED
    BY <1>1, <2>1, BeginMoves DEF IInv
<1>3. TypeOK'
  BY <1>1, <1>2 DEF IInv, TypeOK, ReqRec, Moves, Accepts
<1>4. \A u \in Threads : u # t /\ req[u].at \in Generating => c # req[u].code
  BY <1>1, <1>2, CodesAssumption DEF IInv, TypeOK, Generated, Fresh, Holds, Accepts
<1>5. Fresh(t)'
  BY <1>1, <1>2, CodesAssumption
  DEF IInv, TypeOK, Generated, Fresh, Moves, Idle, Generating, Accepts
<1>6. Holds(t)'
  BY <1>1, <1>2
  DEF IInv, TypeOK, Holds, Absent, Account, Moves, Idle, Generating, Spending, Accepts
<1>7. InvitesAccountForMembers'
  BY <1>1, <1>2 DEF IInv, InvitesAccountForMembers
<1>8. \A f \in tokens' : users[f].verified
  BY <1>1, <1>2 DEF IInv, TokensAreVerified, Holds
<1>9. QED
  BY <1>1, <1>2, <1>3, <1>4, <1>5, <1>6, <1>7, <1>8, ThreadStep
  DEF IInv, Generated, Idle, Accepts

\* The checks of reset_password: the code is in the row.
LEMMA ResetChecksStep == ASSUME IInv, NEW t \in Threads, ResetChecks(t) PROVE IInv'
<1>1. PICK e \in Emails, c \in Codes :
        /\ Accepts(e, c)
        /\ Begin(t, "reset", e, Nobody, c)
        /\ UNCHANGED <<users, invites, made, mailed, logged, smtp, spent, tokens>>
  BY DEF ResetChecks
<1>2. Moves(t, [at |-> "reset", email |-> e, invite |-> Nobody, code |-> c]) /\ req[t] = Idle
  <2>1. "reset" \in Stage
    BY DEF Stage, Generating, Spending
  <2>2. QED
    BY <1>1, <2>1, BeginMoves DEF IInv
<1>3. TypeOK'
  BY <1>1, <1>2 DEF IInv, TypeOK, ReqRec, Moves, Accepts
<1>4. \A u \in Threads : u # t /\ req[u].at \in Generating => c # req[u].code
  BY <1>1, <1>2, CodesAssumption DEF IInv, TypeOK, Generated, Fresh, Holds, Accepts
<1>5. Fresh(t)'
  BY <1>1, <1>2, CodesAssumption
  DEF IInv, TypeOK, Generated, Fresh, Moves, Idle, Generating, Accepts
<1>6. Holds(t)'
  BY <1>1, <1>2
  DEF IInv, TypeOK, Holds, Absent, Account, Moves, Idle, Generating, Spending, Accepts
<1>7. InvitesAccountForMembers'
  BY <1>1, <1>2 DEF IInv, InvitesAccountForMembers
<1>8. \A f \in tokens' : users[f].verified
  BY <1>1, <1>2 DEF IInv, TokensAreVerified, Holds
<1>9. QED
  BY <1>1, <1>2, <1>3, <1>4, <1>5, <1>6, <1>7, <1>8, ThreadStep
  DEF IInv, Generated, Idle, Accepts

\* The checks of login.
LEMMA LoginStep == ASSUME IInv, NEW t \in Threads, Login(t) PROVE IInv'
<1>1. PICK e \in Emails :
        /\ users[e] # Absent /\ users[e].verified
        /\ Begin(t, "issue", e, Nobody, NoCode)
        /\ UNCHANGED <<users, invites, made, mailed, logged, smtp, spent, tokens>>
  BY DEF Login
<1>2. Moves(t, [at |-> "issue", email |-> e, invite |-> Nobody, code |-> NoCode]) /\ req[t] = Idle
  <2>1. "issue" \in Stage
    BY DEF Stage, Generating, Spending
  <2>2. QED
    BY <1>1, <2>1, BeginMoves DEF IInv
<1>3. TypeOK'
  BY <1>1, <1>2 DEF IInv, TypeOK, ReqRec, Moves
<1>4. \A u \in Threads : u # t /\ req[u].at \in Generating => NoCode # req[u].code
  BY CodesAssumption DEF IInv, TypeOK, Fresh
<1>5. Fresh(t)'
  BY <1>1, <1>2, CodesAssumption
  DEF IInv, TypeOK, Generated, Fresh, Moves, Idle, Generating
<1>6. Holds(t)'
  BY <1>1, <1>2
  DEF IInv, TypeOK, Holds, Absent, Account, Moves, Idle, Generating, Spending
<1>7. InvitesAccountForMembers'
  BY <1>1, <1>2 DEF IInv, InvitesAccountForMembers
<1>8. \A f \in tokens' : users[f].verified
  BY <1>1, <1>2 DEF IInv, TokensAreVerified, Holds
<1>9. QED
  BY <1>1, <1>2, <1>3, <1>4, <1>5, <1>6, <1>7, <1>8, ThreadStep
  DEF IInv, Generated, Idle

\* The checks of resend_otp and forgot_password: the code is new.
LEMMA RenewChecksStep ==
  ASSUME IInv, NEW t \in Threads, ResendChecks(t) \/ ForgotChecks(t) PROVE IInv'
<1>1. PICK e \in Emails, c \in Codes \ made :
        /\ users[e] # Absent
        /\ made' = made \cup {c}
        /\ Begin(t, "renew", e, Nobody, c)
        /\ UNCHANGED <<users, invites, mailed, logged, smtp, spent, tokens>>
  BY DEF ResendChecks, ForgotChecks, RenewChecks
<1>2. Moves(t, [at |-> "renew", email |-> e, invite |-> Nobody, code |-> c]) /\ req[t] = Idle
  <2>1. "renew" \in Stage
    BY DEF Stage, Generating, Spending
  <2>2. QED
    BY <1>1, <2>1, BeginMoves DEF IInv
<1>3. TypeOK'
  BY <1>1, <1>2 DEF IInv, TypeOK, ReqRec, Moves
<1>4. \A u \in Threads : u # t /\ req[u].at \in Generating => c # req[u].code
  BY <1>1, <1>2, CodesAssumption DEF IInv, TypeOK, Generated, Fresh, Holds
<1>5. Fresh(t)'
  BY <1>1, <1>2, CodesAssumption
  DEF IInv, TypeOK, Generated, Fresh, Moves, Idle, Generating
<1>6. Holds(t)'
  BY <1>1, <1>2
  DEF IInv, TypeOK, Holds, Absent, Account, Moves, Idle, Generating, Spending
<1>7. InvitesAccountForMembers'
  BY <1>1, <1>2 DEF IInv, InvitesAccountForMembers
<1>8. \A f \in tokens' : users[f].verified
  BY <1>1, <1>2 DEF IInv, TokensAreVerified, Holds
<1>9. QED
  BY <1>1, <1>2, <1>3, <1>4, <1>5, <1>6, <1>7, <1>8, ThreadStep
  DEF IInv, Generated, Idle

\* The checks of revoke_invite.
LEMMA RevokeChecksStep == ASSUME IInv, NEW t \in Threads, RevokeChecks(t) PROVE IInv'
<1>1. PICK i \in Invites :
        /\ Begin(t, "revoke", Nobody, i, NoCode)
        /\ UNCHANGED <<users, invites, made, mailed, logged, smtp, spent, tokens>>
  BY DEF RevokeChecks
<1>2. Moves(t, [at |-> "revoke", email |-> Nobody, invite |-> i, code |-> NoCode]) /\ req[t] = Idle
  <2>1. "revoke" \in Stage
    BY DEF Stage, Generating, Spending
  <2>2. QED
    BY <1>1, <2>1, BeginMoves DEF IInv
<1>3. TypeOK'
  BY <1>1, <1>2 DEF IInv, TypeOK, ReqRec, Moves
<1>4. \A u \in Threads : u # t /\ req[u].at \in Generating => NoCode # req[u].code
  BY CodesAssumption DEF IInv, TypeOK, Fresh
<1>5. Fresh(t)'
  BY <1>1, <1>2, CodesAssumption
  DEF IInv, TypeOK, Generated, Fresh, Moves, Idle, Generating
<1>6. Holds(t)'
  BY <1>1, <1>2
  DEF IInv, TypeOK, Holds, Absent, Account, Moves, Idle, Generating, Spending
<1>7. InvitesAccountForMembers'
  BY <1>1, <1>2 DEF IInv, InvitesAccountForMembers
<1>8. \A f \in tokens' : users[f].verified
  BY <1>1, <1>2 DEF IInv, TokensAreVerified, Holds
<1>9. QED
  BY <1>1, <1>2, <1>3, <1>4, <1>5, <1>6, <1>7, <1>8, ThreadStep
  DEF IInv, Generated, Idle

\* The mail of register.
LEMMA RegisterMailsStep == ASSUME IInv, NEW t \in Threads, RegisterMails(t) PROVE IInv'
<1>1. /\ Continue(t, "register", "registered")
      /\ Send(req[t].email, req[t].code)
      /\ UNCHANGED <<users, invites, made, smtp, spent, tokens>>
  BY DEF RegisterMails
<1>2. Moves(t, [at |-> "registered", email |-> req[t].email, invite |-> req[t].invite,
                code |-> req[t].code]) /\ req[t].at = "register"
  <2>1. "registered" \in Stage
    BY DEF Stage, Generating
  <2>2. QED
    BY <1>1, <2>1, ContinueMoves DEF IInv
<1>3. TypeOK'
  <2>1. req[t].email \in Emails /\ req[t].code \in Codes
    BY <1>1, <1>2 DEF IInv, TypeOK, Holds, Generating, Spending
  <2>2. req' \in [Threads -> ReqRec]
    BY <1>2 DEF Moves
  <2>3. mailed' \in SUBSET (Emails \X Codes) /\ logged' \in SUBSET (Emails \X Codes)
    BY <1>1, <2>1, SendSends DEF IInv
  <2>4. QED
    BY <1>1, <1>2, <2>1, <2>2, <2>3 DEF IInv, TypeOK, ReqRec
<1>4. \A u \in Threads : u # t /\ req[u].at \in Generating => req[t].code # req[u].code
  BY <1>1, <1>2, CodesAssumption DEF IInv, TypeOK, Generated, Fresh, Holds
<1>5. Fresh(t)'
  <2>1. /\ req'[t].at \in Generating /\ req'[t].code = req[t].code
        /\ \A v \in Threads : v # t => req'[v].code = req[v].code
    BY <1>2 DEF Moves, Generating
  <2>2. Fresh(t) /\ req[t].at \in Generating
    BY <1>2 DEF IInv, Generating
  <2>3. QED
    BY <1>1, <2>1, <2>2 DEF Fresh
<1>6. Holds(t)'
  <2>1. /\ req'[t].at = "registered" /\ req'[t].code = req[t].code
        /\ req'[t].email = req[t].email /\ req'[t].invite = req[t].invite
    BY <1>2 DEF Moves
  <2>2. Holds(t)
    BY DEF IInv
  <2>3. <<req[t].email, req[t].code>> \in (IF smtp' THEN mailed' ELSE logged')
    BY <1>1 DEF Send
  <2>4. QED
    BY <1>1, <1>2, <2>1, <2>2, <2>3 DEF Holds, Generating, Spending
<1>7. InvitesAccountForMembers'
  BY <1>1, <1>2 DEF IInv, InvitesAccountForMembers
<1>8. \A f \in tokens' : users[f].verified
  BY <1>1, <1>2 DEF IInv, TokensAreVerified, Holds
<1>9. mailed \subseteq mailed' /\ logged \subseteq logged'
  BY <1>1 DEF Send
<1>10. QED
  BY <1>1, <1>2, <1>3, <1>4, <1>5, <1>6, <1>7, <1>8, <1>9, ThreadStep
  DEF IInv, Generated, Idle

\* A token is issued.
LEMMA IssueTokenStep == ASSUME IInv, NEW t \in Threads, IssueToken(t) PROVE IInv'
<1>1. /\ req[t].at = "issue" /\ End(t) /\ tokens' = tokens \cup {req[t].email}
      /\ UNCHANGED <<users, invites, made, mailed, logged, smtp, spent>>
  BY DEF IssueToken
<1>2. Moves(t, Idle)
  BY <1>1, EndMoves DEF IInv
<1>3. TypeOK'
  <2>1. req[t].email \in Emails
    BY <1>1, <1>2 DEF IInv, TypeOK, Holds, Generating, Spending
  <2>2. req' \in [Threads -> ReqRec]
    BY <1>2 DEF Moves
  <2>3. QED
    BY <1>1, <1>2, <2>1, <2>2 DEF IInv, TypeOK, ReqRec
<1>4. \A u \in Threads : u # t /\ req[u].at \in Generating => NoCode # req[u].code
  BY CodesAssumption DEF IInv, TypeOK, Fresh
<1>5. Fresh(t)'
  BY <1>1, <1>2, CodesAssumption
  DEF IInv, TypeOK, Generated, Fresh, Moves, Idle, Generating
<1>6. Holds(t)'
  BY <1>1, <1>2
  DEF IInv, TypeOK, Holds, Absent, Account, Moves, Idle, Generating, Spending
<1>7. InvitesAccountForMembers'
  BY <1>1, <1>2 DEF IInv, InvitesAccountForMembers
<1>8. \A f \in tokens' : users[f].verified
  BY <1>1, <1>2 DEF IInv, TokensAreVerified, Holds
<1>9. QED
  BY <1>1, <1>2, <1>3, <1>4, <1>5, <1>6, <1>7, <1>8, ThreadStep
  DEF IInv, Generated, Idle

\* A renewed code is sent.
LEMMA SendCodeStep == ASSUME IInv, NEW t \in Threads, SendCode(t) PROVE IInv'
<1>1. /\ req[t].at = "send" /\ End(t)
      /\ Send(req[t].email, req[t].code)
      /\ UNCHANGED <<users, invites, made, smtp, spent, tokens>>
  BY DEF SendCode
<1>2. Moves(t, Idle)
  BY <1>1, EndMoves DEF IInv
<1>3. TypeOK'
  <2>1. req[t].email \in Emails /\ req[t].code \in Codes
    BY <1>1, <1>2 DEF IInv, TypeOK, Holds, Generating, Spending
  <2>2. req' \in [Threads -> ReqRec]
    BY <1>2 DEF Moves
  <2>3. mailed' \in SUBSET (Emails \X Codes) /\ logged' \in SUBSET (Emails \X Codes)
    BY <1>1, <2>1, SendSends DEF IInv
  <2>4. QED
    BY <1>1, <1>2, <2>1, <2>2, <2>3 DEF IInv, TypeOK, ReqRec
<1>4. \A u \in Threads : u # t /\ req[u].at \in Generating => NoCode # req[u].code
  BY CodesAssumption DEF IInv, TypeOK, Fresh
<1>5. Fresh(t)'
  BY <1>1, <1>2, CodesAssumption
  DEF IInv, TypeOK, Generated, Fresh, Moves, Idle, Generating
<1>6. Holds(t)'
  BY <1>1, <1>2
  DEF IInv, TypeOK, Holds, Absent, Account, Moves, Idle, Generating, Spending
<1>7. InvitesAccountForMembers'
  BY <1>1, <1>2 DEF IInv, InvitesAccountForMembers
<1>8. \A f \in tokens' : users[f].verified
  BY <1>1, <1>2 DEF IInv, TokensAreVerified, Holds
<1>9. mailed \subseteq mailed' /\ logged \subseteq logged'
  BY <1>1 DEF Send
<1>10. QED
  BY <1>1, <1>2, <1>3, <1>4, <1>5, <1>6, <1>7, <1>8, <1>9, ThreadStep
  DEF IInv, Generated, Idle

\* The commit of revoke_invite.
LEMMA RevokeCommitsStep == ASSUME IInv, NEW t \in Threads, RevokeCommits(t) PROVE IInv'
<1>1. /\ req[t].at = "revoke" /\ End(t)
      /\ invites' = [invites EXCEPT ![req[t].invite].state = "deleted"]
      /\ UNCHANGED <<users, made, mailed, logged, smtp, spent, tokens>>
  BY DEF RevokeCommits
<1>2. Moves(t, Idle)
  BY <1>1, EndMoves DEF IInv
<1>3. TypeOK'
  <2>1. req[t].invite \in Invites
    BY <1>1, <1>2 DEF IInv, TypeOK, Holds, Generating, Spending
  <2>2. req' \in [Threads -> ReqRec]
    BY <1>2 DEF Moves
  <2>3. QED
    BY <1>1, <1>2, <2>1, <2>2 DEF IInv, TypeOK, ReqRec
<1>4. \A u \in Threads : u # t /\ req[u].at \in Generating => NoCode # req[u].code
  BY CodesAssumption DEF IInv, TypeOK, Fresh
<1>5. Fresh(t)'
  BY <1>1, <1>2, CodesAssumption
  DEF IInv, TypeOK, Generated, Fresh, Moves, Idle, Generating
<1>6. Holds(t)'
  BY <1>1, <1>2
  DEF IInv, TypeOK, Holds, Absent, Account, Moves, Idle, Generating, Spending
<1>7. InvitesAccountForMembers'
  BY <1>1, <1>2 DEF IInv, TypeOK, Holds, InvitesAccountForMembers
<1>8. \A f \in tokens' : users[f].verified
  BY <1>1, <1>2 DEF IInv, TokensAreVerified, Holds
<1>9. QED
  BY <1>1, <1>2, <1>3, <1>4, <1>5, <1>6, <1>7, <1>8, ThreadStep
  DEF IInv, Generated, Idle

\* A failure.
LEMMA FailsStep == ASSUME IInv, NEW t \in Threads, Fails(t) PROVE IInv'
<1>1. End(t) /\ UNCHANGED <<users, invites, made, mailed, logged, smtp, spent, tokens>>
  BY DEF Fails
<1>2. Moves(t, Idle)
  BY <1>1, EndMoves DEF IInv
<1>3. TypeOK'
  BY <1>1, <1>2 DEF IInv, TypeOK, ReqRec, Moves
<1>4. \A u \in Threads : u # t /\ req[u].at \in Generating => NoCode # req[u].code
  BY CodesAssumption DEF IInv, TypeOK, Fresh
<1>5. Fresh(t)'
  BY <1>1, <1>2, CodesAssumption
  DEF IInv, TypeOK, Generated, Fresh, Moves, Idle, Generating
<1>6. Holds(t)'
  BY <1>1, <1>2
  DEF IInv, TypeOK, Holds, Absent, Account, Moves, Idle, Generating, Spending
<1>7. InvitesAccountForMembers'
  BY <1>1, <1>2 DEF IInv, InvitesAccountForMembers
<1>8. \A f \in tokens' : users[f].verified
  BY <1>1, <1>2 DEF IInv, TokensAreVerified, Holds
<1>9. QED
  BY <1>1, <1>2, <1>3, <1>4, <1>5, <1>6, <1>7, <1>8, ThreadStep
  DEF IInv, Generated, Idle

\* The commit of register.
LEMMA RegisterCommitsStep == ASSUME IInv, NEW t \in Threads, RegisterCommits(t) PROVE IInv'
<1> DEFINE e == req[t].email
<1> DEFINE row == [joined |-> req[t].invite, verified |-> FALSE, otp |-> req[t].code, live |-> TRUE]
<1>1. /\ req[t].at = "registered" /\ End(t)
      /\ users[e] = Absent /\ users' = [users EXCEPT ![e] = row]
      /\ invites' = IF req[t].invite \in Invites THEN Consumed(t) ELSE invites
      /\ UNCHANGED <<made, mailed, logged, smtp, spent, tokens>>
  BY DEF RegisterCommits, NewUser, Account
<1>2. Moves(t, Idle)
  BY <1>1, EndMoves DEF IInv
<1>3. /\ e \in Emails /\ req[t].code \in Codes /\ req[t].invite \in Invites \cup {Founder}
      /\ <<e, req[t].code>> \in mailed \cup logged /\ Fresh(t) /\ req[t].at \in Generating
  BY <1>1 DEF IInv, Holds, Generating, Spending
<1>4. /\ TypeOK
      /\ row \in Row
      /\ row.otp # NoCode
  BY <1>3, CodesAssumption DEF IInv, TypeOK, Row
<1>5. /\ users' \in [Emails -> Row]
      /\ \A f \in Emails : users'[f].live => users'[f].otp # NoCode
      /\ users'[e] = row
      /\ \A f \in Emails : f # e => users'[f] = users[f]
  BY <1>1, <1>3, <1>4, UserWritten
<1>6. TypeOK'
  <2>1. req' \in [Threads -> ReqRec]
    BY <1>2 DEF Moves
  <2>2. invites' \in [Invites -> [state : {"none", "open", "expired", "used", "deleted"},
                               by : Emails \cup {Nobody}]]
    BY <1>1, <1>3 DEF IInv, TypeOK, Consumed
  <2>3. QED
    BY <1>1, <1>3, <1>5, <2>1, <2>2 DEF IInv, TypeOK, ReqRec, Row
<1> HIDE DEF e
<1>7. Generated' /\ SpentCodesStayDead'
  BY <1>1, <1>2, <1>3, <1>5, CodesAssumption
  DEF IInv, TypeOK, Generated, Fresh, SpentCodesStayDead, Moves, Idle
<1>8. ASSUME NEW u \in Threads PROVE Fresh(u)'
  <2>1. CASE u = t
    BY <1>2, <2>1 DEF Fresh, Moves, Idle, Generating
  <2>2. CASE u # t
    <3>1. req[u].at \in Generating => NoCode # req[u].code
      BY <1>3, <2>2, CodesAssumption DEF IInv, TypeOK, Generated, Fresh, Holds
    <3>2. \A f \in Emails : users'[f].otp \in {users[f].otp, NoCode, req[t].code}
      BY <1>5
    <3>3. \A f \in Emails, c \in Codes :
            <<f, c>> \in spent' => <<f, c>> \in spent \/ c = req[t].code
      BY <1>1
    <3>4. QED
      BY <1>1, <1>2, <2>2, <3>1, <3>2, <3>3, OthersFresh DEF Idle
  <2>3. QED
    BY <2>1, <2>2
<1>9. \A f \in Emails : users[f] # Absent =>
        users'[f] # Absent /\ (users[f].verified => users'[f].verified)
  BY <1>1, <1>3, <1>5, InvitesAssumption DEF IInv, TypeOK, Absent, Account
<1>10. ASSUME NEW u \in Threads PROVE Holds(u)'
  <2>1. CASE u = t
    BY <1>2, <1>3, <1>5, <1>9, <2>1 DEF Holds, Moves, Idle, Generating, Spending
  <2>2. CASE u # t
    <3>1. Holds(u) /\ req'[u] = req[u]
      BY <1>2, <2>2 DEF IInv, Moves
    <3>2. QED
      BY <1>1, <1>9, <3>1 DEF Holds, Generating, Spending
  <2>3. QED
    BY <2>1, <2>2
<1>11. (\A f \in Emails : users[f].joined = Nobody => users[f] = Absent)'
  BY <1>3, <1>5, InvitesAssumption DEF IInv, TypeOK, Absent, Account
<1>12. AccountsWereMailed' /\ TokensAreVerified'
  <2>1. \E c \in Codes : <<e, c>> \in mailed \cup logged
    BY <1>3 DEF IInv, AccountsWereMailed
  <2>2. AccountsWereMailed'
    BY <1>1, <1>5, <2>1 DEF IInv, AccountsWereMailed
  <2>3. \A f \in tokens : f \in Emails /\ users[f].verified /\ users[f] # Absent
    BY DEF IInv, TypeOK, TokensAreVerified, Absent, Account
  <2>4. TokensAreVerified'
    BY <1>1, <1>9, <2>3 DEF TokensAreVerified
  <2>5. QED
    BY <2>2, <2>4
<1>13. InvitesAccountForMembers'
  <2> SUFFICES ASSUME NEW i \in Invites
               PROVE  /\ invites'[i].state \in {"none", "open", "expired"} =>
                           \A f \in Emails : users'[f].joined # i
                      /\ invites'[i].state = "used" =>
                           invites'[i].by \in Emails /\ users'[invites'[i].by].joined = i
    BY DEF InvitesAccountForMembers
  <2>1. CASE i = req[t].invite
    <3>1. invites'[i] = [state |-> "used", by |-> e]
      BY <1>1, <2>1 DEF Consumed, IInv, TypeOK, e
    <3>2. QED
      BY <1>3, <1>5, <2>1, <3>1
  <2>2. CASE i # req[t].invite
    <3>1. invites'[i] = invites[i]
      BY <1>1, <2>2 DEF Consumed, IInv, TypeOK
    <3>2. users[e].joined = Nobody /\ users'[e].joined # i
      BY <1>1, <1>5, <2>2 DEF Absent, Account
    <3>3. /\ invites[i].state \in {"none", "open", "expired"} =>
               \A f \in Emails : users[f].joined # i
          /\ invites[i].state = "used" =>
               invites[i].by \in Emails /\ users[invites[i].by].joined = i
      BY DEF IInv, InvitesAccountForMembers
    <3>4. QED
      BY <1>5, <3>1, <3>2, <3>3, InvitesAssumption
  <2>3. QED
    BY <2>1, <2>2
<1>14. QED
  BY <1>6, <1>7, <1>8, <1>10, <1>11, <1>12, <1>13 DEF IInv

\* The commit of verify_otp and reset_password.
LEMMA SpendCodeStep == ASSUME IInv, NEW t \in Threads, SpendCode(t) PROVE IInv'
<1> DEFINE e == req[t].email
<1> DEFINE row == [joined |-> users[e].joined, verified |-> TRUE, otp |-> NoCode, live |-> FALSE]
<1>1. /\ \E from \in Spending : Continue(t, from, "issue")
      /\ users' = [users EXCEPT ![e] = row]
      /\ spent' = spent \cup {<<e, req[t].code>>}
      /\ UNCHANGED <<invites, made, mailed, logged, smtp, tokens>>
  BY DEF SpendCode, Account
<1>2. /\ Moves(t, [at |-> "issue", email |-> e, invite |-> req[t].invite, code |-> req[t].code])
      /\ req[t].at \in Spending
  <2>1. "issue" \in Stage
    BY DEF Stage
  <2>2. QED
    BY <1>1, <2>1, ContinueMoves DEF IInv
<1>3. e \in Emails /\ req[t].code \in Codes /\ users[e] # Absent
  BY <1>2 DEF IInv, Holds
<1>4. /\ TypeOK
      /\ row \in Row
  BY <1>3 DEF IInv, TypeOK, Row
<1>5. /\ users' \in [Emails -> Row]
      /\ \A f \in Emails : users'[f].live => users'[f].otp # NoCode
      /\ users'[e] = row
      /\ \A f \in Emails : f # e => users'[f] = users[f]
  BY <1>1, <1>3, <1>4, UserWritten
<1>6. TypeOK'
  <2>1. req' \in [Threads -> ReqRec]
    BY <1>2 DEF Moves
  <2>2. invites' \in [Invites -> [state : {"none", "open", "expired", "used", "deleted"},
                               by : Emails \cup {Nobody}]]
    BY <1>1, <1>3 DEF IInv, TypeOK
  <2>3. QED
    BY <1>1, <1>3, <1>5, <2>1, <2>2 DEF IInv, TypeOK, ReqRec, Row
<1> HIDE DEF e
<1>7. Generated' /\ SpentCodesStayDead'
  BY <1>1, <1>2, <1>3, <1>5, CodesAssumption
  DEF IInv, TypeOK, Generated, Fresh, SpentCodesStayDead, Moves, Idle
<1>8. ASSUME NEW u \in Threads PROVE Fresh(u)'
  <2>1. CASE u = t
    BY <1>2, <2>1 DEF Fresh, Moves, Idle, Generating
  <2>2. CASE u # t
    <3>1. req[u].at \in Generating => req[t].code # req[u].code
      BY <1>3, <2>2, CodesAssumption DEF IInv, TypeOK, Generated, Fresh, Holds
    <3>2. \A f \in Emails : users'[f].otp \in {users[f].otp, NoCode, req[t].code}
      BY <1>5
    <3>3. \A f \in Emails, c \in Codes :
            <<f, c>> \in spent' => <<f, c>> \in spent \/ c = req[t].code
      BY <1>1
    <3>4. QED
      BY <1>1, <1>2, <2>2, <3>1, <3>2, <3>3, OthersFresh DEF Idle
  <2>3. QED
    BY <2>1, <2>2
<1>9. \A f \in Emails : users[f] # Absent =>
        users'[f] # Absent /\ (users[f].verified => users'[f].verified)
  BY <1>1, <1>3, <1>5, InvitesAssumption DEF IInv, TypeOK, Absent, Account
<1>10. ASSUME NEW u \in Threads PROVE Holds(u)'
  <2>1. CASE u = t
    BY <1>2, <1>3, <1>5, <1>9, <2>1 DEF Holds, Moves, Idle, Generating, Spending
  <2>2. CASE u # t
    <3>1. Holds(u) /\ req'[u] = req[u]
      BY <1>2, <2>2 DEF IInv, Moves
    <3>2. QED
      BY <1>1, <1>9, <3>1 DEF Holds, Generating, Spending
  <2>3. QED
    BY <2>1, <2>2
<1>11. (\A f \in Emails : users[f].joined = Nobody => users[f] = Absent)'
  BY <1>3, <1>5, InvitesAssumption DEF IInv, TypeOK, Absent, Account
<1>12. AccountsWereMailed' /\ TokensAreVerified'
  <2>1. \E c \in Codes : <<e, c>> \in mailed \cup logged
    BY <1>3 DEF IInv, AccountsWereMailed
  <2>2. AccountsWereMailed'
    BY <1>1, <1>5, <2>1 DEF IInv, AccountsWereMailed
  <2>3. \A f \in tokens : f \in Emails /\ users[f].verified /\ users[f] # Absent
    BY DEF IInv, TypeOK, TokensAreVerified, Absent, Account
  <2>4. TokensAreVerified'
    BY <1>1, <1>9, <2>3 DEF TokensAreVerified
  <2>5. QED
    BY <2>2, <2>4
<1>13. InvitesAccountForMembers'
  BY <1>1, <1>3, <1>5, InvitesAssumption DEF IInv, TypeOK, InvitesAccountForMembers
<1>14. QED
  BY <1>6, <1>7, <1>8, <1>10, <1>11, <1>12, <1>13 DEF IInv

\* The commit of resend_otp and forgot_password.
LEMMA RenewCommitsStep == ASSUME IInv, NEW t \in Threads, RenewCommits(t) PROVE IInv'
<1> DEFINE e == req[t].email
<1> DEFINE row == [joined |-> users[e].joined, verified |-> users[e].verified,
                   otp |-> req[t].code, live |-> TRUE]
<1>1. /\ Continue(t, "renew", "send")
      /\ users' = [users EXCEPT ![e] = row]
      /\ UNCHANGED <<invites, made, mailed, logged, smtp, spent, tokens>>
  BY DEF RenewCommits, Account
<1>2. /\ Moves(t, [at |-> "send", email |-> e, invite |-> req[t].invite, code |-> req[t].code])
      /\ req[t].at = "renew"
  <2>1. "send" \in Stage
    BY DEF Stage
  <2>2. QED
    BY <1>1, <2>1, ContinueMoves DEF IInv
<1>3. /\ e \in Emails /\ req[t].code \in Codes /\ users[e] # Absent
      /\ Fresh(t) /\ req[t].at \in Generating
  BY <1>2 DEF IInv, Holds, Generating
<1>4. /\ TypeOK
      /\ row \in Row
      /\ row.otp # NoCode
  BY <1>3, CodesAssumption DEF IInv, TypeOK, Row
<1>5. /\ users' \in [Emails -> Row]
      /\ \A f \in Emails : users'[f].live => users'[f].otp # NoCode
      /\ users'[e] = row
      /\ \A f \in Emails : f # e => users'[f] = users[f]
  BY <1>1, <1>3, <1>4, UserWritten
<1>6. TypeOK'
  <2>1. req' \in [Threads -> ReqRec]
    BY <1>2 DEF Moves
  <2>2. invites' \in [Invites -> [state : {"none", "open", "expired", "used", "deleted"},
                               by : Emails \cup {Nobody}]]
    BY <1>1, <1>3 DEF IInv, TypeOK
  <2>3. QED
    BY <1>1, <1>3, <1>5, <2>1, <2>2 DEF IInv, TypeOK, ReqRec, Row
<1> HIDE DEF e
<1>7. Generated' /\ SpentCodesStayDead'
  <2>1. Generated'
    BY <1>1, <1>2, <1>3, <1>5 DEF IInv, Generated, Fresh, Moves
  <2>2. SpentCodesStayDead'
    BY <1>1, <1>3, <1>5 DEF IInv, Fresh, SpentCodesStayDead
  <2>3. QED
    BY <2>1, <2>2
<1>8. ASSUME NEW u \in Threads PROVE Fresh(u)'
  <2>1. CASE u = t
    BY <1>2, <2>1 DEF Fresh, Moves, Idle, Generating
  <2>2. CASE u # t
    <3>1. req[u].at \in Generating => req[t].code # req[u].code
      BY <1>3, <2>2, CodesAssumption DEF IInv, TypeOK, Generated, Fresh, Holds
    <3>2. \A f \in Emails : users'[f].otp \in {users[f].otp, NoCode, req[t].code}
      BY <1>5
    <3>3. \A f \in Emails, c \in Codes :
            <<f, c>> \in spent' => <<f, c>> \in spent \/ c = req[t].code
      BY <1>1
    <3>4. QED
      BY <1>1, <1>2, <2>2, <3>1, <3>2, <3>3, OthersFresh DEF Idle
  <2>3. QED
    BY <2>1, <2>2
<1>9. \A f \in Emails : users[f] # Absent =>
        users'[f] # Absent /\ (users[f].verified => users'[f].verified)
  BY <1>1, <1>3, <1>5, InvitesAssumption DEF IInv, TypeOK, Absent, Account
<1>10. ASSUME NEW u \in Threads PROVE Holds(u)'
  <2>1. CASE u = t
    BY <1>2, <1>3, <1>5, <1>9, <2>1 DEF Holds, Moves, Idle, Generating, Spending
  <2>2. CASE u # t
    <3>1. Holds(u) /\ req'[u] = req[u]
      BY <1>2, <2>2 DEF IInv, Moves
    <3>2. QED
      BY <1>1, <1>9, <3>1 DEF Holds, Generating, Spending
  <2>3. QED
    BY <2>1, <2>2
<1>11. (\A f \in Emails : users[f].joined = Nobody => users[f] = Absent)'
  BY <1>3, <1>5, InvitesAssumption DEF IInv, TypeOK, Absent, Account
<1>12. AccountsWereMailed' /\ TokensAreVerified'
  <2>1. \E c \in Codes : <<e, c>> \in mailed \cup logged
    BY <1>3 DEF IInv, AccountsWereMailed
  <2>2. AccountsWereMailed'
    BY <1>1, <1>5, <2>1 DEF IInv, AccountsWereMailed
  <2>3. \A f \in tokens : f \in Emails /\ users[f].verified /\ users[f] # Absent
    BY DEF IInv, TypeOK, TokensAreVerified, Absent, Account
  <2>4. TokensAreVerified'
    BY <1>1, <1>9, <2>3 DEF TokensAreVerified
  <2>5. QED
    BY <2>2, <2>4
<1>13. InvitesAccountForMembers'
  BY <1>1, <1>3, <1>5, InvitesAssumption DEF IInv, TypeOK, InvitesAccountForMembers
<1>14. QED
  BY <1>6, <1>7, <1>8, <1>10, <1>11, <1>12, <1>13 DEF IInv

-----------------------------------------------------------------------------
(* The steps of nobody's request                                           *)

\* Only the expiry of a pending code changes.
LEMMA CodeExpiresStep == ASSUME IInv, NEW e \in Emails, CodeExpires(e) PROVE IInv'
<1> DEFINE row == [joined |-> users[e].joined, verified |-> users[e].verified,
                   otp |-> users[e].otp, live |-> FALSE]
<1>1. /\ users[e].live /\ users' = [users EXCEPT ![e] = row]
      /\ UNCHANGED <<invites, req, made, mailed, logged, smtp, spent, tokens>>
  BY DEF CodeExpires, Account
<1>2. /\ TypeOK
      /\ row \in Row
  BY DEF IInv, TypeOK, Row
<1>3. /\ users' \in [Emails -> Row]
      /\ \A f \in Emails : users'[f].live => users'[f].otp # NoCode
      /\ users'[e] = row
      /\ \A f \in Emails : f # e => users'[f] = users[f]
  BY <1>1, <1>2, UserWritten
<1>4. \A f \in Emails :
        /\ users'[f].joined = users[f].joined
        /\ users'[f].otp = users[f].otp
        /\ users[f] = Absent => users'[f] = Absent
        /\ users'[f] = Absent => users[f] = Absent
        /\ users[f].verified => users'[f].verified
  <2>1. users[e] # Absent /\ users'[e] # Absent
    BY <1>1, <1>3, CodesAssumption DEF IInv, TypeOK, Absent, Account
  <2>2. QED
    BY <1>3, <2>1
<1>5. TypeOK'
  BY <1>1, <1>3 DEF IInv, TypeOK, Row
<1>6. Generated' /\ SpentCodesStayDead'
  BY <1>1, <1>4 DEF IInv, Generated, SpentCodesStayDead
<1>7. ASSUME NEW u \in Threads PROVE Fresh(u)' /\ Holds(u)'
  <2>1. Fresh(u) /\ Holds(u)
    BY DEF IInv
  <2>2. QED
    BY <1>1, <1>4, <2>1 DEF Fresh, Holds, Generating, Spending
<1>8. (\A f \in Emails : users[f].joined = Nobody => users[f] = Absent)'
  <2> SUFFICES ASSUME NEW f \in Emails, users'[f].joined = Nobody PROVE users'[f] = Absent
    BY DEF Absent, Account
  <2>1. users[f] = Absent
    BY <1>4 DEF IInv
  <2>2. QED
    BY <1>4, <2>1
<1>9. AccountsWereMailed' /\ TokensAreVerified' /\ InvitesAccountForMembers'
  <2>1. AccountsWereMailed'
    BY <1>1, <1>4 DEF IInv, AccountsWereMailed
  <2>2. TokensAreVerified'
    BY <1>1, <1>4 DEF IInv, TypeOK, TokensAreVerified
  <2>3. InvitesAccountForMembers'
    BY <1>1, <1>4 DEF IInv, InvitesAccountForMembers
  <2>4. QED
    BY <2>1, <2>2, <2>3
<1>10. QED
  BY <1>5, <1>6, <1>7, <1>8, <1>9 DEF IInv

\* An invitation is created or expires.
LEMMA InviteStep ==
  ASSUME IInv, NEW i \in Invites, CreateInvite(i) \/ InviteExpires(i) PROVE IInv'
<1>1. /\ invites[i].state \in {"none", "open"}
      /\ \E s \in {"open", "expired"} : invites' = [invites EXCEPT ![i].state = s]
      /\ UNCHANGED <<users, req, made, mailed, logged, smtp, spent, tokens>>
  BY DEF CreateInvite, InviteExpires, SetInvite
<1>2. TypeOK'
  BY <1>1 DEF IInv, TypeOK
<1>3. Generated' /\ SpentCodesStayDead' /\ AccountsWereMailed' /\ TokensAreVerified'
  BY <1>1 DEF IInv, Generated, SpentCodesStayDead, AccountsWereMailed, TokensAreVerified
<1>4. \A u \in Threads : Fresh(u)' /\ Holds(u)'
  BY <1>1 DEF IInv, Fresh, Holds
<1>5. InvitesAccountForMembers'
  BY <1>1 DEF IInv, TypeOK, InvitesAccountForMembers
<1>6. QED
  BY <1>1, <1>2, <1>3, <1>4, <1>5 DEF IInv

\* A deployment leaves no request to hold anything.
LEMMA RedeploysStep == ASSUME IInv, Redeploys PROVE IInv'
<1>1. /\ smtp' \in BOOLEAN /\ req' = [t \in Threads |-> Idle]
      /\ UNCHANGED <<users, invites, made, mailed, logged, spent, tokens>>
  BY LaterAssumption DEF Redeploys
<1>2. TypeOK'
  <2>1. Idle \in ReqRec
    BY DEF Idle, ReqRec, Stage
  <2>2. QED
    BY <1>1, <2>1 DEF IInv, TypeOK, ReqRec
<1>3. Generated' /\ SpentCodesStayDead' /\ AccountsWereMailed' /\ TokensAreVerified'
  BY <1>1 DEF IInv, Generated, SpentCodesStayDead, AccountsWereMailed, TokensAreVerified, Idle
<1>4. \A u \in Threads : Fresh(u)' /\ Holds(u)'
  BY <1>1 DEF Fresh, Holds, Idle, Generating, Spending
<1>5. InvitesAccountForMembers'
  BY <1>1 DEF IInv, InvitesAccountForMembers
<1>6. QED
  BY <1>1, <1>2, <1>3, <1>4, <1>5 DEF IInv

-----------------------------------------------------------------------------
(* The invariant and what follows from it                                  *)

\* The initial state.
LEMMA InitInv == Init => IInv
<1> SUFFICES ASSUME Init PROVE IInv
  OBVIOUS
<1> USE DEF Init
<1>1. TypeOK
  BY DEF TypeOK, Absent, Account, Idle, Stage
<1>2. Generated /\ SpentCodesStayDead /\ AccountsWereMailed /\ TokensAreVerified
  BY
  DEF Generated, SpentCodesStayDead, AccountsWereMailed, TokensAreVerified, Absent,
      Account, Idle
<1>3. \A t \in Threads : Fresh(t) /\ Holds(t)
  BY DEF Fresh, Holds, Idle, Generating, Spending
<1>4. InvitesAccountForMembers
  BY InvitesAssumption DEF InvitesAccountForMembers, Absent, Account
<1>5. QED
  BY <1>1, <1>2, <1>3, <1>4 DEF IInv, Absent, Account

\* Every step keeps the invariant.
LEMMA StepInv == IInv /\ [Next]_vars => IInv'
<1> SUFFICES ASSUME IInv, [Next]_vars PROVE IInv'
  OBVIOUS
<1>1. ASSUME NEW t \in Threads, Serve(t) PROVE IInv'
  <2>1. CASE Refuse(t)
    BY <2>1 DEF Refuse, vars, IInv, TypeOK, Generated, Fresh, Holds, SpentCodesStayDead,
                AccountsWereMailed, InvitesAccountForMembers, TokensAreVerified
  <2>2. QED
    BY <1>1, <2>1, RegisterChecksStep, RegisterMailsStep, RegisterCommitsStep,
       VerifyChecksStep, ResetChecksStep, SpendCodeStep, IssueTokenStep, LoginStep,
       RenewChecksStep, RenewCommitsStep, SendCodeStep, RevokeChecksStep,
       RevokeCommitsStep, FailsStep DEF Serve
<1>2. CASE UNCHANGED vars
  BY <1>2 DEF vars, IInv, TypeOK, Generated, Fresh, Holds, SpentCodesStayDead,
              AccountsWereMailed, InvitesAccountForMembers, TokensAreVerified
<1>3. QED
  BY <1>1, <1>2, CodeExpiresStep, InviteStep, RedeploysStep DEF Next

\* The inductive invariant holds in every reachable state.
LEMMA Invariant == Spec => []IInv
<1>1. QED
  BY InitInv, StepInv, PTL DEF Spec

\* Type correctness; a code never outlives its expiry column.
THEOREM TypeCorrect == Spec => []TypeOK
<1>1. IInv => TypeOK
  BY DEF IInv
<1>2. QED
  BY <1>1, Invariant, PTL

\* A code that was spent is never pending again, whatever requests overlapped.
THEOREM CodesDie == Spec => []SpentCodesStayDead
<1>1. IInv => SpentCodesStayDead
  BY DEF IInv
<1>2. QED
  BY <1>1, Invariant, PTL

\* The rows of invites account for the members in users.
THEOREM InvitationsBalance == Spec => []InvitesAccountForMembers
<1>1. IInv => InvitesAccountForMembers
  BY DEF IInv
<1>2. QED
  BY <1>1, Invariant, PTL

-----------------------------------------------------------------------------
(* Who joins, and when                                                     *)

\* An account's organisation is written by the commit of register and by nothing
\* else: every other commit leaves the column as the row has it.
LEMMA OnlyRegisterAdmits ==
  ASSUME IInv, [Next]_vars, NEW e \in Emails, users'[e].joined # users[e].joined
  PROVE  \E t \in Threads :
           RegisterCommits(t) /\ e = req[t].email /\ users'[e].joined = req[t].invite
<1>1. ASSUME NEW t \in Threads, RegisterCommits(t)
      PROVE  e = req[t].email /\ users'[e].joined = req[t].invite
  <2>1. users' = [users EXCEPT ![req[t].email] = NewUser(t)]
    BY <1>1 DEF RegisterCommits
  <2>2. e = req[t].email
    BY <2>1 DEF IInv, TypeOK
  <2>3. QED
    BY <2>1, <2>2 DEF NewUser, Account, IInv, TypeOK
<1>2. ASSUME NEW t \in Threads, SpendCode(t) \/ RenewCommits(t) PROVE FALSE
  <2>1. e = req[t].email => users'[e].joined = users[e].joined
    <3>1. CASE SpendCode(t)
      BY <3>1 DEF SpendCode, Account, IInv, TypeOK
    <3>2. CASE RenewCommits(t)
      BY <3>2 DEF RenewCommits, Account, IInv, TypeOK
    <3>3. QED
      BY <1>2, <3>1, <3>2
  <2>2. e # req[t].email => users'[e] = users[e]
    BY <1>2 DEF SpendCode, RenewCommits, Account, IInv, TypeOK
  <2>3. QED
    BY <2>1, <2>2
<1>3. ASSUME NEW f \in Emails, CodeExpires(f) PROVE FALSE
  BY <1>3 DEF CodeExpires, Account, IInv, TypeOK
<1>4. users' # users
  OBVIOUS
<1>5. QED
  BY <1>1, <1>2, <1>3, <1>4
  DEF Next, Serve, vars, RegisterChecks, RegisterMails, VerifyChecks, ResetChecks,
      IssueToken, Login, ResendChecks, ForgotChecks, RenewChecks, SendCode, RevokeChecks,
      RevokeCommits, Fails, Refuse, CreateInvite, InviteExpires, Redeploys

\* An account comes into being only after its own code was delivered or, on a server
\* without SMTP settings, logged; and only verified accounts hold tokens.
THEOREM AccountsWereReached == Spec => AccountsAreGenuine
<1>1. IInv /\ [Next]_vars => AdmitsAfterMail
  <2> SUFFICES ASSUME IInv, [Next]_vars, NEW e \in Emails,
                      users[e] = Absent, users'[e] # Absent
               PROVE  <<e, users'[e].otp>> \in (IF smtp THEN mailed ELSE logged)
    BY DEF AdmitsAfterMail
  <2>1. users'[e].joined # users[e].joined
    <3>1. IInv'
      BY StepInv
    <3>2. users'[e].joined # Nobody
      BY <3>1 DEF IInv
    <3>3. users[e].joined = Nobody
      BY DEF Absent, Account
    <3>4. QED
      BY <3>2, <3>3
  <2>2. PICK t \in Threads : RegisterCommits(t) /\ e = req[t].email
    BY <2>1, OnlyRegisterAdmits
  <2>3. users'[e].otp = req[t].code
    BY <2>2 DEF RegisterCommits, NewUser, Account, IInv, TypeOK
  <2>4. Holds(t) /\ req[t].at = "registered"
    BY <2>2 DEF IInv, RegisterCommits
  <2>5. QED
    BY <2>2, <2>3, <2>4 DEF Holds
<1>2. IInv => TokensAreVerified
  BY DEF IInv
<1>3. QED
  BY <1>1, <1>2, Invariant, PTL DEF Spec, AccountsAreGenuine

NothingLogged == logged = {}

EveryAddressMailed ==
  \A e \in Emails : users[e] # Absent => \E c \in Codes : <<e, c>> \in mailed

\* Where every deployment has SMTP settings, no account exists whose address was not
\* mailed a code: the promise of register's comment needs that condition and no other.
THEOREM MailedWhenConfigured == Spec /\ []smtp => []EveryAddressMailed
<1>1. Init => NothingLogged
  BY DEF Init, NothingLogged
<1>2. smtp /\ NothingLogged /\ [Next]_vars => NothingLogged'
  <2> SUFFICES ASSUME smtp, NothingLogged, [Next]_vars PROVE UNCHANGED logged
    BY DEF NothingLogged
  <2>1. ASSUME NEW t \in Threads, RegisterMails(t) \/ SendCode(t) PROVE UNCHANGED logged
    BY <2>1 DEF RegisterMails, SendCode, Send
  <2>2. QED
    BY <2>1
    DEF Next, Serve, vars, RegisterChecks, RegisterCommits, VerifyChecks, ResetChecks,
        SpendCode, IssueToken, Login, ResendChecks, ForgotChecks, RenewChecks, RenewCommits,
        RevokeChecks, RevokeCommits, Fails, Refuse, CodeExpires, CreateInvite,
        InviteExpires, Redeploys
<1>3. IInv /\ NothingLogged => EveryAddressMailed
  BY DEF IInv, AccountsWereMailed, NothingLogged, EveryAddressMailed
<1>4. QED
  BY <1>1, <1>2, <1>3, Invariant, PTL DEF Spec

\* Nobody joins with a revoked invitation, however the two requests overlap.
THEOREM RevocationHolds == Spec => RevokedAdmitsNobody
<1> DEFINE Admits == \A i \in Invites, e \in Emails :
      invites[i].state = "deleted" /\ users'[e].joined = i => users[e].joined = i
<1>1. IInv /\ [Next]_vars => Admits
  <2> SUFFICES ASSUME IInv, [Next]_vars, NEW i \in Invites, NEW e \in Emails,
                      invites[i].state = "deleted", users'[e].joined = i,
                      users[e].joined # i
               PROVE  FALSE
    OBVIOUS
  <2>1. PICK t \in Threads : RegisterCommits(t) /\ users'[e].joined = req[t].invite
    BY OnlyRegisterAdmits
  <2>2. QED
    BY <2>1 DEF RegisterCommits
<1>2. QED
  BY <1>1, Invariant, PTL DEF Spec, RevokedAdmitsNobody

-----------------------------------------------------------------------------
(* What it takes to use an invitation twice                                *)
(*                                                                         *)
(* InviteAdmitsOne is violated: register checks the invitation and marks   *)
(* it used in two steps.  Nothing else is: an invitation admits two only   *)
(* if two registrations hold it at once.                                   *)

Registering(t, i) == req[t].at \in {"register", "registered"} /\ req[t].invite = i

\* Two registrations are under way with one invitation.
Overlap ==
  \E i \in Invites, t, u \in Threads : t # u /\ Registering(t, i) /\ Registering(u, i)

\* A registration under way holds an invitation that nobody has used since.
HeldIsUnused ==
  \A t \in Threads, i \in Invites :
    Registering(t, i) => invites[i].state \in {"open", "expired", "deleted"}

\* A thread that registers after a step of another thread did so before it.
LEMMA OthersRegister ==
  ASSUME NEW t \in Threads, NEW u \in Threads, u # t, NEW r, Moves(t, r), NEW i
  PROVE  Registering(u, i)' <=> Registering(u, i)
BY DEF Moves, Registering

\* Without an overlap, a registration's own commit is the only one that uses the
\* invitation it holds.
LEMMA HeldStep == IInv /\ ~Overlap /\ HeldIsUnused /\ [Next]_vars => HeldIsUnused'
<1> SUFFICES ASSUME IInv, ~Overlap, HeldIsUnused, [Next]_vars,
                    NEW t \in Threads, NEW i \in Invites, Registering(t, i)'
             PROVE  invites'[i].state \in {"open", "expired", "deleted"}
  BY DEF HeldIsUnused
<1> USE DEF IInv
<1>1. ASSUME NEW u \in Threads, RegisterChecks(u)
      PROVE  invites'[i].state \in {"open", "expired", "deleted"}
  <2>1. PICK e \in Emails, j \in Invites \cup {Founder}, c \in Codes :
          /\ j \in Invites => invites[j].state = "open"
          /\ Begin(u, "register", e, j, c) /\ UNCHANGED invites
    BY <1>1 DEF RegisterChecks
  <2>2. Moves(u, [at |-> "register", email |-> e, invite |-> j, code |-> c])
    BY <2>1, BeginMoves DEF Stage, Generating
  <2>3. CASE u = t
    BY <2>1, <2>2, <2>3 DEF Moves, Registering
  <2>4. CASE u # t
    BY <2>1, <2>2, <2>4, OthersRegister DEF HeldIsUnused
  <2>5. QED
    BY <2>3, <2>4
<1>2. ASSUME NEW u \in Threads, RegisterMails(u)
      PROVE  invites'[i].state \in {"open", "expired", "deleted"}
  <2>1. Continue(u, "register", "registered") /\ UNCHANGED invites
    BY <1>2 DEF RegisterMails
  <2>2. /\ req[u].at = "register"
        /\ Moves(u, [at |-> "registered", email |-> req[u].email, invite |-> req[u].invite,
                     code |-> req[u].code])
    BY <2>1, ContinueMoves DEF Stage, Generating
  <2>3. Registering(t, i)
    BY <2>2, OthersRegister DEF Moves, Registering
  <2>4. QED
    BY <2>1, <2>3 DEF HeldIsUnused
<1>3. ASSUME NEW u \in Threads, RegisterCommits(u)
      PROVE  invites'[i].state \in {"open", "expired", "deleted"}
  <2>1. /\ End(u) /\ req[u].at = "registered"
        /\ invites' = IF req[u].invite \in Invites THEN Consumed(u) ELSE invites
    BY <1>3 DEF RegisterCommits
  <2>2. Moves(u, Idle)
    BY <2>1, EndMoves
  <2>3. u # t
    BY <2>2 DEF Moves, Registering, Idle
  <2>4. Registering(t, i)
    BY <2>2, <2>3, OthersRegister
  <2>5. req[u].invite # i
    BY <2>1, <2>3, <2>4 DEF Overlap, Registering
  <2>6. invites'[i] = invites[i]
    BY <2>1, <2>5 DEF Consumed, TypeOK
  <2>7. QED
    BY <2>4, <2>6 DEF HeldIsUnused
<1>4. ASSUME NEW u \in Threads, RevokeCommits(u)
      PROVE  invites'[i].state \in {"open", "expired", "deleted"}
  <2>1. End(u) /\ invites' = [invites EXCEPT ![req[u].invite].state = "deleted"]
    BY <1>4 DEF RevokeCommits
  <2>2. Moves(u, Idle)
    BY <2>1, EndMoves
  <2>3. Registering(t, i)
    BY <2>2, OthersRegister DEF Moves, Registering, Idle
  <2>4. invites'[i].state \in {invites[i].state, "deleted"}
    BY <2>1 DEF TypeOK
  <2>5. QED
    BY <2>3, <2>4 DEF HeldIsUnused
<1>5. ASSUME NEW j \in Invites, CreateInvite(j) \/ InviteExpires(j)
      PROVE  invites'[i].state \in {"open", "expired", "deleted"}
  <2>1. Registering(t, i)
    BY <1>5 DEF CreateInvite, InviteExpires, Registering
  <2>2. invites'[i].state \in {invites[i].state, "open", "expired"}
    BY <1>5 DEF CreateInvite, InviteExpires, SetInvite, TypeOK
  <2>3. QED
    BY <2>1, <2>2 DEF HeldIsUnused
<1>6. ASSUME NEW u \in Threads,
             VerifyChecks(u) \/ ResetChecks(u) \/ SpendCode(u) \/ IssueToken(u) \/ Login(u)
             \/ ResendChecks(u) \/ ForgotChecks(u) \/ RenewCommits(u) \/ SendCode(u)
             \/ RevokeChecks(u) \/ Fails(u) \/ Refuse(u)
      PROVE  invites'[i].state \in {"open", "expired", "deleted"}
  <2>1. UNCHANGED invites
    BY <1>6 DEF VerifyChecks, ResetChecks, SpendCode, IssueToken, Login, ResendChecks,
       ForgotChecks, RenewChecks, RenewCommits, SendCode, RevokeChecks, Fails, Refuse, vars
  <2>2. CASE VerifyChecks(u) \/ ResetChecks(u) \/ Login(u) \/ ResendChecks(u)
             \/ ForgotChecks(u) \/ RevokeChecks(u)
    <3>1. PICK at \in {"verify", "reset", "issue", "renew", "revoke"},
               e \in Emails \cup {Nobody}, j \in Invites \cup {Nobody, Founder},
               c \in Codes \cup {NoCode} : Begin(u, at, e, j, c)
      BY <2>2 DEF VerifyChecks, ResetChecks, Login, ResendChecks, ForgotChecks, RenewChecks,
         RevokeChecks
    <3>2. Moves(u, [at |-> at, email |-> e, invite |-> j, code |-> c])
      BY <3>1, BeginMoves DEF Stage, Generating, Spending
    <3>3. Registering(t, i)
      BY <3>2, OthersRegister DEF Moves, Registering
    <3>4. QED
      BY <2>1, <3>3 DEF HeldIsUnused
  <2>3. CASE SpendCode(u) \/ RenewCommits(u)
    <3>1. PICK from \in Spending \cup {"renew"}, to \in {"issue", "send"} : Continue(u, from, to)
      BY <2>3 DEF SpendCode, RenewCommits
    <3>2. Moves(u, [at |-> to, email |-> req[u].email, invite |-> req[u].invite,
                    code |-> req[u].code])
      BY <3>1, ContinueMoves DEF Stage
    <3>3. Registering(t, i)
      BY <3>2, OthersRegister DEF Moves, Registering
    <3>4. QED
      BY <2>1, <3>3 DEF HeldIsUnused
  <2>4. CASE IssueToken(u) \/ SendCode(u) \/ Fails(u)
    <3>1. Moves(u, Idle)
      BY <2>4, EndMoves DEF IssueToken, SendCode, Fails
    <3>2. Registering(t, i)
      BY <3>1, OthersRegister DEF Moves, Registering, Idle
    <3>3. QED
      BY <2>1, <3>2 DEF HeldIsUnused
  <2>5. CASE Refuse(u)
    BY <2>5 DEF Refuse, vars, Registering, HeldIsUnused
  <2>6. QED
    BY <1>6, <2>2, <2>3, <2>4, <2>5
<1>7. CASE (\E e \in Emails : CodeExpires(e)) \/ UNCHANGED vars
  BY <1>7 DEF CodeExpires, vars, Registering, HeldIsUnused
<1>8. CASE Redeploys
  BY <1>8 DEF Redeploys, Registering, Idle
<1>9. QED
  BY <1>1, <1>2, <1>3, <1>4, <1>5, <1>6, <1>7, <1>8 DEF Next, Serve

\* The commit that uses an unused invitation admits its first member.
LEMMA AdmitsOneStep ==
  IInv /\ HeldIsUnused /\ InviteAdmitsOne /\ [Next]_vars => InviteAdmitsOne'
<1> SUFFICES ASSUME IInv, HeldIsUnused, InviteAdmitsOne, [Next]_vars,
                    NEW e \in Emails, NEW f \in Emails, e # f,
                    users'[e].joined = users'[f].joined, users'[e].joined \in Invites
             PROVE  FALSE
  BY DEF InviteAdmitsOne
<1>1. ASSUME NEW g \in Emails, NEW h \in Emails, g # h,
             users'[g].joined = users'[h].joined, users'[g].joined \in Invites,
             users'[g].joined # users[g].joined
      PROVE  FALSE
  <2>1. PICK t \in Threads :
          RegisterCommits(t) /\ g = req[t].email /\ users'[g].joined = req[t].invite
    BY <1>1, OnlyRegisterAdmits
  <2>2. Registering(t, users'[g].joined) /\ invites[users'[g].joined].state # "deleted"
    BY <1>1, <2>1 DEF RegisterCommits, Registering
  <2>3. invites[users'[g].joined].state \in {"open", "expired"}
    BY <1>1, <2>2 DEF HeldIsUnused
  <2>4. users[h].joined # users'[g].joined
    BY <1>1, <2>3 DEF IInv, InvitesAccountForMembers
  <2>5. users'[h] = users[h]
    BY <1>1, <2>1 DEF RegisterCommits, IInv, TypeOK
  <2>6. QED
    BY <1>1, <2>4, <2>5
<1>2. CASE users'[e].joined = users[e].joined /\ users'[f].joined = users[f].joined
  BY <1>2 DEF InviteAdmitsOne
<1>3. QED
  BY <1>1, <1>2

\* As long as no two registrations hold one invitation at the same time, an
\* invitation admits one member: the check and the commit of register are the whole
\* of the race, and neither expiry nor revocation nor a crash adds to it.
THEOREM ReuseNeedsOverlap == Spec /\ []~Overlap => []InviteAdmitsOne
<1>1. Init => HeldIsUnused /\ InviteAdmitsOne
  BY InvitesAssumption
  DEF Init, HeldIsUnused, Registering, Idle, InviteAdmitsOne, Absent, Account
<1>2. QED
  BY <1>1, HeldStep, AdmitsOneStep, Invariant, PTL DEF Spec
=============================================================================
