------------------------------ MODULE Accounts ------------------------------
(***************************************************************************)
(* Accounts, their six-digit codes and the invitations that admit members  *)
(* (api/auth.py; the invitations of api/admin.py).                         *)
(*                                                                         *)
(* The endpoints are plain functions, so each request runs on a thread of  *)
(* the server's pool with a database session of its own.  It reads rows,   *)
(* checks them, spends up to seconds on bcrypt and SMTP, and commits: an   *)
(* UPDATE of the columns it changed, by primary key.  Nothing is locked    *)
(* and nothing is compared between the read and the commit.  What the      *)
(* database refuses is a second row for one address (users.email is        *)
(* unique) and, through the ORM, an UPDATE whose row is gone.              *)
(*                                                                         *)
(* An account's organisation row is inserted by the same transaction, so   *)
(* "founder" stands for both.  Passwords are not distinguished: whether    *)
(* one matches is left open.  A generated code was never generated before. *)
(***************************************************************************)
EXTENDS FiniteSets

CONSTANTS
  Emails,    \* the addresses
  Invites,   \* the invitations an administrator may create
  Codes,     \* the codes generate_otp may return
  Threads,   \* the server threads that serve requests
  Later,     \* whether a later deployment has SMTP settings: the possible answers
  Nobody, Founder, NoCode

ASSUME InvitesAssumption == Founder \notin Invites /\ Nobody \notin Invites \cup {Founder}
ASSUME CodesAssumption == NoCode \notin Codes
ASSUME EmailsAssumption == Nobody \notin Emails
ASSUME LaterAssumption == Later \subseteq BOOLEAN

VARIABLES
  users,     \* users rows by address: how it joined, is_verified, otp, otp_expires_at
  invites,   \* invites rows: state and used_by_email
  req,       \* what each thread is doing, and the values its handler holds
  made,      \* history: the codes generated
  smtp,      \* the server's settings name an SMTP host, user and password
  mailed,    \* history: the codes delivered, with the address
  logged,    \* history: the codes _send only wrote to the log, with the address
  spent,     \* history: the codes that verified an account or reset its password
  tokens     \* the addresses an access token was issued to

vars == <<users, invites, req, made, mailed, logged, smtp, spent, tokens>>

\* The columns of a users row; live: otp_expires_at is set and not past.
Account(joined, verified, otp, live) ==
  [joined |-> joined, verified |-> verified, otp |-> otp, live |-> live]

\* No row has this address.
Absent == Account(Nobody, FALSE, NoCode, FALSE)

Idle == [at |-> "idle", email |-> Nobody, invite |-> Nobody, code |-> NoCode]

\* The handler holds a code that is not in the database yet.
Generating == {"register", "registered", "renew"}

\* The handler has accepted a code.
Spending == {"verify", "reset"}

Stage == Generating \cup Spending \cup {"idle", "send", "issue", "revoke"}

\* A code and its expiry are set and cleared together.
TypeOK ==
  /\ users \in [Emails -> [joined : Invites \cup {Nobody, Founder}, verified : BOOLEAN,
                           otp : Codes \cup {NoCode}, live : BOOLEAN]]
  /\ \A e \in Emails : users[e].live => users[e].otp # NoCode
  /\ invites \in [Invites -> [state : {"none", "open", "expired", "used", "deleted"},
                              by : Emails \cup {Nobody}]]
  /\ req \in [Threads -> [at : Stage, email : Emails \cup {Nobody},
                          invite : Invites \cup {Nobody, Founder},
                          code : Codes \cup {NoCode}]]
  /\ made \in SUBSET Codes
  /\ smtp \in BOOLEAN
  /\ mailed \in SUBSET (Emails \X Codes)
  /\ logged \in SUBSET (Emails \X Codes)
  /\ spent \in SUBSET (Emails \X Codes)
  /\ tokens \in SUBSET Emails

Init ==
  /\ users = [e \in Emails |-> Absent]
  /\ invites = [i \in Invites |-> [state |-> "none", by |-> Nobody]]
  /\ req = [t \in Threads |-> Idle]
  /\ smtp \in BOOLEAN
  /\ made = {} /\ mailed = {} /\ logged = {} /\ spent = {} /\ tokens = {}

Begin(t, at, e, i, c) ==
  /\ req[t] = Idle
  /\ req' = [req EXCEPT ![t] = [at |-> at, email |-> e, invite |-> i, code |-> c]]

Continue(t, from, to) ==
  /\ req[t].at = from
  /\ req' = [req EXCEPT ![t].at = to]

End(t) == req' = [req EXCEPT ![t] = Idle]

\* send_otp_email returns: the code is delivered or, without SMTP settings, only
\* logged.  A delivery that raises is Fails.
Send(e, c) ==
  IF smtp
  THEN mailed' = mailed \cup {<<e, c>>} /\ UNCHANGED logged
  ELSE logged' = logged \cup {<<e, c>>} /\ UNCHANGED mailed

-----------------------------------------------------------------------------
(* register                                                                *)

\* The address is free and the invitation usable; the consumed invitation and
\* the new account are in the session only.
RegisterChecks(t) ==
  \E e \in Emails, i \in Invites \cup {Founder}, c \in Codes \ made :
    /\ users[e] = Absent
    /\ i \in Invites => invites[i].state = "open"
    /\ made' = made \cup {c}
    /\ Begin(t, "register", e, i, c)
    /\ UNCHANGED <<users, invites, mailed, logged, smtp, spent, tokens>>

\* Mutant: a failed delivery is logged and swallowed, as in forgot_password.
RegisterMails_Swallowed(t) ==
  /\ Continue(t, "register", "registered")
  /\ Send(req[t].email, req[t].code) \/ (smtp /\ UNCHANGED <<mailed, logged>>)
  /\ UNCHANGED <<users, invites, made, smtp, spent, tokens>>

\* Without SMTP settings the registration goes on as if the mail had been sent.
RegisterMails(t) ==
  /\ Continue(t, "register", "registered")
  /\ Send(req[t].email, req[t].code)
  /\ UNCHANGED <<users, invites, made, smtp, spent, tokens>>

Consumed(t) ==
  [invites EXCEPT ![req[t].invite] = [state |-> "used", by |-> req[t].email]]

NewUser(t) == Account(req[t].invite, FALSE, req[t].code, TRUE)

\* Mutant: the invitation is checked but never marked.
RegisterCommits_Unmarked(t) ==
  /\ req[t].at = "registered"
  /\ users[req[t].email] = Absent
  /\ req[t].invite \in Invites => invites[req[t].invite].state # "deleted"
  /\ users' = [users EXCEPT ![req[t].email] = NewUser(t)]
  /\ End(t)
  /\ UNCHANGED <<invites, made, mailed, logged, smtp, spent, tokens>>

\* Mutant: an UPDATE that matches no row goes unnoticed.
RegisterCommits_NoRowCount(t) ==
  /\ req[t].at = "registered"
  /\ users[req[t].email] = Absent
  /\ users' = [users EXCEPT ![req[t].email] = NewUser(t)]
  /\ invites' = IF req[t].invite \in Invites /\ invites[req[t].invite].state # "deleted"
                THEN Consumed(t) ELSE invites
  /\ End(t)
  /\ UNCHANGED <<made, mailed, logged, smtp, spent, tokens>>

\* One transaction for the invitation and the account, refused when the address
\* was taken or the invitation deleted since the checks.
RegisterCommits(t) ==
  /\ req[t].at = "registered"
  /\ users[req[t].email] = Absent
  /\ req[t].invite \in Invites => invites[req[t].invite].state # "deleted"
  /\ users' = [users EXCEPT ![req[t].email] = NewUser(t)]
  /\ invites' = IF req[t].invite \in Invites THEN Consumed(t) ELSE invites
  /\ End(t)
  /\ UNCHANGED <<made, mailed, logged, smtp, spent, tokens>>

-----------------------------------------------------------------------------
(* verify_otp, reset_password                                              *)

\* The account has this code pending and it has not expired.
Accepts(e, c) == users[e].otp = c /\ users[e].live

VerifyChecks(t) ==
  \E e \in Emails, c \in Codes :
    /\ ~users[e].verified /\ Accepts(e, c)
    /\ Begin(t, "verify", e, Nobody, c)
    /\ UNCHANGED <<users, invites, made, mailed, logged, smtp, spent, tokens>>

ResetChecks(t) ==
  \E e \in Emails, c \in Codes :
    /\ Accepts(e, c)
    /\ Begin(t, "reset", e, Nobody, c)
    /\ UNCHANGED <<users, invites, made, mailed, logged, smtp, spent, tokens>>

\* Mutant: the code stays in its column and only its expiry is cleared.
SpendCode_KeepsCode(t) ==
  /\ \E from \in Spending : Continue(t, from, "issue")
  /\ users' = [users EXCEPT ![req[t].email] = Account(@.joined, TRUE, @.otp, FALSE)]
  /\ spent' = spent \cup {<<req[t].email, req[t].code>>}
  /\ UNCHANGED <<invites, made, mailed, logged, smtp, tokens>>

\* Mutant: the expiry is left in its column.
SpendCode_KeepsExpiry(t) ==
  /\ \E from \in Spending : Continue(t, from, "issue")
  /\ users' = [users EXCEPT ![req[t].email] = Account(@.joined, TRUE, NoCode, @.live)]
  /\ spent' = spent \cup {<<req[t].email, req[t].code>>}
  /\ UNCHANGED <<invites, made, mailed, logged, smtp, tokens>>

\* The account is verified and has no pending code, whatever was stored there
\* since the check.
SpendCode(t) ==
  /\ \E from \in Spending : Continue(t, from, "issue")
  /\ users' = [users EXCEPT ![req[t].email] = Account(@.joined, TRUE, NoCode, FALSE)]
  /\ spent' = spent \cup {<<req[t].email, req[t].code>>}
  /\ UNCHANGED <<invites, made, mailed, logged, smtp, tokens>>

\* The token and its session row, in a commit of their own.
IssueToken(t) ==
  /\ req[t].at = "issue"
  /\ tokens' = tokens \cup {req[t].email}
  /\ End(t)
  /\ UNCHANGED <<users, invites, made, mailed, logged, smtp, spent>>

Login(t) ==
  \E e \in Emails :
    /\ users[e] # Absent /\ users[e].verified
    /\ Begin(t, "issue", e, Nobody, NoCode)
    /\ UNCHANGED <<users, invites, made, mailed, logged, smtp, spent, tokens>>

-----------------------------------------------------------------------------
(* resend_otp, forgot_password                                             *)

RenewChecks(t, e) ==
  \E c \in Codes \ made :
    /\ users[e] # Absent
    /\ made' = made \cup {c}
    /\ Begin(t, "renew", e, Nobody, c)
    /\ UNCHANGED <<users, invites, mailed, logged, smtp, spent, tokens>>

ResendChecks(t) == \E e \in Emails : ~users[e].verified /\ RenewChecks(t, e)

ForgotChecks(t) == \E e \in Emails : RenewChecks(t, e)

RenewCommits(t) ==
  /\ Continue(t, "renew", "send")
  /\ users' = [users EXCEPT ![req[t].email] =
                  Account(@.joined, @.verified, req[t].code, TRUE)]
  /\ UNCHANGED <<invites, made, mailed, logged, smtp, spent, tokens>>

SendCode(t) ==
  /\ req[t].at = "send"
  /\ Send(req[t].email, req[t].code)
  /\ End(t)
  /\ UNCHANGED <<users, invites, made, smtp, spent, tokens>>

CodeExpires(e) ==
  /\ users[e].live
  /\ users' = [users EXCEPT ![e] = Account(@.joined, @.verified, @.otp, FALSE)]
  /\ UNCHANGED <<invites, req, made, mailed, logged, smtp, spent, tokens>>

-----------------------------------------------------------------------------
(* Invitations                                                             *)

SetInvite(i, states, state) ==
  /\ invites[i].state \in states
  /\ invites' = [invites EXCEPT ![i].state = state]

CreateInvite(i) ==
  /\ SetInvite(i, {"none"}, "open")
  /\ UNCHANGED <<users, req, made, mailed, logged, smtp, spent, tokens>>

InviteExpires(i) ==
  /\ SetInvite(i, {"open"}, "expired")
  /\ UNCHANGED <<users, req, made, mailed, logged, smtp, spent, tokens>>

RevokeChecks(t) ==
  \E i \in Invites :
    /\ invites[i].state \in {"open", "expired"}
    /\ Begin(t, "revoke", Nobody, i, NoCode)
    /\ UNCHANGED <<users, invites, made, mailed, logged, smtp, spent, tokens>>

\* The row goes, used or not by now; a row already gone is only a warning.
RevokeCommits(t) ==
  /\ req[t].at = "revoke"
  /\ invites' = [invites EXCEPT ![req[t].invite].state = "deleted"]
  /\ End(t)
  /\ UNCHANGED <<users, made, mailed, logged, smtp, spent, tokens>>

-----------------------------------------------------------------------------
\* The mail, the flush or the commit fails, the database refuses, or the process
\* dies: what was not committed is rolled back.
Fails(t) ==
  /\ req[t] # Idle
  /\ End(t)
  /\ UNCHANGED <<users, invites, made, mailed, logged, smtp, spent, tokens>>

\* The settings are the process's environment: they change with a new deployment,
\* which cuts every request.
Redeploys ==
  /\ smtp' \in Later
  /\ req' = [t \in Threads |-> Idle]
  /\ UNCHANGED <<users, invites, made, mailed, logged, spent, tokens>>

\* A request that fails its checks: here, a code that is not the pending one.
Refuse(t) ==
  /\ req[t] = Idle
  /\ \E e \in Emails, c \in Codes : ~Accepts(e, c)
  /\ UNCHANGED vars

Serve(t) ==
  \/ RegisterChecks(t) \/ RegisterMails(t) \/ RegisterCommits(t)
  \/ VerifyChecks(t) \/ ResetChecks(t) \/ SpendCode(t)
  \/ IssueToken(t) \/ Login(t)
  \/ ResendChecks(t) \/ ForgotChecks(t) \/ RenewCommits(t) \/ SendCode(t)
  \/ RevokeChecks(t) \/ RevokeCommits(t)
  \/ Fails(t) \/ Refuse(t)

Next ==
  \/ \E t \in Threads : Serve(t)
  \/ \E e \in Emails : CodeExpires(e)
  \/ \E i \in Invites : CreateInvite(i) \/ InviteExpires(i)
  \/ Redeploys

Spec == Init /\ [][Next]_vars

-----------------------------------------------------------------------------
(* Properties                                                              *)

\* Safety: a code that verified an account or reset its password is never
\* pending again, whatever resend, forgot and reset requests overlapped (auth.py
\* clears otp at the commit, and writes back nothing it read before).
SpentCodesStayDead ==
  \A e \in Emails : <<e, users[e].otp>> \notin spent

\* Safety: the invitations account for the members.  An invitation not used yet
\* admitted nobody, and a used one names an account that joined with it, also
\* when registrations and revocations of it overlapped.
InvitesAccountForMembers ==
  \A i \in Invites :
    /\ invites[i].state \in {"none", "open", "expired"} =>
         \A e \in Emails : users[e].joined # i
    /\ invites[i].state = "used" =>
         invites[i].by \in Emails /\ users[invites[i].by].joined = i

\* Action property: once an invitation is revoked nobody joins with it, not even a
\* registration that had checked it before: the UPDATE finds no row.
RevokedAdmitsNobody ==
  [][\A i \in Invites, e \in Emails :
       invites[i].state = "deleted" /\ users'[e].joined = i => users[e].joined = i]_vars

\* The registrations of this step have had the very code they store delivered or,
\* on a server without SMTP settings, logged.
AdmitsAfterMail ==
  \A e \in Emails :
    users[e] = Absent /\ users'[e] # Absent =>
      <<e, users'[e].otp>> \in (IF smtp THEN mailed ELSE logged)

TokensAreVerified ==
  \A e \in tokens : users[e].verified

\* Action property: while the server has SMTP settings no account comes into being
\* before its code was delivered (the mail goes out before the commit and a failed
\* delivery rolls the registration back); without them the code was only logged.
\* Safety: a token is only issued to a verified account, although the check and the
\* issue are two transactions with others between them.
AccountsAreGenuine == [][AdmitsAfterMail]_vars /\ []TokensAreVerified

\* Violated: "Mark invite as consumed -- prevents any reuse, including concurrent
\* attempts" (auth.py:330).
InviteAdmitsOne ==
  \A e, f \in Emails :
    users[e].joined = users[f].joined /\ users[e].joined \in Invites => e = f
=============================================================================
