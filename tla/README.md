# NeuraDesk in TLA+

NeuraDesk takes IT and HR support tickets from employees, has a graph of agents
triage each one, look up an answer, call an enterprise API and, where that is not
enough, hand the ticket to people. This directory holds TLA+ models of the parts
of it that are concurrent, long-running or retried, the TLC configurations that
check them, and TLAPS proofs of the properties that matter most. Paths below are
relative to `src/`.

```
tlc -workers 2 -config MCTicketGraph.cfg MCTicketGraph      # a run
tlapm TicketGraphProofs.tla                                 # a proof
```

## 1. Inventory

| Component | State it keeps | Operations | Talks to |
|---|---|---|---|
| Agent graph (`agents/*.py`) | one `TicketState` record per run | `intake_node`, `knowledge_node`, `action_node` with `_post_enterprise`, `_should_escalate`, `escalation_node` | classifier, index, enterprise API, mail and Slack |
| Ticket lifecycle (`api/main.py`, `api/admin.py`) | the row in `tickets`; each handler's copy of it | `create_ticket`, `websocket_ticket`, `confirm_action`, `cancel_action`, `resolve_ticket`, `_recover_stale_tickets` | the graph, the database, the owner's mailbox, the live stream |
| A2A subscription (`api/a2a.py`) | a semaphore; per stream a generator, a thread, a queue | `task_send_subscribe`, `_event_stream`, `_run_in_thread` | the index, external agents |
| Admin live stream (`api/admin.py`) | `_admin_sse_queues`: organisation to list of bounded queues | `admin_stream`, `_sse_event_stream`, `_publish_sse` | the WebSocket handler publishes, browsers read |
| Sessions and tokens (`api/auth.py`) | `user_sessions`, `token_blocklist` | login, refresh, logout, change password, list and revoke sessions | every authenticated endpoint |
| Registration and invitations (`api/auth.py`, `api/admin.py`, `api/org.py`) | users with a one-time password, invites | register, verify, resend, reset, create and revoke invite | mail |
| Knowledge index (`rag/retriever.py`, `api/main.py:116-138`) | FAISS index, documents, texts and BM25 in each worker; two files and a sentinel on disk | `__init__`, `search`, `add_documents`, `reload`, `_faiss_reload_loop` | knowledge node, A2A, MCP, other workers |
| Browser clients (`frontend/src`) | socket, retry counter, last snapshot | connect, reconnect, confirm, cancel, dashboard | WebSocket, REST, live stream |
| Audit log, classifier, mail, Slack, storage, tracing, MCP | caches and files | I/O | |

What is hard in it:

* nothing locks a ticket row. Handlers load it, decide, and write back the columns
  they changed; the WebSocket handler holds its copy for up to two minutes of
  graph run, endpoints run in a thread pool, and a deployment may have several
  workers;
* the WebSocket handler runs the graph for whatever ticket it is asked for, so a
  client that reconnects runs it again, beside the first run;
* the enterprise call is retried after timeouts, when the first request may still
  be applied;
* a timeout cancels what awaits and leaves running what is in a thread;
* event streams end in many ways, and have to give back in each what they hold: a
  slot, or a place in the registry of listeners;
* accounts, invitations and tokens are checked in one moment and committed in another,
  with bcrypt and SMTP in between;
* the index is four parts in memory and two files on disk, replaced one after the
  other; a lock orders the writers of one worker, and neither its searches nor the
  other workers.

`PROJECT.json` lists these at their lines under `hazards`, each with the
properties that would catch it going wrong or the reason none does yet.

What makes each component correct:

* *graph*: a destructive intent is never executed unless it was confirmed before
  the run; "resolved" means the API confirmed the effect; "escalated" means a human
  group was named and told; a run ends; nothing is sent after the caller gave up;
* *lifecycle*: the same confirmation gate across all handlers; no resolution
  without an effect or an administrator; a pending ticket does not stay pending;
  only administrators reopen;
* *A2A*: slots are conserved, refusals only when full, the documented event order,
  streams end;
* *live stream*: every running stream gets every event of its organisation or is
  full, and what is gone is not in the registry;
* *accounts*: a used code is dead, no account before its code was mailed unless the
  server has no SMTP settings, invitations and members agree, a revoked invitation
  admits nobody, tokens are for the verified;
* *sessions*: a user is shown every token that works and none that was revoked; a
  token changes a password once, and never after it was revoked;
* *index*: the four parts agree when nobody is changing them; a search that overlaps a
  change fails, or mixes two documents, only for causes that are known; all workers
  come to hold what is on disk.

## 2. Modules

| Module | Models | Lines of the code |
|---|---|---|
| `AgentNodes` | the ticket state and the pure parts of the four nodes and the router: operators from a state record to a state record | `agents/`, `core/security.py`, `classify()` |
| `TicketGraph` | one graph run, step by step: nodes, request attempts, backoff, replies early and late, notices, the caller's timeout | `agents/graph.py`, `agents/action_node.py:49-82`, `api/main.py:623-656` |
| `RunPromise` | what a run promises and nothing of how | abstract |
| `TicketLifecycle` | one ticket row and all its writers, crashes, failed commits | `api/main.py`, `api/admin.py:166-193` |
| `A2ASubscribe` | the bounded event streams and their threads | `api/a2a.py:256-419` |
| `Accounts` | registration, one-time codes, password reset, login's check, invitations, as the reads and commits of overlapping requests | `api/auth.py:97-153, 251-556, 771-792`, `api/admin.py:466-557` |
| `AdminStream` | the administrators' event streams, their registry, and publishing | `api/admin.py:48-64, 563-617` |
| `Sessions` | tokens, their session rows and the blocklist, as the queries and commits of overlapping requests | `api/auth.py:97-153, 542-800`, `api/models.py:191-217` |
| `TokenBook` | what the token endpoints promise and nothing of how | abstract |
| `Fanout` | what the administrators' streams promise, with no registry | abstract |
| `Retriever` | every worker's copy of the corpus, the files, the sentinel, uploads, reloads, crashes, and a search between them | `rag/retriever.py:50-312`, `api/main.py:116-170` |
| `MC*` | the instances TLC checks | |
| `AgentNodesProofs`, `TicketGraphProofs`, `TicketLifecycleProofs`, `A2ASubscribeProofs`, `AccountsProofs`, `AdminStreamProofs`, `SessionsProofs`, `RetrieverProofs` | the proofs | |

`TicketGraph` and `TicketLifecycle` both extend `AgentNodes`: the nodes exist once.
`TicketGraph` is shown to implement `RunPromise` (instance `Promise`, property
`KeepsPromise`), `Sessions` to implement `TokenBook` (instance `Book`, property
`KeepsBook`), `AdminStream` to implement `Fanout` (instance `Fan`, property
`KeepsFanout`). `TicketLifecycle` steps its runs node by node but takes the
enterprise call as one step, in which an effect happens or not and success means
that it happened: that is what `RunPromise` says of a run. A run that is cut
(`RunCut`, `RunTimesOut`, `Crash`) inside the action node may have its effect or
not, which stands for a request on its way.

### From code to model

`AgentNodes`. A node returns `{**state, **updates}`; the operator is
`[st EXCEPT ...]` with the same fields. Dropped fields: texts, entities, payloads,
chunks, organisation data. Kept: `status`, `category` (with `intent`, which the
code always writes with it), `priority`, `confidence` in tenths, `action_confirmed`
(None, False, True), whether `resolution_template` is set, the kind of
`resolution`, `escalation_reason`, `assignee_group`, the kind of `error`. The
`or 1.0` of the router and of the escalation node is `EffectiveConfidence`. An
exception's text is "text" or "blank": httpx raises its timeouts and broken
connections with an empty message, and the escalation node tests the message.

`TicketGraph`. `pc` is where the run is; `verdict` what the caller was told
(`running`, `completed`, `raised`, `timed_out`). `_post_enterprise` is `Post`
(the request leaves), then one of `PostSucceeds`, `PostFails` (no retry),
`PostRetries`, then `BackoffElapses`. `req[k]` is attempt k's request as the
service sees it: `Serve(k)` may apply, reject or lose it at any time after it was
sent, after a timeout, a later attempt or the end of the run too. `RunTimesOut` is
`asyncio.wait_for`: it interrupts every await, and not the escalation node, which
is synchronous and runs in an executor thread.

`TicketLifecycle`. `row` is the database; `snap[h]` the copy handler h loaded;
`Merge(new, copy)` the `UPDATE` of SQLAlchemy's unit of work, which writes the
attributes that differ from the loaded value and leaves the other columns to
whoever wrote them last. Columns that all handlers write in the same way are left
out. `Connect`, `Confirm`, `CancelLoads`, `PatchLoads` load; `Persist`,
`CancelCommits`, `PatchCommits`, `RunTimesOut`, `RecoveryCommits` commit.
`RecoveryReads` and `RecoveryCommits` are separate because threads of the same
process and other workers run between them. `old` is whether `created_at` has
passed the recovery cutoff. `SyncInvoke` says what `graph.invoke()` does when
confirm reaches the coroutine function `action_node`: LangGraph `"raises"`; the
properties are checked with both values, so that they also cover a confirm that
awaits the graph.

`A2ASubscribe`. A stream's `pc` is where its generator is: suspended at one of
its yields (`said_...`), waiting for the queue (`asking`), dropped by a client
that left (`abandoned`), or never started. `free` is the semaphore. `locked()`
and `acquire()` have no await between them and are one step. A client may leave at
any point; a generator left at a yield is closed later by the event loop's hook,
and one that was never started has no `finally` block to run.

`Accounts`. `users[e]` is the row of address e (`joined`: the invitation it joined
with, or `Founder` for a new organisation; `verified`, `otp`, and `live` for an
expiry that is set and not past), `invites[i]` an invitation's row, `req[t]` what
server thread t is in the middle of and the values its handler holds. Every
endpoint is a plain `def` and so runs on a pool thread: `...Checks` is what it reads
and decides, `RegisterMails`, `SendCode` the call of `_send`, `RegisterCommits`, `SpendCode`
(the first commit of `verify_otp` and `reset_password`), `IssueToken` (their second,
and login's), `RenewCommits` and `RevokeCommits` the transactions. `Fails` ends a
request anywhere. `smtp` is whether the settings name an SMTP host, user and password:
without them `_send` (`api/email.py:40-44`) logs the code and returns as if it had been
sent, and the caller goes on to commit. The settings are the process's environment, so
they change with a deployment (`Redeploys`), which cuts all requests. `mailed` and
`logged` are history. The database refuses a second row for an address, and SQLAlchemy
an `UPDATE` that matches no row (`StaleDataError`), which is what stops a
registration whose invitation was deleted under it. Two codes are never equal:
the properties speak of which code it is, and not of guessing one.

`AdminStream`. `registry[o]` is `_admin_sse_queues`, `members[l]` the list that stream
l created, `joined[s]` the generator's local variable `queues`, which may be a list
the registry no longer has. `pc` distinguishes a generator that waits in `q.get()`
(cancelling it runs the `finally` block), one suspended at a `yield` while its bytes
are sent (dropped, and closed later: `Finalize`), and one that never started.
`client` is what became of the other side: a silent one is found out by what is
sent to it.

`Sessions`. `sessions[k]` and `blocked` are the two tables, `handed[k]` is the user whose
client holds token k (a lost answer leaves a row without a holder), `password[u]` who
chose the password: a token, or a code sent by mail. `req[t]` is what server thread t
is in the middle of. `Presented` is `_decode_token` and all these endpoints ask of
their caller's token; `LogoutChecks` and `RevokeChecks` are the lookup in the
blocklist, `BlockCommits` their insert, refused by the primary key when another
request was first; `ChangeCommits` the password and the blocklist row in one
transaction; `ListReadsRows` and `ListAnswers` the two queries of `list_sessions`. A
token is issued in two ways: `IssueCommits`, or `RecordFails`, in which
`_record_session` swallows the flush's error and SQLAlchemy refuses the commit that
follows it. `owed` and `dead` are history, of what an answer will be judged by. How
a code comes to be accepted is in `Accounts`; the check of the old password is not
modelled, as it decides nothing the properties tell apart.

`Retriever`. `mem[w]` is worker w's copy, one sequence of documents for each of its four
parts; documents are numbered in the order of their uploads, and those that ship with
the program are left out, being first in every copy. `add[w]` is where
`add_documents` is (`AddExtends` for each part, then `AddOpens` and `AddWrites` for
each file, `AddStamps`), `load[w]` where `reload()` or `__init__` is (`ReadIndex`,
`ReadDocs`, then `Swaps` part by part). The lock is `LockFree`. Opening a file
truncates it (`Unreadable`) until it is written. `last[w]` is the poller's `last_ts`,
`LoadEnds` advances it whether or not the reload replaced anything. `search` is one
search of one worker: it notes the number of documents (`SearchBegins`), gets a
candidate from the index or BM25 (`SearchFinds`; the index pads with -1, which Python
takes for the last text), hashes the text, takes the source from the documents and the
text from the texts. `grew`, `swapped`, `mixed` and `spoiled` are history: what
overlapped a search, whether the loaded files disagreed, and whether a write failed,
was cut by a crash or met another worker's. A worker whose retriever is built lazily by
its first search is taken as built.

## 3. Runs

| Run | Instance | What it shows | Distinct states |
|---|---|---|---|
| `graph_run` | 4 labels (one of each kind), confidences 0, 3, 5, 6, 10, 4 attempts, 2 of 3 notice channels | the eight properties of a graph run | 1.45 M |
| `ticket_row` | 1 connection, confirm, cancel, patch, 1 crash, `SyncInvoke` both | the seven properties of the row, three of them about steps or liveness | 175 k |
| `a2a_streams` | 3 clients, 2 slots | the slots, the script and the end of the streams | 23 k |
| `zero_confidence` | as `graph_run` | **violated**: confidence 0.0 is taken for 1.0 | |
| `confirm_raises` | as `ticket_row`, `SyncInvoke = {"raises"}` | **violated**: a confirmation cannot execute the action | |
| `recovery_race` | as `ticket_row` | **violated**: recovery fails a ticket that is no longer pending | |
| `a2a_slot_leak` | 2 clients, 1 slot | **violated**: a slot is lost with a client that leaves too early | |
| `accounts` | 2 addresses, 1 invitation, 3 threads, 3 codes, with and without SMTP settings | the five properties of accounts and invitations | 1.56 M |
| `invite_reuse` | as `accounts` | **violated**: two registrations share one single-use invitation | |
| `admin_stream` | 3 streams of 2 organisations, queues of 1, 3 events | the registry, the promise of `Fanout`, and that vanished clients are removed | 152 k |
| `sessions` | 2 users, 3 tokens, 2 threads, all symmetric | the session list, and the promise of `TokenBook` | 256 k |
| `retriever` | 2 workers, 2 uploads, 1 crash, searches on one worker | the agreement of the copies, the causes of a search's faults, convergence | 2.15 M |

Properties, by what they are for:

* `GateHolds`, `DestructiveOnlyConfirmed`: the confirmation gate, within a run and
  across all runs of a ticket.
* `ResolvedIsReal`, `ResolvedClaimsAreBacked`: "resolved" is a claim about the
  world; the first says what a run must have behind it, the second that no
  sequence of lost updates makes the row or the mail claim it without anything.
* `EscalatedIsHandedOver`, `UncertainActionIsRecorded`: people are told, of the right
  tickets, and a call whose effect is unknown is on record.
* `NoRequestAfterVerdict`, `OnlyAdminReopens`: what a step may never do.
* `StuckOnlyByCutRun`: the inner statuses, which no recovery looks for, come only
  from a run that was cut short.
* `SpentCodesStayDead`, `AccountsAreGenuine`, `InvitesAccountForMembers`,
  `RevokedAdmitsNobody`: overlapping requests over the same account or invitation.
  `AccountsAreGenuine` is about the very code that the new row stores: that another
  registration of the address was mailed one does not count.
* `ListIsHonest`: what a list made of two queries may claim about tokens that are
  issued, revoked and expire meanwhile. `KeepsBook`: one token, one change of password,
  although no endpoint checks it; the primary key of the blocklist does.
* `CorpusAgrees`: adds and reloads of one worker exclude each other in all their steps.
  `SearchFaultsHaveCause`: which faults the missing lock in `search` can cause: an
  upload alone may end a search with an `IndexError`, and only a reload (or files that
  disagreed) makes one document's text appear under another's source.
* `RegistryIsExact`, `KeepsFanout`: lists that are emptied, dropped and made anew while
  generators of the old one are still being closed. In `Fanout` there are no lists: a
  client listens, and an event of its organisation goes to all that listen and have room.
* `RunEnds`, `PendingIsRescued`, `HandlersEnd`, `StreamsEnd`, `SilentAreRemoved`,
  `WorkersConverge`: liveness.
* `SlotsAccounted`, `StreamsAreScripted`: the event streams.
* `KeepsPromise`: `TicketGraph` implements `RunPromise`.

Every property of a passing run has a mutant next to the definition it changes
(`PostRetries_Swallowed`, `Confirm_NoCheck`, ...): a plausible slip in the code
that makes TLC report the property.

### Bounds

`graph_run` has the program's own retry schedule (three delays), one label of each
kind the nodes distinguish (endpoint with two priorities, destructive, unknown) and
a confidence on either side of and at each threshold; it is exhaustive up to the
abstraction. In the lifecycle one row is enough, because no handler touches two. One
handler of each kind already allows every pair of writers to overlap; a second
connection multiplies the states beyond what is useful to run, and what it could break,
the gate and the backing of resolutions, is proved for any number of handlers.
`MaxCrashes` bounds crashes, `Texts` and
`Critical` the outcomes that only priorities and reasons depend on. In
`a2a_streams` one client is refused while two hold slots and any of them
leaves, times out or ends. In `accounts` three threads let two requests overlap with
a third that changes what both read; two addresses and one invitation are what the
invitation can be contested by; addresses, codes and threads are interchangeable. A
behaviour has SMTP settings from the start, never, or from some deployment on
(`Later = {TRUE}`); that settings may also go missing is covered by the proofs, which
hold for any `Later`.
In `admin_stream` two streams share an organisation and the third shows that another's
events do not reach it; a queue of one is full after one event (the code's size is
a setting). `MaxEvents` bounds the tickets that finish. In `sessions` a user can hold a
token that is revoked, one that revokes it and one that a refresh makes, and two
requests overlap at every query; a third thread adds no pair of steps that conflict. In
`retriever` two uploads may come from one worker or two, so that files and copies differ
in either order, and one crash may fall between any two writes; searches are followed on
one worker, which suffices because a search reads its own worker's copy only.

### Fairness, and why the code justifies it

* `TicketGraph`: weak fairness of the nodes' own steps. The event loop and the
  executor run what is ready, and every external call has a client timeout (10 s
  per request, SMTP and Slack timeouts). Neither the service's answers nor the
  outer timeout is assumed.
* `TicketLifecycle`: weak fairness of each handler's steps, of the clock and of the
  poll (`while True: sleep`); strong fairness of the recovery's commit, which is
  attempted at every poll and may fail any number of times, but not always. No
  client is assumed to connect, confirm or cancel.
* `A2ASubscribe`: weak fairness per stream. Query threads may hang for ever: the
  stream's timeout is what ends it. A client that has not left takes the few
  events a stream has, which fit in the socket's buffer.
* `AdminStream`: weak fairness of a generator's start and of its wait, which
  `wait_for` ends after 30 s, of the disconnect once a send has failed, and of the
  hook that closes abandoned generators. That a send completes is not assumed: a
  stuck one is given up by the transport, which is the disconnect.
* `Retriever`: weak fairness of a worker's own steps: the thread that adds goes on, the
  poller comes round (`while True: sleep`), a worker that went down is started again by
  its supervisor. Not of uploads, searches, failures or crashes. `WorkersConverge` is
  stated up to `spoiled`: after a write that failed, was cut or met another worker's,
  the files may disagree or stay unreadable until the next upload.
* `Accounts` and `Sessions` have safety properties only.

### Findings

The five violation runs are disagreements between the code and what the repository
says of it; `PROJECT.json` quotes both sides. `confirm_raises` makes confirming a
destructive action impossible in practice: the endpoint calls `graph.invoke()`, and
the test for it replaces the graph by a mock. It rests on a fact about LangGraph
(a node given as a coroutine function has no synchronous form). With a Postgres
checkpointer (`api/main.py:150-155`) the same call raises earlier, before any node, as it
names no thread; `ConfirmRaises` has both. `a2a_slot_leak` is a narrow window, between the acquire and the
first `anext`, but each loss is for good.

`invite_reuse` needs two requests within the time of a bcrypt hash and a mail.

Seen and not run: `auth.py:359-360` says of `register` "The user record never lands in
the DB if email can't be sent", and without SMTP settings `_send` returns without sending
(`api/email.py:40-44`) and the record lands; outside production the response then carries
the code (`auth.py:385-389`, as the repository's README says), in production the log alone
has it and the account waits for a new code after SMTP has been configured. The model has
this case, `AccountsAreGenuine` states what remains true, and `MailedWhenConfigured` under
which condition the comment is right. Further: a ticket below the confidence threshold reaches the action node and
is escalated only afterwards (`agents/graph.py:83`), where `docs/ARCHITECTURE.md:42` says
"without reaching action"; httpx raises timeouts with an empty message, so the
escalation node's `elif error` (`agents/escalation_node.py:42`) explains a timed-out
call as "Escalated by policy."; `auth.py:139` says that a failed session insert never
blocks login, and the flush it swallows makes the next commit raise; two logouts that
overlap end one of them with an error from the primary key, where `auth.py:656` says
"Idempotent"; `api/models.py:192` has the blocklist "checked on every authenticated
request", and refresh, change of password, logout and the session endpoints ask
`_decode_token` only; changing a password revokes the token presented and no other of
the user's; of two uploads on different workers the later write of the files loses the
earlier document, and a reload that was read before an upload of its own worker and
swapped in after it takes the document out of memory until the next poll; the files are "always written in the same locked section, keeping
them in sync" (`rag/retriever.py:231`), which holds within a worker and not between
workers or across a crash; `_faiss_reload_loop` says that a fresh worker makes no
redundant reload, and its `last_ts` starts at 0; nothing outside the tests calls
`add_documents` at this commit, although `README.md:277` says "`add_documents()` called
after every admin KB insert", so uploads enter the model by the class's interface;
`docs/ARCHITECTURE.md:43` says that an unknown
category skips retrieval (the knowledge node always runs); lines 41 and 83 name
another set of guarded actions than the code; `api/main.py:667` sets a reason that
line 674 overwrites with None; `api/main.py:532` speaks of a pending ticket, and no
status is checked; README's "every authenticated request checked" does not hold for
the WebSocket either.

## 4. Proofs

TLC checks the instances above; the following hold for every value of the constants
under the assumptions named in the modules (`CategoriesAssumption`: the labels are
known ones; `ConfidencesAssumption`: between 0 and 1; at least one attempt; the
kinds of handlers are disjoint; finitely many tasks and at least one slot; queues of
at least one event, and every stream of a known organisation; a name for nobody that is
neither a user nor a token; searches on some of the workers).

| Module | Theorems |
|---|---|
| `TicketGraphProofs` | `TypeCorrect`, `GateIsSafe`, `ResolvedIsBacked`, `EscalationHandsOver`, `FailureIsRecorded`, `VerdictStopsRequests`, `RunKeepsPromise`, `OnlyZeroEscapes`, `UnfinishedHasStep`, `RunGetsOn` |
| `TicketLifecycleProofs` | `TypeCorrect`, `DestructiveIsConfirmed`, `ResolvedIsBacked`, `StuckMeansCut`, `ReopeningIsTheAdmins`, `ResolverIsKept`, `RecoveryHasTheLastWord`, `StartedHasStep`, `HandlersGetOn`, `NothingDestructiveRuns` |
| `A2ASubscribeProofs` | `SlotsAreAccounted`, `TypeCorrect`, `ScriptIsKept`, `RefusalMeansFull`, `StreamsGetOn`, `LostSlotsStayLost` |
| `AccountsProofs` | `TypeCorrect`, `CodesDie`, `AccountsWereReached`, `MailedWhenConfigured`, `InvitationsBalance`, `RevocationHolds`, `ReuseNeedsOverlap` |
| `AdminStreamProofs` | `TypeCorrect`, `RegistryCorrect`, `FinallyFinds`, `StreamsKeepFanout`, `EventsInOrder`, `GoneHasStep`, `GoneGetsOn` |
| `SessionsProofs` | `TypeCorrect`, `ListsAreHonest`, `BookIsKept` |
| `RetrieverProofs` | `TypeCorrect`, `CorporaAgree`, `SearchFaultsExplained`, `RestingIsCurrent` |

`AgentNodesProofs` holds the lemmas about the nodes that both systems use: the type
of what each returns and the fields it keeps.

*Graph run.* That a request left only through the gate is not inductive: a request
sent late must still be known to have passed it. The invariant adds `ControlInv`
(position against verdict and outputs), `StateInv` (what the ticket state says at
each position; past the gate, `ActionCalls(st)` holds and the confirmation flag
is the caller's) and `RequestInv` (attempts beyond the current one are unsent, a
"resolved" state has its current attempt applied). `HandoverInv`, proved on
top, counts the notices. The refinement maps `verdict` and `status` to the outcome
and the applied requests to the effects; each action is a `RunPromise` step or a
stutter.

*Ticket row.* The danger is a stale copy: what a handler may make true by
committing. `CopyInv` says that whatever a copy claims (resolved, a resolver, an
inner status) was backed when it was loaded and backing is never withdrawn, so
merging it is harmless, column by column. `RunInv` says the same of a run's ticket
state, `ConfirmInv` that a confirmation's copy awaited it, `LoadedInv` that there
is something to commit to. The proof has one lemma per action; handlers, crashes
and patches are unbounded in number.

*A2A.* `Script` ties what a stream has said to where its generator is, which makes a
late thread harmless; `SlotsAccounted` is inductive with the types, and bounds the
semaphore.

*Accounts.* A code may sit in a handler's local variable for seconds before it is
stored. `Fresh` says that such a code is in no row, in no other handler and was never
spent, so that no commit revives one; `Holds` is what a handler still knows about its
row when it commits, in spite of the others, and that a registration about to commit has
sent its code under the settings that still hold, since a deployment leaves no request
alive. `InvitesAccountForMembers` is then
inductive: the last registration to commit writes both the account and the name.

*Admin live stream.* `RegistryIsExact` says nothing about a list that was dropped
while generators still hold it. `Lists` adds that every list holds exactly the
running streams that joined it, and that a running stream's list is the registry's:
so a list is empty by the time its entry goes, and no generator deletes the entry
of a newer list (`FinallyFinds`: nothing in a `finally` block raises). The refinement
maps "listening" to a running generator; that `Publish`, which goes through the registry,
is `Announce`, which does not, is `RegistryIsExact` (lemma `PublishReaches`).
`EventsInOrder` adds that a queue is strictly increasing, so that full queues lose events
and never reorder or repeat them.

*Sessions.* `ListIsHonest` needs that a token a client holds has its row under the same
user (`Rowed`), and what a handler may still rely on at its commit or its second query
in spite of the others (`HoldsFor`): rows never change their user, and the blocklist
only grows. The refinement takes `out` from the rows and `revoked` from the blocklist.

*Knowledge index.* `Copy` says how far the four parts of a copy are apart at each step
under the lock, and that a worker's swap and add never meet. `Reading` says what a
search that no reload has overtaken still knows: its candidate's place in the index, of
which every other part is a prefix (lemma `Prefixes`), since an add extends the index
first. `mispaired` therefore needs a swap, and `raised` a swap or an add.

`RestingIsCurrent` needs to know what a poller may have seen: `SInv` says, for each step
of a reload and of a writer, how the copy relates to the files and to the sentinel, so
that `last_ts` is never ahead of what was read unless something failed or two met.

### The provable half of liveness

Fairness and ENABLED are out of the prover's reach; what a liveness property needs of
the actions is not. Where a process must come to an end, two facts are proved for every
value of the constants: until it has ended it has a step due (the guard of one of its
steps holds, so that no reachable position is a dead end), and every such step decreases
a distance that no other step increases. Two things are left to fairness and to TLC: that
the guard stated is when the step is enabled (given `StepDue <=> ENABLED NodeStep` and its
likes as invariants, TLC finds no counterexample on the instances), and that the step is
then taken, which section 3 argues for. TLC checks each liveness property as a whole.

| Liveness | A step is due | Distance | At most |
|---|---|---|---|
| `RunEnds` | `UnfinishedHasStep` | `RunGetsOn` | 8 + 3 `MaxAttempts` steps |
| `HandlersEnd` | `StartedHasStep` | `HandlersGetOn` | 8 steps |
| `StreamsEnd` | each position's own guard; `asking` always has its timeout | `StreamsGetOn` | 5 steps |
| `SilentAreRemoved` | `GoneHasStep` | `GoneGetsOn` | 4 steps |

`HandlersGetOn` is what the retries of the browser cannot undo: a handler never goes
back, whatever the other handlers, the recovery or a crash do. `GoneGetsOn` is why a
ping is enough: events and other streams do not put the discovery off. For
`WorkersConverge` the proved half is `RestingIsCurrent`: what a worker settles on is what
is on disk; that it settles stays with TLC, since uploads postpone it.

### What the findings amount to

A violation run shows one behaviour; these theorems say how far each disagreement goes
(`MailedWhenConfigured` that of one which no run shows).

* `OnlyZeroEscapes`: a completed run below the threshold that does not escalate has
  confidence 0. Confidence 0.0 is the only value that the router misreads.
* `RecoveryHasTheLastWord`: the recovery's commit leaves "failed" whatever another session
  wrote since its read; no merge of columns saves a status written in between.
* `ReuseNeedsOverlap`: in a behaviour in which two registrations with one invitation are
  never under way together, the invitation admits one member. The unlocked check and
  commit are all there is to repair.
* `MailedWhenConfigured`: where every deployment has SMTP settings, every account's
  address was mailed a code. `register`'s comment needs that condition and no other.
* `NothingDestructiveRuns`: if `graph.invoke()` raises for the coroutine node
  (`"runs" \notin SyncInvoke`), no destructive effect ever happens, confirmed or not.
* `LostSlotsStayLost`: a slot lost with a client that left early is never given back, and
  after `MaxSlots` such clients every later subscription is refused, with nobody served.

Model-checked only: the liveness properties `RunEnds`, `PendingIsRescued`, `HandlersEnd`,
`StreamsEnd`, `SilentAreRemoved`, `WorkersConverge` as wholes, and the violations.
`PendingIsRescued` has no distance: it rests on strong fairness of a commit that may fail
again and again. Proved of it is that a ticket past the cutoff stays past it and that the
commit, when it succeeds, leaves a failed ticket (`RecoveryHasTheLastWord`).

## 5. Not modelled

* Prompts, embeddings, ranking, payloads and mail texts are data that no property here
  tells apart; `dspy_modules/training_data.py` is such data.
* An organisation's own knowledge documents (`api/admin.py`, `/kb`), comments, profiles
  and the read endpoints are single inserts, reads and deletes of a row, with no second
  step that another request could come between.
* FAISS's own thread safety: an `add` and a `search` of one index are atomic steps here,
  and so are the reading and the writing of the sentinel.
* The browser (`AgentTimeline.tsx`, `AdminDashboard.tsx`, `App.tsx`): its retries
  reach the server as connections, which `TicketLifecycle` and `AdminStream` take at any
  time; what it shows is not modelled.
* The audit log's lazily made handler, the mail and Slack transports, MCP, storage and
  tracing keep nothing that another part reads. Migrations are one-off scripts.

## 6. Plan

Done, each with its proofs: 1. `AgentNodes`, `TicketGraph`, `RunPromise`.
2. `TicketLifecycle`. 3. `A2ASubscribe`. 4. `Accounts`. 5. `AdminStream`, `Fanout`.
6. `Sessions`, `TokenBook`. 7. `Retriever`.

Open, in this order:

8. `WsClient`: the reconnecting browser and the dashboard's list, composed with
   `TicketLifecycle`'s handler and with `AdminStream`: what a user is shown against what
   the row says.
9. The WebSocket handler's publishing composed with `AdminStream`.
10. The audit log's handler, if nothing more important is left.
