------------------------ MODULE TicketLifecycleProofs ------------------------
(***************************************************************************)
(* The safety of one ticket row under any number of connections, confirms, *)
(* cancellations, administrator requests and crashes.                      *)
(*                                                                         *)
(* The strengthening says what each copy still in a handler's hands can    *)
(* make true of the row when it is merged: a copy that says "resolved" or  *)
(* carries a resolver was loaded from a row that was backed, and backing   *)
(* is never withdrawn; a run that says "resolved" has had its effect.      *)
(***************************************************************************)
EXTENDS TicketLifecycle, AgentNodesProofs

InNodes == {"intake", "knowledge", "action", "escalation"}

\* There is a row once a handler or the recovery loop has loaded one, and a copy
\* that will be committed is a row.
LoadedInv ==
  /\ row = NoRow => \A h \in Handlers : pc[h] = "off"
  /\ recovery # NoRow => row # NoRow
  /\ \A h \in Handlers :
       pc[h] \in {"auth", "loaded", "persist"} \cup InNodes => snap[h] # NoRow

\* What a run's ticket state says at each position, and who has confirmed it.
RunInv ==
  \A h \in Runners :
    /\ pc[h] \in {"intake", "knowledge", "action"} =>
         /\ st[h].status \in {"triaging", "retrieving", "acting"}
         /\ st[h].confirmed = "yes" => h \in Confirms
    /\ pc[h] \in {"knowledge", "action"} => st[h].category # "none"
    /\ pc[h] = "escalation" => st[h].status \notin {"triaging", "retrieving", "acting"}
    /\ pc[h] = "persist" /\ st[h].status \in {"retrieving", "acting"} => cut # {}
    /\ st[h].status = "resolved" => effects # {}

\* A confirmation was decided on a copy that awaited it.
ConfirmInv ==
  \A h \in Confirms : pc[h] # "off" => snap[h].status = "awaiting_confirmation"

Backed == effects # {} \/ row.resolver

\* What the copies can make true of the row is true of it already.
CopyInv ==
  \A h \in Handlers :
    /\ snap[h].status = "resolved" => Backed
    /\ snap[h].resolver => row.resolver
    /\ snap[h].status \in {"retrieving", "acting"} => cut # {}

IInv ==
  /\ TypeOK /\ LoadedInv /\ RunInv /\ ConfirmInv /\ CopyInv
  /\ DestructiveOnlyConfirmed /\ ResolvedClaimsAreBacked /\ StuckOnlyByCutRun

-----------------------------------------------------------------------------
(* Rows                                                                    *)

\* The fields of a row.
LEMMA RowFields ==
  ASSUME NEW r \in Row \cup {NoRow}
  PROVE  /\ DOMAIN r = {"status", "resolution", "reason", "resolver"}
         /\ r.status \in RowStatus \cup {"absent"}
         /\ r.resolver \in BOOLEAN
         /\ r # NoRow => r \in Row /\ r.status # "absent"
         /\ r.status # "absent" => r # NoRow
<1>1. CASE r \in Row
  BY <1>1 DEF Row, NoRow, RowStatus
<1>2. CASE r = NoRow
  BY <1>2 DEF NoRow
<1>3. QED
  BY <1>1, <1>2

\* An update leaves a row, with each of its columns either the one written or
\* the one found; a column the handler did not change is the one found.
LEMMA MergeFields ==
  ASSUME row \in Row, NEW new \in Row, NEW copy \in Row
  PROVE  /\ Merge(new, copy) \in Row
         /\ Merge(new, copy).status =
              IF new.status # copy.status THEN new.status ELSE row.status
         /\ Merge(new, copy).resolver =
              IF new.resolver # copy.resolver THEN new.resolver ELSE row.resolver
<1>1. DOMAIN row = {"status", "resolution", "reason", "resolver"}
  BY DEF Row
<1>2. Merge(new, copy) =
        [status     |-> IF new.status # copy.status THEN new.status ELSE row.status,
         resolution |-> IF new.resolution # copy.resolution THEN new.resolution
                        ELSE row.resolution,
         reason     |-> IF new.reason # copy.reason THEN new.reason ELSE row.reason,
         resolver   |-> IF new.resolver # copy.resolver THEN new.resolver ELSE row.resolver]
  BY <1>1 DEF Merge
<1>3. QED
  BY <1>2 DEF Row

\* The initial state.
LEMMA InitInv == Init => IInv
<1> SUFFICES ASSUME Init PROVE IInv
  OBVIOUS
<1> USE DEF Init
<1>1. Idle \in TicketState /\ Idle.status = "triaging" /\ Idle.confirmed # "yes"
  BY InitialType DEF Idle
<1>2. NoRow.status = "absent" /\ NoRow.resolver = FALSE
  BY DEF NoRow
<1>3. TypeOK
  <2>1. pc \in [Handlers -> PC] /\ snap \in [Handlers -> Row \cup {NoRow}]
    BY DEF PC
  <2>2. st \in [Runners -> TicketState]
    BY <1>1
  <2>3. crashes \in 0..MaxCrashes
    BY MaxCrashesAssumption
  <2>4. QED
    BY <2>1, <2>2, <2>3 DEF TypeOK
<1>4. LoadedInv /\ ConfirmInv
  BY DEF LoadedInv, InNodes, ConfirmInv, Handlers, Runners
<1>5. RunInv
  BY <1>1 DEF RunInv, Handlers, Runners
<1>6. CopyInv /\ ResolvedClaimsAreBacked /\ StuckOnlyByCutRun
  BY <1>2 DEF CopyInv, ResolvedClaimsAreBacked, StuckOnlyByCutRun
<1>7. DestructiveOnlyConfirmed
  BY DEF DestructiveOnlyConfirmed
<1>8. QED
  BY <1>3, <1>4, <1>5, <1>6, <1>7 DEF IInv

-----------------------------------------------------------------------------
(* Effects                                                                 *)

\* The request of a run that is past the gate is for an intent with an endpoint,
\* and for a destructive one only in a confirmed run.
LEMMA GateFacts ==
  ASSUME IInv, NEW h \in Runners, pc[h] = "action", ActionCalls(st[h])
  PROVE  /\ st[h].category \in EndpointIntents
         /\ st[h].category \in DestructiveIntents =>
              h \in Confirms /\ snap[h].status = "awaiting_confirmation"
<1>1. st[h] \in TicketState
  BY DEF IInv, TypeOK
<1>2. st[h].category \in EndpointIntents
  BY <1>1, FieldType DEF IInv, RunInv, ActionCalls, ActionUnknown, ValidCategories
<1>3. ASSUME st[h].category \in DestructiveIntents
      PROVE  h \in Confirms /\ snap[h].status = "awaiting_confirmation"
  <2>1. st[h].confirmed = "yes"
    BY <1>3 DEF ActionCalls, ActionGated
  <2>2. h \in Confirms
    BY <2>1 DEF IInv, RunInv
  <2>3. QED
    BY <2>2 DEF IInv, ConfirmInv
<1>4. QED
  BY <1>2, <1>3

\* What a request that left may do, in terms of the next state's copies.
EffectsAllowed(E) ==
  \A e \in E :
    /\ e \in Runners \X EndpointIntents
    /\ e[2] \in DestructiveIntents =>
         e[1] \in Confirms /\ snap[e[1]].status = "awaiting_confirmation"

\* The two conjuncts of the invariant that constrain the effects.
LEMMA EffectsAreAllowed ==
  IInv => EffectsAllowed(effects)
  BY DEF IInv, TypeOK, DestructiveOnlyConfirmed, EffectsAllowed

\* A request under way is allowed.
LEMMA UnderWayAllowed ==
  ASSUME IInv, NEW h \in Handlers
  PROVE  EffectsAllowed(UnderWay(h))
<1>1. CASE UnderWay(h) = {}
  BY <1>1 DEF EffectsAllowed
<1>2. CASE UnderWay(h) # {}
  <2>1. h \in Runners /\ pc[h] = "action" /\ ActionCalls(st[h])
        /\ UnderWay(h) = {<<h, st[h].category>>}
    BY <1>2 DEF UnderWay
  <2>2. /\ st[h].category \in EndpointIntents
        /\ st[h].category \in DestructiveIntents =>
             h \in Confirms /\ snap[h].status = "awaiting_confirmation"
    BY <2>1, GateFacts
  <2>3. QED
    BY <2>1, <2>2 DEF EffectsAllowed
<1>3. QED
  BY <1>1, <1>2

\* Allowed effects stay allowed while the confirmations keep their copies.
LEMMA StayAllowed ==
  ASSUME NEW E, EffectsAllowed(E), \A h \in Confirms : snap'[h] = snap[h]
  PROVE  EffectsAllowed(E)'
  BY DEF EffectsAllowed

-----------------------------------------------------------------------------
(* Steps that end a handler                                                *)

\* A handler that returns, whatever it wrote, keeps the invariant when the row
\* and the mail it leaves are backed and its effects allowed.
LEMMA EndsStep ==
  ASSUME IInv, NEW h \in Handlers, pc[h] # "off",
         NEW where \in {"closed", "error", "uncallable", "saved"}, Ends(h, where),
         row' \in Row, row.resolver => row'.resolver,
         row'.status = "resolved" => Backed', told' => Backed', told' \in BOOLEAN,
         row'.status \in {"retrieving", "acting"} => cut # {},
         effects \subseteq effects', EffectsAllowed(effects'),
         UNCHANGED <<old, cut, recovery, crashes>>
  PROVE  IInv'
<1> USE DEF Ends, Goto
<1>1. /\ pc' = [pc EXCEPT ![h] = where]
      /\ \A g \in Handlers : snap'[g] \in {snap[g], NoRow} /\ (g # h => snap'[g] = snap[g])
      /\ snap' \in [Handlers -> Row \cup {NoRow}]
      /\ \A g \in Confirms : snap'[g] = snap[g]
  BY DEF IInv, TypeOK
<1>2. /\ st' \in [Runners -> TicketState]
      /\ \A g \in Runners : st'[g] \in {st[g], Idle} /\ (g # h => st'[g] = st[g])
      /\ Idle.status = "triaging"
  BY InitialType DEF IInv, TypeOK, Idle
<1>3. row' # NoRow /\ row # NoRow
  <2>1. row' # NoRow
    BY DEF Row, NoRow, RowStatus
  <2>2. QED
    BY <2>1 DEF IInv, LoadedInv
<1>4. EffectsAllowed(effects')
  OBVIOUS
<1>5. TypeOK'
  <2>1. pc' \in [Handlers -> PC]
    BY <1>1 DEF IInv, TypeOK, PC
  <2>2. effects' \subseteq Runners \X EndpointIntents
    BY DEF EffectsAllowed
  <2>3. QED
    BY <1>1, <1>2, <2>1, <2>2 DEF IInv, TypeOK
<1>6. LoadedInv'
  BY <1>1, <1>3 DEF IInv, TypeOK, LoadedInv, InNodes
<1>7. RunInv'
  BY <1>1, <1>2 DEF IInv, TypeOK, RunInv, Handlers
<1>8. ConfirmInv'
  BY <1>1 DEF IInv, TypeOK, ConfirmInv, Handlers, Runners
<1>9. CopyInv'
  <2>1. NoRow.status = "absent" /\ NoRow.resolver = FALSE
    BY DEF NoRow
  <2>2. Backed => Backed'
    BY DEF Backed
  <2>3. QED
    BY <1>1, <2>1, <2>2 DEF IInv, CopyInv
<1>10. DestructiveOnlyConfirmed'
  <2>1. EffectsAllowed(effects')
    OBVIOUS
  <2>2. QED
    BY <1>1, <2>1 DEF EffectsAllowed, DestructiveOnlyConfirmed
<1>11. ResolvedClaimsAreBacked' /\ StuckOnlyByCutRun'
  BY DEF ResolvedClaimsAreBacked, StuckOnlyByCutRun, Backed
<1>12. QED
  BY <1>5, <1>6, <1>7, <1>8, <1>9, <1>10, <1>11 DEF IInv

\* A commit of a handler's copy: the row it leaves is a row, is "resolved" only
\* when it was or when the commit says so, and forgets no resolver.
LEMMA CommitFields ==
  ASSUME IInv, NEW h \in Handlers, pc[h] \in {"persist", "loaded"} \cup InNodes,
         NEW new \in Row, row' = Merge(new, snap[h]),
         snap[h].resolver => new.resolver
  PROVE  /\ row' \in Row
         /\ row.resolver => row'.resolver
         /\ row'.status \in {row.status, new.status}
         /\ new.resolver /\ ~snap[h].resolver => row'.resolver
<1>1. snap[h] \in Row /\ row \in Row
  BY DEF IInv, TypeOK, LoadedInv, InNodes
<1>2. new.resolver \in BOOLEAN /\ snap[h].resolver \in BOOLEAN /\ row.resolver \in BOOLEAN
  BY <1>1, RowFields
<1>3. snap[h].resolver => row.resolver
  BY DEF IInv, CopyInv
<1>4. QED
  BY <1>1, <1>2, <1>3, MergeFields

\* persist: a run that writes "resolved" has had its effect.
LEMMA PersistStep == ASSUME NEW h \in Handlers PROVE IInv /\ Persist(h) => IInv'
<1> SUFFICES ASSUME IInv, Persist(h) PROVE IInv'
  OBVIOUS
<1>1. h \in Runners /\ pc[h] = "persist" /\ row' = Merge(Final(h), snap[h])
      /\ Ends(h, IF h \in Conns THEN "saved" ELSE "closed")
      /\ UNCHANGED <<old, effects, told, cut, recovery, crashes>>
  BY DEF Persist
<1>2. snap[h] \in Row /\ st[h] \in TicketState
  BY <1>1 DEF IInv, TypeOK, LoadedInv
<1>3. Final(h) \in Row /\ Final(h).resolver = snap[h].resolver
      /\ Final(h).status = (IF st[h].status = "triaging" THEN "failed" ELSE st[h].status)
  BY <1>2 DEF Final, Row, RowStatus, TicketState, GraphStatus
<1>4. /\ row' \in Row
      /\ row.resolver => row'.resolver
      /\ row'.status \in {row.status, Final(h).status}
  BY <1>1, <1>3, CommitFields
<1>5. Backed => Backed'
  BY <1>1, <1>4 DEF Backed
<1>6. row'.status = "resolved" => Backed'
  BY <1>1, <1>3, <1>4, <1>5 DEF IInv, RunInv, ResolvedClaimsAreBacked, Backed
<1>7. row'.status \in {"retrieving", "acting"} => cut # {}
  BY <1>1, <1>3, <1>4 DEF IInv, RunInv, StuckOnlyByCutRun
<1>8. told' => Backed'
  BY <1>1, <1>5 DEF IInv, ResolvedClaimsAreBacked, Backed
<1>9. EffectsAllowed(effects') /\ told' \in BOOLEAN
  BY <1>1, EffectsAreAllowed DEF IInv, TypeOK
<1>10. CASE h \in Conns
  BY <1>1, <1>4, <1>6, <1>7, <1>8, <1>9, <1>10, EndsStep
<1>11. CASE h \notin Conns
  BY <1>1, <1>4, <1>6, <1>7, <1>8, <1>9, <1>11, EndsStep
<1>12. QED
  BY <1>10, <1>11

\* wait_for expires: "failed" claims nothing, and a request may have left.
LEMMA TimeoutStep == ASSUME NEW h \in Handlers PROVE IInv /\ RunTimesOut(h) => IInv'
<1> SUFFICES ASSUME IInv, RunTimesOut(h) PROVE IInv'
  OBVIOUS
<1> DEFINE new == [snap[h] EXCEPT !.status = "failed", !.reason = "timed_out"]
<1>1. /\ h \in Conns /\ pc[h] \in InNodes /\ row' \in {Merge(new, snap[h]), row}
      /\ effects' \in {effects, effects \cup UnderWay(h)}
      /\ Ends(h, "closed") \/ Ends(h, "error")
      /\ UNCHANGED <<old, told, cut, recovery, crashes>>
  BY DEF RunTimesOut, InNodes
<1>2. new \in Row /\ new.resolver = snap[h].resolver /\ new.status = "failed"
  BY <1>1 DEF IInv, TypeOK, LoadedInv, InNodes, Row, RowStatus
<1> HIDE DEF new
<1>3. /\ row' \in Row
      /\ row.resolver => row'.resolver
      /\ row'.status \in {row.status, "failed"}
  <2>1. CASE row' = Merge(new, snap[h])
    BY <1>1, <1>2, <2>1, CommitFields
  <2>2. CASE row' = row
    BY <1>1, <2>2 DEF IInv, TypeOK, LoadedInv, InNodes
  <2>3. QED
    BY <1>1, <2>1, <2>2
<1>4. effects \subseteq effects' /\ EffectsAllowed(effects')
  BY <1>1, EffectsAreAllowed, UnderWayAllowed DEF EffectsAllowed
<1>5. Backed => Backed'
  BY <1>3, <1>4 DEF Backed
<1>6. QED
  BY <1>1, <1>3, <1>4, <1>5, EndsStep
     DEF IInv, TypeOK, ResolvedClaimsAreBacked, StuckOnlyByCutRun, InNodes, Backed

\* cancel_action: "escalated" claims nothing.
LEMMA CancelStep == ASSUME NEW h \in Handlers PROVE IInv /\ CancelCommits(h) => IInv'
<1> SUFFICES ASSUME IInv, CancelCommits(h) PROVE IInv'
  OBVIOUS
<1> DEFINE new == [snap[h] EXCEPT !.status = "escalated", !.reason = "cancelled"]
<1>1. h \in Cancels /\ pc[h] = "loaded" /\ row' = Merge(new, snap[h]) /\ Ends(h, "closed")
      /\ UNCHANGED <<old, effects, told, cut, recovery, crashes>>
  BY DEF CancelCommits
<1>2. new \in Row /\ new.resolver = snap[h].resolver /\ new.status = "escalated"
  BY <1>1 DEF IInv, TypeOK, LoadedInv, Row, RowStatus
<1> HIDE DEF new
<1>3. /\ row' \in Row
      /\ row.resolver => row'.resolver
      /\ row'.status \in {row.status, "escalated"}
  BY <1>1, <1>2, CommitFields
<1>4. EffectsAllowed(effects') /\ (Backed => Backed')
  BY <1>1, <1>3, EffectsAreAllowed DEF Backed
<1>5. QED
  BY <1>1, <1>3, <1>4, EndsStep
     DEF IInv, TypeOK, ResolvedClaimsAreBacked, StuckOnlyByCutRun, Backed

\* resolve_ticket: whatever status is written, resolved_by is set with it.
LEMMA PatchStep == ASSUME NEW h \in Handlers PROVE IInv /\ PatchCommits(h) => IInv'
<1> SUFFICES ASSUME IInv, PatchCommits(h) PROVE IInv'
  OBVIOUS
<1>1. PICK status \in {"resolved", "escalated", "pending"}, note \in BOOLEAN :
        row' = Merge(Patched(snap[h], status, note), snap[h])
  BY DEF PatchCommits
<1>2. h \in Patches /\ pc[h] = "loaded" /\ Ends(h, "closed")
      /\ UNCHANGED <<old, effects, told, cut, recovery, crashes>>
  BY DEF PatchCommits
<1> DEFINE new == Patched(snap[h], status, note)
<1>3. snap[h] \in Row
  BY <1>2 DEF IInv, TypeOK, LoadedInv
<1>4. new \in Row /\ new.resolver = TRUE /\ new.status = status
  BY <1>3 DEF Patched, Row, RowStatus
<1> HIDE DEF new
<1>5. /\ row' \in Row
      /\ row.resolver => row'.resolver
      /\ row'.status \in {row.status, status}
      /\ ~snap[h].resolver => row'.resolver
  BY <1>1, <1>2, <1>4, CommitFields DEF new
<1>6. row'.resolver
  BY <1>5 DEF IInv, CopyInv
<1>7. EffectsAllowed(effects') /\ Backed'
  BY <1>2, <1>6, EffectsAreAllowed DEF Backed
<1>8. QED
  BY <1>2, <1>5, <1>7, EndsStep
     DEF IInv, TypeOK, StuckOnlyByCutRun

\* The mail is decided on the row itself.
LEMMA AnnounceStep == ASSUME NEW h \in Handlers PROVE IInv /\ Announce(h) => IInv'
<1> SUFFICES ASSUME IInv, Announce(h) PROVE IInv'
  OBVIOUS
<1>1. /\ h \in Conns /\ pc[h] = "saved"
      /\ told' = (told \/ row.status = "resolved") /\ Goto(h, "closed")
      /\ UNCHANGED <<row, old, snap, st, effects, cut, recovery, crashes>>
  BY DEF Announce
<1>2. TypeOK'
  BY <1>1 DEF IInv, TypeOK, Goto, PC
<1>3. LoadedInv' /\ RunInv' /\ ConfirmInv' /\ CopyInv'
  BY <1>1
     DEF IInv, TypeOK, Goto, LoadedInv, RunInv, ConfirmInv, CopyInv, Backed, InNodes,
         Handlers, Runners
<1>4. DestructiveOnlyConfirmed' /\ ResolvedClaimsAreBacked' /\ StuckOnlyByCutRun'
  BY <1>1 DEF IInv, DestructiveOnlyConfirmed, ResolvedClaimsAreBacked, StuckOnlyByCutRun
<1>5. QED
  BY <1>2, <1>3, <1>4 DEF IInv

\* A handler that returns without a commit.
LEMMA GiveUpStep ==
  ASSUME IInv, NEW h \in Handlers, pc[h] # "off",
         NEW where \in {"closed", "error", "uncallable"}, Ends(h, where),
         UNCHANGED <<row, old, effects, told, cut, recovery, crashes>>
  PROVE  IInv'
<1>1. row' \in Row
  BY DEF IInv, TypeOK, LoadedInv
<1>2. EffectsAllowed(effects') /\ (Backed => Backed')
  BY EffectsAreAllowed DEF Backed
<1>3. QED
  BY <1>1, <1>2, EndsStep DEF IInv, TypeOK, ResolvedClaimsAreBacked, StuckOnlyByCutRun, Backed

-----------------------------------------------------------------------------
(* Steps that start a handler and steps of a run                           *)

\* A handler that loads the row holds a copy of what is true now.
LEMMA LoadStep ==
  ASSUME IInv, NEW h \in Handlers, pc[h] = "off", Load(h),
         NEW where \in {"auth", "intake", "loaded"}, Goto(h, where),
         h \in Confirms => row.status = "awaiting_confirmation" /\ where = "intake",
         where = "intake" => h \in Confirms,
         st' = IF h \in Confirms THEN [st EXCEPT ![h] = InitialState(TRUE)] ELSE st,
         UNCHANGED <<row, old, effects, told, cut, recovery, crashes>>
  PROVE  IInv'
<1> USE DEF Load, Goto
<1>1. InitialState(TRUE) \in TicketState /\ InitialState(TRUE).status = "triaging"
  BY InitialType
<1>2. TypeOK'
  <2>1. st' \in [Runners -> TicketState]
    BY <1>1 DEF IInv, TypeOK
  <2>2. pc' \in [Handlers -> PC] /\ snap' \in [Handlers -> Row \cup {NoRow}]
    BY DEF IInv, TypeOK, PC
  <2>3. QED
    BY <2>1, <2>2 DEF IInv, TypeOK
<1>3. LoadedInv'
  BY DEF IInv, TypeOK, LoadedInv
<1>4. RunInv'
  BY <1>1 DEF IInv, TypeOK, RunInv, Handlers, Runners
<1>5. ConfirmInv'
  BY DEF IInv, TypeOK, ConfirmInv, Handlers, Runners
<1>6. CopyInv'
  BY DEF IInv, TypeOK, CopyInv, Backed, ResolvedClaimsAreBacked, StuckOnlyByCutRun
<1>7. DestructiveOnlyConfirmed'
  <2>1. ASSUME NEW e \in effects, e[2] \in DestructiveIntents
        PROVE  e[1] \in Confirms /\ snap'[e[1]].status = "awaiting_confirmation"
    <3>1. e[1] \in Confirms /\ snap[e[1]].status = "awaiting_confirmation"
      BY <2>1 DEF IInv, DestructiveOnlyConfirmed
    <3>2. e[1] \in Handlers
      BY <3>1 DEF Handlers, Runners
    <3>3. QED
      BY <3>1, <3>2 DEF IInv, TypeOK
  <2>2. QED
    BY <2>1 DEF DestructiveOnlyConfirmed
<1>8. ResolvedClaimsAreBacked' /\ StuckOnlyByCutRun'
  BY DEF IInv, ResolvedClaimsAreBacked, StuckOnlyByCutRun
<1>9. QED
  BY <1>2, <1>3, <1>4, <1>5, <1>6, <1>7, <1>8 DEF IInv

\* A step of a run that touches its own state and the effects only.
LEMMA RunStepInv ==
  ASSUME IInv, NEW h \in Runners, pc[h] \in {"auth"} \cup InNodes,
         NEW next \in {"intake", "knowledge", "action", "escalation", "persist"},
         NEW result \in TicketState, NodeReturns(h, result, next),
         effects \subseteq effects', EffectsAllowed(effects'),
         next \in {"intake", "knowledge", "action"} =>
           /\ result.status \in {"triaging", "retrieving", "acting"}
           /\ result.confirmed = "yes" => h \in Confirms,
         next \in {"knowledge", "action"} => result.category # "none",
         next \in {"escalation", "persist"} =>
           result.status \notin {"triaging", "retrieving", "acting"},
         result.status = "resolved" => effects' # {},
         UNCHANGED <<row, old, snap, told, cut, recovery, crashes>>
  PROVE  IInv'
<1> USE DEF NodeReturns, Goto
<1>0. h \in Handlers
  BY DEF Handlers
<1>1. TypeOK'
  <2>1. pc' \in [Handlers -> PC] /\ st' \in [Runners -> TicketState]
    BY DEF IInv, TypeOK, PC
  <2>2. effects' \subseteq Runners \X EndpointIntents
    BY DEF EffectsAllowed
  <2>3. QED
    BY <2>1, <2>2 DEF IInv, TypeOK
<1>2. LoadedInv'
  BY <1>0 DEF IInv, TypeOK, LoadedInv, InNodes
<1>3. RunInv'
  BY <1>0 DEF IInv, TypeOK, RunInv, Handlers
<1>4. ConfirmInv'
  BY <1>0 DEF IInv, TypeOK, ConfirmInv, Handlers, Runners, InNodes
<1>5. Backed => Backed'
  BY DEF Backed
<1>6. CopyInv'
  BY <1>5 DEF IInv, CopyInv
<1>7. DestructiveOnlyConfirmed'
  BY DEF EffectsAllowed, DestructiveOnlyConfirmed
<1>8. ResolvedClaimsAreBacked' /\ StuckOnlyByCutRun'
  BY <1>5 DEF IInv, ResolvedClaimsAreBacked, StuckOnlyByCutRun, Backed
<1>9. QED
  BY <1>1, <1>2, <1>3, <1>4, <1>6, <1>7, <1>8 DEF IInv

\* intake_node and knowledge_node leave "retrieving" and "acting", and do not
\* touch the confirmation flag.
LEMMA TriageSteps ==
  ASSUME NEW h \in Handlers PROVE IInv /\ (IntakeNode(h) \/ KnowledgeNode(h)) => IInv'
<1> SUFFICES ASSUME IInv, IntakeNode(h) \/ KnowledgeNode(h) PROVE IInv'
  OBVIOUS
<1>1. /\ h \in Runners /\ pc[h] \in {"intake", "knowledge"}
      /\ UNCHANGED <<row, old, snap, effects, told, cut, recovery, crashes>>
  BY DEF IntakeNode, KnowledgeNode
<1>2. st[h] \in TicketState /\ (st[h].confirmed = "yes" => h \in Confirms)
      /\ EffectsAllowed(effects')
  BY <1>1, EffectsAreAllowed DEF IInv, TypeOK, RunInv
<1>3. CASE IntakeNode(h)
  <2>1. PICK label \in Classifications, injected \in BOOLEAN, critical \in BOOLEAN :
          NodeReturns(h, Intake(st[h], label, injected, critical), "knowledge")
    BY <1>3, CriticalAssumption DEF IntakeNode
  <2> DEFINE result == Intake(st[h], label, injected, critical)
  <2>2. /\ result \in TicketState /\ result.category \in ValidCategories
        /\ result.status = "retrieving" /\ result.confirmed = st[h].confirmed
    BY <1>2, IntakeType
  <2>3. result.category # "none"
    BY <2>2 DEF ValidCategories, EndpointIntents, DestructiveIntents
  <2> HIDE DEF result
  <2>4. NodeReturns(h, result, "knowledge")
    BY <2>1 DEF result
  <2>5. QED
    BY <1>1, <1>2, <2>2, <2>3, <2>4, RunStepInv DEF InNodes
<1>4. CASE KnowledgeNode(h)
  <2>1. PICK retrieval \in Retrievals :
          NodeReturns(h, Knowledge(st[h], retrieval), "action")
    BY <1>4 DEF KnowledgeNode
  <2> DEFINE result == Knowledge(st[h], retrieval)
  <2>2. /\ result \in TicketState /\ result.category = st[h].category
        /\ result.status = "acting" /\ result.confirmed = st[h].confirmed
    BY <1>2, KnowledgeType
  <2>3. result.category # "none"
    BY <1>1, <1>4, <2>2 DEF KnowledgeNode, IInv, RunInv
  <2> HIDE DEF result
  <2>4. NodeReturns(h, result, "action")
    BY <2>1 DEF result
  <2>5. QED
    BY <1>1, <1>2, <2>2, <2>3, <2>4, RunStepInv DEF InNodes
<1>5. QED
  BY <1>3, <1>4

\* The early returns of action_node have no effect and claim none.
LEMMA EarlyStep == ASSUME NEW h \in Handlers PROVE IInv /\ ActionReturnsEarly(h) => IInv'
<1> SUFFICES ASSUME IInv, ActionReturnsEarly(h) PROVE IInv'
  OBVIOUS
<1>1. PICK result \in {EscalateUnknown(st[h]), AwaitConfirmation(st[h])} :
        NodeReturns(h, result, AfterAction(result))
  BY DEF ActionReturnsEarly
<1>2. /\ h \in Runners /\ pc[h] = "action"
      /\ UNCHANGED <<row, old, snap, effects, told, cut, recovery, crashes>>
  BY DEF ActionReturnsEarly
<1>3. result \in TicketState /\ result.status \in {"escalated", "awaiting_confirmation"}
  BY <1>1, <1>2, ActionType DEF IInv, TypeOK
<1>4. AfterAction(result) \in {"escalation", "persist"}
  BY DEF AfterAction
<1>5. EffectsAllowed(effects')
  BY <1>2, EffectsAreAllowed
<1>6. QED
  BY <1>1, <1>2, <1>3, <1>4, <1>5, RunStepInv DEF InNodes

\* The call has its effect, if it has one, past the gate; "resolved" needs one.
LEMMA CallStep == ASSUME NEW h \in Handlers PROVE IInv /\ ActionCallsApi(h) => IInv'
<1> SUFFICES ASSUME IInv, ActionCallsApi(h) PROVE IInv'
  OBVIOUS
<1>1. /\ h \in Runners /\ pc[h] = "action" /\ ActionCalls(st[h])
      /\ UNCHANGED <<row, old, snap, told, cut, recovery, crashes>>
  BY DEF ActionCallsApi
<1>2. PICK done \in BOOLEAN, effect \in BOOLEAN, text \in Texts :
        /\ done => effect
        /\ effects' = effects \cup (IF effect THEN {<<h, st[h].category>>} ELSE {})
        /\ NodeReturns(h, IF done THEN ActionDone(st[h]) ELSE ActionFailed(st[h], text),
                       AfterAction(IF done THEN ActionDone(st[h])
                                   ELSE ActionFailed(st[h], text)))
  BY DEF ActionCallsApi
<1> DEFINE result == IF done THEN ActionDone(st[h]) ELSE ActionFailed(st[h], text)
<1>3. /\ result \in TicketState
      /\ result.status = IF done THEN "resolved" ELSE "escalated"
  BY <1>1, ActionType, FailureType, TextsAssumption DEF IInv, TypeOK
<1>4. AfterAction(result) \in {"escalation", "persist"}
  BY DEF AfterAction
<1>5. effects \subseteq effects' /\ EffectsAllowed(effects')
  BY <1>1, <1>2, EffectsAreAllowed, GateFacts DEF EffectsAllowed
<1>6. result.status = "resolved" => effects' # {}
  BY <1>2, <1>3
<1>7. NodeReturns(h, result, AfterAction(result))
  BY <1>2
<1> HIDE DEF result
<1>8. result.status \notin {"triaging", "retrieving", "acting"}
  BY <1>3
<1>9. QED
  BY <1>1, <1>3, <1>4, <1>5, <1>6, <1>7, <1>8, RunStepInv DEF InNodes

\* escalation_node.
LEMMA EscalationStep == ASSUME NEW h \in Handlers PROVE IInv /\ EscalationNode(h) => IInv'
<1> SUFFICES ASSUME IInv, EscalationNode(h) PROVE IInv'
  OBVIOUS
<1>1. /\ h \in Runners /\ pc[h] = "escalation"
      /\ NodeReturns(h, Escalate(st[h]), "persist")
      /\ UNCHANGED <<row, old, snap, effects, told, cut, recovery, crashes>>
  BY DEF EscalationNode
<1>2. Escalate(st[h]) \in TicketState /\ Escalate(st[h]).status = "escalated"
  BY <1>1, EscalateType DEF IInv, TypeOK
<1>3. EffectsAllowed(effects')
  BY <1>1, EffectsAreAllowed
<1>4. QED
  BY <1>1, <1>2, <1>3, RunStepInv DEF InNodes

\* A run cut short persists what the last node left, and is remembered.
LEMMA CutStep == ASSUME NEW h \in Handlers PROVE IInv /\ RunCut(h) => IInv'
<1> SUFFICES ASSUME IInv, RunCut(h) PROVE IInv'
  OBVIOUS
<1>1. /\ h \in Conns /\ pc[h] \in InNodes /\ cut' = cut \cup {h}
      /\ effects' \in {effects, effects \cup UnderWay(h)} /\ Goto(h, "persist")
      /\ UNCHANGED <<row, old, snap, st, told, recovery, crashes>>
  BY DEF RunCut, InNodes
<1>2. effects \subseteq effects' /\ EffectsAllowed(effects')
  BY <1>1, EffectsAreAllowed, UnderWayAllowed DEF EffectsAllowed
<1>3. TypeOK'
  <2>1. effects' \subseteq Runners \X EndpointIntents
    BY <1>2 DEF EffectsAllowed
  <2>2. pc' \in [Handlers -> PC]
    BY <1>1 DEF IInv, TypeOK, Goto, PC
  <2>3. QED
    BY <1>1, <2>1, <2>2 DEF IInv, TypeOK
<1>4. LoadedInv'
  BY <1>1 DEF IInv, TypeOK, LoadedInv, InNodes, Goto
<1>5. RunInv'
  BY <1>1, <1>2 DEF IInv, TypeOK, RunInv, InNodes, Goto, Handlers
<1>6. ConfirmInv'
  BY <1>1 DEF IInv, TypeOK, ConfirmInv, Goto, Handlers, Runners, InNodes
<1>7. CopyInv' /\ ResolvedClaimsAreBacked' /\ StuckOnlyByCutRun'
  BY <1>1, <1>2 DEF IInv, CopyInv, ResolvedClaimsAreBacked, StuckOnlyByCutRun, Backed
<1>8. DestructiveOnlyConfirmed'
  BY <1>1, <1>2 DEF EffectsAllowed, DestructiveOnlyConfirmed
<1>9. QED
  BY <1>3, <1>4, <1>5, <1>6, <1>7, <1>8 DEF IInv

\* The first handshake: the run starts from the initial state, unconfirmed, or
\* the handler returns.
LEMMA AuthStep == ASSUME NEW h \in Handlers PROVE IInv /\ Authenticate(h) => IInv'
<1> SUFFICES ASSUME IInv, Authenticate(h) PROVE IInv'
  OBVIOUS
<1>1. /\ h \in Conns /\ pc[h] = "auth"
      /\ UNCHANGED <<row, old, effects, told, cut, recovery, crashes>>
  BY DEF Authenticate
<1>2. CASE Ends(h, "closed")
  BY <1>1, <1>2, GiveUpStep
<1>3. CASE Goto(h, "intake") /\ st' = [st EXCEPT ![h] = InitialState(FALSE)] /\ UNCHANGED snap
  <2>1. /\ InitialState(FALSE) \in TicketState /\ InitialState(FALSE).status = "triaging"
        /\ InitialState(FALSE).confirmed # "yes"
    BY InitialType
  <2>2. NodeReturns(h, InitialState(FALSE), "intake") /\ h \in Runners
    BY <1>1, <1>3 DEF NodeReturns, Runners
  <2>3. EffectsAllowed(effects')
    BY <1>1, EffectsAreAllowed
  <2>4. QED
    BY <1>1, <1>3, <2>1, <2>2, <2>3, RunStepInv
<1>4. QED
  BY <1>2, <1>3 DEF Authenticate

\* Requests: each loads the row, and a confirmation starts a confirmed run.
LEMMA RequestStep == ASSUME NEW h \in Handlers PROVE IInv /\ Request(h) => IInv'
<1> SUFFICES ASSUME IInv, Request(h) PROVE IInv'
  OBVIOUS
<1>1. CASE Connect(h)
  <2>1. h \notin Confirms
    BY <1>1, HandlersAssumption DEF Connect
  <2>2. QED
    BY <1>1, <2>1, LoadStep DEF Connect
<1>2. CASE Confirm(h)
  BY <1>2, LoadStep DEF Confirm
<1>3. CASE CancelLoads(h)
  <2>1. h \notin Confirms
    BY <1>3, HandlersAssumption DEF CancelLoads, Runners
  <2>2. QED
    BY <1>3, <2>1, LoadStep DEF CancelLoads
<1>4. CASE PatchLoads(h)
  <2>1. h \notin Confirms
    BY <1>4, HandlersAssumption DEF PatchLoads, Runners
  <2>2. QED
    BY <1>4, <2>1, LoadStep DEF PatchLoads
<1>5. QED
  BY <1>1, <1>2, <1>3, <1>4 DEF Request

\* Errors: an exception in a confirmation's run, or at a commit.
LEMMA ErrorStep ==
  ASSUME NEW h \in Handlers PROVE IInv /\ (ConfirmRaises(h) \/ CommitFails(h)) => IInv'
<1> SUFFICES ASSUME IInv, ConfirmRaises(h) \/ CommitFails(h) PROVE IInv'
  OBVIOUS
<1>1. /\ pc[h] # "off"
      /\ UNCHANGED <<row, old, effects, told, cut, recovery, crashes>>
      /\ Ends(h, "error") \/ Ends(h, "uncallable")
  BY DEF ConfirmRaises, CommitFails
<1>2. QED
  BY <1>1, GiveUpStep

-----------------------------------------------------------------------------
(* Steps of nobody's handler                                               *)

\* create_ticket and the passing of time.
LEMMA ClockSteps == IInv /\ (CreateTicket \/ TimePasses) => IInv'
<1> SUFFICES ASSUME IInv, CreateTicket \/ TimePasses PROVE IInv'
  OBVIOUS
<1>1. UNCHANGED <<pc, snap, st, effects, told, cut, recovery, crashes>>
  BY DEF CreateTicket, TimePasses
<1>2. /\ row' \in Row /\ row' # NoRow
      /\ (row.resolver => row'.resolver)
      /\ row'.status \in {row.status, "pending"}
      /\ old' \in BOOLEAN
  <2>1. CASE CreateTicket
    BY <2>1 DEF CreateTicket, NewRow, NoRow, Row, RowStatus, NodeReason, IInv, TypeOK
  <2>2. CASE TimePasses
    BY <2>2 DEF TimePasses, IInv, TypeOK
  <2>3. QED
    BY <2>1, <2>2
<1>3. TypeOK' /\ LoadedInv'
  BY <1>1, <1>2 DEF IInv, TypeOK, LoadedInv
<1>4. RunInv' /\ ConfirmInv' /\ DestructiveOnlyConfirmed'
  BY <1>1 DEF IInv, RunInv, ConfirmInv, DestructiveOnlyConfirmed
<1>5. CopyInv' /\ ResolvedClaimsAreBacked' /\ StuckOnlyByCutRun'
  BY <1>1, <1>2 DEF IInv, CopyInv, ResolvedClaimsAreBacked, StuckOnlyByCutRun, Backed
<1>6. QED
  BY <1>3, <1>4, <1>5 DEF IInv

\* The recovery loop: "failed" claims nothing, whatever it overwrites.
LEMMA RecoveryStep ==
  IInv /\ (RecoveryReads \/ RecoveryCommits \/ RecoveryFails) => IInv'
<1> SUFFICES ASSUME IInv, RecoveryReads \/ RecoveryCommits \/ RecoveryFails PROVE IInv'
  OBVIOUS
<1>1. UNCHANGED <<old, pc, snap, st, effects, told, cut, crashes>>
  BY DEF RecoveryReads, RecoveryCommits, RecoveryFails
<1>2. /\ row' \in Row \cup {NoRow} /\ (row # NoRow => row' # NoRow)
      /\ (row.resolver => row'.resolver)
      /\ row'.status \in {row.status, "failed"}
      /\ recovery' \in {row, NoRow}
  <2>1. CASE RecoveryReads
    BY <2>1 DEF RecoveryReads, IInv, TypeOK
  <2>2. CASE RecoveryFails
    BY <2>2 DEF RecoveryFails, IInv, TypeOK
  <2>3. CASE RecoveryCommits
    <3> DEFINE new == [recovery EXCEPT !.status = "failed", !.reason = "recovered"]
    <3>1. row \in Row /\ recovery \in Row
      BY <2>3 DEF RecoveryCommits, IInv, TypeOK, LoadedInv
    <3>2. new \in Row /\ new.resolver = recovery.resolver /\ new.status = "failed"
      BY <3>1 DEF Row, RowStatus
    <3>3. row' = Merge(new, recovery) /\ recovery' = NoRow
      BY <2>3 DEF RecoveryCommits
    <3> HIDE DEF new
    <3>4. row' \in Row /\ row'.resolver = row.resolver /\ row'.status \in {row.status, "failed"}
      BY <3>1, <3>2, <3>3, MergeFields
    <3>5. row' # NoRow
      BY <3>4 DEF Row, NoRow, RowStatus
    <3>6. QED
      BY <3>3, <3>4, <3>5
  <2>4. QED
    BY <2>1, <2>2, <2>3
<1>3. TypeOK' /\ LoadedInv'
  <2>1. recovery' # NoRow => row' # NoRow
    BY <1>2
  <2>2. row' = NoRow => row = NoRow
    BY <1>2
  <2>3. QED
    BY <1>1, <1>2, <2>1, <2>2 DEF IInv, TypeOK, LoadedInv
<1>4. RunInv' /\ ConfirmInv' /\ DestructiveOnlyConfirmed'
  BY <1>1 DEF IInv, RunInv, ConfirmInv, DestructiveOnlyConfirmed
<1>5. CopyInv' /\ ResolvedClaimsAreBacked' /\ StuckOnlyByCutRun'
  BY <1>1, <1>2 DEF IInv, CopyInv, ResolvedClaimsAreBacked, StuckOnlyByCutRun, Backed
<1>6. QED
  BY <1>3, <1>4, <1>5 DEF IInv

\* A crash: every handler is gone, requests under way may still be served.
LEMMA CrashStep == IInv /\ Crash => IInv'
<1> SUFFICES ASSUME IInv, Crash PROVE IInv'
  OBVIOUS
<1>1. /\ crashes < MaxCrashes /\ crashes' = crashes + 1
      /\ pc' = [h \in Handlers |-> IF pc[h] = "off" THEN "off" ELSE "closed"]
      /\ snap' = [h \in Handlers |-> IF h \in Confirms THEN snap[h] ELSE NoRow]
      /\ st' = [h \in Runners |-> Idle]
      /\ recovery' = NoRow
      /\ UNCHANGED <<row, old, told, cut>>
  BY DEF Crash
<1>2. PICK H \in SUBSET Handlers : effects' = effects \cup UNION {UnderWay(h) : h \in H}
  BY DEF Crash
<1>3. EffectsAllowed(effects')
  BY <1>2, EffectsAreAllowed, UnderWayAllowed DEF EffectsAllowed
<1>4. effects \subseteq effects'
  BY <1>2
<1>5. Idle \in TicketState /\ Idle.status = "triaging"
  BY InitialType DEF Idle
<1>6. TypeOK'
  <2>1. pc' \in [Handlers -> PC] /\ snap' \in [Handlers -> Row \cup {NoRow}]
    BY <1>1 DEF IInv, TypeOK, PC
  <2>2. st' \in [Runners -> TicketState]
    BY <1>1, <1>5
  <2>3. effects' \subseteq Runners \X EndpointIntents
    BY <1>3 DEF EffectsAllowed
  <2>4. crashes' \in 0..MaxCrashes
    BY <1>1, MaxCrashesAssumption DEF IInv, TypeOK
  <2>5. QED
    BY <1>1, <2>1, <2>2, <2>3, <2>4 DEF IInv, TypeOK
<1>7. LoadedInv'
  BY <1>1 DEF IInv, LoadedInv, InNodes
<1>8. RunInv'
  BY <1>1, <1>5 DEF RunInv, Handlers
<1>9. ConfirmInv'
  BY <1>1 DEF IInv, ConfirmInv, Handlers, Runners
<1>10. CopyInv'
  <2>1. NoRow.status = "absent" /\ NoRow.resolver = FALSE
    BY DEF NoRow
  <2>2. Backed => Backed'
    BY <1>1, <1>4 DEF Backed
  <2>3. QED
    BY <1>1, <2>1, <2>2 DEF IInv, CopyInv
<1>11. DestructiveOnlyConfirmed'
  <2>1. \A h \in Confirms : snap'[h] = snap[h]
    BY <1>1 DEF Handlers, Runners
  <2>2. QED
    BY <1>3, <2>1 DEF EffectsAllowed, DestructiveOnlyConfirmed
<1>12. ResolvedClaimsAreBacked' /\ StuckOnlyByCutRun'
  BY <1>1, <1>4 DEF IInv, ResolvedClaimsAreBacked, StuckOnlyByCutRun
<1>13. QED
  BY <1>6, <1>7, <1>8, <1>9, <1>10, <1>11, <1>12 DEF IInv

-----------------------------------------------------------------------------
(* The theorems                                                            *)

\* Every step keeps the invariant.
LEMMA NextInv == IInv /\ [Next]_vars => IInv'
<1> SUFFICES ASSUME IInv, [Next]_vars PROVE IInv'
  OBVIOUS
<1>1. ASSUME NEW h \in Handlers, RunStep(h) PROVE IInv'
  BY <1>1, TriageSteps, EarlyStep, CallStep, EscalationStep, PersistStep, AnnounceStep
     DEF RunStep
<1>2. ASSUME NEW h \in Handlers, HandlerStep(h) PROVE IInv'
  BY <1>1, <1>2, AuthStep, ErrorStep, CancelStep, PatchStep DEF HandlerStep
<1>3. ASSUME NEW h \in Handlers, RunCut(h) \/ RunTimesOut(h) \/ CommitFails(h) PROVE IInv'
  BY <1>3, CutStep, TimeoutStep, ErrorStep
<1>4. CASE UNCHANGED vars
  BY <1>4
     DEF vars, IInv, TypeOK, LoadedInv, RunInv, ConfirmInv, CopyInv, Backed,
         DestructiveOnlyConfirmed, ResolvedClaimsAreBacked, StuckOnlyByCutRun
<1>5. QED
  BY <1>2, <1>3, <1>4, RequestStep, ClockSteps, RecoveryStep, CrashStep DEF Next

\* The inductive invariant, from which the safety results follow.
THEOREM Invariant == Spec => []IInv
  BY InitInv, NextInv, PTL DEF Spec

\* Every variable keeps its type.
THEOREM TypeCorrect == Spec => []TypeOK
  BY Invariant, PTL DEF IInv

\* No destructive effect without a confirmation that found the ticket waiting
\* for one, however many handlers race for the row.
THEOREM DestructiveIsConfirmed == Spec => []DestructiveOnlyConfirmed
  BY Invariant, PTL DEF IInv

\* Lost updates never make up a "resolved" that nothing stands behind.
THEOREM ResolvedIsBacked == Spec => []ResolvedClaimsAreBacked
  BY Invariant, PTL DEF IInv

\* Only a run that was cut short leaves the row where no loop looks for it.
THEOREM StuckMeansCut == Spec => []StuckOnlyByCutRun
  BY Invariant, PTL DEF IInv

\* A handler's commit writes "pending" only when its copy already was: the row
\* then keeps what it had.
LEMMA CommitKeepsPending ==
  ASSUME IInv, NEW h \in Handlers, pc[h] \in {"persist", "loaded"} \cup InNodes,
         NEW new \in Row, row' = Merge(new, snap[h]), new.status # "pending"
  PROVE  row'.status = "pending" => row.status = "pending"
<1>1. snap[h] \in Row /\ row \in Row
  BY DEF IInv, TypeOK, LoadedInv, InNodes
<1>2. QED
  BY <1>1, MergeFields

\* Only an administrator hands a ticket back.
THEOREM ReopeningIsTheAdmins == Spec => OnlyAdminReopens
<1>1. ASSUME IInv, [Next]_vars, row'.status = "pending", row.status \notin {"absent", "pending"}
      PROVE  \E h \in Patches : pc[h] = "loaded" /\ pc'[h] = "closed"
  <2>1. row' # row
    BY <1>1
  <2>2. ~CreateTicket
    BY <1>1 DEF CreateTicket, NoRow
  <2>3. ASSUME RecoveryCommits PROVE FALSE
    <3> DEFINE new == [recovery EXCEPT !.status = "failed", !.reason = "recovered"]
    <3>1. row \in Row /\ recovery \in Row
      BY <1>1, <2>3 DEF RecoveryCommits, IInv, TypeOK, LoadedInv
    <3>2. new \in Row /\ new.status = "failed"
      BY <3>1 DEF Row, RowStatus
    <3>3. row' = Merge(new, recovery)
      BY <2>3 DEF RecoveryCommits
    <3> HIDE DEF new
    <3>4. QED
      BY <1>1, <3>1, <3>2, <3>3, MergeFields
  <2>4. ASSUME NEW h \in Handlers, Persist(h) PROVE FALSE
    <3>1. h \in Runners /\ pc[h] = "persist" /\ row' = Merge(Final(h), snap[h])
      BY <2>4 DEF Persist
    <3>2. snap[h] \in Row /\ st[h] \in TicketState
      BY <1>1, <3>1 DEF IInv, TypeOK, LoadedInv
    <3>3. Final(h) \in Row /\ Final(h).status # "pending"
      BY <3>2 DEF Final, Row, RowStatus, TicketState, GraphStatus
    <3>4. QED
      BY <1>1, <3>1, <3>3, CommitKeepsPending
  <2>5. ASSUME NEW h \in Handlers, RunTimesOut(h), ~UNCHANGED row PROVE FALSE
    <3> DEFINE new == [snap[h] EXCEPT !.status = "failed", !.reason = "timed_out"]
    <3>1. pc[h] \in InNodes /\ row' = Merge(new, snap[h])
      BY <2>5 DEF RunTimesOut, InNodes
    <3>2. new \in Row /\ new.status = "failed"
      BY <1>1, <3>1 DEF IInv, TypeOK, LoadedInv, InNodes, Row, RowStatus
    <3> HIDE DEF new
    <3>3. QED
      BY <1>1, <3>1, <3>2, CommitKeepsPending
  <2>6. ASSUME NEW h \in Handlers, CancelCommits(h) PROVE FALSE
    <3> DEFINE new == [snap[h] EXCEPT !.status = "escalated", !.reason = "cancelled"]
    <3>1. pc[h] = "loaded" /\ row' = Merge(new, snap[h])
      BY <2>6 DEF CancelCommits
    <3>2. new \in Row /\ new.status = "escalated"
      BY <1>1, <3>1 DEF IInv, TypeOK, LoadedInv, Row, RowStatus
    <3> HIDE DEF new
    <3>3. QED
      BY <1>1, <3>1, <3>2, CommitKeepsPending
  <2>7. ASSUME NEW h \in Handlers, PatchCommits(h)
        PROVE  \E g \in Patches : pc[g] = "loaded" /\ pc'[g] = "closed"
    <3>1. h \in Patches /\ pc[h] = "loaded" /\ pc' = [pc EXCEPT ![h] = "closed"]
      BY <2>7 DEF PatchCommits, Ends, Goto
    <3>2. pc'[h] = "closed"
      BY <1>1, <3>1 DEF IInv, TypeOK
    <3>3. QED
      BY <3>1, <3>2
  <2>8. CASE UNCHANGED row
    BY <2>1, <2>8
  <2>9. CASE ~UNCHANGED row
    <3>1. \/ RecoveryCommits
          \/ \E h \in Handlers : \/ Persist(h) \/ RunTimesOut(h)
                                \/ CancelCommits(h) \/ PatchCommits(h)
      BY <1>1, <2>2, <2>9
         DEF Next, vars, TimePasses, RecoveryReads, RecoveryFails, Crash, HandlerStep, RunStep,
             IntakeNode, KnowledgeNode, ActionReturnsEarly, ActionCallsApi, EscalationNode,
             Announce, Authenticate, ConfirmRaises, Request, Connect, Confirm, CancelLoads,
             PatchLoads, RunCut, CommitFails
    <3>2. QED
      BY <2>3, <2>4, <2>5, <2>6, <2>7, <2>9, <3>1
  <2>10. QED
    BY <2>8, <2>9
<1>2. IInv /\ [Next]_vars =>
        [row'.status = "pending" /\ row.status \notin {"absent", "pending"} =>
           \E h \in Patches : pc[h] = "loaded" /\ pc'[h] = "closed"]_vars
  BY <1>1
<1>3. QED
  BY <1>2, Invariant, PTL DEF Spec, OnlyAdminReopens

-----------------------------------------------------------------------------
(* Lost updates                                                            *)

\* Two sessions that write the row lose each other's updates; what none of them
\* loses is the administrator's signature: resolved_by, once set, stays set,
\* whatever copies are committed afterwards.
THEOREM ResolverIsKept == Spec => [][row.resolver => row'.resolver]_vars
<1>1. ASSUME IInv, [Next]_vars, row.resolver PROVE row'.resolver
  <2>1. CASE UNCHANGED row
    BY <1>1, <2>1
  <2>2. CASE RecoveryCommits
    <3> DEFINE new == [recovery EXCEPT !.status = "failed", !.reason = "recovered"]
    <3>1. row \in Row /\ recovery \in Row
      BY <1>1, <2>2 DEF RecoveryCommits, IInv, TypeOK, LoadedInv
    <3>2. new \in Row /\ new.resolver = recovery.resolver /\ row' = Merge(new, recovery)
      BY <2>2, <3>1 DEF RecoveryCommits, Row, RowStatus
    <3> HIDE DEF new
    <3>3. QED
      BY <1>1, <3>1, <3>2, MergeFields
  <2>3. ASSUME NEW h \in Handlers, Persist(h) PROVE row'.resolver
    <3>1. h \in Runners /\ pc[h] = "persist" /\ row' = Merge(Final(h), snap[h])
      BY <2>3 DEF Persist
    <3>2. snap[h] \in Row /\ st[h] \in TicketState
      BY <1>1, <3>1 DEF IInv, TypeOK, LoadedInv
    <3>3. Final(h) \in Row /\ Final(h).resolver = snap[h].resolver
      BY <3>2 DEF Final, Row, RowStatus, TicketState, GraphStatus
    <3>4. QED
      BY <1>1, <3>1, <3>3, CommitFields
  <2>4. ASSUME NEW h \in Handlers, RunTimesOut(h), ~UNCHANGED row PROVE row'.resolver
    <3> DEFINE new == [snap[h] EXCEPT !.status = "failed", !.reason = "timed_out"]
    <3>1. pc[h] \in InNodes /\ row' = Merge(new, snap[h])
      BY <2>4 DEF RunTimesOut, InNodes
    <3>2. new \in Row /\ new.resolver = snap[h].resolver
      BY <1>1, <3>1 DEF IInv, TypeOK, LoadedInv, InNodes, Row, RowStatus
    <3> HIDE DEF new
    <3>3. QED
      BY <1>1, <3>1, <3>2, CommitFields
  <2>5. ASSUME NEW h \in Handlers, CancelCommits(h) PROVE row'.resolver
    <3> DEFINE new == [snap[h] EXCEPT !.status = "escalated", !.reason = "cancelled"]
    <3>1. pc[h] = "loaded" /\ row' = Merge(new, snap[h])
      BY <2>5 DEF CancelCommits
    <3>2. new \in Row /\ new.resolver = snap[h].resolver
      BY <1>1, <3>1 DEF IInv, TypeOK, LoadedInv, Row, RowStatus
    <3> HIDE DEF new
    <3>3. QED
      BY <1>1, <3>1, <3>2, CommitFields
  <2>6. ASSUME NEW h \in Handlers, PatchCommits(h) PROVE row'.resolver
    <3>1. PICK status \in {"resolved", "escalated", "pending"}, note \in BOOLEAN :
            row' = Merge(Patched(snap[h], status, note), snap[h])
      BY <2>6 DEF PatchCommits
    <3>2. snap[h] \in Row /\ pc[h] = "loaded"
      BY <1>1, <2>6 DEF PatchCommits, IInv, TypeOK, LoadedInv
    <3>3. Patched(snap[h], status, note) \in Row /\ Patched(snap[h], status, note).resolver = TRUE
      BY <3>2 DEF Patched, Row, RowStatus
    <3>4. QED
      BY <1>1, <3>1, <3>2, <3>3, CommitFields
  <2>7. CASE CreateTicket
    BY <1>1, <2>7 DEF CreateTicket, NoRow
  <2>8. QED
    BY <1>1, <2>1, <2>2, <2>3, <2>4, <2>5, <2>6, <2>7
       DEF Next, vars, TimePasses, RecoveryReads, RecoveryFails, Crash, HandlerStep, RunStep,
           IntakeNode, KnowledgeNode, ActionReturnsEarly, ActionCallsApi, EscalationNode,
           Announce, Authenticate, ConfirmRaises, Request, Connect, Confirm, CancelLoads,
           PatchLoads, RunCut, CommitFails
<1>2. IInv /\ [Next]_vars => [row.resolver => row'.resolver]_vars
  BY <1>1
<1>3. QED
  BY <1>2, Invariant, PTL DEF Spec

-----------------------------------------------------------------------------
(* Every handler that starts ends                                          *)
(*                                                                         *)
(* As for a graph run: HandlersEnd follows from a step being due, from     *)
(* steps that bring the end nearer, and from the event loop and the pool   *)
(* taking them.  The first two are proved.                                 *)

\* Who can be where.
RolesInv ==
  \A h \in Handlers :
    /\ pc[h] \in {"auth", "saved"} => h \in Conns
    /\ pc[h] \in InNodes \cup {"persist"} => h \in Runners
    /\ pc[h] = "loaded" => h \in Cancels \cup Patches

\* The moves of a handler that its code has, to the next position.
Moves(h, next) ==
  \/ pc[h] = "off" /\ next = "auth" /\ h \in Conns
  \/ pc[h] = "off" /\ next = "intake" /\ h \in Confirms
  \/ pc[h] = "off" /\ next = "loaded" /\ h \in Cancels \cup Patches
  \/ pc[h] = "auth" /\ next \in {"intake", "closed"} /\ h \in Conns
  \/ pc[h] = "intake" /\ next \in {"knowledge", "error"} /\ h \in Runners
  \/ pc[h] = "knowledge" /\ next \in {"action", "error"} /\ h \in Runners
  \/ pc[h] = "action" /\ next \in {"error", "uncallable"} /\ h \in Runners
  \/ pc[h] = "action" /\ next \in {"escalation", "persist"} /\ h \in Runners /\ Enters(h)
  \/ pc[h] = "escalation" /\ next = "persist" /\ h \in Runners
  \/ pc[h] \in InNodes /\ next \in {"persist", "closed", "error"} /\ h \in Conns
  \/ pc[h] = "persist" /\ next = "saved" /\ h \in Conns
  \/ pc[h] = "persist" /\ next = "closed" /\ h \in Confirms
  \/ pc[h] = "saved" /\ next = "closed"
  \/ pc[h] = "loaded" /\ next = "closed"
  \/ pc[h] \in {"persist", "loaded"} /\ next = "error"

ActionOf(h) ==
  HandlerStep(h) \/ Request(h) \/ RunCut(h) \/ RunTimesOut(h) \/ CommitFails(h)

\* A handler's action is one of its moves.
LEMMA ActionMoves ==
  ASSUME NEW h \in Handlers, ActionOf(h)
  PROVE  \E next \in PC : Goto(h, next) /\ Moves(h, next)
<1> USE DEF PC, Moves, Ends
<1>1. CASE Request(h)
  BY <1>1 DEF Request, Connect, Confirm, CancelLoads, PatchLoads
<1>2. CASE Authenticate(h)
  BY <1>2 DEF Authenticate
<1>3. CASE IntakeNode(h) \/ KnowledgeNode(h) \/ EscalationNode(h)
  BY <1>3 DEF IntakeNode, KnowledgeNode, EscalationNode, NodeReturns
<1>4. CASE ActionReturnsEarly(h) \/ ActionCallsApi(h)
  BY <1>4 DEF ActionReturnsEarly, ActionCallsApi, NodeReturns, AfterAction
<1>5. CASE Persist(h)
  BY <1>5 DEF Persist, Runners
<1>6. CASE Announce(h) \/ CancelCommits(h) \/ PatchCommits(h) \/ CommitFails(h)
  BY <1>6 DEF Announce, CancelCommits, PatchCommits, CommitFails
<1>7. CASE ConfirmRaises(h)
  BY <1>7 DEF ConfirmRaises, Runners
<1>8. CASE RunCut(h) \/ RunTimesOut(h)
  BY <1>8 DEF RunCut, RunTimesOut, InNodes
<1>9. QED
  BY <1>1, <1>2, <1>3, <1>4, <1>5, <1>6, <1>7, <1>8 DEF ActionOf, HandlerStep, RunStep

\* A step is a handler's, or leaves the positions alone, or is the crash.
LEMMA WhoMoves ==
  [Next]_vars => \/ \E h \in Handlers : ActionOf(h)
                 \/ UNCHANGED pc
                 \/ Crash
  BY DEF Next, ActionOf, vars, CreateTicket, TimePasses, RecoveryReads, RecoveryCommits,
         RecoveryFails

\* Handlers keep to their roles.
LEMMA RolesStep == TypeOK /\ RolesInv /\ [Next]_vars => RolesInv'
<1> SUFFICES ASSUME TypeOK, RolesInv, [Next]_vars PROVE RolesInv'
  OBVIOUS
<1>1. ASSUME NEW h \in Handlers, ActionOf(h) PROVE RolesInv'
  <2>1. PICK next \in PC : Goto(h, next) /\ Moves(h, next)
    BY <1>1, ActionMoves
  <2>2. /\ pc'[h] = next
        /\ \A g \in Handlers : g # h => pc'[g] = pc[g]
    BY <2>1 DEF Goto, TypeOK
  <2>3. /\ next \in {"auth", "saved"} => h \in Conns
        /\ next \in InNodes \cup {"persist"} => h \in Runners
        /\ next = "loaded" => h \in Cancels \cup Patches
    BY <2>1 DEF Moves, InNodes, Runners
  <2>4. QED
    BY <2>2, <2>3 DEF RolesInv
<1>2. CASE UNCHANGED pc
  BY <1>2 DEF RolesInv
<1>3. CASE Crash
  BY <1>3 DEF Crash, RolesInv, InNodes
<1>4. QED
  BY <1>1, <1>2, <1>3, WhoMoves

Ended == {"closed", "error", "uncallable"}

\* The guards of HandlerStep, position by position.
StepDue(h) ==
  \/ pc[h] \in {"auth", "saved"} /\ h \in Conns
  \/ pc[h] \in {"intake", "knowledge", "escalation", "persist"} /\ h \in Runners
  \/ pc[h] = "action" /\ h \in Confirms        \* at least by raising
  \/ /\ pc[h] = "action" /\ h \in Runners /\ Enters(h)
     /\ ActionUnknown(st[h]) \/ ActionGated(st[h]) \/ ActionCalls(st[h])
  \/ pc[h] = "loaded" /\ h \in Cancels \cup Patches

\* A handler that has started and not ended has a step due, in the position it is
\* in and with the role it has.
THEOREM StartedHasStep ==
  Spec => [](\A h \in Handlers : pc[h] \notin Ended \cup {"off"} => StepDue(h))
<1>1. Init => RolesInv
  BY DEF Init, RolesInv, InNodes
<1>2. Spec => []RolesInv
  BY <1>1, RolesStep, TypeCorrect, PTL DEF Spec
<1>3. TypeOK /\ RolesInv =>
        \A h \in Handlers : pc[h] \notin Ended \cup {"off"} => StepDue(h)
  <2> SUFFICES ASSUME TypeOK, RolesInv, NEW h \in Handlers, pc[h] \notin Ended \cup {"off"}
               PROVE  StepDue(h)
    OBVIOUS
  <2>1. pc[h] \in PC
    BY DEF TypeOK
  <2>2. CASE pc[h] = "action"
    BY <2>2 DEF RolesInv, InNodes, StepDue, Enters, Runners, ActionCalls
  <2>3. CASE pc[h] # "action"
    BY <2>1, <2>3 DEF RolesInv, InNodes, StepDue, Ended, PC
  <2>4. QED
    BY <2>2, <2>3
<1>4. QED
  BY <1>2, <1>3, TypeCorrect, PTL

\* How far a position is from the handler's end.
Distance(position) ==
  CASE position = "off"        -> 8
    [] position = "auth"       -> 7
    [] position = "intake"     -> 6
    [] position = "knowledge"  -> 5
    [] position = "action"     -> 4
    [] position = "escalation" -> 3
    [] position = "persist"    -> 2
    [] position \in {"saved", "loaded"} -> 1
    [] OTHER                   -> 0

\* A move shortens the distance.
LEMMA MovesShorten ==
  ASSUME NEW h \in Handlers, NEW next \in PC, Moves(h, next)
  PROVE  Distance(next) < Distance(pc[h])
  BY DEF Moves, Distance, InNodes

\* Distances are numbers.
LEMMA DistanceType == ASSUME NEW position PROVE Distance(position) \in 0..8
  BY DEF Distance

\* Each step of a handler brings it nearer to its end, by at most eight steps in
\* all, and no step of another handler, no lost update, no recovery and no crash
\* ever sends it back: no handler serves its request twice.
THEOREM HandlersGetOn ==
  Spec => [][\A h \in Handlers :
               /\ HandlerStep(h) => Distance(pc'[h]) < Distance(pc[h])
               /\ Distance(pc'[h]) <= Distance(pc[h])]_vars
<1>1. ASSUME TypeOK, [Next]_vars, NEW h \in Handlers
      PROVE  /\ HandlerStep(h) => Distance(pc'[h]) < Distance(pc[h])
             /\ Distance(pc'[h]) <= Distance(pc[h])
  <2>1. ASSUME NEW g \in Handlers, ActionOf(g)
        PROVE  /\ Distance(pc'[g]) < Distance(pc[g])
               /\ \A f \in Handlers : f # g => pc'[f] = pc[f]
    <3>1. PICK next \in PC : Goto(g, next) /\ Moves(g, next)
      BY <2>1, ActionMoves
    <3>2. pc'[g] = next /\ \A f \in Handlers : f # g => pc'[f] = pc[f]
      BY <1>1, <3>1 DEF Goto, TypeOK
    <3>3. QED
      BY <3>1, <3>2, MovesShorten
  <2>2. HandlerStep(h) => Distance(pc'[h]) < Distance(pc[h])
    BY <2>1 DEF ActionOf
  <2>3. Distance(pc[h]) \in 0..8 /\ Distance(pc'[h]) \in 0..8
    BY DistanceType
  <2>4. Distance(pc'[h]) <= Distance(pc[h])
    <3>1. ASSUME NEW g \in Handlers, ActionOf(g) PROVE Distance(pc'[h]) <= Distance(pc[h])
      <4>1. CASE g = h
        BY <2>1, <2>3, <3>1, <4>1
      <4>2. CASE g # h
        BY <2>1, <2>3, <3>1, <4>2
      <4>3. QED
        BY <4>1, <4>2
    <3>2. CASE UNCHANGED pc
      BY <2>3, <3>2
    <3>3. CASE Crash
      <4>1. pc'[h] = pc[h] \/ pc'[h] = "closed"
        BY <3>3 DEF Crash
      <4>2. Distance("closed") = 0
        BY DEF Distance
      <4>3. QED
        BY <2>3, <4>1, <4>2
    <3>4. QED
      BY <1>1, <3>1, <3>2, <3>3, WhoMoves
  <2>5. QED
    BY <2>2, <2>4
<1>2. TypeOK /\ [Next]_vars =>
        [\A h \in Handlers :
           /\ HandlerStep(h) => Distance(pc'[h]) < Distance(pc[h])
           /\ Distance(pc'[h]) <= Distance(pc[h])]_vars
  BY <1>1
<1>3. QED
  BY <1>2, TypeCorrect, PTL DEF Spec

-----------------------------------------------------------------------------
(* What the uncallable action_node means for the row                       *)

\* When invoke() raises at action_node, only a connection's run acts, and a
\* confirmation stops before it could escalate, persist or act.
OnlyConnsAct ==
  /\ \A e \in effects : e[1] \in Conns
  /\ \A h \in Confirms : pc[h] \notin {"escalation", "persist", "saved"}

\* The effects a step adds are those of runs that could enter action_node.
LEMMA NewEffectsEnter ==
  ASSUME [Next]_vars, NEW e \in effects', e \notin effects
  PROVE  \E h \in Runners : e[1] = h /\ Enters(h)
<1>1. \A h \in Handlers : \A d \in UnderWay(h) : h \in Runners /\ d[1] = h /\ Enters(h)
  BY DEF UnderWay
<1>2. ASSUME NEW h \in Handlers, RunCut(h) \/ RunTimesOut(h)
      PROVE  \E g \in Runners : e[1] = g /\ Enters(g)
  BY <1>1, <1>2 DEF RunCut, RunTimesOut
<1>3. ASSUME NEW h \in Handlers, ActionCallsApi(h)
      PROVE  \E g \in Runners : e[1] = g /\ Enters(g)
  <2>1. h \in Runners /\ Enters(h) /\ effects' \subseteq effects \cup {<<h, st[h].category>>}
    BY <1>3 DEF ActionCallsApi
  <2>2. e = <<h, st[h].category>>
    BY <2>1
  <2>3. QED
    BY <2>1, <2>2
<1>4. CASE Crash
  <2>1. PICK H \in SUBSET Handlers : effects' = effects \cup UNION {UnderWay(h) : h \in H}
    BY <1>4 DEF Crash
  <2>2. PICK h \in Handlers : e \in UnderWay(h)
    BY <2>1
  <2>3. QED
    BY <1>1, <2>2
<1>5. QED
  BY <1>2, <1>3, <1>4
     DEF Next, vars, CreateTicket, TimePasses, RecoveryReads, RecoveryCommits, RecoveryFails,
         HandlerStep, RunStep, IntakeNode, KnowledgeNode, ActionReturnsEarly, EscalationNode,
         Persist, Announce, Authenticate, ConfirmRaises, CancelCommits, PatchCommits, Request,
         Connect, Confirm, CancelLoads, PatchLoads, CommitFails

\* With the graph library as it is, no destructive action is ever executed: a
\* confirmation neither acts nor writes the row, and nothing else may act.  The gate
\* is safe (DestructiveIsConfirmed) and the action behind it out of reach.
THEOREM NothingDestructiveRuns ==
  ASSUME "runs" \notin SyncInvoke
  PROVE  Spec => [](OnlyConnsAct /\ \A e \in effects : e[2] \notin DestructiveIntents)
<1>1. Init => OnlyConnsAct
  BY DEF Init, OnlyConnsAct, Handlers, Runners
<1>2. TypeOK /\ OnlyConnsAct /\ [Next]_vars => OnlyConnsAct'
  <2> SUFFICES ASSUME TypeOK, OnlyConnsAct, [Next]_vars PROVE OnlyConnsAct'
    OBVIOUS
  <2>1. ASSUME NEW e \in effects' PROVE e[1] \in Conns
    <3>1. CASE e \in effects
      BY <3>1 DEF OnlyConnsAct
    <3>2. CASE e \notin effects
      BY <3>2, NewEffectsEnter DEF Enters
    <3>3. QED
      BY <3>1, <3>2
  <2>2. ASSUME NEW h \in Confirms PROVE pc'[h] \notin {"escalation", "persist", "saved"}
    <3>1. h \in Handlers /\ h \notin Conns
      BY HandlersAssumption DEF Handlers, Runners
    <3>2. pc[h] \notin {"escalation", "persist", "saved"}
      BY DEF OnlyConnsAct
    <3>3. ASSUME NEW g \in Handlers, ActionOf(g)
          PROVE  pc'[h] \notin {"escalation", "persist", "saved"}
      <4>1. PICK next \in PC : Goto(g, next) /\ Moves(g, next)
        BY <3>3, ActionMoves
      <4>2. CASE g = h
        <5>1. pc'[h] = next
          BY <3>1, <4>1, <4>2 DEF Goto, TypeOK
        <5>2. next \notin {"escalation", "persist", "saved"}
          BY <3>1, <3>2, <4>1, <4>2 DEF Moves, Enters
        <5>3. QED
          BY <5>1, <5>2
      <4>3. CASE g # h
        BY <3>1, <3>2, <4>1, <4>3 DEF Goto, TypeOK
      <4>4. QED
        BY <4>2, <4>3
    <3>4. CASE UNCHANGED pc
      BY <3>2, <3>4
    <3>5. CASE Crash
      BY <3>1, <3>5 DEF Crash
    <3>6. QED
      BY <3>3, <3>4, <3>5, WhoMoves
  <2>3. QED
    BY <2>1, <2>2 DEF OnlyConnsAct
<1>3. OnlyConnsAct /\ DestructiveOnlyConfirmed =>
        \A e \in effects : e[2] \notin DestructiveIntents
  BY HandlersAssumption DEF OnlyConnsAct, DestructiveOnlyConfirmed
<1>4. QED
  BY <1>1, <1>2, <1>3, TypeCorrect, DestructiveIsConfirmed, PTL DEF Spec

-----------------------------------------------------------------------------
(* What the recovery loop does to a row                                    *)

\* The loop's copy is of a pending row past the cutoff.
RecoveryInv == recovery # NoRow => recovery.status = "pending" /\ old

\* The loop takes its copy of a row that is due, and drops it.
LEMMA RecoveryInvStep == IInv /\ RecoveryInv /\ [Next]_vars => RecoveryInv'
<1> SUFFICES ASSUME IInv, RecoveryInv, [Next]_vars PROVE RecoveryInv'
  OBVIOUS
<1>1. CASE RecoveryReads
  BY <1>1 DEF RecoveryReads, Stale, RecoveryInv
<1>2. CASE RecoveryCommits \/ RecoveryFails \/ Crash
  BY <1>2 DEF RecoveryCommits, RecoveryFails, Crash, RecoveryInv
<1>3. CASE TimePasses
  BY <1>3 DEF TimePasses, RecoveryInv
<1>4. CASE CreateTicket \/ UNCHANGED vars
  BY <1>4 DEF CreateTicket, vars, RecoveryInv
<1>5. ASSUME NEW h \in Handlers, ActionOf(h) PROVE RecoveryInv'
  <2>1. recovery' = recovery /\ old' = old
    BY <1>5
       DEF ActionOf, HandlerStep, RunStep, IntakeNode, KnowledgeNode, ActionReturnsEarly,
           ActionCallsApi, EscalationNode, Persist, Announce, Authenticate, ConfirmRaises,
           CancelCommits, PatchCommits, Request, Connect, Confirm, CancelLoads, PatchLoads,
           RunCut, RunTimesOut, CommitFails
  <2>2. QED
    BY <2>1 DEF RecoveryInv
<1>6. QED
  BY <1>1, <1>2, <1>3, <1>4, <1>5 DEF Next, ActionOf

\* What a commit of the recovery loop leaves is a failed ticket, whatever became of
\* the row since the loop read it: no other session's update survives in the status,
\* which is what rescues a pending ticket and what overtakes one that is being
\* handled (RecoveryFailsPendingOnly).  A ticket past the cutoff stays past it.
THEOREM RecoveryHasTheLastWord ==
  Spec => [][/\ RecoveryCommits => row'.status = "failed"
             /\ old => old']_vars
<1>1. Init => RecoveryInv
  BY DEF Init, RecoveryInv
<1>2. IInv /\ RecoveryInv /\ [Next]_vars =>
        [/\ RecoveryCommits => row'.status = "failed"
         /\ old => old']_vars
  <2> SUFFICES ASSUME IInv, RecoveryInv, [Next]_vars
               PROVE  /\ RecoveryCommits => row'.status = "failed"
                      /\ old => old'
    OBVIOUS
  <2>1. ASSUME RecoveryCommits PROVE row'.status = "failed"
    <3> DEFINE new == [recovery EXCEPT !.status = "failed", !.reason = "recovered"]
    <3>1. row \in Row /\ recovery \in Row /\ recovery.status = "pending"
      BY <2>1 DEF RecoveryCommits, IInv, TypeOK, LoadedInv, RecoveryInv
    <3>2. new \in Row /\ new.status = "failed" /\ row' = Merge(new, recovery)
      BY <2>1, <3>1 DEF RecoveryCommits, Row, RowStatus
    <3> HIDE DEF new
    <3>3. QED
      BY <3>1, <3>2, MergeFields
  <2>2. ASSUME old PROVE old'
    <3>1. ASSUME NEW h \in Handlers, ActionOf(h) PROVE UNCHANGED old
      BY <3>1
         DEF ActionOf, HandlerStep, RunStep, IntakeNode, KnowledgeNode, ActionReturnsEarly,
             ActionCallsApi, EscalationNode, Persist, Announce, Authenticate, ConfirmRaises,
             CancelCommits, PatchCommits, Request, Connect, Confirm, CancelLoads, PatchLoads,
             RunCut, RunTimesOut, CommitFails
    <3>2. QED
      BY <2>2, <3>1
         DEF Next, ActionOf, vars, CreateTicket, TimePasses, RecoveryReads, RecoveryCommits,
             RecoveryFails, Crash
  <2>3. QED
    BY <2>1, <2>2
<1>3. QED
  BY <1>1, <1>2, RecoveryInvStep, Invariant, PTL DEF Spec
=============================================================================
