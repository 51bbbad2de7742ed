-------------------------- MODULE MessagingGatewayProofs --------------------------
(* Proofs about MessagingGateway for every number of events, and any number *)
(* of crashes, failing writes and changes of scope.                         *)
EXTENDS MessagingGateway, FiniteSetTheorems, TLAPS

-----------------------------------------------------------------------------
(* Data.                                                                   *)

LEMMA EventsAreNaturals ==
  /\ Events \subseteq Nat \ {0} /\ IsFiniteSet(Events)
  /\ \A e \in Events : \A d \in 1 .. e - 1 : d \in Events /\ d < e
<1>1. Events \subseteq Nat \ {0} /\ \A e \in Events : \A d \in 1 .. e - 1 : d \in Events /\ d < e
  BY BoundsAssumption DEF Events
<1>2. IsFiniteSet(Events)
  BY BoundsAssumption, FS_Interval DEF Events
<1> QED BY <1>1, <1>2

LEMMA NoSessionIsNone == NoSession \notin Sessions
BY DEF NoSession, Sessions

(* A set of events that holds all those before e, and none from e on.      *)
LEMMA PrefixSize ==
  ASSUME NEW S \in SUBSET Events, NEW e \in Events, e \notin S,
         \A d \in 1 .. e - 1 : d \in S,
         \A f \in S : \A d \in 1 .. f - 1 : d \in S
  PROVE  Cardinality(S) = e - 1 /\ Cardinality(S \union {e}) = e
<1>1. S = 1 .. e - 1
  <2>1. ASSUME NEW f \in S PROVE f \in 1 .. e - 1
    BY EventsAreNaturals
  <2> QED BY <2>1
<1>2. e \in Nat \ {0} /\ e - 1 \in Nat
  BY EventsAreNaturals
<1>3. IsFiniteSet(S) /\ Cardinality(S) = e - 1
  BY <1>1, <1>2, FS_Interval
<1>4. Cardinality(S \union {e}) = Cardinality(S) + 1
  BY <1>3, FS_AddElement
<1> QED BY <1>2, <1>3, <1>4

LEMMA ShortSequences ==
  ASSUME NEW s \in Sessions
  PROVE  /\ Append(<<>>, s) = <<s>> /\ Len(<<s>>) = 1 /\ Last(<<s>>) = s
         /\ ToSet(<<s>>) = {s} /\ ToSet(<<>>) = {}
         /\ Front(<<s>>) = <<>> /\ Front(<<>>) = <<>> /\ Len(<<>>) = 0
         /\ <<s>> # <<>> /\ <<s>> \in Seq(Sessions)
<1>1. Front(<<s>>) = <<>> /\ Front(<<>>) = <<>>
  BY DEF Front
<1>2. ToSet(<<s>>) = {s} /\ ToSet(<<>>) = {}
  BY DEF ToSet
<1> QED BY <1>1, <1>2 DEF Last

-----------------------------------------------------------------------------
(* The inductive invariant.                                                *)

Working == pc \in {"authorize", "activate", "activated", "refreshed", "starting", "turn"}
Taken(e) == ev[e] \in {"processing"} \union Settled

\* Events are accepted, claimed and settled in order.
Order ==
  \A e \in Events : \A d \in 1 .. e - 1 :
     /\ ev[e] # "none" => ev[d] # "none"
     /\ Taken(e) => ev[d] \in Settled

\* A drain works on the claimed event, and only after recovery.
DrainOwnsClaim ==
  /\ Working => ev[cur] = "processing"
  /\ gw \in {"down", "recovering"} => pc = "idle"
  /\ wake => gw = "up"

\* A prompt is in one session at most, the one its row is bound to.
MarkIsBound ==
  \A e \in Events : mark[e] = <<>> \/ (bound[e] \in Sessions /\ mark[e] = <<bound[e]>>)

\* What the drain carries from one await to the next.
Carried ==
  /\ pc = "activate" => cand \in Sessions
  /\ pc = "activated" => active \in Sessions
  /\ pc \in {"refreshed", "starting", "turn"} => bind.session \in Sessions
  /\ pc \in {"starting", "turn"} => bound[cur] = bind.session
  /\ pc = "turn" => claim = bind /\ mark[cur] = <<bind.session>>

OnlySettledAnswered == \A e \in Events : ev[e] \notin Settled => answer[e] # "final"

IInv ==
  /\ TypeOK /\ Order /\ DrainOwnsClaim /\ MarkIsBound /\ Carried
  /\ OnlySettledAnswered /\ NoLostWakeup

LEMMA ClaimIsFirst ==
  ASSUME IInv, NEW e \in Events, ev[e] = "processing"
  PROVE  /\ \A d \in 1 .. e - 1 : ev[d] \in Settled
         /\ \A f \in Events : ev[f] = "processing" => f = e
         /\ \A f \in Events : ev[f] \in Settled => f < e
<1>1. \A f \in Events, g \in Events : f = g \/ f \in 1 .. g - 1 \/ g \in 1 .. f - 1
  BY EventsAreNaturals
<1>2. "processing" \notin Settled
  BY DEF Settled
<1>3. \A d \in 1 .. e - 1 : ev[d] \in Settled
  BY DEF IInv, Order, Taken
<1>4. ASSUME NEW f \in Events, Taken(f), f # e PROVE f \in 1 .. e - 1
  BY <1>1, <1>2, <1>4 DEF IInv, Order
<1>5. \A f \in 1 .. e - 1 : f < e
  BY EventsAreNaturals
<1> QED BY <1>2, <1>3, <1>4, <1>5 DEF Taken

LEMMA InitInvariant == Init => IInv
<1> SUFFICES ASSUME Init PROVE IInv
  OBVIOUS
<1>1. Browser \in Sessions /\ NoSession \notin Sessions /\ 1 \in Events
  BY BoundsAssumption DEF Browser, Sessions, NoSession, Events
<1>2. TypeOK
  <2>1. /\ ev \in [Events -> {"none"}] /\ kind \in [Events -> Kinds]
        /\ answer \in [Events -> {"none"}] /\ bound \in [Events -> {NoSession}]
        /\ sess \in [Sessions -> {"none", "fit"}]
    BY DEF Init, Kinds
  <2>2. mark \in [Events -> Seq(Sessions)]
    BY DEF Init
  <2> QED BY <1>1, <2>1, <2>2 DEF Init, TypeOK, NoBinding
<1>3. Order /\ DrainOwnsClaim /\ MarkIsBound /\ Carried
  BY EventsAreNaturals DEF Init, Order, Taken, Settled, DrainOwnsClaim, Working, MarkIsBound, Carried
<1>4. OnlySettledAnswered /\ NoLostWakeup
  BY DEF Init, OnlySettledAnswered, NoLostWakeup
<1> QED BY <1>2, <1>3, <1>4 DEF IInv

-----------------------------------------------------------------------------
(* Settlement.                                                             *)

\* The claimed event e is settled: no drain works on it any longer.
LEMMA SettleKeeps ==
  ASSUME IInv, NEW e \in Events, ev[e] = "processing",
         NEW st \in Settled, NEW said \in {"notice", "final", "error", "handoff"},
         Settle(e, st, said), claim' \in {claim, Here},
         UNCHANGED <<endpoint, gw, wake, cur, bind, cand>>,
         \/ gw = "recovering" /\ pc' = pc
         \/ Working /\ pc' = "loop",
         crashes' \in Nat, faults' \in Nat, policies' \in Nat
  PROVE  IInv'
<1>1. /\ ev' = [ev EXCEPT ![e] = st] /\ answer' = [answer EXCEPT ![e] = said]
      /\ bound' = [bound EXCEPT ![e] = IF @ = NoSession THEN active ELSE @]
      /\ saved' = TRUE /\ UNCHANGED <<kind, mark, rev, active, sess, open, gw, wake, cur, bind, cand>>
  BY DEF Settle, endpoint
<1>2. pc' \in {"idle", "loop"} /\ ~ Working' /\ (gw \in {"down", "recovering"} => pc' = "idle")
      /\ (pc' = "idle" => gw = "recovering")
  BY DEF IInv, DrainOwnsClaim, Working
<1>3. TypeOK'
  <2>1. Here \in [rev : Nat, session : Sessions \union {NoSession}]
    BY DEF IInv, TypeOK, Here
  <2> QED BY <1>1, <1>2, <2>1 DEF IInv, TypeOK
<1>4. \A f \in Events : ev'[f] = IF f = e THEN st ELSE ev[f]
  BY <1>1 DEF IInv, TypeOK
<1>5. Order'
  BY <1>4, ClaimIsFirst, EventsAreNaturals DEF IInv, Order, Taken, Settled
<1>6. DrainOwnsClaim' /\ NoLostWakeup' /\ Carried'
  BY <1>1, <1>2 DEF IInv, DrainOwnsClaim, NoLostWakeup, Carried, Working
<1>7. MarkIsBound'
  BY <1>1, NoSessionIsNone DEF IInv, MarkIsBound, TypeOK
<1>8. OnlySettledAnswered'
  BY <1>1, <1>4 DEF IInv, OnlySettledAnswered, TypeOK
<1> QED BY <1>3, <1>5, <1>6, <1>7, <1>8 DEF IInv

\* Steps that leave the events, what was answered and what is bound alone.
LEMMA RowsUntouched ==
  ASSUME IInv, TypeOK', UNCHANGED <<ev, answer, bound, mark>>,
         DrainOwnsClaim', Carried',
         gw' = "up" /\ pc' = "idle" /\ ~ wake' => gw = "up" /\ pc = "idle" /\ ~ wake
  PROVE  IInv'
<1>1. Order' /\ MarkIsBound' /\ OnlySettledAnswered'
  BY DEF IInv, Order, Taken, MarkIsBound, OnlySettledAnswered
<1>2. NoLostWakeup'
  BY DEF IInv, NoLostWakeup, Claimable, Claimed
<1> QED BY <1>1, <1>2 DEF IInv

LEMMA FailedKeeps ==
  ASSUME IInv, Working, NEW said \in {"error", "handoff"}, NEW n \in Nat, Failed(said, n)
  PROVE  IInv'
<1>0. cur \in Events /\ ev[cur] = "processing" /\ gw \notin {"down", "recovering"}
  BY DEF IInv, DrainOwnsClaim, TypeOK, Working
<1>1. CASE CompleteError(cur, said) /\ pc' = "loop" /\ StoreFails(n)
            /\ UNCHANGED <<endpoint, gw, wake, cur, bind, cand>>
  <2>1. crashes' \in Nat /\ faults' \in Nat /\ policies' \in Nat
    BY <1>1 DEF StoreFails, IInv, TypeOK
  <2> QED BY <1>0, <1>1, <2>1, SettleKeeps DEF CompleteError, Settled
<1>2. CASE /\ claim' \in {claim, Here} /\ pc' = "thrown" /\ StoreFails(n + 1)
           /\ UNCHANGED <<ev, kind, answer, bound, origins>>
           /\ UNCHANGED <<endpoint, gw, wake, cur, bind, cand>>
  <2>1. TypeOK'
    <3>1. Here \in [rev : Nat, session : Sessions \union {NoSession}]
      BY DEF IInv, TypeOK, Here
    <3> QED BY <1>2, <3>1 DEF IInv, TypeOK, StoreFails, endpoint, origins
  <2>2. DrainOwnsClaim' /\ Carried'
    BY <1>0, <1>2 DEF IInv, DrainOwnsClaim, Working, Carried
  <2> QED BY <1>2, <2>1, <2>2, RowsUntouched DEF origins
<1> QED BY <1>1, <1>2 DEF Failed

LEMMA CommitKeeps ==
  ASSUME IInv, Working, NEW said \in {"notice", "final"}, NEW otherwise \in {"error", "handoff"},
         Commit(said, otherwise)
  PROVE  IInv'
<1>1. CASE /\ StillBinds /\ Settle(cur, "completed", said) /\ pc' = "loop"
           /\ UNCHANGED <<claim, endpoint, gw, wake, cur, bind, cand, bounds>>
  <2>1. cur \in Events /\ ev[cur] = "processing" /\ "completed" \in Settled
    BY DEF IInv, DrainOwnsClaim, TypeOK, Settled
  <2>2. crashes' \in Nat /\ faults' \in Nat /\ policies' \in Nat
    BY <1>1 DEF bounds, IInv, TypeOK
  <2> QED BY <1>1, <2>1, <2>2, SettleKeeps
<1>2. CASE Failed(otherwise, 0) \/ Failed(otherwise, 1)
  BY <1>2, FailedKeeps
<1> QED BY <1>1, <1>2 DEF Commit

-----------------------------------------------------------------------------
(* Startup, recovery and admission.                                        *)

LEMMA RecoverPresentKeeps ==
  ASSUME IInv, NEW e \in Events, RecoverPresent(e)
  PROVE  IInv'
<1>1. /\ gw = "recovering" /\ ev[e] = "processing" /\ "failed" \in Settled
      /\ Settle(e, "failed", "handoff") /\ claim' = Here
      /\ UNCHANGED <<endpoint, gw, wake, pc, cur, bind, cand>>
      /\ UNCHANGED <<crashes, faults, policies>>
  BY DEF RecoverPresent, CompleteError, Claimed, local, bounds, Settled
<1>2. crashes' \in Nat /\ faults' \in Nat /\ policies' \in Nat
  BY <1>1 DEF IInv, TypeOK
<1> QED BY <1>1, <1>2, SettleKeeps

LEMMA RecoverAbsentKeeps ==
  ASSUME IInv, NEW e \in Events, RecoverAbsent(e)
  PROVE  IInv'
<1>1. /\ gw = "recovering" /\ ev[e] = "processing"
      /\ ev' = [ev EXCEPT ![e] = "accepted"] /\ claim' = NoBinding
      /\ UNCHANGED <<kind, answer, bound, endpoint, origins, local, bounds>>
  BY DEF RecoverAbsent, Claimed
<1>2. \A f \in Events : ev'[f] = IF f = e THEN "accepted" ELSE ev[f]
  BY <1>1 DEF IInv, TypeOK
<1>3. TypeOK'
  <2>1. claim' \in [rev : Nat, session : Sessions \union {NoSession}]
    BY <1>1 DEF NoBinding
  <2> QED BY <1>1, <2>1 DEF IInv, TypeOK, endpoint, origins, local, bounds
<1>4. Order'
  BY <1>1, <1>2, ClaimIsFirst, EventsAreNaturals DEF IInv, Order, Taken, Settled
<1>5. DrainOwnsClaim' /\ Carried' /\ NoLostWakeup'
  BY <1>1 DEF IInv, DrainOwnsClaim, Working, Carried, NoLostWakeup, local
<1>6. MarkIsBound' /\ OnlySettledAnswered'
  BY <1>1, <1>2 DEF IInv, MarkIsBound, OnlySettledAnswered, Settled, origins
<1> QED BY <1>3, <1>4, <1>5, <1>6 DEF IInv

LEMMA StartupKeeps ==
  ASSUME IInv, Start \/ RecoverFails \/ Recovered
  PROVE  IInv'
<1>1. /\ gw \in {"down", "recovering"} /\ gw' \in {"recovering", "failed", "draining"}
      /\ pc' \in {"idle", "loop"}
      /\ gw' = "recovering" => pc' = pc
      /\ UNCHANGED <<rows, endpoint, origins, wake, cur, bind, cand, crashes, policies>>
      /\ faults' \in Nat
  BY DEF Start, RecoverFails, Recovered, StoreFails, bounds, IInv, TypeOK, DrainOwnsClaim
<1>2. TypeOK'
  BY <1>1 DEF IInv, TypeOK, rows, endpoint, origins
<1>3. DrainOwnsClaim' /\ Carried'
  BY <1>1 DEF IInv, DrainOwnsClaim, Working, Carried
<1> QED BY <1>1, <1>2, <1>3, RowsUntouched DEF rows, origins

LEMMA AdmitKeeps ==
  ASSUME IInv, NEW e \in Events, NEW k \in Kinds, Admit(e, k)
  PROVE  IInv'
<1>1. /\ gw = "up" /\ ev[e] = "none" /\ \A d \in 1 .. e - 1 : ev[d] # "none"
      /\ ev' = [ev EXCEPT ![e] = "accepted"] /\ kind' = [kind EXCEPT ![e] = k] /\ wake' = TRUE
      /\ UNCHANGED <<answer, bound, claim, endpoint, origins, gw, pc, cur, bind, cand, bounds>>
  BY DEF Admit
<1>2. \A f \in Events : ev'[f] = IF f = e THEN "accepted" ELSE ev[f]
  BY <1>1 DEF IInv, TypeOK
<1>3. TypeOK'
  BY <1>1 DEF IInv, TypeOK, endpoint, origins, bounds
<1>4. Order'
  BY <1>1, <1>2, EventsAreNaturals DEF IInv, Order, Taken, Settled
<1>5. DrainOwnsClaim'
  BY <1>1, <1>2 DEF IInv, DrainOwnsClaim, Working, TypeOK
<1>6. Carried' /\ NoLostWakeup' /\ MarkIsBound' /\ OnlySettledAnswered'
  BY <1>1, <1>2 DEF IInv, Carried, NoLostWakeup, MarkIsBound, OnlySettledAnswered, Settled, endpoint, origins
<1> QED BY <1>3, <1>4, <1>5, <1>6 DEF IInv

LEMMA LoopKeeps ==
  ASSUME IInv, ScheduleDrain \/ LoopEnds \/ Finalize
  PROVE  IInv'
<1>1. UNCHANGED <<rows, endpoint, origins, cur, bind, cand, bounds>>
  BY DEF ScheduleDrain, LoopEnds, Finalize
<1>2. CASE ScheduleDrain
  <2>1. /\ wake /\ gw = "up" /\ wake' = FALSE /\ gw' = gw /\ pc' # "idle"
        /\ pc' = pc \/ pc' = "loop"
    BY <1>2 DEF ScheduleDrain, IInv, DrainOwnsClaim
  <2>2. TypeOK' /\ DrainOwnsClaim' /\ Carried'
    BY <1>1, <2>1 DEF IInv, TypeOK, DrainOwnsClaim, Working, Carried, rows, endpoint, origins, bounds
  <2> QED BY <1>1, <2>1, <2>2, RowsUntouched DEF rows, origins
<1>3. CASE LoopEnds
  <2>1. pc = "loop" /\ pc' \in {"ending", "thrown"} /\ gw' = gw /\ wake' = wake
    BY <1>3 DEF LoopEnds
  <2>2. TypeOK' /\ DrainOwnsClaim' /\ Carried'
    BY <1>1, <2>1 DEF IInv, TypeOK, DrainOwnsClaim, Working, Carried, rows, endpoint, origins, bounds
  <2> QED BY <1>1, <2>1, <2>2, RowsUntouched DEF rows, origins
<1>4. CASE Finalize
  <2>1. /\ pc \in {"ending", "thrown"} /\ pc' \in {"idle", "loop", "spinning"} /\ wake' = wake
        /\ gw' = gw \/ (gw = "draining" /\ gw' \in {"up", "failed"})
        /\ pc' = "idle" => ~ Claimable
    BY <1>4 DEF Finalize, AfterDrain
  <2>2. TypeOK' /\ DrainOwnsClaim' /\ Carried'
    BY <1>1, <2>1 DEF IInv, TypeOK, DrainOwnsClaim, Working, Carried, rows, endpoint, origins, bounds
  <2>3. NoLostWakeup'
    BY <1>1, <2>1 DEF NoLostWakeup, Claimable, Claimed, rows
  <2>4. Order' /\ MarkIsBound' /\ OnlySettledAnswered'
    BY <1>1 DEF IInv, Order, Taken, MarkIsBound, OnlySettledAnswered, rows, origins
  <2> QED BY <2>2, <2>3, <2>4 DEF IInv
<1> QED BY <1>2, <1>3, <1>4

-----------------------------------------------------------------------------
(* One claim.                                                              *)

LEMMA ClaimKeeps ==
  ASSUME IInv, NEW e \in Events, Claim(e)
  PROVE  IInv'
<1>1. /\ pc = "loop" /\ ev[e] = "accepted" /\ \A d \in 1 .. e - 1 : ev[d] \in Settled
      /\ ev' = [ev EXCEPT ![e] = "processing"] /\ cur' = e
      /\ claim' = Here /\ bind' = Here /\ pc' = "authorize"
      /\ UNCHANGED <<kind, answer, bound, endpoint, origins, gw, wake, cand, bounds>>
  BY DEF Claim
<1>2. \A f \in Events : ev'[f] = IF f = e THEN "processing" ELSE ev[f]
  BY <1>1 DEF IInv, TypeOK
<1>3. TypeOK'
  <2>1. Here \in [rev : Nat, session : Sessions \union {NoSession}]
    BY DEF IInv, TypeOK, Here
  <2> QED BY <1>1, <2>1 DEF IInv, TypeOK, endpoint, origins, bounds
<1>4. Order'
  BY <1>1, <1>2, EventsAreNaturals DEF IInv, Order, Taken, Settled
<1>5. DrainOwnsClaim' /\ Carried' /\ NoLostWakeup'
  BY <1>1, <1>2 DEF IInv, DrainOwnsClaim, Working, Carried, NoLostWakeup
<1>6. MarkIsBound' /\ OnlySettledAnswered'
  BY <1>1, <1>2 DEF IInv, MarkIsBound, OnlySettledAnswered, Settled, origins
<1> QED BY <1>3, <1>4, <1>5, <1>6 DEF IInv

LEMMA CandidateKeeps ==
  ASSUME IInv, NEW s \in Sessions, Create \/ Resolve(s)
  PROVE  IInv'
<1>1. cur \in Sessions /\ cur \in Events
  BY BoundsAssumption DEF IInv, TypeOK, Sessions, Events, Browser
<1>2. /\ pc = "authorize" /\ pc' = "activate" /\ cand' \in Sessions
      /\ UNCHANGED <<rows, rev, active, open, origins, gw, wake, cur, bind, bounds>>
      /\ sess' = sess \/ sess' = [sess EXCEPT ![cur] = "fit"]
  BY <1>1 DEF Create, Resolve, Authorized, endpoint
<1>3. TypeOK'
  BY <1>2 DEF IInv, TypeOK, rows, origins, bounds
<1>4. DrainOwnsClaim' /\ Carried'
  BY <1>2 DEF IInv, DrainOwnsClaim, Working, Carried, rows
<1> QED BY <1>2, <1>3, <1>4, RowsUntouched DEF rows, origins

LEMMA ActivateKeeps ==
  ASSUME IInv, Activate
  PROVE  IInv'
<1>1. /\ pc = "activate" /\ active' = cand /\ cand \in Sessions /\ rev' \in Nat /\ pc' = "activated"
      /\ UNCHANGED <<rows, sess, open, origins, gw, wake, cur, bind, cand, bounds>>
  BY DEF Activate, IInv, Carried, TypeOK
<1>2. TypeOK'
  BY <1>1 DEF IInv, TypeOK, rows, origins, bounds
<1>3. DrainOwnsClaim' /\ Carried'
  BY <1>1 DEF IInv, DrainOwnsClaim, Working, Carried, rows
<1> QED BY <1>1, <1>2, <1>3, RowsUntouched DEF rows, origins

LEMMA RefreshKeeps ==
  ASSUME IInv, Refresh
  PROVE  IInv'
<1>1. CASE Failed("error", 1)
  BY <1>1, FailedKeeps DEF Refresh, Working
<1>2. CASE /\ claim' = Here /\ bind' = Here /\ pc' = "refreshed" /\ pc = "activated"
           /\ UNCHANGED <<ev, kind, answer, bound, endpoint, origins, gw, wake, cur, cand, bounds>>
  <2>1. Here \in [rev : Nat, session : Sessions \union {NoSession}] /\ Here.session \in Sessions
    BY <1>2 DEF IInv, TypeOK, Here, Carried
  <2>2. TypeOK'
    BY <1>2, <2>1 DEF IInv, TypeOK, endpoint, origins, bounds
  <2>3. DrainOwnsClaim' /\ Carried'
    BY <1>2, <2>1 DEF IInv, DrainOwnsClaim, Working, Carried
  <2> QED BY <1>2, <2>2, <2>3, RowsUntouched DEF origins
<1> QED BY <1>1, <1>2 DEF Refresh

LEMMA RecordKeeps ==
  ASSUME IInv, Record
  PROVE  IInv'
<1>1. pc \in {"authorize", "refreshed"} /\ Working /\ bind.session \in Sessions
  BY DEF Record, Authorized, Working, IInv, Carried, TypeOK
<1>2. CASE Failed("error", 0) \/ Failed("error", 1)
  BY <1>1, <1>2, FailedKeeps
<1>3. CASE /\ Recordable /\ bound' = [bound EXCEPT ![cur] = bind.session] /\ pc' = "starting"
           /\ UNCHANGED <<ev, kind, answer, claim, endpoint, origins, gw, wake, cur, bind, cand, bounds>>
  <2>1. bound[cur] \in {NoSession, bind.session} /\ cur \in Events
    BY <1>3 DEF Recordable, IInv, TypeOK
  <2>2. \A e \in Events : bound'[e] = IF e = cur THEN bind.session ELSE bound[e]
    BY <1>3 DEF IInv, TypeOK
  <2>3. TypeOK'
    BY <1>1, <1>3 DEF IInv, TypeOK, endpoint, origins, bounds
  <2>4. MarkIsBound'
    BY <1>3, <2>1, <2>2, NoSessionIsNone DEF IInv, MarkIsBound, origins
  <2>5. DrainOwnsClaim' /\ Carried' /\ NoLostWakeup'
    BY <1>1, <1>3, <2>1, <2>2 DEF IInv, DrainOwnsClaim, Working, Carried, NoLostWakeup
  <2>6. Order' /\ OnlySettledAnswered'
    BY <1>3 DEF IInv, Order, Taken, OnlySettledAnswered
  <2> QED BY <2>3, <2>4, <2>5, <2>6 DEF IInv
<1> QED BY <1>2, <1>3 DEF Record

\* The prompt enters the session its row is bound to, where it was not before.
LEMMA DispatchEffect ==
  ASSUME IInv, Dispatch
  PROVE  /\ cur \in Events /\ ev[cur] = "processing" /\ mark[cur] = <<>>
         /\ bind.session \in Sessions /\ bound[cur] = bind.session /\ claim = bind
         /\ mark' = [mark EXCEPT ![cur] = <<bind.session>>]
<1>1. /\ cur \in Events /\ ev[cur] = "processing" /\ bind.session \in Sessions
      /\ bound[cur] = bind.session /\ claim = bind
      /\ mark' = [mark EXCEPT ![cur] = Append(@, bind.session)]
      /\ bind.session \notin ToSet(mark[cur])
  BY DEF Dispatch, Dispatchable, OriginPresent, IInv, DrainOwnsClaim, Working, Carried, TypeOK
<1>2. mark[cur] = <<>>
  BY <1>1, ShortSequences DEF IInv, MarkIsBound
<1>3. mark' = [mark EXCEPT ![cur] = <<bind.session>>]
  BY <1>1, <1>2, ShortSequences DEF IInv, TypeOK
<1> QED BY <1>1, <1>2, <1>3

LEMMA DispatchKeeps ==
  ASSUME IInv, Dispatch
  PROVE  IInv'
<1>1. /\ pc = "starting" /\ pc' = "turn" /\ saved' = FALSE
      /\ UNCHANGED <<rows, endpoint, gw, wake, cur, bind, cand, bounds>>
  BY DEF Dispatch
<1>2. \A e \in Events : mark'[e] = IF e = cur THEN <<bind.session>> ELSE mark[e]
  BY DispatchEffect DEF IInv, TypeOK
<1>3. TypeOK'
  <2>1. <<bind.session>> \in Seq(Sessions)
    BY DispatchEffect, ShortSequences
  <2>2. mark' \in [Events -> Seq(Sessions)]
    BY <2>1, DispatchEffect DEF IInv, TypeOK
  <2> QED BY <1>1, <2>2 DEF IInv, TypeOK, rows, endpoint, bounds
<1>4. MarkIsBound'
  BY <1>1, <1>2, DispatchEffect DEF IInv, MarkIsBound, rows
<1>5. DrainOwnsClaim' /\ Carried' /\ NoLostWakeup'
  BY <1>1, <1>2, DispatchEffect DEF IInv, DrainOwnsClaim, Working, Carried, NoLostWakeup, rows
<1>6. Order' /\ OnlySettledAnswered'
  BY <1>1 DEF IInv, Order, Taken, OnlySettledAnswered, rows
<1> QED BY <1>3, <1>4, <1>5, <1>6 DEF IInv

-----------------------------------------------------------------------------
(* The environment.                                                        *)

LEMMA EnvironmentKeeps ==
  ASSUME IInv, NEW s \in Sessions, Save \/ ChangeScope \/ MoveSession(s) \/ RestoreSession(s)
  PROVE  IInv'
<1>0. /\ policies \in Nat /\ saved \in BOOLEAN /\ open \in BOOLEAN /\ rev \in Nat
      /\ active \in Sessions \union {NoSession} /\ sess \in [Sessions -> {"none", "fit", "unfit"}]
      /\ gw = "down" => pc = "idle"
  BY DEF IInv, TypeOK, DrainOwnsClaim
<1>1. /\ UNCHANGED <<rows, mark, local, crashes, faults>>
      /\ policies' \in Nat /\ saved' \in BOOLEAN /\ open' \in BOOLEAN
      /\ rev' \in Nat /\ active' \in Sessions \union {NoSession}
      /\ sess' \in [Sessions -> {"none", "fit", "unfit"}]
  <2>1. CASE Save
    BY <1>0, <2>1 DEF Save, endpoint, bounds
  <2>2. CASE ChangeScope
    BY <1>0, <2>2 DEF ChangeScope, origins
  <2>3. CASE MoveSession(s)
    BY <1>0, <2>3 DEF MoveSession, origins, bounds
  <2>4. CASE RestoreSession(s)
    BY <1>0, <2>4 DEF RestoreSession, origins, bounds
  <2> QED BY <2>1, <2>2, <2>3, <2>4
<1>2. pc = "activated" => active' = active
  BY <1>0 DEF Save, ChangeScope, MoveSession, RestoreSession, Interruptible, endpoint
<1>3. TypeOK'
  BY <1>1, <1>2 DEF IInv, TypeOK, rows, local
<1>4. DrainOwnsClaim' /\ Carried'
  BY <1>1, <1>2 DEF IInv, DrainOwnsClaim, Working, Carried, rows, local
<1> QED BY <1>1, <1>3, <1>4, RowsUntouched DEF rows, local

\* A crash may lose the last entry of the event that is claimed.
LEMMA CrashEffect ==
  ASSUME IInv, Crash
  PROVE  \A e \in Events : mark'[e] = IF ev[e] = "processing" /\ ~ saved THEN <<>> ELSE mark[e]
<1> SUFFICES ASSUME NEW e \in Events
             PROVE  mark'[e] = IF ev[e] = "processing" /\ ~ saved THEN <<>> ELSE mark[e]
  OBVIOUS
<1>1. mark'[e] = IF ev[e] = "processing" /\ ~ saved THEN Front(mark[e]) ELSE mark[e]
  BY DEF Crash, Claimed
<1>2. \A s \in Sessions : Front(<<s>>) = <<>> /\ Front(<<>>) = <<>>
  BY ShortSequences
<1>3. Browser \in Sessions
  BY BoundsAssumption DEF Browser, Sessions
<1>4. Front(mark[e]) = <<>>
  BY <1>2, <1>3 DEF IInv, MarkIsBound
<1> QED BY <1>1, <1>4

LEMMA CrashKeeps ==
  ASSUME IInv, Crash
  PROVE  IInv'
<1>1. /\ gw' = "down" /\ wake' = FALSE /\ pc' = "idle" /\ cur' = 1 /\ bind' = NoBinding
      /\ cand' = NoSession /\ saved' = TRUE /\ crashes' = crashes + 1
      /\ mark' = [e \in Events |-> IF e \in Claimed /\ ~ saved THEN Front(mark[e]) ELSE mark[e]]
      /\ UNCHANGED <<rows, endpoint, faults, policies>>
  BY DEF Crash
<1>2. TypeOK'
  <2>1. mark' \in [Events -> Seq(Sessions)]
    <3>1. <<>> \in Seq(Sessions) /\ \A e \in Events : mark[e] \in Seq(Sessions)
      BY DEF IInv, TypeOK
    <3>2. \A e \in Events : mark'[e] \in Seq(Sessions)
      BY <3>1, CrashEffect
    <3> QED BY <1>1, <3>2
  <2>2. /\ cur' \in Events /\ bind' \in [rev : Nat, session : Sessions \union {NoSession}]
        /\ cand' \in Sessions \union {NoSession} /\ gw' = "down" /\ wake' = FALSE /\ pc' = "idle"
    BY <1>1, BoundsAssumption DEF Events, NoBinding
  <2>3. crashes' \in Nat /\ faults' \in Nat /\ policies' \in Nat /\ saved' = TRUE
    BY <1>1 DEF IInv, TypeOK
  <2>4. UNCHANGED <<rows, endpoint>>
    BY <1>1
  <2> QED BY <2>1, <2>2, <2>3, <2>4 DEF IInv, TypeOK, rows, endpoint
<1>3. MarkIsBound'
  BY <1>1, CrashEffect DEF IInv, MarkIsBound, rows
<1>4. DrainOwnsClaim' /\ Carried' /\ NoLostWakeup'
  BY <1>1 DEF DrainOwnsClaim, Working, Carried, NoLostWakeup
<1>5. Order' /\ OnlySettledAnswered'
  BY <1>1 DEF IInv, Order, Taken, OnlySettledAnswered, rows
<1> QED BY <1>2, <1>3, <1>4, <1>5 DEF IInv

LEMMA StutterKeeps ==
  ASSUME IInv, UNCHANGED vars
  PROVE  IInv'
<1>1. UNCHANGED <<rows, endpoint, origins, local, bounds>>
  BY DEF vars
<1>2. TypeOK' /\ DrainOwnsClaim' /\ Carried'
  BY <1>1 DEF IInv, TypeOK, DrainOwnsClaim, Working, Carried, rows, endpoint, origins, local, bounds
<1> QED BY <1>1, <1>2, RowsUntouched DEF rows, origins, local

LEMMA StepInvariant == IInv /\ [Next]_vars => IInv'
<1> SUFFICES ASSUME IInv, [Next]_vars PROVE IInv'
  OBVIOUS
<1>1. CASE Startup
  BY <1>1, StartupKeeps, RecoverPresentKeeps, RecoverAbsentKeeps DEF Startup
<1>2. CASE Turn
  <2>1. CASE Record \/ Dispatch
    BY <2>1, RecordKeeps, DispatchKeeps
  <2>2. CASE DispatchFails \/ TurnFails
    BY <2>2, FailedKeeps DEF DispatchFails, TurnFails, Working
  <2>3. CASE TurnAnswers
    BY <2>3, CommitKeeps DEF TurnAnswers, Working
  <2> QED BY <1>2, <2>1, <2>2, <2>3 DEF Turn
<1>3. CASE Command
  <2>1. CASE Notice \/ Activation
    BY <2>1, CommitKeeps DEF Notice, Activation, Authorized, Working
  <2>2. CASE ActivateFails
    BY <2>2, FailedKeeps DEF ActivateFails, Working
  <2>3. Browser \in Sessions
    BY BoundsAssumption DEF Browser, Sessions
  <2> QED BY <1>3, <2>1, <2>2, <2>3, CandidateKeeps, ActivateKeeps, RefreshKeeps DEF Command
<1>4. CASE AuthorizeFails
  BY <1>4, FailedKeeps DEF AuthorizeFails, Working
<1>5. CASE LoopEnds \/ Finalize \/ ScheduleDrain
  BY <1>5, LoopKeeps
<1>6. CASE \E e \in Events : Claim(e)
  BY <1>6, ClaimKeeps
<1>7. CASE Save \/ ChangeScope \/ \E s \in Sessions : MoveSession(s) \/ RestoreSession(s)
  <2>1. Browser \in Sessions
    BY BoundsAssumption DEF Browser, Sessions
  <2> QED BY <1>7, <2>1, EnvironmentKeeps
<1>8. CASE Crash
  BY <1>8, CrashKeeps
<1>9. CASE \E e \in Events, k \in Kinds : Admit(e, k)
  BY <1>9, AdmitKeeps
<1>10. CASE UNCHANGED vars
  BY <1>10, StutterKeeps
<1> QED BY <1>1, <1>2, <1>3, <1>4, <1>5, <1>6, <1>7, <1>8, <1>9, <1>10 DEF Next, Drain

LEMMA Invariant == Spec => []IInv
BY InitInvariant, StepInvariant, PTL DEF Spec

-----------------------------------------------------------------------------
(* What a step does to the rows and the transcripts.                       *)

SettlesWith(e, said) ==
  /\ ev[e] = "processing" /\ UNCHANGED mark
  /\ \E st \in Settled : ev' = [ev EXCEPT ![e] = st]
  /\ answer' = [answer EXCEPT ![e] = said]

Answers == pc = "turn" /\ StillBinds /\ SettlesWith(cur, "final")

\* No event is accepted or settled, and no transcript changes.
Quiet ==
  /\ UNCHANGED <<answer, mark>>
  /\ \A e \in Events : /\ ev'[e] # "none" <=> ev[e] # "none"
                       /\ ev'[e] \in Settled <=> ev[e] \in Settled

LEMMA FailedShape ==
  ASSUME IInv, Working, NEW said \in {"error", "handoff"}, NEW n \in Nat, Failed(said, n)
  PROVE  Quiet \/ SettlesWith(cur, said)
<1>1. ev[cur] = "processing" /\ "failed" \in Settled
  BY DEF IInv, DrainOwnsClaim, Settled
<1>2. CASE CompleteError(cur, said)
  BY <1>1, <1>2 DEF CompleteError, Settle, SettlesWith
<1>3. CASE UNCHANGED <<ev, kind, answer, bound, origins>>
  BY <1>3 DEF Quiet, origins
<1> QED BY <1>2, <1>3 DEF Failed

LEMMA CommitShape ==
  ASSUME IInv, Working, NEW said \in {"notice", "final"}, NEW otherwise \in {"error", "handoff"},
         Commit(said, otherwise)
  PROVE  Quiet \/ (StillBinds /\ SettlesWith(cur, said)) \/ SettlesWith(cur, otherwise)
<1>1. CASE StillBinds /\ Settle(cur, "completed", said)
  <2>1. ev[cur] = "processing" /\ "completed" \in Settled
    BY DEF IInv, DrainOwnsClaim, Settled
  <2> QED BY <1>1, <2>1 DEF Settle, SettlesWith
<1>2. CASE Failed(otherwise, 0) \/ Failed(otherwise, 1)
  BY <1>2, FailedShape
<1> QED BY <1>1, <1>2 DEF Commit

LEMMA StepShape ==
  ASSUME IInv, [Next]_vars
  PROVE  \/ \E e \in Events, k \in Kinds : Admit(e, k)
         \/ \E e \in Events, said \in {"notice", "error", "handoff"} : SettlesWith(e, said)
         \/ Answers \/ Dispatch \/ Crash \/ Quiet
<1>0. cur \in Events
  BY DEF IInv, TypeOK
<1>1. CASE Startup
  <2>1. ASSUME NEW e \in Events, RecoverPresent(e) PROVE SettlesWith(e, "handoff")
    BY <2>1 DEF RecoverPresent, CompleteError, Settle, SettlesWith, Claimed, Settled
  <2>2. ASSUME NEW e \in Events, RecoverAbsent(e) PROVE Quiet
    BY <2>2 DEF RecoverAbsent, Claimed, Quiet, origins, IInv, TypeOK, Settled
  <2>3. CASE Start \/ RecoverFails \/ Recovered
    BY <2>3 DEF Start, RecoverFails, Recovered, Quiet, rows, origins
  <2> QED BY <1>1, <2>1, <2>2, <2>3 DEF Startup
<1>2. CASE Turn
  <2>1. CASE Record
    <3>1. Working
      BY <2>1 DEF Record, Authorized, Working
    <3>2. CASE Failed("error", 0) \/ Failed("error", 1)
      BY <1>0, <3>1, <3>2, FailedShape
    <3>3. CASE UNCHANGED <<ev, kind, answer, claim, endpoint, origins, gw, wake, cur, bind, cand, bounds>>
      BY <3>3 DEF Quiet, origins
    <3> QED BY <2>1, <3>2, <3>3 DEF Record
  <2>2. CASE DispatchFails \/ TurnFails
    BY <1>0, <2>2, FailedShape DEF DispatchFails, TurnFails, Working
  <2>3. CASE TurnAnswers
    BY <1>0, <2>3, CommitShape DEF TurnAnswers, Working, Answers
  <2> QED BY <1>2, <2>1, <2>2, <2>3 DEF Turn
<1>3. CASE Command
  <2>1. CASE Notice \/ Activation
    BY <1>0, <2>1, CommitShape DEF Notice, Activation, Authorized, Working
  <2>2. CASE ActivateFails
    BY <1>0, <2>2, FailedShape DEF ActivateFails, Working
  <2>3. CASE Refresh
    <3>1. CASE Failed("error", 1)
      BY <1>0, <2>3, <3>1, FailedShape DEF Refresh, Working
    <3>2. CASE UNCHANGED <<ev, kind, answer, bound, endpoint, origins, gw, wake, cur, cand, bounds>>
      BY <3>2 DEF Quiet, origins
    <3> QED BY <2>3, <3>1, <3>2 DEF Refresh
  <2>4. CASE Create \/ Activate \/ \E s \in Sessions : Resolve(s)
    BY <2>4 DEF Create, Activate, Resolve, Quiet, rows, origins
  <2> QED BY <1>3, <2>1, <2>2, <2>3, <2>4 DEF Command
<1>4. CASE AuthorizeFails
  BY <1>0, <1>4, FailedShape DEF AuthorizeFails, Working
<1>5. CASE LoopEnds \/ Finalize \/ ScheduleDrain
  BY <1>5 DEF LoopEnds, Finalize, ScheduleDrain, Quiet, rows, origins
<1>6. CASE \E e \in Events : Claim(e)
  BY <1>6 DEF Claim, Quiet, origins, IInv, TypeOK, Settled
<1>7. CASE Save \/ ChangeScope \/ \E s \in Sessions : MoveSession(s) \/ RestoreSession(s)
  BY <1>7 DEF Save, ChangeScope, MoveSession, RestoreSession, Quiet, rows, origins
<1>8. CASE UNCHANGED vars
  BY <1>8 DEF vars, Quiet, rows, origins
<1> QED BY <1>1, <1>2, <1>3, <1>4, <1>5, <1>6, <1>7, <1>8 DEF Next, Drain

-----------------------------------------------------------------------------
(* The refinement of MessagingInbox.                                       *)

AcceptedEvents == {e \in Events : ev[e] # "none"}
SettledEvents == {e \in Events : ev[e] \in Settled}

\* The claimed event is the one the inbox has to settle next.
LEMMA ClaimedIsCurrent ==
  ASSUME IInv, NEW e \in Events, ev[e] = "processing"
  PROVE  /\ Cardinality(SettledEvents) = e - 1
         /\ Cardinality(SettledEvents \union {e}) = e
         /\ e <= Cardinality(AcceptedEvents) /\ Cardinality(AcceptedEvents) \in Nat
<1>1. SettledEvents \in SUBSET Events /\ e \notin SettledEvents
  BY DEF SettledEvents, Settled
<1>2. \A d \in 1 .. e - 1 : d \in SettledEvents
  BY ClaimIsFirst, EventsAreNaturals DEF SettledEvents
<1>3. \A f \in SettledEvents : \A d \in 1 .. f - 1 : d \in SettledEvents
  BY EventsAreNaturals DEF SettledEvents, IInv, Order, Taken
<1>4. /\ Cardinality(SettledEvents) = e - 1
      /\ Cardinality(SettledEvents \union {e}) = e
  BY <1>1, <1>2, <1>3, PrefixSize
<1>5. AcceptedEvents \in SUBSET Events /\ IsFiniteSet(AcceptedEvents)
  BY EventsAreNaturals, FS_Subset DEF AcceptedEvents
<1>6. SettledEvents \union {e} \in SUBSET AcceptedEvents
  BY DEF SettledEvents, AcceptedEvents, Settled
<1>7. Cardinality(AcceptedEvents) \in Nat
  BY <1>5, FS_CardinalityType
<1>8. Cardinality(SettledEvents \union {e}) <= Cardinality(AcceptedEvents)
  BY <1>5, <1>6, FS_Subset
<1> QED BY <1>4, <1>7, <1>8

LEMMA AdmittedIsNext ==
  ASSUME IInv, NEW e \in Events, ev[e] = "none", \A d \in 1 .. e - 1 : ev[d] # "none"
  PROVE  /\ Cardinality(AcceptedEvents) = e - 1
         /\ Cardinality(AcceptedEvents \union {e}) = e
<1>1. AcceptedEvents \in SUBSET Events /\ e \notin AcceptedEvents
  BY DEF AcceptedEvents
<1>2. \A d \in 1 .. e - 1 : d \in AcceptedEvents
  BY EventsAreNaturals DEF AcceptedEvents
<1>3. \A f \in AcceptedEvents : \A d \in 1 .. f - 1 : d \in AcceptedEvents
  BY EventsAreNaturals DEF AcceptedEvents, IInv, Order
<1> QED BY <1>1, <1>2, <1>3, PrefixSize

LEMMA InitRefines == Init => Inbox!Init
<1> SUFFICES ASSUME Init PROVE Inbox!Init
  OBVIOUS
<1>1. /\ {e \in Events : ev[e] # "none"} = {} /\ {e \in Events : ev[e] \in Settled} = {}
      /\ {e \in Events : answer[e] = "final"} = {}
      /\ [e \in Events |-> Len(mark[e])] = [e \in Events |-> 0]
  BY DEF Init, Settled
<1> QED BY <1>1, FS_EmptySet DEF Inbox!Init, Inbox!Events, Events

\* The inbox in the terms of the sets above.
Answered == {e \in Events : answer[e] = "final"}
Prompts == [e \in Events |-> Len(mark[e])]

LEMMA InboxTerms ==
  /\ Inbox!Accept <=>
       /\ Cardinality(AcceptedEvents) < MaxEvents
       /\ Cardinality(AcceptedEvents)' = Cardinality(AcceptedEvents) + 1
       /\ UNCHANGED <<Cardinality(SettledEvents), Prompts, Answered>>
  /\ Inbox!Prompt <=>
       /\ Cardinality(SettledEvents) < Cardinality(AcceptedEvents)
       /\ Prompts[Cardinality(SettledEvents) + 1] = 0
       /\ Prompts' = [Prompts EXCEPT ![Cardinality(SettledEvents) + 1] = 1]
       /\ UNCHANGED <<Cardinality(AcceptedEvents), Cardinality(SettledEvents), Answered>>
  /\ Inbox!Forget <=>
       /\ Cardinality(SettledEvents) < Cardinality(AcceptedEvents)
       /\ Prompts' = [Prompts EXCEPT ![Cardinality(SettledEvents) + 1] = 0]
       /\ UNCHANGED <<Cardinality(AcceptedEvents), Cardinality(SettledEvents), Answered>>
  /\ Inbox!Settle <=>
       /\ Cardinality(SettledEvents) < Cardinality(AcceptedEvents)
       /\ Cardinality(SettledEvents)' = Cardinality(SettledEvents) + 1
       /\ \/ UNCHANGED Answered
          \/ /\ Prompts[Cardinality(SettledEvents) + 1] = 1
             /\ Answered' = Answered \union {Cardinality(SettledEvents) + 1}
       /\ UNCHANGED <<Cardinality(AcceptedEvents), Prompts>>
  /\ UNCHANGED Inbox!inbox <=>
       UNCHANGED <<Cardinality(AcceptedEvents), Cardinality(SettledEvents), Prompts, Answered>>
BY DEF Inbox!Accept, Inbox!Prompt, Inbox!Forget, Inbox!Settle, Inbox!inbox, Inbox!Current,
       AcceptedEvents, SettledEvents, Answered, Prompts

LEMMA SettleRefines ==
  ASSUME IInv, NEW e \in Events, NEW said \in {"notice", "final", "error", "handoff"},
         SettlesWith(e, said), said = "final" => Prompts[e] = 1
  PROVE  Inbox!Settle
<1>1. PICK st \in Settled : ev' = [ev EXCEPT ![e] = st]
  BY DEF SettlesWith
<1>2. /\ ev[e] = "processing" /\ mark' = mark /\ answer' = [answer EXCEPT ![e] = said]
      /\ \A f \in Events : ev'[f] = IF f = e THEN st ELSE ev[f]
      /\ \A f \in Events : answer'[f] = IF f = e THEN said ELSE answer[f]
      /\ answer[e] # "final"
  BY <1>1 DEF SettlesWith, IInv, TypeOK, OnlySettledAnswered, Settled
<1>3. SettledEvents' = SettledEvents \union {e} /\ AcceptedEvents' = AcceptedEvents
  BY <1>1, <1>2 DEF SettledEvents, AcceptedEvents, Settled
<1>4. e \in Nat
  BY EventsAreNaturals
<1>5. Answered' = IF said = "final" THEN Answered \union {e} ELSE Answered
  BY <1>2 DEF Answered
<1>6. Prompts' = Prompts
  BY <1>2 DEF Prompts
<1> QED BY <1>2, <1>3, <1>4, <1>5, <1>6, ClaimedIsCurrent, InboxTerms

LEMMA StepRefines ==
  ASSUME IInv, [Next]_vars
  PROVE  [Inbox!Next]_(Inbox!inbox)
<1>1. ASSUME NEW e \in Events, NEW k \in Kinds, Admit(e, k) PROVE Inbox!Accept
  <2>1. /\ ev[e] = "none" /\ \A d \in 1 .. e - 1 : ev[d] # "none"
        /\ ev' = [ev EXCEPT ![e] = "accepted"] /\ answer' = answer /\ mark' = mark
    BY <1>1 DEF Admit, origins
  <2>2. \A f \in Events : ev'[f] = IF f = e THEN "accepted" ELSE ev[f]
    BY <2>1 DEF IInv, TypeOK
  <2>3. AcceptedEvents' = AcceptedEvents \union {e} /\ SettledEvents' = SettledEvents
    BY <2>1, <2>2 DEF AcceptedEvents, SettledEvents, Settled
  <2>4. e \in Nat /\ e <= MaxEvents /\ MaxEvents \in Nat
    BY BoundsAssumption DEF Events
  <2>5. Prompts' = Prompts /\ Answered' = Answered
    BY <2>1 DEF Prompts, Answered
  <2> QED BY <2>1, <2>3, <2>4, <2>5, AdmittedIsNext, InboxTerms
<1>2. ASSUME NEW e \in Events, NEW said \in {"notice", "error", "handoff"}, SettlesWith(e, said)
      PROVE  Inbox!Settle
  BY <1>2, SettleRefines
<1>3. CASE Answers
  <2>1. cur \in Events /\ mark[cur] = <<bind.session>> /\ bind.session \in Sessions
    BY <1>3 DEF Answers, IInv, TypeOK, Carried
  <2>2. Prompts[cur] = 1
    BY <2>1, ShortSequences DEF Prompts
  <2>3. Inbox!Settle
    BY <1>3, <2>1, <2>2, SettleRefines DEF Answers
  <2> QED BY <2>3 DEF Inbox!Next
<1>4. CASE Dispatch
  <2>1. /\ cur \in Events /\ cur \in Nat /\ ev[cur] = "processing" /\ mark[cur] = <<>>
        /\ bind.session \in Sessions /\ mark' = [mark EXCEPT ![cur] = <<bind.session>>]
        /\ ev' = ev /\ answer' = answer
    BY <1>4, DispatchEffect, EventsAreNaturals DEF Dispatch, rows
  <2>2. \A f \in Events : mark'[f] = IF f = cur THEN <<bind.session>> ELSE mark[f]
    BY <2>1 DEF IInv, TypeOK
  <2>3. Prompts[cur] = 0 /\ Prompts' = [Prompts EXCEPT ![cur] = 1]
    <3>1. \A f \in Events : Len(mark'[f]) = IF f = cur THEN 1 ELSE Len(mark[f])
      BY <2>1, <2>2, ShortSequences
    <3>2. Prompts[cur] = 0
      BY <2>1, ShortSequences DEF Prompts
    <3>3. Prompts' = [Prompts EXCEPT ![cur] = 1]
      BY <3>1 DEF Prompts
    <3> QED BY <3>2, <3>3
  <2>4. AcceptedEvents' = AcceptedEvents /\ SettledEvents' = SettledEvents /\ Answered' = Answered
    BY <2>1 DEF AcceptedEvents, SettledEvents, Answered
  <2>5. Inbox!Prompt
    <3>1. /\ Cardinality(SettledEvents) + 1 = cur
          /\ Cardinality(SettledEvents) < Cardinality(AcceptedEvents)
      <4>1. /\ Cardinality(SettledEvents) = cur - 1
            /\ cur <= Cardinality(AcceptedEvents) /\ Cardinality(AcceptedEvents) \in Nat
        BY <2>1, ClaimedIsCurrent
      <4> QED BY <2>1, <4>1
    <3> QED BY <2>1, <2>3, <2>4, <3>1, InboxTerms
  <2> QED BY <2>5 DEF Inbox!Next
<1>5. CASE Crash
  <2>1. ev' = ev /\ answer' = answer
    BY <1>5 DEF Crash, rows
  <2>2. AcceptedEvents' = AcceptedEvents /\ SettledEvents' = SettledEvents /\ Answered' = Answered
    BY <2>1 DEF AcceptedEvents, SettledEvents, Answered
  <2>3. ASSUME NEW e \in Events, ev[e] = "processing", ~ saved PROVE Inbox!Forget
    <3>1. \A f \in Events : mark'[f] = IF f = e THEN <<>> ELSE mark[f]
      BY <1>5, <2>3, CrashEffect, ClaimIsFirst
    <3>2. Prompts' = [Prompts EXCEPT ![e] = 0]
      <4>1. \A f \in Events : Len(mark'[f]) = IF f = e THEN 0 ELSE Len(mark[f])
        BY <3>1
      <4> QED BY <4>1 DEF Prompts
    <3>3. /\ Cardinality(SettledEvents) + 1 = e
          /\ Cardinality(SettledEvents) < Cardinality(AcceptedEvents)
      <4>1. /\ Cardinality(SettledEvents) = e - 1
            /\ e <= Cardinality(AcceptedEvents) /\ Cardinality(AcceptedEvents) \in Nat
        BY <2>3, ClaimedIsCurrent
      <4>2. e \in Nat
        BY <2>3, EventsAreNaturals
      <4> QED BY <4>1, <4>2
    <3> QED BY <2>2, <3>2, <3>3, InboxTerms
  <2>4. CASE saved \/ \A e \in Events : ev[e] # "processing"
    <3>1. Prompts' = Prompts
      BY <1>5, <2>4, CrashEffect DEF Prompts
    <3> QED BY <2>2, <3>1, InboxTerms
  <2> QED BY <2>3, <2>4 DEF Inbox!Next
<1>6. CASE Quiet
  <2>1. AcceptedEvents' = AcceptedEvents /\ SettledEvents' = SettledEvents
    BY <1>6 DEF Quiet, AcceptedEvents, SettledEvents
  <2>2. Prompts' = Prompts /\ Answered' = Answered
    BY <1>6 DEF Quiet, Prompts, Answered
  <2> QED BY <2>1, <2>2, InboxTerms
<1> QED BY <1>1, <1>2, <1>3, <1>4, <1>5, <1>6, StepShape DEF Inbox!Next, Answers

-----------------------------------------------------------------------------
(* What follows.                                                           *)

(* Every reachable state of the gateway is well typed.                     *)
THEOREM TypeCorrect == Spec => []TypeOK
<1>1. IInv => TypeOK
  BY DEF IInv
<1> QED BY <1>1, Invariant, PTL

(* An event's prompt is nowhere but in the session its row is bound to.    *)
THEOREM PromptBound == Spec => []PromptWhereBound
<1>1. IInv => PromptWhereBound
  <2>1. Browser \in Sessions
    BY BoundsAssumption DEF Browser, Sessions
  <2>2. ToSet(<<>>) = {} /\ \A s \in Sessions : ToSet(<<s>>) = {s}
    BY <2>1, ShortSequences
  <2> QED BY <2>2 DEF IInv, MarkIsBound, PromptWhereBound
<1> QED BY <1>1, Invariant, PTL

(* No admission is lost between the end of a drain and its deregistration. *)
THEOREM WakeupsKept == Spec => []NoLostWakeup
<1>1. IInv => NoLostWakeup
  BY DEF IInv
<1> QED BY <1>1, Invariant, PTL

(* Only the endpoint's active and fit session has its answer delivered.    *)
THEOREM AnswersByActive == Spec => AnsweredByActive
<1>1. ASSUME IInv, [Next]_vars, NEW e \in Events, answer[e] # "final", answer'[e] = "final"
      PROVE  mark[e] # <<>> /\ Last(mark[e]) = active /\ sess[active] = "fit"
  <2>1. ~ \E f \in Events, k \in Kinds : Admit(f, k)
    BY <1>1 DEF Admit
  <2>2. ASSUME NEW f \in Events, NEW said \in {"notice", "error", "handoff"}, SettlesWith(f, said)
        PROVE  FALSE
    BY <1>1, <2>2 DEF SettlesWith, IInv, TypeOK
  <2>3. ~ Dispatch /\ ~ Crash /\ ~ Quiet
    BY <1>1 DEF Dispatch, Crash, Quiet, rows
  <2>4. Answers
    BY <1>1, <2>1, <2>2, <2>3, StepShape
  <2>5. e = cur
    BY <1>1, <2>4 DEF Answers, SettlesWith, IInv, TypeOK
  <2>6. /\ claim = bind /\ mark[cur] = <<bind.session>> /\ bind.session \in Sessions
        /\ claim = Here /\ (active # NoSession => sess[active] = "fit")
    BY <1>1, <2>4 DEF Answers, IInv, Carried, StillBinds
  <2>7. active = bind.session
    BY <2>6 DEF Here
  <2> QED BY <2>5, <2>6, <2>7, ShortSequences, NoSessionIsNone
<1>2. IInv /\ [Next]_vars =>
        [\A e \in Events : answer[e] # "final" /\ answer'[e] = "final"
           => mark[e] # <<>> /\ Last(mark[e]) = active /\ sess[active] = "fit"]_vars
  BY <1>1
<1> QED BY <1>2, Invariant, PTL DEF Spec, AnsweredByActive

(* The gateway, crashes included, implements the inbox.                    *)
THEOREM InboxImplemented == Spec => ImplementsInbox
<1>1. IInv /\ [Next]_vars => [Inbox!Next]_(Inbox!inbox)
  BY StepRefines
<1> QED BY InitRefines, <1>1, Invariant, PTL DEF Spec, ImplementsInbox, Inbox!Spec
=============================================================================
