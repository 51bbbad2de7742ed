---------------------------- MODULE MessagingGateway ----------------------------
(* The gateway of one messaging endpoint: the events it accepts, their     *)
(* durable claim, the session they run in and the crash recovery of a      *)
(* claim (messaging/gateway-service.ts, messaging/store.ts,                *)
(* messaging/session-port.ts, runMessagingPromptAndWait in pi-bridge.ts).  *)
(*                                                                         *)
(* Event e is the e-th the endpoint accepts.  Session e is the one that is *)
(* created for event e, under its idempotency key; the last session was    *)
(* made in the browser.  An action is the code between two awaits, except  *)
(* that the durable writes of one turn are separate steps which only a     *)
(* crash parts.                                                            *)
EXTENDS Naturals, Sequences, FiniteSets, SequencesExt

CONSTANTS MaxEvents,   \* bound on events
          MaxCrashes,  \* bound on crashes
          MaxFaults,   \* bound on store writes that fail
          MaxScope     \* bound on changes of the endpoint's policy scope

ASSUME BoundsAssumption ==
  /\ MaxEvents \in Nat \ {0} /\ MaxCrashes \in Nat
  /\ MaxFaults \in Nat /\ MaxScope \in Nat

VARIABLES
  \* durable: the store and the sessions' transcripts
  ev,       \* state of each event's row
  kind,     \* what the body of an event parses to
  answer,   \* what its deliveries say, once it is settled
  bound,    \* wayang_session_id: the session an event is dispatched to
  claim,    \* the endpoint revision and the session the processing row claims
  rev,      \* revision of the endpoint
  active,   \* its active session
  sess,     \* the sessions: fit or no longer fit to be the endpoint's
  open,     \* its profile is enabled and its project allows it
  mark,     \* the sessions that took the prompt of an event, with its origin
  saved,    \* the entry of the claimed event, if it has one, is in the session's
            \* file; of a settled event nobody asks
  \* the process
  gw,       \* startup of the gateway
  wake,     \* an admission has yet to call scheduleEndpointDrain
  pc,       \* the endpoint's drain
  cur,      \* the event it works on
  bind,     \* the binding it captured
  cand,     \* the session it is about to activate
  crashes, faults, policies

rows == <<ev, kind, answer, bound, claim>>
endpoint == <<rev, active, sess, open>>
origins == <<mark, saved>>
local == <<gw, wake, pc, cur, bind, cand>>
bounds == <<crashes, faults, policies>>
vars == <<rows, endpoint, origins, local, bounds>>

Events == 1 .. MaxEvents
Browser == MaxEvents + 1
Sessions == 1 .. Browser
NoSession == 0
NoBinding == [rev |-> 0, session |-> NoSession]
Kinds == {"prompt", "new", "use", "notice"}
Settled == {"completed", "failed"}

Init ==
  /\ ev = [e \in Events |-> "none"] /\ kind = [e \in Events |-> "notice"]
  /\ answer = [e \in Events |-> "none"] /\ bound = [e \in Events |-> NoSession]
  /\ claim = NoBinding /\ rev = 1 /\ active = NoSession /\ open = TRUE
  /\ sess = [s \in Sessions |-> IF s = Browser THEN "fit" ELSE "none"]
  /\ mark = [e \in Events |-> <<>>] /\ saved = TRUE
  /\ gw = "down" /\ wake = FALSE /\ pc = "idle" /\ cur = 1
  /\ bind = NoBinding /\ cand = NoSession
  /\ crashes = 0 /\ faults = 0 /\ policies = 0

\* Writes of one turn are under way, or the process is busy for good: only a
\* crash can come between.
Interruptible == gw # "down" /\ pc \notin {"activated", "refreshed", "spinning"}

Here == [rev |-> rev, session |-> active]
Claimed == {e \in Events : ev[e] = "processing"}
Claimable == Claimed = {} /\ \E e \in Events : ev[e] = "accepted"

\* Mutant of OriginPresent: no entry is ever matched.
BugOriginUnmatched(e, s) == FALSE

\* inspectOrigin and messagingOriginEntry
OriginPresent(e, s) == s \in ToSet(mark[e])

StoreFails(n) ==
  /\ faults + n <= MaxFaults
  /\ faults' = faults + n /\ UNCHANGED <<crashes, policies>>

\* What a commit of completeMessagingEventWithDeliveries does: the row is
\* settled and its deliveries are inserted.
Settle(e, state, said) ==
  /\ ev' = [ev EXCEPT ![e] = state]
  /\ answer' = [answer EXCEPT ![e] = said]
  /\ bound' = [bound EXCEPT ![e] = IF @ = NoSession THEN active ELSE @]
  /\ saved' = TRUE /\ UNCHANGED <<kind, mark>>

\* completeError: the claim is refreshed first, so that only the store can
\* refuse the commit.
CompleteError(e, said) == claim' = Here /\ Settle(e, "failed", said)

-----------------------------------------------------------------------------
(* Startup, recovery and admission.                                        *)

\* The constructor reconciles the declarations, which wants the scope open.
Start ==
  /\ gw = "down" /\ open
  /\ gw' = "recovering"
  /\ UNCHANGED <<rows, endpoint, origins, wake, pc, cur, bind, cand, bounds>>

RecoverySession(e) == IF bound[e] # NoSession THEN bound[e] ELSE claim.session

\* recover(): a claim whose origin is in the transcript is never replayed.
RecoverPresent(e) ==
  /\ gw = "recovering" /\ e \in Claimed /\ OriginPresent(e, RecoverySession(e))
  /\ CompleteError(e, "handoff")
  /\ UNCHANGED <<endpoint, local, bounds>>

RecoverAbsent(e) ==
  /\ gw = "recovering" /\ e \in Claimed /\ ~OriginPresent(e, RecoverySession(e))
  /\ ev' = [ev EXCEPT ![e] = "accepted"] /\ claim' = NoBinding
  /\ UNCHANGED <<kind, answer, bound, endpoint, origins, local, bounds>>

\* The transcript cannot be read, or the store not be written.
RecoverFails ==
  /\ gw = "recovering" /\ Claimed # {} /\ StoreFails(1)
  /\ gw' = "failed"
  /\ UNCHANGED <<rows, endpoint, origins, wake, pc, cur, bind, cand>>

\* Mutant of Recovered: nothing drains what is left.
BugNoStartupDrain ==
  /\ gw = "recovering" /\ Claimed = {} /\ gw' = "up"
  /\ UNCHANGED <<rows, endpoint, origins, wake, pc, cur, bind, cand, bounds>>

Recovered ==
  /\ gw = "recovering" /\ Claimed = {}
  /\ gw' = "draining" /\ pc' = "loop"
  /\ UNCHANGED <<rows, endpoint, origins, wake, cur, bind, cand, bounds>>

\* admitTransaction.  An event that was admitted before is absorbed by its row,
\* so only new ones are a step.
Admit(e, k) ==
  /\ gw = "up" /\ Interruptible /\ open
  /\ ev[e] = "none" /\ \A d \in 1 .. e - 1 : ev[d] # "none"
  /\ ev' = [ev EXCEPT ![e] = "accepted"] /\ kind' = [kind EXCEPT ![e] = k]
  /\ wake' = TRUE
  /\ UNCHANGED <<answer, bound, claim, endpoint, origins, gw, pc, cur, bind, cand, bounds>>

\* scheduleEndpointDrain: the drain that is registered, if any, is enough.
ScheduleDrain ==
  /\ wake /\ Interruptible
  /\ wake' = FALSE /\ pc' = IF pc = "idle" THEN "loop" ELSE pc
  /\ UNCHANGED <<rows, endpoint, origins, gw, cur, bind, cand, bounds>>

-----------------------------------------------------------------------------
(* The drain.                                                              *)

\* claimNextMessagingEvent: the oldest open event, unless it is processing.
Claim(e) ==
  /\ pc = "loop" /\ open /\ Claimable
  /\ ev[e] = "accepted" /\ \A d \in 1 .. e - 1 : ev[d] \in Settled
  /\ ev' = [ev EXCEPT ![e] = "processing"] /\ cur' = e
  /\ claim' = Here /\ bind' = Here /\ pc' = "authorize"
  /\ UNCHANGED <<kind, answer, bound, endpoint, origins, gw, wake, cand, bounds>>

LoopEnds ==
  /\ pc = "loop" /\ ~(open /\ Claimable)
  /\ pc' = IF open THEN "ending" ELSE "thrown"
  /\ UNCHANGED <<rows, endpoint, origins, gw, wake, cur, bind, cand, bounds>>

\* The finalizer of the drain looks for work once more.  With the scope closed
\* each drain it starts throws at once and is followed by the next, without a
\* turn of the event loop in between.
AfterDrain == IF ~Claimable THEN "idle" ELSE IF open THEN "loop" ELSE "spinning"

Finalize ==
  /\ pc \in {"ending", "thrown"}
  /\ pc' = AfterDrain
  /\ gw' = IF gw # "draining" THEN gw ELSE IF pc = "ending" THEN "up" ELSE "failed"
  /\ UNCHANGED <<rows, endpoint, origins, wake, cur, bind, cand, bounds>>

-----------------------------------------------------------------------------
(* One claim.                                                              *)

\* An exception ends the claim in completeError.  When that cannot be stored
\* the row stays processing, perhaps with a refreshed claim, and the drain
\* throws.  n writes failed before.
Failed(said, n) ==
  /\ \/ CompleteError(cur, said) /\ pc' = "loop" /\ StoreFails(n)
     \/ /\ claim' \in {claim, Here} /\ pc' = "thrown" /\ StoreFails(n + 1)
        /\ UNCHANGED <<ev, kind, answer, bound, origins>>
  /\ UNCHANGED <<endpoint, gw, wake, cur, bind, cand>>

\* Mutant of StillBinds: the binding is not looked at.
BugBindingUnchecked == TRUE

\* The conditions under which the commit of `complete` is taken.
StillBinds == claim = Here /\ (active # NoSession => sess[active] = "fit")

\* `complete` tries the commit twice; when it is refused the claim fails.
Commit(said, otherwise) ==
  \/ /\ StillBinds
     /\ Settle(cur, "completed", said)
     /\ pc' = "loop"
     /\ UNCHANGED <<claim, endpoint, gw, wake, cur, bind, cand, bounds>>
  \/ ~StillBinds /\ Failed(otherwise, 0)
  \/ StillBinds /\ Failed(otherwise, 1)

\* currentAuthorizedBinding resumes: the endpoint moved on, or the participants
\* are not, or cannot be, attested.
Authorized == pc = "authorize" /\ claim = bind /\ bind = Here
AuthorizeFails == pc = "authorize" /\ Failed("error", 0)

\* !sessions, !status, !help and what does not parse.
Notice == Authorized /\ kind[cur] = "notice" /\ Commit("notice", "error")

\* createSessionCandidate: with the same key it returns the session it made
\* before.
Create ==
  /\ Authorized /\ open
  /\ \/ kind[cur] = "new"
     \/ kind[cur] = "prompt" /\ bind.session = NoSession
  /\ sess[cur] # "unfit" /\ sess' = [sess EXCEPT ![cur] = "fit"]
  /\ cand' = cur /\ pc' = "activate"
  /\ UNCHANGED <<rows, rev, active, open, origins, gw, wake, cur, bind, bounds>>

\* resolveEligibleSession
Resolve(s) ==
  /\ Authorized /\ kind[cur] = "use" /\ open /\ sess[s] = "fit"
  /\ cand' = s /\ pc' = "activate"
  /\ UNCHANGED <<rows, endpoint, origins, gw, wake, cur, bind, bounds>>

\* activateMessagingSession compares the revision the claim was authorized
\* under.
Activatable == open /\ rev = bind.rev /\ sess[cand] = "fit"

Activate ==
  /\ pc = "activate" /\ Activatable
  /\ active' = cand /\ rev' = IF active = cand THEN rev ELSE rev + 1
  /\ pc' = "activated"
  /\ UNCHANGED <<rows, sess, open, origins, gw, wake, cur, bind, cand, bounds>>

ActivateFails ==
  /\ pc = "activate"
  /\ \/ ~Activatable /\ Failed("error", 0)
     \/ Failed("error", 1)

\* refreshMessagingEventClaimBinding, under the activation's revision.
Refresh ==
  /\ pc = "activated"
  /\ \/ /\ claim' = Here /\ bind' = Here /\ pc' = "refreshed"
        /\ UNCHANGED <<ev, kind, answer, bound, endpoint, origins, gw, wake, cur, cand, bounds>>
     \/ Failed("error", 1)

Activation == pc = "refreshed" /\ kind[cur] # "prompt" /\ Commit("notice", "error")

\* recordMessagingEventDispatchSession
Recordable ==
  /\ claim.session = bind.session /\ sess[bind.session] = "fit"
  /\ bound[cur] \in {NoSession, bind.session}

\* Mutant of Record: the session is not written down.
BugNotRecorded ==
  /\ \/ Authorized /\ bind.session # NoSession
     \/ pc = "refreshed"
  /\ kind[cur] = "prompt" /\ Recordable /\ pc' = "starting"
  /\ UNCHANGED <<rows, endpoint, origins, gw, wake, cur, bind, cand, bounds>>

Record ==
  /\ \/ Authorized /\ bind.session # NoSession
     \/ pc = "refreshed"
  /\ kind[cur] = "prompt"
  /\ \/ /\ Recordable
        /\ bound' = [bound EXCEPT ![cur] = bind.session] /\ pc' = "starting"
        /\ UNCHANGED <<ev, kind, answer, claim, endpoint, origins, gw, wake, cur, bind, cand, bounds>>
     \/ ~Recordable /\ Failed("error", 0)
     \/ Failed("error", 1)

\* runTurn once the runtime is there: authorizeDispatch, then the prompt enters
\* the session in the same turn.
Dispatchable ==
  /\ open /\ sess[bind.session] = "fit"
  /\ claim = bind /\ Here = bind
  /\ ~OriginPresent(cur, bind.session)

Dispatch ==
  /\ pc = "starting" /\ Dispatchable
  /\ mark' = [mark EXCEPT ![cur] = Append(@, bind.session)] /\ saved' = FALSE
  /\ pc' = "turn"
  /\ UNCHANGED <<rows, endpoint, gw, wake, cur, bind, cand, bounds>>

\* No runtime, a busy session, or a claim that no longer binds.
DispatchFails == pc = "starting" /\ Failed("error", 0)

\* The session writes its file once an assistant message follows the prompt.
Save ==
  /\ ~saved /\ Interruptible
  /\ saved' = TRUE
  /\ UNCHANGED <<rows, endpoint, mark, local, bounds>>

TurnAnswers == pc = "turn" /\ saved /\ Commit("final", "handoff")

\* The answer is too long to be delivered, or the turn fails or times out.
TurnFails ==
  /\ pc = "turn"
  /\ \/ saved /\ Failed("handoff", 0)
     \/ Failed("error", 0)

-----------------------------------------------------------------------------
(* The environment.                                                        *)

\* A session is archived, or a catalog scan finds its transcript moved: only
\* that can happen to the active session, which the same write deactivates.
MoveSession(s) ==
  /\ Interruptible /\ sess[s] = "fit"
  /\ sess' = [sess EXCEPT ![s] = "unfit"]
  /\ IF active = s THEN active' = NoSession /\ rev' = rev + 1
                   ELSE UNCHANGED <<active, rev>>
  /\ UNCHANGED <<rows, open, origins, local, bounds>>

\* A scan restores an archived session that was used since, or the transcript
\* is back in its place; the endpoint stays without it.
RestoreSession(s) ==
  /\ Interruptible /\ sess[s] = "unfit"
  /\ sess' = [sess EXCEPT ![s] = "fit"]
  /\ UNCHANGED <<rows, rev, active, open, origins, local, bounds>>

\* The profile is disabled or enabled, or the project's allowance changes.
ChangeScope ==
  /\ Interruptible \/ gw = "down"
  /\ policies < MaxScope /\ policies' = policies + 1
  /\ open' = ~open
  /\ UNCHANGED <<rows, rev, active, sess, origins, local, crashes, faults>>

\* A shutdown that finds the claim busy leaves the same rows behind.
Crash ==
  /\ gw # "down" /\ crashes < MaxCrashes /\ crashes' = crashes + 1
  /\ gw' = "down" /\ wake' = FALSE /\ pc' = "idle"
  /\ cur' = 1 /\ bind' = NoBinding /\ cand' = NoSession
  /\ mark' = [e \in Events |-> IF e \in Claimed /\ ~saved THEN Front(mark[e]) ELSE mark[e]]
  /\ saved' = TRUE
  /\ UNCHANGED <<rows, endpoint, faults, policies>>

Startup == \/ Start \/ RecoverFails \/ Recovered
           \/ \E e \in Events : RecoverPresent(e) \/ RecoverAbsent(e)
Turn == \/ Record \/ Dispatch \/ DispatchFails \/ TurnAnswers \/ TurnFails
Command == \/ Notice \/ Create \/ Activate \/ ActivateFails \/ Refresh \/ Activation
           \/ \E s \in Sessions : Resolve(s)
Drain == \/ LoopEnds \/ Finalize \/ AuthorizeFails \/ Turn \/ Command
         \/ \E e \in Events : Claim(e)

Next == \/ Startup \/ Drain \/ ScheduleDrain \/ Save \/ ChangeScope \/ Crash
        \/ \E e \in Events, k \in Kinds : Admit(e, k)
        \/ \E s \in Sessions : MoveSession(s) \/ RestoreSession(s)

Spec == Init /\ [][Next]_vars

\* Startup goes on, and what the drain awaits settles: attestations and
\* runtimes answer, and a turn has a deadline.
FairSpec == Spec /\ WF_vars(Startup) /\ WF_vars(Drain) /\ WF_vars(ScheduleDrain)

-----------------------------------------------------------------------------
(* Properties                                                              *)

TypeOK ==
  /\ ev \in [Events -> {"none", "accepted", "processing"} \union Settled]
  /\ kind \in [Events -> Kinds]
  /\ answer \in [Events -> {"none", "notice", "final", "error", "handoff"}]
  /\ bound \in [Events -> Sessions \union {NoSession}]
  /\ claim \in [rev : Nat, session : Sessions \union {NoSession}]
  /\ rev \in Nat /\ active \in Sessions \union {NoSession}
  /\ sess \in [Sessions -> {"none", "fit", "unfit"}] /\ open \in BOOLEAN
  /\ mark \in [Events -> Seq(Sessions)] /\ saved \in BOOLEAN
  /\ gw \in {"down", "recovering", "draining", "up", "failed"} /\ wake \in BOOLEAN
  /\ pc \in {"idle", "loop", "authorize", "activate", "activated", "refreshed",
             "starting", "turn", "ending", "thrown", "spinning"}
  /\ cur \in Events /\ bind \in [rev : Nat, session : Sessions \union {NoSession}]
  /\ cand \in Sessions \union {NoSession}
  /\ crashes \in Nat /\ faults \in Nat /\ policies \in Nat

\* An event's prompt enters a session at most once, whatever crashes and is
\* retried, events are settled once and in the order they were accepted, and
\* none is answered but from the session that took its prompt.
Inbox == INSTANCE MessagingInbox WITH
  accepted <- Cardinality({e \in Events : ev[e] # "none"}),
  settled <- Cardinality({e \in Events : ev[e] \in Settled}),
  prompts <- [e \in Events |-> Len(mark[e])],
  answered <- {e \in Events : answer[e] = "final"}
ImplementsInbox == Inbox!Spec

\* Recovery looks for a prompt where the event's row says it went: it is
\* nowhere else.
PromptWhereBound == \A e \in Events : ToSet(mark[e]) \subseteq {bound[e]}

\* The answer to a prompt is delivered only while the session that gave it is
\* still the one people at the endpoint talk to, and fit to be.
AnsweredByActive ==
  [][\A e \in Events : answer[e] # "final" /\ answer'[e] = "final"
        => mark[e] # <<>> /\ Last(mark[e]) = active /\ sess[active] = "fit"]_vars

\* No admission is lost between the end of a drain and its deregistration: once
\* nobody is about to start one, there is nothing to start it for.
NoLostWakeup == gw = "up" /\ pc = "idle" /\ ~wake => ~Claimable

\* A closed scope blocks the next claim, and nothing else.  The code breaks it
\* (MessagingGatewayScope.cfg): over accepted events each drain that throws at
\* its claim starts the next one, and the process turns to nothing else.
NotSpinning == pc # "spinning"

\* What only a restart ends: startup failed, an outcome could not be stored, or
\* the scope was closed over accepted events.
Halted ==
  \/ gw = "failed"
  \/ pc = "spinning"
  \/ gw = "down" /\ ~open
  \/ gw = "up" /\ pc = "idle" /\ Claimed # {}

\* Every accepted event is settled, through crashes and restarts, unless the
\* gateway comes to a halt.
EventsSettle ==
  \A e \in Events :
     ev[e] \in {"accepted", "processing"} ~> (ev[e] \in Settled \/ []Halted)
=============================================================================
