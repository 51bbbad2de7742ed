--------------------------- MODULE SessionRuntime ---------------------------
(***************************************************************************)
(* The lifecycle of Wayang's live Pi runtimes (backend/src/pi-bridge.ts):  *)
(* lazy creation, publication, capability denial and activation epochs,    *)
(* the cleanup reservation that blocks a session id until every owned      *)
(* surface is confirmed closed, and the process-local mutation lock.       *)
(*                                                                         *)
(* A "runtime" is one createPiSession call that may become the owner of a  *)
(* generation of surfaces (SDK session, browser lease, automation, ...).   *)
(* Every await of the code separates two actions.  The code is one         *)
(* JavaScript process: a promise continuation runs before any I/O callback *)
(* or timer, which MicrotasksDrained expresses.                            *)
(***************************************************************************)
EXTENDS Naturals, FiniteSets

CONSTANTS
  Sessions,      \* session ids
  Runtimes,      \* createPiSession calls; each is used once
  NoRuntime,     \* "the map has no entry"
  SessionOf,     \* the session id each createPiSession call names
  Surfaces,      \* closable surfaces of a runtime
  AgentSession,  \* the SDK session among them: disposed after all the others
  MaxSessions,   \* MAX_SESSIONS
  Actions,       \* the teardown actions that callers request
  MaxEpoch,      \* bound on the denial and activation epochs
  MaxWork        \* bound on the accepted top-level-work leases of a handle

ASSUME NoRuntimeAssumption == NoRuntime \notin Runtimes
ASSUME SessionOfAssumption == SessionOf \in [Runtimes -> Sessions]
ASSUME BoundsAssumption == /\ MaxSessions \in Nat
                           /\ MaxEpoch \in Nat
                           /\ MaxWork \in Nat

VARIABLES
  live,          \* sessions: the published handle of an id
  creation,      \* sessionCreations: the pending (or failed, retained) creation
  locked,        \* lockedSessionIds
  denialGen,     \* sessionCapabilityDenialGenerations
  actGen,        \* sessionCapabilityActivationGenerations
  intent,        \* sessionBrowserTeardownIntents: strongest latched teardown
  slot,          \* unconfirmedSessionCleanups: free, attempting or retained
  slotOwner,     \* the generation whose surfaces the reservation closes
  slotKind,      \* teardownSeverity of the reservation
  todo,          \* teardown phases of the reservation that have not completed
  failed,        \* steps of the reservation that failed in this attempt
  phase,         \* per runtime: where its creation or its handle is
  capDenial, capAct,     \* the epochs captured before the first await
  aborted,       \* the construction signal of the owning caller
  denied,        \* capabilityAuthorityDenied
  refresh,       \* capabilityRefreshPending
  scheduled,     \* capabilityRefreshRetirementScheduled
  work, busy,    \* accepted leases; a prompt streaming or pending in the SDK
  owned          \* the surfaces this generation has acquired and not closed

maps == <<live, creation>>
epochs == <<denialGen, actGen, intent>>
reservation == <<slot, slotOwner, slotKind, todo, failed>>
witness == <<capDenial, capAct>>
usage == <<work, busy>>
vars == <<maps, locked, epochs, reservation, phase, witness, aborted,
          denied, refresh, scheduled, usage, owned>>

----------------------------------------------------------------------------
(* Browser teardown actions, ordered by severity.                          *)
Teardowns == {"detach", "close_session", "revoke"}
Severity == [none |-> 0, detach |-> 1, close_session |-> 2, revoke |-> 3]
Stronger(j, k) == IF Severity[j] > Severity[k] THEN j ELSE k

ASSUME ActionsAssumption == Actions \subseteq Teardowns

(* A surface is not a teardown phase: both are steps of a reservation.     *)
ASSUME SurfacesAssumption == /\ AgentSession \in Surfaces
                             /\ Surfaces \cap (Teardowns \cup {"none"}) = {}

(* retiring: awaiting the destruction of the handle it found; resuming:    *)
(* that cleanup is confirmed and its continuation is queued; starting:     *)
(* registered, not yet past the capacity check; unclosed: failed, and a    *)
(* cleanup attempt failed too; closed: a destroyed handle; stopped: a call *)
(* that ended without publishing a handle.                                 *)
Phases == {"idle", "retiring", "resuming", "starting", "building",
           "failing", "unclosed", "published", "closed", "stopped"}
InCreation == {"starting", "building", "failing", "unclosed"}

(* No continuation of an awaited cleanup is left to run: only then can an  *)
(* I/O callback, a timer or a request start a further step.                *)
MicrotasksDrained == \A r \in Runtimes : phase[r] # "resuming"

(* Mutant of CreationCurrent: the denial epoch is not compared.            *)
BugEpochUnchecked(r) == ~aborted[r] /\ capAct[r] = actGen[SessionOf[r]]

(* assertCreationCurrent: own signal and both captured epochs.             *)
CreationCurrent(r) ==
  /\ ~aborted[r]
  /\ capDenial[r] = denialGen[SessionOf[r]]
  /\ capAct[r] = actGen[SessionOf[r]]

CanRetire(r) ==
  /\ refresh[r]
  /\ work[r] = 0
  /\ ~busy[r]
  /\ ~locked[SessionOf[r]]

IsLive(r) == live[SessionOf[r]] = r

Init ==
  /\ live = [s \in Sessions |-> NoRuntime]
  /\ creation = [s \in Sessions |-> NoRuntime]
  /\ locked = [s \in Sessions |-> FALSE]
  /\ denialGen = [s \in Sessions |-> 0]
  /\ actGen = [s \in Sessions |-> 0]
  /\ intent = [s \in Sessions |-> "none"]
  /\ slot = [s \in Sessions |-> "free"]
  /\ slotOwner = [s \in Sessions |-> NoRuntime]
  /\ slotKind = [s \in Sessions |-> "none"]
  /\ todo = [s \in Sessions |-> {}]
  /\ failed = [s \in Sessions |-> {}]
  /\ phase = [r \in Runtimes |-> "idle"]
  /\ capDenial = [r \in Runtimes |-> 0]
  /\ capAct = [r \in Runtimes |-> 0]
  /\ aborted = [r \in Runtimes |-> FALSE]
  /\ denied = [r \in Runtimes |-> FALSE]
  /\ refresh = [r \in Runtimes |-> FALSE]
  /\ scheduled = [r \in Runtimes |-> FALSE]
  /\ work = [r \in Runtimes |-> 0]
  /\ busy = [r \in Runtimes |-> FALSE]
  /\ owned = [r \in Runtimes |-> {}]

----------------------------------------------------------------------------
(* Cleanup reservations.                                                   *)

(* createCleanupReservation and its first attemptReservedCleanup: the slot *)
(* blocks the id from here until the attempt is confirmed.                 *)
Reserve(s, o, k) ==
  /\ slot' = [slot EXCEPT ![s] = "attempting"]
  /\ slotOwner' = [slotOwner EXCEPT ![s] = o]
  /\ slotKind' = [slotKind EXCEPT ![s] = k]
  /\ todo' = [todo EXCEPT ![s] = {k}]
  /\ failed' = [failed EXCEPT ![s] = {}]

(* reservation.upgrade appends a phase for action k.  The phase re-runs a  *)
(* surface closer that failed, but the step that awaited it stays failed,  *)
(* so the attempt fails as it would have: that re-run is folded into the   *)
(* next attempt.                                                           *)
AppendPhase(s, k) ==
  /\ slotKind' = [slotKind EXCEPT ![s] = Stronger(@, k)]
  /\ todo' = [todo EXCEPT ![s] = @ \cup {k}]

(* A destroy on a held reservation appends only a stronger action.         *)
Upgrade(s, k) ==
  IF slot[s] # "free" /\ Severity[k] > Severity[slotKind[s]]
    THEN AppendPhase(s, k)
    ELSE UNCHANGED <<slotKind, todo>>

(* A latch appends whenever it captured a target of its own: the first     *)
(* intent, a stronger one, or a revocation's pair-owned snapshot.          *)
UpgradeCaptured(s, k) ==
  IF /\ slot[s] # "free"
     /\ Severity[k] > Severity[intent[s]] \/ k = "revoke"
    THEN AppendPhase(s, k)
    ELSE UNCHANGED <<slotKind, todo>>

(* latchPiSessionHandleCapabilityDenial on the live handle of s, if any.   *)
DenyLive(s) == denied' = [r \in Runtimes |-> denied[r] \/ r = live[s]]

(* latchPiSessionCapabilityDenial for one id: epoch, intent, reservation   *)
(* and live handle change in one synchronous step.                         *)
Latch(s, k) ==
  /\ denialGen[s] < MaxEpoch
  /\ denialGen' = [denialGen EXCEPT ![s] = @ + 1]
  /\ intent' = [intent EXCEPT ![s] = Stronger(@, k)]
  /\ UpgradeCaptured(s, k)
  /\ DenyLive(s)

(* Mutants of DestroyOwned: the latched intent is forgotten; the handle    *)
(* keeps its authority while it is being destroyed.                        *)
BugIntentForgotten(s, k) ==
  slot[s] = "free" /\ Reserve(s, live[s], k) /\ DenyLive(s)
BugDestroyedNotDenied(s, k) ==
  /\ slot[s] = "free"
  /\ Reserve(s, live[s], Stronger(intent[s], k))
  /\ UNCHANGED denied

(* destroyPiSession when no reservation is held and the id has a handle or *)
(* no creation: prior intent wins if stronger; the handle is denied before *)
(* the first await.                                                        *)
DestroyOwned(s, k) ==
  /\ slot[s] = "free"
  /\ Reserve(s, live[s], Stronger(intent[s], k))
  /\ DenyLive(s)

(* The steps an attempt may run now.  destroyPiSession disposes the SDK    *)
(* session after every other step; a failed creation closes all at once.   *)
Runnable(s) ==
  LET o == slotOwner[s]
      rest == todo[s] \cup (owned[o] \ {AgentSession})
  IN  IF o = NoRuntime THEN todo[s]
      ELSE IF phase[o] = "published" /\ rest # {} THEN rest
      ELSE todo[s] \cup owned[o]

(* A step completes.  Outside an attempt only a phase that an upgrade has  *)
(* just appended runs; the SDK session is disposed once its prompts drain. *)
StepSucceeds(s, x) ==
  /\ slot[s] # "free"
  /\ x \in Runnable(s) \ failed[s]
  /\ slot[s] = "retained" => x \in Teardowns
  /\ x = AgentSession => ~busy[slotOwner[s]]
  /\ todo' = [todo EXCEPT ![s] = @ \ {x}]
  /\ owned' = [r \in Runtimes |->
                 IF r = slotOwner[s] THEN owned[r] \ {x} ELSE owned[r]]
  /\ UNCHANGED <<maps, locked, epochs, slot, slotOwner, slotKind, failed, phase,
                 witness, aborted, denied, refresh, scheduled, usage>>

StepFails(s, x) ==
  /\ slot[s] # "free"
  /\ x \in Runnable(s) \ failed[s]
  /\ slot[s] = "retained" => x \in Teardowns
  /\ failed' = [failed EXCEPT ![s] = @ \cup {x}]
  /\ UNCHANGED <<maps, locked, epochs, slot, slotOwner, slotKind, todo, phase,
                 witness, aborted, denied, refresh, scheduled, usage, owned>>

(* The attempt finds nothing left: onConfirmed removes the handle or the   *)
(* creation and its intent, frees the slot, and wakes the caller that      *)
(* awaits the destruction of the handle it found.                          *)
ConfirmCleanup(s) ==
  /\ slot[s] = "attempting"
  /\ Runnable(s) = {}
  /\ live' = [live EXCEPT ![s] = IF @ = slotOwner[s] THEN NoRuntime ELSE @]
  /\ creation' = [creation EXCEPT ![s] = IF @ = slotOwner[s] THEN NoRuntime ELSE @]
  /\ intent' = [intent EXCEPT ![s] = "none"]
  /\ slot' = [slot EXCEPT ![s] = "free"]
  /\ slotOwner' = [slotOwner EXCEPT ![s] = NoRuntime]
  /\ slotKind' = [slotKind EXCEPT ![s] = "none"]
  /\ failed' = [failed EXCEPT ![s] = {}]
  /\ phase' = [r \in Runtimes |->
       IF r = slotOwner[s]
         THEN IF phase[r] = "published" THEN "closed" ELSE "stopped"
       ELSE IF SessionOf[r] = s /\ phase[r] = "retiring" THEN "resuming"
       ELSE phase[r]]
  /\ UNCHANGED <<locked, denialGen, actGen, todo, witness, aborted, denied,
                 refresh, scheduled, usage, owned>>

(* Mutants of RetainCleanup: the caller that awaits the cleanup is not     *)
(* told; failed steps are retried without an explicit attempt.             *)
BugWaiterForgotten(s) ==
  /\ slot[s] = "attempting" /\ Runnable(s) # {} /\ Runnable(s) \subseteq failed[s]
  /\ slot' = [slot EXCEPT ![s] = "retained"]
  /\ UNCHANGED <<maps, locked, epochs, slotOwner, slotKind, todo, failed, phase,
                 witness, aborted, denied, refresh, scheduled, usage, owned>>
BugImplicitRetry(s) ==
  /\ slot[s] = "attempting" /\ Runnable(s) # {} /\ Runnable(s) \subseteq failed[s]
  /\ failed' = [failed EXCEPT ![s] = {}]
  /\ UNCHANGED <<maps, locked, epochs, slot, slotOwner, slotKind, todo, phase,
                 witness, aborted, denied, refresh, scheduled, usage, owned>>

(* Every remaining step has failed: the reservation is retained, and the   *)
(* waiting caller gets its receipt.  Nothing retries it on its own.        *)
RetainCleanup(s) ==
  /\ slot[s] = "attempting"
  /\ Runnable(s) # {}
  /\ Runnable(s) \subseteq failed[s]
  /\ slot' = [slot EXCEPT ![s] = "retained"]
  /\ phase' = [r \in Runtimes |->
       IF r = slotOwner[s] /\ phase[r] = "failing" THEN "unclosed"
       ELSE IF SessionOf[r] = s /\ phase[r] = "retiring" THEN "stopped"
       ELSE phase[r]]
  /\ UNCHANGED <<maps, locked, epochs, slotOwner, slotKind, todo, failed, witness,
                 aborted, denied, refresh, scheduled, usage, owned>>

(* An explicit attempt on a retained reservation: its failed steps only.   *)
RetryCleanup(s) ==
  /\ slot[s] = "retained"
  /\ slot' = [slot EXCEPT ![s] = "attempting"]
  /\ failed' = [failed EXCEPT ![s] = {}]
  /\ UNCHANGED <<maps, locked, epochs, slotOwner, slotKind, todo, phase, witness,
                 aborted, denied, refresh, scheduled, usage, owned>>

(* A denied handle starts its closers at once, before any reservation.     *)
EagerClose(r, x) ==
  /\ IsLive(r)
  /\ denied[r]
  /\ slot[SessionOf[r]] = "free"
  /\ x \in owned[r] \ {AgentSession}
  /\ owned' = [owned EXCEPT ![r] = @ \ {x}]
  /\ UNCHANGED <<maps, locked, epochs, reservation, phase, witness, aborted,
                 denied, refresh, scheduled, usage>>

----------------------------------------------------------------------------
(* createPiSession.  Calls that throw in the synchronous prefix, return    *)
(* the existing handle or join a pending creation change nothing here.     *)

(* The prefix's refusals: a held reservation and a held mutation lock.     *)
MayCreate(r) ==
  /\ phase[r] = "idle"
  /\ slot[SessionOf[r]] = "free"
  /\ ~locked[SessionOf[r]]

Capture(r) ==
  /\ capDenial' = [capDenial EXCEPT ![r] = denialGen[SessionOf[r]]]
  /\ capAct' = [capAct EXCEPT ![r] = actGen[SessionOf[r]]]

(* The existing handle cannot be used: denied, pending a refresh it can    *)
(* retire for, or with a privileged lease that no longer passes preflight  *)
(* (an outside event, so any handle may have one).  Destroy it and wait.   *)
CreateOverStale(r) ==
  LET s == SessionOf[r] h == live[s] IN
  /\ MayCreate(r)
  /\ h # NoRuntime
  /\ refresh[h] => CanRetire(h)
  /\ Capture(r)
  /\ DestroyOwned(s, "detach")
  /\ phase' = [phase EXCEPT ![r] = "retiring"]
  /\ UNCHANGED <<maps, locked, epochs, aborted, refresh, scheduled, usage, owned>>

Register(r) ==
  /\ creation' = [creation EXCEPT ![SessionOf[r]] = r]
  /\ phase' = [phase EXCEPT ![r] = "starting"]

CreateFresh(r) ==
  LET s == SessionOf[r] IN
  /\ MayCreate(r)
  /\ live[s] = NoRuntime
  /\ creation[s] = NoRuntime
  /\ Capture(r)
  /\ Register(r)
  /\ UNCHANGED <<live, locked, epochs, reservation, aborted, denied, refresh,
                 scheduled, usage, owned>>

(* After the awaited destruction only the signal and the captured epochs   *)
(* are checked again, then the pending creation, if another call made one. *)
ResumeCreation(r) ==
  /\ phase[r] = "resuming"
  /\ IF CreationCurrent(r) /\ creation[SessionOf[r]] = NoRuntime
       THEN Register(r)
       ELSE phase' = [phase EXCEPT ![r] = "stopped"] /\ UNCHANGED creation
  /\ UNCHANGED <<live, locked, epochs, reservation, witness, aborted, denied,
                 refresh, scheduled, usage, owned>>

Occupied == {s \in Sessions : live[s] # NoRuntime}
Pending == {s \in Sessions : creation[s] # NoRuntime}

(* Mutant of PassCapacity: pending creations are not counted.              *)
BugPendingUncounted(r) ==
  /\ phase[r] = "starting" /\ CreationCurrent(r)
  /\ Cardinality(Occupied) < MaxSessions
  /\ phase' = [phase EXCEPT ![r] = "building"]
  /\ UNCHANGED <<maps, locked, epochs, reservation, witness, aborted, denied,
                 refresh, scheduled, usage, owned>>

PassCapacity(r) ==
  /\ phase[r] = "starting"
  /\ CreationCurrent(r)
  /\ Cardinality(Occupied) + Cardinality(Pending) <= MaxSessions
  /\ phase' = [phase EXCEPT ![r] = "building"]
  /\ UNCHANGED <<maps, locked, epochs, reservation, witness, aborted, denied,
                 refresh, scheduled, usage, owned>>

(* Mutant of Acquire: an opening that settles after the failure is kept.   *)
BugLateSurface(r, x) ==
  /\ MicrotasksDrained
  /\ phase[r] \in {"building", "failing"}
  /\ x \in Surfaces \ owned[r]
  /\ owned' = [owned EXCEPT ![r] = @ \cup {x}]
  /\ UNCHANGED <<maps, locked, epochs, reservation, phase, witness, aborted,
                 denied, refresh, scheduled, usage>>

(* An awaited construction step hands over a surface.  Its opening was     *)
(* permitted when it began; the epochs may have moved since.               *)
Acquire(r, x) ==
  /\ MicrotasksDrained
  /\ phase[r] = "building"
  /\ x \in Surfaces \ owned[r]
  /\ owned' = [owned EXCEPT ![r] = @ \cup {x}]
  /\ UNCHANGED <<maps, locked, epochs, reservation, phase, witness, aborted,
                 denied, refresh, scheduled, usage>>

(* No await separates the last assertion from publication.                 *)
Publish(r) ==
  LET s == SessionOf[r] IN
  /\ MicrotasksDrained
  /\ phase[r] = "building"
  /\ owned[r] = Surfaces
  /\ CreationCurrent(r)
  /\ live' = [live EXCEPT ![s] = r]
  /\ creation' = [creation EXCEPT ![s] = NoRuntime]
  /\ phase' = [phase EXCEPT ![r] = "published"]
  /\ UNCHANGED <<locked, epochs, reservation, witness, aborted, denied, refresh,
                 scheduled, usage, owned>>

(* The creation rejects: capacity, a moved epoch, the signal, or any other *)
(* error.  Its catch reserves the id unconditionally; a browser factory    *)
(* that returned another pairing's lease overrides the teardown.           *)
FailCreation(r) ==
  LET s == SessionOf[r] IN
  /\ phase[r] \in {"starting", "building"}
  /\ \E k \in {Stronger(intent[s], "detach")} \cup ({"revoke"} \cap Actions) : Reserve(s, r, k)
  /\ phase' = [phase EXCEPT ![r] = "failing"]
  /\ UNCHANGED <<maps, locked, epochs, witness, aborted, denied, refresh,
                 scheduled, usage, owned>>

(* The owning caller's signal aborts.  Between registration and the end of *)
(* the first cleanup attempt, denyOwnedCreation also latches a denial.     *)
AbortCaller(r) ==
  /\ phase[r] \in {"retiring", "resuming", "starting", "building", "failing"}
  /\ ~aborted[r]
  /\ aborted' = [aborted EXCEPT ![r] = TRUE]
  /\ IF phase[r] \in InCreation
       THEN Latch(SessionOf[r], "detach") /\ UNCHANGED actGen
       ELSE UNCHANGED <<epochs, slotKind, todo, denied>>
  /\ UNCHANGED <<maps, locked, slot, slotOwner, failed, phase, witness, refresh,
                 scheduled, usage, owned>>

----------------------------------------------------------------------------
(* Denial, stop, activation, retirement.                                   *)

(* latchPiSessionCapabilityDenial.  A set of ids is latched id by id here, *)
(* which adds interleavings and removes none of a single id's.             *)
LatchDenial(s, k) ==
  /\ Latch(s, k)
  /\ UNCHANGED <<maps, locked, actGen, slot, slotOwner, failed, phase, witness,
                 aborted, refresh, scheduled, usage, owned>>

(* destroyPiSession by a stop, archive, delete, switch or denial cleanup.  *)
(* With only a pending creation it latches a denial (LatchDenial above)    *)
(* and waits; the creation's own failure path does the rest.               *)
Destroy(s, k) ==
  /\ MicrotasksDrained
  /\ live[s] # NoRuntime \/ creation[s] = NoRuntime
  /\ DestroyOwned(s, k)
  /\ UNCHANGED <<maps, locked, epochs, phase, witness, aborted, refresh,
                 scheduled, usage, owned>>

(* destroyPiSession on a held reservation: upgrade it, and join its        *)
(* attempt or start an explicit one.                                       *)
DestroyReserved(s, k) ==
  /\ slot[s] # "free"
  /\ Upgrade(s, k)
  /\ slot' = [slot EXCEPT ![s] = "attempting"]
  /\ failed' = [failed EXCEPT ![s] = IF slot[s] = "retained" THEN {} ELSE @]
  /\ UNCHANGED <<maps, locked, epochs, slotOwner, phase, witness, aborted, denied,
                 refresh, scheduled, usage, owned>>

(* stopIdlePiSessions, stopPiSessionIfIdle: skip reserved and busy ids.    *)
DestroyIdle(s) ==
  /\ MicrotasksDrained
  /\ live[s] # NoRuntime /\ ~busy[live[s]]
  /\ DestroyOwned(s, "detach")
  /\ UNCHANGED <<maps, locked, epochs, phase, witness, aborted, refresh,
                 scheduled, usage, owned>>

(* Mutant of LatchActivation: the retirement is not scheduled.             *)
BugActivationUnscheduled(s) ==
  /\ actGen[s] < MaxEpoch
  /\ actGen' = [actGen EXCEPT ![s] = @ + 1]
  /\ refresh' = [r \in Runtimes |-> refresh[r] \/ r = live[s]]
  /\ UNCHANGED <<maps, locked, denialGen, intent, reservation, phase, witness,
                 aborted, denied, scheduled, usage, owned>>

(* latchPiSessionCapabilityActivation.                                     *)
LatchActivation(s) ==
  /\ actGen[s] < MaxEpoch
  /\ actGen' = [actGen EXCEPT ![s] = @ + 1]
  /\ refresh' = [r \in Runtimes |-> refresh[r] \/ r = live[s]]
  /\ scheduled' = [r \in Runtimes |-> scheduled[r] \/ r = live[s]]
  /\ UNCHANGED <<maps, locked, denialGen, intent, reservation, phase, witness,
                 aborted, denied, usage, owned>>

(* The setImmediate of schedulePiSessionCapabilityRefreshRetirement.       *)
Retire(r) ==
  /\ MicrotasksDrained
  /\ scheduled[r]
  /\ scheduled' = [scheduled EXCEPT ![r] = FALSE]
  /\ IF IsLive(r) /\ slot[SessionOf[r]] = "free" /\ CanRetire(r)
       THEN DestroyOwned(SessionOf[r], "detach")
       ELSE UNCHANGED <<reservation, denied>>
  /\ UNCHANGED <<maps, locked, epochs, phase, witness, aborted, refresh, usage,
                 owned>>

----------------------------------------------------------------------------
(* Work on a handle, and the mutation lock.                                *)

(* beginPiSessionTopLevelWork by whoever holds the handle, even after its  *)
(* destruction.  An accepted continuation passes a pending refresh.        *)
BeginWork(r, acceptedContinuation) ==
  /\ phase[r] \in {"published", "closed"}
  /\ ~denied[r]
  /\ refresh[r] => acceptedContinuation
  /\ work[r] < MaxWork
  /\ work' = [work EXCEPT ![r] = @ + 1]
  /\ UNCHANGED <<maps, locked, epochs, reservation, phase, witness, aborted,
                 denied, refresh, scheduled, busy, owned>>

Reschedule(r) == scheduled' = [scheduled EXCEPT ![r] = @ \/ refresh[r]]

ReleaseWork(r) ==
  /\ work[r] > 0
  /\ busy[r] => work[r] > 1
  /\ work' = [work EXCEPT ![r] = @ - 1]
  /\ Reschedule(r)
  /\ UNCHANGED <<maps, locked, epochs, reservation, phase, witness, aborted,
                 denied, refresh, busy, owned>>

StartPrompt(r) ==
  /\ phase[r] = "published"
  /\ ~denied[r]
  /\ work[r] > 0
  /\ ~busy[r]
  /\ busy' = [busy EXCEPT ![r] = TRUE]
  /\ UNCHANGED <<maps, locked, epochs, reservation, phase, witness, aborted,
                 denied, refresh, scheduled, work, owned>>

(* agent_settled.                                                          *)
SettlePrompt(r) ==
  /\ busy[r]
  /\ busy' = [busy EXCEPT ![r] = FALSE]
  /\ Reschedule(r)
  /\ UNCHANGED <<maps, locked, epochs, reservation, phase, witness, aborted,
                 denied, refresh, work, owned>>

(* Both lock changes re-arm the retirement of a refresh-pending handle.    *)
LockChanged(s) ==
  /\ scheduled' = [r \in Runtimes |-> scheduled[r] \/ (r = live[s] /\ refresh[r])]
  /\ UNCHANGED <<maps, epochs, reservation, phase, witness, aborted, denied,
                 refresh, usage, owned>>

AcquireLock(s) ==
  /\ ~locked[s]
  /\ locked' = [locked EXCEPT ![s] = TRUE]
  /\ LockChanged(s)

ReleaseLock(s) ==
  /\ locked[s]
  /\ locked' = [locked EXCEPT ![s] = FALSE]
  /\ LockChanged(s)

----------------------------------------------------------------------------
Creating(r) ==
  \/ CreateOverStale(r) \/ CreateFresh(r) \/ ResumeCreation(r) \/ PassCapacity(r)
  \/ (\E x \in Surfaces : Acquire(r, x))
  \/ Publish(r) \/ FailCreation(r) \/ AbortCaller(r)

Using(r) ==
  \/ (\E continuation \in BOOLEAN : BeginWork(r, continuation))
  \/ ReleaseWork(r) \/ StartPrompt(r) \/ SettlePrompt(r)
  \/ Retire(r)
  \/ \E x \in Surfaces : EagerClose(r, x)

Cleaning(s) ==
  \/ \E x \in Surfaces \cup Teardowns : StepSucceeds(s, x) \/ StepFails(s, x)
  \/ ConfirmCleanup(s) \/ RetainCleanup(s) \/ RetryCleanup(s)

Administering(s) ==
  \/ \E k \in Actions : LatchDenial(s, k) \/ Destroy(s, k) \/ DestroyReserved(s, k)
  \/ DestroyIdle(s) \/ LatchActivation(s) \/ AcquireLock(s) \/ ReleaseLock(s)

Next ==
  \/ \E r \in Runtimes : Creating(r) \/ Using(r)
  \/ \E s \in Sessions : Cleaning(s) \/ Administering(s)

Spec == Init /\ [][Next]_vars

(* Fairness the code's scheduling justifies: a queued continuation and a   *)
(* setImmediate run; every awaited construction step and closer settles,   *)
(* one way or the other; an attempt whose steps settled ends; a prompt     *)
(* settles.  Nothing is assumed of requests, locks, latches or retries.    *)
Building(r) == \/ PassCapacity(r) \/ Publish(r) \/ FailCreation(r)
               \/ \E x \in Surfaces : Acquire(r, x)
Closing(s) == \E x \in Surfaces \cup Teardowns : StepSucceeds(s, x) \/ StepFails(s, x)

Fairness ==
  /\ \A r \in Runtimes : /\ WF_vars(ResumeCreation(r))
                         /\ WF_vars(Building(r))
                         /\ WF_vars(SettlePrompt(r))
                         /\ WF_vars(Retire(r))
  /\ \A s \in Sessions : /\ WF_vars(Closing(s))
                         /\ WF_vars(ConfirmCleanup(s) \/ RetainCleanup(s))

FairSpec == Spec /\ Fairness

----------------------------------------------------------------------------
(* Properties.                                                             *)

TypeOK ==
  /\ live \in [Sessions -> Runtimes \cup {NoRuntime}]
  /\ creation \in [Sessions -> Runtimes \cup {NoRuntime}]
  /\ locked \in [Sessions -> BOOLEAN]
  /\ denialGen \in [Sessions -> Nat]
  /\ actGen \in [Sessions -> Nat]
  /\ intent \in [Sessions -> Teardowns \cup {"none"}]
  /\ slot \in [Sessions -> {"free", "attempting", "retained"}]
  /\ slotOwner \in [Sessions -> Runtimes \cup {NoRuntime}]
  /\ slotKind \in [Sessions -> Teardowns \cup {"none"}]
  /\ todo \in [Sessions -> SUBSET Teardowns]
  /\ failed \in [Sessions -> SUBSET (Surfaces \cup Teardowns)]
  /\ phase \in [Runtimes -> Phases]
  /\ capDenial \in [Runtimes -> Nat]
  /\ capAct \in [Runtimes -> Nat]
  /\ aborted \in [Runtimes -> BOOLEAN]
  /\ denied \in [Runtimes -> BOOLEAN]
  /\ refresh \in [Runtimes -> BOOLEAN]
  /\ scheduled \in [Runtimes -> BOOLEAN]
  /\ work \in [Runtimes -> Nat]
  /\ busy \in [Runtimes -> BOOLEAN]
  /\ owned \in [Runtimes -> SUBSET Surfaces]

(* Two generations of one session id never hold surfaces at the same time: *)
(* a successor acquires nothing until every surface of its predecessor,    *)
(* published or partial, is confirmed closed.                              *)
SingleGeneration ==
  \A r, q \in Runtimes :
    r # q /\ SessionOf[r] = SessionOf[q] => owned[r] = {} \/ owned[q] = {}

(* A surface is never orphaned: whatever holds one is still registered as  *)
(* the live handle or the creation of its id, so that a stop reaches it.   *)
NoOrphanedSurface ==
  \A r \in Runtimes : owned[r] # {} =>
    live[SessionOf[r]] = r \/ creation[SessionOf[r]] = r

(* The maps and the phases agree.                                          *)
LiveIsPublished ==
  \A s \in Sessions : live[s] # NoRuntime =>
    phase[live[s]] = "published" /\ SessionOf[live[s]] = s
PublishedIsLive ==
  \A r \in Runtimes : phase[r] = "published" => live[SessionOf[r]] = r
CreationIsRegistered ==
  \A s \in Sessions : creation[s] # NoRuntime =>
    phase[creation[s]] \in InCreation /\ SessionOf[creation[s]] = s
RegisteredIsCreation ==
  \A r \in Runtimes : phase[r] \in InCreation => creation[SessionOf[r]] = r
LiveOrCreation ==
  \A s \in Sessions : live[s] = NoRuntime \/ creation[s] = NoRuntime
SurfacesHavePhase ==
  \A r \in Runtimes : owned[r] # {} =>
    phase[r] \in {"building", "failing", "unclosed", "published"}

(* A caller waits only on the attempt that destroys the live handle; when  *)
(* its continuation is queued the id has no handle.                        *)
RetiringAwaitsLive ==
  \A r \in Runtimes : phase[r] = "retiring" =>
    /\ slot[SessionOf[r]] = "attempting"
    /\ live[SessionOf[r]] # NoRuntime
    /\ slotOwner[SessionOf[r]] = live[SessionOf[r]]
ResumingFindsNone ==
  \A r \in Runtimes : phase[r] = "resuming" =>
    /\ live[SessionOf[r]] = NoRuntime
    /\ slot[SessionOf[r]] # "free" => slotOwner[SessionOf[r]] # NoRuntime

(* A reservation closes exactly the generation that the id is registered   *)
(* to, and a failed creation stays reserved.                               *)
ReservationOwnsGeneration ==
  \A s \in Sessions : slot[s] # "free" =>
    \/ slotOwner[s] = NoRuntime /\ live[s] = NoRuntime /\ creation[s] = NoRuntime
    \/ slotOwner[s] # NoRuntime /\ slotOwner[s] = live[s]
    \/ /\ slotOwner[s] # NoRuntime
       /\ slotOwner[s] = creation[s]
       /\ phase[creation[s]] \in {"failing", "unclosed"}

(* Whatever the order of creation, destruction, failure and resumption,    *)
(* maps, reservations and phases describe one generation per id.  This is  *)
(* the invariant that makes exclusive ownership inductive.                 *)
RegistryConsistent ==
  /\ LiveIsPublished /\ PublishedIsLive
  /\ CreationIsRegistered /\ RegisteredIsCreation /\ LiveOrCreation
  /\ SurfacesHavePhase
  /\ RetiringAwaitsLive /\ ResumingFindsNone
  /\ ReservationOwnsGeneration

(* The map never offers a stale authority: a handle that is not denied was *)
(* created under the current denial epoch, and one without a pending       *)
(* refresh under the current activation epoch too.                         *)
LiveAuthorityCurrent ==
  \A s \in Sessions : live[s] # NoRuntime /\ ~denied[live[s]] =>
    /\ capDenial[live[s]] = denialGen[s]
    /\ ~refresh[live[s]] => capAct[live[s]] = actGen[s]

(* Live runtimes and creations past the capacity check stay within         *)
(* MAX_SESSIONS, although many calls check and register concurrently.      *)
CapacityRespected ==
  Cardinality(Occupied)
    + Cardinality({s \in Pending : phase[creation[s]] = "building"}) <= MaxSessions

(* A cleanup in progress always covers the strongest latched teardown: no  *)
(* order of latch, destroy and creation failure weakens a revocation.      *)
TeardownCoversIntent ==
  \A s \in Sessions : slot[s] # "free" => Severity[slotKind[s]] >= Severity[intent[s]]

(* No lost wake-up: a live handle that could retire for a pending refresh  *)
(* has a retirement scheduled.                                             *)
RetirementArmed ==
  \A r \in Runtimes :
    IsLive(r) /\ slot[SessionOf[r]] = "free" /\ CanRetire(r) => scheduled[r]

(* New work is only ever accepted on the live handle of its id, under the  *)
(* current denial epoch and while no cleanup holds the id, although its    *)
(* caller may have kept the handle across a stop and a new creation.       *)
WorkOnCurrentHandle ==
  [][\A r \in Runtimes : work'[r] > work[r] =>
       /\ IsLive(r)
       /\ slot[SessionOf[r]] = "free"
       /\ capDenial[r] = denialGen[SessionOf[r]]]_vars

(* A creation is registered only when nothing of its id is left to close.  *)
CreationStartsClean ==
  [][\A s \in Sessions : creation'[s] # creation[s] /\ creation'[s] # NoRuntime =>
       /\ slot[s] = "free"
       /\ \A r \in Runtimes : SessionOf[r] = s => owned[r] = {}]_vars

(* session-runtime-mutation-lock.ts: "Process-local exclusion shared by    *)
(* runtime, transcript, title, and command writers": no runtime starts to  *)
(* be created for an id whose lock another writer holds.                   *)
CreationHonoursLock ==
  [][\A s \in Sessions : creation'[s] # creation[s] /\ creation'[s] # NoRuntime =>
       ~locked[s]]_vars

(* Every call of createPiSession that waits or builds comes to an end.     *)
CreationSettles ==
  \A r \in Runtimes :
    phase[r] \in {"retiring", "resuming", "starting", "building", "failing"}
      ~> phase[r] \in {"published", "closed", "stopped", "unclosed"}

(* No handle stays retirable for ever: its retirement happens unless work, *)
(* a lock or a reservation keeps coming back.                              *)
RefreshRetires ==
  \A r \in Runtimes :
    []<>~(IsLive(r) /\ slot[SessionOf[r]] = "free" /\ CanRetire(r))

(* Every cleanup attempt ends, confirmed or retained with its receipt.     *)
AttemptEnds ==
  \A s \in Sessions : slot[s] = "attempting" ~> slot[s] # "attempting"

(* The abstract ownership of an id's surfaces, and how this module refines *)
(* it: the holder is the generation with open surfaces; a generation is    *)
(* spent once it has left construction and closed everything it held.      *)
Holder(s) ==
  IF \E r \in Runtimes : SessionOf[r] = s /\ owned[r] # {}
    THEN CHOOSE r \in Runtimes : SessionOf[r] = s /\ owned[r] # {}
    ELSE NoRuntime
SpentPhases == {"failing", "unclosed", "published", "closed", "stopped"}
Spent == {r \in Runtimes : owned[r] = {} /\ phase[r] \in SpentPhases}

Ownership == INSTANCE RuntimeOwnership WITH
               holder <- [s \in Sessions |-> Holder(s)],
               spent <- Spent

(* The runtime lifecycle implements exclusive, one-way ownership: whatever *)
(* the order of creations, failures, stops and retries, a generation that  *)
(* gave its surfaces up never regains one, and only then another takes.    *)
ImplementsOwnership == Ownership!Spec
=============================================================================
