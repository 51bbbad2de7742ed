------------------------ MODULE SessionRuntimeProofs ------------------------
(***************************************************************************)
(* Proofs about SessionRuntime for every set of sessions, calls and        *)
(* surfaces and every value of the bounds.                                 *)
(***************************************************************************)
EXTENDS SessionRuntime, TLAPS, FiniteSetTheorems

(* What the severity order returns is one of the two actions compared.     *)
LEMMA StrongerType ==
  ASSUME NEW j \in Teardowns \cup {"none"}, NEW k \in Teardowns
  PROVE  Stronger(j, k) \in Teardowns
<1>1. CASE j = "none"
  <2>1. Severity[j] = 0 /\ Severity[k] \in {1, 2, 3}
    BY <1>1 DEF Severity, Teardowns
  <2> QED BY <2>1 DEF Stronger
<1>2. CASE j \in Teardowns
  BY <1>2 DEF Stronger
<1> QED BY <1>1, <1>2

(* Reserving, upgrading and denying keep the types of what they write.     *)
LEMMA ReserveType ==
  ASSUME TypeOK, NEW s \in Sessions, NEW o \in Runtimes \cup {NoRuntime},
         NEW k \in Teardowns, Reserve(s, o, k)
  PROVE  /\ slot' \in [Sessions -> {"free", "attempting", "retained"}]
         /\ slotOwner' \in [Sessions -> Runtimes \cup {NoRuntime}]
         /\ slotKind' \in [Sessions -> Teardowns \cup {"none"}]
         /\ todo' \in [Sessions -> SUBSET Teardowns]
         /\ failed' \in [Sessions -> SUBSET (Surfaces \cup Teardowns)]
BY DEF Reserve, TypeOK

LEMMA DestroyType ==
  ASSUME TypeOK, NEW s \in Sessions, NEW k \in Teardowns, DestroyOwned(s, k)
  PROVE  /\ slot' \in [Sessions -> {"free", "attempting", "retained"}]
         /\ slotOwner' \in [Sessions -> Runtimes \cup {NoRuntime}]
         /\ slotKind' \in [Sessions -> Teardowns \cup {"none"}]
         /\ todo' \in [Sessions -> SUBSET Teardowns]
         /\ failed' \in [Sessions -> SUBSET (Surfaces \cup Teardowns)]
         /\ denied' \in [Runtimes -> BOOLEAN]
<1>1. live[s] \in Runtimes \cup {NoRuntime} /\ intent[s] \in Teardowns \cup {"none"}
  BY DEF TypeOK
<1>2. Stronger(intent[s], k) \in Teardowns
  BY <1>1, StrongerType
<1>3. Reserve(s, live[s], Stronger(intent[s], k)) /\ DenyLive(s)
  BY DEF DestroyOwned
<1>4. denied' \in [Runtimes -> BOOLEAN]
  BY <1>3 DEF DenyLive, TypeOK
<1> QED BY <1>1, <1>2, <1>3, <1>4, ReserveType

LEMMA AppendType ==
  ASSUME TypeOK, NEW s \in Sessions, NEW k \in Teardowns,
         AppendPhase(s, k) \/ UNCHANGED <<slotKind, todo>>
  PROVE  /\ slotKind' \in [Sessions -> Teardowns \cup {"none"}]
         /\ todo' \in [Sessions -> SUBSET Teardowns]
<1>1. CASE UNCHANGED <<slotKind, todo>>
  BY <1>1 DEF TypeOK
<1>2. CASE AppendPhase(s, k)
  <2>1. slotKind[s] \in Teardowns \cup {"none"}
    BY DEF TypeOK
  <2>2. Stronger(slotKind[s], k) \in Teardowns
    BY <2>1, StrongerType
  <2> QED BY <1>2, <2>2 DEF AppendPhase, TypeOK
<1> QED BY <1>1, <1>2

LEMMA UpgradeType ==
  ASSUME TypeOK, NEW s \in Sessions, NEW k \in Teardowns,
         Upgrade(s, k) \/ UpgradeCaptured(s, k)
  PROVE  /\ slotKind' \in [Sessions -> Teardowns \cup {"none"}]
         /\ todo' \in [Sessions -> SUBSET Teardowns]
<1>1. AppendPhase(s, k) \/ UNCHANGED <<slotKind, todo>>
  BY DEF Upgrade, UpgradeCaptured
<1> QED BY <1>1, AppendType

LEMMA LatchType ==
  ASSUME TypeOK, NEW s \in Sessions, NEW k \in Teardowns, Latch(s, k)
  PROVE  /\ denialGen' \in [Sessions -> Nat]
         /\ intent' \in [Sessions -> Teardowns \cup {"none"}]
         /\ slotKind' \in [Sessions -> Teardowns \cup {"none"}]
         /\ todo' \in [Sessions -> SUBSET Teardowns]
         /\ denied' \in [Runtimes -> BOOLEAN]
<1>1. intent[s] \in Teardowns \cup {"none"}
  BY DEF TypeOK
<1>2. Stronger(intent[s], k) \in Teardowns
  BY <1>1, StrongerType
<1>3. /\ slotKind' \in [Sessions -> Teardowns \cup {"none"}]
      /\ todo' \in [Sessions -> SUBSET Teardowns]
  BY <1>2, UpgradeType DEF Latch
<1>4. denialGen' \in [Sessions -> Nat] /\ intent' \in [Sessions -> Teardowns \cup {"none"}]
  BY <1>2 DEF Latch, TypeOK
<1>5. denied' \in [Runtimes -> BOOLEAN]
  BY DEF Latch, DenyLive, TypeOK
<1> QED BY <1>3, <1>4, <1>5

(* Every step keeps the type invariant, one case per action.               *)
LEMMA TypeStep == TypeOK /\ [Next]_vars => TypeOK'
<1> SUFFICES ASSUME TypeOK, [Next]_vars PROVE TypeOK'
  OBVIOUS
<1> USE NoRuntimeAssumption, SessionOfAssumption, SurfacesAssumption, ActionsAssumption
        DEF vars, maps, epochs, reservation, witness, usage
<1>1. ASSUME NEW r \in Runtimes, CreateOverStale(r) PROVE TypeOK'
  <2>1. /\ SessionOf[r] \in Sessions
        /\ DestroyOwned(SessionOf[r], "detach")
        /\ capDenial' \in [Runtimes -> Nat] /\ capAct' \in [Runtimes -> Nat]
        /\ phase' \in [Runtimes -> Phases]
        /\ UNCHANGED <<maps, locked, epochs, aborted, refresh, scheduled, usage, owned>>
    BY <1>1 DEF CreateOverStale, Capture, TypeOK, Phases
  <2>2. "detach" \in Teardowns
    BY DEF Teardowns
  <2> QED BY <2>1, <2>2, DestroyType DEF TypeOK
<1>2. ASSUME NEW r \in Runtimes, CreateFresh(r) PROVE TypeOK'
  BY <1>2 DEF TypeOK, CreateFresh, Capture, Register, Phases
<1>3. ASSUME NEW r \in Runtimes, ResumeCreation(r) PROVE TypeOK'
  <2>1. /\ phase' \in [Runtimes -> Phases]
        /\ creation' \in [Sessions -> Runtimes \cup {NoRuntime}]
    <3>1. CASE Register(r)
      BY <3>1 DEF TypeOK, Register, Phases
    <3>2. CASE phase' = [phase EXCEPT ![r] = "stopped"] /\ UNCHANGED creation
      BY <3>2 DEF TypeOK, Phases
    <3> QED BY <1>3, <3>1, <3>2 DEF ResumeCreation
  <2>2. UNCHANGED <<live, locked, epochs, reservation, witness, aborted, denied,
                    refresh, scheduled, usage, owned>>
    BY <1>3 DEF ResumeCreation
  <2> QED BY <2>1, <2>2 DEF TypeOK
<1>4. ASSUME NEW r \in Runtimes, PassCapacity(r) PROVE TypeOK'
  BY <1>4 DEF TypeOK, PassCapacity, Phases
<1>5. ASSUME NEW r \in Runtimes, NEW x \in Surfaces, Acquire(r, x) PROVE TypeOK'
  BY <1>5 DEF TypeOK, Acquire
<1>6. ASSUME NEW r \in Runtimes, Publish(r) PROVE TypeOK'
  BY <1>6 DEF TypeOK, Publish, Phases
<1>7. ASSUME NEW r \in Runtimes, FailCreation(r) PROVE TypeOK'
  <2>1. /\ SessionOf[r] \in Sessions
        /\ phase' \in [Runtimes -> Phases]
        /\ UNCHANGED <<maps, locked, epochs, witness, aborted, denied, refresh,
                       scheduled, usage, owned>>
    BY <1>7 DEF FailCreation, TypeOK, Phases
  <2>2. PICK k \in {Stronger(intent[SessionOf[r]], "detach")} \cup ({"revoke"} \cap Actions) :
          Reserve(SessionOf[r], r, k)
    BY <1>7 DEF FailCreation
  <2>3. intent[SessionOf[r]] \in Teardowns \cup {"none"}
    BY <2>1 DEF TypeOK
  <2>4. "detach" \in Teardowns /\ "revoke" \in Teardowns
    BY DEF Teardowns
  <2>5. k \in Teardowns
    BY <2>2, <2>3, <2>4, StrongerType
  <2> QED BY <2>1, <2>2, <2>5, ReserveType DEF TypeOK
<1>8. ASSUME NEW r \in Runtimes, AbortCaller(r) PROVE TypeOK'
  <2>1. /\ SessionOf[r] \in Sessions
        /\ aborted' \in [Runtimes -> BOOLEAN]
        /\ UNCHANGED <<maps, locked, slot, slotOwner, failed, phase, witness, refresh,
                       scheduled, usage, owned>>
        /\ \/ Latch(SessionOf[r], "detach") /\ UNCHANGED actGen
           \/ UNCHANGED <<epochs, slotKind, todo, denied>>
    BY <1>8 DEF AbortCaller, TypeOK
  <2>2. "detach" \in Teardowns
    BY DEF Teardowns
  <2>3. CASE Latch(SessionOf[r], "detach") /\ UNCHANGED actGen
    BY <2>1, <2>2, <2>3, LatchType DEF TypeOK
  <2>4. CASE UNCHANGED <<epochs, slotKind, todo, denied>>
    BY <2>1, <2>4 DEF TypeOK
  <2> QED BY <2>1, <2>3, <2>4
<1>9. ASSUME NEW r \in Runtimes, NEW continuation \in BOOLEAN, BeginWork(r, continuation) PROVE TypeOK'
  BY <1>9 DEF TypeOK, BeginWork
<1>10. ASSUME NEW r \in Runtimes, ReleaseWork(r) PROVE TypeOK'
  BY <1>10 DEF TypeOK, ReleaseWork, Reschedule
<1>11. ASSUME NEW r \in Runtimes, StartPrompt(r) PROVE TypeOK'
  BY <1>11 DEF TypeOK, StartPrompt
<1>12. ASSUME NEW r \in Runtimes, SettlePrompt(r) PROVE TypeOK'
  BY <1>12 DEF TypeOK, SettlePrompt, Reschedule
<1>13. ASSUME NEW r \in Runtimes, Retire(r) PROVE TypeOK'
  <2>1. /\ SessionOf[r] \in Sessions
        /\ scheduled' \in [Runtimes -> BOOLEAN]
        /\ UNCHANGED <<maps, locked, epochs, phase, witness, aborted, refresh, usage,
                       owned>>
        /\ \/ DestroyOwned(SessionOf[r], "detach")
           \/ UNCHANGED <<reservation, denied>>
    BY <1>13 DEF Retire, TypeOK
  <2>2. "detach" \in Teardowns
    BY DEF Teardowns
  <2>3. CASE DestroyOwned(SessionOf[r], "detach")
    BY <2>1, <2>2, <2>3, DestroyType DEF TypeOK
  <2>4. CASE UNCHANGED <<reservation, denied>>
    BY <2>1, <2>4 DEF TypeOK
  <2> QED BY <2>1, <2>3, <2>4
<1>14. ASSUME NEW r \in Runtimes, NEW x \in Surfaces, EagerClose(r, x) PROVE TypeOK'
  BY <1>14 DEF TypeOK, EagerClose
<1>15. ASSUME NEW s \in Sessions, NEW x \in Surfaces \cup Teardowns, StepSucceeds(s, x) PROVE TypeOK'
  BY <1>15 DEF TypeOK, StepSucceeds
<1>16. ASSUME NEW s \in Sessions, NEW x \in Surfaces \cup Teardowns, StepFails(s, x) PROVE TypeOK'
  BY <1>16 DEF TypeOK, StepFails
<1>17. ASSUME NEW s \in Sessions, ConfirmCleanup(s) PROVE TypeOK'
  BY <1>17 DEF TypeOK, ConfirmCleanup, Phases
<1>18. ASSUME NEW s \in Sessions, RetainCleanup(s) PROVE TypeOK'
  BY <1>18 DEF TypeOK, RetainCleanup, Phases
<1>19. ASSUME NEW s \in Sessions, RetryCleanup(s) PROVE TypeOK'
  BY <1>19 DEF TypeOK, RetryCleanup
<1>20. ASSUME NEW s \in Sessions, NEW k \in Actions, LatchDenial(s, k) PROVE TypeOK'
  <2>1. k \in Teardowns
    OBVIOUS
  <2> QED BY <1>20, <2>1, LatchType DEF LatchDenial, TypeOK
<1>21. ASSUME NEW s \in Sessions, NEW k \in Actions, Destroy(s, k) PROVE TypeOK'
  <2>1. k \in Teardowns
    OBVIOUS
  <2> QED BY <1>21, <2>1, DestroyType DEF Destroy, TypeOK
<1>22. ASSUME NEW s \in Sessions, NEW k \in Actions, DestroyReserved(s, k) PROVE TypeOK'
  <2>1. k \in Teardowns
    OBVIOUS
  <2>2. Upgrade(s, k) /\ slotKind' \in [Sessions -> Teardowns \cup {"none"}]
                     /\ todo' \in [Sessions -> SUBSET Teardowns]
    BY <1>22, <2>1, UpgradeType DEF DestroyReserved
  <2> QED BY <1>22, <2>2 DEF DestroyReserved, TypeOK
<1>23. ASSUME NEW s \in Sessions, DestroyIdle(s) PROVE TypeOK'
  <2>1. "detach" \in Teardowns
    BY DEF Teardowns
  <2> QED BY <1>23, <2>1, DestroyType DEF DestroyIdle, TypeOK
<1>24. ASSUME NEW s \in Sessions, LatchActivation(s) PROVE TypeOK'
  BY <1>24 DEF TypeOK, LatchActivation
<1>25. ASSUME NEW s \in Sessions, AcquireLock(s) PROVE TypeOK'
  BY <1>25 DEF TypeOK, AcquireLock, LockChanged
<1>26. ASSUME NEW s \in Sessions, ReleaseLock(s) PROVE TypeOK'
  BY <1>26 DEF TypeOK, ReleaseLock, LockChanged
<1>27. CASE UNCHANGED vars
  BY <1>27 DEF TypeOK
<1> QED
  BY <1>1, <1>2, <1>3, <1>4, <1>5, <1>6, <1>7, <1>8, <1>9,
     <1>10, <1>11, <1>12, <1>13, <1>14, <1>15, <1>16, <1>17, <1>18,
     <1>19, <1>20, <1>21, <1>22, <1>23, <1>24, <1>25, <1>26, <1>27
  DEF Next, Creating, Using, Cleaning, Administering

(* Type correctness, for every instance.                                   *)
THEOREM TypeCorrect == Spec => []TypeOK
<1>1. Init => TypeOK
  BY DEF Init, TypeOK, Phases
<1> QED
  BY <1>1, TypeStep, PTL DEF Spec

----------------------------------------------------------------------------
(* The registry invariant.                                                 *)

(* A step that touches no map, phase, surface or slot keeps it.            *)
LEMMA RegistryFrame ==
  ASSUME RegistryConsistent, UNCHANGED <<live, creation, phase, owned, slot, slotOwner>>
  PROVE  RegistryConsistent'
BY DEF RegistryConsistent, LiveIsPublished, PublishedIsLive, CreationIsRegistered,
         RegisteredIsCreation, LiveOrCreation, SurfacesHavePhase, RetiringAwaitsLive,
         ResumingFindsNone, ReservationOwnsGeneration

(* Reserving an id for the destruction of its handle, or of nothing when   *)
(* it is not registered and no continuation is queued, keeps it.           *)
LEMMA RegistryDestroy ==
  ASSUME TypeOK, RegistryConsistent, NEW s \in Sessions, NEW k, DestroyOwned(s, k),
         UNCHANGED <<live, creation, phase, owned>>,
         \/ live[s] # NoRuntime
         \/ creation[s] = NoRuntime /\ MicrotasksDrained
  PROVE  RegistryConsistent'
<1>1. /\ slot[s] = "free"
      /\ slot' = [slot EXCEPT ![s] = "attempting"]
      /\ slotOwner' = [slotOwner EXCEPT ![s] = live[s]]
  BY DEF DestroyOwned, Reserve
<1> USE <1>1, SessionOfAssumption, NoRuntimeAssumption
        DEF TypeOK, RegistryConsistent
<1>2. LiveIsPublished' /\ PublishedIsLive' /\ CreationIsRegistered'
      /\ RegisteredIsCreation' /\ LiveOrCreation' /\ SurfacesHavePhase'
  BY DEF LiveIsPublished, PublishedIsLive, CreationIsRegistered,
         RegisteredIsCreation, LiveOrCreation, SurfacesHavePhase
<1>3. RetiringAwaitsLive'
  BY DEF RetiringAwaitsLive
<1>4. ResumingFindsNone'
  BY DEF ResumingFindsNone, MicrotasksDrained
<1>5. ReservationOwnsGeneration'
  BY DEF ReservationOwnsGeneration, LiveOrCreation
<1> QED
  BY <1>2, <1>3, <1>4, <1>5

(* Every step keeps it.                                                    *)
LEMMA RegistryStep == TypeOK /\ RegistryConsistent /\ [Next]_vars => RegistryConsistent'
<1> SUFFICES ASSUME TypeOK, RegistryConsistent, [Next]_vars PROVE RegistryConsistent'
  OBVIOUS
<1> USE NoRuntimeAssumption, SessionOfAssumption
        DEF vars, maps, epochs, reservation, witness, usage
<1>1. ASSUME NEW r \in Runtimes, CreateOverStale(r) PROVE RegistryConsistent'
  <2> DEFINE s == SessionOf[r]
  <2>1. /\ s \in Sessions /\ live[s] # NoRuntime /\ phase[r] = "idle"
        /\ slot[s] = "free"
        /\ slot' = [slot EXCEPT ![s] = "attempting"]
        /\ slotOwner' = [slotOwner EXCEPT ![s] = live[s]]
        /\ phase' = [phase EXCEPT ![r] = "retiring"]
        /\ UNCHANGED <<live, creation, owned>>
    BY <1>1 DEF CreateOverStale, MayCreate, DestroyOwned, Reserve
  <2>2. live[s] # r /\ \A q \in Sessions : live[q] # r /\ creation[q] # r
    BY <2>1 DEF TypeOK, RegistryConsistent, LiveIsPublished, CreationIsRegistered, InCreation
  <2> HIDE DEF s
  <2> USE DEF TypeOK, RegistryConsistent
  <2>3. LiveIsPublished' /\ PublishedIsLive' /\ CreationIsRegistered'
    BY <2>1, <2>2 DEF LiveIsPublished, PublishedIsLive, CreationIsRegistered
  <2>4. RegisteredIsCreation' /\ LiveOrCreation' /\ SurfacesHavePhase'
    BY <2>1, <2>2 DEF RegisteredIsCreation, LiveOrCreation, SurfacesHavePhase, InCreation
  <2>5. RetiringAwaitsLive'
    BY <2>1 DEF RetiringAwaitsLive, s
  <2>6. ResumingFindsNone'
    BY <2>1 DEF ResumingFindsNone
  <2>7. ReservationOwnsGeneration'
    BY <2>1, <2>2 DEF ReservationOwnsGeneration
  <2> QED BY <2>3, <2>4, <2>5, <2>6, <2>7
<1>2. ASSUME NEW r \in Runtimes, CreateFresh(r) PROVE RegistryConsistent'
  BY <1>2 DEF TypeOK, RegistryConsistent, InCreation, Phases, CreateFresh, MayCreate, Register,
         LiveIsPublished, PublishedIsLive, CreationIsRegistered,
         RegisteredIsCreation, LiveOrCreation, SurfacesHavePhase, RetiringAwaitsLive,
         ResumingFindsNone, ReservationOwnsGeneration
<1>3. ASSUME NEW r \in Runtimes, ResumeCreation(r) PROVE RegistryConsistent'
  <2> DEFINE s == SessionOf[r]
  <2>1. s \in Sessions /\ live[s] = NoRuntime
    BY <1>3 DEF ResumeCreation, RegistryConsistent, ResumingFindsNone
  <2>2. CASE phase' = [phase EXCEPT ![r] = "stopped"] /\ UNCHANGED creation
    BY <1>3, <2>2 DEF ResumeCreation, TypeOK, RegistryConsistent, InCreation, LiveIsPublished,
         PublishedIsLive, CreationIsRegistered, RegisteredIsCreation, LiveOrCreation,
         SurfacesHavePhase, RetiringAwaitsLive, ResumingFindsNone, ReservationOwnsGeneration
  <2>3. CASE creation[s] = NoRuntime /\ Register(r)
    <3>1. slot[s] = "free"
      BY <1>3, <2>1, <2>3 DEF ResumeCreation, RegistryConsistent, ResumingFindsNone,
         ReservationOwnsGeneration
    <3> QED
      BY <1>3, <2>1, <2>3, <3>1 DEF ResumeCreation, Register, TypeOK, RegistryConsistent,
         InCreation, LiveIsPublished,
         PublishedIsLive, CreationIsRegistered, RegisteredIsCreation, LiveOrCreation,
         SurfacesHavePhase, RetiringAwaitsLive, ResumingFindsNone, ReservationOwnsGeneration
  <2> QED BY <1>3, <2>2, <2>3 DEF ResumeCreation
<1>4. ASSUME NEW r \in Runtimes, PassCapacity(r) PROVE RegistryConsistent'
  BY <1>4 DEF TypeOK, RegistryConsistent, InCreation, Phases, PassCapacity,
         LiveIsPublished, PublishedIsLive, CreationIsRegistered,
         RegisteredIsCreation, LiveOrCreation, SurfacesHavePhase, RetiringAwaitsLive,
         ResumingFindsNone, ReservationOwnsGeneration
<1>5. ASSUME NEW r \in Runtimes, NEW x \in Surfaces, Acquire(r, x) PROVE RegistryConsistent'
  BY <1>5 DEF TypeOK, RegistryConsistent, InCreation, Phases, Acquire,
         LiveIsPublished, PublishedIsLive, CreationIsRegistered,
         RegisteredIsCreation, LiveOrCreation, SurfacesHavePhase, RetiringAwaitsLive,
         ResumingFindsNone, ReservationOwnsGeneration
<1>6. ASSUME NEW r \in Runtimes, Publish(r) PROVE RegistryConsistent'
  BY <1>6 DEF TypeOK, RegistryConsistent, InCreation, Phases, Publish, MicrotasksDrained,
         LiveIsPublished, PublishedIsLive, CreationIsRegistered,
         RegisteredIsCreation, LiveOrCreation, SurfacesHavePhase, RetiringAwaitsLive,
         ResumingFindsNone, ReservationOwnsGeneration
<1>7. ASSUME NEW r \in Runtimes, FailCreation(r) PROVE RegistryConsistent'
  BY <1>7 DEF TypeOK, RegistryConsistent, InCreation, Phases, FailCreation, Reserve,
         LiveIsPublished, PublishedIsLive, CreationIsRegistered,
         RegisteredIsCreation, LiveOrCreation, SurfacesHavePhase, RetiringAwaitsLive,
         ResumingFindsNone, ReservationOwnsGeneration
<1>8. ASSUME NEW r \in Runtimes, AbortCaller(r) PROVE RegistryConsistent'
  BY <1>8, RegistryFrame DEF AbortCaller
<1>9. ASSUME NEW r \in Runtimes, NEW continuation \in BOOLEAN, BeginWork(r, continuation) PROVE RegistryConsistent'
  BY <1>9, RegistryFrame DEF BeginWork
<1>10. ASSUME NEW r \in Runtimes, ReleaseWork(r) PROVE RegistryConsistent'
  BY <1>10, RegistryFrame DEF ReleaseWork
<1>11. ASSUME NEW r \in Runtimes, StartPrompt(r) PROVE RegistryConsistent'
  BY <1>11, RegistryFrame DEF StartPrompt
<1>12. ASSUME NEW r \in Runtimes, SettlePrompt(r) PROVE RegistryConsistent'
  BY <1>12, RegistryFrame DEF SettlePrompt
<1>13. ASSUME NEW r \in Runtimes, Retire(r) PROVE RegistryConsistent'
  <2>1. CASE DestroyOwned(SessionOf[r], "detach") /\ IsLive(r)
    BY <1>13, <2>1, RegistryDestroy DEF Retire, IsLive
  <2>2. CASE UNCHANGED <<reservation, denied>>
    BY <1>13, <2>2, RegistryFrame DEF Retire
  <2> QED BY <1>13, <2>1, <2>2 DEF Retire
<1>14. ASSUME NEW r \in Runtimes, NEW x \in Surfaces, EagerClose(r, x) PROVE RegistryConsistent'
  BY <1>14 DEF TypeOK, RegistryConsistent, InCreation, Phases, EagerClose,
         LiveIsPublished, PublishedIsLive, CreationIsRegistered,
         RegisteredIsCreation, LiveOrCreation, SurfacesHavePhase, RetiringAwaitsLive,
         ResumingFindsNone, ReservationOwnsGeneration
<1>15. ASSUME NEW s \in Sessions, NEW x \in Surfaces \cup Teardowns, StepSucceeds(s, x) PROVE RegistryConsistent'
  BY <1>15 DEF TypeOK, RegistryConsistent, InCreation, Phases, StepSucceeds,
         LiveIsPublished, PublishedIsLive, CreationIsRegistered,
         RegisteredIsCreation, LiveOrCreation, SurfacesHavePhase, RetiringAwaitsLive,
         ResumingFindsNone, ReservationOwnsGeneration
<1>16. ASSUME NEW s \in Sessions, NEW x \in Surfaces \cup Teardowns, StepFails(s, x) PROVE RegistryConsistent'
  BY <1>16, RegistryFrame DEF StepFails
<1>17. ASSUME NEW s \in Sessions, ConfirmCleanup(s) PROVE RegistryConsistent'
  <2> DEFINE o == slotOwner[s]
  <2>1. /\ slot[s] = "attempting" /\ Runnable(s) = {}
        /\ live' = [live EXCEPT ![s] = IF @ = o THEN NoRuntime ELSE @]
        /\ creation' = [creation EXCEPT ![s] = IF @ = o THEN NoRuntime ELSE @]
        /\ slot' = [slot EXCEPT ![s] = "free"]
        /\ slotOwner' = [slotOwner EXCEPT ![s] = NoRuntime]
        /\ phase' = [r \in Runtimes |->
             IF r = o THEN IF phase[r] = "published" THEN "closed" ELSE "stopped"
             ELSE IF SessionOf[r] = s /\ phase[r] = "retiring" THEN "resuming"
             ELSE phase[r]]
        /\ UNCHANGED owned
    BY <1>17 DEF ConfirmCleanup
  <2>2. o \in Runtimes => owned[o] = {}
    BY <2>1 DEF Runnable
  <2>3. /\ live'[s] = NoRuntime /\ creation'[s] = NoRuntime
        /\ \A q \in Sessions \ {s} : live'[q] = live[q] /\ creation'[q] = creation[q]
    BY <2>1 DEF TypeOK, RegistryConsistent, ReservationOwnsGeneration, LiveOrCreation
  <2>4. \A r \in Runtimes : phase[r] = "published" /\ SessionOf[r] = s => r = o
    BY <2>1 DEF TypeOK, RegistryConsistent, ReservationOwnsGeneration, PublishedIsLive,
         LiveOrCreation
  <2>5. \A r \in Runtimes : phase[r] \in InCreation /\ SessionOf[r] = s => r = o
    BY <2>1 DEF TypeOK, RegistryConsistent, ReservationOwnsGeneration, RegisteredIsCreation,
         LiveOrCreation
  <2>6. o \in Runtimes => SessionOf[o] = s
    BY <2>1 DEF TypeOK, RegistryConsistent, ReservationOwnsGeneration, LiveIsPublished,
         CreationIsRegistered
  <2>7. \A r \in Runtimes : SessionOf[r] # s => phase'[r] = phase[r]
    BY <2>1, <2>6
  <2> HIDE DEF o
  <2> USE DEF TypeOK, RegistryConsistent
  <2>8. LiveIsPublished' /\ CreationIsRegistered'
    <3>1. ASSUME NEW q \in Sessions, live'[q] # NoRuntime
          PROVE  phase'[live'[q]] = "published" /\ SessionOf[live'[q]] = q
      <4>1. q # s /\ live'[q] = live[q]
        BY <2>3, <3>1
      <4>2. live[q] \in Runtimes /\ phase[live[q]] = "published" /\ SessionOf[live[q]] = q
        BY <3>1, <4>1 DEF LiveIsPublished
      <4> QED BY <2>7, <4>1, <4>2
    <3>2. ASSUME NEW q \in Sessions, creation'[q] # NoRuntime
          PROVE  phase'[creation'[q]] \in InCreation /\ SessionOf[creation'[q]] = q
      <4>1. q # s /\ creation'[q] = creation[q]
        BY <2>3, <3>2
      <4>2. creation[q] \in Runtimes /\ phase[creation[q]] \in InCreation
            /\ SessionOf[creation[q]] = q
        BY <3>2, <4>1 DEF CreationIsRegistered
      <4> QED BY <2>7, <4>1, <4>2
    <3> QED BY <3>1, <3>2 DEF LiveIsPublished, CreationIsRegistered
  <2>9. PublishedIsLive' /\ RegisteredIsCreation'
    BY <2>1, <2>3, <2>4, <2>5, <2>7 DEF PublishedIsLive, RegisteredIsCreation, InCreation
  <2>10. LiveOrCreation' /\ SurfacesHavePhase'
    BY <2>1, <2>2, <2>3 DEF LiveOrCreation, SurfacesHavePhase
  <2>11. RetiringAwaitsLive' /\ ResumingFindsNone'
    BY <2>1, <2>3, <2>7 DEF RetiringAwaitsLive, ResumingFindsNone
  <2>12. ReservationOwnsGeneration'
    BY <2>1, <2>3, <2>7 DEF ReservationOwnsGeneration, CreationIsRegistered
  <2> QED BY <2>8, <2>9, <2>10, <2>11, <2>12
<1>18. ASSUME NEW s \in Sessions, RetainCleanup(s) PROVE RegistryConsistent'
  BY <1>18 DEF TypeOK, RegistryConsistent, InCreation, Phases, RetainCleanup,
         LiveIsPublished, PublishedIsLive, CreationIsRegistered,
         RegisteredIsCreation, LiveOrCreation, SurfacesHavePhase, RetiringAwaitsLive,
         ResumingFindsNone, ReservationOwnsGeneration
<1>19. ASSUME NEW s \in Sessions, RetryCleanup(s) PROVE RegistryConsistent'
  BY <1>19 DEF TypeOK, RegistryConsistent, InCreation, Phases, RetryCleanup,
         LiveIsPublished, PublishedIsLive, CreationIsRegistered,
         RegisteredIsCreation, LiveOrCreation, SurfacesHavePhase, RetiringAwaitsLive,
         ResumingFindsNone, ReservationOwnsGeneration
<1>20. ASSUME NEW s \in Sessions, NEW k \in Actions, LatchDenial(s, k) PROVE RegistryConsistent'
  BY <1>20, RegistryFrame DEF LatchDenial
<1>21. ASSUME NEW s \in Sessions, NEW k \in Actions, Destroy(s, k) PROVE RegistryConsistent'
  BY <1>21, RegistryDestroy DEF Destroy
<1>22. ASSUME NEW s \in Sessions, NEW k \in Actions, DestroyReserved(s, k) PROVE RegistryConsistent'
  BY <1>22 DEF TypeOK, RegistryConsistent, InCreation, Phases, DestroyReserved,
         LiveIsPublished, PublishedIsLive, CreationIsRegistered,
         RegisteredIsCreation, LiveOrCreation, SurfacesHavePhase, RetiringAwaitsLive,
         ResumingFindsNone, ReservationOwnsGeneration
<1>23. ASSUME NEW s \in Sessions, DestroyIdle(s) PROVE RegistryConsistent'
  BY <1>23, RegistryDestroy DEF DestroyIdle
<1>24. ASSUME NEW s \in Sessions, LatchActivation(s) PROVE RegistryConsistent'
  BY <1>24, RegistryFrame DEF LatchActivation
<1>25. ASSUME NEW s \in Sessions, AcquireLock(s) PROVE RegistryConsistent'
  BY <1>25, RegistryFrame DEF AcquireLock, LockChanged
<1>26. ASSUME NEW s \in Sessions, ReleaseLock(s) PROVE RegistryConsistent'
  BY <1>26, RegistryFrame DEF ReleaseLock, LockChanged
<1>27. CASE UNCHANGED vars
  BY <1>27, RegistryFrame
<1> QED
  BY <1>1, <1>2, <1>3, <1>4, <1>5, <1>6, <1>7, <1>8, <1>9,
     <1>10, <1>11, <1>12, <1>13, <1>14, <1>15, <1>16, <1>17, <1>18,
     <1>19, <1>20, <1>21, <1>22, <1>23, <1>24, <1>25, <1>26, <1>27
  DEF Next, Creating, Using, Cleaning, Administering

(* Maps, phases and reservations describe one generation per session id in *)
(* every reachable state (pi-bridge.ts, sessions, sessionCreations and     *)
(* unconfirmedSessionCleanups).                                            *)
THEOREM RegistryHolds == Spec => []RegistryConsistent
<1>1. Init => RegistryConsistent
  BY NoRuntimeAssumption
  DEF Init, RegistryConsistent, LiveIsPublished, PublishedIsLive, CreationIsRegistered,
      RegisteredIsCreation, LiveOrCreation, SurfacesHavePhase, RetiringAwaitsLive,
      ResumingFindsNone, ReservationOwnsGeneration, InCreation
<1> QED
  BY <1>1, TypeCorrect, RegistryStep, PTL DEF Spec

(* Two generations of an id never hold surfaces together, and whatever     *)
(* holds one can be reached through the maps.                              *)
LEMMA RegistryOwnership ==
  TypeOK /\ RegistryConsistent => SingleGeneration /\ NoOrphanedSurface
<1> SUFFICES ASSUME TypeOK, RegistryConsistent PROVE SingleGeneration /\ NoOrphanedSurface
  OBVIOUS
<1>1. NoOrphanedSurface
  BY DEF RegistryConsistent, NoOrphanedSurface, SurfacesHavePhase, PublishedIsLive,
         RegisteredIsCreation, InCreation
<1>2. SingleGeneration
  BY <1>1, SessionOfAssumption, NoRuntimeAssumption
  DEF RegistryConsistent, NoOrphanedSurface, SingleGeneration, LiveOrCreation
<1> QED BY <1>1, <1>2

(* createPiSession and destroyPiSession keep ownership exclusive.          *)
THEOREM OwnershipExclusive == Spec => []SingleGeneration
BY TypeCorrect, RegistryHolds, RegistryOwnership, PTL

(* No surface outlives its registration.                                   *)
THEOREM NoOrphans == Spec => []NoOrphanedSurface
BY TypeCorrect, RegistryHolds, RegistryOwnership, PTL

(* createPiSession registers a creation only for an id with no reservation *)
(* and nothing left to close.                                              *)
THEOREM StartsClean == Spec => CreationStartsClean
<1> DEFINE Clean(s) == creation'[s] # creation[s] /\ creation'[s] # NoRuntime =>
                         /\ slot[s] = "free"
                         /\ \A r \in Runtimes : SessionOf[r] = s => owned[r] = {}
<1>1. ASSUME TypeOK, RegistryConsistent, [Next]_vars, NEW s \in Sessions,
             creation'[s] # creation[s], creation'[s] # NoRuntime
      PROVE  live[s] = NoRuntime /\ creation[s] = NoRuntime /\ slot[s] = "free"
  <2> USE <1>1, SessionOfAssumption DEF TypeOK
  <2>1. ASSUME NEW r \in Runtimes, CreateFresh(r)
        PROVE  live[s] = NoRuntime /\ creation[s] = NoRuntime /\ slot[s] = "free"
    BY <2>1 DEF CreateFresh, MayCreate, Register
  <2>2. ASSUME NEW r \in Runtimes, ResumeCreation(r)
        PROVE  live[s] = NoRuntime /\ creation[s] = NoRuntime /\ slot[s] = "free"
    BY <2>2 DEF ResumeCreation, Register, RegistryConsistent, ResumingFindsNone,
                ReservationOwnsGeneration
  <2>3. ASSUME NEW r \in Runtimes, Publish(r)
        PROVE  FALSE
    BY <2>3 DEF Publish
  <2>4. ASSUME ConfirmCleanup(s) \/ \E q \in Sessions : ConfirmCleanup(q)
        PROVE  FALSE
    BY <2>4 DEF ConfirmCleanup
  <2>5. ASSUME UNCHANGED creation PROVE FALSE
    BY <2>5
  <2> QED
    BY <2>1, <2>2, <2>3, <2>4, <2>5
    DEF Next, Creating, Using, Cleaning, Administering, vars, maps, CreateOverStale,
        PassCapacity, Acquire, FailCreation, AbortCaller, BeginWork, ReleaseWork,
        StartPrompt, SettlePrompt, Retire, EagerClose, StepSucceeds, StepFails,
        RetainCleanup, RetryCleanup, LatchDenial, Destroy, DestroyReserved, DestroyIdle,
        LatchActivation, AcquireLock, ReleaseLock, LockChanged
<1>2. TypeOK /\ RegistryConsistent /\ [Next]_vars => \A s \in Sessions : Clean(s)
  <2> SUFFICES ASSUME TypeOK, RegistryConsistent, [Next]_vars, NEW s \in Sessions,
                      creation'[s] # creation[s], creation'[s] # NoRuntime
               PROVE  slot[s] = "free" /\ \A r \in Runtimes : SessionOf[r] = s => owned[r] = {}
    OBVIOUS
  <2>1. live[s] = NoRuntime /\ creation[s] = NoRuntime /\ slot[s] = "free"
    BY <1>1
  <2>2. NoOrphanedSurface
    BY RegistryOwnership
  <2> QED
    BY <2>1, <2>2, NoRuntimeAssumption DEF NoOrphanedSurface
<1>3. TypeOK /\ RegistryConsistent /\ [Next]_vars =>
        [\A s \in Sessions : creation'[s] # creation[s] /\ creation'[s] # NoRuntime =>
           /\ slot[s] = "free"
           /\ \A r \in Runtimes : SessionOf[r] = s => owned[r] = {}]_vars
  BY <1>2
<1> QED
  BY <1>3, TypeCorrect, RegistryHolds, PTL DEF Spec, CreationStartsClean

----------------------------------------------------------------------------
(* Authority.                                                              *)

(* A handle that is being destroyed, or was, is denied: with the epoch     *)
(* comparison at publication this keeps accepted work on current handles.  *)
ReservedIsDenied ==
  \A s \in Sessions :
    slot[s] # "free" /\ live[s] # NoRuntime => denied[live[s]]
ClosedIsDenied == \A r \in Runtimes : phase[r] = "closed" => denied[r]

AuthorityInv == LiveAuthorityCurrent /\ ReservedIsDenied /\ ClosedIsDenied

LEMMA AuthorityFrame ==
  ASSUME AuthorityInv,
         UNCHANGED <<live, slot, phase, denied, refresh, capDenial, capAct, denialGen, actGen>>
  PROVE  AuthorityInv'
BY DEF AuthorityInv, LiveAuthorityCurrent, ReservedIsDenied, ClosedIsDenied

(* What DenyLive and a latched activation do to each runtime's flags.      *)
LEMMA DenyLiveFacts ==
  ASSUME NEW s \in Sessions, DenyLive(s), NEW r \in Runtimes
  PROVE  denied'[r] <=> denied[r] \/ r = live[s]
BY Zenon DEF DenyLive

LEMMA ActivationFacts ==
  ASSUME NEW s \in Sessions, LatchActivation(s), NEW r \in Runtimes
  PROVE  refresh'[r] <=> refresh[r] \/ r = live[s]
BY Zenon DEF LatchActivation

(* Destroying the handle of an id denies it in the same step.              *)
LEMMA AuthorityDestroy ==
  ASSUME TypeOK, AuthorityInv, NEW s \in Sessions, NEW k, DestroyOwned(s, k),
         UNCHANGED <<live, phase, refresh, capDenial, capAct, denialGen, actGen>>
  PROVE  AuthorityInv'
<1>1. /\ slot' = [slot EXCEPT ![s] = "attempting"]
      /\ \A r \in Runtimes : denied'[r] <=> denied[r] \/ r = live[s]
  BY DenyLiveFacts DEF DestroyOwned, Reserve
<1> QED
  BY <1>1 DEF TypeOK, AuthorityInv, LiveAuthorityCurrent, ReservedIsDenied, ClosedIsDenied

(* So does advancing its denial epoch.                                     *)
LEMMA AuthorityLatch ==
  ASSUME TypeOK, AuthorityInv, NEW s \in Sessions, NEW k, Latch(s, k),
         UNCHANGED <<live, slot, phase, refresh, capDenial, capAct, actGen>>
  PROVE  AuthorityInv'
<1>1. /\ denialGen' = [denialGen EXCEPT ![s] = @ + 1]
      /\ \A r \in Runtimes : denied'[r] <=> denied[r] \/ r = live[s]
  BY DenyLiveFacts DEF Latch
<1> QED
  BY <1>1 DEF TypeOK, AuthorityInv, LiveAuthorityCurrent, ReservedIsDenied, ClosedIsDenied

(* Every step keeps the authority invariant.                               *)
LEMMA AuthorityStep ==
  TypeOK /\ RegistryConsistent /\ AuthorityInv /\ [Next]_vars => AuthorityInv'
<1> SUFFICES ASSUME TypeOK, RegistryConsistent, AuthorityInv, [Next]_vars PROVE AuthorityInv'
  OBVIOUS
<1> USE NoRuntimeAssumption, SessionOfAssumption
        DEF vars, maps, epochs, reservation, witness, usage
<1>1. ASSUME NEW r \in Runtimes, CreateOverStale(r) PROVE AuthorityInv'
  <2>1. \A s \in Sessions : live[s] # NoRuntime => live[s] # r
    BY <1>1 DEF CreateOverStale, MayCreate, RegistryConsistent, LiveIsPublished
  <2>2. /\ phase' = [phase EXCEPT ![r] = "retiring"]
        /\ slot' = [slot EXCEPT ![SessionOf[r]] = "attempting"]
        /\ \A q \in Runtimes : denied'[q] <=> denied[q] \/ q = live[SessionOf[r]]
        /\ \A q \in Runtimes \ {r} : capDenial'[q] = capDenial[q] /\ capAct'[q] = capAct[q]
        /\ UNCHANGED <<live, denialGen, actGen, refresh>>
    BY <1>1, DenyLiveFacts DEF CreateOverStale, Capture, DestroyOwned, Reserve, TypeOK
  <2> QED
    BY <2>1, <2>2 DEF TypeOK, AuthorityInv, LiveAuthorityCurrent, ReservedIsDenied,
       ClosedIsDenied
<1>2. ASSUME NEW r \in Runtimes, CreateFresh(r) PROVE AuthorityInv'
  <2>1. \A s \in Sessions : live[s] # NoRuntime => live[s] # r
    BY <1>2 DEF CreateFresh, MayCreate, RegistryConsistent, LiveIsPublished
  <2> QED
    BY <1>2, <2>1 DEF CreateFresh, Capture, Register, TypeOK,
       AuthorityInv, LiveAuthorityCurrent, ReservedIsDenied, ClosedIsDenied
<1>3. ASSUME NEW r \in Runtimes, ResumeCreation(r) PROVE AuthorityInv'
  BY <1>3 DEF TypeOK, ResumeCreation, Register,
         AuthorityInv, LiveAuthorityCurrent, ReservedIsDenied, ClosedIsDenied
<1>4. ASSUME NEW r \in Runtimes, PassCapacity(r) PROVE AuthorityInv'
  BY <1>4 DEF TypeOK, PassCapacity,
         AuthorityInv, LiveAuthorityCurrent, ReservedIsDenied, ClosedIsDenied
<1>5. ASSUME NEW r \in Runtimes, NEW x \in Surfaces, Acquire(r, x) PROVE AuthorityInv'
  BY <1>5, AuthorityFrame DEF Acquire
<1>6. ASSUME NEW r \in Runtimes, Publish(r) PROVE AuthorityInv'
  <2>1. slot[SessionOf[r]] = "free"
    BY <1>6 DEF Publish, RegistryConsistent, RegisteredIsCreation, InCreation, LiveOrCreation,
             ReservationOwnsGeneration
  <2> QED
    BY <1>6, <2>1 DEF Publish, CreationCurrent, TypeOK,
       AuthorityInv, LiveAuthorityCurrent, ReservedIsDenied, ClosedIsDenied
<1>7. ASSUME NEW r \in Runtimes, FailCreation(r) PROVE AuthorityInv'
  <2>1. live[SessionOf[r]] = NoRuntime
    BY <1>7 DEF FailCreation, RegistryConsistent, RegisteredIsCreation, InCreation, LiveOrCreation
  <2> QED
    BY <1>7, <2>1 DEF FailCreation, Reserve, TypeOK,
       AuthorityInv, LiveAuthorityCurrent, ReservedIsDenied, ClosedIsDenied
<1>8. ASSUME NEW r \in Runtimes, AbortCaller(r) PROVE AuthorityInv'
  <2>1. CASE Latch(SessionOf[r], "detach") /\ UNCHANGED actGen
    BY <1>8, <2>1, AuthorityLatch DEF AbortCaller
  <2>2. CASE UNCHANGED <<epochs, slotKind, todo, denied>>
    BY <1>8, <2>2, AuthorityFrame DEF AbortCaller
  <2> QED BY <1>8, <2>1, <2>2 DEF AbortCaller
<1>9. ASSUME NEW r \in Runtimes, NEW continuation \in BOOLEAN, BeginWork(r, continuation) PROVE AuthorityInv'
  BY <1>9, AuthorityFrame DEF BeginWork
<1>10. ASSUME NEW r \in Runtimes, ReleaseWork(r) PROVE AuthorityInv'
  BY <1>10, AuthorityFrame DEF ReleaseWork
<1>11. ASSUME NEW r \in Runtimes, StartPrompt(r) PROVE AuthorityInv'
  BY <1>11, AuthorityFrame DEF StartPrompt
<1>12. ASSUME NEW r \in Runtimes, SettlePrompt(r) PROVE AuthorityInv'
  BY <1>12, AuthorityFrame DEF SettlePrompt
<1>13. ASSUME NEW r \in Runtimes, Retire(r) PROVE AuthorityInv'
  <2>1. CASE DestroyOwned(SessionOf[r], "detach")
    BY <1>13, <2>1, AuthorityDestroy DEF Retire
  <2>2. CASE UNCHANGED <<reservation, denied>>
    BY <1>13, <2>2, AuthorityFrame DEF Retire
  <2> QED BY <1>13, <2>1, <2>2 DEF Retire
<1>14. ASSUME NEW r \in Runtimes, NEW x \in Surfaces, EagerClose(r, x) PROVE AuthorityInv'
  BY <1>14, AuthorityFrame DEF EagerClose
<1>15. ASSUME NEW s \in Sessions, NEW x \in Surfaces \cup Teardowns, StepSucceeds(s, x) PROVE AuthorityInv'
  BY <1>15, AuthorityFrame DEF StepSucceeds
<1>16. ASSUME NEW s \in Sessions, NEW x \in Surfaces \cup Teardowns, StepFails(s, x) PROVE AuthorityInv'
  BY <1>16, AuthorityFrame DEF StepFails
<1>17. ASSUME NEW s \in Sessions, ConfirmCleanup(s) PROVE AuthorityInv'
  <2>1. \A r \in Runtimes :
          phase[r] = "published" /\ r = slotOwner[s] => r = live[s]
    BY <1>17 DEF ConfirmCleanup, RegistryConsistent, ReservationOwnsGeneration,
             CreationIsRegistered, InCreation
  <2>2. \A r \in Runtimes :
          phase[r] = "published" /\ r = slotOwner[s] => denied[r]
    BY <1>17, <2>1 DEF ConfirmCleanup, AuthorityInv, ReservedIsDenied
  <2>3. /\ live'[s] = NoRuntime
        /\ \A q \in Sessions \ {s} : live'[q] = live[q] /\ slot'[q] = slot[q]
    BY <1>17 DEF ConfirmCleanup, TypeOK, RegistryConsistent, ReservationOwnsGeneration,
             LiveOrCreation
  <2>4. ClosedIsDenied'
    BY <1>17, <2>2 DEF ConfirmCleanup, TypeOK, AuthorityInv, ClosedIsDenied
  <2>5. LiveAuthorityCurrent' /\ ReservedIsDenied'
    BY <1>17, <2>3 DEF ConfirmCleanup, AuthorityInv, LiveAuthorityCurrent, ReservedIsDenied
  <2> QED BY <2>4, <2>5 DEF AuthorityInv
<1>18. ASSUME NEW s \in Sessions, RetainCleanup(s) PROVE AuthorityInv'
  BY <1>18 DEF TypeOK, RetainCleanup,
         AuthorityInv, LiveAuthorityCurrent, ReservedIsDenied, ClosedIsDenied
<1>19. ASSUME NEW s \in Sessions, RetryCleanup(s) PROVE AuthorityInv'
  BY <1>19 DEF TypeOK, RetryCleanup,
         AuthorityInv, LiveAuthorityCurrent, ReservedIsDenied, ClosedIsDenied
<1>20. ASSUME NEW s \in Sessions, NEW k \in Actions, LatchDenial(s, k) PROVE AuthorityInv'
  BY <1>20, AuthorityLatch DEF LatchDenial
<1>21. ASSUME NEW s \in Sessions, NEW k \in Actions, Destroy(s, k) PROVE AuthorityInv'
  BY <1>21, AuthorityDestroy DEF Destroy
<1>22. ASSUME NEW s \in Sessions, NEW k \in Actions, DestroyReserved(s, k) PROVE AuthorityInv'
  BY <1>22 DEF TypeOK, DestroyReserved,
         AuthorityInv, LiveAuthorityCurrent, ReservedIsDenied, ClosedIsDenied
<1>23. ASSUME NEW s \in Sessions, DestroyIdle(s) PROVE AuthorityInv'
  BY <1>23, AuthorityDestroy DEF DestroyIdle
<1>24. ASSUME NEW s \in Sessions, LatchActivation(s) PROVE AuthorityInv'
  <2>1. /\ \A q \in Runtimes : refresh'[q] <=> refresh[q] \/ q = live[s]
        /\ \A q \in Sessions \ {s} : actGen'[q] = actGen[q]
        /\ UNCHANGED <<live, denialGen, phase, slot, denied, capDenial, capAct>>
    BY <1>24, ActivationFacts DEF LatchActivation, TypeOK
  <2> QED
    BY <2>1 DEF TypeOK, AuthorityInv, LiveAuthorityCurrent, ReservedIsDenied, ClosedIsDenied
<1>25. ASSUME NEW s \in Sessions, AcquireLock(s) PROVE AuthorityInv'
  BY <1>25, AuthorityFrame DEF AcquireLock, LockChanged
<1>26. ASSUME NEW s \in Sessions, ReleaseLock(s) PROVE AuthorityInv'
  BY <1>26, AuthorityFrame DEF ReleaseLock, LockChanged
<1>27. CASE UNCHANGED vars
  BY <1>27, AuthorityFrame
<1> QED
  BY <1>1, <1>2, <1>3, <1>4, <1>5, <1>6, <1>7, <1>8, <1>9,
     <1>10, <1>11, <1>12, <1>13, <1>14, <1>15, <1>16, <1>17, <1>18,
     <1>19, <1>20, <1>21, <1>22, <1>23, <1>24, <1>25, <1>26, <1>27
  DEF Next, Creating, Using, Cleaning, Administering

LEMMA AuthorityHolds == Spec => []AuthorityInv
<1>1. Init => AuthorityInv
  BY DEF Init, AuthorityInv, LiveAuthorityCurrent, ReservedIsDenied, ClosedIsDenied
<1> QED
  BY <1>1, TypeCorrect, RegistryHolds, AuthorityStep, PTL DEF Spec

(* latchPiSessionCapabilityDenial and -Activation against publication: the *)
(* map never offers an undenied handle of an older epoch.                  *)
THEOREM AuthorityCurrent == Spec => []LiveAuthorityCurrent
<1>1. AuthorityInv => LiveAuthorityCurrent
  BY DEF AuthorityInv
<1> QED BY <1>1, AuthorityHolds, PTL

(* beginPiSessionTopLevelWork accepts work on the live, unreserved handle  *)
(* of the current denial epoch only, although it tests two flags.          *)
THEOREM WorkCurrent == Spec => WorkOnCurrentHandle
<1> DEFINE Accepted(r) == /\ IsLive(r)
                          /\ slot[SessionOf[r]] = "free"
                          /\ capDenial[r] = denialGen[SessionOf[r]]
<1>1. ASSUME TypeOK, RegistryConsistent, AuthorityInv, [Next]_vars,
             NEW r \in Runtimes, work'[r] > work[r]
      PROVE  \E continuation \in BOOLEAN : BeginWork(r, continuation)
  <2> USE <1>1 DEF TypeOK
  <2>1. work'[r] # work[r]
    OBVIOUS
  <2>2. ASSUME NEW q \in Runtimes, ReleaseWork(q) PROVE FALSE
    BY <2>2 DEF ReleaseWork
  <2>3. ASSUME NEW q \in Runtimes, NEW continuation \in BOOLEAN, BeginWork(q, continuation)
        PROVE  q = r
    BY <2>1, <2>3 DEF BeginWork
  <2>4. ASSUME UNCHANGED work PROVE FALSE
    BY <2>1, <2>4
  <2> QED
    BY <2>2, <2>3, <2>4
    DEF Next, Creating, Using, Cleaning, Administering, vars, usage, CreateOverStale,
        CreateFresh, ResumeCreation, PassCapacity, Acquire, Publish, FailCreation,
        AbortCaller, StartPrompt, SettlePrompt, Retire, EagerClose, StepSucceeds,
        StepFails, ConfirmCleanup, RetainCleanup, RetryCleanup, LatchDenial, Destroy,
        DestroyReserved, DestroyIdle, LatchActivation, AcquireLock, ReleaseLock,
        LockChanged
<1>2. ASSUME TypeOK, RegistryConsistent, AuthorityInv, NEW r \in Runtimes,
             NEW continuation \in BOOLEAN, BeginWork(r, continuation)
      PROVE  Accepted(r)
  <2>1. phase[r] = "published" /\ ~denied[r]
    BY <1>2 DEF BeginWork, AuthorityInv, ClosedIsDenied
  <2>2. live[SessionOf[r]] = r
    BY <1>2, <2>1 DEF RegistryConsistent, PublishedIsLive
  <2> QED
    BY <1>2, <2>1, <2>2, SessionOfAssumption, NoRuntimeAssumption
    DEF AuthorityInv, LiveAuthorityCurrent, ReservedIsDenied, IsLive
<1>3. TypeOK /\ RegistryConsistent /\ AuthorityInv /\ [Next]_vars =>
        [\A r \in Runtimes : work'[r] > work[r] =>
           /\ IsLive(r)
           /\ slot[SessionOf[r]] = "free"
           /\ capDenial[r] = denialGen[SessionOf[r]]]_vars
  BY <1>1, <1>2
<1> QED
  BY <1>3, TypeCorrect, RegistryHolds, AuthorityHolds, PTL DEF Spec, WorkOnCurrentHandle

----------------------------------------------------------------------------
(* Refinement of RuntimeOwnership.                                         *)

(* The holder of an id is its one generation with open surfaces.           *)
HolderOK ==
  \A s \in Sessions :
    /\ \A r \in Runtimes : SessionOf[r] = s /\ owned[r] # {} => Holder(s) = r
    /\ (\A r \in Runtimes : SessionOf[r] = s => owned[r] = {}) => Holder(s) = NoRuntime

LEMMA HolderFacts == TypeOK /\ RegistryConsistent => HolderOK
<1> SUFFICES ASSUME TypeOK, RegistryConsistent, NEW s \in Sessions
             PROVE  /\ \A r \in Runtimes : SessionOf[r] = s /\ owned[r] # {} => Holder(s) = r
                    /\ (\A r \in Runtimes : SessionOf[r] = s => owned[r] = {})
                         => Holder(s) = NoRuntime
  BY DEF HolderOK
<1>1. SingleGeneration
  BY RegistryOwnership
<1>2. ASSUME NEW r \in Runtimes, SessionOf[r] = s, owned[r] # {} PROVE Holder(s) = r
  <2> DEFINE c == CHOOSE q \in Runtimes : SessionOf[q] = s /\ owned[q] # {}
  <2>1. c \in Runtimes /\ SessionOf[c] = s /\ owned[c] # {}
    BY <1>2
  <2>2. c = r
    BY <1>1, <1>2, <2>1 DEF SingleGeneration
  <2> QED
    BY <1>2, <2>2 DEF Holder
<1>3. (\A r \in Runtimes : SessionOf[r] = s => owned[r] = {}) => Holder(s) = NoRuntime
  BY DEF Holder
<1> QED
  BY <1>2, <1>3

(* A step that changes neither surfaces nor the spent set is a stutter.    *)
LEMMA OwnershipStutter ==
  ASSUME UNCHANGED owned, Spent' = Spent
  PROVE  [Ownership!Next]_(Ownership!vars)
<1>1. \A s \in Sessions : Holder(s)' = Holder(s)
  BY DEF Holder
<1> QED
  BY <1>1 DEF Ownership!vars

(* A step that only ends generations which hold nothing is an Abandon.     *)
LEMMA OwnershipAbandon ==
  ASSUME HolderOK, UNCHANGED owned, NEW R \in SUBSET Runtimes,
         \A r \in R : owned[r] = {}, Spent' = Spent \cup R
  PROVE  [Ownership!Next]_(Ownership!vars)
<1>1. \A s \in Sessions : Holder(s)' = Holder(s)
  BY DEF Holder
<1>2. \A r \in R : Holder(SessionOf[r]) # r
  <2> SUFFICES ASSUME NEW r \in R PROVE Holder(SessionOf[r]) # r
    OBVIOUS
  <2>1. r \in Runtimes /\ owned[r] = {} /\ SessionOf[r] \in Sessions
    BY SessionOfAssumption
  <2>2. CASE \E q \in Runtimes : SessionOf[q] = SessionOf[r] /\ owned[q] # {}
    BY <2>1, <2>2 DEF HolderOK
  <2>3. CASE \A q \in Runtimes : SessionOf[q] = SessionOf[r] => owned[q] = {}
    BY <2>1, <2>3, NoRuntimeAssumption DEF HolderOK
  <2> QED BY <2>2, <2>3
<1>3. Ownership!Abandon(R)
  BY <1>1, <1>2, SessionOfAssumption DEF Ownership!Abandon
<1> QED
  BY <1>3 DEF Ownership!Next

LEMMA OwnershipAbandonOne ==
  ASSUME HolderOK, UNCHANGED owned, NEW r \in Runtimes, owned[r] = {},
         Spent' = Spent \cup {r}
  PROVE  [Ownership!Next]_(Ownership!vars)
<1> DEFINE R == {r}
<1>1. R \in SUBSET Runtimes /\ (\A q \in R : owned[q] = {}) /\ Spent' = Spent \cup R
  OBVIOUS
<1> HIDE DEF R
<1> QED
  BY <1>1, OwnershipAbandon

(* The last surface of a generation that left construction is a GiveUp.    *)
LEMMA OwnershipClose ==
  ASSUME TypeOK, HolderOK, HolderOK', UNCHANGED phase, NEW o \in Runtimes, NEW x,
         phase[o] \in SpentPhases,
         owned' = [owned EXCEPT ![o] = @ \ {x}]
  PROVE  [Ownership!Next]_(Ownership!vars)
<1> DEFINE t == SessionOf[o]
<1>0. t \in Sessions
  BY SessionOfAssumption
<1>1. CASE owned'[o] # {} \/ owned[o] = {}
  <2>1. \A r \in Runtimes : owned'[r] = {} <=> owned[r] = {}
    BY <1>1 DEF TypeOK
  <2>2. \A s \in Sessions : Holder(s)' = Holder(s)
    BY <2>1 DEF HolderOK
  <2>3. Spent' = Spent
    BY <2>1 DEF Spent
  <2> QED
    BY <2>2, <2>3 DEF Ownership!vars
<1>2. CASE owned'[o] = {} /\ owned[o] # {}
  <2>1. \A r \in Runtimes \ {o} : owned'[r] = owned[r]
    BY DEF TypeOK
  <2>2. Holder(t) = o
    BY <1>0, <1>2 DEF HolderOK
  <2>3. \A r \in Runtimes : SessionOf[r] = t => owned'[r] = {}
    BY <1>0, <1>2, <2>1, <2>2 DEF HolderOK
  <2>4. Holder(t)' = NoRuntime
    BY <1>0, <2>3 DEF HolderOK
  <2>5. \A s \in Sessions \ {t} : Holder(s)' = Holder(s)
    BY <2>1 DEF HolderOK
  <2>6. Spent' = Spent \cup {o}
    BY <1>2, <2>1 DEF Spent
  <2>7. [s \in Sessions |-> Holder(s)]' = [[s \in Sessions |-> Holder(s)] EXCEPT ![t] = NoRuntime]
    BY <1>0, <2>4, <2>5
  <2>8. Ownership!GiveUp(o)
    BY <1>0, <2>2, <2>6, <2>7 DEF Ownership!GiveUp
  <2> QED
    BY <2>8 DEF Ownership!Next
<1> QED
  BY <1>1, <1>2

(* A surface handed to a generation under construction is a Take, or a     *)
(* stutter when it already holds one.                                      *)
LEMMA OwnershipAcquire ==
  ASSUME TypeOK, HolderOK, HolderOK', NEW r \in Runtimes, NEW x \in Surfaces, Acquire(r, x)
  PROVE  [Ownership!Next]_(Ownership!vars)
<1> DEFINE t == SessionOf[r]
<1>0. /\ t \in Sessions
      /\ phase[r] = "building" /\ UNCHANGED phase
      /\ owned'[r] # {}
      /\ \A q \in Runtimes \ {r} : owned'[q] = owned[q]
  BY SessionOfAssumption DEF Acquire, TypeOK
<1>1. Spent' = Spent
  BY <1>0 DEF Spent, SpentPhases
<1>2. Holder(t)' = r
  BY <1>0 DEF HolderOK
<1>3. \A s \in Sessions \ {t} : Holder(s)' = Holder(s)
  BY <1>0 DEF HolderOK
<1>4. CASE owned[r] # {}
  <2>1. Holder(t) = r
    BY <1>0, <1>4 DEF HolderOK
  <2> QED
    BY <1>1, <1>2, <1>3, <2>1 DEF Ownership!vars
<1>5. CASE owned[r] = {}
  <2>1. Holder(t) = NoRuntime
    BY <1>0, <1>2, <1>5 DEF HolderOK
  <2>2. [s \in Sessions |-> Holder(s)]' = [[s \in Sessions |-> Holder(s)] EXCEPT ![t] = r]
    BY <1>0, <1>2, <1>3
  <2>3. r \notin Spent
    BY <1>0 DEF Spent, SpentPhases
  <2>4. Ownership!Take(r)
    BY <1>0, <1>1, <2>1, <2>2, <2>3 DEF Ownership!Take
  <2> QED
    BY <2>4 DEF Ownership!Next
<1> QED
  BY <1>4, <1>5

LEMMA OwnershipStep ==
  ASSUME TypeOK, RegistryConsistent, HolderOK, HolderOK', [Next]_vars
  PROVE  [Ownership!Next]_(Ownership!vars)
<1> USE NoRuntimeAssumption, SessionOfAssumption
        DEF vars, maps, epochs, reservation, witness, usage
<1>0. UNCHANGED <<owned, phase>> => Spent' = Spent
  BY DEF Spent
<1>1. ASSUME NEW r \in Runtimes, CreateOverStale(r)
      PROVE  [Ownership!Next]_(Ownership!vars)
  <2>1. Spent' = Spent
    BY <1>1 DEF TypeOK, Spent, SpentPhases, CreateOverStale, MayCreate
  <2> QED BY <1>1, <2>1, OwnershipStutter DEF CreateOverStale
<1>2. ASSUME NEW r \in Runtimes, CreateFresh(r)
      PROVE  [Ownership!Next]_(Ownership!vars)
  <2>1. Spent' = Spent
    BY <1>2 DEF TypeOK, Spent, SpentPhases, CreateFresh, MayCreate, Register
  <2> QED BY <1>2, <2>1, OwnershipStutter DEF CreateFresh
<1>3. ASSUME NEW r \in Runtimes, ResumeCreation(r)
      PROVE  [Ownership!Next]_(Ownership!vars)
  <2>1. owned[r] = {}
    BY <1>3 DEF ResumeCreation, RegistryConsistent, SurfacesHavePhase
  <2>2. CASE Register(r)
    <3>1. Spent' = Spent
      BY <1>3, <2>2 DEF ResumeCreation, Register, TypeOK, Spent, SpentPhases
    <3> QED BY <1>3, <3>1, OwnershipStutter DEF ResumeCreation
  <2>3. CASE phase' = [phase EXCEPT ![r] = "stopped"]
    <3>1. Spent' = Spent \cup {r}
      BY <1>3, <2>1, <2>3 DEF ResumeCreation, TypeOK, Spent, SpentPhases
    <3>2. UNCHANGED owned
      BY <1>3 DEF ResumeCreation
    <3> QED BY <2>1, <3>1, <3>2, OwnershipAbandonOne
  <2> QED BY <1>3, <2>2, <2>3 DEF ResumeCreation
<1>4. ASSUME NEW r \in Runtimes, PassCapacity(r)
      PROVE  [Ownership!Next]_(Ownership!vars)
  <2>1. Spent' = Spent
    BY <1>4 DEF TypeOK, Spent, SpentPhases, PassCapacity
  <2> QED BY <1>4, <2>1, OwnershipStutter DEF PassCapacity
<1>5. ASSUME NEW r \in Runtimes, NEW x \in Surfaces, Acquire(r, x)
      PROVE  [Ownership!Next]_(Ownership!vars)
  BY <1>5, OwnershipAcquire
<1>6. ASSUME NEW r \in Runtimes, Publish(r)
      PROVE  [Ownership!Next]_(Ownership!vars)
  <2>1. Spent' = Spent
    BY <1>6, SurfacesAssumption DEF TypeOK, Spent, SpentPhases, Publish, MicrotasksDrained
  <2> QED BY <1>6, <2>1, OwnershipStutter DEF Publish
<1>7. ASSUME NEW r \in Runtimes, FailCreation(r)
      PROVE  [Ownership!Next]_(Ownership!vars)
  <2>1. UNCHANGED owned /\ phase' = [phase EXCEPT ![r] = "failing"]
        /\ phase[r] \in {"starting", "building"}
    BY <1>7 DEF FailCreation
  <2>2. CASE owned[r] = {}
    <3>1. Spent' = Spent \cup {r}
      BY <2>1, <2>2 DEF TypeOK, Spent, SpentPhases
    <3> QED BY <2>1, <2>2, <3>1, OwnershipAbandonOne
  <2>3. CASE owned[r] # {}
    <3>1. Spent' = Spent
      BY <2>1, <2>3 DEF TypeOK, Spent, SpentPhases
    <3> QED BY <2>1, <3>1, OwnershipStutter
  <2> QED BY <2>2, <2>3
<1>8. ASSUME NEW r \in Runtimes, AbortCaller(r)
      PROVE  [Ownership!Next]_(Ownership!vars)
  BY <1>8, <1>0, OwnershipStutter DEF AbortCaller
<1>9. ASSUME NEW r \in Runtimes, NEW continuation \in BOOLEAN, BeginWork(r, continuation)
      PROVE  [Ownership!Next]_(Ownership!vars)
  BY <1>9, <1>0, OwnershipStutter DEF BeginWork
<1>10. ASSUME NEW r \in Runtimes, ReleaseWork(r)
      PROVE  [Ownership!Next]_(Ownership!vars)
  BY <1>10, <1>0, OwnershipStutter DEF ReleaseWork
<1>11. ASSUME NEW r \in Runtimes, StartPrompt(r)
      PROVE  [Ownership!Next]_(Ownership!vars)
  BY <1>11, <1>0, OwnershipStutter DEF StartPrompt
<1>12. ASSUME NEW r \in Runtimes, SettlePrompt(r)
      PROVE  [Ownership!Next]_(Ownership!vars)
  BY <1>12, <1>0, OwnershipStutter DEF SettlePrompt
<1>13. ASSUME NEW r \in Runtimes, Retire(r)
      PROVE  [Ownership!Next]_(Ownership!vars)
  BY <1>13, <1>0, OwnershipStutter DEF Retire
<1>14. ASSUME NEW r \in Runtimes, NEW x \in Surfaces, EagerClose(r, x)
      PROVE  [Ownership!Next]_(Ownership!vars)
  <2>1. phase[r] = "published"
    BY <1>14 DEF EagerClose, IsLive, RegistryConsistent, LiveIsPublished
  <2>2. phase[r] \in SpentPhases /\ UNCHANGED phase
    BY <1>14, <2>1 DEF EagerClose, SpentPhases
  <2>3. owned' = [owned EXCEPT ![r] = @ \ {x}]
    BY <1>14 DEF EagerClose
  <2> QED BY <2>2, <2>3, OwnershipClose
<1>15. ASSUME NEW s \in Sessions, NEW x \in Surfaces \cup Teardowns, StepSucceeds(s, x)
      PROVE  [Ownership!Next]_(Ownership!vars)
  <2> DEFINE o == slotOwner[s]
  <2>1. CASE o = NoRuntime
    <3>1. owned' = owned
      BY <1>15, <2>1 DEF StepSucceeds, TypeOK
    <3> QED BY <1>15, <1>0, <3>1, OwnershipStutter DEF StepSucceeds
  <2>2. CASE o # NoRuntime
    <3>1. o \in Runtimes /\ phase[o] \in SpentPhases
      BY <1>15, <2>2 DEF StepSucceeds, TypeOK, RegistryConsistent, ReservationOwnsGeneration,
                    LiveIsPublished, SpentPhases
    <3>2. owned' = [owned EXCEPT ![o] = @ \ {x}]
      BY <1>15, <3>1 DEF StepSucceeds, TypeOK
    <3> QED BY <1>15, <3>1, <3>2, OwnershipClose DEF StepSucceeds
  <2> QED BY <2>1, <2>2
<1>16. ASSUME NEW s \in Sessions, NEW x \in Surfaces \cup Teardowns, StepFails(s, x)
      PROVE  [Ownership!Next]_(Ownership!vars)
  BY <1>16, <1>0, OwnershipStutter DEF StepFails
<1>17. ASSUME NEW s \in Sessions, ConfirmCleanup(s)
      PROVE  [Ownership!Next]_(Ownership!vars)
  <2> DEFINE o == slotOwner[s]
  <2>1. o \in Runtimes => phase[o] \in {"published", "failing", "unclosed"}
    BY <1>17 DEF ConfirmCleanup, RegistryConsistent, ReservationOwnsGeneration, LiveIsPublished
  <2>2. \A r \in Runtimes : phase'[r] \in SpentPhases <=> phase[r] \in SpentPhases
    BY <1>17, <2>1 DEF ConfirmCleanup, SpentPhases
  <2>3. Spent' = Spent
    BY <1>17, <2>2 DEF ConfirmCleanup, Spent
  <2> QED BY <1>17, <2>3, OwnershipStutter DEF ConfirmCleanup
<1>18. ASSUME NEW s \in Sessions, RetainCleanup(s)
      PROVE  [Ownership!Next]_(Ownership!vars)
  <2> DEFINE R == {r \in Runtimes : SessionOf[r] = s /\ phase[r] = "retiring"}
  <2>1. \A r \in R : owned[r] = {}
    BY <1>18 DEF RegistryConsistent, SurfacesHavePhase
  <2>2. \A r \in R : phase'[r] = "stopped"
    BY <1>18 DEF RetainCleanup
  <2>3. \A r \in Runtimes \ R : phase'[r] \in SpentPhases <=> phase[r] \in SpentPhases
    BY <1>18 DEF RetainCleanup, SpentPhases
  <2>4. Spent' = Spent \cup R
    BY <1>18, <2>1, <2>2, <2>3 DEF RetainCleanup, Spent, SpentPhases
  <2> QED BY <1>18, <2>1, <2>4, OwnershipAbandon DEF RetainCleanup
<1>19. ASSUME NEW s \in Sessions, RetryCleanup(s)
      PROVE  [Ownership!Next]_(Ownership!vars)
  BY <1>19, <1>0, OwnershipStutter DEF RetryCleanup
<1>20. ASSUME NEW s \in Sessions, NEW k \in Actions, LatchDenial(s, k)
      PROVE  [Ownership!Next]_(Ownership!vars)
  BY <1>20, <1>0, OwnershipStutter DEF LatchDenial
<1>21. ASSUME NEW s \in Sessions, NEW k \in Actions, Destroy(s, k)
      PROVE  [Ownership!Next]_(Ownership!vars)
  BY <1>21, <1>0, OwnershipStutter DEF Destroy
<1>22. ASSUME NEW s \in Sessions, NEW k \in Actions, DestroyReserved(s, k)
      PROVE  [Ownership!Next]_(Ownership!vars)
  BY <1>22, <1>0, OwnershipStutter DEF DestroyReserved
<1>23. ASSUME NEW s \in Sessions, DestroyIdle(s)
      PROVE  [Ownership!Next]_(Ownership!vars)
  BY <1>23, <1>0, OwnershipStutter DEF DestroyIdle
<1>24. ASSUME NEW s \in Sessions, LatchActivation(s)
      PROVE  [Ownership!Next]_(Ownership!vars)
  BY <1>24, <1>0, OwnershipStutter DEF LatchActivation
<1>25. ASSUME NEW s \in Sessions, AcquireLock(s)
      PROVE  [Ownership!Next]_(Ownership!vars)
  BY <1>25, <1>0, OwnershipStutter DEF AcquireLock, LockChanged
<1>26. ASSUME NEW s \in Sessions, ReleaseLock(s)
      PROVE  [Ownership!Next]_(Ownership!vars)
  BY <1>26, <1>0, OwnershipStutter DEF ReleaseLock, LockChanged
<1>27. CASE UNCHANGED vars
  BY <1>27, <1>0, OwnershipStutter
<1> QED
  BY <1>1, <1>2, <1>3, <1>4, <1>5, <1>6, <1>7, <1>8, <1>9,
     <1>10, <1>11, <1>12, <1>13, <1>14, <1>15, <1>16, <1>17, <1>18,
     <1>19, <1>20, <1>21, <1>22, <1>23, <1>24, <1>25, <1>26, <1>27
  DEF Next, Creating, Using, Cleaning, Administering

(* createPiSession and destroyPiSession implement RuntimeOwnership.        *)
THEOREM OwnershipImplemented == Spec => ImplementsOwnership
<1>1. Init => Ownership!Init
  <2> SUFFICES ASSUME Init PROVE Ownership!Init
    OBVIOUS
  <2>1. \A s \in Sessions : Holder(s) = NoRuntime
    BY DEF Init, Holder
  <2>2. Spent = {}
    BY DEF Init, Spent, SpentPhases
  <2> QED
    BY <2>1, <2>2 DEF Ownership!Init
<1>2. TypeOK /\ RegistryConsistent /\ HolderOK /\ HolderOK' /\ [Next]_vars
        => [Ownership!Next]_(Ownership!vars)
  BY OwnershipStep
<1> QED
  BY <1>1, <1>2, TypeCorrect, RegistryHolds, HolderFacts, PTL
  DEF Spec, ImplementsOwnership, Ownership!Spec

----------------------------------------------------------------------------
(* The teardown of a held reservation.                                     *)

LEMMA SeverityMax ==
  ASSUME NEW j \in Teardowns \cup {"none"}, NEW k \in Teardowns \cup {"none"}
  PROVE  /\ Severity[j] \in Nat
         /\ Severity[Stronger(j, k)] >= Severity[j]
         /\ Severity[Stronger(j, k)] >= Severity[k]
<1>1. \A i \in Teardowns \cup {"none"} : Severity[i] \in 0..3
  BY DEF Severity, Teardowns
<1>2. CASE Severity[j] > Severity[k]
  BY <1>1, <1>2 DEF Stronger
<1>3. CASE ~(Severity[j] > Severity[k])
  BY <1>1, <1>3 DEF Stronger
<1> QED BY <1>1, <1>2, <1>3

LEMMA CoversFrame ==
  ASSUME TeardownCoversIntent, UNCHANGED <<slotKind, intent>>,
         \A s \in Sessions : slot'[s] # "free" => slot[s] # "free"
  PROVE  TeardownCoversIntent'
BY DEF TeardownCoversIntent

LEMMA CoversReserve ==
  ASSUME TypeOK, TeardownCoversIntent, UNCHANGED intent, NEW s \in Sessions, NEW o,
         NEW k \in Teardowns, Severity[k] >= Severity[intent[s]], Reserve(s, o, k)
  PROVE  TeardownCoversIntent'
BY DEF TypeOK, TeardownCoversIntent, Reserve

LEMMA CoversDestroy ==
  ASSUME TypeOK, TeardownCoversIntent, UNCHANGED intent, NEW s \in Sessions,
         NEW k \in Teardowns, DestroyOwned(s, k)
  PROVE  TeardownCoversIntent'
<1>1. intent[s] \in Teardowns \cup {"none"}
  BY DEF TypeOK
<1>2. /\ Stronger(intent[s], k) \in Teardowns
      /\ Severity[Stronger(intent[s], k)] >= Severity[intent[s]]
  BY <1>1, StrongerType, SeverityMax
<1> QED BY <1>2, CoversReserve DEF DestroyOwned

LEMMA CoversLatch ==
  ASSUME TypeOK, TeardownCoversIntent, NEW s \in Sessions, NEW k \in Teardowns,
         Latch(s, k), UNCHANGED slot
  PROVE  TeardownCoversIntent'
<1>1. /\ intent[s] \in Teardowns \cup {"none"} /\ slotKind[s] \in Teardowns \cup {"none"}
      /\ intent' = [intent EXCEPT ![s] = Stronger(intent[s], k)]
  BY DEF TypeOK, Latch
<1>2. SUFFICES ASSUME slot[s] # "free"
               PROVE  Severity[slotKind'[s]] >= Severity[intent'[s]]
  <2>1. \A q \in Sessions \ {s} : slotKind'[q] = slotKind[q] /\ intent'[q] = intent[q]
    BY DEF Latch, UpgradeCaptured, AppendPhase, TypeOK
  <2> QED BY <2>1, <1>2 DEF TeardownCoversIntent
<1>3. Severity[slotKind[s]] >= Severity[intent[s]]
  BY <1>2 DEF TeardownCoversIntent
<1>4. Severity[k] \in Nat /\ Severity[intent[s]] \in Nat /\ Severity[slotKind[s]] \in Nat
  BY <1>1, SeverityMax
<1>5. intent'[s] = Stronger(intent[s], k)
  BY <1>1 DEF TypeOK
<1>6. CASE AppendPhase(s, k)
  <2>1. slotKind'[s] = Stronger(slotKind[s], k)
    BY <1>6 DEF AppendPhase, TypeOK
  <2>2. /\ Severity[Stronger(slotKind[s], k)] >= Severity[slotKind[s]]
        /\ Severity[Stronger(slotKind[s], k)] >= Severity[k]
        /\ Severity[Stronger(slotKind[s], k)] \in Nat
    BY <1>1, SeverityMax, StrongerType
  <2> QED BY <1>3, <1>4, <1>5, <2>1, <2>2 DEF Stronger
<1>7. CASE ~AppendPhase(s, k)
  <2>1. UNCHANGED slotKind /\ ~(Severity[k] > Severity[intent[s]])
    BY <1>2, <1>7 DEF Latch, UpgradeCaptured
  <2> QED BY <1>3, <1>4, <1>5, <2>1 DEF Stronger
<1> QED BY <1>6, <1>7

LEMMA CoversStep == TypeOK /\ TeardownCoversIntent /\ [Next]_vars => TeardownCoversIntent'
<1> SUFFICES ASSUME TypeOK, TeardownCoversIntent, [Next]_vars PROVE TeardownCoversIntent'
  OBVIOUS
<1> USE NoRuntimeAssumption, SessionOfAssumption, ActionsAssumption
        DEF vars, maps, epochs, reservation, witness, usage
<1>1. "detach" \in Teardowns /\ "revoke" \in Teardowns
  BY DEF Teardowns
<1>2. ASSUME NEW r \in Runtimes, CreateOverStale(r) PROVE TeardownCoversIntent'
  BY <1>1, <1>2, CoversDestroy DEF CreateOverStale
<1>3. ASSUME NEW r \in Runtimes, FailCreation(r) PROVE TeardownCoversIntent'
  <2> DEFINE s == SessionOf[r]
  <2>1. s \in Sessions /\ intent[s] \in Teardowns \cup {"none"} /\ UNCHANGED intent
    BY <1>3 DEF TypeOK, FailCreation
  <2>2. PICK k \in {Stronger(intent[s], "detach")} \cup ({"revoke"} \cap Actions) :
          Reserve(s, r, k)
    BY <1>3 DEF FailCreation
  <2>3. CASE k = Stronger(intent[s], "detach")
    BY <1>1, <2>1, <2>2, <2>3, StrongerType, SeverityMax, CoversReserve
  <2>4. CASE k = "revoke"
    <3>1. Severity["revoke"] >= Severity[intent[s]]
      BY <2>1 DEF Severity, Teardowns
    <3> QED BY <1>1, <2>1, <2>2, <2>4, <3>1, CoversReserve
  <2> QED BY <2>2, <2>3, <2>4
<1>4. ASSUME NEW r \in Runtimes, AbortCaller(r) PROVE TeardownCoversIntent'
  <2>1. CASE Latch(SessionOf[r], "detach")
    BY <1>1, <1>4, <2>1, CoversLatch DEF AbortCaller
  <2>2. CASE UNCHANGED <<epochs, slotKind, todo, denied>>
    BY <1>4, <2>2, CoversFrame DEF AbortCaller
  <2> QED BY <1>4, <2>1, <2>2 DEF AbortCaller
<1>5. ASSUME NEW r \in Runtimes, Retire(r) PROVE TeardownCoversIntent'
  <2>1. CASE DestroyOwned(SessionOf[r], "detach")
    BY <1>1, <1>5, <2>1, CoversDestroy DEF Retire
  <2>2. CASE UNCHANGED reservation
    BY <1>5, <2>2, CoversFrame DEF Retire
  <2> QED BY <1>5, <2>1, <2>2 DEF Retire
<1>6. ASSUME NEW s \in Sessions, ConfirmCleanup(s) PROVE TeardownCoversIntent'
  BY <1>6 DEF ConfirmCleanup, TypeOK, TeardownCoversIntent
<1>7. ASSUME NEW s \in Sessions, RetainCleanup(s) \/ RetryCleanup(s) PROVE TeardownCoversIntent'
  BY <1>7 DEF RetainCleanup, RetryCleanup, TypeOK, TeardownCoversIntent
<1>8. ASSUME NEW s \in Sessions, NEW k \in Actions, LatchDenial(s, k) PROVE TeardownCoversIntent'
  BY <1>8, CoversLatch DEF LatchDenial
<1>9. ASSUME NEW s \in Sessions, NEW k \in Actions, Destroy(s, k) PROVE TeardownCoversIntent'
  BY <1>9, CoversDestroy DEF Destroy
<1>10. ASSUME NEW s \in Sessions, DestroyIdle(s) PROVE TeardownCoversIntent'
  BY <1>1, <1>10, CoversDestroy DEF DestroyIdle
<1>11. ASSUME NEW s \in Sessions, NEW k \in Actions, DestroyReserved(s, k)
       PROVE  TeardownCoversIntent'
  <2>1. /\ slot[s] # "free" /\ slot' = [slot EXCEPT ![s] = "attempting"]
        /\ UNCHANGED intent
        /\ \/ UNCHANGED slotKind
           \/ slotKind' = [slotKind EXCEPT ![s] = Stronger(slotKind[s], k)]
    BY <1>11 DEF DestroyReserved, Upgrade, AppendPhase
  <2>2. /\ k \in Teardowns /\ slotKind[s] \in Teardowns \cup {"none"}
        /\ intent[s] \in Teardowns \cup {"none"}
    BY DEF TypeOK
  <2>3. /\ Severity[Stronger(slotKind[s], k)] >= Severity[slotKind[s]]
        /\ Severity[Stronger(slotKind[s], k)] \in Nat
        /\ Severity[slotKind[s]] \in Nat /\ Severity[intent[s]] \in Nat
    BY <2>2, SeverityMax, StrongerType
  <2>4. Severity[slotKind'[s]] >= Severity[intent'[s]]
    BY <2>1, <2>3 DEF TypeOK, TeardownCoversIntent
  <2> QED BY <2>1, <2>4 DEF TypeOK, TeardownCoversIntent
<1>12. ASSUME NEW r \in Runtimes,
              \/ CreateFresh(r) \/ ResumeCreation(r) \/ PassCapacity(r) \/ Publish(r)
              \/ \E x \in Surfaces : Acquire(r, x) \/ EagerClose(r, x)
       PROVE  TeardownCoversIntent'
  BY <1>12, CoversFrame DEF CreateFresh, ResumeCreation, PassCapacity, Publish, Acquire, EagerClose
<1>13. ASSUME NEW r \in Runtimes,
              \/ \E c \in BOOLEAN : BeginWork(r, c)
              \/ ReleaseWork(r) \/ StartPrompt(r) \/ SettlePrompt(r)
       PROVE  TeardownCoversIntent'
  BY <1>13, CoversFrame DEF BeginWork, ReleaseWork, StartPrompt, SettlePrompt
<1>14. ASSUME NEW s \in Sessions,
              \/ \E x \in Surfaces \cup Teardowns : StepSucceeds(s, x) \/ StepFails(s, x)
              \/ LatchActivation(s) \/ AcquireLock(s) \/ ReleaseLock(s)
       PROVE  TeardownCoversIntent'
  BY <1>14, CoversFrame
  DEF StepSucceeds, StepFails, LatchActivation, AcquireLock, ReleaseLock, LockChanged
<1>15. CASE UNCHANGED vars
  BY <1>15, CoversFrame
<1> QED
  BY <1>2, <1>3, <1>4, <1>5, <1>6, <1>7, <1>8, <1>9, <1>10, <1>11, <1>12, <1>13,
     <1>14, <1>15
  DEF Next, Creating, Using, Cleaning, Administering

(* destroyPiSession, latchPiSessionCapabilityDenial and the failure path   *)
(* of createPiSession, in any order: the cleanup an id is blocked on tears *)
(* down at least as much as the strongest denial latched for the id.       *)
THEOREM TeardownNeverWeakened == Spec => []TeardownCoversIntent
<1>1. Init => TeardownCoversIntent
  BY DEF Init, TeardownCoversIntent
<1> QED
  BY <1>1, TypeCorrect, CoversStep, PTL DEF Spec

----------------------------------------------------------------------------
(* Retirement of refresh-pending handles.                                  *)

(* Only a handle that was published can be pending a refresh.              *)
RefreshIsPublished ==
  \A r \in Runtimes : refresh[r] => phase[r] \in {"published", "closed"}

ArmedInv == RetirementArmed /\ RefreshIsPublished

LEMMA LockFacts ==
  ASSUME NEW s \in Sessions, LockChanged(s)
  PROVE  \A q \in Runtimes : scheduled'[q] <=> scheduled[q] \/ (q = live[s] /\ refresh[q])
BY Zenon DEF LockChanged

LEMMA RescheduleFacts ==
  ASSUME TypeOK, NEW r \in Runtimes, Reschedule(r)
  PROVE  /\ scheduled'[r] <=> scheduled[r] \/ refresh[r]
         /\ \A q \in Runtimes \ {r} : scheduled'[q] = scheduled[q]
<1>1. scheduled \in [Runtimes -> BOOLEAN]
  BY DEF TypeOK
<1>2. scheduled' = [scheduled EXCEPT ![r] = scheduled[r] \/ refresh[r]]
  BY DEF Reschedule
<1>3. scheduled'[r] = (scheduled[r] \/ refresh[r])
  BY <1>1, <1>2, Zenon
<1>4. \A q \in Runtimes \ {r} : scheduled'[q] = scheduled[q]
  BY <1>1, <1>2
<1> QED BY <1>3, <1>4, Zenon

LEMMA ScheduleFacts ==
  ASSUME NEW s \in Sessions, LatchActivation(s)
  PROVE  /\ \A q \in Runtimes : refresh'[q] <=> refresh[q] \/ q = live[s]
         /\ \A q \in Runtimes : scheduled'[q] <=> scheduled[q] \/ q = live[s]
BY Zenon DEF LatchActivation

(* A step that touches nothing that retirement depends on.                 *)
LEMMA ArmedFrame ==
  ASSUME ArmedInv, UNCHANGED <<live, locked, refresh, scheduled, work, busy>>,
         \A s \in Sessions : slot'[s] = "free" => slot[s] = "free",
         \A r \in Runtimes : phase[r] \in {"published", "closed"} => phase'[r] = phase[r]
  PROVE  ArmedInv'
BY SessionOfAssumption DEF ArmedInv, RetirementArmed, RefreshIsPublished, IsLive, CanRetire

LEMMA ArmedStep ==
  TypeOK /\ RegistryConsistent /\ ArmedInv /\ [Next]_vars => ArmedInv'
<1> SUFFICES ASSUME TypeOK, RegistryConsistent, ArmedInv, [Next]_vars PROVE ArmedInv'
  OBVIOUS
<1> USE NoRuntimeAssumption, SessionOfAssumption
        DEF vars, maps, epochs, reservation, witness, usage
<1>1. ASSUME NEW r \in Runtimes, CreateOverStale(r) PROVE ArmedInv'
  BY <1>1, ArmedFrame DEF CreateOverStale, MayCreate, DestroyOwned, Reserve, TypeOK
<1>2. ASSUME NEW r \in Runtimes, CreateFresh(r) \/ ResumeCreation(r) \/ PassCapacity(r)
      PROVE  ArmedInv'
  BY <1>2, ArmedFrame DEF CreateFresh, MayCreate, ResumeCreation, Register, PassCapacity, TypeOK
<1>3. ASSUME NEW r \in Runtimes, NEW x \in Surfaces, Acquire(r, x) \/ EagerClose(r, x)
      PROVE  ArmedInv'
  BY <1>3, ArmedFrame DEF Acquire, EagerClose
<1>4. ASSUME NEW r \in Runtimes, Publish(r) PROVE ArmedInv'
  <2>1. ~refresh[r]
    BY <1>4 DEF Publish, ArmedInv, RefreshIsPublished
  <2>2. RefreshIsPublished'
    BY <1>4 DEF Publish, TypeOK, ArmedInv, RefreshIsPublished
  <2>3. \A q \in Runtimes \ {r} : IsLive(q)' => IsLive(q)
    BY <1>4 DEF Publish, TypeOK, IsLive
  <2>4. RetirementArmed'
    BY <1>4, <2>1, <2>3 DEF Publish, ArmedInv, RetirementArmed, CanRetire
  <2> QED BY <2>2, <2>4 DEF ArmedInv
<1>5. ASSUME NEW r \in Runtimes, FailCreation(r) PROVE ArmedInv'
  BY <1>5, ArmedFrame DEF FailCreation, Reserve, TypeOK
<1>6. ASSUME NEW r \in Runtimes, AbortCaller(r) PROVE ArmedInv'
  BY <1>6, ArmedFrame DEF AbortCaller
<1>7. ASSUME NEW r \in Runtimes, NEW c \in BOOLEAN, BeginWork(r, c) PROVE ArmedInv'
  BY <1>7 DEF BeginWork, TypeOK, ArmedInv, RetirementArmed, RefreshIsPublished, IsLive, CanRetire
<1>8. ASSUME NEW r \in Runtimes, ReleaseWork(r) \/ SettlePrompt(r) PROVE ArmedInv'
  <2>1. /\ Reschedule(r)
        /\ UNCHANGED <<live, locked, slot, refresh, phase>>
        /\ \A q \in Runtimes \ {r} : work'[q] = work[q] /\ busy'[q] = busy[q]
    BY <1>8 DEF ReleaseWork, SettlePrompt, TypeOK
  <2>2. /\ scheduled'[r] <=> scheduled[r] \/ refresh[r]
        /\ \A q \in Runtimes \ {r} : scheduled'[q] = scheduled[q]
    BY <2>1, RescheduleFacts
  <2> QED
    BY <2>1, <2>2 DEF ArmedInv, RetirementArmed, RefreshIsPublished, IsLive, CanRetire
<1>9. ASSUME NEW r \in Runtimes, StartPrompt(r) PROVE ArmedInv'
  BY <1>9 DEF StartPrompt, TypeOK, ArmedInv, RetirementArmed, RefreshIsPublished, IsLive, CanRetire
<1>10. ASSUME NEW r \in Runtimes, Retire(r) PROVE ArmedInv'
  <2>1. /\ \A q \in Runtimes \ {r} : scheduled'[q] = scheduled[q]
        /\ UNCHANGED <<live, locked, phase, refresh, work, busy>>
    BY <1>10 DEF Retire, TypeOK
  <2>2. CASE IsLive(r) /\ slot[SessionOf[r]] = "free" /\ CanRetire(r)
    <3>1. slot' = [slot EXCEPT ![SessionOf[r]] = "attempting"]
      BY <1>10, <2>2 DEF Retire, DestroyOwned, Reserve
    <3> QED BY <2>1, <3>1
        DEF TypeOK, ArmedInv, RetirementArmed, RefreshIsPublished, IsLive, CanRetire
  <2>3. CASE ~(IsLive(r) /\ slot[SessionOf[r]] = "free" /\ CanRetire(r))
    <3>1. UNCHANGED slot
      BY <1>10, <2>3 DEF Retire
    <3> QED BY <2>1, <2>3, <3>1
        DEF ArmedInv, RetirementArmed, RefreshIsPublished, IsLive, CanRetire
  <2> QED BY <2>2, <2>3
<1>11. ASSUME NEW s \in Sessions, NEW x \in Surfaces \cup Teardowns,
              StepSucceeds(s, x) \/ StepFails(s, x)
       PROVE  ArmedInv'
  BY <1>11, ArmedFrame DEF StepSucceeds, StepFails
<1>12. ASSUME NEW s \in Sessions, ConfirmCleanup(s) PROVE ArmedInv'
  <2>1. live'[s] = NoRuntime
    BY <1>12 DEF ConfirmCleanup, TypeOK, RegistryConsistent, ReservationOwnsGeneration,
             LiveOrCreation
  <2>2. \A q \in Sessions \ {s} : live'[q] = live[q] /\ slot'[q] = slot[q]
    BY <1>12 DEF ConfirmCleanup, TypeOK
  <2>3. RetirementArmed'
    BY <1>12, <2>1, <2>2 DEF ConfirmCleanup, ArmedInv, RetirementArmed, IsLive, CanRetire
  <2>4. \A r \in Runtimes : r = slotOwner[s] => phase[r] # "closed"
    BY <1>12 DEF ConfirmCleanup, RegistryConsistent, ReservationOwnsGeneration, LiveIsPublished
  <2>5. RefreshIsPublished'
    BY <1>12, <2>4 DEF ConfirmCleanup, ArmedInv, RefreshIsPublished
  <2> QED BY <2>3, <2>5 DEF ArmedInv
<1>13. ASSUME NEW s \in Sessions, RetainCleanup(s) PROVE ArmedInv'
  <2>1. \A r \in Runtimes : phase[r] \in {"published", "closed"} => phase'[r] = phase[r]
    BY <1>13 DEF RetainCleanup
  <2> QED BY <1>13, <2>1, ArmedFrame DEF RetainCleanup, TypeOK
<1>14. ASSUME NEW s \in Sessions, RetryCleanup(s) PROVE ArmedInv'
  BY <1>14, ArmedFrame DEF RetryCleanup, TypeOK
<1>15. ASSUME NEW s \in Sessions, NEW k \in Actions, LatchDenial(s, k) PROVE ArmedInv'
  BY <1>15, ArmedFrame DEF LatchDenial
<1>16. ASSUME NEW s \in Sessions, NEW k, DestroyOwned(s, k),
              UNCHANGED <<live, locked, phase, refresh, scheduled, usage>>
       PROVE  ArmedInv'
  BY <1>16, ArmedFrame DEF DestroyOwned, Reserve, TypeOK
<1>17. ASSUME NEW s \in Sessions, NEW k \in Actions, DestroyReserved(s, k) PROVE ArmedInv'
  BY <1>17, ArmedFrame DEF DestroyReserved, TypeOK
<1>18. ASSUME NEW s \in Sessions, LatchActivation(s) PROVE ArmedInv'
  <2>1. /\ UNCHANGED <<live, locked, slot, phase, work, busy>>
        /\ live[s] # NoRuntime => phase[live[s]] = "published"
        /\ \A q \in Runtimes : SessionOf[q] # s => live[s] # q
    BY <1>18 DEF LatchActivation, RegistryConsistent, LiveIsPublished
  <2>2. \A q \in Runtimes : IsLive(q) /\ SessionOf[q] = s => q = live[s]
    BY DEF IsLive
  <2> QED
    BY <1>18, <2>1, <2>2, ScheduleFacts
    DEF ArmedInv, RetirementArmed, RefreshIsPublished, IsLive, CanRetire
<1>19. ASSUME NEW s \in Sessions, AcquireLock(s) \/ ReleaseLock(s) PROVE ArmedInv'
  <2>1. /\ UNCHANGED <<live, slot, phase, refresh, work, busy>>
        /\ \A q \in Sessions \ {s} : locked'[q] = locked[q]
        /\ LockChanged(s)
    BY <1>19 DEF AcquireLock, ReleaseLock, LockChanged, TypeOK
  <2> QED
    BY <2>1, LockFacts DEF ArmedInv, RetirementArmed, RefreshIsPublished, IsLive, CanRetire
<1>20. CASE UNCHANGED vars
  BY <1>20, ArmedFrame
<1>21. ASSUME NEW s \in Sessions, (\E k \in Actions : Destroy(s, k)) \/ DestroyIdle(s)
       PROVE  ArmedInv'
  BY <1>16, <1>21 DEF Destroy, DestroyIdle
<1> QED
  BY <1>1, <1>2, <1>3, <1>4, <1>5, <1>6, <1>7, <1>8, <1>9, <1>10, <1>11, <1>12,
     <1>13, <1>14, <1>15, <1>17, <1>18, <1>19, <1>20, <1>21
  DEF Next, Creating, Using, Cleaning, Administering

(* Every change that can make a refresh-pending handle retirable (a lease  *)
(* released, a prompt settled, a lock change, an activation) arms its      *)
(* retirement, so no wake-up is lost.                                      *)
THEOREM RetirementNeverLost == Spec => []RetirementArmed
<1>1. Init => ArmedInv
  BY DEF Init, ArmedInv, RetirementArmed, RefreshIsPublished, CanRetire
<1>2. ArmedInv => RetirementArmed
  BY DEF ArmedInv
<1> QED
  BY <1>1, <1>2, TypeCorrect, RegistryHolds, ArmedStep, PTL DEF Spec
----------------------------------------------------------------------------
(* Capacity.                                                               *)

(* The creations that have passed the capacity check.                      *)
Admitted == {s \in Pending : phase[creation[s]] = "building"}

CapacityInv ==
  /\ IsFiniteSet(Occupied) /\ IsFiniteSet(Pending)
  /\ CapacityRespected

(* A step that occupies no id and admits no creation keeps within the      *)
(* capacity; it may register one more creation.                            *)
LEMMA CapacityFrame ==
  ASSUME CapacityInv, NEW t,
         Occupied' \subseteq Occupied, Admitted' \subseteq Admitted,
         Pending' \subseteq Pending \cup {t}
  PROVE  CapacityInv'
<1>1. IsFiniteSet(Occupied) /\ IsFiniteSet(Pending) /\ Admitted \subseteq Pending
  BY DEF CapacityInv, Admitted
<1>2. IsFiniteSet(Admitted) /\ IsFiniteSet(Pending \cup {t})
  BY <1>1, FS_Subset, FS_AddElement
<1>3. /\ IsFiniteSet(Occupied') /\ Cardinality(Occupied') <= Cardinality(Occupied)
      /\ Cardinality(Admitted') <= Cardinality(Admitted)
      /\ IsFiniteSet(Admitted') /\ IsFiniteSet(Pending')
  BY <1>1, <1>2, FS_Subset
<1>4. /\ Cardinality(Occupied) \in Nat /\ Cardinality(Admitted) \in Nat
      /\ Cardinality(Occupied') \in Nat /\ Cardinality(Admitted') \in Nat
  BY <1>1, <1>2, <1>3, FS_CardinalityType
<1>5. Cardinality(Occupied) + Cardinality(Admitted) <= MaxSessions
  BY DEF CapacityInv, CapacityRespected, Admitted
<1>6. Cardinality(Occupied') + Cardinality(Admitted') <= MaxSessions
  BY <1>3, <1>4, <1>5, BoundsAssumption
<1> QED
  BY <1>3, <1>6 DEF CapacityInv, CapacityRespected, Admitted

(* A step that changes neither the maps nor a phase.                       *)
LEMMA CapacitySame ==
  ASSUME CapacityInv, UNCHANGED <<live, creation, phase>>
  PROVE  CapacityInv'
BY DEF CapacityInv, CapacityRespected, Occupied, Pending

(* The check counts every pending creation, those not yet admitted too.    *)
LEMMA CapacityChecked ==
  ASSUME TypeOK, CapacityInv, NEW r \in Runtimes, PassCapacity(r)
  PROVE  CapacityInv'
<1>1. Occupied' = Occupied /\ Pending' = Pending
  BY DEF PassCapacity, Occupied, Pending, maps
<1>2. Admitted' \subseteq Pending
  BY <1>1 DEF Admitted
<1>3. IsFiniteSet(Occupied) /\ IsFiniteSet(Pending)
  BY DEF CapacityInv
<1>4. /\ Cardinality(Admitted') <= Cardinality(Pending) /\ IsFiniteSet(Admitted')
  BY <1>2, <1>3, FS_Subset
<1>5. /\ Cardinality(Occupied) \in Nat /\ Cardinality(Pending) \in Nat
      /\ Cardinality(Admitted') \in Nat
  BY <1>3, <1>4, FS_CardinalityType
<1>6. Cardinality(Occupied) + Cardinality(Pending) <= MaxSessions
  BY DEF PassCapacity
<1>7. Cardinality(Occupied') + Cardinality(Admitted') <= MaxSessions
  BY <1>1, <1>4, <1>5, <1>6, BoundsAssumption
<1> QED
  BY <1>1, <1>3, <1>7 DEF CapacityInv, CapacityRespected, Admitted

(* A publication turns an admitted creation into an occupied id.           *)
LEMMA CapacityPublished ==
  ASSUME TypeOK, RegistryConsistent, CapacityInv, NEW r \in Runtimes, Publish(r)
  PROVE  CapacityInv'
<1> DEFINE s == SessionOf[r]
<1> USE NoRuntimeAssumption, SessionOfAssumption
<1>1. s \in Sessions /\ phase[r] = "building" /\ creation[s] = r
  BY DEF Publish, RegistryConsistent, RegisteredIsCreation, InCreation
<1>2. s \in Admitted
  BY <1>1 DEF Admitted, Pending
<1>3. Occupied' \subseteq Occupied \cup {s}
  BY DEF Publish, Occupied, TypeOK
<1>4. Pending' = Pending \ {s}
  BY <1>1 DEF Publish, Pending, TypeOK
<1>5. Admitted' \subseteq Admitted \ {s}
  <2> SUFFICES ASSUME NEW u \in Admitted' PROVE u \in Admitted \ {s}
    OBVIOUS
  <2>1. u \in Sessions /\ u # s /\ creation'[u] # NoRuntime /\ phase'[creation'[u]] = "building"
    BY <1>4 DEF Admitted, Pending
  <2>2. creation'[u] = creation[u]
    BY <2>1 DEF Publish, TypeOK
  <2>3. creation[u] \in Runtimes
    BY <2>1, <2>2 DEF TypeOK
  <2>4. phase'[creation[u]] # "building" \/ phase'[creation[u]] = phase[creation[u]]
    BY <2>3 DEF Publish, TypeOK
  <2> QED BY <2>1, <2>2, <2>4 DEF Admitted, Pending
<1>6. IsFiniteSet(Occupied) /\ IsFiniteSet(Pending) /\ Admitted \subseteq Pending
  BY DEF CapacityInv, Admitted
<1>7. IsFiniteSet(Admitted)
  BY <1>6, FS_Subset
<1>8. /\ IsFiniteSet(Occupied \cup {s}) /\ IsFiniteSet(Admitted \ {s}) /\ IsFiniteSet(Pending \ {s})
      /\ Cardinality(Occupied \cup {s}) \in {Cardinality(Occupied), Cardinality(Occupied) + 1}
      /\ Cardinality(Admitted \ {s}) = Cardinality(Admitted) - 1
  BY <1>2, <1>6, <1>7, FS_AddElement, FS_RemoveElement
<1>9. /\ IsFiniteSet(Occupied') /\ Cardinality(Occupied') <= Cardinality(Occupied \cup {s})
      /\ IsFiniteSet(Admitted') /\ Cardinality(Admitted') <= Cardinality(Admitted \ {s})
  BY <1>3, <1>5, <1>8, FS_Subset
<1>10. /\ Cardinality(Occupied) \in Nat /\ Cardinality(Admitted) \in Nat
       /\ Cardinality(Occupied') \in Nat /\ Cardinality(Admitted') \in Nat
  BY <1>6, <1>7, <1>9, FS_CardinalityType
<1>11. Cardinality(Occupied) + Cardinality(Admitted) <= MaxSessions
  BY DEF CapacityInv, CapacityRespected, Admitted
<1>12. Cardinality(Occupied') + Cardinality(Admitted') <= MaxSessions
  BY <1>8, <1>9, <1>10, <1>11, BoundsAssumption
<1> QED
  BY <1>4, <1>8, <1>9, <1>12 DEF CapacityInv, CapacityRespected, Admitted

(* A step that leaves the maps alone and makes nothing "building".         *)
LEMMA CapacityPhases ==
  ASSUME TypeOK, CapacityInv, UNCHANGED maps,
         \A r \in Runtimes : phase'[r] = "building" => phase[r] = "building"
  PROVE  CapacityInv'
<1>1. Occupied' = Occupied /\ Pending' = Pending
  BY DEF Occupied, Pending, maps
<1>2. \A s \in Pending : creation[s] \in Runtimes /\ creation'[s] = creation[s]
  BY DEF Pending, TypeOK, maps
<1>3. Admitted' \subseteq Admitted
  BY <1>1, <1>2 DEF Admitted
<1> QED BY <1>1, <1>3, CapacityFrame

LEMMA CapacityRegister ==
  ASSUME TypeOK, CapacityInv, NEW r \in Runtimes, Register(r), live' = live
  PROVE  CapacityInv'
<1> USE NoRuntimeAssumption, SessionOfAssumption
<1>1. Occupied' = Occupied /\ Pending' \subseteq Pending \cup {SessionOf[r]}
  BY DEF Occupied, Pending, Register, TypeOK
<1>2. ASSUME NEW u \in Admitted' PROVE u \in Admitted
  <2>1. u \in Sessions /\ creation'[u] # NoRuntime /\ phase'[creation'[u]] = "building"
    BY <1>2 DEF Admitted, Pending
  <2>2. phase'[r] = "starting"
    BY DEF Register, TypeOK
  <2>3. u # SessionOf[r] /\ creation'[u] = creation[u] /\ creation[u] # r
    BY <2>1, <2>2 DEF Register, TypeOK
  <2>4. phase'[creation[u]] = phase[creation[u]]
    BY <2>1, <2>3 DEF Register, TypeOK
  <2> QED BY <2>1, <2>3, <2>4 DEF Admitted, Pending
<1>3. Admitted' \subseteq Admitted
  BY <1>2
<1> QED BY <1>1, <1>3, CapacityFrame

LEMMA CapacityConfirmed ==
  ASSUME TypeOK, CapacityInv, NEW s \in Sessions, ConfirmCleanup(s)
  PROVE  CapacityInv'
<1>1. /\ \A u \in Sessions : live'[u] \in {live[u], NoRuntime}
      /\ \A u \in Sessions : creation'[u] \in {creation[u], NoRuntime}
      /\ \A r \in Runtimes : phase'[r] = "building" => phase[r] = "building"
  BY DEF ConfirmCleanup, TypeOK
<1>2. Occupied' \subseteq Occupied /\ Pending' \subseteq Pending
  BY <1>1 DEF Occupied, Pending
<1>3. ASSUME NEW u \in Admitted' PROVE u \in Admitted
  <2>1. u \in Sessions /\ creation'[u] # NoRuntime /\ phase'[creation'[u]] = "building"
    BY <1>3 DEF Admitted, Pending
  <2>2. creation'[u] = creation[u] /\ creation[u] \in Runtimes
    BY <1>1, <2>1 DEF TypeOK
  <2> QED BY <1>1, <2>1, <2>2 DEF Admitted, Pending
<1>4. Admitted' \subseteq Admitted
  BY <1>3
<1> QED BY <1>2, <1>4, CapacityFrame

LEMMA CapacityStep ==
  TypeOK /\ RegistryConsistent /\ CapacityInv /\ [Next]_vars => CapacityInv'
<1> SUFFICES ASSUME TypeOK, RegistryConsistent, CapacityInv, [Next]_vars PROVE CapacityInv'
  OBVIOUS
<1> USE DEF maps
<1>1. ASSUME NEW r \in Runtimes, CreateOverStale(r) \/ FailCreation(r) PROVE CapacityInv'
  <2>1. \A q \in Runtimes : phase'[q] = "building" => phase[q] = "building"
    BY <1>1 DEF CreateOverStale, FailCreation, TypeOK
  <2> QED BY <1>1, <2>1, CapacityPhases DEF CreateOverStale, FailCreation
<1>2. ASSUME NEW r \in Runtimes, CreateFresh(r) PROVE CapacityInv'
  BY <1>2, CapacityRegister DEF CreateFresh
<1>3. ASSUME NEW r \in Runtimes, ResumeCreation(r) PROVE CapacityInv'
  <2>1. CASE Register(r)
    BY <1>3, <2>1, CapacityRegister DEF ResumeCreation
  <2>2. CASE phase' = [phase EXCEPT ![r] = "stopped"] /\ UNCHANGED creation
    <3>1. \A q \in Runtimes : phase'[q] = "building" => phase[q] = "building"
      BY <2>2 DEF TypeOK
    <3> QED BY <1>3, <2>2, <3>1, CapacityPhases DEF ResumeCreation
  <2> QED BY <1>3, <2>1, <2>2 DEF ResumeCreation
<1>4. ASSUME NEW r \in Runtimes, PassCapacity(r) PROVE CapacityInv'
  BY <1>4, CapacityChecked
<1>5. ASSUME NEW r \in Runtimes, Publish(r) PROVE CapacityInv'
  BY <1>5, CapacityPublished
<1>6. ASSUME NEW s \in Sessions, ConfirmCleanup(s) PROVE CapacityInv'
  BY <1>6, CapacityConfirmed
<1>7. ASSUME NEW s \in Sessions, RetainCleanup(s) PROVE CapacityInv'
  <2>1. \A q \in Runtimes : phase'[q] = "building" => phase[q] = "building"
    BY <1>7 DEF RetainCleanup, TypeOK
  <2> QED BY <1>7, <2>1, CapacityPhases DEF RetainCleanup
<1>8. ASSUME NEW r \in Runtimes,
             \/ \E x \in Surfaces : Acquire(r, x) \/ EagerClose(r, x)
             \/ \E c \in BOOLEAN : BeginWork(r, c)
             \/ ReleaseWork(r) \/ StartPrompt(r) \/ SettlePrompt(r)
             \/ Retire(r) \/ AbortCaller(r)
      PROVE  CapacityInv'
  <2>1. UNCHANGED <<live, creation, phase>>
    BY <1>8 DEF Acquire, EagerClose, BeginWork, ReleaseWork, StartPrompt, SettlePrompt,
                Retire, AbortCaller
  <2> QED BY <2>1, CapacitySame
<1>9. ASSUME NEW s \in Sessions,
             \/ \E x \in Surfaces \cup Teardowns : StepSucceeds(s, x) \/ StepFails(s, x)
             \/ RetryCleanup(s)
             \/ \E k \in Actions : LatchDenial(s, k) \/ Destroy(s, k) \/ DestroyReserved(s, k)
             \/ DestroyIdle(s) \/ LatchActivation(s) \/ AcquireLock(s) \/ ReleaseLock(s)
      PROVE  CapacityInv'
  <2>1. UNCHANGED <<live, creation, phase>>
    BY <1>9 DEF StepSucceeds, StepFails, RetryCleanup, LatchDenial, Destroy, DestroyReserved,
                DestroyIdle, LatchActivation, AcquireLock, ReleaseLock, LockChanged
  <2> QED BY <2>1, CapacitySame
<1>10. CASE UNCHANGED vars
  BY <1>10, CapacitySame DEF vars
<1> QED
  BY <1>1, <1>2, <1>3, <1>4, <1>5, <1>6, <1>7, <1>8, <1>9, <1>10
  DEF Next, Creating, Using, Cleaning, Administering

(* However many calls check, register, fail and publish concurrently, live *)
(* runtimes and admitted creations stay within MAX_SESSIONS.               *)
THEOREM CapacityKept == Spec => []CapacityRespected
<1>1. Init => CapacityInv
  <2> SUFFICES ASSUME Init PROVE CapacityInv
    OBVIOUS
  <2>1. Occupied = {} /\ Pending = {} /\ Admitted = {}
    BY DEF Init, Occupied, Pending, Admitted
  <2> QED BY <2>1, FS_EmptySet, BoundsAssumption DEF CapacityInv, CapacityRespected, Admitted
<1>2. CapacityInv => CapacityRespected
  BY DEF CapacityInv
<1> QED
  BY <1>1, <1>2, TypeCorrect, RegistryHolds, CapacityStep, PTL DEF Spec
=============================================================================
