------------------------ MODULE AutomationScheduleProofs ------------------------
(* Theorems about AutomationSchedule, for any schedules, any bound on the   *)
(* clock and any number of edits, corrections and restarts.                *)
EXTENDS AutomationSchedule, TLAPS, FiniteSetTheorems, WellFoundedInduction

-----------------------------------------------------------------------------
(* Extrema of sets of times.                                               *)

LEMMA MaxOfPair ==
  ASSUME NEW a \in Int, NEW b \in Int
  PROVE  Max({a, b}) = IF a >= b THEN a ELSE b
<1>1. \E x \in {a, b} : \A y \in {a, b} : x >= y
  OBVIOUS
<1> QED BY <1>1 DEF Max

LEMMA MinOfPair ==
  ASSUME NEW a \in Int, NEW b \in Int
  PROVE  Min({a, b}) = IF a <= b THEN a ELSE b
<1>1. \E x \in {a, b} : \A y \in {a, b} : x =< y
  OBVIOUS
<1> QED BY <1>1 DEF Min

LEMMA Least ==
  ASSUME NEW T \in SUBSET Nat, T # {}
  PROVE  \E x \in T : \A y \in T : x =< y
<1>1. \E x \in T : \A y \in T : ~ (<<y, x>> \in OpToRel(<, Nat))
  BY NatLessThanWellFounded, WFMin
<1>2. \A x, y \in Nat : ~ (<<y, x>> \in OpToRel(<, Nat)) => x =< y
  BY DEF OpToRel
<1> QED BY <1>1, <1>2

LEMMA MinOf ==
  ASSUME NEW T \in SUBSET Nat, T # {}
  PROVE  Min(T) \in T /\ \A y \in T : Min(T) =< y
BY Least DEF Min

LEMMA MaxOf ==
  ASSUME NEW n \in Nat, NEW T \in SUBSET (0 .. n), T # {}
  PROVE  Max(T) \in T /\ \A y \in T : Max(T) >= y
<1> DEFINE R == {n - x : x \in T}
<1>1. R \in SUBSET Nat /\ R # {}
  <2>1. \A x \in T : n - x \in Nat
    OBVIOUS
  <2>2. R # {}
    OBVIOUS
  <2> QED BY <2>1, <2>2
<1>2. PICK r \in R : \A y \in R : r =< y
  BY <1>1, Least
<1>3. PICK x \in T : r = n - x
  BY <1>2
<1>4. \A y \in T : x >= y
  <2>1. ASSUME NEW y \in T PROVE x >= y
    <3>1. n - y \in R /\ x \in Nat /\ y \in Nat
      OBVIOUS
    <3>2. n - x =< n - y
      BY <1>2, <1>3, <3>1
    <3> QED BY <3>1, <3>2
  <2> QED BY <2>1
<1> QED BY <1>4 DEF Max

-----------------------------------------------------------------------------
(* The inductive invariant.                                                *)

JobType == [enabled : BOOLEAN, deleted : BOOLEAN, rev : Nat, cron : Schedules,
            policy : {"run_once", "skip"}, cursor : Times, last : Keys \cup {Never},
            updated : Times, next : Times \cup {Never}]

\* The cursor moves with the row's time of update, and nobody enables a
\* deleted job.
SoundRow(j) ==
  /\ j \in JobType /\ j.rev # 0 /\ j.cursor <= j.updated
  /\ j.enabled => ~ j.deleted

IInv ==
  /\ TypeOK /\ SoundRow(job)
  /\ MinuteOnce /\ ClaimedBehindCursor /\ NoStaleTimer /\ NextRunArmed

LEMMA TimesAreNaturals ==
  /\ 0 \in Times /\ \A t \in Times : t \in Nat /\ t <= MaxTime /\ KeyOf[t] \in Keys
  /\ \A s \in Schedules : s \subseteq Times
BY SchedulesAssumption DEF Times, Keys

LEMMA LaterTimes ==
  ASSUME NEW s \in Schedules, NEW a \in Int
  PROVE  /\ Later(s, a) \in SUBSET Nat /\ Later(s, a) \subseteq Times
         /\ \A o \in Later(s, a) : o > a /\ o \in s
BY TimesAreNaturals DEF Later

LEMMA Initially == Init => IInv
<1> SUFFICES ASSUME Init PROVE IInv
  OBVIOUS
<1>1. SoundRow(job) /\ ~ job.enabled
  BY TimesAreNaturals DEF Init, SoundRow, JobType
<1>2. NoTimer \in [rev : Nat, left : 0 .. MaxDelay]
  BY SchedulesAssumption DEF NoTimer
<1>3. TypeOK
  BY <1>1, <1>2, TimesAreNaturals DEF Init, TypeOK, SoundRow, JobType
<1> QED BY <1>1, <1>3
        DEF Init, IInv, MinuteOnce, ClaimedBehindCursor, NoStaleTimer, NextRunArmed

-----------------------------------------------------------------------------
(* The evaluation of a row.                                                *)

\* scheduleNext arms a timer for the next run, of the row's revision.
LEMMA ScheduleNextArms ==
  ASSUME NEW j, SoundRow(j), now \in Times, ScheduleNext(j)
  PROVE  /\ SoundRow(job') /\ timer' \in [rev : Nat, left : 0 .. MaxDelay]
         /\ job'.rev = j.rev /\ job'.enabled = j.enabled /\ job'.cursor = j.cursor
         /\ job'.cron = j.cron
         /\ timer' # NoTimer => timer'.rev = j.rev
         /\ job'.next # Never => timer' # NoTimer /\ now + timer'.left <= job'.next
<1> DEFINE t == Max({now, j.cursor})
           later == Later(j.cron, t)
           next == Earliest(later)
<1>1. j \in JobType /\ j.cursor \in Nat /\ now \in Nat /\ j.cron \in Schedules /\ j.rev \in Nat
  BY TimesAreNaturals DEF SoundRow, JobType
<1>2. t \in Nat /\ t >= now
  BY <1>1, MaxOfPair
<1>3. next = Never \/ (next \in Times /\ next \in Nat /\ next > now)
  <2>1. CASE later = {}
    BY <2>1 DEF Earliest
  <2>2. CASE later # {}
    <3>1. later \in SUBSET Nat /\ later \subseteq Times /\ \A o \in later : o > t
      <4>1. t \in Int /\ j.cron \in Schedules
        BY <1>1, <1>2
      <4> HIDE DEF t
      <4> QED BY <4>1, LaterTimes
    <3>2. Min(later) \in later
      BY <2>2, <3>1, MinOf
    <3>3. Min(later) \in Nat /\ Min(later) > t /\ Min(later) \in Times
      BY <3>1, <3>2
    <3> QED BY <2>2, <3>3, <1>1, <1>2 DEF Earliest
  <2> QED BY <2>1, <2>2
<1>4. job' = [j EXCEPT !.next = next]
  BY DEF ScheduleNext
<1>5. timer' = IF next = Never THEN NoTimer ELSE [rev |-> j.rev, left |-> Min({next - now, MaxDelay})]
  BY DEF ScheduleNext
<1> HIDE DEF next, later, t
<1>6. SoundRow(job') /\ job'.rev = j.rev /\ job'.enabled = j.enabled /\ job'.cursor = j.cursor
      /\ job'.cron = j.cron /\ job'.next = next
  BY <1>1, <1>3, <1>4 DEF SoundRow, JobType
<1>7. CASE next = Never
  BY <1>5, <1>6, <1>7, SchedulesAssumption DEF NoTimer
<1>8. CASE next # Never
  <2>1. next - now \in Nat /\ MaxDelay \in Nat /\ next \in Nat
    BY <1>1, <1>3, <1>8, SchedulesAssumption
  <2>2. Min({next - now, MaxDelay}) \in 0 .. MaxDelay /\ now + Min({next - now, MaxDelay}) <= next
    BY <2>1, <1>1, MinOfPair
  <2>3. timer' = [rev |-> j.rev, left |-> Min({next - now, MaxDelay})] /\ timer'.rev # 0
    BY <1>5, <1>8 DEF SoundRow
  <2> QED BY <1>1, <1>6, <2>2, <2>3 DEF NoTimer
<1> QED BY <1>7, <1>8

LEMMA DueTimes ==
  ASSUME NEW j, SoundRow(j), now \in Times, Due(j) # {}
  PROVE  /\ LatestDue(j) \in Times /\ LatestDue(j) \in Nat
         /\ LatestDue(j) > j.cursor /\ LatestDue(j) <= now
         /\ \A q \in j.cron : q <= now => q <= LatestDue(j)
<1>1. j.cursor \in Nat /\ now \in Nat /\ j.cron \in Schedules
  BY TimesAreNaturals DEF SoundRow, JobType
<1>2. Due(j) \in SUBSET (0 .. MaxTime)
  BY <1>1, LaterTimes DEF Due, Times
<1>3. LatestDue(j) \in Due(j) /\ \A q \in Due(j) : LatestDue(j) >= q
  BY <1>2, MaxOf, SchedulesAssumption DEF LatestDue
<1>4. LatestDue(j) > j.cursor /\ LatestDue(j) <= now /\ LatestDue(j) \in Times
  BY <1>1, <1>3, LaterTimes DEF Due
<1>5. LatestDue(j) \in Nat
  BY <1>4, TimesAreNaturals
<1>6. ASSUME NEW q \in j.cron, q <= now PROVE q <= LatestDue(j)
  <2>1. q \in Nat
    BY <1>1, TimesAreNaturals
  <2>2. CASE q <= j.cursor
    BY <1>1, <1>4, <1>5, <2>1, <2>2
  <2>3. CASE q > j.cursor
    BY <1>3, <1>5, <1>6, <2>1, <2>3 DEF Due, Later
  <2> QED BY <1>1, <2>1, <2>2, <2>3
<1> QED BY <1>4, <1>5, <1>6

LEMMA ConsideredRow ==
  ASSUME NEW j, SoundRow(j), NEW o \in Times, o > j.cursor, o <= now, now \in Times
  PROVE  /\ SoundRow(Claimed(j, o)) /\ SoundRow(Skipped(j, o)) /\ SoundRow(Repeated(j, o))
         /\ Claimed(j, o).cursor = o
         /\ \A k \in {Claimed(j, o), Skipped(j, o), Repeated(j, o)} :
              k.rev = j.rev /\ k.enabled = j.enabled /\ k.cursor >= j.cursor /\ k.cron = j.cron
<1>1. /\ j \in JobType /\ j.cursor \in Nat /\ j.updated \in Nat /\ now \in Nat /\ o \in Nat
      /\ KeyOf[o] \in Keys
  BY TimesAreNaturals DEF SoundRow, JobType
<1>2. Max({j.updated, now}) \in Times /\ Max({j.updated, now}) >= now
  BY <1>1, MaxOfPair DEF SoundRow, JobType
<1>3. Max({j.cursor, o}) = o
  BY <1>1, MaxOfPair
<1>4. Max({j.updated, now}) \in Nat
  BY <1>2, TimesAreNaturals
<1>5. /\ Claimed(j, o) = [j EXCEPT !.cursor = o, !.last = KeyOf[o], !.updated = Max({j.updated, now})]
      /\ Skipped(j, o) = [j EXCEPT !.cursor = o, !.updated = Max({j.updated, now})]
  <2>1. Skipped(j, o) = [j EXCEPT !.cursor = Max({j.cursor, o}), !.updated = Max({j.updated, now})]
    BY Zenon DEF Skipped
  <2>2. Claimed(j, o) = [j EXCEPT !.cursor = IF o >= j.cursor THEN o ELSE j.cursor,
                                  !.last = IF o >= j.cursor THEN KeyOf[o] ELSE j.last,
                                  !.updated = Max({j.updated, now})]
    BY Zenon DEF Claimed
  <2>3. o >= j.cursor
    BY <1>1
  <2> QED BY <1>3, <2>1, <2>2, <2>3
<1> DEFINE mx == Max({j.updated, now})
<1> HIDE DEF mx
<1>9. /\ Claimed(j, o) = [j EXCEPT !.cursor = o, !.last = KeyOf[o], !.updated = mx]
      /\ Skipped(j, o) = [j EXCEPT !.cursor = o, !.updated = mx]
      /\ mx \in Times /\ mx \in Nat /\ mx >= now
  BY <1>2, <1>4, <1>5 DEF mx
<1>6. SoundRow(Claimed(j, o)) /\ SoundRow(Skipped(j, o))
  <2>1. Claimed(j, o) \in JobType /\ Skipped(j, o) \in JobType
    BY <1>1, <1>9 DEF JobType
  <2>2. /\ Claimed(j, o).cursor = o /\ Claimed(j, o).updated = mx
        /\ Skipped(j, o).cursor = o /\ Skipped(j, o).updated = mx
        /\ Claimed(j, o).rev = j.rev /\ Skipped(j, o).rev = j.rev
        /\ Claimed(j, o).enabled = j.enabled /\ Skipped(j, o).enabled = j.enabled
        /\ Claimed(j, o).deleted = j.deleted /\ Skipped(j, o).deleted = j.deleted
    BY <1>1, <1>9 DEF JobType
  <2>3. o <= mx
    BY <1>1, <1>9
  <2> QED BY <2>1, <2>2, <2>3 DEF SoundRow
<1>7. Claimed(j, o).cursor = o /\ Skipped(j, o).cursor = o
      /\ \A k \in {Claimed(j, o), Skipped(j, o)} :
            k.rev = j.rev /\ k.enabled = j.enabled /\ k.cron = j.cron
  BY <1>1, <1>9 DEF JobType
<1>8. Repeated(j, o) \in {j, Skipped(j, o)}
  BY DEF Repeated
<1> QED BY <1>1, <1>6, <1>7, <1>8

\* What an evaluation of the row j leaves behind.
Evaluated(j) ==
  /\ SoundRow(job') /\ job'.rev = j.rev /\ job'.enabled = j.enabled
  /\ timer' \in [rev : Nat, left : 0 .. MaxDelay]
  /\ timer' # NoTimer => timer'.rev = j.rev
  /\ job'.next # Never => timer' # NoTimer /\ now + timer'.left <= job'.next
  /\ claims' \in [Keys -> Nat] /\ (\A k \in Keys : claims'[k] <= 1)
  /\ claimed' \subseteq Times /\ (\A o \in claimed' : o <= job'.cursor)
  /\ \A o \in claimed' \ claimed : o <= now /\ \A q \in j.cron : q <= now => q <= o

Ready(j) ==
  /\ SoundRow(j) /\ now \in Times
  /\ claims \in [Keys -> Nat] /\ (\A k \in Keys : claims[k] <= 1)
  /\ claimed \subseteq Times /\ (\A o \in claimed : o <= j.cursor)

LEMMA CatchUp ==
  ASSUME NEW j, Ready(j), CatchUpAndSchedule(j)
  PROVE  Evaluated(j)
<1>1. /\ SoundRow(j) /\ j \in JobType /\ now \in Times /\ j.cursor \in Nat /\ now \in Nat
      /\ \A o \in claimed : o \in Nat
  BY TimesAreNaturals DEF Ready, SoundRow, JobType
<1>2. CASE ~ authorized
  <2>1. job' = [j EXCEPT !.next = Never] /\ timer' = NoTimer /\ UNCHANGED <<claims, claimed>>
    BY <1>2 DEF CatchUpAndSchedule
  <2>2. SoundRow(job') /\ job'.rev = j.rev /\ job'.enabled = j.enabled /\ job'.cursor = j.cursor
        /\ job'.next = Never
    BY <1>1, <2>1 DEF SoundRow, JobType
  <2>3. NoTimer \in [rev : Nat, left : 0 .. MaxDelay]
    BY SchedulesAssumption DEF NoTimer
  <2> QED BY <2>1, <2>2, <2>3 DEF Evaluated, Ready
<1>3. ASSUME authorized, NEW k, ScheduleNext(k), SoundRow(k), k.cursor >= j.cursor,
             k.rev = j.rev, k.enabled = j.enabled, UNCHANGED <<claims, claimed>>
      PROVE  Evaluated(j)
  <2>1. k.cursor \in Nat
    BY <1>3, TimesAreNaturals DEF SoundRow, JobType
  <2>2. \A o \in claimed : o <= k.cursor
    BY <1>1, <1>3, <2>1 DEF Ready
  <2> QED BY <1>1, <1>3, <2>2, ScheduleNextArms DEF Evaluated, Ready
<1>4. CASE authorized /\ Due(j) = {}
  BY <1>1, <1>3, <1>4 DEF CatchUpAndSchedule
<1>5. CASE authorized /\ Due(j) # {}
  <2> DEFINE o == LatestDue(j)
  <2>1. /\ o \in Times /\ o \in Nat /\ o > j.cursor /\ o <= now
        /\ \A q \in j.cron : q <= now => q <= o
    BY <1>1, <1>5, DueTimes
  <2>2. /\ SoundRow(Claimed(j, o)) /\ SoundRow(Skipped(j, o)) /\ SoundRow(Repeated(j, o))
        /\ Claimed(j, o).cursor = o
        /\ \A k \in {Claimed(j, o), Skipped(j, o), Repeated(j, o)} :
             k.rev = j.rev /\ k.enabled = j.enabled /\ k.cursor >= j.cursor /\ k.cron = j.cron
    BY <1>1, <2>1, ConsideredRow
  <2>3. CASE ScheduleNext(Skipped(j, o)) /\ UNCHANGED <<claims, claimed>>
    BY <1>3, <1>5, <2>2, <2>3
  <2>4. CASE ScheduleNext(Repeated(j, o)) /\ UNCHANGED <<claims, claimed>>
    BY <1>3, <1>5, <2>2, <2>4
  <2>5. CASE /\ Claimable(o) /\ ScheduleNext(Claimed(j, o))
             /\ claims' = [claims EXCEPT ![KeyOf[o]] = @ + 1] /\ claimed' = claimed \cup {o}
    <3>1. claims[KeyOf[o]] = 0 /\ KeyOf[o] \in Keys
      BY <2>1, <2>5, TimesAreNaturals DEF Claimable
    <3>2. claims' \in [Keys -> Nat] /\ \A k \in Keys : claims'[k] <= 1
      BY <2>5, <3>1 DEF Ready
    <3>3. \A q \in claimed' : q <= o
      BY <1>1, <2>1, <2>5 DEF Ready
    <3>4. claimed' \subseteq Times
      BY <2>1, <2>5 DEF Ready
    <3>5. \A q \in claimed' \ claimed : q = o
      BY <2>5
    <3>6. /\ SoundRow(job') /\ timer' \in [rev : Nat, left : 0 .. MaxDelay]
          /\ job'.rev = j.rev /\ job'.enabled = j.enabled /\ job'.cursor = o
          /\ timer' # NoTimer => timer'.rev = j.rev
          /\ job'.next # Never => timer' # NoTimer /\ now + timer'.left <= job'.next
      BY <1>1, <2>2, <2>5, ScheduleNextArms
    <3> QED BY <2>1, <3>2, <3>3, <3>4, <3>5, <3>6 DEF Evaluated
  <2> QED BY <1>5, <2>3, <2>4, <2>5 DEF CatchUpAndSchedule
<1> QED BY <1>2, <1>4, <1>5 DEF Ready

\* A timer that an evaluation armed is the one the row asks for.
LEMMA EvaluatedKeeps ==
  ASSUME NEW j, Evaluated(j), IInv, started', j.enabled, now' = now,
         now' \in Times, authorized' \in BOOLEAN, started' \in BOOLEAN,
         jumps' = jumps, restarts' = restarts
  PROVE  IInv'
<1>1. TypeOK'
  BY DEF Evaluated, IInv, TypeOK, SoundRow, JobType
<1>2. NextRunArmed' /\ NoStaleTimer'
  BY DEF Evaluated, NextRunArmed, NoStaleTimer
<1> QED BY <1>1, <1>2 DEF Evaluated, IInv, MinuteOnce, ClaimedBehindCursor

LEMMA UntimedKeeps ==
  ASSUME IInv, SoundRow(job'), timer' = NoTimer, UNCHANGED <<claims, claimed>>,
         job'.cursor >= job.cursor, ~ started' \/ ~ job'.enabled \/ job'.next = Never,
         now' = now, authorized' \in BOOLEAN, started' \in BOOLEAN,
         jumps' \in Nat, restarts' \in Nat
  PROVE  IInv'
<1>1. NoTimer \in [rev : Nat, left : 0 .. MaxDelay]
  BY SchedulesAssumption DEF NoTimer
<1>2. TypeOK'
  BY <1>1 DEF IInv, TypeOK, SoundRow, JobType
<1>3. ClaimedBehindCursor'
  <2>1. job.cursor \in Nat /\ job'.cursor \in Nat /\ \A o \in claimed : o \in Nat
    BY TimesAreNaturals DEF IInv, TypeOK, SoundRow, JobType
  <2> QED BY <2>1 DEF IInv, ClaimedBehindCursor
<1> QED BY <1>2, <1>3 DEF IInv, MinuteOnce, NoStaleTimer, NextRunArmed

LEMMA ReloadKeeps ==
  ASSUME IInv, NEW j, SoundRow(j), j.cursor >= job.cursor, Reload(j),
         now' = now, authorized' \in BOOLEAN, started' = started,
         jumps' = jumps, restarts' = restarts
  PROVE  IInv'
<1>1. Ready(j)
  <2>1. job.cursor \in Nat /\ j.cursor \in Nat /\ \A o \in claimed : o \in Nat
    BY TimesAreNaturals DEF IInv, TypeOK, SoundRow, JobType
  <2> QED BY <2>1 DEF IInv, Ready, TypeOK, MinuteOnce, ClaimedBehindCursor
<1>2. CASE started /\ j.enabled /\ ~ j.deleted
  <2>1. Evaluated(j)
    BY <1>1, <1>2, CatchUp DEF Reload
  <2> QED BY <1>2, <2>1, EvaluatedKeeps DEF IInv, TypeOK
<1>3. CASE ~ (started /\ j.enabled /\ ~ j.deleted)
  <2>1. job' = j /\ timer' = NoTimer /\ UNCHANGED <<claims, claimed>>
    BY <1>3 DEF Reload
  <2>2. ~ started' \/ ~ job'.enabled
    BY <1>3, <2>1 DEF SoundRow
  <2> QED BY <2>1, <2>2, UntimedKeeps DEF IInv, TypeOK
<1> QED BY <1>2, <1>3

-----------------------------------------------------------------------------
(* Every step.                                                             *)

\* An edit moves the cursor to the time of the row's last update, or later.
LEMMA EditedRow ==
  ASSUME IInv
  PROVE  /\ SoundRow(Edited) /\ Edited.cursor >= job.cursor
         /\ Edited.deleted = job.deleted /\ Edited.cron = job.cron
<1>1. /\ job \in JobType /\ job.cursor \in Nat /\ job.updated \in Nat /\ now \in Nat
      /\ now \in Times /\ job.rev + 1 \in Nat /\ job.rev + 1 # 0
      /\ job.cursor <= job.updated
  BY TimesAreNaturals DEF IInv, TypeOK, SoundRow, JobType
<1> DEFINE mx == Max({job.updated, now})
<1>2. mx \in Times /\ mx \in Nat /\ mx >= job.updated
  <2>1. mx = IF job.updated >= now THEN job.updated ELSE now
    BY <1>1, MaxOfPair
  <2> HIDE DEF mx
  <2> QED BY <1>1, <2>1 DEF JobType
<1>3. Edited = [job EXCEPT !.rev = job.rev + 1, !.updated = mx, !.cursor = mx,
                           !.last = Never, !.next = Never]
  BY Zenon DEF Edited
<1> HIDE DEF mx
<1>4. Edited \in JobType
  BY <1>1, <1>2, <1>3 DEF JobType
<1>5. /\ Edited.rev = job.rev + 1 /\ Edited.cursor = mx /\ Edited.updated = mx
      /\ Edited.enabled = job.enabled /\ Edited.deleted = job.deleted
      /\ Edited.cron = job.cron
  BY <1>1, <1>3 DEF JobType
<1>6. mx >= job.cursor
  BY <1>1, <1>2
<1> QED BY <1>1, <1>2, <1>4, <1>5, <1>6 DEF SoundRow, IInv

LEMMA EditedTo ==
  ASSUME IInv, Editable, NEW b \in BOOLEAN, NEW s \in Schedules, NEW p \in {"run_once", "skip"}
  PROVE  /\ SoundRow([Edited EXCEPT !.enabled = b])
         /\ [Edited EXCEPT !.enabled = b].cursor >= job.cursor
         /\ SoundRow([Edited EXCEPT !.enabled = FALSE, !.cron = s, !.policy = p])
         /\ [Edited EXCEPT !.enabled = FALSE, !.cron = s, !.policy = p].cursor >= job.cursor
<1>1. SoundRow(Edited) /\ Edited.cursor >= job.cursor /\ ~ Edited.deleted
  BY EditedRow DEF Editable
<1> QED BY <1>1 DEF SoundRow, JobType

LEMMA EditsKeep ==
  ASSUME IInv, UpdateJob \/ EnableJob \/ PauseJob \/ RebindJob \/ TombstoneJob
  PROVE  IInv'
<1>1. CASE UpdateJob
  <2>1. PICK s \in Schedules, p \in {"run_once", "skip"} :
          Reload([Edited EXCEPT !.enabled = FALSE, !.cron = s, !.policy = p])
    BY <1>1 DEF UpdateJob
  <2> QED BY <1>1, <2>1, EditedTo, ReloadKeeps DEF UpdateJob, IInv, TypeOK
<1>2. CASE EnableJob
  BY <1>2, EditedTo, ReloadKeeps DEF EnableJob, IInv, TypeOK
<1>3. CASE PauseJob
  BY <1>3, EditedTo, ReloadKeeps DEF PauseJob, IInv, TypeOK
<1>4. CASE RebindJob
  BY <1>4, EditedTo, ReloadKeeps DEF RebindJob, IInv, TypeOK
<1>5. CASE TombstoneJob
  <2> DEFINE j == [job EXCEPT !.rev = @ + 1, !.enabled = FALSE, !.deleted = TRUE,
                              !.updated = Max({@, now}), !.next = Never]
             mx == Max({job.updated, now})
  <2>1. /\ job \in JobType /\ job.cursor \in Nat /\ job.updated \in Nat /\ now \in Nat
        /\ now \in Times /\ job.cursor <= job.updated
        /\ job.rev + 1 \in Nat /\ job.rev + 1 # 0
    BY TimesAreNaturals DEF IInv, TypeOK, SoundRow, JobType
  <2>2. mx \in Times /\ mx \in Nat /\ mx >= job.updated
    <3>1. mx = IF job.updated >= now THEN job.updated ELSE now
      BY <2>1, MaxOfPair
    <3> HIDE DEF mx
    <3> QED BY <2>1, <3>1 DEF JobType
  <2>3. j = [job EXCEPT !.rev = job.rev + 1, !.enabled = FALSE, !.deleted = TRUE,
                        !.updated = mx, !.next = Never]
    BY Zenon
  <2>4. Reload(j)
    BY <1>5 DEF TombstoneJob
  <2> HIDE DEF j, mx
  <2>5. j \in JobType /\ j.rev # 0 /\ ~ j.enabled /\ j.cursor = job.cursor /\ j.updated = mx
    BY <2>1, <2>2, <2>3 DEF JobType
  <2>6. SoundRow(j) /\ j.cursor >= job.cursor
    BY <2>1, <2>2, <2>5 DEF SoundRow
  <2> QED BY <1>5, <2>4, <2>6, ReloadKeeps DEF TombstoneJob, IInv, TypeOK
<1> QED BY <1>1, <1>2, <1>3, <1>4, <1>5

LEMMA PolicyKeeps == ASSUME IInv, ChangePolicy PROVE IInv'
<1>1. authorized' \in BOOLEAN /\ UNCHANGED <<now, claims, claimed, started, jumps, restarts>>
  BY DEF ChangePolicy
<1>2. CASE authorized /\ started /\ job.enabled
  <2>1. job' = [job EXCEPT !.next = Never] /\ timer' = NoTimer
    BY <1>2 DEF ChangePolicy
  <2>2. SoundRow(job') /\ job'.cursor = job.cursor /\ job'.next = Never /\ job.cursor \in Nat
    BY <2>1, TimesAreNaturals DEF IInv, SoundRow, JobType
  <2> QED BY <1>1, <2>1, <2>2, UntimedKeeps DEF IInv, TypeOK
<1>3. CASE authorized /\ ~ (started /\ job.enabled)
  <2>1. job' = job /\ timer' = NoTimer /\ job.cursor \in Nat
    BY <1>3, TimesAreNaturals DEF ChangePolicy, IInv, SoundRow, JobType
  <2> QED BY <1>1, <1>3, <2>1, UntimedKeeps DEF IInv, TypeOK
<1>4. CASE ~ authorized
  <2>1. job' = job /\ timer' = timer
    BY <1>4 DEF ChangePolicy
  <2> QED BY <1>1, <2>1
          DEF IInv, TypeOK, SoundRow, MinuteOnce, ClaimedBehindCursor, NoStaleTimer, NextRunArmed
<1> QED BY <1>2, <1>3, <1>4

LEMMA ReadyNow == IInv => Ready(job)
BY DEF IInv, Ready, TypeOK, MinuteOnce, ClaimedBehindCursor

LEMMA TimerKeeps == ASSUME IInv, TimerFires PROVE IInv'
<1>1. UNCHANGED <<now, authorized, started, jumps, restarts>> /\ job.cursor \in Nat
  BY TimesAreNaturals DEF TimerFires, IInv, SoundRow, JobType
<1>2. CASE started /\ job.enabled /\ ~ job.deleted /\ job.rev = timer.rev
  <2>1. Evaluated(job)
    BY <1>2, ReadyNow, CatchUp DEF TimerFires
  <2> QED BY <1>1, <1>2, <2>1, EvaluatedKeeps DEF IInv, TypeOK
<1>3. CASE ~ (started /\ job.enabled /\ ~ job.deleted /\ job.rev = timer.rev)
  <2>1. timer' = NoTimer /\ UNCHANGED <<job, claims, claimed>> /\ timer # NoTimer
    BY <1>3 DEF TimerFires
  <2>2. FALSE
    BY <1>3, <2>1 DEF IInv, NoStaleTimer, SoundRow
  <2> QED BY <2>2
<1> QED BY <1>2, <1>3

LEMMA StartKeeps == ASSUME IInv, Start PROVE IInv'
<1>1. UNCHANGED <<now, authorized, jumps, restarts>> /\ started' = TRUE /\ ~ started
  BY DEF Start
<1>2. CASE job.enabled /\ ~ job.deleted
  <2>1. Evaluated(job)
    BY <1>2, ReadyNow, CatchUp DEF Start
  <2> QED BY <1>1, <1>2, <2>1, EvaluatedKeeps DEF IInv, TypeOK
<1>3. CASE ~ (job.enabled /\ ~ job.deleted)
  <2>1. UNCHANGED <<job, timer, claims, claimed>> /\ ~ job.enabled
    BY <1>3 DEF Start, IInv, SoundRow
  <2> QED BY <1>1, <2>1
          DEF IInv, TypeOK, SoundRow, MinuteOnce, ClaimedBehindCursor, NoStaleTimer, NextRunArmed
<1> QED BY <1>2, <1>3

LEMMA StopKeeps == ASSUME IInv, Stop PROVE IInv'
<1>1. /\ started' = FALSE /\ timer' = NoTimer /\ restarts' \in Nat
      /\ UNCHANGED <<now, job, authorized, claims, claimed, jumps>>
      /\ job.cursor \in Nat
  BY TimesAreNaturals DEF Stop, IInv, TypeOK, SoundRow, JobType
<1>2. SoundRow(job') /\ job'.cursor >= job.cursor /\ authorized' \in BOOLEAN /\ jumps' \in Nat
  BY <1>1 DEF IInv, TypeOK
<1> QED BY <1>1, <1>2, UntimedKeeps

\* A timer runs down with the clock.
LEMMA RunningTimer ==
  ASSUME IInv
  PROVE  /\ Running \in [rev : Nat, left : 0 .. MaxDelay] /\ Running.rev = timer.rev
         /\ Running.left = IF timer.left = 0 THEN 0 ELSE timer.left - 1
         /\ timer = NoTimer => Running = NoTimer
<1>1. timer \in [rev : Nat, left : 0 .. MaxDelay] /\ timer.left \in Nat /\ MaxDelay \in Nat
  BY SchedulesAssumption DEF IInv, TypeOK
<1> DEFINE left == Max({timer.left - 1, 0})
<1>2. left = IF timer.left = 0 THEN 0 ELSE timer.left - 1
  <2>1. left = IF timer.left - 1 >= 0 THEN timer.left - 1 ELSE 0
    BY <1>1, MaxOfPair
  <2> HIDE DEF left
  <2> QED BY <1>1, <2>1
<1>3. Running = [timer EXCEPT !.left = left]
  BY Zenon DEF Running
<1> HIDE DEF left
<1> QED BY <1>1, <1>2, <1>3 DEF NoTimer

LEMMA ClockKeeps == ASSUME IInv, Tick \/ Wait PROVE IInv'
<1>1. /\ timer' = Running /\ now' \in Times /\ now' \in Nat /\ now \in Nat
      /\ UNCHANGED <<job, authorized, claims, claimed, started, jumps, restarts>>
      /\ now' = now + 1 \/ (now' = now /\ timer.left > 0)
  <2>1. now \in Nat /\ now \in Times /\ MaxTime \in Nat
    BY TimesAreNaturals, SchedulesAssumption DEF IInv, TypeOK
  <2>2. CASE Tick
    <3>1. now' = now + 1 /\ now < MaxTime
      BY <2>2 DEF Tick
    <3>2. now' \in Nat /\ now' \in Times
      BY <2>1, <3>1 DEF Times
    <3> QED BY <2>1, <2>2, <3>1, <3>2 DEF Tick
  <2>3. CASE Wait
    BY <2>1, <2>3 DEF Wait
  <2> QED BY <2>2, <2>3
<1>2. TypeOK'
  BY <1>1, RunningTimer DEF IInv, TypeOK
<1>3. NoStaleTimer'
  BY <1>1, RunningTimer DEF IInv, NoStaleTimer
<1>4. NextRunArmed'
  <2>1. timer.left \in Nat /\ (job.next # Never => job.next \in Nat)
    BY TimesAreNaturals DEF IInv, TypeOK
  <2>2. ASSUME started, job.enabled, job.next # Never
        PROVE  timer' # NoTimer /\ timer'.rev = job.rev
    BY <1>1, <2>2, RunningTimer DEF IInv, NextRunArmed, SoundRow, NoTimer
  <2>3. ASSUME started, job.enabled, job.next # Never, jumps = 0
        PROVE  timer'.left = 0 \/ now' + timer'.left <= job.next
    <3>1. timer.left = 0 \/ now + timer.left <= job.next
      BY <2>3 DEF IInv, NextRunArmed
    <3>2. timer'.left = IF timer.left = 0 THEN 0 ELSE timer.left - 1
      BY <1>1, RunningTimer
    <3> QED BY <1>1, <2>1, <2>3, <3>1, <3>2
  <2> QED BY <1>1, <2>2, <2>3 DEF NextRunArmed
<1> QED BY <1>1, <1>2, <1>3, <1>4 DEF IInv, SoundRow, MinuteOnce, ClaimedBehindCursor

LEMMA JumpKeeps == ASSUME IInv, ClockJumps PROVE IInv'
<1>1. /\ now' \in Times /\ jumps' \in Nat /\ jumps' # 0
      /\ UNCHANGED <<job, authorized, claims, claimed, timer, started, restarts>>
  BY DEF ClockJumps, IInv, TypeOK
<1> QED BY <1>1
        DEF IInv, TypeOK, SoundRow, MinuteOnce, ClaimedBehindCursor, NoStaleTimer, NextRunArmed

LEMMA StepKeeps == IInv /\ [Next]_vars => IInv'
<1> SUFFICES ASSUME IInv, [Next]_vars PROVE IInv'
  OBVIOUS
<1>1. CASE UNCHANGED vars
  BY <1>1
     DEF vars, IInv, TypeOK, SoundRow, MinuteOnce, ClaimedBehindCursor, NoStaleTimer, NextRunArmed
<1> QED BY <1>1, EditsKeep, PolicyKeeps, TimerKeeps, StartKeeps, StopKeeps, ClockKeeps, JumpKeeps
        DEF Next

LEMMA Invariant == Spec => []IInv
BY Initially, StepKeeps, PTL DEF Spec

-----------------------------------------------------------------------------
(* What follows.                                                           *)

(* Every reachable state of the row, its runs and its timer is well typed. *)
THEOREM TypeCorrect == Spec => []TypeOK
<1>1. IInv => TypeOK
  BY DEF IInv
<1> QED BY <1>1, Invariant, PTL

(* A wall minute has one scheduled run, also when the clock is set back or  *)
(* the minute is repeated.                                                 *)
THEOREM MinutesOnce == Spec => []MinuteOnce
<1>1. IInv => MinuteOnce
  BY DEF IInv
<1> QED BY <1>1, Invariant, PTL

(* No edit, restart or correction of the clock moves the cursor back over   *)
(* an occurrence that has a run.                                           *)
THEOREM CursorCovers == Spec => []ClaimedBehindCursor
<1>1. IInv => ClaimedBehindCursor
  BY DEF IInv
<1> QED BY <1>1, Invariant, PTL

(* The armed timer is always the row's own.                                *)
THEOREM TimersCurrent == Spec => []NoStaleTimer
<1>1. IInv => NoStaleTimer
  BY DEF IInv
<1> QED BY <1>1, Invariant, PTL

(* No sequence of edits, wake-ups and restarts loses the timer of the next  *)
(* run, or lets it come late on a clock that is not corrected.             *)
THEOREM NextRunsArmed == Spec => []NextRunArmed
<1>1. IInv => NextRunArmed
  BY DEF IInv
<1> QED BY <1>1, Invariant, PTL

(* Of the occurrences that were missed the latest is claimed, and none of   *)
(* the future.                                                             *)
THEOREM LatestClaimed == Spec => ClaimsLatest
<1>1. ASSUME IInv, [Next]_vars
      PROVE  \A o \in claimed' \ claimed : o <= now /\ \A q \in job.cron : q <= now => q <= o
  <2>1. claimed' = claimed \/ UpdateJob \/ EnableJob \/ PauseJob \/ RebindJob \/ TombstoneJob
        \/ TimerFires \/ Start
    BY <1>1 DEF Next, vars, ChangePolicy, Stop, Tick, Wait, ClockJumps
  <2>2. ASSUME NEW j, Ready(j), j.cron = job.cron, CatchUpAndSchedule(j)
        PROVE  \A o \in claimed' \ claimed : o <= now /\ \A q \in job.cron : q <= now => q <= o
    BY <2>2, CatchUp DEF Evaluated
  <2>3. CASE UpdateJob \/ PauseJob \/ RebindJob \/ TombstoneJob
    <3>1. ASSUME NEW j, Reload(j), ~ j.enabled PROVE claimed' = claimed
      BY <3>1 DEF Reload
    <3>2. PICK j : Reload(j) /\ ~ j.enabled
      <4>1. SoundRow(Edited) /\ SoundRow(job)
        BY <1>1, EditedRow DEF IInv
      <4>2. ASSUME NEW s, NEW p
            PROVE  /\ ~ [Edited EXCEPT !.enabled = FALSE, !.cron = s, !.policy = p].enabled
                   /\ ~ [Edited EXCEPT !.enabled = FALSE].enabled
                   /\ ~ [job EXCEPT !.rev = @ + 1, !.enabled = FALSE, !.deleted = TRUE,
                                    !.updated = Max({@, now}), !.next = Never].enabled
        BY <4>1 DEF SoundRow, JobType
      <4> QED BY <2>3, <4>2 DEF UpdateJob, PauseJob, RebindJob, TombstoneJob
    <3> QED BY <3>1, <3>2
  <2>4. CASE EnableJob
    <3> DEFINE j == [Edited EXCEPT !.enabled = TRUE]
    <3>1. SoundRow(j) /\ j.cursor >= job.cursor /\ Reload(j)
      BY <1>1, <2>4, EditedTo DEF EnableJob, Editable, IInv, TypeOK, JobType, SoundRow
    <3>2. j.cron = job.cron
      <4>1. job \in JobType /\ Edited \in JobType
        BY <1>1, EditedRow DEF IInv, SoundRow
      <4>2. Edited.cron = job.cron
        BY <1>1, EditedRow
      <4> QED BY <4>1, <4>2 DEF JobType
    <3> HIDE DEF j
    <3>3. Ready(j)
      <4>1. job.cursor \in Nat /\ j.cursor \in Nat /\ \A o \in claimed : o \in Nat
        BY <1>1, <3>1, TimesAreNaturals DEF IInv, TypeOK, SoundRow, JobType
      <4> QED BY <1>1, <3>1, <4>1 DEF IInv, Ready, TypeOK, MinuteOnce, ClaimedBehindCursor
    <3> QED BY <2>2, <3>1, <3>2, <3>3 DEF Reload
  <2>5. CASE TimerFires \/ Start
    BY <1>1, <2>2, <2>5, ReadyNow DEF TimerFires, Start
  <2> QED BY <2>1, <2>3, <2>4, <2>5
<1> QED BY <1>1, Invariant, PTL DEF Spec, ClaimsLatest
=============================================================================
