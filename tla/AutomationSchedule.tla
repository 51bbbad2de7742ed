--------------------------- MODULE AutomationSchedule ---------------------------
(* The cron cursor of one protected-automation job                         *)
(* (protected-automation/scheduler.ts and the schedule fields of its row). *)
(* The row keeps a cursor: every occurrence up to it has been considered.  *)
(* A wake-up evaluates the interval (cursor, now] and arms the next timer. *)
(* The wall clock may be set back, and it may jump while a timer stands    *)
(* still (a suspended host).  Two occurrences may have the same local      *)
(* wall minute, their key, when daylight saving time ends.                 *)
EXTENDS Integers, FiniteSets, FiniteSetsExt

CONSTANTS Schedules,    \* cron expressions, each the set of its occurrences
          KeyOf,        \* protectedAutomationOccurrenceKey
          MaxTime,      \* bound on the wall clock
          MaxDelay,     \* MAX_TIMER_MS
          MaxRev,       \* bound on edits of the job
          MaxJumps,     \* bound on corrections of the clock, both ways
          MaxRestarts   \* bound on restarts

Times == 0 .. MaxTime

ASSUME SchedulesAssumption ==
  /\ MaxTime \in Nat /\ MaxDelay \in Nat \ {0}
  /\ \A s \in Schedules : s \subseteq Times
  /\ DOMAIN KeyOf = Times

Never == -1
NoTimer == [rev |-> 0, left |-> 0]

VARIABLES
  now,       \* Date.now()
  job,       \* the row: enabled, deleted, rev, cron, policy, cursor, last, updated, next
  authorized,\* the pair's authority is the job's
  claims,    \* scheduled run rows: a bag of keys, as a function to counts
  claimed,   \* the timestamps of those rows
  timer,     \* the armed timer: its revision, and the time it has left
  started,   \* the scheduler is started
  jumps, restarts

vars == <<now, job, authorized, claims, claimed, timer, started, jumps, restarts>>

Keys == {KeyOf[t] : t \in Times}

Init ==
  /\ now = 0 /\ authorized = TRUE
  /\ \E s \in Schedules, p \in {"run_once", "skip"} :
       job = [enabled |-> FALSE, deleted |-> FALSE, rev |-> 1, cron |-> s, policy |-> p,
              cursor |-> 0, last |-> Never, updated |-> 0, next |-> Never]
  /\ claims = [k \in Keys |-> 0] /\ claimed = {}
  /\ timer = NoTimer /\ started = FALSE /\ jumps = 0 /\ restarts = 0

Later(s, t) == {o \in s : o > t}
Earliest(s) == IF s = {} THEN Never ELSE Min(s)

---------------------------------------------------------------------------
(* scheduleNext, for the row j as the evaluation has left it.              *)
ScheduleNext(j) ==
  LET next == Earliest(Later(j.cron, Max({now, j.cursor}))) IN
  /\ job' = [j EXCEPT !.next = next]
  /\ timer' = IF next = Never THEN NoTimer
              ELSE [rev |-> j.rev, left |-> Min({next - now, MaxDelay})]

(* enqueueScheduled: the row of the run claims its key and moves the       *)
(* cursor in one commit.  Whether it is queued or skipped beside an active *)
(* run does not matter here.                                               *)
Claimed(j, o) ==
  [j EXCEPT !.cursor = IF o >= @ THEN o ELSE @,
            !.last = IF o >= j.cursor THEN KeyOf[o] ELSE @,
            !.updated = Max({@, now})]

(* advanceProtectedAutomationSkippedCursor.                                *)
Skipped(j, o) == [j EXCEPT !.cursor = Max({@, o}), !.updated = Max({@, now})]

(* The claim threw because the key has a row: a repeated wall minute.      *)
Repeated(j, o) == IF j.last = KeyOf[o] /\ j.cursor < o THEN Skipped(j, o) ELSE j

(* Mutant of Claimable: the timestamp is looked for, not its minute.       *)
BugTimestampOnly(o) == o \notin claimed

(* createRunDraft throws when a row has the key of the occurrence.         *)
Claimable(o) == claims[KeyOf[o]] = 0

Due(j) == {o \in Later(j.cron, j.cursor) : o <= now}

LatestDue(j) == Max(Due(j))

(* catchUpAndSchedule: only the latest due occurrence counts.              *)
CatchUpAndSchedule(j) ==
  \/ /\ ~ authorized
     /\ job' = [j EXCEPT !.next = Never] /\ timer' = NoTimer
     /\ UNCHANGED <<claims, claimed>>
  \/ /\ authorized /\ Due(j) = {}
     /\ ScheduleNext(j)
     /\ UNCHANGED <<claims, claimed>>
  \/ /\ authorized /\ Due(j) # {}
     /\ LET o == LatestDue(j) IN
        \/ /\ j.policy = "skip"
           /\ ScheduleNext(Skipped(j, o))
           /\ UNCHANGED <<claims, claimed>>
        \/ /\ j.policy = "run_once" /\ Claimable(o)
           /\ ScheduleNext(Claimed(j, o))
           /\ claims' = [claims EXCEPT ![KeyOf[o]] = @ + 1]
           /\ claimed' = claimed \cup {o}
        \/ /\ j.policy = "run_once" /\ ~ Claimable(o)
           /\ ScheduleNext(Repeated(j, o))
           /\ UNCHANGED <<claims, claimed>>

(* reload(jobId).                                                          *)
Reload(j) ==
  IF started /\ j.enabled /\ ~ j.deleted THEN CatchUpAndSchedule(j)
  ELSE job' = j /\ timer' = NoTimer /\ UNCHANGED <<claims, claimed>>

---------------------------------------------------------------------------
(* What update, enable, pause and rebind do to the schedule fields.        *)
Edited == [job EXCEPT !.rev = @ + 1, !.updated = Max({@, now}), !.cursor = Max({job.updated, now}),
                      !.last = Never, !.next = Never]

Editable == ~ job.deleted /\ job.rev < MaxRev

UpdateJob ==
  /\ Editable /\ authorized
  /\ \E s \in Schedules, p \in {"run_once", "skip"} :
       Reload([Edited EXCEPT !.enabled = FALSE, !.cron = s, !.policy = p])
  /\ UNCHANGED <<now, authorized, started, jumps, restarts>>

EnableJob ==
  /\ Editable /\ authorized
  /\ Reload([Edited EXCEPT !.enabled = TRUE])
  /\ UNCHANGED <<now, authorized, started, jumps, restarts>>

PauseJob ==
  /\ Editable
  /\ Reload([Edited EXCEPT !.enabled = FALSE])
  /\ UNCHANGED <<now, authorized, started, jumps, restarts>>

(* rebind gives the job the pair's present authority.                      *)
RebindJob ==
  /\ Editable /\ ~ authorized
  /\ authorized' = TRUE
  /\ Reload([Edited EXCEPT !.enabled = FALSE])
  /\ UNCHANGED <<now, started, jumps, restarts>>

TombstoneJob ==
  /\ Editable
  /\ Reload([job EXCEPT !.rev = @ + 1, !.enabled = FALSE, !.deleted = TRUE,
                        !.updated = Max({@, now}), !.next = Never])
  /\ UNCHANGED <<now, authorized, started, jumps, restarts>>

(* latchPolicy after a policy change reloads the job whose authority has   *)
(* gone; a return of the same authority reloads nothing.                   *)
ChangePolicy ==
  /\ authorized' = ~ authorized
  /\ IF authorized
       THEN IF started /\ job.enabled
              THEN /\ job' = [job EXCEPT !.next = Never] /\ timer' = NoTimer
              ELSE timer' = NoTimer /\ UNCHANGED job
       ELSE UNCHANGED <<job, timer>>
  /\ UNCHANGED <<now, claims, claimed, started, jumps, restarts>>

---------------------------------------------------------------------------
(* Mutant of TimerFires: an early wake-up is not re-armed.                 *)
BugEarlyDropped ==
  /\ timer # NoTimer /\ timer.left = 0
  /\ IF started /\ job.enabled /\ job.rev = timer.rev /\ Due(job) # {}
       THEN CatchUpAndSchedule(job)
       ELSE timer' = NoTimer /\ UNCHANGED <<job, claims, claimed>>
  /\ UNCHANGED <<now, authorized, started, jumps, restarts>>

(* The timer callback: it runs when its delay is over, or later.           *)
TimerFires ==
  /\ timer # NoTimer /\ timer.left = 0
  /\ IF started /\ job.enabled /\ ~ job.deleted /\ job.rev = timer.rev
       THEN CatchUpAndSchedule(job)
       ELSE timer' = NoTimer /\ UNCHANGED <<job, claims, claimed>>
  /\ UNCHANGED <<now, authorized, started, jumps, restarts>>

(* start(), and the latchPolicy that follows it.                           *)
Start ==
  /\ ~ started /\ started' = TRUE
  /\ IF job.enabled /\ ~ job.deleted
       THEN CatchUpAndSchedule(job)
       ELSE UNCHANGED <<job, timer, claims, claimed>>
  /\ UNCHANGED <<now, authorized, jumps, restarts>>

(* stop(), or the end of the process in any other way.                     *)
Stop ==
  /\ started /\ restarts < MaxRestarts
  /\ started' = FALSE /\ timer' = NoTimer /\ restarts' = restarts + 1
  /\ UNCHANGED <<now, job, authorized, claims, claimed, jumps>>

Running == [timer EXCEPT !.left = Max({@ - 1, 0})]

Tick ==
  /\ now < MaxTime
  /\ now' = now + 1 /\ timer' = Running
  /\ UNCHANGED <<job, authorized, claims, claimed, started, jumps, restarts>>

(* At the bound of the wall clock a timer still runs out.                  *)
Wait ==
  /\ now = MaxTime /\ timer # NoTimer /\ timer.left > 0
  /\ timer' = Running
  /\ UNCHANGED <<now, job, authorized, claims, claimed, started, jumps, restarts>>

(* The clock is set, or the host was suspended: timers do not notice.      *)
ClockJumps ==
  /\ jumps < MaxJumps /\ jumps' = jumps + 1
  /\ now' \in Times \ {now}
  /\ UNCHANGED <<job, authorized, claims, claimed, timer, started, restarts>>

Next ==
  \/ UpdateJob \/ EnableJob \/ PauseJob \/ RebindJob \/ TombstoneJob \/ ChangePolicy
  \/ TimerFires \/ Start \/ Stop \/ Tick \/ Wait \/ ClockJumps

Spec == Init /\ [][Next]_vars

(* Time goes on, timers fire, and a stopped process is started again.      *)
FairSpec == Spec /\ WF_vars(Tick) /\ WF_vars(Wait) /\ WF_vars(TimerFires) /\ WF_vars(Start)

---------------------------------------------------------------------------
(* Types.                                                                  *)
TypeOK ==
  /\ now \in Times /\ authorized \in BOOLEAN /\ started \in BOOLEAN
  /\ job \in [enabled : BOOLEAN, deleted : BOOLEAN, rev : Nat, cron : Schedules,
              policy : {"run_once", "skip"}, cursor : Times, last : Keys \cup {Never},
              updated : Times, next : Times \cup {Never}]
  /\ claims \in [Keys -> Nat] /\ claimed \subseteq Times
  /\ timer \in [rev : Nat, left : 0 .. MaxDelay]
  /\ jumps \in Nat /\ restarts \in Nat

(* An occurrence that has a run row is never due again: the cursor stays   *)
(* at or after it, through edits, restarts and a clock that is set back.   *)
ClaimedBehindCursor == \A o \in claimed : o <= job.cursor

(* A wall minute, even a repeated one, has one scheduled run.              *)
MinuteOnce == \A k \in Keys : claims[k] <= 1

(* While the scheduler runs, a job that has a next run has a timer of its  *)
(* own revision; unless the clock was corrected it is due by that run.     *)
NextRunArmed ==
  started /\ job.enabled /\ job.next # Never
    => /\ timer # NoTimer /\ timer.rev = job.rev
       /\ jumps = 0 => timer.left = 0 \/ now + timer.left <= job.next

(* A timer is left only for the job as it is: the callback of an earlier   *)
(* revision never evaluates the edited schedule.                           *)
NoStaleTimer == timer # NoTimer => started /\ job.enabled /\ timer.rev = job.rev

(* However many occurrences were missed, what is claimed is the latest one *)
(* up to the present, and never one of the future.                         *)
ClaimsLatest ==
  [][\A o \in claimed' \ claimed : o <= now /\ \A q \in job.cron : q <= now => q <= o]_vars

(* An occurrence of an enabled, authorized job is considered once its time *)
(* has come, repeated minutes included.                                    *)
Considered(o) ==
  (started /\ job.enabled /\ job.next # Never /\ o \in job.cron /\ o > job.cursor)
     ~> (job.cursor >= o \/ ~ job.enabled \/ job.next = Never \/ o \notin job.cron)
OccurrencesConsidered == \A o \in Times : Considered(o)

(* What docs/agents-and-project-settings.md:138 says: skip and run_once    *)
(* are about downtime.  So a wake-up at the very minute of an occurrence   *)
(* claims it whatever the policy is.                                       *)
OnTimeClaimed ==
  [][timer # NoTimer /\ job'.cursor > job.cursor /\ job'.cursor = now /\ job'.rev = job.rev
       => KeyOf[now] \in {KeyOf[o] : o \in claimed'}]_vars
=============================================================================
