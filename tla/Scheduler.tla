----------------------------- MODULE Scheduler -----------------------------
(***************************************************************************)
(* Scheduled agent jobs (backend/src/scheduler/): cron timers, the run     *)
(* rows that guard against overlap, and one asynchronous executor per      *)
(* accepted run with its acceptance deadline and confirmed cleanup.        *)
(*                                                                         *)
(* The store is written synchronously and survives a crash; timers,        *)
(* executors and runtimes do not.  An executor's awaits (runtime creation, *)
(* prompt, cancellation, cleanup, cleanup receipt) separate its actions;   *)
(* everything between two awaits, and every route handler, is one action.  *)
(* Time is a count of ticks from 1; 0 is the code's null.  The runtime of  *)
(* a run (pi-bridge) is seen through the settlement of the awaited calls.  *)
(***************************************************************************)
EXTENDS Naturals, FiniteSets

CONSTANTS
  Jobs,             \* job ids; an id is never used again once deleted
  Crons,            \* cron expressions, each the set of its occurrences
  Budget,           \* timeout_ms of every job, in ticks
  MaxTimerDelay,    \* MAX_TIMEOUT_MS: a longer delay is cut into chunks
  EarlyFire,        \* how far wall time may lag when a timer fires
  MaxTerminalRuns,  \* MAX_TERMINAL_RUNS_PER_JOB
  MaxRuns, MaxTime, MaxRestarts, MaxEdits   \* bounds of the exploration

ASSUME BoundsAssumption ==
  /\ {Budget, MaxTimerDelay, EarlyFire, MaxTerminalRuns} \subseteq Nat
  /\ {MaxRuns, MaxTime, MaxRestarts, MaxEdits} \subseteq Nat
  /\ Budget > 0 /\ MaxTerminalRuns > 0
ASSUME CronsAssumption == \A c \in Crons : c \subseteq Nat \ {0}

VARIABLES
  jobs,      \* scheduledJobs of the store
  rows,      \* scheduledRuns of the store, by creation order
  up,        \* "down", "listening" (HTTP served), "started" or "stopped"
  timers,    \* SchedulerManager.timers
  exec,      \* the closure of executeRun, by run
  runtime,   \* the run's Pi runtime: none, pending, live, uncertain or gone
  denied,    \* jobs whose project refuses scheduled work
  now, restarts, edits

store == <<jobs, rows>>
process == <<up, timers, exec, runtime>>
bounds == <<restarts, edits>>
vars == <<store, process, denied, now, bounds>>

Null == 0
Runs == 1 .. MaxRuns
NoJob == [state |-> "new", enabled |-> FALSE, cron |-> {}, last |-> Null,
          next |-> Null]
NoTimer == [for |-> Null, due |-> Null, chunk |-> FALSE]
Terminal == {"completed", "failed", "skipped"}
(* Where an executor awaits, and how it returned: done after its last      *)
(* bookkeeping, stuck with the row retained, lost with the process.        *)
Awaiting == {"creating", "prompting", "cancelling", "cleaning", "waiting"}
Unborn == [job |-> Null, for |-> Null, startedAt |-> Null, status |-> "none"]
Executor(pc, cron) == [pc |-> pc, cron |-> cron, age |-> 0, expired |-> FALSE,
                       unconfirmed |-> FALSE]

Least(S) == CHOOSE t \in S : \A u \in S : t <= u
Greatest(S) == CHOOSE t \in S : \A u \in S : t >= u

(* nextCronOccurrence searches strictly after its argument.                *)
NextCron(c, t) == LET later == {o \in c : o > t}
                  IN IF later = {} THEN Null ELSE Least(later)
(* previousCronOccurrence(scheduledFor + 1s) still finds scheduledFor.     *)
PreviousCron(c, t) == LET earlier == {o \in c : o <= t}
                      IN IF earlier = {} THEN Null ELSE Greatest(earlier)

HasRunningRun(j) == \E r \in Runs : rows[r].job = j /\ rows[r].status = "running"
(* Mutant: a late executor does not re-check that its row still runs.      *)
BugOwnershipUnchecked(r) == rows[r].status # "none"
StillOwnsRunningRow(r) == rows[r].status = "running"
Overdue(r) == exec[r].expired \/ exec[r].age >= Budget
NewRun(r) == /\ rows[r].status = "none"
             /\ \A q \in Runs : rows[q].status = "none" => r <= q

(* pruneRunsForJob keeps the newest terminal rows and every running one.   *)
Prune(rs, j) ==
  LET terminal == {r \in Runs : rs[r].job = j /\ rs[r].status \in Terminal}
      newer(r) == {q \in terminal : \/ rs[q].startedAt > rs[r].startedAt
                                    \/ rs[q].startedAt = rs[r].startedAt /\ q < r}
  IN [r \in Runs |->
       IF r \in terminal /\ Cardinality(newer(r)) >= MaxTerminalRuns
       THEN [rs[r] EXCEPT !.status = "pruned"] ELSE rs[r]]

(* The rows after createScheduledRun.                                      *)
WithRow(r, j, for, status) ==
  Prune([rows EXCEPT ![r] = [job |-> j, for |-> for, startedAt |-> now,
                             status |-> status]], j)

(* What scheduleJob arms, with the platform's cap on one delay.            *)
Armed(cron) ==
  LET next == NextCron(cron, now)
      far == next > now + MaxTimerDelay
  IN IF next = Null THEN NoTimer
     ELSE [for |-> next, chunk |-> far,
           due |-> IF far THEN now + MaxTimerDelay ELSE next]

(* reloadJob: a disabled or deleted job, or a scheduler that is not        *)
(* started, arms nothing and advertises no next run.                       *)
ReloadedJob(job, started) ==
  [job EXCEPT !.next = IF started /\ job.enabled THEN NextCron(job.cron, now)
                                                ELSE Null]
ReloadedTimer(job, started) ==
  IF started /\ job.enabled THEN Armed(job.cron) ELSE NoTimer
---------------------------------------------------------------------------
(* Jobs: the REST routes, each of which reloads the timer.                 *)
Serving == up \in {"listening", "started"}
Edit == edits < MaxEdits /\ edits' = edits + 1

StoreJob(j, job) == /\ jobs' = [jobs EXCEPT ![j] = ReloadedJob(job, up = "started")]
                    /\ timers' = [timers EXCEPT ![j] = ReloadedTimer(job, up = "started")]
                    /\ UNCHANGED <<rows, up, exec, runtime, denied, now, restarts>>

CreateJob(j, cron, enabled) ==
  /\ Serving /\ Edit /\ jobs[j].state = "new" /\ j \notin denied
  /\ StoreJob(j, [NoJob EXCEPT !.state = "stored", !.enabled = enabled, !.cron = cron])

UpdateJob(j, cron, enabled) ==
  /\ Serving /\ Edit /\ jobs[j].state = "stored" /\ j \notin denied
  /\ StoreJob(j, [jobs[j] EXCEPT !.enabled = enabled, !.cron = cron])

(* Mutant: deletion leaves the timer of the job armed.                     *)
BugDeletedNotReloaded(j) ==
  /\ Serving /\ Edit /\ jobs[j].state = "stored"
  /\ jobs' = [jobs EXCEPT ![j] = [NoJob EXCEPT !.state = "deleted"]]
  /\ UNCHANGED <<rows, process, denied, now, restarts>>

(* The rows of a deleted job stay, and so does an executor at work.        *)
DeleteJob(j) ==
  /\ Serving /\ Edit /\ jobs[j].state = "stored"
  /\ StoreJob(j, [NoJob EXCEPT !.state = "deleted"])

(* The workspace grants or withdraws scheduled access to a job's project.  *)
ChangePolicy(j) ==
  /\ Serving /\ Edit
  /\ denied' = IF j \in denied THEN denied \ {j} ELSE denied \cup {j}
  /\ UNCHANGED <<store, process, now, restarts>>
---------------------------------------------------------------------------
(* Accepting a run: beginRun and the part of executeRun before its first   *)
(* await run in one turn.                                                  *)
Duplicate(j, for) ==
  LET previous == PreviousCron(jobs[j].cron, for)
  IN /\ for # Null /\ jobs[j].last # Null
     /\ previous # Null /\ jobs[j].last >= previous

(* Mutant: the running row of the job is not looked for.                   *)
BugOverlapUnchecked(j, for) == (for # Null /\ j \in denied) \/ Duplicate(j, for)

Skips(j, for) == \/ for # Null /\ j \in denied
                 \/ Duplicate(j, for)
                 \/ HasRunningRun(j)

SkipRun(r, j, for) == /\ Skips(j, for)
                      /\ rows' = WithRow(r, j, for, "skipped")
                      /\ UNCHANGED <<exec, runtime>>

AcceptRun(r, j, for) ==
  /\ ~Skips(j, for)
  /\ rows' = WithRow(r, j, for, "running")
  /\ exec' = [exec EXCEPT ![r] = Executor("creating", jobs[j].cron)]
  /\ runtime' = [runtime EXCEPT ![r] = "pending"]

(* Resolving the configuration or creating the session row throws.         *)
AcceptFails(r, j, for) ==
  /\ ~Skips(j, for)
  /\ rows' = [WithRow(r, j, for, "running") EXCEPT ![r].status = "failed"]
  /\ exec' = [exec EXCEPT ![r] = Executor("done", jobs[j].cron)]
  /\ UNCHANGED runtime

LastRun(job, for) == IF for = Null THEN job ELSE [job EXCEPT !.last = for]

(* POST .../run: allowed before start and for a disabled job.              *)
ManualRun(r, j) ==
  /\ Serving /\ NewRun(r) /\ jobs[j].state = "stored" /\ j \notin denied
  /\ SkipRun(r, j, Null) \/ AcceptRun(r, j, Null) \/ AcceptFails(r, j, Null)
  /\ UNCHANGED <<jobs, up, timers, denied, now, bounds>>

(* The timer callback.  Its own re-check that the job is still enabled     *)
(* never fails: JobArmed.                                                  *)
Due(j) == /\ up = "started" /\ timers[j] # NoTimer /\ jobs[j].enabled
          /\ now + EarlyFire >= timers[j].due

Rearm(j, job) ==
  /\ jobs' = [jobs EXCEPT ![j] = [job EXCEPT !.next = NextCron(job.cron, now)]]
  /\ timers' = [timers EXCEPT ![j] = Armed(job.cron)]

ChunkFires(j) ==
  /\ Due(j) /\ timers[j].chunk
  /\ Rearm(j, jobs[j])
  /\ UNCHANGED <<rows, up, exec, runtime, denied, now, bounds>>

TimerFires(r, j) ==
  LET for == timers[j].for
  IN /\ Due(j) /\ ~timers[j].chunk /\ NewRun(r)
     /\ \/ SkipRun(r, j, for) /\ Rearm(j, jobs[j])
        \/ AcceptRun(r, j, for) /\ Rearm(j, jobs[j])
        \/ AcceptFails(r, j, for) /\ Rearm(j, LastRun(jobs[j], for))
     /\ UNCHANGED <<up, denied, now, bounds>>
---------------------------------------------------------------------------
(* The executor of one run, from await to await.                           *)
Go(r, pc, expired, unconfirmed) ==
  exec' = [exec EXCEPT ![r] = [pc |-> pc, cron |-> exec[r].cron, age |-> exec[r].age,
                               expired |-> expired, unconfirmed |-> unconfirmed]]
Resume(r, pc) == Go(r, pc, exec[r].expired, exec[r].unconfirmed)
SetRuntime(r, value) == runtime' = [runtime EXCEPT ![r] = value]
Settled == UNCHANGED <<up, timers, denied, now, bounds>>

(* expire(): the deadline has passed, whether or not its timer has fired.  *)
Expire(r, pc) == Go(r, pc, TRUE, exec[r].unconfirmed)

(* setJobScheduleMetadata: nothing is left to write for a deleted job.     *)
SetJobScheduleMetadata(j, job) ==
  jobs' = [i \in Jobs |-> IF i = j /\ jobs[i].state = "stored" THEN job ELSE jobs[i]]

SetStatus(r, status) == rows' = [rows EXCEPT ![r].status = status]

(* Mutant: a failed scheduled run does not record its occurrence.          *)
BugFailureNotRecorded(r) ==
  IF StillOwnsRunningRow(r)
  THEN SetStatus(r, "failed") /\ UNCHANGED jobs
  ELSE UNCHANGED store

(* The catch block's last bookkeeping, behind the ownership check.         *)
FinishFailed(r) ==
  IF StillOwnsRunningRow(r)
  THEN /\ SetStatus(r, "failed")
       /\ SetJobScheduleMetadata(rows[r].job, LastRun(jobs[rows[r].job], rows[r].for))
  ELSE UNCHANGED store

(* A completed run also advertises the next occurrence of the cron         *)
(* expression it was accepted with.                                        *)
FinishCompleted(r) ==
  IF StillOwnsRunningRow(r)
  THEN /\ SetStatus(r, "completed")
       /\ SetJobScheduleMetadata(rows[r].job,
            [jobs[rows[r].job] EXCEPT
               !.last = IF rows[r].for = Null THEN rows[r].startedAt ELSE rows[r].for,
               !.next = NextCron(exec[r].cron, now)])
  ELSE UNCHANGED store

(* Mutant: a creation that resolves past the deadline is just dropped.     *)
BugOverdueDropped(r) ==
  /\ exec[r].pc = "creating" /\ SetRuntime(r, "live") /\ UNCHANGED store
  /\ Resume(r, IF Overdue(r) THEN "done" ELSE "prompting")
  /\ Settled

(* createPiSession resolves: within the budget the prompt is sent, past it *)
(* the published runtime is cancelled and cleaned up.                      *)
Created(r) ==
  /\ exec[r].pc = "creating" /\ SetRuntime(r, "live")
  /\ \/ ~Overdue(r) /\ Resume(r, "prompting") /\ UNCHANGED store
     \/ ~Overdue(r) /\ Resume(r, "done") /\ FinishFailed(r)   \* set-up throws
     \/ Overdue(r) /\ Expire(r, "cancelling") /\ UNCHANGED store
  /\ Settled

(* createPiSession rejects after closing what it had acquired.             *)
CreationRejected(r) ==
  /\ exec[r].pc = "creating" /\ SetRuntime(r, "gone")
  /\ Go(r, "done", Overdue(r), exec[r].unconfirmed)
  /\ FinishFailed(r)
  /\ Settled

AwaitReceipt(r) == /\ SetRuntime(r, "uncertain")
                   /\ Go(r, "waiting", Overdue(r), TRUE)
                   /\ UNCHANGED store
                   /\ Settled

(* createPiSession rejects with cleanup unconfirmed and a receipt.         *)
CreationUnconfirmed(r) == exec[r].pc = "creating" /\ AwaitReceipt(r)

(* runPromptAndWait resolves within the budget; what follows is one turn.  *)
PromptCompleted(r) ==
  /\ exec[r].pc = "prompting" /\ ~Overdue(r) /\ runtime[r] = "live"
  /\ Resume(r, "done") /\ FinishCompleted(r)
  /\ UNCHANGED runtime /\ Settled

(* The prompt fails within the budget; its runtime stays available.        *)
PromptRejected(r) ==
  /\ exec[r].pc = "prompting" /\ ~Overdue(r)
  /\ Resume(r, "done") /\ FinishFailed(r)
  /\ UNCHANGED runtime /\ Settled

(* It settles, either way, once the deadline has passed.                   *)
PromptOverdue(r) ==
  /\ exec[r].pc = "prompting" /\ Overdue(r)
  /\ Expire(r, "cancelling")
  /\ UNCHANGED <<store, runtime>> /\ Settled

(* The deadline timer: abort the creation, or the runtime if it exists.    *)
DeadlineFires(r) ==
  /\ exec[r].pc \in {"creating", "prompting"}
  /\ exec[r].age >= Budget /\ ~exec[r].expired
  /\ Expire(r, exec[r].pc)
  /\ UNCHANGED <<store, runtime>> /\ Settled

CancellationSettles(r) ==
  /\ exec[r].pc = "cancelling" /\ Resume(r, "cleaning")
  /\ UNCHANGED <<store, runtime>> /\ Settled

(* handle.cleanup() of the exact runtime: confirmed, refused with a        *)
(* receipt, or refused with an error that proves nothing.                  *)
CleanupConfirmed(r) ==
  /\ exec[r].pc = "cleaning" /\ SetRuntime(r, "gone")
  /\ Resume(r, "done") /\ FinishFailed(r)
  /\ Settled

CleanupUnconfirmed(r) == exec[r].pc = "cleaning" /\ runtime[r] # "gone" /\ AwaitReceipt(r)

(* Mutant: a cleanup error without a receipt counts as the end of it.      *)
BugRejectionReleases(r) ==
  /\ exec[r].pc = "cleaning" /\ runtime[r] # "gone" /\ SetRuntime(r, "uncertain")
  /\ Resume(r, "done") /\ FinishFailed(r)
  /\ Settled

CleanupRejected(r) ==
  /\ exec[r].pc = "cleaning" /\ runtime[r] # "gone" /\ SetRuntime(r, "uncertain")
  /\ Go(r, "stuck", exec[r].expired, TRUE)
  /\ UNCHANGED store /\ Settled

(* The receipt that an executor waits on is fulfilled: by the scheduler's  *)
(* single retry, or by a later explicit destroy.                           *)
ReceiptConfirmed(r) ==
  /\ exec[r].pc = "waiting" /\ SetRuntime(r, "gone")
  /\ Resume(r, "done") /\ FinishFailed(r)
  /\ Settled

(* Someone else stops the linked session's runtime under the executor.     *)
RuntimeStopped(r) ==
  /\ exec[r].pc \in Awaiting /\ runtime[r] = "live"
  /\ \E value \in {"gone", "uncertain"} : SetRuntime(r, value)
  /\ UNCHANGED <<store, exec>> /\ Settled
---------------------------------------------------------------------------
(* The process and its clocks.                                             *)
Boot == /\ up = "down" /\ up' = "listening"
        /\ UNCHANGED <<store, timers, exec, runtime, denied, now, bounds>>

(* start() runs after the transcript recovery that startup awaits, when    *)
(* the routes may already have been served.                                *)
Start ==
  /\ up = "listening" /\ up' = "started"
  /\ rows' = [r \in Runs |-> IF rows[r].status = "running"
                             THEN [rows[r] EXCEPT !.status = "failed"] ELSE rows[r]]
  /\ jobs' = [j \in Jobs |-> ReloadedJob(jobs[j], TRUE)]
  /\ timers' = [j \in Jobs |-> ReloadedTimer(jobs[j], TRUE)]
  /\ UNCHANGED <<exec, runtime, denied, now, bounds>>

(* stop() follows the close of the HTTP server; executors go on until the  *)
(* process exits.                                                          *)
Stop == /\ up \in {"listening", "started"} /\ up' = "stopped"
        /\ restarts < MaxRestarts
        /\ timers' = [j \in Jobs |-> NoTimer]
        /\ UNCHANGED <<store, exec, runtime, denied, now, bounds>>

(* An exit or a crash, at any moment.                                      *)
Exit ==
  /\ up # "down" /\ up' = "down"
  /\ restarts < MaxRestarts /\ restarts' = restarts + 1
  /\ timers' = [j \in Jobs |-> NoTimer]
  /\ exec' = [r \in Runs |-> IF exec[r].pc \in Awaiting \cup {"stuck"}
                             THEN Executor("lost", {}) ELSE exec[r]]
  /\ runtime' = [r \in Runs |-> IF runtime[r] = "none" THEN "none" ELSE "gone"]
  /\ UNCHANGED <<store, denied, now, edits>>

(* Wall time and the monotonic budgets advance together; the bound stops   *)
(* only the former.                                                        *)
Tick ==
  /\ now' = IF now < MaxTime THEN now + 1 ELSE now
  /\ exec' = [r \in Runs |->
       IF exec[r].pc \in {"creating", "prompting"} /\ exec[r].age < Budget
       THEN [exec[r] EXCEPT !.age = @ + 1] ELSE exec[r]]
  /\ <<now', exec'>> # <<now, exec>>
  /\ UNCHANGED <<store, up, timers, runtime, denied, bounds>>

Init ==
  /\ jobs = [j \in Jobs |-> NoJob] /\ rows = [r \in Runs |-> Unborn]
  /\ up = "down" /\ timers = [j \in Jobs |-> NoTimer]
  /\ exec = [r \in Runs |-> Executor("none", {})] /\ runtime = [r \in Runs |-> "none"]
  /\ denied = {} /\ now = 1 /\ restarts = 0 /\ edits = 0

JobStep(j) == \/ \E cron \in Crons, enabled \in BOOLEAN :
                    CreateJob(j, cron, enabled) \/ UpdateJob(j, cron, enabled)
              \/ DeleteJob(j) \/ ChangePolicy(j) \/ ChunkFires(j)
              \/ \E r \in Runs : ManualRun(r, j) \/ TimerFires(r, j)

Settlement(r) == \/ Created(r) \/ CreationRejected(r) \/ CreationUnconfirmed(r)
                 \/ CancellationSettles(r) \/ CleanupConfirmed(r)
                 \/ CleanupUnconfirmed(r) \/ CleanupRejected(r)

RunStep(r) == \/ Settlement(r) \/ PromptCompleted(r) \/ PromptRejected(r)
              \/ PromptOverdue(r) \/ DeadlineFires(r)
              \/ ReceiptConfirmed(r) \/ RuntimeStopped(r)

Next == \/ \E j \in Jobs : JobStep(j)
        \/ \E r \in Runs : RunStep(r)
        \/ Boot \/ Start \/ Stop \/ Exit \/ Tick

Spec == Init /\ [][Next]_vars

(* A stopped process exits and a dead one is restarted; timers fire; a     *)
(* creation that was aborted, a prompt that was aborted, a cancellation    *)
(* and a cleanup attempt settle.                                           *)
Fairness == /\ WF_vars(Boot) /\ WF_vars(Start) /\ WF_vars(Tick)
            /\ WF_vars(up = "stopped" /\ Exit)
            /\ \A r \in Runs : /\ WF_vars(DeadlineFires(r))
                               /\ WF_vars(Settlement(r))
                               /\ WF_vars(PromptOverdue(r))
FairSpec == Spec /\ Fairness
---------------------------------------------------------------------------
JobType == [state : {"new", "stored", "deleted"}, enabled : BOOLEAN,
            cron : Crons \cup {{}}, last : Nat, next : Nat]
RowType == [job : Jobs \cup {Null}, for : Nat, startedAt : Nat,
            status : Terminal \cup {"none", "running", "pruned"}]
ExecType == [pc : Awaiting \cup {"none", "done", "stuck", "lost"},
             cron : Crons \cup {{}}, age : 0 .. Budget,
             expired : BOOLEAN, unconfirmed : BOOLEAN]

(* Types; timers exist only in a started scheduler, a stored job alone is  *)
(* enabled, and a run has a row, an executor and a runtime together.       *)
TypeOK ==
  /\ jobs \in [Jobs -> JobType] /\ rows \in [Runs -> RowType]
  /\ up \in {"down", "listening", "started", "stopped"}
  /\ timers \in [Jobs -> [for : Nat, due : Nat, chunk : BOOLEAN]]
  /\ exec \in [Runs -> ExecType]
  /\ runtime \in [Runs -> {"none", "pending", "live", "uncertain", "gone"}]
  /\ denied \subseteq Jobs /\ now \in Nat /\ restarts \in Nat /\ edits \in Nat
  /\ up # "started" => \A j \in Jobs : timers[j] = NoTimer
  /\ \A j \in Jobs : jobs[j].enabled => jobs[j].state = "stored"

(* hasRunningRun guards overlap through the store: a job never has two     *)
(* running rows, whichever timers, manual runs and restarts accept them.   *)
OneRunningRow ==
  \A r, q \in Runs : /\ rows[r].status = "running" /\ rows[q].status = "running"
                     /\ rows[r].job = rows[q].job
                    => r = q

(* Once the scheduler has started, a row that blocks its job belongs to an *)
(* executor of this process that will finish it, or that kept it because   *)
(* cleanup is unproven; nothing left by a dead process blocks a job.       *)
RunningRowOwned ==
  up = "started" => \A r \in Runs :
     rows[r].status = "running" => exec[r].pc \in Awaiting \cup {"stuck"}

(* An executor that timed out or met an unconfirmed cleanup finishes only  *)
(* when that run's runtime is proven gone (manager.ts:295-318, 391-409).   *)
ReleaseProven ==
  \A r \in Runs : /\ exec[r].pc = "done"
                  /\ exec[r].expired \/ exec[r].unconfirmed
                 => runtime[r] = "gone"

(* Success is reported only inside the budget that acceptance started,     *)
(* whatever the order of deadline timer, creation and prompt.              *)
SuccessWithinBudget ==
  \A r \in Runs : rows[r].status = "completed" =>
     exec[r].pc = "done" /\ ~exec[r].expired /\ exec[r].age < Budget

(* A terminal row is never revived or relabelled by a late executor, only  *)
(* pruned from the history.                                                *)
TerminalFinal ==
  [][\A r \in Runs : rows[r].status \in Terminal \cup {"pruned"} =>
        rows'[r].status \in {rows[r].status, "pruned"}]_vars

(* An occurrence is executed once although a timer that fires early is     *)
(* armed for it again.  Two cases escape: the first execution died with    *)
(* the process, or a later manual run that began before the occurrence     *)
(* moved last_run_at back.                                                 *)
OccurrenceOnce ==
  \A r, q \in Runs :
     /\ r < q /\ exec[r].pc # "none" /\ exec[q].pc # "none"
     /\ rows[r].for # Null /\ rows[r].for = rows[q].for
     /\ rows[r].job = rows[q].job
    => \/ exec[r].pc = "lost"
       \/ \E m \in r .. q : /\ rows[m].job = rows[r].job /\ rows[m].for = Null
                            /\ exec[m].pc = "done"
                            /\ rows[m].startedAt < rows[r].for

(* In a started scheduler every enabled job with an occurrence ahead has a *)
(* timer for an occurrence of its present cron expression, and a disabled  *)
(* or deleted one has none.                                                *)
JobArmed ==
  up = "started" => \A j \in Jobs :
     IF timers[j] = NoTimer
     THEN jobs[j].enabled => NextCron(jobs[j].cron, now) = Null
     ELSE jobs[j].enabled /\ timers[j].for \in jobs[j].cron

(* Every running row becomes terminal, in this process or at the next      *)
(* start, unless its executor holds an unconfirmed cleanup.                *)
RunSettles ==
  \A r \in Runs : rows[r].status = "running"
     ~> rows[r].status # "running" \/ exec[r].pc \in {"waiting", "stuck"}

(* An executor in the terms of the run history.                            *)
Worker(r) == IF exec[r].pc \in Awaiting \cup {"stuck"}
             THEN IF Overdue(r) THEN "late" ELSE "working" ELSE exec[r].pc
Owes(r) == IF (exec[r].expired \/ exec[r].unconfirmed) /\ runtime[r] # "gone"
           THEN "cleanup" ELSE "nothing"

Entry(r) == [job |-> rows[r].job, status |-> rows[r].status, worker |-> Worker(r),
             owes |-> Owes(r)]

History == INSTANCE RunHistory WITH run <- [r \in Runs |-> Entry(r)]

(* Rows, executors and runtimes together keep the promises of RunHistory:  *)
(* whichever timers, manual runs and restarts accept runs, and however     *)
(* late their executors, a job never has two running rows, an ended row is *)
(* never revived or relabelled, success is reported only inside the        *)
(* budget, and an executor that timed out or met an unconfirmed cleanup    *)
(* lets go only when its runtime is proven gone.                           *)
ImplementsHistory == History!Spec

(* store.ts:245 calls running rows the overlap guard: two executors of one *)
(* job are never at work together.  Fails: start() marks the row of a run  *)
(* accepted while startup recovery was pending (app.ts:505-512).           *)
ExecutorsExclusive ==
  \A r, q \in Runs : /\ {exec[r].pc, exec[q].pc} \subseteq Awaiting
                     /\ rows[r].job = rows[q].job
                    => r = q

(* A disabled job has no next run (store.test.ts:238, reloadJob).  Fails:  *)
(* a run that completes after the job was disabled writes one.             *)
DisabledHasNoNextRun ==
  \A j \in Jobs : ~jobs[j].enabled => jobs[j].next = Null
=============================================================================
