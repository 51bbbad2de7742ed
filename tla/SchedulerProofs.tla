--------------------------- MODULE SchedulerProofs ---------------------------
(***************************************************************************)
(* Proofs about Scheduler for every set of jobs and cron expressions, and  *)
(* every value of the budget, the timer cap and the exploration's bounds.  *)
(***************************************************************************)
EXTENDS Scheduler, WellFoundedInduction, TLAPS

(* A nonempty set of naturals has the least element that Least chooses.    *)
LEMMA LeastElement ==
  ASSUME NEW S \in SUBSET Nat, S # {}
  PROVE  Least(S) \in S
<1>1. PICK x \in S : \A y \in S : ~ (<<y, x>> \in OpToRel(<, Nat))
  BY WFMin, NatLessThanWellFounded
<1>2. \A y \in S : <<y, x>> \in OpToRel(<, Nat) <=> y < x
  BY DEF OpToRel
<1>3. \A y \in S : ~ (y < x)
  BY <1>1, <1>2, Zenon
<1>4. \A y \in S : x <= y
  BY <1>3
<1> QED BY <1>4 DEF Least

(* The next occurrence is null or an occurrence of the expression, and it  *)
(* is null exactly when no occurrence is left.                             *)
LEMMA NextCronOccurs ==
  ASSUME NEW c \in Crons \cup {{}}, NEW t \in Nat
  PROVE  /\ NextCron(c, t) \in Nat
         /\ NextCron(c, t) # Null => NextCron(c, t) \in c
         /\ NextCron(c, t) = Null <=> \A o \in c : ~ (o > t)
<1> DEFINE later == {o \in c : o > t}
<1>1. c \subseteq Nat \ {0}
  BY CronsAssumption
<1>2. CASE later = {}
  BY <1>2 DEF NextCron, Null
<1>3. CASE later # {}
  <2>1. Least(later) \in later
    BY <1>1, <1>3, LeastElement
  <2>2. NextCron(c, t) = Least(later)
    BY <1>3 DEF NextCron
  <2> QED BY <1>1, <1>3, <2>1, <2>2 DEF Null
<1> QED BY <1>2, <1>3

(* What a timer is armed for.                                              *)
LEMMA ArmedTimer ==
  ASSUME TypeOK, NEW c \in Crons \cup {{}}
  PROVE  /\ Armed(c) \in [for : Nat, due : Nat, chunk : BOOLEAN]
         /\ IF Armed(c) = NoTimer THEN NextCron(c, now) = Null
                                  ELSE Armed(c).for \in c
<1>1. now \in Nat /\ MaxTimerDelay \in Nat
  BY BoundsAssumption DEF TypeOK
<1>2. /\ NextCron(c, now) \in Nat
      /\ NextCron(c, now) # Null => NextCron(c, now) \in c
  BY <1>1, NextCronOccurs
<1>3. CASE NextCron(c, now) = Null
  BY <1>3 DEF Armed, NoTimer, Null
<1>4. CASE NextCron(c, now) # Null
  BY <1>1, <1>2, <1>4 DEF Armed, NoTimer, Null
<1> QED BY <1>3, <1>4

LEMMA ReloadType ==
  ASSUME TypeOK, NEW job \in JobType, NEW on \in BOOLEAN
  PROVE  /\ ReloadedJob(job, on) \in JobType
         /\ ReloadedJob(job, on).enabled = job.enabled
         /\ ReloadedJob(job, on).state = job.state
         /\ ReloadedJob(job, on).cron = job.cron
         /\ ReloadedTimer(job, on) \in [for : Nat, due : Nat, chunk : BOOLEAN]
<1>1. job.cron \in Crons \cup {{}} /\ now \in Nat
  BY DEF JobType, TypeOK
<1>2. NextCron(job.cron, now) \in Nat /\ Armed(job.cron) \in [for : Nat, due : Nat, chunk : BOOLEAN]
  BY <1>1, NextCronOccurs, ArmedTimer
<1>3. NoTimer \in [for : Nat, due : Nat, chunk : BOOLEAN] /\ Null \in Nat
  BY DEF NoTimer, Null
<1> QED BY <1>2, <1>3 DEF ReloadedJob, ReloadedTimer, JobType

(* Creating a row adds it and may prune terminal rows of the same job; it  *)
(* changes nothing else.                                                   *)
LEMMA RowCreated ==
  ASSUME TypeOK, NEW r \in Runs, NEW j \in Jobs, NEW for \in Nat,
         NEW status \in {"running", "skipped"}, NewRun(r)
  PROVE  /\ WithRow(r, j, for, status) \in [Runs -> RowType]
         /\ WithRow(r, j, for, status)[r].job = j
         /\ WithRow(r, j, for, status)[r].for = for
         /\ WithRow(r, j, for, status)[r].startedAt = now
         /\ WithRow(r, j, for, status)[r].status \in {status, "pruned"}
         /\ status = "running" => WithRow(r, j, for, status)[r].status = "running"
         /\ \A q \in Runs \ {r} :
               \/ WithRow(r, j, for, status)[q] = rows[q]
               \/ /\ rows[q].status \in Terminal
                  /\ WithRow(r, j, for, status)[q].status = "pruned"
                  /\ WithRow(r, j, for, status)[q].job = rows[q].job
                  /\ WithRow(r, j, for, status)[q].for = rows[q].for
                  /\ WithRow(r, j, for, status)[q].startedAt = rows[q].startedAt
<1> DEFINE row == [job |-> j, for |-> for, startedAt |-> now, status |-> status]
           base == [rows EXCEPT ![r] = row]
<1>1. row \in RowType /\ base \in [Runs -> RowType]
  BY DEF TypeOK, RowType, Terminal
<1>2. Prune(base, j) \in [Runs -> RowType]
  BY <1>1 DEF Prune, RowType, Terminal
<1>3. \A q \in Runs : \/ Prune(base, j)[q] = base[q]
                      \/ /\ base[q].status \in Terminal
                         /\ Prune(base, j)[q] = [base[q] EXCEPT !.status = "pruned"]
  BY DEF Prune
<1>4. WithRow(r, j, for, status) = Prune(base, j)
  BY DEF WithRow
<1>5. base[r] = row /\ \A q \in Runs \ {r} : base[q] = rows[q]
  BY DEF TypeOK
<1>6. \A q \in Runs : base[q].status \in Terminal /\ Prune(base, j)[q] = [base[q] EXCEPT !.status = "pruned"]
                    => /\ Prune(base, j)[q].status = "pruned"
                       /\ Prune(base, j)[q].job = base[q].job
                       /\ Prune(base, j)[q].for = base[q].for
                       /\ Prune(base, j)[q].startedAt = base[q].startedAt
  BY <1>1 DEF RowType
<1>7. row.job = j /\ row.for = for /\ row.startedAt = now /\ row.status = status /\ "running" \notin Terminal
  BY DEF Terminal
<1> HIDE DEF base, row
<1> QED BY <1>2, <1>3, <1>4, <1>5, <1>6, <1>7
---------------------------------------------------------------------------
(* Type correctness.                                                       *)

(* The two ends of an executor, and a run's acceptance, keep the types of  *)
(* what they write and no job's state, cron expression or enablement.      *)
LEMMA FinishType ==
  ASSUME TypeOK, NEW r \in Runs, FinishFailed(r) \/ FinishCompleted(r)
  PROVE  /\ rows' \in [Runs -> RowType] /\ jobs' \in [Jobs -> JobType]
         /\ \A j \in Jobs : /\ jobs'[j].state = jobs[j].state
                            /\ jobs'[j].enabled = jobs[j].enabled
                            /\ jobs'[j].cron = jobs[j].cron
<1>1. /\ rows[r].for \in Nat /\ rows[r].startedAt \in Nat
      /\ NextCron(exec[r].cron, now) \in Nat
  BY NextCronOccurs DEF TypeOK, RowType, ExecType
<1>2. CASE UNCHANGED store
  BY <1>2 DEF store, TypeOK
<1>3. \A status \in {"failed", "completed"} :
        SetStatus(r, status) => rows' \in [Runs -> RowType]
  BY DEF SetStatus, TypeOK, RowType, Terminal
<1>4. \A j \in Jobs, f \in Nat, n \in Nat :
        /\ [jobs[j] EXCEPT !.last = f, !.next = n] \in JobType
        /\ [jobs[j] EXCEPT !.last = f, !.next = n].state = jobs[j].state
        /\ [jobs[j] EXCEPT !.last = f, !.next = n].enabled = jobs[j].enabled
        /\ [jobs[j] EXCEPT !.last = f, !.next = n].cron = jobs[j].cron
  <2>1. \A j \in Jobs : jobs[j] \in JobType
    BY DEF TypeOK
  <2>2. ASSUME NEW job \in JobType, NEW f \in Nat, NEW n \in Nat
        PROVE  /\ [job EXCEPT !.last = f, !.next = n] \in JobType
               /\ [job EXCEPT !.last = f, !.next = n].state = job.state
               /\ [job EXCEPT !.last = f, !.next = n].enabled = job.enabled
               /\ [job EXCEPT !.last = f, !.next = n].cron = job.cron
    BY DEF JobType
  <2> QED BY <2>1, <2>2
<1>5. ASSUME NEW j PROVE LET job == LastRun(jobs[j], rows[r].for)
             IN j \in Jobs => /\ job \in JobType
                             /\ job.state = jobs[j].state
                             /\ job.enabled = jobs[j].enabled
                             /\ job.cron = jobs[j].cron
  BY <1>1 DEF TypeOK, JobType, LastRun
<1>6. ASSUME NEW j, NEW job, SetJobScheduleMetadata(j, job),
             j \in Jobs => /\ job \in JobType
                           /\ job.state = jobs[j].state
                           /\ job.enabled = jobs[j].enabled
                           /\ job.cron = jobs[j].cron
      PROVE  /\ jobs' \in [Jobs -> JobType]
             /\ \A i \in Jobs : /\ jobs'[i].state = jobs[i].state
                                /\ jobs'[i].enabled = jobs[i].enabled
                                /\ jobs'[i].cron = jobs[i].cron
  BY <1>6 DEF SetJobScheduleMetadata, TypeOK
<1>7. CASE FinishFailed(r) /\ ~ UNCHANGED store
  BY <1>3, <1>5, <1>6, <1>7 DEF FinishFailed
<1>8. CASE FinishCompleted(r) /\ ~ UNCHANGED store
  <2>1. (IF rows[r].for = Null THEN rows[r].startedAt ELSE rows[r].for) \in Nat
    BY <1>1
  <2> DEFINE j == rows[r].job
             last == IF rows[r].for = Null THEN rows[r].startedAt ELSE rows[r].for
             next == NextCron(exec[r].cron, now)
             job == [jobs[j] EXCEPT !.last = last, !.next = next]
  <2>2. SetStatus(r, "completed") /\ SetJobScheduleMetadata(j, job)
    BY <1>8 DEF FinishCompleted
  <2>3. last \in Nat /\ next \in Nat
    BY <1>1, <2>1
  <2> HIDE DEF last, next
  <2>4. j \in Jobs => /\ job \in JobType
                     /\ job.state = jobs[j].state
                     /\ job.enabled = jobs[j].enabled
                     /\ job.cron = jobs[j].cron
    <3> SUFFICES ASSUME j \in Jobs
                 PROVE  /\ job \in JobType
                        /\ job.state = jobs[j].state
                        /\ job.enabled = jobs[j].enabled
                        /\ job.cron = jobs[j].cron
      OBVIOUS
    <3> HIDE DEF j
    <3> QED BY ONLY <1>4, <2>3, j \in Jobs
  <2> HIDE DEF j, job
  <2> QED BY <1>3, <1>6, <2>2, <2>4
<1> QED BY <1>2, <1>7, <1>8

LEMMA BeginType ==
  ASSUME TypeOK, NEW r \in Runs, NEW j \in Jobs, NEW for \in Nat, NewRun(r),
         SkipRun(r, j, for) \/ AcceptRun(r, j, for) \/ AcceptFails(r, j, for)
  PROVE  /\ rows' \in [Runs -> RowType] /\ exec' \in [Runs -> ExecType]
         /\ runtime' \in [Runs -> {"none", "pending", "live", "uncertain", "gone"}]
<1>1. \A status \in {"running", "skipped"} : WithRow(r, j, for, status) \in [Runs -> RowType]
  BY RowCreated
<1>2. /\ Executor("creating", jobs[j].cron) \in ExecType
      /\ Executor("done", jobs[j].cron) \in ExecType
  <2>1. jobs[j].cron \in Crons \cup {{}}
    <3>1. jobs[j] \in JobType
      BY DEF TypeOK
    <3> QED BY <3>1 DEF JobType
  <2>2. 0 \in 0 .. Budget
    BY BoundsAssumption
  <2> QED BY <2>1, <2>2 DEF Executor, ExecType, Awaiting
<1>3. CASE SkipRun(r, j, for)
  BY <1>1, <1>3 DEF SkipRun, TypeOK
<1>4. CASE AcceptRun(r, j, for)
  BY <1>1, <1>2, <1>4 DEF AcceptRun, TypeOK
<1>5. CASE AcceptFails(r, j, for)
  <2> DEFINE base == WithRow(r, j, for, "running")
  <2>1. base \in [Runs -> RowType]
    BY <1>1
  <2>2. rows' = [base EXCEPT ![r].status = "failed"]
    BY <1>5 DEF AcceptFails
  <2> HIDE DEF base
  <2>3. rows' \in [Runs -> RowType]
    BY <2>1, <2>2 DEF RowType, Terminal
  <2> QED BY <1>2, <1>5, <2>3 DEF AcceptFails, TypeOK
<1> QED BY <1>3, <1>4, <1>5

LEMMA RearmType ==
  ASSUME TypeOK, NEW j \in Jobs, NEW job \in JobType,
         job.enabled = jobs[j].enabled, job.state = jobs[j].state, Rearm(j, job)
  PROVE  /\ jobs' \in [Jobs -> JobType]
         /\ timers' \in [Jobs -> [for : Nat, due : Nat, chunk : BOOLEAN]]
         /\ \A i \in Jobs : /\ jobs'[i].state = jobs[i].state
                            /\ jobs'[i].enabled = jobs[i].enabled
<1>1. job.cron \in Crons \cup {{}} /\ now \in Nat
  BY DEF JobType, TypeOK
<1>2. /\ NextCron(job.cron, now) \in Nat
      /\ Armed(job.cron) \in [for : Nat, due : Nat, chunk : BOOLEAN]
  BY <1>1, NextCronOccurs, ArmedTimer
<1> QED BY <1>2 DEF Rearm, TypeOK, JobType

(* Every step of an executor, at once: what it may write is typed.         *)
LEMMA RunStepType ==
  ASSUME TypeOK, NEW r \in Runs, RunStep(r)
  PROVE  TypeOK'
<1>1. /\ exec' \in [Runs -> ExecType]
      /\ runtime' \in [Runs -> {"none", "pending", "live", "uncertain", "gone"}]
  <2>a. ASSUME NEW pc \in Awaiting \cup {"done", "stuck"}, NEW x \in BOOLEAN,
               NEW u \in BOOLEAN, Go(r, pc, x, u)
        PROVE  exec' \in [Runs -> ExecType]
    BY <2>a DEF Go, TypeOK, ExecType, Awaiting
  <2>b. /\ exec[r].expired \in BOOLEAN /\ exec[r].unconfirmed \in BOOLEAN
        /\ Overdue(r) \in BOOLEAN /\ exec[r].pc \in Awaiting \cup {"none", "done", "stuck", "lost"}
        /\ exec \in [Runs -> ExecType]
        /\ runtime \in [Runs -> {"none", "pending", "live", "uncertain", "gone"}]
    BY DEF TypeOK, ExecType, Overdue
  <2>c. ASSUME NEW value \in {"live", "uncertain", "gone"}, SetRuntime(r, value)
        PROVE  runtime' \in [Runs -> {"none", "pending", "live", "uncertain", "gone"}]
    BY <2>b, <2>c DEF SetRuntime
  <2> USE <2>a, <2>b, <2>c DEF Resume, Expire, Awaiting
  <2>1. CASE Created(r)
    BY <2>1 DEF Created
  <2>2. CASE CreationRejected(r)
    BY <2>2 DEF CreationRejected
  <2>3. CASE CreationUnconfirmed(r) \/ CleanupUnconfirmed(r)
    BY <2>3 DEF CreationUnconfirmed, CleanupUnconfirmed, AwaitReceipt
  <2>4. CASE PromptCompleted(r) \/ PromptRejected(r) \/ PromptOverdue(r)
    BY <2>4 DEF PromptCompleted, PromptRejected, PromptOverdue
  <2>5. CASE DeadlineFires(r) \/ CancellationSettles(r)
    BY <2>5 DEF DeadlineFires, CancellationSettles
  <2>6. CASE CleanupConfirmed(r) \/ CleanupRejected(r)
    BY <2>6 DEF CleanupConfirmed, CleanupRejected
  <2>7. CASE ReceiptConfirmed(r) \/ RuntimeStopped(r)
    BY <2>7 DEF ReceiptConfirmed, RuntimeStopped
  <2> QED BY <2>1, <2>2, <2>3, <2>4, <2>5, <2>6, <2>7 DEF RunStep, Settlement
<1>2. /\ UNCHANGED store \/ FinishFailed(r) \/ FinishCompleted(r)
      /\ Settled
  BY DEF RunStep, Settlement, Created, CreationRejected, CreationUnconfirmed,
         CleanupUnconfirmed, AwaitReceipt, PromptCompleted, PromptRejected, PromptOverdue,
         DeadlineFires, CancellationSettles, CleanupConfirmed, CleanupRejected,
         ReceiptConfirmed, RuntimeStopped, store
<1>3. /\ rows' \in [Runs -> RowType] /\ jobs' \in [Jobs -> JobType]
      /\ \A j \in Jobs : /\ jobs'[j].state = jobs[j].state
                         /\ jobs'[j].enabled = jobs[j].enabled
  BY <1>2, FinishType DEF store, TypeOK
<1> QED BY <1>1, <1>2, <1>3 DEF TypeOK, Settled, bounds
(* Every step keeps it.                                                    *)
LEMMA TypeStep == TypeOK /\ [Next]_vars => TypeOK'
<1> SUFFICES ASSUME TypeOK, [Next]_vars PROVE TypeOK'
  OBVIOUS
<1> USE DEF vars, store, process, bounds
<1>a. /\ NoTimer \in [for : Nat, due : Nat, chunk : BOOLEAN]
      /\ NoJob \in JobType /\ ~NoJob.enabled /\ NoJob.cron = {}
  BY DEF NoTimer, Null, NoJob, JobType
<1>1. ASSUME NEW j \in Jobs, NEW job \in JobType, StoreJob(j, job), Serving,
             Edit, job.enabled => job.state = "stored"
      PROVE  TypeOK'
  <2>1. /\ ReloadedJob(job, up = "started") \in JobType
        /\ ReloadedJob(job, up = "started").enabled = job.enabled
        /\ ReloadedJob(job, up = "started").state = job.state
        /\ ReloadedTimer(job, up = "started") \in [for : Nat, due : Nat, chunk : BOOLEAN]
        /\ up # "started" => ReloadedTimer(job, up = "started") = NoTimer
    BY ReloadType DEF ReloadedTimer
  <2> QED BY <1>1, <2>1 DEF TypeOK, StoreJob, Edit
<1>2. ASSUME NEW j \in Jobs, NEW c \in Crons, NEW e \in BOOLEAN,
             CreateJob(j, c, e) \/ UpdateJob(j, c, e)
      PROVE  TypeOK'
  <2>1. /\ [NoJob EXCEPT !.state = "stored", !.enabled = e, !.cron = c] \in JobType
        /\ [NoJob EXCEPT !.state = "stored", !.enabled = e, !.cron = c].state = "stored"
    BY DEF NoJob, JobType, Null
  <2>2. jobs[j] \in JobType
    BY DEF TypeOK
  <2>3. /\ [jobs[j] EXCEPT !.enabled = e, !.cron = c] \in JobType
        /\ [jobs[j] EXCEPT !.enabled = e, !.cron = c].state = jobs[j].state
    BY <2>2 DEF JobType
  <2> QED BY <1>1, <1>2, <2>1, <2>3 DEF CreateJob, UpdateJob
<1>3. ASSUME NEW j \in Jobs, DeleteJob(j) PROVE TypeOK'
  <2>1. /\ [NoJob EXCEPT !.state = "deleted"] \in JobType
        /\ ~[NoJob EXCEPT !.state = "deleted"].enabled
    BY DEF NoJob, JobType, Null
  <2> QED BY <1>1, <1>3, <2>1 DEF DeleteJob
<1>4. ASSUME NEW j \in Jobs, ChangePolicy(j) PROVE TypeOK'
  BY <1>4 DEF ChangePolicy, Edit, TypeOK
<1>5. ASSUME NEW j \in Jobs, ChunkFires(j) PROVE TypeOK'
  <2>1. jobs[j] \in JobType
    BY DEF TypeOK
  <2> QED BY <1>5, <2>1, RearmType DEF ChunkFires, Due, TypeOK
<1>6. ASSUME NEW j \in Jobs, NEW r \in Runs, ManualRun(r, j) PROVE TypeOK'
  <2>1. Null \in Nat
    BY DEF Null
  <2> QED BY <1>6, <2>1, BeginType DEF ManualRun, TypeOK
<1>7. ASSUME NEW j \in Jobs, NEW r \in Runs, TimerFires(r, j) PROVE TypeOK'
  <2> DEFINE for == timers[j].for
  <2>1. for \in Nat /\ jobs[j] \in JobType
    BY DEF TypeOK
  <2>2. /\ LastRun(jobs[j], for) \in JobType
        /\ LastRun(jobs[j], for).enabled = jobs[j].enabled
        /\ LastRun(jobs[j], for).state = jobs[j].state
    BY <2>1 DEF LastRun, JobType
  <2>3. /\ NewRun(r) /\ Due(j)
        /\ SkipRun(r, j, for) \/ AcceptRun(r, j, for) \/ AcceptFails(r, j, for)
        /\ Rearm(j, jobs[j]) \/ Rearm(j, LastRun(jobs[j], for))
        /\ UNCHANGED <<up, denied, now, restarts, edits>>
    BY <1>7 DEF TimerFires
  <2> HIDE DEF for
  <2>4. /\ rows' \in [Runs -> RowType] /\ exec' \in [Runs -> ExecType]
        /\ runtime' \in [Runs -> {"none", "pending", "live", "uncertain", "gone"}]
    BY <2>1, <2>3, BeginType
  <2>5. /\ jobs' \in [Jobs -> JobType]
        /\ timers' \in [Jobs -> [for : Nat, due : Nat, chunk : BOOLEAN]]
        /\ \A i \in Jobs : /\ jobs'[i].state = jobs[i].state
                           /\ jobs'[i].enabled = jobs[i].enabled
    BY <2>1, <2>2, <2>3, RearmType
  <2> QED BY <2>3, <2>4, <2>5 DEF TypeOK, Due
<1>8. ASSUME NEW r \in Runs, RunStep(r) PROVE TypeOK'
  BY <1>8, RunStepType
<1>9. CASE Boot
  BY <1>9 DEF Boot, TypeOK
<1>10. CASE Start
  <2>1. \A j \in Jobs : /\ ReloadedJob(jobs[j], TRUE) \in JobType
                        /\ ReloadedJob(jobs[j], TRUE).enabled = jobs[j].enabled
                        /\ ReloadedJob(jobs[j], TRUE).state = jobs[j].state
                        /\ ReloadedTimer(jobs[j], TRUE) \in [for : Nat, due : Nat, chunk : BOOLEAN]
    BY ReloadType DEF TypeOK
  <2>2. rows' \in [Runs -> RowType]
    BY <1>10 DEF Start, TypeOK, RowType, Terminal
  <2> QED BY <1>10, <2>1, <2>2 DEF Start, TypeOK
<1>11. CASE Stop
  BY <1>11, <1>a DEF Stop, TypeOK
<1>12. CASE Exit
  <2>1. Executor("lost", {}) \in ExecType
    BY BoundsAssumption DEF Executor, ExecType
  <2> QED BY <1>12, <1>a, <2>1 DEF Exit, TypeOK
<1>13. CASE Tick
  <2>1. ASSUME NEW e \in ExecType, e.age < Budget
        PROVE  [e EXCEPT !.age = @ + 1] \in ExecType
    BY <2>1, BoundsAssumption DEF ExecType
  <2>2. exec' \in [Runs -> ExecType]
    BY <1>13, <2>1 DEF Tick, TypeOK
  <2> QED BY <1>13, <2>2, BoundsAssumption DEF Tick, TypeOK
<1>14. CASE UNCHANGED vars
  BY <1>14 DEF TypeOK
<1> QED
  BY <1>2, <1>3, <1>4, <1>5, <1>6, <1>7, <1>8, <1>9, <1>10, <1>11, <1>12, <1>13, <1>14
     DEF Next, JobStep

(* Every reachable state of the scheduler is well typed, and timers exist  *)
(* only while it is started.                                               *)
THEOREM TypeCorrect == Spec => []TypeOK
<1>1. Init => TypeOK
  <2>1. Executor("none", {}) \in ExecType
    BY BoundsAssumption DEF Executor, ExecType
  <2> QED BY <2>1 DEF Init, TypeOK, NoJob, JobType, Unborn, RowType, NoTimer, Null
<1> QED
  BY <1>1, TypeStep, PTL DEF Spec
---------------------------------------------------------------------------
(* What one step may do to the rows and executors.                         *)

(* A row keeps its identity, or its status moves as the code allows.       *)
RowMoves(r) ==
  /\ rows'[r].job = rows[r].job /\ rows'[r].for = rows[r].for
  /\ rows'[r].startedAt = rows[r].startedAt
  /\ \/ rows'[r].status = rows[r].status
     \/ rows[r].status \in Terminal /\ rows'[r].status = "pruned"
     \/ rows[r].status = "running" /\ rows'[r].status \in {"completed", "failed"}

RowIsNew(r, j) ==
  /\ rows[r].status = "none" /\ rows'[r].job = j
  /\ rows'[r].status \in {"running", "failed", "skipped", "pruned"}
  /\ rows'[r].status = "running" => ~HasRunningRun(j)

LEMMA BeginRows ==
  ASSUME TypeOK, NEW r \in Runs, NEW j \in Jobs, NEW for \in Nat, NewRun(r),
         SkipRun(r, j, for) \/ AcceptRun(r, j, for) \/ AcceptFails(r, j, for)
  PROVE  RowIsNew(r, j) /\ \A q \in Runs \ {r} : RowMoves(q)
<1>1. rows[r].status = "none"
  BY DEF NewRun
<1>2. ASSUME NEW status \in {"running", "skipped"}, rows' = WithRow(r, j, for, status)
      PROVE  /\ rows'[r].job = j /\ rows'[r].status \in {status, "pruned"}
             /\ \A q \in Runs \ {r} : RowMoves(q)
  <2> DEFINE new == WithRow(r, j, for, status)
  <2>0. /\ new[r].job = j /\ new[r].status \in {status, "pruned"}
        /\ \A q \in Runs \ {r} :
              \/ new[q] = rows[q]
              \/ /\ rows[q].status \in Terminal
                 /\ new[q].status = "pruned"
                 /\ new[q].job = rows[q].job /\ new[q].for = rows[q].for
                 /\ new[q].startedAt = rows[q].startedAt
    BY RowCreated
  <2>1. rows' = new
    BY <1>2
  <2> HIDE DEF new
  <2> QED BY <2>0, <2>1 DEF RowMoves
<1>3. CASE SkipRun(r, j, for)
  BY <1>1, <1>2, <1>3 DEF SkipRun, RowIsNew
<1>4. CASE AcceptRun(r, j, for)
  BY <1>1, <1>2, <1>4 DEF AcceptRun, Skips, RowIsNew
<1>5. CASE AcceptFails(r, j, for)
  <2> DEFINE base == WithRow(r, j, for, "running")
  <2>1. rows' = [base EXCEPT ![r].status = "failed"] /\ base \in [Runs -> RowType]
    BY <1>5, RowCreated DEF AcceptFails
  <2>2. /\ base[r].job = j
        /\ \A q \in Runs \ {r} :
              \/ base[q] = rows[q]
              \/ /\ rows[q].status \in Terminal
                 /\ base[q].status = "pruned"
                 /\ base[q].job = rows[q].job /\ base[q].for = rows[q].for
                 /\ base[q].startedAt = rows[q].startedAt
    BY RowCreated
  <2> HIDE DEF base
  <2>3. /\ rows'[r].job = j /\ rows'[r].status = "failed"
        /\ \A q \in Runs \ {r} : rows'[q] = base[q]
    BY <2>1, <2>2 DEF RowType
  <2>4. RowIsNew(r, j)
    BY <1>1, <2>3 DEF RowIsNew
  <2>5. \A q \in Runs \ {r} : RowMoves(q)
    BY <2>2, <2>3 DEF RowMoves
  <2> QED BY <2>4, <2>5
<1> QED BY <1>3, <1>4, <1>5

LEMMA FinishRows ==
  ASSUME TypeOK, NEW r \in Runs, FinishFailed(r) \/ FinishCompleted(r)
  PROVE  /\ rows'[r].status # "running"
         /\ FinishFailed(r) => rows'[r].status \in {rows[r].status, "failed"}
         /\ \A q \in Runs : RowMoves(q)
         /\ \A q \in Runs \ {r} : rows'[q] = rows[q]
<1>1. ASSUME NEW status \in {"failed", "completed"}, SetStatus(r, status)
      PROVE  /\ rows'[r].status = status /\ rows'[r].job = rows[r].job
             /\ rows'[r].for = rows[r].for /\ rows'[r].startedAt = rows[r].startedAt
             /\ \A q \in Runs \ {r} : rows'[q] = rows[q]
  BY <1>1 DEF SetStatus, TypeOK, RowType
<1> QED BY <1>1 DEF FinishFailed, FinishCompleted, StillOwnsRunningRow, RowMoves, store

LEMMA RowsMove ==
  ASSUME TypeOK, [Next]_vars
  PROVE  \/ \A q \in Runs : RowMoves(q)
         \/ \E r \in Runs, j \in Jobs : RowIsNew(r, j) /\ \A q \in Runs \ {r} : RowMoves(q)
<1> USE DEF store, process, bounds
<1>1. ASSUME UNCHANGED rows PROVE \A q \in Runs : RowMoves(q)
  BY <1>1 DEF RowMoves
<1>2. ASSUME NEW j \in Jobs, JobStep(j)
      PROVE  \/ UNCHANGED rows
             \/ \E r \in Runs : RowIsNew(r, j) /\ \A q \in Runs \ {r} : RowMoves(q)
  <2>1. ASSUME NEW r \in Runs, ManualRun(r, j)
        PROVE  RowIsNew(r, j) /\ \A q \in Runs \ {r} : RowMoves(q)
    <3>1. Null \in Nat
      BY DEF Null
    <3> QED BY <2>1, <3>1, BeginRows DEF ManualRun
  <2>2. ASSUME NEW r \in Runs, TimerFires(r, j)
        PROVE  RowIsNew(r, j) /\ \A q \in Runs \ {r} : RowMoves(q)
    <3>1. timers[j].for \in Nat
      BY DEF TypeOK
    <3> QED BY <2>2, <3>1, BeginRows DEF TimerFires
  <2> QED BY <1>2, <2>1, <2>2 DEF JobStep, CreateJob, UpdateJob, DeleteJob, StoreJob,
                                 ChangePolicy, ChunkFires
<1>3. ASSUME NEW r \in Runs, RunStep(r)
      PROVE  \A q \in Runs : RowMoves(q)
  <2>1. UNCHANGED rows \/ FinishFailed(r) \/ FinishCompleted(r)
    BY <1>3 DEF RunStep, Settlement, Created, CreationRejected, CreationUnconfirmed,
         CleanupUnconfirmed, AwaitReceipt, PromptCompleted, PromptRejected, PromptOverdue,
         DeadlineFires, CancellationSettles, CleanupConfirmed, CleanupRejected,
         ReceiptConfirmed, RuntimeStopped
  <2> QED BY <1>1, <2>1, FinishRows
<1>4. CASE Start
  BY <1>4 DEF Start, RowMoves, TypeOK, RowType
<1> QED
  BY <1>1, <1>2, <1>3, <1>4 DEF Next, Boot, Stop, Exit, Tick, vars

(* However timers, manual runs, failures and restarts interleave, no two   *)
(* rows of one job run together.                                           *)
THEOREM OverlapGuarded == Spec => []OneRunningRow
<1>1. Init => OneRunningRow
  BY DEF Init, OneRunningRow, Unborn
<1>2. TypeOK /\ OneRunningRow /\ [Next]_vars => OneRunningRow'
  <2> SUFFICES ASSUME TypeOK, OneRunningRow, [Next]_vars PROVE OneRunningRow'
    OBVIOUS
  <2>1. CASE \A q \in Runs : RowMoves(q)
    BY <2>1 DEF OneRunningRow, RowMoves, Terminal
  <2>2. ASSUME NEW r \in Runs, NEW j \in Jobs, RowIsNew(r, j),
               \A q \in Runs \ {r} : RowMoves(q)
        PROVE  OneRunningRow'
    BY <2>2 DEF OneRunningRow, RowMoves, RowIsNew, HasRunningRun, Terminal
  <2> QED BY <2>1, <2>2, RowsMove
<1> QED
  BY <1>1, <1>2, TypeCorrect, PTL DEF Spec

(* A late executor never revives or relabels a terminal row.               *)
THEOREM TerminalKept == Spec => TerminalFinal
<1>1. TypeOK /\ [Next]_vars =>
        [\A r \in Runs : rows[r].status \in Terminal \cup {"pruned"} =>
            rows'[r].status \in {rows[r].status, "pruned"}]_vars
  <2> SUFFICES ASSUME TypeOK, [Next]_vars, NEW r \in Runs,
                      rows[r].status \in Terminal \cup {"pruned"}
               PROVE  rows'[r].status \in {rows[r].status, "pruned"}
    OBVIOUS
  <2>1. CASE \A q \in Runs : RowMoves(q)
    BY <2>1 DEF RowMoves, Terminal
  <2>2. ASSUME NEW n \in Runs, NEW j \in Jobs, RowIsNew(n, j),
               \A q \in Runs \ {n} : RowMoves(q)
        PROVE  rows'[r].status \in {rows[r].status, "pruned"}
    BY <2>2 DEF RowMoves, RowIsNew, Terminal
  <2> QED BY <2>1, <2>2, RowsMove
<1> QED
  BY <1>1, TypeCorrect, PTL DEF Spec, TerminalFinal
---------------------------------------------------------------------------
(* The executors.                                                          *)

(* No cleanup has been refused yet while a run is created or prompted.     *)
NotYetUnconfirmed ==
  \A r \in Runs : exec[r].pc \in {"creating", "prompting"} => ~exec[r].unconfirmed

(* An executor that steps is awaiting; it goes on awaiting, keeps its row, *)
(* or is done after its last bookkeeping with its runtime accounted for.   *)
Advances(r) ==
  /\ exec[r].pc \in Awaiting
  /\ exec'[r].pc \in Awaiting \cup {"stuck", "done"}
  /\ exec'[r].pc = "done" => /\ rows'[r].status # "running"
                             /\ \/ ~exec'[r].expired /\ ~exec'[r].unconfirmed
                                \/ runtime'[r] = "gone"
  /\ exec'[r].pc \in {"creating", "prompting"} => ~exec'[r].unconfirmed
  /\ \/ rows'[r].status \in {rows[r].status, "failed"}
     \/ exec'[r].pc = "done" /\ ~exec'[r].expired /\ exec'[r].age < Budget

(* It touches no other run.                                                *)
OthersKept(r) ==
  /\ up' = up
  /\ \A q \in Runs \ {r} : exec'[q] = exec[q]
  /\ \A q \in Runs \ {r} : runtime'[q] = runtime[q]
  /\ \A q \in Runs \ {r} : rows'[q] = rows[q]

LEMMA RunStepOthers ==
  ASSUME TypeOK, NEW r \in Runs, RunStep(r)
  PROVE  OthersKept(r)
<1>1. up' = up
  BY DEF RunStep, Settlement, Created, CreationRejected, CreationUnconfirmed,
         CleanupUnconfirmed, AwaitReceipt, PromptCompleted, PromptRejected, PromptOverdue,
         DeadlineFires, CancellationSettles, CleanupConfirmed, CleanupRejected,
         ReceiptConfirmed, RuntimeStopped, Settled
<1>2. \A q \in Runs \ {r} : rows'[q] = rows[q]
  <2>1. UNCHANGED rows \/ FinishFailed(r) \/ FinishCompleted(r)
    BY DEF RunStep, Settlement, Created, CreationRejected, CreationUnconfirmed,
         CleanupUnconfirmed, AwaitReceipt, PromptCompleted, PromptRejected, PromptOverdue,
         DeadlineFires, CancellationSettles, CleanupConfirmed, CleanupRejected,
         ReceiptConfirmed, RuntimeStopped, store
  <2> QED BY <2>1, FinishRows
<1>3. \A q \in Runs \ {r} : runtime'[q] = runtime[q]
  BY DEF RunStep, Settlement, Created, CreationRejected, CreationUnconfirmed,
         CleanupUnconfirmed, AwaitReceipt, PromptCompleted, PromptRejected, PromptOverdue,
         DeadlineFires, CancellationSettles, CleanupConfirmed, CleanupRejected,
         ReceiptConfirmed, RuntimeStopped, SetRuntime, TypeOK
<1>4. \A q \in Runs \ {r} : exec'[q] = exec[q]
  BY DEF RunStep, Settlement, Created, CreationRejected, CreationUnconfirmed,
         CleanupUnconfirmed, AwaitReceipt, PromptCompleted, PromptRejected, PromptOverdue,
         DeadlineFires, CancellationSettles, CleanupConfirmed, CleanupRejected,
         ReceiptConfirmed, RuntimeStopped, Resume, Expire, Go, TypeOK
<1> QED BY <1>1, <1>2, <1>3, <1>4 DEF OthersKept

LEMMA RunStepAdvances ==
  ASSUME TypeOK, NotYetUnconfirmed, NEW r \in Runs, RunStep(r)
  PROVE  Advances(r)
<1>1. /\ exec[r] \in ExecType /\ rows[r] \in RowType
      /\ exec \in [Runs -> ExecType] /\ rows \in [Runs -> RowType]
      /\ runtime \in [Runs -> {"none", "pending", "live", "uncertain", "gone"}]
  BY DEF TypeOK
<1>4. ASSUME FinishFailed(r)
      PROVE  /\ rows'[r].status # "running" /\ rows'[r].status \in {rows[r].status, "failed"}
  BY <1>4, FinishRows
<1>5. ASSUME FinishCompleted(r)
      PROVE  rows'[r].status # "running"
  BY <1>5, FinishRows
<1>6. exec[r].pc \in {"creating", "prompting"} => exec[r].unconfirmed = FALSE
  BY <1>1 DEF NotYetUnconfirmed, ExecType
<1>7. ~Overdue(r) => exec[r].expired = FALSE /\ exec[r].age < Budget
  BY <1>1, BoundsAssumption DEF Overdue, ExecType
<1>8. ASSUME NEW pc, Resume(r, pc)
      PROVE  /\ exec'[r].pc = pc /\ exec'[r].age = exec[r].age
             /\ exec'[r].expired = exec[r].expired
             /\ exec'[r].unconfirmed = exec[r].unconfirmed
  BY <1>1, <1>8 DEF Resume, Go
<1>9. ASSUME NEW pc, Expire(r, pc)
      PROVE  /\ exec'[r].pc = pc /\ exec'[r].unconfirmed = exec[r].unconfirmed
  BY <1>1, <1>9 DEF Expire, Go
<1>10. ASSUME NEW pc, Go(r, pc, Overdue(r), TRUE) \/ Go(r, pc, exec[r].expired, TRUE)
                     \/ Go(r, pc, Overdue(r), exec[r].unconfirmed)
       PROVE  exec'[r].pc = pc
  BY <1>1, <1>10 DEF Go
<1>11. ASSUME NEW value, SetRuntime(r, value) PROVE runtime'[r] = value
  BY <1>1, <1>11 DEF SetRuntime
<1> USE DEF Advances, Awaiting
<1>12. CASE Created(r)
  <2>1. exec[r].pc = "creating"
    BY <1>12 DEF Created
  <2>2. CASE ~Overdue(r) /\ Resume(r, "prompting") /\ UNCHANGED store
    BY <1>6, <1>8, <2>1, <2>2 DEF store
  <2>3. CASE ~Overdue(r) /\ Resume(r, "done") /\ FinishFailed(r)
    BY <1>4, <1>6, <1>7, <1>8, <2>1, <2>3
  <2>4. CASE Overdue(r) /\ Expire(r, "cancelling") /\ UNCHANGED store
    BY <1>9, <2>1, <2>4 DEF store
  <2> QED BY <1>12, <2>2, <2>3, <2>4 DEF Created
<1>13. CASE CreationRejected(r)
  <2>1. /\ exec[r].pc = "creating" /\ SetRuntime(r, "gone") /\ FinishFailed(r)
        /\ Go(r, "done", Overdue(r), exec[r].unconfirmed)
    BY <1>13 DEF CreationRejected
  <2> QED BY <1>4, <1>10, <1>11, <2>1
<1>14. CASE CreationUnconfirmed(r) \/ CleanupUnconfirmed(r)
  <2>1. /\ exec[r].pc \in {"creating", "cleaning"} /\ UNCHANGED rows
        /\ Go(r, "waiting", Overdue(r), TRUE)
    BY <1>14 DEF CreationUnconfirmed, CleanupUnconfirmed, AwaitReceipt, store
  <2> QED BY <1>10, <2>1
<1>15. CASE PromptCompleted(r)
  <2>1. exec[r].pc = "prompting" /\ ~Overdue(r) /\ Resume(r, "done") /\ FinishCompleted(r)
    BY <1>15 DEF PromptCompleted
  <2> QED BY <1>5, <1>6, <1>7, <1>8, <2>1
<1>16. CASE PromptRejected(r)
  <2>1. exec[r].pc = "prompting" /\ ~Overdue(r) /\ Resume(r, "done") /\ FinishFailed(r)
    BY <1>16 DEF PromptRejected
  <2> QED BY <1>4, <1>6, <1>7, <1>8, <2>1
<1>17. CASE PromptOverdue(r)
  <2>1. exec[r].pc = "prompting" /\ Expire(r, "cancelling") /\ UNCHANGED rows
    BY <1>17 DEF PromptOverdue, store
  <2> QED BY <1>9, <2>1
<1>18. CASE DeadlineFires(r)
  <2>1. exec[r].pc \in {"creating", "prompting"} /\ Expire(r, exec[r].pc) /\ UNCHANGED rows
    BY <1>18 DEF DeadlineFires, store
  <2> QED BY <1>6, <1>9, <2>1
<1>19. CASE CancellationSettles(r)
  <2>1. exec[r].pc = "cancelling" /\ Resume(r, "cleaning") /\ UNCHANGED rows
    BY <1>19 DEF CancellationSettles, store
  <2> QED BY <1>8, <2>1
<1>20. CASE CleanupConfirmed(r) \/ ReceiptConfirmed(r)
  <2>1. /\ exec[r].pc \in {"cleaning", "waiting"} /\ SetRuntime(r, "gone")
        /\ Resume(r, "done") /\ FinishFailed(r)
    BY <1>20 DEF CleanupConfirmed, ReceiptConfirmed
  <2> QED BY <1>4, <1>8, <1>11, <2>1
<1>21. CASE CleanupRejected(r)
  <2>1. /\ exec[r].pc = "cleaning" /\ Go(r, "stuck", exec[r].expired, TRUE)
        /\ UNCHANGED rows
    BY <1>21 DEF CleanupRejected, store
  <2> QED BY <1>10, <2>1
<1>22. CASE RuntimeStopped(r)
  <2>1. exec[r].pc \in Awaiting /\ UNCHANGED <<rows, exec>>
    BY <1>22 DEF RuntimeStopped, store
  <2> QED BY <1>6, <2>1
<1> QED
  BY <1>12, <1>13, <1>14, <1>15, <1>16, <1>17, <1>18, <1>19, <1>20, <1>21, <1>22
     DEF RunStep, Settlement

(* A new run starts awaiting creation, or is over at once.                 *)
LEMMA BeginExec ==
  ASSUME TypeOK, NEW r \in Runs, NEW j \in Jobs, NEW for \in Nat, NewRun(r),
         SkipRun(r, j, for) \/ AcceptRun(r, j, for) \/ AcceptFails(r, j, for)
  PROVE  /\ \/ exec'[r] = exec[r] /\ rows'[r].status # "running" /\ runtime'[r] = runtime[r]
            \/ exec'[r].pc = "creating" /\ ~exec'[r].unconfirmed
            \/ /\ exec'[r].pc = "done" /\ ~exec'[r].unconfirmed /\ ~exec'[r].expired
               /\ rows'[r].status # "running"
         /\ rows'[r].status # "completed"
         /\ \A q \in Runs \ {r} : exec'[q] = exec[q] /\ runtime'[q] = runtime[q]
<1>1. /\ exec \in [Runs -> ExecType]
      /\ runtime \in [Runs -> {"none", "pending", "live", "uncertain", "gone"}]
  BY DEF TypeOK
<1>2. rows'[r].status # "completed"
  BY BeginRows DEF RowIsNew
<1>3. CASE SkipRun(r, j, for)
  <2>1. rows'[r].status # "running"
    BY <1>3, RowCreated DEF SkipRun
  <2> QED BY <1>2, <1>3, <2>1 DEF SkipRun
<1>4. CASE AcceptRun(r, j, for)
  BY <1>1, <1>2, <1>4 DEF AcceptRun, Executor
<1>5. CASE AcceptFails(r, j, for)
  <2>1. WithRow(r, j, for, "running") \in [Runs -> RowType]
    BY RowCreated
  <2>2. rows'[r].status = "failed"
    BY <1>5, <2>1 DEF AcceptFails, RowType
  <2> QED BY <1>1, <1>2, <1>5, <2>2 DEF AcceptFails, Executor
<1> QED BY <1>3, <1>4, <1>5
---------------------------------------------------------------------------
(* The executor invariants, proved together.                               *)
ExecutorInv == /\ NotYetUnconfirmed
               /\ RunningRowOwned
               /\ ReleaseProven
               /\ SuccessWithinBudget

(* A turn that accepts, fails or skips one run keeps them.                 *)
LEMMA ExecutorBegin ==
  ASSUME TypeOK, ExecutorInv, NEW r \in Runs, NEW j \in Jobs, NEW for \in Nat,
         NewRun(r), UNCHANGED up,
         SkipRun(r, j, for) \/ AcceptRun(r, j, for) \/ AcceptFails(r, j, for)
  PROVE  ExecutorInv'
<1>1. /\ \A q \in Runs \ {r} : RowMoves(q) /\ exec'[q] = exec[q] /\ runtime'[q] = runtime[q]
      /\ rows'[r].status # "completed"
      /\ \/ exec'[r] = exec[r] /\ rows'[r].status # "running" /\ runtime'[r] = runtime[r]
         \/ exec'[r].pc = "creating" /\ ~exec'[r].unconfirmed
         \/ /\ exec'[r].pc = "done" /\ ~exec'[r].unconfirmed /\ ~exec'[r].expired
            /\ rows'[r].status # "running"
  BY BeginRows, BeginExec
<1>2. \A q \in Runs \ {r} : /\ rows'[q].status = "running" => rows[q].status = "running"
                            /\ rows'[q].status = "completed" =>
                                 rows[q].status \in {"running", "completed"}
  BY <1>1 DEF RowMoves
<1>3. \A q \in Runs \ {r} : rows'[q].status = "completed" => rows[q].status = "completed"
  <2>1. ASSUME NEW status \in {"running", "skipped"}
        PROVE  \A q \in Runs \ {r} : \/ WithRow(r, j, for, status)[q] = rows[q]
                                    \/ WithRow(r, j, for, status)[q].status = "pruned"
    BY RowCreated
  <2>2. ASSUME NEW status \in {"running", "skipped"}
        PROVE  WithRow(r, j, for, status) \in [Runs -> RowType]
    BY RowCreated
  <2>3. \/ rows' = WithRow(r, j, for, "skipped")
        \/ rows' = WithRow(r, j, for, "running")
        \/ rows' = [WithRow(r, j, for, "running") EXCEPT ![r].status = "failed"]
    BY DEF SkipRun, AcceptRun, AcceptFails
  <2> QED BY <2>1, <2>2, <2>3
<1>4. NotYetUnconfirmed'
  BY <1>1 DEF ExecutorInv, NotYetUnconfirmed
<1>5. RunningRowOwned'
  <2> SUFFICES ASSUME up' = "started", NEW q \in Runs, rows'[q].status = "running"
               PROVE  exec'[q].pc \in Awaiting \cup {"stuck"}
    BY DEF RunningRowOwned
  <2>1. CASE q = r
    BY <1>1, <2>1 DEF Awaiting
  <2>2. CASE q # r
    <3>1. rows[q].status = "running" /\ exec'[q] = exec[q]
      BY <1>1, <1>2, <2>2
    <3>2. up' = up /\ up' = "started"
      OBVIOUS
    <3> QED BY <3>1, <3>2 DEF ExecutorInv, RunningRowOwned
  <2> QED BY <2>1, <2>2
<1>6. ReleaseProven'
  BY <1>1 DEF ExecutorInv, ReleaseProven
<1>7. SuccessWithinBudget'
  BY <1>1, <1>3 DEF ExecutorInv, SuccessWithinBudget
<1> QED BY <1>4, <1>5, <1>6, <1>7 DEF ExecutorInv

LEMMA ExecutorStep == TypeOK /\ ExecutorInv /\ [Next]_vars => ExecutorInv'
<1> SUFFICES ASSUME TypeOK, ExecutorInv, [Next]_vars PROVE ExecutorInv'
  OBVIOUS
<1> USE DEF store, process, bounds
<1>1. ASSUME NEW r \in Runs, RunStep(r) PROVE ExecutorInv'
  <2>1. Advances(r) /\ OthersKept(r)
    BY <1>1, RunStepAdvances, RunStepOthers DEF ExecutorInv
  <2>2. NotYetUnconfirmed'
    BY <2>1 DEF ExecutorInv, NotYetUnconfirmed, Advances, OthersKept
  <2>3. RunningRowOwned'
    BY <2>1 DEF ExecutorInv, RunningRowOwned, Advances, OthersKept
  <2>4. ReleaseProven'
    BY <2>1 DEF ExecutorInv, ReleaseProven, Advances, OthersKept
  <2>5. SuccessWithinBudget'
    BY <2>1 DEF ExecutorInv, SuccessWithinBudget, Advances, OthersKept, Awaiting
  <2> QED BY <2>2, <2>3, <2>4, <2>5 DEF ExecutorInv
<1>2. ASSUME UNCHANGED <<rows, exec, runtime>>, up' = "started" => up = "started"
      PROVE  ExecutorInv'
  BY <1>2 DEF ExecutorInv, NotYetUnconfirmed, RunningRowOwned, ReleaseProven,
              SuccessWithinBudget
<1>3. ASSUME NEW j \in Jobs, JobStep(j) PROVE ExecutorInv'
  <2>1. ASSUME NEW r \in Runs, ManualRun(r, j) PROVE ExecutorInv'
    <3>1. Null \in Nat
      BY DEF Null
    <3> QED BY <2>1, <3>1, ExecutorBegin DEF ManualRun
  <2>2. ASSUME NEW r \in Runs, TimerFires(r, j) PROVE ExecutorInv'
    <3>1. timers[j].for \in Nat
      BY DEF TypeOK
    <3> QED BY <2>2, <3>1, ExecutorBegin DEF TimerFires
  <2>3. CASE UNCHANGED <<rows, up, exec, runtime>>
    BY <1>2, <2>3
  <2> QED BY <1>3, <2>1, <2>2, <2>3 DEF JobStep, CreateJob, UpdateJob, DeleteJob, StoreJob,
                                       ChangePolicy, ChunkFires
<1>4. CASE Boot \/ Stop \/ UNCHANGED vars
  BY <1>2, <1>4 DEF Boot, Stop, vars
<1>5. CASE Start
  <2>1. \A r \in Runs : /\ rows'[r].status # "running"
                        /\ rows'[r].status = "completed" => rows[r].status = "completed"
    BY <1>5 DEF Start, TypeOK, RowType
  <2>2. exec' = exec /\ runtime' = runtime
    BY <1>5 DEF Start
  <2>3. NotYetUnconfirmed' /\ ReleaseProven'
    BY <2>2 DEF ExecutorInv, NotYetUnconfirmed, ReleaseProven
  <2>4. RunningRowOwned'
    <3> SUFFICES ASSUME NEW r \in Runs, rows'[r].status = "running" PROVE FALSE
      BY DEF RunningRowOwned
    <3> QED BY <2>1
  <2>5. SuccessWithinBudget'
    BY <2>1, <2>2 DEF ExecutorInv, SuccessWithinBudget
  <2> QED BY <2>3, <2>4, <2>5 DEF ExecutorInv
<1>6. CASE Exit
  <2>1. /\ up' = "down" /\ rows' = rows
        /\ \A r \in Runs : /\ runtime'[r] \in {"none", "gone"}
                           /\ runtime[r] # "none" => runtime'[r] = "gone"
                           /\ \/ exec'[r].pc = "lost" /\ exec[r].pc \in Awaiting \cup {"stuck"}
                              \/ exec'[r] = exec[r] /\ exec[r].pc \notin Awaiting
    BY <1>6 DEF Exit, Executor, TypeOK
  <2>2. NotYetUnconfirmed' /\ RunningRowOwned'
    BY <2>1 DEF NotYetUnconfirmed, RunningRowOwned, Awaiting
  <2>3. ReleaseProven'
    BY <2>1 DEF ExecutorInv, ReleaseProven
  <2>4. SuccessWithinBudget'
    BY <2>1 DEF ExecutorInv, SuccessWithinBudget, Awaiting
  <2> QED BY <2>2, <2>3, <2>4 DEF ExecutorInv
<1>7. CASE Tick
  <2>1. /\ UNCHANGED <<rows, up, runtime>>
        /\ \A r \in Runs : /\ exec'[r].pc = exec[r].pc
                           /\ exec'[r].expired = exec[r].expired
                           /\ exec'[r].unconfirmed = exec[r].unconfirmed
                           /\ exec[r].pc = "done" => exec'[r] = exec[r]
    BY <1>7 DEF Tick, TypeOK, ExecType
  <2> QED BY <2>1 DEF ExecutorInv, NotYetUnconfirmed, RunningRowOwned, ReleaseProven,
                      SuccessWithinBudget
<1> QED
  BY <1>1, <1>3, <1>4, <1>5, <1>6, <1>7 DEF Next

LEMMA ExecutorsHold == Spec => []ExecutorInv
<1>1. Init => ExecutorInv
  BY DEF Init, ExecutorInv, NotYetUnconfirmed, RunningRowOwned, ReleaseProven,
         SuccessWithinBudget, Executor, Unborn
<1> QED BY <1>1, ExecutorStep, TypeCorrect, PTL DEF Spec

(* After start() nothing left by a dead process blocks a job.              *)
THEOREM RunningRowsOwned == Spec => []RunningRowOwned
BY ExecutorsHold, PTL DEF ExecutorInv

(* A run that timed out, or whose cleanup was refused, finishes only when  *)
(* its runtime is gone.                                                    *)
THEOREM ReleaseIsProven == Spec => []ReleaseProven
BY ExecutorsHold, PTL DEF ExecutorInv

(* No run is reported completed after its deadline.                        *)
THEOREM SuccessInBudget == Spec => []SuccessWithinBudget
BY ExecutorsHold, PTL DEF ExecutorInv
---------------------------------------------------------------------------
(* The timers of a started scheduler.                                      *)

(* JobArmed, of one job in a started scheduler.                            *)
ArmedFor(job, timer, t) ==
  IF timer = NoTimer THEN job.enabled => NextCron(job.cron, t) = Null
                     ELSE job.enabled /\ timer.for \in job.cron

(* A timer armed from the job's own expression is the right one.           *)
LEMMA ReloadArms ==
  ASSUME TypeOK, NEW job \in JobType
  PROVE  /\ ArmedFor(ReloadedJob(job, TRUE), ReloadedTimer(job, TRUE), now)
         /\ job.enabled => \A new \in JobType :
              new.enabled /\ new.cron = job.cron => ArmedFor(new, Armed(job.cron), now)
<1>1. job.cron \in Crons \cup {{}}
  BY DEF JobType
<1>2. IF Armed(job.cron) = NoTimer THEN NextCron(job.cron, now) = Null
                                   ELSE Armed(job.cron).for \in job.cron
  BY <1>1, ArmedTimer
<1>3. /\ ReloadedJob(job, TRUE).enabled = job.enabled
      /\ ReloadedJob(job, TRUE).cron = job.cron
  BY ReloadType
<1>4. ReloadedTimer(job, TRUE) = IF job.enabled THEN Armed(job.cron) ELSE NoTimer
  BY DEF ReloadedTimer
<1> QED BY <1>2, <1>3, <1>4 DEF ArmedFor

(* Nothing that leaves the jobs' expressions and timers alone disturbs it, *)
(* since time only uses occurrences up.                                    *)
LEMMA ArmedKept ==
  ASSUME TypeOK, JobArmed, TypeOK', now' >= now, timers' = timers,
         up' = "started" => up = "started",
         \A j \in Jobs : /\ jobs'[j].enabled = jobs[j].enabled
                         /\ jobs'[j].cron = jobs[j].cron
  PROVE  JobArmed'
<1> SUFFICES ASSUME up' = "started", NEW j \in Jobs
             PROVE  ArmedFor(jobs'[j], timers'[j], now')
  BY DEF JobArmed, ArmedFor
<1>1. ArmedFor(jobs[j], timers[j], now)
  BY DEF JobArmed, ArmedFor
<1>2. jobs[j].cron \in Crons \cup {{}} /\ now \in Nat /\ now' \in Nat
  BY DEF TypeOK, JobType
<1>3. NextCron(jobs[j].cron, now) = Null => NextCron(jobs[j].cron, now') = Null
  <2>1. /\ NextCron(jobs[j].cron, now) = Null <=> \A o \in jobs[j].cron : ~ (o > now)
        /\ NextCron(jobs[j].cron, now') = Null <=> \A o \in jobs[j].cron : ~ (o > now')
    BY <1>2, NextCronOccurs
  <2>2. jobs[j].cron \subseteq Nat
    BY <1>2, CronsAssumption
  <2> QED BY <1>2, <2>1, <2>2
<1> QED BY <1>1, <1>3 DEF ArmedFor

LEMMA ArmedStep == TypeOK /\ JobArmed /\ [Next]_vars => JobArmed'
<1> SUFFICES ASSUME TypeOK, JobArmed, [Next]_vars PROVE JobArmed'
  OBVIOUS
<1>t. TypeOK'
  BY TypeStep
<1>n. now \in Nat
  BY DEF TypeOK
<1> USE DEF store, process, bounds
<1>1. ASSUME now' >= now, timers' = timers, up' = "started" => up = "started",
             \A j \in Jobs : /\ jobs'[j].enabled = jobs[j].enabled
                             /\ jobs'[j].cron = jobs[j].cron
      PROVE  JobArmed'
  BY <1>1, <1>t, ArmedKept
<1>2. ASSUME NEW j \in Jobs, up' = up, now' = now,
             \A i \in Jobs \ {j} : jobs'[i] = jobs[i] /\ timers'[i] = timers[i],
             up = "started" => ArmedFor(jobs'[j], timers'[j], now)
      PROVE  JobArmed'
  BY <1>2 DEF JobArmed, ArmedFor
<1>3. ASSUME NEW j \in Jobs, NEW job \in JobType, StoreJob(j, job)
      PROVE  JobArmed'
  <2>1. up = "started" => ArmedFor(jobs'[j], timers'[j], now)
    BY <1>3, ReloadArms DEF StoreJob, TypeOK
  <2> QED BY <1>2, <1>3, <2>1 DEF StoreJob, TypeOK
<1>4. ASSUME NEW j \in Jobs, NEW c \in Crons, NEW e \in BOOLEAN,
             CreateJob(j, c, e) \/ UpdateJob(j, c, e)
      PROVE  JobArmed'
  <2>1. jobs[j] \in JobType
    BY DEF TypeOK
  <2>2. /\ [NoJob EXCEPT !.state = "stored", !.enabled = e, !.cron = c] \in JobType
        /\ [jobs[j] EXCEPT !.enabled = e, !.cron = c] \in JobType
    BY <2>1 DEF NoJob, JobType, Null
  <2> QED BY <1>3, <1>4, <2>2 DEF CreateJob, UpdateJob
<1>5. ASSUME NEW j \in Jobs, DeleteJob(j) PROVE JobArmed'
  <2>1. [NoJob EXCEPT !.state = "deleted"] \in JobType
    BY DEF NoJob, JobType, Null
  <2> QED BY <1>3, <1>5, <2>1 DEF DeleteJob
<1>6. ASSUME NEW j \in Jobs, NEW r \in Runs, ManualRun(r, j) PROVE JobArmed'
  BY <1>1, <1>6, <1>n DEF ManualRun
<1>7. ASSUME NEW j \in Jobs, ChangePolicy(j) PROVE JobArmed'
  BY <1>1, <1>7, <1>n DEF ChangePolicy
<1>8. ASSUME NEW j \in Jobs, NEW job \in JobType, Rearm(j, job), Due(j),
             job.enabled = jobs[j].enabled, UNCHANGED <<up, now>>
      PROVE  JobArmed'
  <2> DEFINE new == [job EXCEPT !.next = NextCron(job.cron, now)]
  <2>1. new \in JobType /\ new.enabled = job.enabled /\ new.cron = job.cron
    BY <1>8, NextCronOccurs, <1>n DEF JobType
  <2>2. jobs'[j] = new /\ timers'[j] = Armed(job.cron)
    BY <1>8 DEF Rearm, TypeOK
  <2>3. job.enabled
    BY <1>8 DEF Due
  <2> HIDE DEF new
  <2>4. ArmedFor(jobs'[j], timers'[j], now)
    BY <2>1, <2>2, <2>3, ReloadArms
  <2> QED BY <1>2, <1>8, <2>4 DEF Rearm, TypeOK
<1>9. ASSUME NEW j \in Jobs, ChunkFires(j) PROVE JobArmed'
  BY <1>8, <1>9 DEF ChunkFires, TypeOK
<1>10. ASSUME NEW j \in Jobs, NEW r \in Runs, TimerFires(r, j) PROVE JobArmed'
  <2>1. timers[j].for \in Nat /\ jobs[j] \in JobType
    BY DEF TypeOK
  <2>2. /\ LastRun(jobs[j], timers[j].for) \in JobType
        /\ LastRun(jobs[j], timers[j].for).enabled = jobs[j].enabled
    BY <2>1 DEF LastRun, JobType
  <2>3. Rearm(j, jobs[j]) \/ Rearm(j, LastRun(jobs[j], timers[j].for))
    BY <1>10 DEF TimerFires
  <2> QED BY <1>8, <1>10, <2>1, <2>2, <2>3 DEF TimerFires
<1>11. ASSUME NEW r \in Runs, RunStep(r) PROVE JobArmed'
  <2>1. /\ UNCHANGED store \/ FinishFailed(r) \/ FinishCompleted(r)
        /\ Settled
    BY <1>11 DEF RunStep, Settlement, Created, CreationRejected, CreationUnconfirmed,
           CleanupUnconfirmed, AwaitReceipt, PromptCompleted, PromptRejected, PromptOverdue,
           DeadlineFires, CancellationSettles, CleanupConfirmed, CleanupRejected,
           ReceiptConfirmed, RuntimeStopped
  <2>2. \A j \in Jobs : jobs'[j].enabled = jobs[j].enabled /\ jobs'[j].cron = jobs[j].cron
    BY <2>1, FinishType
  <2> QED BY <1>1, <1>n, <2>1, <2>2 DEF Settled
<1>12. CASE Boot \/ Stop \/ Exit
  BY <1>12 DEF Boot, Stop, Exit, JobArmed
<1>13. CASE Start
  <2>1. \A j \in Jobs : ArmedFor(jobs'[j], timers'[j], now')
    BY <1>13, ReloadArms DEF Start, TypeOK
  <2> QED BY <2>1 DEF JobArmed, ArmedFor
<1>14. CASE Tick
  BY <1>1, <1>14, <1>n DEF Tick
<1>15. CASE UNCHANGED vars
  BY <1>1, <1>15, <1>n DEF vars
<1> QED
  BY <1>4, <1>5, <1>6, <1>7, <1>9, <1>10, <1>11, <1>12, <1>13, <1>14, <1>15
     DEF Next, JobStep

(* A started scheduler never loses the timer of an enabled job, and never  *)
(* keeps one for a disabled or deleted job or a replaced expression.       *)
THEOREM JobsArmed == Spec => []JobArmed
<1>1. Init => JobArmed
  BY DEF Init, JobArmed
<1> QED BY <1>1, ArmedStep, TypeCorrect, PTL DEF Spec
---------------------------------------------------------------------------
(* The occurrences of a job over its whole history.                        *)

(* Run r executed an occurrence, or began to.                              *)
Executed(r) == exec[r].pc # "none" /\ rows[r].for # Null
AtWork(r) == exec[r].pc \in Awaiting \cup {"stuck"}

RunsInOrder ==
  \A q, r \in Runs : q < r /\ rows[r].status # "none" => rows[q].status # "none"

(* What was executed has a row, of a job that once existed.                *)
ExecutedHasRow ==
  \A r \in Runs : exec[r].pc # "none" =>
     rows[r].status # "none" /\ rows[r].job \in Jobs /\ jobs[rows[r].job].state # "new"

(* The running row of a job is the last that was accepted for it.          *)
RunningIsLast ==
  \A m \in Runs : rows[m].status = "running" =>
     /\ exec[m].pc \notin {"none", "done"}
     /\ \A r \in Runs : m < r /\ rows[r].job = rows[m].job => exec[r].pc = "none"

(* Occurrences are only executed by a process that has run start().        *)
WorkFollowsStart ==
  \A r \in Runs : Executed(r) /\ AtWork(r) => up \in {"started", "stopped"}

(* The occurrence of a running row lies ahead of last_run_at.              *)
RunningIsAhead ==
  \A r \in Runs :
     /\ rows[r].status = "running" /\ rows[r].for # Null
     /\ jobs[rows[r].job].state = "stored"
     => jobs[rows[r].job].last < rows[r].for

(* A later manual run that began before the occurrence of r has moved      *)
(* last_run_at back.                                                       *)
MovedBack(r) ==
  \E m \in Runs : /\ r < m /\ rows[m].job = rows[r].job /\ rows[m].for = Null
                  /\ exec[m].pc = "done" /\ rows[m].startedAt < rows[r].for

(* What an executor that is still there has executed is running, or        *)
(* recorded in last_run_at.                                                *)
ExecutedIsRecorded ==
  \A r \in Runs : Executed(r) /\ exec[r].pc # "lost" =>
     \/ rows[r].status = "running"
     \/ jobs[rows[r].job].state # "stored"
     \/ jobs[rows[r].job].last >= rows[r].for
     \/ MovedBack(r)

HistoryInv ==
  /\ RunsInOrder /\ ExecutedHasRow /\ RunningIsLast /\ WorkFollowsStart
  /\ RunningIsAhead /\ ExecutedIsRecorded /\ OccurrenceOnce

(* What every step does to an executor, unless it accepts its run.         *)
ExecMoves(q) ==
  /\ exec'[q].pc = "none" <=> exec[q].pc = "none"
  /\ exec[q].pc \in {"done", "lost"} => exec'[q].pc = exec[q].pc
  /\ exec'[q].pc \in Awaiting \cup {"stuck"} => AtWork(q)
  /\ exec'[q].pc = "done" /\ exec[q].pc # "done" => rows'[q].status # "running"

(* ... and to what the history reads of a job, unless a run ends.          *)
JobMoves(j) ==
  /\ jobs'[j].state = "new" => jobs[j].state = "new"
  /\ jobs'[j].state = "stored" /\ jobs[j].state # "new" =>
        jobs[j].state = "stored" /\ jobs'[j].last = jobs[j].last

LEMMA RunsAreNaturals == Runs \subseteq Nat
BY BoundsAssumption DEF Runs

(* A run that has been executed and is not lost is done or at work.        *)
LEMMA PcSplit ==
  ASSUME TypeOK, NEW q \in Runs
  PROVE  /\ exec[q].pc \in Awaiting \cup {"none", "done", "stuck", "lost"}
         /\ rows[q] \in RowType /\ exec[q] \in ExecType
BY DEF TypeOK, ExecType

(* A step that accepts no run, and takes "running" only from rows whose    *)
(* executor is lost or was no scheduled one.                               *)
LEMMA HistoryFrame ==
  ASSUME TypeOK, HistoryInv,
         \A q \in Runs : RowMoves(q) /\ ExecMoves(q),
         \A j \in Jobs : JobMoves(j),
         \A q \in Runs : Executed(q) /\ rows[q].status = "running" =>
            rows'[q].status = "running" \/ exec'[q].pc = "lost",
         \A q \in Runs : Executed(q) /\ up \in {"started", "stopped"} /\ AtWork(q)' =>
            up' \in {"started", "stopped"}
  PROVE  HistoryInv'
<1> USE DEF RowMoves, ExecMoves, Executed, Terminal
<1>1. RunsInOrder'
  BY DEF HistoryInv, RunsInOrder
<1>2. ExecutedHasRow'
  BY DEF HistoryInv, ExecutedHasRow, JobMoves
<1>3. RunningIsLast'
  <2> SUFFICES ASSUME NEW m \in Runs, rows'[m].status = "running"
               PROVE  /\ exec'[m].pc \notin {"none", "done"}
                      /\ \A r \in Runs : m < r /\ rows'[r].job = rows'[m].job => exec'[r].pc = "none"
    BY DEF RunningIsLast
  <2>1. rows[m].status = "running"
    OBVIOUS
  <2>2. exec[m].pc \notin {"none", "done"}
        /\ \A r \in Runs : m < r /\ rows[r].job = rows[m].job => exec[r].pc = "none"
    BY <2>1 DEF HistoryInv, RunningIsLast
  <2> QED BY <2>2
<1>4. WorkFollowsStart'
  BY DEF HistoryInv, WorkFollowsStart, AtWork
<1>5. RunningIsAhead'
  <2> SUFFICES ASSUME NEW r \in Runs, rows'[r].status = "running", rows'[r].for # Null,
                      jobs'[rows'[r].job].state = "stored"
               PROVE  jobs'[rows'[r].job].last < rows'[r].for
    BY DEF RunningIsAhead
  <2>1. /\ rows[r].status = "running" /\ rows'[r].job = rows[r].job /\ rows'[r].for = rows[r].for
        /\ exec[r].pc # "none"
    BY DEF HistoryInv, RunningIsLast
  <2>2. rows[r].job \in Jobs /\ jobs[rows[r].job].state # "new"
    BY <2>1 DEF HistoryInv, ExecutedHasRow
  <2>3. jobs[rows[r].job].state = "stored" /\ jobs'[rows[r].job].last = jobs[rows[r].job].last
    BY <2>1, <2>2 DEF JobMoves
  <2> QED BY <2>1, <2>3 DEF HistoryInv, RunningIsAhead
<1>6. ASSUME NEW r \in Runs, MovedBack(r) PROVE MovedBack(r)'
  BY <1>6 DEF MovedBack
<1>7. ExecutedIsRecorded'
  <2> SUFFICES ASSUME NEW r \in Runs, Executed(r)', exec'[r].pc # "lost"
               PROVE  \/ rows'[r].status = "running"
                      \/ jobs'[rows'[r].job].state # "stored"
                      \/ jobs'[rows'[r].job].last >= rows'[r].for
                      \/ MovedBack(r)'
    BY DEF ExecutedIsRecorded
  <2>1. /\ Executed(r) /\ exec[r].pc # "lost"
        /\ rows'[r].job = rows[r].job /\ rows'[r].for = rows[r].for
    OBVIOUS
  <2>2. rows[r].job \in Jobs /\ jobs[rows[r].job].state # "new"
    BY <2>1 DEF HistoryInv, ExecutedHasRow
  <2>3. \/ jobs'[rows[r].job].state # "stored"
        \/ jobs[rows[r].job].state = "stored" /\ jobs'[rows[r].job].last = jobs[rows[r].job].last
    BY <2>2 DEF JobMoves
  <2> QED BY <1>6, <2>1, <2>3 DEF HistoryInv, ExecutedIsRecorded
<1>8. OccurrenceOnce'
  <2> SUFFICES ASSUME NEW r \in Runs, NEW q \in Runs, r < q,
                      exec'[r].pc # "none", exec'[q].pc # "none", rows'[r].for # Null,
                      rows'[r].for = rows'[q].for, rows'[r].job = rows'[q].job
               PROVE  \/ exec'[r].pc = "lost"
                      \/ \E m \in r .. q : /\ rows'[m].job = rows'[r].job /\ rows'[m].for = Null
                                           /\ exec'[m].pc = "done"
                                           /\ rows'[m].startedAt < rows'[r].for
    BY DEF OccurrenceOnce
  <2>1. \/ exec[r].pc = "lost"
        \/ \E m \in r .. q : /\ rows[m].job = rows[r].job /\ rows[m].for = Null
                             /\ exec[m].pc = "done" /\ rows[m].startedAt < rows[r].for
    BY DEF HistoryInv, OccurrenceOnce
  <2>2. r .. q \subseteq Runs
    BY BoundsAssumption DEF Runs
  <2> QED BY <2>1, <2>2
<1> QED
  BY <1>1, <1>2, <1>3, <1>4, <1>5, <1>7, <1>8 DEF HistoryInv

(* A step that begins a run adds its row and leaves every other run at it. *)
LEMMA BeginHistory ==
  ASSUME TypeOK, NEW r \in Runs, NEW j \in Jobs, NEW for \in Nat, NewRun(r),
         SkipRun(r, j, for) \/ AcceptRun(r, j, for) \/ AcceptFails(r, j, for)
  PROVE  /\ rows'[r].job = j /\ rows'[r].for = for /\ rows'[r].startedAt = now
         /\ rows'[r].status # "none"
         /\ \A q \in Runs \ {r} : /\ RowMoves(q) /\ exec'[q] = exec[q]
                                  /\ rows[q].status = "running" => rows'[q].status = "running"
         /\ \/ SkipRun(r, j, for) /\ exec'[r] = exec[r] /\ rows'[r].status # "running"
            \/ AcceptRun(r, j, for) /\ exec'[r].pc = "creating" /\ ~Skips(j, for)
            \/ /\ AcceptFails(r, j, for) /\ exec'[r].pc = "done" /\ rows'[r].status # "running"
               /\ ~Skips(j, for)
<1>1. \A q \in Runs \ {r} : RowMoves(q) /\ exec'[q] = exec[q]
  BY BeginRows, BeginExec
<1>2. ASSUME NEW status \in {"running", "skipped"}
      PROVE  /\ WithRow(r, j, for, status) \in [Runs -> RowType]
             /\ WithRow(r, j, for, status)[r].job = j
             /\ WithRow(r, j, for, status)[r].for = for
             /\ WithRow(r, j, for, status)[r].startedAt = now
             /\ WithRow(r, j, for, status)[r].status \in {status, "pruned"}
             /\ \A q \in Runs \ {r} : rows[q].status = "running"
                   => WithRow(r, j, for, status)[q].status = "running"
  BY RowCreated DEF Terminal
<1>3. CASE SkipRun(r, j, for)
  <2>1. rows' = WithRow(r, j, for, "skipped") /\ exec' = exec
    BY <1>3 DEF SkipRun
  <2> QED BY <1>1, <1>2, <1>3, <2>1
<1>4. CASE AcceptRun(r, j, for)
  <2>1. rows' = WithRow(r, j, for, "running") /\ exec'[r].pc = "creating" /\ ~Skips(j, for)
    BY <1>4 DEF AcceptRun, Executor, TypeOK
  <2> QED BY <1>1, <1>2, <1>4, <2>1
<1>5. CASE AcceptFails(r, j, for)
  <2> DEFINE base == WithRow(r, j, for, "running")
  <2>1. /\ rows' = [base EXCEPT ![r].status = "failed"] /\ exec'[r].pc = "done"
        /\ ~Skips(j, for)
    BY <1>5 DEF AcceptFails, Executor, TypeOK
  <2>2. /\ base \in [Runs -> RowType]
        /\ base[r].job = j /\ base[r].for = for /\ base[r].startedAt = now
        /\ \A q \in Runs \ {r} : rows[q].status = "running" => base[q].status = "running"
    BY <1>2
  <2> HIDE DEF base
  <2>3. /\ rows'[r].job = j /\ rows'[r].for = for /\ rows'[r].startedAt = now
        /\ rows'[r].status = "failed"
        /\ \A q \in Runs \ {r} : rows[q].status = "running" => rows'[q].status = "running"
    BY <2>1, <2>2 DEF RowType
  <2> QED BY <1>1, <1>5, <2>1, <2>3
<1> QED BY <1>3, <1>4, <1>5

(* Beginning a run: it comes after all others, and for an occurrence that  *)
(* lies ahead of last_run_at, so that no executor has recorded it.         *)
LEMMA HistoryBegins ==
  ASSUME TypeOK, HistoryInv, NEW r \in Runs, NEW j \in Jobs, NEW for \in Nat, NewRun(r),
         SkipRun(r, j, for) \/ AcceptRun(r, j, for) \/ AcceptFails(r, j, for),
         jobs[j].state = "stored", up' = up,
         \A i \in Jobs : jobs'[i].state = jobs[i].state,
         \A i \in Jobs \ {j} : jobs'[i].last = jobs[i].last,
         \/ jobs'[j].last = jobs[j].last
         \/ AcceptFails(r, j, for) /\ for # Null /\ jobs'[j].last = for,
         AcceptFails(r, j, for) /\ for # Null => jobs'[j].last = for,
         for # Null => up = "started",
         for # Null /\ ~Skips(j, for) => jobs[j].last < for
  PROVE  HistoryInv'
<1> USE RunsAreNaturals
<1>1. /\ rows'[r].job = j /\ rows'[r].for = for /\ rows'[r].startedAt = now
      /\ rows'[r].status # "none"
      /\ \A q \in Runs \ {r} : /\ RowMoves(q) /\ exec'[q] = exec[q]
                               /\ rows[q].status = "running" => rows'[q].status = "running"
  BY BeginHistory
<1>2. \/ exec'[r] = exec[r] /\ rows'[r].status # "running"
      \/ exec'[r].pc = "creating" /\ ~Skips(j, for)
      \/ AcceptFails(r, j, for) /\ exec'[r].pc = "done" /\ rows'[r].status # "running" /\ ~Skips(j, for)
  BY BeginHistory
<1>3. ~Skips(j, for) => ~HasRunningRun(j)
  BY DEF Skips
<1>4. jobs'[j].last # jobs[j].last => for # Null /\ ~Skips(j, for) /\ jobs'[j].last = for
                                      /\ jobs[j].last < for
  BY DEF AcceptFails
<1>5. exec[r].pc = "none" /\ rows[r].status = "none"
  BY DEF NewRun, HistoryInv, ExecutedHasRow
<1>6. \A q \in Runs : exec[q].pc # "none" => q < r
  <2> SUFFICES ASSUME NEW q \in Runs, exec[q].pc # "none" PROVE q < r
    OBVIOUS
  <2>1. rows[q].status # "none"
    BY DEF HistoryInv, ExecutedHasRow
  <2>2. q # r /\ ~ (r < q)
    BY <1>5, <2>1 DEF HistoryInv, RunsInOrder
  <2> QED BY <2>2
<1>7. \A q \in Runs \ {r} : /\ rows'[q].job = rows[q].job /\ rows'[q].for = rows[q].for
                            /\ rows'[q].startedAt = rows[q].startedAt
                            /\ rows'[q].status = "none" <=> rows[q].status = "none"
                            /\ rows'[q].status = "running" <=> rows[q].status = "running"
  BY <1>1 DEF RowMoves, Terminal
<1>8. \A i \in Jobs :
         \/ jobs'[i].last = jobs[i].last
         \/ i = j /\ for # Null /\ ~Skips(j, for) /\ jobs'[j].last = for /\ jobs[j].last < for
  BY <1>4
<1>9. RunsInOrder'
  <2> SUFFICES ASSUME NEW p \in Runs, NEW q \in Runs, p < q, rows'[q].status # "none"
               PROVE  rows'[p].status # "none"
    BY DEF RunsInOrder
  <2>1. CASE p = r
    BY <1>1, <2>1
  <2>2. CASE q = r /\ p # r
    BY <1>7, <2>2 DEF NewRun
  <2>3. CASE q # r /\ p # r
    BY <1>7, <2>3 DEF HistoryInv, RunsInOrder
  <2> QED BY <2>1, <2>2, <2>3
<1>10. ExecutedHasRow'
  <2> SUFFICES ASSUME NEW q \in Runs, exec'[q].pc # "none"
               PROVE  rows'[q].status # "none" /\ rows'[q].job \in Jobs /\ jobs'[rows'[q].job].state # "new"
    BY DEF ExecutedHasRow
  <2>1. CASE q = r
    BY <1>1, <2>1
  <2>2. CASE q # r
    BY <1>1, <1>7, <2>2 DEF HistoryInv, ExecutedHasRow
  <2> QED BY <2>1, <2>2
<1>11. RunningIsLast'
  <2> SUFFICES ASSUME NEW m \in Runs, rows'[m].status = "running"
               PROVE  /\ exec'[m].pc \notin {"none", "done"}
                      /\ \A q \in Runs : m < q /\ rows'[q].job = rows'[m].job => exec'[q].pc = "none"
    BY DEF RunningIsLast
  <2>1. CASE m = r
    <3>1. exec'[r].pc = "creating"
      BY <1>2, <2>1
    <3>2. \A q \in Runs : r < q => exec'[q].pc = "none"
      BY <1>1, <1>6
    <3> QED BY <2>1, <3>1, <3>2
  <2>2. CASE m # r
    <3>1. rows[m].status = "running" /\ rows[m].job = rows'[m].job /\ exec'[m] = exec[m]
      BY <1>1, <1>7, <2>2
    <3>2. /\ exec[m].pc \notin {"none", "done"}
          /\ \A q \in Runs : m < q /\ rows[q].job = rows[m].job => exec[q].pc = "none"
      BY <3>1 DEF HistoryInv, RunningIsLast
    <3>3. rows[m].job = j => exec'[r] = exec[r]
      BY <1>2, <1>3, <3>1 DEF HasRunningRun
    <3>4. \A q \in Runs : m < q /\ rows'[q].job = rows'[m].job => exec'[q].pc = "none"
      BY <1>1, <1>5, <1>7, <3>1, <3>2, <3>3
    <3> QED BY <3>1, <3>2, <3>4
  <2> QED BY <2>1, <2>2
<1>12. WorkFollowsStart'
  <2> SUFFICES ASSUME NEW q \in Runs, Executed(q)', AtWork(q)' PROVE up' \in {"started", "stopped"}
    BY DEF WorkFollowsStart
  <2>1. CASE q = r
    BY <1>1, <2>1 DEF Executed
  <2>2. CASE q # r
    BY <1>1, <1>7, <2>2 DEF Executed, AtWork, HistoryInv, WorkFollowsStart
  <2> QED BY <2>1, <2>2
<1>13. RunningIsAhead'
  <2> SUFFICES ASSUME NEW q \in Runs, rows'[q].status = "running", rows'[q].for # Null,
                      jobs'[rows'[q].job].state = "stored"
               PROVE  jobs'[rows'[q].job].last < rows'[q].for
    BY DEF RunningIsAhead
  <2>1. CASE q = r
    <3>1. exec'[r].pc = "creating" /\ ~Skips(j, for) /\ ~AcceptFails(r, j, for)
      BY <1>2, <2>1 DEF AcceptFails, Executor, TypeOK
    <3>2. jobs'[j].last = jobs[j].last
      BY <3>1
    <3> QED BY <1>1, <2>1, <3>1, <3>2
  <2>2. CASE q # r
    <3>1. rows[q].status = "running" /\ rows[q].job = rows'[q].job /\ rows[q].for = rows'[q].for
      BY <1>7, <2>2
    <3>2. rows[q].job \in Jobs
      BY <3>1 DEF HistoryInv, RunningIsLast, ExecutedHasRow
    <3>3. jobs'[rows[q].job].last = jobs[rows[q].job].last
      BY <1>3, <1>8, <3>1, <3>2 DEF HasRunningRun
    <3> QED BY <3>1, <3>2, <3>3 DEF HistoryInv, RunningIsAhead
  <2> QED BY <2>1, <2>2
<1>14. ASSUME NEW q \in Runs, MovedBack(q) PROVE MovedBack(q)'
  <2>1. PICK m \in Runs : /\ q < m /\ rows[m].job = rows[q].job /\ rows[m].for = Null
                          /\ exec[m].pc = "done" /\ rows[m].startedAt < rows[q].for
    BY <1>14 DEF MovedBack
  <2>2. m # r /\ q # r
    BY <1>5, <1>6, <2>1
  <2> QED BY <1>1, <1>7, <2>1, <2>2 DEF MovedBack
<1>15. ExecutedIsRecorded'
  <2> SUFFICES ASSUME NEW q \in Runs, Executed(q)', exec'[q].pc # "lost"
               PROVE  \/ rows'[q].status = "running"
                      \/ jobs'[rows'[q].job].state # "stored"
                      \/ jobs'[rows'[q].job].last >= rows'[q].for
                      \/ MovedBack(q)'
    BY DEF ExecutedIsRecorded
  <2>1. CASE q = r
    <3>1. CASE exec'[r].pc = "creating" /\ AcceptRun(r, j, for)
      <4>1. rows' = WithRow(r, j, for, "running")
        BY <3>1 DEF AcceptRun
      <4> QED BY <2>1, <4>1, RowCreated
    <3>2. CASE AcceptFails(r, j, for)
      BY <1>1, <2>1, <3>2 DEF Executed
    <3> QED BY <1>5, <2>1, <3>1, <3>2, BeginHistory DEF Executed
  <2>2. CASE q # r
    <3>1. /\ Executed(q) /\ exec[q].pc # "lost" /\ rows[q].job = rows'[q].job
          /\ rows[q].for = rows'[q].for
      BY <1>1, <1>7, <2>2 DEF Executed
    <3>2. rows[q].job \in Jobs /\ rows[q].for \in Nat
      BY <3>1, PcSplit DEF Executed, HistoryInv, ExecutedHasRow, RowType
    <3>3. jobs[rows[q].job].last \in Nat /\ jobs[j].last \in Nat
      BY <3>2 DEF TypeOK, JobType
    <3>4. jobs'[rows[q].job].last >= jobs[rows[q].job].last
      BY <1>8, <3>2, <3>3
    <3>5. \/ rows[q].status = "running"
          \/ jobs[rows[q].job].state # "stored"
          \/ jobs[rows[q].job].last >= rows[q].for
          \/ MovedBack(q)
      BY <3>1 DEF HistoryInv, ExecutedIsRecorded
    <3>6. jobs[rows[q].job].last >= rows[q].for => jobs'[rows[q].job].last >= rows[q].for
      BY <1>8, <3>2, <3>3
    <3> QED BY <1>7, <1>14, <2>2, <3>1, <3>2, <3>5, <3>6
  <2> QED BY <2>1, <2>2
<1>16. OccurrenceOnce'
  <2> SUFFICES ASSUME NEW p \in Runs, NEW q \in Runs, p < q,
                      exec'[p].pc # "none", exec'[q].pc # "none", rows'[p].for # Null,
                      rows'[p].for = rows'[q].for, rows'[p].job = rows'[q].job
               PROVE  \/ exec'[p].pc = "lost"
                      \/ \E m \in p .. q : /\ rows'[m].job = rows'[p].job /\ rows'[m].for = Null
                                           /\ exec'[m].pc = "done"
                                           /\ rows'[m].startedAt < rows'[p].for
    BY DEF OccurrenceOnce
  <2>1. p # r
    BY <1>1, <1>6
  <2>2. exec[p].pc # "none" /\ rows[p].for = rows'[p].for /\ rows[p].job = rows'[p].job
        /\ exec'[p] = exec[p]
    BY <1>1, <1>7, <2>1
  <2>3. SUFFICES ASSUME exec[p].pc # "lost"
                 PROVE  \E m \in Runs : /\ p <= m /\ m <= q /\ m # r
                                        /\ rows[m].job = rows[p].job /\ rows[m].for = Null
                                        /\ exec[m].pc = "done"
                                        /\ rows[m].startedAt < rows[p].for
    BY <1>1, <1>7, <2>2
  <2>4. CASE q # r
    <3>1. exec[q].pc # "none" /\ rows[q].for = rows'[q].for /\ rows[q].job = rows'[q].job
      BY <1>1, <1>7, <2>4
    <3>2. PICK m \in p .. q : /\ rows[m].job = rows[p].job /\ rows[m].for = Null
                              /\ exec[m].pc = "done" /\ rows[m].startedAt < rows[p].for
      BY <2>2, <2>3, <3>1 DEF HistoryInv, OccurrenceOnce
    <3>3. m \in Runs
      BY BoundsAssumption DEF Runs
    <3>4. m # r
      BY <1>5, <3>2
    <3> QED BY <3>2, <3>3, <3>4
  <2>5. CASE q = r
    <3>1. ~Skips(j, for) /\ rows[p].job = j /\ rows[p].for = for /\ for # Null
      BY <1>1, <1>2, <1>5, <2>2, <2>5
    <3>2. rows[p].status # "running"
      BY <1>3, <3>1 DEF HasRunningRun
    <3>3. jobs[j].last < for /\ jobs[j].last \in Nat
      BY <3>1 DEF TypeOK, JobType
    <3>4. MovedBack(p)
      BY <2>2, <2>3, <3>1, <3>2, <3>3 DEF HistoryInv, ExecutedIsRecorded, Executed
    <3>5. PICK m \in Runs : /\ p < m /\ rows[m].job = rows[p].job /\ rows[m].for = Null
                            /\ exec[m].pc = "done" /\ rows[m].startedAt < rows[p].for
      BY <3>4 DEF MovedBack
    <3>6. m < r
      BY <1>6, <3>5
    <3> QED BY <2>5, <3>5, <3>6
  <2> QED BY <2>4, <2>5
<1> QED
  BY <1>9, <1>10, <1>11, <1>12, <1>13, <1>15, <1>16 DEF HistoryInv

(* What the end of a run writes to its job.                                *)
LEMMA FinishHistory ==
  ASSUME TypeOK, NEW r \in Runs, FinishFailed(r) \/ FinishCompleted(r)
  PROVE  \/ UNCHANGED store
         \/ /\ rows[r].status = "running"
            /\ \A j \in Jobs : jobs'[j].state = jobs[j].state
            /\ \A j \in Jobs : j # rows[r].job \/ jobs[j].state # "stored" => jobs'[j] = jobs[j]
            /\ \A j \in Jobs : j = rows[r].job /\ jobs[j].state = "stored" =>
                  jobs'[j].last = IF rows[r].for # Null THEN rows[r].for
                                  ELSE IF FinishFailed(r) THEN jobs[j].last
                                  ELSE rows[r].startedAt
<1>1. \A j \in Jobs : jobs'[j].state = jobs[j].state
  BY FinishType
<1>2. ASSUME NEW j, NEW job, SetJobScheduleMetadata(j, job)
      PROVE  \A i \in Jobs : jobs'[i] = IF i = j /\ jobs[i].state = "stored" THEN job ELSE jobs[i]
  BY <1>2 DEF SetJobScheduleMetadata
<1>3. \A j \in Jobs : jobs[j] \in JobType
  BY DEF TypeOK
<1>4. ASSUME NEW job \in JobType, NEW l, NEW n
      PROVE  [job EXCEPT !.last = l].last = l /\ [job EXCEPT !.last = l, !.next = n].last = l
  BY DEF JobType
<1>5. CASE FinishFailed(r) /\ rows[r].status = "running"
  <2>1. SetJobScheduleMetadata(rows[r].job, LastRun(jobs[rows[r].job], rows[r].for))
    BY <1>5 DEF FinishFailed, StillOwnsRunningRow
  <2>2. \A j \in Jobs : j = rows[r].job /\ jobs[j].state = "stored" =>
           jobs'[j].last = IF rows[r].for # Null THEN rows[r].for ELSE jobs[j].last
    <3> SUFFICES ASSUME NEW j \in Jobs, j = rows[r].job, jobs[j].state = "stored"
                 PROVE  jobs'[j].last = IF rows[r].for # Null THEN rows[r].for ELSE jobs[j].last
      OBVIOUS
    <3>1. jobs'[j] = LastRun(jobs[j], rows[r].for)
      BY <1>2, <2>1
    <3>2. jobs[j] \in JobType
      BY <1>3
    <3> QED BY <1>4, <3>1, <3>2 DEF LastRun, JobType
  <2> QED BY <1>1, <1>2, <1>5, <2>1, <2>2
<1>6. CASE FinishCompleted(r) /\ rows[r].status = "running"
  <2> DEFINE last == IF rows[r].for = Null THEN rows[r].startedAt ELSE rows[r].for
             next == NextCron(exec[r].cron, now)
  <2>1. /\ SetStatus(r, "completed")
        /\ SetJobScheduleMetadata(rows[r].job,
             [jobs[rows[r].job] EXCEPT !.last = last, !.next = next])
    BY <1>6 DEF FinishCompleted, StillOwnsRunningRow
  <2>2. ~FinishFailed(r)
    BY <1>6, <2>1 DEF FinishFailed, StillOwnsRunningRow, SetStatus, TypeOK, RowType
  <2> HIDE DEF next
  <2>3. \A j \in Jobs : j = rows[r].job /\ jobs[j].state = "stored" => jobs'[j].last = last
    <3> SUFFICES ASSUME NEW j \in Jobs, j = rows[r].job, jobs[j].state = "stored"
                 PROVE  jobs'[j].last = last
      OBVIOUS
    <3>1. jobs'[j] = [jobs[j] EXCEPT !.last = last, !.next = next]
      BY <1>2, <2>1
    <3>2. jobs[j] \in JobType
      BY <1>3
    <3> QED BY <3>1, <3>2 DEF JobType
  <2> QED BY <1>1, <1>2, <1>6, <2>1, <2>2, <2>3
<1>7. CASE rows[r].status # "running"
  BY <1>7 DEF FinishFailed, FinishCompleted, StillOwnsRunningRow
<1> QED BY <1>5, <1>6, <1>7

(* An executor's step moves executors as every step does, and only a       *)
(* completed prompt records a manual run.                                  *)
LEMMA RunStepHistory ==
  ASSUME TypeOK, NotYetUnconfirmed, HistoryInv, NEW r \in Runs, RunStep(r)
  PROVE  /\ up' = up /\ \A q \in Runs : RowMoves(q) /\ ExecMoves(q)
         /\ \A q \in Runs \ {r} : rows'[q] = rows[q]
         /\ AtWork(r) /\ exec[r].pc # "done"
         /\ UNCHANGED store \/ FinishFailed(r)
            \/ (FinishCompleted(r) /\ exec'[r].pc = "done")
<1>1. Advances(r) /\ OthersKept(r)
  BY RunStepAdvances, RunStepOthers
<1>2. /\ UNCHANGED store \/ FinishFailed(r)
            \/ (PromptCompleted(r) /\ FinishCompleted(r))
  BY DEF RunStep, Settlement, Created, CreationRejected, CreationUnconfirmed,
         CleanupUnconfirmed, AwaitReceipt, PromptCompleted, PromptRejected, PromptOverdue,
         DeadlineFires, CancellationSettles, CleanupConfirmed, CleanupRejected,
         ReceiptConfirmed, RuntimeStopped, store
<1>3. PromptCompleted(r) => exec'[r].pc = "done"
  BY DEF PromptCompleted, Resume, Go, TypeOK
<1>4. \A q \in Runs : RowMoves(q)
  BY <1>2, FinishRows DEF store, RowMoves
<1>5. ASSUME NEW q \in Runs PROVE ExecMoves(q)
  <2>1. CASE q = r
    BY <1>1, <2>1 DEF Advances, ExecMoves, AtWork, Awaiting
  <2>2. CASE q # r
    BY <1>1, <2>2 DEF OthersKept, ExecMoves, AtWork
  <2> QED BY <2>1, <2>2
<1>6. AtWork(r) /\ exec[r].pc # "done"
  BY <1>1 DEF Advances, AtWork, Awaiting
<1> QED BY <1>1, <1>2, <1>3, <1>4, <1>5, <1>6 DEF OthersKept

(* The end of a run records its occurrence, which lay ahead, or is the     *)
(* manual run that moves last_run_at back.                                 *)
LEMMA HistoryFinishes ==
  ASSUME TypeOK, NotYetUnconfirmed, OneRunningRow, HistoryInv, NEW r \in Runs, RunStep(r),
         ~ UNCHANGED store
  PROVE  HistoryInv'
<1> USE RunsAreNaturals
<1> DEFINE j == rows[r].job
<1>1. /\ up' = up /\ \A q \in Runs : RowMoves(q) /\ ExecMoves(q)
      /\ \A q \in Runs \ {r} : rows'[q] = rows[q]
      /\ AtWork(r) /\ exec[r].pc # "done"
      /\ FinishFailed(r) \/ (FinishCompleted(r) /\ exec'[r].pc = "done")
  BY RunStepHistory
<1>2. /\ rows[r].status = "running" /\ rows'[r].status # "running"
      /\ \A i \in Jobs : jobs'[i].state = jobs[i].state
      /\ \A i \in Jobs : i # j \/ jobs[i].state # "stored" => jobs'[i] = jobs[i]
      /\ j \in Jobs /\ jobs[j].state = "stored" =>
            jobs'[j].last = IF rows[r].for # Null THEN rows[r].for
                            ELSE IF FinishFailed(r) THEN jobs[j].last ELSE rows[r].startedAt
  BY <1>1, FinishHistory, FinishRows
<1>3. \A q \in Runs : /\ rows'[q].job = rows[q].job /\ rows'[q].for = rows[q].for
                      /\ rows'[q].startedAt = rows[q].startedAt
                      /\ exec'[q].pc = "none" <=> exec[q].pc = "none"
  BY <1>1 DEF RowMoves, ExecMoves
<1>4. \A q \in Runs : rows'[q].status = "running" =>
         q # r /\ rows[q].status = "running" /\ rows[q].job # j
  BY <1>1, <1>2 DEF OneRunningRow
<1>5. RunsInOrder'
  BY <1>1 DEF HistoryInv, RunsInOrder, RowMoves, Terminal
<1>6. ExecutedHasRow'
  BY <1>1, <1>2, <1>3 DEF HistoryInv, ExecutedHasRow, RowMoves, Terminal
<1>7. RunningIsLast'
  <2> SUFFICES ASSUME NEW m \in Runs, rows'[m].status = "running"
               PROVE  /\ exec'[m].pc \notin {"none", "done"}
                      /\ \A q \in Runs : m < q /\ rows'[q].job = rows'[m].job => exec'[q].pc = "none"
    BY DEF RunningIsLast
  <2>1. /\ exec[m].pc \notin {"none", "done"}
        /\ \A q \in Runs : m < q /\ rows[q].job = rows[m].job => exec[q].pc = "none"
    BY <1>4 DEF HistoryInv, RunningIsLast
  <2>2. exec'[m].pc # "done"
    BY <1>1, <2>1 DEF ExecMoves
  <2> QED BY <1>3, <2>1, <2>2
<1>8. WorkFollowsStart'
  BY <1>1, <1>3 DEF HistoryInv, WorkFollowsStart, Executed, ExecMoves, AtWork
<1>9. RunningIsAhead'
  <2> SUFFICES ASSUME NEW q \in Runs, rows'[q].status = "running", rows'[q].for # Null,
                      jobs'[rows'[q].job].state = "stored"
               PROVE  jobs'[rows'[q].job].last < rows'[q].for
    BY DEF RunningIsAhead
  <2>1. rows[q].status = "running" /\ rows[q].job # j /\ rows'[q].job = rows[q].job
        /\ rows'[q].for = rows[q].for
    BY <1>3, <1>4
  <2>2. rows[q].job \in Jobs
    BY <2>1 DEF HistoryInv, RunningIsLast, ExecutedHasRow
  <2>3. jobs'[rows[q].job] = jobs[rows[q].job]
    BY <1>2, <2>1, <2>2
  <2> QED BY <2>1, <2>3 DEF HistoryInv, RunningIsAhead
<1>10. ASSUME NEW q \in Runs, MovedBack(q) PROVE MovedBack(q)'
  BY <1>1, <1>3, <1>10 DEF MovedBack, ExecMoves
<1>11. ExecutedIsRecorded'
  <2> SUFFICES ASSUME NEW q \in Runs, Executed(q)', exec'[q].pc # "lost",
                      jobs'[rows'[q].job].state = "stored"
               PROVE  \/ rows'[q].status = "running"
                      \/ jobs'[rows'[q].job].last >= rows'[q].for
                      \/ MovedBack(q)'
    BY DEF ExecutedIsRecorded
  <2>1. Executed(q) /\ exec[q].pc # "lost"
    BY <1>1, <1>3 DEF Executed, ExecMoves
  <2>2. rows[q].job \in Jobs /\ rows[q].for \in Nat /\ rows[r].for \in Nat /\ rows[r].startedAt \in Nat
    BY <2>1, PcSplit DEF Executed, HistoryInv, ExecutedHasRow, RowType
  <2>3. jobs[rows[q].job].state = "stored" /\ jobs[rows[q].job].last \in Nat
    BY <1>2, <1>3, <2>2 DEF TypeOK, JobType
  <2>4. \/ rows[q].status = "running"
        \/ jobs[rows[q].job].last >= rows[q].for
        \/ MovedBack(q)
    BY <2>1, <2>3 DEF HistoryInv, ExecutedIsRecorded
  <2>5. CASE rows[q].job # j
    <3>1. q # r /\ rows'[q] = rows[q] /\ jobs'[rows[q].job] = jobs[rows[q].job]
      BY <1>1, <1>2, <2>2, <2>5
    <3> QED BY <1>10, <2>4, <3>1
  <2>6. CASE rows[q].job = j /\ rows[r].for # Null
    <3>1. jobs'[j].last = rows[r].for /\ jobs[j].last < rows[r].for
      BY <1>2, <2>2, <2>3, <2>6 DEF HistoryInv, RunningIsAhead
    <3>2. CASE q = r
      BY <1>3, <2>2, <3>1, <3>2
    <3>3. CASE q # r
      <4>1. rows[q].status # "running"
        BY <1>2, <2>6, <3>3 DEF OneRunningRow
      <4>2. jobs[j].last >= rows[q].for => jobs'[j].last >= rows[q].for
        BY <2>2, <2>3, <2>6, <3>1
      <4> QED BY <1>3, <1>10, <2>4, <2>6, <4>1, <4>2
    <3> QED BY <3>2, <3>3
  <2>7. CASE rows[q].job = j /\ rows[r].for = Null
    <3>1. q # r /\ rows[q].status # "running"
      BY <1>2, <2>1, <2>7 DEF Executed, OneRunningRow
    <3>2. CASE FinishFailed(r)
      BY <1>2, <1>3, <1>10, <2>2, <2>3, <2>4, <2>7, <3>1, <3>2
    <3>3. CASE ~FinishFailed(r)
      <4>1. jobs'[j].last = rows[r].startedAt /\ exec'[r].pc = "done"
        BY <1>1, <1>2, <2>2, <2>3, <2>7, <3>3
      <4>2. q < r
        BY <1>2, <2>1, <2>7, <3>1 DEF HistoryInv, RunningIsLast, Executed
      <4>3. CASE rows[r].startedAt < rows[q].for
        BY <1>3, <2>7, <4>1, <4>2, <4>3 DEF MovedBack
      <4>4. CASE ~ (rows[r].startedAt < rows[q].for)
        BY <1>3, <2>2, <2>7, <4>1, <4>4
      <4> QED BY <4>3, <4>4
    <3> QED BY <3>2, <3>3
  <2> QED BY <2>5, <2>6, <2>7
<1>12. OccurrenceOnce'
  <2> SUFFICES ASSUME NEW p \in Runs, NEW q \in Runs, p < q,
                      exec'[p].pc # "none", exec'[q].pc # "none", rows'[p].for # Null,
                      rows'[p].for = rows'[q].for, rows'[p].job = rows'[q].job
               PROVE  \/ exec'[p].pc = "lost"
                      \/ \E m \in p .. q : /\ rows'[m].job = rows'[p].job /\ rows'[m].for = Null
                                           /\ exec'[m].pc = "done"
                                           /\ rows'[m].startedAt < rows'[p].for
    BY DEF OccurrenceOnce
  <2>1. \/ exec[p].pc = "lost"
        \/ \E m \in p .. q : /\ rows[m].job = rows[p].job /\ rows[m].for = Null
                             /\ exec[m].pc = "done" /\ rows[m].startedAt < rows[p].for
    BY <1>3 DEF HistoryInv, OccurrenceOnce
  <2>2. p .. q \subseteq Runs
    BY BoundsAssumption DEF Runs
  <2>3. \A m \in Runs : exec[m].pc \in {"done", "lost"} => exec'[m].pc = exec[m].pc
    BY <1>1 DEF ExecMoves
  <2> QED BY <1>3, <2>1, <2>2, <2>3
<1> QED
  BY <1>5, <1>6, <1>7, <1>8, <1>9, <1>11, <1>12 DEF HistoryInv

(* The duplicate check: what is accepted for an occurrence of the job's    *)
(* expression lies ahead of last_run_at.                                   *)
LEMMA AcceptedIsAhead ==
  ASSUME TypeOK, NEW j \in Jobs, NEW for \in jobs[j].cron, ~Duplicate(j, for)
  PROVE  jobs[j].last < for
<1> DEFINE earlier == {o \in jobs[j].cron : o <= for}
<1>1. jobs[j].last \in Nat /\ jobs[j].cron \subseteq Nat \ {0}
  BY CronsAssumption DEF TypeOK, JobType
<1>2. for \in Nat \ {0} /\ for \in earlier /\ \A u \in earlier : for >= u
  BY <1>1
<1>3. \A t \in earlier : (\A u \in earlier : t >= u) => t = for
  BY <1>1, <1>2
<1>4. Greatest(earlier) = for
  BY <1>2, <1>3 DEF Greatest
<1>5. PreviousCron(jobs[j].cron, for) = for
  BY <1>2, <1>4 DEF PreviousCron
<1> QED BY <1>1, <1>2, <1>5 DEF Duplicate, Null

LEMMA HistoryStep ==
  TypeOK /\ JobArmed /\ OneRunningRow /\ NotYetUnconfirmed /\ HistoryInv /\ [Next]_vars
    => HistoryInv'
<1> SUFFICES ASSUME TypeOK, JobArmed, OneRunningRow, NotYetUnconfirmed, HistoryInv, [Next]_vars
             PROVE  HistoryInv'
  OBVIOUS
<1> USE DEF store, process, bounds
<1>1. ASSUME UNCHANGED <<rows, exec>>, up \in {"started", "stopped"} => up' \in {"started", "stopped"},
             \A j \in Jobs : JobMoves(j)
      PROVE  HistoryInv'
  <2>1. \A q \in Runs : RowMoves(q) /\ ExecMoves(q)
    BY <1>1 DEF RowMoves, ExecMoves, AtWork
  <2> QED BY <1>1, <2>1, HistoryFrame
<1>2. UNCHANGED jobs => \A j \in Jobs : JobMoves(j)
  BY DEF JobMoves, TypeOK, JobType
<1>3. ASSUME NEW j \in Jobs, NEW job, StoreJob(j, job), job \in JobType,
             job.state # "new",
             job.state = "stored" /\ jobs[j].state # "new" =>
                jobs[j].state = "stored" /\ job.last = jobs[j].last
      PROVE  HistoryInv'
  <2>1. jobs' = [jobs EXCEPT ![j] = ReloadedJob(job, up = "started")]
    BY <1>3 DEF StoreJob
  <2>2. /\ ReloadedJob(job, up = "started").state = job.state
        /\ ReloadedJob(job, up = "started").last = job.last
    BY <1>3 DEF ReloadedJob, JobType
  <2>3. \A i \in Jobs : JobMoves(i)
    BY <1>3, <2>1, <2>2 DEF JobMoves, TypeOK, JobType
  <2> QED BY <1>1, <1>3, <2>3 DEF StoreJob
<1>4. ASSUME NEW j \in Jobs, NEW c \in Crons, NEW e \in BOOLEAN,
             CreateJob(j, c, e) \/ UpdateJob(j, c, e)
      PROVE  HistoryInv'
  <2>1. jobs[j] \in JobType
    BY DEF TypeOK
  <2>2. /\ [NoJob EXCEPT !.state = "stored", !.enabled = e, !.cron = c] \in JobType
        /\ [NoJob EXCEPT !.state = "stored", !.enabled = e, !.cron = c].state = "stored"
    BY DEF NoJob, JobType, Null
  <2>3. /\ [jobs[j] EXCEPT !.enabled = e, !.cron = c] \in JobType
        /\ [jobs[j] EXCEPT !.enabled = e, !.cron = c].state = jobs[j].state
        /\ [jobs[j] EXCEPT !.enabled = e, !.cron = c].last = jobs[j].last
    BY <2>1 DEF JobType
  <2>4. CASE CreateJob(j, c, e)
    BY <1>3, <2>2, <2>4 DEF CreateJob
  <2>5. CASE UpdateJob(j, c, e)
    BY <1>3, <2>3, <2>5 DEF UpdateJob
  <2> QED BY <1>4, <2>4, <2>5
<1>5. ASSUME NEW j \in Jobs, DeleteJob(j) PROVE HistoryInv'
  <2>1. /\ [NoJob EXCEPT !.state = "deleted"] \in JobType
        /\ [NoJob EXCEPT !.state = "deleted"].state = "deleted"
    BY DEF NoJob, JobType, Null
  <2> QED BY <1>3, <1>5, <2>1 DEF DeleteJob
<1>6. ASSUME NEW j \in Jobs, ChangePolicy(j) PROVE HistoryInv'
  BY <1>1, <1>2, <1>6 DEF ChangePolicy
<1>7. ASSUME NEW j \in Jobs, NEW job \in JobType, Rearm(j, job), job.state = jobs[j].state
      PROVE  /\ \A i \in Jobs : jobs'[i].state = jobs[i].state
             /\ \A i \in Jobs \ {j} : jobs'[i].last = jobs[i].last
             /\ jobs'[j].last = job.last
  BY <1>7 DEF Rearm, TypeOK, JobType
<1>8. ASSUME NEW j \in Jobs, ChunkFires(j) PROVE HistoryInv'
  <2>1. \A i \in Jobs : JobMoves(i)
    BY <1>7, <1>8 DEF ChunkFires, JobMoves, TypeOK, JobType
  <2> QED BY <1>1, <1>8, <2>1 DEF ChunkFires
<1>9. ASSUME NEW j \in Jobs, NEW r \in Runs, ManualRun(r, j) PROVE HistoryInv'
  <2>1. /\ Null \in Nat /\ UNCHANGED <<jobs, up>> /\ jobs[j].state = "stored" /\ NewRun(r)
        /\ SkipRun(r, j, Null) \/ AcceptRun(r, j, Null) \/ AcceptFails(r, j, Null)
    BY <1>9 DEF ManualRun, Null
  <2> QED BY <2>1, HistoryBegins
<1>10. ASSUME NEW j \in Jobs, NEW r \in Runs, TimerFires(r, j) PROVE HistoryInv'
  <2> DEFINE for == timers[j].for
  <2>1. /\ jobs[j].enabled /\ up = "started" /\ up' = up /\ NewRun(r)
        /\ timers[j] # NoTimer /\ timers[j].for \in Nat /\ jobs[j] \in JobType
        /\ \/ SkipRun(r, j, for) /\ Rearm(j, jobs[j])
           \/ AcceptRun(r, j, for) /\ Rearm(j, jobs[j])
           \/ AcceptFails(r, j, for) /\ Rearm(j, LastRun(jobs[j], for))
    BY <1>10 DEF TimerFires, Due, TypeOK
  <2>2. jobs[j].state = "stored" /\ for \in jobs[j].cron
    BY <2>1 DEF TypeOK, JobArmed
  <2>3. for # Null
    BY <2>1, <2>2, CronsAssumption DEF Null, JobType
  <2>4. ~Skips(j, for) => jobs[j].last < for
    BY <2>2, AcceptedIsAhead DEF Skips
  <2>5. /\ LastRun(jobs[j], for) \in JobType /\ LastRun(jobs[j], for).state = jobs[j].state
        /\ LastRun(jobs[j], for).last = for
    BY <2>1, <2>3 DEF LastRun, JobType
  <2> HIDE DEF for
  <2>6. /\ \A i \in Jobs : jobs'[i].state = jobs[i].state
        /\ \A i \in Jobs \ {j} : jobs'[i].last = jobs[i].last
        /\ \/ jobs'[j].last = jobs[j].last /\ SkipRun(r, j, for)
           \/ jobs'[j].last = jobs[j].last /\ AcceptRun(r, j, for)
           \/ AcceptFails(r, j, for) /\ jobs'[j].last = for
    BY <1>7, <2>1, <2>5
  <2>7. for \in Nat
    BY <2>1 DEF for
  <2>8. AcceptFails(r, j, for) => ~SkipRun(r, j, for) /\ ~AcceptRun(r, j, for)
    BY <2>1 DEF AcceptFails, SkipRun, AcceptRun, Executor, TypeOK
  <2> QED BY <2>1, <2>2, <2>3, <2>4, <2>6, <2>7, <2>8, HistoryBegins
<1>11. ASSUME NEW r \in Runs, RunStep(r) PROVE HistoryInv'
  <2>1. CASE UNCHANGED store
    <3>1. /\ up' = up /\ \A q \in Runs : RowMoves(q) /\ ExecMoves(q)
      BY <1>11, RunStepHistory
    <3>2. UNCHANGED <<rows, jobs>>
      BY <2>1
    <3> QED BY <1>2, <3>1, <3>2, HistoryFrame
  <2>2. CASE ~ UNCHANGED store
    BY <1>11, <2>2, HistoryFinishes
  <2> QED BY <2>1, <2>2
<1>12. CASE Boot \/ Stop \/ UNCHANGED vars
  BY <1>1, <1>2, <1>12 DEF Boot, Stop, vars
<1>13. CASE Start
  <2>1. up = "listening" /\ up' = "started" /\ exec' = exec
    BY <1>13 DEF Start
  <2>2. \A q \in Runs : RowMoves(q) /\ rows'[q].status # "running"
    BY <1>13 DEF Start, RowMoves, TypeOK, RowType
  <2>3. \A q \in Runs : ExecMoves(q)
    BY <2>1, <2>2 DEF ExecMoves, AtWork
  <2>4. \A j \in Jobs : JobMoves(j)
    BY <1>13 DEF Start, JobMoves, ReloadedJob, TypeOK, JobType
  <2>5. ASSUME NEW q \in Runs, Executed(q), rows[q].status = "running" PROVE exec'[q].pc = "lost"
    <3>1. exec[q].pc \notin {"none", "done"}
      BY <2>5 DEF HistoryInv, RunningIsLast
    <3>2. ~AtWork(q)
      BY <2>1, <2>5 DEF HistoryInv, WorkFollowsStart
    <3> QED BY <2>1, <3>1, <3>2, PcSplit DEF AtWork
  <2> QED BY <2>1, <2>2, <2>3, <2>4, <2>5, HistoryFrame
<1>14. CASE Exit
  <2>1. UNCHANGED <<rows, jobs>>
    BY <1>14 DEF Exit
  <2>2. \A q \in Runs : \/ exec'[q].pc = "lost" /\ AtWork(q)
                        \/ exec'[q] = exec[q] /\ ~AtWork(q)
    BY <1>14 DEF Exit, Executor, AtWork, TypeOK
  <2>3. \A q \in Runs : RowMoves(q) /\ ExecMoves(q) /\ ~AtWork(q)'
    BY <2>1, <2>2 DEF RowMoves, ExecMoves, AtWork, Awaiting
  <2> QED BY <1>2, <2>1, <2>3, HistoryFrame
<1>15. CASE Tick
  <2>1. UNCHANGED <<rows, jobs, up>>
    BY <1>15 DEF Tick
  <2>2. \A q \in Runs : exec'[q].pc = exec[q].pc
    BY <1>15 DEF Tick, TypeOK, ExecType
  <2>3. \A q \in Runs : RowMoves(q) /\ ExecMoves(q)
    BY <2>1, <2>2 DEF RowMoves, ExecMoves, AtWork
  <2> QED BY <1>2, <2>1, <2>3, HistoryFrame
<1> QED
  BY <1>4, <1>5, <1>6, <1>8, <1>9, <1>10, <1>11, <1>12, <1>13, <1>14, <1>15 DEF Next, JobStep

LEMMA HistoryHolds == Spec => []HistoryInv
<1>1. Init => HistoryInv
  BY DEF Init, HistoryInv, RunsInOrder, ExecutedHasRow, RunningIsLast, WorkFollowsStart,
         RunningIsAhead, ExecutedIsRecorded, OccurrenceOnce, Executed, Executor, Unborn
<1>2. ExecutorInv => NotYetUnconfirmed
  BY DEF ExecutorInv
<1> QED
  BY <1>1, <1>2, TypeCorrect, JobsArmed, OverlapGuarded, ExecutorsHold, HistoryStep,
     PTL DEF Spec

(* However timers fire early, jobs are edited and processes die, an        *)
(* occurrence is executed once, but for the two cases that it names.       *)
THEOREM OccurrencesOnce == Spec => []OccurrenceOnce
<1>1. HistoryInv => OccurrenceOnce
  BY DEF HistoryInv
<1> QED BY <1>1, HistoryHolds, PTL
---------------------------------------------------------------------------
(* The run history.                                                        *)

(* What a step of an executor does to the entry of its run.                *)
EntryMoves(r) ==
  /\ Worker(r) \in {"working", "late"} /\ rows'[r].job = rows[r].job
  /\ \/ rows'[r].status = rows[r].status /\ Worker(r)' = Worker(r)
     \/ /\ Worker(r) = "working" /\ Owes(r) = "nothing" /\ Worker(r)' = "done" /\ Owes(r)' = "nothing"
        /\ rows[r].status = "running" /\ rows'[r].status = "completed"
     \/ /\ Worker(r)' = "done" /\ Owes(r)' = "nothing"
        /\ \/ rows[r].status = "running" /\ rows'[r].status = "failed"
           \/ rows[r].status # "running" /\ rows'[r].status = rows[r].status

LEMMA RunStepEntry ==
  ASSUME TypeOK, NotYetUnconfirmed, NEW r \in Runs, RunStep(r)
  PROVE  EntryMoves(r)
<1>1. /\ exec[r] \in ExecType /\ rows[r] \in RowType
      /\ exec \in [Runs -> ExecType] /\ rows \in [Runs -> RowType]
      /\ runtime \in [Runs -> {"none", "pending", "live", "uncertain", "gone"}]
  BY DEF TypeOK
<1>2. Advances(r) /\ RowMoves(r)
  <2>1. UNCHANGED rows \/ FinishFailed(r) \/ FinishCompleted(r)
    BY DEF RunStep, Settlement, Created, CreationRejected, CreationUnconfirmed,
         CleanupUnconfirmed, AwaitReceipt, PromptCompleted, PromptRejected, PromptOverdue,
         DeadlineFires, CancellationSettles, CleanupConfirmed, CleanupRejected,
         ReceiptConfirmed, RuntimeStopped, store
  <2> QED BY <2>1, FinishRows, RunStepAdvances DEF RowMoves
<1>3. /\ Worker(r) \in {"working", "late"}
      /\ Worker(r) = "late" <=> Overdue(r)
      /\ exec[r].age \in Nat /\ exec[r].expired \in BOOLEAN
  BY <1>1, <1>2, BoundsAssumption DEF Advances, Worker, ExecType
<1>4. ASSUME NEW pc, NEW expired, NEW unconfirmed, Go(r, pc, expired, unconfirmed)
      PROVE  /\ exec'[r].pc = pc /\ exec'[r].age = exec[r].age
             /\ exec'[r].expired = expired /\ exec'[r].unconfirmed = unconfirmed
  BY <1>1, <1>4 DEF Go
<1>5. ASSUME UNCHANGED rows, exec'[r].pc \in Awaiting \cup {"stuck"}, Overdue(r)' <=> Overdue(r)
      PROVE  EntryMoves(r)
  <2>1. Worker(r)' = Worker(r)
    BY <1>2, <1>5 DEF Worker, Advances
  <2> QED BY <1>3, <1>5, <2>1 DEF EntryMoves
<1>6. ASSUME exec'[r].pc = "done", FinishFailed(r), Owes(r)' = "nothing"
      PROVE  EntryMoves(r)
  <2>1. \/ rows[r].status = "running" /\ rows'[r].status = "failed"
        \/ rows[r].status # "running" /\ rows'[r].status = rows[r].status
    BY <1>1, <1>6 DEF FinishFailed, StillOwnsRunningRow, SetStatus, store, RowType
  <2>2. Worker(r)' = "done" /\ rows'[r].job = rows[r].job
    BY <1>2, <1>6 DEF Worker, Awaiting, RowMoves
  <2> QED BY <1>3, <1>6, <2>1, <2>2 DEF EntryMoves
<1>7. CASE exec'[r].pc # "done"
  <2>1. exec'[r].pc \in Awaiting \cup {"stuck"}
    BY <1>2, <1>7 DEF Advances
  <2>2. UNCHANGED rows
    BY <1>4, <1>7 DEF RunStep, Settlement, Created, CreationRejected, CreationUnconfirmed,
         CleanupUnconfirmed, AwaitReceipt, PromptCompleted, PromptRejected, PromptOverdue,
         DeadlineFires, CancellationSettles, CleanupConfirmed, CleanupRejected,
         ReceiptConfirmed, RuntimeStopped, store, Resume
  <2>3. Overdue(r)' <=> Overdue(r)
    <3>1. ASSUME NEW pc, Resume(r, pc) \/ Go(r, pc, exec[r].expired, TRUE) \/ Go(r, pc, Overdue(r), TRUE)
          PROVE  Overdue(r)' <=> Overdue(r)
      BY <1>1, <1>3, <1>4, <3>1 DEF Resume, Overdue
    <3>2. ASSUME NEW pc, Expire(r, pc), Overdue(r)
          PROVE  Overdue(r)' <=> Overdue(r)
      BY <1>4, <3>2 DEF Expire, Overdue
    <3>3. DeadlineFires(r) => Overdue(r)
      BY DEF DeadlineFires, Overdue
    <3>4. CASE DeadlineFires(r)
      BY <3>2, <3>3, <3>4 DEF DeadlineFires
    <3>5. CASE RuntimeStopped(r)
      BY <3>5 DEF RuntimeStopped, Overdue
    <3>6. CASE Created(r)
      BY <3>1, <3>2, <3>6 DEF Created
    <3>7. CASE PromptOverdue(r)
      BY <3>2, <3>7 DEF PromptOverdue
    <3>8. CASE CreationRejected(r)
      BY <1>4, <1>7, <3>8 DEF CreationRejected
    <3> QED
      BY <3>1, <3>4, <3>5, <3>6, <3>7, <3>8
         DEF RunStep, Settlement, CreationUnconfirmed, CleanupUnconfirmed, AwaitReceipt,
             PromptCompleted, PromptRejected, CancellationSettles, CleanupConfirmed,
             CleanupRejected, ReceiptConfirmed
  <2> QED BY <1>5, <2>1, <2>2, <2>3
<1>8. CASE exec'[r].pc = "done"
  <2>1. Owes(r)' = "nothing"
    BY <1>2, <1>8 DEF Advances, Owes
  <2>2. CASE PromptCompleted(r)
    <3>1. exec[r].pc = "prompting" /\ ~Overdue(r) /\ FinishCompleted(r)
      BY <2>2 DEF PromptCompleted
    <3>2. Worker(r) = "working" /\ Owes(r) = "nothing"
      BY <1>3, <3>1 DEF Owes, Overdue, NotYetUnconfirmed
    <3>3. Worker(r)' = "done" /\ rows'[r].job = rows[r].job
      BY <1>2, <1>8 DEF Worker, Awaiting, RowMoves
    <3>4. \/ rows[r].status = "running" /\ rows'[r].status = "completed"
          \/ rows[r].status # "running" /\ rows'[r].status = rows[r].status
      BY <1>1, <3>1 DEF FinishCompleted, StillOwnsRunningRow, SetStatus, store, RowType
    <3> QED BY <1>3, <2>1, <3>2, <3>3, <3>4 DEF EntryMoves
  <2>3. CASE ~PromptCompleted(r)
    <3>1. FinishFailed(r)
      BY <1>4, <1>8, <2>3 DEF RunStep, Settlement, Created, CreationRejected, CreationUnconfirmed,
           CleanupUnconfirmed, AwaitReceipt, PromptRejected, PromptOverdue, Resume, Expire,
           DeadlineFires, CancellationSettles, CleanupConfirmed, CleanupRejected,
           ReceiptConfirmed, RuntimeStopped, Awaiting
    <3> QED BY <1>6, <1>8, <2>1, <3>1
  <2> QED BY <2>2, <2>3
<1> QED BY <1>7, <1>8

Past == [r \in Runs |-> Entry(r)]

LEMMA EntriesKept ==
  (\A q \in Runs : Entry(q)' = Entry(q)) => Past' = Past
BY DEF Past

LEMMA EntryChanged ==
  ASSUME NEW r \in Runs, \A q \in Runs \ {r} : Entry(q)' = Entry(q)
  PROVE  Past' = [Past EXCEPT ![r] = Entry(r)']
BY DEF Past

(* The abstract steps, in the terms of the model.                          *)
LEMMA HistoryTerms ==
  /\ History!Next <=>
       /\ Past' # Past
       /\ \/ \E r \in Runs : \/ \E j \in Jobs : \/ History!Accept(r, j) \/ History!Refuse(r, j)
                                                \/ History!Skip(r, j)
                            \/ History!Complete(r) \/ History!GiveUp(r)
                            \/ History!Owe(r) \/ History!Prove(r)
          \/ History!Time \/ History!Die \/ History!Recover
  /\ \A r \in Runs : History!Complete(r) <=>
       /\ Past[r].status = "running" /\ Past[r].worker = "working" /\ Past[r].owes = "nothing"
       /\ Past' = [Past EXCEPT ![r] = [job |-> Past[r].job, status |-> "completed",
                                      worker |-> "done", owes |-> "nothing"]]
  /\ \A r \in Runs : History!GiveUp(r) <=>
       /\ Past[r].worker \in {"working", "late"}
       /\ Past' = [Past EXCEPT ![r] =
                    [job |-> Past[r].job,
                     status |-> IF Past[r].status = "running" THEN "failed" ELSE Past[r].status,
                     worker |-> "done", owes |-> "nothing"]]
  /\ \A r \in Runs : History!Owe(r) <=>
       /\ Past[r].worker \in {"working", "late"}
       /\ Past' = [Past EXCEPT ![r].owes = "cleanup"]
  /\ \A r \in Runs : History!Prove(r) <=> Past' = [Past EXCEPT ![r].owes = "nothing"]
BY DEF Past, History!Next, History!Complete, History!GiveUp, History!Owe, History!Prove,
       History!AtWork, History!Ends

LEMMA RunStepRefines ==
  ASSUME TypeOK, NotYetUnconfirmed, NEW r \in Runs, RunStep(r)
  PROVE  History!Next \/ Past' = Past
<1>1. EntryMoves(r) /\ OthersKept(r)
  BY RunStepEntry, RunStepOthers
<1>2. \A q \in Runs \ {r} : Entry(q)' = Entry(q)
  BY <1>1 DEF OthersKept, Entry, Worker, Owes, Overdue
<1>3. /\ Past[r] = [job |-> rows[r].job, status |-> rows[r].status, worker |-> Worker(r),
                    owes |-> Owes(r)]
      /\ DOMAIN Past = Runs
  BY DEF Past, Entry
<1>4. /\ Past[r].status = rows[r].status /\ Past[r].worker = Worker(r) /\ Past[r].owes = Owes(r)
      /\ Past[r].job = rows[r].job
      /\ Entry(r)' = [job |-> rows'[r].job, status |-> rows'[r].status,
                      worker |-> Worker(r)', owes |-> Owes(r)']
  BY <1>3 DEF Entry
<1>5. Past' = [Past EXCEPT ![r] = Entry(r)']
  BY <1>2, EntryChanged
<1>o. Owes(r)' \in {"cleanup", "nothing"}
  BY DEF Owes
<1>j. rows'[r].job = rows[r].job
  BY <1>1 DEF EntryMoves
<1>6. CASE rows'[r].status = rows[r].status /\ Worker(r)' = Worker(r)
  <2>1. Entry(r)' = [Past[r] EXCEPT !.owes = Owes(r)']
    BY <1>3, <1>4, <1>j, <1>6
  <2>2. Past' = [Past EXCEPT ![r].owes = Owes(r)']
    BY <1>5, <2>1
  <2>3. Past[r].worker \in {"working", "late"}
    BY <1>1, <1>4 DEF EntryMoves
  <2>4. CASE Owes(r)' = "cleanup"
    BY <2>2, <2>3, <2>4, HistoryTerms
  <2>5. CASE Owes(r)' = "nothing"
    BY <2>2, <2>5, HistoryTerms
  <2> QED BY <1>o, <2>4, <2>5
<1>7. CASE /\ Worker(r) = "working" /\ Owes(r) = "nothing" /\ Worker(r)' = "done" /\ Owes(r)' = "nothing"
           /\ rows[r].status = "running" /\ rows'[r].status = "completed"
  <2>0. Owes(r)' = "nothing" /\ Owes(r) = "nothing"
    BY <1>7, <1>o
  <2>2. Past' = [Past EXCEPT ![r] = [job |-> Past[r].job, status |-> "completed",
                                     worker |-> "done", owes |-> "nothing"]]
    BY <1>4, <1>5, <1>7, <1>j, <2>0
  <2>3. Past[r].owes = "nothing"
    BY <1>4, <2>0
  <2> QED BY <1>4, <1>7, <2>2, <2>3, HistoryTerms
<1>8. CASE /\ Worker(r)' = "done" /\ Owes(r)' = "nothing"
           /\ \/ rows[r].status = "running" /\ rows'[r].status = "failed"
              \/ rows[r].status # "running" /\ rows'[r].status = rows[r].status
  <2>0. Owes(r)' = "nothing"
    BY <1>8, <1>o
  <2>1. rows'[r].status = IF Past[r].status = "running" THEN "failed" ELSE Past[r].status
    BY <1>4, <1>8
  <2>2. Past' = [Past EXCEPT ![r] =
                   [job |-> Past[r].job,
                    status |-> IF Past[r].status = "running" THEN "failed" ELSE Past[r].status,
                    worker |-> "done", owes |-> "nothing"]]
    BY <1>4, <1>5, <1>8, <1>j, <2>0, <2>1
  <2>3. Past[r].worker \in {"working", "late"}
    BY <1>1, <1>4 DEF EntryMoves
  <2> QED BY <2>2, <2>3, HistoryTerms
<1> QED BY <1>1, <1>6, <1>7, <1>8 DEF EntryMoves

(* An executor that was never begun, or was lost with its process, owes    *)
(* nothing.                                                                *)
NoneOwesNothing ==
  \A r \in Runs : exec[r].pc \in {"none", "lost"} =>
                    exec[r].expired = FALSE /\ exec[r].unconfirmed = FALSE

LEMMA NoneStep ==
  TypeOK /\ NotYetUnconfirmed /\ NoneOwesNothing /\ [Next]_vars => NoneOwesNothing'
<1> SUFFICES ASSUME TypeOK, NotYetUnconfirmed, NoneOwesNothing, [Next]_vars
             PROVE  NoneOwesNothing'
  OBVIOUS
<1> USE DEF process, bounds, NoneOwesNothing
<1>1. ASSUME NEW j \in Jobs, NEW r \in Runs, ManualRun(r, j) \/ TimerFires(r, j)
      PROVE  NoneOwesNothing'
  <2>1. \E for \in Nat : NewRun(r) /\ (SkipRun(r, j, for) \/ AcceptRun(r, j, for)
                                       \/ AcceptFails(r, j, for))
    BY <1>1 DEF ManualRun, TimerFires, TypeOK, Null
  <2>2. \A q \in Runs \ {r} : exec'[q] = exec[q]
    BY <2>1, BeginExec
  <2>3. exec'[r] = exec[r] \/ exec'[r].pc \notin {"none", "lost"}
    BY <2>1, BeginExec
  <2> QED BY <2>2, <2>3
<1>2. ASSUME NEW r \in Runs, RunStep(r) PROVE NoneOwesNothing'
  BY <1>2, RunStepAdvances, RunStepOthers DEF Advances, OthersKept, Awaiting
<1>3. CASE Exit
  BY <1>3 DEF Exit, Executor, TypeOK
<1>4. CASE Tick
  BY <1>4 DEF Tick, TypeOK
<1>5. CASE UNCHANGED exec
  BY <1>5
<1> QED
  BY <1>1, <1>2, <1>3, <1>4, <1>5 DEF Next, JobStep, CreateJob, UpdateJob, DeleteJob, StoreJob,
       ChangePolicy, ChunkFires, Boot, Start, Stop, vars

LEMMA NoneHolds == Spec => []NoneOwesNothing
<1>1. Init => NoneOwesNothing
  BY DEF Init, NoneOwesNothing, Executor
<1>2. ExecutorInv => NotYetUnconfirmed
  BY DEF ExecutorInv
<1> QED BY <1>1, <1>2, NoneStep, TypeCorrect, ExecutorsHold, PTL DEF Spec

(* What the row of another run has become after a run was added.           *)
Kept(rs, q, j) == \/ rs[q] = rows[q]
                  \/ /\ rows[q].job = j /\ rows[q].status \in Terminal
                     /\ rs[q] = [rows[q] EXCEPT !.status = "pruned"]

LEMMA RowsKept ==
  ASSUME TypeOK, NEW r \in Runs, NEW j \in Jobs, NEW for, NEW status, NEW q \in Runs \ {r}
  PROVE  Kept(WithRow(r, j, for, status), q, j)
<1> DEFINE base == [rows EXCEPT ![r] = [job |-> j, for |-> for, startedAt |-> now,
                                       status |-> status]]
<1>1. base[q] = rows[q]
  BY DEF TypeOK
<1>2. \/ Prune(base, j)[q] = base[q]
      \/ /\ base[q].job = j /\ base[q].status \in Terminal
         /\ Prune(base, j)[q] = [base[q] EXCEPT !.status = "pruned"]
  BY DEF Prune
<1>3. WithRow(r, j, for, status) = Prune(base, j)
  BY DEF WithRow
<1> HIDE DEF base
<1> QED BY <1>1, <1>2, <1>3 DEF Kept

(* The entry of the run that is added, and those of the others.            *)
Added(r, j, status, worker) ==
  /\ Entry(r)' = [job |-> j, status |-> status, worker |-> worker, owes |-> "nothing"]
  /\ \A q \in Runs \ {r} :
        \/ Entry(q)' = Entry(q)
        \/ /\ rows[q].job = j /\ rows[q].status \in Terminal
           /\ Entry(q)' = [Entry(q) EXCEPT !.status = "pruned"]

LEMMA BeginAdds ==
  ASSUME TypeOK, NoneOwesNothing, ExecutedHasRow, NEW r \in Runs, NEW j \in Jobs,
         NEW for \in Nat, NewRun(r),
         SkipRun(r, j, for) \/ AcceptRun(r, j, for) \/ AcceptFails(r, j, for)
  PROVE  \/ Added(r, j, "running", "working") /\ ~HasRunningRun(j)
         \/ Added(r, j, "failed", "done") /\ ~HasRunningRun(j)
         \/ \E status \in {"skipped", "pruned"} : Added(r, j, status, "none")
<1>1. \A q \in Runs \ {r} : exec'[q] = exec[q] /\ runtime'[q] = runtime[q]
  BY BeginExec
<1>2. \A q \in Runs \ {r} : Kept(rows', q, j)
  <2>1. ASSUME NEW q \in Runs \ {r}, NEW status \in {"running", "skipped"}
        PROVE  Kept(WithRow(r, j, for, status), q, j)
    BY RowsKept
  <2>2. CASE SkipRun(r, j, for) \/ AcceptRun(r, j, for)
    BY <2>1, <2>2 DEF SkipRun, AcceptRun
  <2>3. CASE AcceptFails(r, j, for)
    <3>1. \A q \in Runs \ {r} : rows'[q] = WithRow(r, j, for, "running")[q]
      BY <2>3, RowCreated DEF AcceptFails
    <3> QED BY <2>1, <3>1 DEF Kept
  <2> QED BY <2>2, <2>3
<1>3. \A q \in Runs \ {r} :
        \/ Entry(q)' = Entry(q)
        \/ /\ rows[q].job = j /\ rows[q].status \in Terminal
           /\ Entry(q)' = [Entry(q) EXCEPT !.status = "pruned"]
  <2> SUFFICES ASSUME NEW q \in Runs \ {r}
               PROVE  \/ Entry(q)' = Entry(q)
                      \/ /\ rows[q].job = j /\ rows[q].status \in Terminal
                         /\ Entry(q)' = [Entry(q) EXCEPT !.status = "pruned"]
    OBVIOUS
  <2>1. Worker(q)' = Worker(q) /\ Owes(q)' = Owes(q)
    BY <1>1 DEF Worker, Owes, Overdue
  <2>2. rows[q] \in RowType
    BY DEF TypeOK
  <2>3. CASE rows'[q] = rows[q]
    BY <2>1, <2>3 DEF Entry
  <2>4. CASE /\ rows[q].job = j /\ rows[q].status \in Terminal
             /\ rows'[q] = [rows[q] EXCEPT !.status = "pruned"]
    <3>1. rows'[q].job = rows[q].job /\ rows'[q].status = "pruned"
      BY <2>2, <2>4 DEF RowType
    <3> QED BY <2>1, <2>4, <3>1 DEF Entry
  <2> QED BY <1>2, <2>3, <2>4 DEF Kept
<1>4. rows[r].status = "none" /\ exec[r].pc = "none"
  BY DEF NewRun, ExecutedHasRow
<1>5. CASE SkipRun(r, j, for)
  <2>1. /\ rows'[r].job = j /\ rows'[r].status \in {"skipped", "pruned"}
    BY <1>5, RowCreated DEF SkipRun
  <2>2. Worker(r)' = "none" /\ Owes(r)' = "nothing"
    BY <1>4, <1>5 DEF SkipRun, Worker, Owes, Awaiting, NoneOwesNothing
  <2>3. Entry(r)' = [job |-> j, status |-> rows'[r].status, worker |-> "none", owes |-> "nothing"]
    BY <2>1, <2>2 DEF Entry
  <2> QED BY <1>3, <2>1, <2>3 DEF Added
<1>6. CASE AcceptRun(r, j, for)
  <2>1. rows'[r].job = j /\ rows'[r].status = "running" /\ ~HasRunningRun(j)
    BY <1>6, RowCreated DEF AcceptRun, Skips
  <2>2. /\ exec'[r].pc = "creating" /\ exec'[r].age = 0
        /\ exec'[r].expired = FALSE /\ exec'[r].unconfirmed = FALSE
    BY <1>6 DEF AcceptRun, Executor, TypeOK
  <2>3. Worker(r)' = "working" /\ Owes(r)' = "nothing"
    BY <2>2, BoundsAssumption DEF Worker, Owes, Awaiting, Overdue
  <2>4. Entry(r)' = [job |-> j, status |-> "running", worker |-> "working", owes |-> "nothing"]
    BY <2>1, <2>3 DEF Entry
  <2> QED BY <1>3, <2>1, <2>4 DEF Added
<1>7. CASE AcceptFails(r, j, for)
  <2>1. rows'[r].job = j /\ rows'[r].status = "failed" /\ ~HasRunningRun(j)
    <3>1. /\ WithRow(r, j, for, "running") \in [Runs -> RowType]
          /\ WithRow(r, j, for, "running")[r].job = j
      BY RowCreated
    <3> QED BY <1>7, <3>1 DEF AcceptFails, Skips, RowType
  <2>2. exec'[r].pc = "done" /\ exec'[r].expired = FALSE /\ exec'[r].unconfirmed = FALSE
    BY <1>7 DEF AcceptFails, Executor, TypeOK
  <2>3. Worker(r)' = "done" /\ Owes(r)' = "nothing"
    BY <2>2 DEF Worker, Owes, Awaiting
  <2>4. Entry(r)' = [job |-> j, status |-> "failed", worker |-> "done", owes |-> "nothing"]
    BY <2>1, <2>3 DEF Entry
  <2> QED BY <1>3, <2>1, <2>4 DEF Added
<1> QED BY <1>5, <1>6, <1>7

LEMMA AddTerms ==
  \A r \in Runs, j \in Jobs : \A status, worker : History!Add(r, j, status, worker) <=>
    /\ Past[r].status = "none"
    /\ worker # "none" => \A q \in Runs : Past[q].job = j => Past[q].status # "running"
    /\ \E pruned \in SUBSET {q \in Runs : Past[q].job = j /\ Past[q].status \in Terminal} :
         Past' = [q \in Runs |->
                   IF q = r THEN [job |-> j, status |-> status, worker |-> worker, owes |-> "nothing"]
                   ELSE IF q \in pruned THEN [Past[q] EXCEPT !.status = "pruned"]
                   ELSE Past[q]]
BY DEF Past, History!Add, History!Ended, Terminal

LEMMA AddRefines ==
  ASSUME NEW r \in Runs, NEW j \in Jobs, NEW status, NEW worker, rows[r].status = "none",
         worker # "none" => ~HasRunningRun(j), Added(r, j, status, worker)
  PROVE  History!Add(r, j, status, worker)
<1> DEFINE pruned == {q \in Runs \ {r} : Entry(q)' # Entry(q)}
<1>1. \A q \in Runs : /\ Past[q] = Entry(q) /\ Past[q].status = rows[q].status
                      /\ Past[q].job = rows[q].job
  BY DEF Past, Entry
<1>2. Past' = [q \in Runs |->
                IF q = r THEN [job |-> j, status |-> status, worker |-> worker, owes |-> "nothing"]
                ELSE IF q \in pruned THEN [Past[q] EXCEPT !.status = "pruned"]
                ELSE Past[q]]
  <2>1. Past' = [q \in Runs |-> Entry(q)']
    BY DEF Past
  <2>2. \A q \in Runs : Entry(q)' =
          IF q = r THEN [job |-> j, status |-> status, worker |-> worker, owes |-> "nothing"]
          ELSE IF q \in pruned THEN [Past[q] EXCEPT !.status = "pruned"]
          ELSE Past[q]
    BY <1>1 DEF Added
  <2> HIDE DEF pruned
  <2> QED BY <2>1, <2>2
<1>3. pruned \in SUBSET {q \in Runs : Past[q].job = j /\ Past[q].status \in Terminal}
  BY <1>1 DEF Added
<1>4. worker # "none" => \A q \in Runs : Past[q].job = j => Past[q].status # "running"
  BY <1>1 DEF HasRunningRun
<1> HIDE DEF pruned
<1>5. Past[r].status = "none"
  BY <1>1
<1>6. \E S \in SUBSET {q \in Runs : Past[q].job = j /\ Past[q].status \in Terminal} :
        Past' = [q \in Runs |->
                  IF q = r THEN [job |-> j, status |-> status, worker |-> worker, owes |-> "nothing"]
                  ELSE IF q \in S THEN [Past[q] EXCEPT !.status = "pruned"]
                  ELSE Past[q]]
  BY <1>2, <1>3
<1> QED BY <1>4, <1>5, <1>6, AddTerms

LEMMA BeginRefines ==
  ASSUME TypeOK, NoneOwesNothing, ExecutedHasRow, NEW r \in Runs, NEW j \in Jobs,
         NEW for \in Nat, NewRun(r),
         SkipRun(r, j, for) \/ AcceptRun(r, j, for) \/ AcceptFails(r, j, for)
  PROVE  History!Next \/ Past' = Past
<1>1. rows[r].status = "none"
  BY DEF NewRun
<1>2. CASE Added(r, j, "running", "working") /\ ~HasRunningRun(j)
  <2>1. History!Accept(r, j)
    BY <1>1, <1>2, AddRefines DEF History!Accept
  <2> QED BY <2>1, HistoryTerms
<1>3. CASE Added(r, j, "failed", "done") /\ ~HasRunningRun(j)
  <2>1. History!Refuse(r, j)
    BY <1>1, <1>3, AddRefines DEF History!Refuse
  <2> QED BY <2>1, HistoryTerms
<1>4. ASSUME NEW status \in {"skipped", "pruned"}, Added(r, j, status, "none")
      PROVE  History!Next \/ Past' = Past
  <2>1. History!Skip(r, j)
    BY <1>1, <1>4, AddRefines DEF History!Skip
  <2> QED BY <2>1, HistoryTerms
<1> QED BY <1>2, <1>3, <1>4, BeginAdds

(* Recovery, the exit of the process, and the passing of time.             *)
LEMMA SweepTerms ==
  /\ History!Recover <=>
       Past' = [r \in Runs |-> IF Past[r].status = "running"
                               THEN [Past[r] EXCEPT !.status = "failed"] ELSE Past[r]]
  /\ History!Die <=>
       Past' = [r \in Runs |-> IF Past[r].worker \in {"working", "late"}
                               THEN [Past[r] EXCEPT !.worker = "lost", !.owes = "nothing"]
                               ELSE Past[r]]
  /\ History!Time <=>
       \E late \in SUBSET {r \in Runs : Past[r].worker = "working"} :
          Past' = [r \in Runs |-> IF r \in late THEN [Past[r] EXCEPT !.worker = "late"]
                                  ELSE Past[r]]
BY DEF Past, History!Recover, History!Die, History!Time, History!AtWork

LEMMA EntryIs ==
  ASSUME NEW r \in Runs
  PROVE  /\ Past[r] = [job |-> rows[r].job, status |-> rows[r].status, worker |-> Worker(r),
                       owes |-> Owes(r)]
         /\ Past[r].status = rows[r].status /\ Past[r].worker = Worker(r)
         /\ Entry(r)' = [job |-> rows'[r].job, status |-> rows'[r].status,
                         worker |-> Worker(r)', owes |-> Owes(r)']
BY DEF Past, Entry

LEMMA StartRefines ==
  ASSUME TypeOK, Start
  PROVE  History!Next \/ Past' = Past
<1>1. ASSUME NEW r \in Runs
      PROVE  Entry(r)' = IF Past[r].status = "running" THEN [Past[r] EXCEPT !.status = "failed"]
                         ELSE Past[r]
  <2>1. Worker(r)' = Worker(r) /\ Owes(r)' = Owes(r)
    BY DEF Start, Worker, Owes, Overdue
  <2>2. /\ rows'[r].job = rows[r].job
        /\ rows'[r].status = IF rows[r].status = "running" THEN "failed" ELSE rows[r].status
    BY DEF Start, TypeOK, RowType
  <2>e. /\ Past[r] = [job |-> rows[r].job, status |-> rows[r].status, worker |-> Worker(r),
                      owes |-> Owes(r)]
        /\ Entry(r)' = [job |-> rows'[r].job, status |-> rows'[r].status,
                        worker |-> Worker(r)', owes |-> Owes(r)']
        /\ Past[r].status = rows[r].status /\ Past[r].worker = Worker(r)
    BY EntryIs
  <2>3. CASE rows[r].status = "running"
    <3>1. [Past[r] EXCEPT !.status = "failed"] =
            [job |-> rows[r].job, status |-> "failed", worker |-> Worker(r), owes |-> Owes(r)]
      BY <2>e
    <3> QED BY <2>1, <2>2, <2>3, <2>e, <3>1
  <2>4. CASE rows[r].status # "running"
    BY <2>1, <2>2, <2>4, <2>e
  <2> QED BY <2>3, <2>4
<1>2. Past' = [r \in Runs |-> Entry(r)']
  BY DEF Past
<1>3. History!Recover
  BY <1>1, <1>2, SweepTerms
<1> QED BY <1>3, HistoryTerms

LEMMA ExitRefines ==
  ASSUME TypeOK, NoneOwesNothing, ReleaseProven, Exit
  PROVE  History!Next \/ Past' = Past
<1>1. ASSUME NEW r \in Runs
      PROVE  Entry(r)' = IF Past[r].worker \in {"working", "late"}
                         THEN [Past[r] EXCEPT !.worker = "lost", !.owes = "nothing"] ELSE Past[r]
  <2>e. /\ Past[r] = [job |-> rows[r].job, status |-> rows[r].status, worker |-> Worker(r),
                      owes |-> Owes(r)]
        /\ Entry(r)' = [job |-> rows'[r].job, status |-> rows'[r].status,
                        worker |-> Worker(r)', owes |-> Owes(r)']
        /\ Past[r].status = rows[r].status /\ Past[r].worker = Worker(r)
    BY EntryIs
  <2>1. rows'[r] = rows[r]
    BY DEF Exit, store
  <2>2. CASE exec[r].pc \in Awaiting \cup {"stuck"}
    <3>1. /\ exec'[r].pc = "lost" /\ exec'[r].expired = FALSE /\ exec'[r].unconfirmed = FALSE
      BY <2>2 DEF Exit, Executor
    <3>2. Worker(r) \in {"working", "late"} /\ Worker(r)' = "lost" /\ Owes(r)' = "nothing"
      BY <2>2, <3>1 DEF Worker, Owes, Awaiting
    <3> DEFINE lost == [Past[r] EXCEPT !.worker = "lost"]
    <3>3. lost = [job |-> rows[r].job, status |-> rows[r].status, worker |-> "lost",
                  owes |-> Owes(r)]
      BY <2>e
    <3> HIDE DEF lost
    <3>4. [lost EXCEPT !.owes = "nothing"] = [job |-> rows[r].job, status |-> rows[r].status,
                                          worker |-> "lost", owes |-> "nothing"]
      BY <3>3
    <3>5. Entry(r)' = [lost EXCEPT !.owes = "nothing"]
      BY <2>1, <2>e, <3>2, <3>4
    <3> QED BY <2>e, <3>2, <3>5 DEF lost
  <2>3. CASE exec[r].pc \notin Awaiting \cup {"stuck"}
    <3>1. exec'[r] = exec[r]
      BY <2>3 DEF Exit
    <3>2. Worker(r)' = Worker(r) /\ Worker(r) \notin {"working", "late"}
      BY <2>3, <3>1 DEF Worker, TypeOK, ExecType, Overdue, Awaiting
    <3>3. runtime'[r] = "gone" \/ (runtime[r] = "none" /\ runtime'[r] = "none")
      BY DEF Exit
    <3>4. Owes(r)' = Owes(r)
      <4>1. exec[r].pc \in {"none", "done", "lost"} /\ exec[r] \in ExecType
        BY <2>3 DEF TypeOK, ExecType
      <4>2. CASE exec[r].expired \/ exec[r].unconfirmed
        <5>1. exec[r].pc \notin {"none", "lost"}
          BY <4>2 DEF NoneOwesNothing
        <5>2. exec[r].pc = "done" => runtime[r] = "gone"
          BY <4>2 DEF ReleaseProven
        <5> QED BY <3>1, <3>3, <4>1, <4>2, <5>1, <5>2 DEF Owes
      <4>3. CASE ~(exec[r].expired \/ exec[r].unconfirmed)
        BY <3>1, <4>3 DEF Owes
      <4> QED BY <4>2, <4>3
    <3> QED BY <2>1, <2>e, <3>2, <3>4
  <2> QED BY <2>2, <2>3
<1>2. Past' = [r \in Runs |-> Entry(r)']
  BY DEF Past
<1>3. History!Die
  BY <1>1, <1>2, SweepTerms
<1> QED BY <1>3, HistoryTerms

LEMMA TickRefines ==
  ASSUME TypeOK, Tick
  PROVE  History!Next \/ Past' = Past
<1> DEFINE late == {r \in Runs : Worker(r) = "working" /\ Worker(r)' = "late"}
<1>1. ASSUME NEW r \in Runs
      PROVE  Entry(r)' = IF r \in late THEN [Past[r] EXCEPT !.worker = "late"] ELSE Past[r]
  <2>e. /\ Past[r] = [job |-> rows[r].job, status |-> rows[r].status, worker |-> Worker(r),
                      owes |-> Owes(r)]
        /\ Entry(r)' = [job |-> rows'[r].job, status |-> rows'[r].status,
                        worker |-> Worker(r)', owes |-> Owes(r)']
        /\ Past[r].status = rows[r].status /\ Past[r].worker = Worker(r)
    BY EntryIs
  <2>1. rows'[r] = rows[r] /\ runtime'[r] = runtime[r]
    BY DEF Tick, store
  <2>2. /\ exec'[r].pc = exec[r].pc /\ exec'[r].expired = exec[r].expired
        /\ exec'[r].unconfirmed = exec[r].unconfirmed
        /\ exec'[r].age >= exec[r].age /\ exec[r].age \in Nat /\ exec'[r].age \in Nat
    BY BoundsAssumption DEF Tick, TypeOK, ExecType
  <2>3. Owes(r)' = Owes(r)
    BY <2>1, <2>2 DEF Owes
  <2>4. Worker(r)' = Worker(r) \/ (Worker(r) = "working" /\ Worker(r)' = "late")
    BY <2>2, BoundsAssumption DEF Worker, Overdue
  <2>5. CASE r \in late
    <3>1. [Past[r] EXCEPT !.worker = "late"] =
            [job |-> rows[r].job, status |-> rows[r].status, worker |-> "late", owes |-> Owes(r)]
      BY <2>e
    <3> QED BY <2>1, <2>3, <2>5, <2>e, <3>1
  <2>6. CASE r \notin late
    <3>1. Worker(r)' = Worker(r)
      BY <2>4, <2>6
    <3> QED BY <2>1, <2>3, <2>6, <2>e, <3>1
  <2> QED BY <2>5, <2>6
<1>2. Past' = [r \in Runs |-> Entry(r)']
  BY DEF Past
<1>3. late \in SUBSET {r \in Runs : Past[r].worker = "working"}
  BY EntryIs
<1> HIDE DEF late
<1>4. History!Time
  BY <1>1, <1>2, <1>3, SweepTerms
<1> QED BY <1>4, HistoryTerms

LEMMA PastStep ==
  TypeOK /\ ExecutorInv /\ ExecutedHasRow /\ NoneOwesNothing /\ [Next]_vars
    => [History!Next]_Past
<1> SUFFICES ASSUME TypeOK, ExecutorInv, ExecutedHasRow, NoneOwesNothing, [Next]_vars
             PROVE  History!Next \/ Past' = Past
  OBVIOUS
<1> USE DEF process, bounds, store
<1>1. ASSUME UNCHANGED <<rows, exec, runtime>> PROVE Past' = Past
  BY <1>1 DEF Past, Entry, Worker, Owes, Overdue
<1>2. ASSUME NEW j \in Jobs, NEW r \in Runs, ManualRun(r, j) \/ TimerFires(r, j)
      PROVE  History!Next \/ Past' = Past
  <2>1. \E for \in Nat : NewRun(r) /\ (SkipRun(r, j, for) \/ AcceptRun(r, j, for)
                                       \/ AcceptFails(r, j, for))
    BY <1>2 DEF ManualRun, TimerFires, TypeOK, Null
  <2> QED BY <2>1, BeginRefines
<1>3. ASSUME NEW r \in Runs, RunStep(r) PROVE History!Next \/ Past' = Past
  BY <1>3, RunStepRefines DEF ExecutorInv
<1>4. CASE Start
  BY <1>4, StartRefines
<1>5. CASE Exit
  BY <1>5, ExitRefines DEF ExecutorInv
<1>6. CASE Tick
  BY <1>6, TickRefines
<1>7. CASE UNCHANGED <<rows, exec, runtime>>
  BY <1>1, <1>7
<1> QED
  BY <1>2, <1>3, <1>4, <1>5, <1>6, <1>7 DEF Next, JobStep, CreateJob, UpdateJob, DeleteJob,
       StoreJob, ChangePolicy, ChunkFires, Boot, Stop, vars

LEMMA PastInit == Init => History!Init
<1> SUFFICES ASSUME Init PROVE \A r \in Runs : Entry(r) = [job |-> Null, status |-> "none",
                                                       worker |-> "none", owes |-> "nothing"]
  BY DEF History!Init
<1> TAKE r \in Runs
<1>1. rows[r].job = Null /\ rows[r].status = "none"
  BY DEF Init, Unborn
<1>2. exec[r].pc = "none" /\ exec[r].expired = FALSE /\ exec[r].unconfirmed = FALSE
  BY DEF Init, Executor
<1>3. Worker(r) = "none" /\ Owes(r) = "nothing"
  BY <1>2 DEF Worker, Owes, Awaiting
<1> QED BY <1>1, <1>3 DEF Entry

(* Scheduler implements RunHistory: rows, executors and runtimes together  *)
(* keep one running row per job, final endings, successes inside the       *)
(* budget, and releases that are proven, for every schedule of timers,     *)
(* manual runs, deadlines, cleanups, exits and recoveries.                 *)
THEOREM HistoryImplemented == Spec => ImplementsHistory
<1>1. HistoryInv => ExecutedHasRow
  BY DEF HistoryInv
<1> QED
  BY <1>1, PastInit, PastStep, TypeCorrect, ExecutorsHold, HistoryHolds, NoneHolds,
     PTL DEF Spec, ImplementsHistory, History!Spec, Past
=============================================================================
