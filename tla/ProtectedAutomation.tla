-------------------------- MODULE ProtectedAutomation --------------------------
(* One protected-automation job: its durable row and run rows              *)
(* (protected-automation/store.ts), the executors of its runs              *)
(* (manager.ts), and its private state on disk (runtime-storage.ts).       *)
(*                                                                         *)
(* A run works on a stage, a copy of the published generation.  Its        *)
(* executor seals the stage, commits the row, and publishes the stage by a *)
(* rename, a pointer file and a sweep.  These are synchronous writes of    *)
(* one turn: nothing of the process runs between them, but a crash may.    *)
(* So a turn is several steps, `turn` and `sweep` say which turn is        *)
(* running, and only Crash interleaves.                                    *)
EXTENDS Naturals, FiniteSets

CONSTANTS MaxRuns,      \* runs the job ever gets; ids in order of creation
          History,      \* MAX_PROTECTED_AUTOMATION_RUNS_PER_JOB
          MaxRev,       \* bound on the edits of the job
          MaxCrashes,   \* bound on crashes
          MaxPurges     \* bound on purges of other jobs

ASSUME BoundsAssumption ==
  /\ MaxRuns \in Nat /\ History \in Nat \ {0} /\ MaxRev \in Nat
  /\ MaxCrashes \in Nat /\ MaxPurges \in Nat

Runs == 1 .. MaxRuns
NoRun == 0

VARIABLES
  mode,     \* enabled, paused, blocked or deleted (tombstoned), or gone
  rev,      \* revision of the job row
  auth,     \* the pair's authority: current for the job's capability
            \* revision, drifted to another revision, or excluded
  rows,     \* run rows: status, job_revision, and whether pruning kept them
  pc,       \* where the executor of a run is; "none" if it has none
  result,   \* what its runner returned
  stage,    \* stages/<run>: none, open, or sealed with READY
  base,     \* the generation that the stage was copied from
  gens,     \* generations/<run>
  current,  \* the generation CURRENT names
  proc,     \* down, starting or up
  turn,     \* the run whose synchronous turn is running
  sweep,    \* reconcile(): none, stages, candidate or rest
  todo,     \* stages that reconcile() has not visited
  pub,      \* publishState(): the run and the next write
  crashes, purges

job == <<mode, rev, auth>>
disk == <<stage, base, gens, current>>
process == <<proc, turn, sweep, todo, pub>>
bounds == <<crashes, purges>>
vars == <<job, rows, pc, result, disk, process, bounds>>

Active == {"queued", "running"}
Ended == {"completed", "failed", "skipped", "cancelled", "interrupted", "denied"}
NoPub == [run |-> NoRun, at |-> "none"]

Init ==
  /\ mode = "paused" /\ rev = 1 /\ auth = "current"
  /\ rows = [r \in Runs |-> [status |-> "none", rev |-> 0, kept |-> FALSE]]
  /\ pc = [r \in Runs |-> "none"] /\ result = [r \in Runs |-> "none"]
  /\ stage = [r \in Runs |-> "none"] /\ base = [r \in Runs |-> NoRun]
  /\ gens = {} /\ current = NoRun
  /\ proc = "down" /\ turn = NoRun /\ sweep = "none" /\ todo = {} /\ pub = NoPub
  /\ crashes = 0 /\ purges = 0

---------------------------------------------------------------------------
(* Helpers.                                                                *)

Idle == proc = "up" /\ turn = NoRun /\ sweep = "none"
Kept == {r \in Runs : rows[r].kept}
ActiveRuns == {r \in Kept : rows[r].status \in Active}
Executing == {r \in Runs : pc[r] \notin {"none", "done"}}

(* executionHandleIsCurrent for the job row that the run captured.         *)
HandleCurrent(r) == mode = "enabled" /\ rev = rows[r].rev /\ auth = "current"

(* finishProtectedAutomationRun: the outcome is denied when the authority  *)
(* of the row has gone; a terminal row stays as it is.                     *)
Finished(r, status) ==
  IF ~ rows[r].kept \/ rows[r].status \in Ended THEN rows
  ELSE [rows EXCEPT ![r].status = IF HandleCurrent(r) THEN status ELSE "denied"]

(* cancelQueuedDraft, and with terminateJobs the running row as well.      *)
Cancelled(statuses) ==
  [r \in Runs |-> IF rows[r].kept /\ rows[r].status \in statuses
                    THEN [rows[r] EXCEPT !.status = "cancelled"] ELSE rows[r]]

(* The end of an executor's turn.                                          *)
EndTurn(r) ==
  /\ pc' = [pc EXCEPT ![r] = "done"]
  /\ turn' = NoRun

Discard(r) == stage' = [stage EXCEPT ![r] = "none"]

(* Mutant of RetireRun: a retired run takes its generation with it, even   *)
(* when CURRENT names it.                                                  *)
BugRetireCurrent(r) ==
  /\ stage' = [stage EXCEPT ![r] = "none"]
  /\ gens' = gens \ {r}

(* retireRun: everything of the run goes except what CURRENT names.        *)
RetireRun(r) ==
  /\ Discard(r)
  /\ gens' = IF current = r THEN gens ELSE gens \ {r}

---------------------------------------------------------------------------
(* The owner's and the policy's changes of the job.                        *)

(* update, tombstone and pause: one commit that disables the job, then     *)
(* terminateJobs cancels its active rows.                                  *)
Disable(to) ==
  /\ Idle /\ rev < MaxRev
  /\ mode \notin {"deleted", "gone"}
  /\ mode' = to /\ rev' = rev + 1
  /\ rows' = Cancelled(Active)
  /\ UNCHANGED <<auth, pc, result, disk, process, bounds>>

UpdateJob == auth = "current" /\ Disable("paused")
PauseJob == Disable("paused")
TombstoneJob == Disable("deleted")

EnableJob ==
  /\ Idle /\ rev < MaxRev
  /\ mode \notin {"deleted", "gone"} /\ auth = "current"
  /\ mode' = "enabled" /\ rev' = rev + 1
  /\ UNCHANGED <<auth, rows, pc, result, disk, process, bounds>>

(* rebind takes the pair's present authority; it does not terminate runs.  *)
RebindJob ==
  /\ Idle /\ rev < MaxRev
  /\ mode \notin {"deleted", "gone"} /\ auth # "excluded"
  /\ ~ (auth = "current" /\ mode = "paused")
  /\ mode' = "paused" /\ rev' = rev + 1 /\ auth' = "current"
  /\ rows' = Cancelled({"queued"})
  /\ UNCHANGED <<pc, result, disk, process, bounds>>

(* A project or profile edit.  One that excludes the pair blocks the job   *)
(* in its own commit; every edit that leaves the authority other than      *)
(* current then terminates the job's runs (latchPolicy).                   *)
ChangePolicy(to) ==
  /\ Idle /\ to # auth
  /\ mode # "gone"
  /\ auth' = to
  /\ IF to = "excluded" /\ mode # "deleted"
       THEN rev < MaxRev /\ mode' = "blocked" /\ rev' = rev + 1
       ELSE UNCHANGED <<mode, rev>>
  /\ rows' = IF to = "current" THEN rows ELSE Cancelled(Active)
  /\ UNCHANGED <<pc, result, disk, process, bounds>>

Cancel(r) ==
  /\ Idle /\ r \in ActiveRuns
  /\ rows' = [rows EXCEPT ![r].status = "cancelled"]
  /\ UNCHANGED <<job, pc, result, disk, process, bounds>>

---------------------------------------------------------------------------
(* Admission and the executor up to its runner.                            *)

NextRun(r) == rows[r].status = "none" /\ \A q \in Runs : rows[q].status = "none" => q >= r

(* pruneRunsDraft: the oldest terminal rows go while the history is full.  *)
Pruned == LET oldest == {r \in Kept : /\ rows[r].status \in Ended
                                      /\ \A q \in Kept : rows[q].status \in Ended => q >= r}
          IN IF Cardinality(Kept) >= History THEN oldest ELSE {}

(* Mutant of Enqueue: an active run does not make a new one skipped.       *)
BugOverlapAllowed(r) ==
  /\ Idle /\ mode = "enabled" /\ auth = "current"
  /\ NextRun(r) /\ Cardinality(Kept) < History
  /\ rows' = [rows EXCEPT ![r] = [status |-> "queued", rev |-> rev, kept |-> TRUE]]
  /\ turn' = r /\ pc' = [pc EXCEPT ![r] = "claiming"]
  /\ UNCHANGED <<job, result, disk, proc, sweep, todo, pub, bounds>>

(* runNow and enqueueScheduled: the row is queued, or skipped beside an    *)
(* active one; the storage of a pruned row is retired; a queued run is     *)
(* dispatched in the same turn.                                            *)
Enqueue(r) ==
  /\ Idle /\ mode = "enabled" /\ auth = "current"
  /\ NextRun(r)
  /\ Cardinality(Kept) >= History => Pruned # {}
  /\ LET status == IF ActiveRuns = {} THEN "queued" ELSE "skipped" IN
     /\ rows' = [q \in Runs |->
          IF q = r THEN [status |-> status, rev |-> rev, kept |-> TRUE]
          ELSE IF q \in Pruned THEN [rows[q] EXCEPT !.kept = FALSE] ELSE rows[q]]
     /\ turn' = IF status = "queued" THEN r ELSE NoRun
     /\ pc' = [pc EXCEPT ![r] = IF status = "queued" THEN "claiming" ELSE "none"]
  /\ \/ \E q \in Pruned : RetireRun(q)
     \/ Pruned = {} /\ UNCHANGED <<stage, gens>>
  /\ UNCHANGED <<job, result, base, current, proc, sweep, todo, pub, bounds>>

(* claimProtectedAutomationRun and the check that follows it.              *)
Claim(r) ==
  /\ turn = r /\ pc[r] = "claiming"
  /\ IF HandleCurrent(r)
       THEN /\ rows' = [rows EXCEPT ![r].status = "running"]
            /\ pc' = [pc EXCEPT ![r] = "preparing"]
            /\ UNCHANGED turn
       ELSE rows' = [rows EXCEPT ![r].status = "denied"] /\ EndTurn(r)
  /\ UNCHANGED <<job, result, disk, proc, sweep, todo, pub, bounds>>

(* prepareRun copies the published state; then the lease is awaited.       *)
Prepare(r) ==
  /\ turn = r /\ pc[r] = "preparing"
  /\ stage' = [stage EXCEPT ![r] = "open"]
  /\ base' = [base EXCEPT ![r] = current]
  /\ pc' = [pc EXCEPT ![r] = "leasing"] /\ turn' = NoRun
  /\ UNCHANGED <<job, rows, result, gens, current, proc, sweep, todo, pub, bounds>>

PrepareFails(r) ==
  /\ turn = r /\ pc[r] = "preparing"
  /\ rows' = Finished(r, "failed")
  /\ RetireRun(r) /\ EndTurn(r)
  /\ UNCHANGED <<job, result, base, current, proc, sweep, todo, pub, bounds>>

(* The browser lease opened or failed; the runner starts only under a      *)
(* current handle.  Otherwise the lease is closed first (an await).        *)
LeaseSettles(r) ==
  /\ Idle /\ pc[r] = "leasing"
  /\ pc' = [pc EXCEPT ![r] = IF HandleCurrent(r) THEN "running" ELSE "denying"]
  /\ UNCHANGED <<job, rows, result, disk, process, bounds>>

DenyRun(r) ==
  /\ Idle /\ pc[r] = "denying"
  /\ rows' = Finished(r, "denied")
  /\ Discard(r) /\ EndTurn(r)
  /\ UNCHANGED <<job, result, base, gens, current, proc, sweep, todo, pub, bounds>>

(* The runner returns; "completed" stands for every result that publishes  *)
(* (also a needs_user with an intentional code), "failed" for the others.  *)
(* An aborted runner may have completed just before.                       *)
RunnerSettles(r) ==
  /\ Idle /\ pc[r] = "running"
  /\ \E x \in {"completed", "failed"} : result' = [result EXCEPT ![r] = x]
  /\ pc' = [pc EXCEPT ![r] = "closing"]
  /\ UNCHANGED <<job, rows, disk, process, bounds>>

---------------------------------------------------------------------------
(* The executor after its runner: seal, commit, publish.                   *)

(* The lease is closed; row and handle are checked again.                  *)
LeaseClosed(r) ==
  /\ Idle /\ pc[r] = "closing"
  /\ IF rows[r].kept /\ rows[r].status = "running" /\ HandleCurrent(r)
       THEN /\ pc' = [pc EXCEPT ![r] = "sealing"] /\ turn' = r
            /\ UNCHANGED <<rows, stage>>
       ELSE rows' = Finished(r, "denied") /\ Discard(r) /\ EndTurn(r)
  /\ UNCHANGED <<job, result, base, gens, current, proc, sweep, todo, pub, bounds>>

(* persistDiagnostics fails.                                               *)
PersistFails(r) ==
  /\ turn = r /\ pc[r] = "sealing"
  /\ rows' = Finished(r, "failed")
  /\ RetireRun(r) /\ EndTurn(r)
  /\ UNCHANGED <<job, result, base, current, proc, sweep, todo, pub, bounds>>

(* sealState of a stage that is still there, or its failure (a quota, a    *)
(* missing stage), which makes the result a failure; the stage of any      *)
(* other result is discarded.                                              *)
Seal(r) ==
  /\ turn = r /\ pc[r] = "sealing"
  /\ \/ /\ result[r] = "completed" /\ stage[r] # "none"
        /\ stage' = [stage EXCEPT ![r] = "sealed"]
        /\ UNCHANGED result
     \/ /\ Discard(r)
        /\ result' = [result EXCEPT ![r] = "failed"]
  /\ pc' = [pc EXCEPT ![r] = "committing"]
  /\ UNCHANGED <<job, rows, base, gens, current, process, bounds>>

(* Mutant of Commit: the state is published before its row is final.       *)
BugPublishFirst(r) ==
  /\ turn = r /\ pc[r] = "committing" /\ pub = NoPub
  /\ IF result[r] = "completed"
       THEN pub' = [run |-> r, at |-> "rename"] /\ UNCHANGED <<rows, pc, turn>>
       ELSE rows' = Finished(r, result[r]) /\ EndTurn(r) /\ UNCHANGED pub
  /\ UNCHANGED <<job, result, disk, proc, sweep, todo, bounds>>

(* The row becomes final; a result that publishes goes on to publishState. *)
Commit(r) ==
  /\ turn = r /\ pc[r] = "committing" /\ pub = NoPub
  /\ rows' = Finished(r, result[r])
  /\ IF result[r] = "completed" /\ Finished(r, result[r])[r].status = "completed"
       THEN /\ pub' = [run |-> r, at |-> "rename"]
            /\ pc' = [pc EXCEPT ![r] = "publishing"]
            /\ UNCHANGED <<turn, stage>>
       ELSE Discard(r) /\ EndTurn(r) /\ UNCHANGED pub
  /\ UNCHANGED <<job, result, base, gens, current, proc, sweep, todo, bounds>>

(* The end of publishState, in an executor or in reconcile().              *)
EndPublish ==
  /\ pub' = NoPub
  /\ IF turn = pub.run /\ sweep = "none" THEN EndTurn(turn) ELSE UNCHANGED <<pc, turn>>

PublishRename(r) ==
  /\ pub = [run |-> r, at |-> "rename"] /\ stage[r] = "sealed"
  /\ stage' = [stage EXCEPT ![r] = "none"]
  /\ gens' = gens \cup {r}
  /\ pub' = [pub EXCEPT !.at = "point"]
  /\ UNCHANGED <<job, rows, pc, result, base, current, proc, turn, sweep, todo, bounds>>

PublishPoint(r) ==
  /\ pub = [run |-> r, at |-> "point"]
  /\ current' = r
  /\ pub' = [pub EXCEPT !.at = "sweep"]
  /\ UNCHANGED <<job, rows, pc, result, stage, base, gens, proc, turn, sweep, todo, bounds>>

(* The other generations are removed as far as that works.                 *)
PublishSweep(r) ==
  /\ pub = [run |-> r, at |-> "sweep"]
  /\ gens' \in {{r}, gens}
  /\ EndPublish
  /\ UNCHANGED <<job, rows, result, stage, base, current, proc, sweep, todo, bounds>>

(* A quota, a missing READY or a write error: what is on disk stays.       *)
PublishFails(r) ==
  /\ pub.run = r /\ pub.at \in {"rename", "point"}
  /\ EndPublish
  /\ UNCHANGED <<job, rows, result, disk, proc, sweep, todo, bounds>>

---------------------------------------------------------------------------
(* Crash, start and reconciliation.                                        *)

Crash ==
  /\ proc # "down" /\ crashes < MaxCrashes
  /\ crashes' = crashes + 1
  /\ proc' = "down" /\ turn' = NoRun /\ sweep' = "none" /\ todo' = {} /\ pub' = NoPub
  /\ pc' = [r \in Runs |-> IF pc[r] = "done" THEN "done" ELSE "none"]
  /\ UNCHANGED <<job, rows, result, disk, purges>>

Stages == {r \in Runs : stage[r] # "none"}

(* start(): the commit of recoverProtectedAutomationRuns.                  *)
Boot ==
  /\ proc = "down"
  /\ proc' = "starting" /\ sweep' = "stages" /\ todo' = Stages
  /\ rows' = [r \in Runs |-> IF rows[r].kept /\ rows[r].status = "running"
                               THEN [rows[r] EXCEPT !.status = "interrupted"] ELSE rows[r]]
  /\ UNCHANGED <<job, pc, result, disk, turn, pub, bounds>>

(* commitPurge of another job reconciles the whole runtime root.           *)
PurgeOther ==
  /\ Idle /\ purges < MaxPurges
  /\ purges' = purges + 1
  /\ sweep' = "stages" /\ todo' = Stages
  /\ UNCHANGED <<job, rows, pc, result, disk, proc, turn, pub, crashes>>

(* reconcileRuntimeStorage: canPublish for a completed row.                *)
Publishable(r) == rows[r].kept /\ rows[r].status = "completed" /\ HandleCurrent(r)

(* Mutant of VisitStage: the authority of the row is not looked at.        *)
BugPublishStale(r) ==
  /\ sweep = "stages" /\ pub = NoPub /\ r \in todo
  /\ todo' = todo \ {r}
  /\ IF rows[r].kept /\ rows[r].status = "completed"
       THEN pub' = [run |-> r, at |-> "rename"] /\ UNCHANGED stage
       ELSE Discard(r) /\ UNCHANGED pub
  /\ UNCHANGED <<job, rows, pc, result, base, gens, current, proc, turn, sweep, bounds>>

(* A stage is published if its row is, or removed.                         *)
VisitStage(r) ==
  /\ sweep = "stages" /\ pub = NoPub /\ r \in todo
  /\ todo' = todo \ {r}
  /\ IF mode # "gone" /\ Publishable(r)
       THEN pub' = [run |-> r, at |-> "rename"] /\ UNCHANGED stage
       ELSE Discard(r) /\ UNCHANGED pub
  /\ UNCHANGED <<job, rows, pc, result, base, gens, current, proc, turn, sweep, bounds>>

(* Without CURRENT the generation of the latest publishable run is taken.  *)
(* The state directory of a job that is gone is removed.                   *)
ChooseGeneration ==
  /\ sweep = "stages" /\ pub = NoPub /\ todo = {}
  /\ sweep' = "rest"
  /\ LET candidates == {r \in gens : Publishable(r)} IN
     \/ /\ mode # "gone" /\ current = NoRun
        /\ \E r \in candidates : /\ \A q \in candidates : r >= q
                                 /\ pub' = [run |-> r, at |-> "point"]
        /\ UNCHANGED <<gens, current>>
     \/ /\ mode # "gone" /\ (current # NoRun \/ candidates = {})
        /\ UNCHANGED <<gens, current, pub>>
     \/ /\ mode = "gone"
        /\ gens' = {} /\ current' = NoRun
        /\ UNCHANGED pub
  /\ UNCHANGED <<job, rows, pc, result, stage, base, proc, turn, todo, bounds>>

(* Mutant of EndReconcile: a run that a crash left queued is not dispatched *)
BugQueuedForgotten ==
  /\ sweep = "rest" /\ pub = NoPub
  /\ gens' = IF current = NoRun THEN gens ELSE {current}
  /\ sweep' = "none" /\ proc' = "up"
  /\ UNCHANGED <<job, rows, pc, result, stage, base, current, turn, todo, pub, bounds>>

(* Every generation but the current one goes; start() then dispatches the  *)
(* queued run.                                                             *)
EndReconcile ==
  /\ sweep = "rest" /\ pub = NoPub
  /\ gens' = IF current = NoRun THEN gens ELSE {current}
  /\ sweep' = "none" /\ proc' = "up"
  /\ IF proc = "starting" /\ ActiveRuns # {}
       THEN \E r \in ActiveRuns : turn' = r /\ pc' = [pc EXCEPT ![r] = "claiming"]
       ELSE UNCHANGED <<turn, pc>>
  /\ UNCHANGED <<job, rows, result, stage, base, current, todo, pub, bounds>>

(* commitPurge of this job: the rows go in one commit; the cleanup of the  *)
(* same turn is the reconciliation.                                        *)
Purge ==
  /\ Idle /\ mode = "deleted"
  /\ ActiveRuns = {} /\ Executing = {}
  /\ mode' = "gone"
  /\ rows' = [r \in Runs |-> [rows[r] EXCEPT !.kept = FALSE]]
  /\ sweep' = "stages" /\ todo' = Stages
  /\ UNCHANGED <<rev, auth, pc, result, disk, proc, turn, pub, bounds>>

---------------------------------------------------------------------------
Executor(r) ==
  \/ Claim(r) \/ Prepare(r) \/ PrepareFails(r) \/ LeaseSettles(r) \/ DenyRun(r)
  \/ RunnerSettles(r) \/ LeaseClosed(r) \/ PersistFails(r) \/ Seal(r) \/ Commit(r)

Publication(r) == PublishRename(r) \/ PublishPoint(r) \/ PublishSweep(r) \/ PublishFails(r)

Reconciliation == (\E r \in Runs : VisitStage(r)) \/ ChooseGeneration \/ EndReconcile

Owner ==
  \/ UpdateJob \/ PauseJob \/ TombstoneJob \/ EnableJob \/ RebindJob \/ Purge
  \/ \E r \in Runs : Cancel(r) \/ Enqueue(r)

Next ==
  \/ Owner \/ Reconciliation \/ Crash \/ Boot \/ PurgeOther
  \/ \E to \in {"current", "drifted", "excluded"} : ChangePolicy(to)
  \/ \E r \in Runs : Executor(r) \/ Publication(r)

Spec == Init /\ [][Next]_vars

(* Synchronous steps follow each other, awaited leases and runners settle  *)
(* (the runner has a deadline), and a dead process is started again.       *)
FairSpec ==
  /\ Spec /\ WF_vars(Boot) /\ WF_vars(Reconciliation)
  /\ \A r \in Runs : WF_vars(Executor(r)) /\ WF_vars(Publication(r))

---------------------------------------------------------------------------
(* Properties.                                                             *)

RowType == [status : Ended \cup Active \cup {"none"}, rev : Nat, kept : BOOLEAN]

(* Types.                                                                  *)
TypeOK ==
  /\ mode \in {"enabled", "paused", "blocked", "deleted", "gone"}
  /\ rev \in Nat
  /\ auth \in {"current", "drifted", "excluded"}
  /\ rows \in [Runs -> RowType]
  /\ pc \in [Runs -> {"none", "claiming", "preparing", "leasing", "running", "denying",
                      "closing", "sealing", "committing", "publishing", "done"}]
  /\ result \in [Runs -> {"none", "completed", "failed"}]
  /\ stage \in [Runs -> {"none", "open", "sealed"}]
  /\ base \in [Runs -> Runs \cup {NoRun}]
  /\ gens \subseteq Runs /\ current \in Runs \cup {NoRun}
  /\ proc \in {"down", "starting", "up"}
  /\ turn \in Runs \cup {NoRun}
  /\ sweep \in {"none", "stages", "rest"} /\ todo \subseteq Runs
  /\ pub \in [run : Runs \cup {NoRun}, at : {"none", "rename", "point", "sweep"}]
  /\ crashes \in Nat /\ purges \in Nat

(* At most one run of the job is queued or running, over edits,            *)
(* cancellations of a run whose executor is still busy, and restarts.      *)
OneActive == Cardinality(ActiveRuns) <= 1

(* What is published, or would be taken for published after a crash at any *)
(* write, is the state of a run whose row was committed as completed.      *)
OnlyCommittedPublished ==
  \A r \in gens \cup ({current} \ {NoRun}) : rows[r].status = "completed"

(* CURRENT never dangles, whichever write a crash falls behind and         *)
(* whichever row the pruning of the history retires.                       *)
CurrentExists == current # NoRun => current \in gens

(* State becomes current only while the run's revision is the job's, the   *)
(* job is enabled and the pair is authorized: no revocation is outrun by   *)
(* an executor, and none is undone by a reconciliation.                    *)
PublicationAuthorized ==
  [][current' # current /\ current' # NoRun => HandleCurrent(current')]_vars

(* A running process replaces the published state only by state that was   *)
(* built on it: no update of another run is lost.                          *)
BuiltOnReplaced ==
  [][sweep = "none" /\ current' # current => base[current'] = current]_vars

(* A final row stays final; a late executor does not rewrite a             *)
(* cancellation.                                                           *)
FinalRows ==
  [][\A r \in Runs : rows[r].status \in Ended => rows'[r].status = rows[r].status]_vars

(* Every accepted run becomes final.                                       *)
RunsSettle == \A r \in Runs : rows[r].status \in Active ~> rows[r].status \in Ended

(* What the comments at manager.ts:330 and runtime-storage.ts:575 say: the *)
(* sealed state of a completed run that could not be published is kept for *)
(* the reconciliation of a later start while it is still publishable.      *)
SealedStateRetried ==
  [][\A r \in Runs :
       /\ Publishable(r) /\ (stage[r] = "sealed" \/ r \in gens)
       /\ current < r
       => stage'[r] = "sealed" \/ r \in gens' \/ current' > r]_vars

(* What docs/agents-and-project-settings.md:189 says: a purge removes the  *)
(* private state of the purged job.  So the stage of a running run of      *)
(* another job stays while its executor works on it.                       *)
RunningStageKept ==
  \A r \in Runs : pc[r] \in {"leasing", "running"} /\ rows[r].status = "running"
                  => stage[r] = "open"

(* Committed state that may still be published: a sealed stage, the run of *)
(* a publication under way, or, without CURRENT, a generation.             *)
Ready == IF mode = "gone" THEN {}
         ELSE {r \in Runs : /\ rows[r].status = "completed"
                            /\ \/ stage[r] = "sealed"
                               \/ pub.run = r /\ pub.at \in {"rename", "point"}
                               \/ current = NoRun /\ r \in gens}

State == INSTANCE PublishedState WITH
           serving <- proc = "up" /\ sweep = "none",
           valid <- {r \in Runs : HandleCurrent(r)},
           committed <- {r \in Runs : rows[r].status = "completed"},
           ready <- Ready,
           published <- current,
           purged <- mode = "gone"

(* The files and rows of the job implement a register that survives every  *)
(* crash: state is published at most once, under the authority of its run, *)
(* and in service only over the state that the run began with.             *)
ImplementsState == State!Spec
=============================================================================
