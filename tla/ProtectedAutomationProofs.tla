------------------------ MODULE ProtectedAutomationProofs ------------------------
(* Theorems about ProtectedAutomation, for any number of runs, edits,       *)
(* crashes and purges, and any length of the history.                      *)
EXTENDS ProtectedAutomation, TLAPS, FiniteSetTheorems

-----------------------------------------------------------------------------
(* The inductive invariant.                                                *)

InTurn == {"claiming", "preparing", "sealing", "committing", "publishing"}

\* Which executors may move, and when the process reconciles.
OneTurn ==
  /\ \A r \in Runs : pc[r] \in InTurn => turn = r
  /\ turn # NoRun => proc = "up" /\ sweep = "none" /\ pc[turn] \in InTurn
  /\ proc # "up" => \A r \in Runs : pc[r] \in {"none", "done"}
  /\ proc = "starting" <=> (proc # "up" /\ sweep # "none")
  /\ sweep # "stages" => todo = {}

\* The rows agree with the executors.
Lone == \A p, q \in ActiveRuns : p = q
RowsFollow ==
  /\ \A r \in Runs : pc[r] = "claiming" => r \in ActiveRuns /\ rows[r].status = "queued"
  /\ \A r \in Runs : pc[r] = "preparing" => rows[r].status = "running"
  /\ \A r \in Runs : pc[r] \in {"sealing", "committing"}
                      => rows[r].kept /\ rows[r].status = "running" /\ HandleCurrent(r)
  /\ \A r \in Runs : pc[r] \in {"closing", "sealing", "committing"}
                      => result[r] \in {"completed", "failed"}
  /\ \A r \in Runs : pc[r] = "committing" /\ result[r] = "completed" => stage[r] = "sealed"
  /\ proc = "starting" => \A r \in Runs : rows[r].kept => rows[r].status # "running"

\* What is being published was committed, is authorized, and replaces what it
\* was built on unless a reconciliation publishes it.
PublishingSound ==
  /\ pub = NoPub \/ (pub.run \in Runs /\ pub.at # "none")
  /\ pub # NoPub =>
       /\ rows[pub.run].status = "completed" /\ HandleCurrent(pub.run)
       /\ pub.at \in {"point", "sweep"} => pub.run \in gens
       /\ pub.at = "sweep" => current = pub.run
       /\ sweep = "none" => /\ turn = pub.run /\ pc[pub.run] = "publishing"
                            /\ ActiveRuns = {}
                            /\ pub.at # "sweep" => base[pub.run] = current
  /\ \A r \in Runs : pc[r] = "publishing" => pub.run = r

\* A running run builds on what is current; a reconciliation takes its stage
\* away.
StageIsCurrent ==
  \A r \in Runs :
     /\ pc[r] \in {"leasing", "running", "closing", "sealing", "committing"}
     /\ r \in ActiveRuns /\ stage[r] # "none"
     => IF sweep = "none" THEN base[r] = current ELSE r \in todo

\* A stage that became a generation is gone: it cannot be published again.
\* The stage of a completed run is sealed, and what reconcile() has still to
\* visit is there.
StageMoved ==
  /\ \A r \in gens : stage[r] = "none"
  /\ \A r \in Runs : rows[r].status = "completed" => stage[r] # "open"
  /\ \A r \in todo : stage[r] # "none" /\ pub.run # r

IInv ==
  /\ TypeOK /\ OneTurn /\ Lone /\ RowsFollow /\ PublishingSound /\ StageIsCurrent
  /\ OnlyCommittedPublished /\ CurrentExists /\ StageMoved

USE DEF IInv, OneTurn, Lone, RowsFollow, PublishingSound, StageIsCurrent,
        StageMoved, OnlyCommittedPublished, CurrentExists, InTurn, NoRun, Active, Ended

LEMMA RunsArePositive == /\ \A r \in Runs : r \in Nat /\ r # NoRun
                         /\ NoRun \notin Runs
BY BoundsAssumption DEF Runs

LEMMA NoPubFields == NoPub.run = NoRun /\ NoPub.at = "none"
BY DEF NoPub

LEMMA Initially == Init => IInv
BY RunsArePositive, NoPubFields DEF Init, TypeOK, RowType, ActiveRuns, Kept, NoPub, HandleCurrent

LEMMA FinishedRow ==
  ASSUME TypeOK, NEW r \in Runs, NEW s \in {"completed", "failed", "denied"}
  PROVE  /\ Finished(r, s) \in [Runs -> RowType]
         /\ \A q \in Runs : /\ Finished(r, s)[q].kept = rows[q].kept
                            /\ Finished(r, s)[q].rev = rows[q].rev
                            /\ q # r => Finished(r, s)[q] = rows[q]
         /\ ~ rows[r].kept \/ Finished(r, s)[r].status \in Ended
         /\ ~ rows[r].kept \/ rows[r].status \in Ended => Finished(r, s) = rows
         /\ rows[r].kept /\ rows[r].status \notin Ended =>
              Finished(r, s)[r].status = IF HandleCurrent(r) THEN s ELSE "denied"
<1>1. CASE ~ rows[r].kept \/ rows[r].status \in Ended
  BY <1>1 DEF Finished, TypeOK
<1>2. CASE rows[r].kept /\ rows[r].status \notin Ended
  <2>1. Finished(r, s) = [rows EXCEPT ![r].status = IF HandleCurrent(r) THEN s ELSE "denied"]
    BY <1>2 DEF Finished
  <2> QED BY <1>2, <2>1 DEF TypeOK, RowType
<1> QED BY <1>1, <1>2 DEF TypeOK, RowType

\* A row that pruning or a purge has dropped.
LEMMA DroppedRow ==
  ASSUME NEW x \in RowType
  PROVE  /\ [x EXCEPT !.kept = FALSE] \in RowType
         /\ [x EXCEPT !.kept = FALSE].status = x.status
         /\ [x EXCEPT !.kept = FALSE].rev = x.rev
         /\ [x EXCEPT !.kept = FALSE].kept = FALSE
BY Zenon DEF RowType

\* The storage of a run that pruning retires.
LEMMA RetiredRun ==
  ASSUME TypeOK, NEW q, RetireRun(q)
  PROVE  /\ stage' \in [Runs -> {"none", "open", "sealed"}] /\ gens' \subseteq gens
         /\ \A x \in Runs : stage'[x] \in {"none", stage[x]}
         /\ current \in gens => current \in gens'
<1>1. stage \in [Runs -> {"none", "open", "sealed"}] /\ stage' = [stage EXCEPT ![q] = "none"]
  BY DEF TypeOK, RetireRun, Discard
<1>2. gens' \subseteq gens /\ (current \in gens => current \in gens')
  BY DEF RetireRun
<1>3. /\ stage' \in [Runs -> {"none", "open", "sealed"}]
      /\ \A x \in Runs : stage'[x] \in {"none", stage[x]}
  BY <1>1
<1> QED BY <1>2, <1>3

LEMMA DisableKeeps ==
  ASSUME IInv, NEW to \in {"paused", "deleted"}, Disable(to)
  PROVE  IInv'
<1>1. TypeOK'
  BY RunsArePositive, NoPubFields DEF TypeOK, RowType, Disable, Cancelled, Idle, job, disk, process, bounds, NoPub
<1> QED BY <1>1, RunsArePositive, NoPubFields
        DEF TypeOK, RowType, ActiveRuns, Kept, HandleCurrent, Disable, Cancelled, Idle, job, disk, process, bounds, NoPub

LEMMA EnableJobKeeps ==
  ASSUME IInv, EnableJob
  PROVE  IInv'
<1>1. TypeOK'
  BY RunsArePositive, NoPubFields DEF TypeOK, RowType, EnableJob, Idle, job, disk, process, bounds, NoPub
<1> QED BY <1>1, RunsArePositive, NoPubFields
        DEF TypeOK, RowType, ActiveRuns, Kept, HandleCurrent, EnableJob, Idle, job, disk, process, bounds, NoPub

LEMMA RebindJobKeeps ==
  ASSUME IInv, RebindJob
  PROVE  IInv'
<1>1. TypeOK'
  <2>1. rows' \in [Runs -> RowType]
    BY DEF TypeOK, RowType, RebindJob, Cancelled
  <2> QED BY <2>1 DEF TypeOK, RebindJob, disk, process, bounds
<1> QED BY <1>1, RunsArePositive, NoPubFields
        DEF TypeOK, RowType, ActiveRuns, Kept, HandleCurrent, RebindJob, Cancelled, Idle, job, disk, process, bounds, NoPub

LEMMA ChangePolicyKeeps ==
  ASSUME IInv, NEW to \in {"current", "drifted", "excluded"}, ChangePolicy(to)
  PROVE  IInv'
<1>1. TypeOK'
  BY RunsArePositive, NoPubFields DEF TypeOK, RowType, ChangePolicy, Cancelled, Idle, job, disk, process, bounds, NoPub
<1> QED BY <1>1, RunsArePositive, NoPubFields
        DEF TypeOK, RowType, ActiveRuns, Kept, HandleCurrent, ChangePolicy, Cancelled, Idle, job, disk, process, bounds, NoPub

LEMMA CancelKeeps ==
  ASSUME IInv, NEW r \in Runs, Cancel(r)
  PROVE  IInv'
<1>1. TypeOK'
  BY RunsArePositive, NoPubFields DEF TypeOK, RowType, Cancel, Idle, job, disk, process, bounds, NoPub
<1> QED BY <1>1, RunsArePositive, NoPubFields
        DEF TypeOK, RowType, ActiveRuns, Kept, HandleCurrent, Cancel, Idle, job, disk, process, bounds, NoPub

LEMMA EnqueueKeeps ==
  ASSUME IInv, NEW r \in Runs, Enqueue(r)
  PROVE  IInv'
<1> DEFINE status == IF ActiveRuns = {} THEN "queued" ELSE "skipped"
<1>1. /\ proc = "up" /\ turn = NoRun /\ sweep = "none" /\ pub = NoPub /\ todo = {} /\ r # NoRun
      /\ rows[r].status = "none" /\ mode = "enabled" /\ auth = "current"
      /\ turn' = (IF status = "queued" THEN r ELSE NoRun)
      /\ pc' = [pc EXCEPT ![r] = IF status = "queued" THEN "claiming" ELSE "none"]
      /\ rows' = [q \in Runs |->
            IF q = r THEN [status |-> status, rev |-> rev, kept |-> TRUE]
            ELSE IF q \in Pruned THEN [rows[q] EXCEPT !.kept = FALSE] ELSE rows[q]]
      /\ UNCHANGED <<job, result, base, current, proc, sweep, todo, pub, bounds>>
  BY RunsArePositive DEF Enqueue, Idle, NextRun
<1>2. /\ stage' \in [Runs -> {"none", "open", "sealed"}] /\ gens' \subseteq gens
      /\ \A q \in Runs : stage'[q] \in {"none", stage[q]}
      /\ current \in gens => current \in gens'
  <2>1. CASE UNCHANGED <<stage, gens>>
    BY <2>1 DEF TypeOK
  <2>2. ASSUME NEW q \in Pruned, RetireRun(q)
        PROVE  /\ stage' \in [Runs -> {"none", "open", "sealed"}] /\ gens' \subseteq gens
               /\ \A x \in Runs : stage'[x] \in {"none", stage[x]}
               /\ current \in gens => current \in gens'
    BY <2>2, RetiredRun
  <2> QED BY <2>1, <2>2 DEF Enqueue
<1>3. \A q \in Pruned : q \in Runs /\ rows[q].kept /\ rows[q].status \in Ended
  BY DEF Pruned, Kept
<1>s. status \in {"queued", "skipped"}
  OBVIOUS
<1>4. /\ rows' \in [Runs -> RowType]
      /\ \A q \in Runs : q # r => rows'[q].status = rows[q].status /\ rows'[q].rev = rows[q].rev
                                 /\ (rows'[q].kept => rows[q].kept)
                                 /\ (rows[q].status \notin Ended => rows'[q].kept = rows[q].kept)
      /\ rows'[r].status = status /\ rows'[r].kept
  <2> HIDE DEF status
  <2>1. ASSUME NEW q \in Runs, q # r
        PROVE  /\ rows'[q] \in RowType
               /\ rows'[q].status = rows[q].status /\ rows'[q].rev = rows[q].rev
               /\ (rows'[q].kept => rows[q].kept)
               /\ (rows[q].status \notin Ended => rows'[q].kept = rows[q].kept)
    <3>1. rows[q] \in RowType
      BY DEF TypeOK
    <3>2. CASE q \in Pruned
      <4>1. rows'[q] = [rows[q] EXCEPT !.kept = FALSE]
        BY <1>1, <2>1, <3>2
      <4>2. /\ rows'[q] \in RowType /\ rows'[q].kept = FALSE
            /\ rows'[q].status = rows[q].status /\ rows'[q].rev = rows[q].rev
        BY <3>1, <4>1, DroppedRow
      <4>3. rows[q].status \in Ended
        BY <1>3, <3>2
      <4> QED BY <4>2, <4>3
    <3>3. CASE q \notin Pruned
      <4>1. rows'[q] = rows[q]
        BY <1>1, <2>1, <3>3
      <4> QED BY <3>1, <4>1
    <3> QED BY <3>2, <3>3
  <2>2. rows'[r] = [status |-> status, rev |-> rev, kept |-> TRUE]
    BY <1>1
  <2>3. rows'[r] \in RowType
    BY <1>s, <2>2 DEF TypeOK, RowType
  <2>4. DOMAIN rows' = Runs /\ rows' = [q \in Runs |-> rows'[q]]
    BY <1>1
  <2>5. \A q \in Runs : rows'[q] \in RowType
    BY <2>1, <2>3
  <2>6. rows' \in [Runs -> RowType]
    BY <2>4, <2>5
  <2> QED BY <2>1, <2>2, <2>6
<1>5. r \notin ActiveRuns /\ pc[r] \notin InTurn
  BY <1>1 DEF ActiveRuns
<1>6. \A q \in Runs : q # r => (q \in ActiveRuns' <=> q \in ActiveRuns)
  BY <1>4 DEF ActiveRuns, Kept
<1>7. \A q \in Runs : pc[q] \notin InTurn
  BY <1>1, RunsArePositive
<1>8. TypeOK'
  BY <1>1, <1>2, <1>4 DEF TypeOK, job, bounds
<1>9. CASE ActiveRuns = {}
  <2>1. /\ status = "queued" /\ turn' = r /\ ActiveRuns' = {r}
        /\ pc' = [pc EXCEPT ![r] = "claiming"] /\ rows'[r].status = "queued"
    BY <1>1, <1>4, <1>6, <1>9 DEF ActiveRuns, Kept
  <2> HIDE DEF status
  <2>2. OneTurn'
    BY <1>1, <1>7, <2>1 DEF TypeOK
  <2>3. RowsFollow'
    BY <1>1, <1>4, <1>7, <2>1 DEF TypeOK
  <2>4. PublishingSound'
    BY <1>1, <1>7, <2>1, NoPubFields DEF TypeOK
  <2>5. StageIsCurrent'
    BY <1>1, <1>7, <2>1 DEF TypeOK
  <2>6. OnlyCommittedPublished' /\ CurrentExists'
    BY <1>1, <1>2, <1>4 DEF TypeOK
  <2>8. StageMoved'
    <3>1. \A q \in gens' : stage'[q] = "none"
      BY <1>2 DEF TypeOK
    <3>2. ASSUME NEW q \in Runs, rows'[q].status = "completed" PROVE stage'[q] # "open"
      <4>1. q # r /\ rows[q].status = "completed"
        BY <1>4, <2>1, <3>2
      <4> QED BY <1>2, <4>1 DEF TypeOK
    <3> QED BY <1>1, <3>1, <3>2
  <2> QED BY <1>8, <2>1, <2>2, <2>3, <2>4, <2>5, <2>6, <2>8
<1>10. CASE ActiveRuns # {}
  <2>1. /\ status = "skipped" /\ turn' = NoRun
        /\ pc' = [pc EXCEPT ![r] = "none"] /\ rows'[r].status = "skipped"
    BY <1>1, <1>4, <1>10
  <2> HIDE DEF status
  <2>a. r \notin ActiveRuns'
    BY <2>1 DEF ActiveRuns
  <2>b. \A q : q \in ActiveRuns' <=> q \in ActiveRuns
    <3>1. \A q \in ActiveRuns : q \in Runs
      BY DEF ActiveRuns, Kept
    <3>2. \A q \in ActiveRuns' : q \in Runs
      BY DEF ActiveRuns, Kept
    <3> QED BY <3>1, <3>2, <1>5, <1>6, <2>a
  <2>2. OneTurn'
    BY <1>1, <1>7, <2>1 DEF TypeOK
  <2>3. RowsFollow'
    BY <1>1, <1>4, <1>7, <2>1 DEF TypeOK
  <2>4. PublishingSound'
    BY <1>1, <1>7, <2>1, NoPubFields DEF TypeOK
  <2>5. StageIsCurrent'
    BY <1>1, <1>2, <1>7, <2>1, <2>b DEF TypeOK
  <2>6. OnlyCommittedPublished' /\ CurrentExists'
    BY <1>1, <1>2, <1>4 DEF TypeOK
  <2>8. StageMoved'
    <3>1. \A q \in gens' : stage'[q] = "none"
      BY <1>2 DEF TypeOK
    <3>2. ASSUME NEW q \in Runs, rows'[q].status = "completed" PROVE stage'[q] # "open"
      <4>1. q # r /\ rows[q].status = "completed"
        BY <1>4, <2>1, <3>2
      <4> QED BY <1>2, <4>1 DEF TypeOK
    <3> QED BY <1>1, <3>1, <3>2
  <2>7. Lone'
    BY <2>b
  <2> QED BY <1>8, <2>2, <2>3, <2>4, <2>5, <2>6, <2>7, <2>8
<1> QED BY <1>9, <1>10

LEMMA ClaimKeeps ==
  ASSUME IInv, NEW r \in Runs, Claim(r)
  PROVE  IInv'
<1>1. /\ turn = r /\ pc[r] = "claiming" /\ r \in ActiveRuns /\ r # NoRun /\ proc = "up"
      /\ sweep = "none" /\ pub = NoPub
      /\ UNCHANGED <<job, result, disk, proc, sweep, todo, pub, bounds>>
  BY RunsArePositive, NoPubFields DEF Claim
<1>2. CASE HandleCurrent(r)
  <2>1. /\ rows' = [rows EXCEPT ![r].status = "running"]
        /\ pc' = [pc EXCEPT ![r] = "preparing"] /\ turn' = turn
    BY <1>2 DEF Claim
  <2>2. TypeOK'
    BY <1>1, <2>1 DEF TypeOK, RowType, job, disk, bounds
  <2> QED BY <1>1, <2>1, <2>2, RunsArePositive
          DEF TypeOK, RowType, ActiveRuns, Kept, HandleCurrent, job, disk, bounds
<1>3. CASE ~ HandleCurrent(r)
  <2>1. /\ rows' = [rows EXCEPT ![r].status = "denied"]
        /\ pc' = [pc EXCEPT ![r] = "done"] /\ turn' = NoRun
    BY <1>3 DEF Claim, EndTurn
  <2>2. TypeOK'
    BY <1>1, <2>1 DEF TypeOK, RowType, job, disk, bounds
  <2> QED BY <1>1, <2>1, <2>2, RunsArePositive
          DEF TypeOK, RowType, ActiveRuns, Kept, HandleCurrent, job, disk, bounds
<1> QED BY <1>2, <1>3

LEMMA PrepareKeeps ==
  ASSUME IInv, NEW r \in Runs, Prepare(r)
  PROVE  IInv'
<1>1. TypeOK'
  BY RunsArePositive, NoPubFields DEF TypeOK, RowType, Prepare, Finished, RetireRun, Discard, EndTurn, Idle, job, disk, process, bounds, NoPub
<1> QED BY <1>1, RunsArePositive, NoPubFields
        DEF TypeOK, RowType, ActiveRuns, Kept, HandleCurrent, Prepare, Finished, RetireRun, Discard, EndTurn, Idle, job, disk, process, bounds, NoPub

LEMMA PrepareFailsKeeps ==
  ASSUME IInv, NEW r \in Runs, PrepareFails(r)
  PROVE  IInv'
<1>1. TypeOK'
  BY RunsArePositive, NoPubFields DEF TypeOK, RowType, PrepareFails, Finished, RetireRun, Discard, EndTurn, Idle, job, disk, process, bounds, NoPub
<1> QED BY <1>1, RunsArePositive, NoPubFields
        DEF TypeOK, RowType, ActiveRuns, Kept, HandleCurrent, PrepareFails, Finished, RetireRun, Discard, EndTurn, Idle, job, disk, process, bounds, NoPub

LEMMA LeaseSettlesKeeps ==
  ASSUME IInv, NEW r \in Runs, LeaseSettles(r)
  PROVE  IInv'
<1>1. TypeOK'
  BY RunsArePositive, NoPubFields DEF TypeOK, RowType, LeaseSettles, Finished, RetireRun, Discard, EndTurn, Idle, job, disk, process, bounds, NoPub
<1> QED BY <1>1, RunsArePositive, NoPubFields
        DEF TypeOK, RowType, ActiveRuns, Kept, HandleCurrent, LeaseSettles, Finished, RetireRun, Discard, EndTurn, Idle, job, disk, process, bounds, NoPub

LEMMA DenyRunKeeps ==
  ASSUME IInv, NEW r \in Runs, DenyRun(r)
  PROVE  IInv'
<1>1. TypeOK'
  BY RunsArePositive, NoPubFields DEF TypeOK, RowType, DenyRun, Finished, RetireRun, Discard, EndTurn, Idle, job, disk, process, bounds, NoPub
<1> QED BY <1>1, RunsArePositive, NoPubFields
        DEF TypeOK, RowType, ActiveRuns, Kept, HandleCurrent, DenyRun, Finished, RetireRun, Discard, EndTurn, Idle, job, disk, process, bounds, NoPub

LEMMA RunnerSettlesKeeps ==
  ASSUME IInv, NEW r \in Runs, RunnerSettles(r)
  PROVE  IInv'
<1>1. TypeOK'
  BY RunsArePositive, NoPubFields DEF TypeOK, RowType, RunnerSettles, Finished, RetireRun, Discard, EndTurn, Idle, job, disk, process, bounds, NoPub
<1> QED BY <1>1, RunsArePositive, NoPubFields
        DEF TypeOK, RowType, ActiveRuns, Kept, HandleCurrent, RunnerSettles, Finished, RetireRun, Discard, EndTurn, Idle, job, disk, process, bounds, NoPub

LEMMA LeaseClosedKeeps ==
  ASSUME IInv, NEW r \in Runs, LeaseClosed(r)
  PROVE  IInv'
<1>1. /\ turn = NoRun /\ pc[r] = "closing" /\ pub = NoPub /\ r # NoRun
      /\ proc = "up" /\ sweep = "none" /\ todo = {}
      /\ UNCHANGED <<job, result, base, gens, current, proc, sweep, todo, pub, bounds>>
  BY RunsArePositive DEF LeaseClosed, Idle
<1>2. CASE rows[r].kept /\ rows[r].status = "running" /\ HandleCurrent(r)
  <2>1. /\ pc' = [pc EXCEPT ![r] = "sealing"] /\ turn' = r /\ UNCHANGED <<rows, stage>>
    BY <1>2 DEF LeaseClosed
  <2>2. TypeOK'
    BY <1>1, <2>1 DEF TypeOK, job, bounds
  <2>3. OneTurn'
    BY <1>1, <2>1, RunsArePositive DEF TypeOK
  <2>4. RowsFollow'
    BY <1>1, <1>2, <2>1, RunsArePositive DEF TypeOK, ActiveRuns, Kept, HandleCurrent, job
  <2>5. PublishingSound'
    BY <1>1, <2>1, RunsArePositive DEF TypeOK
  <2>6. StageIsCurrent'
    BY <1>1, <2>1 DEF TypeOK, ActiveRuns, Kept
  <2> QED BY <1>1, <2>1, <2>2, <2>3, <2>4, <2>5, <2>6 DEF ActiveRuns, Kept
<1>3. CASE ~ (rows[r].kept /\ rows[r].status = "running" /\ HandleCurrent(r))
  <2>1. /\ rows' = Finished(r, "denied") /\ pc' = [pc EXCEPT ![r] = "done"] /\ turn' = NoRun
        /\ stage' = [stage EXCEPT ![r] = "none"]
    BY <1>3 DEF LeaseClosed, EndTurn, Discard
  <2>2. /\ rows' \in [Runs -> RowType]
        /\ \A q \in Runs : rows'[q].kept = rows[q].kept /\ rows'[q].rev = rows[q].rev
        /\ \A q \in Runs : q # r => rows'[q] = rows[q]
        /\ rows'[r].status = rows[r].status \/ (rows[r].status \notin Ended /\ rows'[r].status \in Ended)
    BY <2>1, FinishedRow
  <2>3. TypeOK'
    BY <1>1, <2>1, <2>2 DEF TypeOK, job, bounds
  <2> QED BY <1>1, <2>1, <2>2, <2>3 DEF TypeOK, ActiveRuns, Kept, HandleCurrent, job, bounds
<1> QED BY <1>2, <1>3

LEMMA PersistFailsKeeps ==
  ASSUME IInv, NEW r \in Runs, PersistFails(r)
  PROVE  IInv'
<1>1. TypeOK'
  BY RunsArePositive, NoPubFields DEF TypeOK, RowType, PersistFails, Finished, RetireRun, Discard, EndTurn, Idle, job, disk, process, bounds, NoPub
<1> QED BY <1>1, RunsArePositive, NoPubFields
        DEF TypeOK, RowType, ActiveRuns, Kept, HandleCurrent, PersistFails, Finished, RetireRun, Discard, EndTurn, Idle, job, disk, process, bounds, NoPub

LEMMA SealKeeps ==
  ASSUME IInv, NEW r \in Runs, Seal(r)
  PROVE  IInv'
<1>1. TypeOK'
  BY RunsArePositive, NoPubFields DEF TypeOK, RowType, Seal, Finished, RetireRun, Discard, EndTurn, Idle, job, disk, process, bounds, NoPub
<1> QED BY <1>1, RunsArePositive, NoPubFields
        DEF TypeOK, RowType, ActiveRuns, Kept, HandleCurrent, Seal, Finished, RetireRun, Discard, EndTurn, Idle, job, disk, process, bounds, NoPub

LEMMA CommitKeeps ==
  ASSUME IInv, NEW r \in Runs, Commit(r)
  PROVE  IInv'
<1>1. /\ turn = r /\ pc[r] = "committing" /\ pub = NoPub /\ r # NoRun
      /\ proc = "up" /\ sweep = "none" /\ todo = {}
      /\ rows[r].kept /\ rows[r].status = "running" /\ HandleCurrent(r) /\ r \in ActiveRuns
      /\ rows' = Finished(r, result[r])
      /\ UNCHANGED <<job, result, base, gens, current, proc, sweep, todo, bounds>>
  BY RunsArePositive DEF Commit, ActiveRuns, Kept
<1>2. result[r] \in {"completed", "failed"}
  BY <1>1 DEF TypeOK
<1>3. /\ rows' \in [Runs -> RowType]
      /\ \A q \in Runs : rows'[q].kept = rows[q].kept /\ rows'[q].rev = rows[q].rev
      /\ \A q \in Runs : q # r => rows'[q] = rows[q]
      /\ rows'[r].status = result[r]
  BY <1>1, <1>2, FinishedRow
<1>4. ActiveRuns' = {}
  BY <1>1, <1>2, <1>3 DEF ActiveRuns, Kept
<1>5. \A q \in Runs : pc[q] \in InTurn => q = r
  BY <1>1
<1>6. CASE result[r] = "completed"
  <2>1. /\ pub' = [run |-> r, at |-> "rename"] /\ pc' = [pc EXCEPT ![r] = "publishing"]
        /\ UNCHANGED <<turn, stage>>
    BY <1>1, <1>3, <1>6 DEF Commit
  <2>2. pub'.run = r /\ pub'.at = "rename" /\ pub' # NoPub
    BY <1>1, <2>1, NoPubFields
  <2>3. TypeOK'
    BY <1>1, <1>3, <2>1 DEF TypeOK, job, bounds
  <2>4. HandleCurrent(r)' /\ base[r] = current
    BY <1>1, <1>3, <1>6 DEF HandleCurrent, job
  <2>5. PublishingSound'
    BY <1>1, <1>3, <1>4, <1>5, <1>6, <2>1, <2>2, <2>4 DEF TypeOK
  <2> QED BY <1>1, <1>3, <1>4, <1>5, <2>1, <2>3, <2>5 DEF TypeOK
<1>7. CASE result[r] # "completed"
  <2>1. /\ pub' = pub /\ pc' = [pc EXCEPT ![r] = "done"] /\ turn' = NoRun
        /\ stage' = [stage EXCEPT ![r] = "none"]
    BY <1>1, <1>7 DEF Commit, EndTurn, Discard
  <2>2. TypeOK'
    BY <1>1, <1>3, <2>1 DEF TypeOK, job, bounds
  <2> QED BY <1>1, <1>3, <1>4, <1>5, <2>1, <2>2 DEF TypeOK
<1> QED BY <1>6, <1>7

LEMMA PublishRenameKeeps ==
  ASSUME IInv, NEW r \in Runs, PublishRename(r)
  PROVE  IInv'
<1>1. TypeOK'
  BY RunsArePositive, NoPubFields DEF TypeOK, RowType, PublishRename, EndPublish, EndTurn, Discard, Publishable, Idle, job, disk, process, bounds, NoPub
<1> QED BY <1>1, RunsArePositive, NoPubFields
        DEF TypeOK, RowType, ActiveRuns, Kept, HandleCurrent, PublishRename, EndPublish, EndTurn, Discard, Publishable, Idle, job, disk, process, bounds, NoPub

LEMMA PublishPointKeeps ==
  ASSUME IInv, NEW r \in Runs, PublishPoint(r)
  PROVE  IInv'
<1>1. /\ pub = [run |-> r, at |-> "point"] /\ current' = r /\ r # NoRun
      /\ pub' = [run |-> r, at |-> "sweep"] /\ pub.run = r /\ pub.at = "point" /\ pub # NoPub
      /\ pub'.run = r /\ pub'.at = "sweep"
      /\ UNCHANGED <<job, rows, pc, result, stage, base, gens, proc, turn, sweep, todo, bounds>>
  BY RunsArePositive, NoPubFields DEF PublishPoint
<1>2. TypeOK'
  BY <1>1 DEF TypeOK, job, bounds
<1>3. PublishingSound'
  BY <1>1 DEF HandleCurrent, job, ActiveRuns, Kept
<1>4. StageIsCurrent'
  <2>1. CASE sweep = "none"
    BY <1>1, <2>1 DEF ActiveRuns, Kept
  <2>2. CASE sweep # "none"
    BY <1>1, <2>2 DEF ActiveRuns, Kept
  <2> QED BY <2>1, <2>2
<1> QED BY <1>1, <1>2, <1>3, <1>4 DEF HandleCurrent, job, ActiveRuns, Kept, Lone, RowsFollow

LEMMA PublishSweepKeeps ==
  ASSUME IInv, NEW r \in Runs, PublishSweep(r)
  PROVE  IInv'
<1>1. /\ pub.run = r /\ r # NoRun /\ pub # NoPub /\ pub' = NoPub
      /\ current = r /\ r \in gens /\ gens' \subseteq gens /\ r \in gens'
      /\ UNCHANGED <<job, rows, result, stage, base, current, proc, sweep, todo, bounds>>
  BY RunsArePositive, NoPubFields DEF PublishSweep, EndPublish, TypeOK
<1>2. CASE turn = r /\ sweep = "none"
  <2>1. pc' = [pc EXCEPT ![r] = "done"] /\ turn' = NoRun
    BY <1>1, <1>2 DEF PublishSweep, EndPublish, EndTurn
  <2> QED BY <1>1, <1>2, <2>1, RunsArePositive
          DEF TypeOK, ActiveRuns, Kept, HandleCurrent, job, bounds, NoPub
<1>3. CASE ~ (turn = r /\ sweep = "none")
  <2>1. UNCHANGED <<pc, turn>>
    BY <1>1, <1>3 DEF PublishSweep, EndPublish
  <2> QED BY <1>1, <1>3, <2>1, RunsArePositive
          DEF TypeOK, ActiveRuns, Kept, HandleCurrent, job, bounds, NoPub
<1> QED BY <1>2, <1>3

LEMMA PublishFailsKeeps ==
  ASSUME IInv, NEW r \in Runs, PublishFails(r)
  PROVE  IInv'
<1>1. /\ pub.run = r /\ r # NoRun /\ pub # NoPub /\ pub' = NoPub
      /\ UNCHANGED <<job, rows, result, disk, proc, sweep, todo, bounds>>
  BY RunsArePositive, NoPubFields DEF PublishFails, EndPublish
<1>2. CASE turn = r /\ sweep = "none"
  <2>1. pc' = [pc EXCEPT ![r] = "done"] /\ turn' = NoRun
    BY <1>1, <1>2 DEF PublishFails, EndPublish, EndTurn
  <2> QED BY <1>1, <1>2, <2>1, RunsArePositive
          DEF TypeOK, ActiveRuns, Kept, HandleCurrent, job, disk, bounds, NoPub
<1>3. CASE ~ (turn = r /\ sweep = "none")
  <2>1. UNCHANGED <<pc, turn>>
    BY <1>1, <1>3 DEF PublishFails, EndPublish
  <2> QED BY <1>1, <1>3, <2>1, RunsArePositive
          DEF TypeOK, ActiveRuns, Kept, HandleCurrent, job, disk, bounds, NoPub
<1> QED BY <1>2, <1>3

LEMMA VisitStageKeeps ==
  ASSUME IInv, NEW r \in Runs, VisitStage(r)
  PROVE  IInv'
<1>1. TypeOK'
  BY RunsArePositive, NoPubFields DEF TypeOK, RowType, VisitStage, EndPublish, EndTurn, Discard, Publishable, Idle, job, disk, process, bounds, NoPub
<1> QED BY <1>1, RunsArePositive, NoPubFields
        DEF TypeOK, RowType, ActiveRuns, Kept, HandleCurrent, VisitStage, EndPublish, EndTurn, Discard, Publishable, Idle, job, disk, process, bounds, NoPub

LEMMA ChooseGenerationKeeps ==
  ASSUME IInv, ChooseGeneration
  PROVE  IInv'
<1>1. /\ sweep = "stages" /\ pub = NoPub /\ todo = {} /\ sweep' = "rest" /\ turn = NoRun
      /\ UNCHANGED <<job, rows, pc, result, stage, base, proc, turn, todo, bounds>>
  BY DEF ChooseGeneration
<1>2. CASE UNCHANGED <<gens, current, pub>>
  BY <1>1, <1>2
     DEF TypeOK, ActiveRuns, Kept, HandleCurrent, job, bounds
<1>3. CASE gens' = {} /\ current' = NoRun /\ UNCHANGED pub
  <2>1. TypeOK'
    BY <1>1, <1>3 DEF TypeOK, job, bounds
  <2>2. PublishingSound' /\ OneTurn'
    BY <1>1, <1>3, RunsArePositive, NoPubFields DEF HandleCurrent, job, bounds
  <2> QED BY <1>1, <1>3, <2>1, <2>2 DEF ActiveRuns, Kept, HandleCurrent, job, bounds
<1>4. ASSUME NEW r \in gens, Publishable(r), pub' = [run |-> r, at |-> "point"],
             UNCHANGED <<gens, current>>
      PROVE  IInv'
  <2>1. /\ r \in Runs /\ pub'.run = r /\ pub'.at = "point" /\ pub' # NoPub
        /\ rows[r].status = "completed" /\ HandleCurrent(r)
    BY <1>4, RunsArePositive, NoPubFields DEF TypeOK, Publishable
  <2>2. \A q \in Runs : pc[q] # "publishing"
    BY <1>1, RunsArePositive
  <2>3. TypeOK'
    BY <1>1, <1>4, <2>1 DEF TypeOK, job, bounds
  <2> QED BY <1>1, <1>4, <2>1, <2>2, <2>3 DEF ActiveRuns, Kept, HandleCurrent, job, bounds
<1> QED BY <1>2, <1>3, <1>4 DEF ChooseGeneration

LEMMA EndReconcileKeeps ==
  ASSUME IInv, EndReconcile
  PROVE  IInv'
<1>1. /\ sweep = "rest" /\ pub = NoPub /\ sweep' = "none" /\ proc' = "up" /\ turn = NoRun
      /\ gens' = IF current = NoRun THEN gens ELSE {current}
      /\ todo = {} /\ proc \in {"starting", "up"}
      /\ UNCHANGED <<job, rows, result, stage, base, current, todo, pub, bounds>>
  BY DEF EndReconcile, TypeOK
<1>2. gens' \subseteq gens /\ (current # NoRun => current \in gens')
  BY <1>1
<1>3. CASE UNCHANGED <<turn, pc>>
  <2>1. TypeOK'
    BY <1>1, <1>2, <1>3 DEF TypeOK, job, bounds
  <2> QED BY <1>1, <1>2, <1>3, <2>1, NoPubFields DEF ActiveRuns, Kept, HandleCurrent, job, bounds
<1>4. ASSUME NEW r \in ActiveRuns, proc = "starting", turn' = r,
             pc' = [pc EXCEPT ![r] = "claiming"]
      PROVE  IInv'
  <2>1. /\ r \in Runs /\ r # NoRun /\ rows[r].status = "queued"
        /\ \A q \in Runs : pc[q] \in {"none", "done"}
    BY <1>4, RunsArePositive DEF ActiveRuns, Kept
  <2>2. TypeOK'
    BY <1>1, <1>2, <1>4, <2>1 DEF TypeOK, job, bounds
  <2> QED BY <1>1, <1>2, <1>4, <2>1, <2>2, NoPubFields
          DEF TypeOK, ActiveRuns, Kept, HandleCurrent, job, bounds
<1> QED BY <1>3, <1>4 DEF EndReconcile

LEMMA CrashKeeps ==
  ASSUME IInv, Crash
  PROVE  IInv'
<1>1. TypeOK'
  BY RunsArePositive, NoPubFields DEF TypeOK, RowType, Crash, Stages, Publishable, Executing, Idle, job, disk, process, bounds, NoPub
<1> QED BY <1>1, RunsArePositive, NoPubFields
        DEF TypeOK, RowType, ActiveRuns, Kept, HandleCurrent, Crash, Stages, Publishable, Executing, Idle, job, disk, process, bounds, NoPub

LEMMA BootKeeps ==
  ASSUME IInv, Boot
  PROVE  IInv'
<1>1. TypeOK'
  BY RunsArePositive, NoPubFields DEF TypeOK, RowType, Boot, Stages, Publishable, Executing, Idle, job, disk, process, bounds, NoPub
<1> QED BY <1>1, RunsArePositive, NoPubFields
        DEF TypeOK, RowType, ActiveRuns, Kept, HandleCurrent, Boot, Stages, Publishable, Executing, Idle, job, disk, process, bounds, NoPub

LEMMA PurgeOtherKeeps ==
  ASSUME IInv, PurgeOther
  PROVE  IInv'
<1>1. TypeOK'
  BY RunsArePositive, NoPubFields DEF TypeOK, RowType, PurgeOther, Stages, Publishable, Executing, Idle, job, disk, process, bounds, NoPub
<1> QED BY <1>1, RunsArePositive, NoPubFields
        DEF TypeOK, RowType, ActiveRuns, Kept, HandleCurrent, PurgeOther, Stages, Publishable, Executing, Idle, job, disk, process, bounds, NoPub

LEMMA PurgeKeeps ==
  ASSUME IInv, Purge
  PROVE  IInv'
<1>1. /\ rows' \in [Runs -> RowType]
      /\ \A r \in Runs : /\ rows'[r].status = rows[r].status /\ rows'[r].rev = rows[r].rev
                         /\ rows'[r].kept = FALSE
  <2>1. rows' = [r \in Runs |-> [rows[r] EXCEPT !.kept = FALSE]]
    BY DEF Purge
  <2>2. \A r \in Runs : rows[r] \in RowType
    BY DEF TypeOK
  <2> QED BY <2>1, <2>2, DroppedRow
<1>2. /\ proc = "up" /\ turn = NoRun /\ sweep = "none" /\ pub = NoPub /\ ActiveRuns = {}
      /\ \A r \in Runs : pc[r] \in {"none", "done"}
      /\ mode' = "gone" /\ sweep' = "stages" /\ todo' \subseteq Runs
      /\ \A r \in todo' : stage[r] # "none"
      /\ UNCHANGED <<rev, auth, pc, result, disk, proc, turn, pub, bounds>>
  BY RunsArePositive, NoPubFields DEF Purge, Idle, Executing, Stages
<1>3. TypeOK'
  BY <1>1, <1>2 DEF TypeOK, disk, bounds
<1>4. ActiveRuns' = {}
  BY <1>1 DEF ActiveRuns, Kept
<1> QED BY <1>1, <1>2, <1>3, <1>4, RunsArePositive, NoPubFields DEF TypeOK, disk, bounds

-----------------------------------------------------------------------------
(* Every step keeps the invariant.                                         *)

LEMMA StepKeeps ==
  ASSUME IInv, [Next]_vars
  PROVE  IInv'
<1>1. CASE UNCHANGED vars
  BY <1>1 DEF vars, job, disk, process, bounds, TypeOK, ActiveRuns, Kept, HandleCurrent
<1>2. CASE Owner
  BY <1>2, DisableKeeps, EnableJobKeeps, RebindJobKeeps, PurgeKeeps, CancelKeeps, EnqueueKeeps
     DEF Owner, UpdateJob, PauseJob, TombstoneJob
<1>3. CASE Reconciliation
  BY <1>3, VisitStageKeeps, ChooseGenerationKeeps, EndReconcileKeeps DEF Reconciliation
<1>4. ASSUME NEW r \in Runs, Executor(r)
      PROVE  IInv'
  BY <1>4, ClaimKeeps, PrepareKeeps, PrepareFailsKeeps, LeaseSettlesKeeps, DenyRunKeeps,
     RunnerSettlesKeeps, LeaseClosedKeeps, PersistFailsKeeps, SealKeeps, CommitKeeps DEF Executor
<1>5. ASSUME NEW r \in Runs, Publication(r)
      PROVE  IInv'
  BY <1>5, PublishRenameKeeps, PublishPointKeeps, PublishSweepKeeps, PublishFailsKeeps
     DEF Publication
<1> QED BY <1>1, <1>2, <1>3, <1>4, <1>5, CrashKeeps, BootKeeps, PurgeOtherKeeps,
           ChangePolicyKeeps DEF Next

HIDE DEF IInv, OneTurn, Lone, RowsFollow, PublishingSound, StageIsCurrent,
         StageMoved, OnlyCommittedPublished, CurrentExists

LEMMA Invariant == Spec => []IInv
<1>1. Init => IInv
  BY Initially
<1>2. IInv /\ [Next]_vars => IInv'
  BY StepKeeps
<1> QED BY <1>1, <1>2, PTL DEF Spec

-----------------------------------------------------------------------------
(* The refinement of PublishedState.                                       *)

Serving == proc = "up" /\ sweep = "none"
Valid == {r \in Runs : HandleCurrent(r)}
Completed == {r \in Runs : rows[r].status = "completed"}

\* The abstract steps in the terms of the model.
LEMMA StateTerms ==
  /\ State!Disturb <=> /\ Serving' \in BOOLEAN /\ Valid' \subseteq Runs /\ Ready' \subseteq Ready
                       /\ base' = base /\ Completed' = Completed
                       /\ current' = current /\ (mode = "gone")' = (mode = "gone")
  /\ \A r : State!Begin(r) <=>
       /\ Serving /\ r \notin Completed
       /\ base' = [base EXCEPT ![r] = current]
       /\ Serving' = Serving /\ Valid' = Valid /\ Completed' = Completed /\ Ready' = Ready
       /\ current' = current /\ (mode = "gone")' = (mode = "gone")
  /\ \A r : State!Commit(r) <=>
       /\ Serving /\ r \in Valid \ Completed /\ base[r] = current
       /\ Completed' = Completed \union {r} /\ Ready' = Ready \union {r}
       /\ Serving' = Serving /\ Valid' = Valid /\ base' = base
       /\ current' = current /\ (mode = "gone")' = (mode = "gone")
  /\ \A r : State!Publish(r) <=>
       /\ r \in Ready \intersect Valid
       /\ Serving => base[r] = current
       /\ current' = r /\ Ready' \subseteq Ready \ {r}
       /\ Serving' = Serving /\ Valid' = Valid /\ base' = base
       /\ Completed' = Completed /\ (mode = "gone")' = (mode = "gone")
  /\ State!Purge <=> /\ ~ (mode = "gone") /\ (mode = "gone")' = TRUE
                     /\ Serving' = FALSE /\ Valid' = {} /\ Ready' = {}
                     /\ base' = base /\ Completed' = Completed /\ current' = current
  /\ State!Erase <=> /\ mode = "gone" /\ current' = NoRun
                     /\ Serving' = Serving /\ Valid' = Valid /\ base' = base
                     /\ Completed' = Completed /\ Ready' = Ready /\ (mode = "gone")' = (mode = "gone")
BY DEF State!Disturb, State!Begin, State!Commit, State!Publish, State!Purge, State!Erase,
       State!Runs, State!NoRun, Runs, NoRun, Serving, Valid, Completed

LEMMA StateNext ==
  /\ State!Disturb => State!Next
  /\ State!Purge => State!Next
  /\ State!Erase => State!Next
  /\ \A r \in Runs : State!Begin(r) \/ State!Commit(r) \/ State!Publish(r) => State!Next
BY DEF State!Next, State!Runs, Runs

LEMMA InitRefinesState == Init => State!Init
<1> SUFFICES ASSUME Init PROVE State!Init
  OBVIOUS
<1>1. /\ ~ Serving /\ Valid = {} /\ Completed = {} /\ Ready = {}
      /\ base = [r \in Runs |-> NoRun] /\ current = NoRun /\ mode # "gone"
  BY NoPubFields DEF Init, Serving, Valid, Completed, Ready, HandleCurrent
<1> QED BY <1>1 DEF State!Init, State!Runs, State!NoRun, Runs, NoRun, Serving, Valid, Completed

\* A step that commits nothing, seals nothing of a committed run, publishes
\* nothing and begins no publication.
LEMMA Disturbed ==
  ASSUME base' = base, current' = current, mode' = "gone" <=> mode = "gone",
         \A r \in Runs : rows'[r].status = "completed" <=> rows[r].status = "completed",
         \A r \in Runs : rows[r].status = "completed" /\ stage'[r] = "sealed"
                         => stage[r] = "sealed",
         pub' = pub \/ pub'.at \notin {"rename", "point"},
         gens' \subseteq gens
  PROVE  State!Disturb
<1>1. Completed' = Completed
  BY DEF Completed
<1>2. Ready' \subseteq Ready
  BY DEF Ready
<1>3. Serving' \in BOOLEAN /\ Valid' \subseteq Runs /\ (mode = "gone")' = (mode = "gone")
  BY DEF Serving, Valid
<1> QED BY <1>1, <1>2, <1>3, StateTerms

\* The row of one run ends otherwise than as completed.
LEMMA NotCompleted ==
  ASSUME IInv, NEW r \in Runs, NEW s \in {"completed", "failed", "denied"}, rows' = Finished(r, s),
         s # "completed"
  PROVE  \A q \in Runs : rows'[q].status = "completed" <=> rows[q].status = "completed"
<1>1. TypeOK
  BY DEF IInv
<1>2. \A q \in Runs : q # r => rows'[q].status = rows[q].status
  BY <1>1, FinishedRow
<1>3. rows'[r].status = rows[r].status \/ (rows[r].status \notin Ended /\ rows'[r].status \in {s, "denied"})
  BY <1>1, FinishedRow
<1> QED BY <1>2, <1>3 DEF Ended

LEMMA OwnerRefines ==
  ASSUME IInv, Owner
  PROVE  State!Next
<1>1. TypeOK /\ \A r \in Runs : rows[r] \in RowType
  BY DEF IInv, TypeOK
<1>2. ASSUME NEW to \in {"paused", "deleted"}, Disable(to) PROVE State!Disturb
  BY <1>1, <1>2, Disturbed DEF Disable, Cancelled, Active, disk, process
<1>3. CASE EnableJob
  BY <1>3, Disturbed, StateNext DEF EnableJob, disk, process
<1>4. CASE RebindJob
  BY <1>1, <1>4, Disturbed, StateNext DEF RebindJob, Cancelled, disk, process
<1>5. CASE Purge
  <2>1. \A r \in Runs : rows'[r].status = rows[r].status
    BY <1>1, <1>5, DroppedRow DEF Purge
  <2>2. /\ mode = "deleted" /\ mode' = "gone" /\ sweep' = "stages"
        /\ UNCHANGED <<base, current>>
    BY <1>5 DEF Purge, disk
  <2>3. /\ (mode = "gone")' = TRUE /\ ~ (mode = "gone") /\ Serving' = FALSE /\ Completed' = Completed
    BY <2>1, <2>2 DEF Serving, Completed
  <2>4. Valid' = {} /\ Ready' = {}
    BY <2>2 DEF Valid, Ready, HandleCurrent
  <2> QED BY <2>2, <2>3, <2>4, StateTerms, StateNext
<1>6. ASSUME NEW r \in Runs, Cancel(r) PROVE State!Disturb
  BY <1>1, <1>6, Disturbed DEF Cancel, ActiveRuns, Active, TypeOK, disk, process, job
<1>7. ASSUME NEW r \in Runs, Enqueue(r) PROVE State!Disturb
  <2>1. rows[r].status = "none" /\ UNCHANGED <<base, current, pub, mode>>
    BY <1>7 DEF Enqueue, NextRun, job
  <2>2. gens' \subseteq gens /\ \A q \in Runs : stage'[q] = "sealed" => stage[q] = "sealed"
    BY <1>1, <1>7, RetiredRun DEF Enqueue
  <2>3. ASSUME NEW q \in Runs
        PROVE  rows'[q].status = "completed" <=> rows[q].status = "completed"
    <3>1. CASE q = r
      <4>1. rows'[q].status = "queued" \/ rows'[q].status = "skipped"
        BY <1>7, <3>1 DEF Enqueue
      <4> QED BY <2>1, <3>1, <4>1
    <3>2. CASE q # r /\ q \in Pruned
      <4>1. rows'[q] = [rows[q] EXCEPT !.kept = FALSE]
        BY <1>7, <3>2 DEF Enqueue
      <4> QED BY <1>1, <4>1, DroppedRow
    <3>3. CASE q # r /\ q \notin Pruned
      BY <1>7, <3>3 DEF Enqueue
    <3> QED BY <3>1, <3>2, <3>3
  <2> QED BY <2>1, <2>2, <2>3, Disturbed
<1> QED BY <1>2, <1>3, <1>4, <1>5, <1>6, <1>7, StateNext
        DEF Owner, UpdateJob, PauseJob, TombstoneJob

LEMMA ExecutorRefines ==
  ASSUME IInv, NEW r \in Runs, Executor(r)
  PROVE  State!Next
<1>1. TypeOK /\ \A q \in Runs : rows[q] \in RowType
  BY DEF IInv, TypeOK
<1>2. CASE Claim(r)
  <2>1. rows[r].status = "queued"
    BY <1>2 DEF Claim, IInv, RowsFollow
  <2>2. \A q \in Runs : rows'[q].status = "completed" <=> rows[q].status = "completed"
    <3>1. \/ rows' = [rows EXCEPT ![r].status = "running"]
          \/ rows' = [rows EXCEPT ![r].status = "denied"]
      BY <1>2 DEF Claim
    <3> QED BY <1>1, <2>1, <3>1 DEF TypeOK, RowType
  <2> QED BY <1>2, <2>2, Disturbed, StateNext DEF Claim, job, disk
<1>3. CASE Prepare(r)
  <2>1. /\ rows[r].status = "running" /\ turn = r /\ proc = "up" /\ sweep = "none"
    BY <1>3, RunsArePositive DEF Prepare, IInv, RowsFollow, OneTurn
  <2>2. /\ Serving /\ r \notin Completed /\ Serving' = Serving /\ Valid' = Valid
        /\ Completed' = Completed /\ (mode = "gone")' = (mode = "gone") /\ current' = current
        /\ base' = [base EXCEPT ![r] = current]
    BY <1>3, <2>1 DEF Prepare, Serving, Completed, Valid, HandleCurrent, job
  <2>3. Ready' = Ready
    BY <1>1, <1>3, <2>1 DEF Prepare, Ready, TypeOK, job
  <2> QED BY <2>2, <2>3, StateTerms, StateNext
<1>4. CASE PrepareFails(r) \/ DenyRun(r) \/ PersistFails(r)
  <2>1. \A q \in Runs : rows'[q].status = "completed" <=> rows[q].status = "completed"
    BY <1>4, NotCompleted DEF PrepareFails, DenyRun, PersistFails
  <2>2. gens' \subseteq gens /\ \A q \in Runs : stage'[q] = "sealed" => stage[q] = "sealed"
    BY <1>1, <1>4 DEF PrepareFails, DenyRun, PersistFails, RetireRun, Discard, TypeOK
  <2> QED BY <1>4, <2>1, <2>2, Disturbed, StateNext DEF PrepareFails, DenyRun, PersistFails, job
<1>5. CASE LeaseSettles(r) \/ RunnerSettles(r)
  BY <1>5, Disturbed, StateNext DEF LeaseSettles, RunnerSettles, disk, process, job
<1>6. CASE LeaseClosed(r)
  <2>1. \A q \in Runs : rows'[q].status = "completed" <=> rows[q].status = "completed"
    BY <1>6, NotCompleted DEF LeaseClosed
  <2>2. \A q \in Runs : stage'[q] = "sealed" => stage[q] = "sealed"
    BY <1>1, <1>6 DEF LeaseClosed, Discard, TypeOK
  <2> QED BY <1>6, <2>1, <2>2, Disturbed, StateNext DEF LeaseClosed, job
<1>7. CASE Seal(r)
  <2>1. rows[r].status = "running"
    BY <1>7 DEF Seal, IInv, RowsFollow
  <2>2. \A q \in Runs : rows[q].status = "completed" /\ stage'[q] = "sealed" => stage[q] = "sealed"
    BY <1>1, <1>7, <2>1 DEF Seal, Discard, TypeOK
  <2> QED BY <1>7, <2>2, Disturbed, StateNext DEF Seal, process, job
<1>8. CASE Commit(r)
  <2>1. /\ turn = r /\ pc[r] = "committing" /\ pub = NoPub /\ rows' = Finished(r, result[r])
        /\ r # NoRun /\ proc = "up" /\ sweep = "none" /\ rows[r].kept /\ rows[r].status = "running"
        /\ HandleCurrent(r) /\ result[r] \in {"completed", "failed"}
        /\ UNCHANGED <<mode, rev, auth, base, gens, current, proc, sweep>>
    BY <1>8, RunsArePositive DEF Commit, IInv, OneTurn, RowsFollow, job
  <2>2. CASE result[r] = "failed"
    <3>1. \A q \in Runs : rows'[q].status = "completed" <=> rows[q].status = "completed"
      BY <2>1, <2>2, NotCompleted
    <3>2. pub' = pub /\ \A q \in Runs : stage'[q] = "sealed" => stage[q] = "sealed"
      BY <1>1, <1>8, <2>2 DEF Commit, Discard, TypeOK
    <3> QED BY <2>1, <3>1, <3>2, Disturbed, StateNext
  <2>3. CASE result[r] = "completed"
    <3>1. rows'[r].status = "completed" /\ \A q \in Runs : q # r => rows'[q] = rows[q]
      BY <1>1, <2>1, <2>3, FinishedRow DEF Ended
    <3>2. pub' = [run |-> r, at |-> "rename"] /\ stage' = stage /\ mode # "gone"
      BY <1>8, <2>1, <2>3, <3>1 DEF Commit, HandleCurrent
    <3>3. stage[r] = "sealed" /\ base[r] = current
      BY <2>1, <2>3 DEF IInv, RowsFollow, StageIsCurrent, ActiveRuns, Kept, Active
    <3>4. \A q \in Runs : rows'[q].rev = rows[q].rev
      BY <1>1, <2>1, FinishedRow
    <3>5. Completed' = Completed \union {r} /\ r \notin Completed
      BY <2>1, <3>1 DEF Completed
    <3>6. Valid' = Valid /\ r \in Valid
      BY <2>1, <3>4 DEF Valid, HandleCurrent
    <3>7. Ready' = Ready \union {r}
      BY <2>1, <3>1, <3>2, <3>3, NoPubFields DEF Ready
    <3>8. Serving' = Serving /\ Serving /\ (mode = "gone")' = (mode = "gone")
      BY <2>1 DEF Serving
    <3> QED BY <2>1, <3>3, <3>5, <3>6, <3>7, <3>8, StateTerms, StateNext
  <2> QED BY <2>1, <2>2, <2>3
<1> QED BY <1>2, <1>3, <1>4, <1>5, <1>6, <1>7, <1>8 DEF Executor

LEMMA PublicationRefines ==
  ASSUME IInv, NEW r \in Runs, Publication(r)
  PROVE  State!Next
<1>1. TypeOK /\ r # NoRun
  BY RunsArePositive DEF IInv
<1>2. pub # NoPub /\ pub.run = r
  BY <1>1, NoPubFields
     DEF Publication, PublishRename, PublishPoint, PublishSweep, PublishFails
<1>3. rows[r].status = "completed" /\ HandleCurrent(r) /\ mode # "gone"
  BY <1>2 DEF IInv, PublishingSound, HandleCurrent
<1>4. CASE PublishRename(r)
  <2>1. /\ stage' = [stage EXCEPT ![r] = "none"] /\ gens' = gens \union {r}
        /\ pub' = [pub EXCEPT !.at = "point"] /\ pub = [run |-> r, at |-> "rename"]
        /\ UNCHANGED <<job, rows, base, current, proc, sweep>>
    BY <1>4 DEF PublishRename
  <2>2. Ready' \subseteq Ready
    <3>1. pub'.run = r
      BY <2>1
    <3>2. \A q \in Runs : q # r => stage'[q] = stage[q] /\ (q \in gens' <=> q \in gens)
      BY <1>1, <2>1 DEF TypeOK
    <3>3. r \in Ready
      BY <1>3, <2>1 DEF Ready
    <3>4. ASSUME NEW q \in Ready', q # r PROVE q \in Ready
      BY <2>1, <3>1, <3>2, <3>4 DEF Ready, job
    <3> QED BY <3>3, <3>4
  <2>3. Completed' = Completed /\ (mode = "gone")' = (mode = "gone")
        /\ Serving' \in BOOLEAN /\ Valid' \subseteq Runs
    BY <2>1 DEF Completed, Serving, Valid, job
  <2> QED BY <2>1, <2>2, <2>3, StateTerms, StateNext
<1>5. CASE PublishPoint(r)
  <2>1. /\ current' = r /\ pub = [run |-> r, at |-> "point"] /\ pub' = [pub EXCEPT !.at = "sweep"]
        /\ UNCHANGED <<mode, rev, auth, rows, stage, base, gens, proc, sweep>>
    BY <1>5 DEF PublishPoint, job
  <2>2. pub.at = "point" /\ pub'.at = "sweep"
    BY <2>1
  <2>3. r \in gens /\ stage[r] = "none" /\ (sweep = "none" => base[r] = current)
    BY <1>2, <2>2 DEF IInv, PublishingSound, StageMoved
  <2>4. r \in Ready
    BY <1>2, <1>3, <2>2 DEF Ready
  <2>5. Ready' \subseteq Ready \ {r}
    <3>1. ASSUME NEW q \in Ready' PROVE q \in Ready /\ q # r
      BY <1>1, <1>2, <2>1, <2>2, <2>3, <3>1 DEF Ready
    <3> QED BY <3>1
  <2>6. r \in Valid /\ Valid' = Valid /\ Completed' = Completed /\ Serving' = Serving
        /\ (mode = "gone")' = (mode = "gone")
    BY <1>3, <2>1 DEF Valid, HandleCurrent, Completed, Serving
  <2> QED BY <2>1, <2>3, <2>4, <2>5, <2>6, StateTerms, StateNext DEF Serving
<1>6. CASE PublishSweep(r)
  <2>1. gens' \subseteq gens
    BY <1>2, <1>6 DEF PublishSweep, IInv, PublishingSound
  <2> QED BY <1>6, <2>1, NoPubFields, Disturbed, StateNext DEF PublishSweep, EndPublish, job
<1>7. CASE PublishFails(r)
  BY <1>7, NoPubFields, Disturbed, StateNext DEF PublishFails, EndPublish, job, disk
<1> QED BY <1>4, <1>5, <1>6, <1>7 DEF Publication

LEMMA ReconciliationRefines ==
  ASSUME IInv, Reconciliation
  PROVE  State!Next
<1>1. ASSUME NEW r \in Runs, VisitStage(r) PROVE State!Disturb
  <2>1. /\ sweep = "stages" /\ pub = NoPub /\ r \in todo
        /\ UNCHANGED <<job, rows, base, gens, current, proc, sweep>>
    BY <1>1 DEF VisitStage
  <2>2. CASE mode # "gone" /\ Publishable(r)
    <3>1. pub' = [run |-> r, at |-> "rename"] /\ stage' = stage
      BY <1>1, <2>2 DEF VisitStage
    <3>2. stage[r] = "sealed"
      BY <2>1, <2>2 DEF Publishable, IInv, StageMoved, TypeOK
    <3>3. Ready' \subseteq Ready
      BY <2>1, <2>2, <3>1, <3>2 DEF Ready, Publishable, job
    <3>4. Completed' = Completed /\ (mode = "gone")' = (mode = "gone")
          /\ Serving' \in BOOLEAN /\ Valid' \subseteq Runs
      BY <2>1 DEF Completed, Serving, Valid, job
    <3> QED BY <2>1, <3>3, <3>4, StateTerms
  <2>3. CASE ~ (mode # "gone" /\ Publishable(r))
    <3>1. pub' = pub /\ stage' = [stage EXCEPT ![r] = "none"]
      BY <1>1, <2>3 DEF VisitStage, Discard
    <3>2. \A q \in Runs : stage'[q] = "sealed" => stage[q] = "sealed"
      BY <3>1 DEF IInv, TypeOK
    <3> QED BY <2>1, <3>1, <3>2, Disturbed DEF job
  <2> QED BY <2>2, <2>3
<1>2. CASE ChooseGeneration
  <2>1. /\ sweep = "stages" /\ sweep' = "rest" /\ pub = NoPub
        /\ UNCHANGED <<mode, rev, auth, rows, stage, base, proc>>
    BY <1>2 DEF ChooseGeneration, job
  <2>2. /\ Completed' = Completed /\ (mode = "gone")' = (mode = "gone")
        /\ Serving' = Serving /\ Serving' \in BOOLEAN /\ Valid' = Valid /\ Valid \subseteq Runs
    BY <2>1 DEF Completed, Serving, Valid, HandleCurrent
  <2>3. ASSUME NEW r \in gens, Publishable(r), mode # "gone", current = NoRun,
               pub' = [run |-> r, at |-> "point"], UNCHANGED <<gens, current>>
        PROVE  State!Disturb
    <3>1. r \in Ready
      BY <2>3 DEF Ready, Publishable, IInv, TypeOK
    <3>2. Ready' \subseteq Ready
      BY <2>1, <2>3, <3>1 DEF Ready
    <3>3. Serving' \in BOOLEAN /\ Valid' \subseteq Runs
      BY <2>2
    <3> QED BY <2>1, <2>2, <2>3, <3>2, <3>3, StateTerms
  <2>4. CASE UNCHANGED <<gens, current, pub>>
    BY <2>1, <2>4, Disturbed, StateNext
  <2>5. CASE mode = "gone" /\ gens' = {} /\ current' = NoRun
    <3>1. Ready' = Ready
      BY <2>1, <2>5 DEF Ready
    <3>2. State!Erase
      BY <2>1, <2>2, <2>5, <3>1, StateTerms
    <3> QED BY <3>2, StateNext
  <2> QED BY <1>2, <2>3, <2>4, <2>5, StateNext DEF ChooseGeneration
<1>3. CASE EndReconcile
  <2>1. gens' \subseteq gens
    BY <1>3 DEF EndReconcile, IInv, CurrentExists
  <2> QED BY <1>3, <2>1, Disturbed, StateNext DEF EndReconcile, job
<1> QED BY <1>1, <1>2, <1>3, StateNext DEF Reconciliation

LEMMA StepRefinesState ==
  ASSUME IInv, [Next]_vars
  PROVE  State!Next
<1>1. TypeOK /\ \A r \in Runs : rows[r] \in RowType
  BY DEF IInv, TypeOK
<1>2. CASE UNCHANGED vars
  BY <1>2, Disturbed, StateNext DEF vars, job, disk, process
<1>3. CASE Crash \/ PurgeOther
  BY <1>3, NoPubFields, Disturbed, StateNext DEF Crash, PurgeOther, job, disk
<1>4. CASE Boot
  BY <1>1, <1>4, Disturbed, StateNext DEF Boot, job, disk
<1>5. ASSUME NEW to \in {"current", "drifted", "excluded"}, ChangePolicy(to) PROVE State!Next
  <2>1. mode' # "gone" /\ mode # "gone"
    BY <1>5 DEF ChangePolicy
  <2>2. \A r \in Runs : rows'[r].status = "completed" <=> rows[r].status = "completed"
    BY <1>1, <1>5 DEF ChangePolicy, Cancelled, Active
  <2> QED BY <1>5, <2>1, <2>2, Disturbed, StateNext DEF ChangePolicy, disk, process
<1> QED BY <1>2, <1>3, <1>4, <1>5, OwnerRefines, ExecutorRefines, PublicationRefines,
           ReconciliationRefines DEF Next

-----------------------------------------------------------------------------
(* The theorems.                                                           *)

(* The rows, the executors, the stages and the pointer of the job keep the *)
(* types that the store's validators and the file names give them.         *)
THEOREM TypeCorrect == Spec => []TypeOK
<1>1. IInv => TypeOK
  BY DEF IInv
<1> QED BY <1>1, Invariant, PTL

(* At most one run of the job is queued or running: admission skips beside *)
(* an active row, and recovery interrupts what a crash left running.       *)
THEOREM OneActiveRun == Spec => []OneActive
<1>1. IInv => OneActive
  <2> SUFFICES ASSUME IInv PROVE Cardinality(ActiveRuns) <= 1
    BY DEF OneActive
  <2>1. CASE ActiveRuns = {}
    BY <2>1, FS_EmptySet
  <2>2. CASE ActiveRuns # {}
    <3>1. PICK r : r \in ActiveRuns
      BY <2>2
    <3>2. ActiveRuns = {r}
      BY <3>1 DEF IInv, Lone
    <3>3. Cardinality({r}) = 1
      BY FS_Singleton
    <3> QED BY <3>2, <3>3
  <2> QED BY <2>1, <2>2
<1> QED BY <1>1, Invariant, PTL

(* Only the state of a run whose row was committed as completed is among   *)
(* the generations: the executor commits before it publishes.              *)
THEOREM CommittedOnly == Spec => []OnlyCommittedPublished
<1>1. IInv => OnlyCommittedPublished
  BY DEF IInv
<1> QED BY <1>1, Invariant, PTL

(* CURRENT names a generation that exists: the rename precedes the pointer *)
(* and neither retirement nor a sweep removes what the pointer names.      *)
THEOREM CurrentThere == Spec => []CurrentExists
<1>1. IInv => CurrentExists
  BY DEF IInv
<1> QED BY <1>1, Invariant, PTL

\* Only two steps move CURRENT.
LEMMA CurrentMoves ==
  ASSUME [Next]_vars, current' # current
  PROVE  (\E r \in Runs : PublishPoint(r)) \/ (ChooseGeneration /\ current' = NoRun)
<1>1. ~ UNCHANGED vars
  BY DEF vars, disk
<1>2. ~ Owner
  BY DEF Owner, UpdateJob, PauseJob, TombstoneJob, Disable, EnableJob, RebindJob, Purge, Cancel,
         Enqueue, disk
<1>3. ~ Crash /\ ~ Boot /\ ~ PurgeOther
  BY DEF Crash, Boot, PurgeOther, disk
<1>4. \A to \in {"current", "drifted", "excluded"} : ~ ChangePolicy(to)
  BY DEF ChangePolicy, disk
<1>5. \A r \in Runs : ~ Executor(r)
  BY DEF Executor, Claim, Prepare, PrepareFails, LeaseSettles, DenyRun, RunnerSettles,
         LeaseClosed, PersistFails, Seal, Commit, disk
<1>6. \A r \in Runs : Publication(r) => PublishPoint(r)
  BY DEF Publication, PublishRename, PublishSweep, PublishFails, disk
<1>7. Reconciliation => ChooseGeneration /\ current' = NoRun
  BY DEF Reconciliation, VisitStage, EndReconcile, ChooseGeneration
<1> QED BY <1>1, <1>2, <1>3, <1>4, <1>5, <1>6, <1>7 DEF Next

(* State becomes current only under the authority of its run: publishState *)
(* is reached in the turn of the check, or after canPublish.               *)
THEOREM Authorized == Spec => PublicationAuthorized
<1>1. IInv /\ [Next]_vars
        => [current' # current /\ current' # NoRun => HandleCurrent(current')]_vars
  <2> SUFFICES ASSUME IInv, [Next]_vars, current' # current, current' # NoRun
               PROVE  HandleCurrent(current')
    OBVIOUS
  <2>1. PICK r \in Runs : PublishPoint(r)
    BY CurrentMoves
  <2>2. pub # NoPub /\ pub.run = r /\ current' = r
    BY <2>1, NoPubFields, RunsArePositive DEF PublishPoint
  <2> QED BY <2>2 DEF IInv, PublishingSound
<1> QED BY <1>1, Invariant, PTL DEF Spec, PublicationAuthorized

(* Outside a reconciliation the published state is replaced only by state  *)
(* that was built on it: one run at a time works on a stage.               *)
THEOREM BuiltOn == Spec => BuiltOnReplaced
<1>1. IInv /\ [Next]_vars
        => [sweep = "none" /\ current' # current => base[current'] = current]_vars
  <2> SUFFICES ASSUME IInv, [Next]_vars, sweep = "none", current' # current
               PROVE  base[current'] = current
    OBVIOUS
  <2>1. PICK r \in Runs : PublishPoint(r)
    BY CurrentMoves DEF ChooseGeneration
  <2>2. pub # NoPub /\ pub.run = r /\ pub.at = "point" /\ current' = r
    BY <2>1, NoPubFields, RunsArePositive DEF PublishPoint
  <2> QED BY <2>2 DEF IInv, PublishingSound
<1> QED BY <1>1, Invariant, PTL DEF Spec, BuiltOnReplaced

\* What becomes of one final row.
Stays(r) == rows[r].status \in Ended => rows'[r].status = rows[r].status

(* A final row stays final: finishProtectedAutomationRun leaves a terminal *)
(* row alone, and every other write selects active rows.                   *)
THEOREM RowsFinal == Spec => FinalRows
<1>1. IInv /\ [Next]_vars => \A r \in Runs : Stays(r)
  <2> SUFFICES ASSUME IInv, [Next]_vars, NEW r \in Runs PROVE Stays(r)
    OBVIOUS
  <2>1. TypeOK /\ rows[r] \in RowType
    BY DEF IInv, TypeOK
  <2>2. ASSUME UNCHANGED rows PROVE Stays(r)
    BY <2>2 DEF Stays
  <2>3. ASSUME NEW S \in SUBSET Active, rows' = Cancelled(S) PROVE Stays(r)
    BY <2>1, <2>3 DEF Stays, Cancelled, Active, Ended
  <2>4. ASSUME NEW q \in Runs, NEW s \in {"completed", "failed", "denied"}, rows' = Finished(q, s)
        PROVE  Stays(r)
    <3>1. CASE rows[q].kept
      <4>1. CASE q = r
        <5> SUFFICES ASSUME rows[r].status \in Ended PROVE rows'[r].status = rows[r].status
          BY DEF Stays
        <5>1. Finished(q, s) = rows
          BY <4>1 DEF Finished
        <5> QED BY <2>4, <5>1
      <4>2. CASE q # r
        <5>1. Finished(q, s)[r] = rows[r]
          BY <2>1, <4>2, FinishedRow
        <5> QED BY <2>4, <5>1 DEF Stays
      <4> QED BY <4>1, <4>2
    <3>2. CASE ~ rows[q].kept
      BY <2>4, <3>2 DEF Stays, Finished
    <3> QED BY <3>1, <3>2
  <2>5. CASE UNCHANGED vars
    BY <2>2, <2>5 DEF vars
  <2>6. CASE Owner
    <3>1. ASSUME NEW to \in {"paused", "deleted"}, Disable(to) PROVE Stays(r)
      BY <2>3, <3>1 DEF Disable
    <3>2. CASE EnableJob
      BY <2>2, <3>2 DEF EnableJob
    <3>3. CASE RebindJob
      BY <2>3, <3>3 DEF RebindJob, Active
    <3>4. CASE Purge
      <4>1. rows'[r] = [rows[r] EXCEPT !.kept = FALSE]
        BY <3>4 DEF Purge
      <4> QED BY <2>1, <4>1, DroppedRow DEF Stays
    <3>5. ASSUME NEW q \in Runs, Cancel(q) PROVE Stays(r)
      BY <2>1, <3>5 DEF Cancel, Stays, ActiveRuns, Active, Ended, TypeOK, RowType
    <3>6. ASSUME NEW q \in Runs, Enqueue(q) PROVE Stays(r)
      <4> SUFFICES ASSUME rows[r].status \in Ended PROVE rows'[r].status = rows[r].status
        BY DEF Stays
      <4>1. rows[q].status = "none" /\ q # r
        BY <3>6 DEF Enqueue, NextRun, Ended
      <4>2. CASE r \in Pruned
        <5>1. rows'[r] = [rows[r] EXCEPT !.kept = FALSE]
          BY <3>6, <4>1, <4>2 DEF Enqueue
        <5> QED BY <2>1, <5>1, DroppedRow DEF Stays
      <4>3. CASE r \notin Pruned
        BY <3>6, <4>1, <4>3 DEF Enqueue, Stays
      <4> QED BY <4>2, <4>3
    <3> QED BY <2>6, <3>1, <3>2, <3>3, <3>4, <3>5, <3>6
            DEF Owner, UpdateJob, PauseJob, TombstoneJob
  <2>7. CASE Reconciliation \/ Crash \/ PurgeOther
    BY <2>2, <2>7 DEF Reconciliation, VisitStage, ChooseGeneration, EndReconcile, Crash, PurgeOther
  <2>8. CASE Boot
    BY <2>1, <2>8 DEF Boot, Stays, Ended, RowType
  <2>9. ASSUME NEW to \in {"current", "drifted", "excluded"}, ChangePolicy(to) PROVE Stays(r)
    BY <2>2, <2>3, <2>9 DEF ChangePolicy
  <2>10. ASSUME NEW q \in Runs, Publication(q) PROVE Stays(r)
    BY <2>2, <2>10 DEF Publication, PublishRename, PublishPoint, PublishSweep, PublishFails
  <2>11. ASSUME NEW q \in Runs, Executor(q) PROVE Stays(r)
    <3>1. CASE Claim(q)
      BY <2>1, <3>1 DEF Claim, Stays, IInv, RowsFollow, TypeOK, RowType, Ended
    <3>2. CASE Prepare(q) \/ LeaseSettles(q) \/ RunnerSettles(q) \/ Seal(q)
      BY <2>2, <3>2 DEF Prepare, LeaseSettles, RunnerSettles, Seal
    <3>3. CASE PrepareFails(q) \/ DenyRun(q) \/ PersistFails(q)
      BY <2>4, <3>3 DEF PrepareFails, DenyRun, PersistFails
    <3>4. CASE LeaseClosed(q)
      BY <2>2, <2>4, <3>4 DEF LeaseClosed
    <3>5. CASE Commit(q)
      <4>1. result[q] \in {"completed", "failed"} /\ rows' = Finished(q, result[q])
        BY <3>5 DEF Commit, IInv, RowsFollow
      <4> QED BY <2>4, <4>1
    <3> QED BY <2>11, <3>1, <3>2, <3>3, <3>4, <3>5 DEF Executor
  <2> QED BY <2>5, <2>6, <2>7, <2>8, <2>9, <2>10, <2>11 DEF Next
<1>2. (\A r \in Runs : Stays(r)) =>
        [\A r \in Runs : rows[r].status \in Ended => rows'[r].status = rows[r].status]_vars
  BY DEF Stays
<1> QED BY <1>1, <1>2, Invariant, PTL DEF Spec, FinalRows
(* The rows, the stages, the generations and the pointer of the job        *)
(* implement the register PublishedState: crashes between two writes,      *)
(* cancellations, edits and reconciliations at any time, state is          *)
(* published at most once, with the authority of its run, and in service   *)
(* only over what the run began with; a purge erases it.                   *)
THEOREM StateImplemented == Spec => ImplementsState
<1>1. IInv /\ [Next]_vars => [State!Next]_(State!register)
  BY StepRefinesState
<1> QED BY InitRefinesState, <1>1, Invariant, PTL DEF Spec, ImplementsState, State!Spec
=============================================================================
