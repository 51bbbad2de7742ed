----------------------------- MODULE RunHistory -----------------------------
(***************************************************************************)
(* What the scheduler promises about the history of its runs.  A job has   *)
(* one running row at a time; what it ends with is final.  Success is the  *)
(* work of an executor inside its budget, and an executor that owes a      *)
(* cleanup ends only with the cleanup proven.  An executor dies with the   *)
(* process, and recovery fails the rows that are then left running.        *)
(***************************************************************************)
CONSTANTS Jobs, Runs, Null

VARIABLE run  \* by run: its job, status, executor, and what that one owes

Ended == {"completed", "failed", "skipped"}
AtWork(r) == run[r].worker \in {"working", "late"}

Init == run = [r \in Runs |-> [job |-> Null, status |-> "none", worker |-> "none",
                               owes |-> "nothing"]]

(* A new run, whose row may take the place of ended rows of its job.       *)
Add(r, j, status, worker) ==
  /\ run[r].status = "none"
  /\ worker # "none" => \A q \in Runs : run[q].job = j => run[q].status # "running"
  /\ \E pruned \in SUBSET {q \in Runs : run[q].job = j /\ run[q].status \in Ended} :
       run' = [q \in Runs |->
                IF q = r THEN [job |-> j, status |-> status, worker |-> worker,
                               owes |-> "nothing"]
                ELSE IF q \in pruned THEN [run[q] EXCEPT !.status = "pruned"]
                ELSE run[q]]

Accept(r, j) == Add(r, j, "running", "working")
Refuse(r, j) == Add(r, j, "failed", "done")
Skip(r, j) == \E status \in {"skipped", "pruned"} : Add(r, j, status, "none")

Ends(r, status) ==
  run' = [run EXCEPT ![r] = [job |-> run[r].job, status |-> status, worker |-> "done",
                             owes |-> "nothing"]]

Complete(r) ==
  /\ run[r].status = "running" /\ run[r].worker = "working" /\ run[r].owes = "nothing"
  /\ Ends(r, "completed")

(* A row that recovery has failed already is left alone.                   *)
GiveUp(r) ==
  /\ AtWork(r)
  /\ Ends(r, IF run[r].status = "running" THEN "failed" ELSE run[r].status)

Owe(r) == AtWork(r) /\ run' = [run EXCEPT ![r].owes = "cleanup"]
Prove(r) == run' = [run EXCEPT ![r].owes = "nothing"]

Time == \E late \in SUBSET {r \in Runs : run[r].worker = "working"} :
          run' = [r \in Runs |-> IF r \in late THEN [run[r] EXCEPT !.worker = "late"]
                                 ELSE run[r]]

Die == run' = [r \in Runs |-> IF AtWork(r) THEN [run[r] EXCEPT !.worker = "lost", !.owes = "nothing"]
                              ELSE run[r]]

Recover == run' = [r \in Runs |-> IF run[r].status = "running"
                                  THEN [run[r] EXCEPT !.status = "failed"] ELSE run[r]]

Next ==
  /\ run' # run
  /\ \/ \E r \in Runs : \/ \E j \in Jobs : Accept(r, j) \/ Refuse(r, j) \/ Skip(r, j)
                        \/ Complete(r) \/ GiveUp(r) \/ Owe(r) \/ Prove(r)
     \/ Time \/ Die \/ Recover

Spec == Init /\ [][Next]_run
=============================================================================
