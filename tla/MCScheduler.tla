---------------------------- MODULE MCScheduler ----------------------------
(* Small instances of Scheduler for TLC.                                   *)
EXTENDS Scheduler

CONSTANT j1

(* Two successive occurrences, the first beyond one timer delay and each in *)
(* reach of the other's early timer.                                       *)
OneCron == {{3, 4}}

(* A second expression whose only occurrence is beyond one timer delay.    *)
TwoCrons == {{2, 3}, {4}}
=============================================================================
