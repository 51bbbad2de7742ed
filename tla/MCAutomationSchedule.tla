------------------------- MODULE MCAutomationSchedule -------------------------
(* Instances of AutomationSchedule for TLC.                                *)
EXTENDS AutomationSchedule

(* A schedule with a repeated minute (2 and 3), and a sparse one.          *)
MCSchedules == {{2, 3, 5}, {4}}
MCKeyOf == [t \in 0 .. MaxTime |-> IF t = 3 THEN 2 ELSE t]
=============================================================================
