-------------------------- MODULE RuntimeOwnership --------------------------
(***************************************************************************)
(* What the runtime lifecycle promises about the surfaces of a session id: *)
(* one generation at a time holds them, it gives them up for good, and     *)
(* only then may another generation take them.                             *)
(***************************************************************************)
CONSTANTS Sessions, Runtimes, NoRuntime, SessionOf

VARIABLES
  holder,  \* the generation that holds surfaces of the id, or NoRuntime
  spent    \* generations that will never hold a surface again

vars == <<holder, spent>>

Init ==
  /\ holder = [s \in Sessions |-> NoRuntime]
  /\ spent = {}

Take(r) ==
  /\ r \notin spent
  /\ holder[SessionOf[r]] = NoRuntime
  /\ holder' = [holder EXCEPT ![SessionOf[r]] = r]
  /\ UNCHANGED spent

GiveUp(r) ==
  /\ holder[SessionOf[r]] = r
  /\ holder' = [holder EXCEPT ![SessionOf[r]] = NoRuntime]
  /\ spent' = spent \cup {r}

(* Generations that ended before they held anything.                       *)
Abandon(R) ==
  /\ \A r \in R : holder[SessionOf[r]] # r
  /\ spent' = spent \cup R
  /\ UNCHANGED holder

Next ==
  \/ \E r \in Runtimes : Take(r) \/ GiveUp(r)
  \/ \E R \in SUBSET Runtimes : Abandon(R)

Spec == Init /\ [][Next]_vars
=============================================================================
