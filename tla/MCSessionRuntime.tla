-------------------------- MODULE MCSessionRuntime --------------------------
(* Small instances of SessionRuntime for TLC.                              *)
EXTENDS SessionRuntime, TLC

CONSTANTS s1, s2, r1, r2, r3

(* Three successive or concurrent calls for one session id.                *)
OneSession == [r \in Runtimes |-> s1]
OneSessionSymmetry == Permutations(Runtimes)

(* Two session ids that compete for the capacity.                          *)
TwoSessions == r1 :> s1 @@ r2 :> s2 @@ r3 :> s1
=============================================================================
