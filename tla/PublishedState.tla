----------------------------- MODULE PublishedState -----------------------------
(* What the private state of a protected job is to its runs: a register    *)
(* that only a committed, authorized run replaces, each at most once, and  *)
(* while the job is served only by state that was built on what it         *)
(* replaces.  Where a crash or a failed write leaves committed state       *)
(* unpublished, a later reconciliation may publish it, or it is lost.      *)
EXTENDS Naturals

CONSTANT MaxRuns   \* bound on the runs of the job

Runs == 1 .. MaxRuns
NoRun == 0

VARIABLES serving,    \* no reconciliation is under way
          valid,      \* runs that have the job's present authority
          base,       \* the state that a run began with
          committed,  \* runs that ended as completed
          ready,      \* committed runs whose state may still be published
          published,  \* the run whose state is published
          purged      \* the job's data have been purged

register == <<serving, valid, base, committed, ready, published, purged>>

Init ==
  /\ serving = FALSE /\ valid = {} /\ base = [r \in Runs |-> NoRun]
  /\ committed = {} /\ ready = {} /\ published = NoRun /\ purged = FALSE

(* Owner, policy, crashes and failed writes.                               *)
Disturb ==
  /\ serving' \in BOOLEAN /\ valid' \subseteq Runs
  /\ ready' \subseteq ready
  /\ UNCHANGED <<base, committed, published, purged>>

Begin(r) ==
  /\ serving /\ r \notin committed
  /\ base' = [base EXCEPT ![r] = published]
  /\ UNCHANGED <<serving, valid, committed, ready, published, purged>>

Commit(r) ==
  /\ serving /\ r \in valid \ committed /\ base[r] = published
  /\ committed' = committed \union {r} /\ ready' = ready \union {r}
  /\ UNCHANGED <<serving, valid, base, published, purged>>

Publish(r) ==
  /\ r \in ready \intersect valid
  /\ serving => base[r] = published
  /\ published' = r /\ ready' \subseteq ready \ {r}
  /\ UNCHANGED <<serving, valid, base, committed, purged>>

Purge ==
  /\ ~purged /\ purged' = TRUE
  /\ serving' = FALSE /\ valid' = {} /\ ready' = {}
  /\ UNCHANGED <<base, committed, published>>

Erase ==
  /\ purged /\ published' = NoRun
  /\ UNCHANGED <<serving, valid, base, committed, ready, purged>>

Next ==
  \/ Disturb \/ Purge \/ Erase
  \/ \E r \in Runs : Begin(r) \/ Commit(r) \/ Publish(r)

Spec == Init /\ [][Next]_register
=============================================================================
