------------------------------ MODULE MessagingRoom ------------------------------
(* What the delivery of one endpoint promises the room.  The rows of the    *)
(* answers are given in the order of the events.  The room shows each part  *)
(* of a row once, after the part before it, while nothing earlier is open.  *)
(* A row counts as delivered when all its parts are shown; one that is      *)
(* given up takes the rest of its event with it, and what was sent for it   *)
(* may still appear.                                                        *)
EXTENDS Naturals, Sequences

CONSTANTS MaxEvents,  \* bound on events
          MaxChunks,  \* bound on the rows of an event
          Parts       \* Matrix messages per row

Rows == (1 .. MaxEvents) \X (1 .. MaxChunks)
Before(r, q) == r[1] < q[1] \/ (r[1] = q[1] /\ r[2] < q[2])

VARIABLES outcome,  \* of each row: none, open, delivered or dropped
          log       \* what the room shows: rows and parts, in order

history == <<outcome, log>>

Init == outcome = [r \in Rows |-> "none"] /\ log = <<>>

Shown(r, p) == \E i \in DOMAIN log : log[i] = <<r, p>>

\* Nothing that was answered before the row is open.
Due(r) == \A q \in Rows : Before(q, r) => outcome[q] # "open"

Answer(e, chunks) ==
  /\ \A r \in Rows : /\ r[1] >= e => outcome[r] = "none"
                     /\ r[1] < e /\ r[2] = 1 => outcome[r] # "none"
  /\ outcome' = [r \in Rows |-> IF r[1] = e /\ r[2] <= chunks THEN "open" ELSE outcome[r]]
  /\ UNCHANGED log

Show(r, p) ==
  /\ outcome[r] \in {"open", "dropped"} /\ Due(r)
  /\ ~ Shown(r, p) /\ \A k \in 1 .. p - 1 : Shown(r, k)
  /\ log' = Append(log, <<r, p>>)
  /\ UNCHANGED outcome

Deliver(r) ==
  /\ outcome[r] = "open" /\ Due(r)
  /\ \A p \in 1 .. Parts : Shown(r, p)
  /\ outcome' = [outcome EXCEPT ![r] = "delivered"]
  /\ UNCHANGED log

Drop(r) ==
  /\ outcome[r] = "open" /\ Due(r)
  /\ outcome' = [q \in Rows |-> IF q[1] = r[1] /\ outcome[q] = "open" THEN "dropped"
                                ELSE outcome[q]]
  /\ UNCHANGED log

Next ==
  \/ \E e \in 1 .. MaxEvents, chunks \in 1 .. MaxChunks : Answer(e, chunks)
  \/ \E r \in Rows : Deliver(r) \/ Drop(r) \/ \E p \in 1 .. Parts : Show(r, p)

Spec == Init /\ [][Next]_history
=============================================================================
