---------------------------- MODULE InterviewAnswers ----------------------------
(* What the interviews of a session promise its agent and its owner.  An   *)
(* answer enters the session's file only after it is durable, at most once *)
(* as a tool result and once as a custom message, and not at all if the    *)
(* request was cancelled.  It is recorded as delivered with the one entry  *)
(* that carries it, and that stays so.                                     *)
EXTENDS Naturals, Sequences

CONSTANT MaxRequests   \* bound on requests

Requests == 1 .. MaxRequests

VARIABLES status,   \* of each request
          entries,  \* entries of the file that carry an answer
          proof     \* entries that verify a delivery

interview == <<status, entries, proof>>

Init ==
  /\ status = [q \in Requests |-> "none"] /\ entries = <<>>
  /\ proof = [q \in Requests |-> {}]

Becomes(q, from, to) ==
  /\ status[q] = from /\ status' = [status EXCEPT ![q] = to]
  /\ UNCHANGED <<entries, proof>>

Ask(q) == Becomes(q, "none", "open")
Answer(q) == Becomes(q, "open", "submitted")
Cancel(q) == Becomes(q, "open", "cancelled")

Enter(q, kind) ==
  /\ status[q] \in {"submitted", "delivered"}
  /\ \A i \in DOMAIN entries : entries[i] # [req |-> q, kind |-> kind]
  /\ entries' = Append(entries, [req |-> q, kind |-> kind])
  /\ UNCHANGED <<status, proof>>

\* One reconciliation may record several deliveries.
Record ==
  /\ UNCHANGED entries
  /\ \A q \in Requests :
        \/ status'[q] = status[q] /\ proof'[q] = proof[q]
        \/ /\ status[q] = "submitted" /\ status'[q] = "delivered"
           /\ \E i \in DOMAIN entries : entries[i].req = q /\ proof'[q] = {i}

Next ==
  \/ \E q \in Requests : \/ Ask(q) \/ Answer(q) \/ Cancel(q)
                         \/ \E kind \in {"tool", "custom"} : Enter(q, kind)
  \/ Record

Spec == Init /\ [][Next]_interview
=============================================================================
