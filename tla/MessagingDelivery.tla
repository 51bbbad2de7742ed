---------------------------- MODULE MessagingDelivery ----------------------------
(* The outbox of one messaging endpoint and the worker that sends it to    *)
(* the Matrix room (connectors/matrix/delivery-worker.ts and the delivery  *)
(* rows of messaging/store.ts).  Of the gateway it takes what              *)
(* MessagingInbox promises: events are settled once each, in order.        *)
(*                                                                         *)
(* The rows of an event are its chunks, and each is sent in parts.  An     *)
(* action is the code between two awaits.  The due times of retries are    *)
(* left out: a pending row may be claimed at any time.                     *)
EXTENDS Naturals, Sequences, FiniteSets, SequencesExt

CONSTANTS MaxEvents,    \* bound on events
          MaxChunks,    \* bound on the rows of an event
          Parts,        \* Matrix messages per row
          MaxAttempts,  \* the worker's maxAttempts
          MaxCrashes,   \* bound on crashes
          MaxFaults     \* bound on rows left claimed: a write fails, a text cannot be cut

ASSUME BoundsAssumption ==
  /\ MaxEvents \in Nat \ {0} /\ MaxChunks \in Nat \ {0} /\ Parts \in Nat \ {0}
  /\ MaxAttempts \in Nat \ {0} /\ MaxCrashes \in Nat /\ MaxFaults \in Nat

VARIABLES
  \* durable: the delivery rows
  settled,   \* how many events the gateway has settled
  state,     \* of each row
  sent,      \* parts of it the room has acknowledged
  attempts,  \* claims of it
  \* the worker and the network
  worker,    \* down, idle, or what it awaits for the row it claimed
  cur,       \* that row
  flight,    \* requests that may still reach the server
  room,      \* the messages of the room, each with its transaction
  crashes, faults

outbox == <<state, sent, attempts>>
network == <<flight, room>>
bounds == <<crashes, faults>>
vars == <<settled, outbox, worker, cur, network, bounds>>

Events == 1 .. MaxEvents
Rows == Events \X (1 .. MaxChunks)
NoRow == <<0, 0>>
Before(r, q) == r[1] < q[1] \/ (r[1] = q[1] /\ r[2] < q[2])
Nonterminal == {r \in Rows : state[r] \in {"pending", "delivering"}}

Init ==
  /\ settled = 0
  /\ state = [r \in Rows |-> "none"] /\ sent = [r \in Rows |-> 0]
  /\ attempts = [r \in Rows |-> 0]
  /\ worker = "down" /\ cur = NoRow /\ flight = {} /\ room = <<>>
  /\ crashes = 0 /\ faults = 0

\* The rows of an event are inserted by the commit that settles it.
EventSettled(chunks) ==
  /\ settled < MaxEvents /\ settled' = settled + 1
  /\ state' = [r \in Rows |-> IF r[1] = settled' /\ r[2] <= chunks THEN "pending" ELSE state[r]]
  /\ UNCHANGED <<sent, attempts, worker, cur, network, bounds>>

-----------------------------------------------------------------------------
(* The worker.                                                             *)

\* Mutant of StartWorker: claims of an earlier boot stay.
BugClaimsKept ==
  /\ worker = "down" /\ worker' = "idle"
  /\ UNCHANGED <<settled, outbox, cur, network, bounds>>

\* start(): claims of an earlier boot are released before the first claim.
StartWorker ==
  /\ worker = "down" /\ worker' = "idle"
  /\ state' = [r \in Rows |-> IF state[r] = "delivering" THEN "pending" ELSE state[r]]
  /\ UNCHANGED <<settled, sent, attempts, cur, network, bounds>>

\* The part that is next once n are acknowledged: with none left the row is.
Await(n) == IF n < Parts THEN "attesting" ELSE "acknowledging"

\* Mutant of Claimable: a delivering row is passed.
BugDeliveringPassed(r) ==
  state[r] = "pending" /\ \A q \in Rows : state[q] = "pending" => q = r \/ Before(r, q)

\* claimNextDueMessagingDelivery: nothing passes an earlier row, pending or
\* delivering.
Claimable(r) ==
  /\ state[r] = "pending"
  /\ \A q \in Nonterminal : q = r \/ Before(r, q)

ClaimRow(r) ==
  /\ worker = "idle" /\ Claimable(r)
  /\ state' = [state EXCEPT ![r] = "delivering"]
  /\ attempts' = [attempts EXCEPT ![r] = @ + 1]
  /\ cur' = r /\ worker' = "claimed"
  /\ UNCHANGED <<settled, sent, network, bounds>>

\* A write fails, or the text of the row cannot be cut into parts: the row
\* stays claimed until the next boot.
Wedges ==
  /\ faults < MaxFaults /\ faults' = faults + 1
  /\ worker' = "idle" /\ cur' = NoRow
  /\ UNCHANGED <<settled, outbox, network, crashes>>

Released(rows) ==
  /\ state' = rows /\ worker' = "idle" /\ cur' = NoRow
  /\ UNCHANGED <<settled, sent, attempts, network, bounds>>

\* terminateMessagingDeliveryGroupDraft: the rest of the event goes with it.
Terminated(as) ==
  [r \in Rows |-> IF r = cur THEN as
                  ELSE IF r[1] = cur[1] /\ r[2] > cur[2] /\ state[r] # "none" THEN "withheld"
                  ELSE state[r]]

Withhold == Released(Terminated("withheld")) \/ Wedges
RetryOrWithhold ==
  IF attempts[cur] >= MaxAttempts THEN Withhold
  ELSE Released([state EXCEPT ![cur] = "pending"]) \/ Wedges

\* The first look at a claimed row: its declaration may have changed, or its
\* text has a grapheme too large for a message.
Examine ==
  /\ worker = "claimed"
  /\ \/ worker' = Await(sent[cur]) /\ UNCHANGED <<settled, outbox, cur, network, bounds>>
     \/ Withhold

\* The participants are fetched before every part.  They may be unavailable,
\* no longer allowed, or refused with the declaration or its scope by
\* persistMessagingDeliveryAttestation.
AttestFails == worker = "attesting" /\ (RetryOrWithhold \/ Withhold)

\* Mutant of Transaction: every attempt has its own.
BugFreshTransaction(r, part) == <<r, part, attempts[r]>>

\* deriveMatrixDeliveryTransactionId
Transaction(r, part) == <<r, part>>

Message == [txn |-> Transaction(cur, sent[cur] + 1), row |-> cur, part |-> sent[cur] + 1]

Send ==
  /\ worker = "attesting"
  /\ worker' = "sending" /\ flight' = flight \union {Message}
  /\ UNCHANGED <<settled, outbox, cur, room, bounds>>

\* The server takes a transaction once.  A request the client has given up on
\* may still reach it, or be lost.
Known(m) == \E i \in DOMAIN room : room[i].txn = m.txn
Arrive(m) ==
  /\ m \in flight /\ flight' = flight \ {m}
  /\ room' = IF Known(m) THEN room ELSE Append(room, m)
  /\ UNCHANGED <<settled, outbox, worker, cur, bounds>>

Lost(m) ==
  /\ m \in flight /\ flight' = flight \ {m}
  /\ UNCHANGED <<settled, outbox, worker, cur, room, bounds>>

\* The response to the PUT, then persistMessagingDeliveryRemoteProgress.
Acknowledged ==
  /\ worker = "sending" /\ Message \notin flight /\ Known(Message)
  /\ \/ /\ sent' = [sent EXCEPT ![cur] = @ + 1]
        /\ worker' = Await(sent'[cur])
        /\ UNCHANGED <<settled, state, attempts, cur, network, bounds>>
     \/ Wedges

\* Mutant of Ambiguous: the part counts as sent.
BugAmbiguousIsSent ==
  /\ worker = "sending" /\ sent' = [sent EXCEPT ![cur] = @ + 1]
  /\ worker' = Await(sent'[cur])
  /\ UNCHANGED <<settled, state, attempts, cur, network, bounds>>

\* A timeout, a network error or an answer that says nothing.
Ambiguous == worker = "sending" /\ RetryOrWithhold

\* An earlier request for the part may still be on its way.
Rejected == worker = "sending" /\ (Released(Terminated("failed")) \/ Wedges)

\* acknowledgeMessagingDelivery
Deliver ==
  /\ worker = "acknowledging"
  /\ Released([state EXCEPT ![cur] = "delivered"]) \/ Wedges

Crash ==
  /\ crashes < MaxCrashes /\ crashes' = crashes + 1
  /\ worker # "down" /\ worker' = "down" /\ cur' = NoRow
  /\ UNCHANGED <<settled, outbox, network, faults>>

Worker == \/ StartWorker \/ Examine \/ AttestFails \/ Send \/ Acknowledged \/ Ambiguous
          \/ Rejected \/ Deliver \/ \E r \in Rows : ClaimRow(r)

Next == \/ Worker \/ Crash
        \/ \E c \in 1 .. MaxChunks : EventSettled(c)
        \/ \E m \in flight : Arrive(m) \/ Lost(m)

Spec == Init /\ [][Next]_vars

\* The worker is rescheduled after each row and its requests have deadlines.
FairSpec == Spec /\ WF_vars(Worker)

-----------------------------------------------------------------------------
(* Properties                                                              *)

States == {"none", "pending", "delivering", "delivered", "failed", "withheld"}
Msg == [txn : Rows \X (1 .. Parts), row : Rows, part : 1 .. Parts]

TypeOK ==
  /\ settled \in 0 .. MaxEvents
  /\ state \in [Rows -> States]
  /\ sent \in [Rows -> 0 .. Parts] /\ attempts \in [Rows -> Nat]
  /\ worker \in {"down", "idle", "claimed", "attesting", "sending", "acknowledging"}
  /\ cur \in Rows \union {NoRow}
  /\ flight \in SUBSET Msg /\ room \in Seq(Msg)
  /\ crashes \in Nat /\ faults \in Nat

Key(m) == <<m.row, m.part>>
Precedes(m, n) == Before(m.row, n.row) \/ (m.row = n.row /\ m.part < n.part)

\* A row that counts as delivered is in the room with all its parts.
DeliveredIsVisible ==
  \A r \in Rows : state[r] = "delivered" =>
     \A p \in 1 .. Parts : \E i \in DOMAIN room : room[i].row = r /\ room[i].part = p

\* The room shows each message once, and in the order of the events, their
\* chunks and parts, but for what a row left behind that was given up.
AnswersInOrder ==
  \A i, j \in DOMAIN room : i < j =>
     \/ Precedes(room[i], room[j])
     \/ state[room[i].row] \in {"failed", "withheld"}
     \/ state[room[j].row] \in {"failed", "withheld"}

NoDuplicate == \A i, j \in DOMAIN room : i # j => Key(room[i]) # Key(room[j])

\* Every row ends, unless one was left claimed and the process goes on.
DeliveriesEnd ==
  \A r \in Rows :
     state[r] \in {"pending", "delivering"} ~>
       \/ state[r] \in {"delivered", "failed", "withheld"}
       \/ [](faults > 0 /\ \E q \in Rows : state[q] = "delivering")
\* Every attempt at a row ends with it open or closed for good.
Outcome(r) == CASE state[r] \in {"pending", "delivering"} -> "open"
                [] state[r] \in {"failed", "withheld"} -> "dropped"
                [] OTHER -> state[r]

Room == INSTANCE MessagingRoom WITH
          outcome <- [r \in Rows |-> Outcome(r)],
          log <- [i \in DOMAIN room |-> Key(room[i])]

(* Over claims, failing writes, ambiguous answers, requests that arrive    *)
(* late or not at all, and restarts, the outbox, the worker and the room   *)
(* implement the promise: each part once, in order, nothing overtaken.     *)
ImplementsRoom == Room!Spec
=============================================================================
