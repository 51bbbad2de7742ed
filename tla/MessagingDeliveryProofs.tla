------------------------- MODULE MessagingDeliveryProofs -------------------------
(* Proofs about MessagingDelivery for every number of events, rows, parts   *)
(* and attempts, and any number of crashes and failing writes.              *)
EXTENDS MessagingDelivery, TLAPS

-----------------------------------------------------------------------------
(* The order of the rows.                                                  *)

LEMMA RowsOrdered ==
  ASSUME NEW r \in Rows, NEW q \in Rows
  PROVE  /\ r = q \/ Before(r, q) \/ Before(q, r)
         /\ ~ (Before(r, q) /\ Before(q, r)) /\ ~ Before(r, r)
<1>1. PICK a \in Events, b \in 1 .. MaxChunks : r = <<a, b>>
  BY DEF Rows
<1>2. PICK c \in Events, d \in 1 .. MaxChunks : q = <<c, d>>
  BY DEF Rows
<1>3. a \in Nat /\ b \in Nat /\ c \in Nat /\ d \in Nat
  BY BoundsAssumption DEF Events
<1>4. /\ Before(r, q) <=> a < c \/ (a = c /\ b < d)
      /\ Before(q, r) <=> c < a \/ (a = c /\ d < b)
      /\ Before(r, r) <=> a < a \/ (a = a /\ b < b)
  BY <1>1, <1>2 DEF Before
<1> QED BY <1>1, <1>2, <1>3, <1>4

LEMMA RowIndices ==
  ASSUME NEW r \in Rows
  PROVE  r[1] \in Events /\ r[1] \in Nat /\ r[2] \in Nat
BY BoundsAssumption DEF Rows, Events

LEMMA BeforeTransitive ==
  ASSUME NEW r \in Rows, NEW q \in Rows, NEW p \in Rows, Before(r, q), Before(q, p)
  PROVE  Before(r, p)
BY RowIndices DEF Before

-----------------------------------------------------------------------------
(* The inductive invariant.                                                *)

GivenUp(r) == state[r] \in {"failed", "withheld"}
Open(r) == state[r] \in {"pending", "delivering"}
Working == worker \in {"claimed", "attesting", "sending", "acknowledging"}

\* The worker's row is the one that is delivering, and it awaits a part that is
\* not acknowledged, or none.
WorkerHoldsRow ==
  Working => /\ cur \in Rows /\ state[cur] = "delivering"
             /\ worker \in {"attesting", "sending"} => sent[cur] < Parts
             /\ worker = "acknowledging" => sent[cur] = Parts

\* Rows are inserted with their event, which has at least one, and nothing open
\* is before a row that is delivering or ended.
RowsInOrder ==
  \A r \in Rows :
     /\ state[r] # "none" => r[1] <= settled
     /\ r[1] <= settled /\ r[2] = 1 => state[r] # "none"
     /\ state[r] \notin {"none", "pending"} => \A q \in Rows : Open(q) => ~ Before(q, r)

Identified(m) == m.txn = <<m.row, m.part>>
Identities ==
  /\ \A m \in flight : Identified(m)
  /\ \A i \in DOMAIN room : Identified(room[i])
  /\ \A i, j \in DOMAIN room : i # j => room[i].txn # room[j].txn

Progress ==
  /\ \A r \in Rows : state[r] = "delivered" => sent[r] = Parts
  /\ \A r \in Rows, p \in 1 .. Parts :
        p <= sent[r] => \E i \in DOMAIN room : room[i].row = r /\ room[i].part = p

\* What was sent for a row: the row is there, nothing before it is open, and
\* only the next part may be unaccounted for.
Sent(m) ==
  /\ state[m.row] # "none"
  /\ m.part <= sent[m.row] + 1
  /\ \A q \in Rows : Before(q, m.row) => ~ Open(q)
SentInOrder ==
  /\ \A i \in DOMAIN room : Sent(room[i])
  /\ \A m \in flight : Sent(m)
  /\ \A m \in flight : ~ Known(m) /\ ~ GivenUp(m.row) =>
        Open(m.row) /\ m.part = sent[m.row] + 1

IInv ==
  /\ TypeOK /\ WorkerHoldsRow /\ RowsInOrder /\ Identities
  /\ Progress /\ SentInOrder /\ AnswersInOrder

-----------------------------------------------------------------------------
LEMMA InitInvariant == Init => IInv
<1> SUFFICES ASSUME Init PROVE IInv
  OBVIOUS
<1>0. room = <<>> /\ DOMAIN room = {} /\ flight = {}
  BY DEF Init
<1>1. TypeOK
  BY BoundsAssumption DEF Init, TypeOK, States, Rows, Events
<1>2. WorkerHoldsRow /\ Identities /\ AnswersInOrder /\ SentInOrder
  BY <1>0 DEF Init, WorkerHoldsRow, Working, Identities, AnswersInOrder, SentInOrder
<1>3. RowsInOrder
  BY RowIndices DEF Init, RowsInOrder, Open, Events
<1>4. Progress
  BY <1>0, BoundsAssumption DEF Init, Progress
<1> QED BY <1>1, <1>2, <1>3, <1>4 DEF IInv

\* Steps that change neither the messages nor what was sent of a row, and open
\* no row that was settled, keep what holds of the messages.
LEMMA RowStep ==
  ASSUME IInv, TypeOK', UNCHANGED <<sent, network>>,
         \A r \in Rows : state'[r] # state[r] =>
            \/ state[r] = "none" /\ r[1] > settled /\ state'[r] = "pending"
            \/ Open(r) /\ state'[r] # "none",
         \A r \in Rows : state'[r] = "delivered" => sent[r] = Parts
  PROVE  Identities' /\ Progress' /\ SentInOrder' /\ AnswersInOrder'
<1> USE DEF IInv
<1>0. /\ room' = room /\ flight' = flight /\ sent' = sent
      /\ room \in Seq(Msg) /\ flight \in SUBSET Msg
      /\ \A i \in DOMAIN room : room[i] \in Msg
  BY DEF network, TypeOK
<1>1. Identities'
  BY <1>0 DEF Identities, Identified
<1>2. Progress'
  BY <1>0 DEF Progress
<1>3. \A r \in Rows : GivenUp(r) => GivenUp(r)'
  BY DEF GivenUp, Open
<1>4. \A m \in Msg : Sent(m) => Sent(m)'
  <2> SUFFICES ASSUME NEW m \in Msg, Sent(m)
               PROVE  /\ state'[m.row] # "none"
                      /\ m.part <= sent'[m.row] + 1
                      /\ \A q \in Rows : Before(q, m.row) => ~ Open(q)'
    BY DEF Sent
  <2>1. m.row \in Rows
    BY DEF Msg
  <2>2. /\ state[m.row] # "none" /\ m.part <= sent[m.row] + 1
        /\ \A q \in Rows : Before(q, m.row) => ~ Open(q)
    BY <2>1 DEF Sent
  <2>3. state'[m.row] # "none"
    BY <2>1, <2>2
  <2>4. ASSUME NEW q \in Rows, Before(q, m.row) PROVE ~ Open(q)'
    <3>1. state[q] = "none" => ~ (q[1] > settled)
      <4>1. m.row[1] <= settled
        BY <2>1, <2>2 DEF RowsInOrder
      <4>2. q[1] \in Nat /\ m.row[1] \in Nat /\ settled \in Nat
        <5>1. \A r \in Rows : r[1] \in Nat
          BY RowIndices
        <5>2. settled \in Nat
          BY BoundsAssumption DEF TypeOK
        <5> QED BY <2>1, <5>1, <5>2
      <4> QED BY <2>4, <4>1, <4>2 DEF Before
    <3> QED BY <2>2, <2>4, <3>1 DEF Open
  <2> QED BY <1>0, <2>2, <2>3, <2>4
<1>5. SentInOrder'
  <2>1. (\A i \in DOMAIN room' : Sent(room[i])') /\ (\A m \in flight' : Sent(m)')
    BY <1>0, <1>4 DEF SentInOrder
  <2>2. ASSUME NEW m \in flight', ~ Known(m)', ~ GivenUp(m.row)'
        PROVE  Open(m.row)' /\ m.part = sent'[m.row] + 1
    <3>1. m \in Msg /\ m.row \in Rows /\ m.part \in 1 .. Parts
      BY <1>0 DEF Msg
    <3>2. ~ Known(m) /\ ~ GivenUp(m.row)
      BY <1>0, <1>3, <2>2, <3>1 DEF Known
    <3>3. Open(m.row) /\ m.part = sent[m.row] + 1
      BY <1>0, <3>2 DEF SentInOrder
    <3>4. sent[m.row] # Parts
      BY <3>1, <3>3, BoundsAssumption
    <3>5. state'[m.row] # "delivered" /\ state'[m.row] # "none" /\ state'[m.row] \in States
      BY <3>1, <3>3, <3>4 DEF TypeOK, Open
    <3> QED BY <1>0, <2>2, <3>3, <3>5 DEF States, GivenUp, Open
  <2> QED BY <1>0, <2>1, <2>2 DEF SentInOrder
<1>6. AnswersInOrder'
  BY <1>0, <1>3 DEF AnswersInOrder, GivenUp, Msg
<1> QED BY <1>1, <1>2, <1>5, <1>6

\* Steps that open no row and end or claim none that has an open one before it
\* keep the order of the rows.
LEMMA RowsKept ==
  ASSUME RowsInOrder, UNCHANGED settled,
         \A r \in Rows :
            /\ Open(r)' => Open(r)
            /\ state'[r] # "none" <=> state[r] # "none"
            /\ state'[r] \notin {"none", "pending"} =>
                  \/ state[r] \notin {"none", "pending"}
                  \/ \A q \in Rows : Open(q)' => ~ Before(q, r)
  PROVE  RowsInOrder'
BY DEF RowsInOrder

\* The worker releases its row, and with it perhaps the rest of the event.
LEMMA ReleaseKeepsRow ==
  ASSUME IInv, Working, NEW as \in {"pending", "delivered"},
         as = "delivered" => worker = "acknowledging",
         Released([state EXCEPT ![cur] = as])
  PROVE  IInv'
<1>1. cur \in Rows /\ state[cur] = "delivering"
  BY DEF IInv, WorkerHoldsRow
<1>2. /\ state' = [state EXCEPT ![cur] = as] /\ state \in [Rows -> States]
      /\ UNCHANGED <<settled, sent, attempts, network, bounds>> /\ worker' = "idle" /\ cur' = NoRow
  BY DEF Released, IInv, TypeOK
<1>3. TypeOK'
  BY <1>1, <1>2 DEF IInv, TypeOK, States, network, bounds
<1>4. WorkerHoldsRow'
  BY <1>2 DEF WorkerHoldsRow, Working
<1>5. \A r \in Rows : state'[r] = IF r = cur THEN as ELSE state[r]
  BY <1>1, <1>2
<1>6. RowsInOrder'
  BY <1>1, <1>2, <1>5, RowsKept DEF IInv, Open
<1>7. Identities' /\ Progress' /\ SentInOrder' /\ AnswersInOrder'
  <2>1. \A r \in Rows : state'[r] = "delivered" => sent[r] = Parts
    BY <1>1, <1>5 DEF IInv, Progress, WorkerHoldsRow, Working
  <2> QED BY <1>1, <1>2, <1>3, <1>5, <2>1, RowStep DEF Open
<1> QED BY <1>3, <1>4, <1>6, <1>7 DEF IInv

LEMMA ReleaseGivesUp ==
  ASSUME IInv, Working, NEW as \in {"failed", "withheld"}, Released(Terminated(as))
  PROVE  IInv'
<1>1. cur \in Rows /\ state[cur] = "delivering"
  BY DEF IInv, WorkerHoldsRow
<1>2. /\ state' = Terminated(as) /\ state \in [Rows -> States]
      /\ UNCHANGED <<settled, sent, attempts, network, bounds>> /\ worker' = "idle" /\ cur' = NoRow
  BY DEF Released, IInv, TypeOK
<1> DEFINE rest(r) == r[1] = cur[1] /\ r[2] > cur[2] /\ state[r] # "none"
<1>3. \A r \in Rows : state'[r] = IF r = cur THEN as ELSE IF rest(r) THEN "withheld" ELSE state[r]
  BY <1>2 DEF Terminated
<1>4. \A r \in Rows : rest(r) => Before(cur, r) /\ state[r] = "pending"
  BY <1>1, RowIndices DEF IInv, RowsInOrder, Before, Open
<1>5. TypeOK'
  <2>1. state' \in [Rows -> States]
    BY <1>2, <1>3 DEF Terminated, States
  <2> QED BY <1>1, <1>2, <2>1 DEF IInv, TypeOK, network, bounds
<1>6. WorkerHoldsRow'
  BY <1>2 DEF WorkerHoldsRow, Working
<1>7. RowsInOrder'
  <2>1. ASSUME NEW r \in Rows, rest(r), NEW q \in Rows, Open(q)'
        PROVE  ~ Before(q, r)
    <3>1. q # cur /\ ~ rest(q) /\ Open(q)
      BY <1>3, <2>1 DEF Open
    <3>2. ~ Before(q, cur)
      BY <1>1, <3>1 DEF IInv, RowsInOrder
    <3>3. /\ q[1] \in Nat /\ q[2] \in Nat /\ r[1] \in Nat /\ r[2] \in Nat
          /\ cur[1] \in Nat /\ cur[2] \in Nat
      BY <1>1, RowIndices
    <3>4. Before(cur, q)
      BY <1>1, <3>1, <3>2, RowsOrdered
    <3>5. q[1] > cur[1] \/ ~ (q[2] > cur[2])
      BY <3>1, <3>4 DEF Open, Before
    <3> QED BY <2>1, <3>3, <3>4, <3>5 DEF Before
  <2>2. ASSUME NEW r \in Rows
        PROVE  /\ Open(r)' => Open(r)
               /\ state'[r] # "none" <=> state[r] # "none"
               /\ state'[r] \notin {"none", "pending"} =>
                     \/ state[r] \notin {"none", "pending"}
                     \/ \A q \in Rows : Open(q)' => ~ Before(q, r)
    BY <1>1, <1>3, <2>1 DEF Open
  <2> QED BY <1>2, <2>2, RowsKept DEF IInv
<1>8. Identities' /\ Progress' /\ SentInOrder' /\ AnswersInOrder'
  <2>1. \A r \in Rows : state'[r] = "delivered" => sent[r] = Parts
    BY <1>3 DEF IInv, Progress
  <2> QED BY <1>1, <1>2, <1>3, <1>4, <1>5, <2>1, RowStep DEF Open
<1> QED BY <1>5, <1>6, <1>7, <1>8 DEF IInv

LEMMA WedgeKeeps ==
  ASSUME IInv, Wedges
  PROVE  IInv'
<1>1. UNCHANGED <<settled, state, sent, attempts, network, crashes>> /\ worker' = "idle" /\ cur' = NoRow
  BY DEF Wedges, outbox
<1>2. TypeOK'
  BY <1>1 DEF Wedges, IInv, TypeOK, network
<1>3. RowsInOrder'
  BY <1>1 DEF IInv, RowsInOrder, Open
<1>4. Identities' /\ Progress' /\ SentInOrder' /\ AnswersInOrder'
  BY <1>1, <1>2, RowStep DEF IInv, Progress
<1> QED BY <1>1, <1>2, <1>3, <1>4 DEF IInv, WorkerHoldsRow, Working

-----------------------------------------------------------------------------
(* The steps.                                                              *)

LEMMA EventSettledKeeps ==
  ASSUME IInv, NEW c \in 1 .. MaxChunks, EventSettled(c)
  PROVE  IInv'
<1>1. /\ settled' = settled + 1 /\ settled < MaxEvents /\ settled \in Nat
      /\ UNCHANGED <<sent, attempts, worker, cur, network, bounds>>
      /\ state' = [r \in Rows |-> IF r[1] = settled' /\ r[2] <= c THEN "pending" ELSE state[r]]
  BY BoundsAssumption DEF EventSettled, IInv, TypeOK
<1>2. \A r \in Rows : state'[r] = IF r[1] = settled' /\ r[2] <= c THEN "pending" ELSE state[r]
  BY <1>1
<1>3. \A r \in Rows : r[1] = settled' => state[r] = "none" /\ r[1] > settled
  BY <1>1, RowIndices DEF IInv, RowsInOrder
<1>4. TypeOK'
  <2>1. state' \in [Rows -> States]
    BY <1>1 DEF IInv, TypeOK, States
  <2> QED BY <1>1, <2>1, BoundsAssumption DEF IInv, TypeOK, network, bounds
<1>5. WorkerHoldsRow'
  BY <1>1, <1>2, <1>3 DEF IInv, WorkerHoldsRow, Working
<1>6. RowsInOrder'
  <2>1. ASSUME NEW r \in Rows, state'[r] # "none" PROVE r[1] <= settled'
    BY <1>1, <1>2, <2>1, RowIndices DEF IInv, RowsInOrder
  <2>2. ASSUME NEW r \in Rows, state'[r] \notin {"none", "pending"}, NEW q \in Rows, Open(q)'
        PROVE  ~ Before(q, r)
    <3>1. state[r] = state'[r] /\ r[1] <= settled
      BY <1>2, <2>2 DEF IInv, RowsInOrder
    <3>2. CASE Open(q)
      BY <2>2, <3>1, <3>2 DEF IInv, RowsInOrder
    <3>3. CASE ~ Open(q)
      BY <1>1, <1>2, <2>2, <3>1, <3>3, RowIndices DEF Open, Before
    <3> QED BY <3>2, <3>3
  <2>3. ASSUME NEW r \in Rows, r[1] <= settled', r[2] = 1 PROVE state'[r] # "none"
    BY <1>1, <1>2, <2>3, RowIndices, BoundsAssumption DEF IInv, RowsInOrder
  <2> QED BY <2>1, <2>2, <2>3 DEF RowsInOrder
<1>7. Identities' /\ Progress' /\ SentInOrder' /\ AnswersInOrder'
  <2>1. \A r \in Rows : state'[r] = "delivered" => sent[r] = Parts
    BY <1>2 DEF IInv, Progress
  <2> QED BY <1>1, <1>2, <1>3, <1>4, <2>1, RowStep
<1> QED BY <1>4, <1>5, <1>6, <1>7 DEF IInv

LEMMA StartWorkerKeeps ==
  ASSUME IInv, StartWorker
  PROVE  IInv'
<1>1. /\ worker' = "idle" /\ UNCHANGED <<settled, sent, attempts, cur, network, bounds>>
      /\ state' = [r \in Rows |-> IF state[r] = "delivering" THEN "pending" ELSE state[r]]
  BY DEF StartWorker
<1>2. \A r \in Rows : state'[r] = IF state[r] = "delivering" THEN "pending" ELSE state[r]
  BY <1>1
<1>3. TypeOK'
  <2>1. state' \in [Rows -> States]
    BY <1>1 DEF IInv, TypeOK, States
  <2> QED BY <1>1, <2>1 DEF IInv, TypeOK, network, bounds
<1>4. RowsInOrder'
  BY <1>1, <1>2, RowsKept DEF IInv, Open
<1>5. Identities' /\ Progress' /\ SentInOrder' /\ AnswersInOrder'
  <2>1. \A r \in Rows : state'[r] = "delivered" => sent[r] = Parts
    BY <1>2 DEF IInv, Progress
  <2> QED BY <1>1, <1>2, <1>3, <2>1, RowStep DEF Open
<1> QED BY <1>1, <1>3, <1>4, <1>5 DEF IInv, WorkerHoldsRow, Working

LEMMA ClaimKeeps ==
  ASSUME IInv, NEW r \in Rows, ClaimRow(r)
  PROVE  IInv'
<1>1. /\ state[r] = "pending" /\ \A q \in Rows : Open(q) => q = r \/ Before(r, q)
      /\ state' = [state EXCEPT ![r] = "delivering"] /\ attempts' = [attempts EXCEPT ![r] = @ + 1]
      /\ cur' = r /\ worker' = "claimed"
      /\ UNCHANGED <<settled, sent, network, bounds>>
  BY DEF ClaimRow, Claimable, Nonterminal, Open
<1>2. \A q \in Rows : state'[q] = IF q = r THEN "delivering" ELSE state[q]
  BY <1>1 DEF IInv, TypeOK
<1>3. worker' = "claimed"
  BY <1>1
<1>4. TypeOK'
  BY <1>1, <1>3 DEF IInv, TypeOK, States, network, bounds
<1>5. WorkerHoldsRow'
  BY <1>1, <1>2 DEF WorkerHoldsRow, Working
<1>6. RowsInOrder'
  <2>1. \A q \in Rows : Open(q)' => ~ Before(q, r)
    BY <1>1, <1>2, RowsOrdered DEF Open
  <2> QED BY <1>1, <1>2, <2>1, RowsKept DEF IInv, Open
<1>7. Identities' /\ Progress' /\ SentInOrder' /\ AnswersInOrder'
  <2>1. \A q \in Rows : state'[q] = "delivered" => sent[q] = Parts
    BY <1>2 DEF IInv, Progress
  <2> QED BY <1>1, <1>2, <1>4, <2>1, RowStep DEF Open
<1> QED BY <1>4, <1>5, <1>6, <1>7 DEF IInv

\* The ways a claim ends without progress.
LEMMA WithholdKeeps ==
  ASSUME IInv, Working, Withhold
  PROVE  IInv'
BY ReleaseGivesUp, WedgeKeeps DEF Withhold

LEMMA RetryKeeps ==
  ASSUME IInv, Working, RetryOrWithhold
  PROVE  IInv'
BY ReleaseKeepsRow, WedgeKeeps, WithholdKeeps DEF RetryOrWithhold

LEMMA SendKeeps ==
  ASSUME IInv, Send
  PROVE  IInv'
<1>1. /\ cur \in Rows /\ state[cur] = "delivering" /\ sent[cur] < Parts /\ sent[cur] \in Nat
  BY BoundsAssumption DEF Send, IInv, WorkerHoldsRow, Working, TypeOK
<1>2. /\ worker' = "sending" /\ flight' = flight \union {Message}
      /\ UNCHANGED <<settled, state, sent, attempts, cur, room, bounds>>
  BY DEF Send, outbox
<1>3. /\ Message.row = cur /\ Message.part = sent[cur] + 1
      /\ Message.txn = <<cur, sent[cur] + 1>> /\ Message \in Msg
  BY <1>1, BoundsAssumption DEF Message, Transaction, Msg
<1>4. TypeOK'
  BY <1>2, <1>3 DEF IInv, TypeOK, bounds
<1>5. WorkerHoldsRow' /\ RowsInOrder' /\ Progress' /\ AnswersInOrder'
  BY <1>1, <1>2 DEF IInv, WorkerHoldsRow, Working, RowsInOrder, Open, Progress, AnswersInOrder
<1>6. Identities'
  BY <1>2, <1>3 DEF IInv, Identities, Identified
<1>7. SentInOrder'
  <2>1. \A m : (Sent(m) <=> Sent(m)') /\ (Known(m) <=> Known(m)')
    BY <1>2 DEF Sent, GivenUp, Open, Known
  <2>2. Sent(Message)
    BY <1>1, <1>3 DEF IInv, RowsInOrder, Sent
  <2>3. Open(Message.row) /\ Message.part = sent[Message.row] + 1
    BY <1>1, <1>3 DEF Open
  <2> QED BY <1>2, <2>1, <2>2, <2>3 DEF IInv, SentInOrder, Open, GivenUp
<1> QED BY <1>4, <1>5, <1>6, <1>7 DEF IInv

LEMMA LostKeeps ==
  ASSUME IInv, NEW m \in flight, Lost(m)
  PROVE  IInv'
<1>1. /\ flight' = flight \ {m}
      /\ UNCHANGED <<settled, state, sent, attempts, worker, cur, room, bounds>>
  BY DEF Lost, outbox
<1>2. \A n : (Sent(n) <=> Sent(n)') /\ (Known(n) <=> Known(n)')
  BY <1>1 DEF Sent, GivenUp, Open, Known
<1>3. TypeOK' /\ WorkerHoldsRow' /\ RowsInOrder' /\ Progress' /\ AnswersInOrder'
  BY <1>1 DEF IInv, TypeOK, bounds, WorkerHoldsRow, Working, RowsInOrder, Open, Progress, AnswersInOrder
<1>4. Identities' /\ SentInOrder'
  BY <1>1, <1>2 DEF IInv, Identities, Identified, SentInOrder, GivenUp, Open
<1> QED BY <1>3, <1>4 DEF IInv

LEMMA ArriveKeeps ==
  ASSUME IInv, NEW m \in flight, Arrive(m), ~ Known(m)
  PROVE  IInv'
<1> DEFINE n == Len(room) + 1
<1>1. /\ flight' = flight \ {m} /\ room' = Append(room, m)
      /\ UNCHANGED <<settled, state, sent, attempts, worker, cur, bounds>>
  BY DEF Arrive, outbox
<1>2. /\ room \in Seq(Msg) /\ m \in Msg /\ flight \in SUBSET Msg /\ DOMAIN room = 1 .. Len(room)
      /\ \A i \in DOMAIN room : room[i] \in Msg
  BY DEF IInv, TypeOK
<1>3. /\ DOMAIN room' = 1 .. n /\ room'[n] = m /\ Len(room) \in Nat
      /\ \A i \in DOMAIN room : room'[i] = room[i]
      /\ room' \in Seq(Msg)
  BY <1>1, <1>2
<1>4. \A i \in DOMAIN room' : i = n \/ i \in DOMAIN room
  BY <1>2, <1>3
<1>5. \A k : Sent(k) <=> Sent(k)'
  BY <1>1 DEF Sent, GivenUp, Open
<1>6. TypeOK' /\ WorkerHoldsRow' /\ RowsInOrder'
  BY <1>1, <1>3 DEF IInv, TypeOK, bounds, WorkerHoldsRow, Working, RowsInOrder, Open
<1>7. Progress'
  <2> SUFFICES ASSUME NEW r \in Rows, NEW p \in 1 .. Parts, p <= sent[r]
               PROVE  \E i \in DOMAIN room' : room'[i].row = r /\ room'[i].part = p
    BY <1>1 DEF IInv, Progress
  <2>1. PICK i \in DOMAIN room : room[i].row = r /\ room[i].part = p
    BY DEF IInv, Progress
  <2>2. i \in DOMAIN room' /\ room'[i] = room[i]
    BY <1>2, <1>3
  <2> QED BY <2>1, <2>2
<1>8. Identities'
  <2>1. \A i \in DOMAIN room : room[i].txn # m.txn
    BY DEF Known
  <2> QED BY <1>1, <1>3, <1>4, <2>1 DEF IInv, Identities, Identified
<1>9. SentInOrder'
  <2>1. ASSUME NEW i \in DOMAIN room' PROVE Sent(room[i])'
    <3>1. \E k \in flight \union {room[j] : j \in DOMAIN room} : room'[i] = k /\ Sent(k)
      BY <1>3, <1>4 DEF IInv, SentInOrder
    <3> QED BY <1>1, <3>1 DEF Sent, GivenUp, Open
  <2>2. ASSUME NEW k \in flight', ~ Known(k)', ~ GivenUp(k.row)'
        PROVE  Open(k.row)' /\ k.part = sent'[k.row] + 1
    <3>1. ~ Known(k)
      <4>1. ASSUME NEW i \in DOMAIN room, room[i].txn = k.txn PROVE FALSE
        <5>1. i \in DOMAIN room' /\ room'[i].txn = k.txn
          BY <1>2, <1>3, <4>1
        <5> QED BY <2>2, <5>1 DEF Known
      <4> QED BY <4>1 DEF Known
    <3> QED BY <1>1, <2>2, <3>1 DEF IInv, SentInOrder, GivenUp, Open
  <2> QED BY <1>1, <1>5, <2>1, <2>2 DEF IInv, SentInOrder
<1>10. AnswersInOrder'
  <2>1. ASSUME NEW i \in DOMAIN room, ~ GivenUp(room[i].row), ~ GivenUp(m.row)
        PROVE  Precedes(room[i], m)
    <3>1. room[i].row \in Rows /\ m.row \in Rows /\ room[i].part \in Nat /\ m.part \in Nat
      BY <1>2 DEF Msg
    <3>2. Open(m.row) /\ m.part = sent[m.row] + 1
      BY <2>1 DEF IInv, SentInOrder
    <3>3. room[i].part <= sent[room[i].row] + 1 /\ ~ Before(m.row, room[i].row)
      BY <2>1, <3>1, <3>2 DEF IInv, SentInOrder, Sent
    <3>4. CASE room[i].row = m.row
      <4>1. room[i].part # m.part
        BY <3>4 DEF IInv, Identities, Identified, Known
      <4> QED BY <3>1, <3>2, <3>3, <3>4, <4>1 DEF Precedes, IInv, TypeOK
    <3>5. CASE room[i].row # m.row
      BY <3>1, <3>3, <3>5, RowsOrdered DEF Precedes
    <3> QED BY <3>4, <3>5
  <2>2. ASSUME NEW i \in DOMAIN room', NEW j \in DOMAIN room', i < j
        PROVE  \/ Precedes(room'[i], room'[j])
               \/ state'[room'[i].row] \in {"failed", "withheld"}
               \/ state'[room'[j].row] \in {"failed", "withheld"}
    <3>1. i \in DOMAIN room /\ room'[i] = room[i]
      BY <1>2, <1>3, <2>2
    <3>2. CASE j = n
      BY <1>1, <1>3, <2>1, <3>1, <3>2 DEF GivenUp
    <3>3. CASE j \in DOMAIN room
      BY <1>1, <1>3, <2>2, <3>1, <3>3 DEF IInv, AnswersInOrder
    <3> QED BY <1>4, <3>2, <3>3
  <2> QED BY <2>2 DEF AnswersInOrder
<1> QED BY <1>6, <1>7, <1>8, <1>9, <1>10 DEF IInv

LEMMA AcknowledgedKeeps ==
  ASSUME IInv, Acknowledged, ~ Wedges
  PROVE  IInv'
<1>1. /\ cur \in Rows /\ state[cur] = "delivering" /\ sent[cur] < Parts /\ sent[cur] \in Nat
      /\ sent \in [Rows -> 0 .. Parts]
  BY BoundsAssumption DEF Acknowledged, IInv, WorkerHoldsRow, Working, TypeOK
<1>2. /\ Message \notin flight /\ Known(Message) /\ worker = "sending"
      /\ sent' = [sent EXCEPT ![cur] = @ + 1] /\ worker' = Await(sent'[cur])
      /\ UNCHANGED <<settled, state, attempts, cur, flight, room, bounds>>
  BY DEF Acknowledged, network
<1>3. /\ Message.row = cur /\ Message.part = sent[cur] + 1
      /\ Message.txn = <<cur, sent[cur] + 1>>
  BY DEF Message, Transaction
<1>4. \A r \in Rows : sent'[r] = IF r = cur THEN sent[r] + 1 ELSE sent[r]
  BY <1>1, <1>2
<1>5. PICK k \in DOMAIN room : room[k].txn = Message.txn
  BY <1>2 DEF Known
<1>6. room[k].row = cur /\ room[k].part = sent[cur] + 1
  BY <1>3, <1>5 DEF IInv, Identities, Identified
<1>7. /\ \A i \in DOMAIN room : room[i] \in Msg /\ room[i].row \in Rows /\ room[i].part \in Nat
      /\ \A m \in flight : m \in Msg /\ m.row \in Rows /\ m.part \in Nat
  <2>1. \A m \in Msg : m.row \in Rows /\ m.part \in Nat
    BY DEF Msg
  <2>2. flight \in SUBSET Msg /\ \A i \in DOMAIN room : room[i] \in Msg
    BY DEF IInv, TypeOK
  <2> QED BY <2>1, <2>2
<1>8. TypeOK'
  BY <1>1, <1>2, <1>4, BoundsAssumption DEF IInv, TypeOK, Await, bounds
<1>9. WorkerHoldsRow' /\ RowsInOrder' /\ Identities' /\ AnswersInOrder'
  <2>1. WorkerHoldsRow'
    BY <1>1, <1>2, <1>4, BoundsAssumption DEF WorkerHoldsRow, Working, Await
  <2> QED BY <1>2, <2>1 DEF IInv, RowsInOrder, Open, Identities, Identified, AnswersInOrder
<1>10. Progress'
  <2>1. \A r \in Rows : state'[r] = "delivered" => sent'[r] = Parts
    BY <1>1, <1>2, <1>4 DEF IInv, Progress
  <2>2. ASSUME NEW r \in Rows, NEW p \in 1 .. Parts, p <= sent'[r]
        PROVE  \E i \in DOMAIN room : room[i].row = r /\ room[i].part = p
    <3>1. CASE p <= sent[r]
      BY <3>1 DEF IInv, Progress
    <3>2. CASE ~ (p <= sent[r])
      <4>1. r = cur /\ p = sent[cur] + 1
        BY <1>1, <1>4, <2>2, <3>2
      <4> QED BY <1>6, <4>1
    <3> QED BY <3>1, <3>2
  <2> QED BY <1>2, <2>1, <2>2 DEF Progress
<1>11. SentInOrder'
  <2>1. ASSUME NEW m \in Msg, Sent(m) PROVE Sent(m)'
    <3>1. m.row \in Rows /\ m.part \in Nat
      BY DEF Msg
    <3> QED BY <1>1, <1>2, <1>4, <2>1, <3>1 DEF Sent, GivenUp, Open
  <2>2. ASSUME NEW m \in flight, ~ Known(m), ~ GivenUp(m.row)
        PROVE  Open(m.row) /\ m.part = sent'[m.row] + 1
    <3>1. Open(m.row) /\ m.part = sent[m.row] + 1
      BY <2>2 DEF IInv, SentInOrder
    <3>2. m.row # cur
      <4>1. m.row = cur => m.txn = Message.txn
        BY <1>3, <3>1 DEF IInv, Identities, Identified
      <4> QED BY <1>2, <2>2, <4>1 DEF Known
    <3> QED BY <1>4, <1>7, <3>1, <3>2
  <2> QED BY <1>2, <1>7, <2>1, <2>2 DEF IInv, SentInOrder, Known, GivenUp, Open
<1> QED BY <1>8, <1>9, <1>10, <1>11 DEF IInv

LEMMA ExamineKeeps ==
  ASSUME IInv, worker = "claimed", worker' = Await(sent[cur]),
         UNCHANGED <<settled, outbox, cur, network, bounds>>
  PROVE  IInv'
<1>1. /\ cur \in Rows /\ state[cur] = "delivering" /\ sent[cur] \in 0 .. Parts
  BY DEF IInv, WorkerHoldsRow, Working, TypeOK
<1>2. /\ UNCHANGED <<settled, state, sent, attempts, cur, network, bounds>>
      /\ worker' \in {"attesting", "acknowledging"}
  BY DEF outbox, Await
<1>3. TypeOK'
  BY <1>2 DEF IInv, TypeOK, network, bounds
<1>4. WorkerHoldsRow'
  BY <1>1, <1>2, BoundsAssumption DEF WorkerHoldsRow, Working, Await
<1>5. RowsInOrder'
  BY <1>2 DEF IInv, RowsInOrder, Open
<1>6. Identities' /\ Progress' /\ SentInOrder' /\ AnswersInOrder'
  BY <1>2, <1>3, RowStep DEF IInv, Progress
<1> QED BY <1>3, <1>4, <1>5, <1>6 DEF IInv

LEMMA CrashKeeps ==
  ASSUME IInv, Crash
  PROVE  IInv'
<1>1. /\ worker' = "down" /\ cur' = NoRow /\ crashes' = crashes + 1
      /\ UNCHANGED <<settled, state, sent, attempts, network, faults>>
  BY DEF Crash, outbox
<1>2. TypeOK'
  BY <1>1 DEF IInv, TypeOK, network
<1>3. RowsInOrder'
  BY <1>1 DEF IInv, RowsInOrder, Open
<1>4. Identities' /\ Progress' /\ SentInOrder' /\ AnswersInOrder'
  BY <1>1, <1>2, RowStep DEF IInv, Progress
<1> QED BY <1>1, <1>2, <1>3, <1>4 DEF IInv, WorkerHoldsRow, Working

LEMMA StepInvariant == IInv /\ [Next]_vars => IInv'
<1> SUFFICES ASSUME IInv, [Next]_vars PROVE IInv'
  OBVIOUS
<1>1. CASE StartWorker
  BY <1>1, StartWorkerKeeps
<1>2. CASE AttestFails
  BY <1>2, RetryKeeps, WithholdKeeps DEF AttestFails, Working
<1>3. CASE Send
  BY <1>3, SendKeeps
<1>4. CASE Acknowledged
  BY <1>4, AcknowledgedKeeps, WedgeKeeps
<1>5. CASE Ambiguous
  BY <1>5, RetryKeeps DEF Ambiguous, Working
<1>6. CASE Rejected
  BY <1>6, ReleaseGivesUp, WedgeKeeps DEF Rejected, Working
<1>7. CASE Deliver
  BY <1>7, ReleaseKeepsRow, WedgeKeeps DEF Deliver, Working
<1>8. CASE \E r \in Rows : ClaimRow(r)
  BY <1>8, ClaimKeeps
<1>14. CASE Examine
  BY <1>14, ExamineKeeps, WithholdKeeps DEF Examine, Working
<1>9. CASE Crash
  BY <1>9, CrashKeeps
<1>10. CASE \E c \in 1 .. MaxChunks : EventSettled(c)
  BY <1>10, EventSettledKeeps
<1>11. ASSUME NEW m \in flight, Arrive(m) PROVE IInv'
  <2>1. CASE Known(m)
    <3>1. Lost(m)
      BY <1>11, <2>1 DEF Arrive, Lost
    <3> QED BY <3>1, LostKeeps
  <2>2. CASE ~ Known(m)
    BY <1>11, <2>2, ArriveKeeps
  <2> QED BY <2>1, <2>2
<1>12. ASSUME NEW m \in flight, Lost(m) PROVE IInv'
  BY <1>12, LostKeeps
<1>13. CASE UNCHANGED vars
  BY <1>13 DEF vars, outbox, network, bounds, IInv, TypeOK, WorkerHoldsRow, Working, RowsInOrder,
               Open, Identities, Identified, Progress, SentInOrder, Sent, GivenUp, Known, AnswersInOrder
<1> QED BY <1>1, <1>2, <1>3, <1>4, <1>5, <1>6, <1>7, <1>8, <1>9, <1>10, <1>11, <1>12, <1>13,
           <1>14 DEF Next, Worker

LEMMA Invariant == Spec => []IInv
BY InitInvariant, StepInvariant, PTL DEF Spec

-----------------------------------------------------------------------------
(* The refinement of MessagingRoom.                                        *)

Outcomes == [r \in Rows |-> Outcome(r)]
Log == [i \in DOMAIN room |-> Key(room[i])]
Shows(r, p) == \E i \in DOMAIN room : Key(room[i]) = <<r, p>>

\* The abstract steps in the terms of the model.
LEMMA RoomTerms ==
  /\ \A e, c : Room!Answer(e, c) <=>
       /\ \A r \in Rows : /\ r[1] >= e => Outcome(r) = "none"
                          /\ r[1] < e /\ r[2] = 1 => Outcome(r) # "none"
       /\ Outcomes' = [r \in Rows |-> IF r[1] = e /\ r[2] <= c THEN "open" ELSE Outcome(r)]
       /\ Log' = Log
  /\ \A r \in Rows : \A p : Room!Show(r, p) <=>
       /\ Outcome(r) \in {"open", "dropped"}
       /\ \A q \in Rows : Before(q, r) => Outcome(q) # "open"
       /\ ~ Shows(r, p) /\ \A k \in 1 .. p - 1 : Shows(r, k)
       /\ Log' = Append(Log, <<r, p>>)
       /\ Outcomes' = Outcomes
  /\ \A r \in Rows : Room!Deliver(r) <=>
       /\ Outcome(r) = "open"
       /\ \A q \in Rows : Before(q, r) => Outcome(q) # "open"
       /\ \A p \in 1 .. Parts : Shows(r, p)
       /\ Outcomes' = [Outcomes EXCEPT ![r] = "delivered"]
       /\ Log' = Log
  /\ \A r \in Rows : Room!Drop(r) <=>
       /\ Outcome(r) = "open"
       /\ \A q \in Rows : Before(q, r) => Outcome(q) # "open"
       /\ Outcomes' = [q \in Rows |-> IF q[1] = r[1] /\ Outcome(q) = "open" THEN "dropped"
                                      ELSE Outcome(q)]
       /\ Log' = Log
  /\ UNCHANGED Room!history <=> Outcomes' = Outcomes /\ Log' = Log
<1>1. Room!Rows = Rows
  BY DEF Room!Rows, Rows, Events
<1>2. \A r, q : Room!Before(r, q) <=> Before(r, q)
  BY DEF Room!Before, Before
<1>3. \A r, p : Room!Shown(r, p) <=> Shows(r, p)
  BY DEF Room!Shown, Shows
<1>4. \A r \in Rows : Room!Due(r) <=> \A q \in Rows : Before(q, r) => Outcome(q) # "open"
  BY <1>1, <1>2 DEF Room!Due
<1>5. \A e, c : Room!Answer(e, c) <=>
       /\ \A r \in Rows : /\ r[1] >= e => Outcome(r) = "none"
                          /\ r[1] < e /\ r[2] = 1 => Outcome(r) # "none"
       /\ Outcomes' = [r \in Rows |-> IF r[1] = e /\ r[2] <= c THEN "open" ELSE Outcome(r)]
       /\ Log' = Log
  BY <1>1 DEF Room!Answer, Outcomes, Log
<1>6. \A r \in Rows : \A p : Room!Show(r, p) <=>
       /\ Outcome(r) \in {"open", "dropped"}
       /\ \A q \in Rows : Before(q, r) => Outcome(q) # "open"
       /\ ~ Shows(r, p) /\ \A k \in 1 .. p - 1 : Shows(r, k)
       /\ Log' = Append(Log, <<r, p>>)
       /\ Outcomes' = Outcomes
  BY <1>1, <1>3, <1>4 DEF Room!Show, Outcomes, Log
<1>7. \A r \in Rows : Room!Deliver(r) <=>
       /\ Outcome(r) = "open"
       /\ \A q \in Rows : Before(q, r) => Outcome(q) # "open"
       /\ \A p \in 1 .. Parts : Shows(r, p)
       /\ Outcomes' = [Outcomes EXCEPT ![r] = "delivered"]
       /\ Log' = Log
  BY <1>1, <1>3, <1>4 DEF Room!Deliver, Outcomes, Log
<1>8. \A r \in Rows : Room!Drop(r) <=>
       /\ Outcome(r) = "open"
       /\ \A q \in Rows : Before(q, r) => Outcome(q) # "open"
       /\ Outcomes' = [q \in Rows |-> IF q[1] = r[1] /\ Outcome(q) = "open" THEN "dropped"
                                      ELSE Outcome(q)]
       /\ Log' = Log
  BY <1>1, <1>4 DEF Room!Drop, Outcomes, Log
<1>9. UNCHANGED Room!history <=> Outcomes' = Outcomes /\ Log' = Log
  BY DEF Room!history, Outcomes, Log
<1> QED BY <1>5, <1>6, <1>7, <1>8, <1>9

LEMMA OutcomeOf ==
  ASSUME TypeOK, NEW r \in Rows
  PROVE  /\ Outcome(r) \in {"none", "open", "delivered", "dropped"}
         /\ Outcome(r) = "open" <=> Open(r)
         /\ Outcome(r) = "dropped" <=> GivenUp(r)
         /\ Outcome(r) = "none" <=> state[r] = "none"
         /\ Outcome(r) = "delivered" <=> state[r] = "delivered"
<1>1. state[r] \in States
  BY DEF TypeOK
<1> QED BY <1>1 DEF Outcome, States, Open, GivenUp

LEMMA LogAppends ==
  ASSUME TypeOK, NEW m \in Msg, room' = Append(room, m)
  PROVE  Log' = Append(Log, Key(m))
<1>1. room \in Seq(Msg) /\ Len(room) \in Nat /\ DOMAIN room = 1 .. Len(room)
  BY DEF TypeOK
<1>2. /\ DOMAIN room' = 1 .. Len(room) + 1 /\ room'[Len(room) + 1] = m
      /\ \A i \in 1 .. Len(room) : room'[i] = room[i]
  BY <1>1
<1> DEFINE K == Rows \X (1 .. Parts)
<1>3. \A i \in 1 .. Len(room) : Key(room[i]) \in K
  <2>1. \A n \in Msg : Key(n) \in K
    BY DEF Msg, Key
  <2> QED BY <1>1, <2>1
<1>4. Log \in Seq(K) /\ Len(Log) = Len(room)
  BY <1>1, <1>3 DEF Log
<1>5. Key(m) \in K
  BY DEF Msg, Key
<1>6. Log' = [i \in 1 .. Len(room) + 1 |-> Key(room'[i])]
  BY <1>2 DEF Log, Key
<1> HIDE DEF K
<1>7. /\ DOMAIN Append(Log, Key(m)) = 1 .. Len(room) + 1
      /\ Append(Log, Key(m))[Len(room) + 1] = Key(m)
      /\ \A i \in 1 .. Len(room) : Append(Log, Key(m))[i] = Log[i]
      /\ Append(Log, Key(m)) = [i \in 1 .. Len(room) + 1 |-> Append(Log, Key(m))[i]]
  <2>1. Append(Log, Key(m)) \in Seq(K) /\ Len(Append(Log, Key(m))) = Len(room) + 1
    BY <1>4, <1>5
  <2>2. \A t \in Seq(K) : t = [i \in 1 .. Len(t) |-> t[i]] /\ DOMAIN t = 1 .. Len(t)
    OBVIOUS
  <2>3. /\ Append(Log, Key(m))[Len(Log) + 1] = Key(m)
        /\ \A i \in 1 .. Len(Log) : Append(Log, Key(m))[i] = Log[i]
    BY <1>4, <1>5
  <2>4. /\ DOMAIN Append(Log, Key(m)) = 1 .. Len(room) + 1
        /\ Append(Log, Key(m)) = [i \in 1 .. Len(room) + 1 |-> Append(Log, Key(m))[i]]
    BY <2>1, <2>2
  <2> QED BY <1>4, <2>3, <2>4
<1>8. \A i \in 1 .. Len(room) + 1 : Key(room'[i]) = Append(Log, Key(m))[i]
  BY <1>1, <1>2, <1>7 DEF Log
<1> QED BY <1>6, <1>7, <1>8

\* Whatever becomes of a row, it stays open or closed as it was.
LEMMA RoomUnchanged ==
  ASSUME room' = room, \A r \in Rows : Outcome(r)' = Outcome(r)
  PROVE  UNCHANGED Room!history
<1>1. Outcomes' = Outcomes /\ Log' = Log
  BY DEF Outcomes, Log, Key
<1> QED BY <1>1, RoomTerms

LEMMA RoomNext ==
  /\ \A r \in Rows : Room!Deliver(r) \/ Room!Drop(r) => Room!Next
  /\ \A r \in Rows, p \in 1 .. Parts : Room!Show(r, p) => Room!Next
  /\ \A e \in Events, c \in 1 .. MaxChunks : Room!Answer(e, c) => Room!Next
BY DEF Room!Next, Room!Rows, Rows, Events

LEMMA WedgeIsQuiet ==
  ASSUME IInv, Wedges
  PROVE  UNCHANGED Room!history
<1>1. room' = room /\ state' = state
  BY DEF Wedges, outbox, network
<1> QED BY <1>1, RoomUnchanged DEF Outcome

LEMMA RowIsDue ==
  ASSUME IInv, Working
  PROVE  /\ cur \in Rows /\ state[cur] = "delivering" /\ Outcome(cur) = "open"
         /\ \A q \in Rows : Before(q, cur) => Outcome(q) # "open"
<1>1. cur \in Rows /\ state[cur] = "delivering"
  BY DEF IInv, WorkerHoldsRow
<1> QED BY <1>1, OutcomeOf DEF IInv, RowsInOrder, Open

LEMMA GivingUpDrops ==
  ASSUME IInv, Working, NEW as \in {"failed", "withheld"}, Released(Terminated(as))
  PROVE  Room!Drop(cur)
<1>1. cur \in Rows /\ state[cur] = "delivering" /\ TypeOK
  BY RowIsDue DEF IInv
<1>2. room' = room /\ state' = Terminated(as)
  BY DEF Released, network
<1>3. ASSUME NEW r \in Rows
      PROVE  Outcome(r)' = IF r[1] = cur[1] /\ Outcome(r) = "open" THEN "dropped" ELSE Outcome(r)
  <2>1. CASE r = cur
    <3>1. state'[r] = as /\ Outcome(r) = "open"
      BY <1>2, <2>1, RowIsDue DEF Terminated
    <3> QED BY <2>1, <3>1 DEF Outcome
  <2>2. CASE r # cur /\ r[1] = cur[1] /\ r[2] > cur[2] /\ state[r] # "none"
    <3>1. state'[r] = "withheld"
      BY <1>1, <1>2, <2>2 DEF Terminated
    <3>2. Before(cur, r)
      BY <2>2 DEF Before
    <3>3. Open(r)
      BY <1>1, <2>2, <3>2 DEF IInv, RowsInOrder, Open
    <3> QED BY <1>1, <2>2, <3>1, <3>3, OutcomeOf DEF Outcome
  <2>3. CASE r # cur /\ ~ (r[1] = cur[1] /\ r[2] > cur[2] /\ state[r] # "none")
    <3>1. state'[r] = state[r]
      BY <1>2, <2>3 DEF Terminated
    <3>2. Outcome(r)' = Outcome(r)
      BY <3>1 DEF Outcome
    <3>3. ASSUME r[1] = cur[1], Outcome(r) = "open" PROVE FALSE
      <4>1. Open(r)
        BY <1>1, <3>3, OutcomeOf
      <4>2. ~ Before(r, cur)
        BY <1>1, <4>1 DEF IInv, RowsInOrder
      <4>3. Before(cur, r)
        BY <1>1, <2>3, <4>2, RowsOrdered
      <4> QED BY <1>1, <2>3, <3>3, <4>1, <4>3, RowIndices DEF Before, Open
    <3> QED BY <3>2, <3>3
  <2> QED BY <2>1, <2>2, <2>3
<1>4. /\ Outcomes' = [r \in Rows |-> IF r[1] = cur[1] /\ Outcome(r) = "open" THEN "dropped"
                                     ELSE Outcome(r)]
      /\ Log' = Log
  BY <1>2, <1>3 DEF Outcomes, Log, Key
<1> QED BY <1>1, <1>4, RowIsDue, RoomTerms

\* The ways a claim ends without progress.
LEMMA WithholdRefines ==
  ASSUME IInv, Working, Withhold
  PROVE  [Room!Next]_(Room!history)
BY GivingUpDrops, WedgeIsQuiet, RowIsDue, RoomNext DEF Withhold

LEMMA RetryRefines ==
  ASSUME IInv, Working, RetryOrWithhold
  PROVE  [Room!Next]_(Room!history)
<1>1. CASE Released([state EXCEPT ![cur] = "pending"])
  <2>1. room' = room /\ state' = [state EXCEPT ![cur] = "pending"] /\ state \in [Rows -> States]
    BY <1>1 DEF Released, network, IInv, TypeOK
  <2>2. \A r \in Rows : Outcome(r)' = Outcome(r)
    BY <2>1, RowIsDue DEF Outcome
  <2> QED BY <2>1, <2>2, RoomUnchanged
<1> QED BY <1>1, WithholdRefines, WedgeIsQuiet DEF RetryOrWithhold

LEMMA DeliverRefines ==
  ASSUME IInv, Deliver
  PROVE  [Room!Next]_(Room!history)
<1>0. Working /\ cur \in Rows /\ state[cur] = "delivering" /\ sent[cur] = Parts
  BY RowIsDue DEF Deliver, Working, IInv, WorkerHoldsRow
<1>1. CASE Released([state EXCEPT ![cur] = "delivered"])
  <2>1. room' = room /\ state' = [state EXCEPT ![cur] = "delivered"] /\ state \in [Rows -> States]
    BY <1>1 DEF Released, network, IInv, TypeOK
  <2>2. \A p \in 1 .. Parts : Shows(cur, p)
    <3> SUFFICES ASSUME NEW p \in 1 .. Parts PROVE Shows(cur, p)
      OBVIOUS
    <3>1. p <= sent[cur]
      BY <1>0, BoundsAssumption
    <3>2. PICK i \in DOMAIN room : room[i].row = cur /\ room[i].part = p
      BY <1>0, <3>1 DEF IInv, Progress
    <3> QED BY <3>2 DEF Shows, Key
  <2>3. \A r \in Rows : Outcome(r)' = IF r = cur THEN "delivered" ELSE Outcome(r)
    BY <1>0, <2>1 DEF Outcome
  <2>4. Outcomes' = [Outcomes EXCEPT ![cur] = "delivered"] /\ Log' = Log
    BY <1>0, <2>1, <2>3 DEF Outcomes, Log, Key
  <2> QED BY <1>0, <2>2, <2>4, RowIsDue, RoomTerms, RoomNext
<1> QED BY <1>1, WedgeIsQuiet DEF Deliver

LEMMA EventSettledRefines ==
  ASSUME IInv, NEW c \in 1 .. MaxChunks, EventSettled(c)
  PROVE  Room!Next
<1> DEFINE e == settled + 1
<1>1. /\ settled < MaxEvents /\ settled \in Nat /\ room' = room /\ e \in Events
      /\ state' = [r \in Rows |-> IF r[1] = e /\ r[2] <= c THEN "pending" ELSE state[r]]
      /\ TypeOK
  BY BoundsAssumption DEF EventSettled, IInv, TypeOK, network, Events
<1>2. ASSUME NEW r \in Rows
      PROVE  /\ r[1] >= e => Outcome(r) = "none"
             /\ r[1] < e /\ r[2] = 1 => Outcome(r) # "none"
  <2>1. r[1] >= e => state[r] = "none"
    BY <1>1, RowIndices DEF IInv, RowsInOrder
  <2>2. r[1] < e /\ r[2] = 1 => state[r] # "none"
    BY <1>1, RowIndices DEF IInv, RowsInOrder
  <2> QED BY <1>1, <2>1, <2>2, OutcomeOf
<1>3. \A r \in Rows : Outcome(r)' = IF r[1] = e /\ r[2] <= c THEN "open" ELSE Outcome(r)
  BY <1>1 DEF Outcome
<1>4. /\ Outcomes' = [r \in Rows |-> IF r[1] = e /\ r[2] <= c THEN "open" ELSE Outcome(r)]
      /\ Log' = Log
  BY <1>1, <1>3 DEF Outcomes, Log, Key
<1>5. Room!Answer(e, c)
  BY <1>2, <1>4, RoomTerms
<1> QED BY <1>1, <1>5, RoomNext

LEMMA ArriveRefines ==
  ASSUME IInv, NEW m \in flight, Arrive(m), ~ Known(m)
  PROVE  Room!Next
<1>1. /\ room' = Append(room, m) /\ state' = state /\ m \in Msg /\ TypeOK
      /\ m.row \in Rows /\ m.part \in 1 .. Parts /\ Key(m) = <<m.row, m.part>>
  BY DEF Arrive, outbox, IInv, TypeOK, Msg, Key
<1>2. Sent(m) /\ (~ GivenUp(m.row) => Open(m.row))
  BY DEF IInv, SentInOrder
<1>3. /\ Outcome(m.row) \in {"open", "dropped"}
      /\ \A q \in Rows : Before(q, m.row) => Outcome(q) # "open"
  BY <1>1, <1>2, OutcomeOf DEF Sent
<1>4. ~ Shows(m.row, m.part)
  <2>1. ASSUME NEW i \in DOMAIN room, Key(room[i]) = <<m.row, m.part>> PROVE FALSE
    <3>1. room[i].txn = Key(room[i]) /\ m.txn = <<m.row, m.part>>
      BY DEF IInv, Identities, Identified, Key
    <3> QED BY <2>1, <3>1 DEF Known
  <2> QED BY <2>1 DEF Shows
<1>5. \A k \in 1 .. m.part - 1 : Shows(m.row, k)
  <2> SUFFICES ASSUME NEW k \in 1 .. m.part - 1 PROVE Shows(m.row, k)
    OBVIOUS
  <2>1. k \in 1 .. Parts /\ k <= sent[m.row]
    BY <1>1, <1>2, BoundsAssumption DEF Sent, TypeOK
  <2>2. PICK i \in DOMAIN room : room[i].row = m.row /\ room[i].part = k
    BY <1>1, <2>1 DEF IInv, Progress
  <2> QED BY <2>2 DEF Shows, Key
<1>6. Log' = Append(Log, <<m.row, m.part>>)
  BY <1>1, LogAppends
<1>7. Outcomes' = Outcomes
  BY <1>1 DEF Outcomes, Outcome
<1>8. Room!Show(m.row, m.part)
  BY <1>1, <1>3, <1>4, <1>5, <1>6, <1>7, RoomTerms
<1> QED BY <1>1, <1>8, RoomNext

LEMMA RoomInit == Init => Room!Init
<1> SUFFICES ASSUME Init PROVE Room!Init
  OBVIOUS
<1>1. Log = <<>>
  BY DEF Init, Log
<1>2. Outcomes = [r \in Rows |-> "none"] /\ Rows = Room!Rows
  BY DEF Init, Outcomes, Outcome, Rows, Room!Rows, Events
<1> QED BY <1>1, <1>2 DEF Room!Init, Log, Outcomes

LEMMA RoomStep == IInv /\ [Next]_vars => [Room!Next]_(Room!history)
<1> SUFFICES ASSUME IInv, [Next]_vars PROVE [Room!Next]_(Room!history)
  OBVIOUS
<1>1. CASE \/ Send \/ Crash \/ UNCHANGED vars \/ (Acknowledged /\ ~ Wedges)
           \/ (worker = "claimed" /\ UNCHANGED <<outbox, network>>)
           \/ (\E r \in Rows : ClaimRow(r)) \/ (\E m \in flight : Lost(m))
           \/ \E m \in flight : Arrive(m) /\ Known(m)
  <2>1. room' = room
    BY <1>1 DEF Send, Crash, vars, Acknowledged, ClaimRow, Lost, Arrive, network
  <2>2. \/ state' = state
        \/ \E r \in Rows : Open(r) /\ state' = [state EXCEPT ![r] = "delivering"]
    BY <1>1 DEF Send, Crash, vars, Acknowledged, ClaimRow, Claimable, Open, Lost, Arrive, outbox
  <2>3. \A r \in Rows : Outcome(r)' = Outcome(r)
    BY <2>2 DEF Outcome, Open, IInv, TypeOK
  <2> QED BY <2>1, <2>3, RoomUnchanged
<1>2. CASE StartWorker
  <2>1. room' = room
        /\ state' = [r \in Rows |-> IF state[r] = "delivering" THEN "pending" ELSE state[r]]
    BY <1>2 DEF StartWorker, network
  <2>2. \A r \in Rows : Outcome(r)' = Outcome(r)
    BY <2>1 DEF Outcome
  <2> QED BY <2>1, <2>2, RoomUnchanged
<1>3. CASE AttestFails
  BY <1>3, RetryRefines, WithholdRefines DEF AttestFails, Working
<1>4. CASE Ambiguous
  BY <1>4, RetryRefines DEF Ambiguous, Working
<1>5. CASE Rejected
  BY <1>5, GivingUpDrops, WedgeIsQuiet, RowIsDue, RoomNext DEF Rejected, Working
<1>6. CASE Wedges
  BY <1>6, WedgeIsQuiet
<1>7. CASE \E m \in flight : Arrive(m) /\ ~ Known(m)
  BY <1>7, ArriveRefines
<1>8. CASE \E c \in 1 .. MaxChunks : EventSettled(c)
  BY <1>8, EventSettledRefines
<1>9. CASE Examine
  BY <1>1, <1>9, WithholdRefines DEF Examine, Working
<1> QED BY <1>1, <1>2, <1>3, <1>4, <1>5, <1>6, <1>7, <1>8, <1>9, DeliverRefines DEF Next, Worker

-----------------------------------------------------------------------------
(* What follows.                                                           *)

(* Every reachable state of the outbox is well typed.                      *)
THEOREM TypeCorrect == Spec => []TypeOK
<1>1. IInv => TypeOK
  BY DEF IInv
<1> QED BY <1>1, Invariant, PTL

(* The room shows the messages in the order of the events, their rows and  *)
(* parts, but for what was given up.                                       *)
THEOREM OrderKept == Spec => []AnswersInOrder
<1>1. IInv => AnswersInOrder
  BY DEF IInv
<1> QED BY <1>1, Invariant, PTL

(* No retry and no restart shows a message twice.                          *)
THEOREM NothingDuplicated == Spec => []NoDuplicate
<1>1. IInv => NoDuplicate
  <2> SUFFICES ASSUME IInv, NEW i \in DOMAIN room, NEW j \in DOMAIN room, i # j
               PROVE  Key(room[i]) # Key(room[j])
    BY DEF NoDuplicate
  <2>1. room[i].txn # room[j].txn /\ Identified(room[i]) /\ Identified(room[j])
    BY DEF IInv, Identities
  <2> QED BY <2>1 DEF Identified, Key
<1> QED BY <1>1, Invariant, PTL

(* A row that counts as delivered is in the room with all its parts.       *)
THEOREM DeliveredVisible == Spec => []DeliveredIsVisible
<1>1. IInv => DeliveredIsVisible
  <2> SUFFICES ASSUME IInv, NEW r \in Rows, state[r] = "delivered", NEW p \in 1 .. Parts
               PROVE  \E i \in DOMAIN room : room[i].row = r /\ room[i].part = p
    BY DEF DeliveredIsVisible
  <2>1. p <= sent[r]
    BY BoundsAssumption DEF IInv, Progress
  <2> QED BY <2>1 DEF IInv, Progress
<1> QED BY <1>1, Invariant, PTL
(* The outbox, its worker and the network, crashes, failing writes, late   *)
(* and lost requests included, implement the room that MessagingRoom       *)
(* promises: every part once and in order, nothing passes an open row, and *)
(* a row counts as delivered only when all of it is shown.                 *)
THEOREM RoomImplemented == Spec => ImplementsRoom
BY RoomInit, RoomStep, Invariant, PTL DEF Spec, ImplementsRoom, Room!Spec
=============================================================================
