------------------------ MODULE InterviewDeliveryProofs ------------------------
(* Proofs about InterviewDelivery for every number of requests, tasks and   *)
(* attempts, and any number of stops, crashes and failing writes.           *)
EXTENDS InterviewDelivery, TLAPS, WellFoundedInduction

-----------------------------------------------------------------------------
(* The inductive invariant.                                                *)

RowType == [status : {"none", "open", "submitted", "cancelled", "delivered"},
            mode : {"none", "tool_result", "custom_message"}, entry : Nat]
EntryType == [req : Requests, kind : {"tool", "custom"}]
TaskType == [req : Requests \union {0}, op : {"none", "confirm", "deliver"}, left : Nat,
             at : {"none", "queued", "probing", "dispatching", "observing", "marking", "asleep", "done"},
             mode : {"none", "tool_result", "custom_message"}, entry : Nat]

\* The record of an answered request.
Answered(q) == row[q].status \in {"submitted", "delivered"}

\* The entry that the task is about to record carries its answer, in the mode
\* that the task records unless the record has a mode already.
EntryMatches(t) ==
  LET k == task[t] IN
  /\ k.entry \in DOMAIN log /\ log[k.entry].req = k.req
  /\ k.mode = ModeOf(log[k.entry].kind) \/ row[k.req].status = "delivered"

\* A task that has not ended is about an answered request and has an attempt
\* left, only deliveries dispatch and sleep, and tasks begin in order.
SoundTask(t) ==
  /\ task[t].at \notin {"none", "done"} =>
       task[t].op # "none" /\ task[t].left >= 1 /\ task[t].req \in Requests /\ Answered(task[t].req)
  /\ task[t].at \in {"dispatching", "observing", "asleep"} => task[t].op = "deliver"
  /\ task[t].at = "marking" => EntryMatches(t)
  /\ t > used => task[t].at = "none"

\* A message under way has no entry yet, and its admission is kept unless the
\* answer was delivered otherwise.
UnderWay(q) ==
  sdk[q] # "none" => /\ \A i \in DOMAIN log : log[i] # [req |-> q, kind |-> "custom"]
                     /\ q \in admitted \/ row[q].status = "delivered"

\* The record of a delivered answer names an entry of its kind.
NamesEntry(q) ==
  row[q].status = "delivered" =>
    /\ row[q].entry \in DOMAIN log /\ log[row[q].entry].req = q
    /\ row[q].mode = ModeOf(log[row[q].entry].kind)

IInv ==
  /\ TypeOK /\ CustomOnce /\ HandoffHeld
  /\ \A t \in Tasks : SoundTask(t)
  /\ \A q \in Requests : UnderWay(q) /\ NamesEntry(q)

-----------------------------------------------------------------------------
(* Evidence.                                                               *)

LEMMA Least ==
  ASSUME NEW S \in SUBSET Nat, S # {}
  PROVE  \E x \in S : \A y \in S : x <= y
<1>1. \E x \in S : \A y \in S : ~ (<<y, x>> \in OpToRel(<, Nat))
  BY NatLessThanWellFounded, WFMin
<1>2. \A x, y \in Nat : ~ (<<y, x>> \in OpToRel(<, Nat)) => x <= y
  BY DEF OpToRel
<1> QED BY <1>1, <1>2

LEMMA FirstOf ==
  ASSUME NEW S \in SUBSET Nat, S # {}
  PROVE  First(S) \in S
BY Least DEF First

LEMMA Typed ==
  ASSUME TypeOK
  PROVE  /\ row \in [Requests -> RowType] /\ log \in Seq(EntryType)
         /\ task \in [Tasks -> TaskType] /\ queue \in Seq(Tasks) /\ used \in Nat
         /\ Requests \subseteq Nat /\ Tasks \subseteq Nat /\ 0 \notin Requests
         /\ DOMAIN log \subseteq Nat
         /\ \A i \in DOMAIN log : log[i] \in EntryType
<1>1. /\ row \in [Requests -> RowType] /\ log \in Seq(EntryType)
      /\ task \in [Tasks -> TaskType] /\ queue \in Seq(Tasks)
  BY DEF TypeOK, RowType, EntryType, TaskType
<1>2. used \in Nat /\ Requests \subseteq Nat /\ Tasks \subseteq Nat /\ 0 \notin Requests
  BY BoundsAssumption DEF TypeOK, Requests, Tasks
<1>3. DOMAIN log \subseteq Nat /\ \A i \in DOMAIN log : log[i] \in EntryType
  BY <1>1
<1> QED BY <1>1, <1>2, <1>3

LEMMA EvidenceIs ==
  ASSUME TypeOK, NEW q \in Requests, Evidence(q) # {}
  PROVE  /\ First(Evidence(q)) \in DOMAIN log /\ First(Evidence(q)) \in Nat
         /\ Verifies(q, First(Evidence(q))) /\ log[First(Evidence(q))].req = q
         /\ log[First(Evidence(q))].kind \in {"tool", "custom"}
         /\ Answered(q)
<1>1. Evidence(q) \in SUBSET Nat
  BY Typed DEF Evidence
<1>2. First(Evidence(q)) \in Evidence(q)
  BY <1>1, FirstOf
<1>3. First(Evidence(q)) \in DOMAIN log /\ Verifies(q, First(Evidence(q)))
  BY <1>2 DEF Evidence
<1> QED BY <1>3, Typed DEF Verifies, Answered, EntryType

LEMMA NoEvidence ==
  ASSUME TypeOK, NEW q \in Requests, NamesEntry(q), Answered(q), Evidence(q) = {}
  PROVE  row[q].status = "submitted" /\ \A i \in DOMAIN log : log[i].req # q
<1>1. row[q].status # "delivered"
  BY DEF NamesEntry, Evidence, Verifies
<1> QED BY <1>1 DEF Answered, Evidence, Verifies

-----------------------------------------------------------------------------
(* What a step leaves in place.                                            *)

\* An answered request stays answered, and its delivery stays as recorded.
Later ==
  \A q \in Requests : /\ Answered(q) => Answered(q)'
                      /\ row[q].status = "delivered" => row'[q] = row[q]

\* The file only grows.
Grows ==
  /\ DOMAIN log \subseteq DOMAIN log'
  /\ \A i \in DOMAIN log : log'[i] = log[i]

LEMMA SameRows ==
  ASSUME row' = row
  PROVE  Later
BY DEF Later, Answered

LEMMA SameLog ==
  ASSUME log' = log
  PROVE  Grows
BY DEF Grows

LEMMA Appended ==
  ASSUME TypeOK, NEW e \in EntryType, log' = Append(log, e)
  PROVE  /\ Grows /\ log' \in Seq(EntryType)
         /\ DOMAIN log' = DOMAIN log \union {Len(log) + 1}
         /\ log'[Len(log) + 1] = e /\ Len(log) + 1 \notin DOMAIN log
<1>1. log \in Seq(EntryType)
  BY Typed
<1> QED BY <1>1 DEF Grows

LEMMA TaskFrame ==
  ASSUME TypeOK, Later, Grows, NEW t \in Tasks, SoundTask(t), task'[t] = task[t],
         used' \in Nat, used' >= used
  PROVE  SoundTask(t)'
<1>1. task[t].at \notin {"none", "done"} =>
        task[t].op # "none" /\ task[t].left >= 1 /\ task[t].req \in Requests /\ Answered(task[t].req)'
  BY DEF SoundTask, Later
<1>2. task[t].at = "marking" => EntryMatches(t)'
  <2> SUFFICES ASSUME task[t].at = "marking" PROVE EntryMatches(t)'
    OBVIOUS
  <2>1. EntryMatches(t) /\ task[t].req \in Requests
    BY DEF SoundTask
  <2> QED BY <2>1 DEF EntryMatches, Later, Grows
<1>3. t > used' => task[t].at = "none"
  BY Typed DEF SoundTask
<1> QED BY <1>1, <1>2, <1>3 DEF SoundTask

LEMMA NamesFrame ==
  ASSUME Grows, NEW q \in Requests, NamesEntry(q), row'[q] = row[q]
  PROVE  NamesEntry(q)'
BY DEF NamesEntry, Grows

LEMMA UnderWayFrame ==
  ASSUME Later, NEW q \in Requests, UnderWay(q), log' = log,
         sdk'[q] # "none" => sdk[q] # "none", q \in admitted => q \in admitted'
  PROVE  UnderWay(q)'
BY DEF UnderWay, Later

LEMMA HandoffFrame ==
  ASSUME HandoffHeld, handoff' \subseteq handoff,
         \A t \in Tasks : task[t].op = "confirm" /\ task[t].req \in handoff' =>
            task'[t] = task[t] \/ (/\ task'[t].req = task[t].req /\ task'[t].op = "confirm"
                                   /\ task'[t].at \in {"queued", "probing", "marking"})
  PROVE  HandoffHeld'
BY DEF HandoffHeld

LEMMA StepKeeps ==
  ASSUME IInv, TypeOK', CustomOnce', HandoffHeld', Later, Grows, used' >= used,
         \A t \in Tasks : task'[t] = task[t] \/ SoundTask(t)',
         \A q \in Requests : UnderWay(q)' /\ NamesEntry(q)'
  PROVE  IInv'
<1>1. used' \in Nat
  BY Typed, BoundsAssumption DEF TypeOK
<1>2. \A t \in Tasks : SoundTask(t)'
  BY <1>1, TaskFrame DEF IInv
<1> QED BY <1>2 DEF IInv

\* A step that leaves the file, the messages and the records alone.
LEMMA ChainStepKeeps ==
  ASSUME IInv, TypeOK', HandoffHeld', used' >= used,
         \A t \in Tasks : task'[t] = task[t] \/ SoundTask(t)',
         UNCHANGED <<row, log, sdk, admitted>>
  PROVE  IInv'
<1>1. Later /\ Grows
  BY SameRows, SameLog
<1>2. CustomOnce'
  BY DEF IInv, CustomOnce
<1>3. \A q \in Requests : UnderWay(q)' /\ NamesEntry(q)'
  BY DEF IInv, UnderWay, NamesEntry
<1> QED BY <1>1, <1>2, <1>3, StepKeeps

-----------------------------------------------------------------------------
(* Steps of a task.                                                        *)

\* The chain and the other tasks are left in order.
Apart(t) ==
  /\ task' \in [Tasks -> TaskType] /\ queue' \in Seq(Tasks) /\ used' = used
  /\ \A u \in Tasks : u # t => task'[u] = task[u]

LEMMA MovesTask ==
  ASSUME TypeOK, NEW t \in Tasks, NEW at \in {"probing", "dispatching", "observing"}, Moves(t, at)
  PROVE  Apart(t) /\ task'[t] = [task[t] EXCEPT !.at = at]
<1>1. task' = [task EXCEPT ![t] = [task[t] EXCEPT !.at = at]] /\ queue' = queue /\ used' = used
  BY Zenon DEF Moves
<1>2. task[t] \in TaskType
  BY Typed
<1>3. [task[t] EXCEPT !.at = at] \in TaskType
  BY <1>2 DEF TaskType
<1> QED BY <1>1, <1>3, Typed DEF Apart

LEMMA EndsTask ==
  ASSUME TypeOK, NEW t \in Tasks, Running(t), Ends(t)
  PROVE  Apart(t) /\ task'[t] = [task[t] EXCEPT !.at = "done"]
<1>1. task' = [task EXCEPT ![t] = [task[t] EXCEPT !.at = "done"]] /\ queue' = Tail(queue) /\ used' = used
  BY Zenon DEF Ends
<1>2. task[t] \in TaskType
  BY Typed
<1>3. [task[t] EXCEPT !.at = "done"] \in TaskType
  BY <1>2 DEF TaskType
<1>4. Tail(queue) \in Seq(Tasks)
  BY Typed DEF Running
<1> QED BY <1>1, <1>3, <1>4, Typed DEF Apart

LEMMA FailsTask ==
  ASSUME TypeOK, NEW t \in Tasks, Running(t), SoundTask(t), task[t].at \notin {"none", "done"}, Fails(t)
  PROVE  /\ Apart(t) /\ task'[t].req = task[t].req
         /\ task'[t].op = "deliver"
         /\ task'[t].at \in {"queued", "asleep", "done"}
         /\ task'[t].at # "done" => task'[t].left >= 1
<1>1. task[t] \in TaskType /\ task[t].left >= 1 /\ task[t].left \in Nat /\ task[t].op # "none"
  BY Typed DEF SoundTask, TaskType
<1>2. Tail(queue) \in Seq(Tasks) /\ Append(Tail(queue), t) \in Seq(Tasks)
  BY Typed DEF Running
<1>3. CASE task[t].op = "confirm"
  <2>1. /\ task' = [task EXCEPT ![t] = [task[t] EXCEPT !.op = "deliver", !.at = "queued"]]
        /\ queue' = Append(Tail(queue), t) /\ used' = used
    BY <1>3, Zenon DEF Fails
  <2>2. [task[t] EXCEPT !.op = "deliver", !.at = "queued"] \in TaskType
    BY <1>1 DEF TaskType
  <2>3. task'[t] = [task[t] EXCEPT !.op = "deliver", !.at = "queued"]
    BY <2>1, Typed
  <2>4. Apart(t)
    BY <2>1, <2>2, <1>2, Typed DEF Apart
  <2> QED BY <2>3, <2>4, <1>1 DEF TaskType
<1>4. CASE task[t].op # "confirm"
  <2> DEFINE next == IF task[t].left > 1 THEN "asleep" ELSE "done"
  <2>1. /\ task' = [task EXCEPT ![t] = [task[t] EXCEPT !.at = next, !.left = task[t].left - 1]]
        /\ queue' = Tail(queue) /\ used' = used
    BY <1>4, Zenon DEF Fails
  <2>2. [task[t] EXCEPT !.at = next, !.left = task[t].left - 1] \in TaskType
    <3>1. task[t].left - 1 \in Nat /\ next \in {"asleep", "done"}
      BY <1>1
    <3> HIDE DEF next
    <3> QED BY <3>1, <1>1 DEF TaskType
  <2>3. task'[t] = [task[t] EXCEPT !.at = next, !.left = task[t].left - 1]
    BY <2>1, Typed
  <2>4. Apart(t)
    BY <2>1, <2>2, <1>2, Typed DEF Apart
  <2> QED BY <2>3, <2>4, <1>1, <1>4 DEF TaskType
<1> QED BY <1>3, <1>4

-----------------------------------------------------------------------------
(* Requests and answers.                                                   *)

LEMMA RequestMoves ==
  ASSUME IInv, NEW q \in Requests, ~ Answered(q), NEW s \in {"open", "submitted", "cancelled"},
         row' = [row EXCEPT ![q].status = s], UNCHANGED <<log, sdk, admitted>>
  PROVE  /\ row' \in [Requests -> RowType] /\ Later /\ Grows /\ CustomOnce'
         /\ \A p \in Requests : UnderWay(p)' /\ NamesEntry(p)'
<1>1. row' = [row EXCEPT ![q] = [row[q] EXCEPT !.status = s]]
  BY Zenon
<1>2. row \in [Requests -> RowType] /\ row[q] \in RowType
  BY Typed DEF IInv
<1>3. [row[q] EXCEPT !.status = s] \in RowType /\ row'[q].status = s
  BY <1>1, <1>2 DEF RowType
<1>4. \A p \in Requests : p # q => row'[p] = row[p]
  BY <1>1, <1>2
<1>5. row' \in [Requests -> RowType]
  BY <1>1, <1>2, <1>3
<1>6. Later
  BY <1>4 DEF Later, Answered
<1>7. Grows /\ CustomOnce'
  BY SameLog DEF IInv, CustomOnce
<1>8. ASSUME NEW p \in Requests PROVE UnderWay(p)' /\ NamesEntry(p)'
  <2>1. UnderWay(p)'
    BY <1>6, UnderWayFrame DEF IInv
  <2>2. NamesEntry(p)'
    BY <1>3, <1>4, <1>7, NamesFrame DEF IInv, NamesEntry
  <2> QED BY <2>1, <2>2
<1> QED BY <1>5, <1>6, <1>7, <1>8

LEMMA BeginTask ==
  ASSUME TypeOK, NEW q \in Requests, NEW op \in {"confirm", "deliver"}, Begin(q, op)
  PROVE  /\ used' = used + 1 /\ used' \in Tasks /\ used' \in 0 .. MaxTasks
         /\ task' \in [Tasks -> TaskType] /\ queue' \in Seq(Tasks)
         /\ task'[used'] = [req |-> q, op |-> op, left |-> Attempts,
                            at |-> "queued", mode |-> "none", entry |-> 0]
         /\ \A u \in Tasks : u # used' => task'[u] = task[u]
<1> DEFINE k == [req |-> q, op |-> op, left |-> Attempts, at |-> "queued", mode |-> "none", entry |-> 0]
<1>1. used' = used + 1 /\ used' \in Tasks /\ used' \in 0 .. MaxTasks
  BY BoundsAssumption DEF Begin, TypeOK, Tasks
<1>2. task' = [task EXCEPT ![used'] = k] /\ queue' = Append(queue, used')
  BY Zenon DEF Begin
<1>3. k \in TaskType
  BY BoundsAssumption DEF TaskType
<1> QED BY <1>1, <1>2, <1>3, Typed

LEMMA BegunIsSound ==
  ASSUME IInv, NEW q \in Requests, NEW op \in {"confirm", "deliver"}, Begin(q, op), Answered(q)'
  PROVE  \A t \in Tasks : task'[t] = task[t] \/ SoundTask(t)'
<1>1. TypeOK
  BY DEF IInv
<1>2. /\ used' = used + 1 /\ used' \in Tasks
      /\ task'[used'] = [req |-> q, op |-> op, left |-> Attempts,
                         at |-> "queued", mode |-> "none", entry |-> 0]
      /\ \A u \in Tasks : u # used' => task'[u] = task[u]
  BY <1>1, BeginTask
<1> SUFFICES ASSUME NEW t \in Tasks, task'[t] # task[t] PROVE SoundTask(t)'
  OBVIOUS
<1>3. t = used' /\ t \in Nat
  BY <1>1, <1>2, Typed
<1>4. /\ task'[t].at = "queued" /\ task'[t].req = q /\ task'[t].op = op
      /\ task'[t].left >= 1 /\ ~ (t > used')
  BY <1>2, <1>3, BoundsAssumption
<1> QED BY <1>4 DEF SoundTask

\* The slot that a new task takes held none.
LEMMA BegunKeepsHandoffs ==
  ASSUME IInv, NEW q \in Requests, NEW op \in {"confirm", "deliver"}, Begin(q, op),
         handoff' = handoff \/ (op = "confirm" /\ handoff' = handoff \union {q})
  PROVE  HandoffHeld'
<1>0. TypeOK
  BY DEF IInv
<1>3. /\ used' = used + 1 /\ used' \in Tasks /\ used \in Nat
      /\ task'[used'] = [req |-> q, op |-> op, left |-> Attempts,
                         at |-> "queued", mode |-> "none", entry |-> 0]
      /\ \A u \in Tasks : u # used' => task'[u] = task[u]
  BY <1>0, BeginTask, Typed
<1> SUFFICES ASSUME NEW p \in handoff'
             PROVE \E t \in Tasks : /\ task'[t].req = p /\ task'[t].op = "confirm"
                                    /\ task'[t].at \in {"queued", "probing", "marking"}
  BY DEF HandoffHeld
<1>1. CASE p \in handoff
  <2>1. PICK t \in Tasks : /\ task[t].req = p /\ task[t].op = "confirm"
                           /\ task[t].at \in {"queued", "probing", "marking"}
    BY <1>1 DEF IInv, HandoffHeld
  <2>2. t # used'
    <3>1. t > used => task[t].at = "none"
      BY DEF IInv, SoundTask
    <3> QED BY <2>1, <3>1, <1>3
  <2> QED BY <2>1, <2>2, <1>3
<1>2. CASE p \notin handoff
  <2>1. p = q /\ op = "confirm"
    BY <1>2
  <2> QED BY <2>1, <1>3
<1> QED BY <1>1, <1>2

LEMMA CallToolKeeps ==
  ASSUME IInv, NEW q \in Requests, CallTool(q)
  PROVE  IInv'
<1>1. ~ Answered(q) /\ row' = [row EXCEPT ![q].status = "open"]
  BY DEF CallTool, Answered
<1>2. UNCHANGED <<log, sdk, admitted>>
  BY DEF CallTool
<1>3. /\ row' \in [Requests -> RowType] /\ Later /\ Grows /\ CustomOnce'
      /\ \A p \in Requests : UnderWay(p)' /\ NamesEntry(p)'
  BY <1>1, <1>2, RequestMoves
<1>4. TypeOK'
  BY <1>3 DEF IInv, CallTool, TypeOK, chain, bounds, RowType
<1>5. HandoffHeld'
  BY DEF IInv, HandoffHeld, CallTool, chain
<1>6. used' >= used /\ \A t \in Tasks : task'[t] = task[t]
  BY Typed DEF IInv, CallTool, chain
<1> QED BY <1>3, <1>4, <1>5, <1>6, StepKeeps

LEMMA CancelKeeps ==
  ASSUME IInv, NEW q \in Requests, Cancel(q)
  PROVE  IInv'
<1>1. ~ Answered(q) /\ row' = [row EXCEPT ![q].status = "cancelled"]
  BY DEF Cancel, Answered
<1>2. UNCHANGED <<log, sdk, admitted>>
  BY DEF Cancel
<1>3. /\ row' \in [Requests -> RowType] /\ Later /\ Grows /\ CustomOnce'
      /\ \A p \in Requests : UnderWay(p)' /\ NamesEntry(p)'
  BY <1>1, <1>2, RequestMoves
<1>4. TypeOK'
  BY <1>3 DEF IInv, Cancel, TypeOK, chain, bounds, RowType
<1>5. HandoffHeld'
  BY DEF IInv, HandoffHeld, Cancel, chain
<1>6. used' >= used /\ \A t \in Tasks : task'[t] = task[t]
  BY Typed DEF IInv, Cancel, chain
<1> QED BY <1>3, <1>4, <1>5, <1>6, StepKeeps

LEMMA SubmitKeeps ==
  ASSUME IInv, NEW q \in Requests, Submit(q)
  PROVE  IInv'
<1>1. ~ Answered(q) /\ row' = [row EXCEPT ![q].status = "submitted"]
  BY DEF Submit, Answered
<1>2. UNCHANGED <<log, sdk, admitted>>
  BY DEF Submit
<1>3. /\ row' \in [Requests -> RowType] /\ Later /\ Grows /\ CustomOnce'
      /\ \A p \in Requests : UnderWay(p)' /\ NamesEntry(p)'
  BY <1>1, <1>2, RequestMoves
<1>4. PICK op \in {"confirm", "deliver"} :
        /\ Begin(q, op)
        /\ handoff' = handoff \/ (op = "confirm" /\ handoff' = handoff \union {q})
        /\ tool' \in [Requests -> {"none", "waiting", "answered"}]
  BY DEF Submit, IInv, TypeOK
<1>5. /\ task' \in [Tasks -> TaskType] /\ queue' \in Seq(Tasks) /\ used' \in 0 .. MaxTasks
      /\ used' >= used
  <2>1. TypeOK
    BY DEF IInv
  <2>2. used' = used + 1 /\ used \in Nat
    BY <2>1, <1>4, BeginTask, Typed
  <2>3. used' >= used
    BY <2>2
  <2>4. task' \in [Tasks -> TaskType] /\ queue' \in Seq(Tasks) /\ used' \in 0 .. MaxTasks
    BY <2>1, <1>4, BeginTask, Zenon
  <2> QED BY <2>3, <2>4
<1>6. TypeOK'
  BY <1>3, <1>4, <1>5 DEF IInv, Submit, TypeOK, bounds, RowType, TaskType
<1>7. HandoffHeld'
  BY <1>4, BegunKeepsHandoffs
<1>8. Answered(q)'
  BY <1>1, Typed DEF IInv, Answered, RowType
<1>9. \A t \in Tasks : task'[t] = task[t] \/ SoundTask(t)'
  BY <1>4, <1>8, BegunIsSound
<1> QED BY <1>3, <1>5, <1>6, <1>7, <1>9, StepKeeps

LEMMA RedeliverKeeps ==
  ASSUME IInv, NEW q \in Requests, Redeliver(q)
  PROVE  IInv'
<1>1. Begin(q, "deliver") /\ handoff' = handoff /\ Answered(q)'
  BY DEF Redeliver, Answered
<1>2. /\ task' \in [Tasks -> TaskType] /\ queue' \in Seq(Tasks) /\ used' \in 0 .. MaxTasks
      /\ used' >= used
  <2>1. TypeOK
    BY DEF IInv
  <2>2. used' = used + 1 /\ used \in Nat
    BY <2>1, <1>1, BeginTask, Typed
  <2>3. used' >= used
    BY <2>2
  <2>4. task' \in [Tasks -> TaskType] /\ queue' \in Seq(Tasks) /\ used' \in 0 .. MaxTasks
    BY <2>1, <1>1, BeginTask, Zenon
  <2> QED BY <2>3, <2>4
<1>3. TypeOK'
  BY <1>2 DEF IInv, Redeliver, TypeOK, agent, bounds, TaskType
<1>4. HandoffHeld'
  BY <1>1, BegunKeepsHandoffs
<1>5. \A t \in Tasks : task'[t] = task[t] \/ SoundTask(t)'
  BY <1>1, BegunIsSound
<1>6. UNCHANGED <<row, log, sdk, admitted>>
  BY DEF Redeliver, agent
<1> QED BY <1>2, <1>3, <1>4, <1>5, <1>6, ChainStepKeeps

LEMMA GraceExpiresKeeps ==
  ASSUME IInv, NEW q \in Requests, GraceExpires(q)
  PROVE  IInv'
<1>1. TypeOK'
  BY DEF IInv, GraceExpires, TypeOK, chain, bounds
<1>2. HandoffHeld'
  BY DEF IInv, HandoffHeld, GraceExpires, chain
<1>3. used' >= used /\ (\A t \in Tasks : task'[t] = task[t]) /\ UNCHANGED <<row, log, sdk, admitted>>
  BY Typed DEF IInv, GraceExpires, chain
<1> QED BY <1>1, <1>2, <1>3, ChainStepKeeps

-----------------------------------------------------------------------------
(* The turns of a task.                                                    *)

Active(t) == task[t].at \notin {"none", "done"}

LEMMA FailsSound ==
  ASSUME TypeOK, Later, NEW t \in Tasks, Running(t), SoundTask(t), Active(t), Fails(t)
  PROVE  SoundTask(t)'
<1>1. /\ task'[t].req = task[t].req /\ task'[t].op = "deliver" /\ used' = used
      /\ task'[t].at \in {"queued", "asleep", "done"}
      /\ task'[t].at # "done" => task'[t].left >= 1
  BY FailsTask DEF Active, Apart
<1>2. task[t].req \in Requests /\ row'[task[t].req].status \in {"submitted", "delivered"} /\ ~ (t > used)
  BY DEF SoundTask, Active, Later, Answered
<1> QED BY <1>1, <1>2 DEF SoundTask, Answered

LEMMA MovesSound ==
  ASSUME TypeOK, Later, NEW t \in Tasks, SoundTask(t), Active(t),
         NEW at \in {"probing", "dispatching", "observing"}, Moves(t, at),
         at # "probing" => task[t].op = "deliver"
  PROVE  SoundTask(t)'
<1>1. task'[t] = [task[t] EXCEPT !.at = at] /\ used' = used
  BY MovesTask DEF Apart
<1>2. /\ task'[t].req = task[t].req /\ task'[t].op = task[t].op
      /\ task'[t].left = task[t].left /\ task'[t].at = at
  BY <1>1, Typed DEF TaskType
<1>3. /\ task[t].op # "none" /\ task[t].left >= 1 /\ task[t].req \in Requests
      /\ row'[task[t].req].status \in {"submitted", "delivered"} /\ ~ (t > used)
  BY DEF SoundTask, Active, Later, Answered
<1> QED BY <1>1, <1>2, <1>3 DEF SoundTask, Answered

LEMMA EndsSound ==
  ASSUME TypeOK, NEW t \in Tasks, Running(t), SoundTask(t), Active(t), Ends(t)
  PROVE  SoundTask(t)'
<1>1. task'[t] = [task[t] EXCEPT !.at = "done"] /\ used' = used
  BY EndsTask DEF Apart
<1>2. task'[t].at = "done"
  BY <1>1, Typed DEF TaskType
<1> QED BY <1>1, <1>2 DEF SoundTask, Active

LEMMA TurnTyped ==
  ASSUME TypeOK, NEW t \in Tasks, Apart(t), row' \in [Requests -> RowType], log' = log,
         runtime' = runtime, tool' = tool, probe' = probe,
         sdk' \in [Requests -> {"none", "queued", "claimed"}],
         admitted' \subseteq Requests, failed' \subseteq admitted', handoff' \subseteq handoff,
         stops' = stops, crashes' = crashes, faults' \in Nat
  PROVE  TypeOK'
BY DEF TypeOK, Apart, RowType, TaskType

\* A turn that changes the chain only, and perhaps lets go of its handoff.
LEMMA ChainTurnKeeps ==
  ASSUME IInv, NEW t \in Tasks, Apart(t), SoundTask(t)', UNCHANGED <<row, log, agent, bounds>>,
         handoff' \subseteq handoff,
         task[t].op = "confirm" /\ task[t].req \in handoff' =>
            /\ task'[t].req = task[t].req /\ task'[t].op = "confirm"
            /\ task'[t].at \in {"queued", "probing", "marking"}
  PROVE  IInv'
<1>1. TypeOK
  BY DEF IInv
<1>2. UNCHANGED <<row, log, runtime, tool, sdk, admitted, failed, probe, stops, crashes, faults>>
  BY DEF agent, bounds
<1>3. TypeOK'
  <2>1. row' \in [Requests -> RowType] /\ sdk' \in [Requests -> {"none", "queued", "claimed"}]
    BY <1>1, <1>2, Typed DEF TypeOK
  <2>2. admitted' \subseteq Requests /\ failed' \subseteq admitted' /\ faults' \in Nat
    BY <1>1, <1>2 DEF TypeOK
  <2> QED BY <1>1, <1>2, <2>1, <2>2, TurnTyped
<1>4. \A u \in Tasks : u # t => task'[u] = task[u]
  BY DEF Apart
<1>5. HandoffHeld'
  BY <1>4, HandoffFrame DEF IInv
<1>6. used' >= used
  BY <1>1, Typed DEF Apart
<1> QED BY <1>2, <1>3, <1>4, <1>5, <1>6, ChainStepKeeps

LEMMA StartKeeps ==
  ASSUME IInv, NEW t \in Tasks, Start(t)
  PROVE  IInv'
<1>1. /\ TypeOK /\ SoundTask(t) /\ Running(t) /\ task[t].at = "queued" /\ Active(t)
      /\ UNCHANGED <<row, log, agent, bounds>> /\ handoff' = handoff /\ row' = row
  BY DEF IInv, Start, Active
<1>2. Later
  BY <1>1, SameRows
<1>3. CASE task[t].op = "deliver" /\ Ends(t)
  <2>1. Apart(t) /\ SoundTask(t)'
    BY <1>1, <1>3, EndsTask, EndsSound
  <2> QED BY <1>1, <1>3, <2>1, ChainTurnKeeps
<1>4. CASE task[t].req \notin handoff /\ Fails(t)
  <2>1. Apart(t) /\ SoundTask(t)'
    BY <1>1, <1>2, <1>4, FailsTask, FailsSound DEF Active
  <2> QED BY <1>1, <1>4, <2>1, ChainTurnKeeps
<1>5. CASE Moves(t, "probing")
  <2>1. Apart(t) /\ task'[t] = [task[t] EXCEPT !.at = "probing"]
    BY <1>1, <1>5, MovesTask
  <2>2. SoundTask(t)'
    BY <1>1, <1>2, <1>5, MovesSound
  <2>3. task'[t].req = task[t].req /\ task'[t].op = task[t].op /\ task'[t].at = "probing"
    BY <2>1, <1>1, Typed DEF TaskType
  <2> QED BY <1>1, <2>1, <2>2, <2>3, ChainTurnKeeps
<1> QED BY <1>3, <1>4, <1>5 DEF Start

LEMMA ReleasedIs ==
  ASSUME NEW t \in Tasks
  PROVE  /\ Released(t) \subseteq handoff
         /\ task[t].op = "confirm" => task[t].req \notin Released(t)
BY DEF Released

LEMMA ProbeKeeps ==
  ASSUME IInv, NEW t \in Tasks, Probe(t)
  PROVE  IInv'
<1> DEFINE q == task[t].req
           e == First(ToolEvidence(q))
<1>1. /\ TypeOK /\ SoundTask(t) /\ Running(t) /\ task[t].at = "probing" /\ Active(t)
      /\ UNCHANGED <<row, log, agent, bounds>> /\ handoff' = handoff /\ row' = row /\ log' = log
      /\ q \in Requests
  BY DEF IInv, Probe, Active, SoundTask
<1>2. Later
  BY <1>1, SameRows
<1>3. CASE /\ ToolEvidence(q) # {} /\ UNCHANGED <<queue, used>>
           /\ task' = [task EXCEPT ![t].at = "marking", ![t].mode = "tool_result", ![t].entry = e]
  <2>1. e \in ToolEvidence(q) /\ e \in DOMAIN log /\ e \in Nat /\ log[e].req = q /\ log[e].kind = "tool"
    <3>1. ToolEvidence(q) \in SUBSET Nat
      BY <1>1, Typed DEF ToolEvidence, Evidence
    <3>2. e \in ToolEvidence(q)
      BY <1>3, <3>1, FirstOf
    <3>3. e \in DOMAIN log /\ log[e].req = q /\ log[e].kind = "tool"
      BY <3>2 DEF ToolEvidence, Evidence, Verifies
    <3> QED BY <3>1, <3>2, <3>3
  <2> HIDE DEF e
  <2>2. task' = [task EXCEPT ![t] = [task[t] EXCEPT !.at = "marking", !.mode = "tool_result", !.entry = e]]
    BY <1>3, Zenon
  <2>3. task[t] \in TaskType
    BY <1>1, Typed
  <2>4. [task[t] EXCEPT !.at = "marking", !.mode = "tool_result", !.entry = e] \in TaskType
    BY <2>1, <2>3 DEF TaskType
  <2>5. task'[t] = [task[t] EXCEPT !.at = "marking", !.mode = "tool_result", !.entry = e]
    BY <2>2, <1>1, Typed
  <2>6. Apart(t)
    BY <1>1, <1>3, <2>2, <2>4, Typed DEF Apart
  <2>7. /\ task'[t].req = q /\ task'[t].op = task[t].op /\ task'[t].left = task[t].left
        /\ task'[t].at = "marking" /\ task'[t].mode = "tool_result" /\ task'[t].entry = e
    BY <2>5, <2>3 DEF TaskType
  <2>8. EntryMatches(t)'
    BY <1>1, <2>1, <2>7 DEF EntryMatches, ModeOf
  <2>9. SoundTask(t)'
    <3>1. /\ task[t].op # "none" /\ task[t].left >= 1 /\ row'[q].status \in {"submitted", "delivered"}
      BY <1>1, <1>2 DEF SoundTask, Later, Answered
    <3>2. ~ (t > used) /\ used' = used
      BY <1>1, <2>6 DEF SoundTask, Apart, Active
    <3>3. q \in Requests
      BY <1>1
    <3> HIDE DEF q
    <3> QED BY <2>7, <2>8, <3>1, <3>2, <3>3 DEF SoundTask, Answered
  <2> QED BY <1>1, <2>6, <2>7, <2>9, ChainTurnKeeps
<1>4. CASE task[t].op = "deliver" /\ Moves(t, "dispatching")
  <2>1. Apart(t) /\ SoundTask(t)'
    BY <1>1, <1>2, <1>4, MovesTask, MovesSound
  <2> QED BY <1>1, <1>4, <2>1, ChainTurnKeeps
<1> QED BY <1>3, <1>4 DEF Probe

LEMMA ProbeFailsKeeps ==
  ASSUME IInv, NEW t \in Tasks, ProbeFails(t)
  PROVE  IInv'
<1>1. /\ TypeOK /\ SoundTask(t) /\ Running(t) /\ Active(t) /\ Fails(t)
      /\ UNCHANGED <<row, log, agent, bounds>> /\ handoff' = Released(t) /\ row' = row
  BY DEF IInv, ProbeFails, Active
<1>2. Apart(t) /\ SoundTask(t)'
  BY <1>1, SameRows, FailsTask, FailsSound DEF Active
<1> QED BY <1>1, <1>2, ReleasedIs, ChainTurnKeeps

\* A delivery's attempt that fails changes nothing but the chain.
LEMMA AttemptFailsKeeps ==
  ASSUME IInv, NEW t \in Tasks, DispatchFails(t) \/ ObserveFails(t)
  PROVE  IInv'
<1>1. /\ TypeOK /\ SoundTask(t) /\ Running(t) /\ Active(t) /\ Fails(t) /\ task[t].op = "deliver"
      /\ UNCHANGED <<row, log, agent, bounds>> /\ handoff' = handoff /\ row' = row
  BY DEF IInv, DispatchFails, ObserveFails, Active, SoundTask
<1>2. Apart(t) /\ SoundTask(t)'
  BY <1>1, SameRows, FailsTask, FailsSound DEF Active
<1> QED BY <1>1, <1>2, ChainTurnKeeps

LEMMA WakeKeeps ==
  ASSUME IInv, NEW t \in Tasks, Wake(t)
  PROVE  IInv'
<1>1. /\ TypeOK /\ SoundTask(t) /\ Active(t) /\ task[t].op = "deliver"
      /\ UNCHANGED <<row, log, agent, bounds>> /\ handoff' = handoff /\ used' = used
      /\ queue' = Append(queue, t)
  BY DEF IInv, Wake, Active, SoundTask
<1>2. task' = [task EXCEPT ![t] = [task[t] EXCEPT !.at = "queued"]]
  BY Zenon DEF Wake
<1>3. task[t] \in TaskType /\ queue' \in Seq(Tasks)
  BY <1>1, Typed
<1>4. [task[t] EXCEPT !.at = "queued"] \in TaskType
  BY <1>3 DEF TaskType
<1>5. task'[t] = [task[t] EXCEPT !.at = "queued"]
  BY <1>1, <1>2, Typed
<1>6. Apart(t)
  BY <1>1, <1>2, <1>3, <1>4, Typed DEF Apart
<1>7. /\ task'[t].req = task[t].req /\ task'[t].op = task[t].op
      /\ task'[t].left = task[t].left /\ task'[t].at = "queued"
  BY <1>3, <1>5 DEF TaskType
<1>8. SoundTask(t)'
  <2>1. row'[task[t].req].status \in {"submitted", "delivered"}
    BY <1>1 DEF SoundTask, Active, Answered
  <2> QED BY <1>1, <1>7, <2>1 DEF SoundTask, Active, Answered
<1> QED BY <1>1, <1>6, <1>8, ChainTurnKeeps

-----------------------------------------------------------------------------
(* Records.                                                                *)

LEMMA DeliveredIs ==
  ASSUME NEW r \in RowType, NEW mode \in {"tool_result", "custom_message"}, NEW e \in Nat
  PROVE  /\ Delivered(r, mode, e) \in RowType
         /\ r.status = "submitted" => /\ Delivered(r, mode, e).status = "delivered"
                                      /\ Delivered(r, mode, e).mode = mode
                                      /\ Delivered(r, mode, e).entry = e
         /\ r.status # "submitted" => Delivered(r, mode, e) = r
BY DEF Delivered, RowType

LEMMA MarkedRow ==
  ASSUME IInv, NEW q \in Requests, NEW mode \in {"tool_result", "custom_message"}, NEW e \in Nat,
         row' = [row EXCEPT ![q] = Delivered(row[q], mode, e)], log' = log,
         row[q].status = "submitted" =>
            e \in DOMAIN log /\ log[e].req = q /\ mode = ModeOf(log[e].kind)
  PROVE  row' \in [Requests -> RowType] /\ Later /\ \A p \in Requests : NamesEntry(p)'
<1>1. row \in [Requests -> RowType] /\ row[q] \in RowType
  BY Typed DEF IInv
<1>2. PICK marked : marked = Delivered(row[q], mode, e)
  OBVIOUS
<1>3. /\ marked \in RowType
      /\ row[q].status = "submitted" => /\ marked.status = "delivered"
                                        /\ marked.mode = mode /\ marked.entry = e
      /\ row[q].status # "submitted" => marked = row[q]
  BY <1>1, <1>2, DeliveredIs
<1>4. row' = [row EXCEPT ![q] = marked]
  BY <1>2
<1>5. row' \in [Requests -> RowType] /\ row'[q] = marked /\ \A p \in Requests : p # q => row'[p] = row[p]
  BY <1>1, <1>3, <1>4
<1>6. Later
  BY <1>3, <1>5 DEF Later, Answered
<1>7. \A p \in Requests : NamesEntry(p)'
  BY <1>3, <1>5 DEF IInv, NamesEntry
<1> QED BY <1>5, <1>6, <1>7

LEMMA MarkKeeps ==
  ASSUME IInv, NEW t \in Tasks, Mark(t)
  PROVE  IInv'
<1>1. /\ TypeOK /\ SoundTask(t) /\ Running(t) /\ Active(t) /\ task[t].at = "marking"
      /\ handoff' = Released(t) /\ log' = log /\ UNCHANGED agent
      /\ task[t].req \in Requests /\ EntryMatches(t)
  BY DEF IInv, Mark, Active, SoundTask
<1>2. /\ \/ row' = [row EXCEPT ![task[t].req] = Delivered(row[task[t].req], task[t].mode, task[t].entry)]
         \/ row' = row
      /\ Ends(t) \/ Fails(t)
      /\ faults' \in Nat /\ stops' = stops /\ crashes' = crashes
  BY <1>1 DEF Mark, bounds, StoreFails, TypeOK
<1>3. row \in [Requests -> RowType] /\ task[t] \in TaskType
  BY <1>1, Typed
<1>4. row' \in [Requests -> RowType] /\ Later /\ \A p \in Requests : NamesEntry(p)'
  <2>1. CASE row' = row
    BY <2>1, <1>1, <1>3, SameRows DEF IInv, NamesEntry
  <2>2. CASE row' = [row EXCEPT ![task[t].req] = Delivered(row[task[t].req], task[t].mode, task[t].entry)]
    <3>1. PICK q \in Requests, mode \in {"none", "tool_result", "custom_message"}, e \in Nat :
            /\ q = task[t].req /\ mode = task[t].mode /\ e = task[t].entry
      BY <1>1, <1>3 DEF TaskType
    <3>2. e \in DOMAIN log /\ log[e].req = q /\ (mode = ModeOf(log[e].kind) \/ row[q].status = "delivered")
      BY <1>1, <3>1 DEF EntryMatches
    <3>3. e \in Nat /\ mode \in {"none", "tool_result", "custom_message"}
      BY <1>3, <3>1 DEF TaskType
    <3>4. row' = [row EXCEPT ![q] = Delivered(row[q], mode, e)]
      BY <2>2, <3>1
    <3>5. CASE row[q].status = "submitted"
      <4>1. mode = ModeOf(log[e].kind) /\ mode \in {"tool_result", "custom_message"}
        BY <3>2, <3>5 DEF ModeOf
      <4> QED BY <1>1, <3>2, <3>3, <3>4, <4>1, MarkedRow
    <3>6. CASE row[q].status # "submitted"
      <4>1. row' = row
        BY <1>3, <3>4, <3>6 DEF Delivered
      <4> QED BY <4>1, <1>1, <1>3, SameRows DEF IInv, NamesEntry
    <3> QED BY <3>5, <3>6
  <2> QED BY <1>2, <2>1, <2>2
<1>5. Apart(t) /\ SoundTask(t)'
  <2>1. CASE Ends(t)
    BY <1>1, <2>1, EndsTask, EndsSound
  <2>2. CASE Fails(t)
    BY <1>1, <1>4, <2>2, FailsTask, FailsSound DEF Active
  <2> QED BY <1>2, <2>1, <2>2
<1>6. TypeOK'
  <2>1. /\ sdk' \in [Requests -> {"none", "queued", "claimed"}] /\ admitted' \subseteq Requests
        /\ failed' \subseteq admitted' /\ runtime' = runtime /\ tool' = tool /\ probe' = probe
    BY <1>1 DEF agent, TypeOK
  <2> QED BY <1>1, <1>2, <1>4, <1>5, <2>1, ReleasedIs, TurnTyped
<1>7. HandoffHeld'
  BY <1>1, <1>5, ReleasedIs, HandoffFrame DEF IInv, Apart
<1>8. \A p \in Requests : UnderWay(p)'
  BY <1>1, <1>4, UnderWayFrame DEF IInv, agent
<1>9. Grows /\ CustomOnce'
  BY <1>1, SameLog DEF IInv, CustomOnce
<1>10. used' >= used /\ \A u \in Tasks : task'[u] = task[u] \/ SoundTask(u)'
  BY <1>1, <1>5, Typed DEF Apart
<1> QED BY <1>4, <1>6, <1>7, <1>8, <1>9, <1>10, StepKeeps

LEMMA FoundIs ==
  ASSUME IInv, NEW S \in SUBSET Requests, row' = Found(S), log' = log
  PROVE  /\ row' \in [Requests -> RowType] /\ Later /\ Grows /\ CustomOnce'
         /\ \A p \in Requests : NamesEntry(p)'
         /\ \A p \in S : Evidence(p) # {} /\ log[First(Evidence(p))].kind = "tool"
              => row'[p].status = "delivered"
<1>1. TypeOK /\ row \in [Requests -> RowType]
  BY Typed DEF IInv
<1>2. ASSUME NEW p \in Requests
      PROVE  \/ row'[p] = row[p] /\ ~ (p \in S /\ Evidence(p) # {} /\ log[First(Evidence(p))].kind = "tool")
             \/ /\ p \in S /\ Evidence(p) # {} /\ log[First(Evidence(p))].kind = "tool"
                /\ row'[p] = Delivered(row[p], "tool_result", First(Evidence(p)))
  BY DEF Found
<1>3. ASSUME NEW p \in Requests
      PROVE  /\ row'[p] \in RowType /\ NamesEntry(p)' /\ (Answered(p) => Answered(p)')
             /\ row[p].status = "delivered" => row'[p] = row[p]
             /\ p \in S /\ Evidence(p) # {} /\ log[First(Evidence(p))].kind = "tool"
                  => row'[p].status = "delivered"
  <2>1. CASE row'[p] = row[p] /\ ~ (p \in S /\ Evidence(p) # {} /\ log[First(Evidence(p))].kind = "tool")
    BY <1>1, <2>1 DEF IInv, NamesEntry, Answered
  <2>2. CASE /\ p \in S /\ Evidence(p) # {} /\ log[First(Evidence(p))].kind = "tool"
             /\ row'[p] = Delivered(row[p], "tool_result", First(Evidence(p)))
    <3> DEFINE e == First(Evidence(p))
    <3>1. e \in Nat /\ e \in DOMAIN log /\ log[e].req = p /\ log[e].kind = "tool" /\ Answered(p)
      BY <1>1, <2>2, EvidenceIs
    <3>2. row'[p] = Delivered(row[p], "tool_result", e)
      BY <2>2
    <3> HIDE DEF e
    <3>3. row[p] \in RowType
      BY <1>1
    <3>4. CASE row[p].status = "submitted"
      <4>1. /\ row'[p] \in RowType /\ row'[p].status = "delivered"
            /\ row'[p].mode = "tool_result" /\ row'[p].entry = e
        BY <3>1, <3>2, <3>3, <3>4, DeliveredIs
      <4>2. NamesEntry(p)'
        BY <3>1, <4>1 DEF NamesEntry, ModeOf
      <4> QED BY <3>4, <4>1, <4>2 DEF Answered
    <3>5. CASE row[p].status = "delivered"
      <4>1. row'[p] = row[p]
        BY <3>2, <3>5 DEF Delivered
      <4> QED BY <3>3, <3>5, <4>1 DEF IInv, NamesEntry, Answered
    <3> QED BY <3>1, <3>4, <3>5 DEF Answered
  <2> QED BY <1>2, <2>1, <2>2
<1>4. row' \in [Requests -> RowType]
  <2>1. row' = [p \in Requests |-> row'[p]]
    BY DEF Found
  <2> QED BY <1>3, <2>1
<1>5. Later
  BY <1>3 DEF Later
<1>6. Grows /\ CustomOnce'
  BY SameLog DEF IInv, CustomOnce
<1> QED BY <1>3, <1>4, <1>5, <1>6

LEMMA PersistedIs ==
  ASSUME TypeOK
  PROVE  /\ Persisted \in SUBSET Requests /\ Persisted \subseteq admitted
         /\ \A p \in Persisted : Evidence(p) # {}
BY DEF Persisted, TypeOK

\* An admission that is given up for its evidence has no message under way.
LEMMA FoundUnderWay ==
  ASSUME IInv, NEW S \in SUBSET Requests, Persisted \subseteq S, row' = Found(S), log' = log,
         NEW p \in Requests, sdk'[p] # "none" => sdk[p] # "none",
         p \in admitted \ Persisted => p \in admitted'
  PROVE  UnderWay(p)'
<1> SUFFICES ASSUME sdk'[p] # "none"
             PROVE  p \in admitted' \/ row'[p].status = "delivered"
  BY DEF IInv, UnderWay
<1>1. /\ \A i \in DOMAIN log : log[i] # [req |-> p, kind |-> "custom"]
      /\ p \in admitted \/ row[p].status = "delivered"
  BY DEF IInv, UnderWay
<1>2. CASE row[p].status = "delivered"
  BY <1>2, FoundIs DEF Later
<1>3. CASE p \in Persisted
  <2>1. TypeOK /\ Evidence(p) # {}
    BY <1>3, PersistedIs DEF IInv
  <2>2. log[First(Evidence(p))] \in EntryType /\ log[First(Evidence(p))].req = p
        /\ First(Evidence(p)) \in DOMAIN log
    BY <2>1, EvidenceIs, Typed
  <2>3. log[First(Evidence(p))].kind = "tool"
    BY <1>1, <2>2 DEF EntryType
  <2> QED BY <1>3, <2>1, <2>3, FoundIs
<1>4. CASE p \in admitted \ Persisted
  BY <1>4
<1> QED BY <1>1, <1>2, <1>3, <1>4

\* The task that is told of its admission may record it.
LEMMA EvidenceMatches ==
  ASSUME IInv, NEW S \in SUBSET Requests, row' = Found(S), log' = log, NEW t \in Tasks,
         NEW q \in S, Evidence(q) # {}, task'[t].req = q, task'[t].mode = "custom_message",
         task'[t].entry = First(Evidence(q))
  PROVE  EntryMatches(t)'
<1> DEFINE e == First(Evidence(q))
<1>1. e \in DOMAIN log /\ log[e].req = q /\ log[e].kind \in {"tool", "custom"}
  BY EvidenceIs DEF IInv
<1>2. CASE log[e].kind = "tool"
  <2>1. row'[q].status = "delivered"
    BY <1>2, FoundIs
  <2> QED BY <1>1, <2>1 DEF EntryMatches
<1>3. CASE log[e].kind = "custom"
  BY <1>1, <1>3 DEF EntryMatches, ModeOf
<1> QED BY <1>1, <1>2, <1>3

\* A task whose evidence has been found is about to record it.
LEMMA FoundTask ==
  ASSUME IInv, NEW S \in SUBSET Requests, row' = Found(S), log' = log, used' = used,
         NEW t \in Tasks, Active(t), task[t].op = "deliver", task[t].req \in S, Evidence(task[t].req) # {},
         task'[t] = [task[t] EXCEPT !.at = "marking", !.mode = "custom_message",
                                    !.entry = First(Evidence(task[t].req))]
  PROVE  SoundTask(t)' /\ task'[t] \in TaskType /\ task'[t].op = "deliver"
<1>1. PICK q \in S : q = task[t].req
  OBVIOUS
<1>2. PICK e \in Nat : e = First(Evidence(q))
  BY <1>1, EvidenceIs DEF IInv
<1>3. task[t] \in TaskType /\ task'[t] = [task[t] EXCEPT !.at = "marking", !.mode = "custom_message", !.entry = e]
  BY <1>1, <1>2, Typed DEF IInv
<1>4. /\ task'[t] \in TaskType /\ task'[t].req = q /\ task'[t].op = "deliver" /\ task'[t].left = task[t].left
      /\ task'[t].at = "marking" /\ task'[t].mode = "custom_message" /\ task'[t].entry = e
  BY <1>1, <1>3 DEF TaskType
<1>5. EntryMatches(t)'
  BY <1>1, <1>2, <1>4, EvidenceMatches
<1>6. task[t].left >= 1 /\ ~ (t > used) /\ Answered(q)
  BY <1>1 DEF IInv, SoundTask, Active
<1>7. Answered(q)'
  BY <1>6, FoundIs DEF Later
<1> QED BY <1>4, <1>5, <1>6, <1>7 DEF SoundTask

-----------------------------------------------------------------------------
(* Steps that move deliveries only.                                        *)

ChainSteps ==
  /\ task' \in [Tasks -> TaskType] /\ queue' \in Seq(Tasks) /\ used' = used
  /\ \A t \in Tasks : task'[t] = task[t] \/ (SoundTask(t)' /\ task[t].op = "deliver")

LEMMA SameChain ==
  ASSUME TypeOK, UNCHANGED chain
  PROVE  ChainSteps
BY Typed DEF ChainSteps, chain

LEMMA TurnInChain ==
  ASSUME NEW t \in Tasks, Apart(t), SoundTask(t)', task[t].op = "deliver"
  PROVE  ChainSteps
BY DEF ChainSteps, Apart

LEMMA FailsInChain ==
  ASSUME IInv, Later, NEW t \in Tasks, Running(t), Active(t), task[t].op = "deliver", Fails(t)
  PROVE  ChainSteps
<1>1. TypeOK /\ SoundTask(t)
  BY DEF IInv
<1>2. Apart(t)
  BY <1>1, FailsTask DEF Active
<1>3. SoundTask(t)'
  BY <1>1, FailsSound
<1> QED BY <1>2, <1>3, TurnInChain

LEMMA HeadObserves ==
  ASSUME IInv, queue # <<>>, task[Head(queue)].at = "observing"
  PROVE  /\ Head(queue) \in Tasks /\ Running(Head(queue)) /\ Active(Head(queue))
         /\ task[Head(queue)].op = "deliver"
<1>1. Head(queue) \in Tasks
  BY Typed DEF IInv
<1> QED BY <1>1 DEF IInv, SoundTask, Running, Active

LEMMA FailingInChain ==
  ASSUME IInv, Later, NEW S, Failing(S)
  PROVE  ChainSteps
<1> DEFINE t == Head(queue)
<1>1. CASE queue # <<>> /\ task[t].at = "observing" /\ task[t].req \in S
  <2>1. t \in Tasks /\ Running(t) /\ Active(t) /\ task[t].op = "deliver"
    BY <1>1, HeadObserves
  <2>2. Fails(t)
    BY <1>1 DEF Failing
  <2> HIDE DEF t
  <2> QED BY <2>1, <2>2, FailsInChain
<1>2. CASE ~ (queue # <<>> /\ task[t].at = "observing" /\ task[t].req \in S)
  <2>1. UNCHANGED chain
    BY <1>2 DEF Failing
  <2> QED BY <2>1, SameChain DEF IInv
<1> QED BY <1>1, <1>2

LEMMA ObservedInChain ==
  ASSUME IInv, row' = Found(Persisted), log' = log, task' = Observed(Persisted),
         UNCHANGED <<queue, used>>
  PROVE  ChainSteps
<1>1. TypeOK /\ Persisted \in SUBSET Requests /\ \A p \in Persisted : Evidence(p) # {}
  BY PersistedIs DEF IInv
<1>2. ASSUME NEW t \in Tasks
      PROVE  /\ task'[t] \in TaskType
             /\ task'[t] = task[t] \/ (SoundTask(t)' /\ task[t].op = "deliver")
  <2>1. CASE ~ (task[t].at = "observing" /\ task[t].req \in Persisted)
    <3>1. task'[t] = task[t]
      BY <2>1 DEF Observed
    <3> QED BY <3>1, <1>1, Typed
  <2>2. CASE task[t].at = "observing" /\ task[t].req \in Persisted
    <3>1. Active(t) /\ task[t].op = "deliver"
      BY <2>2 DEF IInv, SoundTask, Active
    <3>2. task'[t] = [task[t] EXCEPT !.at = "marking", !.mode = "custom_message",
                                     !.entry = First(Evidence(task[t].req))]
      BY <2>2, Zenon DEF Observed
    <3>3. Evidence(task[t].req) # {}
      BY <1>1, <2>2
    <3>4. SoundTask(t)' /\ task'[t] \in TaskType
      BY <1>1, <2>2, <3>1, <3>2, <3>3, FoundTask
    <3> QED BY <3>1, <3>4
  <2> QED BY <2>1, <2>2
<1>3. task' \in [Tasks -> TaskType]
  <2>1. task' = [t \in Tasks |-> task'[t]]
    BY DEF Observed
  <2> QED BY <1>2, <2>1
<1> QED BY <1>1, <1>2, <1>3, Typed DEF ChainSteps

LEMMA AgentStepKeeps ==
  ASSUME IInv, TypeOK', ChainSteps, handoff' \subseteq handoff, Later, Grows, CustomOnce',
         \A q \in Requests : UnderWay(q)' /\ NamesEntry(q)'
  PROVE  IInv'
<1>1. HandoffHeld'
  BY HandoffFrame DEF IInv, ChainSteps
<1>2. used' >= used /\ \A t \in Tasks : task'[t] = task[t] \/ SoundTask(t)'
  BY Typed DEF IInv, ChainSteps
<1> QED BY <1>1, <1>2, StepKeeps

-----------------------------------------------------------------------------
(* Admissions.                                                             *)

LEMMA ReconcileKeeps ==
  ASSUME IInv, Reconcile
  PROVE  IInv'
<1>1. /\ TypeOK /\ probe' = FALSE
      /\ UNCHANGED <<log, runtime, tool, sdk, handoff, queue, used>>
  BY DEF IInv, Reconcile
<1>2. CASE /\ row' = Found(Persisted) /\ task' = Observed(Persisted)
           /\ admitted' = admitted \ Persisted /\ failed' = failed \ Persisted /\ UNCHANGED bounds
  <2>1. Persisted \in SUBSET Requests
    BY <1>1, PersistedIs
  <2>2. /\ row' \in [Requests -> RowType] /\ Later /\ Grows /\ CustomOnce'
        /\ \A p \in Requests : NamesEntry(p)'
    BY <1>1, <1>2, <2>1, FoundIs
  <2>3. ChainSteps
    BY <1>1, <1>2, ObservedInChain
  <2>4. \A p \in Requests : UnderWay(p)'
    BY <1>1, <1>2, <2>1, FoundUnderWay
  <2>5. TypeOK'
    BY <1>1, <1>2, <2>2, <2>3 DEF TypeOK, ChainSteps, RowType, TaskType, bounds
  <2> QED BY <1>1, <2>2, <2>3, <2>4, <2>5, AgentStepKeeps
<1>3. CASE StoreFails /\ UNCHANGED <<row, task, admitted, failed>>
  <2>1. TypeOK'
    <3>1. faults' \in Nat /\ stops' \in Nat /\ crashes' \in Nat
      BY <1>1, <1>3 DEF TypeOK, StoreFails
    <3> QED BY <1>1, <1>3, <3>1 DEF TypeOK
  <2>2. HandoffHeld' /\ used' >= used /\ \A t \in Tasks : task'[t] = task[t]
    BY <1>1, <1>3, Typed DEF IInv, HandoffHeld
  <2> QED BY <1>1, <1>3, <2>1, <2>2, ChainStepKeeps
<1> QED BY <1>2, <1>3 DEF Reconcile

LEMMA DispatchKeeps ==
  ASSUME IInv, NEW t \in Tasks, Dispatch(t)
  PROVE  IInv'
<1>1. /\ TypeOK /\ SoundTask(t) /\ Running(t) /\ Active(t) /\ task[t].op = "deliver"
      /\ UNCHANGED <<log, runtime, tool, probe, handoff, used, bounds>>
  BY DEF IInv, Dispatch, Active, SoundTask
<1>2. PICK q \in Requests : q = task[t].req /\ Answered(q)
  BY <1>1 DEF SoundTask, Active
<1>3. Persisted \union {q} \in SUBSET Requests /\ row' = Found(Persisted \union {q})
  BY <1>1, <1>2, PersistedIs DEF Dispatch
<1>4. /\ row' \in [Requests -> RowType] /\ Later /\ Grows /\ CustomOnce'
      /\ \A p \in Requests : NamesEntry(p)'
  BY <1>1, <1>3, FoundIs
<1>5. failed' = failed \ Persisted
  BY DEF Dispatch
<1>6. CASE /\ Evidence(q) # {} /\ admitted' = admitted \ Persisted /\ UNCHANGED <<sdk, queue>>
           /\ task' = [task EXCEPT ![t].at = "marking", ![t].mode = "custom_message",
                                   ![t].entry = First(Evidence(q))]
  <2>1. task' = [task EXCEPT ![t] = [task[t] EXCEPT !.at = "marking", !.mode = "custom_message",
                                                   !.entry = First(Evidence(task[t].req))]]
    BY <1>2, <1>6, Zenon
  <2>2. task'[t] = [task[t] EXCEPT !.at = "marking", !.mode = "custom_message",
                                   !.entry = First(Evidence(task[t].req))]
    BY <1>1, <2>1, Typed
  <2>3. SoundTask(t)' /\ task'[t] \in TaskType
    BY <1>1, <1>2, <1>3, <1>6, <2>2, FoundTask
  <2>4. Apart(t)
    BY <1>1, <1>6, <2>1, <2>2, <2>3, Typed DEF Apart
  <2>5. ChainSteps
    BY <1>1, <2>3, <2>4, TurnInChain
  <2>6. TypeOK'
    BY <1>1, <1>4, <1>5, <1>6, <2>4, TurnTyped DEF TypeOK, bounds
  <2>7. \A p \in Requests : UnderWay(p)'
    BY <1>1, <1>3, <1>6, FoundUnderWay
  <2> QED BY <1>1, <1>4, <2>5, <2>6, <2>7, AgentStepKeeps
<1>7. CASE /\ Evidence(q) = {} /\ admitted' = admitted \ Persisted /\ UNCHANGED sdk
           /\ Fails(t) \/ Moves(t, "observing")
  <2>1. Apart(t) /\ SoundTask(t)'
    <3>1. CASE Fails(t)
      BY <1>1, <1>4, <3>1, FailsTask, FailsSound DEF Active
    <3>2. CASE Moves(t, "observing")
      BY <1>1, <1>4, <3>2, MovesTask, MovesSound
    <3> QED BY <1>7, <3>1, <3>2
  <2>2. ChainSteps
    BY <1>1, <2>1, TurnInChain
  <2>3. TypeOK'
    BY <1>1, <1>4, <1>5, <1>7, <2>1, TurnTyped DEF TypeOK, bounds
  <2>4. \A p \in Requests : UnderWay(p)'
    BY <1>1, <1>3, <1>7, FoundUnderWay
  <2> QED BY <1>1, <1>4, <2>2, <2>3, <2>4, AgentStepKeeps
<1>8. CASE /\ Evidence(q) = {} /\ admitted' = (admitted \ Persisted) \union {q} /\ Moves(t, "observing")
           /\ \E to \in {"none", "queued", "claimed"} : sdk' = [sdk EXCEPT ![q] = to]
  <2>1. Apart(t) /\ SoundTask(t)'
    BY <1>1, <1>4, <1>8, MovesTask, MovesSound
  <2>2. ChainSteps
    BY <1>1, <2>1, TurnInChain
  <2>3. sdk' \in [Requests -> {"none", "queued", "claimed"}] /\ \A p \in Requests : p # q => sdk'[p] = sdk[p]
    BY <1>1, <1>8 DEF TypeOK
  <2>4. TypeOK'
    BY <1>1, <1>2, <1>4, <1>5, <1>8, <2>1, <2>3, TurnTyped DEF TypeOK, bounds
  <2>5. ASSUME NEW p \in Requests PROVE UnderWay(p)'
    <3>1. CASE p = q
      <4>1. \A i \in DOMAIN log : log[i].req # q
        BY <1>1, <1>2, <1>8, NoEvidence DEF IInv
      <4>2. \A i \in DOMAIN log' : log'[i] # [req |-> q, kind |-> "custom"]
        BY <1>1, <4>1
      <4> QED BY <1>8, <3>1, <4>2 DEF UnderWay
    <3>2. CASE p # q
      BY <1>1, <1>3, <1>8, <2>3, <3>2, FoundUnderWay
    <3> QED BY <3>1, <3>2
  <2> QED BY <1>1, <1>4, <2>2, <2>4, <2>5, AgentStepKeeps
<1> QED BY <1>2, <1>6, <1>7, <1>8 DEF Dispatch

-----------------------------------------------------------------------------
(* The SDK and the runtime.                                                *)

LEMMA SendFailsKeeps ==
  ASSUME IInv, NEW q \in Requests, SendFails(q)
  PROVE  IInv'
<1>1. /\ TypeOK /\ UNCHANGED <<row, log, runtime, tool, sdk, admitted, probe, handoff, bounds>>
      /\ failed' = failed \union {q} /\ q \in admitted /\ Failing({q}) /\ row' = row
  BY DEF IInv, SendFails
<1>2. Later /\ Grows /\ CustomOnce' /\ ChainSteps
  BY <1>1, SameRows, SameLog, FailingInChain DEF IInv, CustomOnce
<1>3. TypeOK'
  BY <1>1, <1>2 DEF TypeOK, ChainSteps, TaskType, bounds
<1>4. \A p \in Requests : UnderWay(p)' /\ NamesEntry(p)'
  BY <1>1 DEF IInv, UnderWay, NamesEntry
<1> QED BY <1>1, <1>2, <1>3, <1>4, AgentStepKeeps

LEMMA ClaimKeeps ==
  ASSUME IInv, NEW q \in Requests, Claim(q)
  PROVE  IInv'
<1>1. /\ TypeOK /\ UNCHANGED <<row, log, runtime, tool, admitted, failed, probe, handoff, chain, bounds>>
      /\ sdk' = [sdk EXCEPT ![q] = "claimed"] /\ sdk[q] # "none" /\ row' = row
  BY DEF IInv, Claim
<1>2. Later /\ Grows /\ CustomOnce' /\ ChainSteps
  BY <1>1, SameRows, SameLog, SameChain DEF IInv, CustomOnce
<1>3. sdk' \in [Requests -> {"none", "queued", "claimed"}] /\ \A p \in Requests : sdk'[p] # "none" => sdk[p] # "none"
  BY <1>1 DEF TypeOK
<1>4. TypeOK'
  BY <1>1, <1>3 DEF TypeOK, chain, bounds
<1>5. \A p \in Requests : UnderWay(p)' /\ NamesEntry(p)'
  BY <1>1, <1>2, <1>3, UnderWayFrame DEF IInv, NamesEntry
<1> QED BY <1>1, <1>2, <1>4, <1>5, AgentStepKeeps

\* An entry that is appended.
LEMMA AppendKeeps ==
  ASSUME IInv, NEW q \in Requests, NEW kind \in {"tool", "custom"},
         log' = Append(log, [req |-> q, kind |-> kind]),
         kind = "custom" => sdk[q] # "none" /\ sdk'[q] = "none",
         \A p \in Requests : sdk'[p] # "none" => sdk[p] # "none",
         UNCHANGED <<row, admitted>>
  PROVE  /\ Later /\ Grows /\ log' \in Seq(EntryType) /\ CustomOnce'
         /\ \A p \in Requests : UnderWay(p)' /\ NamesEntry(p)'
<1> DEFINE n == Len(log) + 1
           e == [req |-> q, kind |-> kind]
<1>1. e \in EntryType
  BY DEF EntryType
<1>2. /\ Grows /\ log' \in Seq(EntryType) /\ DOMAIN log' = DOMAIN log \union {n}
      /\ log'[n] = e /\ n \notin DOMAIN log /\ \A i \in DOMAIN log : log'[i] = log[i]
  BY <1>1, Appended DEF IInv, Grows
<1>3. e.req = q /\ e.kind = kind
  OBVIOUS
<1>4. kind = "custom" => \A i \in DOMAIN log : log[i] # e
  BY DEF IInv, UnderWay
<1> HIDE DEF n, e
<1>5. CustomOnce'
  <2> SUFFICES ASSUME NEW i \in DOMAIN log', NEW j \in DOMAIN log', log'[i] = log'[j], log'[i].kind = "custom"
               PROVE  i = j
    BY DEF CustomOnce
  <2>1. CASE i \in DOMAIN log /\ j \in DOMAIN log
    BY <1>2, <2>1 DEF IInv, CustomOnce
  <2>2. CASE i = n \/ j = n
    BY <1>2, <1>3, <1>4, <2>2
  <2> QED BY <1>2, <2>1, <2>2
<1>6. ASSUME NEW p \in Requests PROVE UnderWay(p)'
  <2> SUFFICES ASSUME sdk'[p] # "none", NEW i \in DOMAIN log'
               PROVE  /\ log'[i] # [req |-> p, kind |-> "custom"]
                      /\ p \in admitted' \/ row'[p].status = "delivered"
    BY DEF UnderWay, IInv
  <2>1. UnderWay(p) /\ sdk[p] # "none"
    BY DEF IInv
  <2>2. CASE i \in DOMAIN log
    BY <1>2, <2>1, <2>2 DEF UnderWay
  <2>3. CASE i = n
    BY <1>2, <1>3, <2>1, <2>3 DEF UnderWay
  <2> QED BY <1>2, <2>2, <2>3
<1>7. \A p \in Requests : NamesEntry(p)'
  BY <1>2, NamesFrame DEF IInv
<1> QED BY <1>2, <1>5, <1>6, <1>7, SameRows

LEMMA PersistKeeps ==
  ASSUME IInv, NEW q \in Requests, Persist(q)
  PROVE  IInv'
<1>1. /\ TypeOK /\ UNCHANGED <<row, runtime, tool, admitted, failed, handoff, chain, bounds>>
      /\ sdk' = [sdk EXCEPT ![q] = "none"] /\ sdk[q] # "none" /\ probe' = TRUE
      /\ log' = Append(log, [req |-> q, kind |-> "custom"])
  BY DEF IInv, Persist
<1>2. /\ sdk' \in [Requests -> {"none", "queued", "claimed"}] /\ sdk'[q] = "none"
      /\ \A p \in Requests : sdk'[p] # "none" => sdk[p] # "none"
  BY <1>1 DEF TypeOK
<1>3. /\ Later /\ Grows /\ log' \in Seq(EntryType) /\ CustomOnce'
      /\ \A p \in Requests : UnderWay(p)' /\ NamesEntry(p)'
  BY <1>1, <1>2, AppendKeeps
<1>4. TypeOK'
  BY <1>1, <1>2, <1>3 DEF TypeOK, EntryType, chain, bounds
<1>5. ChainSteps
  BY <1>1, SameChain
<1> QED BY <1>1, <1>3, <1>4, <1>5, AgentStepKeeps

LEMMA WriteResultKeeps ==
  ASSUME IInv, NEW q \in Requests, WriteResult(q)
  PROVE  IInv'
<1>1. /\ TypeOK /\ UNCHANGED <<row, runtime, sdk, admitted, failed, handoff, chain, bounds>>
      /\ tool' = [tool EXCEPT ![q] = "none"] /\ probe' = TRUE
      /\ log' = Append(log, [req |-> q, kind |-> "tool"])
  BY DEF IInv, WriteResult
<1>2. tool' \in [Requests -> {"none", "waiting", "answered"}]
  BY <1>1 DEF TypeOK
<1>3. /\ Later /\ Grows /\ log' \in Seq(EntryType) /\ CustomOnce'
      /\ \A p \in Requests : UnderWay(p)' /\ NamesEntry(p)'
  BY <1>1, AppendKeeps
<1>4. TypeOK'
  BY <1>1, <1>2, <1>3 DEF TypeOK, EntryType, chain, bounds
<1>5. ChainSteps
  BY <1>1, SameChain
<1> QED BY <1>1, <1>3, <1>4, <1>5, AgentStepKeeps

\* Steps of the runtime alone.
LEMMA RuntimeStepKeeps ==
  ASSUME IInv, Settled \/ StartRuntime \/ Stop
  PROVE  IInv'
<1>1. /\ TypeOK /\ UNCHANGED <<row, log, sdk, admitted, failed, chain>> /\ row' = row
      /\ handoff' \subseteq handoff
  BY DEF IInv, Settled, StartRuntime, Stop
<1>2. Later /\ Grows /\ CustomOnce' /\ ChainSteps
  BY <1>1, SameRows, SameLog, SameChain DEF IInv, CustomOnce
<1>3. TypeOK'
  <2>1. /\ runtime' \in {"none", "live", "closing"} /\ probe' \in BOOLEAN
        /\ tool' \in [Requests -> {"none", "waiting", "answered"}]
    <3>1. CASE Settled \/ StartRuntime
      BY <1>1, <3>1 DEF Settled, StartRuntime, TypeOK
    <3>2. CASE Stop
      <4>1. tool' = [q \in Requests |-> IF tool[q] = "waiting" THEN "none" ELSE tool[q]]
            /\ runtime' = "closing" /\ probe' = probe
        BY <3>2 DEF Stop
      <4>2. \A q \in Requests : tool[q] \in {"none", "waiting", "answered"}
        BY <1>1 DEF TypeOK
      <4>3. tool' \in [Requests -> {"none", "waiting", "answered"}]
        BY <4>1, <4>2
      <4> QED BY <1>1, <4>1, <4>3 DEF TypeOK
    <3> QED BY <3>1, <3>2
  <2>2. stops' \in Nat /\ crashes' \in Nat /\ faults' \in Nat
    BY <1>1 DEF Settled, StartRuntime, Stop, TypeOK, bounds
  <2> QED BY <1>1, <2>1, <2>2 DEF TypeOK, chain
<1>4. \A p \in Requests : UnderWay(p)' /\ NamesEntry(p)'
  BY <1>1 DEF IInv, UnderWay, NamesEntry
<1> QED BY <1>1, <1>2, <1>3, <1>4, AgentStepKeeps

LEMMA ClearQueueKeeps ==
  ASSUME IInv, ClearQueue
  PROVE  IInv'
<1> DEFINE gone == {q \in Requests : sdk[q] = "queued"}
<1>1. /\ TypeOK /\ UNCHANGED <<row, log, runtime, tool, probe, handoff, bounds>> /\ row' = row
      /\ sdk' = [q \in Requests |-> IF q \in gone THEN "none" ELSE sdk[q]]
      /\ admitted' = admitted \ gone /\ failed' = failed \ gone
      /\ Failing(gone \intersect admitted)
  BY DEF IInv, ClearQueue
<1>2. Later /\ Grows /\ CustomOnce' /\ ChainSteps
  BY <1>1, SameRows, SameLog, FailingInChain DEF IInv, CustomOnce
<1>3. /\ sdk' \in [Requests -> {"none", "queued", "claimed"}]
      /\ \A p \in Requests : sdk'[p] # "none" => sdk[p] # "none" /\ p \notin gone
  BY <1>1 DEF TypeOK
<1> HIDE DEF gone
<1>4. TypeOK'
  BY <1>1, <1>2, <1>3 DEF TypeOK, ChainSteps, TaskType, bounds
<1>5. \A p \in Requests : UnderWay(p)' /\ NamesEntry(p)'
  BY <1>1, <1>3 DEF IInv, UnderWay, NamesEntry
<1> QED BY <1>1, <1>2, <1>4, <1>5, AgentStepKeeps

LEMMA DisposedKeeps ==
  ASSUME IInv, Disposed
  PROVE  IInv'
<1>1. /\ TypeOK /\ runtime' = "none" /\ tool' = [q \in Requests |-> "none"]
      /\ sdk' = [q \in Requests |-> "none"] /\ probe' = FALSE
      /\ admitted' = {} /\ failed' = {} /\ UNCHANGED <<log, handoff>>
  BY DEF IInv, Disposed, Retired, TypeOK
<1>2. CASE /\ row' = Found(Persisted) /\ UNCHANGED bounds
           /\ \/ /\ queue # <<>> /\ task[Head(queue)].at = "observing" /\ Fails(Head(queue))
              \/ task' = Observed(Persisted) /\ UNCHANGED <<queue, used>>
  <2>1. Persisted \in SUBSET Requests
    BY <1>1, PersistedIs
  <2>2. /\ row' \in [Requests -> RowType] /\ Later /\ Grows /\ CustomOnce'
        /\ \A p \in Requests : NamesEntry(p)'
    BY <1>1, <1>2, <2>1, FoundIs
  <2>3. ChainSteps
    <3>1. CASE task' = Observed(Persisted) /\ UNCHANGED <<queue, used>>
      BY <1>1, <1>2, <3>1, ObservedInChain
    <3>2. CASE queue # <<>> /\ task[Head(queue)].at = "observing" /\ Fails(Head(queue))
      <4>1. PICK t \in Tasks : t = Head(queue) /\ Running(t) /\ Active(t) /\ task[t].op = "deliver"
        BY <3>2, HeadObserves
      <4> QED BY <2>2, <3>2, <4>1, FailsInChain
    <3> QED BY <1>2, <3>1, <3>2
  <2>4. TypeOK'
    BY <1>1, <1>2, <2>2, <2>3 DEF TypeOK, ChainSteps, RowType, TaskType, bounds
  <2>5. \A p \in Requests : UnderWay(p)'
    BY <1>1 DEF UnderWay
  <2> QED BY <1>1, <2>2, <2>3, <2>4, <2>5, AgentStepKeeps
<1>3. CASE StoreFails /\ Failing(Retired) /\ UNCHANGED row
  <2>1. Later /\ Grows /\ CustomOnce' /\ ChainSteps
    BY <1>1, <1>3, SameRows, SameLog, FailingInChain DEF IInv, CustomOnce
  <2>2. TypeOK'
    <3>1. faults' \in Nat /\ stops' \in Nat /\ crashes' \in Nat
      BY <1>1, <1>3 DEF TypeOK, StoreFails
    <3> QED BY <1>1, <1>3, <2>1, <3>1 DEF TypeOK, ChainSteps, TaskType
  <2>3. \A p \in Requests : UnderWay(p)' /\ NamesEntry(p)'
    BY <1>1, <1>3 DEF IInv, UnderWay, NamesEntry
  <2> QED BY <1>1, <2>1, <2>2, <2>3, AgentStepKeeps
<1>4. \/ /\ row' = Found(Persisted) /\ UNCHANGED bounds
         /\ \/ /\ queue # <<>> /\ task[Head(queue)].at = "observing" /\ Fails(Head(queue))
            \/ task' = Observed(Persisted) /\ UNCHANGED <<queue, used>>
      \/ StoreFails /\ Failing(Retired) /\ UNCHANGED row
  BY DEF Disposed
<1> QED BY <1>2, <1>3, <1>4

LEMMA CrashKeeps ==
  ASSUME IInv, Crash
  PROVE  IInv'
<1>1. /\ TypeOK /\ UNCHANGED <<row, log, used, stops, faults>> /\ row' = row
      /\ sdk' = [q \in Requests |-> "none"] /\ handoff' = {} /\ queue' = <<>>
  BY DEF IInv, Crash
<1>2. ASSUME NEW t \in Tasks
      PROVE  /\ task'[t] \in TaskType /\ task'[t].at \in {"none", "done"}
             /\ task[t].at = "none" => task'[t].at = "none"
  <2>1. CASE task[t].at = "none"
    <3>1. task'[t] = NoTask
      BY <2>1 DEF Crash
    <3> QED BY <3>1 DEF NoTask, TaskType
  <2>2. CASE task[t].at # "none"
    <3>1. task'[t] = [task[t] EXCEPT !.at = "done"] /\ task[t] \in TaskType
      BY <1>1, <2>2, Typed, Zenon DEF Crash
    <3> QED BY <2>2, <3>1 DEF TaskType
  <2> QED BY <2>1, <2>2
<1>3. task' \in [Tasks -> TaskType]
  <2>1. task' = [t \in Tasks |-> task'[t]]
    BY DEF Crash
  <2> QED BY <1>2, <2>1
<1>4. TypeOK'
  <2>1. /\ runtime' = "none" /\ tool' = [q \in Requests |-> "none"] /\ admitted' = {}
        /\ failed' = {} /\ probe' = FALSE /\ crashes' = crashes + 1
    BY DEF Crash
  <2>2. crashes' \in Nat /\ stops' \in Nat /\ faults' \in Nat
    BY <1>1, <2>1 DEF TypeOK
  <2>3. queue' \in Seq(Tasks)
    BY <1>1
  <2>4. sdk' \in [Requests -> {"none", "queued", "claimed"}] /\ tool' \in [Requests -> {"none", "waiting", "answered"}]
    BY <1>1, <2>1
  <2> QED BY <1>1, <1>3, <2>1, <2>2, <2>3, <2>4 DEF TypeOK, TaskType
<1>5. \A t \in Tasks : SoundTask(t)'
  BY <1>1, <1>2 DEF IInv, SoundTask
<1>6. Later /\ Grows /\ CustomOnce' /\ HandoffHeld' /\ used' >= used
  BY <1>1, SameRows, SameLog, Typed DEF IInv, CustomOnce, HandoffHeld
<1>7. \A p \in Requests : UnderWay(p)' /\ NamesEntry(p)'
  BY <1>1 DEF IInv, UnderWay, NamesEntry
<1> QED BY <1>4, <1>5, <1>6, <1>7, StepKeeps

-----------------------------------------------------------------------------
(* The invariant of the specification.                                     *)

LEMMA InitInvariant == Init => IInv
<1> SUFFICES ASSUME Init PROVE IInv
  OBVIOUS
<1>1. TypeOK
  <2>1. NewRow \in RowType /\ NoTask \in TaskType
    BY DEF NewRow, NoTask, RowType, TaskType
  <2>2. row \in [Requests -> RowType] /\ task \in [Tasks -> TaskType]
    BY <2>1 DEF Init
  <2>3. log \in Seq(EntryType) /\ queue \in Seq(Tasks) /\ used \in 0 .. MaxTasks
    BY BoundsAssumption DEF Init
  <2>4. /\ runtime \in {"none", "live", "closing"} /\ tool \in [Requests -> {"none", "waiting", "answered"}]
        /\ sdk \in [Requests -> {"none", "queued", "claimed"}] /\ admitted \subseteq Requests
        /\ failed \subseteq admitted /\ probe \in BOOLEAN /\ handoff \subseteq Requests
        /\ stops \in Nat /\ crashes \in Nat /\ faults \in Nat
    BY DEF Init
  <2> QED BY <2>2, <2>3, <2>4 DEF TypeOK, RowType, EntryType, TaskType
<1>2. CustomOnce /\ HandoffHeld
  BY DEF Init, CustomOnce, HandoffHeld
<1>3. \A t \in Tasks : SoundTask(t)
  BY DEF Init, SoundTask, NoTask
<1>4. \A q \in Requests : UnderWay(q) /\ NamesEntry(q)
  BY DEF Init, UnderWay, NamesEntry, NewRow
<1> QED BY <1>1, <1>2, <1>3, <1>4 DEF IInv

LEMMA StepInvariant == IInv /\ [Next]_vars => IInv'
<1> SUFFICES ASSUME IInv, [Next]_vars PROVE IInv'
  OBVIOUS
<1>1. CASE Owner
  BY <1>1, SubmitKeeps, RedeliverKeeps, CancelKeeps DEF Owner
<1>2. CASE Sdk
  BY <1>2, CallToolKeeps, GraceExpiresKeeps, SendFailsKeeps, ClaimKeeps, PersistKeeps, WriteResultKeeps DEF Sdk
<1>3. CASE Settled \/ StartRuntime \/ Stop
  BY <1>3, RuntimeStepKeeps
<1>4. CASE Reconcile
  BY <1>4, ReconcileKeeps
<1>5. CASE ClearQueue
  BY <1>5, ClearQueueKeeps
<1>6. CASE Disposed
  BY <1>6, DisposedKeeps
<1>7. CASE Crash
  BY <1>7, CrashKeeps
<1>8. ASSUME NEW t \in Tasks, Turn(t) \/ Wake(t) PROVE IInv'
  BY <1>8, StartKeeps, ProbeKeeps, ProbeFailsKeeps, MarkKeeps, DispatchKeeps, AttemptFailsKeeps,
     WakeKeeps DEF Turn
<1>9. CASE UNCHANGED vars
  <2>1. TypeOK' /\ CustomOnce' /\ HandoffHeld'
    BY <1>9 DEF vars, agent, chain, bounds, IInv, TypeOK, CustomOnce, HandoffHeld
  <2>2. \A t \in Tasks : SoundTask(t)'
    BY <1>9 DEF vars, agent, chain, IInv, SoundTask, EntryMatches, Answered
  <2>3. \A q \in Requests : UnderWay(q)' /\ NamesEntry(q)'
    BY <1>9 DEF vars, agent, IInv, UnderWay, NamesEntry
  <2> QED BY <2>1, <2>2, <2>3 DEF IInv
<1> QED BY <1>1, <1>2, <1>3, <1>4, <1>5, <1>6, <1>7, <1>8, <1>9 DEF Next

LEMMA Invariant == Spec => []IInv
BY InitInvariant, StepInvariant, PTL DEF Spec

-----------------------------------------------------------------------------
(* The refinement of InterviewAnswers.                                     *)

\* A message under way and an answer handed to a call are those of an answered
\* request, a call has not written its result yet, and the file holds answers
\* only.
Told(q) ==
  /\ sdk[q] # "none" \/ tool[q] = "answered" => Answered(q)
  /\ tool[q] # "none" => \A i \in DOMAIN log : log[i] # [req |-> q, kind |-> "tool"]
  /\ \A i \in DOMAIN log : log[i].req = q => Answered(q)

Recorded(q) == \/ row'[q] = row[q]
               \/ row[q].status = "submitted" /\ row'[q].status = "delivered"

LEMMA RecordedIsLater ==
  ASSUME \A q \in Requests : Recorded(q)
  PROVE  Later
BY DEF Recorded, Later, Answered

LEMMA DeliveredMoves ==
  ASSUME NEW r, NEW mode, NEW entry
  PROVE  \/ Delivered(r, mode, entry) = r
         \/ r.status = "submitted" /\ Delivered(r, mode, entry).status = "delivered"
BY DEF Delivered

\* Apart from questions, answers and cancellations the records only become
\* delivered.
LEMMA OnlyRecorded ==
  ASSUME IInv, [Next]_vars,
         ~ \E q \in Requests : CallTool(q) \/ Submit(q) \/ Cancel(q)
  PROVE  \A q \in Requests : Recorded(q)
<1>1. ASSUME NEW S \in SUBSET Requests, row' = Found(S) PROVE \A q \in Requests : Recorded(q)
  BY <1>1, DeliveredMoves DEF Found, Recorded
<1>2. ASSUME row' = row PROVE \A q \in Requests : Recorded(q)
  BY <1>2 DEF Recorded
<1>3. Persisted \in SUBSET Requests
  BY PersistedIs DEF IInv
<1>4. CASE Reconcile \/ Disposed
  BY <1>1, <1>2, <1>3, <1>4 DEF Reconcile, Disposed
<1>5. ASSUME NEW t \in Tasks, Dispatch(t) PROVE \A q \in Requests : Recorded(q)
  <2>1. task[t].req \in Requests
    BY <1>5 DEF IInv, SoundTask, Dispatch
  <2> QED BY <1>1, <1>3, <1>5, <2>1 DEF Dispatch
<1>6. ASSUME NEW t \in Tasks, Mark(t) PROVE \A q \in Requests : Recorded(q)
  <2>1. CASE row' = row
    BY <1>2, <2>1
  <2>2. CASE row' = [row EXCEPT ![task[t].req] =
                       Delivered(row[task[t].req], task[t].mode, task[t].entry)]
    BY <2>2, DeliveredMoves DEF Recorded, IInv, TypeOK
  <2> QED BY <1>6, <2>1, <2>2 DEF Mark
<1>7. CASE row' = row
  BY <1>2, <1>7
<1> QED BY <1>4, <1>5, <1>6, <1>7
        DEF Next, vars, Owner, Redeliver, Sdk, GraceExpires, SendFails, Claim, Persist, WriteResult,
            Settled, ClearQueue, StartRuntime, Stop, Crash, Turn, Start, Probe, ProbeFails,
            DispatchFails, ObserveFails, Wake

LEMMA ToldFrame ==
  ASSUME NEW q \in Requests, Told(q), Later, log' = log,
         sdk'[q] # "none" => sdk[q] # "none" \/ Answered(q),
         tool'[q] # "none" => tool'[q] = tool[q]
  PROVE  Told(q)'
BY DEF Told, Later

LEMMA ToldKeeps ==
  ASSUME IInv, \A q \in Requests : Told(q), [Next]_vars
  PROVE  \A q \in Requests : Told(q)'
<1>0. TypeOK
  BY DEF IInv
<1>1. ASSUME NEW p \in Requests, CallTool(p) \/ Cancel(p) \/ Submit(p), NEW q \in Requests
      PROVE  Told(q)'
  <2> DEFINE s == row'[p].status
  <2>1. /\ ~ Answered(p) /\ UNCHANGED <<log, sdk, admitted>>
        /\ \E x \in {"open", "submitted", "cancelled"} : row' = [row EXCEPT ![p].status = x]
    BY <1>1 DEF CallTool, Cancel, Submit, Answered
  <2>2. Later
    BY <2>1, RequestMoves
  <2>3. CASE q # p
    <3>1. tool'[q] = tool[q]
      BY <1>0, <1>1, <2>3 DEF CallTool, Cancel, Submit, TypeOK
    <3> QED BY <2>1, <2>2, <3>1, ToldFrame
  <2>4. CASE q = p /\ Cancel(p)
    <3>1. tool'[q] = "none"
      BY <1>0, <2>4 DEF Cancel, TypeOK
    <3> QED BY <2>1, <2>2, <3>1, ToldFrame
  <2>5. CASE q = p /\ CallTool(p)
    <3>1. \A i \in DOMAIN log : log[i].req # q
      BY <2>1, <2>5 DEF Told
    <3>2. tool'[q] = "waiting" /\ sdk'[q] = "none"
      BY <1>0, <2>1, <2>5 DEF CallTool, TypeOK, Told
    <3> QED BY <2>1, <3>1, <3>2 DEF Told
  <2>6. CASE q = p /\ Submit(p)
    <3>1. row'[q].status = "submitted"
      BY <1>0, <2>6 DEF Submit, TypeOK
    <3>2. tool'[q] # "none" => tool[q] # "none"
      BY <1>0, <2>6 DEF Submit, TypeOK
    <3>3. Answered(q)'
      BY <3>1 DEF Answered
    <3> QED BY <2>1, <3>2, <3>3 DEF Told
  <2> QED BY <1>1, <2>3, <2>4, <2>5, <2>6
<1>2. CASE ~ \E q \in Requests : CallTool(q) \/ Submit(q) \/ Cancel(q)
  <2>1. Later
    BY <1>2, OnlyRecorded, RecordedIsLater
  <2>2. ASSUME NEW p \in Requests, Persist(p) \/ WriteResult(p), NEW q \in Requests
        PROVE  Told(q)'
    <3> DEFINE kind == IF Persist(p) THEN "custom" ELSE "tool"
    <3>1. /\ log' = Append(log, [req |-> p, kind |-> kind]) /\ kind \in {"custom", "tool"}
          /\ Answered(p)
      BY <2>2 DEF Persist, WriteResult, Told
    <3>2. /\ sdk'[q] # "none" => sdk[q] # "none"
          /\ tool'[q] # "none" => tool'[q] = tool[q] /\ (q = p => kind = "custom")
      BY <1>0, <2>2 DEF Persist, WriteResult, TypeOK
    <3> HIDE DEF kind
    <3>3. [req |-> p, kind |-> kind] \in EntryType
      BY <3>1 DEF EntryType
    <3>4. /\ DOMAIN log' = DOMAIN log \union {Len(log) + 1}
          /\ log'[Len(log) + 1] = [req |-> p, kind |-> kind]
          /\ \A i \in DOMAIN log : log'[i] = log[i]
      BY <1>0, <3>1, <3>3, Appended DEF Grows
    <3>5. Answered(q) => Answered(q)'
      BY <2>1 DEF Later
    <3>6. ASSUME NEW i \in DOMAIN log'
          PROVE  /\ tool'[q] # "none" => log'[i] # [req |-> q, kind |-> "tool"]
                 /\ log'[i].req = q => Answered(q)'
      <4>1. CASE i \in DOMAIN log
        BY <3>2, <3>4, <3>5, <4>1 DEF Told
      <4>2. CASE i = Len(log) + 1
        BY <3>1, <3>2, <3>4, <3>5, <4>2
      <4> QED BY <3>4, <4>1, <4>2
    <3> QED BY <3>2, <3>5, <3>6 DEF Told
  <2>3. ASSUME NEW t \in Tasks, Dispatch(t), NEW q \in Requests PROVE Told(q)'
    <3>1. Answered(task[t].req) /\ log' = log /\ tool' = tool
      BY <2>3 DEF Dispatch, IInv, SoundTask
    <3>2. sdk'[q] # "none" => sdk[q] # "none" \/ Answered(q)
      BY <1>0, <2>3, <3>1 DEF Dispatch, TypeOK
    <3> QED BY <2>1, <3>1, <3>2, ToldFrame
  <2>4. ASSUME NEW p \in Requests, GraceExpires(p) \/ Claim(p), NEW q \in Requests PROVE Told(q)'
    <3>1. /\ log' = log /\ (sdk'[q] # "none" => sdk[q] # "none")
          /\ tool'[q] # "none" => tool'[q] = tool[q]
      BY <1>0, <2>4 DEF GraceExpires, Claim, TypeOK
    <3> QED BY <2>1, <3>1, ToldFrame
  <2>5. CASE ClearQueue \/ Stop \/ Disposed \/ Crash
    <3>1. ASSUME NEW q \in Requests
          PROVE  /\ log' = log /\ (sdk'[q] # "none" => sdk[q] # "none")
                 /\ tool'[q] # "none" => tool'[q] = tool[q]
      BY <2>5 DEF ClearQueue, Stop, Disposed, Crash
    <3> QED BY <2>1, <3>1, ToldFrame
  <2>6. CASE UNCHANGED <<log, tool, sdk>>
    BY <2>1, <2>6, ToldFrame
  <2> QED BY <1>2, <2>2, <2>3, <2>4, <2>5, <2>6
          DEF Next, vars, agent, Owner, Redeliver, Sdk, SendFails, Settled, Reconcile, StartRuntime,
              Turn, Start, Probe, ProbeFails, Mark, DispatchFails, ObserveFails, Wake
<1> QED BY <1>1, <1>2

Proof(q) == IF row[q].status = "delivered" THEN Evidence(q) ELSE {}

LEMMA ProofIs ==
  ASSUME IInv, NEW q \in Requests
  PROVE  Proof(q) = IF row[q].status = "delivered" THEN {row[q].entry} ELSE {}
<1>1. NamesEntry(q)
  BY DEF IInv
<1> QED BY <1>1 DEF NamesEntry, Proof, Evidence, Verifies

\* The abstract steps in the terms of the model.
LEMMA AnswersTerms ==
  /\ \A q, from, to : Answers!Becomes(q, from, to) <=>
       /\ [p \in Requests |-> row[p].status][q] = from
       /\ [p \in Requests |-> row'[p].status] = [[p \in Requests |-> row[p].status] EXCEPT ![q] = to]
       /\ log' = log /\ [p \in Requests |-> Proof(p)'] = [p \in Requests |-> Proof(p)]
  /\ \A q \in Requests : \A kind : Answers!Enter(q, kind) <=>
       /\ Answered(q)
       /\ \A i \in DOMAIN log : log[i] # [req |-> q, kind |-> kind]
       /\ log' = Append(log, [req |-> q, kind |-> kind])
       /\ [p \in Requests |-> row'[p].status] = [p \in Requests |-> row[p].status]
       /\ [p \in Requests |-> Proof(p)'] = [p \in Requests |-> Proof(p)]
  /\ Answers!Record <=>
       /\ log' = log
       /\ \A q \in Requests :
             \/ row'[q].status = row[q].status /\ Proof(q)' = Proof(q)
             \/ /\ row[q].status = "submitted" /\ row'[q].status = "delivered"
                /\ \E i \in DOMAIN log : log[i].req = q /\ Proof(q)' = {i}
BY DEF Answers!Becomes, Answers!Enter, Answers!Record, Answers!Requests, Requests, Proof, Answered

LEMMA AnswersNext ==
  /\ \A q \in Requests : Answers!Becomes(q, "none", "open") => Answers!Next
  /\ \A q \in Requests : Answers!Becomes(q, "open", "submitted") => Answers!Next
  /\ \A q \in Requests : Answers!Becomes(q, "open", "cancelled") => Answers!Next
  /\ \A q \in Requests, kind \in {"tool", "custom"} : Answers!Enter(q, kind) => Answers!Next
  /\ Answers!Record => Answers!Next
BY DEF Answers!Next, Answers!Ask, Answers!Answer, Answers!Cancel, Answers!Requests, Requests

LEMMA RequestRefines ==
  ASSUME IInv, IInv', NEW q \in Requests, NEW from, NEW to, row[q].status = from,
         from # "delivered", to # "delivered", row' = [row EXCEPT ![q].status = to], log' = log
  PROVE  Answers!Becomes(q, from, to)
<1>1. row \in [Requests -> RowType]
  BY Typed DEF IInv
<1>2. /\ row'[q].status = to /\ \A p \in Requests : p # q => row'[p] = row[p]
  BY <1>1 DEF RowType
<1>3. \A p \in Requests : Proof(p)' = Proof(p)
  <2> SUFFICES ASSUME NEW p \in Requests PROVE Proof(p)' = Proof(p)
    OBVIOUS
  <2>1. CASE p = q
    BY <1>2, <2>1 DEF Proof
  <2>2. CASE p # q
    BY <1>2, <2>2 DEF Proof, Evidence, Verifies
  <2> QED BY <2>1, <2>2
<1>4. [p \in Requests |-> row'[p].status] = [[p \in Requests |-> row[p].status] EXCEPT ![q] = to]
  <2>1. \A p \in Requests : row'[p].status = IF p = q THEN to ELSE row[p].status
    BY <1>2
  <2> QED BY <2>1
<1>5. [p \in Requests |-> Proof(p)'] = [p \in Requests |-> Proof(p)]
  BY <1>3
<1> QED BY <1>4, <1>5, AnswersTerms

LEMMA RecordRefines ==
  ASSUME IInv, IInv', log' = log, \A q \in Requests : Recorded(q)
  PROVE  Answers!Next
<1>1. ASSUME NEW q \in Requests
      PROVE  \/ row'[q].status = row[q].status /\ Proof(q)' = Proof(q)
             \/ /\ row[q].status = "submitted" /\ row'[q].status = "delivered"
                /\ \E i \in DOMAIN log : log[i].req = q /\ Proof(q)' = {i}
  <2>1. CASE row'[q] = row[q]
    BY <2>1 DEF Proof, Evidence, Verifies
  <2>2. CASE row[q].status = "submitted" /\ row'[q].status = "delivered"
    <3>1. NamesEntry(q)' /\ Proof(q)' = {row'[q].entry}
      <4>1. NamesEntry(q)'
        BY DEF IInv
      <4>2. Evidence(q)' = {row'[q].entry}
        BY <2>2, <4>1 DEF NamesEntry, Evidence, Verifies
      <4> QED BY <2>2, <4>1, <4>2 DEF Proof
    <3>2. row'[q].entry \in DOMAIN log /\ log[row'[q].entry].req = q
      BY <2>2, <3>1 DEF NamesEntry
    <3> QED BY <2>2, <3>1, <3>2
  <2> QED BY <2>1, <2>2 DEF Recorded
<1> QED BY <1>1, AnswersTerms, AnswersNext

LEMMA EnterRefines ==
  ASSUME IInv, IInv', \A q \in Requests : Told(q), NEW q \in Requests, Persist(q) \/ WriteResult(q)
  PROVE  Answers!Next
<1> DEFINE kind == IF Persist(q) THEN "custom" ELSE "tool"
<1>1. /\ kind \in {"tool", "custom"} /\ row' = row
      /\ log' = Append(log, [req |-> q, kind |-> kind])
      /\ Answered(q) /\ \A i \in DOMAIN log : log[i] # [req |-> q, kind |-> kind]
  BY DEF Persist, WriteResult, Told, IInv, UnderWay
<1> HIDE DEF kind
<1>2. \A p \in Requests : Proof(p)' = Proof(p)
  <2> SUFFICES ASSUME NEW p \in Requests PROVE Proof(p)' = Proof(p)
    OBVIOUS
  <2>1. NamesEntry(p) /\ NamesEntry(p)'
    BY DEF IInv
  <2>2. row[p].status = "delivered" => Evidence(p) = {row[p].entry} /\ Evidence(p)' = {row'[p].entry}
    BY <1>1, <2>1 DEF NamesEntry, Evidence, Verifies
  <2> QED BY <1>1, <2>2 DEF Proof
<1>3. /\ [p \in Requests |-> Proof(p)'] = [p \in Requests |-> Proof(p)]
      /\ [p \in Requests |-> row'[p].status] = [p \in Requests |-> row[p].status]
  BY <1>1, <1>2
<1>4. Answers!Enter(q, kind)
  BY <1>1, <1>3, AnswersTerms
<1> QED BY <1>1, <1>4, AnswersNext

LEMMA AnswersInit == Init => Answers!Init /\ \A q \in Requests : Told(q)
<1> SUFFICES ASSUME Init PROVE Answers!Init /\ \A q \in Requests : Told(q)
  OBVIOUS
<1>1. \A q \in Requests : row[q].status = "none" /\ sdk[q] = "none" /\ tool[q] = "none"
  BY DEF Init, NewRow
<1>2. log = <<>> /\ DOMAIN log = {}
  BY DEF Init
<1> QED BY <1>1, <1>2 DEF Answers!Init, Answers!Requests, Requests, Told

LEMMA AnswersStep ==
  ASSUME IInv, IInv', \A q \in Requests : Told(q), [Next]_vars
  PROVE  Answers!Next
<1>1. ASSUME NEW q \in Requests, CallTool(q) \/ Submit(q) \/ Cancel(q) PROVE Answers!Next
  <2>1. log' = log
    BY <1>1 DEF CallTool, Submit, Cancel
  <2>2. CASE CallTool(q)
    <3>1. row[q].status = "none" /\ row' = [row EXCEPT ![q].status = "open"]
      BY <2>2 DEF CallTool
    <3>2. Answers!Becomes(q, "none", "open")
      BY <2>1, <3>1, RequestRefines
    <3> QED BY <3>2, AnswersNext
  <2>3. CASE Submit(q)
    <3>1. row[q].status = "open" /\ row' = [row EXCEPT ![q].status = "submitted"]
      BY <2>3 DEF Submit
    <3>2. Answers!Becomes(q, "open", "submitted")
      BY <2>1, <3>1, RequestRefines
    <3> QED BY <3>2, AnswersNext
  <2>4. CASE Cancel(q)
    <3>1. row[q].status = "open" /\ row' = [row EXCEPT ![q].status = "cancelled"]
      BY <2>4 DEF Cancel
    <3>2. Answers!Becomes(q, "open", "cancelled")
      BY <2>1, <3>1, RequestRefines
    <3> QED BY <3>2, AnswersNext
  <2> QED BY <1>1, <2>2, <2>3, <2>4
<1>2. CASE \E q \in Requests : Persist(q) \/ WriteResult(q)
  BY <1>2, EnterRefines
<1>3. CASE /\ ~ \E q \in Requests : CallTool(q) \/ Submit(q) \/ Cancel(q)
           /\ ~ \E q \in Requests : Persist(q) \/ WriteResult(q)
  <2>1. \A q \in Requests : Recorded(q)
    BY <1>3, OnlyRecorded
  <2>2. log' = log
    BY <1>3 DEF Next, vars, Owner, Redeliver, Sdk, GraceExpires, SendFails, Claim, Settled, Reconcile,
                ClearQueue, StartRuntime, Stop, Disposed, Crash, Turn, Start, Probe, ProbeFails, Mark,
                Dispatch, DispatchFails, ObserveFails, Wake
  <2> QED BY <2>1, <2>2, RecordRefines
<1> QED BY <1>1, <1>2, <1>3

-----------------------------------------------------------------------------
(* What follows.                                                           *)

(* Every reachable state of a session's interviews is well typed.          *)
THEOREM TypeCorrect == Spec => []TypeOK
<1>1. IInv => TypeOK
  BY DEF IInv
<1> QED BY <1>1, Invariant, PTL

(* No timeout, retry, discarded queue, stop or crash makes an answer enter *)
(* the session as a custom message twice.                                  *)
THEOREM EnteredOnce == Spec => []CustomOnce
<1>1. IInv => CustomOnce
  BY DEF IInv
<1> QED BY <1>1, Invariant, PTL

(* A handoff to a tool call has a confirmation that will end it, so it does *)
(* not keep later deliveries from the answer.                              *)
THEOREM HandoffEnds == Spec => []HandoffHeld
<1>1. IInv => HandoffHeld
  BY DEF IInv
<1> QED BY <1>1, Invariant, PTL

(* The record of a delivered answer and the file agree on the entry that    *)
(* carries it, whichever of tool result and custom message came first.     *)
THEOREM DeliveryVerified == Spec => []DeliveredIsVerified
<1>1. IInv => DeliveredIsVerified
  <2> SUFFICES ASSUME IInv, NEW q \in Requests, row[q].status = "delivered"
               PROVE  Evidence(q) = {row[q].entry}
    BY DEF DeliveredIsVerified
  <2>1. /\ row[q].entry \in DOMAIN log /\ log[row[q].entry].req = q
        /\ row[q].mode = ModeOf(log[row[q].entry].kind)
    BY DEF IInv, NamesEntry
  <2> QED BY <2>1 DEF Evidence, Verifies
<1> QED BY <1>1, Invariant, PTL

(* A custom message is sent only for an answer that neither the file nor    *)
(* another message under way carries.                                      *)
THEOREM SentForUnanswered == Spec => SentUnanswered
<1> DEFINE A == \A q \in Requests : q \notin admitted /\ q \in admitted'
                  => sdk[q] = "none" /\ \A i \in DOMAIN log : log[i].req # q
<1>1. IInv /\ [Next]_vars => [A]_vars
  <2> SUFFICES ASSUME IInv, [Next]_vars, NEW q \in Requests, q \notin admitted, q \in admitted'
               PROVE  sdk[q] = "none" /\ \A i \in DOMAIN log : log[i].req # q
    OBVIOUS
  <2>1. PICK t \in Tasks : Dispatch(t)
    BY DEF Next, vars, agent, Owner, Submit, Redeliver, Cancel, Sdk, CallTool, GraceExpires, SendFails,
           Claim, Persist, WriteResult, Settled, Reconcile, ClearQueue, StartRuntime, Stop, Disposed,
           Crash, Turn, Start, Probe, ProbeFails, Mark, DispatchFails, ObserveFails, Wake
  <2>2. q = task[t].req /\ Evidence(q) = {}
    BY <2>1 DEF Dispatch
  <2>3. TypeOK /\ Answered(q) /\ NamesEntry(q) /\ UnderWay(q)
    BY <2>1, <2>2 DEF IInv, Dispatch, SoundTask
  <2>4. row[q].status = "submitted" /\ \A i \in DOMAIN log : log[i].req # q
    BY <2>2, <2>3, NoEvidence
  <2> QED BY <2>3, <2>4 DEF UnderWay
<1>2. Spec => [][A]_vars
  <2> HIDE DEF A
  <2> QED BY <1>1, Invariant, PTL DEF Spec
<1> QED BY <1>2 DEF SentUnanswered
(* The interviews of a session implement the promise of InterviewAnswers:  *)
(* whatever call, delivery, retry, stop or crash happens, an answer is     *)
(* durable before it enters the file, enters it once in each form, never   *)
(* after a cancellation, and its delivery is recorded by one entry.        *)
THEOREM AnswersImplemented == Spec => ImplementsAnswers
<1> DEFINE AllTold == \A q \in Requests : Told(q)
<1>1. Init => Answers!Init /\ AllTold
  BY AnswersInit
<1>2. IInv /\ AllTold /\ [Next]_vars => AllTold'
  BY ToldKeeps
<1>3. IInv /\ IInv' /\ AllTold /\ [Next]_vars => [Answers!Next]_(Answers!interview)
  BY AnswersStep
<1> HIDE DEF AllTold
<1> QED BY <1>1, <1>2, <1>3, Invariant, PTL DEF Spec, ImplementsAnswers, Answers!Spec
=============================================================================
