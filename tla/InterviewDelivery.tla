--------------------------- MODULE InterviewDelivery ---------------------------
(* The interviews of one session: an agent's tool call asks, the owner     *)
(* answers in the browser, and the answer reaches the agent as the result  *)
(* of the waiting call or later as a custom message (interviews.ts,        *)
(* interview-bridge.ts, interview-delivery.ts, the admissions of           *)
(* pi-bridge.ts, routes/ws.ts).                                            *)
(*                                                                         *)
(* Deliveries of a session are serialized in a promise chain, the queue.   *)
(* A task is one confirmation or one retried delivery of an answer.  An    *)
(* action is the code between two awaits.                                  *)
EXTENDS Naturals, Sequences, FiniteSets

CONSTANTS MaxRequests,  \* bound on requests
          MaxTasks,     \* bound on tasks
          Attempts,     \* of retrySubmittedInterviewDelivery
          MaxStops,     \* bound on stops of the runtime
          MaxCrashes,   \* bound on crashes
          MaxFaults     \* bound on store writes that fail

ASSUME BoundsAssumption ==
  /\ MaxRequests \in Nat /\ MaxTasks \in Nat /\ Attempts \in Nat \ {0}
  /\ MaxStops \in Nat /\ MaxCrashes \in Nat /\ MaxFaults \in Nat

Requests == 1 .. MaxRequests
Tasks == 1 .. MaxTasks

VARIABLES
  \* durable: the store and the session's file
  row,       \* each request's record: status, and how it was delivered
  log,       \* the entries of the file that carry an answer
  \* the runtime
  runtime,   \* none, live, or closing
  tool,      \* the tool call of a request: waiting, or about to return answers
  sdk,       \* the custom message of a request in the queue of the SDK
  admitted,  \* interviewAdmissions of the handle
  failed,    \* the admissions whose send has failed
  probe,     \* an event of the SDK has a reconciliation pending
  \* the process
  handoff,   \* toolResultHandoffs
  task,      \* the tasks
  queue,     \* the chain of the session; its head runs
  used,      \* tasks that were begun
  stops, crashes, faults

agent == <<runtime, tool, sdk, admitted, failed, probe>>
chain == <<task, queue, used>>
bounds == <<stops, crashes, faults>>
vars == <<row, log, agent, handoff, chain, bounds>>

NewRow == [status |-> "none", mode |-> "none", entry |-> 0]
NoTask == [req |-> 0, op |-> "none", left |-> 0, at |-> "none", mode |-> "none", entry |-> 0]
ModeOf(kind) == IF kind = "tool" THEN "tool_result" ELSE "custom_message"

Init ==
  /\ row = [q \in Requests |-> NewRow] /\ log = <<>>
  /\ runtime = "none" /\ tool = [q \in Requests |-> "none"]
  /\ sdk = [q \in Requests |-> "none"] /\ admitted = {} /\ failed = {} /\ probe = FALSE
  /\ handoff = {} /\ task = [t \in Tasks |-> NoTask] /\ queue = <<>> /\ used = 0
  /\ stops = 0 /\ crashes = 0 /\ faults = 0

-----------------------------------------------------------------------------
(* Evidence.                                                               *)

\* resolveInterviewSubmissionEvidence: a submitted row vouches for every entry
\* that carries its answer, a delivered one for the entry it was delivered by.
Verifies(q, i) ==
  /\ log[i].req = q
  /\ \/ row[q].status = "submitted"
     \/ /\ row[q].status = "delivered"
        /\ row[q].mode = ModeOf(log[i].kind) /\ row[q].entry = i

Evidence(q) == {i \in DOMAIN log : Verifies(q, i)}
ToolEvidence(q) == {i \in Evidence(q) : log[i].kind = "tool"}
First(S) == CHOOSE i \in S : \A j \in S : i <= j

\* markDelivered
Delivered(r, mode, entry) ==
  IF r.status = "submitted" THEN [status |-> "delivered", mode |-> mode, entry |-> entry]
  ELSE r

-----------------------------------------------------------------------------
(* Requests, answers and cancellations.                                    *)

\* createRequestWithOutcome: the row is written before the call waits.
CallTool(q) ==
  /\ runtime = "live" /\ row[q].status = "none"
  /\ row' = [row EXCEPT ![q].status = "open"]
  /\ tool' = [tool EXCEPT ![q] = "waiting"]
  /\ UNCHANGED <<log, runtime, sdk, admitted, failed, probe, handoff, chain, bounds>>

\* The grace of the call is over: the request stays open.
GraceExpires(q) ==
  /\ tool[q] = "waiting"
  /\ tool' = [tool EXCEPT ![q] = "none"]
  /\ UNCHANGED <<row, log, runtime, sdk, admitted, failed, probe, handoff, chain, bounds>>

\* A new task at the end of the chain.
Begin(q, op) ==
  /\ used < MaxTasks /\ used' = used + 1
  /\ task' = [task EXCEPT ![used'] = [req |-> q, op |-> op, left |-> Attempts,
                                      at |-> "queued", mode |-> "none", entry |-> 0]]
  /\ queue' = Append(queue, used')

\* handleInterviewResponse: the answer is durable before it is handed to the
\* call that waits for it, or to a delivery.
Submit(q) ==
  /\ row[q].status = "open"
  /\ row' = [row EXCEPT ![q].status = "submitted"]
  /\ IF tool[q] = "waiting"
       THEN /\ handoff' = handoff \union {q} /\ tool' = [tool EXCEPT ![q] = "answered"]
            /\ Begin(q, "confirm")
       ELSE Begin(q, "deliver") /\ UNCHANGED <<handoff, tool>>
  /\ UNCHANGED <<log, runtime, sdk, admitted, failed, probe, bounds>>

\* The same answer again, or drainSubmittedInterviews of a start or of a
\* browser that opens the session: one more delivery.
Redeliver(q) ==
  /\ row[q].status = "submitted"
  /\ Begin(q, "deliver")
  /\ UNCHANGED <<row, log, agent, handoff, bounds>>

Cancel(q) ==
  /\ row[q].status = "open"
  /\ row' = [row EXCEPT ![q].status = "cancelled"]
  /\ tool' = [tool EXCEPT ![q] = "none"]
  /\ UNCHANGED <<log, runtime, sdk, admitted, failed, probe, handoff, chain, bounds>>

-----------------------------------------------------------------------------
(* Tasks.                                                                  *)

Running(t) == queue # <<>> /\ Head(queue) = t
Moves(t, at) == task' = [task EXCEPT ![t].at = at] /\ UNCHANGED <<queue, used>>

Ends(t) ==
  /\ task' = [task EXCEPT ![t].at = "done"]
  /\ queue' = Tail(queue) /\ UNCHANGED used

\* Mutant of Fails: the attempts are not counted.
BugUncounted(t) ==
  /\ UNCHANGED used
  /\ IF task[t].op = "confirm"
       THEN /\ task' = [task EXCEPT ![t].op = "deliver", ![t].at = "queued"]
            /\ queue' = Append(Tail(queue), t)
       ELSE /\ task' = [task EXCEPT ![t].at = "asleep"] /\ queue' = Tail(queue)

\* An attempt fails: a delivery sleeps before its next one, and a
\* confirmation falls back to a delivery.
Fails(t) ==
  /\ UNCHANGED used
  /\ IF task[t].op = "confirm"
       THEN /\ task' = [task EXCEPT ![t].op = "deliver", ![t].at = "queued"]
            /\ queue' = Append(Tail(queue), t)
       ELSE /\ task' = [task EXCEPT ![t].at = IF task[t].left > 1 THEN "asleep" ELSE "done",
                                    ![t].left = @ - 1]
            /\ queue' = Tail(queue)

Wake(t) ==
  /\ task[t].at = "asleep"
  /\ task' = [task EXCEPT ![t].at = "queued"] /\ queue' = Append(queue, t)
  /\ UNCHANGED <<row, log, agent, handoff, used, bounds>>

\* Mutant of Released: an exception leaves the handoff behind.
BugHandoffLeft(t) == handoff

\* The finalizer of confirmInterviewToolResultDelivery.
Released(t) == IF task[t].op = "confirm" THEN handoff \ {task[t].req} ELSE handoff

\* The head of a task: a delivery leaves an answer alone that is handed to a
\* tool call, a confirmation one that is no longer.
Start(t) ==
  /\ Running(t) /\ task[t].at = "queued"
  /\ LET held == task[t].req \in handoff IN
       \/ task[t].op = "deliver" /\ held /\ Ends(t)
       \/ task[t].op = "confirm" /\ ~held /\ Fails(t)
       \/ (task[t].op = "confirm") = held /\ Moves(t, "probing")
  /\ UNCHANGED <<row, log, agent, handoff, bounds>>

\* findInterviewToolResultEntry, once the session has a runtime: a closing one
\* is still searched.  A confirmation polls until its deadline, and as long as
\* there is a handoff.
Probe(t) ==
  /\ Running(t) /\ task[t].at = "probing" /\ runtime # "none"
  /\ LET found == ToolEvidence(task[t].req) IN
       \/ /\ found # {}
          /\ task' = [task EXCEPT ![t].at = "marking", ![t].mode = "tool_result",
                                  ![t].entry = First(found)]
          /\ UNCHANGED <<queue, used>>
       \/ found = {} /\ task[t].op = "deliver" /\ Moves(t, "dispatching")
  /\ UNCHANGED <<row, log, agent, handoff, bounds>>

\* The deadline passes, the handoff is taken away, or there is no runtime.
ProbeFails(t) ==
  /\ Running(t) /\ task[t].at = "probing"
  /\ task[t].op = "deliver" => runtime = "none"
  /\ handoff' = Released(t) /\ Fails(t)
  /\ UNCHANGED <<row, log, agent, bounds>>

StoreFails == faults < MaxFaults /\ faults' = faults + 1 /\ UNCHANGED <<stops, crashes>>

\* markDelivered; a confirmation is content with a tool result only.
Mark(t) ==
  /\ Running(t) /\ task[t].at = "marking"
  /\ LET q == task[t].req
         marked == Delivered(row[q], task[t].mode, task[t].entry) IN
       \/ /\ row' = [row EXCEPT ![q] = marked]
          /\ IF task[t].op = "deliver" \/ marked.mode = "tool_result" THEN Ends(t) ELSE Fails(t)
          /\ UNCHANGED bounds
       \/ Fails(t) /\ StoreFails /\ UNCHANGED row
  /\ handoff' = Released(t)
  /\ UNCHANGED <<log, agent>>

-----------------------------------------------------------------------------
(* Admission of a custom message, and its reconciliation.                  *)

\* The admissions that the file has evidence of.  Evidence of a racing tool
\* result is marked with its own mode.
Persisted == {q \in admitted : Evidence(q) # {}}

\* Mutant of Found: the caller marks every entry as its own.
BugModeNotKept(S) == row

\* findInterviewSubmissionDelivery for the requests of S.
Found(S) ==
  [q \in Requests |->
     IF q \in S /\ Evidence(q) # {} /\ log[First(Evidence(q))].kind = "tool"
     THEN Delivered(row[q], "tool_result", First(Evidence(q))) ELSE row[q]]

\* finishInterviewAdmission tells the task that observes the admission.
Observed(S) ==
  [t \in Tasks |->
     IF task[t].at = "observing" /\ task[t].req \in S
     THEN [task[t] EXCEPT !.at = "marking", !.mode = "custom_message",
                          !.entry = First(Evidence(task[t].req))]
     ELSE task[t]]

\* One deferred reconciliation for an event of the SDK; a store write that
\* fails ends it.
Reconcile ==
  /\ probe /\ probe' = FALSE
  /\ \/ /\ row' = Found(Persisted) /\ task' = Observed(Persisted)
        /\ admitted' = admitted \ Persisted /\ failed' = failed \ Persisted
        /\ UNCHANGED bounds
     \/ StoreFails /\ UNCHANGED <<row, task, admitted, failed>>
  /\ UNCHANGED <<log, runtime, tool, sdk, handoff, queue, used>>

\* Mutant of Dispatch: the file is not searched for the answer again.
BugNotSearched(t) ==
  /\ Running(t) /\ task[t].at = "dispatching" /\ runtime = "live"
  /\ task[t].req \notin admitted
  /\ admitted' = admitted \union {task[t].req}
  /\ sdk' = [sdk EXCEPT ![task[t].req] = "queued"]
  /\ Moves(t, "observing")
  /\ UNCHANGED <<row, log, runtime, tool, failed, probe, handoff, bounds>>

\* Mutant of Dispatch: a message that is under way is not joined, and the
\* second one reaches the file before it.
BugNotJoined(t) ==
  /\ Running(t) /\ task[t].at = "dispatching" /\ runtime = "live"
  /\ Evidence(task[t].req) = {}
  /\ admitted' = admitted \union {task[t].req}
  /\ \/ sdk[task[t].req] = "none" /\ sdk' = [sdk EXCEPT ![task[t].req] = "claimed"]
        /\ UNCHANGED log
     \/ sdk[task[t].req] # "none" /\ UNCHANGED sdk
        /\ log' = Append(log, [req |-> task[t].req, kind |-> "custom"])
  /\ Moves(t, "observing")
  /\ UNCHANGED <<row, runtime, tool, failed, probe, handoff, bounds>>

\* deliverInterviewSubmission: reconcile, look for the answer once more, join
\* the message that is under way, or send one.  What the SDK does with it is
\* its own: it may refuse it.
Dispatch(t) ==
  /\ Running(t) /\ task[t].at = "dispatching" /\ runtime # "none"
  /\ LET q == task[t].req
         known == Evidence(q) # {} IN
     /\ row' = Found(Persisted \union {q})
     /\ \/ /\ known
           /\ task' = [task EXCEPT ![t].at = "marking", ![t].mode = "custom_message",
                                   ![t].entry = First(Evidence(q))]
           /\ admitted' = admitted \ Persisted
           /\ UNCHANGED <<sdk, queue>>
        \/ /\ ~known /\ Fails(t)             \* the handle is denied or closing
           /\ admitted' = admitted \ Persisted
           /\ UNCHANGED sdk
        \/ /\ ~known /\ runtime = "live" /\ q \in admitted
           /\ IF q \in failed THEN Fails(t) ELSE Moves(t, "observing")
           /\ admitted' = admitted \ Persisted
           /\ UNCHANGED sdk
        \/ /\ ~known /\ runtime = "live" /\ q \notin admitted
           /\ admitted' = (admitted \ Persisted) \union {q}
           /\ \E to \in {"none", "queued", "claimed"} : sdk' = [sdk EXCEPT ![q] = to]
           /\ Moves(t, "observing")
  /\ failed' = failed \ Persisted
  /\ UNCHANGED <<log, runtime, tool, probe, handoff, used, bounds>>

\* The session is locked or denied, there is no runtime, or the store refuses
\* what the reconciliation found.
DispatchFails(t) ==
  /\ Running(t) /\ task[t].at = "dispatching"
  /\ Fails(t)
  /\ UNCHANGED <<row, log, agent, handoff, bounds>>

\* The deadline of an observation: the admission stays.
ObserveFails(t) ==
  /\ Running(t) /\ task[t].at = "observing"
  /\ Fails(t)
  /\ UNCHANGED <<row, log, agent, handoff, bounds>>

Turn(t) == \/ Start(t) \/ Probe(t) \/ ProbeFails(t) \/ Mark(t) \/ Dispatch(t)
           \/ DispatchFails(t) \/ ObserveFails(t)

-----------------------------------------------------------------------------
(* The SDK and the runtime.                                                *)

\* An error for whoever observes an admission of S.
Failing(S) ==
  LET t == Head(queue) IN
  IF queue # <<>> /\ task[t].at = "observing" /\ task[t].req \in S THEN Fails(t)
  ELSE UNCHANGED chain

\* sendCustomMessage rejects, perhaps after it has queued the message.
SendFails(q) ==
  /\ q \in admitted \ failed /\ Evidence(q) = {}
  /\ failed' = failed \union {q} /\ Failing({q})
  /\ UNCHANGED <<row, log, runtime, tool, sdk, admitted, probe, handoff, bounds>>

Claim(q) ==
  /\ runtime = "live" /\ sdk[q] = "queued"
  /\ sdk' = [sdk EXCEPT ![q] = "claimed"]
  /\ UNCHANGED <<row, log, runtime, tool, admitted, failed, probe, handoff, chain, bounds>>

\* The message is appended to the file, also while a run is being aborted.
Persist(q) ==
  /\ sdk[q] = "claimed" /\ sdk' = [sdk EXCEPT ![q] = "none"]
  /\ log' = Append(log, [req |-> q, kind |-> "custom"])
  /\ probe' = TRUE
  /\ UNCHANGED <<row, runtime, tool, admitted, failed, handoff, chain, bounds>>

WriteResult(q) ==
  /\ tool[q] = "answered" /\ tool' = [tool EXCEPT ![q] = "none"]
  /\ log' = Append(log, [req |-> q, kind |-> "tool"])
  /\ probe' = TRUE
  /\ UNCHANGED <<row, runtime, sdk, admitted, failed, handoff, chain, bounds>>

\* Another event of the SDK, or the send settles.
Settled ==
  /\ runtime # "none" /\ admitted # {} /\ ~probe /\ probe' = TRUE
  /\ UNCHANGED <<row, log, runtime, tool, sdk, admitted, failed, handoff, chain, bounds>>

\* clearPiSessionQueue: what was queued and not yet claimed is discarded.
ClearQueue ==
  LET gone == {q \in Requests : sdk[q] = "queued"} IN
  /\ runtime # "none" /\ gone # {}
  /\ sdk' = [q \in Requests |-> IF q \in gone THEN "none" ELSE sdk[q]]
  /\ admitted' = admitted \ gone /\ failed' = failed \ gone
  /\ Failing(gone \intersect admitted)
  /\ UNCHANGED <<row, log, runtime, tool, probe, handoff, bounds>>

StartRuntime ==
  /\ runtime = "none" /\ runtime' = "live"
  /\ UNCHANGED <<row, log, tool, sdk, admitted, failed, probe, handoff, chain, bounds>>

\* destroyPiSession: cancelSession lets go of what waits on the tool calls.
Stop ==
  /\ runtime = "live" /\ stops < MaxStops /\ stops' = stops + 1
  /\ runtime' = "closing" /\ handoff' = {}
  /\ tool' = [q \in Requests |-> IF tool[q] = "waiting" THEN "none" ELSE tool[q]]
  /\ UNCHANGED <<row, log, sdk, admitted, failed, probe, chain, crashes, faults>>

\* retireDisposedInterviewAdmissions, after a last reconciliation.
Retired == admitted

Disposed ==
  /\ runtime = "closing" /\ runtime' = "none"
  /\ tool' = [q \in Requests |-> "none"] /\ sdk' = [q \in Requests |-> "none"]
  /\ admitted' = admitted \ Retired /\ failed' = failed \ Retired /\ probe' = FALSE
  /\ LET t == Head(queue) IN
       \/ /\ row' = Found(Persisted)
          /\ IF queue # <<>> /\ task[t].at = "observing" /\ task[t].req \in Retired \ Persisted
               THEN Fails(t) ELSE task' = Observed(Persisted) /\ UNCHANGED <<queue, used>>
          /\ UNCHANGED bounds
       \/ StoreFails /\ Failing(Retired) /\ UNCHANGED row
  /\ UNCHANGED <<log, handoff>>

Crash ==
  /\ crashes < MaxCrashes /\ crashes' = crashes + 1
  /\ runtime' = "none" /\ tool' = [q \in Requests |-> "none"]
  /\ sdk' = [q \in Requests |-> "none"] /\ admitted' = {} /\ failed' = {} /\ probe' = FALSE
  /\ handoff' = {} /\ queue' = <<>>
  /\ task' = [t \in Tasks |-> IF task[t].at = "none" THEN NoTask ELSE [task[t] EXCEPT !.at = "done"]]
  /\ UNCHANGED <<row, log, used, stops, faults>>

Owner == \E q \in Requests : Submit(q) \/ Redeliver(q) \/ Cancel(q)
Sdk == \E q \in Requests : \/ CallTool(q) \/ GraceExpires(q) \/ SendFails(q) \/ Claim(q)
                           \/ Persist(q) \/ WriteResult(q)

Next == \/ Owner \/ Sdk \/ Settled \/ Reconcile \/ ClearQueue \/ StartRuntime \/ Stop \/ Disposed \/ Crash
        \/ \E t \in Tasks : Turn(t) \/ Wake(t)

Spec == Init /\ [][Next]_vars

\* Creations, probes and observations have deadlines, and sleeps end.
FairSpec == Spec /\ \A t \in Tasks : WF_vars(Turn(t)) /\ WF_vars(Wake(t))

-----------------------------------------------------------------------------
(* Properties.                                                             *)

TypeOK ==
  /\ row \in [Requests -> [status : {"none", "open", "submitted", "cancelled", "delivered"},
                           mode : {"none", "tool_result", "custom_message"}, entry : Nat]]
  /\ log \in Seq([req : Requests, kind : {"tool", "custom"}])
  /\ runtime \in {"none", "live", "closing"}
  /\ tool \in [Requests -> {"none", "waiting", "answered"}]
  /\ sdk \in [Requests -> {"none", "queued", "claimed"}]
  /\ admitted \subseteq Requests /\ failed \subseteq admitted /\ probe \in BOOLEAN
  /\ handoff \subseteq Requests
  /\ task \in [Tasks -> [req : Requests \union {0}, op : {"none", "confirm", "deliver"},
                         left : Nat, at : {"none", "queued", "probing", "dispatching", "observing",
                                           "marking", "asleep", "done"},
                         mode : {"none", "tool_result", "custom_message"}, entry : Nat]]
  /\ queue \in Seq(Tasks) /\ used \in 0 .. MaxTasks
  /\ stops \in Nat /\ crashes \in Nat /\ faults \in Nat

\* Of a delivered answer exactly one entry of the session's file verifies, the
\* one that the row names: it is neither lost nor vouched for twice, whichever
\* of tool result and custom message came first (resolveInterviewSubmissionEvidence).
DeliveredIsVerified ==
  \A q \in Requests : row[q].status = "delivered" => Evidence(q) = {row[q].entry}

\* An answer enters the session as a custom message at most once, over
\* deadlines, retries, repeated submissions, discarded queues, stops and
\* crashes (interviewAdmissions).
CustomOnce ==
  \A i, j \in DOMAIN log : log[i] = log[j] /\ log[i].kind = "custom" => i = j

\* A handoff, which makes deliveries pass an answer by, has a confirmation
\* that will end it.
HandoffHeld ==
  \A q \in handoff : \E t \in Tasks :
     task[t].req = q /\ task[t].op = "confirm" /\ task[t].at \in {"queued", "probing", "marking"}

\* A custom message is sent only for an answer that the file does not hold yet
\* in either form, and not while an earlier message for it is under way.
SentUnanswered ==
  [][\A q \in Requests : q \notin admitted /\ q \in admitted'
       => sdk[q] = "none" /\ \A i \in DOMAIN log : log[i].req # q]_vars

\* The chain of the session never stands still over one answer.
QueueDrains ==
  \A t \in Tasks : task[t].at \notin {"none", "done"} ~> task[t].at = "done"
Answers == INSTANCE InterviewAnswers WITH
             status <- [q \in Requests |-> row[q].status],
             entries <- log,
             proof <- [q \in Requests |-> IF row[q].status = "delivered" THEN Evidence(q) ELSE {}]

\* The store, the chain, the runtime and the file implement the promise, over
\* handoffs, deadlines, retries, discarded queues, stops and crashes: an answer
\* is durable first, enters once in each form, and its delivery is recorded by
\* one entry for good.
ImplementsAnswers == Answers!Spec
=============================================================================
