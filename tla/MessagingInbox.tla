----------------------------- MODULE MessagingInbox -----------------------------
(* What the messaging gateway promises the two sides of one endpoint.      *)
(* Events are accepted one after the other and settled in that order, each *)
(* once.  The prompt of an event enters a session at most once, before the *)
(* event is settled and after every earlier event was; a crash may lose an *)
(* entry that was not saved.  An event is only settled with the session's  *)
(* answer if its prompt is in there.                                       *)
EXTENDS Naturals

CONSTANT MaxEvents   \* bound on the events of the endpoint

Events == 1 .. MaxEvents

VARIABLES accepted,  \* events accepted so far
          settled,   \* how many of them are settled
          prompts,   \* how often each prompt is in a session
          answered   \* events settled with the session's answer

inbox == <<accepted, settled, prompts, answered>>

Init ==
  /\ accepted = 0 /\ settled = 0 /\ answered = {}
  /\ prompts = [e \in Events |-> 0]

Accept ==
  /\ accepted < MaxEvents /\ accepted' = accepted + 1
  /\ UNCHANGED <<settled, prompts, answered>>

\* The oldest event that is not settled.
Current == settled + 1

Prompt ==
  /\ settled < accepted /\ prompts[Current] = 0
  /\ prompts' = [prompts EXCEPT ![Current] = 1]
  /\ UNCHANGED <<accepted, settled, answered>>

Forget ==
  /\ settled < accepted
  /\ prompts' = [prompts EXCEPT ![Current] = 0]
  /\ UNCHANGED <<accepted, settled, answered>>

Settle ==
  /\ settled < accepted /\ settled' = Current
  /\ \/ UNCHANGED answered
     \/ prompts[Current] = 1 /\ answered' = answered \union {Current}
  /\ UNCHANGED <<accepted, prompts>>

Next == Accept \/ Prompt \/ Forget \/ Settle
Spec == Init /\ [][Next]_inbox
=============================================================================
