-------------------------- MODULE ReferenceMonitor --------------------------
(***************************************************************************)
(* What the governor promises of every tool call, whatever boundaries it   *)
(* is made of (internal/governor, package comment and the Ticket type): a  *)
(* call acts at most once, only after it was authorized and before it is   *)
(* recorded; it is recorded exactly once; and the record never calls an    *)
(* effect refused nor a call that did not act done.                        *)
(***************************************************************************)
EXTENDS Sequences

CONSTANT Calls

VARIABLES
  state,  \* how far each call is
  log     \* the records, oldest first

monitorVars == <<state, log>>

States == {"idle", "open", "allowed", "acted", "recorded", "closed"}
Verdicts == {"done", "refused", "unclear"}

Init ==
  /\ state = [c \in Calls |-> "idle"]
  /\ log = <<>>

\* The calls of one batch are opened together.
Open(batch) ==
  /\ \A c \in batch : state[c] = "idle"
  /\ state' = [c \in Calls |-> IF c \in batch THEN "open" ELSE state[c]]
  /\ UNCHANGED log

Move(c, from, to) ==
  /\ state[c] = from
  /\ state' = [state EXCEPT ![c] = to]

Authorize(c) == Move(c, "open", "allowed") /\ UNCHANGED log
Act(c) == Move(c, "allowed", "acted") /\ UNCHANGED log
Close(c) == Move(c, "recorded", "closed") /\ UNCHANGED log

Record(c) ==
  \E verdict \in Verdicts :
    /\ \/ Move(c, "open", "recorded") /\ verdict # "done"
       \/ Move(c, "allowed", "recorded") /\ verdict = "unclear"
       \/ Move(c, "acted", "recorded") /\ verdict # "refused"
    /\ log' = Append(log, [call |-> c, verdict |-> verdict])

Next ==
  \/ \E batch \in SUBSET Calls : Open(batch)
  \/ \E c \in Calls : Authorize(c) \/ Act(c) \/ Record(c) \/ Close(c)

Spec == Init /\ [][Next]_monitorVars

\* An open call is always recorded and closed in the end.
FairSpec == Spec /\ \A c \in Calls : WF_monitorVars(Record(c)) /\ WF_monitorVars(Close(c))
=============================================================================
