------------------------------ MODULE Terminal ------------------------------
(***************************************************************************)
(* A governed run whose approver is a prompt (internal/approval Prompt):   *)
(* the prompts of concurrent calls share one screen and one standard       *)
(* input.  Every prompt makes a buffered reader of its own, reads one line *)
(* and drops the reader with whatever else it had buffered.  The read      *)
(* takes one line from a terminal and a whole chunk from a pipe, and it    *)
(* does not look at the run's context.                                     *)
(*                                                                         *)
(* This replaces Answer of module Governor, which lets an approver answer  *)
(* as it likes; everything else of the run is that module's.  That a chunk *)
(* may end within a line is left out.                                      *)
(***************************************************************************)
EXTENDS Governor

CONSTANTS
  Lines,      \* what a human may type
  Yes,        \* the lines that approve, trimmed and in lower case
  LineBound   \* how many lines are typed

ASSUME TerminalAssumption ==
  /\ Yes \subseteq Lines
  /\ LineBound \in Nat
  /\ \A s \in Sessions : s.approver = "prompt"

NoLine == [text |-> None, to |-> None]

VARIABLES
  piped,     \* whether standard input is a pipe; never changes
  open,      \* calls whose prompt waits for a line
  screen,    \* the call whose prompt was printed last, or None
  input,     \* lines nobody has read yet
  closed,    \* whether standard input has ended
  typed,     \* how many lines were typed
  answered,  \* history: the line that decided each call, or NoLine
  attended   \* history: every line was typed to the one open prompt

terminalVars == <<piped, open, screen, input, closed, typed, answered, attended>>
allVars == <<vars, terminalVars>>

TerminalInit ==
  /\ Init
  /\ piped \in BOOLEAN
  /\ open = {}
  /\ screen = None
  /\ input = <<>>
  /\ closed = FALSE
  /\ typed = 0
  /\ answered = [c \in Calls |-> NoLine]
  /\ attended = TRUE

-----------------------------------------------------------------------------
\* Approve prints its question, with a banner if the action is not in the plan.
Show(c) ==
  /\ At(c, "approval")
  /\ c \notin open
  /\ answered[c] = NoLine
  /\ open' = open \cup {c}
  /\ screen' = c
  /\ attended' = (attended /\ open = {})
  /\ UNCHANGED <<vars, piped, input, closed, typed, answered>>

\* Defect: the line that was read stays for the next reader.
TakeNothing(n) == input' = input

Take(n) == input' = SubSeq(input, n + 1, Len(input))

\* ReadString returns: the first line of what was taken decides, and the rest
\* of the chunk is lost with the reader.
ReadLine(c) ==
  /\ c \in open
  /\ input # <<>>
  /\ \E n \in IF piped THEN 1..Len(input) ELSE {1} : Take(n)
  /\ open' = open \ {c}
  /\ answered' = [answered EXCEPT ![c] = input[1]]
  /\ IF input[1].text \in Yes THEN Approve(c) ELSE Decline(c)
  /\ UNCHANGED <<piped, screen, closed, typed, attended>>

\* At the end of the input the line is empty, which declines.
ReadEnd(c) ==
  /\ c \in open
  /\ input = <<>>
  /\ closed
  /\ open' = open \ {c}
  /\ Decline(c)
  /\ UNCHANGED <<piped, screen, input, closed, typed, answered, attended>>

\* The human answers the prompt printed last, or types ahead of it; what is
\* typed before any call is under way may as well be typed just after.
Type ==
  /\ ~closed
  /\ typed < LineBound
  /\ \E c \in Calls : InBatch(c)
  /\ typed' = typed + 1
  /\ \E text \in Lines : input' = Append(input, [text |-> text, to |-> screen])
  /\ attended' = (attended /\ open = {screen} /\ input = <<>>)
  /\ UNCHANGED <<vars, piped, open, screen, closed, answered>>

Close ==
  /\ ~closed
  /\ open # {}
  /\ closed' = TRUE
  /\ UNCHANGED <<vars, piped, open, screen, input, typed, answered, attended>>

\* A prompt that is open does not panic.
Elsewhere ==
  /\ \/ \E c \in Calls : Work(c) \/ (c \notin open /\ Panic(c))
     \/ Propose \/ BatchDone \/ EndLoop \/ Classify \/ Timeout \/ MoveHead
  /\ UNCHANGED terminalVars

TerminalNext ==
  \/ Elsewhere
  \/ \E c \in Calls : Show(c) \/ ReadLine(c) \/ ReadEnd(c)
  \/ Type \/ Close

TerminalSpec == TerminalInit /\ [][TerminalNext]_allVars

\* The goroutines and the loop go on, and whoever sees an open prompt types a
\* line or ends the input.
TerminalFairness ==
  /\ \A c \in Calls :
       /\ WF_allVars(Work(c) /\ UNCHANGED terminalVars)
       /\ WF_allVars(Show(c))
       /\ WF_allVars(ReadLine(c) \/ ReadEnd(c))
  /\ WF_allVars((Propose \/ EndLoop) /\ UNCHANGED terminalVars)
  /\ WF_allVars(BatchDone /\ UNCHANGED terminalVars)
  /\ WF_allVars(Classify /\ UNCHANGED terminalVars)
  /\ WF_allVars(open # {} /\ (Type \/ Close))

FairTerminalSpec == TerminalSpec /\ TerminalFairness

-----------------------------------------------------------------------------
\* approval.go Prompt: as long as prompts do not overlap and every line is
\* typed to the open prompt, each call is decided by the line typed for it,
\* from a terminal or a pipe, and also after a timeout, which leaves the prompt
\* open.  Overlapping prompts and lines typed ahead go to whoever reads first.
AnswerReachesItsPrompt ==
  attended => \A c \in Calls : answered[c] # NoLine => answered[c].to = c
=============================================================================
