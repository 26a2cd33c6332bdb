--------------------------- MODULE TerminalProofs ---------------------------
(***************************************************************************)
(* Proofs about a run whose approver is a prompt: for any lines, typed at  *)
(* any time, from a terminal or a pipe.                                    *)
(*                                                                         *)
(* That an answer reaches the prompt it was typed for is not inductive:    *)
(* what has been typed and not yet read is not in answered.  The inductive *)
(* invariant says that, as long as every line was typed to the one open    *)
(* prompt, at most one prompt is open and at most one line, meant for it,  *)
(* is unread.                                                              *)
(***************************************************************************)
EXTENDS Terminal, GovernorProofs

TypedLine == [text: Lines, to: Calls \cup {None}]

\* The prompts are those of calls, and what was typed are lines.
TerminalTypeOK ==
  /\ open \subseteq Calls
  /\ screen \in Calls \cup {None}
  /\ input \in Seq(TypedLine)
  /\ answered \in [Calls -> TypedLine \cup {NoLine}]

\* While every line is typed to the one open prompt.
Undivided ==
  attended =>
    /\ \A c, d \in open : c = d
    /\ input # <<>> => Len(input) = 1 /\ open = {input[1].to}

TerminalInv == TerminalTypeOK /\ Undivided /\ AnswerReachesItsPrompt

LEMMA TerminalInitInv == TerminalInit => TerminalInv
<1> SUFFICES ASSUME TerminalInit PROVE TerminalInv
  OBVIOUS
<1>1. TerminalTypeOK
  BY DEF TerminalInit, TerminalTypeOK
<1>2. Undivided
  BY DEF TerminalInit, Undivided
<1>3. AnswerReachesItsPrompt
  BY DEF TerminalInit, AnswerReachesItsPrompt
<1>4. QED
  BY <1>1, <1>2, <1>3 DEF TerminalInv

\* Every step of a run at a prompt is a step of a governed run, or one of the
\* prompt alone.
LEMMA TerminalStep == [TerminalNext]_allVars => [Next]_vars
<1> SUFFICES ASSUME [TerminalNext]_allVars PROVE [Next]_vars
  OBVIOUS
<1>1. CASE Elsewhere
  BY <1>1 DEF Elsewhere, Next
<1>2. ASSUME NEW c \in Calls, ReadLine(c) \/ ReadEnd(c)
      PROVE  [Next]_vars
  <2>1. Approve(c) \/ Decline(c)
    BY <1>2 DEF ReadLine, ReadEnd
  <2>2. QED
    BY <2>1 DEF Next, Answer
<1>3. ASSUME NEW c \in Calls, Show(c)
      PROVE  [Next]_vars
  BY <1>3 DEF Show
<1>4. CASE Type \/ Close \/ UNCHANGED allVars
  BY <1>4 DEF Type, Close, allVars
<1>5. QED
  BY <1>1, <1>2, <1>3, <1>4 DEF TerminalNext

LEMMA ShowInv ==
  ASSUME TerminalInv, NEW c \in Calls, Show(c)
  PROVE  TerminalInv'
<1> USE DEF TerminalInv
<1>1. /\ open' = open \cup {c} /\ screen' = c
      /\ attended' = (attended /\ open = {})
      /\ UNCHANGED <<input, answered>>
  BY DEF Show
<1>2. TerminalTypeOK'
  BY <1>1 DEF TerminalTypeOK
<1>3. Undivided'
  <2>1. attended' => attended /\ open = {} /\ open' = {c}
    BY <1>1
  <2>2. attended' => input = <<>>
    BY <2>1 DEF Undivided
  <2>3. QED
    BY <1>1, <2>1, <2>2 DEF Undivided
<1>4. AnswerReachesItsPrompt'
  BY <1>1 DEF AnswerReachesItsPrompt
<1>5. QED
  BY <1>2, <1>3, <1>4

\* What a read takes off the input, and what it leaves.
LEMMA TakenInput ==
  ASSUME NEW s \in Seq(TypedLine), NEW n \in 1..Len(s)
  PROVE  /\ SubSeq(s, n + 1, Len(s)) \in Seq(TypedLine)
         /\ Len(s) = 1 => SubSeq(s, n + 1, Len(s)) = <<>>
<1>1. Len(s) \in Nat /\ n \in Int /\ n + 1 \in Int
  OBVIOUS
<1>2. \A i \in (n + 1)..Len(s) : s[i] \in TypedLine
  BY <1>1, ElementOfSeq
<1>3. SubSeq(s, n + 1, Len(s)) \in Seq(TypedLine)
  BY <1>1, <1>2, SubSeqProperties
<1>4. ASSUME Len(s) = 1 PROVE SubSeq(s, n + 1, Len(s)) = <<>>
  <2>1. Len(s) < n + 1
    BY <1>1, <1>4
  <2>2. QED
    BY <1>1, <2>1, SubSeqEmpty
<1>5. QED
  BY <1>3, <1>4

LEMMA ReadLineInv ==
  ASSUME TerminalInv, NEW c \in Calls, ReadLine(c)
  PROVE  TerminalInv'
<1> USE DEF TerminalInv
<1>1. /\ c \in open /\ input # <<>> /\ open' = open \ {c}
      /\ answered' = [answered EXCEPT ![c] = input[1]]
      /\ UNCHANGED <<screen, attended>>
  BY DEF ReadLine
<1>2. input \in Seq(TypedLine) /\ Len(input) \in Nat /\ Len(input) > 0
  <2>1. input \in Seq(TypedLine)
    BY DEF TerminalTypeOK
  <2>2. QED
    BY <1>1, <2>1, EmptySeq, LenProperties
<1>3. PICK n \in 1..Len(input) : input' = SubSeq(input, n + 1, Len(input))
  BY <1>2 DEF ReadLine, Take
<1>4. input' \in Seq(TypedLine) /\ (Len(input) = 1 => input' = <<>>)
  BY <1>2, <1>3, TakenInput
<1>5. input[1] \in TypedLine
  BY <1>2, ElementOfSeq
<1>6. TerminalTypeOK'
  BY <1>1, <1>4, <1>5 DEF TerminalTypeOK
<1>7. attended' => attended /\ Len(input) = 1 /\ input[1].to = c /\ open' = {}
  BY <1>1 DEF Undivided
<1>8. Undivided'
  BY <1>4, <1>7 DEF Undivided
<1>9. AnswerReachesItsPrompt'
  <2>1. ASSUME attended', NEW d \in Calls, answered'[d] # NoLine
        PROVE  answered'[d].to = d
    <3>1. CASE d = c
      BY <1>1, <1>7, <2>1, <3>1 DEF TerminalTypeOK
    <3>2. CASE d # c
      BY <1>1, <2>1, <3>2 DEF TerminalTypeOK, AnswerReachesItsPrompt
    <3>3. QED
      BY <3>1, <3>2
  <2>2. QED
    BY <2>1 DEF AnswerReachesItsPrompt
<1>10. QED
  BY <1>6, <1>8, <1>9

LEMMA TypeLineInv ==
  ASSUME TerminalInv, Type
  PROVE  TerminalInv'
<1> USE DEF TerminalInv
<1>1. /\ attended' = (attended /\ open = {screen} /\ input = <<>>)
      /\ UNCHANGED <<open, screen, answered>>
  BY DEF Type
<1>2. PICK text \in Lines : input' = Append(input, [text |-> text, to |-> screen])
  BY DEF Type
<1>3. PICK line : line = [text |-> text, to |-> screen]
  OBVIOUS
<1>4. line \in TypedLine /\ line.to = screen /\ input \in Seq(TypedLine)
  BY <1>3 DEF TypedLine, TerminalTypeOK
<1>5. /\ input' \in Seq(TypedLine) /\ Len(input') = Len(input) + 1
      /\ input'[Len(input) + 1] = line
  BY <1>2, <1>3, <1>4, AppendEntries
<1>6. TerminalTypeOK'
  BY <1>1, <1>5 DEF TerminalTypeOK
<1>7. attended' => attended /\ open = {screen} /\ Len(input') = 1 /\ input'[1] = line
  <2>1. attended' => attended /\ open = {screen} /\ input = <<>>
    BY <1>1
  <2>2. input = <<>> => Len(input) = 0
    OBVIOUS
  <2>3. QED
    BY <1>5, <2>1, <2>2
<1>8. Undivided'
  BY <1>1, <1>4, <1>7 DEF Undivided
<1>9. AnswerReachesItsPrompt'
  BY <1>1 DEF AnswerReachesItsPrompt
<1>10. QED
  BY <1>6, <1>8, <1>9

LEMMA TerminalNextInv == TerminalInv /\ [TerminalNext]_allVars => TerminalInv'
<1> SUFFICES ASSUME TerminalInv, [TerminalNext]_allVars PROVE TerminalInv'
  OBVIOUS
<1>1. ASSUME NEW c \in Calls, Show(c)
      PROVE  TerminalInv'
  BY <1>1, ShowInv
<1>2. ASSUME NEW c \in Calls, ReadLine(c)
      PROVE  TerminalInv'
  BY <1>2, ReadLineInv
<1>3. ASSUME NEW c \in Calls, ReadEnd(c)
      PROVE  TerminalInv'
  <2>1. /\ input = <<>> /\ open' = open \ {c}
        /\ UNCHANGED <<screen, input, answered, attended>>
    BY <1>3 DEF ReadEnd
  <2>2. QED
    BY <2>1 DEF TerminalInv, TerminalTypeOK, Undivided, AnswerReachesItsPrompt
<1>4. CASE Type
  BY <1>4, TypeLineInv
<1>5. CASE Elsewhere \/ Close \/ UNCHANGED allVars
  <2>1. UNCHANGED <<open, screen, input, answered, attended>>
    BY <1>5 DEF Elsewhere, Close, terminalVars, allVars
  <2>2. QED
    BY <2>1 DEF TerminalInv, TerminalTypeOK, Undivided, AnswerReachesItsPrompt
<1>6. QED
  BY <1>1, <1>2, <1>3, <1>4, <1>5 DEF TerminalNext

\* approval.go Prompt: answering through prompts that share a screen and an
\* input takes nothing away from what is proved of every governed run.
THEOREM PromptedRun == TerminalSpec => Spec
<1>1. TerminalInit => Init
  BY DEF TerminalInit
<1>2. QED
  BY <1>1, TerminalStep, PTL DEF TerminalSpec, Spec

\* approval.go Prompt: as long as every line is typed to the one open prompt,
\* each call is decided by the line typed for it.
THEOREM AnswersArrive == TerminalSpec => []AnswerReachesItsPrompt
<1>1. TerminalInv => AnswerReachesItsPrompt
  BY DEF TerminalInv
<1>2. QED
  BY <1>1, TerminalInitInv, TerminalNextInv, PTL DEF TerminalSpec
=============================================================================
