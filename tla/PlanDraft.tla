----------------------------- MODULE PlanDraft -----------------------------
(***************************************************************************)
(* How a plan draft is found in the answer of a model: cli.parsePlanDraft. *)
(*                                                                         *)
(* An answer is a sequence of pieces: a member of Drafts is an object that *)
(* decodes strictly and has an acceptance check, "head" and "tail" are the *)
(* two halves of such an object, "open" and "close" the tags around a      *)
(* block of reasoning; all else is prose, or objects that are no draft.    *)
(***************************************************************************)
EXTENDS Integers, SequencesExt

CONSTANTS
  Drafts,     \* objects that are drafts
  Pieces,     \* what reasoning and answer below are made of, without tags
  MaxPieces   \* how long they may be

NoDraft == "no draft"
Joined == "joined"

\* Tags and halves are no drafts, and no tag occurs in reasoning or answer.
ASSUME PlanDraftAssumption ==
  /\ Drafts \cap {"open", "close", "head", "tail", NoDraft} = {}
  /\ Pieces \cap {"open", "close"} = {}

StripStep(s, piece) ==
  IF s.held = <<>>
    THEN IF piece = "open" THEN [s EXCEPT !.held = <<piece>>] ELSE [s EXCEPT !.out = Append(@, piece)]
    ELSE IF piece = "close" THEN [s EXCEPT !.held = <<>>] ELSE [s EXCEPT !.held = Append(@, piece)]

\* thinkBlockRe: every block of reasoning that is closed is removed.
Stripped(a) ==
  LET read[n \in 0..Len(a)] ==
        IF n = 0 THEN [out |-> <<>>, held |-> <<>>] ELSE StripStep(read[n - 1], a[n])
  IN read[Len(a)].out \o read[Len(a)].held

\* The places at which a draft begins.
Decodes(a) ==
  {i \in 1..Len(a) : a[i] \in Drafts \/ (a[i] = "head" /\ i < Len(a) /\ a[i + 1] = "tail")}

\* cli.extractDraft: the newest one.
ExtractDraft(a) ==
  IF Decodes(a) = {} THEN NoDraft
  ELSE LET i == CHOOSE n \in Decodes(a) : \A m \in Decodes(a) : m <= n
       IN IF a[i] \in Drafts THEN a[i] ELSE Joined

\* cli.parsePlanDraft
ParsePlanDraft(a) ==
  IF ExtractDraft(a) # NoDraft THEN ExtractDraft(a) ELSE ExtractDraft(Stripped(a))

\* Reasoning r, then answer b; and reasoning in the middle of a draft.
FindsDraft(r, b) ==
  LET thought == <<"open">> \o r \o <<"close">> IN
  /\ ExtractDraft(b) # NoDraft => ParsePlanDraft(thought \o b) = ExtractDraft(b)
  /\ Decodes(r) = {} => ParsePlanDraft(<<"head">> \o thought \o <<"tail">>) = Joined

\* plan_cmd.go: of an answer that reasons first, whatever drafts the reasoning
\* holds, and one whose only draft a block of reasoning interrupts, the draft is
\* the one a reader would take.
ReasoningComesSecond == \A r, b \in BoundedSeq(Pieces, MaxPieces) : FindsDraft(r, b)
=============================================================================
