------------------------------ MODULE MCPatch ------------------------------
(***************************************************************************)
(* Two files, one of them under two names, and three versions of a file.   *)
(* The lists of hunks: one that fits the first version only, one that fits *)
(* two versions, and one with another result.                              *)
(***************************************************************************)
EXTENDS Patch, Hunks, TLC

MCFileOf == [n \in Names |-> IF n = "b.txt" THEN "b" ELSE "a"]

\* Evaluated by TLC over every text of up to five of two characters.
ASSUME HunksAreSound == ReplacesCountedMatch

MCTexts == UNION {[1..n -> {"x", "y"}] : n \in 0..5}
MCFinds == UNION {[1..n -> {"x", "y"}] : n \in 1..3}

TextOf == [v1 |-> <<"w", "z">>, v2 |-> <<"w", "x", "z">>, v3 |-> <<"w", "x", "x", "z">>]

MCHunk(find, replace) == [find |-> find, replace |-> replace, expect |-> 1, occurrence |-> 1]

MCFix == MCHunk(<<"w", "z">>, <<"w", "x", "z">>)
MCBump == MCHunk(<<"z">>, <<"x", "z">>)
HunksOf == [fix |-> <<MCFix>>, bump |-> <<MCBump>>, jump |-> <<MCFix, MCBump>>]

\* What is none of the versions counts as too large.
MCEditOf == [e \in Edits |-> [c \in Contents |->
  LET post == ApplyHunks(TextOf[c], HunksOf[e]) IN
  IF \E d \in Contents : TextOf[d] = post
    THEN CHOOSE d \in Contents : TextOf[d] = post ELSE Refused]]

MCChange(name, pre, edit) == [name |-> name, pre |-> pre, edit |-> edit]

\* Both files; one of them at its second version; one file under two names,
\* with the same result and with two; the same name twice.
MCPatches ==
  {<<MCChange("a.txt", "v1", "fix"), MCChange("b.txt", "v1", "fix")>>,
   <<MCChange("b.txt", "v1", "fix"), MCChange("a.txt", "v2", "bump")>>,
   <<MCChange("b.txt", "v2", "bump")>>,
   <<MCChange("a.txt", "v1", "fix"), MCChange("./a.txt", "v1", "bump")>>,
   <<MCChange("a.txt", "v1", "fix"), MCChange("./a.txt", "v1", "jump")>>,
   <<MCChange("a.txt", "v1", "fix"), MCChange("a.txt", "v1", "fix")>>}

Symmetry == Permutations(Appliers)
=============================================================================
