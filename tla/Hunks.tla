------------------------------- MODULE Hunks -------------------------------
(***************************************************************************)
(* The literal find-and-replace hunks of a patch (internal/patch): how a   *)
(* hunk is counted, and what it makes of a text.  A text is a sequence of  *)
(* characters; a hunk is a record of find, replace, expect (how often find *)
(* must occur) and occurrence (which of them to replace, 0 for all).       *)
(***************************************************************************)
EXTENDS Integers, Sequences

CONSTANTS
  Texts,   \* texts and replacements
  Finds    \* what hunks look for

\* No text: a hunk did not fit.
NoText == <<"refused">>

ASSUME HunksAssumption == NoText \notin Texts /\ <<>> \notin Finds

MatchAt(s, find, i) == i + Len(find) - 1 <= Len(s) /\ SubSeq(s, i, i + Len(find) - 1) = find

\* A match that overlaps none of those counted before it counts.
AddSite(s, find, sites, i) ==
  IF MatchAt(s, find, i) /\ (sites = <<>> \/ sites[Len(sites)] + Len(find) <= i)
    THEN Append(sites, i) ELSE sites

\* strings.Count: the matches from the left that do not overlap.
Sites(s, find) ==
  LET scan[i \in 0..Len(s)] == IF i = 0 THEN <<>> ELSE AddSite(s, find, scan[i - 1], i)
  IN scan[Len(s)]

Splice(s, find, replace, i) ==
  SubSeq(s, 1, i - 1) \o replace \o SubSeq(s, i + Len(find), Len(s))

\* strings.ReplaceAll, from the right so that the sites stay where they are.
ReplaceAllOf(s, find, replace) ==
  LET sites == Sites(s, find)
      text[k \in 1..Len(sites) + 1] ==
        IF k > Len(sites) THEN s ELSE Splice(text[k + 1], find, replace, sites[k])
  IN text[1]

\* strings.Index from a place on: the first match there.
NextIndex(s, find, from) ==
  CHOOSE i \in from..Len(s) :
    MatchAt(s, find, i) /\ \A j \in from..i - 1 : ~MatchAt(s, find, j)

\* replaceNth: n searches, each from the end of the match before.
ReplaceNth(s, find, replace, n) ==
  LET idx[k \in 0..n] ==
        IF k = 0 THEN 1
        ELSE NextIndex(s, find, idx[k - 1]) + (IF k < n THEN Len(find) ELSE 0)
  IN Splice(s, find, replace, idx[n])

\* Validate's bounds on a hunk, the exact count, and the replacement.
ValidHunk(h) == h.find # <<>> /\ h.expect >= 1 /\ h.occurrence \in 0..h.expect

ApplyHunk(s, h) ==
  CASE s = NoText \/ ~ValidHunk(h) -> NoText
    [] s # NoText /\ ValidHunk(h) /\ Len(Sites(s, h.find)) # h.expect -> NoText
    [] OTHER -> IF h.occurrence = 0 THEN ReplaceAllOf(s, h.find, h.replace)
                                    ELSE ReplaceNth(s, h.find, h.replace, h.occurrence)

\* Every hunk works on what the one before left.
ApplyHunks(s, hunks) ==
  LET post[k \in 0..Len(hunks)] == IF k = 0 THEN s ELSE ApplyHunk(post[k - 1], hunks[k])
  IN post[Len(hunks)]

\* The n-th match that is replaced is the n-th of those that were counted.
Agree(s, find, replace) ==
  \A n \in 1..Len(Sites(s, find)) :
    ReplaceNth(s, find, replace, n) = Splice(s, find, replace, Sites(s, find)[n])

\* patch.go replaceNth against strings.Count: they agree, though they find the
\* matches by different loops and matches may overlap or stand side by side.
ReplacesCountedMatch == \A s, replace \in Texts, find \in Finds : Agree(s, find, replace)
=============================================================================
