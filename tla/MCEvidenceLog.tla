--------------------------- MODULE MCEvidenceLog ---------------------------
(***************************************************************************)
(* A few sessions over each kind of legacy log: none, an intact one of two *)
(* records, and one that lost a record in the middle.                      *)
(***************************************************************************)
EXTENDS EvidenceLog, TLC

OldLine(hash, prev) ==
  [by |-> Legacy, hash |-> hash, prev |-> prev, whole |-> TRUE, ended |-> TRUE]

MCLegacyLogs ==
  {<<>>, <<OldLine(1, NoHash), OldLine(2, 1)>>, <<OldLine(1, NoHash), OldLine(3, 2)>>}

\* No earlier release was ever installed.
NoLegacyLogs == {<<>>}

Symmetry == Permutations(Sessions)
=============================================================================
