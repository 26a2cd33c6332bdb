----------------------------- MODULE MCTerminal -----------------------------
(***************************************************************************)
(* Two calls at one terminal: `run` with a budget of one call, and the     *)
(* flat form, in which both may prompt at once.  A read and an unlisted    *)
(* write.                                                                  *)
(***************************************************************************)
EXTENDS Terminal

MCRisk == [r \in Requests |-> IF r = "read" THEN "R0" ELSE "R3"]
MCPrecheck == [r \in Requests |-> "pass"]

MCSessions ==
  {[mode |-> "run", writes |-> TRUE, exec |-> FALSE, approver |-> "prompt"],
   [mode |-> "flat", writes |-> TRUE, exec |-> FALSE, approver |-> "prompt"]}
=============================================================================
