----------------------------- MODULE MCGovernor -----------------------------
(***************************************************************************)
(* Requests, sessions and commits for model checking the governed run.     *)
(*                                                                         *)
(*   read    a read inside the workspace     test    a listed command      *)
(*   search  a search with a bad pattern     commit  an unlisted git commit *)
(*   escape  a write outside the workspace   edit    a listed write        *)
(*   stray   an unlisted write               netrc   an unlisted write that *)
(*                                           only the guard refuses        *)
(***************************************************************************)
EXTENDS Governor, TLC

MCRisk == [r \in Requests |->
  CASE r = "read" -> "R0"
    [] r = "search" -> "R1"
    [] r \in {"test", "commit"} -> "R2"
    [] OTHER -> "R3"]

MCPrecheck == [r \in Requests |->
  CASE r = "search" -> "error" [] r = "escape" -> "denied" [] OTHER -> "pass"]

MCSession(mode, writes, exec, approver) ==
  [mode |-> mode, writes |-> writes, exec |-> exec, approver |-> approver]

\* The runs of the command line: `run` with -yes or prompting and with either
\* capability or none, the flat form, and planning.
MCSessions ==
  {MCSession("run", TRUE, TRUE, "auto"), MCSession("run", TRUE, TRUE, "prompt"),
   MCSession("run", TRUE, FALSE, "auto"), MCSession("run", FALSE, FALSE, "prompt"),
   MCSession("flat", TRUE, FALSE, "prompt"), MCSession("flat", TRUE, FALSE, "auto"),
   MCSession("plan", FALSE, FALSE, "auto")}
MCRunYes == {MCSession("run", TRUE, TRUE, "auto")}
MCRunPrompt == {MCSession("run", TRUE, TRUE, "prompt")}

Symmetry == Permutations(Calls)
=============================================================================
