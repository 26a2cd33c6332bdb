----------------------------- MODULE RunVerify -----------------------------
(***************************************************************************)
(* The run-level verifier (internal/runverify): a pure function of what    *)
(* was observed of a finished run to a verdict.                            *)
(*                                                                         *)
(* An input is a record of                                                 *)
(*   chain       the hash chain of the run's records recomputes            *)
(*   expected    the action ids that must be present, and those present    *)
(*   present                                                               *)
(*   claimed     the workspace the plan names, or NoName, and the one      *)
(*   observed    that is looked at                                         *)
(*   git         "skipped", "error" or the commit HEAD is at               *)
(*   endSHA      the commit recorded at the end of the run, or NoName      *)
(*   changed     the files observed to have changed, or Unknown            *)
(*   planned     the files the plan proposes to change                     *)
(*   acceptance  [check -> exit code] for the checks that have a result    *)
(*   required    the checks that must have one                             *)
(*   leaking     the files whose diff shows secret material                *)
(***************************************************************************)
EXTENDS Integers

CONSTANT Forbidden   \* the names forbiddenPathPatterns match

NoName == ""
Unknown == {"changed-file state unavailable"}

CheckNames == {"evidence_chain", "evidence_completeness", "workspace_identity", "git_end_sha",
               "changed_vs_plan", "forbidden_paths", "acceptance", "secret_scan"}
Outcomes == {"pass", "fail", "warn", "skipped", "error"}
Results == {"verified", "verified_with_warnings", "failed", "inconclusive", "tampered",
            "workspace_mismatch"}
Certified == {"verified", "verified_with_warnings"}

-----------------------------------------------------------------------------
(***************************************************************************)
(* What each check finds wrong.                                            *)
(***************************************************************************)
Tampered(in) == ~in.chain
Incomplete(in) == ~(in.expected \subseteq in.present)
Mismatch(in) == in.claimed # NoName /\ in.claimed # in.observed
GitUnavailable(in) == in.git = "error"
GitObserved(in) == in.git \notin {"skipped", "error"}
EndUnrecorded(in) == GitObserved(in) /\ in.endSHA = NoName
EndMoved(in) == GitObserved(in) /\ in.endSHA # NoName /\ in.git # in.endSHA
ChangesUnknown(in) == in.changed = Unknown
Unplanned(in) == ~ChangesUnknown(in) /\ ~(in.changed \subseteq in.planned)
Untouched(in) == ~ChangesUnknown(in) /\ ~(in.planned \subseteq in.changed)
Touched(in) == ~ChangesUnknown(in) /\ in.changed \cap Forbidden # {}
CheckFailed(in) == \E name \in DOMAIN in.acceptance : in.acceptance[name] # 0
CheckMissing(in) == ~(in.required \subseteq DOMAIN in.acceptance)
Leaking(in) == in.leaking # {}

Failing(in) == EndMoved(in) \/ Unplanned(in) \/ Touched(in) \/ CheckFailed(in) \/ Leaking(in)
Inconclusive(in) ==
  Incomplete(in) \/ GitUnavailable(in) \/ ChangesUnknown(in) \/ CheckMissing(in)
Warned(in) == EndUnrecorded(in) \/ Untouched(in)

\* Verdict.Checks, as it is printed: a failure replaces a warning and an
\* error, a warning never replaces a failure.
Checks(in) ==
  [evidence_chain        |-> IF Tampered(in) THEN "fail" ELSE "pass",
   evidence_completeness |-> IF in.expected = {} THEN "skipped"
                             ELSE IF Incomplete(in) THEN "error" ELSE "pass",
   workspace_identity    |-> IF Mismatch(in) THEN "fail" ELSE "pass",
   git_end_sha           |-> IF GitUnavailable(in) THEN "error"
                             ELSE IF EndUnrecorded(in) THEN "warn"
                             ELSE IF EndMoved(in) THEN "fail"
                             ELSE IF in.git = "skipped" THEN "skipped" ELSE "pass",
   changed_vs_plan       |-> IF ChangesUnknown(in) THEN "error"
                             ELSE IF Unplanned(in) THEN "fail"
                             ELSE IF Untouched(in) THEN "warn" ELSE "pass",
   forbidden_paths       |-> IF ChangesUnknown(in) THEN "error"
                             ELSE IF Touched(in) THEN "fail" ELSE "pass",
   acceptance            |-> IF CheckFailed(in) THEN "fail"
                             ELSE IF CheckMissing(in) THEN "error" ELSE "pass",
   secret_scan           |-> IF Leaking(in) THEN "fail" ELSE "pass"]

\* Defect: a missing result hides a failed check.
ResultInconclusiveFirst(in) ==
  IF Tampered(in) THEN "tampered"
  ELSE IF Mismatch(in) THEN "workspace_mismatch"
  ELSE IF Inconclusive(in) THEN "inconclusive"
  ELSE IF Failing(in) THEN "failed"
  ELSE IF Warned(in) THEN "verified_with_warnings" ELSE "verified"

\* The verdict, by precedence.
Result(in) ==
  IF Tampered(in) THEN "tampered"
  ELSE IF Mismatch(in) THEN "workspace_mismatch"
  ELSE IF Failing(in) THEN "failed"
  ELSE IF Inconclusive(in) THEN "inconclusive"
  ELSE IF Warned(in) THEN "verified_with_warnings" ELSE "verified"

Verify(in) == [result |-> Result(in), checks |-> Checks(in)]

-----------------------------------------------------------------------------
\* runverify.go Verify: the verdict and the table of checks, which the code
\* keeps separately, tell the same story.
Agrees(v) ==
  LET Some(outcome) == \E name \in CheckNames : v.checks[name] = outcome
      chain == v.checks.evidence_chain
      identity == v.checks.workspace_identity
  IN
  /\ v.result = "tampered" <=> chain = "fail"
  /\ v.result = "workspace_mismatch" <=> chain # "fail" /\ identity = "fail"
  /\ v.result = "failed" <=> chain # "fail" /\ identity # "fail" /\ Some("fail")
  /\ v.result = "inconclusive" <=> ~Some("fail") /\ Some("error")
  /\ v.result = "verified_with_warnings" <=> ~Some("fail") /\ ~Some("error") /\ Some("warn")
  /\ v.result = "verified" <=> ~Some("fail") /\ ~Some("error") /\ ~Some("warn")
=============================================================================
