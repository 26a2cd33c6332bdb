------------------------ MODULE CertificationProofs ------------------------
(***************************************************************************)
(* Proofs about Certification, for every workspace, plan and set of        *)
(* acceptance checks, however many calls a run makes and however often     *)
(* others disturb it.                                                      *)
(***************************************************************************)
EXTENDS Certification, SequenceTheorems, WellFoundedInduction, TLAPS

(***************************************************************************)
(* The verifier: its verdict and its table of checks agree for every       *)
(* input.  runverify.go keeps four flags for the one and a map for the     *)
(* other, and nothing in the code ties them together.                      *)
(***************************************************************************)
\* Some check fails exactly when the verifier has one of its fatal flags set.
LEMMA SomeFail ==
  ASSUME NEW in
  PROVE  (\E name \in CheckNames : Checks(in)[name] = "fail")
           <=> Tampered(in) \/ Mismatch(in) \/ Failing(in)
  BY DEF Checks, CheckNames, Failing, GitUnavailable, EndUnrecorded, EndMoved, GitObserved,
     ChangesUnknown, Unplanned, Touched

LEMMA SomeError ==
  ASSUME NEW in, ~Tampered(in), ~Mismatch(in), ~Failing(in)
  PROVE  (\E name \in CheckNames : Checks(in)[name] = "error") <=> Inconclusive(in)
  BY DEF Checks, CheckNames, Failing, Inconclusive, Incomplete, GitUnavailable,
     EndUnrecorded, EndMoved, GitObserved, ChangesUnknown

LEMMA SomeWarning ==
  ASSUME NEW in, ~Tampered(in), ~Mismatch(in), ~Failing(in), ~Inconclusive(in)
  PROVE  (\E name \in CheckNames : Checks(in)[name] = "warn") <=> Warned(in)
  BY DEF Checks, CheckNames, Failing, Inconclusive, Warned, GitUnavailable, EndUnrecorded,
     EndMoved, GitObserved, ChangesUnknown, Untouched

\* runverify.go Verify: whatever was observed, the verdict is the one the
\* printed table of checks calls for.
THEOREM VerdictMatchesChecks ==
  ASSUME NEW in
  PROVE  Agrees(Verify(in))
<1> DEFINE fail == \E name \in CheckNames : Checks(in)[name] = "fail"
<1> DEFINE error == \E name \in CheckNames : Checks(in)[name] = "error"
<1> DEFINE warn == \E name \in CheckNames : Checks(in)[name] = "warn"
<1>1. Checks(in).evidence_chain = "fail" <=> Tampered(in)
  BY DEF Checks
<1>2. Checks(in).workspace_identity = "fail" <=> Mismatch(in)
  BY DEF Checks
<1>3. fail <=> Tampered(in) \/ Mismatch(in) \/ Failing(in)
  BY SomeFail
<1>4. ~fail => (error <=> Inconclusive(in))
  BY <1>3, SomeError
<1>5. ~fail /\ ~error => (warn <=> Warned(in))
  BY <1>3, <1>4, SomeWarning
<1>6. CASE Tampered(in)
  BY <1>1, <1>3, <1>6 DEF Agrees, Verify, Result
<1>7. CASE ~Tampered(in) /\ Mismatch(in)
  BY <1>1, <1>2, <1>3, <1>7 DEF Agrees, Verify, Result
<1>8. CASE ~Tampered(in) /\ ~Mismatch(in) /\ Failing(in)
  BY <1>1, <1>2, <1>3, <1>8 DEF Agrees, Verify, Result
<1>9. CASE ~Tampered(in) /\ ~Mismatch(in) /\ ~Failing(in)
  BY <1>1, <1>2, <1>3, <1>4, <1>5, <1>9 DEF Agrees, Verify, Result
<1> QED
  BY <1>6, <1>7, <1>8, <1>9

-----------------------------------------------------------------------------
(***************************************************************************)
(* Certification: how far the receipt and the exit code are in each phase. *)
(***************************************************************************)

Before == {"running", "observe_head", "observe_files", "load", "verify", "seal"}

\* The receipt says how the loop ended and what the verifier made of it.
Sealed ==
  /\ receipt.execution = status
  /\ receipt.final = FinalStatus

CertificationInv ==
  /\ phase \in Phases
  /\ status \in {None, "completed", "stopped"}
  /\ phase \in Before => receipt = NoReceipt /\ saved = "none" /\ exit = NoExit
  /\ phase = "save" => Sealed /\ saved = "none" /\ exit = NoExit
  /\ phase = "report" => Sealed /\ saved = "whole" /\ exit = NoExit
  /\ phase = "ended" => /\ Sealed
                        /\ exit = 0 => saved \in {"whole", "edited"} /\ Succeeds
  /\ VerdictAgrees

LEMMA InvInit == Init => CertificationInv
  BY DEF Init, CertificationInv, Phases, Before, VerdictAgrees, NoVerdict, None

\* Everybody else's steps, and those of the run before there is a verdict,
\* leave all of it alone.
LEMMA InvQuiet ==
  ASSUME CertificationInv, UNCHANGED <<verdict, receipt, saved, exit, status>>,
         \/ phase' = phase
         \/ phase \in Before \ {"seal"} /\ phase' \in Before \ {"running"}
  PROVE  CertificationInv'
  BY DEF CertificationInv, Phases, Before, Sealed, FinalStatus, Succeeds, VerdictAgrees

LEMMA InvNext == CertificationInv /\ [Next]_vars => CertificationInv'
<1> SUFFICES ASSUME CertificationInv, [Next]_vars
             PROVE  CertificationInv'
  OBVIOUS
<1> USE DEF workspaceVars, logVars, observedVars, resultVars
<1>1. CASE WriteFile \/ RunCommand
  BY <1>1, InvQuiet DEF WriteFile, RunCommand
<1>2. CASE RunCheck
  BY <1>2, InvQuiet DEF RunCheck
<1>3. CASE GitCommit
  BY <1>3, InvQuiet DEF GitCommit
<1>4. CASE EndRun
  BY <1>4 DEF EndRun, CertificationInv, Phases, Before, VerdictAgrees
<1>5. CASE ObserveHead
  BY <1>5, InvQuiet DEF ObserveHead, Before
<1>6. CASE ObserveFiles
  BY <1>6, InvQuiet DEF ObserveFiles, Before
<1>7. CASE LoadRunEvidence
  BY <1>7, InvQuiet DEF LoadRunEvidence, Before
<1>8. CASE VerifyRun
  <2>1. PICK in : verdict' = Verify(in)
    BY <1>8 DEF VerifyRun
  <2>2. VerdictAgrees'
    BY <2>1, VerdictMatchesChecks DEF VerdictAgrees
  <2>3. QED
    BY <1>8, <2>2 DEF VerifyRun, CertificationInv, Phases, Before
<1>9. CASE Seal
  BY <1>9 DEF Seal, CertificationInv, Phases, Before, Sealed, FinalStatus, VerdictAgrees
<1>10. CASE Save
  BY <1>10 DEF Save, CertificationInv, Phases, Before, Sealed, FinalStatus, VerdictAgrees
<1>11. CASE SaveFails
  BY <1>11 DEF SaveFails, CertificationInv, Phases, Before, Sealed, FinalStatus, VerdictAgrees
<1>12. CASE Report
  BY <1>12 DEF Report, CertificationInv, Phases, Before, Sealed, FinalStatus, Succeeds,
     VerdictAgrees
<1>13. CASE Kill
  BY <1>13 DEF Kill, CertificationInv, Phases, Before, Sealed, FinalStatus, NoExit, VerdictAgrees
<1>14. ASSUME NEW withPlan \in BOOLEAN, VerifyReceipt(withPlan)
       PROVE  CertificationInv'
  BY <1>14, InvQuiet DEF VerifyReceipt
<1>15. CASE OthersWrite
  BY <1>15, InvQuiet DEF OthersWrite
<1>16. CASE OthersCommit
  BY <1>16, InvQuiet DEF OthersCommit
<1>17. CASE DamageLog
  BY <1>17, InvQuiet DEF DamageLog
<1>18. CASE EditReceipt
  BY <1>18 DEF EditReceipt, Mattering, CertificationInv, Phases, Before, Sealed, FinalStatus,
     Succeeds, VerdictAgrees
<1>19. CASE UNCHANGED vars
  BY <1>19, InvQuiet DEF vars
<1> QED
  BY <1>1, <1>2, <1>3, <1>4, <1>5, <1>6, <1>7, <1>8, <1>9, <1>10, <1>11, <1>12, <1>13, <1>14,
     <1>15, <1>16, <1>17, <1>18, <1>19 DEF Next

LEMMA Invariant == Spec => []CertificationInv
  BY InvInit, InvNext, PTL DEF Spec

\* Whatever happens around a run, the verdict it renders is the one its table
\* of checks calls for (runverify.go Verify).
THEOREM VerdictsAgree == Spec => []VerdictAgrees
<1>1. CertificationInv => VerdictAgrees
  BY DEF CertificationInv
<1> QED
  BY <1>1, Invariant, PTL

\* `run` exits with 0 only when a receipt with a certified final status is on
\* disk, and no receipt of a stopped run is final with a verdict (run_cmd.go
\* finalStatus and exit code).
THEOREM SuccessOnFile == Spec => []SuccessIsOnFile
<1>1. CertificationInv => SuccessIsOnFile
  BY DEF CertificationInv, SuccessIsOnFile, Phases, Before, Sealed, FinalStatus, Succeeds,
     NoReceipt, None, NoExit, Results, Certified
<1> QED
  BY <1>1, Invariant, PTL
-----------------------------------------------------------------------------
(***************************************************************************)
(* What a chain of records says about the last exit codes.                 *)
(***************************************************************************)
\* The arithmetic and the sequences of one more call.
LEMMA Between ==
  ASSUME NEW a \in Nat, NEW b \in Nat, NEW c \in Nat, a <= b, b < c
  PROVE  a + 1 \in 1..c /\ b + 1 \in 0..c /\ a + 1 \in 0..(b + 1) /\ a \in 0..(b + 1)
  OBVIOUS

LEMMA AppendedDiffers ==
  ASSUME NEW S, NEW s \in Seq(S), NEW e \in S
  PROVE  Append(s, e) # s
<1>1. Len(Append(s, e)) = Len(s) + 1 /\ Len(s) \in Nat
  OBVIOUS
<1> SUFFICES ASSUME Append(s, e) = s PROVE FALSE
  OBVIOUS
<1>2. Len(s) = Len(s) + 1
  BY <1>1
<1> QED
  BY <1>1, <1>2

LEMMA Appended ==
  ASSUME NEW S, NEW s \in Seq(S), NEW e \in S
  PROVE  /\ Append(s, e) \in Seq(S) /\ Len(Append(s, e)) = Len(s) + 1
         /\ \A i \in 1..Len(s) : Append(s, e)[i] = s[i]
         /\ Append(s, e)[Len(s) + 1] = e
  OBVIOUS

\* WellFoundedInduction states it of least elements.
LEMMA Largest ==
  ASSUME NEW n \in Nat, NEW T, T \subseteq 1..n, T # {}
  PROVE  \E m \in T : \A j \in T : j <= m
<1> DEFINE U == {n - j : j \in T}
           Less == OpToRel(<, Nat)
<1>1. U \subseteq Nat /\ U # {}
  <2>1. \A j \in T : n - j \in Nat
    OBVIOUS
  <2> QED
    BY <2>1
<1>2. IsWellFoundedOn(Less, Nat)
  BY NatLessThanWellFounded
<1>3. \A x, y \in Nat : y < x => <<y, x>> \in Less
  BY DEF OpToRel
<1> HIDE DEF U, Less
<1>4. PICK x \in U : \A y \in U : <<y, x>> \notin Less
  BY <1>1, <1>2, WFMin
<1>5. PICK m \in T : x = n - m
  BY DEF U
<1>6. ASSUME NEW j \in T PROVE j <= m
  <2>1. n - j \in U
    BY DEF U
  <2>2. x \in Nat /\ n - j \in Nat
    BY <1>1, <2>1
  <2>3. ~(n - j < x)
    BY <1>3, <1>4, <2>1, <2>2
  <2>4. m \in 1..n /\ j \in 1..n
    OBVIOUS
  <2> QED
    BY <1>5, <2>3, <2>4
<1> QED
  BY <1>6

Runs(rec, command) ==
  rec.tool = "run_command" /\ rec.asset = command /\ rec.execution = "ok"

\* The last record of each check has the exit code the check really had last.
Faithful(recs, exits) ==
  \A command \in Commands : \A i \in Ran(recs, command) :
    (\A j \in Ran(recs, command) : j <= i) => recs[i].code = exits[command]

\* The record of one more call keeps that up.
LEMMA AppendFaithful ==
  ASSUME NEW recs \in Seq(Record), NEW new \in Record, NEW exits, NEW exits2,
         Chained(recs) => Faithful(recs, exits),
         \A command \in Commands :
           exits2[command] = IF Runs(new, command) THEN new.code ELSE exits[command],
         Chained(Append(recs, new))
  PROVE  Faithful(Append(recs, new), exits2)
<1> DEFINE more == Append(recs, new)
           n == Len(recs)
<1>1. /\ n \in Nat /\ Len(more) = n + 1 /\ more[n + 1] = new
      /\ \A i \in 1..n : more[i] = recs[i]
  BY Appended
<1>2. Chained(more)
  OBVIOUS
<1> HIDE DEF more
<1>3. Chained(recs)
  <2> SUFFICES ASSUME NEW i \in 1..n
               PROVE  recs[i].intact /\ (i > 1 => recs[i].number = recs[i - 1].number + 1)
    BY DEF Chained
  <2>1. i \in 1..(n + 1) /\ (i > 1 => i - 1 \in 1..n)
    BY <1>1
  <2>2. more[i].intact /\ (i > 1 => more[i].number = more[i - 1].number + 1)
    BY <1>1, <1>2, <2>1 DEF Chained
  <2> QED
    BY <1>1, <2>1, <2>2
<1>4. SUFFICES ASSUME NEW command \in Commands, NEW i \in Ran(more, command),
                      \A j \in Ran(more, command) : j <= i
               PROVE  more[i].code = exits2[command]
  BY DEF Faithful, more
<1>5. i \in 1..(n + 1) /\ Runs(more[i], command)
  BY <1>1 DEF Ran, Runs
<1>6. CASE Runs(new, command)
  <2>1. n + 1 \in Ran(more, command)
    BY <1>1, <1>6 DEF Ran, Runs
  <2>2. i = n + 1
    BY <1>1, <1>4, <1>5, <2>1
  <2> QED
    BY <1>1, <1>6, <2>2
<1>7. CASE ~Runs(new, command)
  <2>1. i \in 1..n
    BY <1>1, <1>5, <1>7
  <2>2. i \in Ran(recs, command)
    BY <1>1, <1>5, <2>1 DEF Ran, Runs
  <2>3. \A j \in Ran(recs, command) : j \in Ran(more, command)
    BY <1>1 DEF Ran
  <2>4. recs[i].code = exits[command]
    BY <1>3, <1>4, <2>2, <2>3 DEF Faithful
  <2> QED
    BY <1>1, <1>7, <2>1, <2>4
<1> QED
  BY <1>6, <1>7

\* Of the intact log, with the calls numbered from 1, only the first or the
\* last record can go and leave a chain; without the first the last record of
\* each check is still there.
Without(recs, i) == [j \in 1..(Len(recs) - 1) |-> recs[IF j < i THEN j ELSE j + 1]]

LEMMA RemovalFaithful ==
  ASSUME NEW recs \in Seq(Record), NEW exits, Faithful(recs, exits),
         \A j \in 1..Len(recs) : recs[j].number = j,
         NEW i \in 1..Len(recs), i # Len(recs), Chained(Without(recs, i))
  PROVE  Faithful(Without(recs, i), exits)
<1> DEFINE n == Len(recs)
           less == Without(recs, i)
<1>1. n \in Nat /\ i \in 1..n /\ i # n
  OBVIOUS
<1>2. Len(less) = n - 1 /\ \A j \in 1..(n - 1) : less[j] = recs[IF j < i THEN j ELSE j + 1]
  BY <1>1 DEF Without
<1>3. Chained(less)
  OBVIOUS
<1> HIDE DEF less
<1>4. i = 1
  <2> SUFFICES ASSUME i # 1 PROVE FALSE
    OBVIOUS
  <2>1. i \in 1..(n - 1) /\ i - 1 \in 1..(n - 1) /\ i > 1
    BY <1>1
  <2>2. less[i] = recs[i + 1] /\ less[i - 1] = recs[i - 1]
    BY <1>2, <2>1
  <2>3. less[i].number = i + 1 /\ less[i - 1].number = i - 1
    BY <1>1, <2>1, <2>2
  <2>4. less[i].number = less[i - 1].number + 1
    BY <1>2, <1>3, <2>1 DEF Chained
  <2> QED
    BY <1>1, <2>3, <2>4
<1>5. \A j \in 1..(n - 1) : less[j] = recs[j + 1]
  BY <1>1, <1>2, <1>4
<1>6. SUFFICES ASSUME NEW command \in Commands, NEW k \in Ran(less, command),
                      \A j \in Ran(less, command) : j <= k
               PROVE  less[k].code = exits[command]
  BY DEF Faithful, less
<1>7. k \in 1..(n - 1) /\ k + 1 \in 1..n /\ k + 1 \in Ran(recs, command)
  BY <1>1, <1>2, <1>5 DEF Ran
<1>8. ASSUME NEW j \in Ran(recs, command) PROVE j <= k + 1
  <2>1. j \in 1..n
    BY DEF Ran
  <2>2. CASE j = 1
    BY <1>7, <2>2
  <2>3. CASE j # 1
    <3>1. j - 1 \in 1..(n - 1) /\ (j - 1) + 1 = j
      BY <1>1, <2>1, <2>3
    <3>2. less[j - 1] = recs[j]
      BY <1>5, <3>1
    <3>3. j - 1 \in Ran(less, command)
      BY <1>2, <3>1, <3>2 DEF Ran
    <3>4. j - 1 <= k
      BY <1>6, <3>3
    <3> QED
      BY <1>7, <2>1, <3>4
  <2> QED
    BY <2>2, <2>3
<1>9. recs[k + 1].code = exits[command]
  BY <1>7, <1>8 DEF Faithful
<1> QED
  BY <1>5, <1>7, <1>9

\* A certified verdict has seen each check pass the last time it was executed.
LEMMA CertifiedPassed ==
  ASSUME NEW recs \in Seq(Record), NEW exits, Chained(recs) => Faithful(recs, exits),
         NEW git, NEW end, NEW files,
         Result(VerifierInput(recs, git, end, files, Planned, AcceptanceResults(recs), Commands))
           \in Certified
  PROVE  \A command \in Commands : exits[command] = 0
<1> DEFINE tests == AcceptanceResults(recs)
           in == VerifierInput(recs, git, end, files, Planned, tests, Commands)
<1>1. ~Tampered(in) /\ ~CheckFailed(in) /\ ~CheckMissing(in)
  BY DEF Result, Certified, Failing, Inconclusive
<1>2. Chained(recs) /\ Commands \subseteq DOMAIN tests /\ \A c \in DOMAIN tests : tests[c] = 0
  BY <1>1 DEF Tampered, CheckFailed, CheckMissing, VerifierInput
<1> SUFFICES ASSUME NEW command \in Commands PROVE exits[command] = 0
  OBVIOUS
<1> DEFINE T == Ran(recs, command)
<1>3. command \in DOMAIN tests
  BY <1>2
<1>4. T # {} /\ tests[command] = recs[CHOOSE i \in T : \A j \in T : j <= i].code
  BY <1>3 DEF AcceptanceResults
<1>5. Len(recs) \in Nat /\ T \subseteq 1..Len(recs)
  BY DEF Ran
<1> HIDE DEF T
<1>6. \E i \in T : \A j \in T : j <= i
  BY <1>4, <1>5, Largest
<1> DEFINE final == CHOOSE i \in T : \A j \in T : j <= i
<1>7. final \in T /\ \A j \in T : j <= final
  BY <1>6
<1> HIDE DEF final
<1>8. recs[final].code = exits[command]
  BY <1>2, <1>7 DEF Faithful, T
<1> QED
  BY <1>2, <1>3, <1>4, <1>8 DEF final

-----------------------------------------------------------------------------
(***************************************************************************)
(* The log, what was read of it, and the verdict on it.                    *)
(***************************************************************************)
Unread == {"running", "observe_head", "observe_files", "load"}

\* Before the log is damaged it holds exactly what the sink wrote, numbered from
\* 1.  As long as its end is not cut off, a log that is still a chain, and what
\* was read of one, has the last recorded exit code of every check; a certified
\* verdict has seen them all pass.
LogInv ==
  /\ LogOK
  /\ ~damaged => /\ Len(records) = last
                 /\ \A i \in 1..Len(records) : records[i].number = i /\ records[i].intact
  /\ ~cut /\ Chained(records) => Faithful(records, recordedExit)
  /\ ~cut /\ Chained(seen) => Faithful(seen, recordedExit)
  /\ phase \in Unread => seen = <<>>
  /\ phase \in Unread \cup {"verify"} => verdict.result = None
  /\ ~cut /\ verdict.result \in Certified => \A command \in Commands : recordedExit[command] = 0

LEMMA LogInit == Init => LogInv
<1> SUFFICES ASSUME Init PROVE LogInv
  OBVIOUS
<1>1. CallBound \in Nat
  BY CertificationAssumption
<1>2. records \in Seq(Record) /\ seen \in Seq(Record) /\ Len(records) = 0
  BY EmptySeq DEF Init
<1>3. calls \in 0..CallBound /\ last \in 0..calls /\ Len(records) = last /\ Len(records) <= last
  BY <1>1, <1>2 DEF Init
<1>4. LogOK
  BY <1>2, <1>3 DEF Init, LogOK, NoExit
<1>5. Len(seen) = 0 /\ Faithful(seen, recordedExit) /\ seen = records
  BY <1>2 DEF Init, Faithful, Ran
<1> QED
  BY <1>3, <1>4, <1>5 DEF Init, LogInv, NoVerdict, None, Certified

\* What touches neither the log nor the verdict, and starts nothing again.
LEMMA LogQuiet ==
  ASSUME LogInv, UNCHANGED <<logVars, seen, verdict>>,
         phase' \in Unread => phase \in Unread,
         phase' = "verify" => phase \in Unread \cup {"verify"}
  PROVE  LogInv'
  BY DEF LogInv, LogOK, logVars

\* A call of the run: one more record, of an execution or of a refusal, if the
\* sink can write it.
NewRecord(tool, asset, execution, code) ==
  [number |-> last + 1, intact |-> TRUE, tool |-> tool, asset |-> asset,
   execution |-> execution, code |-> code]

Exits == [Commands -> {NoExit, 0, 1}]

Called(new) ==
  /\ phase = "running" /\ UNCHANGED <<phase, seen, verdict, readable, damaged, cut>>
  /\ calls' = calls + 1 /\ last' = last + 1 /\ records' = Append(records, new)
  /\ recordedExit' \in Exits
  /\ \A command \in Commands :
       recordedExit'[command] = IF Runs(new, command) THEN new.code ELSE recordedExit[command]

\* A call the log has nothing of, or only a part.
Lost ==
  /\ phase = "running" /\ UNCHANGED <<phase, seen, verdict, last, records, damaged, cut>>
  /\ calls' = calls + 1 /\ UNCHANGED recordedExit

LEMMA Recording ==
  ASSUME NEW tool, NEW asset, NEW execution, NEW code, Recorded(tool, asset, execution, code)
  PROVE  /\ calls' = calls + 1 /\ UNCHANGED <<damaged, cut>>
         /\ \/ /\ last' = last + 1 /\ UNCHANGED readable
               /\ records' = Append(records, NewRecord(tool, asset, execution, code))
            \/ UNCHANGED <<last, records>>
  BY DEF Recorded, NewRecord

LEMMA LogTypes ==
  ASSUME LogInv
  PROVE  /\ calls \in Nat /\ CallBound \in Nat /\ last \in Nat /\ last <= calls
         /\ records \in Seq(Record) /\ Len(records) \in Nat /\ Len(records) <= last
         /\ seen \in Seq(Record) /\ recordedExit \in Exits
<1>1. CallBound \in Nat
  BY CertificationAssumption
<1>2. calls \in 0..CallBound /\ last \in 0..calls
  BY DEF LogInv, LogOK
<1> QED
  BY <1>1, <1>2 DEF LogInv, LogOK, Exits

LEMMA NothingFaithful ==
  ASSUME NEW exits
  PROVE  Faithful(<<>>, exits) /\ <<>> \in Seq(Record)
<1>1. <<>> \in Seq(Record) /\ Len(<<>>) = 0
  BY EmptySeq
<1> QED
  BY <1>1 DEF Faithful, Ran

LEMMA NewRecordType ==
  ASSUME LogInv, calls < CallBound,
         NEW tool \in {"write_file", "run_command"},
         NEW asset \in Files \cup Commands \cup OtherCommands \cup {"git commit"},
         NEW execution \in Executions, NEW code \in {0, 1}
  PROVE  NewRecord(tool, asset, execution, code) \in Record
<1>1. calls \in Nat /\ CallBound \in Nat /\ last \in Nat /\ last <= calls
  BY LogTypes
<1>2. calls < CallBound
  OBVIOUS
<1>3. last + 1 \in 1..CallBound
  BY <1>1, <1>2, Between
<1> QED
  BY <1>3 DEF NewRecord, Record

LEMMA NumbersKept ==
  ASSUME NEW recs \in Seq(Record), NEW new \in Record, new.number = Len(recs) + 1, new.intact,
         \A i \in 1..Len(recs) : recs[i].number = i /\ recs[i].intact
  PROVE  \A i \in 1..Len(Append(recs, new)) :
           Append(recs, new)[i].number = i /\ Append(recs, new)[i].intact
<1> DEFINE more == Append(recs, new)
           n == Len(recs)
<1>1. n \in Nat /\ Len(more) = n + 1 /\ more[n + 1] = new /\ \A i \in 1..n : more[i] = recs[i]
  BY Appended
<1> HIDE DEF more
<1>2. ASSUME NEW i \in 1..(n + 1) PROVE more[i].number = i /\ more[i].intact
  <2>1. i \in 1..n \/ i = n + 1
    BY <1>1
  <2> QED
    BY <1>1, <2>1
<1>3. \A i \in 1..Len(more) : more[i].number = i /\ more[i].intact
  BY <1>1, <1>2
<1> QED
  BY <1>3 DEF more

LEMMA LogCall ==
  ASSUME LogInv, calls < CallBound, NEW new \in Record, new.number = last + 1, new.intact,
         Called(new)
  PROVE  LogInv'
<1>1. /\ calls \in Nat /\ CallBound \in Nat /\ last \in Nat /\ last <= calls
      /\ records \in Seq(Record) /\ Len(records) \in Nat /\ Len(records) <= last
  BY LogTypes
<1>2. calls' = calls + 1 /\ last' = last + 1 /\ records' = Append(records, new)
      /\ UNCHANGED <<seen, readable, damaged, cut, verdict>>
  BY DEF Called
<1>3. LogOK'
  <2>1. calls + 1 \in 0..CallBound /\ last + 1 \in 0..(calls + 1)
    BY <1>1, Between
  <2>2. Append(records, new) \in Seq(Record) /\ Len(Append(records, new)) = Len(records) + 1
    BY <1>1, Appended
  <2>3. Len(records') <= last'
    BY <1>1, <1>2, <2>2
  <2>4. recordedExit' \in Exits
    BY DEF Called
  <2> QED
    BY <1>2, <2>1, <2>2, <2>3, <2>4 DEF LogInv, LogOK, Exits
<1>4. ~damaged' => /\ Len(records') = last'
                   /\ \A i \in 1..Len(records') : records'[i].number = i /\ records'[i].intact
  <2> SUFFICES ASSUME ~damaged
               PROVE  /\ Len(records') = last'
                      /\ \A i \in 1..Len(records') :
                           records'[i].number = i /\ records'[i].intact
    BY <1>2
  <2>1. Len(records) = last
        /\ \A i \in 1..Len(records) : records[i].number = i /\ records[i].intact
    BY DEF LogInv
  <2>2. new.number = Len(records) + 1
    BY <2>1
  <2>3. Len(Append(records, new)) = last + 1
    BY <1>1, <2>1, Appended
  <2> QED
    BY <1>1, <1>2, <2>1, <2>2, <2>3, NumbersKept
<1>5. ~cut' /\ Chained(records') => Faithful(records', recordedExit')
  <2> SUFFICES ASSUME ~cut, Chained(Append(records, new))
               PROVE  Faithful(Append(records, new), recordedExit')
    BY <1>2
  <2>1. Chained(records) => Faithful(records, recordedExit)
    BY DEF LogInv
  <2>2. \A command \in Commands :
          recordedExit'[command] = IF Runs(new, command) THEN new.code ELSE recordedExit[command]
    BY DEF Called
  <2> QED
    BY <1>1, <2>1, <2>2, AppendFaithful
<1>6. seen' = <<>> /\ verdict'.result = None
  BY DEF LogInv, Called, Unread
<1>7. Faithful(seen', recordedExit')
  BY <1>6, NothingFaithful
<1> QED
  BY <1>3, <1>4, <1>5, <1>6, <1>7 DEF LogInv, Certified, None

\* Nothing is made of a call that left no record.
LEMMA LogLost ==
  ASSUME LogInv, calls < CallBound, Lost
  PROVE  LogInv'
<1>1. calls \in Nat /\ CallBound \in Nat /\ last \in Nat /\ last <= calls
  BY LogTypes
<1>2. calls' \in 0..CallBound /\ last' \in 0..calls'
  <2>1. calls' = calls + 1 /\ last' = last
    BY DEF Lost
  <2>2. calls + 1 \in 0..CallBound /\ last \in 0..(calls + 1)
    BY <1>1, Between
  <2> QED
    BY <2>1, <2>2
<1> QED
  BY <1>2 DEF LogInv, LogOK, Lost, Unread

LEMMA IntactChained ==
  ASSUME NEW recs \in Seq(Record),
         \A j \in 1..Len(recs) : recs[j].number = j /\ recs[j].intact
  PROVE  Chained(recs)
<1>1. \A j \in 1..Len(recs) : j > 1 => j - 1 \in 1..Len(recs)
  OBVIOUS
<1> QED
  BY <1>1 DEF Chained

LEMMA LogDamage == LogInv /\ DamageLog => LogInv'
<1> SUFFICES ASSUME LogInv, DamageLog PROVE LogInv'
  OBVIOUS
<1>1. PICK i \in 1..Len(records) :
       \/ /\ records' = [records EXCEPT ![i].code = 0, ![i].intact = FALSE]
          /\ UNCHANGED <<readable, cut>>
       \/ /\ records' = Without(records, i)
          /\ cut' = (i = Len(records))
          /\ UNCHANGED readable
       \/ readable' = FALSE /\ UNCHANGED <<records, cut>>
  BY DEF DamageLog, Without
<1>2. ~damaged /\ damaged' /\ ~cut /\ UNCHANGED <<calls, last, recordedExit, phase, seen, verdict>>
  BY DEF DamageLog, observedVars, resultVars, LogInv, LogOK
<1>3. /\ records \in Seq(Record) /\ Len(records) \in Nat /\ Len(records) = last
      /\ \A j \in 1..Len(records) : records[j].number = j /\ records[j].intact
  BY <1>2 DEF LogInv, LogOK
<1>4. Chained(records)
  BY <1>3, IntactChained
<1>5. Faithful(records, recordedExit)
  BY <1>2, <1>4 DEF LogInv
<1>6. /\ records' \in Seq(Record) /\ Len(records') <= last
      /\ ~cut' /\ Chained(records') => Faithful(records', recordedExit)
  <2>1. CASE records' = [records EXCEPT ![i].code = 0, ![i].intact = FALSE]
    <3>1. records[i] \in Record
      BY <1>3
    <3>2. records' = [records EXCEPT ![i] = [records[i] EXCEPT !.code = 0, !.intact = FALSE]]
      BY <1>3, <2>1
    <3>3. [records[i] EXCEPT !.code = 0, !.intact = FALSE] \in Record
      BY <3>1 DEF Record
    <3>4. records' \in Seq(Record) /\ Len(records') = Len(records)
      BY <1>3, <3>2, <3>3
    <3>5. ~records'[i].intact
      <4>1. records[i] = [number |-> records[i].number, intact |-> records[i].intact,
                          tool |-> records[i].tool, asset |-> records[i].asset,
                          execution |-> records[i].execution, code |-> records[i].code]
        BY <3>1 DEF Record
      <4>2. ~[records[i] EXCEPT !.code = 0, !.intact = FALSE].intact
        BY <4>1
      <4>3. records'[i] = [records[i] EXCEPT !.code = 0, !.intact = FALSE]
        BY <1>3, <3>2
      <4> QED
        BY <4>2, <4>3
    <3>6. ~Chained(records')
      BY <3>4, <3>5 DEF Chained
    <3> QED
      BY <1>3, <3>4, <3>6
  <2>2. CASE records' = Without(records, i) /\ cut' = (i = Len(records))
    <3>1. Len(records) - 1 \in Nat
      BY <1>3
    <3>2. \A j \in 1..(Len(records) - 1) : records[IF j < i THEN j ELSE j + 1] \in Record
      <4>1. \A j \in 1..(Len(records) - 1) : (IF j < i THEN j ELSE j + 1) \in 1..Len(records)
        BY <1>3
      <4> QED
        BY <1>3, <4>1
    <3>3. Without(records, i) \in Seq(Record) /\ Len(Without(records, i)) = Len(records) - 1
      BY <3>1, <3>2 DEF Without
    <3>4. i # Len(records) /\ Chained(Without(records, i)) => Faithful(Without(records, i), recordedExit)
      BY <1>3, <1>5, RemovalFaithful
    <3>5. records' \in Seq(Record) /\ Len(records') <= last
      BY <1>3, <2>2, <3>3
    <3>6. ~cut' => i # Len(records)
      BY <2>2
    <3> QED
      BY <2>2, <3>4, <3>5, <3>6
  <2>3. CASE UNCHANGED <<records, cut>>
    BY <1>3, <1>5, <2>3
  <2> QED
    BY <1>1, <2>1, <2>2, <2>3
<1> QED
  BY <1>2, <1>6 DEF LogInv, LogOK

LEMMA LogNext == LogInv /\ [Next]_vars => LogInv'
<1> SUFFICES ASSUME LogInv, [Next]_vars PROVE LogInv'
  OBVIOUS
<1> USE DEF workspaceVars, observedVars, resultVars
<1>0. calls \in Nat /\ CallBound \in Nat /\ recordedExit \in Exits
  BY LogTypes
<1>a. ASSUME NEW tool \in {"write_file", "run_command"},
             NEW asset \in Files \cup Commands \cup OtherCommands \cup {"git commit"},
             NEW execution \in Executions, NEW code \in {0, 1},
             Recorded(tool, asset, execution, code),
             phase = "running", calls < CallBound, UNCHANGED <<phase, seen, verdict>>,
             recordedExit' \in Exits,
             \A command \in Commands :
               recordedExit'[command] =
                 IF records' # records /\ Runs(NewRecord(tool, asset, execution, code), command)
                   THEN code ELSE recordedExit[command]
      PROVE  LogInv'
  <2> DEFINE new == NewRecord(tool, asset, execution, code)
  <2>1. new \in Record
    BY <1>a, NewRecordType
  <2>2. new.number = last + 1 /\ new.intact /\ new.code = code
    BY DEF NewRecord
  <2>3. /\ calls' = calls + 1 /\ UNCHANGED <<damaged, cut>>
        /\ \/ last' = last + 1 /\ UNCHANGED readable /\ records' = Append(records, new)
           \/ UNCHANGED <<last, records>>
    BY <1>a, Recording
  <2>4. \A command \in Commands :
          recordedExit'[command] = IF records' # records /\ Runs(new, command)
                                     THEN code ELSE recordedExit[command]
    BY <1>a
  <2> HIDE DEF new
  <2>5. ASSUME records' = Append(records, new), last' = last + 1, UNCHANGED readable
        PROVE  LogInv'
    <3>1. records \in Seq(Record)
      BY LogTypes
    <3>2. records' # records
      BY <2>1, <2>5, <3>1, AppendedDiffers
    <3>3. Called(new)
      BY <1>a, <2>2, <2>3, <2>4, <2>5, <3>2 DEF Called
    <3> QED
      BY <1>a, <2>1, <2>2, <3>3, LogCall
  <2>6. ASSUME UNCHANGED <<last, records>> PROVE LogInv'
    <3>1. recordedExit' = recordedExit
      <4>1. \A command \in Commands : recordedExit'[command] = recordedExit[command]
        BY <2>4, <2>6
      <4>2. recordedExit \in [Commands -> {NoExit, 0, 1}]
            /\ recordedExit' \in [Commands -> {NoExit, 0, 1}]
        BY <1>0, <1>a DEF Exits
      <4>3. /\ recordedExit = [command \in Commands |-> recordedExit[command]]
            /\ recordedExit' = [command \in Commands |-> recordedExit'[command]]
        BY <4>2
      <4> QED
        BY <4>1, <4>3
    <3>2. Lost
      BY <1>a, <2>3, <2>6, <3>1 DEF Lost
    <3> QED
      BY <1>a, <3>2, LogLost
  <2> QED
    BY <2>3, <2>5, <2>6
<1>1. CASE WriteFile \/ RunCommand \/ GitCommit
  <2>1. /\ phase = "running" /\ calls < CallBound
        /\ UNCHANGED <<phase, seen, verdict, recordedExit>>
    BY <1>1 DEF WriteFile, RunCommand, GitCommit, Calling
  <2>2. PICK tool \in {"write_file", "run_command"},
             asset \in Files \cup OtherCommands \cup {"git commit"} :
          /\ Recorded(tool, asset, "ok", 0)
          /\ tool = "write_file" \/ asset \in OtherCommands \cup {"git commit"}
    BY <1>1 DEF WriteFile, RunCommand, GitCommit
  <2>3. OtherCommands \cap Commands = {} /\ "git commit" \notin Commands
    BY CertificationAssumption
  <2>4. \A command \in Commands : ~Runs(NewRecord(tool, asset, "ok", 0), command)
    BY <2>2, <2>3 DEF Runs, NewRecord
  <2>5. asset \in Files \cup Commands \cup OtherCommands \cup {"git commit"} /\ "ok" \in Executions
    BY DEF Executions
  <2>6. \A command \in Commands :
          recordedExit'[command] =
            IF records' # records /\ Runs(NewRecord(tool, asset, "ok", 0), command)
              THEN 0 ELSE recordedExit[command]
    BY <2>1, <2>4
  <2> QED
    BY <1>0, <1>a, <2>1, <2>2, <2>5, <2>6
<1>2. CASE RunCheck
  <2>1. phase = "running" /\ calls < CallBound /\ UNCHANGED <<phase, seen, verdict>>
    BY <1>2 DEF RunCheck, Calling
  <2>2. PICK command \in Commands, execution \in Executions :
          LET code == IF execution = "ok" THEN ExitCode(command) ELSE 0 IN
          /\ Recorded("run_command", command, execution, code)
          /\ recordedExit' = IF execution = "ok" /\ records' # records
                              THEN [recordedExit EXCEPT ![command] = code] ELSE recordedExit
    BY <1>2 DEF RunCheck
  <2> DEFINE code == IF execution = "ok" THEN ExitCode(command) ELSE 0
             new == NewRecord("run_command", command, execution, code)
  <2>3. code \in {0, 1}
    BY DEF ExitCode
  <2>4. /\ Recorded("run_command", command, execution, code)
        /\ recordedExit' = IF execution = "ok" /\ records' # records
                            THEN [recordedExit EXCEPT ![command] = code] ELSE recordedExit
    BY <2>2
  <2> HIDE DEF code
  <2>5. \A c : Runs(new, c) <=> command = c /\ execution = "ok"
    BY DEF NewRecord, Runs
  <2>6. recordedExit' \in Exits
    BY <1>0, <2>3, <2>4 DEF Exits
  <2>7. \A c \in Commands :
          recordedExit'[c] = IF records' # records /\ Runs(new, c) THEN code ELSE recordedExit[c]
    BY <1>0, <2>4, <2>5 DEF Exits
  <2>8. command \in Files \cup Commands \cup OtherCommands \cup {"git commit"}
    OBVIOUS
  <2> QED
    BY <1>a, <2>1, <2>3, <2>4, <2>6, <2>7, <2>8
<1>4. CASE EndRun
  BY <1>4, LogQuiet DEF EndRun, Unread
<1>5. CASE ObserveHead
  BY <1>5, LogQuiet DEF ObserveHead, Unread
<1>6. CASE ObserveFiles
  BY <1>6, LogQuiet DEF ObserveFiles, Unread
<1>7. CASE LoadRunEvidence
  <2>1. UNCHANGED <<logVars, verdict>> /\ phase = "load" /\ phase' = "verify"
        /\ seen' = IF readable THEN records ELSE <<>>
    BY <1>7 DEF LoadRunEvidence
  <2>2. seen = <<>> /\ verdict.result = None
    BY <2>1 DEF LogInv, Unread
  <2>3. seen' \in Seq(Record) /\ (~cut /\ Chained(seen') => Faithful(seen', recordedExit))
    BY <2>1, <2>2 DEF LogInv, LogOK
  <2> QED
    BY <2>1, <2>2, <2>3 DEF LogInv, LogOK, logVars, Unread
<1>8. CASE VerifyRun
  <2>1. PICK git : verdict' = Verify(VerifierInput(seen, git, endSHA, changed, Planned,
                                                   AcceptanceResults(seen), Commands))
    BY <1>8 DEF VerifyRun
  <2>2. UNCHANGED <<logVars, seen>> /\ phase' = "seal"
    BY <1>8 DEF VerifyRun
  <2>3. verdict'.result = Result(VerifierInput(seen, git, endSHA, changed, Planned,
                                               AcceptanceResults(seen), Commands))
    BY <2>1 DEF Verify
  <2>4. ~cut /\ verdict'.result \in Certified => \A command \in Commands : recordedExit[command] = 0
    <3> SUFFICES ASSUME ~cut, verdict'.result \in Certified
                 PROVE  \A command \in Commands : recordedExit[command] = 0
      OBVIOUS
    <3>1. seen \in Seq(Record) /\ (Chained(seen) => Faithful(seen, recordedExit))
      BY DEF LogInv, LogOK
    <3> QED
      BY <2>3, <3>1, CertifiedPassed
  <2> QED
    BY <2>2, <2>4 DEF LogInv, LogOK, logVars, Unread
<1>9. CASE Seal \/ Save \/ SaveFails \/ Report \/ Kill
  BY <1>9, LogQuiet DEF Seal, Save, SaveFails, Report, Kill, Unread
<1>10. ASSUME NEW withPlan \in BOOLEAN, VerifyReceipt(withPlan)
       PROVE  LogInv'
  BY <1>10, LogQuiet DEF VerifyReceipt
<1>11. CASE OthersWrite \/ OthersCommit \/ EditReceipt
  BY <1>11, LogQuiet DEF OthersWrite, OthersCommit, EditReceipt
<1>12. CASE DamageLog
  BY <1>12, LogDamage
<1>13. CASE UNCHANGED vars
  BY <1>13, LogQuiet DEF vars
<1> QED
  BY <1>1, <1>2, <1>4, <1>5, <1>6, <1>7, <1>8, <1>9, <1>10, <1>11, <1>12, <1>13 DEF Next

LEMMA LogInvariant == Spec => []LogInv
  BY LogInit, LogNext, PTL DEF Spec

\* `run` exits with 0 only after every acceptance check of the plan really
\* passed the last time it was executed and recorded, whatever the sink lost and
\* whatever was edited in the log or removed from anywhere but its end
\* (run_cmd.go, evidence.go VerifyChain, governor.go emit).
THEOREM PassedChecks == Spec => []PassedChecksOnly
<1>1. CertificationInv /\ LogInv => PassedChecksOnly
  BY DEF CertificationInv, LogInv, PassedChecksOnly, Phases, Before, Succeeds, NoExit
<1> QED
  BY <1>1, Invariant, LogInvariant, PTL

-----------------------------------------------------------------------------
(***************************************************************************)
(* The workspace and the outcome are what they are declared to be.         *)
(***************************************************************************)
\* A write changes one file, to something one can write into it.
LEMMA Written ==
  ASSUME DOMAIN work = Files, \A f \in Files : work[f] \in Contents(f),
         NEW f \in Files, NEW c \in Contents(f), work' = [work EXCEPT ![f] = c]
  PROVE  DOMAIN work' = Files /\ \A g \in Files : work'[g] \in Contents(g)
  OBVIOUS

\* A commit moves on from every commit seen so far.
LEMMA Later ==
  ASSUME sha \in Nat, NEW id, id = NoName \/ \E n \in 0..sha : id = Commit(n)
  PROVE  sha + 1 \in Nat /\ (id = NoName \/ \E n \in 0..(sha + 1) : id = Commit(n))
<1>1. \A n \in 0..sha : n \in 0..(sha + 1)
  OBVIOUS
<1> QED
  BY <1>1

LEMMA WorkspaceInit == Init => WorkspaceOK
  BY DEF Init, WorkspaceOK, Contents

LEMMA WorkspaceNext == WorkspaceOK /\ [Next]_vars => WorkspaceOK'
<1> SUFFICES ASSUME WorkspaceOK, [Next]_vars PROVE WorkspaceOK'
  OBVIOUS
<1> USE DEF workspaceVars, observedVars
<1>1. ASSUME UNCHANGED <<base, work, sha, endSHA, changed>> PROVE WorkspaceOK'
  BY <1>1 DEF WorkspaceOK, Contents, Commit
<1>2. ASSUME UNCHANGED <<base, sha, endSHA, changed>>, NEW f \in Files, NEW c \in Contents(f),
             work' = [work EXCEPT ![f] = c]
      PROVE  WorkspaceOK'
  <2>1. DOMAIN work' = Files /\ \A g \in Files : work'[g] \in Contents(g)
    BY <1>2, Written DEF WorkspaceOK
  <2> QED
    BY <1>2, <2>1 DEF WorkspaceOK, Contents, Commit
<1>3. ASSUME UNCHANGED <<work, endSHA, changed>>, base' \in {Committed, base}, sha' = sha + 1
      PROVE  WorkspaceOK'
  <2>1. sha' \in Nat /\ (endSHA = NoName \/ \E n \in 0..sha' : endSHA = Commit(n))
    BY <1>3, Later DEF WorkspaceOK
  <2>2. DOMAIN base' = Files /\ \A f \in Files : base'[f] \in Contents(f)
    BY <1>3 DEF WorkspaceOK, Committed
  <2> QED
    BY <1>3, <2>1, <2>2 DEF WorkspaceOK, Contents, Commit
<1>4. CASE WriteFile \/ OthersWrite
  BY <1>2, <1>4 DEF WriteFile, OthersWrite
<1>5. CASE GitCommit \/ OthersCommit
  BY <1>3, <1>5 DEF GitCommit, OthersCommit
<1>6. CASE ObserveHead
  <2>1. endSHA' \in {Commit(sha), endSHA} /\ UNCHANGED <<base, work, sha, changed>>
    BY <1>6 DEF ObserveHead
  <2>2. sha \in Nat /\ sha \in 0..sha
    BY DEF WorkspaceOK
  <2>3. endSHA' = NoName \/ \E n \in 0..sha : endSHA' = Commit(n)
    BY <2>1, <2>2 DEF WorkspaceOK
  <2> QED
    BY <2>1, <2>3 DEF WorkspaceOK, Contents, Commit
<1>7. CASE ObserveFiles
  <2>1. changed' \subseteq Entries /\ UNCHANGED <<base, work, sha, endSHA>>
    BY <1>7 DEF ObserveFiles, Changed, Reportable, Entry, Entries, WorkspaceOK
  <2> QED
    BY <2>1 DEF WorkspaceOK, Contents, Commit
<1>8. CASE RunCheck \/ EndRun \/ LoadRunEvidence \/ VerifyRun \/ DamageLog
  BY <1>1, <1>8 DEF RunCheck, EndRun, LoadRunEvidence, VerifyRun, DamageLog
<1>9. CASE Seal \/ Save \/ SaveFails \/ Report \/ Kill \/ EditReceipt
  BY <1>1, <1>9 DEF Seal, Save, SaveFails, Report, Kill, EditReceipt
<1>10. ASSUME NEW withPlan \in BOOLEAN, VerifyReceipt(withPlan)
       PROVE  WorkspaceOK'
  BY <1>1, <1>10 DEF VerifyReceipt
<1>11. CASE RunCommand
  <2>1. DOMAIN work' = Files /\ \A f \in Files : work'[f] \in Contents(f)
    BY <1>11 DEF RunCommand
  <2>2. UNCHANGED <<base, sha, endSHA, changed>>
    BY <1>11 DEF RunCommand
  <2> QED
    BY <2>1, <2>2 DEF WorkspaceOK, Contents, Commit
<1>12. CASE UNCHANGED vars
  BY <1>1, <1>12 DEF vars
<1> QED
  BY <1>4, <1>5, <1>6, <1>7, <1>8, <1>9, <1>10, <1>11, <1>12 DEF Next

LEMMA WorkspaceInvariant == Spec => []WorkspaceOK
  BY WorkspaceInit, WorkspaceNext, PTL DEF Spec

\* Every input has a verdict.
LEMMA ResultType ==
  ASSUME NEW in
  PROVE  Result(in) \in Results
  BY DEF Result, Results

\* From the verdict on there is one, and so there is a final status.
OutcomeInv ==
  /\ OutcomeOK
  /\ phase \in {"seal", "save", "report", "ended"} => verdict.result \in Results
  /\ phase \in {"save", "report", "ended"} => receipt.final # None

LEMMA OutcomeInit == Init => OutcomeInv
  BY DEF Init, OutcomeInv, OutcomeOK, Phases, NoVerdict, NoReceipt, None, NoExit

LEMMA OutcomeNext == OutcomeInv /\ [Next]_vars => OutcomeInv'
<1> SUFFICES ASSUME OutcomeInv, [Next]_vars PROVE OutcomeInv'
  OBVIOUS
<1> USE DEF resultVars
<1>1. ASSUME UNCHANGED <<phase, status, verdict, receipt, saved, exit, later>> PROVE OutcomeInv'
  BY <1>1 DEF OutcomeInv, OutcomeOK
<1>2. CASE \/ WriteFile \/ RunCheck \/ RunCommand \/ GitCommit
           \/ OthersWrite \/ OthersCommit \/ DamageLog
  BY <1>1, <1>2 DEF WriteFile, RunCheck, RunCommand, GitCommit, OthersWrite, OthersCommit,
     DamageLog
<1>3. CASE EndRun
  BY <1>3 DEF EndRun, OutcomeInv, OutcomeOK, Phases, None
<1>4. CASE ObserveHead
  BY <1>4 DEF ObserveHead, OutcomeInv, OutcomeOK, Phases
<1>5. CASE ObserveFiles
  BY <1>5 DEF ObserveFiles, OutcomeInv, OutcomeOK, Phases
<1>6. CASE LoadRunEvidence
  BY <1>6 DEF LoadRunEvidence, OutcomeInv, OutcomeOK, Phases
<1>7. CASE VerifyRun
  <2>1. PICK in : verdict' = Verify(in)
    BY <1>7 DEF VerifyRun
  <2>2. verdict'.result \in Results
    BY <2>1, ResultType DEF Verify
  <2> QED
    BY <1>7, <2>2 DEF VerifyRun, OutcomeInv, OutcomeOK, Phases
<1>8. CASE Seal
  BY <1>8 DEF Seal, FinalStatus, OutcomeInv, OutcomeOK, Phases, Results, None
<1>9. CASE Save
  BY <1>9 DEF Save, OutcomeInv, OutcomeOK, Phases
<1>10. CASE SaveFails
  BY <1>10 DEF SaveFails, OutcomeInv, OutcomeOK, Phases
<1>11. CASE Report
  BY <1>11 DEF Report, OutcomeInv, OutcomeOK, Phases
<1>12. CASE Kill
  BY <1>12 DEF Kill, OutcomeInv, OutcomeOK, Phases
<1>13. ASSUME NEW withPlan \in BOOLEAN, VerifyReceipt(withPlan)
       PROVE  OutcomeInv'
  <2>1. later'.result \in Results \cup {None, "refused"}
    BY <1>13, ResultType DEF VerifyReceipt
  <2> QED
    BY <1>13, <2>1 DEF VerifyReceipt, OutcomeInv, OutcomeOK
<1>14. CASE EditReceipt
  BY <1>14 DEF EditReceipt, OutcomeInv, OutcomeOK
<1>15. CASE UNCHANGED vars
  BY <1>1, <1>15 DEF vars
<1> QED
  BY <1>2, <1>3, <1>4, <1>5, <1>6, <1>7, <1>8, <1>9, <1>10, <1>11, <1>12, <1>13, <1>14, <1>15
     DEF Next

\* The run, its log and its receipt are what they are declared to be.
THEOREM TypesHold == Spec => []TypeOK
<1>1. WorkspaceOK /\ LogInv /\ OutcomeInv => TypeOK
  BY DEF TypeOK, LogInv, OutcomeInv
<1> QED
  BY <1>1, WorkspaceInvariant, OutcomeInit, OutcomeNext, LogInvariant, PTL DEF Spec

-----------------------------------------------------------------------------
(***************************************************************************)
(* What was observed, and what a second look makes of it.                  *)
(***************************************************************************)
\* There is a name for every commit there can be.
HeadInv ==
  /\ sha \in Nat /\ others \in 0..DisturbanceBound
  /\ sha <= calls + others

LEMMA HeadInit == Init => HeadInv
<1>1. DisturbanceBound \in Nat
  BY CertificationAssumption
<1> QED
  BY <1>1 DEF Init, HeadInv

LEMMA HeadNext == LogInv /\ HeadInv /\ [Next]_vars => HeadInv'
<1> SUFFICES ASSUME LogInv, HeadInv, [Next]_vars PROVE HeadInv'
  OBVIOUS
<1> USE DEF workspaceVars, logVars
<1>0. calls \in Nat /\ sha \in Nat /\ others \in Nat /\ DisturbanceBound \in Nat
  <2>1. DisturbanceBound \in Nat
    BY CertificationAssumption
  <2> QED
    BY <2>1, LogTypes DEF HeadInv
<1>1. ASSUME sha' \in {sha, sha + 1}, calls' = calls + 1, UNCHANGED others PROVE HeadInv'
  BY <1>0, <1>1 DEF HeadInv
<1>2. ASSUME sha' \in {sha, sha + 1}, others' = others + 1, Calm, UNCHANGED calls
      PROVE  HeadInv'
  <2>1. last \in Nat /\ last <= calls
    BY <1>0 DEF LogInv, LogOK
  <2>2. others < DisturbanceBound
    <3> DEFINE g == IF blind THEN 1 ELSE 0
               d == IF damaged THEN 1 ELSE 0
    <3>1. g \in Nat /\ d \in Nat /\ others + (calls - last) + g + d < DisturbanceBound
      BY <1>2 DEF Calm
    <3> HIDE DEF g, d
    <3> QED
      BY <1>0, <2>1, <3>1
  <2> QED
    BY <1>0, <1>2, <2>2 DEF HeadInv
<1>3. ASSUME UNCHANGED <<sha, others, calls>> PROVE HeadInv'
  BY <1>3 DEF HeadInv
<1>4. CASE WriteFile \/ RunCheck \/ RunCommand \/ GitCommit
  BY <1>1, <1>4 DEF WriteFile, RunCheck, RunCommand, GitCommit, Recorded
<1>5. CASE OthersWrite \/ OthersCommit
  BY <1>2, <1>5 DEF OthersWrite, OthersCommit
<1>6. CASE EndRun \/ ObserveHead \/ ObserveFiles \/ LoadRunEvidence \/ VerifyRun
  BY <1>3, <1>6 DEF EndRun, ObserveHead, ObserveFiles, LoadRunEvidence, VerifyRun
<1>7. CASE Seal \/ Save \/ SaveFails \/ Report \/ Kill
  BY <1>3, <1>7 DEF Seal, Save, SaveFails, Report, Kill
<1>8. ASSUME NEW withPlan \in BOOLEAN, VerifyReceipt(withPlan) PROVE HeadInv'
  BY <1>3, <1>8 DEF VerifyReceipt
<1>9. CASE DamageLog \/ EditReceipt \/ UNCHANGED vars
  BY <1>3, <1>9 DEF DamageLog, EditReceipt, vars
<1> QED
  BY <1>4, <1>5, <1>6, <1>7, <1>8, <1>9 DEF Next

LEMMA HeadInvariant == Spec => []HeadInv
  BY HeadInit, HeadNext, LogInvariant, PTL DEF Spec

LEMMA HeadHasName ==
  ASSUME LogInv, HeadInv
  PROVE  Commit(sha) \notin {"skipped", "error", NoName}
<1>1. calls \in 0..CallBound /\ CallBound \in Nat /\ DisturbanceBound \in Nat
  BY CertificationAssumption DEF LogInv, LogOK
<1>2. sha \in 0..(CallBound + DisturbanceBound)
  BY <1>1 DEF HeadInv
<1> QED
  BY <1>2, CertificationAssumption DEF Commit

\* What certification needs of the changes and of HEAD.
LEMMA CertifiedMeans ==
  ASSUME NEW in, Result(in) \in Certified
  PROVE  /\ in.chain
         /\ in.changed \subseteq in.planned
         /\ in.changed \cap Forbidden = {}
         /\ in.git = "skipped" \/ in.endSHA = NoName \/ in.git = in.endSHA
  BY DEF Result, Certified, Tampered, Failing, Inconclusive, GitUnavailable, EndMoved,
     GitObserved, ChangesUnknown, Unplanned, Touched

\* `verify` certifies only the receipt, the log and the HEAD that the run has
\* left behind, and no receipt that names a forbidden file (verify_cmd.go
\* cmdVerify, receipt.go Load).
THEOREM CertifiesTheRecord == Spec => CertifiesOnlyTheRecord
<1>1. ASSUME LogInv, HeadInv, [Next]_vars, later' # later, later'.result \in Certified
      PROVE  /\ saved = "whole"
             /\ readable /\ Chained(records)
             /\ receipt.changed \cap Forbidden = {}
             /\ receipt.endSHA \in {NoName, Commit(sha)}
  <2>1. PICK withPlan \in BOOLEAN : VerifyReceipt(withPlan)
    BY <1>1 DEF Next, vars, resultVars, WriteFile, RunCheck, RunCommand, GitCommit, EndRun, ObserveHead,
       ObserveFiles, LoadRunEvidence, VerifyRun, Seal, Save, SaveFails, Report, Kill,
       OthersWrite, OthersCommit, DamageLog, EditReceipt
  <2>2. LoadableReceipt /\ readable
    BY <1>1, <2>1 DEF VerifyReceipt, Certified
  <2>3. PICK git \in HeadNow(receipt.endSHA) :
          later'.result = Result(VerifierInput(records, git, receipt.endSHA, receipt.changed,
                                 IF withPlan THEN Planned ELSE receipt.changed,
                                 AcceptanceFromReceipt(receipt.tests),
                                 IF withPlan THEN Commands ELSE {}))
    BY <2>1, <2>2 DEF VerifyReceipt
  <2> DEFINE in == VerifierInput(records, git, receipt.endSHA, receipt.changed,
                                 IF withPlan THEN Planned ELSE receipt.changed,
                                 AcceptanceFromReceipt(receipt.tests),
                                 IF withPlan THEN Commands ELSE {})
  <2>4. /\ in.chain = Chained(records) /\ in.changed = receipt.changed
        /\ in.git = git /\ in.endSHA = receipt.endSHA
    BY DEF VerifierInput
  <2>5. Result(in) \in Certified
    BY <1>1, <2>3
  <2> HIDE DEF in
  <2>6. Chained(records) /\ receipt.changed \cap Forbidden = {}
        /\ (git = "skipped" \/ receipt.endSHA = NoName \/ git = receipt.endSHA)
    BY <2>4, <2>5, CertifiedMeans
  <2>7. git = "error" => Result(in) \notin Certified
    BY <2>4 DEF Result, Certified, Inconclusive, GitUnavailable
  <2>8. receipt.endSHA \in {NoName, Commit(sha)}
    BY <1>1, <2>3, <2>5, <2>6, <2>7, HeadHasName DEF HeadNow, NoName
  <2> QED
    BY <2>2, <2>6, <2>8 DEF LoadableReceipt
<1> QED
  BY <1>1, LogInvariant, HeadInvariant, PTL DEF Spec, CertifiesOnlyTheRecord

-----------------------------------------------------------------------------
\* As long as nobody else touches the workspace and git answers, HEAD is what
\* was observed, every change git reports is among those observed, under one
\* name or another, and the verdict is about them; a certified one has found
\* planned changes only.
Observed == {"load", "verify", "seal", "save", "report", "ended"}
Judged == {"seal", "save", "report", "ended"}

GitIs == IF endSHA = NoName THEN "skipped" ELSE Commit(sha)
RunResult == Result(VerifierInput(seen, GitIs, endSHA, changed, Planned,
                                  AcceptanceResults(seen), Commands))

Undisturbed == others = 0 /\ ~blind

Names(f) == {Printed[f], Folder[f]}
Named == \A f \in Reportable : Names(f) \cap changed # {}

ObservedInv ==
  /\ phase \in Phases
  /\ phase \in {"observe_files"} \cup Observed /\ Undisturbed => endSHA = Commit(sha)
  /\ phase \in Observed /\ Undisturbed => Named
  /\ phase \in Judged \cup {"verify"} /\ readable /\ ~damaged => seen = records
  /\ phase \in Judged /\ Undisturbed => verdict.result = RunResult
  /\ phase \in Judged => (verdict.result \in Certified =>
                            changed \subseteq Planned /\ changed \cap Forbidden = {})
  /\ phase \in {"save", "report", "ended"} =>
       /\ receipt.endSHA = endSHA /\ receipt.changed = {Redact[name] : name \in changed}
       /\ receipt.tests = RedactedResults(AcceptanceResults(seen))
  /\ phase # "ended" => ~later.withPlan
  /\ later.withPlan /\ saved = "whole" /\ readable /\ Undisturbed /\ ~damaged =>
       later.result = RunResult \/ (RedactionHit /\ later.result \notin Certified)

LEMMA ObservedInit == Init => ObservedInv
<1> SUFFICES ASSUME Init PROVE ObservedInv
  OBVIOUS
<1>1. phase = "running" /\ ~later.withPlan
  BY DEF Init
<1> QED
  BY <1>1 DEF ObservedInv, Phases, Observed, Judged

\* What the run has observed stays as it is in the steps that only move on.
LEMMA ObservedKept ==
  ASSUME UNCHANGED <<base, work, sha, others, blind, seen, endSHA, changed, records, readable,
                     damaged>>
  PROVE  /\ Undisturbed' = Undisturbed /\ Named' = Named /\ RunResult' = RunResult
         /\ Commit(sha)' = Commit(sha)
         /\ AcceptanceResults(seen)' = AcceptanceResults(seen)
         /\ RedactedResults(AcceptanceResults(seen))' = RedactedResults(AcceptanceResults(seen))
  BY DEF Undisturbed, Named, Names, Reportable, RunResult, GitIs, Commit

\* A look at HEAD that was answered has seen HEAD, or has seen nothing before.
LEMMA Answered ==
  ASSUME NEW end, NEW git \in HeadNow(end), ~Unanswered(git, end)
  PROVE  git = IF end = NoName THEN "skipped" ELSE Commit(sha)
  BY DEF HeadNow, Unanswered

\* A result is an exit code: nothing in the log looks hidden.
LEMMA NothingHidden ==
  ASSUME NEW recs \in Seq(Record), NEW command \in DOMAIN AcceptanceResults(recs)
  PROVE  AcceptanceResults(recs)[command] \in {0, 1}
<1> DEFINE T == Ran(recs, command)
<1>1. /\ command \in Commands /\ T # {}
      /\ AcceptanceResults(recs)[command] = recs[CHOOSE i \in T : \A j \in T : j <= i].code
  BY DEF AcceptanceResults
<1>2. Len(recs) \in Nat /\ T \subseteq 1..Len(recs)
  BY DEF Ran
<1> HIDE DEF T
<1>3. \E i \in T : \A j \in T : j <= i
  BY <1>1, <1>2, Largest
<1>4. (CHOOSE i \in T : \A j \in T : j <= i) \in T
  BY <1>3
<1> DEFINE newest == CHOOSE i \in T : \A j \in T : j <= i
<1>5. newest \in 1..Len(recs)
  BY <1>2, <1>4
<1> HIDE DEF newest
<1>6. recs[newest] \in Record
  BY <1>5
<1>7. recs[newest].code \in {0, 1}
  BY <1>6 DEF Record
<1> QED
  BY <1>1, <1>7 DEF newest

\* The verifier on what the receipt has kept: the same verdict, or redaction
\* has taken away something it cannot certify without.
LEMMA Repeated ==
  ASSUME NEW recs \in Seq(Record), NEW git, NEW end, NEW files \in SUBSET Entries
  PROVE  LET results == AcceptanceResults(recs)
             kept == {Redact[name] : name \in files}
             tests == RedactedResults(results)
             again == Result(VerifierInput(recs, git, end, kept, Planned,
                                           AcceptanceFromReceipt(tests), Commands))
         IN \/ again = Result(VerifierInput(recs, git, end, files, Planned, results, Commands))
            \/ /\ \/ \E name \in files : Redact[name] # name
                  \/ \E command \in SecretChecks : command \in DOMAIN tests
               /\ again \notin Certified
<1> DEFINE results == AcceptanceResults(recs)
           kept == {Redact[name] : name \in files}
           tests == RedactedResults(results)
           parsed == AcceptanceFromReceipt(tests)
           in == VerifierInput(recs, git, end, kept, Planned, parsed, Commands)
<1>1. /\ DOMAIN tests = DOMAIN results
      /\ \A c \in DOMAIN results : tests[c] = IF c \in SecretChecks THEN Hidden ELSE results[c]
  BY DEF RedactedResults
<1>2. /\ in.changed = kept /\ in.planned = Planned
      /\ in.acceptance = parsed /\ in.required = Commands
  BY DEF VerifierInput
<1>3. parsed = [c \in {d \in DOMAIN tests : tests[d] # Hidden} |-> tests[c]]
  BY DEF AcceptanceFromReceipt
<1>4. ASSUME NEW name \in files, Redact[name] # name PROVE Result(in) \notin Certified
  <2>1. Redact[name] \notin Planned /\ Redact[name] \in kept
    BY <1>4, CertificationAssumption
  <2>2. Unplanned(in) \/ ChangesUnknown(in)
    BY <1>2, <2>1 DEF Unplanned
  <2> HIDE DEF in
  <2> QED
    BY <2>2 DEF Result, Certified, Failing, Inconclusive
<1>5. ASSUME NEW command \in SecretChecks, command \in DOMAIN tests
      PROVE  Result(in) \notin Certified
  <2>1. command \in Commands
    BY CertificationAssumption
  <2>2. tests[command] = Hidden
    BY <1>1, <1>5
  <2>3. command \notin DOMAIN parsed
    BY <1>3, <2>2
  <2>4. CheckMissing(in)
    BY <1>2, <2>1, <2>3 DEF CheckMissing
  <2> HIDE DEF in
  <2> QED
    BY <2>4 DEF Result, Certified, Inconclusive
<1>6. ASSUME \A name \in files : Redact[name] = name,
             \A command \in SecretChecks : command \notin DOMAIN tests
      PROVE  kept = files /\ parsed = results
  <2>1. kept = files
    BY <1>6
  <2>2. \A c \in DOMAIN results : tests[c] = results[c]
    BY <1>1, <1>6
  <2>3. \A c \in DOMAIN results : tests[c] # Hidden
    <3> SUFFICES ASSUME NEW c \in DOMAIN results PROVE tests[c] # Hidden
      OBVIOUS
    <3>1. results[c] \in {0, 1}
      BY NothingHidden
    <3> QED
      BY <2>2, <3>1 DEF Hidden
  <2>4. {d \in DOMAIN tests : tests[d] # Hidden} = DOMAIN results
    BY <1>1, <2>3
  <2>5. parsed = [c \in DOMAIN results |-> results[c]]
    BY <1>3, <2>2, <2>4
  <2>6. results = [c \in DOMAIN results |-> results[c]]
    BY DEF AcceptanceResults
  <2> QED
    BY <2>1, <2>5, <2>6
<1> QED
  BY <1>4, <1>5, <1>6

LEMMA ObservedNext ==
  LogInv /\ WorkspaceOK /\ HeadInv /\ ObservedInv /\ [Next]_vars => ObservedInv'
<1> SUFFICES ASSUME LogInv, WorkspaceOK, HeadInv, ObservedInv, [Next]_vars PROVE ObservedInv'
  OBVIOUS
<1> USE DEF workspaceVars, logVars, observedVars, resultVars
<1>1. CASE WriteFile \/ RunCheck \/ RunCommand \/ GitCommit
  <2>1. phase = "running" /\ phase' = "running" /\ UNCHANGED later
    BY <1>1 DEF WriteFile, RunCheck, RunCommand, GitCommit, Calling
  <2> QED
    BY <2>1 DEF ObservedInv, Phases, Observed, Judged
<1>2. CASE EndRun
  <2>1. phase = "running" /\ phase' = "observe_head" /\ UNCHANGED <<readable, damaged, later>>
    BY <1>2 DEF EndRun
  <2> QED
    BY <2>1 DEF ObservedInv, Phases, Observed, Judged
<1>3. CASE ObserveHead
  <2>1. /\ phase = "observe_head" /\ phase' \in {"load", "observe_files"}
        /\ UNCHANGED <<readable, damaged, later>>
    BY <1>3 DEF ObserveHead
  <2>2. Undisturbed' => endSHA' = Commit(sha)' /\ phase' = "observe_files"
    BY <1>3 DEF ObserveHead, Undisturbed, Commit
  <2> QED
    BY <2>1, <2>2 DEF ObservedInv, Phases, Observed, Judged
<1>4. CASE ObserveFiles
  <2>1. /\ phase = "observe_files" /\ phase' = "load"
        /\ UNCHANGED <<readable, damaged, later, endSHA, sha>>
    BY <1>4 DEF ObserveFiles
  <2>2. Undisturbed' => Undisturbed /\ Named'
    <3> SUFFICES ASSUME Undisturbed' PROVE Undisturbed /\ Named'
      OBVIOUS
    <3>1. Undisturbed /\ UNCHANGED <<base, work>> /\ ~blind'
      BY <1>4 DEF ObserveFiles, Undisturbed
    <3>2. PICK staged : changed' = Changed(staged)
      BY <1>4, <3>1 DEF ObserveFiles
    <3>3. Reportable' = Reportable
      BY <3>1 DEF Reportable
    <3>4. \A f \in Reportable : Entry(f, staged) \in Names(f) /\ Entry(f, staged) \in changed'
      BY <3>2 DEF Changed, Entry, Names
    <3> QED
      BY <3>1, <3>3, <3>4 DEF Named, Names
  <2>3. Commit(sha)' = Commit(sha)
    BY <2>1 DEF Commit
  <2> QED
    BY <2>1, <2>2, <2>3 DEF ObservedInv, Phases, Observed, Judged
<1>5. CASE LoadRunEvidence
  <2>1. /\ phase = "load" /\ phase' = "verify" /\ seen' = IF readable THEN records ELSE <<>>
        /\ UNCHANGED <<base, work, sha, others, blind, endSHA, changed, records, readable,
                       damaged, later>>
    BY <1>5 DEF LoadRunEvidence
  <2>2. Undisturbed' = Undisturbed /\ Named' = Named /\ Commit(sha)' = Commit(sha)
    BY <2>1 DEF Undisturbed, Named, Names, Reportable, Commit
  <2> QED
    BY <2>1, <2>2 DEF ObservedInv, Phases, Observed, Judged
<1>6. CASE VerifyRun
  <2>1. PICK git \in HeadNow(endSHA) :
          /\ verdict' = Verify(VerifierInput(seen, git, endSHA, changed, Planned,
                                             AcceptanceResults(seen), Commands))
          /\ blind' = (blind \/ Unanswered(git, endSHA))
    BY <1>6 DEF VerifyRun
  <2>2. /\ phase = "verify" /\ phase' = "seal"
        /\ UNCHANGED <<base, work, sha, others, seen, endSHA, changed, records, readable,
                       damaged, later>>
    BY <1>6 DEF VerifyRun
  <2>3. RunResult' = RunResult /\ Named' = Named /\ Commit(sha)' = Commit(sha)
    BY <2>2 DEF RunResult, GitIs, Named, Names, Reportable, Commit
  <2>4. Undisturbed' => Undisturbed /\ git = GitIs
    BY <2>1, <2>2, Answered DEF Undisturbed, GitIs
  <2>5. Undisturbed' => verdict'.result = RunResult
    BY <2>1, <2>4 DEF Verify, RunResult
  <2>6. verdict'.result \in Certified => changed \subseteq Planned /\ changed \cap Forbidden = {}
    <3> DEFINE in == VerifierInput(seen, git, endSHA, changed, Planned,
                                   AcceptanceResults(seen), Commands)
    <3>1. in.changed = changed /\ in.planned = Planned
      BY DEF VerifierInput
    <3>2. verdict'.result = Result(in)
      BY <2>1 DEF Verify
    <3> HIDE DEF in
    <3> QED
      BY <3>1, <3>2, CertifiedMeans
  <2> QED
    BY <2>2, <2>3, <2>4, <2>5, <2>6 DEF ObservedInv, Phases, Observed, Judged
<1>7. CASE Seal
  <2>1. /\ phase = "seal" /\ phase' = "save"
        /\ UNCHANGED <<base, work, sha, others, blind, seen, endSHA, changed, records, readable,
                       damaged, later, verdict>>
        /\ receipt'.endSHA = endSHA /\ receipt'.changed = {Redact[name] : name \in changed}
        /\ receipt'.tests = RedactedResults(AcceptanceResults(seen))
    BY <1>7 DEF Seal
  <2> QED
    BY <2>1, ObservedKept DEF ObservedInv, Phases, Observed, Judged
<1>8. CASE Save \/ SaveFails \/ Report \/ Kill
  <2>1. /\ phase \in {"save", "report"} /\ phase' \in {"report", "ended"}
        /\ UNCHANGED <<base, work, sha, others, blind, seen, endSHA, changed, records, readable,
                       damaged, later, verdict, receipt>>
    BY <1>8 DEF Save, SaveFails, Report, Kill
  <2> QED
    BY <2>1, ObservedKept DEF ObservedInv, Phases, Observed, Judged
<1>9. ASSUME NEW withPlan \in BOOLEAN, VerifyReceipt(withPlan)
      PROVE  ObservedInv'
  <2>1. /\ phase = "ended" /\ later'.withPlan = withPlan
        /\ UNCHANGED <<base, work, sha, others, seen, endSHA, changed, records, readable,
                       damaged, verdict, receipt, saved, phase>>
    BY <1>9 DEF VerifyReceipt
  <2>2. RunResult' = RunResult /\ Named' = Named /\ Commit(sha)' = Commit(sha)
        /\ RedactedResults(AcceptanceResults(seen))' = RedactedResults(AcceptanceResults(seen))
        /\ RedactionHit' = RedactionHit
    BY <2>1 DEF RunResult, GitIs, Named, Names, Reportable, Commit, RedactionHit
  <2>3. Undisturbed' => Undisturbed
    BY <1>9, <2>1 DEF VerifyReceipt, Undisturbed
  <2>4. ASSUME withPlan, saved = "whole", readable, Undisturbed', ~damaged
        PROVE  later'.result = RunResult \/ (RedactionHit /\ later'.result \notin Certified)
    <3>1. seen = records /\ endSHA = Commit(sha)
          /\ receipt.endSHA = endSHA /\ receipt.changed = {Redact[name] : name \in changed}
          /\ receipt.tests = RedactedResults(AcceptanceResults(seen))
      BY <2>1, <2>3, <2>4 DEF ObservedInv, Observed, Judged
    <3>2. PICK git \in HeadNow(endSHA) :
            /\ later'.result = Result(VerifierInput(records, git, endSHA, receipt.changed, Planned,
                                                    AcceptanceFromReceipt(receipt.tests), Commands))
            /\ blind' = (blind \/ Unanswered(git, endSHA))
      <4>1. receipt.endSHA = endSHA
        BY <3>1
      <4> QED
        BY <1>9, <2>4, <4>1 DEF VerifyReceipt, LoadableReceipt
    <3>3. git = GitIs
      BY <2>4, <3>2, Answered DEF Undisturbed, GitIs
    <3>4. seen \in Seq(Record) /\ changed \in SUBSET Entries
      BY DEF LogInv, LogOK, WorkspaceOK
    <3>5. \/ later'.result = RunResult
          \/ /\ \/ \E name \in changed : Redact[name] # name
                \/ \E command \in SecretChecks : command \in DOMAIN receipt.tests
             /\ later'.result \notin Certified
      <4> DEFINE again == Result(VerifierInput(seen, git, endSHA, receipt.changed, Planned,
                                               AcceptanceFromReceipt(receipt.tests), Commands))
      <4>1. later'.result = again
        BY <3>1, <3>2
      <4>2. \/ again = Result(VerifierInput(seen, git, endSHA, changed, Planned,
                                            AcceptanceResults(seen), Commands))
            \/ /\ \/ \E name \in changed : Redact[name] # name
                  \/ \E command \in SecretChecks : command \in DOMAIN receipt.tests
               /\ again \notin Certified
        BY <3>1, <3>4, Repeated
      <4> QED
        BY <3>3, <4>1, <4>2 DEF RunResult
    <3> QED
      BY <3>5 DEF RedactionHit
  <2> QED
    BY <2>1, <2>2, <2>3, <2>4 DEF ObservedInv, Phases, Observed, Judged
<1>10. CASE OthersWrite \/ OthersCommit
  <2>1. ~Undisturbed'
    BY <1>10 DEF OthersWrite, OthersCommit, Undisturbed, HeadInv
  <2>2. UNCHANGED <<seen, endSHA, changed, records, readable, damaged, later, verdict, receipt,
                    saved, phase>>
    BY <1>10 DEF OthersWrite, OthersCommit
  <2> QED
    BY <2>1, <2>2 DEF ObservedInv, Observed, Judged
<1>11. CASE DamageLog
  <2>1. damaged' /\ UNCHANGED <<base, work, sha, others, blind, seen, endSHA, changed, later,
                                verdict, receipt, saved, phase>>
    BY <1>11 DEF DamageLog
  <2>2. Undisturbed' = Undisturbed /\ Named' = Named /\ RunResult' = RunResult
        /\ Commit(sha)' = Commit(sha)
    BY <2>1 DEF Undisturbed, Named, Names, Reportable, RunResult, GitIs, Commit
  <2> QED
    BY <2>1, <2>2 DEF ObservedInv, Observed, Judged
<1>12. CASE EditReceipt
  <2>1. /\ saved' # "whole"
        /\ UNCHANGED <<base, work, sha, others, blind, seen, endSHA, changed, records, readable,
                       damaged, later, verdict, receipt, phase>>
    BY <1>12 DEF EditReceipt
  <2> QED
    BY <2>1, ObservedKept DEF ObservedInv, Observed, Judged, RedactionHit
<1>13. CASE UNCHANGED vars
  <2>1. UNCHANGED <<base, work, sha, others, blind, seen, endSHA, changed, records, readable,
                    damaged, later, verdict, receipt, saved, phase>>
    BY <1>13 DEF vars
  <2> QED
    BY <2>1, ObservedKept DEF ObservedInv, Observed, Judged, RedactionHit
<1> QED
  BY <1>1, <1>2, <1>3, <1>4, <1>5, <1>6, <1>7, <1>8, <1>9, <1>10, <1>11, <1>12, <1>13 DEF Next

LEMMA ObservedInvariant == Spec => []ObservedInv
  BY ObservedInit, ObservedNext, HeadInvariant, LogInvariant, WorkspaceInvariant, PTL DEF Spec

\* A run that exits with success has changed nothing that git reports but what
\* the plan names and check 6 does not forbid, by the file's own name or by that
\* of its new directory (run_cmd.go's observation, gitstate.go ChangedFiles,
\* runverify.go's checks 5 and 6).
THEOREM PlannedChanges == Spec => []PlannedChangesOnly
<1>1. ASSUME CertificationInv, ObservedInv, exit = 0, others = 0, ~blind,
             NEW f \in Files \ Ignored, work[f] # base[f]
      PROVE  {Printed[f], Folder[f]} \cap (Planned \ Forbidden) # {}
  <2>1. phase = "ended" /\ verdict.result \in Certified
    BY <1>1 DEF CertificationInv, Phases, Before, Succeeds, NoExit
  <2>2. Named /\ changed \subseteq Planned /\ changed \cap Forbidden = {}
    BY <1>1, <2>1 DEF ObservedInv, Observed, Judged, Undisturbed
  <2>3. f \in Reportable
    BY <1>1 DEF Reportable
  <2> QED
    BY <2>2, <2>3 DEF Named, Names
<1>2. CertificationInv /\ ObservedInv => PlannedChangesOnly
  BY <1>1 DEF PlannedChangesOnly
<1> QED
  BY <1>2, Invariant, ObservedInvariant, PTL

\* `verify -receipt -plan` repeats the verdict of the run from the receipt, as
\* long as git answers, the log can be read and nothing was touched; where
\* redaction has hit the receipt, it certifies nothing instead (verify_cmd.go
\* cmdVerify, receipt.go Redact).
THEOREM LaterVerifyRepeats == Spec => []LaterVerifyAgrees
<1>1. ASSUME CertificationInv, ObservedInv, later.withPlan, saved = "whole", readable,
             others = 0, ~blind, ~damaged
      PROVE  later.result = verdict.result \/ (RedactionHit /\ later.result \notin Certified)
  <2>1. phase = "ended"
    BY <1>1 DEF ObservedInv
  <2> QED
    BY <1>1, <2>1 DEF ObservedInv, Observed, Judged, Undisturbed
<1>2. CertificationInv /\ ObservedInv => LaterVerifyAgrees
  BY <1>1 DEF LaterVerifyAgrees
<1> QED
  BY <1>2, Invariant, ObservedInvariant, PTL

=============================================================================
