--------------------------- MODULE Certification ---------------------------
(***************************************************************************)
(* From the end of a run to its receipt, and on to `verify` (internal/cli  *)
(* run_cmd.go and verify_cmd.go, internal/receipt, internal/gitstate).     *)
(*                                                                         *)
(* A run writes files, executes acceptance checks and other commands and   *)
(* may commit; every call leaves a record in the evidence log, if the sink *)
(* can write it.  Then the program looks at HEAD, at what git reports as   *)
(* changed and at its own records, one after the other, renders a verdict  *)
(* and saves a redacted receipt.  `verify` renders a verdict again from    *)
(* the receipt, the log and HEAD as they are then.  Meanwhile others may   *)
(* write and commit in the workspace, and the log and the receipt may be   *)
(* edited or damaged.                                                      *)
(***************************************************************************)
EXTENDS RunVerify, Sequences, FiniteSets

CONSTANTS
  Files,        \* files of the workspace
  Commands,     \* the plan's acceptance checks
  Tests,        \* [Commands -> Files]: the file a check is about
  SecretChecks, \* the checks whose result, "name: exit=N", reads like a credential
  OtherCommands, \* commands that are no checks
  Planned,      \* the plan's proposed files
  Refused,      \* the files the write tools refuse to write
  Ignored,      \* the files git ignores
  Printed,      \* [Files -> names]: a file's own line in `git status`
  Folder,       \* [Files -> names]: the line that stands for a new file as long as
                \* nothing in its directory is tracked; otherwise Printed
  Redact,       \* [Entries -> names]: evidence.Redact
  Commits,      \* the names of the commits since the start
  CallBound,    \* how many calls the run makes
  DisturbanceBound \* how often others write or commit in the workspace, a record is lost,
                \* git stops working or the log is damaged

\* What a check makes of a file: it fails on bad contents.
Contents(f) ==
  {"original", "good"} \cup (IF \E c \in Commands : Tests[c] = f THEN {"bad"} ELSE {})
Executions == {"ok", "denied"}   \* "error" counts as little as "denied"

\* What git may print of the workspace.
Entries == {Printed[f] : f \in Files} \cup {Folder[f] : f \in Files}

ASSUME CertificationAssumption ==
  /\ Tests \in [Commands -> Files]
  /\ SecretChecks \subseteq Commands
  /\ DOMAIN Redact = Entries
  /\ \A name \in Entries : Redact[name] # name => Redact[name] \notin Planned
  /\ CallBound \in Nat
  /\ DisturbanceBound \in Nat
  /\ NoName \notin Files
  /\ DOMAIN Commits = 0..(CallBound + DisturbanceBound)
  /\ \A n \in DOMAIN Commits :
       /\ Commits[n] \notin {"skipped", "error", NoName}
       /\ \A m \in DOMAIN Commits : Commits[m] = Commits[n] => m = n
  /\ "git commit" \notin Commands   \* the commits of the run are calls of their own
  /\ OtherCommands \cap Commands = {}

VARIABLES
  base, work,  \* the files at HEAD and in the work tree
  sha,         \* HEAD: the number of commits since the start
  calls,       \* how many calls the run has made
  last,        \* the number of the record the sink wrote last: the next one is linked to it
  records,     \* the run's records in the log
  readable,    \* whether every line of the log parses
  phase,       \* how far the run is
  status,      \* the typed status of the agent loop
  endSHA, changed, seen,  \* what was observed of HEAD, the files, the records
  verdict,     \* the verifier's verdict
  receipt,     \* what the receipt says
  saved,       \* the receipt file: "none", "whole", "torn" or "edited"
  exit,        \* the exit code of `run`, 1 for all that are not 0
  later,       \* the last answer of `verify`
  recordedExit, \* history: the exit code each check really had the last time it was
                \* executed and the sink took the record
  others,      \* history: how often others wrote or committed
  committed,   \* history: whether the run itself committed
  blind,       \* history: whether a git query failed
  damaged, cut \* history: whether the log was damaged, whether it lost its end

workspaceVars == <<base, work, sha, others, committed>>
logVars == <<calls, last, records, readable, recordedExit, damaged, cut>>
observedVars == <<endSHA, changed, seen>>
resultVars == <<verdict, receipt, saved, exit, later>>
vars == <<workspaceVars, logVars, phase, status, observedVars, resultVars, blind>>

Phases == {"running", "observe_head", "observe_files", "load", "verify", "seal", "save",
           "report", "ended"}

None == "none"
NoExit == -1
Hidden == -2   \* a result that was redacted and no longer parses
NoVerdict == [result |-> None, checks |-> [name \in CheckNames |-> None]]
NoReceipt == [execution |-> None, verifier |-> None, final |-> None, endSHA |-> NoName,
              changed |-> {}, tests |-> <<>>]

Commit(n) == Commits[n]

Init ==
  /\ base = [f \in Files |-> "original"]
  /\ work = base
  /\ sha = 0
  /\ calls = 0
  /\ last = 0
  /\ records = <<>>
  /\ readable = TRUE
  /\ phase = "running"
  /\ status = None
  /\ endSHA = NoName
  /\ changed = {}
  /\ seen = <<>>
  /\ verdict = NoVerdict
  /\ receipt = NoReceipt
  /\ saved = "none"
  /\ exit = NoExit
  /\ later = [withPlan |-> FALSE, result |-> None]
  /\ recordedExit = [command \in Commands |-> NoExit]
  /\ others = 0
  /\ committed = FALSE
  /\ blind = FALSE
  /\ damaged = FALSE
  /\ cut = FALSE

\* What has become of the workspace, for git: what it ignores never changes.
Reportable == {f \in Files \ Ignored : work[f] # base[f]}

\* The line for a file: one for its whole directory as long as nothing in that
\* is at HEAD or staged.
Entry(f, staged) ==
  IF \E g \in Files : Folder[g] = Folder[f] /\ (base[g] # "original" \/ g \in staged)
    THEN Printed[f] ELSE Folder[f]

\* Defect: only the planned files are looked at.
ChangedPlanned(staged) == {Entry(f, staged) : f \in Reportable} \cap Planned
Changed(staged) == {Entry(f, staged) : f \in Reportable}

-----------------------------------------------------------------------------
(***************************************************************************)
(* The run.                                                                *)
(***************************************************************************)
\* Whether one more thing may go wrong.
Calm ==
  others + (calls - last) + (IF blind THEN 1 ELSE 0) + (IF damaged THEN 1 ELSE 0)
    < DisturbanceBound

\* A call, and its record: the log gets it, or nothing of it, or a part that
\* does not parse.  The governor drops the error of the sink.
Recorded(tool, asset, execution, code) ==
  /\ calls' = calls + 1
  /\ \/ /\ last' = last + 1
        /\ records' = Append(records, [number |-> last + 1, intact |-> TRUE, tool |-> tool,
                                       asset |-> asset, execution |-> execution, code |-> code])
        /\ UNCHANGED readable
     \/ Calm /\ UNCHANGED <<last, records, readable>>
     \/ Calm /\ readable' = FALSE /\ UNCHANGED <<last, records>>
  /\ UNCHANGED <<damaged, cut>>

Calling == phase = "running" /\ calls < CallBound

\* The variance guard invalidates the plan once HEAD is not where it was made
\* (Governor.tla has the window between this check and the execution).
AtPlanHead == sha = 0

WriteFile ==
  /\ Calling
  /\ AtPlanHead
  /\ \E f \in Files \ Refused : \E c \in Contents(f) \ {"original"} :
       /\ work' = [work EXCEPT ![f] = c]
       /\ Recorded("write_file", f, "ok", 0)
  /\ UNCHANGED <<base, sha, others, committed, recordedExit, phase, status, observedVars, resultVars, blind>>

ExitCode(command) == IF work[Tests[command]] = "bad" THEN 1 ELSE 0

\* Only an executed command has an exit code.
RunCheck ==
  /\ Calling
  /\ \E command \in Commands, execution \in Executions :
       LET code == IF execution = "ok" THEN ExitCode(command) ELSE 0 IN
       /\ execution = "ok" => AtPlanHead
       /\ Recorded("run_command", command, execution, code)
       /\ recordedExit' = IF execution = "ok" /\ records' # records
                           THEN [recordedExit EXCEPT ![command] = code] ELSE recordedExit
  /\ UNCHANGED <<workspaceVars, phase, status, observedVars, resultVars, blind>>

\* Any other command may write any files, those the write tools refuse and
\* those git ignores among them.
RunCommand ==
  /\ Calling
  /\ AtPlanHead
  /\ work' \in [Files -> {"original", "good", "bad"}]
  /\ \A f \in Files : work'[f] \in Contents(f)
  /\ \E command \in OtherCommands : Recorded("run_command", command, "ok", 0)
  /\ UNCHANGED <<base, sha, others, committed, recordedExit, phase, status, observedVars,
                 resultVars, blind>>

\* The work tree as it is at the next commit.
Committed == [f \in Files |-> IF f \in Ignored THEN base[f] ELSE work[f]]

GitCommit ==
  /\ Calling
  /\ AtPlanHead
  /\ Reportable # {}
  /\ base' = Committed
  /\ sha' = sha + 1
  /\ committed' = TRUE
  /\ Recorded("run_command", "git commit", "ok", 0)
  /\ UNCHANGED <<work, others, recordedExit, phase, status, observedVars, resultVars, blind>>

EndRun ==
  /\ phase = "running"
  /\ status' \in {"completed", "stopped"}
  /\ phase' = "observe_head"
  /\ UNCHANGED <<workspaceVars, logVars, observedVars, resultVars, blind>>

-----------------------------------------------------------------------------
(***************************************************************************)
(* Observation.  A failed query is not reported: the SHA stays empty, the  *)
(* set of changed files stays empty, the records are none.                 *)
(***************************************************************************)
\* A git query may fail, and then later ones may.
GitMayFail == blind \/ Calm

ObserveHead ==
  /\ phase = "observe_head"
  /\ \/ endSHA' = Commit(sha) /\ phase' = "observe_files" /\ UNCHANGED blind
     \/ /\ GitMayFail
        /\ phase' \in {"load", "observe_files"}   \* `rev-parse` failing alone is no error
        /\ blind' = TRUE
        /\ UNCHANGED endSHA
  /\ UNCHANGED <<workspaceVars, logVars, status, changed, seen, resultVars>>

ObserveFiles ==
  /\ phase = "observe_files"
  /\ \/ /\ \E staged \in SUBSET Reportable : changed' = Changed(staged)
        /\ UNCHANGED blind
     \/ GitMayFail /\ blind' = TRUE /\ UNCHANGED changed
  /\ phase' = "load"
  /\ UNCHANGED <<workspaceVars, logVars, status, endSHA, seen, resultVars>>

LoadRunEvidence ==
  /\ phase = "load"
  /\ seen' = IF readable THEN records ELSE <<>>
  /\ phase' = "verify"
  /\ UNCHANGED <<workspaceVars, logVars, status, endSHA, changed, resultVars, blind>>

Ran(recs, command) ==
  {i \in 1..Len(recs) : /\ recs[i].tool = "run_command"
                        /\ recs[i].asset = command
                        /\ recs[i].execution = "ok"}

\* Defect: a check that was only asked for counts as passed.
AcceptanceResultsAsked(recs) ==
  [command \in {c \in Commands : \E i \in 1..Len(recs) : recs[i].asset = c} |->
     IF \E i \in Ran(recs, command) : recs[i].code # 0 THEN 1 ELSE 0]

\* acceptanceResults: a later result of a check replaces an earlier one.
AcceptanceResults(recs) ==
  [command \in {c \in Commands : Ran(recs, c) # {}} |->
     recs[CHOOSE i \in Ran(recs, command) : \A j \in Ran(recs, command) : j <= i].code]

\* VerifyChain: a record whose content was edited, or whose predecessor is
\* gone, does not recompute.  The first record may be any.
Chained(recs) ==
  \A i \in 1..Len(recs) : recs[i].intact /\ (i > 1 => recs[i].number = recs[i - 1].number + 1)

\* What `run` and `verify` give the verifier; both leave the rest empty.
VerifierInput(recs, git, end, files, planned, acceptance, required) ==
  [chain |-> Chained(recs), expected |-> {}, present |-> {},
   claimed |-> "workspace", observed |-> "workspace", git |-> git, endSHA |-> end,
   changed |-> files, planned |-> planned, acceptance |-> acceptance,
   required |-> required, leaking |-> {}]

\* HEAD is read again, unless it could not be read the first time.
HeadNow(end) ==
  IF end = NoName THEN {"skipped"}
                  ELSE {Commit(sha)} \cup (IF GitMayFail THEN {"error", NoName} ELSE {})

Unanswered(git, end) == git \in {"error", NoName} /\ end # NoName

VerifyRun ==
  /\ phase = "verify"
  /\ \E git \in HeadNow(endSHA) :
       /\ verdict' = Verify(VerifierInput(seen, git, endSHA, changed, Planned,
                                          AcceptanceResults(seen), Commands))
       /\ blind' = (blind \/ Unanswered(git, endSHA))
  /\ phase' = "seal"
  /\ UNCHANGED <<workspaceVars, logVars, status, observedVars, receipt, saved, exit, later>>

-----------------------------------------------------------------------------
(***************************************************************************)
(* The receipt.                                                            *)
(***************************************************************************)
FinalStatus == IF status = "completed" THEN verdict.result ELSE status

\* Redaction: a result that reads like a credential is no result any more.
RedactedResults(tests) ==
  [c \in DOMAIN tests |-> IF c \in SecretChecks THEN Hidden ELSE tests[c]]

\* Defect: only passing results are kept in the receipt.
SealPassed ==
  /\ phase = "seal"
  /\ receipt' = [execution |-> status, verifier |-> verdict.result, final |-> FinalStatus,
                 endSHA |-> endSHA, changed |-> {Redact[name] : name \in changed},
                 tests |-> LET tests == AcceptanceResults(seen) IN
                           RedactedResults([c \in {d \in DOMAIN tests : tests[d] = 0} |-> 0])]
  /\ phase' = "save"
  /\ UNCHANGED <<workspaceVars, logVars, status, observedVars, verdict, saved, exit, later, blind>>

Seal ==
  /\ phase = "seal"
  /\ receipt' = [execution |-> status, verifier |-> verdict.result, final |-> FinalStatus,
                 endSHA |-> endSHA, changed |-> {Redact[name] : name \in changed},
                 tests |-> RedactedResults(AcceptanceResults(seen))]
  /\ phase' = "save"
  /\ UNCHANGED <<workspaceVars, logVars, status, observedVars, verdict, saved, exit, later, blind>>

Save ==
  /\ phase = "save"
  /\ saved' = "whole"
  /\ phase' = "report"
  /\ UNCHANGED <<workspaceVars, logVars, status, observedVars, verdict, receipt, exit, later, blind>>

\* Defect: a receipt that could not be saved is only warned about.
SaveFailsQuietly ==
  /\ phase = "save"
  /\ saved' \in {"none", "torn"}
  /\ phase' = "report"
  /\ UNCHANGED <<workspaceVars, logVars, status, observedVars, verdict, receipt, exit, later, blind>>

SaveFails ==
  /\ phase = "save"
  /\ saved' \in {"none", "torn"}
  /\ exit' = 1
  /\ phase' = "ended"
  /\ UNCHANGED <<workspaceVars, logVars, status, observedVars, verdict, receipt, later, blind>>

Succeeds == status = "completed" /\ verdict.result \in Certified

Report ==
  /\ phase = "report"
  /\ \E printed \in BOOLEAN : exit' = IF printed /\ Succeeds THEN 0 ELSE 1
  /\ phase' = "ended"
  /\ UNCHANGED <<workspaceVars, logVars, status, observedVars, verdict, receipt, saved, later, blind>>

\* The process is killed, which is no success.  Earlier than this it leaves
\* nothing to look at.
Kill ==
  /\ phase \in {"save", "report"}
  /\ saved' \in IF phase = "save" THEN {"none", "torn"} ELSE {saved}
  /\ exit' = 1
  /\ phase' = "ended"
  /\ UNCHANGED <<workspaceVars, logVars, status, observedVars, verdict, receipt, later, blind>>

-----------------------------------------------------------------------------
(***************************************************************************)
(* `verify -receipt`, with the plan or without it.                         *)
(***************************************************************************)
\* Defect: the content hash of the receipt is not compared.
LoadableUnchecked == saved # "torn"
LoadableReceipt == saved = "whole"

\* acceptanceFromReceipt: what does not parse is passed over.
AcceptanceFromReceipt(tests) == [c \in {d \in DOMAIN tests : tests[d] # Hidden} |-> tests[c]]

VerifyReceipt(withPlan) ==
  /\ phase = "ended"
  /\ saved # "none"
  /\ later.result = None   \* once: it could be now or after anything that is still to happen
  /\ IF LoadableReceipt /\ readable
       THEN \E git \in HeadNow(receipt.endSHA) :
              /\ later' = [withPlan |-> withPlan, result |->
                   Result(VerifierInput(records, git, receipt.endSHA, receipt.changed,
                                        IF withPlan THEN Planned ELSE receipt.changed,
                                        AcceptanceFromReceipt(receipt.tests),
                                        IF withPlan THEN Commands ELSE {}))]
              /\ blind' = (blind \/ Unanswered(git, receipt.endSHA))
       ELSE later' = [withPlan |-> withPlan, result |-> "refused"] /\ UNCHANGED blind
  /\ UNCHANGED <<workspaceVars, logVars, phase, status, observedVars, verdict, receipt, saved,
                 exit>>

-----------------------------------------------------------------------------
(***************************************************************************)
(* Everybody else.                                                         *)
(***************************************************************************)
\* What they do makes a difference only if somebody looks later: not when there is
\* no receipt to verify, or it has been verified.  Nobody looks from the verdict to
\* the end, so that what they do there they may as well do then.
Mattering ==
  /\ phase \notin {"seal", "save", "report"}
  /\ phase = "ended" => saved = "whole" /\ later.result = None

\* Nobody looks at the files once they have been observed.
OthersWrite ==
  /\ phase \in {"running", "observe_head", "observe_files"}
  /\ Calm
  /\ \E f \in Files : \E c \in Contents(f) \ {work[f]} : work' = [work EXCEPT ![f] = c]
  /\ others' = others + 1
  /\ UNCHANGED <<base, sha, committed, logVars, phase, status, observedVars, resultVars, blind>>

OthersCommit ==
  /\ Mattering
  /\ Calm
  /\ base' \in {Committed, base}
  /\ sha' = sha + 1
  /\ others' = others + 1
  /\ UNCHANGED <<work, committed, logVars, phase, status, observedVars, resultVars, blind>>

\* An exit code is edited, or a record removed, or a line is cut off.  What is
\* left when the last record goes is an intact chain.
DamageLog ==
  /\ Mattering
  /\ Calm /\ ~damaged
  /\ \E i \in 1..Len(records) :
       \/ /\ records' = [records EXCEPT ![i].code = 0, ![i].intact = FALSE]
          /\ UNCHANGED <<readable, cut>>
       \/ /\ records' = [j \in 1..(Len(records) - 1) |-> records[IF j < i THEN j ELSE j + 1]]
          /\ cut' = (i = Len(records))
          /\ UNCHANGED readable
       \/ readable' = FALSE /\ UNCHANGED <<records, cut>>
  /\ damaged' = TRUE
  /\ UNCHANGED <<workspaceVars, calls, last, recordedExit, phase, status, observedVars, resultVars, blind>>

EditReceipt ==
  /\ phase = "ended"
  /\ Mattering
  /\ saved' = "edited"
  /\ UNCHANGED <<workspaceVars, logVars, phase, status, observedVars, verdict, receipt, exit,
                 later, blind>>

Next ==
  \/ WriteFile \/ RunCheck \/ RunCommand \/ GitCommit \/ EndRun
  \/ ObserveHead \/ ObserveFiles \/ LoadRunEvidence \/ VerifyRun
  \/ Seal \/ Save \/ SaveFails \/ Report \/ Kill
  \/ \E withPlan \in BOOLEAN : VerifyReceipt(withPlan)
  \/ OthersWrite \/ OthersCommit \/ DamageLog \/ EditReceipt

Spec == Init /\ [][Next]_vars

-----------------------------------------------------------------------------
(***************************************************************************)
(* Properties.                                                             *)
(***************************************************************************)
Record ==
  [number: 1..CallBound, intact: BOOLEAN, tool: {"write_file", "run_command"},
   asset: Files \cup Commands \cup OtherCommands \cup {"git commit"}, execution: Executions, code: {0, 1}]

WorkspaceOK ==
  /\ DOMAIN base = Files /\ \A f \in Files : base[f] \in Contents(f)
  /\ DOMAIN work = Files /\ \A f \in Files : work[f] \in Contents(f)
  /\ sha \in Nat
  /\ changed \subseteq Entries
  /\ endSHA = NoName \/ \E n \in 0..sha : endSHA = Commit(n)

LogOK ==
  /\ calls \in 0..CallBound
  /\ last \in 0..calls
  /\ records \in Seq(Record) /\ Len(records) <= last
  /\ seen \in Seq(Record)
  /\ damaged \in BOOLEAN
  /\ cut => damaged
  /\ recordedExit \in [Commands -> {NoExit, 0, 1}]

OutcomeOK ==
  /\ phase \in Phases
  /\ status \in {None, "completed", "stopped"}
  /\ (status = None) = (phase = "running")
  /\ verdict.result \in Results \cup {None}
  /\ receipt.final \in Results \cup {None, "stopped"}
  /\ saved \in {"none", "whole", "torn", "edited"}
  /\ saved # "none" => receipt.final # None
  /\ exit \in {NoExit, 0, 1}
  /\ later.result \in Results \cup {None, "refused"}

TypeOK == WorkspaceOK /\ LogOK /\ OutcomeOK

\* A run only exits with success when its loop completed and every acceptance
\* check of the plan really exited 0 the last time it was executed and
\* recorded, whatever was edited in the log or removed from it.  Two things
\* defeat more than that: a log that loses its last record, whose rest is an
\* intact chain, and an execution whose record the sink could not write, for
\* which the one before stands (run_cmd.go acceptanceResults and the exit code;
\* evidence.go VerifyChain; governor.go emit).
PassedChecksOnly ==
  exit = 0 /\ ~cut => /\ status = "completed"
                      /\ \A command \in Commands : recordedExit[command] = 0

\* A run that exits with success has left no file changed but those the plan
\* names in git's words and check 6 does not forbid: the file itself, as git
\* prints it, or the new directory it is in.  Git must have answered, the run
\* must not have committed and nobody else may have touched the workspace: only
\* changes against HEAD as it then is are looked at.  Of the files git ignores
\* nothing is said (run_cmd.go's observation, gitstate.go ChangedFiles,
\* runverify.go's checks 5 and 6).
PlannedChangesOnly ==
  exit = 0 /\ others = 0 /\ ~committed /\ ~blind =>
    \A f \in Files \ Ignored :
      work[f] # base[f] => {Printed[f], Folder[f]} \cap (Planned \ Forbidden) # {}

\* Success is on file: when `run` exits with 0 its receipt has been saved, with
\* the verdict as its final status, and no receipt of a stopped run is final
\* with a certified verdict (run_cmd.go finalStatus, receipt.Save).
SuccessIsOnFile ==
  /\ exit = 0 => saved \in {"whole", "edited"} /\ receipt.final \in Certified
  /\ receipt.final \in Results => receipt.execution = "completed"
                                  /\ receipt.final = verdict.result

\* The receipt was redacted where it matters to `verify`.
RedactionHit ==
  \/ \E name \in changed : Redact[name] # name
  \/ \E command \in SecretChecks : command \in DOMAIN receipt.tests

\* Verifying again changes nothing: as long as git answers, the log can be read
\* and neither the workspace, the log nor the receipt is touched, `verify
\* -receipt -plan` comes to the verdict `run` came to, from what the receipt
\* kept; where that was redacted it may come to another verdict, but never to a
\* certified one (verify_cmd.go cmdVerify, acceptanceFromReceipt; receipt.go Redact).
LaterVerifyAgrees ==
  /\ later.withPlan /\ saved = "whole" /\ readable
  /\ others = 0 /\ ~blind /\ ~damaged
  => \/ later.result = verdict.result
     \/ RedactionHit /\ later.result \notin Certified

\* `verify` certifies nothing that was edited after the fact: not an edited or
\* a torn receipt, not a log with a changed record, and not a workspace that
\* has moved on from the recorded commit; nor, without the plan to compare
\* with, a receipt that names a forbidden file (receipt.go Load, evidence.go
\* VerifyChain, runverify.go checks 4 and 6).
CertifiesOnlyTheRecord ==
  [][later' # later /\ later'.result \in Certified =>
       /\ saved = "whole"
       /\ readable /\ Chained(records)
       /\ receipt.changed \cap Forbidden = {}
       /\ receipt.endSHA \in {NoName, Commit(sha)}]_vars

\* The verdict and the table of checks that is printed with it never disagree
\* (runverify.go Verify, which keeps them separately).
VerdictAgrees == verdict.result # None => Agrees(verdict)
=============================================================================
