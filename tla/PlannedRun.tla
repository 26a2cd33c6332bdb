----------------------------- MODULE PlannedRun -----------------------------
(***************************************************************************)
(* From the paths and commands a plan names, over what the tools of a run  *)
(* do to the workspace, to what git reports of it and the verifier makes   *)
(* of that.  The control of a single call is module Governor's; this       *)
(* module is about what the parts understand by a path or a command.       *)
(*                                                                         *)
(* A file is a cleaned path.  git (external) reports an untracked file by  *)
(* its topmost directory without tracked files, says nothing of ignored    *)
(* files and of .git, and escapes unusual names.                           *)
(***************************************************************************)
EXTENDS PathRules

CONSTANTS
  Spelled,    \* the paths a plan or a call may spell
  Commands,   \* the command lines a plan or a call may contain
  Drafts,     \* what the planner may propose: files, commands and checks
  Files,      \* the files of the workspace commands may change
  Tracked,    \* the files git knows when the run starts
  Ignored,    \* the files git ignores
  Unusual,    \* names git escapes when it prints them
  StepBound   \* how many calls a run makes

\* A path is never without segments, a file is spelled cleaned and lies in the
\* workspace, and git prints what separates names as it is.
ASSUME PlannedRunAssumption ==
  /\ Spelled \subseteq Seq(Segments) \ {<<>>}
  /\ Files \subseteq Seq(Segments) \ {<<>>}
  /\ \A f \in Files : Names(f) \cap {Blank, ".", ".."} = {}
  /\ Blank \notin Unusual
  /\ \A d \in Drafts :
       d.files \subseteq Spelled /\ d.commands \subseteq Commands /\ d.checks \in Seq(Commands)
  /\ \A c, d \in Commands :
       c.words = d.words =>
         c.program = d.program /\ c.flags = d.flags /\ c.chars = d.chars /\ c.secret = d.secret
  /\ Tracked \subseteq Files
  /\ Ignored \subseteq Files \ Tracked
  /\ StepBound \in Nat

VARIABLES
  plan,      \* the sealed plan: its files, commands and acceptance checks
  approver,  \* "auto" (-yes) or "prompt"
  phase,     \* "planning", "rejected", "running" or "observed"
  steps,     \* calls made
  changed,   \* files that differ from what was committed
  index,     \* files git knows, from the start or since `git add`
  records,   \* the commands that ran, as the evidence shows them
  reported,  \* what ChangedFiles returned
  written,   \* history: files a tool wrote, and whether a human approved it
  called     \* history: commands that were called and refused, or ran

vars == <<plan, approver, phase, steps, changed, index, records, reported, written, called>>

NoPlan == [files |-> {}, commands |-> {}, checks |-> <<>>]

Init ==
  /\ plan = NoPlan
  /\ approver \in {"auto", "prompt"}
  /\ phase = "planning"
  /\ steps = 0
  /\ changed = {}
  /\ index = Tracked
  /\ records = {}
  /\ reported = {}
  /\ written = {}
  /\ called = {}

-----------------------------------------------------------------------------
\* plan.Validate
ValidPlan(p) ==
  /\ \A f \in p.files : ~PlanForbids(f)
  /\ \A c \in p.commands : PlanAcceptsCommand(c)
  /\ p.checks # <<>>
  /\ \A i \in 1..Len(p.checks) : PlanAcceptsCommand(p.checks[i])

\* The planner proposes, and the draft is sealed or rejected.
Propose ==
  /\ phase = "planning"
  /\ \E p \in Drafts :
       IF ValidPlan(p) THEN plan' = p /\ phase' = "running"
                       ELSE plan' = plan /\ phase' = "rejected"
  /\ UNCHANGED <<approver, steps, changed, index, records, reported, written, called>>

\* approval: -yes approves what is in the plan, a human whatever he likes.
Approves(listed) == approver = "prompt" \/ listed

Call ==
  /\ phase = "running"
  /\ steps < StepBound
  /\ steps' = steps + 1
  /\ UNCHANGED <<plan, approver, phase, reported>>

\* A file cannot have the name of a directory that holds one, nor the root's.
Placeable(f) == f # <<".">> /\ ~\E g \in index \cup changed : Prefix(f, g) \/ Prefix(g, f)

\* A change of file p that got past the tool's own checks.
Change(p) ==
  \/ UNCHANGED <<changed, written>>
  \/ /\ ~GuardForbids(p)
     /\ Approves(Listed(plan.files, p))
     /\ Placeable(Clean(p))
     /\ changed' = changed \cup {Clean(p)}
     /\ written' = written \cup {[file |-> Clean(p), human |-> approver = "prompt"]}

WriteFile(p) ==
  /\ Call
  /\ IF ToolRefuses(p) THEN UNCHANGED <<changed, written>> ELSE Change(p)
  /\ UNCHANGED <<index, records, called>>

\* apply_patch of one file: patch.Validate comes first, and the file must be
\* there.
ApplyPatch(p) ==
  /\ Call
  /\ IF PatchForbids(p) \/ ToolRefuses(p) THEN UNCHANGED <<changed, written>>
     ELSE Change(p) /\ (changed' # changed => Clean(p) \in index)
  /\ UNCHANGED <<index, records, called>>

\* planguard.Check: commands and checks of the plan, whatever their spacing.
ListedCommand(c) ==
  \E d \in plan.commands \cup {plan.checks[i] : i \in 1..Len(plan.checks)} : Asset(c) = d.words

\* A command may change any file, or add what is there to git's index.  One
\* that was approved runs, unless it cannot be started, and its record carries
\* its exit code.
RunCommand(c) ==
  /\ Call
  /\ IF ToolRefusesCommand(c) \/ ~Approves(ListedCommand(c))
       THEN called' = called \cup {c} /\ UNCHANGED <<changed, index, records>>
       ELSE \/ UNCHANGED <<called, changed, index, records>>
            \/ /\ called' = called \cup {c}
               /\ records' = records \cup {Asset(c)}
               /\ \/ UNCHANGED <<changed, index>>
                  \/ \E f \in Files :
                       Placeable(f) /\ changed' = changed \cup {f} /\ UNCHANGED index
                  \/ c.program = "git" /\ index' = index \cup (changed \ Ignored) /\ UNCHANGED changed
  /\ UNCHANGED written

-----------------------------------------------------------------------------
Visible == {f \in changed : f \notin Ignored /\ ".git" \notin Names(f)}

\* The topmost directory of f that holds no file git knows, or f itself.
Topmost(f) ==
  LET untracked == {n \in 1..Len(f) - 1 : ~\E g \in index : Prefix(SubSeq(f, 1, n), g)} IN
  IF f \in index \/ untracked = {} THEN f
  ELSE SubSeq(f, 1, CHOOSE n \in untracked : \A m \in untracked : n <= m) \o <<Blank>>

Printed(p) == [i \in 1..Len(p) |-> IF p[i] \in Unusual THEN "escaped" ELSE p[i]]

\* Defect: untracked files are left out.
ChangedFilesTracked == {Printed(f) : f \in Visible \cap index}

\* gitstate.ChangedFiles: the paths of `git status --porcelain`, unquoted.
ChangedFiles == {Printed(Topmost(f)) : f \in Visible}

Observe ==
  /\ phase = "running"
  /\ phase' = "observed"
  /\ reported' = ChangedFiles
  /\ UNCHANGED <<plan, approver, steps, changed, index, records, written, called>>

Next ==
  \/ Propose \/ Observe
  \/ \E p \in Spelled : WriteFile(p) \/ ApplyPatch(p)
  \/ \E c \in Commands : RunCommand(c)

Spec == Init /\ [][Next]_vars

\* runverify.Verify, checks 5 and 6: reported paths against planned ones as
\* spelled.
Unplanned == reported \ plan.files
ForbiddenTouched == {p \in reported : VerifierForbids(p)}

\* Defect: the spacing of the command counts.
AcceptanceResultsVerbatim ==
  {i \in 1..Len(plan.checks) : plan.checks[i].words \in records /\ ~plan.checks[i].spaced}

\* run_cmd.acceptanceResults: the checks that have a recorded exit code.  Of
\* two checks that differ in spacing only, the second one gets it.
AcceptanceResults ==
  {i \in 1..Len(plan.checks) :
     /\ plan.checks[i].words \in records
     /\ ~\E j \in i + 1..Len(plan.checks) : plan.checks[j].words = plan.checks[i].words}

-----------------------------------------------------------------------------
TypeOK ==
  /\ plan \in Drafts \cup {NoPlan}
  /\ approver \in {"auto", "prompt"}
  /\ phase \in {"planning", "rejected", "running", "observed"}
  /\ steps \in 0..StepBound
  /\ changed \subseteq Files \cup {Clean(p) : p \in Spelled}
  /\ called \subseteq Commands

\* approval.go, planguard.go: with -yes the tools write only files the plan
\* names, whichever way a call or the plan spells them.
YesStaysInPlan ==
  \A w \in written : ~w.human => \E q \in plan.files : Clean(q) = w.file

\* runverify.go check 5: a change that does not show as unplanned was planned,
\* or is hidden in a new directory the plan names with a slash at its end, or
\* is one git says nothing about.
UnplannedShows ==
  phase = "observed" /\ Unplanned = {} =>
    \A f \in Visible :
      \/ f \in plan.files
      \/ \E q \in plan.files : q[Len(q)] = Blank /\ Prefix(Clean(q), Printed(f))
      \/ Printed(f) \in plan.files

\* tools.go, patch.go, planguard.go against runverify.go check 6: whatever a human
\* approves, the tools bring no file about that the verifier calls forbidden,
\* however it is spelled and reported, except for two kinds of secrets that only
\* the verifier knows, and for a new directory that has the name of a secret.
ToolsTouchNothingForbidden ==
  phase = "observed" /\ changed \subseteq {w.file : w \in written} =>
    \A q \in ForbiddenTouched :
      \/ Base(q) \in {"credentials.json", "my-key.age"}
      \/ q[Len(q)] = Blank /\ Base(q) \in VerifierSecrets

Ordinary(c) == c.chars \cap ToolMeta = {} /\ c.flags \cap DangerousFlags = {} /\ ~c.secret

\* plan.go checkCommand against tools.go, policy.go, planguard.go and
\* acceptanceResults: with -yes, a check that was called, in any spacing, and
\* could be started has a result in the end, unless the plan accepted what
\* run_command refuses, its text looks like a secret, or another check has the
\* same words.
AcceptedChecksCount ==
  approver = "auto" =>
    \A i \in 1..Len(plan.checks) :
      LET check == plan.checks[i] IN
      /\ Ordinary(check)
      /\ \A j \in 1..Len(plan.checks) : j # i => plan.checks[j].words # check.words
      /\ \E c \in called : c.words = check.words
      => i \in AcceptanceResults

=============================================================================
