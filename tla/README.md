# Specifications of intent-bob-eino

`bob-eino` lets a language model work in a workspace through a handful of tools,
and keeps it on a leash: every tool call passes a governor, every action leaves a
record in a hash-chained log, a run follows an approved plan and ends with a
verdict and a sealed receipt. These modules state what that leash is supposed to
guarantee, check it with TLC, and prove most of it with TLAPS.

All paths below are relative to the repository's `internal/` directory unless they
say otherwise. `PROJECT.json` lists the runs, the lines each definition models, the
hazards with the properties aimed at them, and the theorems.

## 1. Inventory

| Component | State | Operations | What makes it correct |
|---|---|---|---|
| governor (`governor`) | one ticket per call: authorization, execution, emitted | Begin, Authorize, Finish, FinishDenied, FinishError, EnsureEmitted | an effect only after authorization; exactly one true record per call, on every path |
| approval | none; the standard input | Approve (deny, auto, prompt) | `-yes` never approves what is outside the plan; an answer decides the call it was given for |
| policy | capabilities | Evaluate, CommandAllowed | no write, no command without its capability and an approval |
| plan guard (`planguard`) | plan, start commit | Check | out-of-plan needs a human; nothing is ruled on at another HEAD; writes it knows as forbidden are refused without asking |
| limits | total, lastKey, streak, fails, tripped | OnBegin, OnFinish, trip | budgets hold under interleaving, a trip is terminal and cancels the run |
| agent loop (`agent` over the Eino ADK) | turn, running calls | Run | every run ends, with the right status (`cli/run_cmd.go` classifyRunOutcome) |
| plan | plan file | Validate, Finalize, Save, Load | what a plan names is what the tools, the guard, git and the verifier understand by it |
| planning form (`cli/plan_cmd.go`) | none | draft from the answer, seal, save | the draft that is sealed is the one the model meant; the plan asks for every capability it implies |
| run command (`cli/run_cmd.go`) | one run | the gates, the loop, observation, verdict, exit | a run starts only on the plan's workspace, model, commit and capabilities |
| config | none | resolve path, load, merge, validate | the documented precedence of the sources |
| provider | registry | FromConfig, KeyEnv | a selection has a model or is refused |
| doctor | none | its checks | a clean doctor means that plan and run get started |
| flat form, common flags | none | flags to configuration and session | the session the user asked for |
| file tools (`tools`) | files | read, list, search, run, apply, write | they act only between a passing Authorize and Finish |
| workspace | root | Open, resolve, write | no path leads out of the root |
| patch (`patch`, `tools/apply_patch.go`) | files, pending and written images | Apply | all files or none, only the versions it was built for, damage is reported |
| git state (`gitstate`) | none | Head, ChangedFiles | every change is named |
| evidence log (`evidence`, readers in `receipt`) | file, last hash of each open sink | NewJSONLSink, Write, Close, LoadEvidenceLog, VerifyChain | one chain across sessions, no acknowledged record lost, edits show |
| evidence migration (`cli/cli.go`) | legacy and new log | ResolveEvidencePath | the new log continues an intact legacy log |
| redaction (`evidence/redact.go`) | none | what text that reads like a secret becomes | a command means the same to guard and evidence; a receipt still says what it has to |
| run verifier (`runverify`) | none | Verify | verdict by precedence; verdict and check table agree |
| receipt, `verify` (`receipt`, `cli/verify_cmd.go`) | receipt file | Seal, Save, Load, verify | success only for what was earned, and the same answer later |
| action verifiers (`verify`), evidence listing, identity, version, dispatch | none | pure or read-only | functional; see section 7 |
| installer (`scripts/install.sh` of the repository) | binary, previous binary, alias | install, upgrade, rollback, uninstall | a rollback target that is whole |

**How they interact.** A command merges its configuration, opens workspace and log
and builds a model. `plan` lets the model read the workspace, takes the draft from
its answer and seals it in a file. `run`, later, compares that file with what it
finds and builds one cancellable context, tracker, guard and sink. The agent loop
calls the model and then the tools of one answer *concurrently*. Each tool begins a
ticket, does its own argument checks, asks `Authorize` (tracker, guard, policy,
approver), acts, and finishes; a deferred EnsureEmitted catches panics. `emit`
writes the record and tells the tracker how the call ended. The tracker and the
guard share the cancel function of the run with its deadline, and the first cause
wins. After the loop the program looks at HEAD, the work tree and its own records,
one after the other, renders a verdict and saves a receipt. Plan, run, flat and
other processes append to the same log.

**What is hard.** Calls of one batch interleave on shared counters, HEAD, files and
one standard input; state is read (HEAD, the log's tail, a file's hash, a plan file)
well before it is acted on; writes fail half-way; processes die between any two
steps; sessions overlap; three causes race to cancel a run; the log, the receipt and
the workspace may have changed when they are looked at again; and five parts read
the same path or command line, each with rules of its own.

## 2. Modules

| Module | Models | Checked by | Proofs |
|---|---|---|---|
| `Limits` | usage tracker | `MCGovernor`, `MCTerminal` | `LimitsProofs` |
| `Governor` (extends `Limits`) | one governed session: loop, tickets, policy, guard, approver, tracker, status | `MCGovernor` | `GovernorProofs` |
| `ReferenceMonitor` | abstract: what the governor promises of a call | refined by `Governor` and `Terminal` | `GovernorProofs` |
| `Terminal` (extends `Governor`) | the same session at a real prompt: screen, input, end of input | `MCTerminal` | `TerminalProofs` |
| `PathRules` | what each part says of a path and of a command line | through `PlannedRun` | `PlannedRunProofs` |
| `PlannedRun` (extends `PathRules`) | plan lint, tools, guard, git's report, verifier, over spelled paths | `MCPlannedRun` | `PlannedRunProofs` |
| `Setup` | configuration, provider, doctor, as operators | through `Preflight` | `PreflightProofs` |
| `PlanDraft` | extraction of the draft from an answer | `MCPreflight` | `PreflightProofs` |
| `Preflight` (extends `Setup`, `PlanDraft`) | the gates of `plan` and `run`, and the plan file between them | `MCPreflight` | `PreflightProofs` |
| `EvidenceLog` | the log file, its sessions, migration, readers | `MCEvidenceLog` | `EvidenceLogProofs` |
| `Hunks` | counting and replacing of patch hunks, against a reference | `MCPatch` | `PatchProofs` |
| `Patch` | `Apply` of concurrent calls on a faulty file system | `MCPatch` | `PatchProofs` |
| `AtomicPatch` | abstract: all files or none | refined by `Patch` | `PatchProofs` |
| `RunVerify` | the verifier as operators on an observation | through `Certification` | `CertificationProofs` |
| `Certification` (extends `RunVerify`) | end of a run, receipt, exit code, later `verify` | `MCCertification` | `CertificationProofs` |

**Limits.** `total`, `lastKey`, `streak`, `fails`, `tripped` are the fields of
`Tracker`, `cause` the cancel cause of the run's context. Each method is one action,
because it holds the mutex. `admitted` and `finished` are history: the requests that
passed OnBegin and the outcomes of finished calls.

**Governor.** `ticket[c]` is the Go ticket of call `c` plus the place its goroutine
has reached (`stage`) and history (who approved it, at which HEAD it was ruled on
and at which it acted). The stages are cut where another goroutine, the clock or git
can come between: begin, the tool's own checks, tracker, guard, approver, effect,
finish. A request is a model value with a risk class, the outcome of the tool's own
checks (`Precheck`), and whether the plan lists it or the guard forbids it. A session
is a combination of mode, capabilities and approver the command line can produce.
Panics, a failing provider, the deadline and a moving HEAD are actions.

**Terminal.** The approver of `Governor` is refined to what `Prompt.Approve` does:
it prints, then reads a line with a buffered reader of its own. On a terminal the
kernel hands out one line at a time; from a pipe a reader swallows everything that is
there. `screen` is the prompt printed last, `open` those that wait; a line remembers
what was on the screen when it was typed. Input may end.

**PathRules / PlannedRun.** A path is a sequence of segments as spelled; cleaning,
base names and the five sets of forbidden names and patterns are operators. Patterns
of names are represented by members. `PlannedRun` follows a plan from its lint over
tool calls (written with and without a human, commands that change files, `git add`)
to git's porcelain report and the verifier's checks 5 to 7. The control of one call
is `Governor`'s and is collapsed here.

**Setup / PlanDraft / Preflight.** A source of settings is a function on the settings
it has; loading is the merge of the sources in the order of `config.go`. An entry of the
provider registry has its two fields `keyEnv`, which doctor goes by, and `needsAuth`,
which building the model goes by. A hash is
what it is computed from. `Preflight` has four actions: the surroundings change, the
plan file is edited (with or without a new hash), `plan`, `run`; a refused command
changes nothing and has none. An answer is a sequence of pieces in which reasoning
may open and close.

**EvidenceLog.** A line is the session that wrote it, its hash (a serial number: no
two records hash alike), the hash it chains from, and whether it is whole and ended
by a newline. Opening is three steps, stat, read, open, since another process may run
between them; so is the migration. A copy of the legacy log writes the same bytes from
the beginning of the file in every session, so over lines that agree with it nothing
is left sticking out; over lines that others appended in the meantime a remainder may be
(`Overlay`, `Agrees`, `Remainder`).

**Hunks / Patch.** `Hunks` has texts as sequences of characters and compares the
code's two loops (count, find the n-th match) with one definition of a match. In
`Patch` contents and edits are model values; `EditOf` says what an edit makes of a
version, or that it does not fit. Phase 1 reads file by file, each write is a
truncation and a write, then read-back and, on failure, restoring. `disturbed`,
`stale` and `cut` are history. A name is not a file: `FileOf` aliases names.

**RunVerify / Certification.** An observation is a record; each check is an operator.
`Certification` starts when the agent's calls start, since they produce the records,
and goes on to `verify`. A call writes a file the tools do not refuse, runs a check,
runs any other command (which may write any file) or commits; the sink takes its
record, or loses it, or leaves a part of it. `last` is the number the sink's chain has
reached. What is observed is git's report: nothing of `Ignored` files, `Folder[f]` for a
file in a new directory until something in it is staged, `Printed[f]` otherwise.
Sealing redacts: `Redact` maps the reported names, and a check of `SecretChecks` is one
whose line `name: exit=N` no longer parses afterwards (`Hidden`). `verify` works on what
is left. `recordedExit`, `others`, `committed`, `blind`, `damaged` and `cut` are history; `Calm`
limits how often the run is disturbed. A killed process counts as exit code 1.
What others do once there is nothing left to look at, or after the one `verify` that is
modelled, is cut off (`Mattering`): nothing could see it.

## 3. Runs

| Run | Instance | Shows |
|---|---|---|
| `governor` | 2 concurrent calls (symmetric) of 8 kinds, 7 kinds of session, 2 turns, budget 2, repeats 1, failures 2, HEAD may move | one true record each, authority, variance, ruling at the plan's HEAD, honest status, counters and limits, refinement of `ReferenceMonitor` |
| `terminal` | 2 calls, a read and an unlisted write; `run` with a budget of 1 and the flat form; 2 typed lines; a terminal or a pipe | attended answers reach their call, the budget holds under interleaving, a trip is terminal; every opened call is closed and every run ends |
| `planned_paths` | 20 spelled paths, 8 command lines, 2 calls | what plan, guard, tools, git and verifier understand by a path or a command fits together, except where the properties say |
| `preflight` | 128 setups, 5 sets of flags, 2 changes of the surroundings | the merge follows the documented precedence, a clean doctor means a start, a run that starts matches its plan |
| `evidence_log` | 3 sessions (symmetric), 4 records, legacy log absent, intact or broken | chain across sessions, per-session chain, no acknowledged record lost, migration, deletions show |
| `patch` | 2 appliers (symmetric), 2 files, 3 names, 3 versions, all faults, a kill, 1 save of an editor | success complete, rollback restores, staleness and damage explained, a kill damages one file, refinement of `AtomicPatch` when undisturbed |
| `certification` | 4 files: a planned one, two secrets (one of them ignored), one in a planned new directory whose name is redacted; 2 checks, the result of one redacted; a command that writes anything; 3 calls; 1 disturbance: a lost or torn record, git failing, others writing or committing, or a damaged log; the receipt may be edited besides | success is earned and on file, the verdict agrees with its table, changes outside the plan show in git's words, `verify` repeats the verdict unless redaction took it away, and nothing edited afterwards is certified |
| `sink_fault` | a failing sink | *violated*: an action without a record |
| `prompt_timeout` | fairness without answered prompts | *violated*: a timeout does not end a run that waits at a prompt |
| `log_fork` | 2 overlapping sessions | *violated*: one continuous chain across every process |
| `patch_rollback` | 1 applier, a write that fails half-way | *violated*: a clean rollback leaves a torn file |
| `new_directory` | as `planned_paths` | *violated*: git names a new directory, not the planned file in it |

The five violated ones state what a comment or a document of the repository says;
`findings` quotes them. Each property of the others has a mutant: a plausible bug,
written next to the definition it would replace (`\* Defect: ...`), under which TLC
finds the property violated.

Two modules also evaluate an assumption over every input of a bounded size before
their run: `MCPatch` that hunks replace exactly the counted matches (`HunksAreSound`:
every text of up to five characters), and `MCPreflight` that in an answer which reasons
first, or whose only draft is interrupted by reasoning, the draft a reader would take is
found (`AnswersAreRead`: reasoning and answer of up to three pieces each). Section 4 has
both for any length.

**Why the bounds are enough.** Two concurrent calls exhibit every pairwise race on
tracker, guard, prompt and log, and two turns let a call come after a trip. Budget,
repeats and failures are small enough for each to trip first in some behaviour. Two
lines are one for each prompt, or one typed ahead. Two steps of a planned run are a
write and a command that undoes or hides it, and the spelled paths contain a member
of every class that one of the five rule sets distinguishes. Two changes of the
surroundings are one between doctor and plan and one between plan and run, or a change
and its reversal; the setups overlap in every pair of neighbouring sources. Three
sessions are needed for one that forks, one that forks from it and one that reads;
four records let a middle record be deleted. Two files make a patch partial, the
second name makes it alias itself. Three calls of a run are a write, a failing or
passing check, and one that comes too late; one disturbance can fall between any two
steps. The disturbances are explored one at a time (`Calm`, `DisturbanceBound`); the
proofs of `Certification` allow any number. For the properties that are also proved, the
bounds only say where a mutant is caught.

**Deadlock** is not checked: sessions, patches, plans and certifications end.

**Fairness.** Safety assumes none. `FairTerminalSpec` assumes weak fairness of each
goroutine's steps and of its reads (the Go scheduler), of the loop and of the provider
answering or failing (its client has a timeout), and that somebody who sees an open
prompt types a line or ends the input; nobody has to answer the right one, and neither
deadline nor HEAD nor panics are fair. `FairSpec` of `Governor` is the same without
the human: that `TimeoutEndsRun` fails there is the run `prompt_timeout`, since a
prompt does not look at its context.

## 4. What is proved

TLAPS proves, for all values of the constants (any requests, limits, plans, files,
patches, numbers of calls, sessions and disturbances), from nothing but the named
`ASSUME`s:

* `LimitsProofs`. `LimitsInv` conjoins typing with `CountersMatchHistory` and the
  bounds. The bounds alone are not inductive: they are decided on counters, so the
  invariant says what each counter means of the history (`streak` is the length of the
  run of equal requests `admitted` ends with, and so on). From it: budget, stuck loop,
  flailing, `LimitsHold`, and the action property that a trip is terminal.
* `GovernorProofs`. `GovernorInv` is `TypeOK` plus one invariant per ticket
  (`TicketInv`: what must be known of a call at each stage, e.g. that one waiting to
  act has been admitted, ruled on and approved) plus one about the log (`EvidenceInv`:
  each record has a call, agrees with its ticket, and is the only one). A step of one
  call leaves the others' `TicketInv` alone; each action then needs only its own call.
  From it: types, one record, true records, variance, ruling HEAD, authority.
  `RunsTracker` shows that each run is a behaviour of `Limits`, whose theorems carry
  over.
  - `BudgetRespected`: the calls that are past the tracker are no more than the requests
    it admitted (`BudgetInv`), and `BudgetHolds` of `Limits` bounds those.
  - `HonestStatus`: `OutcomeInv` ties the cancel cause to the calls that were
    invalidated, and the loop to its calls: while one is under way there is no status,
    and one that a panic lost has left the loop with an error.
  - `RefinesMonitor`: as long as the log can be written (`~SinkFaults`; the run
    `sink_fault` shows what happens otherwise) each step is one of `ReferenceMonitor` or
    a stutter. Each action is first summed up by what it does to one ticket (`To...`,
    `...Moves`), and then only those few moves are mapped.
* `TerminalProofs`. A run at a prompt is a governed run (`PromptedRun`), so all of the
  above holds of it. `AnswersArrive`: that an answer reaches its prompt is not
  inductive, since what was typed and not yet read is in no history. `Undivided` says
  that while the run is attended at most one prompt is open and at most one line,
  typed for it, is unread.
* `PlannedRunProofs`. `StayInv` follows a file from the guard's match of the cleaned
  spelling to the write (`YesStaysInPlan`); `CheckInv` follows a check from the call to
  its record through redaction and spacing (`AcceptedChecksCount`). The other two
  need `KnownInv` (what is changed lies in the workspace, what is written passed the
  guard, what is reported is git's report) and to know what `Clean` returns for every
  path: no empty segment, no ".", ".." only at the beginning (`CleanCleans`), and a
  path that is clean but for slashes at its end loses those and nothing else
  (`CleanDrops`). `ToolsAreHarmless` compares the guard's and the tools' names for
  secrets with the verifier's. `Clean` is a recursive function; what it holds after n
  segments is proved from the least n for which it would not (`Rising`, from the
  well-foundedness of the naturals).
* `PreflightProofs`. `HashInv` says that a plan file nobody sealed again carries the
  hash of the content it was planned with, so that it loads only with that content;
  with the gates it gives `RunMatchesPlan`. `DoctorIsEnough` is a theorem about one
  state, for every configuration; that doctor's test of `keyEnv` covers the provider's of
  `needsAuth` follows from the entries of the registry, and would not for an entry that
  asks for a key without naming its variable. `MergeFollowsPrecedence` computes the nested merge
  setting by setting and compares it with the first source that has the setting; the
  merge decides about the variables of MiniMax before it is finished, and agrees with
  the provider it ends with because those variables do not hold a provider
  (`NativeInv`, from `PreflightAssumption`).
  - `DraftIsFound`, for answers of any length: the newest draft of an answer that
    reasons first is the newest of what follows the reasoning, and of a draft that is
    interrupted `Stripped` holds back the reasoning and leaves the two halves
    (`ReadingExists`: it is a recursive function on the pieces read so far).
* `EvidenceLogProofs`. `TypeInv`; `KeepInv` (an acknowledged line is in the file, and
  a cut or late copy is the only thing that takes it out) gives `AcknowledgedStay`.
  `ChainInv` relates, for every session, the last of its lines in the file to the hash
  its sink will chain from; it survives appends, merged lines and overlays, and gives
  `EachSessionChains`.
  - `DeletionsShow`: `HashInv` says that hashes are given out in order and that no
    record binds to itself. Were a middle record missing unnoticed, its neighbour
    would have its hash and it would be bound to itself. For lines of the legacy log
    that is the assumption `EvidenceLogAssumption` makes (a record's hash covers the
    hash it binds to).
  - `OneChain` and `LegacyIsContinued`: with sessions one after the other whoever
    takes a step is alone (`NobodyElse`), and `Prepared` says of each stage of its
    opening what it has made sure of: that the copy is there, that the hash it read is
    the last one.
* `PatchProofs`. `PatchInv` says of each phase of a call which files are checked,
  written and read back, and that a file which is not the version that was checked has
  been written by somebody else. From it: `FreshUnlessDisturbed` and
  `SuccessIsComplete`, under whatever names.
  - `RollbackIsClean` and `KillDamagesOne` need `UndoInv`: the file being written is
    truncated and nothing else; every other file holds the version of one of its
    changes; and the rollback still has before it whatever does not hold its
    pre-image, although a file may have been written under several names.
  - `DamageReported`: `ReportInv` names for each damaged file a call that answers for
    it, and keeps that call answerable until the file is sound.
  - `CountedIsReplaced`, for texts and hunks of any length: `Scanned` says of what
    `strings.Count` has found up to a place that each match is the first one from the
    end of the match before; that is what `replaceNth` searches for in its next round
    (`RoundFinds`).
  - `RefinesAtomicPatch`: two calls that write one file have disturbed each other
    (`Apart`), so what is promised of a file is a function of at most one writer
    (`PromiseInv`); each step of an undisturbed call then keeps every promise, or is
    the one step that applies its patch, refuses it or breaks.
* `CertificationProofs`. For every input whatsoever, verdict and check table agree
  (`VerdictMatchesChecks`). Every property of `Certification` that is checked.
  `CertificationInv`: how far receipt and exit code are in each phase. `LogInv`: until
  the log is damaged it holds the records the sink took, numbered from 1 to `last`, and
  as long as its end is not cut off, a log that is still a chain has the last recorded
  exit code of every check (`Faithful`): appending keeps that up, a lost record leaves
  log and history alone (`LogLost`), an edit breaks the chain, and so does a removal
  unless it takes the first record, which is harmless, or the last. `Largest` (a
  non-empty finite set of numbers has a largest) is what `acceptanceResults` needs.
  `ObservedInv`: undisturbed, every change git reports is named in one of the two ways,
  what was observed is still so, and the verdict is a function of it; `verify` computes
  it again from what was not redacted (`NothingHidden`, `Repeated`), and where something
  was, a planned check is missing or an unplanned name is there.

Typing is proved for `Governor`, `PlannedRun`, `EvidenceLog`, `Patch` and
`Certification`. Every invariant and every action property that a run checks is
stated by a theorem, and so are both refinements, without their fairness.

**Only model-checked:** `EveryRunEnds` and `ImplementsFairMonitor`: fairness and
ENABLED are beyond the prover.

**What the assumptions say.** `PlannedRunAssumption`: a path has a segment; the files
of the workspace are spelled cleaned; git does not escape the slash. The rest of it,
and `PreflightAssumption`, are in the modules with their reasons.
`CertificationAssumption`: redaction does not turn a name into one the plan has (it puts
`[REDACTED]` into it). TLC evaluates each of them in the runs.

## 5. What the properties do not say

Five places where code and documents disagree have a finding and a run that shows it.
Four more are plain from the definitions, and the properties step around them:

* `gitstate.go:80` asks git for a status without ignored files, so "git internals and
  secret files must be untouched" (`runverify.go:308`) is not tested of an ignored
  `.env`: a command of the run may write it and the run is certified (`Reportable`).
* `receipt.go:169` redacts the results before they are stored, and `verify_cmd.go:147`
  "parses the receipt's recorded "name: exit=N" test results back". What redaction took
  away (`redact.go:18`: a name that ends in `token`, say) no longer parses, so `verify`
  finds a verified run inconclusive (`Hidden`).
* `evidence.go:79` says "deleting or editing a record breaks the chain for every record
  after it", `SECURITY.md:47` the same of "any record". `VerifyChain` begins with what
  the first record it is given binds to (`evidence.go:226`), so the first record of a log
  can go, and the last.
* `planguard.go:141`: the guard "must be at least as strict as what a plan may propose, or
  an approval prompt could be offered for a file the planner itself may never name". It is
  weaker for a leading `~`, for the directories of credential stores and for `.git` at the
  end of a path (`GuardForbids` against `PlanForbids`).

What else the properties except, and what follows from a finding for those that hold:

* `PassedChecksOnly` needs the log's end: a log that loses its last records is an
  intact chain. It speaks of the last *recorded* result of a check: a failing re-run
  whose record the log refused (`sink_fault`) leaves the passing one before it, and the
  run is certified. And it does not speak of the files as they are later.
* `PlannedChangesOnly` needs git to answer (a failing query counts as "no changes")
  and a run that did not commit (a commit hides what it contains). It says nothing of
  ignored files, and a plan that names a new directory as git prints
  it covers everything in it.
* `LaterVerifyAgrees` lets `verify` with the plan come to another verdict when a reported
  name or a result was redacted, but never to a certified one. Without
  the plan a failed check whose result was redacted is not missed either, so `verify` may
  then certify what `run` had failed.
* `verify` without a plan takes the receipt's change set as its baseline and never
  looks at how the loop ended: `CertifiesOnlyTheRecord` says what it still refuses.
* `DeletionShows` is about records with a neighbour on either side: the end of a log is
  nowhere anchored, and neither is its beginning.
* `FreshUnlessDisturbed` allows a patch to overwrite what somebody wrote between its
  check and its write: the code cannot exclude it.
* `AnswerReachesItsPrompt` holds for attended prompts. Two prompts of one batch, or a
  line typed ahead, are decided by whichever reader comes first. A line counts as
  approval by the words `approval.go` lists, although the comment above it speaks of a
  leading "y".
* `ToolsTouchNothingForbidden` excepts `credentials.json` and `*.age`, which only the
  verifier calls secrets, and a new directory that is called like a secret. It is about
  what the tools write; a command may write anything.
* `AcceptedChecksCount`: a plan may contain checks that `run_command` refuses (`-C`,
  `!`), checks that look like secrets, and two checks with the same words; none of them
  can count. Every plan needs an acceptance check and with it the capability to
  execute, so a run that also writes needs both flags.
* `UnplannedShows`: what the plan names and what git reports
  are compared as spelled, so a plan that names a new directory with a slash at its end
  covers all files in it, also one whose name git escapes and the plan spells so. A new
  directory is one line of git's report; `git add` splits it into files; unusual names
  are escaped; ignored files do not show; files that were dirty before the run, and
  paths when the workspace is below the top of the repository, count as unplanned. The
  verifier's patterns with `.git` match nothing git reports.
* `MergedAsDocumented`: each setting comes from the first source that has it, so the
  provider may come from one source and the model or the base URL from another.
* `DoctorMeansStartable`: no check tries to read the workspace or to open the log.
  That the evidence directory is outside the workspace is checked by the configuration
  only when both are set, by doctor on the spelling, and not at all for the default
  state directory.
* `RunMatchesPlan`: base URL and approver are not pinned by a plan, and a run by plan id
  does not compare the id with the one in the file.
* Of several complete drafts in an answer the newest wins, so one inside reasoning that
  comes after the answer outranks it, and so does one inside reasoning that interrupts
  the answer's own draft.

## 6. Plan

Done: all modules above, with the proofs of section 4. Left, in this order:

1. A composition of `EvidenceLog` and `Certification`: the log of a run read back while
   other sessions append. Each is modelled with the other's part as data (`readable`,
   `records`; sessions that only write).
2. The installer: install, upgrade, rollback with crashes between the script's steps.

## 7. Not modelled, and why

* Action verifiers (`verify`): pure comparisons whose results the records carry along;
  nothing is decided on them.
* Evidence listing (`cli/evidence_cmd.go`): read-only; the chain check it calls is
  `Verifies` of `EvidenceLog`.
* Identity, version, dispatch and output: constants and formatting.
* The installer: a shell script apart from the program; its one hazard is listed.
* Of parts that are modelled: prompts and wording, timeouts of HTTP clients, output
  caps, the scripted fake provider, listing and searching, symbolic links below the
  root (left to `os.Root`), decoding of patch documents, patterns of secrets (data).
* The Eino loop, git, the file system and the terminal are external: they are modelled
  from how the code uses them, and marked so in `map`.

## 8. Running

    tlc -workers 2 -config MCGovernor.cfg MCGovernor
    tlapm GovernorProofs.tla

The longest runs (`certification`, `evidence_log`, `patch`) take half a minute to a minute
with four workers.
