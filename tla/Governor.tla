------------------------------ MODULE Governor ------------------------------
(***************************************************************************)
(* One governed run: the agent loop proposes batches of tool calls, the    *)
(* calls of a batch run concurrently, and every call goes through the      *)
(* governor (internal/governor) on its way to its effect:                  *)
(*                                                                         *)
(*   Begin, the tool's own checks, limits, policy, plan guard, approval,   *)
(*   execution seam, effect, evidence record, limits again                 *)
(*                                                                         *)
(* A call's ticket is local to it; what the calls share is the usage       *)
(* tracker (module Limits), the evidence log, the run context's cancel     *)
(* cause, and the workspace's HEAD, which the guard reads and which other  *)
(* processes and the run's own commands move.                              *)
(*                                                                         *)
(* A step of this module is one access to something shared together with   *)
(* the local work around it.                                               *)
(***************************************************************************)
EXTENDS Limits

CONSTANTS
  Calls,       \* the tool calls the model may make in the run
  MaxSteps,    \* adk MaxIterations: how many times the model may be asked
  Risk,        \* [Requests -> Risks]: the risk class of the request's tool
  Precheck,    \* [Requests -> Prechecks]: what the tool checks before Authorize
  Listed,      \* requests whose paths or command the plan names
  Forbidden,   \* requests the guard's forbiddenWrite refuses
  Committing,  \* commands that move HEAD when they run
  Sessions,    \* the flag combinations runs are started with
  StartSHA,    \* the HEAD the plan was made at
  OtherSHAs,   \* other commits HEAD may move to, and an unreadable HEAD
  SinkFaults   \* whether a write of the evidence log may fail

Risks == {"R0", "R1", "R2", "R3", "R4"}
Risky == {"R2", "R3"}
Prechecks == {"pass", "denied", "error"}
Approvers == {"auto", "prompt", "deny"}
Heads == OtherSHAs \cup {StartSHA}
Modes == {"run", "plan", "flat"}

\* A session is one invocation: the subcommand, the capabilities granted to it
\* and its approver.  `plan` never grants a capability, the flat form cannot
\* grant execution, the configuration of `run` refuses execution without
\* writes, and only `run` has a plan guard and a usage tracker.
Session == {s \in [mode: Modes, writes: BOOLEAN, exec: BOOLEAN, approver: Approvers] :
              /\ s.mode = "plan" => ~s.writes
              /\ s.exec => s.mode = "run" /\ s.writes}

ASSUME GovernorAssumption ==
  /\ MaxSteps \in Nat \ {0}
  /\ Risk \in [Requests -> Risks]
  /\ Precheck \in [Requests -> Prechecks]
  /\ Sessions \subseteq Session
  /\ StartSHA \notin OtherSHAs
  /\ None \notin Heads
  /\ SinkFaults \in BOOLEAN
  /\ NoRequest \notin Requests

VARIABLES
  session,   \* flags and configuration of the run; never changes
  head,      \* the workspace's HEAD
  loop,      \* the agent loop: "thinking", "acting" or "ended"
  turn,      \* model turns taken
  runErr,    \* the error agent.Run returned, or None
  status,    \* the typed status of the finished run, or None
  ticket,    \* the state of each call
  evidence   \* the records in the log, oldest first

runVars == <<session, head, loop, turn, runErr, status, ticket, evidence>>
vars == <<limitVars, runVars>>

Stages == {"unused", "begin", "ruling", "approval", "effect", "finish", "settle",
           "return", "done"}

\* authorization, approvedBy and execution are fields of the evidence record;
\* ruledAt and effectAt remember the HEAD the guard saw and the HEAD the effect
\* happened at, and only properties read them.
Ticket == [stage: Stages, req: Requests \cup {NoRequest}, variance: BOOLEAN,
           authorization: {None, "denied", "allowed"},
           approvedBy: Approvers \cup {None},
           execution: Executions \cup {None}, emitted: BOOLEAN,
           ruledAt: Heads \cup {None}, effectAt: Heads \cup {None}]

NewTicket == [stage |-> "unused", req |-> NoRequest, variance |-> FALSE,
              authorization |-> None, approvedBy |-> None, execution |-> None,
              emitted |-> FALSE, ruledAt |-> None, effectAt |-> None]

EvidenceRecord == [call: Calls, authorization: {None, "denied", "allowed"},
                   execution: Executions]

Statuses == LimitNames \cup OtherCauses
              \cup {"max_steps_exhausted", "provider_error", "completed", "failed"}
RunErrors == {"max_iterations", "other"}

Init ==
  /\ LimitsInit
  /\ session \in Sessions
  /\ head = StartSHA
  /\ loop = "thinking"
  /\ turn = 0
  /\ runErr = None
  /\ status = None
  /\ ticket = [c \in Calls |-> NewTicket]
  /\ evidence = <<>>

-----------------------------------------------------------------------------
(***************************************************************************)
(* Rulings: pure functions of the session, the plan and the HEAD.          *)
(***************************************************************************)

UnderPlan == session.mode = "run"

\* tools.All, and tools.ReadOnly for `plan`.
Toolset == IF session.mode = "plan" THEN {r \in Requests : Risk[r] \in {"R0", "R1"}}
                                    ELSE Requests

\* policy.Evaluate
PolicyAllows(risk) ==
  \/ risk \in {"R0", "R1"}
  \/ risk = "R2" /\ session.exec
  \/ risk = "R3" /\ session.writes

\* Defect: commands need no approval.
WritesRequireApproval(risk) == risk = "R3"
PolicyRequiresApproval(risk) == risk \in Risky

\* planguard.Check, its outcomes in the order the code decides them.
GuardDenies(req) == UnderPlan /\ Risk[req] = "R3" /\ req \in Forbidden
\* Defect: HEAD is not read again for commands.
HeadMovedForWrites(req) == UnderPlan /\ Risk[req] = "R3" /\ head # StartSHA
HeadMoved(req) == UnderPlan /\ Risk[req] \in Risky /\ head # StartSHA
GuardInvalidates(req) == ~GuardDenies(req) /\ HeadMoved(req)
GuardRequiresApproval(req) ==
  UnderPlan /\ Risk[req] \in Risky /\ req \notin Listed

\* Defect: -yes approves an action outside the plan.
AnswersIgnoringVariance(approver, variance) ==
  CASE approver = "auto"   -> {TRUE}
    [] approver = "deny"   -> {FALSE}
    [] approver = "prompt" -> BOOLEAN

\* approval: the answers an approver may give to a request.
Answers(approver, variance) ==
  CASE approver = "auto"   -> {~variance}
    [] approver = "deny"   -> {FALSE}
    [] approver = "prompt" -> BOOLEAN

-----------------------------------------------------------------------------
(***************************************************************************)
(* The governor: what one call does.                                       *)
(***************************************************************************)
At(c, stage) == ticket[c].stage = stage
Becomes(c, t) == ticket' = [ticket EXCEPT ![c] = t]

\* Defect: a denial that does not say so in its record.
DenyTicketUnlabelled(t) == [t EXCEPT !.stage = "finish", !.authorization = "denied"]

\* FinishDenied, up to the emission of the record.
DenyTicket(t) == [t EXCEPT !.stage = "finish", !.execution = "denied",
                           !.authorization = "denied"]

\* The tool refuses or fails before Authorize: nothing is counted.
BeginPrechecked(c) ==
  /\ At(c, "begin")
  /\ \/ /\ Precheck[ticket[c].req] = "denied"
        /\ Becomes(c, DenyTicket(ticket[c]))
     \/ /\ Precheck[ticket[c].req] = "error"
        /\ Becomes(c, [ticket[c] EXCEPT !.stage = "finish", !.execution = "error"])
  /\ UNCHANGED <<limitVars, session, head, loop, turn, runErr, status, evidence>>

BeginLimited(c) ==
  /\ At(c, "begin")
  /\ UnderPlan
  /\ Precheck[ticket[c].req] = "pass"
  /\ OnBeginRefuse(ticket[c].req)
  /\ Becomes(c, DenyTicket(ticket[c]))
  /\ UNCHANGED <<session, head, loop, turn, runErr, status, evidence>>

BeginAdmitted(c) ==
  /\ At(c, "begin")
  /\ Precheck[ticket[c].req] = "pass"
  /\ IF UnderPlan THEN OnBeginAdmit(ticket[c].req) ELSE UNCHANGED limitVars
  /\ Becomes(c, [ticket[c] EXCEPT !.stage = "ruling"])
  /\ UNCHANGED <<session, head, loop, turn, runErr, status, evidence>>

RuleDenied(c) ==
  /\ At(c, "ruling")
  /\ ~PolicyAllows(Risk[ticket[c].req]) \/ GuardDenies(ticket[c].req)
  /\ Becomes(c, DenyTicket(ticket[c]))
  /\ UNCHANGED <<limitVars, session, head, loop, turn, runErr, status, evidence>>

\* The guard found HEAD moved: the call is denied and the run cancelled.
RuleInvalidated(c) ==
  /\ At(c, "ruling")
  /\ PolicyAllows(Risk[ticket[c].req])
  /\ GuardInvalidates(ticket[c].req)
  /\ CancelElsewhere("plan_invalidated")
  /\ Becomes(c, DenyTicket([ticket[c] EXCEPT !.ruledAt = head]))
  /\ UNCHANGED <<session, head, loop, turn, runErr, status, evidence>>

\* Neither policy nor guard refuses: go on to the approver, or past it.
RulePermitted(c) ==
  LET req == ticket[c].req
      variance == GuardRequiresApproval(req)
      approval == PolicyRequiresApproval(Risk[req]) \/ variance
  IN
  /\ At(c, "ruling")
  /\ PolicyAllows(Risk[req])
  /\ ~GuardDenies(req)
  /\ ~HeadMoved(req)
  /\ Becomes(c, [ticket[c] EXCEPT
                  !.stage = IF approval THEN "approval" ELSE "effect",
                  !.authorization = IF approval THEN None ELSE "allowed",
                  !.variance = variance,
                  !.ruledAt = head])
  /\ UNCHANGED <<limitVars, session, head, loop, turn, runErr, status, evidence>>

\* The approver answers.  The local execution seam mediates nothing.
Approve(c) ==
  /\ At(c, "approval")
  /\ TRUE \in Answers(session.approver, ticket[c].variance)
  /\ Becomes(c, [ticket[c] EXCEPT !.stage = "effect", !.authorization = "allowed",
                                  !.approvedBy = session.approver])
  /\ UNCHANGED <<limitVars, session, head, loop, turn, runErr, status, evidence>>

\* Defect: the approver's answer is not looked at.
DeclineIgnored(c) ==
  /\ At(c, "approval")
  /\ FALSE \in Answers(session.approver, ticket[c].variance)
  /\ Becomes(c, [ticket[c] EXCEPT !.stage = "effect"])
  /\ UNCHANGED <<limitVars, session, head, loop, turn, runErr, status, evidence>>

Decline(c) ==
  /\ At(c, "approval")
  /\ FALSE \in Answers(session.approver, ticket[c].variance)
  /\ Becomes(c, DenyTicket(ticket[c]))
  /\ UNCHANGED <<limitVars, session, head, loop, turn, runErr, status, evidence>>

\* The tool acts and calls Finish, or fails to act and calls FinishError.
Effect(c) ==
  /\ At(c, "effect")
  /\ Becomes(c, [ticket[c] EXCEPT !.stage = "finish", !.execution = "ok",
                                  !.effectAt = head])
  /\ IF ticket[c].req \in Committing THEN head' \in Heads ELSE head' = head
  /\ UNCHANGED <<limitVars, session, loop, turn, runErr, status, evidence>>

\* Defect: a tool that fails to act reports the call as denied.
EffectFailsDenied(c) ==
  /\ At(c, "effect")
  /\ \E at \in {None, head} : Becomes(c, [DenyTicket(ticket[c]) EXCEPT !.effectAt = at])
  /\ UNCHANGED <<limitVars, session, head, loop, turn, runErr, status, evidence>>

\* A failed write may have changed the file all the same.
EffectFails(c) ==
  /\ At(c, "effect")
  /\ \E at \in {None, head} :
       Becomes(c, [ticket[c] EXCEPT !.stage = "finish", !.execution = "error",
                                    !.effectAt = at])
  /\ UNCHANGED <<limitVars, session, head, loop, turn, runErr, status, evidence>>

\* A panic between Begin and the end of the tool reaches the deferred
\* EnsureEmitted at once, whether the tool had acted already or not.
Panic(c) ==
  /\ \/ /\ ticket[c].stage \in {"ruling", "approval"}
        /\ Becomes(c, [ticket[c] EXCEPT !.stage = "return"])
     \/ /\ At(c, "effect")
        /\ \E at \in {None, head} :
             Becomes(c, [ticket[c] EXCEPT !.stage = "return", !.effectAt = at])
  /\ runErr' = "other"
  /\ UNCHANGED <<limitVars, session, head, loop, turn, status, evidence>>

\* emit: the error of Sink.Write is dropped.
Emit(c) ==
  /\ At(c, "finish")
  /\ Becomes(c, [ticket[c] EXCEPT !.stage = "settle", !.emitted = TRUE])
  /\ \/ evidence' = Append(evidence,
                      [call |-> c, authorization |-> ticket[c].authorization,
                       execution |-> ticket[c].execution])
     \/ SinkFaults /\ UNCHANGED evidence
  /\ UNCHANGED <<limitVars, session, head, loop, turn, runErr, status>>

\* emit, its last part: the tracker learns how the call finished.
Settle(c) ==
  /\ At(c, "settle")
  /\ IF UnderPlan THEN OnFinish(ticket[c].execution) ELSE UNCHANGED limitVars
  /\ Becomes(c, [ticket[c] EXCEPT !.stage = "return"])
  /\ UNCHANGED <<session, head, loop, turn, runErr, status, evidence>>

\* Defect: EnsureEmitted does not ask whether a record was emitted.
EnsureEmittedAgain(c) ==
  /\ At(c, "return")
  /\ Becomes(c, [ticket[c] EXCEPT !.stage = "finish", !.execution = "aborted"])
  /\ UNCHANGED <<limitVars, session, head, loop, turn, runErr, status, evidence>>

\* Defect: no EnsureEmitted is deferred.
EnsureEmittedMissing(c) ==
  /\ At(c, "return")
  /\ ticket[c].emitted
  /\ Becomes(c, [ticket[c] EXCEPT !.stage = "done"])
  /\ UNCHANGED <<limitVars, session, head, loop, turn, runErr, status, evidence>>

\* The deferred EnsureEmitted: a second emission is suppressed by emitted.
EnsureEmitted(c) ==
  /\ At(c, "return")
  /\ \/ /\ ticket[c].emitted
        /\ Becomes(c, [ticket[c] EXCEPT !.stage = "done"])
     \/ /\ ~ticket[c].emitted
        /\ Becomes(c, [ticket[c] EXCEPT !.stage = "finish", !.execution = "aborted"])
  /\ UNCHANGED <<limitVars, session, head, loop, turn, runErr, status, evidence>>

-----------------------------------------------------------------------------
(***************************************************************************)
(* The agent loop (external: Eino's ADK), the deadline and the workspace.  *)
(***************************************************************************)
InBatch(c) == ticket[c].stage \notin {"unused", "done"}

\* The model answers with a batch of tool calls, run concurrently.
Propose ==
  /\ loop = "thinking"
  /\ cause = None
  /\ turn < MaxSteps
  /\ \E batch \in SUBSET {c \in Calls : At(c, "unused")} :
       /\ batch # {}
       /\ \E asked \in [batch -> Toolset] :
            ticket' = [c \in Calls |->
                         IF c \in batch
                           THEN [NewTicket EXCEPT !.stage = "begin", !.req = asked[c]]
                           ELSE ticket[c]]
  /\ loop' = "acting"
  /\ turn' = turn + 1
  /\ UNCHANGED <<limitVars, session, head, runErr, status, evidence>>

\* Defect: a panic of a tool does not end the loop.
BatchDoneWithoutError ==
  /\ loop = "acting"
  /\ \A c \in Calls : ~InBatch(c)
  /\ runErr = None
  /\ loop' = "thinking"
  /\ UNCHANGED <<limitVars, session, head, turn, runErr, status, ticket, evidence>>

\* Every call of the batch has returned: back to the model, unless a tool
\* panicked, which ends the loop with an error.
BatchDone ==
  /\ loop = "acting"
  /\ \A c \in Calls : ~InBatch(c)
  /\ loop' = IF runErr = None THEN "thinking" ELSE "ended"
  /\ UNCHANGED <<limitVars, session, head, turn, runErr, status, ticket, evidence>>

\* The model answers without tool calls, or the loop stops with an error: the
\* iterations are used up, the context is cancelled, or the provider failed.
EndLoop ==
  /\ loop = "thinking"
  /\ \/ cause = None /\ turn < MaxSteps /\ runErr' = None
     \/ cause = None /\ turn = MaxSteps /\ runErr' = "max_iterations"
     \/ runErr' = "other"
  /\ loop' = "ended"
  /\ UNCHANGED <<limitVars, session, head, turn, status, ticket, evidence>>

\* Defect: the loop's own result is looked at before the cancel cause.
OutcomeErrorFirst ==
  CASE runErr = None             -> "completed"
    [] runErr = "max_iterations" -> "max_steps_exhausted"
    [] runErr = "other"          -> "provider_error"

\* classifyRunOutcome of `run`: the cancel cause outranks the loop's own error, and a
\* limit outranks an error other than the exhausted iterations.
Outcome ==
  CASE cause # None                -> cause
    [] cause = None /\ runErr = "max_iterations" -> "max_steps_exhausted"
    [] cause = None /\ runErr # "max_iterations" /\ tripped # None -> tripped
    [] cause = None /\ runErr = "other" /\ tripped = None -> "provider_error"
    [] cause = None /\ runErr = None /\ tripped = None -> "completed"

Classify ==
  /\ loop = "ended"
  /\ status = None
  /\ status' = CASE UnderPlan -> Outcome
                 [] ~UnderPlan /\ runErr = None -> "completed"
                 [] ~UnderPlan /\ runErr # None -> "failed"
  /\ UNCHANGED <<limitVars, session, head, loop, turn, runErr, ticket, evidence>>

\* -timeout elapses; the flat form has none.
Timeout ==
  /\ session.mode # "flat"
  /\ cause = None
  /\ status = None
  /\ CancelElsewhere("timeout")
  /\ UNCHANGED runVars

\* Somebody else commits, checks out or resets in the workspace.
MoveHead ==
  /\ status = None
  /\ \E sha \in Heads \ {head} : head' = sha
  /\ UNCHANGED <<limitVars, session, loop, turn, runErr, status, ticket, evidence>>

Answer(c) == Approve(c) \/ Decline(c)

\* What the program does in call c without waiting for anybody.
Work(c) ==
  \/ BeginPrechecked(c) \/ BeginLimited(c) \/ BeginAdmitted(c)
  \/ RuleDenied(c) \/ RuleInvalidated(c) \/ RulePermitted(c)
  \/ Effect(c) \/ EffectFails(c) \/ Emit(c) \/ Settle(c) \/ EnsureEmitted(c)

Next ==
  \/ \E c \in Calls : Work(c) \/ Answer(c) \/ Panic(c)
  \/ Propose \/ BatchDone \/ EndLoop \/ Classify
  \/ Timeout \/ MoveHead

Spec == Init /\ [][Next]_vars

\* Every goroutine of the run gets to go on, and so does the loop; nobody has
\* to answer a prompt, commit, or let the deadline pass.
Fairness ==
  /\ \A c \in Calls : WF_vars(Work(c))
  /\ WF_vars(Propose \/ EndLoop)
  /\ WF_vars(BatchDone)
  /\ WF_vars(Classify)

FairSpec == Spec /\ Fairness

-----------------------------------------------------------------------------
(***************************************************************************)
(* The governor implements a reference monitor.                            *)
(***************************************************************************)
MonitorState(c) ==
  CASE ticket[c].stage = "unused" -> "idle"
    [] ticket[c].stage = "done" -> "closed"
    [] ticket[c].stage # "done" /\ ticket[c].emitted -> "recorded"
    [] ~ticket[c].emitted /\ ticket[c].effectAt # None -> "acted"
    [] ~ticket[c].emitted /\ ticket[c].effectAt = None
         /\ ticket[c].authorization = "allowed" -> "allowed"
    [] OTHER -> "open"

MonitorVerdict(execution) ==
  CASE execution = "ok" -> "done"
    [] execution = "denied" -> "refused"
    [] OTHER -> "unclear"

Monitor == INSTANCE ReferenceMonitor WITH
  state <- [c \in Calls |-> MonitorState(c)],
  log <- [i \in 1..Len(evidence) |->
            [call |-> evidence[i].call,
             verdict |-> MonitorVerdict(evidence[i].execution)]]

\* governor.go: a governed run is a reference monitor of its calls.
ImplementsMonitor == Monitor!Spec

\* ... that also closes every call it opened, when prompts are answered.
ImplementsFairMonitor == Monitor!FairSpec

-----------------------------------------------------------------------------
(***************************************************************************)
(* Properties.                                                             *)
(***************************************************************************)
TypeOK ==
  /\ LimitsTypeOK
  /\ session \in Session
  /\ head \in Heads
  /\ loop \in {"thinking", "acting", "ended"}
  /\ turn \in 0..MaxSteps
  /\ runErr \in RunErrors \cup {None}
  /\ status \in Statuses \cup {None}
  /\ ticket \in [Calls -> Ticket]
  /\ evidence \in Seq(EvidenceRecord)

Recorded(c) == \E i \in 1..Len(evidence) : evidence[i].call = c
Acted(c) == ticket[c].effectAt # None
Invalidated(c) ==
  /\ UnderPlan
  /\ ticket[c].execution = "denied"
  /\ ticket[c].ruledAt \in OtherSHAs

\* governor.go, package comment: exactly one record is emitted for every
\* action, allowed, denied, executed, failed or aborted by a panic.  Holds as
\* long as the log can be written.
ExactlyOneRecord ==
  /\ \A i, j \in 1..Len(evidence) : i # j => evidence[i].call # evidence[j].call
  /\ ~SinkFaults => \A c \in Calls : At(c, "done") => Recorded(c)

\* governor.go Finish*: the record of a call says what happened to it.  What
\* acted is recorded as an allowed action, and is never recorded as denied; a
\* denial never acts, not even after its record was written.
RecordsTellTheTruth ==
  \A i \in 1..Len(evidence) :
    LET r == evidence[i] IN
    /\ r.execution = "ok" => Acted(r.call)
    /\ Acted(r.call) => r.authorization = "allowed" /\ r.execution # "denied"
    /\ r.execution = "denied" => r.authorization = "denied"

\* approval.go AutoApprove, planguard.go: --yes never launders an out-of-plan
\* action.  Under a plan, whatever is written or executed is in the plan or
\* was approved by a human, and is never something the guard forbids to write.
VarianceNeedsHuman ==
  \A c \in Calls :
    LET t == ticket[c] IN
    Acted(c) /\ UnderPlan /\ Risk[t.req] \in Risky =>
      /\ t.req \in Listed \/ t.approvedBy = "prompt"
      /\ ~(Risk[t.req] = "R3" /\ t.req \in Forbidden)

\* planguard.go, package comment: before every ruling on a write or a command
\* the guard re-reads HEAD.  Whatever acted under a plan was ruled on while
\* HEAD was where the plan was made (HEAD may have moved since, while the
\* approver was being asked).
RuledAtPlanHead ==
  \A c \in Calls :
    Acted(c) /\ UnderPlan /\ Risk[ticket[c].req] \in Risky => ticket[c].ruledAt = StartSHA

\* policy.go Evaluate with Authorize: an effect happens only within the
\* granted capabilities, a write or a command only with an approval, and only
\* after the usage tracker admitted the call.
EffectsWithinAuthority ==
  \A c \in Calls :
    LET t == ticket[c] IN
    Acted(c) =>
      /\ CASE Risk[t.req] = "R2" -> session.exec
           [] Risk[t.req] = "R3" -> session.writes
           [] OTHER -> Risk[t.req] # "R4"
      /\ Risk[t.req] \in Risky => t.approvedBy \in {"auto", "prompt"}
      /\ UnderPlan => \E i \in 1..Len(admitted) : admitted[i] = t.req

\* limits.go over governor.go: the run has no more effects than its budget,
\* however its calls interleave.
EffectsWithinBudget ==
  UnderPlan /\ MaxToolCalls > 0 => Cardinality({c \in Calls : Acted(c)}) <= MaxToolCalls

\* classifyRunOutcome: the status says what happened.  A run reported as
\* completed hit no limit, had its plan invalidated by no call, and lost no call
\* to a panic; one reported as stopped by a limit, or by an invalidated plan,
\* was; and a limit that tripped is reported unless the deadline or the guard
\* cancelled the run before it.
StatusIsHonest ==
  /\ UnderPlan /\ status = "completed" =>
       /\ tripped = None
       /\ \A c \in Calls : ticket[c].execution # "aborted" /\ ~Invalidated(c)
  /\ status \in LimitNames => status = tripped
  /\ status = "plan_invalidated" => \E c \in Calls : Invalidated(c)
  /\ status # None /\ tripped # None => status \in LimitNames \cup OtherCauses

\* Every run ends with a typed status, whatever its calls do and wherever they
\* panic, provided that prompts are answered.
EveryRunEnds == <>(status # None)

\* What governor.go's package comment and P4 of the operating rules say: no call
\* returns without its record, on any path.
EveryActionRecorded == \A c \in Calls : At(c, "done") => Recorded(c)

\* What common_flags.go says of -timeout ("overall run timeout"): once it has
\* elapsed the run ends, with or without an answer to an open prompt.
TimeoutEndsRun == (cause = "timeout") ~> (status # None)
=============================================================================
