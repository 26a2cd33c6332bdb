----------------------------- MODULE Preflight -----------------------------
(***************************************************************************)
(* What `plan` and `run` do before a model or a tool works: they load the  *)
(* configuration, open workspace and evidence log, and build the model;    *)
(* `plan` then seals the draft of the model in a file, and `run`, later,   *)
(* loads that file and compares it with what it finds.  In between, files, *)
(* variables, keys, the workspace and the plan file itself may change, and *)
(* the flags may be others.  What happens after the gates is modules       *)
(* Governor, PlannedRun and Certification.                                 *)
(*                                                                         *)
(* A hash is modelled by what it is computed from.  A command that is      *)
(* refused changes nothing, and has no action.                             *)
(***************************************************************************)
EXTENDS Setup, PlanDraft

CONSTANTS
  Setups,       \* what files, variables and keys may be
  FlagSets,     \* the flags of a command
  Answers,      \* what the model may answer in planning mode
  DraftOf,      \* the content of every draft
  Roots,        \* workspaces
  Commits,
  FirstCommit,  \* the HEAD of every root at the beginning
  EvidenceDirs, \* where the log may be; "" is the state directory
  ChangeBound   \* how often the surroundings change

\* MiniMax has no variables but MINIMAX_BASE_URL and MINIMAX_MODEL.
ASSUME PreflightAssumption ==
  \A s \in Setups :
    /\ DOMAIN s = {"env", "legacy", "minimax", "keys", "files"}
    /\ DOMAIN s.minimax \subseteq {"base_url", "model"}

VARIABLES
  setup,     \* files, variables and keys
  disk,      \* what is at each root: "directory", "closed", "file" or "absent"
  head,      \* the HEAD of each root, None if there is none or no repository
  state,     \* whether the state directory can be written
  logs,      \* the evidence directories whose log can be opened
  file,      \* the plan file: content and stored hash, or None
  planned,   \* history: configuration, head and draft the file was made from
  resealed,  \* history: somebody changed the file and its hash
  started,   \* configuration and head a run was let through with, or None
  changes    \* how often the surroundings changed

vars == <<setup, disk, head, state, logs, file, planned, resealed, started, changes>>
surroundings == <<setup, disk, head, state, logs>>

Init ==
  /\ setup \in Setups
  /\ disk = [r \in Roots |-> "directory"]
  /\ head = [r \in Roots |-> FirstCommit]
  /\ state = TRUE
  /\ logs = EvidenceDirs
  /\ file = None
  /\ planned = None
  /\ resealed = FALSE
  /\ started = None
  /\ changes = 0

-----------------------------------------------------------------------------
Change ==
  /\ started = None
  /\ changes < ChangeBound
  /\ changes' = changes + 1
  /\ \/ /\ \E f \in DOMAIN setup :
              \E v \in {s[f] : s \in Setups} : setup' = [setup EXCEPT ![f] = v]
        /\ UNCHANGED <<disk, head, state, logs>>
     \/ \E r \in Roots :
          \/ /\ \E kind \in {"closed", "file", "absent"} : disk' = [disk EXCEPT ![r] = kind]
             /\ head' = [head EXCEPT ![r] = None]
             /\ UNCHANGED <<setup, state, logs>>
          \/ /\ disk[r] = "directory"
             /\ \E c \in Commits \cup {None} : head' = [head EXCEPT ![r] = c]
             /\ UNCHANGED <<setup, disk, state, logs>>
     \/ state' = FALSE /\ logs' = logs \ {""} /\ UNCHANGED <<setup, disk, head>>
     \/ \E d \in EvidenceDirs : logs' = logs \ {d} /\ UNCHANGED <<setup, disk, head, state>>
  /\ UNCHANGED <<file, planned, resealed, started>>

\* workspace.New, openEvidenceSink and modelFactory with a loaded configuration.
Starts(c) ==
  /\ c # NoConfig
  /\ disk[Root(c)] = "directory"
  /\ c.evidence_dir \in logs
  /\ FromConfig(setup.keys, c)

\* cli.requiredCapabilities; a draft always has acceptance checks.
RequiredCapabilities(d) ==
  d.declared \cup {"exec"} \cup (IF d.files THEN {"writes"} ELSE {})

\* The plan of a draft, made with configuration c.
Content(c, d) ==
  [workspace |-> Root(c), sha |-> head[Root(c)], provider |-> c.provider, model |-> c.model,
   capabilities |-> RequiredCapabilities(d), valid |-> d.valid]

\* cmdPlan, to the end: Finalize seals the plan, Save validates it.
Plan(flags) ==
  LET c == Load(setup, flags) IN
  /\ started = None
  /\ Starts(c)
  /\ state
  /\ \E a \in Answers :
       LET d == DraftOf[ParsePlanDraft(a)] IN
       /\ ParsePlanDraft(a) # NoDraft
       /\ d.valid
       /\ file' = [content |-> Content(c, d), hash |-> Content(c, d)]
       /\ planned' = [config |-> c, head |-> head[Root(c)], draft |-> d]
  /\ resealed' = FALSE
  /\ UNCHANGED <<surroundings, started, changes>>

\* Somebody edits the plan file, and may seal it again.
Edit ==
  /\ started = None
  /\ file # None
  /\ changes < ChangeBound
  /\ changes' = changes + 1
  /\ \E content \in {[file.content EXCEPT !.workspace = r] : r \in Roots}
                      \cup {[file.content EXCEPT !.sha = None],
                            [file.content EXCEPT !.model = "M2"],
                            [file.content EXCEPT !.capabilities = {}]} :
       /\ content # file.content
       /\ \/ file' = [content |-> content, hash |-> file.hash] /\ UNCHANGED resealed
          \/ file' = [content |-> content, hash |-> content] /\ resealed' = TRUE
  /\ UNCHANGED <<surroundings, planned, started>>

\* Defect: the stored hash is not compared.
LoadPlanUnchecked(f) == f # None /\ f.content.valid

\* plan.Load accepts the file: Validate, and the hash of what it read.
LoadPlan(f) == f # None /\ f.content.valid /\ f.hash = f.content

Granted(c) == {x \in {"writes", "exec"} : c[IF x = "writes" THEN "allow_writes" ELSE "allow_exec"] = "true"}

\* cmdRun, up to the call of the model.
Run(flags) ==
  LET c == Load(setup, flags)
      p == file.content
  IN /\ started = None
     /\ LoadPlan(file)
     /\ Starts(c)
     /\ Root(c) = p.workspace
     /\ p.sha # None => head[Root(c)] = p.sha
     /\ p.capabilities \subseteq Granted(c)
     /\ Lower(c.provider) = Lower(p.provider) /\ c.model = p.model
     /\ started' = [config |-> c, head |-> head[Root(c)]]
     /\ UNCHANGED <<surroundings, file, planned, resealed, changes>>

Next ==
  \/ Change \/ Edit
  \/ \E flags \in FlagSets : Plan(flags) \/ Run(flags)

Spec == Init /\ [][Next]_vars

-----------------------------------------------------------------------------
(***************************************************************************)
(* The precedence of config.go's package comment: each setting has the     *)
(* value of the first source that has it, and the variables of MiniMax are *)
(* a source of a run that uses MiniMax in the end.                         *)
(***************************************************************************)
Sources(s, flags, provider) ==
  LET path == ConfigPath(s, flags) IN
  <<flags.cli, s.env, s.legacy,
    IF Lower(provider) = "minimax" THEN s.minimax ELSE Nothing,
    IF path = None THEN Nothing ELSE s.files[path], Defaults>>

First(sources, f) ==
  LET having == {i \in 1..Len(sources) : f \in DOMAIN sources[i]}
  IN sources[CHOOSE i \in having : \A j \in having : i <= j][f]

\* config.go: whatever is set where, a command runs with the settings that the
\* documented precedence gives, and MINIMAX_* settings never reach a run that
\* uses another provider.
MergedAsDocumented ==
  \A flags \in FlagSets :
    LET c == Load(setup, flags)
        sources == Sources(setup, flags, c.provider)
    IN c # NoConfig => \A f \in Settings : c[f] = First(sources, f)

\* doctor.go: "is this environment actually able to run the plan/run/verify
\* lifecycle?"  When no required check fails, `plan` with the same flags gets
\* to its model, unless the workspace cannot be read or the evidence log cannot
\* be opened, which no check tries.
DoctorMeansStartable ==
  \A flags \in FlagSets :
    LET c == Load(setup, flags) IN
    DoctorPasses(setup.keys, disk[Root(c)], state, c) =>
      Starts(c) \/ disk[Root(c)] = "closed" \/ c.evidence_dir \notin logs

\* run_cmd.go, plan.go: a run that starts on a plan file nobody sealed again
\* has the workspace, provider and model the plan was made with, the commit it
\* was made at, if any, and every capability its draft asks for or implies,
\* whatever changed in between.
RunMatchesPlan ==
  started # None /\ ~resealed =>
    LET then == planned.config
        now == started.config
    IN /\ Root(now) = Root(then)
       /\ Lower(now.provider) = Lower(then.provider) /\ now.model = then.model
       /\ planned.head \in {None, started.head}
       /\ RequiredCapabilities(planned.draft) \subseteq Granted(now)
=============================================================================
