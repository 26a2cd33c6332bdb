------------------------------- MODULE Setup -------------------------------
(***************************************************************************)
(* The settings of a command: internal/config merges defaults, a file, two *)
(* name spaces of environment variables, the variables of MiniMax and the  *)
(* flags into one configuration; internal/provider builds a model from it; *)
(* internal/doctor says beforehand whether that will work.                 *)
(*                                                                         *)
(* A source of settings is a function on the settings it has.  All values  *)
(* are strings, as they are in the environment.  timeout and output_format *)
(* are merged and checked like max_steps and approval_mode and left out.   *)
(***************************************************************************)
EXTENDS Integers, Sequences, FiniteSets

CONSTANTS
  Here,     \* the directory the command is called in
  Inside,   \* <<directory, root>>: the directory resolves to one in that root
  Spelled,  \* the same without following symbolic links
  Absent,     \* no file
  Malformed,  \* a file that does not parse, has an unknown key or trailing data
  None

Settings == {"provider", "model", "base_url", "workspace", "max_steps", "allow_writes",
  "allow_exec", "approval_mode", "evidence_dir"}

Nothing == [f \in {} |-> ""]
NoConfig == [f \in Settings |-> ""]

Defaults == [NoConfig EXCEPT !.provider = "minimax", !.model = "MiniMax-M3",
  !.max_steps = "32", !.allow_writes = "false", !.allow_exec = "false", !.approval_mode = "prompt"]

\* strings.ToLower, on the provider names that occur.
Lower(p) == IF p = "MiniMax" THEN "minimax" ELSE p

\* The settings of f, and those of g that f does not have.
Over(f, g) == [x \in DOMAIN f \cup DOMAIN g |-> IF x \in DOMAIN f THEN f[x] ELSE g[x]]

Restricted(f, S) == [x \in DOMAIN f \cap S |-> f[x]]

-----------------------------------------------------------------------------
(***************************************************************************)
(* A setup s has: env and legacy (INTENT_BOB_EINO_* and BOB_*, "config"    *)
(* naming a file), minimax (MINIMAX_BASE_URL, MINIMAX_MODEL), keys (the    *)
(* providers whose key is set) and files (path to settings, Absent or      *)
(* Malformed).  Flags have config (a path or None) and cli.                *)
(***************************************************************************)
Environment(s) == Over(s.env, s.legacy)

Standard == <<"xdg/canonical", "home/canonical", "xdg/legacy", "home/legacy">>

\* config.resolveConfigPath.  A path that is asked for must be there.
ConfigPath(s, flags) ==
  LET found == {i \in 1..Len(Standard) : s.files[Standard[i]] # Absent} IN
  IF flags.config # None THEN flags.config
  ELSE IF "config" \in DOMAIN Environment(s) THEN Environment(s).config
  ELSE IF found = {} THEN None
  ELSE Standard[CHOOSE i \in found : \A j \in found : i <= j]

Parses(source) ==
  \A f \in {"max_steps", "allow_writes", "allow_exec"} \cap DOMAIN source : source[f] # "garbage"

\* config.Validate
Valid(c) ==
  /\ c.provider # "" /\ c.model # ""
  /\ c.max_steps # "0"
  /\ c.base_url # "no URL"
  /\ c.approval_mode \in {"auto", "prompt"}
  /\ ~(c.allow_exec = "true" /\ c.allow_writes = "false")
  /\ ~(c.evidence_dir # "" /\ c.workspace # "" /\ <<c.evidence_dir, c.workspace>> \in Inside)

\* Defect: the flags are left out.
EffectiveProviderOfEnv(file, env, cli) == Lower(Over(env, Over(file, Defaults)).provider)

\* config.effectiveProvider
EffectiveProvider(file, env, cli) ==
  Lower(Over(cli, Over(env, Over(file, Defaults))).provider)

\* config.applyFile, the variables of MiniMax, applyEnv, applyOverrides.
Merge(file, minimax, env, cli) ==
  LET native == IF EffectiveProvider(file, env, cli) = "minimax" THEN minimax ELSE Nothing
  IN Over(cli, Over(env, Over(native, Over(file, Defaults))))

\* config.Load: a valid configuration, or NoConfig with an error.
Load(s, flags) ==
  LET path == ConfigPath(s, flags)
      file == IF path = None THEN Nothing ELSE s.files[path]
      env == Restricted(Environment(s), Settings)
      config == Merge(file, s.minimax, env, flags.cli)
  IN IF file \in {Absent, Malformed} \/ ~Parses(file) \/ ~Parses(env) \/ ~Valid(config)
       THEN NoConfig
       ELSE config

Root(c) == IF c.workspace = "" THEN Here ELSE c.workspace

-----------------------------------------------------------------------------
\* An entry's variable of the key, "" for none, and whether a key is asked for.
RegistryEntry(provider, keyEnv, needsAuth) ==
  [provider |-> provider, keyEnv |-> keyEnv, needsAuth |-> needsAuth]

Registry ==
  {RegistryEntry("minimax", "MINIMAX_API_KEY", TRUE),
   RegistryEntry("deepseek", "DEEPSEEK_API_KEY", TRUE),
   RegistryEntry("openai", "OPENAI_API_KEY", TRUE),
   RegistryEntry("groq", "GROQ_API_KEY", TRUE),
   RegistryEntry("zhipu", "ZHIPU_API_KEY", TRUE),
   RegistryEntry("ollama", "", FALSE)}

\* The entry of a known provider, as a set of at most one.
Known(c) == {e \in Registry : e.provider = Lower(c.provider)}

\* provider.FromConfig: goes by needsAuth.  keys holds the variables that are set.
FromConfig(keys, c) == \E e \in Known(c) : e.needsAuth => e.keyEnv \in keys

\* Defect: any key will do.
CredentialPresentAny(keys, c) == \E e \in Known(c) : e.keyEnv = "" \/ keys # {}

\* doctor, credential.presence: goes by the name that KeyEnv returns.
CredentialPresent(keys, c) == \E e \in Known(c) : e.keyEnv = "" \/ e.keyEnv \in keys

\* doctor: no required check of Run fails.  kind is what is at the workspace's
\* path, state whether the state directory can be written.
DoctorPasses(keys, kind, state, c) ==
  /\ kind \in {"directory", "closed"}
  /\ state
  /\ <<c.evidence_dir, Root(c)>> \notin Spelled
  /\ Known(c) # {} /\ c.model # ""
  /\ CredentialPresent(keys, c)
  /\ c.base_url # "no URL"
  /\ ~(c.allow_exec = "true" /\ c.allow_writes = "false")
  /\ c.approval_mode \in {"auto", "prompt"}
  /\ c.max_steps # "0"
=============================================================================
