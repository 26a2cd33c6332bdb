----------------------------- MODULE PathRules -----------------------------
(***************************************************************************)
(* What the plan, the tools, the plan guard, the patch and the verifier    *)
(* each say of a path, and of a command line.  Every one of them has rules *)
(* of its own, and they read the same path in different ways: as spelled,  *)
(* cleaned, or as git reports it.                                          *)
(*                                                                         *)
(* A path is the sequence of its segments, as splitting at "/" gives them: *)
(* "a//b/" is <<"a", "", "b", "">> and "/etc" is <<"", "etc">>.  A pattern *)
(* of names is represented by members: ".env.local" stands for every name  *)
(* that starts with ".env.", "x.pem" for every name that ends in ".pem".   *)
(***************************************************************************)
EXTENDS Integers, SequencesExt

Segments == STRING
Blank == ""   \* the segment before a slash at the beginning, or after one at the end

Absolute(p) == Len(p) > 1 /\ p[1] = Blank
HomeRelative(p) == p[1] = "~"
Names(p) == {p[i] : i \in 1..Len(p)}

\* strings.ToLower, on the names that occur.
Lower(name) == IF name = ".ENV" THEN ".env" ELSE name

CleanStep(out, segment) ==
  CASE segment \in {Blank, "."} -> out
    [] segment = ".." /\ out # <<>> /\ Last(out) # ".." -> Front(out)
    [] OTHER -> Append(out, segment)

\* filepath.Clean of a relative path.
Clean(p) ==
  LET out[n \in 0..Len(p)] == IF n = 0 THEN <<>> ELSE CleanStep(out[n - 1], p[n])
  IN IF out[Len(p)] = <<>> THEN <<".">> ELSE out[Len(p)]

\* filepath.Base and path.Base: the last segment that is not empty.
Base(p) ==
  LET named == {i \in 1..Len(p) : p[i] # Blank} IN
  IF named = {} THEN "." ELSE p[CHOOSE i \in named : \A j \in named : j <= i]

Prefix(d, f) == Len(d) < Len(f) /\ SubSeq(f, 1, Len(d)) = d

-----------------------------------------------------------------------------
(***************************************************************************)
(* The names each of them takes for secrets.                               *)
(***************************************************************************)
PlanSecrets == {".env", ".env.local", ".envrc", ".netrc", ".npmrc", ".pypirc", "credentials",
  "id_rsa", "id_rsa.pub", "id_dsa", "id_ecdsa", "id_ed25519", "secrets.yaml",
  "x.pem", "x.key", "x.pfx"}

GuardSecrets == {".env", ".env.local", ".envrc", ".netrc", ".npmrc", ".pypirc", "credentials",
  "id_rsa", "id_rsa.pub", "id_dsa", "id_dsa.pub", "id_ecdsa", "id_ed25519", "secrets.yaml",
  "x.pem", "x.key", "x.pfx"}

PatchSecrets == {".env", ".env.local", ".envrc", ".netrc", ".npmrc", "credentials",
  "id_rsa", "id_ecdsa", "id_ed25519", "x.pem", "x.key", "x.pfx"}

ToolSecrets == {".env", ".env.local", ".netrc", ".npmrc", "credentials",
  "id_rsa", "id_dsa", "id_ecdsa", "id_ed25519", "secrets.yaml", "secrets.toml", "keys.txt",
  "x.pem", "x.key"}

VerifierSecrets == {".env", ".env.local", ".netrc", ".npmrc", "credentials", "credentials.json",
  "id_rsa", "id_ecdsa", "id_ed25519", "my-key.age", "x.pem"}

\* plan.secretPathSegments
Stores == {".aws", ".ssh", ".gnupg", ".kube", ".docker", ".config", ".gcloud", ".azure",
  ".netlify", ".git"}

-----------------------------------------------------------------------------
(***************************************************************************)
(* Paths.                                                                  *)
(***************************************************************************)

\* plan.checkProposedFile: the path as spelled.
PlanForbids(p) ==
  \/ p = <<Blank>> \/ Absolute(p) \/ HomeRelative(p)
  \/ Names(p) \cap ({".."} \cup Stores) # {}
  \/ Lower(Last(p)) \in PlanSecrets

\* workspace.clean
Escapes(p) == Absolute(p) \/ Clean(p)[1] = ".."

\* The checks of write_file and apply_patch before Authorize.
ToolRefuses(p) ==
  \/ Escapes(p)
  \/ Lower(Base(p)) \in ToolSecrets
  \/ Clean(p)[1] = ".git"

\* Defect: the guard looks at the path as spelled.
GuardForbidsSpelled(p) ==
  \/ Escapes(p) \/ p[1] = ".git" \/ \E i \in 2..Len(p) - 1 : p[i] = ".git"
  \/ Lower(Last(p)) \in GuardSecrets

\* planguard.forbiddenWrite: the cleaned path.
GuardForbids(p) ==
  LET n == Clean(p) IN
  \/ Escapes(p) \/ n[1] = ".git" \/ \E i \in 2..Len(n) - 1 : n[i] = ".git"
  \/ Lower(Last(n)) \in GuardSecrets

\* patch.checkPath: the path as spelled, before apply_patch asks anybody.
PatchForbids(p) ==
  \/ p = <<Blank>> \/ Absolute(p) \/ HomeRelative(p)
  \/ Names(p) \cap {"..", ".git"} # {}
  \/ Lower(Last(p)) \in PatchSecrets

\* runverify.forbiddenPathPatterns: the path as git reports it.
VerifierForbids(p) ==
  \/ p[1] = ".git" \/ \E i \in 2..Len(p) - 1 : p[i] = ".git"
  \/ Base(p) \in VerifierSecrets

\* Defect: a planned path covers what lies below it.
ListedBelow(files, p) ==
  \E q \in files : Clean(q) = Clean(p) \/ Prefix(Clean(q), Clean(p))

\* planguard.Check: planned and touched paths are compared cleaned.
Listed(files, p) == \E q \in files : Clean(q) = Clean(p)

-----------------------------------------------------------------------------
(***************************************************************************)
(* Command lines: a program, its flags, the special characters in it, the  *)
(* spacing, whether redaction finds a secret in it, and all of its words.  *)
(***************************************************************************)
Programs == {"go", "make", "pytest", "npm", "pnpm", "cargo", "git"}

\* The characters by name, as far as a command of the model contains them.
PlanMeta == {"pipe", "ampersand", "semicolon", "angle", "dollar", "backquote", "backslash",
  "quote", "star", "question mark", "tilde", "hash", "parenthesis", "brace", "bracket", "newline"}
ToolMeta == {"pipe", "ampersand", "semicolon", "angle", "dollar", "backquote", "backslash",
  "bang", "return", "parenthesis", "brace", "newline"}

DangerousFlags == {"-c", "--config", "-C", "--exec-path", "--upload-pack", "--receive-pack",
  "-o", "--config-env", "--work-tree", "--git-dir", "-exec", "-toolexec", "-ldflags",
  "-gcflags", "-asmflags", "-overlay"}

\* plan.checkCommand
PlanAcceptsCommand(c) == c.program \in Programs /\ c.chars \cap PlanMeta = {}

\* The checks of run_command before Authorize.
ToolRefusesCommand(c) ==
  c.chars \cap ToolMeta # {} \/ c.program \notin Programs \/ c.flags \cap DangerousFlags # {}

\* What guard and evidence see of a command: its words without any spacing, and
\* after redaction.
Asset(c) == IF c.secret THEN "[REDACTED]" ELSE c.words
=============================================================================
