------------------------------- MODULE Patch -------------------------------
(***************************************************************************)
(* apply_patch (internal/patch, internal/tools/apply_patch.go) on the      *)
(* files of one workspace.  The calls of a batch run concurrently,         *)
(* write_file, a command or an editor may save a file at any time, and the *)
(* process may be killed; calls that begin later belong to its successor.  *)
(*                                                                         *)
(* Apply reads and checks every file first, then writes them in order,     *)
(* then reads them again.  A write is two steps: opening the file          *)
(* truncates it, then the bytes follow.                                    *)
(***************************************************************************)
EXTENDS Integers, Sequences, FiniteSets

CONSTANTS
  Appliers,    \* calls of apply_patch
  Files,       \* files of the workspace
  Names,       \* paths a patch may use: "a.txt" and "./a.txt" are two names
  FileOf,      \* [Names -> Files]: the file a path resolves to
  Contents,    \* versions of a file
  Edits,       \* lists of hunks
  EditOf,      \* [Edits -> [Contents -> Contents \cup {Refused}]]
  Patches,     \* the patches calls may carry
  Faults,      \* which file operations may fail
  SaveBound    \* how often somebody else saves a file

Refused == "refused"   \* hunks that do not fit: occurrences, NUL bytes, size
Empty == "empty"       \* a file that was truncated
Torn == "torn"         \* a part of a version, or parts of several

Change == [name: Names, pre: Contents, edit: Edits]

ASSUME PatchAssumption ==
  /\ FileOf \in [Names -> Files]
  /\ EditOf \in [Edits -> [Contents -> Contents \cup {Refused}]]
  /\ Patches \subseteq Seq(Change) \ {<<>>}
  /\ Faults \subseteq {"read", "open", "write"}
  /\ SaveBound \in Nat
  /\ Contents \cap {Refused, Empty, Torn} = {}

VARIABLES
  disk,        \* what each file holds
  call,        \* the state of each call
  saves,       \* how often somebody else saved a file
  disturbed,   \* history: calls during which somebody else wrote their files
  stale,       \* history: calls that overwrote a version they were not built for
  cut          \* history: the files whose write a call saw fail half-way

vars == <<disk, call, saves, disturbed, stale, cut>>

Stages == {"unused", "reading", "opening", "writing", "verifying", "restoring",
           "rewriting", "applied", "refused", "rolled_back", "rollback_failed", "killed"}
Final == {"applied", "refused", "rolled_back", "rollback_failed", "killed"}

\* at: the file the current loop is at; written: Len(written) of the code;
\* failed: whether a restore of the rollback failed.
Call == [stage: Stages, patch: Patches \cup {<<>>}, at: Nat, written: Nat, failed: BOOLEAN]

Init ==
  /\ disk \in [Files -> Contents]
  /\ call = [a \in Appliers |->
               [stage |-> "unused", patch |-> <<>>, at |-> 0, written |-> 0, failed |-> FALSE]]
  /\ saves = 0
  /\ disturbed = {}
  /\ stale = {}
  /\ cut = [a \in Appliers |-> {}]

-----------------------------------------------------------------------------
PathsOf(p) == {FileOf[p[k].name] : k \in 1..Len(p)}
PatchIndexes == UNION {1..Len(p) : p \in Patches}
Post(change) == EditOf[change.edit][change.pre]

In(a, stage) == call[a].stage = stage
Active(a) == call[a].stage \notin Final \cup {"unused"}
This(a) == call[a].patch[call[a].at]
File(a) == FileOf[This(a).name]
Last(a) == call[a].at = Len(call[a].patch)

Goto(a, stage, at) == call' = [call EXCEPT ![a].stage = stage, ![a].at = at]

\* Whoever writes file f disturbs the calls that are working on it.
Disturbs(f, by) ==
  disturbed' = disturbed \cup {a \in Appliers \ by : Active(a) /\ f \in PathsOf(call[a].patch)}

\* Validate compares the names of a patch, not the files they resolve to.
Valid(p) == \A j, k \in 1..Len(p) : j # k => p[j].name # p[k].name

\* Parse, Validate and the governor come before; then phase 1 begins.
Start(a) ==
  /\ In(a, "unused")
  /\ \E p \in Patches :
       call' = [call EXCEPT ![a].patch = p, ![a].at = 1,
                            ![a].stage = IF Valid(p) THEN "reading" ELSE "refused"]
  /\ UNCHANGED <<disk, saves, disturbed, stale, cut>>

\* Defect: the hash of the file is not compared with the pre-image's.
FitsWithoutHash(a) == Post(This(a)) # Refused

\* Phase 1: the pre-image's hash, then the hunks in memory.
Fits(a) == disk[File(a)] = This(a).pre /\ Post(This(a)) # Refused

Check(a) ==
  /\ In(a, "reading")
  /\ Fits(a)
  /\ IF Last(a) THEN Goto(a, "opening", 1) ELSE Goto(a, "reading", call[a].at + 1)
  /\ UNCHANGED <<disk, saves, disturbed, stale, cut>>

Refuse(a) ==
  /\ In(a, "reading")
  /\ ~Fits(a) \/ "read" \in Faults
  /\ Goto(a, "refused", call[a].at)
  /\ UNCHANGED <<disk, saves, disturbed, stale, cut>>

-----------------------------------------------------------------------------
(***************************************************************************)
(* WriteFile: open with O_TRUNC, then write from the beginning.  If others *)
(* wrote in between, the end of what they wrote may stick out.             *)
(***************************************************************************)
Truncate(a) ==
  /\ disk' = [disk EXCEPT ![File(a)] = Empty]
  /\ Disturbs(File(a), {a})

Put(a, version) ==
  /\ \/ disk' = [disk EXCEPT ![File(a)] = version]
     \/ disk[File(a)] # Empty /\ disk' = [disk EXCEPT ![File(a)] = Torn]
  /\ Disturbs(File(a), {a})

PutHalf(a) ==
  /\ disk' \in {disk, [disk EXCEPT ![File(a)] = Torn]}
  /\ Disturbs(File(a), {a})

\* Defect: the rollback forgets the file written last.
RollbackShort(a, written) ==
  call' = [call EXCEPT ![a].written = IF written = 0 THEN 0 ELSE written - 1, ![a].at = 1,
                       ![a].stage = IF written <= 1 THEN "rolled_back" ELSE "restoring"]

\* rollback restores what was written; the file that just failed is not in it.
Rollback(a, written) ==
  call' = [call EXCEPT ![a].written = written, ![a].at = 1,
                       ![a].stage = IF written = 0 THEN "rolled_back" ELSE "restoring"]

\* A file that an earlier change of the same patch wrote, under another name,
\* is not a version somebody else made.
Own(a) == \E k \in 1..call[a].at - 1 : FileOf[call[a].patch[k].name] = File(a)

\* Defect: every file of the patch is opened before the first is written.
OpenAll(a) ==
  /\ In(a, "opening")
  /\ Goto(a, "writing", call[a].at)
  /\ disk' = [f \in Files |-> IF f \in PathsOf(call[a].patch) THEN Empty ELSE disk[f]]
  /\ Disturbs(File(a), {a})
  /\ UNCHANGED <<saves, stale, cut>>

Open(a) ==
  /\ In(a, "opening")
  /\ Goto(a, "writing", call[a].at)
  /\ Truncate(a)
  /\ stale' = IF disk[File(a)] # This(a).pre /\ ~Own(a) THEN stale \cup {a} ELSE stale
  /\ UNCHANGED <<saves, cut>>

OpenFails(a) ==
  /\ In(a, "opening")
  /\ "open" \in Faults
  /\ Rollback(a, call[a].at - 1)
  /\ UNCHANGED <<disk, saves, disturbed, stale, cut>>

Write(a) ==
  /\ In(a, "writing")
  /\ IF Last(a) THEN Goto(a, "verifying", 1) ELSE Goto(a, "opening", call[a].at + 1)
  /\ Put(a, Post(This(a)))
  /\ UNCHANGED <<saves, stale, cut>>

WriteFails(a) ==
  /\ In(a, "writing")
  /\ "write" \in Faults
  /\ Rollback(a, call[a].at - 1)
  /\ PutHalf(a)
  /\ cut' = [cut EXCEPT ![a] = @ \cup {File(a)}]
  /\ UNCHANGED <<saves, stale>>

\* Defect: only the last file is read again.
VerifyLastOnly(a) ==
  /\ In(a, "verifying")
  /\ ~Last(a) \/ disk[File(a)] = Post(This(a))
  /\ IF Last(a) THEN Goto(a, "applied", call[a].at) ELSE Goto(a, "verifying", call[a].at + 1)
  /\ UNCHANGED <<disk, saves, disturbed, stale, cut>>

Verify(a) ==
  /\ In(a, "verifying")
  /\ disk[File(a)] = Post(This(a))
  /\ IF Last(a) THEN Goto(a, "applied", call[a].at) ELSE Goto(a, "verifying", call[a].at + 1)
  /\ UNCHANGED <<disk, saves, disturbed, stale, cut>>

VerifyFails(a) ==
  /\ In(a, "verifying")
  /\ disk[File(a)] # Post(This(a)) \/ "read" \in Faults
  /\ Rollback(a, Len(call[a].patch))
  /\ UNCHANGED <<disk, saves, disturbed, stale, cut>>

-----------------------------------------------------------------------------
(***************************************************************************)
(* The rollback goes through all of its files, whether a restore fails or  *)
(* not, and does not read them again.                                      *)
(***************************************************************************)
\* Defect: only the last restore counts.
RestoreNextForgetful(a, failed) ==
  LET done == call[a].at = call[a].written IN
  call' = [call EXCEPT
             ![a].failed = failed,
             ![a].at = IF done THEN @ ELSE @ + 1,
             ![a].stage = CASE ~done -> "restoring"
                            [] done /\ failed -> "rollback_failed"
                            [] done /\ ~failed -> "rolled_back"]

RestoreNext(a, failed) ==
  LET done == call[a].at = call[a].written
      any == call[a].failed \/ failed
  IN
  call' = [call EXCEPT
             ![a].failed = any,
             ![a].at = IF done THEN @ ELSE @ + 1,
             ![a].stage = CASE ~done -> "restoring"
                            [] done /\ any -> "rollback_failed"
                            [] done /\ ~any -> "rolled_back"]

RestoreOpen(a) ==
  /\ In(a, "restoring")
  /\ Goto(a, "rewriting", call[a].at)
  /\ Truncate(a)
  /\ UNCHANGED <<saves, stale, cut>>

RestoreOpenFails(a) ==
  /\ In(a, "restoring")
  /\ "open" \in Faults
  /\ RestoreNext(a, TRUE)
  /\ UNCHANGED <<disk, saves, disturbed, stale, cut>>

Restore(a) ==
  /\ In(a, "rewriting")
  /\ RestoreNext(a, FALSE)
  /\ Put(a, This(a).pre)
  /\ UNCHANGED <<saves, stale, cut>>

RestoreFails(a) ==
  /\ In(a, "rewriting")
  /\ "write" \in Faults
  /\ RestoreNext(a, TRUE)
  /\ PutHalf(a)
  /\ UNCHANGED <<saves, stale, cut>>

\* write_file, a command or a person saves a file.
Save(f) ==
  /\ saves < SaveBound
  /\ \E c \in Contents : disk' = [disk EXCEPT ![f] = c]
  /\ saves' = saves + 1
  /\ Disturbs(f, {})
  /\ UNCHANGED <<call, stale, cut>>

\* The process is killed: all of its calls end where they are, and the files
\* they are writing stay truncated or torn.  Nothing is persisted beside them.
Kill ==
  LET halfway == {a \in Appliers : In(a, "writing") \/ In(a, "rewriting")} IN
  /\ \E a \in Appliers : Active(a)
  /\ call' = [a \in Appliers |->
                IF Active(a) THEN [call[a] EXCEPT !.stage = "killed"] ELSE call[a]]
  /\ \E torn \in SUBSET {File(a) : a \in halfway} :
       /\ disk' = [f \in Files |-> IF f \in torn THEN Torn ELSE disk[f]]
       /\ disturbed' = disturbed \cup
            {a \in Appliers : Active(a) /\ \E b \in halfway \ {a} :
                                 File(b) \in torn \cap PathsOf(call[a].patch)}
  /\ UNCHANGED <<saves, stale, cut>>

Next ==
  \/ Kill
  \/ \E a \in Appliers :
       \/ Start(a) \/ Check(a) \/ Refuse(a)
       \/ Open(a) \/ OpenFails(a) \/ Write(a) \/ WriteFails(a)
       \/ Verify(a) \/ VerifyFails(a)
       \/ RestoreOpen(a) \/ RestoreOpenFails(a) \/ Restore(a) \/ RestoreFails(a)
  \/ \E f \in Files : Save(f)

Spec == Init /\ [][Next]_vars

-----------------------------------------------------------------------------
(***************************************************************************)
(* A patch is atomic.                                                      *)
(***************************************************************************)
\* The changes of its patch that a call has begun to write and may still undo.
Begun(a) ==
  CASE call[a].stage = "opening" -> call[a].at - 1
    [] call[a].stage = "writing" -> call[a].at
    [] call[a].stage = "verifying" -> Len(call[a].patch)
    [] call[a].stage \in {"restoring", "rewriting"} -> call[a].written
    [] OTHER -> 0

Writers(f) ==
  {w \in Appliers \X PatchIndexes :
     w[2] <= Begun(w[1]) /\ FileOf[call[w[1]].patch[w[2]].name] = f}

\* Until the call has ended, the files it has begun to write count as unchanged.
Promised(f) ==
  IF Writers(f) = {} THEN disk[f]
  ELSE LET w == CHOOSE w \in Writers(f) : TRUE IN call[w[1]].patch[w[2]].pre

Result(a) ==
  CASE call[a].stage = "applied" -> "applied"
    [] call[a].stage \in {"refused", "rolled_back"} -> "refused"
    [] call[a].stage \in {"rollback_failed", "killed"} -> "broken"
    [] OTHER -> "pending"

Effect(p) == {[file |-> FileOf[p[k].name], pre |-> p[k].pre, post |-> Post(p[k])] : k \in 1..Len(p)}

Atomic == INSTANCE AtomicPatch WITH
  content <- [f \in Files |-> Promised(f)],
  result <- [a \in Appliers |-> Result(a)],
  sound <- disturbed = {} /\ \A a \in Appliers : cut[a] = {},
  Damaged <- {Empty, Torn},
  Effects <- {Effect(p) : p \in Patches}

\* patch.go, package comment: "two-phase and atomic per patch".  Calls that
\* overlap are atomic all the same, in some order, unless one of them or
\* somebody else writes a file another is working on, or a write is cut short.
ImplementsAtomicPatch == Atomic!Spec

-----------------------------------------------------------------------------
(***************************************************************************)
(* Properties.                                                             *)
(***************************************************************************)
TypeOK ==
  /\ disk \in [Files -> Contents \cup {Empty, Torn}]
  /\ call \in [Appliers -> Call]
  /\ \A a \in Appliers :
       /\ Active(a) => call[a].at \in 1..Len(call[a].patch)
       /\ call[a].written <= Len(call[a].patch)
  /\ saves \in 0..SaveBound
  /\ disturbed \subseteq Appliers
  /\ stale \subseteq Appliers
  /\ cut \in [Appliers -> SUBSET Files]

Ends(a, stage) == ~In(a, stage) /\ call'[a].stage = stage

\* patch.go Apply: when a patch reports success, every one of its files holds
\* the intended post-image, also under two names of one file, unless somebody
\* else wrote one of them meanwhile.
SuccessIsComplete ==
  [][\A a \in Appliers :
       Ends(a, "applied") /\ a \notin disturbed =>
         \A k \in 1..Len(call[a].patch) :
           disk'[FileOf[call[a].patch[k].name]] = Post(call[a].patch[k])]_vars

\* patch.go rollback: when a patch reports a clean rollback, every one of its
\* files holds its pre-image, except the one whose own write failed half-way,
\* unless somebody else wrote one of them meanwhile.
RollbackRestores ==
  [][\A a \in Appliers :
       Ends(a, "rolled_back") /\ a \notin disturbed =>
         \A k \in 1..Len(call[a].patch) :
           LET f == FileOf[call[a].patch[k].name] IN
           f \notin cut'[a] => disk'[f] = call[a].patch[k].pre]_vars

\* patch.go FileChange: a patch overwrites a version it was not built for only
\* when somebody wrote the file between its check and its write.
FreshUnlessDisturbed == stale \subseteq disturbed

\* No call leaves a file truncated or torn behind, and says nothing of it: such
\* a file is there only while a call works on it, after a failed write of its
\* own or a failed rollback, after a kill, or when calls disturbed each other.
DamageIsReported ==
  disturbed = {} =>
    \A f \in Files : disk[f] \in {Empty, Torn} =>
      \E a \in Appliers :
        /\ f \in PathsOf(call[a].patch)
        /\ Active(a) \/ call[a].stage \in {"rollback_failed", "killed"} \/ f \in cut[a]

\* patch.go Apply: a kill in the second phase damages at most one file of the
\* patch, the one being written: every other one holds its pre-image or an
\* intended post-image, unless a write had been cut short or a restore had
\* failed before, or somebody else wrote the files.
KillDamagesOneFile ==
  [][\A a \in Appliers :
       Ends(a, "killed") /\ ~In(a, "reading") /\ ~call[a].failed /\ a \notin disturbed' =>
         \E damaged \in Files :
           \A f \in PathsOf(call[a].patch) \ (cut[a] \cup {damaged}) :
             \E k \in 1..Len(call[a].patch) :
               LET change == call[a].patch[k] IN
               FileOf[change.name] = f /\ disk'[f] \in {change.pre, Post(change)}]_vars

\* What patch.go says of a failed write ("a partial write failure rolls back
\* from the held pre-images", "rolled back cleanly"): every file of the patch
\* holds its pre-image again.
CleanRollbackIsClean ==
  \A a \in Appliers :
    In(a, "rolled_back") =>
      \A k \in 1..Len(call[a].patch) :
        disk[FileOf[call[a].patch[k].name]] = call[a].patch[k].pre
=============================================================================
