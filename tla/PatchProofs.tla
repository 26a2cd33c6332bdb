---------------------------- MODULE PatchProofs ----------------------------
(***************************************************************************)
(* Proofs about Patch, for any number of calls, files, aliases, versions   *)
(* and faults: what a call overwrites, what success and a clean rollback   *)
(* mean, what a kill damages, who answers for damage, and that Patch       *)
(* implements AtomicPatch.  At the end, for texts of any length, that      *)
(* hunks replace the matches that were counted.                            *)
(***************************************************************************)
EXTENDS Patch, Hunks, SequenceTheorems, WellFoundedInduction, TLAPS

Working == {"reading", "opening", "writing", "verifying", "restoring", "rewriting"}

\* What a call has found out, as far as it has come.
Progress(a) ==
  /\ call[a].stage # "unused" => call[a].patch \in Patches
  /\ call[a].stage \in Working => call[a].at \in 1..Len(call[a].patch)
  /\ call[a].stage = "unused" => call[a].written = 0
  /\ call[a].written <= Len(call[a].patch)
  /\ call[a].stage \in {"restoring", "rewriting"} => call[a].at <= call[a].written
  /\ call[a].stage = "reading" =>
       \A k \in 1..call[a].at - 1 : Post(call[a].patch[k]) # Refused
  /\ call[a].stage \in Working \ {"reading"} =>
       \A k \in 1..Len(call[a].patch) : Post(call[a].patch[k]) # Refused

Target(a, k) == FileOf[call[a].patch[k].name]
Intact(a, k) == disk[Target(a, k)] = call[a].patch[k].pre
Done(a, k) == disk[Target(a, k)] = Post(call[a].patch[k])
Owned(a, k, n) == \E j \in 1..n : Target(a, j) = Target(a, k)

\* A file that a call has read and not written holds its pre-image, or was
\* written by the call itself under another name.  One that it has read again
\* holds its post-image.
Fresh(a) ==
  a \notin disturbed =>
    /\ call[a].stage = "reading" => \A k \in 1..call[a].at - 1 : Intact(a, k)
    /\ call[a].stage = "opening" =>
         \A k \in call[a].at..Len(call[a].patch) : Intact(a, k) \/ Owned(a, k, call[a].at - 1)
    /\ call[a].stage = "writing" =>
         \A k \in call[a].at + 1..Len(call[a].patch) : Intact(a, k) \/ Owned(a, k, call[a].at)
    /\ call[a].stage = "verifying" => \A k \in 1..call[a].at - 1 : Done(a, k)

Types ==
  /\ disk \in [Files -> Contents \cup {Empty, Torn}]
  /\ call \in [Appliers -> Call]
  /\ saves \in 0..SaveBound
  /\ disturbed \subseteq Appliers
  /\ stale \subseteq Appliers
  /\ cut \in [Appliers -> SUBSET Files]

PatchInv ==
  /\ Types
  /\ \A a \in Appliers : Progress(a) /\ Fresh(a)
  /\ FreshUnlessDisturbed

LEMMA ActiveWorks ==
  ASSUME Types, NEW a \in Appliers
  PROVE  Active(a) <=> call[a].stage \in Working
<1>1. call[a].stage \in Stages
  BY DEF Types, Call
<1> QED
  BY <1>1 DEF Active, Stages, Final, Working

-----------------------------------------------------------------------------
\* The changes of a patch.
LEMMA Changes ==
  ASSUME NEW p \in Patches
  PROVE  /\ p \in Seq(Change) /\ Len(p) \in Nat /\ Len(p) >= 1
         /\ \A k \in 1..Len(p) : /\ FileOf[p[k].name] \in Files
                                 /\ p[k].pre \in Contents
                                 /\ Post(p[k]) \in Contents \cup {Refused}
<1>1. p \in Seq(Change) /\ p # <<>>
  BY PatchAssumption
<1>2. Len(p) \in Nat /\ Len(p) >= 1
  BY <1>1, EmptySeq, LenProperties
<1>3. ASSUME NEW k \in 1..Len(p)
      PROVE  /\ FileOf[p[k].name] \in Files
             /\ p[k].pre \in Contents
             /\ Post(p[k]) \in Contents \cup {Refused}
  <2>1. p[k] \in Change
    BY <1>1, ElementOfSeq
  <2>2. p[k].name \in Names /\ p[k].pre \in Contents /\ p[k].edit \in Edits
    BY <2>1 DEF Change
  <2> QED
    BY <2>2, PatchAssumption DEF Post
<1> QED
  BY <1>1, <1>2, <1>3

\* The ways a call moves on.  Other calls stay where they are.
LEMMA GotoStep ==
  ASSUME Types, NEW a \in Appliers, NEW stage \in Stages, NEW at \in Nat, Goto(a, stage, at)
  PROVE  /\ call' \in [Appliers -> Call]
         /\ \A b \in Appliers \ {a} : call'[b] = call[b]
         /\ call'[a].stage = stage /\ call'[a].at = at
         /\ call'[a].patch = call[a].patch /\ call'[a].written = call[a].written
         /\ call'[a].failed = call[a].failed
  BY DEF Types, Goto, Call

LEMMA RollbackStep ==
  ASSUME Types, NEW a \in Appliers, NEW written \in Nat, Rollback(a, written)
  PROVE  /\ call' \in [Appliers -> Call]
         /\ \A b \in Appliers \ {a} : call'[b] = call[b]
         /\ call'[a].stage = IF written = 0 THEN "rolled_back" ELSE "restoring"
         /\ call'[a].at = 1
         /\ call'[a].patch = call[a].patch /\ call'[a].written = written
         /\ call'[a].failed = call[a].failed
<1> DEFINE then == IF written = 0 THEN "rolled_back" ELSE "restoring"
           new == [call[a] EXCEPT !.written = written, !.at = 1, !.stage = then]
<1>1. call \in [Appliers -> Call] /\ call[a] \in Call
  BY DEF Types
<1>2. then \in Stages
  BY DEF Stages
<1> HIDE DEF then
<1>3. /\ new \in Call /\ new.stage = then /\ new.at = 1
      /\ new.patch = call[a].patch /\ new.written = written
      /\ new.failed = call[a].failed
  BY <1>1, <1>2 DEF Call
<1>4. call' = [call EXCEPT ![a] = new]
  BY <1>1 DEF Rollback, then
<1> HIDE DEF new
<1> QED
  BY <1>1, <1>3, <1>4 DEF then

LEMMA RestoreStep ==
  ASSUME Types, NEW a \in Appliers, NEW failed \in BOOLEAN, RestoreNext(a, failed)
  PROVE  /\ call' \in [Appliers -> Call]
         /\ \A b \in Appliers \ {a} : call'[b] = call[b]
         /\ call'[a].patch = call[a].patch /\ call'[a].written = call[a].written
         /\ call'[a].failed = (call[a].failed \/ failed)
         /\ \/ call'[a].stage = "restoring" /\ call'[a].at = call[a].at + 1
               /\ call[a].at # call[a].written
            \/ /\ call[a].at = call[a].written
               /\ call'[a].stage = IF call'[a].failed THEN "rollback_failed" ELSE "rolled_back"
<1> DEFINE done == call[a].at = call[a].written
           any == call[a].failed \/ failed
           next == [call[a] EXCEPT
             !.failed = any,
             !.at = IF done THEN @ ELSE @ + 1,
             !.stage = CASE ~done -> "restoring"
                         [] done /\ any -> "rollback_failed"
                         [] done /\ ~any -> "rolled_back"]
<1>1. call' = [call EXCEPT ![a] = next]
  BY DEF RestoreNext
<1>2. call[a] \in Call /\ any \in BOOLEAN
  BY DEF Types, Call
<1> HIDE DEF any
<1>3. CASE done
  <2>1. next = [call[a] EXCEPT !.failed = any, !.at = call[a].at,
                               !.stage = IF any THEN "rollback_failed" ELSE "rolled_back"]
    BY <1>2, <1>3
  <2> DEFINE then == IF any THEN "rollback_failed" ELSE "rolled_back"
  <2>2. then \in Stages
    BY DEF Stages
  <2> HIDE DEF next, then
  <2>3. /\ next \in Call /\ next.stage = then /\ next.failed = any
        /\ next.patch = call[a].patch /\ next.written = call[a].written
    BY <1>2, <2>1, <2>2 DEF Call, then
  <2>4. call' \in [Appliers -> Call] /\ call'[a] = next
        /\ \A b \in Appliers \ {a} : call'[b] = call[b]
    BY <1>1, <2>3 DEF Types
  <2> QED
    BY <1>3, <2>3, <2>4 DEF any, then
<1>4. CASE ~done
  <2> DEFINE up == call[a].at + 1
  <2>1. next = [call[a] EXCEPT !.failed = any, !.at = up, !.stage = "restoring"]
    BY <1>4
  <2>2. up \in Nat
    BY <1>2 DEF Call
  <2> HIDE DEF next, up
  <2>3. /\ next \in Call /\ next.stage = "restoring" /\ next.at = up /\ next.failed = any
        /\ next.patch = call[a].patch /\ next.written = call[a].written
    BY <1>2, <2>1, <2>2 DEF Call, Stages
  <2>4. call' \in [Appliers -> Call] /\ call'[a] = next
        /\ \A b \in Appliers \ {a} : call'[b] = call[b]
    BY <1>1, <2>3 DEF Types
  <2> QED
    BY <1>4, <2>3, <2>4 DEF up, any
<1> QED
  BY <1>3, <1>4

-----------------------------------------------------------------------------
\* A step of one call leaves the others' progress alone, and whoever it writes
\* under is disturbed.
LEMMA OthersProgress ==
  ASSUME NEW b, Progress(b), call'[b] = call[b]
  PROVE  Progress(b)'
  BY DEF Progress

LEMMA OthersFresh ==
  ASSUME Types, NEW b \in Appliers, Progress(b), Fresh(b), call'[b] = call[b],
         disturbed \subseteq disturbed',
         \A g \in Files : disk'[g] = disk[g] \/ (Active(b) /\ g \in PathsOf(call[b].patch) => b \in disturbed')
  PROVE  Fresh(b)'
<1> SUFFICES ASSUME b \notin disturbed' PROVE Fresh(b)'
  BY DEF Fresh
<1>1. CASE call[b].stage \notin Working
  BY <1>1 DEF Fresh, Working
<1>2. CASE call[b].stage \in Working
  <2>1. Active(b) /\ call[b].patch \in Patches
    BY <1>2, ActiveWorks DEF Progress, Working
  <2>2. ASSUME NEW k \in 1..Len(call[b].patch)
        PROVE  /\ Target(b, k)' = Target(b, k) /\ Target(b, k) \in Files
               /\ disk'[Target(b, k)] = disk[Target(b, k)]
    <3>1. Target(b, k) \in Files /\ Target(b, k) \in PathsOf(call[b].patch)
      BY <2>1, Changes DEF Target, PathsOf
    <3> QED
      BY <2>1, <3>1 DEF Target
  <2>3. Len(call[b].patch) \in Nat /\ call[b].at \in 1..Len(call[b].patch)
    BY <1>2, <2>1, Changes DEF Progress
  <2>4. Fresh(b) /\ b \notin disturbed
    OBVIOUS
  <2>5. ASSUME call[b].stage = "reading", NEW k \in 1..call[b].at - 1 PROVE Intact(b, k)'
    <3>1. Intact(b, k) /\ k \in 1..Len(call[b].patch)
      BY <2>3, <2>4, <2>5 DEF Fresh
    <3> QED
      BY <2>2, <3>1 DEF Intact, Done
  <2>6. ASSUME call[b].stage = "opening", NEW k \in call[b].at..Len(call[b].patch)
        PROVE  Intact(b, k)' \/ Owned(b, k, call[b].at - 1)'
    <3>1. Intact(b, k) \/ Owned(b, k, call[b].at - 1)
      BY <2>4, <2>6 DEF Fresh
    <3>2. k \in 1..Len(call[b].patch)
      BY <2>3, <2>6
    <3> QED
      BY <2>2, <3>1, <3>2 DEF Intact, Owned, Target
  <2>7. ASSUME call[b].stage = "writing", NEW k \in call[b].at + 1..Len(call[b].patch)
        PROVE  Intact(b, k)' \/ Owned(b, k, call[b].at)'
    <3>1. Intact(b, k) \/ Owned(b, k, call[b].at)
      BY <2>4, <2>7 DEF Fresh
    <3>2. k \in 1..Len(call[b].patch)
      BY <2>3, <2>7
    <3> QED
      BY <2>2, <3>1, <3>2 DEF Intact, Owned, Target
  <2>8. ASSUME call[b].stage = "verifying", NEW k \in 1..call[b].at - 1 PROVE Done(b, k)'
    <3>1. Done(b, k) /\ k \in 1..Len(call[b].patch)
      BY <2>3, <2>4, <2>8 DEF Fresh
    <3> QED
      BY <2>2, <3>1 DEF Intact, Done
  <2> QED
    BY <2>5, <2>6, <2>7, <2>8 DEF Fresh
<1> QED
  BY <1>1, <1>2

\* What has to be shown of a step of one call.
LEMMA CallStep ==
  ASSUME PatchInv, NEW a \in Appliers, Types',
         \A b \in Appliers \ {a} : call'[b] = call[b],
         Progress(a)', Fresh(a)', FreshUnlessDisturbed',
         \/ UNCHANGED <<disk, disturbed>>
         \/ /\ \A g \in Files : g # File(a) => disk'[g] = disk[g]
            /\ Disturbs(File(a), {a})
  PROVE  PatchInv'
<1>1. ASSUME NEW b \in Appliers \ {a} PROVE Progress(b)' /\ Fresh(b)'
  <2>1. Progress(b)'
    BY OthersProgress DEF PatchInv
  <2>2. disturbed \subseteq disturbed'
    BY DEF Disturbs
  <2>3. \A g \in Files : disk'[g] = disk[g] \/ (Active(b) /\ g \in PathsOf(call[b].patch) => b \in disturbed')
    BY DEF Disturbs
  <2> QED
    BY <2>1, <2>2, <2>3, OthersFresh DEF PatchInv
<1> QED
  BY <1>1 DEF PatchInv

LEMMA PatchInit == Init => PatchInv
<1> SUFFICES ASSUME Init PROVE PatchInv
  OBVIOUS
<1>1. Types
  BY PatchAssumption DEF Init, Types, Call, Stages
<1>2. \A a \in Appliers : Progress(a) /\ Fresh(a)
  BY EmptySeq DEF Init, Progress, Fresh, Working
<1> QED
  BY <1>1, <1>2 DEF Init, PatchInv, FreshUnlessDisturbed

-----------------------------------------------------------------------------
\* What a call knows when it takes a step.
Knows(a) ==
  /\ call[a] \in Call /\ call[a].patch \in Patches
  /\ call[a].at \in 1..Len(call[a].patch)
  /\ Len(call[a].patch) \in Nat /\ Len(call[a].patch) >= 1
  /\ This(a) = call[a].patch[call[a].at]
  /\ File(a) = Target(a, call[a].at) /\ File(a) \in Files
  /\ This(a).pre \in Contents
  /\ Post(This(a)) \in Contents \cup {Refused}

LEMMA Knowing ==
  ASSUME PatchInv, NEW a \in Appliers, call[a].stage \in Working
  PROVE  Knows(a)
<1>1. call[a] \in Call /\ call[a].patch \in Patches /\ call[a].at \in 1..Len(call[a].patch)
  BY DEF PatchInv, Types, Progress, Working
<1> QED
  BY <1>1, Changes DEF Knows, This, File, Target

\* Owned and Intact of a call that keeps its patch.
LEMMA SamePatch ==
  ASSUME NEW a, call'[a].patch = call[a].patch
  PROVE  /\ \A k : Target(a, k)' = Target(a, k)
         /\ \A k, n : Owned(a, k, n)' = Owned(a, k, n)
         /\ disk' = disk => \A k : Intact(a, k)' = Intact(a, k) /\ Done(a, k)' = Done(a, k)
  BY DEF Target, Owned, Intact, Done, Post

LEMMA DisturbsGrows ==
  ASSUME Types, NEW f, NEW by, Disturbs(f, by)
  PROVE  /\ disturbed' \subseteq Appliers /\ disturbed \subseteq disturbed'
         /\ \A a \in by : a \in disturbed' => a \in disturbed
  BY DEF Types, Disturbs

\* A write changes no file but the one it is for.
LEMMA WriteStep ==
  ASSUME Types, NEW a \in Appliers, Knows(a), NEW version \in Contents,
         Truncate(a) \/ Put(a, version) \/ PutHalf(a)
  PROVE  /\ disk' \in [Files -> Contents \cup {Empty, Torn}]
         /\ \A g \in Files : g # File(a) => disk'[g] = disk[g]
         /\ Disturbs(File(a), {a})
  BY DEF Types, Knows, Truncate, Put, PutHalf

\* A call that has ended has nothing left to know.
LEMMA EndStep ==
  ASSUME NEW a, Progress(a), call'[a].stage \in Final, call[a].stage # "unused",
         call'[a].patch = call[a].patch, call'[a].written <= Len(call[a].patch)
  PROVE  Progress(a)' /\ Fresh(a)'
  BY DEF Progress, Fresh, Final, Working

LEMMA StartKeeps ==
  ASSUME PatchInv, NEW a \in Appliers, Start(a)
  PROVE  PatchInv'
<1>1. PICK p \in Patches :
        call' = [call EXCEPT ![a].patch = p, ![a].at = 1,
                             ![a].stage = IF Valid(p) THEN "reading" ELSE "refused"]
  BY DEF Start
<1>2. /\ call' \in [Appliers -> Call]
      /\ \A b \in Appliers \ {a} : call'[b] = call[b]
      /\ call'[a].patch = p /\ call'[a].at = 1 /\ call'[a].written = 0
      /\ call'[a].stage \in {"reading", "refused"}
  <2>1. call[a] \in Call /\ call[a].written = 0 /\ call \in [Appliers -> Call]
    BY DEF Start, In, PatchInv, Types, Progress
  <2> DEFINE stage == IF Valid(p) THEN "reading" ELSE "refused"
             next == [call[a] EXCEPT !.patch = p, !.at = 1, !.stage = stage]
  <2>2. call' = [call EXCEPT ![a] = next]
    BY <1>1
  <2>3. stage \in {"reading", "refused"}
    OBVIOUS
  <2> HIDE DEF stage
  <2>4. /\ next \in Call /\ next.patch = p /\ next.at = 1 /\ next.written = 0
        /\ next.stage = stage
    BY <2>1, <2>3 DEF Call, Stages
  <2> HIDE DEF next
  <2> QED
    BY <2>1, <2>2, <2>3, <2>4
<1>3. Len(p) \in Nat /\ Len(p) >= 1
  BY Changes
<1>4. Progress(a)' /\ Fresh(a)'
  BY <1>2, <1>3 DEF Progress, Fresh, Working
<1>5. Types' /\ FreshUnlessDisturbed'
  BY <1>2 DEF Start, PatchInv, Types, FreshUnlessDisturbed
<1> QED
  BY <1>2, <1>4, <1>5, CallStep DEF Start

\* Phase 1: when it is over every file was as expected and every hunk fits.
LEMMA CheckKeeps ==
  ASSUME PatchInv, NEW a \in Appliers, Check(a)
  PROVE  PatchInv'
<1>1. call[a].stage = "reading" /\ Fits(a) /\ Progress(a) /\ Fresh(a)
  BY DEF Check, In, PatchInv
<1>2. Knows(a)
  BY <1>1, Knowing DEF Working
<1>3. Intact(a, call[a].at) /\ Post(call[a].patch[call[a].at]) # Refused
  BY <1>1, <1>2 DEF Fits, Knows, Intact
<1>4. \A k \in 1..call[a].at : /\ Post(call[a].patch[k]) # Refused
                               /\ a \notin disturbed => Intact(a, k)
  BY <1>1, <1>2, <1>3 DEF Knows, Progress, Fresh
<1>5. /\ call' \in [Appliers -> Call] /\ call'[a].patch = call[a].patch
      /\ call'[a].written = call[a].written
      /\ \A b \in Appliers \ {a} : call'[b] = call[b]
      /\ \/ Last(a) /\ call'[a].stage = "opening" /\ call'[a].at = 1
         \/ ~Last(a) /\ call'[a].stage = "reading" /\ call'[a].at = call[a].at + 1
  BY <1>2, GotoStep DEF Check, PatchInv, Stages, Knows
<1>6. Progress(a)'
  BY <1>1, <1>2, <1>4, <1>5 DEF Progress, Knows, Last, Working
<1>7. Fresh(a)'
  <2> SUFFICES ASSUME a \notin disturbed PROVE Fresh(a)'
    BY DEF Check, Fresh
  <2>1. \A k \in 1..call[a].at : Intact(a, k)'
    BY <1>4, <1>5, SamePatch DEF Check
  <2>2. CASE Last(a)
    BY <1>2, <1>5, <2>1, <2>2 DEF Fresh, Last, Knows
  <2>3. CASE ~Last(a)
    BY <1>2, <1>5, <2>1, <2>3 DEF Fresh, Knows
  <2> QED
    BY <2>2, <2>3
<1>8. Types' /\ FreshUnlessDisturbed'
  BY <1>5 DEF Check, PatchInv, Types, FreshUnlessDisturbed
<1> QED
  BY <1>5, <1>6, <1>7, <1>8, CallStep DEF Check

LEMMA RefuseKeeps ==
  ASSUME PatchInv, NEW a \in Appliers, Refuse(a)
  PROVE  PatchInv'
<1>1. call[a].stage = "reading" /\ Progress(a)
  BY DEF Refuse, In, PatchInv
<1>2. Knows(a)
  BY <1>1, Knowing DEF Working
<1>3. /\ call' \in [Appliers -> Call] /\ call'[a].patch = call[a].patch
      /\ call'[a].written = call[a].written /\ call'[a].stage = "refused"
      /\ \A b \in Appliers \ {a} : call'[b] = call[b]
  BY <1>2, GotoStep DEF Refuse, PatchInv, Stages, Knows
<1>4. Progress(a)' /\ Fresh(a)'
  BY <1>1, <1>3, EndStep DEF Final, Progress
<1>5. Types' /\ FreshUnlessDisturbed'
  BY <1>3 DEF Refuse, PatchInv, Types, FreshUnlessDisturbed
<1> QED
  BY <1>3, <1>4, <1>5, CallStep DEF Refuse

\* A rollback of the first files of the patch.
LEMMA RollbackKeeps ==
  ASSUME PatchInv, NEW a \in Appliers, NEW written \in Nat, Rollback(a, written),
         call[a].stage \in Working \ {"reading"}, written <= Len(call[a].patch)
  PROVE  /\ call' \in [Appliers -> Call]
         /\ \A b \in Appliers \ {a} : call'[b] = call[b]
         /\ Progress(a)' /\ Fresh(a)'
<1>1. Knows(a) /\ Progress(a)
  BY Knowing DEF PatchInv
<1>2. /\ call' \in [Appliers -> Call]
      /\ \A b \in Appliers \ {a} : call'[b] = call[b]
      /\ call'[a].stage = IF written = 0 THEN "rolled_back" ELSE "restoring"
      /\ call'[a].at = 1
      /\ call'[a].patch = call[a].patch /\ call'[a].written = written
  BY RollbackStep DEF PatchInv
<1> QED
  BY <1>1, <1>2 DEF Progress, Fresh, Knows, Working

\* Phase 2: the first file whose write begins is as it was read, unless
\* somebody else wrote it.
LEMMA OpenKeeps ==
  ASSUME PatchInv, NEW a \in Appliers, Open(a)
  PROVE  PatchInv'
<1>1. call[a].stage = "opening" /\ Progress(a) /\ Fresh(a) /\ Types
  BY DEF Open, In, PatchInv
<1>2. Knows(a)
  BY <1>1, Knowing DEF Working
<1>3. /\ call' \in [Appliers -> Call] /\ call'[a].patch = call[a].patch
      /\ call'[a].written = call[a].written
      /\ \A b \in Appliers \ {a} : call'[b] = call[b]
      /\ call'[a].stage = "writing" /\ call'[a].at = call[a].at
  BY <1>1, <1>2, GotoStep DEF Open, Stages, Knows
<1>4. /\ disk' \in [Files -> Contents \cup {Empty, Torn}]
      /\ \A g \in Files : g # File(a) => disk'[g] = disk[g]
      /\ Disturbs(File(a), {a})
  BY <1>1, <1>2, WriteStep, PatchAssumption DEF Open, Knows
<1>5. /\ disturbed' \subseteq Appliers /\ disturbed \subseteq disturbed'
      /\ a \in disturbed' => a \in disturbed
  BY <1>1, <1>4, DisturbsGrows
<1>6. Progress(a)'
  BY <1>1, <1>2, <1>3 DEF Progress, Knows, Working
<1>7. Fresh(a)'
  <2> SUFFICES ASSUME a \notin disturbed, NEW k \in call[a].at + 1..Len(call[a].patch)
               PROVE  Intact(a, k)' \/ Owned(a, k, call[a].at)'
    BY <1>3, <1>5 DEF Fresh
  <2>1. k \in call[a].at..Len(call[a].patch) /\ k \in 1..Len(call[a].patch)
        /\ call[a].at \in 1..call[a].at
    BY <1>2 DEF Knows
  <2>2. Intact(a, k) \/ Owned(a, k, call[a].at - 1)
    BY <1>1, <2>1 DEF Fresh
  <2>3. CASE Owned(a, k, call[a].at - 1) \/ Target(a, k) = File(a)
    <3>1. Owned(a, k, call[a].at)
      BY <1>2, <2>1, <2>3 DEF Owned, Knows
    <3> QED
      BY <1>3, <3>1, SamePatch
  <2>4. CASE Intact(a, k) /\ Target(a, k) # File(a)
    <3>1. Target(a, k) \in Files
      BY <1>2, <2>1, Changes DEF Knows, Target
    <3>2. disk'[Target(a, k)] = call[a].patch[k].pre
      BY <1>4, <2>4, <3>1 DEF Intact
    <3> QED
      BY <1>3, <3>2, SamePatch DEF Intact
  <2> QED
    BY <2>2, <2>3, <2>4
<1>8. FreshUnlessDisturbed'
  <2>1. ASSUME a \notin disturbed, disk[File(a)] # This(a).pre PROVE Own(a)
    <3>1. call[a].at \in call[a].at..Len(call[a].patch)
      BY <1>2 DEF Knows
    <3>2. Intact(a, call[a].at) \/ Owned(a, call[a].at, call[a].at - 1)
      BY <1>1, <2>1, <3>1 DEF Fresh
    <3> QED
      BY <1>2, <2>1, <3>2 DEF Own, Owned, Intact, Target, Knows
  <2> QED
    BY <1>5, <2>1 DEF Open, FreshUnlessDisturbed, PatchInv
<1>9. Types'
  BY <1>1, <1>3, <1>4, <1>5 DEF Open, Types
<1> QED
  BY <1>3, <1>4, <1>6, <1>7, <1>8, <1>9, CallStep

LEMMA OpenFailsKeeps ==
  ASSUME PatchInv, NEW a \in Appliers, OpenFails(a)
  PROVE  PatchInv'
<1>1. call[a].stage = "opening" /\ Types
  BY DEF OpenFails, In, PatchInv
<1>2. Knows(a)
  BY <1>1, Knowing DEF Working
<1>3. call[a].at - 1 \in Nat /\ call[a].at - 1 <= Len(call[a].patch)
  BY <1>2 DEF Knows
<1>4. /\ call' \in [Appliers -> Call] /\ \A b \in Appliers \ {a} : call'[b] = call[b]
      /\ Progress(a)' /\ Fresh(a)'
  BY <1>1, <1>3, RollbackKeeps DEF OpenFails, Working
<1>5. Types' /\ FreshUnlessDisturbed'
  BY <1>4 DEF OpenFails, PatchInv, Types, FreshUnlessDisturbed
<1> QED
  BY <1>4, <1>5, CallStep DEF OpenFails

LEMMA WriteKeeps ==
  ASSUME PatchInv, NEW a \in Appliers, Write(a)
  PROVE  PatchInv'
<1>1. call[a].stage = "writing" /\ Progress(a) /\ Fresh(a) /\ Types
  BY DEF Write, In, PatchInv
<1>2. Knows(a)
  BY <1>1, Knowing DEF Working
<1>3. /\ call' \in [Appliers -> Call] /\ call'[a].patch = call[a].patch
      /\ call'[a].written = call[a].written
      /\ \A b \in Appliers \ {a} : call'[b] = call[b]
      /\ \/ Last(a) /\ call'[a].stage = "verifying" /\ call'[a].at = 1
         \/ ~Last(a) /\ call'[a].stage = "opening" /\ call'[a].at = call[a].at + 1
  BY <1>1, <1>2, GotoStep DEF Write, Stages, Knows
<1>4. Post(This(a)) \in Contents
  BY <1>1, <1>2 DEF Progress, Knows, Working
<1>5. /\ disk' \in [Files -> Contents \cup {Empty, Torn}]
      /\ \A g \in Files : g # File(a) => disk'[g] = disk[g]
      /\ Disturbs(File(a), {a})
  BY <1>1, <1>2, <1>4, WriteStep DEF Write
<1>6. /\ disturbed' \subseteq Appliers /\ disturbed \subseteq disturbed'
      /\ a \in disturbed' => a \in disturbed
  BY <1>1, <1>5, DisturbsGrows
<1>7. Progress(a)'
  BY <1>1, <1>2, <1>3 DEF Progress, Knows, Last, Working
<1>8. Fresh(a)'
  <2>1. CASE Last(a)
    BY <1>3, <2>1 DEF Fresh
  <2>2. CASE ~Last(a)
    <3> SUFFICES ASSUME a \notin disturbed, NEW k \in call[a].at + 1..Len(call[a].patch)
                 PROVE  Intact(a, k)' \/ Owned(a, k, call[a].at - 1)'
      BY <1>3, <1>6, <2>2 DEF Fresh
    <3>1. k \in 1..Len(call[a].patch) /\ call[a].at \in 1..call[a].at
          /\ call'[a].at - 1 = call[a].at
      BY <1>2, <1>3, <2>2 DEF Knows
    <3>2. Intact(a, k) \/ Owned(a, k, call[a].at)
      BY <1>1 DEF Fresh
    <3>3. CASE Owned(a, k, call[a].at) \/ Target(a, k) = File(a)
      <4>1. Owned(a, k, call[a].at)
        BY <1>2, <3>1, <3>3 DEF Owned, Knows
      <4>2. PICK j \in 1..call[a].at : Target(a, j) = Target(a, k)
        BY <4>1 DEF Owned
      <4>3. j \in 1..call'[a].at - 1 /\ Target(a, j)' = Target(a, k)'
        BY <1>3, <3>1, <4>2, SamePatch
      <4> QED
        BY <4>3 DEF Owned
    <3>4. CASE Intact(a, k) /\ Target(a, k) # File(a)
      <4>1. Target(a, k) \in Files
        BY <1>2, <3>1, Changes DEF Knows, Target
      <4>2. disk'[Target(a, k)] = call[a].patch[k].pre
        BY <1>5, <3>4, <4>1 DEF Intact
      <4> QED
        BY <1>3, <4>2, SamePatch DEF Intact
    <3> QED
      BY <3>2, <3>3, <3>4
  <2> QED
    BY <2>1, <2>2
<1>9. Types' /\ FreshUnlessDisturbed'
  BY <1>1, <1>3, <1>5, <1>6 DEF Write, Types, PatchInv, FreshUnlessDisturbed
<1> QED
  BY <1>3, <1>5, <1>7, <1>8, <1>9, CallStep

LEMMA WriteFailsKeeps ==
  ASSUME PatchInv, NEW a \in Appliers, WriteFails(a)
  PROVE  PatchInv'
<1>1. call[a].stage = "writing" /\ Types
  BY DEF WriteFails, In, PatchInv
<1>2. Knows(a)
  BY <1>1, Knowing DEF Working
<1>3. call[a].at - 1 \in Nat /\ call[a].at - 1 <= Len(call[a].patch)
  BY <1>2 DEF Knows
<1>4. /\ call' \in [Appliers -> Call] /\ \A b \in Appliers \ {a} : call'[b] = call[b]
      /\ Progress(a)' /\ Fresh(a)'
  BY <1>1, <1>3, RollbackKeeps DEF WriteFails, Working
<1>5. /\ disk' \in [Files -> Contents \cup {Empty, Torn}]
      /\ \A g \in Files : g # File(a) => disk'[g] = disk[g]
      /\ Disturbs(File(a), {a})
  BY <1>1, <1>2, WriteStep DEF WriteFails, Knows
<1>6. disturbed' \subseteq Appliers /\ disturbed \subseteq disturbed'
  BY <1>1, <1>5, DisturbsGrows
<1>7. cut' \in [Appliers -> SUBSET Files]
  BY <1>1, <1>2 DEF WriteFails, Types, Knows
<1>8. Types' /\ FreshUnlessDisturbed'
  BY <1>1, <1>4, <1>5, <1>6, <1>7 DEF WriteFails, Types, PatchInv, FreshUnlessDisturbed
<1> QED
  BY <1>4, <1>5, <1>8, CallStep

\* Phase 3 and the rollback.
LEMMA VerifyKeeps ==
  ASSUME PatchInv, NEW a \in Appliers, Verify(a)
  PROVE  PatchInv'
<1>1. call[a].stage = "verifying" /\ Progress(a) /\ Types
  BY DEF Verify, In, PatchInv
<1>2. Knows(a)
  BY <1>1, Knowing DEF Working
<1>3. /\ call' \in [Appliers -> Call] /\ call'[a].patch = call[a].patch
      /\ call'[a].written = call[a].written
      /\ \A b \in Appliers \ {a} : call'[b] = call[b]
      /\ \/ call'[a].stage = "applied"
         \/ ~Last(a) /\ call'[a].stage = "verifying" /\ call'[a].at = call[a].at + 1
  BY <1>1, <1>2, GotoStep DEF Verify, Stages, Knows
<1>4. Progress(a)'
  BY <1>1, <1>2, <1>3 DEF Progress, Knows, Last, Working
<1>5. Fresh(a)'
  <2> SUFFICES ASSUME a \notin disturbed, call'[a].stage = "verifying",
                      NEW k \in 1..call'[a].at - 1
               PROVE  Done(a, k)'
    BY <1>3 DEF Verify, Fresh
  <2>1. Done(a, call[a].at)
    BY <1>2 DEF Verify, Done, Knows
  <2>2. Done(a, k)
    BY <1>1, <1>2, <1>3, <2>1 DEF Fresh, Knows, PatchInv
  <2> QED
    BY <1>3, <2>2, SamePatch DEF Verify
<1>6. Types' /\ FreshUnlessDisturbed'
  BY <1>3 DEF Verify, PatchInv, Types, FreshUnlessDisturbed
<1> QED
  BY <1>3, <1>4, <1>5, <1>6, CallStep DEF Verify

LEMMA VerifyFailsKeeps ==
  ASSUME PatchInv, NEW a \in Appliers, VerifyFails(a)
  PROVE  PatchInv'
<1>1. call[a].stage = "verifying" /\ Types
  BY DEF VerifyFails, In, PatchInv
<1>2. Knows(a)
  BY <1>1, Knowing DEF Working
<1>3. /\ call' \in [Appliers -> Call] /\ \A b \in Appliers \ {a} : call'[b] = call[b]
      /\ Progress(a)' /\ Fresh(a)'
  BY <1>1, <1>2, RollbackKeeps DEF VerifyFails, Working, Knows
<1>4. Types' /\ FreshUnlessDisturbed'
  BY <1>3 DEF VerifyFails, PatchInv, Types, FreshUnlessDisturbed
<1> QED
  BY <1>3, <1>4, CallStep DEF VerifyFails

LEMMA RestoreOpenKeeps ==
  ASSUME PatchInv, NEW a \in Appliers, RestoreOpen(a)
  PROVE  PatchInv'
<1>1. call[a].stage = "restoring" /\ Progress(a) /\ Types
  BY DEF RestoreOpen, In, PatchInv
<1>2. Knows(a)
  BY <1>1, Knowing DEF Working
<1>3. /\ call' \in [Appliers -> Call] /\ call'[a].patch = call[a].patch
      /\ call'[a].written = call[a].written
      /\ \A b \in Appliers \ {a} : call'[b] = call[b]
      /\ call'[a].stage = "rewriting" /\ call'[a].at = call[a].at
  BY <1>1, <1>2, GotoStep DEF RestoreOpen, Stages, Knows
<1>4. Progress(a)' /\ Fresh(a)'
  BY <1>1, <1>2, <1>3 DEF Progress, Fresh, Knows, Working
<1>5. /\ disk' \in [Files -> Contents \cup {Empty, Torn}]
      /\ \A g \in Files : g # File(a) => disk'[g] = disk[g]
      /\ Disturbs(File(a), {a})
  BY <1>1, <1>2, WriteStep DEF RestoreOpen, Knows
<1>6. disturbed' \subseteq Appliers /\ disturbed \subseteq disturbed'
  BY <1>1, <1>5, DisturbsGrows
<1>7. Types' /\ FreshUnlessDisturbed'
  BY <1>1, <1>3, <1>5, <1>6 DEF RestoreOpen, PatchInv, Types, FreshUnlessDisturbed
<1> QED
  BY <1>3, <1>4, <1>5, <1>7, CallStep

LEMMA RestoreNextKeeps ==
  ASSUME PatchInv, NEW a \in Appliers, NEW failed \in BOOLEAN, RestoreNext(a, failed),
         call[a].stage \in {"restoring", "rewriting"}
  PROVE  /\ call' \in [Appliers -> Call]
         /\ \A b \in Appliers \ {a} : call'[b] = call[b]
         /\ Progress(a)' /\ Fresh(a)'
<1>1. Progress(a) /\ Knows(a)
  BY Knowing DEF PatchInv, Working
<1>2. call[a].written \in Nat
  BY <1>1 DEF Knows, Call
<1>3. /\ call' \in [Appliers -> Call]
      /\ \A b \in Appliers \ {a} : call'[b] = call[b]
      /\ call'[a].patch = call[a].patch /\ call'[a].written = call[a].written
      /\ \/ call'[a].stage = "restoring" /\ call'[a].at = call[a].at + 1
            /\ call[a].at # call[a].written
         \/ call'[a].stage \in {"rolled_back", "rollback_failed"}
  BY RestoreStep DEF PatchInv
<1> QED
  BY <1>1, <1>2, <1>3 DEF Progress, Fresh, Knows, Working

LEMMA RestoreKeeps ==
  ASSUME PatchInv, NEW a \in Appliers,
         RestoreOpenFails(a) \/ Restore(a) \/ RestoreFails(a)
  PROVE  PatchInv'
<1>1. call[a].stage \in {"restoring", "rewriting"} /\ Types
  BY DEF RestoreOpenFails, Restore, RestoreFails, In, PatchInv
<1>2. Knows(a)
  BY <1>1, Knowing DEF Working
<1>3. /\ call' \in [Appliers -> Call] /\ \A b \in Appliers \ {a} : call'[b] = call[b]
      /\ Progress(a)' /\ Fresh(a)'
  BY <1>1, RestoreNextKeeps DEF RestoreOpenFails, Restore, RestoreFails
<1>4. CASE RestoreOpenFails(a)
  <2>1. Types' /\ FreshUnlessDisturbed'
    BY <1>3, <1>4 DEF RestoreOpenFails, PatchInv, Types, FreshUnlessDisturbed
  <2> QED
    BY <1>3, <1>4, <2>1, CallStep DEF RestoreOpenFails
<1>5. CASE Restore(a) \/ RestoreFails(a)
  <2>1. /\ disk' \in [Files -> Contents \cup {Empty, Torn}]
        /\ \A g \in Files : g # File(a) => disk'[g] = disk[g]
        /\ Disturbs(File(a), {a})
    BY <1>1, <1>2, <1>5, WriteStep DEF Restore, RestoreFails, Knows
  <2>2. disturbed' \subseteq Appliers /\ disturbed \subseteq disturbed'
    BY <1>1, <2>1, DisturbsGrows
  <2>3. UNCHANGED <<saves, stale, cut>>
    BY <1>5 DEF Restore, RestoreFails
  <2>4. Types' /\ FreshUnlessDisturbed'
    BY <1>1, <1>3, <2>1, <2>2, <2>3 DEF PatchInv, Types, FreshUnlessDisturbed
  <2> QED
    BY <1>3, <2>1, <2>4, CallStep
<1> QED
  BY <1>4, <1>5

\* Somebody else saves a file.
LEMMA SaveKeeps ==
  ASSUME PatchInv, NEW f \in Files, Save(f)
  PROVE  PatchInv'
<1>1. Types /\ \A b \in Appliers : call'[b] = call[b]
  BY DEF PatchInv, Save
<1>2. disturbed' \subseteq Appliers /\ disturbed \subseteq disturbed'
  BY <1>1, DisturbsGrows DEF Save
<1>3. \A g \in Files : g # f => disk'[g] = disk[g]
  BY <1>1 DEF Save, Types
<1>4. ASSUME NEW b \in Appliers PROVE Progress(b)' /\ Fresh(b)'
  <2>1. \A g \in Files : disk'[g] = disk[g] \/ (Active(b) /\ g \in PathsOf(call[b].patch) => b \in disturbed')
    BY <1>3 DEF Save, Disturbs
  <2> QED
    BY <1>1, <1>2, <2>1, OthersProgress, OthersFresh DEF PatchInv
<1>5. disk' \in [Files -> Contents \cup {Empty, Torn}] /\ saves' \in 0..SaveBound
  BY <1>1, PatchAssumption DEF Save, Types
<1>6. Types' /\ FreshUnlessDisturbed'
  BY <1>1, <1>2, <1>5 DEF Save, PatchInv, Types, FreshUnlessDisturbed
<1> QED
  BY <1>4, <1>6 DEF PatchInv

LEMMA KillKeeps ==
  ASSUME PatchInv, Kill
  PROVE  PatchInv'
<1>1. call' = [a \in Appliers |->
                 IF Active(a) THEN [call[a] EXCEPT !.stage = "killed"] ELSE call[a]]
  BY DEF Kill
<1>2. disk' \in [Files -> Contents \cup {Empty, Torn}] /\ disturbed' \subseteq Appliers
      /\ disturbed \subseteq disturbed'
  BY DEF Kill, PatchInv, Types
<1>3. ASSUME NEW a \in Appliers PROVE call'[a] \in Call /\ Progress(a)' /\ Fresh(a)'
  <2>1. call[a] \in Call /\ Progress(a) /\ Fresh(a) /\ (Active(a) <=> call[a].stage \in Working)
    BY ActiveWorks DEF PatchInv, Types
  <2>2. CASE Active(a)
    <3>1. call'[a] = [call[a] EXCEPT !.stage = "killed"]
      BY <1>1, <2>2
    <3>2. /\ call'[a] \in Call /\ call'[a].stage = "killed"
          /\ call'[a].patch = call[a].patch /\ call'[a].written = call[a].written
      BY <2>1, <3>1 DEF Call, Stages
    <3> QED
      BY <2>1, <2>2, <3>2, EndStep DEF Final, Working, Progress
  <2>3. CASE ~Active(a)
    <3>1. call'[a] = call[a]
      BY <1>1, <2>3
    <3>2. Fresh(a)'
      BY <2>1, <2>3, <3>1 DEF Fresh, Working
    <3> QED
      BY <2>1, <3>1, <3>2, OthersProgress
  <2> QED
    BY <2>2, <2>3
<1>4. call' \in [Appliers -> Call]
  BY <1>1, <1>3
<1>5. Types' /\ FreshUnlessDisturbed'
  BY <1>2, <1>4 DEF Kill, PatchInv, Types, FreshUnlessDisturbed
<1> QED
  BY <1>3, <1>5 DEF PatchInv

LEMMA PatchNext == PatchInv /\ [Next]_vars => PatchInv'
<1> SUFFICES ASSUME PatchInv, [Next]_vars PROVE PatchInv'
  OBVIOUS
<1>1. CASE Kill
  BY <1>1, KillKeeps
<1>2. ASSUME NEW f \in Files, Save(f) PROVE PatchInv'
  BY <1>2, SaveKeeps
<1>3. ASSUME NEW a \in Appliers, Start(a) \/ Check(a) \/ Refuse(a) PROVE PatchInv'
  BY <1>3, StartKeeps, CheckKeeps, RefuseKeeps
<1>4. ASSUME NEW a \in Appliers, Open(a) \/ OpenFails(a) \/ Write(a) \/ WriteFails(a)
      PROVE  PatchInv'
  BY <1>4, OpenKeeps, OpenFailsKeeps, WriteKeeps, WriteFailsKeeps
<1>5. ASSUME NEW a \in Appliers, Verify(a) \/ VerifyFails(a) PROVE PatchInv'
  BY <1>5, VerifyKeeps, VerifyFailsKeeps
<1>6. ASSUME NEW a \in Appliers,
             RestoreOpen(a) \/ RestoreOpenFails(a) \/ Restore(a) \/ RestoreFails(a)
      PROVE  PatchInv'
  BY <1>6, RestoreOpenKeeps, RestoreKeeps
<1>7. CASE UNCHANGED vars
  <2>1. \A b \in Appliers : Progress(b)' /\ Fresh(b)'
    BY <1>7, OthersProgress, OthersFresh DEF vars, PatchInv
  <2> QED
    BY <1>7, <2>1 DEF vars, PatchInv, Types, FreshUnlessDisturbed
<1> QED
  BY <1>1, <1>2, <1>3, <1>4, <1>5, <1>6, <1>7 DEF Next

-----------------------------------------------------------------------------
\* A file holds one of its versions, nothing, or parts of versions, and never
\* what an edit that does not fit would make of it.
THEOREM TypesHold == Spec => []TypeOK
<1>1. PatchInv => TypeOK
  BY ActiveWorks DEF PatchInv, Types, TypeOK, Progress
<1> QED
  BY PatchInit, PatchNext, <1>1, PTL DEF Spec

\* However many calls overlap, fail, are rolled back or killed, and whatever
\* names a patch uses: it overwrites a version it was not built for only when
\* somebody else wrote the file after it was checked.
THEOREM OverwritesOnlyItsVersion == Spec => []FreshUnlessDisturbed
<1>1. PatchInv => FreshUnlessDisturbed
  BY DEF PatchInv
<1> QED
  BY PatchInit, PatchNext, <1>1, PTL DEF Spec

\* Only a call that has read its last file again reports success.
LEMMA AppliedByVerify ==
  ASSUME PatchInv, Next, NEW a \in Appliers, Ends(a, "applied")
  PROVE  Verify(a) /\ Last(a)
<1>1. call[a].stage # "applied" /\ call'[a].stage = "applied"
  BY DEF Ends, In
<1>2. call \in [Appliers -> Call] /\ Types
  BY DEF PatchInv, Types
<1>3. CASE Kill
  BY <1>1, <1>2, <1>3 DEF Kill
<1>4. ASSUME NEW f \in Files, Save(f) PROVE FALSE
  BY <1>1, <1>4 DEF Save
<1>5. ASSUME NEW b \in Appliers, b # a, call'[a] = call[a] PROVE FALSE
  BY <1>1, <1>5
<1>6. ASSUME NEW b \in Appliers, Start(b) PROVE FALSE
  BY <1>1, <1>2, <1>6 DEF Start
<1>7. ASSUME NEW b \in Appliers, NEW stage \in Stages, NEW at \in Nat, Goto(b, stage, at)
      PROVE  b = a /\ stage = "applied"
  BY <1>1, <1>2, <1>7, GotoStep
<1>8. ASSUME NEW b \in Appliers,
             Check(b) \/ Refuse(b) \/ Open(b) \/ Write(b) \/ RestoreOpen(b)
      PROVE  FALSE
  <2>1. Knows(b)
    BY <1>8, Knowing DEF Check, Refuse, Open, Write, RestoreOpen, In, Working
  <2>2. PICK stage \in Stages \ {"applied"}, at \in Nat : Goto(b, stage, at)
    BY <1>8, <2>1 DEF Check, Refuse, Open, Write, RestoreOpen, Knows, Stages
  <2> QED
    BY <1>7, <2>2
<1>9. ASSUME NEW b \in Appliers, OpenFails(b) \/ WriteFails(b) \/ VerifyFails(b) PROVE FALSE
  <2>1. Knows(b)
    BY <1>9, Knowing DEF OpenFails, WriteFails, VerifyFails, In, Working
  <2>2. PICK written \in Nat : Rollback(b, written)
    BY <1>9, <2>1 DEF OpenFails, WriteFails, VerifyFails, Knows
  <2> QED
    BY <1>1, <1>2, <2>2, RollbackStep
<1>10. ASSUME NEW b \in Appliers, RestoreOpenFails(b) \/ Restore(b) \/ RestoreFails(b)
       PROVE  FALSE
  <2>1. PICK failed \in BOOLEAN : RestoreNext(b, failed)
    BY <1>10 DEF RestoreOpenFails, Restore, RestoreFails
  <2>2. /\ \A c \in Appliers \ {b} : call'[c] = call[c]
        /\ call'[b].stage \in {"restoring", "rolled_back", "rollback_failed"}
    BY <1>2, <2>1, RestoreStep
  <2> QED
    BY <1>1, <2>2
<1>11. ASSUME NEW b \in Appliers, Verify(b) PROVE b = a /\ Last(a)
  <2>1. Knows(b)
    BY <1>11, Knowing DEF Verify, In, Working
  <2>2. CASE Last(b)
    BY <1>7, <1>11, <2>1, <2>2 DEF Verify, Knows, Stages
  <2>3. CASE ~Last(b)
    BY <1>7, <1>11, <2>1, <2>3 DEF Verify, Knows, Stages
  <2> QED
    BY <2>2, <2>3
<1> QED
  BY <1>3, <1>4, <1>6, <1>8, <1>9, <1>10, <1>11 DEF Next

LEMMA AppliedIsDone ==
  ASSUME PatchInv, Next, NEW a \in Appliers, Ends(a, "applied"), a \notin disturbed,
         NEW k \in 1..Len(call[a].patch)
  PROVE  disk'[FileOf[call[a].patch[k].name]] = Post(call[a].patch[k])
<1>1. Verify(a) /\ Last(a)
  BY AppliedByVerify
<1>2. call[a].stage = "verifying" /\ Knows(a) /\ Fresh(a)
  BY <1>1, Knowing DEF Verify, In, Working, PatchInv
<1>3. Done(a, call[a].at) /\ disk' = disk
  BY <1>1, <1>2 DEF Verify, Done, Knows
<1>4. Done(a, k)
  BY <1>1, <1>2, <1>3 DEF Fresh, Last, Knows
<1> QED
  BY <1>3, <1>4 DEF Done, Target

\* A patch that reports success, undisturbed, has left its post-image in every
\* file it names, under whatever name.
THEOREM SuccessMeansDone == Spec => SuccessIsComplete
<1>1. PatchInv /\ [Next]_vars =>
        [\A a \in Appliers :
           Ends(a, "applied") /\ a \notin disturbed =>
             \A k \in 1..Len(call[a].patch) :
               disk'[FileOf[call[a].patch[k].name]] = Post(call[a].patch[k])]_vars
  BY AppliedIsDone
<1> QED
  BY PatchInit, PatchNext, <1>1, PTL DEF Spec, SuccessIsComplete

-----------------------------------------------------------------------------
\* What the rollback builds on.  A call that nobody disturbed has found the same
\* version under every name of a file; the file it is writing is truncated and
\* nothing else; every other file holds the version of one of its changes; and
\* the rollback still has before it whatever does not hold its pre-image.
Writing == Working \ {"reading"}
Restoring == {"restoring", "rewriting"}
Halfway(a) == call[a].stage \in {"writing", "rewriting"}

Indexes(a) == 1..Len(call[a].patch)

OnePre(a) ==
  \A j, k \in Indexes(a) :
    Target(a, j) = Target(a, k) => call[a].patch[j].pre = call[a].patch[k].pre

Held(a, k) ==
  \E j \in Indexes(a) :
    /\ Target(a, j) = Target(a, k)
    /\ disk[Target(a, k)] \in {call[a].patch[j].pre, Post(call[a].patch[j])}

ToRestore(a, k) ==
  \E j \in call[a].at..call[a].written : Target(a, j) = Target(a, k)

Recoverable(a, k) ==
  Target(a, k) \notin cut[a] =>
    /\ ~(Halfway(a) /\ Target(a, k) = File(a)) => Held(a, k)
    /\ call[a].stage \in Restoring => Intact(a, k) \/ ToRestore(a, k)

Undo(a) ==
  a \notin disturbed /\ call[a].stage \in Writing =>
    /\ OnePre(a)
    /\ Halfway(a) => disk[File(a)] = Empty
    /\ ~call[a].failed => \A k \in Indexes(a) : Recoverable(a, k)

\* Nothing has failed before the rollback begins.
Unfailed(a) ==
  call[a].stage \in {"unused", "reading", "opening", "writing", "verifying"} =>
    ~call[a].failed /\ cut[a] = {}

UndoInv == \A a \in Appliers : Undo(a) /\ Unfailed(a)

LEMMA UndoInit == Init => UndoInv
  BY DEF Init, UndoInv, Undo, Unfailed, Writing, Working

LEMMA OthersUndo ==
  ASSUME PatchInv, UndoInv, NEW b \in Appliers, call'[b] = call[b], cut'[b] = cut[b],
         disturbed \subseteq disturbed',
         \A g \in Files : disk'[g] = disk[g] \/ (Active(b) /\ g \in PathsOf(call[b].patch) => b \in disturbed')
  PROVE  Undo(b)' /\ Unfailed(b)'
<1>1. Unfailed(b)'
  BY DEF UndoInv, Unfailed
<1>2. ASSUME b \notin disturbed', call[b].stage \in Writing PROVE Undo(b)'
  <2>1. Knows(b) /\ Active(b) /\ call[b].patch \in Patches
    BY <1>2, Knowing, ActiveWorks DEF PatchInv, Writing, Knows
  <2>2. Undo(b) /\ b \notin disturbed
    BY <1>2 DEF UndoInv
  <2>3. ASSUME NEW k \in Indexes(b)
        PROVE  Target(b, k)' = Target(b, k) /\ disk'[Target(b, k)] = disk[Target(b, k)]
    <3>1. Target(b, k) \in Files /\ Target(b, k) \in PathsOf(call[b].patch)
      BY <2>1, Changes DEF Target, PathsOf, Indexes
    <3> QED
      BY <1>2, <2>1, <3>1 DEF Target
  <2>4. File(b)' = File(b) /\ disk'[File(b)] = disk[File(b)] /\ Indexes(b)' = Indexes(b)
    BY <2>1, <2>3 DEF Knows, Indexes, File, This
  <2>5. OnePre(b)'
    BY <1>2, <2>2, <2>4 DEF Undo, OnePre, Target
  <2>6. ASSUME NEW k \in Indexes(b), Recoverable(b, k) PROVE Recoverable(b, k)'
    BY <2>3, <2>4, <2>6 DEF Recoverable, Held, Intact, ToRestore, Halfway, Post, Target
  <2>7. ~call[b].failed => \A k \in Indexes(b) : Recoverable(b, k)'
    BY <1>2, <2>2, <2>6 DEF Undo
  <2>8. Halfway(b)' => disk'[File(b)'] = Empty
    BY <1>2, <2>2, <2>4 DEF Undo, Halfway
  <2> QED
    BY <2>4, <2>5, <2>7, <2>8 DEF Undo
<1> QED
  BY <1>1, <1>2 DEF Undo

\* What has to be shown of a step of one call.
LEMMA UndoStep ==
  ASSUME PatchInv, UndoInv, NEW a \in Appliers,
         \A b \in Appliers \ {a} : call'[b] = call[b] /\ cut'[b] = cut[b],
         Undo(a)', Unfailed(a)',
         \/ UNCHANGED <<disk, disturbed>>
         \/ /\ \A g \in Files : g # File(a) => disk'[g] = disk[g]
            /\ Disturbs(File(a), {a})
  PROVE  UndoInv'
<1>1. ASSUME NEW b \in Appliers \ {a} PROVE Undo(b)' /\ Unfailed(b)'
  <2>1. disturbed \subseteq disturbed'
    BY DEF Disturbs
  <2>2. \A g \in Files : disk'[g] = disk[g] \/ (Active(b) /\ g \in PathsOf(call[b].patch) => b \in disturbed')
    BY DEF Disturbs
  <2> QED
    BY <2>1, <2>2, OthersUndo
<1> QED
  BY <1>1 DEF UndoInv

\* What a call that keeps its patch knows of its changes.
LEMMA SameChanges ==
  ASSUME NEW a, call'[a].patch = call[a].patch
  PROVE  /\ Indexes(a)' = Indexes(a)
         /\ OnePre(a)' = OnePre(a)
         /\ \A k : Target(a, k)' = Target(a, k)
  BY DEF Indexes, OnePre, Target

LEMMA Targets ==
  ASSUME NEW a \in Appliers, Knows(a), NEW k \in Indexes(a)
  PROVE  Target(a, k) \in Files
  BY Changes DEF Knows, Indexes, Target

LEMMA HeldStays ==
  ASSUME NEW a, call'[a].patch = call[a].patch, NEW k, Held(a, k),
         disk'[Target(a, k)] = disk[Target(a, k)]
  PROVE  Held(a, k)'
  BY SameChanges DEF Held, Post

\* The end of phase 1.
LEMMA CheckUndo ==
  ASSUME PatchInv, UndoInv, NEW a \in Appliers, Check(a)
  PROVE  UndoInv'
<1>1. call[a].stage = "reading" /\ Fits(a) /\ Fresh(a)
  BY DEF Check, In, PatchInv
<1>2. Knows(a)
  BY <1>1, Knowing DEF Working
<1>3. /\ call'[a].patch = call[a].patch /\ call'[a].failed = call[a].failed
      /\ \A b \in Appliers \ {a} : call'[b] = call[b]
      /\ \/ Last(a) /\ call'[a].stage = "opening"
         \/ ~Last(a) /\ call'[a].stage = "reading"
  BY <1>2, GotoStep DEF Check, PatchInv, Stages, Knows
<1>4. Unfailed(a)'
  BY <1>1, <1>3 DEF Check, UndoInv, Unfailed
<1>5. ASSUME a \notin disturbed, Last(a), call'[a].stage = "opening" PROVE Undo(a)'
  <2>1. \A k \in Indexes(a) : Intact(a, k)
    <3>1. Intact(a, call[a].at)
      BY <1>1, <1>2 DEF Fits, Knows, Intact
    <3> QED
      BY <1>1, <1>2, <1>5, <3>1 DEF Knows, Last, Fresh, Indexes
  <2>2. OnePre(a)
    BY <2>1 DEF OnePre, Intact
  <2>3. \A k \in Indexes(a) : Held(a, k)
    BY <2>1 DEF Held, Intact
  <2>4. \A k \in Indexes(a) : Held(a, k)'
    BY <1>3, <2>3, HeldStays DEF Check
  <2>5. \A k \in Indexes(a)' : Recoverable(a, k)'
    BY <1>3, <1>5, <2>4, SameChanges DEF Recoverable, Restoring
  <2> QED
    BY <1>3, <1>5, <2>2, <2>5, SameChanges DEF Undo, Halfway
<1>6. Undo(a)'
  BY <1>3, <1>5 DEF Check, Undo, Writing
<1> QED
  BY <1>3, <1>4, <1>6, UndoStep DEF Check

LEMMA OpenUndo ==
  ASSUME PatchInv, UndoInv, NEW a \in Appliers, Open(a)
  PROVE  UndoInv'
<1>1. call[a].stage = "opening" /\ Types /\ Undo(a) /\ Unfailed(a)
  BY DEF Open, In, PatchInv, UndoInv
<1>2. Knows(a)
  BY <1>1, Knowing DEF Working
<1>3. /\ call'[a].patch = call[a].patch /\ call'[a].failed = call[a].failed
      /\ \A b \in Appliers \ {a} : call'[b] = call[b]
      /\ call'[a].stage = "writing" /\ call'[a].at = call[a].at
  BY <1>1, <1>2, GotoStep DEF Open, Stages, Knows
<1>4. /\ disk' = [disk EXCEPT ![File(a)] = Empty] /\ Disturbs(File(a), {a}) /\ cut' = cut
      /\ File(a)' = File(a)
  BY <1>3 DEF Open, Truncate, File, This
<1>5. /\ disk'[File(a)] = Empty
      /\ \A g \in Files : g # File(a) => disk'[g] = disk[g]
  BY <1>1, <1>2, <1>4 DEF Types, Knows
<1>6. disturbed \subseteq disturbed'
  BY <1>1, <1>4, DisturbsGrows
<1>7. Unfailed(a)'
  BY <1>1, <1>3, <1>4 DEF Unfailed
<1>8. ASSUME a \notin disturbed PROVE Undo(a)'
  <2>1. OnePre(a) /\ \A k \in Indexes(a) : Recoverable(a, k)
    BY <1>1, <1>8 DEF Undo, Unfailed, Writing, Working
  <2>2. ASSUME NEW k \in Indexes(a), Target(a, k) \notin cut[a], Target(a, k) # File(a)
        PROVE  Held(a, k)'
    <3>1. Held(a, k)
      BY <1>1, <2>1, <2>2 DEF Recoverable, Halfway
    <3>2. disk'[Target(a, k)] = disk[Target(a, k)]
      BY <1>2, <1>5, <2>2, Targets
    <3> QED
      BY <1>3, <3>1, <3>2, HeldStays
  <2>3. \A k \in Indexes(a)' : Recoverable(a, k)'
    BY <1>3, <1>4, <2>2, SameChanges DEF Recoverable, Halfway, Restoring
  <2>4. OnePre(a)'
    BY <1>3, <2>1, SameChanges
  <2>5. disk'[File(a)'] = Empty
    BY <1>4, <1>5
  <2> QED
    BY <2>3, <2>4, <2>5 DEF Undo
<1>9. Undo(a)'
  BY <1>6, <1>8 DEF Undo
<1> QED
  BY <1>3, <1>4, <1>5, <1>7, <1>9, UndoStep

LEMMA WriteUndo ==
  ASSUME PatchInv, UndoInv, NEW a \in Appliers, Write(a)
  PROVE  UndoInv'
<1>1. call[a].stage = "writing" /\ Types /\ Undo(a) /\ Unfailed(a)
  BY DEF Write, In, PatchInv, UndoInv
<1>2. Knows(a)
  BY <1>1, Knowing DEF Working
<1>3. /\ call'[a].patch = call[a].patch /\ call'[a].failed = call[a].failed
      /\ \A b \in Appliers \ {a} : call'[b] = call[b]
      /\ call'[a].stage \in {"verifying", "opening"}
  BY <1>1, <1>2, GotoStep DEF Write, Stages, Knows
<1>4. Put(a, Post(This(a))) /\ Disturbs(File(a), {a}) /\ cut' = cut
  BY DEF Write, Put
<1>5. \A g \in Files : g # File(a) => disk'[g] = disk[g]
  BY <1>1, <1>4 DEF Types, Put
<1>6. disturbed \subseteq disturbed'
  BY <1>1, <1>4, DisturbsGrows
<1>7. Unfailed(a)'
  BY <1>1, <1>3, <1>4 DEF Unfailed
<1>8. ASSUME a \notin disturbed PROVE Undo(a)'
  <2>1. /\ OnePre(a) /\ disk[File(a)] = Empty
        /\ \A k \in Indexes(a) : Recoverable(a, k)
    BY <1>1, <1>8 DEF Undo, Unfailed, Writing, Working, Halfway
  <2>2. disk'[File(a)] = Post(This(a))
    BY <1>1, <1>2, <1>4, <2>1 DEF Put, Types, Knows
  <2>3. ASSUME NEW k \in Indexes(a), Target(a, k) \notin cut[a] PROVE Held(a, k)'
    <3>1. CASE Target(a, k) = File(a)
      <4>1. PICK j \in Indexes(a) : j = call[a].at
        BY <1>2 DEF Knows, Indexes
      <4>2. Target(a, j) = Target(a, k) /\ disk'[Target(a, k)] = Post(call[a].patch[j])
        BY <1>2, <2>2, <3>1, <4>1 DEF Knows
      <4>3. /\ Indexes(a)' = Indexes(a) /\ Target(a, j)' = Target(a, j)
            /\ Target(a, k)' = Target(a, k) /\ call'[a].patch[j] = call[a].patch[j]
        BY <1>3, SameChanges
      <4>4. Held(a, k)'
        BY <4>2, <4>3 DEF Held, Post
      <4> QED
        BY <4>4
    <3>2. CASE Target(a, k) # File(a)
      <4>1. Held(a, k)
        BY <2>1, <2>3, <3>2 DEF Recoverable
      <4>2. disk'[Target(a, k)] = disk[Target(a, k)]
        BY <1>2, <1>5, <3>2, Targets
      <4> QED
        BY <1>3, <4>1, <4>2, HeldStays
    <3> QED
      BY <3>1, <3>2
  <2>4. \A k \in Indexes(a)' : Recoverable(a, k)'
    BY <1>3, <1>4, <2>3, SameChanges DEF Recoverable, Restoring
  <2>5. OnePre(a)'
    BY <1>3, <2>1, SameChanges
  <2>6. ~Halfway(a)'
    BY <1>3 DEF Halfway
  <2> QED
    BY <2>4, <2>5, <2>6 DEF Undo
<1>9. Undo(a)'
  BY <1>6, <1>8 DEF Undo
<1> QED
  BY <1>3, <1>4, <1>5, <1>7, <1>9, UndoStep

\* A rollback begins with every file it does not have before it as it was.
LEMMA RollbackUndo ==
  ASSUME PatchInv, UndoInv, NEW a \in Appliers, NEW written \in Nat, Rollback(a, written),
         call[a].stage \in Writing, disturbed \subseteq disturbed',
         a \notin disturbed => OnePre(a),
         \A k \in Indexes(a) :
           a \notin disturbed /\ Target(a, k) \notin cut'[a] =>
             /\ Held(a, k)
             /\ Intact(a, k) \/ \E j \in 1..written : Target(a, j) = Target(a, k)
             /\ disk'[Target(a, k)] = disk[Target(a, k)]
  PROVE  /\ \A b \in Appliers \ {a} : call'[b] = call[b]
         /\ Undo(a)' /\ Unfailed(a)'
<1>1. /\ \A b \in Appliers \ {a} : call'[b] = call[b]
      /\ call'[a].stage = IF written = 0 THEN "rolled_back" ELSE "restoring"
      /\ call'[a].at = 1 /\ call'[a].written = written
      /\ call'[a].patch = call[a].patch
  BY RollbackStep DEF PatchInv
<1>2. Unfailed(a)'
  BY <1>1 DEF Unfailed
<1>3. ASSUME a \notin disturbed PROVE Undo(a)'
  <2>1. OnePre(a)'
    BY <1>1, <1>3, SameChanges
  <2>2. ASSUME NEW k \in Indexes(a), Target(a, k) \notin cut'[a]
        PROVE  Held(a, k)' /\ (Intact(a, k)' \/ ToRestore(a, k)')
    <3>1. Held(a, k)'
      BY <1>1, <1>3, <2>2, HeldStays
    <3>2. CASE Intact(a, k)
      <4>1. disk'[Target(a, k)] = disk[Target(a, k)] /\ Target(a, k)' = Target(a, k)
        BY <1>1, <1>3, <2>2, SameChanges
      <4> QED
        BY <1>1, <3>1, <3>2, <4>1 DEF Intact
    <3>3. ASSUME NEW j \in 1..written, Target(a, j) = Target(a, k) PROVE ToRestore(a, k)'
      BY <1>1, <3>3, SameChanges DEF ToRestore
    <3> QED
      BY <1>3, <2>2, <3>1, <3>2, <3>3
  <2>3. \A k \in Indexes(a)' : Recoverable(a, k)'
    BY <1>1, <2>2, SameChanges DEF Recoverable
  <2>4. ~Halfway(a)'
    BY <1>1 DEF Halfway
  <2> QED
    BY <2>1, <2>3, <2>4 DEF Undo
<1>4. Undo(a)'
  BY <1>3 DEF Undo
<1> QED
  BY <1>1, <1>2, <1>4

\* What the writing loop has before it holds its pre-image, if the call has not
\* written it under another name.
LEMMA WritingLoop ==
  ASSUME PatchInv, UndoInv, NEW a \in Appliers, a \notin disturbed,
         call[a].stage \in {"opening", "writing"}
  PROVE  /\ Knows(a) /\ OnePre(a)
         /\ \A k \in Indexes(a) :
              /\ ~(Halfway(a) /\ Target(a, k) = File(a)) => Held(a, k)
              /\ \/ Intact(a, k)
                 \/ \E j \in 1..call[a].at - 1 : Target(a, j) = Target(a, k)
                 \/ call[a].stage = "writing" /\ Target(a, k) = File(a)
<1>1. Knows(a) /\ Fresh(a) /\ Undo(a) /\ Unfailed(a)
  BY Knowing DEF Working, PatchInv, UndoInv
<1>2. OnePre(a) /\ \A k \in Indexes(a) : Recoverable(a, k) /\ Target(a, k) \notin cut[a]
  BY <1>1 DEF Undo, Unfailed, Writing, Working
<1>3. \A k \in Indexes(a) : ~(Halfway(a) /\ Target(a, k) = File(a)) => Held(a, k)
  BY <1>2 DEF Recoverable
<1>4. ASSUME NEW k \in Indexes(a)
      PROVE  \/ Intact(a, k)
             \/ \E j \in 1..call[a].at - 1 : Target(a, j) = Target(a, k)
             \/ call[a].stage = "writing" /\ Target(a, k) = File(a)
  <2>1. CASE k \in 1..call[a].at - 1
    BY <2>1
  <2>2. CASE call[a].stage = "opening" /\ k \notin 1..call[a].at - 1
    <3>1. k \in call[a].at..Len(call[a].patch)
      BY <1>1, <2>2 DEF Knows, Indexes
    <3> QED
      BY <1>1, <2>2, <3>1 DEF Fresh, Owned
  <2>3. CASE call[a].stage = "writing" /\ k = call[a].at
    BY <1>1, <2>3 DEF Knows
  <2>4. CASE call[a].stage = "writing" /\ k # call[a].at /\ k \notin 1..call[a].at - 1
    <3>1. k \in call[a].at + 1..Len(call[a].patch)
      BY <1>1, <2>4 DEF Knows, Indexes
    <3>2. Intact(a, k) \/ Owned(a, k, call[a].at)
      BY <1>1, <2>4, <3>1 DEF Fresh
    <3>3. ASSUME NEW j \in 1..call[a].at, Target(a, j) = Target(a, k)
          PROVE  j \in 1..call[a].at - 1 \/ Target(a, k) = File(a)
      BY <1>1, <3>3 DEF Knows
    <3> QED
      BY <2>4, <3>2, <3>3 DEF Owned
  <2> QED
    BY <2>1, <2>2, <2>3, <2>4
<1> QED
  BY <1>1, <1>2, <1>3, <1>4

LEMMA OpenFailsUndo ==
  ASSUME PatchInv, UndoInv, NEW a \in Appliers, OpenFails(a)
  PROVE  UndoInv'
<1>1. call[a].stage = "opening" /\ Rollback(a, call[a].at - 1)
      /\ UNCHANGED <<disk, disturbed, cut>>
  BY DEF OpenFails, In
<1>2. Knows(a)
  BY <1>1, Knowing DEF Working
<1>3. call[a].at - 1 \in Nat
  BY <1>2 DEF Knows
<1>4. a \notin disturbed =>
        /\ OnePre(a)
        /\ \A k \in Indexes(a) :
             /\ Held(a, k)
             /\ Intact(a, k) \/ \E j \in 1..call[a].at - 1 : Target(a, j) = Target(a, k)
  BY <1>1, WritingLoop DEF Halfway
<1>5. /\ \A b \in Appliers \ {a} : call'[b] = call[b]
      /\ Undo(a)' /\ Unfailed(a)'
  BY <1>1, <1>3, <1>4, RollbackUndo DEF Writing, Working
<1> QED
  BY <1>1, <1>5, UndoStep

LEMMA WriteFailsUndo ==
  ASSUME PatchInv, UndoInv, NEW a \in Appliers, WriteFails(a)
  PROVE  UndoInv'
<1>1. /\ call[a].stage = "writing" /\ Rollback(a, call[a].at - 1) /\ Types
      /\ PutHalf(a) /\ cut' = [cut EXCEPT ![a] = @ \cup {File(a)}]
  BY DEF WriteFails, In, PatchInv
<1>2. Knows(a)
  BY <1>1, Knowing DEF Working
<1>3. call[a].at - 1 \in Nat
  BY <1>2 DEF Knows
<1>4. /\ \A g \in Files : g # File(a) => disk'[g] = disk[g]
      /\ Disturbs(File(a), {a})
  BY <1>1, <1>2, WriteStep DEF Knows
<1>5. File(a) \in cut'[a] /\ \A b \in Appliers \ {a} : cut'[b] = cut[b]
  BY <1>1 DEF Types
<1>6. disturbed \subseteq disturbed'
  BY <1>1, <1>4, DisturbsGrows
<1>7. ASSUME NEW k \in Indexes(a), a \notin disturbed, Target(a, k) \notin cut'[a]
      PROVE  /\ Held(a, k)
             /\ Intact(a, k) \/ \E j \in 1..call[a].at - 1 : Target(a, j) = Target(a, k)
             /\ disk'[Target(a, k)] = disk[Target(a, k)]
  <2>1. Target(a, k) # File(a) /\ Target(a, k) \in Files
    BY <1>2, <1>5, <1>7, Targets
  <2> QED
    BY <1>1, <1>4, <1>7, <2>1, WritingLoop
<1>8. a \notin disturbed => OnePre(a)
  BY <1>1, WritingLoop
<1>9. /\ \A b \in Appliers \ {a} : call'[b] = call[b]
      /\ Undo(a)' /\ Unfailed(a)'
  BY <1>1, <1>3, <1>6, <1>7, <1>8, RollbackUndo DEF Writing, Working
<1> QED
  BY <1>4, <1>5, <1>9, UndoStep

LEMMA VerifyFailsUndo ==
  ASSUME PatchInv, UndoInv, NEW a \in Appliers, VerifyFails(a)
  PROVE  UndoInv'
<1>1. /\ call[a].stage = "verifying" /\ Rollback(a, Len(call[a].patch))
      /\ UNCHANGED <<disk, disturbed, cut>> /\ Undo(a) /\ Unfailed(a)
  BY DEF VerifyFails, In, UndoInv
<1>2. Knows(a)
  BY <1>1, Knowing DEF Working
<1>3. a \notin disturbed => OnePre(a) /\ \A k \in Indexes(a) : Held(a, k)
  BY <1>1 DEF Undo, Unfailed, Recoverable, Halfway, Writing, Working
<1>4. \A k \in Indexes(a) : \E j \in 1..Len(call[a].patch) : Target(a, j) = Target(a, k)
  BY DEF Indexes
<1>5. /\ \A b \in Appliers \ {a} : call'[b] = call[b]
      /\ Undo(a)' /\ Unfailed(a)'
  BY <1>1, <1>2, <1>3, <1>4, RollbackUndo DEF Writing, Working, Knows
<1> QED
  BY <1>1, <1>5, UndoStep

LEMMA VerifyUndo ==
  ASSUME PatchInv, UndoInv, NEW a \in Appliers, Verify(a)
  PROVE  UndoInv'
<1>1. /\ call[a].stage = "verifying" /\ Undo(a) /\ Unfailed(a) /\ Types
      /\ UNCHANGED <<disk, disturbed, cut>>
  BY DEF Verify, In, PatchInv, UndoInv
<1>2. Knows(a)
  BY <1>1, Knowing DEF Working
<1>3. /\ call'[a].patch = call[a].patch /\ call'[a].failed = call[a].failed
      /\ \A b \in Appliers \ {a} : call'[b] = call[b]
      /\ call'[a].stage \in {"applied", "verifying"}
  BY <1>1, <1>2, GotoStep DEF Verify, Stages, Knows
<1>4. Unfailed(a)'
  BY <1>1, <1>3 DEF Unfailed
<1>5. ASSUME a \notin disturbed PROVE Undo(a)'
  <2>1. OnePre(a) /\ \A k \in Indexes(a) : Target(a, k) \notin cut[a] => Held(a, k)
    BY <1>1, <1>5 DEF Undo, Unfailed, Recoverable, Halfway, Writing, Working
  <2>2. OnePre(a)'
    BY <1>3, <2>1, SameChanges
  <2>3. \A k \in Indexes(a)' : Recoverable(a, k)'
    BY <1>1, <1>3, <2>1, SameChanges, HeldStays DEF Recoverable, Restoring
  <2>4. ~Halfway(a)'
    BY <1>3 DEF Halfway
  <2> QED
    BY <2>2, <2>3, <2>4 DEF Undo
<1>6. Undo(a)'
  BY <1>1, <1>5 DEF Undo
<1> QED
  BY <1>1, <1>3, <1>4, <1>6, UndoStep

\* The rollback.
LEMMA RestoreOpenUndo ==
  ASSUME PatchInv, UndoInv, NEW a \in Appliers, RestoreOpen(a)
  PROVE  UndoInv'
<1>1. call[a].stage = "restoring" /\ Types /\ Undo(a) /\ Progress(a)
  BY DEF RestoreOpen, In, PatchInv, UndoInv
<1>2. Knows(a)
  BY <1>1, Knowing DEF Working
<1>3. /\ call'[a].patch = call[a].patch /\ call'[a].failed = call[a].failed
      /\ \A b \in Appliers \ {a} : call'[b] = call[b]
      /\ call'[a].stage = "rewriting" /\ call'[a].at = call[a].at
      /\ call'[a].written = call[a].written
  BY <1>1, <1>2, GotoStep DEF RestoreOpen, Stages, Knows
<1>4. /\ disk' = [disk EXCEPT ![File(a)] = Empty] /\ Disturbs(File(a), {a}) /\ cut' = cut
      /\ File(a)' = File(a)
  BY <1>3 DEF RestoreOpen, Truncate, File, This
<1>5. /\ disk'[File(a)] = Empty
      /\ \A g \in Files : g # File(a) => disk'[g] = disk[g]
  BY <1>1, <1>2, <1>4 DEF Types, Knows
<1>6. disturbed \subseteq disturbed'
  BY <1>1, <1>4, DisturbsGrows
<1>7. Unfailed(a)'
  BY <1>3 DEF Unfailed
<1>8. ASSUME a \notin disturbed PROVE Undo(a)'
  <2>1. OnePre(a) /\ (~call[a].failed => \A k \in Indexes(a) : Recoverable(a, k))
    BY <1>1, <1>8 DEF Undo, Writing, Working
  <2>2. OnePre(a)'
    BY <1>3, <2>1, SameChanges
  <2>3. ASSUME ~call[a].failed, NEW k \in Indexes(a), Target(a, k) \notin cut[a]
        PROVE  /\ Target(a, k) # File(a) => Held(a, k)'
               /\ Intact(a, k)' \/ ToRestore(a, k)'
    <3>1. Held(a, k) /\ (Intact(a, k) \/ ToRestore(a, k))
      BY <1>1, <2>1, <2>3 DEF Recoverable, Halfway, Restoring
    <3>2. CASE Target(a, k) = File(a)
      <4>1. PICK j \in call[a].at..call[a].written : j = call[a].at
        BY <1>1, <1>2 DEF Knows, Call, Progress
      <4>2. Target(a, j) = Target(a, k)
        BY <1>2, <3>2, <4>1 DEF Knows
      <4>3. ToRestore(a, k)'
        BY <1>3, <4>2, SameChanges DEF ToRestore
      <4> QED
        BY <3>2, <4>3
    <3>3. CASE Target(a, k) # File(a)
      <4>1. disk'[Target(a, k)] = disk[Target(a, k)]
        BY <1>2, <1>5, <3>3, Targets
      <4>2. Held(a, k)'
        BY <1>3, <3>1, <4>1, HeldStays
      <4>3. CASE Intact(a, k)
        <5>1. Intact(a, k)'
          BY <1>3, <4>1, <4>3, SameChanges DEF Intact
        <5> QED
          BY <4>2, <5>1
      <4>4. CASE ToRestore(a, k)
        <5>1. ToRestore(a, k)'
          BY <1>3, <4>4, SameChanges DEF ToRestore
        <5> QED
          BY <4>2, <5>1
      <4> QED
        BY <3>1, <4>3, <4>4
    <3> QED
      BY <3>2, <3>3
  <2>4. ~call[a].failed => \A k \in Indexes(a)' : Recoverable(a, k)'
    BY <1>3, <1>4, <2>3, SameChanges DEF Recoverable, Halfway
  <2>5. disk'[File(a)'] = Empty
    BY <1>4, <1>5
  <2> QED
    BY <1>3, <2>2, <2>4, <2>5 DEF Undo
<1>9. Undo(a)'
  BY <1>6, <1>8 DEF Undo
<1> QED
  BY <1>3, <1>4, <1>5, <1>7, <1>9, UndoStep

\* Once a restore has failed, nothing is claimed of the files any more.
LEMMA RestoreFailsUndo ==
  ASSUME PatchInv, UndoInv, NEW a \in Appliers, RestoreOpenFails(a) \/ RestoreFails(a)
  PROVE  UndoInv'
<1>1. /\ call[a].stage \in Restoring /\ Types /\ Undo(a)
      /\ RestoreNext(a, TRUE) /\ cut' = cut
  BY DEF RestoreOpenFails, RestoreFails, In, Restoring, PatchInv, UndoInv
<1>2. Knows(a)
  BY <1>1, Knowing DEF Restoring, Working
<1>3. /\ call'[a].patch = call[a].patch /\ call'[a].failed
      /\ \A b \in Appliers \ {a} : call'[b] = call[b]
      /\ call'[a].stage \in {"restoring", "rolled_back", "rollback_failed"}
  BY <1>1, RestoreStep
<1>4. \/ UNCHANGED <<disk, disturbed>>
      \/ /\ \A g \in Files : g # File(a) => disk'[g] = disk[g]
         /\ Disturbs(File(a), {a})
  BY <1>1, <1>2, WriteStep DEF RestoreOpenFails, RestoreFails, Knows
<1>5. disturbed \subseteq disturbed'
  BY <1>4 DEF Disturbs
<1>6. Unfailed(a)' /\ ~Halfway(a)'
  BY <1>3 DEF Unfailed, Halfway
<1>7. a \notin disturbed => OnePre(a)'
  BY <1>1, <1>3, SameChanges DEF Undo, Writing, Working, Restoring
<1>8. Undo(a)'
  BY <1>3, <1>5, <1>6, <1>7 DEF Undo
<1> QED
  BY <1>1, <1>3, <1>4, <1>6, <1>8, UndoStep

\* A restore puts back what every name of the file had before.
LEMMA RestorePuts ==
  ASSUME PatchInv, UndoInv, NEW a \in Appliers, Restore(a), a \notin disturbed
  PROVE  /\ Knows(a) /\ OnePre(a)
         /\ disk'[File(a)] = This(a).pre
         /\ \A g \in Files : g # File(a) => disk'[g] = disk[g]
         /\ \A k \in Indexes(a) : Target(a, k) = File(a) => This(a).pre = call[a].patch[k].pre
         /\ ~call[a].failed => \A k \in Indexes(a) : Recoverable(a, k)
<1>1. call[a].stage = "rewriting" /\ Types /\ Undo(a)
  BY DEF Restore, In, PatchInv, UndoInv
<1>2. Knows(a)
  BY <1>1, Knowing DEF Working
<1>3. /\ OnePre(a) /\ disk[File(a)] = Empty
      /\ ~call[a].failed => \A k \in Indexes(a) : Recoverable(a, k)
  BY <1>1 DEF Undo, Writing, Working, Halfway
<1>4. disk' = [disk EXCEPT ![File(a)] = This(a).pre]
  BY <1>3 DEF Restore, Put
<1>5. /\ disk'[File(a)] = This(a).pre
      /\ \A g \in Files : g # File(a) => disk'[g] = disk[g]
  BY <1>1, <1>2, <1>4 DEF Types, Knows
<1>6. \A k \in Indexes(a) : Target(a, k) = File(a) => This(a).pre = call[a].patch[k].pre
  BY <1>2, <1>3 DEF OnePre, Knows, Indexes
<1> QED
  BY <1>2, <1>3, <1>5, <1>6

\* What a restore leaves to be restored.
LEMMA RestoreRest ==
  ASSUME PatchInv, UndoInv, NEW a \in Appliers, Restore(a), a \notin disturbed,
         ~call[a].failed, NEW k \in Indexes(a), Target(a, k) \notin cut[a]
  PROVE  \/ disk'[Target(a, k)] = call[a].patch[k].pre
         \/ \E j \in call[a].at + 1..call[a].written : Target(a, j) = Target(a, k)
<1>1. call[a].stage = "rewriting"
  BY DEF Restore, In
<1>2. CASE Target(a, k) = File(a)
  BY <1>2, RestorePuts
<1>3. CASE Target(a, k) # File(a)
  <2>1. Knows(a) /\ Recoverable(a, k) /\ disk'[Target(a, k)] = disk[Target(a, k)]
    BY <1>3, RestorePuts, Targets
  <2>2. CASE Intact(a, k)
    BY <2>1, <2>2 DEF Intact
  <2>3. CASE ToRestore(a, k)
    <3>1. PICK j \in call[a].at..call[a].written : Target(a, j) = Target(a, k)
      BY <2>3 DEF ToRestore
    <3>2. j # call[a].at
      BY <1>3, <2>1, <3>1 DEF Knows
    <3>3. j \in call[a].at + 1..call[a].written
      BY <2>1, <3>1, <3>2 DEF Knows
    <3> QED
      BY <3>1, <3>3
  <2> QED
    BY <1>1, <2>1, <2>2, <2>3 DEF Recoverable, Restoring
<1> QED
  BY <1>2, <1>3

LEMMA RestoreUndo ==
  ASSUME PatchInv, UndoInv, NEW a \in Appliers, Restore(a)
  PROVE  UndoInv'
<1>1. /\ call[a].stage = "rewriting" /\ Types /\ Undo(a)
      /\ RestoreNext(a, FALSE) /\ cut' = cut
      /\ Put(a, This(a).pre)
  BY DEF Restore, In, PatchInv, UndoInv
<1>2. Knows(a)
  BY <1>1, Knowing DEF Working
<1>3. /\ call'[a].patch = call[a].patch /\ call'[a].failed = (call[a].failed \/ FALSE)
      /\ call'[a].written = call[a].written
      /\ \A b \in Appliers \ {a} : call'[b] = call[b]
      /\ \/ call'[a].stage = "restoring" /\ call'[a].at = call[a].at + 1
         \/ call'[a].stage \in {"rolled_back", "rollback_failed"}
  BY <1>1, RestoreStep
<1>4. /\ \A g \in Files : g # File(a) => disk'[g] = disk[g]
      /\ Disturbs(File(a), {a})
  BY <1>1, <1>2, WriteStep DEF Knows
<1>5. disturbed \subseteq disturbed'
  BY <1>1, <1>4, DisturbsGrows
<1>6. Unfailed(a)' /\ ~Halfway(a)'
  BY <1>3 DEF Unfailed, Halfway
<1>7. ASSUME a \notin disturbed, call'[a].stage = "restoring" PROVE Undo(a)'
  <2>1. OnePre(a)'
    BY <1>3, <1>7, RestorePuts, SameChanges
  <2>2. call'[a].at = call[a].at + 1
    BY <1>3, <1>7
  <2>3. ASSUME ~call[a].failed, NEW k \in Indexes(a), Target(a, k) \notin cut[a]
        PROVE  Held(a, k)' /\ (Intact(a, k)' \/ ToRestore(a, k)')
    <3>1. Held(a, k)'
      <4>1. CASE Target(a, k) = File(a)
        <5>1. disk'[Target(a, k)] = call[a].patch[k].pre
          BY <1>7, <4>1, RestorePuts
        <5> QED
          BY <1>3, <5>1, SameChanges DEF Held
      <4>2. CASE Target(a, k) # File(a)
        <5>1. Held(a, k)
          BY <1>7, <2>3, <4>2, RestorePuts DEF Recoverable
        <5>2. disk'[Target(a, k)] = disk[Target(a, k)]
          BY <1>2, <1>4, <4>2, Targets
        <5> QED
          BY <1>3, <5>1, <5>2, HeldStays
      <4> QED
        BY <4>1, <4>2
    <3>2. CASE disk'[Target(a, k)] = call[a].patch[k].pre
      <4>1. Intact(a, k)'
        BY <1>3, <3>2, SameChanges DEF Intact
      <4> QED
        BY <3>1, <4>1
    <3>3. ASSUME NEW j \in call[a].at + 1..call[a].written, Target(a, j) = Target(a, k)
          PROVE  ToRestore(a, k)'
      BY <1>3, <2>2, <3>3, SameChanges DEF ToRestore
    <3> QED
      BY <1>7, <2>3, <3>1, <3>2, <3>3, RestoreRest
  <2>4. ~call[a].failed => \A k \in Indexes(a)' : Recoverable(a, k)'
    BY <1>1, <1>3, <2>3, SameChanges DEF Recoverable
  <2> QED
    BY <1>3, <1>6, <2>1, <2>4 DEF Undo
<1>8. Undo(a)'
  BY <1>3, <1>5, <1>7 DEF Undo, Writing, Working
<1> QED
  BY <1>1, <1>3, <1>4, <1>6, <1>8, UndoStep

LEMMA StartUndo ==
  ASSUME PatchInv, UndoInv, NEW a \in Appliers, Start(a)
  PROVE  UndoInv'
<1>1. PICK p \in Patches :
        call' = [call EXCEPT ![a].patch = p, ![a].at = 1,
                             ![a].stage = IF Valid(p) THEN "reading" ELSE "refused"]
  BY DEF Start
<1>2. /\ call[a].stage = "unused" /\ Types /\ Unfailed(a)
      /\ UNCHANGED <<disk, disturbed, cut>>
  BY DEF Start, In, PatchInv, UndoInv
<1>3. /\ \A b \in Appliers \ {a} : call'[b] = call[b]
      /\ call'[a].failed = call[a].failed
      /\ call'[a].stage \in {"reading", "refused"}
  BY <1>1, <1>2 DEF Types, Call
<1>4. Undo(a)' /\ Unfailed(a)'
  BY <1>2, <1>3 DEF Undo, Unfailed, Writing, Working
<1> QED
  BY <1>2, <1>3, <1>4, UndoStep

LEMMA RefuseUndo ==
  ASSUME PatchInv, UndoInv, NEW a \in Appliers, Refuse(a)
  PROVE  UndoInv'
<1>1. call[a].stage = "reading" /\ UNCHANGED <<disk, disturbed, cut>>
  BY DEF Refuse, In
<1>2. Knows(a)
  BY <1>1, Knowing DEF Working
<1>3. /\ \A b \in Appliers \ {a} : call'[b] = call[b]
      /\ call'[a].stage = "refused"
  BY <1>2, GotoStep DEF Refuse, PatchInv, Stages, Knows
<1>4. Undo(a)' /\ Unfailed(a)'
  BY <1>3 DEF Undo, Unfailed, Writing, Working
<1> QED
  BY <1>1, <1>3, <1>4, UndoStep

LEMMA SaveUndo ==
  ASSUME PatchInv, UndoInv, NEW f \in Files, Save(f)
  PROVE  UndoInv'
<1>1. /\ \A b \in Appliers : call'[b] = call[b] /\ cut'[b] = cut[b]
      /\ \A g \in Files : g # f => disk'[g] = disk[g]
      /\ disturbed \subseteq disturbed'
  BY DEF Save, PatchInv, Types, Disturbs
<1>2. ASSUME NEW b \in Appliers PROVE Undo(b)' /\ Unfailed(b)'
  <2>1. \A g \in Files : disk'[g] = disk[g] \/ (Active(b) /\ g \in PathsOf(call[b].patch) => b \in disturbed')
    BY <1>1 DEF Save, Disturbs
  <2> QED
    BY <1>1, <2>1, OthersUndo
<1> QED
  BY <1>2 DEF UndoInv

LEMMA KillUndo ==
  ASSUME PatchInv, UndoInv, Kill
  PROVE  UndoInv'
<1>1. ASSUME NEW a \in Appliers PROVE Undo(a)' /\ Unfailed(a)'
  <2>1. call'[a].stage \notin Writing /\ (call'[a].stage = "killed" \/ call'[a] = call[a])
    BY ActiveWorks DEF Kill, PatchInv, Types, Call, Writing, Working
  <2>2. cut' = cut
    BY DEF Kill
  <2> QED
    BY <2>1, <2>2 DEF UndoInv, Undo, Unfailed
<1> QED
  BY <1>1 DEF UndoInv

LEMMA UndoNext == PatchInv /\ UndoInv /\ [Next]_vars => UndoInv'
<1> SUFFICES ASSUME PatchInv, UndoInv, [Next]_vars PROVE UndoInv'
  OBVIOUS
<1>1. CASE Kill
  BY <1>1, KillUndo
<1>2. ASSUME NEW f \in Files, Save(f) PROVE UndoInv'
  BY <1>2, SaveUndo
<1>3. ASSUME NEW a \in Appliers, Start(a) \/ Check(a) \/ Refuse(a) PROVE UndoInv'
  BY <1>3, StartUndo, CheckUndo, RefuseUndo
<1>4. ASSUME NEW a \in Appliers, Open(a) \/ OpenFails(a) \/ Write(a) \/ WriteFails(a)
      PROVE  UndoInv'
  BY <1>4, OpenUndo, OpenFailsUndo, WriteUndo, WriteFailsUndo
<1>5. ASSUME NEW a \in Appliers, Verify(a) \/ VerifyFails(a) PROVE UndoInv'
  BY <1>5, VerifyUndo, VerifyFailsUndo
<1>6. ASSUME NEW a \in Appliers,
             RestoreOpen(a) \/ RestoreOpenFails(a) \/ Restore(a) \/ RestoreFails(a)
      PROVE  UndoInv'
  BY <1>6, RestoreOpenUndo, RestoreFailsUndo, RestoreUndo
<1>7. CASE UNCHANGED vars
  <2>1. ASSUME NEW b \in Appliers PROVE Undo(b)' /\ Unfailed(b)'
    BY <1>7, OthersUndo DEF vars
  <2> QED
    BY <2>1 DEF UndoInv
<1> QED
  BY <1>1, <1>2, <1>3, <1>4, <1>5, <1>6, <1>7 DEF Next

-----------------------------------------------------------------------------
\* The steps of one call, and what follows on each stage.
Moves(a) ==
  \/ Start(a) \/ Check(a) \/ Refuse(a)
  \/ Open(a) \/ OpenFails(a) \/ Write(a) \/ WriteFails(a)
  \/ Verify(a) \/ VerifyFails(a)
  \/ RestoreOpen(a) \/ RestoreOpenFails(a) \/ Restore(a) \/ RestoreFails(a)

LEMMA Movers ==
  ASSUME Types, Next, NEW a \in Appliers, call'[a] # call[a]
  PROVE  Kill \/ Moves(a)
<1>1. ASSUME NEW f \in Files PROVE ~Save(f)
  BY DEF Save
<1>2. ASSUME NEW b \in Appliers, b # a PROVE ~Moves(b)
  <2> USE DEF Types
  <2>1. ~Start(b)
    BY <1>2 DEF Start
  <2>2. ASSUME NEW stage, NEW at PROVE ~Goto(b, stage, at)
    BY <1>2 DEF Goto
  <2>3. ASSUME NEW written PROVE ~Rollback(b, written)
    BY <1>2 DEF Rollback
  <2>4. ASSUME NEW failed PROVE ~RestoreNext(b, failed)
    BY <1>2 DEF RestoreNext
  <2> QED
    BY <2>1, <2>2, <2>3, <2>4
    DEF Moves, Check, Refuse, Open, OpenFails, Write, WriteFails, Verify, VerifyFails,
        RestoreOpen, RestoreOpenFails, Restore, RestoreFails
<1> QED
  BY <1>1, <1>2 DEF Next, Moves

\* Where the forward steps lead, and where the ones of the rollback do.
LEMMA StageSteps ==
  ASSUME PatchInv, NEW a \in Appliers, Moves(a)
  PROVE  /\ \A b \in Appliers \ {a} : call'[b] = call[b]
         /\ ~Start(a) => Knows(a) /\ call'[a].patch = call[a].patch
         /\ Start(a) => /\ call[a].stage = "unused"
                        /\ call'[a].stage \in {"reading", "refused"}
         /\ Check(a) => /\ call[a].stage = "reading"
                        /\ \/ call'[a].stage = "reading"
                           \/ call'[a].stage = "opening" /\ call'[a].at = 1
         /\ Refuse(a) => /\ call[a].stage = "reading"
                         /\ call'[a].stage = "refused"
         /\ Open(a) => /\ call[a].stage = "opening"
                       /\ call'[a].stage = "writing" /\ call'[a].at = call[a].at
         /\ Write(a) => /\ call[a].stage = "writing"
                        /\ \/ call'[a].stage = "opening" /\ call'[a].at = call[a].at + 1
                           \/ call'[a].stage = "verifying" /\ call[a].at = Len(call[a].patch)
         /\ Verify(a) => /\ call[a].stage = "verifying"
                         /\ call'[a].stage \in {"verifying", "applied"}
         /\ RestoreOpen(a) => /\ call[a].stage = "restoring"
                              /\ call'[a].stage = "rewriting"
                              /\ call'[a].written = call[a].written
<1>1. CASE Start(a)
  <2>1. PICK p \in Patches :
          call' = [call EXCEPT ![a].patch = p, ![a].at = 1,
                               ![a].stage = IF Valid(p) THEN "reading" ELSE "refused"]
    BY <1>1 DEF Start
  <2>2. /\ call[a].stage = "unused" /\ call'[a].stage \in {"reading", "refused"}
        /\ \A b \in Appliers \ {a} : call'[b] = call[b]
    BY <1>1, <2>1 DEF Start, In, PatchInv, Types, Call
  <2> QED
    BY <1>1, <2>2 DEF Check, Refuse, Open, Write, Verify, RestoreOpen, In
<1>2. CASE ~Start(a)
  <2>1. Knows(a) /\ Types
    BY <1>2, Knowing
    DEF Moves, Check, Refuse, Open, OpenFails, Write, WriteFails, Verify, VerifyFails,
        RestoreOpen, RestoreOpenFails, Restore, RestoreFails, In, Working, PatchInv
  <2>2. ASSUME NEW stage \in Stages, NEW at \in Nat, Goto(a, stage, at)
        PROVE  /\ \A b \in Appliers \ {a} : call'[b] = call[b]
               /\ call'[a].patch = call[a].patch
               /\ call'[a].stage = stage /\ call'[a].at = at
               /\ call'[a].written = call[a].written
    BY <2>1, <2>2, GotoStep
  <2>3. CASE Check(a)
    BY <1>2, <2>1, <2>2, <2>3
    DEF Check, Refuse, Open, Write, Verify, RestoreOpen, In, Knows, Stages
  <2>4. CASE Refuse(a)
    BY <1>2, <2>1, <2>2, <2>4
    DEF Check, Refuse, Open, Write, Verify, RestoreOpen, In, Knows, Stages
  <2>5. CASE Open(a)
    BY <1>2, <2>1, <2>2, <2>5
    DEF Check, Refuse, Open, Write, Verify, RestoreOpen, In, Knows, Stages
  <2>6. CASE Write(a)
    BY <1>2, <2>1, <2>2, <2>6
    DEF Check, Refuse, Open, Write, Verify, RestoreOpen, In, Knows, Stages, Last
  <2>7. CASE Verify(a)
    BY <1>2, <2>1, <2>2, <2>7
    DEF Check, Refuse, Open, Write, Verify, RestoreOpen, In, Knows, Stages
  <2>8. CASE RestoreOpen(a)
    BY <1>2, <2>1, <2>2, <2>8
    DEF Check, Refuse, Open, Write, Verify, RestoreOpen, In, Knows, Stages
  <2>9. CASE OpenFails(a) \/ WriteFails(a) \/ VerifyFails(a)
    <3>1. PICK written \in Nat : Rollback(a, written)
      BY <2>1, <2>9 DEF OpenFails, WriteFails, VerifyFails, Knows
    <3>2. /\ \A b \in Appliers \ {a} : call'[b] = call[b]
          /\ call'[a].patch = call[a].patch
          /\ call'[a].stage \in {"rolled_back", "restoring"} /\ call'[a].at = 1
      BY <2>1, <3>1, RollbackStep
    <3>3. ASSUME NEW stage \in Stages \ {"rolled_back", "restoring"}, NEW at \in Nat
          PROVE  ~Goto(a, stage, at)
      BY <2>2, <3>2, <3>3
    <3> QED
      BY <1>2, <2>1, <3>2, <3>3
      DEF Check, Refuse, Open, Write, Verify, RestoreOpen, Knows, Stages
  <2>10. CASE RestoreOpenFails(a) \/ Restore(a) \/ RestoreFails(a)
    <3>1. PICK failed \in BOOLEAN : RestoreNext(a, failed)
      BY <2>10 DEF RestoreOpenFails, Restore, RestoreFails
    <3>2. /\ \A b \in Appliers \ {a} : call'[b] = call[b]
          /\ call'[a].patch = call[a].patch
          /\ call'[a].stage \in {"rolled_back", "restoring", "rollback_failed"}
      BY <2>1, <3>1, RestoreStep
    <3>3. ASSUME NEW stage \in Stages \ {"rolled_back", "restoring", "rollback_failed"},
                 NEW at \in Nat
          PROVE  ~Goto(a, stage, at)
      BY <2>2, <3>2, <3>3
    <3> QED
      BY <1>2, <2>1, <3>2, <3>3
      DEF Check, Refuse, Open, Write, Verify, RestoreOpen, Knows, Stages
  <2> QED
    BY <1>2, <2>3, <2>4, <2>5, <2>6, <2>7, <2>8, <2>9, <2>10 DEF Moves
<1> QED
  BY <1>1, <1>2

LEMMA RollbackStages ==
  ASSUME PatchInv, NEW a \in Appliers, Moves(a)
  PROVE  /\ OpenFails(a) =>
              /\ call[a].stage = "opening"
              /\ \/ call'[a].stage = "rolled_back" /\ call[a].at = 1
                 \/ call'[a].stage = "restoring" /\ call'[a].written = call[a].at - 1
         /\ WriteFails(a) =>
              /\ call[a].stage = "writing"
              /\ \/ call'[a].stage = "rolled_back" /\ call[a].at = 1
                 \/ call'[a].stage = "restoring" /\ call'[a].written = call[a].at - 1
         /\ VerifyFails(a) =>
              /\ call[a].stage = "verifying"
              /\ call'[a].stage = "restoring" /\ call'[a].written = Len(call[a].patch)
         /\ RestoreOpenFails(a) \/ RestoreFails(a) =>
              /\ call[a].stage \in Restoring
              /\ \/ call'[a].stage = "restoring" /\ call'[a].written = call[a].written
                 \/ call'[a].stage = "rollback_failed"
         /\ Restore(a) =>
              /\ call[a].stage = "rewriting"
              /\ \/ call'[a].stage = "restoring" /\ call'[a].written = call[a].written
                 \/ /\ call[a].at = call[a].written
                    /\ call'[a].stage = IF call[a].failed THEN "rollback_failed" ELSE "rolled_back"
<1>1. Types
  BY DEF PatchInv
<1>2. ASSUME OpenFails(a) \/ WriteFails(a) \/ VerifyFails(a) PROVE Knows(a)
  BY <1>2, Knowing DEF OpenFails, WriteFails, VerifyFails, In, Working
<1>3. ASSUME NEW written \in Nat, Rollback(a, written)
      PROVE  /\ call'[a].stage = IF written = 0 THEN "rolled_back" ELSE "restoring"
             /\ call'[a].written = written
  BY <1>1, <1>3, RollbackStep
<1>4. ASSUME OpenFails(a) \/ WriteFails(a)
      PROVE  \/ call'[a].stage = "rolled_back" /\ call[a].at = 1
             \/ call'[a].stage = "restoring" /\ call'[a].written = call[a].at - 1
  <2>1. call[a].at - 1 \in Nat /\ Rollback(a, call[a].at - 1)
    BY <1>2, <1>4 DEF OpenFails, WriteFails, Knows
  <2> QED
    BY <1>2, <1>3, <1>4, <2>1 DEF Knows
<1>5. ASSUME VerifyFails(a)
      PROVE  call'[a].stage = "restoring" /\ call'[a].written = Len(call[a].patch)
  BY <1>2, <1>3, <1>5 DEF VerifyFails, Knows
<1>6. ASSUME RestoreOpenFails(a) \/ RestoreFails(a)
      PROVE  \/ call'[a].stage = "restoring" /\ call'[a].written = call[a].written
             \/ call'[a].stage = "rollback_failed"
  <2>1. RestoreNext(a, TRUE)
    BY <1>6 DEF RestoreOpenFails, RestoreFails
  <2>2. /\ call'[a].written = call[a].written
        /\ call'[a].failed = (call[a].failed \/ TRUE)
        /\ \/ call'[a].stage = "restoring"
           \/ call'[a].stage = IF call'[a].failed THEN "rollback_failed" ELSE "rolled_back"
    BY <1>1, <2>1, RestoreStep
  <2> QED
    BY <2>2
<1>7. ASSUME Restore(a)
      PROVE  \/ call'[a].stage = "restoring" /\ call'[a].written = call[a].written
             \/ /\ call[a].at = call[a].written
                /\ call'[a].stage = IF call[a].failed THEN "rollback_failed" ELSE "rolled_back"
  <2>1. RestoreNext(a, FALSE) /\ call[a].failed \in BOOLEAN
    BY <1>1, <1>7 DEF Restore, Types, Call
  <2>2. /\ call'[a].written = call[a].written
        /\ call'[a].failed = (call[a].failed \/ FALSE)
        /\ \/ call'[a].stage = "restoring"
           \/ /\ call[a].at = call[a].written
              /\ call'[a].stage = IF call'[a].failed THEN "rollback_failed" ELSE "rolled_back"
    BY <1>1, <2>1, RestoreStep
  <2>3. call'[a].failed = call[a].failed
    BY <2>1, <2>2
  <2> QED
    BY <2>2, <2>3
<1> QED
  BY <1>4, <1>5, <1>6, <1>7
  DEF OpenFails, WriteFails, VerifyFails, RestoreOpenFails, RestoreFails, Restore, In, Restoring

-----------------------------------------------------------------------------
\* A clean rollback ends with the restore of the last file written, or before
\* any file was written.
LEMMA RolledBack ==
  ASSUME PatchInv, UndoInv, NEW a \in Appliers, Moves(a), Ends(a, "rolled_back"),
         a \notin disturbed, NEW k \in Indexes(a), Target(a, k) \notin cut'[a]
  PROVE  disk'[Target(a, k)] = call[a].patch[k].pre
<1>1. call'[a].stage = "rolled_back" /\ Types
  BY DEF Ends, PatchInv
<1>2. CASE OpenFails(a)
  <2>1. call[a].stage = "opening" /\ call[a].at = 1
    BY <1>1, <1>2, RollbackStages
  <2>2. Intact(a, k)
    BY <2>1, WritingLoop
  <2> QED
    BY <1>2, <2>2 DEF OpenFails, Intact
<1>3. CASE WriteFails(a)
  <2>1. call[a].stage = "writing" /\ call[a].at = 1 /\ Knows(a)
    BY <1>1, <1>3, RollbackStages, WritingLoop
  <2>2. Target(a, k) # File(a) /\ Target(a, k) \in Files
    BY <1>1, <1>3, <2>1, Targets DEF WriteFails, Types
  <2>3. Intact(a, k)
    BY <2>1, <2>2, WritingLoop
  <2>4. disk'[Target(a, k)] = disk[Target(a, k)]
    BY <1>1, <1>3, <2>1, <2>2, WriteStep DEF WriteFails, Knows
  <2> QED
    BY <2>3, <2>4 DEF Intact
<1>4. CASE Restore(a)
  <2>1. call[a].at = call[a].written /\ ~call[a].failed /\ cut' = cut
    BY <1>1, <1>4, RollbackStages DEF Restore
  <2>2. call[a].at \in Nat
    BY <1>1 DEF Types, Call
  <2> QED
    BY <1>4, <2>1, <2>2, RestoreRest
<1> QED
  BY <1>1, <1>2, <1>3, <1>4, StageSteps, RollbackStages DEF Moves

LEMMA EndsByMoving ==
  ASSUME Types, Next, NEW a \in Appliers, NEW stage \in {"applied", "rolled_back"}, Ends(a, stage)
  PROVE  Moves(a)
<1>1. call'[a].stage = stage /\ call[a].stage # stage
  BY DEF Ends, In
<1>2. ~Kill
  BY <1>1 DEF Kill, Types, Call
<1> QED
  BY <1>1, <1>2, Movers

\* A patch that reports a clean rollback, undisturbed, has put every file back
\* that was not cut short under its own hands, whichever of its steps failed and
\* however often its files were written under other names.
THEOREM RollbackIsClean == Spec => RollbackRestores
<1>1. ASSUME PatchInv, UndoInv, Next, NEW a \in Appliers, Ends(a, "rolled_back"),
             a \notin disturbed, NEW k \in Indexes(a), Target(a, k) \notin cut'[a]
      PROVE  disk'[Target(a, k)] = call[a].patch[k].pre
  BY <1>1, EndsByMoving, RolledBack DEF PatchInv
<1>2. PatchInv /\ UndoInv /\ [Next]_vars =>
        [\A a \in Appliers :
           Ends(a, "rolled_back") /\ a \notin disturbed =>
             \A k \in 1..Len(call[a].patch) :
               LET f == FileOf[call[a].patch[k].name] IN
               f \notin cut'[a] => disk'[f] = call[a].patch[k].pre]_vars
  BY <1>1 DEF Indexes, Target
<1> QED
  BY PatchInit, PatchNext, UndoInit, UndoNext, <1>2, PTL DEF Spec, RollbackRestores

-----------------------------------------------------------------------------
\* Only a kill ends a call in the middle.
LEMMA KilledByKill ==
  ASSUME PatchInv, Next, NEW a \in Appliers, Ends(a, "killed")
  PROVE  Kill /\ call[a].stage \in Working
<1>1. call'[a].stage = "killed" /\ call[a].stage # "killed" /\ Types
  BY DEF Ends, In, PatchInv
<1>2. ~Moves(a)
  BY <1>1, StageSteps, RollbackStages DEF Moves
<1>3. Kill
  BY <1>1, <1>2, Movers
<1> QED
  BY <1>1, <1>3, ActiveWorks DEF Kill

LEMMA KillSpares ==
  ASSUME PatchInv, UndoInv, Next, NEW a \in Appliers, Ends(a, "killed"), ~In(a, "reading"),
         ~call[a].failed, a \notin disturbed', NEW f \in PathsOf(call[a].patch) \ cut[a],
         f # File(a)
  PROVE  \E k \in Indexes(a) :
           Target(a, k) = f /\ disk'[f] \in {call[a].patch[k].pre, Post(call[a].patch[k])}
<1>1. Kill /\ call[a].stage \in Writing
  BY KilledByKill DEF In, Writing
<1>2. a \notin disturbed /\ Undo(a) /\ Knows(a) /\ Active(a)
  BY <1>1, Knowing, ActiveWorks DEF Kill, UndoInv, Writing, PatchInv
<1>3. PICK k \in Indexes(a) : f = Target(a, k)
  BY DEF PathsOf, Indexes, Target
<1>4. Held(a, k)
  BY <1>1, <1>2, <1>3 DEF Undo, Recoverable
<1>5. f \in Files
  BY <1>2, <1>3, Targets
<1>6. disk'[f] = disk[f]
  <2>1. PICK torn \in SUBSET {File(b) : b \in {b \in Appliers : In(b, "writing") \/ In(b, "rewriting")}} :
          /\ disk' = [g \in Files |-> IF g \in torn THEN Torn ELSE disk[g]]
          /\ disturbed' = disturbed \cup
               {c \in Appliers :
                  Active(c) /\ \E b \in {b \in Appliers : In(b, "writing") \/ In(b, "rewriting")} \ {c} :
                                 File(b) \in torn \cap PathsOf(call[c].patch)}
    BY <1>1 DEF Kill
  <2>2. f \notin torn
    BY <1>2, <2>1
  <2> QED
    BY <1>5, <2>1, <2>2
<1>7. PICK j \in Indexes(a) :
        /\ Target(a, j) = Target(a, k)
        /\ disk[Target(a, k)] \in {call[a].patch[j].pre, Post(call[a].patch[j])}
  BY <1>4 DEF Held
<1> QED
  BY <1>3, <1>6, <1>7

\* A kill damages the one file a call is writing and no other one of its patch.
THEOREM KillDamagesOne == Spec => KillDamagesOneFile
<1>1. ASSUME PatchInv, UndoInv, Next, NEW a \in Appliers, Ends(a, "killed"), ~In(a, "reading"),
             ~call[a].failed, a \notin disturbed'
      PROVE  \E damaged \in Files :
               \A f \in PathsOf(call[a].patch) \ (cut[a] \cup {damaged}) :
                 \E k \in 1..Len(call[a].patch) :
                   LET change == call[a].patch[k] IN
                   FileOf[change.name] = f /\ disk'[f] \in {change.pre, Post(change)}
  <2>1. File(a) \in Files
    BY <1>1, KilledByKill, Knowing DEF Knows
  <2>2. \A f \in PathsOf(call[a].patch) \ (cut[a] \cup {File(a)}) :
          \E k \in 1..Len(call[a].patch) :
            LET change == call[a].patch[k] IN
            FileOf[change.name] = f /\ disk'[f] \in {change.pre, Post(change)}
    BY <1>1, KillSpares DEF Indexes, Target
  <2> QED
    BY <2>1, <2>2
<1>2. PatchInv /\ UndoInv /\ [Next]_vars =>
        [\A a \in Appliers :
           Ends(a, "killed") /\ ~In(a, "reading") /\ ~call[a].failed /\ a \notin disturbed' =>
             \E damaged \in Files :
               \A f \in PathsOf(call[a].patch) \ (cut[a] \cup {damaged}) :
                 \E k \in 1..Len(call[a].patch) :
                   LET change == call[a].patch[k] IN
                   FileOf[change.name] = f /\ disk'[f] \in {change.pre, Post(change)}]_vars
  BY <1>1
<1> QED
  BY PatchInit, PatchNext, UndoInit, UndoNext, <1>2, PTL DEF Spec, KillDamagesOneFile

-----------------------------------------------------------------------------
\* Who answers for a file that is truncated or torn.  A call that is only
\* reading does not: it would refuse, and nobody would say anything.
Damage == {Empty, Torn}

AnswersFor(a, f) ==
  /\ f \in PathsOf(call[a].patch)
  /\ call[a].stage \in Writing \cup {"rollback_failed", "killed"} \/ f \in cut[a]

ReportInv ==
  disturbed = {} =>
    \A f \in Files : disk[f] \in Damage => \E a \in Appliers : AnswersFor(a, f)

LEMMA ReportInit == Init => ReportInv
  BY PatchAssumption DEF Init, ReportInv, Damage

LEMMA CutGrows ==
  ASSUME Types, Next
  PROVE  \A a \in Appliers : cut[a] \subseteq cut'[a]
<1>1. ASSUME NEW b \in Appliers, WriteFails(b) PROVE \A a \in Appliers : cut[a] \subseteq cut'[a]
  BY <1>1 DEF WriteFails, Types
<1>2. CASE cut' = cut
  BY <1>2
<1> QED
  BY <1>1, <1>2
  DEF Next, Kill, Save, Start, Check, Refuse, Open, OpenFails, Write, Verify, VerifyFails,
      RestoreOpen, RestoreOpenFails, Restore, RestoreFails

\* What a call that has begun to write does next.
LEMMA WritingOn ==
  ASSUME PatchInv, NEW a \in Appliers, Moves(a), call[a].stage \in Writing
  PROVE  /\ ~Start(a)
         /\ call'[a].patch = call[a].patch
         /\ call'[a].stage \in Writing \cup {"applied", "rolled_back", "rollback_failed"}
<1>1. ~Start(a)
  BY DEF Start, In, Writing, Working
<1> QED
  BY <1>1, StageSteps, RollbackStages DEF Moves, Writing, Working

\* A call answers for a file until the file is sound again.
LEMMA KeepsAnswering ==
  ASSUME PatchInv, UndoInv, Next, disturbed = {}, NEW a \in Appliers, NEW f \in Files,
         AnswersFor(a, f), disk'[f] \in Damage
  PROVE  AnswersFor(a, f)'
<1>1. Types /\ cut[a] \subseteq cut'[a]
  BY CutGrows DEF PatchInv
<1>2. CASE call'[a] = call[a]
  BY <1>1, <1>2 DEF AnswersFor
<1>3. CASE Kill
  <2>1. \/ call'[a] = call[a]
        \/ call'[a].stage = "killed" /\ call'[a].patch = call[a].patch
    BY <1>1, <1>3 DEF Kill, Types, Call
  <2> QED
    BY <1>1, <2>1 DEF AnswersFor
<1>4. CASE Moves(a)
  <2>1. ~Start(a)
    BY DEF Start, In, AnswersFor, UndoInv, Unfailed, Writing, Working
  <2>2. call'[a].patch = call[a].patch
    BY <1>4, <2>1, StageSteps
  <2>3. CASE f \in cut[a]
    BY <1>1, <2>2, <2>3 DEF AnswersFor
  <2>4. CASE f \notin cut[a]
    <3>1. call[a].stage \in Writing
      <4>1. call[a].stage \in Working
        BY <1>4, <2>1, StageSteps, RollbackStages DEF Moves, Working, Restoring
      <4> QED
        BY <2>4, <4>1 DEF AnswersFor, Working
    <3>2. Knows(a) /\ Progress(a)
      BY <3>1, Knowing DEF Writing, PatchInv
    <3>3. PICK k \in Indexes(a) : f = Target(a, k)
      BY DEF AnswersFor, PathsOf, Indexes, Target
    <3>4. /\ call[a].patch[k].pre \in Contents
          /\ Post(call[a].patch[k]) \in Contents
      BY <3>1, <3>2, Changes DEF Knows, Indexes, Progress, Writing
    <3>5. call'[a].stage # "applied"
      <4> SUFFICES ASSUME call'[a].stage = "applied" PROVE FALSE
        OBVIOUS
      <4>1. Ends(a, "applied")
        BY <3>1 DEF Ends, In, Writing, Working
      <4>2. disk'[f] = Post(call[a].patch[k])
        BY <3>3, <4>1, AppliedIsDone DEF Indexes, Target
      <4> QED
        BY <3>4, <4>2, PatchAssumption DEF Damage
    <3>6. call'[a].stage = "rolled_back" => f \in cut'[a]
      <4> SUFFICES ASSUME call'[a].stage = "rolled_back", f \notin cut'[a] PROVE FALSE
        OBVIOUS
      <4>1. Ends(a, "rolled_back")
        BY <3>1 DEF Ends, In, Writing, Working
      <4>2. disk'[f] = call[a].patch[k].pre
        BY <1>4, <3>3, <4>1, RolledBack
      <4> QED
        BY <3>4, <4>2, PatchAssumption DEF Damage
    <3> QED
      BY <1>4, <2>2, <3>1, <3>5, <3>6, WritingOn DEF AnswersFor
  <2> QED
    BY <2>3, <2>4
<1> QED
  BY <1>1, <1>2, <1>3, <1>4, Movers

\* Whoever truncates or tears a file answers for it.
LEMMA DamageIsAnswered ==
  ASSUME PatchInv, UndoInv, Next, disturbed = {}, NEW f \in Files,
         disk'[f] # disk[f], disk'[f] \in Damage
  PROVE  \E a \in Appliers : AnswersFor(a, f)'
<1>1. Types
  BY DEF PatchInv
<1>2. ASSUME NEW g \in Files, Save(g) PROVE FALSE
  <2>1. PICK c \in Contents : disk' = [disk EXCEPT ![g] = c]
    BY <1>2 DEF Save
  <2>2. disk'[f] = disk[f] \/ disk'[f] = c
    BY <1>1, <2>1 DEF Types
  <2> QED
    BY <2>2, PatchAssumption DEF Damage
<1>3. CASE Kill
  <2>1. PICK a \in Appliers : (In(a, "writing") \/ In(a, "rewriting")) /\ f = File(a)
    BY <1>3 DEF Kill
  <2>2. Knows(a) /\ Active(a)
    BY <1>1, <2>1, Knowing, ActiveWorks DEF In, Working
  <2>3. call'[a].stage = "killed" /\ call'[a].patch = call[a].patch
    BY <1>1, <1>3, <2>2 DEF Kill, Types, Call
  <2>4. f \in PathsOf(call[a].patch)
    BY <2>1, <2>2 DEF Knows, PathsOf, Target
  <2> QED
    BY <2>3, <2>4 DEF AnswersFor
<1>4. ASSUME NEW a \in Appliers, Moves(a), disk' # disk PROVE AnswersFor(a, f)'
  <2>1. ~Start(a)
    BY <1>4 DEF Start
  <2>2. Knows(a) /\ call'[a].patch = call[a].patch
    BY <1>4, <2>1, StageSteps
  <2>3. ASSUME NEW version \in Contents, Truncate(a) \/ Put(a, version) \/ PutHalf(a)
        PROVE  f = File(a)
    BY <1>1, <2>2, <2>3, WriteStep
  <2>4. f = File(a) => f \in PathsOf(call'[a].patch)
    BY <2>2 DEF Knows, PathsOf, Target
  <2>5. CASE Open(a) \/ RestoreOpen(a)
    <3>1. f = File(a)
      BY <2>2, <2>3, <2>5 DEF Open, RestoreOpen, Knows
    <3>2. call'[a].stage \in Writing
      BY <1>4, <2>5, StageSteps DEF Writing, Working
    <3> QED
      BY <2>4, <3>1, <3>2 DEF AnswersFor
  <2>6. CASE WriteFails(a)
    <3>1. f = File(a)
      BY <2>2, <2>3, <2>6 DEF WriteFails, Knows
    <3>2. f \in cut'[a]
      BY <1>1, <2>6, <3>1 DEF WriteFails, Types
    <3> QED
      BY <2>4, <3>1, <3>2 DEF AnswersFor
  <2>7. CASE RestoreFails(a)
    <3>1. f = File(a)
      BY <2>2, <2>3, <2>7 DEF RestoreFails, Knows
    <3>2. call'[a].stage \in Writing \cup {"rollback_failed"}
      BY <1>4, <2>7, RollbackStages DEF Writing, Working
    <3> QED
      BY <2>4, <3>1, <3>2 DEF AnswersFor
  <2>8. CASE Write(a)
    <3>1. call[a].stage = "writing" /\ Put(a, Post(This(a))) /\ Progress(a) /\ Undo(a)
      BY <2>8 DEF Write, In, PatchInv, UndoInv
    <3>2. Post(This(a)) \in Contents /\ disk[File(a)] = Empty
      BY <2>2, <3>1 DEF Knows, Progress, Undo, Halfway, Writing, Working
    <3>3. f = File(a) /\ disk'[f] = Post(This(a))
      BY <1>1, <2>2, <2>3, <3>1, <3>2 DEF Put, Types, Knows
    <3> QED
      BY <3>2, <3>3, PatchAssumption DEF Damage
  <2>9. CASE Restore(a)
    <3>1. f = File(a) /\ disk'[f] = This(a).pre
      BY <2>2, <2>3, <2>9, RestorePuts DEF Restore, Knows
    <3> QED
      BY <2>2, <3>1, PatchAssumption DEF Damage, Knows
  <2> QED
    BY <1>4, <2>5, <2>6, <2>7, <2>8, <2>9
    DEF Moves, Start, Check, Refuse, OpenFails, Verify, VerifyFails, RestoreOpenFails
<1> QED
  BY <1>2, <1>3, <1>4 DEF Next, Moves

LEMMA ReportNext == PatchInv /\ UndoInv /\ ReportInv /\ [Next]_vars => ReportInv'
<1> SUFFICES ASSUME PatchInv, UndoInv, ReportInv, [Next]_vars PROVE ReportInv'
  OBVIOUS
<1>1. CASE UNCHANGED vars
  BY <1>1 DEF vars, ReportInv, AnswersFor
<1>2. ASSUME Next, disturbed' = {}, NEW f \in Files, disk'[f] \in Damage
      PROVE  \E a \in Appliers : AnswersFor(a, f)'
  <2>1. disturbed \subseteq disturbed'
    BY <1>2
    DEF Next, Kill, Save, Start, Check, Refuse, Open, OpenFails, Write, WriteFails, Verify,
        VerifyFails, RestoreOpen, RestoreOpenFails, Restore, RestoreFails, Truncate, Put,
        PutHalf, Disturbs
  <2>2. disturbed = {}
    BY <1>2, <2>1
  <2>3. CASE disk'[f] = disk[f]
    <3>1. PICK a \in Appliers : AnswersFor(a, f)
      BY <1>2, <2>2, <2>3 DEF ReportInv
    <3> QED
      BY <1>2, <2>2, <3>1, KeepsAnswering
  <2>4. CASE disk'[f] # disk[f]
    BY <1>2, <2>2, <2>4, DamageIsAnswered
  <2> QED
    BY <2>3, <2>4
<1> QED
  BY <1>1, <1>2 DEF ReportInv

\* No file stays truncated or torn without a word: somebody is still working on
\* it, reported a failure, or was killed.
THEOREM DamageReported == Spec => []DamageIsReported
<1>1. PatchInv /\ ReportInv => DamageIsReported
  BY ActiveWorks DEF PatchInv, ReportInv, DamageIsReported, AnswersFor, Damage, Writing
<1> QED
  BY PatchInit, PatchNext, UndoInit, UndoNext, ReportInit, ReportNext, <1>1, PTL DEF Spec

-----------------------------------------------------------------------------
(***************************************************************************)
(* The refinement of AtomicPatch.  The files a call has begun to write     *)
(* count as unchanged until the call has ended, so what is promised of a   *)
(* file has to be the same whichever of its writers is asked.              *)
(***************************************************************************)
Begins(a, f) == \E k \in 1..Begun(a) : Target(a, k) = f

\* Two calls that write one file have disturbed each other.
Apart ==
  disturbed = {} =>
    \A f \in Files : \A a, b \in Appliers : Begins(a, f) /\ Begins(b, f) => a = b

LEMMA BegunWrites ==
  ASSUME PatchInv, NEW a \in Appliers
  PROVE  /\ Begun(a) \in Nat
         /\ Begun(a) # 0 =>
              /\ call[a].stage \in Writing /\ Active(a) /\ Knows(a)
              /\ Begun(a) <= Len(call[a].patch)
<1>1. CASE call[a].stage \in Writing
  <2>1. Knows(a) /\ Progress(a) /\ Active(a)
    BY <1>1, Knowing, ActiveWorks DEF Writing, PatchInv
  <2>2. call[a].at - 1 \in Nat /\ call[a].written \in Nat
    BY <2>1 DEF Knows, Call
  <2> QED
    BY <1>1, <2>1, <2>2 DEF Begun, Knows, Progress, Writing, Working
<1>2. CASE call[a].stage \notin Writing
  BY <1>2 DEF Begun, Writing, Working
<1> QED
  BY <1>1, <1>2

LEMMA BegunSteps ==
  ASSUME PatchInv, NEW a \in Appliers, Moves(a)
  PROVE  /\ Open(a) => Begun(a) = call[a].at - 1 /\ Begun(a)' = call[a].at
         /\ call'[a].stage \in Final => Begun(a)' = 0
         /\ WriteFails(a) => Begun(a) = call[a].at /\ Begun(a)' \in {0, call[a].at - 1}
         /\ ~Open(a) /\ ~WriteFails(a) /\ call'[a].stage \notin Final => Begun(a)' = Begun(a)
<1>1. CASE Start(a) \/ Check(a) \/ Refuse(a)
  <2>1. /\ call[a].stage \in {"unused", "reading"}
        /\ \/ call'[a].stage \in {"reading", "refused"}
           \/ call'[a].stage = "opening" /\ call'[a].at = 1
    BY <1>1, StageSteps
  <2> QED
    BY <2>1 DEF Begun, Final, Open, WriteFails, In
<1>2. CASE Open(a)
  <2>1. call[a].stage = "opening" /\ call'[a].stage = "writing" /\ call'[a].at = call[a].at
    BY <1>2, StageSteps
  <2> QED
    BY <1>2, <2>1 DEF Begun, Final, WriteFails, In
<1>3. CASE Write(a)
  <2>1. Knows(a) /\ call'[a].patch = call[a].patch
    BY <1>3, StageSteps DEF Start, Write, In
  <2>2. /\ call[a].stage = "writing"
        /\ \/ call'[a].stage = "opening" /\ call'[a].at = call[a].at + 1
           \/ call'[a].stage = "verifying" /\ call[a].at = Len(call[a].patch)
    BY <1>3, StageSteps
  <2>3. ~WriteFails(a)
    BY <2>2, RollbackStages
  <2> QED
    BY <2>1, <2>2, <2>3 DEF Begun, Final, Knows, Open, In
<1>4. CASE Verify(a)
  <2>1. call'[a].patch = call[a].patch
    BY <1>4, StageSteps DEF Start, Verify, In
  <2>2. call[a].stage = "verifying" /\ call'[a].stage \in {"verifying", "applied"}
    BY <1>4, StageSteps
  <2> QED
    BY <2>1, <2>2 DEF Begun, Final, Open, WriteFails, In
<1>5. CASE RestoreOpen(a)
  <2>1. /\ call[a].stage = "restoring" /\ call'[a].stage = "rewriting"
        /\ call'[a].written = call[a].written
    BY <1>5, StageSteps
  <2> QED
    BY <2>1 DEF Begun, Final, Open, WriteFails, In
<1>6. CASE OpenFails(a) \/ WriteFails(a)
  <2>1. /\ OpenFails(a) => call[a].stage = "opening"
        /\ WriteFails(a) => call[a].stage = "writing"
        /\ \/ call'[a].stage = "rolled_back" /\ call[a].at = 1
           \/ call'[a].stage = "restoring" /\ call'[a].written = call[a].at - 1
    BY <1>6, RollbackStages
  <2>2. ~Open(a)
    BY <2>1, StageSteps
  <2> QED
    BY <1>6, <2>1, <2>2 DEF Begun, Final, Open, OpenFails, WriteFails, In
<1>7. CASE VerifyFails(a)
  BY <1>7, RollbackStages DEF Begun, Final, Open, WriteFails, In
<1>8. CASE RestoreOpenFails(a) \/ RestoreFails(a) \/ Restore(a)
  <2>1. /\ call[a].stage \in Restoring
        /\ \/ call'[a].stage = "restoring" /\ call'[a].written = call[a].written
           \/ call'[a].stage \in {"rolled_back", "rollback_failed"}
    BY <1>8, RollbackStages DEF Restoring
  <2> QED
    BY <2>1 DEF Begun, Final, Open, WriteFails, In, Restoring
<1> QED
  BY <1>1, <1>2, <1>3, <1>4, <1>5, <1>6, <1>7, <1>8 DEF Moves

LEMMA ApartInit == Init => Apart
  BY DEF Init, Apart, Begins, Begun

LEMMA DisturbedGrows ==
  ASSUME Next
  PROVE  disturbed \subseteq disturbed'
  BY DEF Next, Kill, Save, Start, Check, Refuse, Open, OpenFails, Write, WriteFails, Verify,
         VerifyFails, RestoreOpen, RestoreOpenFails, Restore, RestoreFails, Truncate, Put,
         PutHalf, Disturbs

\* A kill and a save leave no call with more than it had begun.
LEMMA BegunByOthers ==
  ASSUME PatchInv, Kill \/ \E f \in Files : Save(f), NEW a \in Appliers
  PROVE  /\ call'[a] = call[a] \/ call'[a].stage = "killed"
         /\ Begun(a)' \in {0, Begun(a)}
         /\ call'[a].patch = call[a].patch
<1>1. \/ call'[a] = call[a]
      \/ call'[a].stage = "killed" /\ call'[a].patch = call[a].patch
  BY DEF Kill, Save, PatchInv, Types, Call
<1> QED
  BY <1>1 DEF Begun

\* Only the opening of a file is the beginning of its write.
LEMMA BeginsByOpening ==
  ASSUME PatchInv, Next, NEW a \in Appliers, NEW f \in Files, Begins(a, f)', ~Begins(a, f)
  PROVE  Open(a) /\ f = File(a)
<1>1. Begun(a) \in Nat /\ Types
  BY BegunWrites DEF PatchInv
<1>2. PICK k \in 1..Begun(a)' : Target(a, k)' = f
  BY DEF Begins
<1>3. call'[a] # call[a]
  BY DEF Begins, Begun, Target
<1>4. ASSUME call'[a].patch = call[a].patch PROVE Begun(a)' \notin 0..Begun(a)
  <2>1. Target(a, k) = f
    BY <1>2, <1>4, SameChanges
  <2>2. k \notin 1..Begun(a)
    BY <2>1 DEF Begins
  <2> QED
    BY <1>1, <1>2, <2>2
<1>5. CASE Kill
  BY <1>1, <1>4, <1>5, BegunByOthers
<1>6. CASE Moves(a)
  <2>1. ~Start(a)
    <3> SUFFICES ASSUME Start(a) PROVE FALSE
      OBVIOUS
    <3>1. Begun(a)' = 0
      BY <1>6, StageSteps DEF Begun
    <3> QED
      BY <1>2, <3>1
  <2>2. call'[a].patch = call[a].patch /\ Knows(a)
    BY <1>6, <2>1, StageSteps
  <2>3. Open(a)
    <3>1. ~WriteFails(a)
      BY <1>1, <1>4, <1>6, <2>2, BegunSteps DEF Knows
    <3> QED
      BY <1>1, <1>4, <1>6, <2>2, <3>1, BegunSteps
  <2>4. k \in 1..call[a].at /\ k \notin 1..call[a].at - 1
    <3>1. Begun(a) = call[a].at - 1 /\ Begun(a)' = call[a].at
      BY <1>6, <2>3, BegunSteps
    <3>2. Target(a, k) = f
      BY <1>2, <2>2, SameChanges
    <3> QED
      BY <1>2, <3>1, <3>2 DEF Begins
  <2>5. Target(a, k) = f /\ k = call[a].at
    BY <1>2, <2>2, <2>4, SameChanges DEF Knows
  <2> QED
    BY <2>2, <2>3, <2>5 DEF Knows
<1> QED
  BY <1>1, <1>3, <1>5, <1>6, Movers

LEMMA ApartNext == PatchInv /\ Apart /\ [Next]_vars => Apart'
<1> SUFFICES ASSUME PatchInv, Apart, [Next]_vars PROVE Apart'
  OBVIOUS
<1>1. CASE UNCHANGED vars
  BY <1>1 DEF vars, Apart, Begins, Begun, Target
<1>2. ASSUME Next, disturbed' = {}, NEW f \in Files, NEW a \in Appliers, NEW b \in Appliers,
             a # b, Begins(a, f), Begins(b, f)', ~Begins(b, f)
      PROVE  FALSE
  <2>1. Open(b) /\ f = File(b)
    BY <1>2, BeginsByOpening
  <2>2. PICK k \in 1..Begun(a) : Target(a, k) = f
    BY <1>2 DEF Begins
  <2>3. Begun(a) \in Nat /\ (Begun(a) # 0 => Active(a) /\ Begun(a) <= Len(call[a].patch) /\ Knows(a))
    BY BegunWrites
  <2>4. Active(a) /\ k \in 1..Len(call[a].patch)
    BY <2>2, <2>3 DEF Knows
  <2>5. Active(a) /\ f \in PathsOf(call[a].patch)
    BY <2>2, <2>4 DEF PathsOf, Target
  <2>6. a \in disturbed'
    BY <1>2, <2>1, <2>5 DEF Open, Truncate, Disturbs
  <2> QED
    BY <1>2, <2>6
<1>3. ASSUME Next, disturbed' = {}, NEW f \in Files, NEW a \in Appliers, NEW b \in Appliers,
             a # b, Begins(a, f)', Begins(b, f)'
      PROVE  FALSE
  <2>1. disturbed = {}
    BY <1>3, DisturbedGrows
  <2>2. ~(Begins(a, f) /\ Begins(b, f))
    BY <1>3, <2>1 DEF Apart
  <2>3. ~(~Begins(a, f) /\ ~Begins(b, f))
    <3> SUFFICES ASSUME ~Begins(a, f), ~Begins(b, f) PROVE FALSE
      OBVIOUS
    <3>1. Open(a) /\ Open(b)
      BY <1>3, BeginsByOpening
    <3>2. call'[b] = call[b] /\ call'[b].stage = "writing" /\ call[b].stage = "opening"
      BY <1>3, <3>1, StageSteps DEF Moves
    <3> QED
      BY <3>2
  <2> QED
    BY <1>2, <1>3, <2>2, <2>3
<1> QED
  BY <1>1, <1>3 DEF Apart

-----------------------------------------------------------------------------
\* What is promised of a file: its pre-image, while a call is writing it, and
\* what it holds otherwise.
PromiseInv ==
  \A f \in Files :
    /\ Promised(f) \in Contents \cup Damage
    /\ (\A a \in Appliers : ~Begins(a, f)) => Promised(f) = disk[f]
    /\ disturbed = {} =>
         \A a \in Appliers : Begins(a, f) =>
           \A k \in Indexes(a) : Target(a, k) = f => Promised(f) = call[a].patch[k].pre

LEMMA WritersBegin ==
  ASSUME PatchInv, NEW f \in Files
  PROVE  /\ \A w \in Writers(f) :
              /\ w = <<w[1], w[2]>> /\ w[1] \in Appliers /\ w[2] \in 1..Begun(w[1])
              /\ Target(w[1], w[2]) = f
         /\ \A a \in Appliers : Begins(a, f) => Writers(f) # {}
<1>1. ASSUME NEW w \in Writers(f)
      PROVE  /\ w = <<w[1], w[2]>> /\ w[1] \in Appliers /\ w[2] \in 1..Begun(w[1])
             /\ Target(w[1], w[2]) = f
  <2>1. /\ w = <<w[1], w[2]>> /\ w[1] \in Appliers /\ w[2] \in PatchIndexes
        /\ w[2] <= Begun(w[1]) /\ Target(w[1], w[2]) = f
    BY DEF Writers, Target
  <2>2. w[2] \in Nat /\ w[2] >= 1
    <3>1. PICK p \in Patches : w[2] \in 1..Len(p)
      BY <2>1 DEF PatchIndexes
    <3> QED
      BY <3>1, Changes
  <2>3. Begun(w[1]) \in Nat
    BY <2>1, BegunWrites
  <2> QED
    BY <2>1, <2>2, <2>3
<1>2. ASSUME NEW a \in Appliers, Begins(a, f) PROVE Writers(f) # {}
  <2>1. PICK k \in 1..Begun(a) : Target(a, k) = f
    BY <1>2 DEF Begins
  <2>2. Begun(a) \in Nat /\ Begun(a) <= Len(call[a].patch) /\ call[a].patch \in Patches
        /\ Len(call[a].patch) \in Nat
    BY <2>1, BegunWrites DEF Knows
  <2>3. k \in PatchIndexes
    BY <2>1, <2>2 DEF PatchIndexes
  <2>4. <<a, k>> \in Writers(f)
    BY <2>1, <2>2, <2>3 DEF Writers, Target
  <2> QED
    BY <2>4
<1> QED
  BY <1>1, <1>2

LEMMA PromiseHolds == PatchInv /\ UndoInv /\ Apart => PromiseInv
<1> SUFFICES ASSUME PatchInv, UndoInv, Apart, NEW f \in Files
             PROVE  /\ Promised(f) \in Contents \cup Damage
                    /\ (\A a \in Appliers : ~Begins(a, f)) => Promised(f) = disk[f]
                    /\ disturbed = {} =>
                         \A a \in Appliers : Begins(a, f) =>
                           \A k \in Indexes(a) :
                             Target(a, k) = f => Promised(f) = call[a].patch[k].pre
  BY DEF PromiseInv
<1>1. CASE Writers(f) = {}
  <2>1. Promised(f) = disk[f] /\ disk[f] \in Contents \cup Damage
    BY <1>1 DEF Promised, PatchInv, Types, Damage
  <2> QED
    BY <1>1, <2>1, WritersBegin
<1>2. CASE Writers(f) # {}
  <2> DEFINE w == CHOOSE w \in Writers(f) : TRUE
  <2>1. w \in Writers(f) /\ Promised(f) = call[w[1]].patch[w[2]].pre
    BY <1>2 DEF Promised
  <2> HIDE DEF w
  <2>2. w[1] \in Appliers /\ w[2] \in 1..Begun(w[1]) /\ Target(w[1], w[2]) = f
    BY <2>1, WritersBegin
  <2>3. /\ Begins(w[1], f) /\ Knows(w[1]) /\ call[w[1]].stage \in Writing
        /\ w[2] \in Indexes(w[1])
    <3>1. Begun(w[1]) \in Nat /\ Begun(w[1]) # 0
      BY <2>2, BegunWrites
    <3>2. /\ Knows(w[1]) /\ call[w[1]].stage \in Writing
          /\ Begun(w[1]) <= Len(call[w[1]].patch)
      BY <2>2, <3>1, BegunWrites
    <3> QED
      BY <2>2, <3>1, <3>2 DEF Begins, Indexes, Knows
  <2>4. Promised(f) \in Contents
    BY <2>1, <2>3, Changes DEF Knows, Indexes
  <2>5. ASSUME disturbed = {}, NEW a \in Appliers, Begins(a, f),
               NEW k \in Indexes(a), Target(a, k) = f
        PROVE  Promised(f) = call[a].patch[k].pre
    <3>1. a = w[1]
      BY <2>2, <2>3, <2>5 DEF Apart
    <3>2. OnePre(a)
      BY <2>3, <2>5, <3>1 DEF UndoInv, Undo
    <3> QED
      BY <2>1, <2>2, <2>3, <2>5, <3>1, <3>2 DEF OnePre
  <2> QED
    BY <2>2, <2>3, <2>4, <2>5
<1> QED
  BY <1>1, <1>2

-----------------------------------------------------------------------------
\* The variables of AtomicPatch, as Patch defines them.
PContent == [f \in Files |-> Promised(f)]
PResult == [a \in Appliers |-> Result(a)]
PSound == disturbed = {} /\ \A a \in Appliers : cut[a] = {}

AtomicStep == [Atomic!Next]_<<PContent, PResult, PSound>>

\* What is promised of a file stays, if the call that takes the step keeps the
\* file begun or unbegun, or if the file holds its pre-image when that changes.
LEMMA PromiseStays ==
  ASSUME PatchInv, UndoInv, Apart, PromiseInv, Apart', PromiseInv',
         disturbed = {}, disturbed' = {},
         NEW a \in Appliers, \A b \in Appliers \ {a} : call'[b] = call[b],
         call'[a].patch = call[a].patch \/ (Begun(a) = 0 /\ Begun(a)' = 0),
         NEW f \in Files,
         \/ Begins(a, f) /\ Begins(a, f)'
         \/ ~Begins(a, f) /\ ~Begins(a, f)' /\ disk'[f] = disk[f]
         \/ /\ ~Begins(a, f) /\ Begins(a, f)'
            /\ \E k \in Indexes(a) : Target(a, k) = f
            /\ \A k \in Indexes(a) : Target(a, k) = f => disk[f] = call[a].patch[k].pre
         \/ /\ Begins(a, f) /\ ~Begins(a, f)'
            /\ \A k \in Indexes(a) : Target(a, k) = f => disk'[f] = call[a].patch[k].pre
  PROVE  Promised(f)' = Promised(f)
<1>1. \A b \in Appliers \ {a} : Begins(b, f)' = Begins(b, f)
  BY DEF Begins, Begun, Target
<1>2. CASE \E b \in Appliers \ {a} : Begins(b, f)
  <2>1. PICK b \in Appliers \ {a} : Begins(b, f)
    BY <1>2
  <2>2. Begins(b, f)'
    BY <1>1, <2>1
  <2>3. PICK k \in Indexes(b) : Target(b, k) = f
    BY <2>1, BegunWrites DEF Begins, Knows, Indexes
  <2>4. k \in Indexes(b)' /\ Target(b, k)' = f /\ call'[b].patch[k].pre = call[b].patch[k].pre
    BY <2>3 DEF Indexes, Target
  <2>5. Promised(f) = call[b].patch[k].pre
    BY <2>1, <2>3 DEF PromiseInv
  <2>6. Promised(f)' = call'[b].patch[k].pre
    BY <2>2, <2>4 DEF PromiseInv
  <2> QED
    BY <2>4, <2>5, <2>6
<1>3. CASE \A b \in Appliers \ {a} : ~Begins(b, f)
  <2>1. \A b \in Appliers \ {a} : ~Begins(b, f)'
    BY <1>1, <1>3
  <2>2. CASE ~Begins(a, f) /\ ~Begins(a, f)' /\ disk'[f] = disk[f]
    <3>1. Promised(f) = disk[f]
      BY <1>3, <2>2 DEF PromiseInv
    <3>2. Promised(f)' = disk'[f]
      BY <2>1, <2>2 DEF PromiseInv
    <3> QED
      BY <2>2, <3>1, <3>2
  <2>3. CASE Begins(a, f) \/ Begins(a, f)'
    <3>1. call'[a].patch = call[a].patch
      BY <2>3 DEF Begins
    <3>2. \A k : /\ Target(a, k)' = Target(a, k)
                 /\ k \in Indexes(a)' <=> k \in Indexes(a)
      BY <3>1, SameChanges
    <3>3. Begins(a, f) => \A k \in Indexes(a) : Target(a, k) = f => Promised(f) = call[a].patch[k].pre
      BY DEF PromiseInv
    <3>4. Begins(a, f)' => \A k \in Indexes(a) : Target(a, k) = f => Promised(f)' = call[a].patch[k].pre
      <4> SUFFICES ASSUME Begins(a, f)', NEW k \in Indexes(a), Target(a, k) = f
                   PROVE  Promised(f)' = call[a].patch[k].pre
        OBVIOUS
      <4>1. k \in Indexes(a)' /\ Target(a, k)' = f
        BY <3>2
      <4>2. Promised(f)' = call'[a].patch[k].pre
        BY <4>1 DEF PromiseInv
      <4> QED
        BY <3>1, <4>2
    <3>5. PICK k \in Indexes(a) : Target(a, k) = f
      <4>1. CASE Begins(a, f)
        BY <4>1, BegunWrites DEF Begins, Knows, Indexes
      <4>2. CASE Begins(a, f)' /\ ~Begins(a, f)
        BY <4>2
      <4> QED
        BY <2>3, <4>1, <4>2
    <3>6. ~Begins(a, f) => Promised(f) = disk[f]
      BY <1>3 DEF PromiseInv
    <3>7. ~Begins(a, f)' => Promised(f)' = disk'[f]
      BY <2>1 DEF PromiseInv
    <3> QED
      BY <2>3, <3>3, <3>4, <3>5, <3>6, <3>7
  <2> QED
    BY <2>2, <2>3
<1> QED
  BY <1>2, <1>3

-----------------------------------------------------------------------------
\* A call that has ended stays as it ended.
LEMMA EndedStays ==
  ASSUME PatchInv, Next, NEW a \in Appliers, call[a].stage \in Final
  PROVE  call'[a] = call[a]
<1>1. Types /\ ~Active(a)
  BY DEF PatchInv, Active
<1>2. ~Moves(a)
  BY StageSteps, RollbackStages DEF Moves, Final, Restoring
<1>3. Kill => call'[a] = call[a]
  BY <1>1 DEF Kill
<1> QED
  BY <1>1, <1>2, <1>3, Movers

LEMMA DecidedStays ==
  ASSUME PatchInv, Next, NEW a \in Appliers, Result(a) # "pending"
  PROVE  Result(a)' = Result(a)
<1>1. call[a].stage \in Final
  BY DEF Result, Final
<1> QED
  BY <1>1, EndedStays DEF Result

\* A call writes only what it has begun to write.
LEMMA WritesWhatItBegan ==
  ASSUME PatchInv, NEW a \in Appliers, Moves(a), NEW f \in Files, disk'[f] # disk[f]
  PROVE  Begins(a, f) \/ Begins(a, f)'
<1>1. Types
  BY DEF PatchInv
<1>2. Open(a) \/ Write(a) \/ WriteFails(a) \/ RestoreOpen(a) \/ Restore(a) \/ RestoreFails(a)
  BY DEF Moves, Start, Check, Refuse, OpenFails, Verify, VerifyFails, RestoreOpenFails
<1>3. call[a].stage \in Writing /\ Knows(a) /\ Progress(a)
  BY <1>2, Knowing DEF Open, Write, WriteFails, RestoreOpen, Restore, RestoreFails, In, Writing,
                       Working, PatchInv
<1>4. f = File(a)
  <2>1. Post(This(a)) \in Contents
    BY <1>3 DEF Progress, Writing, Knows
  <2>2. \/ Truncate(a) \/ Put(a, Post(This(a))) \/ Put(a, This(a).pre) \/ PutHalf(a)
    BY <1>2 DEF Open, Write, WriteFails, RestoreOpen, Restore, RestoreFails
  <2> QED
    BY <1>1, <1>3, <2>1, <2>2, WriteStep DEF Knows
<1>5. f = Target(a, call[a].at)
  BY <1>3, <1>4 DEF Knows
<1>6. CASE Open(a)
  <2>1. Begun(a)' = call[a].at /\ call'[a].patch = call[a].patch
    BY <1>6, BegunSteps, StageSteps, WritingOn, <1>3
  <2>2. call[a].at \in 1..Begun(a)'
    BY <1>3, <2>1 DEF Knows
  <2>3. FileOf[call'[a].patch[call[a].at].name] = f
    BY <1>5, <2>1 DEF Target
  <2>4. \E k \in 1..Begun(a)' : FileOf[call'[a].patch[k].name] = f
    BY <2>2, <2>3
  <2> QED
    BY <2>4 DEF Begins, Target
<1>7. CASE ~Open(a)
  <2>1. call[a].at <= Begun(a)
    <3>1. call[a].stage \in {"writing", "restoring", "rewriting"}
      BY <1>2, <1>7 DEF Write, WriteFails, RestoreOpen, Restore, RestoreFails, In
    <3> QED
      BY <1>3, <3>1 DEF Begun, Progress, Knows
  <2>2. Begun(a) \in Nat
    BY BegunWrites
  <2> QED
    BY <1>3, <1>5, <2>1, <2>2 DEF Begins, Knows
<1> QED
  BY <1>6, <1>7

\* Once the calls are disturbed, or a write was cut short, they stay so.
LEMMA SoundBefore ==
  ASSUME PatchInv, Next, PSound'
  PROVE  PSound /\ disturbed = {} /\ disturbed' = {} /\ \A a \in Appliers : cut'[a] = {}
<1>1. disturbed = {}
  BY DisturbedGrows DEF PSound
<1>2. \A a \in Appliers : cut[a] = {}
  BY CutGrows DEF PSound, PatchInv
<1> QED
  BY <1>1, <1>2 DEF PSound

LEMMA Unsound ==
  ASSUME PatchInv, PromiseInv', Next, ~PSound'
  PROVE  Atomic!Disturbed
<1>1. PContent' \in [Files -> Contents \cup Damage]
  BY DEF PromiseInv, PContent
<1>2. PResult' \in [Appliers -> {"pending", "applied", "refused", "broken"}]
  BY DEF PResult, Result
<1>3. \A a \in Appliers : PResult[a] # "pending" => PResult'[a] = PResult[a]
  BY DecidedStays DEF PResult
<1> QED
  BY <1>1, <1>2, <1>3 DEF Atomic!Disturbed, Atomic!Results, PContent, PResult, PSound, Damage

-----------------------------------------------------------------------------
\* What a sound step of one call builds on.
SoundStep(a) ==
  /\ PatchInv /\ UndoInv /\ Apart /\ PromiseInv /\ Apart' /\ PromiseInv'
  /\ Next /\ PSound' /\ Moves(a)

LEMMA SoundMove ==
  ASSUME NEW a \in Appliers, SoundStep(a)
  PROVE  /\ disturbed = {} /\ disturbed' = {} /\ ~WriteFails(a)
         /\ \A b \in Appliers \ {a} : call'[b] = call[b] /\ Result(b)' = Result(b)
         /\ call'[a].patch = call[a].patch \/ (Start(a) /\ Begun(a) = 0 /\ Begun(a)' = 0)
         /\ Result(a) = "pending"
<1> USE DEF SoundStep
<1>1. disturbed = {} /\ disturbed' = {} /\ cut'[a] = {}
  BY SoundBefore
<1>2. ~WriteFails(a)
  BY <1>1 DEF WriteFails, PatchInv, Types
<1>3. \A b \in Appliers \ {a} : call'[b] = call[b] /\ Result(b)' = Result(b)
  BY StageSteps DEF Result
<1>4. Start(a) => Begun(a) = 0 /\ Begun(a)' = 0
  BY StageSteps DEF Begun
<1>5. ~Start(a) => call[a].stage \in Working
  BY StageSteps, RollbackStages DEF Moves, Working, Restoring
<1>6. Result(a) = "pending"
  BY <1>5, StageSteps DEF Result, Working
<1> QED
  BY <1>1, <1>2, <1>3, <1>4, <1>6, StageSteps

\* The file keeps its promise over a sound step that goes on.
LEMMA GoingOn ==
  ASSUME NEW a \in Appliers, SoundStep(a), call'[a].stage \notin Final, NEW f \in Files
  PROVE  Promised(f)' = Promised(f)
<1> USE DEF SoundStep
<1>1. /\ disturbed = {} /\ disturbed' = {} /\ ~WriteFails(a)
      /\ \A b \in Appliers \ {a} : call'[b] = call[b]
      /\ call'[a].patch = call[a].patch \/ (Begun(a) = 0 /\ Begun(a)' = 0)
  BY SoundMove
<1>2. ~Begins(a, f) /\ ~Begins(a, f)' => disk'[f] = disk[f]
  BY WritesWhatItBegan
<1>3. ASSUME Begins(a, f)', ~Begins(a, f)
      PROVE  /\ \E k \in Indexes(a) : Target(a, k) = f
             /\ \A k \in Indexes(a) : Target(a, k) = f => disk[f] = call[a].patch[k].pre
  <2>1. Open(a) /\ f = File(a)
    BY <1>3, BeginsByOpening
  <2>2. call[a].stage = "opening" /\ Begun(a) = call[a].at - 1
    BY <2>1, BegunSteps DEF Open, In
  <2>3. Knows(a) /\ \A k \in Indexes(a) :
          Intact(a, k) \/ \E j \in 1..call[a].at - 1 : Target(a, j) = Target(a, k)
    BY <1>1, <2>2, WritingLoop
  <2>4. call[a].at \in Indexes(a) /\ Target(a, call[a].at) = f
    BY <2>1, <2>3 DEF Knows, Indexes
  <2>5. ASSUME NEW k \in Indexes(a), Target(a, k) = f PROVE disk[f] = call[a].patch[k].pre
    BY <1>3, <2>2, <2>3, <2>5 DEF Begins, Intact
  <2> QED
    BY <2>4, <2>5
<1>4. Begins(a, f) => Begins(a, f)'
  <2> SUFFICES ASSUME Begins(a, f) PROVE Begins(a, f)'
    OBVIOUS
  <2>1. PICK k \in 1..Begun(a) : Target(a, k) = f
    BY DEF Begins
  <2>2. Begun(a) \in Nat /\ Begun(a) # 0
    BY <2>1, BegunWrites
  <2>3. Knows(a) /\ call[a].stage \in Writing
    BY <2>2, BegunWrites
  <2>4. call'[a].patch = call[a].patch
    BY <1>1, <2>2
  <2>5. Target(a, k)' = f
    BY <2>1, <2>4, SameChanges
  <2>6. k \in 1..Begun(a)'
    <3>1. CASE Open(a)
      BY <2>1, <2>3, <3>1, BegunSteps DEF Knows
    <3>2. CASE ~Open(a)
      BY <1>1, <2>1, <3>2, BegunSteps
    <3> QED
      BY <3>1, <3>2
  <2> QED
    BY <2>5, <2>6 DEF Begins
<1> QED
  BY <1>1, <1>2, <1>3, <1>4, PromiseStays

\* Over one that ends the call, if the call wrote nothing or put back what it wrote.
LEMMA EndsUnwritten ==
  ASSUME NEW a \in Appliers, SoundStep(a), call'[a].stage \in Final, NEW f \in Files,
         \/ ~Begins(a, f)
         \/ \A k \in Indexes(a) : Target(a, k) = f => disk'[f] = call[a].patch[k].pre
  PROVE  Promised(f)' = Promised(f)
<1> USE DEF SoundStep
<1>1. /\ disturbed = {} /\ disturbed' = {}
      /\ \A b \in Appliers \ {a} : call'[b] = call[b]
      /\ call'[a].patch = call[a].patch \/ (Begun(a) = 0 /\ Begun(a)' = 0)
  BY SoundMove
<1>2. ~Begins(a, f)'
  BY BegunSteps DEF Begins
<1>3. ~Begins(a, f) => disk'[f] = disk[f]
  BY <1>2, WritesWhatItBegan
<1> QED
  BY <1>1, <1>2, <1>3, PromiseStays

-----------------------------------------------------------------------------
\* Each step of Patch is one of AtomicPatch, or none.
LEMMA ResultChanges ==
  ASSUME NEW a \in Appliers, SoundStep(a)
  PROVE  /\ PResult[a] = "pending"
         /\ PResult' = [PResult EXCEPT ![a] = Result(a)']
  BY SoundMove DEF PResult

LEMMA StepGoesOn ==
  ASSUME NEW a \in Appliers, SoundStep(a), call'[a].stage \notin Final
  PROVE  UNCHANGED <<PContent, PResult, PSound>>
<1>1. PContent' = PContent
  BY GoingOn DEF PContent
<1>2. PResult' = PResult
  <2>1. Result(a)' = "pending"
    BY DEF Result, Final
  <2>2. \A b \in Appliers : Result(b)' = Result(b)
    BY <2>1, SoundMove
  <2> QED
    BY <2>2 DEF PResult
<1>3. PSound' = PSound
  BY SoundBefore DEF SoundStep
<1> QED
  BY <1>1, <1>2, <1>3

LEMMA StepRefuses ==
  ASSUME NEW a \in Appliers, SoundStep(a), call'[a].stage \in {"refused", "rolled_back"}
  PROVE  Atomic!Refuse(a)
<1> USE DEF SoundStep
<1>1. call'[a].stage \in Final
  BY DEF Final
<1>2. ASSUME NEW f \in Files PROVE Promised(f)' = Promised(f)
  <2>1. CASE call'[a].stage = "refused"
    <3>1. call[a].stage \notin Writing
      BY <2>1, WritingOn DEF Writing, Working
    <3>2. ~Begins(a, f)
      BY <3>1, BegunWrites DEF Begins
    <3> QED
      BY <1>1, <3>2, EndsUnwritten
  <2>2. CASE call'[a].stage = "rolled_back"
    <3>1. call[a].stage # "rolled_back"
      BY StageSteps, RollbackStages DEF Moves, Restoring
    <3>2. Ends(a, "rolled_back") /\ a \notin disturbed /\ cut'[a] = {}
      BY <2>2, <3>1, SoundBefore DEF Ends, In
    <3>3. \A k \in Indexes(a) : disk'[Target(a, k)] = call[a].patch[k].pre
      BY <3>2, RolledBack
    <3> QED
      BY <1>1, <3>3, EndsUnwritten
  <2> QED
    BY <2>1, <2>2
<1>3. PContent' = PContent
  BY <1>2 DEF PContent
<1>4. Result(a)' = "refused"
  BY DEF Result
<1> QED
  BY <1>3, <1>4, ResultChanges DEF Atomic!Refuse, Atomic!Decide, PContent, PResult

\* The files a call has begun, or may have, are those of the effect of its patch.
LEMMA EffectFiles ==
  ASSUME PatchInv, NEW a \in Appliers
  PROVE  /\ Effect(call[a].patch) =
              {[file |-> Target(a, k), pre |-> call[a].patch[k].pre,
                post |-> Post(call[a].patch[k])] : k \in Indexes(a)}
         /\ Atomic!FilesOf(Effect(call[a].patch)) = {Target(a, k) : k \in Indexes(a)}
         /\ \A f \in Files : Begins(a, f) => f \in Atomic!FilesOf(Effect(call[a].patch))
<1>1. Effect(call[a].patch) =
        {[file |-> Target(a, k), pre |-> call[a].patch[k].pre,
          post |-> Post(call[a].patch[k])] : k \in Indexes(a)}
  BY DEF Effect, Target, Indexes
<1>2. Atomic!FilesOf(Effect(call[a].patch)) = {Target(a, k) : k \in Indexes(a)}
  <2>1. \A change \in Effect(call[a].patch) : \E k \in Indexes(a) : change.file = Target(a, k)
    BY <1>1
  <2>2. ASSUME NEW k \in Indexes(a)
        PROVE  \E change \in Effect(call[a].patch) : change.file = Target(a, k)
    <3> DEFINE change == [file |-> Target(a, k), pre |-> call[a].patch[k].pre,
                          post |-> Post(call[a].patch[k])]
    <3>1. change \in Effect(call[a].patch) /\ change.file = Target(a, k)
      BY <1>1
    <3> QED
      BY <3>1
  <2> QED
    BY <2>1, <2>2 DEF Atomic!FilesOf
<1>3. ASSUME NEW f \in Files, Begins(a, f) PROVE \E k \in Indexes(a) : Target(a, k) = f
  BY <1>3, BegunWrites DEF Begins, Knows, Indexes
<1> QED
  BY <1>1, <1>2, <1>3

LEMMA StepApplies ==
  ASSUME NEW a \in Appliers, SoundStep(a), call'[a].stage = "applied"
  PROVE  Atomic!Apply(a)
<1> USE DEF SoundStep
<1> DEFINE effect == Effect(call[a].patch)
<1>1. Ends(a, "applied") /\ disturbed = {} /\ disturbed' = {}
  BY SoundMove, StageSteps, RollbackStages DEF Ends, In, Moves, Restoring
<1>2. Verify(a) /\ call[a].stage = "verifying" /\ Knows(a)
  BY <1>1, AppliedByVerify, Knowing DEF Verify, In, Working
<1>3. Begun(a) = Len(call[a].patch) /\ Begun(a)' = 0
  BY <1>2, BegunSteps DEF Begun, Final
<1>4. ASSUME NEW k \in Indexes(a), NEW f \in Files, f = Target(a, k)
      PROVE  Promised(f) = call[a].patch[k].pre /\ Promised(f)' = Post(call[a].patch[k])
  <2>1. Begins(a, f)
    BY <1>3, <1>4 DEF Begins, Indexes
  <2>2. Promised(f) = call[a].patch[k].pre
    BY <1>1, <1>4, <2>1 DEF PromiseInv
  <2>3. ASSUME NEW b \in Appliers PROVE ~Begins(b, f)'
    <3>1. CASE b = a
      BY <1>3, <3>1 DEF Begins
    <3>2. CASE b # a
      <4>1. ~Begins(b, f)
        BY <1>1, <2>1, <3>2 DEF Apart
      <4>2. call'[b] = call[b]
        BY <3>2, StageSteps
      <4> QED
        BY <4>1, <4>2 DEF Begins, Begun, Target
    <3> QED
      BY <3>1, <3>2
  <2>4. Promised(f)' = disk'[f]
    BY <2>3 DEF PromiseInv
  <2>5. disk'[f] = Post(call[a].patch[k])
    BY <1>1, <1>4, AppliedIsDone DEF Target, Indexes
  <2> QED
    BY <2>2, <2>4, <2>5
<1>5. ASSUME NEW f \in Files \ Atomic!FilesOf(effect) PROVE PContent'[f] = PContent[f]
  <2>1. ~Begins(a, f)
    BY <1>5, EffectFiles
  <2> QED
    BY <2>1, EndsUnwritten DEF PContent, Final
<1>6. ASSUME NEW change \in effect
      PROVE PContent[change.file] = change.pre /\ PContent'[change.file] = change.post
  <2>1. PICK k \in Indexes(a) :
          /\ change.file = Target(a, k) /\ change.pre = call[a].patch[k].pre
          /\ change.post = Post(call[a].patch[k])
    BY EffectFiles
  <2>2. PICK f \in Files : f = Target(a, k)
    BY <1>2, Targets
  <2>3. Promised(f) = change.pre /\ Promised(f)' = change.post
    BY <1>4, <2>1, <2>2
  <2> QED
    BY <2>1, <2>2, <2>3 DEF PContent
<1>7. effect \in {Effect(p) : p \in Patches}
  BY <1>2 DEF Knows
<1>8. Result(a)' = "applied"
  BY DEF Result
<1>9. DOMAIN PContent' = Files
  BY DEF PContent
<1> HIDE DEF effect
<1> QED
  BY <1>5, <1>6, <1>7, <1>8, <1>9, ResultChanges DEF Atomic!Apply, Atomic!Decide, PContent, PResult

LEMMA StepBreaks ==
  ASSUME NEW a \in Appliers, SoundStep(a), call'[a].stage = "rollback_failed"
  PROVE  Atomic!Break({a})
<1> USE DEF SoundStep
<1> DEFINE effect == [b \in {a} |-> Effect(call[a].patch)]
<1>1. ~Start(a) /\ Knows(a)
  BY StageSteps
<1>2. effect \in [{a} -> {Effect(p) : p \in Patches}]
  BY <1>1 DEF Knows
<1>3. ASSUME NEW f \in Files \ UNION {Atomic!FilesOf(effect[b]) : b \in {a}}
      PROVE  PContent'[f] = PContent[f]
  <2>1. f \notin Atomic!FilesOf(Effect(call[a].patch))
    BY <1>3
  <2>2. ~Begins(a, f)
    BY <2>1, EffectFiles
  <2> QED
    BY <2>2, EndsUnwritten DEF PContent, Final
<1>4. Result(a)' = "broken"
  BY DEF Result
<1>5. PResult' = [b \in Appliers |-> IF b \in {a} THEN "broken" ELSE PResult[b]]
  BY <1>4, SoundMove DEF PResult
<1>6. PContent' \in [Files -> Contents \cup Damage]
  BY DEF PromiseInv, PContent
<1>7. \A b \in {a} : PResult[b] = "pending"
  BY ResultChanges
<1> HIDE DEF effect
<1> QED
  BY <1>2, <1>3, <1>5, <1>6, <1>7 DEF Atomic!Break, PContent, PResult, Damage

\* A save that disturbs nobody is one of a file that nobody has begun.
LEMMA StepSaves ==
  ASSUME PatchInv, PromiseInv, disturbed = {}, disturbed' = {}, NEW f \in Files, Save(f)
  PROVE  Atomic!Save(f)
<1>1. PICK c \in Contents : disk' = [disk EXCEPT ![f] = c]
  BY DEF Save
<1>2. call' = call /\ disk'[f] = c
  BY <1>1 DEF Save, PatchInv, Types
<1>3. ASSUME NEW a \in Appliers PROVE ~Begins(a, f) /\ ~Begins(a, f)'
  <2>1. ~(Active(a) /\ f \in PathsOf(call[a].patch))
    BY DEF Save, Disturbs
  <2>2. ~Begins(a, f)
    BY <2>1, BegunWrites DEF Begins, PathsOf, Target, Knows
  <2> QED
    BY <1>2, <2>2 DEF Begins, Begun, Target
<1>4. f \in Files /\ Writers(f)' = {}
  <2>1. \A w \in Writers(f) : w[1] \in Appliers /\ w[2] \in 1..Begun(w[1]) /\ Target(w[1], w[2]) = f
    BY WritersBegin
  <2>2. Writers(f) = {}
    BY <1>3, <2>1 DEF Begins
  <2> QED
    BY <1>2, <2>2 DEF Writers, Begun
<1>5. Promised(f)' = c
  BY <1>2, <1>4 DEF Promised
<1>6. ASSUME NEW g \in Files, g # f PROVE Promised(g)' = Promised(g)
  <2>1. disk'[g] = disk[g]
    BY <1>1, <1>6 DEF PatchInv, Types
  <2>2. Writers(g)' = Writers(g)
    BY <1>2 DEF Writers, Begun
  <2> QED
    BY <1>2, <2>1, <2>2 DEF Promised
<1>7. PContent' = [PContent EXCEPT ![f] = c]
  BY <1>5, <1>6 DEF PContent
<1>8. PResult' = PResult
  BY <1>2 DEF PResult, Result
<1> QED
  BY <1>7, <1>8 DEF Atomic!Save, PContent, PResult

LEMMA StepKills ==
  ASSUME PatchInv, PromiseInv, PromiseInv', Kill
  PROVE  \E broken \in (SUBSET Appliers) \ {{}} : Atomic!Break(broken)
<1> DEFINE broken == {a \in Appliers : Active(a)}
           effect == [a \in broken |-> Effect(call[a].patch)]
<1>1. broken \in (SUBSET Appliers) \ {{}}
  BY DEF Kill
<1>2. ASSUME NEW a \in broken PROVE Knows(a)
  BY <1>2, ActiveWorks, Knowing DEF PatchInv
<1>3. effect \in [broken -> {Effect(p) : p \in Patches}]
  BY <1>2 DEF Knows
<1>4. ASSUME NEW f \in Files \ UNION {Atomic!FilesOf(effect[a]) : a \in broken}
      PROVE  PContent'[f] = PContent[f]
  <2>1. ASSUME NEW a \in broken PROVE \A k \in Indexes(a) : Target(a, k) # f
    BY <1>4, <2>1, EffectFiles
  <2>2. ASSUME NEW a \in Appliers PROVE ~Begins(a, f) /\ ~Begins(a, f)'
    <3>1. ~Begins(a, f)
      BY <2>1, BegunWrites DEF Begins, Indexes, Knows
    <3>2. Begun(a)' \in {0, Begun(a)} /\ call'[a].patch = call[a].patch
      BY BegunByOthers
    <3>3. \A k : Target(a, k)' = Target(a, k)
      BY <3>2, SameChanges
    <3> QED
      BY <3>1, <3>2, <3>3 DEF Begins
  <2>3. disk'[f] = disk[f]
    <3> DEFINE halfway == {a \in Appliers : In(a, "writing") \/ In(a, "rewriting")}
    <3>1. PICK torn \in SUBSET {File(a) : a \in halfway} :
            disk' = [g \in Files |-> IF g \in torn THEN Torn ELSE disk[g]]
      BY DEF Kill
    <3>2. ASSUME NEW a \in halfway PROVE File(a) # f
      <4>1. a \in broken
        BY <3>2, ActiveWorks DEF PatchInv, In, Working
      <4>2. File(a) = Target(a, call[a].at) /\ call[a].at \in Indexes(a)
        BY <1>2, <4>1 DEF Knows, Indexes
      <4> QED
        BY <2>1, <4>1, <4>2
    <3> QED
      BY <1>4, <3>1, <3>2
  <2>4. Promised(f) = disk[f]
    BY <2>2 DEF PromiseInv
  <2>5. Promised(f)' = disk'[f]
    BY <2>2 DEF PromiseInv
  <2> QED
    BY <2>3, <2>4, <2>5 DEF PContent
<1>5. ASSUME NEW a \in Appliers
      PROVE  /\ a \in broken => Result(a) = "pending" /\ Result(a)' = "broken"
             /\ a \notin broken => Result(a)' = Result(a)
  <2>1. a \in broken => call'[a].stage = "killed" /\ call[a].stage \in Working
    BY ActiveWorks DEF Kill, PatchInv, Types, Call
  <2>2. a \notin broken => call'[a] = call[a]
    BY DEF Kill
  <2> QED
    BY <2>1, <2>2 DEF Result, Working
<1>6. PResult' = [a \in Appliers |-> IF a \in broken THEN "broken" ELSE PResult[a]]
  BY <1>5 DEF PResult
<1>7. \A a \in broken : PResult[a] = "pending"
  BY <1>5 DEF PResult
<1>8. PContent' \in [Files -> Contents \cup Damage]
  BY DEF PromiseInv, PContent
<1>9. Atomic!Break(broken)
  <2> HIDE DEF effect, broken
  <2> QED
    BY <1>3, <1>4, <1>6, <1>7, <1>8 DEF Atomic!Break, PContent, PResult, Damage
<1> HIDE DEF broken
<1> QED
  BY <1>1, <1>9

-----------------------------------------------------------------------------
LEMMA AtomicInit == Init => Atomic!Init
<1> SUFFICES ASSUME Init PROVE Atomic!Init
  OBVIOUS
<1>1. ASSUME NEW f \in Files PROVE Promised(f) = disk[f]
  <2>1. \A a \in Appliers : Begun(a) = 0
    BY DEF Init, Begun
  <2>2. Writers(f) = {}
    <3>1. ASSUME NEW w \in Writers(f) PROVE FALSE
      <4>1. w[1] \in Appliers /\ w[2] \in PatchIndexes /\ w[2] <= Begun(w[1])
        BY DEF Writers
      <4>2. PICK p \in Patches : w[2] \in 1..Len(p)
        BY <4>1 DEF PatchIndexes
      <4> QED
        BY <2>1, <4>1, <4>2, Changes
    <3> QED
      BY <3>1
  <2> QED
    BY <2>2 DEF Promised
<1>2. PContent \in [Files -> Contents]
  BY <1>1 DEF PContent, Init
<1>3. PResult = [a \in Appliers |-> "pending"]
  BY DEF PResult, Result, Init
<1>4. PSound = TRUE
  BY DEF PSound, Init
<1> QED
  BY <1>2, <1>3, <1>4 DEF Atomic!Init, PContent, PResult, PSound

LEMMA AtomicNext ==
  PatchInv /\ UndoInv /\ Apart /\ PromiseInv /\ Apart' /\ PromiseInv' /\ [Next]_vars => AtomicStep
<1> SUFFICES ASSUME PatchInv, UndoInv, Apart, PromiseInv, Apart', PromiseInv', [Next]_vars
             PROVE  AtomicStep
  OBVIOUS
<1>1. CASE UNCHANGED vars
  <2>1. UNCHANGED <<PContent, PResult, PSound>>
    BY <1>1 DEF vars, PContent, PResult, PSound, Promised, Writers, Begun, Result
  <2> QED
    BY <2>1 DEF AtomicStep
<1>2. CASE Next /\ ~PSound'
  BY <1>2, Unsound DEF AtomicStep, Atomic!Next
<1>3. CASE Next /\ PSound'
  <2>1. PSound /\ disturbed = {} /\ disturbed' = {}
    BY <1>3, SoundBefore
  <2>2. ASSUME NEW a \in Appliers, Moves(a) PROVE AtomicStep
    <3>1. SoundStep(a)
      BY <1>3, <2>2 DEF SoundStep
    <3>2. CASE call'[a].stage \notin Final
      BY <3>1, <3>2, StepGoesOn DEF AtomicStep
    <3>3. CASE call'[a].stage \in Final
      <4>1. call'[a].stage # "killed"
        BY <2>2, StageSteps, RollbackStages DEF Moves
      <4>2. Atomic!Apply(a) \/ Atomic!Refuse(a) \/ Atomic!Break({a})
        BY <3>1, <3>3, <4>1, StepApplies, StepRefuses, StepBreaks DEF Final
      <4>3. {a} \in (SUBSET Appliers) \ {{}}
        OBVIOUS
      <4> QED
        BY <1>3, <2>1, <4>2, <4>3 DEF AtomicStep, Atomic!Next, PSound
    <3> QED
      BY <3>2, <3>3
  <2>3. ASSUME NEW f \in Files, Save(f) PROVE AtomicStep
    BY <1>3, <2>1, <2>3, StepSaves DEF AtomicStep, Atomic!Next, PSound
  <2>4. CASE Kill
    BY <1>3, <2>1, <2>4, StepKills DEF AtomicStep, Atomic!Next, PSound
  <2> QED
    BY <1>3, <2>2, <2>3, <2>4 DEF Next, Moves
<1> QED
  BY <1>1, <1>2, <1>3

\* Every behaviour of the calls is one of patches that are applied in one step or
\* not at all, until the calls disturb each other or a write is cut short.
THEOREM RefinesAtomicPatch == Spec => ImplementsAtomicPatch
<1>1. AtomicStep <=> [Atomic!Next]_(Atomic!vars)
  BY DEF AtomicStep, Atomic!vars, PContent, PResult, PSound
<1> QED
  BY PatchInit, PatchNext, UndoInit, UndoNext, ApartInit, ApartNext, PromiseHolds, AtomicInit,
     AtomicNext, <1>1, PTL DEF Spec, ImplementsAtomicPatch, Atomic!Spec

-----------------------------------------------------------------------------
(***************************************************************************)
(* Hunks, for texts of any length.                                         *)
(***************************************************************************)
LEMMA Least ==
  ASSUME NEW T \in SUBSET Nat, T # {}
  PROVE  \E n \in T : \A m \in T : n <= m
<1> DEFINE R == {ss \in Nat \X Nat : ss[1] < ss[2]}
<1>1. IsWellFoundedOn(R, Nat)
  BY NatLessThanWellFounded DEF OpToRel
<1>2. \E n \in T : \A m \in T : <<m, n>> \notin R
  <2> HIDE DEF R
  <2> QED
    BY <1>1, WFMin
<1>3. PICK n \in T : \A m \in T : <<m, n>> \notin R
  BY <1>2
<1>4. ASSUME NEW m \in T PROVE n <= m
  <2>1. m \in Nat /\ n \in Nat
    BY <1>3
  <2>2. m < n => <<m, n>> \in R
    BY <2>1
  <2>3. ~(m < n)
    BY <1>3, <2>2
  <2> QED
    BY <2>1, <2>3
<1> QED
  BY <1>4

\* What holds at 0 and passes on from each number to the next one.
LEMMA Rising ==
  ASSUME NEW T \in SUBSET Nat, NEW m \in Nat, 0 \in T,
         \A n \in Nat : n < m /\ n \in T => n + 1 \in T
  PROVE  m \in T
<1> SUFFICES ASSUME m \notin T PROVE FALSE
  OBVIOUS
<1> DEFINE D == {n \in Nat : n <= m /\ n \notin T}
<1>1. PICK n \in D : \A k \in D : n <= k
  <2>1. D \in SUBSET Nat /\ D # {}
    OBVIOUS
  <2> HIDE DEF D
  <2> QED
    BY <2>1, Least
<1>2. n \in Nat /\ n # 0 /\ n <= m /\ n \notin T
  BY <1>1
<1>3. n - 1 \in Nat /\ n - 1 < m /\ (n - 1) + 1 = n
  BY <1>2
<1>4. n - 1 \in T
  BY <1>1, <1>2, <1>3
<1> QED
  BY <1>2, <1>3, <1>4

\* Where the search for the k-th match begins, when t are the matches so far.
Resume(find, t, k) == IF k = 1 THEN 1 ELSE t[k - 1] + Len(find)

\* What scanning the first m places has found: each match is the first one where
\* the search for it began, and there is none after the last.
Scanned(s, find, t, m) ==
  /\ t \in Seq(Nat)
  /\ \A j \in 1..Len(t) :
       /\ Resume(find, t, j) <= t[j] /\ t[j] <= m /\ MatchAt(s, find, t[j])
       /\ \A i \in Resume(find, t, j)..t[j] - 1 : ~MatchAt(s, find, i)
  /\ \A i \in Resume(find, t, Len(t) + 1)..m : ~MatchAt(s, find, i)

LEMMA ResumeIsPlace ==
  ASSUME NEW find, Len(find) \in Nat, NEW t \in Seq(Nat), NEW j \in 1..Len(t) + 1
  PROVE  Resume(find, t, j) \in Nat
<1>1. Len(t) \in Nat
  OBVIOUS
<1>2. j # 1 => t[j - 1] \in Nat
  BY <1>1
<1> QED
  BY <1>2 DEF Resume

LEMMA NextIndexIs ==
  ASSUME NEW s, Len(s) \in Nat, NEW find, NEW from \in Nat, NEW p \in Nat,
         from <= p, p <= Len(s), MatchAt(s, find, p),
         \A i \in from..p - 1 : ~MatchAt(s, find, i)
  PROVE  NextIndex(s, find, from) = p
<1> DEFINE First(i) == MatchAt(s, find, i) /\ \A j \in from..i - 1 : ~MatchAt(s, find, j)
<1>1. p \in from..Len(s) /\ First(p)
  OBVIOUS
<1>2. ASSUME NEW i \in from..Len(s), First(i) PROVE i = p
  <2>1. ~(i < p)
    BY <1>2
  <2>2. ~(p < i)
    BY <1>2
  <2> QED
    BY <2>1, <2>2
<1> HIDE DEF First
<1>3. (CHOOSE i \in from..Len(s) : First(i)) = p
  BY <1>1, <1>2
<1> QED
  BY <1>3 DEF NextIndex, First

LEMMA AddSiteScans ==
  ASSUME NEW s, NEW find, Len(find) \in Nat \ {0}, NEW m \in Nat, NEW t,
         Scanned(s, find, t, m)
  PROVE  Scanned(s, find, AddSite(s, find, t, m + 1), m + 1)
<1>1. t \in Seq(Nat) /\ Len(t) \in Nat
  BY DEF Scanned
<1>2. Resume(find, t, Len(t) + 1) \in Nat
  BY <1>1, ResumeIsPlace
<1>3. (t = <<>> \/ t[Len(t)] + Len(find) <= m + 1) <=> Resume(find, t, Len(t) + 1) <= m + 1
  <2>1. t = <<>> <=> Len(t) = 0
    BY <1>1
  <2>2. Len(t) # 0 => Resume(find, t, Len(t) + 1) = t[Len(t)] + Len(find)
    BY <1>1 DEF Resume
  <2>3. Len(t) = 0 => Resume(find, t, Len(t) + 1) = 1
    BY DEF Resume
  <2> QED
    BY <1>1, <2>1, <2>2, <2>3
<1>4. CASE MatchAt(s, find, m + 1) /\ Resume(find, t, Len(t) + 1) <= m + 1
  <2> DEFINE u == Append(t, m + 1)
  <2>1. AddSite(s, find, t, m + 1) = u
    BY <1>3, <1>4 DEF AddSite
  <2>2. u \in Seq(Nat) /\ Len(u) = Len(t) + 1 /\ u[Len(t) + 1] = m + 1
    BY <1>1
  <2>3. \A j \in 1..Len(t) : u[j] = t[j]
    BY <1>1
  <2> HIDE DEF u
  <2>4. ASSUME NEW j \in 1..Len(t) + 1 PROVE Resume(find, u, j) = Resume(find, t, j)
    <3>1. j # 1 => u[j - 1] = t[j - 1]
      BY <1>1, <2>3
    <3> QED
      BY <3>1 DEF Resume
  <2>5. ASSUME NEW j \in 1..Len(u)
        PROVE  /\ Resume(find, u, j) <= u[j] /\ u[j] <= m + 1 /\ MatchAt(s, find, u[j])
               /\ \A i \in Resume(find, u, j)..u[j] - 1 : ~MatchAt(s, find, i)
    <3>1. CASE j = Len(t) + 1
      <4>1. \A i \in Resume(find, t, Len(t) + 1)..m : ~MatchAt(s, find, i)
        BY DEF Scanned
      <4>2. u[j] = m + 1 /\ Resume(find, u, j) = Resume(find, t, Len(t) + 1)
        BY <1>1, <2>2, <2>4, <3>1
      <4> QED
        BY <1>4, <4>1, <4>2
    <3>2. CASE j \in 1..Len(t)
      <4>1. /\ Resume(find, t, j) <= t[j] /\ t[j] <= m /\ MatchAt(s, find, t[j])
            /\ \A i \in Resume(find, t, j)..t[j] - 1 : ~MatchAt(s, find, i)
        BY <3>2 DEF Scanned
      <4>2. u[j] = t[j] /\ Resume(find, u, j) = Resume(find, t, j) /\ t[j] \in Nat
        BY <1>1, <2>3, <2>4, <3>2
      <4> QED
        BY <4>1, <4>2
    <3> QED
      BY <1>1, <2>2, <3>1, <3>2
  <2>6. Resume(find, u, Len(u) + 1) > m + 1
    <3>1. Resume(find, u, Len(u) + 1) = m + 1 + Len(find)
      BY <1>1, <2>2 DEF Resume
    <3> QED
      BY <3>1
  <2>7. \A i \in Resume(find, u, Len(u) + 1)..m + 1 : ~MatchAt(s, find, i)
    BY <2>6, <2>2, ResumeIsPlace
  <2> QED
    BY <2>1, <2>2, <2>5, <2>7 DEF Scanned
<1>5. CASE ~(MatchAt(s, find, m + 1) /\ Resume(find, t, Len(t) + 1) <= m + 1)
  <2>1. AddSite(s, find, t, m + 1) = t
    BY <1>3, <1>5 DEF AddSite
  <2>2. ASSUME NEW i \in Resume(find, t, Len(t) + 1)..m + 1 PROVE ~MatchAt(s, find, i)
    <3>1. \A k \in Resume(find, t, Len(t) + 1)..m : ~MatchAt(s, find, k)
      BY DEF Scanned
    <3>2. i = m + 1 \/ i \in Resume(find, t, Len(t) + 1)..m
      BY <1>2
    <3> QED
      BY <1>2, <1>5, <3>1, <3>2
  <2>3. ASSUME NEW j \in 1..Len(t)
        PROVE  /\ Resume(find, t, j) <= t[j] /\ t[j] <= m + 1 /\ MatchAt(s, find, t[j])
               /\ \A i \in Resume(find, t, j)..t[j] - 1 : ~MatchAt(s, find, i)
    <3>1. t[j] \in Nat
      BY <1>1
    <3> QED
      BY <3>1 DEF Scanned
  <2> QED
    BY <1>1, <2>1, <2>2, <2>3 DEF Scanned
<1> QED
  BY <1>4, <1>5

\* What Sites has counted after each place.
Scan(s, find, scan, m) ==
  scan = [i \in 0..m |-> IF i = 0 THEN <<>> ELSE AddSite(s, find, scan[i - 1], i)]

LEMMA ScanExists ==
  ASSUME NEW s, NEW find, NEW m \in Nat
  PROVE  \E scan : Scan(s, find, scan, m)
<1> DEFINE T == {n \in Nat : \E scan : Scan(s, find, scan, n)}
<1>1. 0 \in T
  <2>1. Scan(s, find, [i \in 0..0 |-> <<>>], 0)
    BY DEF Scan
  <2> QED
    BY <2>1
<1>2. ASSUME NEW n \in Nat, n \in T PROVE n + 1 \in T
  <2>1. PICK scan : Scan(s, find, scan, n)
    BY <1>2
  <2> DEFINE next == [i \in 0..n + 1 |->
                        IF i = n + 1 THEN AddSite(s, find, scan[n], n + 1) ELSE scan[i]]
  <2>2. ASSUME NEW i \in 0..n + 1
        PROVE  next[i] = IF i = 0 THEN <<>> ELSE AddSite(s, find, next[i - 1], i)
    <3>1. CASE i = n + 1
      BY <3>1
    <3>2. CASE i \in 0..n
      <4>1. scan[i] = IF i = 0 THEN <<>> ELSE AddSite(s, find, scan[i - 1], i)
        BY <2>1, <3>2 DEF Scan
      <4>2. next[i] = scan[i] /\ (i # 0 => next[i - 1] = scan[i - 1])
        BY <3>2
      <4> QED
        BY <4>1, <4>2
    <3> QED
      BY <3>1, <3>2
  <2>3. DOMAIN next = 0..n + 1 /\ next = [i \in 0..n + 1 |-> next[i]]
    OBVIOUS
  <2> HIDE DEF next
  <2>4. next = [i \in 0..n + 1 |-> IF i = 0 THEN <<>> ELSE AddSite(s, find, next[i - 1], i)]
    BY <2>2, <2>3
  <2> QED
    BY <2>4 DEF Scan
<1>3. T \in SUBSET Nat
  OBVIOUS
<1> HIDE DEF T
<1>4. m \in T
  BY <1>1, <1>2, <1>3, Rising
<1> QED
  BY <1>4 DEF T

\* The sites are what scanning the whole text finds.
LEMMA SitesScanned ==
  ASSUME NEW s, Len(s) \in Nat, NEW find, Len(find) \in Nat \ {0}
  PROVE  Scanned(s, find, Sites(s, find), Len(s))
<1> DEFINE scan == CHOOSE f :
             f = [i \in 0..Len(s) |-> IF i = 0 THEN <<>> ELSE AddSite(s, find, f[i - 1], i)]
<1>1. scan = [i \in 0..Len(s) |-> IF i = 0 THEN <<>> ELSE AddSite(s, find, scan[i - 1], i)]
  BY ScanExists DEF Scan
<1>2. Sites(s, find) = scan[Len(s)]
  BY DEF Sites
<1> HIDE DEF scan
<1> DEFINE T == {m \in Nat : m <= Len(s) => Scanned(s, find, scan[m], m)}
<1>3. 0 \in T
  <2>1. scan[0] = <<>>
    BY <1>1
  <2>2. Scanned(s, find, <<>>, 0)
    BY DEF Scanned, Resume
  <2> QED
    BY <2>1, <2>2
<1>4. ASSUME NEW m \in Nat, m < Len(s), m \in T PROVE m + 1 \in T
  <2>1. scan[m + 1] = AddSite(s, find, scan[m], m + 1)
    BY <1>1, <1>4
  <2>2. Scanned(s, find, scan[m], m)
    BY <1>4
  <2>3. Scanned(s, find, AddSite(s, find, scan[m], m + 1), m + 1)
    BY <2>2, AddSiteScans
  <2> QED
    BY <2>1, <2>3
<1>5. T \in SUBSET Nat
  OBVIOUS
<1>6. Len(s) \in T
  <2> HIDE DEF T
  <2> QED
    BY <1>3, <1>4, <1>5, Rising
<1> QED
  BY <1>2, <1>6

\* Where the search for the n-th match stands after each round.
Found(find, t, n, k) == IF k < n THEN Resume(find, t, k + 1) ELSE t[n]

LEMMA RoundFinds ==
  ASSUME NEW s, Len(s) \in Nat, NEW find, Len(find) \in Nat \ {0},
         NEW n \in 1..Len(Sites(s, find)), NEW k \in 1..n
  PROVE  Found(find, Sites(s, find), n, k) =
           NextIndex(s, find, Found(find, Sites(s, find), n, k - 1))
             + (IF k < n THEN Len(find) ELSE 0)
<1> DEFINE t == Sites(s, find)
<1>1. Scanned(s, find, t, Len(s))
  BY SitesScanned
<1> HIDE DEF t
<1>2. t \in Seq(Nat) /\ Len(t) \in Nat /\ n \in 1..Len(t) /\ k \in 1..Len(t)
  BY <1>1 DEF Scanned, t
<1>3. /\ Resume(find, t, k) <= t[k] /\ t[k] <= Len(s) /\ MatchAt(s, find, t[k])
      /\ \A i \in Resume(find, t, k)..t[k] - 1 : ~MatchAt(s, find, i)
  BY <1>1, <1>2 DEF Scanned
<1>4. Resume(find, t, k) \in Nat /\ t[k] \in Nat
  BY <1>2, ResumeIsPlace
<1>5. NextIndex(s, find, Resume(find, t, k)) = t[k]
  BY <1>3, <1>4, NextIndexIs
<1>6. Found(find, t, n, k - 1) = Resume(find, t, k)
  BY DEF Found
<1>7. Found(find, t, n, k) = t[k] + (IF k < n THEN Len(find) ELSE 0)
  <2>1. CASE k < n
    <3>1. Resume(find, t, k + 1) = t[k] + Len(find)
      BY <1>2 DEF Resume
    <3> QED
      BY <2>1, <3>1 DEF Found
  <2>2. CASE k = n
    BY <1>4, <2>2 DEF Found
  <2> QED
    BY <2>1, <2>2
<1> QED
  BY <1>5, <1>6, <1>7 DEF t

\* patch.go replaceNth against strings.Count, for texts and hunks of any length:
\* the match that is replaced is the one of that number among those counted.
THEOREM CountedIsReplaced ==
  ASSUME NEW Characters, NEW s \in Seq(Characters), NEW replace \in Seq(Characters),
         NEW find \in Seq(Characters) \ {<<>>}
  PROVE  Agree(s, find, replace)
<1>1. Len(s) \in Nat /\ Len(find) \in Nat \ {0}
  BY EmptySeq
<1> DEFINE t == Sites(s, find)
<1>2. Len(t) \in Nat
  BY <1>1, SitesScanned DEF Scanned
<1>3. ASSUME NEW n \in 1..Len(t) PROVE ReplaceNth(s, find, replace, n) = Splice(s, find, replace, t[n])
  <2>1. n \in Nat \ {0}
    BY <1>2
  <2> DEFINE Round(idx) ==
               idx = [k \in 0..n |->
                       IF k = 0 THEN 1
                       ELSE NextIndex(s, find, idx[k - 1]) + (IF k < n THEN Len(find) ELSE 0)]
             idx == CHOOSE f : Round(f)
             found == [k \in 0..n |-> Found(find, t, n, k)]
  <2>2. ReplaceNth(s, find, replace, n) = Splice(s, find, replace, idx[n])
    BY DEF ReplaceNth
  <2>3. Found(find, t, n, 0) = 1
    BY <2>1 DEF Found, Resume
  <2>4. Round(found)
    <3>1. ASSUME NEW k \in 0..n
          PROVE  found[k] = IF k = 0 THEN 1
                            ELSE NextIndex(s, find, found[k - 1])
                                   + (IF k < n THEN Len(find) ELSE 0)
      <4>1. CASE k = 0
        BY <2>3, <4>1
      <4>2. CASE k \in 1..n
        <5>1. found[k] = Found(find, t, n, k) /\ found[k - 1] = Found(find, t, n, k - 1)
          BY <4>2
        <5> QED
          BY <1>1, <4>2, <5>1, RoundFinds
      <4> QED
        BY <4>1, <4>2
    <3>2. found = [k \in 0..n |-> found[k]]
      OBVIOUS
    <3> HIDE DEF found
    <3> QED
      BY <3>1, <3>2
  <2>5. Round(idx)
    BY <2>4
  <2>6. idx[0] = 1 /\ \A k \in 1..n :
                idx[k] = NextIndex(s, find, idx[k - 1]) + (IF k < n THEN Len(find) ELSE 0)
    <3> HIDE DEF idx
    <3> QED
      BY <2>1, <2>5
  <2> HIDE DEF idx, Round, found
  <2> DEFINE T == {k \in Nat : k <= n => idx[k] = Found(find, t, n, k)}
  <2>7. 0 \in T
    BY <2>3, <2>6
  <2>8. ASSUME NEW k \in Nat, k < n, k \in T PROVE k + 1 \in T
    <3>1. idx[k] = Found(find, t, n, k)
      BY <2>8
    <3>2. k + 1 \in 1..n /\ (k + 1) - 1 = k
      BY <2>1, <2>8
    <3>3. idx[k + 1] = NextIndex(s, find, idx[k]) + (IF k + 1 < n THEN Len(find) ELSE 0)
      BY <2>6, <3>2
    <3>4. Found(find, t, n, k + 1) =
            NextIndex(s, find, Found(find, t, n, k)) + (IF k + 1 < n THEN Len(find) ELSE 0)
      BY <1>1, <1>3, <3>2, RoundFinds
    <3> QED
      BY <3>1, <3>3, <3>4
  <2>9. T \in SUBSET Nat
    OBVIOUS
  <2>10. n \in T
    <3> HIDE DEF T
    <3> QED
      BY <2>1, <2>7, <2>8, <2>9, Rising
  <2>11. idx[n] = t[n]
    BY <2>1, <2>10 DEF Found
  <2> QED
    BY <2>2, <2>11
<1> QED
  BY <1>3 DEF Agree
=============================================================================
