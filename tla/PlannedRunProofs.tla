-------------------------- MODULE PlannedRunProofs --------------------------
(***************************************************************************)
(* Proofs about PlannedRun, for every plan, spelling, command line and     *)
(* workspace: with -yes the tools stay in the plan; the records that count *)
(* for a check are those of commands that ran; check 5 of the verifier     *)
(* sees what was not planned, and check 6 nothing the tools brought about. *)
(*                                                                         *)
(* The last two need to know what Clean returns.  Clean is a recursive   *)
(* function: what it computes over the first n segments is proved for      *)
(* every n from the least one for which it would be wrong.                 *)
(***************************************************************************)
EXTENDS PlannedRun, SequenceTheorems, WellFoundedInduction, TLAPS

\* Before there is a plan nothing is written.
StayInv ==
  /\ phase = "planning" => written = {}
  /\ YesStaysInPlan

LEMMA ChangeStays ==
  ASSUME NEW p, StayInv, Change(p), UNCHANGED plan
  PROVE  YesStaysInPlan'
<1>1. CASE written' = written
  BY <1>1 DEF StayInv, YesStaysInPlan
<1>2. ASSUME Approves(Listed(plan.files, p)),
             written' = written \cup {[file |-> Clean(p), human |-> approver = "prompt"]}
      PROVE  YesStaysInPlan'
  <2> DEFINE new == [file |-> Clean(p), human |-> approver = "prompt"]
  <2>1. ~new.human => \E q \in plan.files : Clean(q) = new.file
    BY <1>2 DEF Approves, Listed
  <2>2. \A w \in written' : w \in written \/ w = new
    BY <1>2
  <2> HIDE DEF new
  <2> QED
    BY <2>1, <2>2 DEF StayInv, YesStaysInPlan
<1> QED
  BY <1>1, <1>2 DEF Change

LEMMA StayInit == Init => StayInv
  BY DEF Init, StayInv, YesStaysInPlan

LEMMA StayNext == StayInv /\ [Next]_vars => StayInv'
<1> SUFFICES ASSUME StayInv, [Next]_vars PROVE StayInv'
  OBVIOUS
<1>1. ASSUME UNCHANGED <<plan, phase, written>> PROVE StayInv'
  BY <1>1 DEF StayInv, YesStaysInPlan
<1>2. CASE Propose
  BY <1>2 DEF Propose, StayInv, YesStaysInPlan
<1>3. CASE Observe
  BY <1>3 DEF Observe, StayInv, YesStaysInPlan
<1>4. ASSUME NEW p \in Spelled, WriteFile(p) \/ ApplyPatch(p) PROVE StayInv'
  <2>1. UNCHANGED <<plan, phase>> /\ phase = "running"
    BY <1>4 DEF WriteFile, ApplyPatch, Call
  <2>2. written' = written \/ Change(p)
    BY <1>4 DEF WriteFile, ApplyPatch
  <2>3. YesStaysInPlan'
    BY <2>1, <2>2, ChangeStays DEF StayInv, YesStaysInPlan
  <2> QED
    BY <2>1, <2>3 DEF StayInv
<1>5. ASSUME NEW c \in Commands, RunCommand(c) PROVE StayInv'
  BY <1>1, <1>5 DEF RunCommand, Call
<1>6. CASE UNCHANGED vars
  BY <1>1, <1>6 DEF vars
<1> QED
  BY <1>2, <1>3, <1>4, <1>5, <1>6 DEF Next

\* With -yes the tools write only files the plan names, however the plan and
\* the call spell them.
THEOREM StaysInPlan == Spec => []YesStaysInPlan
<1>1. StayInv => YesStaysInPlan
  BY DEF StayInv
<1> QED
  BY StayInit, StayNext, <1>1, PTL DEF Spec

-----------------------------------------------------------------------------
\* What every command that was called, by now, comes to.
Settled(c) == ToolRefusesCommand(c) \/ ~Approves(ListedCommand(c)) \/ Asset(c) \in records

CheckInv ==
  /\ phase = "planning" => called = {}
  /\ called \subseteq Commands
  /\ plan.checks \in Seq(Commands)
  /\ \A i \in 1..Len(plan.checks) : PlanAcceptsCommand(plan.checks[i])
  /\ \A c \in called : Settled(c)

LEMMA CheckInit == Init => CheckInv
  BY DEF Init, CheckInv, NoPlan

LEMMA CheckNext == CheckInv /\ [Next]_vars => CheckInv'
<1> SUFFICES ASSUME CheckInv, [Next]_vars PROVE CheckInv'
  OBVIOUS
<1>1. ASSUME UNCHANGED <<plan, phase, approver, records, called>> PROVE CheckInv'
  BY <1>1 DEF CheckInv, Settled, Approves, ListedCommand
<1>2. CASE Propose
  <2>1. called = {} /\ called' = {}
    BY <1>2 DEF Propose, CheckInv
  <2>2. /\ plan'.checks \in Seq(Commands)
        /\ \A i \in 1..Len(plan'.checks) : PlanAcceptsCommand(plan'.checks[i])
    BY <1>2, PlannedRunAssumption DEF Propose, CheckInv, ValidPlan
  <2> QED
    BY <2>1, <2>2 DEF CheckInv
<1>3. CASE Observe
  BY <1>1, <1>3 DEF Observe, CheckInv, Settled, Approves, ListedCommand
<1>4. ASSUME NEW p \in Spelled, WriteFile(p) \/ ApplyPatch(p) PROVE CheckInv'
  BY <1>1, <1>4 DEF WriteFile, ApplyPatch, Call
<1>5. ASSUME NEW c \in Commands, RunCommand(c) PROVE CheckInv'
  <2>1. UNCHANGED <<plan, phase, approver>> /\ phase = "running"
    BY <1>5 DEF RunCommand, Call
  <2>2. records \subseteq records'
    BY <1>5 DEF RunCommand
  <2>3. \/ called' = called
        \/ /\ called' = called \cup {c}
           /\ \/ ToolRefusesCommand(c)
              \/ ~Approves(ListedCommand(c))
              \/ Asset(c) \in records'
    BY <1>5 DEF RunCommand
  <2>4. \A d : Approves(ListedCommand(d))' = Approves(ListedCommand(d))
    BY <2>1 DEF Approves, ListedCommand
  <2>5. \A d \in called' : Settled(d)'
    BY <2>2, <2>3, <2>4 DEF CheckInv, Settled
  <2> QED
    BY <2>1, <2>3, <2>5 DEF CheckInv
<1>6. CASE UNCHANGED vars
  BY <1>1, <1>6 DEF vars
<1> QED
  BY <1>2, <1>3, <1>4, <1>5, <1>6 DEF Next

LEMMA SettledCounts == CheckInv => AcceptedChecksCount
<1> SUFFICES ASSUME CheckInv, approver = "auto",
                    NEW i \in 1..Len(plan.checks),
                    Ordinary(plan.checks[i]),
                    \A j \in 1..Len(plan.checks) :
                      j # i => plan.checks[j].words # plan.checks[i].words,
                    NEW c \in called, c.words = plan.checks[i].words
             PROVE  i \in AcceptanceResults
  BY DEF AcceptedChecksCount
<1> DEFINE check == plan.checks[i]
<1>1. check \in Commands /\ c \in Commands
  BY DEF CheckInv
<1>2. c.program = check.program /\ c.flags = check.flags /\ c.chars = check.chars
      /\ c.secret = check.secret
  BY <1>1, PlannedRunAssumption
<1>3. ~ToolRefusesCommand(c)
  BY <1>2 DEF CheckInv, PlanAcceptsCommand, ToolRefusesCommand, Ordinary
<1>4. Asset(c) = check.words
  BY <1>2 DEF Asset, Ordinary
<1>5. ListedCommand(c)
  BY <1>4 DEF ListedCommand
<1>6. check.words \in records
  BY <1>3, <1>4, <1>5 DEF CheckInv, Settled, Approves
<1>7. Len(plan.checks) \in Nat
  BY DEF CheckInv
<1>8. ASSUME NEW j \in i + 1..Len(plan.checks), plan.checks[j].words = check.words PROVE FALSE
  BY <1>7, <1>8
<1> QED
  BY <1>6, <1>8 DEF AcceptanceResults

\* With -yes, an acceptance check that run_command takes, that does not look
\* like a secret and that no other check repeats has a result once it was
\* called and could be started, in whatever spacing.
THEOREM ChecksCount == Spec => []AcceptedChecksCount
<1> QED
  BY CheckInit, CheckNext, SettledCounts, PTL DEF Spec

-----------------------------------------------------------------------------
LEMMA TypeInit == Init => TypeOK
<1>1. Tracked \subseteq Files /\ StepBound \in Nat
  BY PlannedRunAssumption
<1> QED
  BY <1>1 DEF Init, TypeOK

LEMMA ChangeTypes ==
  ASSUME TypeOK, NEW p \in Spelled, Change(p)
  PROVE  changed' \subseteq Files \cup {Clean(q) : q \in Spelled}
  BY DEF Change, TypeOK

LEMMA TypeNext == TypeOK /\ [Next]_vars => TypeOK'
<1> SUFFICES ASSUME TypeOK, [Next]_vars PROVE TypeOK'
  OBVIOUS
<1>1. CASE Propose
  BY <1>1 DEF Propose, TypeOK
<1>2. CASE Observe
  BY <1>2 DEF Observe, TypeOK
<1>3. ASSUME Call PROVE steps' \in 0..StepBound /\ UNCHANGED <<plan, approver, phase>>
  <2>1. StepBound \in Nat
    BY PlannedRunAssumption
  <2> QED
    BY <1>3, <2>1 DEF Call, TypeOK
<1>4. ASSUME NEW p \in Spelled, WriteFile(p) \/ ApplyPatch(p) PROVE TypeOK'
  <2>1. Call /\ called' = called
    BY <1>4 DEF WriteFile, ApplyPatch
  <2>2. UNCHANGED changed \/ Change(p)
    BY <1>4 DEF WriteFile, ApplyPatch
  <2> QED
    BY <1>3, <2>1, <2>2, ChangeTypes DEF TypeOK
<1>5. ASSUME NEW c \in Commands, RunCommand(c) PROVE TypeOK'
  <2>1. Call /\ called' \subseteq called \cup {c}
    BY <1>5 DEF RunCommand
  <2>2. changed' = changed \/ \E f \in Files : changed' = changed \cup {f}
    BY <1>5 DEF RunCommand
  <2> QED
    BY <1>3, <2>1, <2>2 DEF TypeOK
<1>6. CASE UNCHANGED vars
  BY <1>6 DEF vars, TypeOK
<1> QED
  BY <1>1, <1>2, <1>4, <1>5, <1>6 DEF Next

\* Nothing is changed but files a call spelled or a command may change, and
\* nothing is called but what the tools were asked for.
THEOREM TypesHold == Spec => []TypeOK
<1> QED
  BY TypeInit, TypeNext, PTL DEF Spec

-----------------------------------------------------------------------------
(***************************************************************************)
(* filepath.Clean, for every path.                                         *)
(***************************************************************************)
LEMMA Least ==
  ASSUME NEW T \in SUBSET Nat, T # {}
  PROVE  \E n \in T : \A m \in T : n <= m
<1> DEFINE R == {ss \in Nat \X Nat : ss[1] < ss[2]}
<1>1. IsWellFoundedOn(R, Nat)
  BY NatLessThanWellFounded DEF OpToRel
<1>2. \E n \in T : \A m \in T : <<m, n>> \notin R
  <2> HIDE DEF R
  <2> QED
    BY <1>1, WFMin
<1>3. PICK n \in T : \A m \in T : <<m, n>> \notin R
  BY <1>2
<1>4. ASSUME NEW m \in T PROVE n <= m
  <2>1. m \in Nat /\ n \in Nat
    BY <1>3
  <2>2. m < n => <<m, n>> \in R
    BY <2>1
  <2>3. ~(m < n)
    BY <1>3, <2>2
  <2> QED
    BY <2>1, <2>3
<1> QED
  BY <1>4

\* What holds at 0 and passes on from each number to the next one.
LEMMA Rising ==
  ASSUME NEW T \in SUBSET Nat, NEW m \in Nat, 0 \in T,
         \A n \in Nat : n < m /\ n \in T => n + 1 \in T
  PROVE  0..m \subseteq T
<1> DEFINE rest == (0..m) \ T
<1> SUFFICES ASSUME rest # {} PROVE FALSE
  OBVIOUS
<1>1. rest \in SUBSET Nat
  OBVIOUS
<1>2. PICK n \in rest : \A k \in rest : n <= k
  <2> HIDE DEF rest
  <2> QED
    BY <1>1, Least
<1>3. n \in 0..m /\ n # 0
  OBVIOUS
<1>4. n - 1 \in Nat /\ n - 1 < m /\ n - 1 \notin rest
  <2>1. ~(n <= n - 1)
    BY <1>3
  <2> QED
    BY <1>2, <1>3, <2>1
<1>5. n - 1 \in T
  BY <1>3, <1>4
<1> QED
  BY <1>3, <1>4, <1>5

\* The results of the steps Clean takes over the first n segments of p.
Scan(p, out, n) ==
  out = [k \in 0..n |-> IF k = 0 THEN <<>> ELSE CleanStep(out[k - 1], p[k])]

LEMMA ScanExists ==
  ASSUME NEW p, NEW m \in Nat
  PROVE  \E out : Scan(p, out, m)
<1> DEFINE T == {n \in Nat : \E out : Scan(p, out, n)}
<1>1. 0 \in T
  <2>1. Scan(p, [k \in 0..0 |-> <<>>], 0)
    BY DEF Scan
  <2> QED
    BY <2>1
<1>2. ASSUME NEW n \in Nat, n \in T PROVE n + 1 \in T
  <2>1. PICK out : Scan(p, out, n)
    BY <1>2
  <2> DEFINE next == [k \in 0..n + 1 |-> IF k = n + 1 THEN CleanStep(out[n], p[n + 1]) ELSE out[k]]
  <2>2. ASSUME NEW k \in 0..n + 1
        PROVE  next[k] = IF k = 0 THEN <<>> ELSE CleanStep(next[k - 1], p[k])
    <3>1. CASE k = n + 1
      BY <3>1
    <3>2. CASE k \in 0..n
      <4>1. out[k] = IF k = 0 THEN <<>> ELSE CleanStep(out[k - 1], p[k])
        BY <2>1, <3>2 DEF Scan
      <4>2. next[k] = out[k] /\ (k # 0 => next[k - 1] = out[k - 1])
        BY <3>2
      <4> QED
        BY <4>1, <4>2
    <3> QED
      BY <3>1, <3>2
  <2>3. DOMAIN next = 0..n + 1 /\ next = [k \in 0..n + 1 |-> next[k]]
    OBVIOUS
  <2> HIDE DEF next
  <2>4. next = [k \in 0..n + 1 |-> IF k = 0 THEN <<>> ELSE CleanStep(next[k - 1], p[k])]
    BY <2>2, <2>3
  <2> QED
    BY <2>4 DEF Scan
<1>3. T \in SUBSET Nat
  OBVIOUS
<1>4. m \in T
  <2> HIDE DEF T
  <2>1. 0..m \subseteq T
    BY <1>1, <1>2, <1>3, Rising
  <2> QED
    BY <2>1
<1> QED
  BY <1>4

LEMMA CleanScans ==
  ASSUME NEW p, Len(p) \in Nat
  PROVE  \E out : /\ out[0] = <<>>
                  /\ \A n \in 1..Len(p) : out[n] = CleanStep(out[n - 1], p[n])
                  /\ Clean(p) = IF out[Len(p)] = <<>> THEN <<".">> ELSE out[Len(p)]
<1> DEFINE out == CHOOSE f : f = [n \in 0..Len(p) |-> IF n = 0 THEN <<>> ELSE CleanStep(f[n - 1], p[n])]
<1>1. out = [n \in 0..Len(p) |-> IF n = 0 THEN <<>> ELSE CleanStep(out[n - 1], p[n])]
  BY ScanExists DEF Scan
<1>2. Clean(p) = IF out[Len(p)] = <<>> THEN <<".">> ELSE out[Len(p)]
  BY DEF Clean
<1> HIDE DEF out
<1>3. out[0] = <<>> /\ \A n \in 1..Len(p) : out[n] = CleanStep(out[n - 1], p[n])
  BY <1>1
<1> QED
  BY <1>2, <1>3

\* A cleaned path has no empty segment and no ".", and ".." only at its beginning.
Cleaned(f) ==
  \A j \in 1..Len(f) :
    f[j] \notin {Blank, "."} /\ (f[j] = ".." => \A i \in 1..j : f[i] = "..")

LEMMA Dots == Blank # "." /\ Blank # ".." /\ "." # ".."
  BY DEF Blank

LEMMA Escaped == "escaped" \notin {Blank, ".", ".."}
  BY DEF Blank

LEMMA Begins ==
  ASSUME NEW S, NEW f \in Seq(S), NEW n \in Nat, n <= Len(f)
  PROVE  /\ SubSeq(f, 1, n) \in Seq(S) /\ Len(SubSeq(f, 1, n)) = n
         /\ \A i \in 1..n : SubSeq(f, 1, n)[i] = f[i]
  OBVIOUS

LEMMA StepCleans ==
  ASSUME NEW f \in Seq(Segments), Cleaned(f), NEW segment \in Segments
  PROVE  CleanStep(f, segment) \in Seq(Segments) /\ Cleaned(CleanStep(f, segment))
<1>1. Len(f) \in Nat /\ (f = <<>> <=> Len(f) = 0)
  BY EmptySeq, LenProperties
<1>2. CASE segment \in {Blank, "."}
  <2>1. segment # ".."
    BY <1>2, Dots
  <2>2. CleanStep(f, segment) = f
    BY <1>2, <2>1 DEF CleanStep
  <2> QED
    BY <2>2
<1>3. CASE segment = ".." /\ f # <<>> /\ Last(f) # ".."
  <2>1. CleanStep(f, segment) = SubSeq(f, 1, Len(f) - 1)
    BY <1>3 DEF CleanStep, Front
  <2> DEFINE g == SubSeq(f, 1, Len(f) - 1)
  <2>2. g \in Seq(Segments) /\ Len(g) = Len(f) - 1 /\ \A i \in 1..Len(g) : g[i] = f[i]
    <3>1. f # <<>>
      BY <1>3
    <3>2. Len(f) - 1 \in Nat /\ Len(f) - 1 <= Len(f)
      BY <1>1, <3>1
    <3> QED
      BY <3>2, Begins
  <2> HIDE DEF g
  <2>3. Cleaned(g)
    BY <1>1, <2>2 DEF Cleaned
  <2> QED
    BY <2>1, <2>2, <2>3 DEF g
<1>4. CASE segment \notin {Blank, "."} /\ ~(segment = ".." /\ f # <<>> /\ Last(f) # "..")
  <2> DEFINE g == Append(f, segment)
  <2>1. CleanStep(f, segment) = g
    BY <1>4 DEF CleanStep
  <2>2. /\ g \in Seq(Segments) /\ Len(g) = Len(f) + 1 /\ g[Len(f) + 1] = segment
        /\ \A i \in 1..Len(f) : g[i] = f[i]
    BY AppendProperties
  <2> HIDE DEF g
  <2>3. ASSUME segment = ".." PROVE \A i \in 1..Len(f) : f[i] = ".."
    <3>1. CASE f = <<>>
      BY <1>1, <3>1
    <3>2. CASE f # <<>>
      <4>1. f[Len(f)] = ".." /\ Len(f) \in 1..Len(f)
        BY <1>1, <1>4, <2>3, <3>2 DEF Last
      <4> QED
        BY <4>1 DEF Cleaned
    <3> QED
      BY <3>1, <3>2
  <2>4. Cleaned(g)
    <3> SUFFICES ASSUME NEW j \in 1..Len(g)
                 PROVE  g[j] \notin {Blank, "."} /\ (g[j] = ".." => \A i \in 1..j : g[i] = "..")
      BY DEF Cleaned
    <3>1. CASE j \in 1..Len(f)
      BY <1>1, <2>2, <3>1 DEF Cleaned
    <3>2. CASE j = Len(f) + 1
      <4>1. g[j] = segment
        BY <2>2, <3>2
      <4>2. ASSUME segment = "..", NEW i \in 1..j PROVE g[i] = ".."
        <5>1. i \in 1..Len(f) \/ i = j
          BY <1>1, <3>2
        <5> QED
          BY <2>2, <2>3, <4>1, <4>2, <5>1
      <4> QED
        BY <1>4, <4>1, <4>2
    <3> QED
      BY <1>1, <2>2, <3>1, <3>2
  <2> QED
    BY <2>1, <2>2, <2>4
<1> QED
  BY <1>2, <1>3, <1>4

LEMMA CleanCleans ==
  ASSUME NEW p \in Seq(Segments)
  PROVE  /\ Len(Clean(p)) \in Nat /\ Len(Clean(p)) >= 1
         /\ Clean(p) = <<".">> \/ (Clean(p) \in Seq(Segments) /\ Cleaned(Clean(p)))
<1>1. Len(p) \in Nat
  OBVIOUS
<1>2. PICK out : /\ out[0] = <<>>
                 /\ \A n \in 1..Len(p) : out[n] = CleanStep(out[n - 1], p[n])
                 /\ Clean(p) = IF out[Len(p)] = <<>> THEN <<".">> ELSE out[Len(p)]
  BY <1>1, CleanScans
<1> DEFINE T == {n \in Nat : out[n] \in Seq(Segments) /\ Cleaned(out[n])}
<1>3. T \in SUBSET Nat /\ 0 \in T
  <2>1. <<>> \in Seq(Segments) /\ Cleaned(<<>>)
    BY EmptySeq DEF Cleaned
  <2>2. out[0] = <<>>
    BY <1>2
  <2> QED
    BY <2>1, <2>2
<1>4. ASSUME NEW n \in Nat, n < Len(p), n \in T PROVE n + 1 \in T
  <2>1. n + 1 \in 1..Len(p) /\ (n + 1) - 1 = n
    BY <1>1, <1>4
  <2>2. out[n + 1] = CleanStep(out[n], p[n + 1]) /\ p[n + 1] \in Segments
    BY <1>2, <2>1, ElementOfSeq
  <2> QED
    BY <1>4, <2>2, StepCleans
<1>5. Len(p) \in T
  <2> HIDE DEF T
  <2>1. 0..Len(p) \subseteq T
    BY <1>1, <1>3, <1>4, Rising
  <2> QED
    BY <1>1, <2>1
<1>6. CASE out[Len(p)] = <<>>
  <2>1. Clean(p) = <<".">>
    BY <1>2, <1>6
  <2>2. Len(Clean(p)) = 1
    BY <2>1
  <2>3. Len(Clean(p)) \in Nat /\ Len(Clean(p)) >= 1
    BY <2>2
  <2> QED
    BY <2>1, <2>3
<1>7. CASE out[Len(p)] # <<>>
  <2>1. Clean(p) = out[Len(p)] /\ Clean(p) \in Seq(Segments) /\ Cleaned(Clean(p))
    BY <1>2, <1>5, <1>7
  <2>2. Len(Clean(p)) \in Nat /\ Len(Clean(p)) >= 1
    BY <1>7, <2>1, EmptySeq, LenProperties
  <2> QED
    BY <2>1, <2>2
<1> QED
  BY <1>6, <1>7

\* A path that is clean but for what separates names at its end.
LEMMA CleanDrops ==
  ASSUME NEW S, NEW p \in Seq(S), NEW n \in 1..Len(p),
         \A i \in 1..n : p[i] \notin {Blank, ".", ".."}, \A i \in n + 1..Len(p) : p[i] = Blank
  PROVE  Clean(p) = SubSeq(p, 1, n)
<1>1. Len(p) \in Nat /\ n \in Nat
  OBVIOUS
<1>2. PICK out : /\ out[0] = <<>>
                 /\ \A k \in 1..Len(p) : out[k] = CleanStep(out[k - 1], p[k])
                 /\ Clean(p) = IF out[Len(p)] = <<>> THEN <<".">> ELSE out[Len(p)]
  BY <1>1, CleanScans
<1> DEFINE T == {k \in Nat : out[k] = SubSeq(p, 1, IF k <= n THEN k ELSE n)}
<1>3. T \in SUBSET Nat /\ 0 \in T
  <2>1. SubSeq(p, 1, 0) = <<>> /\ (IF 0 <= n THEN 0 ELSE n) = 0
    BY <1>1
  <2>2. out[0] = <<>>
    BY <1>2
  <2> QED
    BY <2>1, <2>2
<1>4. ASSUME NEW k \in Nat, k < Len(p), k \in T PROVE k + 1 \in T
  <2>1. k + 1 \in 1..Len(p) /\ (k + 1) - 1 = k
    BY <1>1, <1>4
  <2>2. out[k + 1] = CleanStep(out[k], p[k + 1])
    BY <1>2, <2>1
  <2>3. CASE k + 1 <= n
    <3>1. k + 1 \in 1..n /\ k <= n
      BY <1>1, <2>3
    <3>2. out[k] = SubSeq(p, 1, k)
      BY <1>4, <3>1
    <3>3. out[k + 1] = Append(out[k], p[k + 1])
      BY <2>2, <3>1 DEF CleanStep
    <3>4. Append(SubSeq(p, 1, k), p[k + 1]) = SubSeq(p, 1, k + 1)
      BY <1>1, <2>1
    <3>5. out[k + 1] = SubSeq(p, 1, k + 1)
      BY <3>2, <3>3, <3>4
    <3> QED
      BY <2>3, <3>5
  <2>4. CASE ~(k + 1 <= n)
    <3>1. k + 1 \in n + 1..Len(p)
      BY <1>1, <2>1, <2>4
    <3>2. out[k + 1] = out[k]
      <4>1. p[k + 1] = Blank
        BY <3>1
      <4> QED
        BY <2>2, <4>1, Dots DEF CleanStep
    <3>3. (IF k <= n THEN k ELSE n) = n
      BY <1>1, <2>4
    <3> QED
      BY <1>4, <2>4, <3>2, <3>3
  <2> QED
    BY <2>3, <2>4
<1>5. Len(p) \in T
  <2> HIDE DEF T
  <2>1. 0..Len(p) \subseteq T
    BY <1>1, <1>3, <1>4, Rising
  <2> QED
    BY <1>1, <2>1
<1>6. out[Len(p)] = SubSeq(p, 1, n)
  <2>1. (IF Len(p) <= n THEN Len(p) ELSE n) = n
    BY <1>1
  <2> QED
    BY <1>5, <2>1
<1>7. SubSeq(p, 1, n) # <<>>
  <2>1. Len(SubSeq(p, 1, n)) = n
    BY <1>1
  <2> QED
    BY <1>1, <2>1, EmptySeq
<1> QED
  BY <1>2, <1>6, <1>7

-----------------------------------------------------------------------------
(***************************************************************************)
(* What is changed, written and reported.                                  *)
(***************************************************************************)
Inside(f) ==
  /\ f \in Seq(Segments) /\ Len(f) \in Nat /\ Len(f) >= 1
  /\ \A i \in 1..Len(f) : f[i] \notin {Blank, ".", ".."}

KnownInv ==
  /\ \A f \in changed : Inside(f)
  /\ \A w \in written : \E p \in Spelled : w.file = Clean(p) /\ ~GuardForbids(p)
  /\ phase = "observed" => reported = ChangedFiles

LEMMA KnownInit == Init => KnownInv
  BY DEF Init, KnownInv

\* What a write that is not refused, and not of the root, leaves is inside.
LEMMA WritesInside ==
  ASSUME NEW p \in Seq(Segments), ~Escapes(p), Clean(p) # <<".">>
  PROVE  Inside(Clean(p))
<1>1. /\ Clean(p) \in Seq(Segments) /\ Cleaned(Clean(p))
      /\ Len(Clean(p)) \in Nat /\ Len(Clean(p)) >= 1
  BY CleanCleans
<1>2. Clean(p)[1] # ".."
  BY DEF Escapes
<1>3. ASSUME NEW i \in 1..Len(Clean(p)) PROVE Clean(p)[i] \notin {Blank, ".", ".."}
  <2>1. Clean(p)[i] # ".."
    BY <1>1, <1>2 DEF Cleaned
  <2> QED
    BY <1>1, <2>1 DEF Cleaned
<1> QED
  BY <1>1, <1>3 DEF Inside

LEMMA ChangeKnown ==
  ASSUME KnownInv, NEW p \in Spelled, Change(p), phase # "observed", UNCHANGED phase
  PROVE  KnownInv'
<1>1. phase' # "observed"
  OBVIOUS
<1>2. CASE UNCHANGED <<changed, written>>
  BY <1>1, <1>2 DEF KnownInv
<1>3. CASE /\ ~GuardForbids(p) /\ Placeable(Clean(p)) /\ changed' = changed \cup {Clean(p)}
           /\ written' = written \cup {[file |-> Clean(p), human |-> approver = "prompt"]}
  <2>1. p \in Seq(Segments)
    BY PlannedRunAssumption
  <2>2. ~Escapes(p)
    BY <1>3 DEF GuardForbids
  <2>3. Inside(Clean(p))
    BY <1>3, <2>1, <2>2, WritesInside DEF Placeable
  <2>4. \A f \in changed' : Inside(f)
    BY <1>3, <2>3 DEF KnownInv
  <2>5. ASSUME NEW w \in written'
        PROVE  \E q \in Spelled : w.file = Clean(q) /\ ~GuardForbids(q)
    <3>1. CASE w \in written
      BY <3>1 DEF KnownInv
    <3>2. CASE w = [file |-> Clean(p), human |-> approver = "prompt"]
      <4>1. w.file = Clean(p)
        BY <3>2
      <4> QED
        BY <1>3, <4>1
    <3> QED
      BY <1>3, <3>1, <3>2
  <2> QED
    BY <1>1, <2>4, <2>5 DEF KnownInv
<1> QED
  BY <1>2, <1>3 DEF Change

LEMMA KnownNext == KnownInv /\ [Next]_vars => KnownInv'
<1> SUFFICES ASSUME KnownInv, [Next]_vars PROVE KnownInv'
  OBVIOUS
<1>1. CASE Propose
  <2>1. UNCHANGED <<changed, written>> /\ phase' \in {"running", "rejected"}
    BY <1>1 DEF Propose
  <2> QED
    BY <2>1 DEF KnownInv
<1>2. CASE Observe
  <2>1. UNCHANGED <<changed, index, written>> /\ reported' = ChangedFiles
    BY <1>2 DEF Observe
  <2>2. ChangedFiles' = ChangedFiles
    BY <2>1 DEF ChangedFiles, Visible, Topmost
  <2> QED
    BY <2>1, <2>2 DEF KnownInv
<1>3. ASSUME Call PROVE phase # "observed" /\ phase' = phase
  BY <1>3 DEF Call
<1>4. ASSUME NEW p \in Spelled, WriteFile(p) \/ ApplyPatch(p) PROVE KnownInv'
  <2>1. Call /\ (UNCHANGED <<written, changed>> \/ Change(p))
    BY <1>4 DEF WriteFile, ApplyPatch
  <2>2. CASE UNCHANGED <<written, changed>>
    BY <1>3, <2>1, <2>2 DEF KnownInv
  <2> QED
    BY <1>3, <2>1, <2>2, ChangeKnown
<1>5. ASSUME NEW c \in Commands, RunCommand(c) PROVE KnownInv'
  <2>1. Call /\ written' = written
    BY <1>5 DEF RunCommand
  <2>2. changed' = changed \/ \E f \in Files : changed' = changed \cup {f}
    BY <1>5 DEF RunCommand
  <2>3. ASSUME NEW f \in Files PROVE Inside(f)
    <3>1. f \in Seq(Segments) /\ f # <<>> /\ Names(f) \cap {Blank, ".", ".."} = {}
      BY PlannedRunAssumption
    <3>2. Len(f) \in Nat /\ Len(f) >= 1
      BY <3>1, EmptySeq, LenProperties
    <3> QED
      BY <3>1, <3>2 DEF Inside, Names
  <2> QED
    BY <1>3, <2>1, <2>2, <2>3 DEF KnownInv
<1>6. CASE UNCHANGED vars
  <2>1. ChangedFiles' = ChangedFiles
    BY <1>6 DEF vars, ChangedFiles, Visible, Topmost
  <2> QED
    BY <1>6, <2>1 DEF vars, KnownInv
<1> QED
  BY <1>1, <1>2, <1>4, <1>5, <1>6 DEF Next

-----------------------------------------------------------------------------
\* git reports a changed file as it is printed, or a directory above it with
\* what separates names at its end.
Above(f, n, q) ==
  /\ n \in 1..Len(f) - 1
  /\ q = Printed(SubSeq(f, 1, n) \o <<Blank>>)

LEMMA Reported ==
  ASSUME NEW f, Inside(f)
  PROVE  Topmost(f) = f \/ \E n : Above(f, n, Printed(Topmost(f)))
<1> DEFINE untracked == {n \in 1..Len(f) - 1 : ~\E g \in index : Prefix(SubSeq(f, 1, n), g)}
           least == CHOOSE n \in untracked : \A m \in untracked : n <= m
<1>1. CASE f \in index \/ untracked = {}
  <2>1. Topmost(f) = f
    BY <1>1 DEF Topmost
  <2> QED
    BY <2>1
<1>2. CASE ~(f \in index \/ untracked = {})
  <2>1. Topmost(f) = SubSeq(f, 1, least) \o <<Blank>>
    BY <1>2 DEF Topmost
  <2>2. least \in untracked
    <3>1. untracked \in SUBSET Nat /\ untracked # {}
      BY <1>2 DEF Inside
    <3> HIDE DEF untracked
    <3>2. \E n \in untracked : \A m \in untracked : n <= m
      BY <3>1, Least
    <3> QED
      BY <3>2
  <2>3. least \in 1..Len(f) - 1
    BY <2>2
  <2> HIDE DEF least
  <2> QED
    BY <2>1, <2>3 DEF Above
<1> QED
  BY <1>1, <1>2

\* What such a directory is, as it is reported and as it is cleaned.
LEMMA Directory ==
  ASSUME NEW f, Inside(f), NEW n, NEW q, Above(f, n, q)
  PROVE  /\ q[Len(q)] = Blank /\ Prefix(Clean(q), Printed(f))
         /\ n \in 1..Len(f) - 1 /\ Len(q) = n + 1
         /\ \A i \in 1..n : q[i] = IF f[i] \in Unusual THEN "escaped" ELSE f[i]
<1> DEFINE S == Segments \cup {"escaped", Blank}
           d == SubSeq(f, 1, n) \o <<Blank>>
<1>1. f \in Seq(Segments) /\ Len(f) \in Nat /\ n \in Nat /\ n >= 1 /\ n < Len(f)
  BY DEF Inside, Above
<1>2. /\ SubSeq(f, 1, n) \in Seq(Segments) /\ Len(SubSeq(f, 1, n)) = n
      /\ \A i \in 1..n : SubSeq(f, 1, n)[i] = f[i]
  BY <1>1, Begins
<1>3. /\ Len(d) = n + 1 /\ d[n + 1] = Blank
      /\ \A i \in 1..n : d[i] = f[i]
  BY <1>1, <1>2
<1> HIDE DEF d
<1>4. q = [i \in 1..n + 1 |-> IF d[i] \in Unusual THEN "escaped" ELSE d[i]]
  BY <1>3 DEF Above, Printed, d
<1>5. \A i \in 1..n : f[i] \in Segments /\ f[i] \notin {Blank, ".", ".."}
  BY <1>1 DEF Inside
<1>6. q \in Seq(S) /\ Len(q) = n + 1
  <2>1. \A i \in 1..n + 1 : q[i] \in S
    BY <1>1, <1>3, <1>4, <1>5
  <2> HIDE DEF S
  <2>2. q \in [1..n + 1 -> S]
    BY <1>4, <2>1
  <2> QED
    BY <1>1, <2>2
<1>7. q[n + 1] = Blank
  BY <1>1, <1>3, <1>4, PlannedRunAssumption
<1>8. \A i \in 1..n : q[i] = IF f[i] \in Unusual THEN "escaped" ELSE f[i]
  BY <1>1, <1>3, <1>4
<1>9. \A i \in 1..n : q[i] \notin {Blank, ".", ".."}
  BY <1>5, <1>8, Escaped
<1>10. Clean(q) = SubSeq(q, 1, n)
  <2>1. n \in 1..Len(q) /\ \A i \in n + 1..Len(q) : q[i] = Blank
    BY <1>1, <1>6, <1>7
  <2> HIDE DEF S
  <2> QED
    BY <1>6, <1>9, <2>1, CleanDrops
<1>11. SubSeq(q, 1, n) = SubSeq(Printed(f), 1, n) /\ Len(SubSeq(q, 1, n)) = n
  <2>1. Printed(f) = [i \in 1..Len(f) |-> IF f[i] \in Unusual THEN "escaped" ELSE f[i]]
    BY DEF Printed
  <2>2. \A i \in 1..n : Printed(f)[i] = q[i]
    BY <1>1, <1>8, <2>1
  <2>3. Len(Printed(f)) = Len(f)
    BY <1>1, <2>1
  <2> DEFINE begin == SubSeq(Printed(f), 1, n)
             same == SubSeq(q, 1, n)
  <2>4. begin = [i \in 1..n |-> Printed(f)[i]]
    BY <1>1, <2>3
  <2>5. same = [i \in 1..n |-> q[i]] /\ Len(same) = n
    BY <1>1, <1>6
  <2> HIDE DEF begin, same
  <2>6. begin = same /\ Len(same) = n
    BY <2>2, <2>4, <2>5
  <2> QED
    BY <2>6 DEF begin, same
<1>12. Len(Printed(f)) = Len(f)
  BY <1>1 DEF Printed
<1>13. n \in 1..Len(f) - 1
  BY DEF Above
<1> QED
  BY <1>1, <1>6, <1>7, <1>8, <1>10, <1>11, <1>12, <1>13 DEF Prefix

\* Nothing that changed and shows in git goes unnoticed by check 5, but for new
\* files below a new directory the plan names, whatever the plan, the tools and
\* the commands did.
THEOREM UnplannedIsShown == Spec => []UnplannedShows
<1>1. KnownInv => UnplannedShows
  <2> SUFFICES ASSUME KnownInv, phase = "observed", Unplanned = {}, NEW f \in Visible
               PROVE  \/ \E q \in plan.files : q[Len(q)] = Blank /\ Prefix(Clean(q), Printed(f))
                      \/ Printed(f) \in plan.files
    BY DEF UnplannedShows
  <2>1. Inside(f)
    BY DEF KnownInv, Visible
  <2>2. Printed(Topmost(f)) \in plan.files
    BY DEF KnownInv, ChangedFiles, Unplanned
  <2>3. CASE Topmost(f) = f
    BY <2>2, <2>3
  <2>4. ASSUME NEW n, Above(f, n, Printed(Topmost(f)))
        PROVE  \E q \in plan.files : q[Len(q)] = Blank /\ Prefix(Clean(q), Printed(f))
    BY <2>1, <2>2, <2>4, Directory
  <2> QED
    BY <2>1, <2>3, <2>4, Reported
<1> QED
  BY KnownInit, KnownNext, <1>1, PTL DEF Spec

\* What the guard lets through, as the verifier reads it in git's report.
LEMMA Passes ==
  ASSUME NEW f, Inside(f),
         f[1] # ".git", \A i \in 2..Len(f) - 1 : f[i] # ".git", Lower(Last(f)) \notin GuardSecrets,
         VerifierForbids(Printed(Topmost(f)))
  PROVE  LET q == Printed(Topmost(f)) IN
         \/ Base(q) \in {"credentials.json", "my-key.age"}
         \/ q[Len(q)] = Blank /\ Base(q) \in VerifierSecrets
<1> DEFINE q == Printed(Topmost(f))
<1>1. Len(f) \in Nat /\ Len(f) >= 1 /\ \A i \in 1..Len(f) : f[i] # Blank
  BY DEF Inside
<1>2. VerifierForbids(q)
  OBVIOUS
<1>3. Topmost(f) = f \/ \E n : Above(f, n, q)
  BY Reported
<1>4. q = Printed(f) \/ \E n : Above(f, n, q)
  BY <1>3
<1> HIDE DEF q
<1>5. ASSUME NEW n, Above(f, n, q)
      PROVE  q[Len(q)] = Blank /\ Base(q) \in VerifierSecrets
  <2>1. /\ q[Len(q)] = Blank /\ n \in 1..Len(f) - 1 /\ Len(q) = n + 1
        /\ \A i \in 1..n : q[i] = IF f[i] \in Unusual THEN "escaped" ELSE f[i]
    BY <1>5, Directory
  <2>2. \A i \in 1..n : f[i] # ".git"
    BY <1>1, <2>1
  <2>3. \A i \in 1..n : q[i] # ".git"
    BY <2>1, <2>2
  <2>4. q[1] # ".git" /\ \A i \in 2..Len(q) - 1 : q[i] # ".git"
    BY <1>1, <2>1, <2>3
  <2> QED
    BY <1>2, <2>1, <2>4 DEF VerifierForbids
<1>6. ASSUME q = Printed(f)
      PROVE  Base(q) \in {"credentials.json", "my-key.age"}
  <2>1. /\ Len(q) = Len(f)
        /\ \A i \in 1..Len(f) : q[i] = IF f[i] \in Unusual THEN "escaped" ELSE f[i]
    BY <1>1, <1>6 DEF Printed
  <2>2. q[1] # ".git" /\ \A i \in 2..Len(q) - 1 : q[i] # ".git"
    BY <1>1, <2>1
  <2>3. Base(q) \in VerifierSecrets
    BY <1>2, <2>2 DEF VerifierForbids
  <2>4. Base(q) = q[Len(f)]
    <3> DEFINE named == {i \in 1..Len(q) : q[i] # Blank}
               newest == CHOOSE i \in named : \A j \in named : j <= i
    <3>1. named = 1..Len(f)
      BY <1>1, <2>1, Escaped
    <3>2. Len(f) \in named /\ \A j \in named : j <= Len(f)
      BY <1>1, <3>1
    <3>3. newest \in named /\ \A j \in named : j <= newest
      BY <3>2
    <3>4. newest = Len(f)
      BY <1>1, <3>1, <3>2, <3>3
    <3>5. named # {}
      BY <3>2
    <3>6. Base(q) = IF named = {} THEN "." ELSE q[newest]
      BY DEF Base
    <3> QED
      BY <3>4, <3>5, <3>6
  <2>5. q[Len(f)] = f[Len(f)]
    <3>1. q[Len(f)] # "escaped"
      BY <2>3, <2>4 DEF VerifierSecrets
    <3> QED
      BY <1>1, <2>1, <3>1
  <2>6. Lower(f[Len(f)]) \notin GuardSecrets
    BY DEF Last
  <2>7. f[Len(f)] \in VerifierSecrets
    BY <2>3, <2>4, <2>5
  <2>8. f[Len(f)] \notin GuardSecrets
    BY <2>6, <2>7 DEF Lower, VerifierSecrets
  <2>9. f[Len(f)] \in {"credentials.json", "my-key.age"}
    BY <2>7, <2>8 DEF VerifierSecrets, GuardSecrets
  <2> QED
    BY <2>4, <2>5, <2>9
<1> QED
  BY <1>4, <1>5, <1>6 DEF q

\* Whatever is planned and approved, and however it is spelled, check 6 finds
\* nothing the tools brought about, but for the secrets only the verifier knows
\* and new directories with the name of a secret.
THEOREM ToolsAreHarmless == Spec => []ToolsTouchNothingForbidden
<1>1. KnownInv => ToolsTouchNothingForbidden
  <2> SUFFICES ASSUME KnownInv, phase = "observed", changed \subseteq {w.file : w \in written},
                      NEW q \in ForbiddenTouched
               PROVE  \/ Base(q) \in {"credentials.json", "my-key.age"}
                      \/ q[Len(q)] = Blank /\ Base(q) \in VerifierSecrets
    BY DEF ToolsTouchNothingForbidden
  <2>1. PICK f \in changed : q = Printed(Topmost(f))
    BY DEF KnownInv, ForbiddenTouched, ChangedFiles, Visible
  <2>2. PICK p \in Spelled : f = Clean(p) /\ ~GuardForbids(p)
    <3>1. PICK w \in written : f = w.file
      BY <2>1
    <3> QED
      BY <3>1 DEF KnownInv
  <2>3. /\ f[1] # ".git" /\ \A i \in 2..Len(f) - 1 : f[i] # ".git"
        /\ Lower(Last(f)) \notin GuardSecrets
    BY <2>2 DEF GuardForbids
  <2>4. Inside(f) /\ VerifierForbids(Printed(Topmost(f)))
    BY <2>1 DEF KnownInv, ForbiddenTouched
  <2> QED
    BY <2>1, <2>3, <2>4, Passes
<1> QED
  BY KnownInit, KnownNext, <1>1, PTL DEF Spec
=============================================================================
