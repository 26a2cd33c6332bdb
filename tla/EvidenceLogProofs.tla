------------------------- MODULE EvidenceLogProofs -------------------------
(***************************************************************************)
(* Proofs about EvidenceLog, for any number of sessions and records and    *)
(* every legacy log: what a Write has acknowledged stays in the log, the   *)
(* records of one session verify whatever other sessions do, sessions one  *)
(* after the other leave one chain that continues the legacy log, and a    *)
(* record cannot be missing from its middle unnoticed.                     *)
(***************************************************************************)
EXTENDS EvidenceLog, FiniteSetTheorems, SequenceTheorems, TLAPS

LEMMA LineUpdates ==
  ASSUME NEW l \in Line, NEW w \in BOOLEAN, NEW e \in BOOLEAN
  PROVE  /\ [l EXCEPT !.whole = w, !.ended = e] \in Line
         /\ [l EXCEPT !.ended = e] \in Line
  BY DEF Line

LEMMA GarbageIsALine == Garbage \in Line /\ Garbage.ended
  BY DEF Garbage, Line, NoHash

\* Lines among which what the steps make of a line can be found again: the
\* beginning of the line, and the remains of lines.
Closed(S) ==
  /\ S \subseteq Line
  /\ \A l \in S, all \in BOOLEAN : [l EXCEPT !.whole = @ /\ all, !.ended = FALSE] \in S
  /\ \A e \in BOOLEAN : [Garbage EXCEPT !.ended = e] \in S

LEMMA LinesAreClosed == Closed(Line)
<1>1. ASSUME NEW l \in Line, NEW all \in BOOLEAN
      PROVE  [l EXCEPT !.whole = @ /\ all, !.ended = FALSE] \in Line
  BY DEF Line
<1> QED
  BY <1>1, GarbageIsALine, LineUpdates DEF Closed

\* A write appends one line, or spoils the unfinished one at the end.
LEMMA AppendedIn ==
  ASSUME NEW S, Closed(S), NEW line \in S, file \in Seq(S)
  PROVE  Appended(line) \in Seq(S) /\ Appended(line) # <<>>
<1>1. CASE file # <<>> /\ ~file[Len(file)].ended
  <2> DEFINE m == [Garbage EXCEPT !.ended = line.ended]
  <2>1. Len(file) \in 1..Len(file)
    BY <1>1, EmptySeq
  <2>2. m \in S
    <3>1. line.ended \in BOOLEAN
      BY DEF Closed, Line
    <3> QED
      BY <3>1 DEF Closed
  <2>3. Appended(line) = [file EXCEPT ![Len(file)] = m]
    BY <1>1 DEF Appended
  <2> HIDE DEF m
  <2>4. Appended(line) \in Seq(S) /\ Len(Appended(line)) = Len(file)
    BY <2>1, <2>2, <2>3, ExceptSeq
  <2> QED
    BY <2>1, <2>4, EmptySeq
<1>2. CASE ~(file # <<>> /\ ~file[Len(file)].ended)
  <2>1. Appended(line) = Append(file, line)
    BY <1>2 DEF Appended
  <2> QED
    BY <2>1, AppendProperties
<1> QED
  BY <1>1, <1>2

LEMMA RemainderIn ==
  ASSUME NEW S, Closed(S), file \in Seq(S), NEW torn \in 0..1, NEW k \in 2..Len(file) + 1
  PROVE  Remainder(torn, k) \in Seq(S)
<1> DEFINE g == [Garbage EXCEPT !.ended = file[k - 1].ended]
<1>1. file[k - 1] \in S
  BY LenProperties, ElementOfSeq
<1>2. file[k - 1].ended \in BOOLEAN
  BY <1>1 DEF Closed, Line
<1>3. g \in S
  BY <1>2 DEF Closed
<1> HIDE DEF g
<1>4. SubSeq(<<g>>, 1, torn) \in Seq(S)
  BY <1>3, SubSeqProperties
<1>5. SubSeq(file, k, Len(file)) \in Seq(S)
  BY LenProperties, ElementOfSeq, SubSeqProperties
<1> QED
  BY <1>4, <1>5, ConcatProperties DEF Remainder, g

\* The copy of the legacy log leaves the file, or puts whole lines before what
\* is left of others.
LEMMA OverlayForms ==
  ASSUME NEW n, Overlay(n)
  PROVE  \/ UNCHANGED file
         \/ file' = SubSeq(legacy, 1, n)
         \/ \E torn \in 0..1, k \in 2..Len(file) + 1 :
              file' = SubSeq(legacy, 1, n) \o Remainder(torn, k)
<1>1. CASE n <= Len(file) /\ SubSeq(file, 1, n) = SubSeq(legacy, 1, n)
  BY <1>1 DEF Overlay
<1>2. CASE ~(n <= Len(file) /\ SubSeq(file, 1, n) = SubSeq(legacy, 1, n))
  BY <1>2 DEF Overlay
<1> QED
  BY <1>1, <1>2

LEMMA OverlayCutForms ==
  ASSUME NEW n, OverlayCut(n)
  PROVE  \/ UNCHANGED file
         \/ \E all \in BOOLEAN :
              file' = Append(SubSeq(legacy, 1, n),
                             [legacy[n + 1] EXCEPT !.whole = @ /\ all, !.ended = FALSE])
         \/ \E k \in 2..Len(file) + 1 : file' = SubSeq(legacy, 1, n) \o Remainder(1, k)
<1>1. CASE n < Len(file) /\ SubSeq(file, 1, n + 1) = SubSeq(legacy, 1, n + 1)
  BY <1>1 DEF OverlayCut
<1>2. CASE ~(n < Len(file) /\ SubSeq(file, 1, n + 1) = SubSeq(legacy, 1, n + 1))
  BY <1>2 DEF OverlayCut
<1> QED
  BY <1>1, <1>2

LEMMA LinesIn ==
  ASSUME NEW S, legacy \in Seq(S), NEW n \in 0..Len(legacy)
  PROVE  SubSeq(legacy, 1, n) \in Seq(S)
  BY ElementOfSeq, LenProperties, SubSeqProperties

LEMMA OverlayIn ==
  ASSUME NEW S, Closed(S), legacy \in Seq(S), file \in Seq(S),
         NEW n \in 0..Len(legacy), Overlay(n)
  PROVE  file' \in Seq(S)
<1>1. SubSeq(legacy, 1, n) \in Seq(S)
  BY LinesIn
<1>2. ASSUME NEW torn \in 0..1, NEW k \in 2..Len(file) + 1
      PROVE  SubSeq(legacy, 1, n) \o Remainder(torn, k) \in Seq(S)
  BY <1>1, RemainderIn, ConcatProperties
<1> QED
  BY <1>1, <1>2, OverlayForms

\* What a copy that is cut leaves.
LEMMA CopyCutIn ==
  ASSUME NEW S, Closed(S), legacy \in Seq(S), file \in Seq(S), NEW s \in Sessions, CopyCut(s)
  PROVE  file' \in Seq(S)
<1>1. ASSUME NEW n \in 0..Len(legacy) - 1, OverlayCut(n)
      PROVE  file' \in Seq(S)
  <2> DEFINE l == legacy[n + 1]
             lines == SubSeq(legacy, 1, n)
  <2>1. lines \in Seq(S) /\ l \in S
    BY LinesIn, LenProperties, ElementOfSeq
  <2>2. ASSUME NEW all \in BOOLEAN,
               file' = Append(lines, [l EXCEPT !.whole = @ /\ all, !.ended = FALSE])
        PROVE  file' \in Seq(S)
    <3>1. [l EXCEPT !.whole = @ /\ all, !.ended = FALSE] \in S
      BY <2>1 DEF Closed
    <3> QED
      BY <2>1, <2>2, <3>1, AppendProperties
  <2>3. ASSUME NEW k \in 2..Len(file) + 1, file' = lines \o Remainder(1, k)
        PROVE  file' \in Seq(S)
    BY <2>1, <2>3, RemainderIn, ConcatProperties
  <2> QED
    BY <1>1, <2>2, <2>3, OverlayCutForms
<1> QED
  BY <1>1, OverlayIn DEF CopyCut

LEMMA AppendedTypes ==
  ASSUME NEW line \in Line, file \in Seq(Line)
  PROVE  Appended(line) \in Seq(Line) /\ Appended(line) # <<>>
  BY LinesAreClosed, AppendedIn

LEMMA TypeInit == Init => TypeOK
<1> SUFFICES ASSUME Init PROVE TypeOK
  OBVIOUS
<1>1. legacy \in Seq(Line)
  BY EvidenceLogAssumption DEF Init
<1>2. serial \in Nat
  BY <1>1, LenProperties DEF Init, FirstSerial
<1>3. file \in Seq(Line) /\ file = <<>> /\ exists \in BOOLEAN
  BY EmptySeq DEF Init
<1>4. /\ phase \in [Sessions -> Phases]
      /\ last \in [Sessions -> Nat]
      /\ acked \subseteq Line
      /\ disturbed \subseteq Disturbances
  BY DEF Init, Phases, Disturbances, NoHash
<1> QED
  BY <1>1, <1>2, <1>3, <1>4 DEF TypeOK

LEMMA GotoTypes ==
  ASSUME TypeOK, NEW s \in Sessions, NEW ph \in Phases, NEW interference \in SUBSET Disturbances,
         Goto(s, ph, interference)
  PROVE  phase' \in [Sessions -> Phases] /\ disturbed' \subseteq Disturbances
  BY DEF TypeOK, Goto, Disturbances

LEMMA RecordIsALine ==
  ASSUME TypeOK, NEW s \in Sessions, NEW w \in BOOLEAN
  PROVE  /\ NextRecord(s) \in Line
         /\ [NextRecord(s) EXCEPT !.whole = w, !.ended = FALSE] \in Line
<1>1. NextRecord(s) \in Line
  BY DEF TypeOK, NextRecord, Line
<1> QED
  BY <1>1, LineUpdates

LEMMA HashesAreNumbers ==
  ASSUME TypeOK
  PROVE  TailHash(file) \in Nat
<1>1. CASE file = <<>>
  BY <1>1 DEF TailHash, NoHash
<1>2. CASE file # <<>>
  <2>1. Len(file) \in 1..Len(file)
    BY <1>2, EmptySeq DEF TypeOK
  <2>2. file[Len(file)] \in Line
    BY <2>1, ElementOfSeq DEF TypeOK
  <2> QED
    BY <1>2, <2>2 DEF TailHash, Line
<1> QED
  BY <1>1, <1>2

-----------------------------------------------------------------------------
\* Whoever truncated or opened the log knows that it is there.
TypeInv ==
  /\ TypeOK
  /\ legacy \in LegacyLogs
  /\ \A s \in Sessions : phase[s] \in {"truncated", "open"} => exists

LEMMA TypeInvInit == Init => TypeInv
  BY TypeInit DEF Init, TypeInv

LEMMA GotoKeepsTypes ==
  ASSUME TypeInv, NEW s \in Sessions, NEW ph \in Phases, NEW interference \in SUBSET Disturbances,
         Goto(s, ph, interference), legacy' = legacy,
         exists => exists',
         ph \in {"truncated", "open"} => exists',
         exists' \in BOOLEAN, file' \in Seq(Line), file' # <<>> => exists',
         last' \in [Sessions -> Nat], serial' \in Nat, acked' \subseteq Line
  PROVE  TypeInv'
<1>1. phase' \in [Sessions -> Phases] /\ disturbed' \subseteq Disturbances
  BY GotoTypes DEF TypeInv
<1>2. \A t \in Sessions : phase'[t] = IF t = s THEN ph ELSE phase[t]
  BY DEF TypeInv, TypeOK, Goto
<1> QED
  BY <1>1, <1>2 DEF TypeInv, TypeOK

LEMMA TypeInvNext == TypeInv /\ [Next]_vars => TypeInv'
<1> SUFFICES ASSUME TypeInv, [Next]_vars PROVE TypeInv'
  OBVIOUS
<1> USE DEF Phases, Disturbances
<1>1. ASSUME NEW s \in Sessions, Resolve(s) PROVE TypeInv'
  BY <1>1, GotoKeepsTypes DEF Resolve, TypeInv, TypeOK
<1>2. ASSUME NEW s \in Sessions, CopyTruncate(s) PROVE TypeInv'
  BY <1>2, GotoKeepsTypes, EmptySeq DEF CopyTruncate, TypeInv, TypeOK
<1>3. ASSUME NEW s \in Sessions, CopyWrite(s) PROVE TypeInv'
  <2>1. file' \in Seq(Line)
    BY <1>3, LinesAreClosed, OverlayIn, LenProperties DEF CopyWrite, TypeInv, TypeOK
  <2>2. exists
    BY <1>3 DEF CopyWrite, TypeInv
  <2> QED
    BY <1>3, <2>1, <2>2, GotoKeepsTypes DEF CopyWrite, TypeInv, TypeOK
<1>4. ASSUME NEW s \in Sessions, CopyCut(s) PROVE TypeInv'
  <2>1. file' \in Seq(Line)
    BY <1>4, LinesAreClosed, CopyCutIn DEF TypeInv, TypeOK
  <2>2. exists
    BY <1>4 DEF CopyCut, TypeInv
  <2> QED
    BY <1>4, <2>1, <2>2, GotoKeepsTypes DEF CopyCut, TypeInv, TypeOK
<1>5. ASSUME NEW s \in Sessions, ReadTail(s) PROVE TypeInv'
  <2>1. last' \in [Sessions -> Nat]
    BY <1>5, HashesAreNumbers DEF ReadTail, TypeInv, TypeOK
  <2> QED
    BY <1>5, <2>1, GotoKeepsTypes DEF ReadTail, TypeInv, TypeOK
<1>6. ASSUME NEW s \in Sessions, RefuseTail(s) PROVE TypeInv'
  BY <1>6, GotoKeepsTypes DEF RefuseTail, TypeInv, TypeOK
<1>7. ASSUME NEW s \in Sessions, Open(s) PROVE TypeInv'
  BY <1>7, GotoKeepsTypes DEF Open, TypeInv, TypeOK
<1>8. ASSUME NEW s \in Sessions, Write(s) PROVE TypeInv'
  <2>1. exists
    BY <1>8 DEF Write, MayWrite, TypeInv
  <2>2. NextRecord(s) \in Line
    BY RecordIsALine DEF TypeInv
  <2>3. file' \in Seq(Line)
    BY <1>8, <2>2, AppendedTypes DEF Write, TypeInv, TypeOK
  <2>4. last' \in [Sessions -> Nat] /\ serial' \in Nat /\ acked' \subseteq Line
    BY <1>8, <2>2 DEF Write, TypeInv, TypeOK
  <2> QED
    BY <1>8, <2>1, <2>3, <2>4, GotoKeepsTypes DEF Write, TypeInv
<1>9. ASSUME NEW s \in Sessions, ShortWrite(s) PROVE TypeInv'
  <2>1. exists
    BY <1>9 DEF ShortWrite, MayWrite, TypeInv
  <2>2. file' \in Seq(Line)
    <3>1. CASE file' = file
      BY <3>1 DEF TypeInv, TypeOK
    <3>2. ASSUME NEW w \in BOOLEAN,
                 file' = Appended([NextRecord(s) EXCEPT !.whole = w, !.ended = FALSE])
          PROVE  file' \in Seq(Line)
      BY <3>2, RecordIsALine, AppendedTypes DEF TypeInv, TypeOK
    <3> QED
      BY <1>9, <3>1, <3>2 DEF ShortWrite
  <2>3. /\ Goto(s, "open", {"short_write"}) /\ serial' = serial + 1
        /\ UNCHANGED <<legacy, exists, last, acked>>
    BY <1>9 DEF ShortWrite
  <2>4. serial' \in Nat /\ last' \in [Sessions -> Nat] /\ acked' \subseteq Line
    BY <2>3 DEF TypeInv, TypeOK
  <2> QED
    BY <2>1, <2>2, <2>3, <2>4, GotoKeepsTypes
<1>10. ASSUME NEW s \in Sessions, End(s) PROVE TypeInv'
  BY <1>10, GotoKeepsTypes DEF End, TypeInv, TypeOK
<1>11. CASE UNCHANGED vars
  BY <1>11 DEF vars, TypeInv, TypeOK
<1> QED
  BY <1>1, <1>2, <1>3, <1>4, <1>5, <1>6, <1>7, <1>8, <1>9, <1>10, <1>11 DEF Next

\* Every line of the log is a record of a session or of the legacy log, whole
\* or a remainder of one, and whoever has the log open finds it there.
THEOREM TypesHold == Spec => []TypeOK
<1>1. TypeInv => TypeOK
  BY DEF TypeInv
<1> QED
  BY TypeInvInit, TypeInvNext, <1>1, PTL DEF Spec

-----------------------------------------------------------------------------
\* What may lose an acknowledged record: a write or a copy that is cut short,
\* or a copy over a log others have begun.
Undisturbed == disturbed \cap {"short_write", "cut_copy", "clobber"} = {}

\* Until then every line is finished, so that each append adds a line.
KeepInv ==
  Undisturbed => /\ \A i \in 1..Len(file) : file[i].ended
                 /\ \A line \in acked : InFile(line)

LEMMA KeepInit == Init => KeepInv
  BY DEF Init, KeepInv, InFile

\* What disturbed the log once remains.
LEMMA GotoKeepsDisturbances ==
  ASSUME NEW s, NEW ph, NEW interference, Goto(s, ph, interference)
  PROVE  disturbed \cup interference \subseteq disturbed'
  BY DEF Goto

\* Where there is nothing yet, the copy is the legacy log.
LEMMA CopyOntoNothing ==
  ASSUME legacy \in Seq(Line), file = <<>>, Overlay(Len(legacy))
  PROVE  file' = legacy
<1>1. SubSeq(legacy, 1, Len(legacy)) = legacy /\ Len(legacy) \in Nat
  BY SubSeqFull, LenProperties
<1>2. CASE legacy = <<>>
  BY <1>1, <1>2 DEF Overlay
<1>3. CASE legacy # <<>>
  BY <1>1, <1>3, EmptySeq DEF Overlay
<1> QED
  BY <1>2, <1>3

LEMMA KeepNext == TypeInv /\ KeepInv /\ [Next]_vars => KeepInv'
<1> SUFFICES ASSUME TypeInv, KeepInv, [Next]_vars, Undisturbed' PROVE KeepInv'
  BY DEF KeepInv
<1>1. ASSUME disturbed \subseteq disturbed', UNCHANGED <<file, acked>> PROVE KeepInv'
  BY <1>1 DEF KeepInv, Undisturbed, InFile
<1>2. ASSUME NEW s \in Sessions, Resolve(s) PROVE KeepInv'
  BY <1>1, <1>2, GotoKeepsDisturbances DEF Resolve
<1>3. ASSUME NEW s \in Sessions, CopyTruncate(s) PROVE KeepInv'
  <2>1. Undisturbed /\ file = <<>>
    BY <1>3, GotoKeepsDisturbances DEF CopyTruncate, Undisturbed
  <2>2. file' = file /\ acked' = acked
    BY <1>3, <2>1 DEF CopyTruncate
  <2> QED
    BY <1>3, <1>1, <2>2, GotoKeepsDisturbances DEF CopyTruncate
<1>4. ASSUME NEW s \in Sessions, CopyWrite(s) PROVE KeepInv'
  <2>1. Undisturbed /\ file = <<>>
    BY <1>4, GotoKeepsDisturbances DEF CopyWrite, Undisturbed
  <2>2. acked = {} /\ acked' = {}
    BY <1>4, <2>1 DEF CopyWrite, KeepInv, InFile
  <2>3. file' = legacy
    BY <1>4, <2>1, CopyOntoNothing DEF CopyWrite, TypeInv, TypeOK
  <2>4. \A i \in 1..Len(file') : file'[i].ended
    BY <2>3, EvidenceLogAssumption DEF TypeInv
  <2> QED
    BY <2>2, <2>4 DEF KeepInv
<1>5. ASSUME NEW s \in Sessions, CopyCut(s) PROVE KeepInv'
  BY <1>5, GotoKeepsDisturbances DEF CopyCut, Undisturbed
<1>6. ASSUME NEW s \in Sessions, ReadTail(s) \/ RefuseTail(s) \/ Open(s) \/ End(s)
      PROVE  KeepInv'
  BY <1>1, <1>6, GotoKeepsDisturbances DEF ReadTail, RefuseTail, Open, End
<1>7. ASSUME NEW s \in Sessions, Write(s) PROVE KeepInv'
  <2> DEFINE line == NextRecord(s)
  <2>1. file \in Seq(Line) /\ line \in Line /\ line.ended
    BY RecordIsALine DEF TypeInv, TypeOK, NextRecord
  <2>2. Undisturbed
    BY <1>7, GotoKeepsDisturbances DEF Write, Undisturbed
  <2>3. file' = Append(file, line) /\ acked' = acked \cup {line}
    <3>1. file # <<>> => file[Len(file)].ended
      BY <2>1, <2>2, EmptySeq DEF KeepInv
    <3> QED
      BY <1>7, <3>1 DEF Write, Appended
  <2> HIDE DEF line
  <2>4. /\ Len(file') = Len(file) + 1
        /\ \A i \in 1..Len(file) : file'[i] = file[i]
        /\ file'[Len(file) + 1] = line
    BY <2>1, <2>3
  <2>5. \A i \in 1..Len(file') : file'[i].ended
    BY <2>1, <2>2, <2>4, LenProperties DEF KeepInv
  <2>6. \A l \in acked' : InFile(l)'
    <3>1. Len(file) \in Nat
      BY <2>1, LenProperties
    <3>2. ASSUME NEW l \in acked PROVE InFile(l)'
      <4>1. PICK i \in 1..Len(file) : file[i] = l
        BY <2>2 DEF KeepInv, InFile
      <4>2. i \in 1..Len(file') /\ file'[i] = l
        BY <2>4, <3>1, <4>1
      <4> QED
        BY <4>2 DEF InFile
    <3>3. \A l : l = line => InFile(l)'
      BY <2>4, <3>1 DEF InFile
    <3> QED
      BY <2>3, <3>2, <3>3
  <2> QED
    BY <2>5, <2>6 DEF KeepInv
<1>8. ASSUME NEW s \in Sessions, ShortWrite(s) PROVE KeepInv'
  BY <1>8, GotoKeepsDisturbances DEF ShortWrite, Undisturbed
<1>9. CASE UNCHANGED vars
  BY <1>1, <1>9 DEF vars
<1> QED
  BY <1>2, <1>3, <1>4, <1>5, <1>6, <1>7, <1>8, <1>9 DEF Next

\* A record whose Write returned without an error stays in the log, however
\* many sessions overlap, as long as no write and no copy of the legacy log is
\* cut short and no copy comes late.
THEOREM AcknowledgedRecordsStay == Spec => []AcknowledgedStay
<1>1. KeepInv => AcknowledgedStay
  BY DEF KeepInv, Undisturbed, AcknowledgedStay
<1> QED
  BY TypeInvInit, TypeInvNext, KeepInit, KeepNext, <1>1, PTL DEF Spec

-----------------------------------------------------------------------------
\* Lines i and j are records of one session, j the next one after i, and the
\* log can be read from the one to the other.
Segment(i, j) ==
  /\ i < j
  /\ file[i].by = file[j].by
  /\ file[i].by # Legacy
  /\ \A k \in (i + 1)..(j - 1) : file[k].by # file[i].by
  /\ \A k \in i..j : file[k].whole

\* Line i is the newest record of a session, and the next append is a line of
\* its own.
Newest(i) ==
  /\ file[i].by # Legacy
  /\ file[Len(file)].ended
  /\ \A k \in (i + 1)..Len(file) : file[k].by # file[i].by
  /\ \A k \in i..Len(file) : file[k].whole

\* What a session remembers is the hash of its newest record.
ChainInv ==
  /\ \A i \in 1..Len(file) : file[i].by # Legacy => phase[file[i].by] \in {"open", "ended"}
  /\ \A i, j \in 1..Len(file) : Segment(i, j) => file[j].prev = file[i].hash
  /\ \A i \in 1..Len(file) :
       Newest(i) /\ phase[file[i].by] = "open" => last[file[i].by] = file[i].hash

LEMMA ChainInit == Init => ChainInv
  BY DEF Init, ChainInv

\* Steps that write no record leave lines of the legacy log, remains and a
\* (possibly empty) end of the file.
LEMMA ChainSuffix ==
  ASSUME ChainInv, file \in Seq(Line), file' \in Seq(Line),
         NEW n \in Nat, NEW d \in Int,
         \A m \in 1..Len(file') : m <= n => file'[m].by = Legacy,
         \A m \in 1..Len(file') : m > n => m + d \in 1..Len(file) /\ file'[m] = file[m + d],
         Len(file') <= n \/ Len(file') + d = Len(file),
         \A t \in Sessions :
           /\ phase[t] \in {"open", "ended"} => phase'[t] \in {"open", "ended"}
           /\ phase'[t] = "open" => phase[t] \in {"open", "tailed"}
           /\ phase[t] = "open" => last'[t] = last[t]
  PROVE  ChainInv'
<1>1. Len(file) \in Nat /\ Len(file') \in Nat
  BY LenProperties
<1>2. ASSUME NEW m \in 1..Len(file'), file'[m].by # Legacy
      PROVE  /\ m > n /\ m + d \in 1..Len(file) /\ file'[m] = file[m + d]
             /\ Len(file') + d = Len(file)
             /\ file'[m].by \in Sessions
  <2>1. m > n
    BY <1>2
  <2>2. file'[m] \in Line
    BY ElementOfSeq
  <2>3. file'[m].by \in Sessions
    BY <1>2, <2>2 DEF Line
  <2> QED
    BY <1>2, <2>1, <2>3
<1>3. \A i \in 1..Len(file') :
         file'[i].by # Legacy => phase'[file'[i].by] \in {"open", "ended"}
  BY <1>2 DEF ChainInv
<1>4. ASSUME NEW i \in 1..Len(file'), NEW j \in 1..Len(file'), Segment(i, j)'
      PROVE  file'[j].prev = file'[i].hash
  <2>1. /\ i < j /\ file'[i].by # Legacy /\ file'[j].by # Legacy
        /\ file'[i].by = file'[j].by
        /\ \A k \in (i + 1)..(j - 1) : file'[k].by # file'[i].by
        /\ \A k \in i..j : file'[k].whole
    BY <1>4 DEF Segment
  <2>2. /\ i > n /\ i + d \in 1..Len(file) /\ file'[i] = file[i + d]
        /\ j + d \in 1..Len(file) /\ file'[j] = file[j + d]
    BY <1>2, <2>1
  <2>3. ASSUME NEW k \in (i + d)..(j + d)
        PROVE  k - d \in i..j /\ file[k] = file'[k - d]
    <3> DEFINE m == k - d
    <3>1. m \in i..j /\ m + d = k /\ m \in 1..Len(file') /\ m > n
      BY <1>1, <2>2
    <3> HIDE DEF m
    <3>2. file'[m] = file[k]
      BY <3>1
    <3> QED
      BY <3>1, <3>2 DEF m
  <2>4. \A k \in (i + d + 1)..(j + d - 1) : file[k].by # file[i + d].by
    <3>1. \A k \in (i + d + 1)..(j + d - 1) :
            k \in (i + d)..(j + d) /\ k - d \in (i + 1)..(j - 1)
      BY <1>1
    <3>2. ASSUME NEW k \in (i + d + 1)..(j + d - 1) PROVE file[k].by # file[i + d].by
      <4>1. k - d \in (i + 1)..(j - 1) /\ file[k] = file'[k - d]
        BY <2>3, <3>1
      <4>2. file'[k - d].by # file'[i].by
        BY <2>1, <4>1
      <4> QED
        BY <2>2, <4>1, <4>2
    <3> QED
      BY <3>2
  <2>5. \A k \in (i + d)..(j + d) : file[k].whole
    BY <2>1, <2>3
  <2>6. Segment(i + d, j + d)
    BY <2>1, <2>2, <2>4, <2>5 DEF Segment
  <2> QED
    BY <2>2, <2>6 DEF ChainInv
<1>5. ASSUME NEW i \in 1..Len(file'), Newest(i)', phase'[file'[i].by] = "open"
      PROVE  last'[file'[i].by] = file'[i].hash
  <2>1. /\ file'[i].by # Legacy /\ file'[Len(file')].ended
        /\ \A k \in (i + 1)..Len(file') : file'[k].by # file'[i].by
        /\ \A k \in i..Len(file') : file'[k].whole
    BY <1>5 DEF Newest
  <2>2. /\ i > n /\ i + d \in 1..Len(file) /\ file'[i] = file[i + d]
        /\ Len(file') + d = Len(file) /\ file'[i].by \in Sessions
    BY <1>2, <2>1
  <2>3. ASSUME NEW k \in (i + d)..Len(file)
        PROVE  k - d \in i..Len(file') /\ file[k] = file'[k - d]
    <3> DEFINE m == k - d
    <3>1. m \in i..Len(file') /\ m + d = k /\ m \in 1..Len(file') /\ m > n
      BY <1>1, <2>2
    <3> HIDE DEF m
    <3>2. file'[m] = file[k]
      BY <3>1
    <3> QED
      BY <3>1, <3>2 DEF m
  <2>4. Newest(i + d)
    <3>1. ASSUME NEW k \in (i + d + 1)..Len(file) PROVE file[k].by # file[i + d].by
      <4>1. k \in (i + d)..Len(file) /\ k - d \in (i + 1)..Len(file')
        BY <1>1, <2>2
      <4>2. file[k] = file'[k - d] /\ file'[k - d].by # file'[i].by
        BY <2>1, <2>3, <4>1
      <4> QED
        BY <2>2, <4>2
    <3>2. \A k \in (i + d)..Len(file) : file[k].whole
      BY <2>1, <2>3
    <3>3. file[Len(file)] = file'[Len(file')]
      <4>1. Len(file) \in (i + d)..Len(file) /\ Len(file) - d = Len(file')
        BY <1>1, <2>2
      <4> QED
        BY <2>3, <4>1
    <3> QED
      BY <2>1, <2>2, <3>1, <3>2, <3>3 DEF Newest
  <2>5. phase[file[i + d].by] = "open"
    BY <1>5, <2>1, <2>2 DEF ChainInv
  <2> QED
    BY <2>2, <2>4, <2>5 DEF ChainInv
<1> QED
  BY <1>3, <1>4, <1>5 DEF ChainInv

\* A record appended to an unfinished line makes that line unreadable.
LEMMA ChainMerge ==
  ASSUME ChainInv, file \in Seq(Line), file' \in Seq(Line), phase' = phase,
         Len(file') = Len(file),
         file # <<>>,
         ~file'[Len(file)].whole, file'[Len(file)].by = Legacy,
         \A m \in 1..Len(file) - 1 : file'[m] = file[m]
  PROVE  ChainInv'
<1>1. Len(file) \in 1..Len(file)
  BY EmptySeq
<1>2. ASSUME NEW m \in 1..Len(file'), file'[m].by # Legacy
      PROVE  phase'[file'[m].by] \in {"open", "ended"}
  <2>1. m \in 1..Len(file) - 1 /\ m \in 1..Len(file)
    BY <1>1, <1>2
  <2> QED
    BY <1>2, <2>1 DEF ChainInv
<1>3. ASSUME NEW i \in 1..Len(file'), NEW j \in 1..Len(file'), Segment(i, j)'
      PROVE  file'[j].prev = file'[i].hash
  <2>1. /\ i < j /\ file'[i].by = file'[j].by /\ file'[i].by # Legacy
        /\ \A k \in (i + 1)..(j - 1) : file'[k].by # file'[i].by
        /\ \A k \in i..j : file'[k].whole
    BY <1>3 DEF Segment
  <2>2. j # Len(file) /\ j \in i..j
    BY <1>1, <2>1
  <2>3. \A k \in i..j : k \in 1..Len(file) - 1 /\ file'[k] = file[k]
    BY <1>1, <2>1, <2>2
  <2>4. i \in i..j /\ j \in i..j /\ \A k \in (i + 1)..(j - 1) : k \in i..j
    BY <2>1
  <2>5. Segment(i, j)
    BY <2>1, <2>3, <2>4 DEF Segment
  <2> QED
    BY <1>1, <2>1, <2>3, <2>4, <2>5 DEF ChainInv
<1>4. ASSUME NEW i \in 1..Len(file') PROVE ~Newest(i)'
  <2>1. Len(file') \in i..Len(file')
    BY <1>1
  <2> QED
    BY <2>1 DEF Newest
<1> QED
  BY <1>2, <1>3, <1>4 DEF ChainInv

\* A record appended as a line of its own chains from the one before it.
LEMMA ChainAppend ==
  ASSUME ChainInv, file \in Seq(Line), phase' = phase,
         NEW s \in Sessions, phase[s] = "open",
         NEW line \in Line, line.by = s, line.prev = last[s],
         file' = Append(file, line),
         file = <<>> \/ file[Len(file)].ended,
         line.ended => last'[s] = line.hash,
         \A t \in Sessions \ {s} : last'[t] = last[t]
  PROVE  ChainInv'
<1> DEFINE n == Len(file)
<1>1. /\ n \in Nat /\ Len(file') = n + 1
      /\ \A m \in 1..n : file'[m] = file[m]
      /\ file'[n + 1] = line
  BY LenProperties
<1>2. s # Legacy
  BY EvidenceLogAssumption
<1>3. \A i \in 1..Len(file') : file'[i].by # Legacy => phase'[file'[i].by] \in {"open", "ended"}
  BY <1>1 DEF ChainInv
<1>4. ASSUME NEW i \in 1..Len(file'), NEW j \in 1..Len(file'), Segment(i, j)'
      PROVE  file'[j].prev = file'[i].hash
  <2>1. /\ i < j /\ file'[i].by = file'[j].by /\ file'[i].by # Legacy
        /\ \A k \in (i + 1)..(j - 1) : file'[k].by # file'[i].by
        /\ \A k \in i..j : file'[k].whole
    BY <1>4 DEF Segment
  <2>2. i \in 1..n /\ file'[i] = file[i]
    BY <1>1, <2>1
  <2>3. CASE j \in 1..n
    <3>1. \A k \in i..j : k \in 1..n /\ file'[k] = file[k]
      BY <1>1, <2>2, <2>3
    <3>2. Segment(i, j)
      BY <2>1, <2>2, <2>3, <3>1 DEF Segment
    <3> QED
      BY <1>1, <2>2, <2>3, <3>2 DEF ChainInv
  <2>4. CASE j = n + 1
    <3>1. \A k \in i..n : k \in 1..n /\ k \in i..j /\ file'[k] = file[k]
      BY <1>1, <2>2, <2>4
    <3>2. \A k \in (i + 1)..n : k \in (i + 1)..(j - 1) /\ k \in i..n
      BY <1>1, <2>2, <2>4
    <3>3. file # <<>>
      BY <2>2, EmptySeq
    <3>4. Newest(i) /\ file[i].by = s
      BY <1>1, <2>1, <2>2, <2>4, <3>1, <3>2, <3>3 DEF Newest
    <3> QED
      BY <1>1, <2>2, <2>4, <3>4 DEF ChainInv
  <2> QED
    BY <1>1, <2>3, <2>4
<1>5. ASSUME NEW i \in 1..Len(file'), Newest(i)', phase'[file'[i].by] = "open"
      PROVE  last'[file'[i].by] = file'[i].hash
  <2>1. /\ file'[i].by # Legacy /\ file'[n + 1].ended
        /\ \A k \in (i + 1)..(n + 1) : file'[k].by # file'[i].by
        /\ \A k \in i..(n + 1) : file'[k].whole
    BY <1>1, <1>5 DEF Newest
  <2>2. CASE i = n + 1
    BY <1>1, <2>1, <2>2
  <2>3. CASE i \in 1..n
    <3>1. /\ file'[i] = file[i] /\ file[i] \in Line
          /\ \A k \in i..n : k \in 1..n /\ k \in i..(n + 1) /\ file'[k] = file[k]
          /\ \A k \in (i + 1)..n : k \in (i + 1)..(n + 1) /\ k \in i..n
          /\ n + 1 \in (i + 1)..(n + 1)
      BY <1>1, <2>3, ElementOfSeq
    <3>2. file[i].by \in Sessions \ {s}
      <4>1. file[i].by \in Sessions \cup {Legacy}
        BY <3>1 DEF Line
      <4>2. file[i].by # Legacy
        BY <2>1, <3>1
      <4>3. file'[n + 1].by # file'[i].by
        BY <2>1, <3>1
      <4>4. file[i].by # s
        BY <1>1, <3>1, <4>3
      <4> QED
        BY <4>1, <4>2, <4>4
    <3>3. file # <<>>
      BY <2>3, EmptySeq
    <3>4. Newest(i)
      BY <1>1, <2>1, <2>3, <3>1, <3>3 DEF Newest
    <3> QED
      BY <1>5, <2>3, <3>1, <3>2, <3>4 DEF ChainInv
  <2> QED
    BY <1>1, <2>2, <2>3
<1> QED
  BY <1>3, <1>4, <1>5 DEF ChainInv

\* What a step that writes no record does to the sessions: none opens the log
\* that had not read its tail, and none that has it open forgets its hash.
Quiet ==
  \A t \in Sessions :
    /\ phase[t] \in {"open", "ended"} => phase'[t] \in {"open", "ended"}
    /\ phase'[t] = "open" => phase[t] \in {"open", "tailed"}
    /\ phase[t] = "open" => last'[t] = last[t]

LEMMA GotoIsQuiet ==
  ASSUME TypeInv, NEW s \in Sessions, NEW ph, NEW interference, Goto(s, ph, interference),
         phase[s] \in {"open", "ended"} => ph \in {"open", "ended"},
         ph = "open" => phase[s] \in {"open", "tailed"},
         last' = last \/ (phase[s] # "open" /\ \E h : last' = [last EXCEPT ![s] = h])
  PROVE  Quiet
<1>1. \A t \in Sessions : phase'[t] = IF t = s THEN ph ELSE phase[t]
  BY DEF TypeInv, TypeOK, Goto
<1>2. \A t \in Sessions : phase[t] = "open" => last'[t] = last[t]
  BY DEF TypeInv, TypeOK
<1> QED
  BY <1>1, <1>2 DEF Quiet

LEMMA ChainSame ==
  ASSUME ChainInv, file \in Seq(Line), file' = file, Quiet
  PROVE  ChainInv'
<1> DEFINE z == 0
<1>1. /\ z \in Nat /\ z \in Int
      /\ \A m \in 1..Len(file') : ~(m <= z) /\ m + z \in 1..Len(file) /\ file'[m] = file[m + z]
      /\ Len(file') + z = Len(file)
  BY LenProperties
<1> HIDE DEF z
<1> QED
  BY <1>1, ChainSuffix DEF Quiet

LEMMA ChainFresh ==
  ASSUME ChainInv, file \in Seq(Line), file' \in Seq(Line), Quiet,
         \A m \in 1..Len(file') : file'[m].by = Legacy
  PROVE  ChainInv'
<1> DEFINE n == Len(file')
<1>1. n \in Nat
  BY LenProperties
<1>2. \A m \in 1..Len(file') : ~(m > n)
  BY <1>1
<1>3. Len(file') <= n
  BY <1>1
<1> HIDE DEF n
<1> QED
  BY <1>1, <1>2, <1>3, ChainSuffix DEF Quiet

\* Legacy lines before what is left of others.
LEMMA ChainRemainder ==
  ASSUME ChainInv, file \in Seq(Line), Quiet,
         NEW lines \in Seq(Line), \A m \in 1..Len(lines) : lines[m].by = Legacy,
         NEW torn \in 0..1, NEW k \in 2..Len(file) + 1, file' = lines \o Remainder(torn, k)
  PROVE  ChainInv'
<1> DEFINE g == [Garbage EXCEPT !.ended = file[k - 1].ended]
           head == SubSeq(<<g>>, 1, torn)
           tail == SubSeq(file, k, Len(file))
           n == Len(lines) + torn
           d == k - 1 - n
<1>1. g \in Line /\ g.by = Legacy
  <2>1. file[k - 1] \in Line
    BY LenProperties, ElementOfSeq
  <2>2. file[k - 1].ended \in BOOLEAN
    BY <2>1 DEF Line
  <2> QED
    BY <2>2, GarbageIsALine, LineUpdates DEF Garbage
<1>2. Remainder(torn, k) = head \o tail
  BY DEF Remainder
<1> HIDE DEF g
<1>3. head \in Seq(Line) /\ Len(head) = torn /\ \A m \in 1..torn : head[m] = g
  BY <1>1, SubSeqProperties
<1>4. /\ tail \in Seq(Line) /\ Len(tail) = Len(file) + 1 - k
      /\ \A m \in 1..Len(tail) : tail[m] = file[k + m - 1]
  <2>1. Len(file) \in Nat /\ \A m \in k..Len(file) : file[m] \in Line
    BY LenProperties, ElementOfSeq
  <2> QED
    BY <2>1, SubSeqProperties
<1> HIDE DEF head, tail
<1>5. /\ head \o tail \in Seq(Line) /\ Len(head \o tail) = torn + Len(tail)
      /\ \A m \in 1..torn + Len(tail) :
           (head \o tail)[m] = IF m <= torn THEN g ELSE tail[m - torn]
  <2>1. /\ head \o tail \in Seq(Line) /\ Len(head \o tail) = Len(head) + Len(tail)
        /\ \A m \in 1..Len(head) + Len(tail) :
             (head \o tail)[m] = IF m <= Len(head) THEN head[m] ELSE tail[m - Len(head)]
    BY <1>3, <1>4, ConcatProperties
  <2> QED
    BY <1>3, <2>1
<1>6. /\ file' \in Seq(Line) /\ Len(file') = Len(lines) + torn + Len(tail)
      /\ \A m \in 1..Len(file') :
           file'[m] = IF m <= Len(lines) THEN lines[m]
                      ELSE IF m <= Len(lines) + torn THEN g
                      ELSE tail[m - Len(lines) - torn]
  <2> DEFINE rest == head \o tail
  <2>1. file' = lines \o rest
    BY <1>2
  <2>2. /\ rest \in Seq(Line) /\ Len(rest) = torn + Len(tail)
        /\ \A m \in 1..torn + Len(tail) : rest[m] = IF m <= torn THEN g ELSE tail[m - torn]
    BY <1>5
  <2> HIDE DEF rest
  <2>3. /\ lines \o rest \in Seq(Line) /\ Len(lines \o rest) = Len(lines) + Len(rest)
        /\ \A m \in 1..Len(lines) + Len(rest) :
             (lines \o rest)[m] = IF m <= Len(lines) THEN lines[m] ELSE rest[m - Len(lines)]
    BY <2>2, ConcatProperties
  <2>4. Len(lines) \in Nat /\ Len(tail) \in Nat
    BY <1>4, LenProperties
  <2>5. ASSUME NEW m \in 1..Len(lines) + torn + Len(tail)
        PROVE  file'[m] = IF m <= Len(lines) THEN lines[m]
                          ELSE IF m <= Len(lines) + torn THEN g
                          ELSE tail[m - Len(lines) - torn]
    <3>1. m \in 1..Len(lines) + Len(rest)
      BY <2>2, <2>4
    <3>2. file'[m] = IF m <= Len(lines) THEN lines[m] ELSE rest[m - Len(lines)]
      BY <2>1, <2>3, <3>1
    <3>3. m > Len(lines) => /\ m - Len(lines) \in 1..torn + Len(tail)
                            /\ m - Len(lines) <= torn <=> m <= Len(lines) + torn
      BY <2>4
    <3>4. CASE m <= Len(lines)
      BY <3>2, <3>4
    <3>5. CASE m > Len(lines)
      <4>1. rest[m - Len(lines)] = IF m - Len(lines) <= torn THEN g
                                   ELSE tail[m - Len(lines) - torn]
        BY <2>2, <3>3, <3>5
      <4> QED
        BY <2>4, <3>2, <3>3, <3>5, <4>1
    <3>6. m <= Len(lines) \/ m > Len(lines)
      BY <2>4
    <3> QED
      BY <3>4, <3>5, <3>6
  <2> QED
    BY <2>1, <2>2, <2>3, <2>4, <2>5
<1>7. Len(lines) \in Nat /\ Len(tail) \in Nat /\ Len(file) \in Nat /\ n \in Nat /\ d \in Int
  BY <1>4, LenProperties
<1>8. ASSUME NEW m \in 1..Len(file'), m <= n PROVE file'[m].by = Legacy
  <2>1. file'[m] = IF m <= Len(lines) THEN lines[m]
                   ELSE IF m <= Len(lines) + torn THEN g ELSE tail[m - Len(lines) - torn]
    BY <1>6
  <2>2. CASE m <= Len(lines)
    <3>1. m \in 1..Len(lines)
      BY <1>6, <1>7, <2>2
    <3> QED
      BY <2>1, <2>2, <3>1
  <2>3. CASE ~(m <= Len(lines))
    <3>1. file'[m] = g
      BY <1>8, <2>1, <2>3
    <3> QED
      BY <1>1, <3>1
  <2> QED
    BY <2>2, <2>3
<1>9. \A m \in 1..Len(file') : m > n => m + d \in 1..Len(file) /\ file'[m] = file[m + d]
  <2> SUFFICES ASSUME NEW m \in 1..Len(file'), m > n
               PROVE  m + d \in 1..Len(file) /\ file'[m] = file[m + d]
    OBVIOUS
  <2>1. m - n \in 1..Len(tail) /\ k + (m - n) - 1 = m + d /\ m - Len(lines) - torn = m - n
    BY <1>6, <1>7
  <2>2. file'[m] = tail[m - n]
    BY <1>6, <1>7, <2>1
  <2>3. tail[m - n] = file[k + (m - n) - 1]
    BY <1>4, <2>1
  <2>4. k + (m - n) - 1 \in 1..Len(file)
    BY <1>4, <1>7, <2>1
  <2> QED
    BY <2>1, <2>2, <2>3, <2>4
<1>10. Len(file') + d = Len(file)
  BY <1>4, <1>6, <1>7
<1> HIDE DEF n, d
<1> QED
  BY <1>6, <1>7, <1>8, <1>9, <1>10, ChainSuffix DEF Quiet
LEMMA LegacyLines ==
  ASSUME TypeInv, NEW n \in 0..Len(legacy)
  PROVE  /\ SubSeq(legacy, 1, n) \in Seq(Line)
         /\ Len(SubSeq(legacy, 1, n)) = n
         /\ \A m \in 1..n : SubSeq(legacy, 1, n)[m].by = Legacy
<1>1. legacy \in Seq(Line) /\ Len(legacy) \in Nat
  BY LenProperties DEF TypeInv, TypeOK
<1>2. \A m \in 1..Len(legacy) : legacy[m].by = Legacy
  BY EvidenceLogAssumption DEF TypeInv
<1> DEFINE lines == SubSeq(legacy, 1, n)
<1>3. /\ lines \in Seq(Line) /\ Len(lines) = n
      /\ \A m \in 1..n : m \in 1..Len(legacy) /\ lines[m] = legacy[m]
  BY <1>1, ElementOfSeq, SubSeqProperties
<1> QED
  BY <1>2, <1>3

LEMMA ChainOverlay ==
  ASSUME TypeInv, TypeInv', ChainInv, Quiet, NEW n \in 0..Len(legacy), Overlay(n)
  PROVE  ChainInv'
<1> DEFINE lines == SubSeq(legacy, 1, n)
<1>1. file \in Seq(Line) /\ file' \in Seq(Line)
  BY DEF TypeInv, TypeOK
<1>2. lines \in Seq(Line) /\ \A m \in 1..Len(lines) : lines[m].by = Legacy
  BY LegacyLines
<1>3. \/ UNCHANGED file
      \/ file' = lines
      \/ \E torn \in 0..1, k \in 2..Len(file) + 1 : file' = lines \o Remainder(torn, k)
  BY OverlayForms
<1> HIDE DEF lines
<1>4. ASSUME NEW torn \in 0..1, NEW k \in 2..Len(file) + 1, file' = lines \o Remainder(torn, k)
      PROVE  ChainInv'
  BY <1>1, <1>2, <1>4, ChainRemainder
<1>5. CASE UNCHANGED file
  BY <1>1, <1>5, ChainSame
<1>6. CASE file' = lines
  BY <1>1, <1>2, <1>6, ChainFresh
<1> QED
  BY <1>3, <1>4, <1>5, <1>6

LEMMA ChainOverlayCut ==
  ASSUME TypeInv, TypeInv', ChainInv, Quiet, NEW n \in 0..Len(legacy) - 1, OverlayCut(n)
  PROVE  ChainInv'
<1> DEFINE lines == SubSeq(legacy, 1, n)
<1>1. file \in Seq(Line) /\ file' \in Seq(Line) /\ legacy \in Seq(Line) /\ Len(legacy) \in Nat
  BY LenProperties DEF TypeInv, TypeOK
<1>2. /\ lines \in Seq(Line) /\ Len(lines) = n
      /\ \A m \in 1..Len(lines) : lines[m].by = Legacy
  BY <1>1, LegacyLines
<1>3. legacy[n + 1] \in Line /\ legacy[n + 1].by = Legacy
  BY <1>1, ElementOfSeq, EvidenceLogAssumption DEF TypeInv
<1>4. \/ UNCHANGED file
      \/ \E all \in BOOLEAN :
           file' = Append(lines, [legacy[n + 1] EXCEPT !.whole = @ /\ all, !.ended = FALSE])
      \/ \E k \in 2..Len(file) + 1 : file' = lines \o Remainder(1, k)
  BY OverlayCutForms
<1> HIDE DEF lines
<1>5. ASSUME NEW k \in 2..Len(file) + 1, file' = lines \o Remainder(1, k)
      PROVE  ChainInv'
  <2>1. 1 \in 0..1
    OBVIOUS
  <2> QED
    BY <1>1, <1>2, <1>5, <2>1, ChainRemainder
<1>6. CASE UNCHANGED file
  BY <1>1, <1>6, ChainSame
<1>7. ASSUME NEW all \in BOOLEAN,
             file' = Append(lines, [legacy[n + 1] EXCEPT !.whole = @ /\ all, !.ended = FALSE])
      PROVE  ChainInv'
  <2> DEFINE g == [legacy[n + 1] EXCEPT !.whole = @ /\ all, !.ended = FALSE]
  <2>1. g \in Line /\ g.by = Legacy
    <3>1. g \in Line
      BY <1>3, LinesAreClosed DEF Closed
    <3>2. g.by = Legacy
      BY <1>3 DEF Line
    <3> QED
      BY <3>1, <3>2
  <2>2. file' = Append(lines, g)
    BY <1>7
  <2> HIDE DEF g
  <2>3. \A m \in 1..Len(file') : file'[m].by = Legacy
    BY <1>2, <2>1, <2>2
  <2> QED
    BY <1>1, <2>3, ChainFresh
<1> QED
  BY <1>4, <1>5, <1>6, <1>7

\* Both kinds of write, with and without an error.
LEMMA ChainWrite ==
  ASSUME TypeInv, ChainInv, NEW s \in Sessions, phase[s] = "open", phase' = phase,
         NEW line \in Line, line.by = s, line.prev = last[s],
         file' = Appended(line),
         line.ended => last'[s] = line.hash,
         \A t \in Sessions \ {s} : last'[t] = last[t]
  PROVE  ChainInv'
<1>1. file \in Seq(Line) /\ file' \in Seq(Line)
  BY AppendedTypes DEF TypeInv, TypeOK
<1>2. CASE file # <<>> /\ ~file[Len(file)].ended
  <2> DEFINE m == [Garbage EXCEPT !.ended = line.ended]
  <2>1. Len(file) \in 1..Len(file) /\ line.ended \in BOOLEAN
    BY <1>1, <1>2, EmptySeq DEF Line
  <2>2. m \in Line /\ ~m.whole /\ m.by = Legacy
    BY <2>1, GarbageIsALine, LineUpdates DEF Garbage
  <2>3. file' = [file EXCEPT ![Len(file)] = m]
    BY <1>2 DEF Appended
  <2> HIDE DEF m
  <2>4. /\ Len(file') = Len(file)
        /\ \A j \in 1..Len(file) : file'[j] = IF j = Len(file) THEN m ELSE file[j]
    BY <1>1, <2>1, <2>2, <2>3, ExceptSeq
  <2>5. /\ ~file'[Len(file)].whole /\ file'[Len(file)].by = Legacy
        /\ \A j \in 1..Len(file) - 1 : file'[j] = file[j]
    BY <2>1, <2>2, <2>4
  <2> QED
    BY <1>1, <1>2, <2>4, <2>5, ChainMerge
<1>3. CASE ~(file # <<>> /\ ~file[Len(file)].ended)
  <2>1. file' = Append(file, line) /\ (file = <<>> \/ file[Len(file)].ended)
    BY <1>3 DEF Appended
  <2> QED
    BY <1>1, <2>1, ChainAppend
<1> QED
  BY <1>2, <1>3

LEMMA ChainNext == TypeInv /\ TypeInv' /\ ChainInv /\ [Next]_vars => ChainInv'
<1> SUFFICES ASSUME TypeInv, TypeInv', ChainInv, [Next]_vars PROVE ChainInv'
  OBVIOUS
<1>1. file \in Seq(Line) /\ file' \in Seq(Line) /\ legacy \in Seq(Line)
  BY DEF TypeInv, TypeOK
<1>3. ASSUME NEW s \in Sessions,
             Resolve(s) \/ ReadTail(s) \/ RefuseTail(s) \/ Open(s) \/ End(s)
      PROVE  ChainInv'
  <2>1. Quiet
    BY <1>3, GotoIsQuiet DEF Resolve, ReadTail, RefuseTail, Open, End
  <2> QED
    BY <1>1, <1>3, <2>1, ChainSame DEF Resolve, ReadTail, RefuseTail, Open, End
<1>4. ASSUME NEW s \in Sessions, CopyTruncate(s) PROVE ChainInv'
  <2>1. Quiet
    BY <1>4, GotoIsQuiet DEF CopyTruncate
  <2> QED
    BY <1>1, <1>4, <2>1, ChainFresh, EmptySeq DEF CopyTruncate
<1>5. ASSUME NEW s \in Sessions, CopyWrite(s) PROVE ChainInv'
  <2>1. Quiet
    BY <1>5, GotoIsQuiet DEF CopyWrite
  <2>2. Len(legacy) \in 0..Len(legacy) /\ Overlay(Len(legacy))
    BY <1>1, <1>5, LenProperties DEF CopyWrite
  <2> QED
    BY <2>1, <2>2, ChainOverlay
<1>6. ASSUME NEW s \in Sessions, CopyCut(s) PROVE ChainInv'
  <2>1. Quiet
    BY <1>6, GotoIsQuiet DEF CopyCut
  <2>2. \/ \E n \in 0..Len(legacy) : Overlay(n)
        \/ \E n \in 0..Len(legacy) - 1 : OverlayCut(n)
    BY <1>6 DEF CopyCut
  <2> QED
    BY <2>1, <2>2, ChainOverlay, ChainOverlayCut
<1>7. ASSUME NEW s \in Sessions, Goto(s, "open", {}) \/ Goto(s, "open", {"short_write"}),
             phase[s] = "open"
      PROVE  phase' = phase
  BY <1>7 DEF Goto, TypeInv, TypeOK
<1>8. ASSUME NEW s \in Sessions, Write(s) PROVE ChainInv'
  <2> DEFINE line == NextRecord(s)
  <2>1. line \in Line /\ line.by = s /\ line.prev = last[s] /\ line.hash = serial + 1
    BY RecordIsALine DEF TypeInv, NextRecord
  <2>2. phase[s] = "open" /\ phase' = phase /\ file' = Appended(line)
    BY <1>7, <1>8 DEF Write, MayWrite
  <2>3. last'[s] = serial + 1 /\ \A t \in Sessions \ {s} : last'[t] = last[t]
    BY <1>8 DEF Write, TypeInv, TypeOK
  <2> HIDE DEF line
  <2> QED
    BY <2>1, <2>2, <2>3, ChainWrite
<1>9. ASSUME NEW s \in Sessions, ShortWrite(s) PROVE ChainInv'
  <2>1. phase[s] = "open" /\ phase' = phase /\ last' = last
    BY <1>7, <1>9 DEF ShortWrite, MayWrite
  <2>2. CASE file' = file
    BY <1>1, <2>1, <2>2, ChainSame DEF Quiet
  <2>3. ASSUME NEW w \in BOOLEAN,
               file' = Appended([NextRecord(s) EXCEPT !.whole = w, !.ended = FALSE])
        PROVE  ChainInv'
    <3> DEFINE line == [NextRecord(s) EXCEPT !.whole = w, !.ended = FALSE]
    <3>1. line \in Line
      BY RecordIsALine DEF TypeInv
    <3>2. line.by = s /\ line.prev = last[s] /\ ~line.ended
      BY DEF NextRecord
    <3>3. file' = Appended(line)
      BY <2>3
    <3> HIDE DEF line
    <3> QED
      BY <2>1, <3>1, <3>2, <3>3, ChainWrite
  <2> QED
    BY <1>9, <2>2, <2>3 DEF ShortWrite
<1>10. CASE UNCHANGED vars
  BY <1>1, <1>10, ChainSame DEF vars, Quiet
<1> QED
  BY <1>3, <1>4, <1>5, <1>6, <1>8, <1>9, <1>10 DEF Next

\* However sessions overlap, are killed, have writes cut short or copy a legacy
\* log over what others wrote: as long as the log can be read, the records of
\* one session in it are one chain.
THEOREM SessionsVerify == Spec => []EachSessionChains
<1>1. ChainInv => EachSessionChains
  BY DEF ChainInv, EachSessionChains, Loadable, Segment
<1> QED
  BY TypeInvInit, TypeInvNext, ChainInit, ChainNext, <1>1, PTL DEF Spec

-----------------------------------------------------------------------------
\* Lines of a log whose newest record has number n.  A record's hash covers the
\* hash it binds to, so that no record binds to itself.
Sound(n) == {l \in Line : l.hash <= n /\ (l.whole => l.prev # l.hash)}

\* Hashes are given out in order, and nobody has one that was not given out.
HashInv ==
  /\ serial >= FirstSerial
  /\ file \in Seq(Sound(serial))
  /\ \A s \in Sessions : last[s] <= serial

LEMMA SoundIsClosed ==
  ASSUME NEW n \in Nat
  PROVE  Closed(Sound(n))
<1>1. Sound(n) \subseteq Line
  BY DEF Sound
<1>2. ASSUME NEW l \in Sound(n), NEW all \in BOOLEAN
      PROVE  [l EXCEPT !.whole = @ /\ all, !.ended = FALSE] \in Sound(n)
  <2> DEFINE m == [l EXCEPT !.whole = @ /\ all, !.ended = FALSE]
  <2>1. l \in Line /\ l.hash <= n /\ (l.whole => l.prev # l.hash)
    BY DEF Sound
  <2>2. m \in Line
    BY <2>1, LinesAreClosed DEF Closed
  <2>3. (m.whole => l.whole) /\ m.hash = l.hash /\ m.prev = l.prev
    BY <2>1 DEF Line
  <2> HIDE DEF m
  <2>4. m \in Sound(n)
    BY <2>1, <2>2, <2>3 DEF Sound
  <2> QED
    BY <2>4 DEF m
<1>3. ASSUME NEW e \in BOOLEAN
      PROVE  [Garbage EXCEPT !.ended = e] \in Sound(n)
  <2> DEFINE g == [Garbage EXCEPT !.ended = e]
  <2>1. g \in Line
    BY GarbageIsALine, LineUpdates
  <2>2. ~g.whole /\ g.hash = NoHash
    BY DEF Garbage
  <2> HIDE DEF g
  <2>3. g \in Sound(n)
    BY <2>1, <2>2 DEF Sound, NoHash
  <2> QED
    BY <2>3 DEF g
<1> QED
  BY <1>1, <1>2, <1>3 DEF Closed

LEMMA SoundGrows ==
  ASSUME NEW m \in Nat, NEW n \in Nat, m <= n, NEW log \in Seq(Sound(m))
  PROVE  log \in Seq(Sound(n))
<1>1. Sound(m) \subseteq Sound(n)
  BY DEF Sound, Line
<1>2. \A i \in 1..Len(log) : log[i] \in Sound(n)
  BY <1>1, ElementOfSeq
<1>3. log \in [1..Len(log) -> Sound(n)] /\ Len(log) \in Nat
  BY <1>2, LenProperties
<1> QED
  BY <1>3, SeqDef

LEMMA LegacySound ==
  ASSUME TypeInv, HashInv
  PROVE  legacy \in Seq(Sound(serial))
<1>1. legacy \in Seq(Line) /\ Len(legacy) \in Nat /\ serial \in Nat
  BY LenProperties DEF TypeInv, TypeOK
<1>2. ASSUME NEW i \in 1..Len(legacy) PROVE legacy[i] \in Sound(serial)
  <2>1. legacy[i] \in Line
    BY <1>1, ElementOfSeq
  <2>2. legacy[i].hash \in 1..10 * Len(legacy) /\ (legacy[i].whole => legacy[i].prev # legacy[i].hash)
    BY EvidenceLogAssumption DEF TypeInv
  <2>3. legacy[i].hash <= serial
    BY <1>1, <2>2 DEF HashInv, FirstSerial
  <2> QED
    BY <2>1, <2>2, <2>3 DEF Sound
<1>3. legacy \in [1..Len(legacy) -> Sound(serial)]
  BY <1>1, <1>2, LenProperties
<1> QED
  BY <1>1, <1>3, SeqDef

LEMMA HashInit == Init => HashInv
<1> SUFFICES ASSUME Init PROVE HashInv
  OBVIOUS
<1>1. TypeOK
  BY TypeInit
<1>2. file \in Seq(Sound(serial))
  BY EmptySeq DEF Init
<1>3. serial \in Nat /\ serial = FirstSerial
  BY <1>1 DEF TypeOK, Init
<1> QED
  BY <1>2, <1>3 DEF HashInv, Init, NoHash

LEMMA HashNext == TypeInv /\ HashInv /\ [Next]_vars => HashInv'
<1> SUFFICES ASSUME TypeInv, HashInv, [Next]_vars PROVE HashInv'
  OBVIOUS
<1>1. /\ serial \in Nat /\ file \in Seq(Sound(serial)) /\ legacy \in Seq(Sound(serial))
      /\ Closed(Sound(serial)) /\ Closed(Sound(serial + 1)) /\ FirstSerial \in Int
      /\ last \in [Sessions -> Nat]
  BY LegacySound, SoundIsClosed, LenProperties DEF TypeInv, TypeOK, HashInv, FirstSerial
<1>2. ASSUME UNCHANGED <<legacy, last, serial>>, file' \in Seq(Sound(serial)) PROVE HashInv'
  BY <1>2 DEF HashInv, FirstSerial
<1>3. ASSUME NEW s \in Sessions, Resolve(s) \/ RefuseTail(s) \/ Open(s) \/ End(s)
      PROVE  HashInv'
  BY <1>1, <1>2, <1>3 DEF Resolve, RefuseTail, Open, End
<1>4. ASSUME NEW s \in Sessions, CopyTruncate(s) PROVE HashInv'
  BY <1>1, <1>2, <1>4, EmptySeq DEF CopyTruncate
<1>5. ASSUME NEW s \in Sessions, CopyWrite(s) PROVE HashInv'
  <2>1. /\ Overlay(Len(legacy)) /\ UNCHANGED <<legacy, last, serial>>
        /\ Len(legacy) \in 0..Len(legacy)
    BY <1>1, <1>5, LenProperties DEF CopyWrite
  <2> QED
    BY <1>1, <1>2, <2>1, OverlayIn
<1>6. ASSUME NEW s \in Sessions, CopyCut(s) PROVE HashInv'
  <2>1. UNCHANGED <<legacy, last, serial>>
    BY <1>6 DEF CopyCut
  <2> QED
    BY <1>1, <1>2, <1>6, <2>1, CopyCutIn
<1>7. ASSUME NEW s \in Sessions, ReadTail(s) PROVE HashInv'
  <2>1. TailHash(file) <= serial
    <3>1. CASE file = <<>>
      BY <1>1, <3>1 DEF TailHash, NoHash
    <3>2. CASE file # <<>>
      <4>1. file[Len(file)] \in Sound(serial)
        BY <1>1, <3>2, EmptySeq, ElementOfSeq
      <4> QED
        BY <3>2, <4>1 DEF TailHash, Sound
    <3> QED
      BY <3>1, <3>2
  <2>2. UNCHANGED <<legacy, file, serial>> /\ last' = [last EXCEPT ![s] = TailHash(file)]
    BY <1>7 DEF ReadTail
  <2> QED
    BY <1>1, <2>1, <2>2 DEF HashInv, FirstSerial
<1>8. ASSUME NEW s \in Sessions, NEW line \in Line,
             line.hash = serial + 1, line.prev = last[s], serial' = serial + 1,
             file' = file \/ file' = Appended(line),
             last' = last \/ last' = [last EXCEPT ![s] = serial + 1], UNCHANGED legacy
      PROVE  HashInv'
  <2>1. line \in Sound(serial + 1)
    BY <1>1, <1>8 DEF Sound, HashInv
  <2>2. file \in Seq(Sound(serial + 1))
    BY <1>1, SoundGrows
  <2>3. file' \in Seq(Sound(serial'))
    BY <1>1, <1>8, <2>1, <2>2, AppendedIn
  <2>4. \A t \in Sessions : last'[t] <= serial'
    BY <1>1, <1>8 DEF HashInv
  <2>5. serial' >= FirstSerial'
    BY <1>1, <1>8 DEF HashInv, FirstSerial
  <2> QED
    BY <2>3, <2>4, <2>5 DEF HashInv
<1>9. ASSUME NEW s \in Sessions, Write(s) PROVE HashInv'
  <2> DEFINE line == NextRecord(s)
  <2>1. line \in Line /\ line.hash = serial + 1 /\ line.prev = last[s]
    BY RecordIsALine DEF TypeInv, NextRecord
  <2>2. /\ serial' = serial + 1 /\ file' = Appended(line)
        /\ last' = [last EXCEPT ![s] = serial + 1] /\ UNCHANGED legacy
    BY <1>9 DEF Write
  <2> HIDE DEF line
  <2> QED
    BY <1>8, <2>1, <2>2
<1>10. ASSUME NEW s \in Sessions, ShortWrite(s) PROVE HashInv'
  <2>1. serial' = serial + 1 /\ last' = last /\ UNCHANGED legacy
    BY <1>10 DEF ShortWrite
  <2>2. PICK w \in BOOLEAN :
          \/ file' = file
          \/ file' = Appended([NextRecord(s) EXCEPT !.whole = w, !.ended = FALSE])
    BY <1>10 DEF ShortWrite
  <2> DEFINE line == [NextRecord(s) EXCEPT !.whole = w, !.ended = FALSE]
  <2>3. line \in Line /\ line.hash = serial + 1 /\ line.prev = last[s]
    BY RecordIsALine DEF TypeInv, NextRecord
  <2>4. file' = file \/ file' = Appended(line)
    BY <2>2
  <2> HIDE DEF line
  <2> QED
    BY <1>8, <2>1, <2>3, <2>4
<1>11. CASE UNCHANGED vars
  BY <1>1, <1>2, <1>11 DEF vars
<1> QED
  BY <1>3, <1>4, <1>5, <1>6, <1>7, <1>9, <1>10, <1>11 DEF Next

\* Without a record in the middle, the next one binds to a hash its neighbour
\* does not have: both neighbours would have to have the same hash, and the
\* missing record would be bound to itself.
THEOREM DeletionsShow == Spec => []DeletionShows
<1>1. ASSUME TypeInv, HashInv PROVE DeletionShows
  <2> SUFFICES ASSUME Verifies(file), NEW i \in 2..Len(file) - 1, Verifies(Without(file, i))
               PROVE  FALSE
    BY DEF DeletionShows
  <2> DEFINE rest == Without(file, i)
  <2>1. Len(file) \in Nat /\ Len(file) >= i + 1 /\ i - 1 \in 1..Len(file) - 1 /\ i \in 1..Len(file) - 1
    BY <1>1, LenProperties DEF TypeInv, TypeOK
  <2>2. Len(rest) = Len(file) - 1
    BY <2>1 DEF Without
  <2>3. rest[i - 1] = file[i - 1] /\ rest[i] = file[i + 1]
    BY <2>1 DEF Without
  <2>4. rest[i].prev = rest[i - 1].hash
    <3>1. i \in 2..Len(rest)
      BY <2>1, <2>2
    <3> HIDE DEF rest
    <3>2. Chained(rest)
      BY DEF rest, Verifies
    <3> QED
      BY <3>1, <3>2 DEF Chained
  <2>5. file[i + 1].prev = file[i].hash /\ file[i].prev = file[i - 1].hash
    <3>1. Chained(file) /\ i \in 2..Len(file) /\ i + 1 \in 2..Len(file)
      BY <2>1 DEF Verifies
    <3>2. file[i + 1].prev = file[(i + 1) - 1].hash
      BY <3>1 DEF Chained
    <3>3. (i + 1) - 1 = i
      BY <2>1
    <3> QED
      BY <3>1, <3>2, <3>3 DEF Chained
  <2>6. file[i].prev = file[i].hash
    BY <2>3, <2>4, <2>5
  <2>7. file[i] \in Sound(serial) /\ file[i].whole
    <3>1. i \in 1..Len(file)
      BY <2>1
    <3> QED
      BY <1>1, <3>1, ElementOfSeq DEF HashInv, Verifies, Loadable
  <2> QED
    BY <2>6, <2>7 DEF Sound
<1> QED
  BY TypeInvInit, TypeInvNext, HashInit, HashNext, <1>1, PTL DEF Spec

-----------------------------------------------------------------------------
\* Sessions one after the other, and no write or copy that is cut short: then a
\* session may still end, or be killed, between any two of its steps.
OneByOne == disturbed \cap {"overlap", "short_write", "cut_copy"} = {}

IntactLegacy == legacy # <<>> /\ Verifies(legacy)

\* What the session that is alive has made sure of.
Prepared(s) ==
  /\ phase[s] = "copying" => ~exists /\ IntactLegacy
  /\ phase[s] = "truncated" => file = <<>> /\ IntactLegacy
  /\ phase[s] \in {"resolved", "tailed"} /\ IntactLegacy => exists
  /\ phase[s] \in {"tailed", "open"} => last[s] = TailHash(file)

\* The log begins with the legacy log.
BeginsWithLegacy ==
  Len(file) >= Len(legacy) /\ \A i \in 1..Len(legacy) : file[i] = legacy[i]

Continued ==
  exists /\ IntactLegacy /\ (\A s \in Sessions : phase[s] # "truncated") => BeginsWithLegacy

OneByOneInv ==
  OneByOne => /\ \A s, t \in Alive(phase) : s = t
              /\ \A i \in 1..Len(file) : file[i].ended
              /\ Verifies(file)
              /\ \A s \in Sessions : Prepared(s)
              /\ Continued

LEMMA OneByOneInit == Init => OneByOneInv
  BY DEF Init, OneByOneInv, OneByOne, Alive, Verifies, Loadable, Chained, Prepared, Continued

\* Whoever takes a step is the only one alive.
LEMMA NobodyElse ==
  ASSUME TypeInv, OneByOneInv, NEW s \in Sessions, NEW ph, NEW interference,
         Goto(s, ph, interference), OneByOne',
         phase[s] \notin {"new", "ended"} \/ ph \notin {"new", "ended"}
  PROVE  /\ OneByOne
         /\ phase'[s] = ph
         /\ \A t \in Sessions \ {s} : phase'[t] = phase[t] /\ phase[t] \in {"new", "ended"}
         /\ \A a, b \in Alive(phase') : a = b
<1>1. OneByOne
  BY GotoKeepsDisturbances DEF OneByOne
<1>2. \A t \in Sessions : phase'[t] = IF t = s THEN ph ELSE phase[t]
  BY DEF Goto, TypeInv, TypeOK
<1>3. \A a, b \in Alive(phase) : a = b
  BY <1>1 DEF OneByOneInv
<1>4. IsFiniteSet(Alive(phase))
  <2>1. CASE Alive(phase) = {}
    BY <2>1, FS_EmptySet
  <2>2. CASE Alive(phase) # {}
    <3>1. PICK a : a \in Alive(phase)
      BY <2>2
    <3>2. Alive(phase) = {a}
      BY <1>3, <3>1
    <3> QED
      BY <3>2, FS_Singleton
  <2> QED
    BY <2>1, <2>2
<1>5. IsFiniteSet(Alive(phase'))
  <2>1. Alive(phase') \subseteq Alive(phase) \cup {s}
    BY <1>2 DEF Alive
  <2>2. IsFiniteSet(Alive(phase) \cup {s})
    BY <1>4, FS_AddElement
  <2> QED
    BY <2>1, <2>2, FS_Subset
<1>6. ~(Cardinality(Alive(phase')) > 1)
  BY DEF Goto, OneByOne
<1>7. \A a, b \in Alive(phase') : a = b
  <2> SUFFICES ASSUME NEW a \in Alive(phase'), NEW b \in Alive(phase'), a # b PROVE FALSE
    OBVIOUS
  <2>1. IsFiniteSet({a}) /\ Cardinality({a}) = 1
    BY FS_Singleton
  <2>2. Cardinality({a} \cup {b}) = 2
    BY <2>1, FS_AddElement
  <2>3. Cardinality({a} \cup {b}) <= Cardinality(Alive(phase'))
    BY <1>5, FS_Subset
  <2>4. Cardinality(Alive(phase')) \in Nat
    BY <1>5, FS_CardinalityType
  <2> QED
    BY <1>6, <2>2, <2>3, <2>4
<1>8. ASSUME NEW t \in Sessions \ {s} PROVE phase[t] \in {"new", "ended"}
  BY <1>2, <1>3, <1>7 DEF Alive
<1> QED
  BY <1>1, <1>2, <1>7, <1>8

\* The log has only finished lines, and verifies.
Intact == (\A i \in 1..Len(file) : file[i].ended) /\ Verifies(file)

LEMMA KeptByStep ==
  ASSUME TypeInv, OneByOneInv, NEW s \in Sessions, NEW ph, NEW interference,
         Goto(s, ph, interference), OneByOne',
         phase[s] \notin {"new", "ended"} \/ ph \notin {"new", "ended"},
         Intact', Prepared(s)', Continued'
  PROVE  OneByOneInv'
<1>1. /\ \A t \in Sessions \ {s} : phase'[t] \in {"new", "ended"}
      /\ \A a, b \in Alive(phase') : a = b
  BY NobodyElse
<1>2. \A t \in Sessions : Prepared(t)'
  BY <1>1 DEF Prepared
<1> QED
  BY <1>1, <1>2 DEF OneByOneInv, Intact

LEMMA OneByOneNext == TypeInv /\ OneByOneInv /\ [Next]_vars => OneByOneInv'
<1> SUFFICES ASSUME TypeInv, OneByOneInv, [Next]_vars, OneByOne' PROVE OneByOneInv'
  BY DEF OneByOneInv
<1>1. file \in Seq(Line) /\ legacy \in Seq(Line) /\ Len(file) \in Nat /\ Len(legacy) \in Nat
  BY LenProperties DEF TypeInv, TypeOK
<1>2. OneByOne => /\ Intact /\ Continued
                  /\ \A s \in Sessions : Prepared(s)
  BY DEF OneByOneInv, Intact
\* Steps that leave the log as it is.
<1>3. ASSUME UNCHANGED <<legacy, file>>, OneByOne PROVE Intact'
  BY <1>2, <1>3 DEF Intact
<1>4. ASSUME NEW s \in Sessions, Resolve(s) PROVE OneByOneInv'
  <2>1. PICK ph \in {"copying", "resolved"} :
          /\ Goto(s, ph, {})
          /\ ph = "copying" => ~exists /\ IntactLegacy
          /\ ph = "resolved" /\ IntactLegacy => exists
    BY <1>4 DEF Resolve, IntactLegacy
  <2>2. UNCHANGED <<legacy, exists, file, last>> /\ phase[s] = "new"
    BY <1>4 DEF Resolve
  <2>3. /\ OneByOne /\ phase'[s] = ph
        /\ \A t \in Sessions \ {s} : phase'[t] = phase[t]
    BY <2>1, NobodyElse
  <2>4. Prepared(s)'
    BY <2>1, <2>2, <2>3 DEF Prepared, IntactLegacy
  <2>5. Continued'
    <3>1. (\A t \in Sessions : phase'[t] # "truncated") => \A t \in Sessions : phase[t] # "truncated"
      BY <2>2, <2>3
    <3> QED
      BY <1>2, <2>2, <2>3, <3>1 DEF Continued, IntactLegacy, BeginsWithLegacy
  <2>6. Intact'
    BY <1>3, <2>2, <2>3
  <2> QED
    BY <2>1, <2>4, <2>5, <2>6, KeptByStep
<1>5. ASSUME NEW s \in Sessions, CopyTruncate(s) PROVE OneByOneInv'
  <2>1. PICK interference : Goto(s, "truncated", interference)
    BY <1>5 DEF CopyTruncate
  <2>2. phase[s] = "copying" /\ file' = <<>> /\ UNCHANGED <<legacy, last>>
    BY <1>5 DEF CopyTruncate
  <2>3. OneByOne /\ phase'[s] = "truncated"
    BY <2>1, <2>2, NobodyElse
  <2>4. Prepared(s)'
    BY <1>2, <2>2, <2>3 DEF Prepared, IntactLegacy
  <2>5. Continued'
    BY <2>3 DEF Continued
  <2>6. Intact'
    BY <2>2 DEF Intact, Verifies, Loadable, Chained
  <2> QED
    BY <2>1, <2>2, <2>4, <2>5, <2>6, KeptByStep
<1>6. ASSUME NEW s \in Sessions, CopyWrite(s) PROVE OneByOneInv'
  <2>1. PICK interference : Goto(s, "resolved", interference)
    BY <1>6 DEF CopyWrite
  <2>2. phase[s] = "truncated" /\ Overlay(Len(legacy)) /\ UNCHANGED <<legacy, exists, last>>
    BY <1>6 DEF CopyWrite
  <2>3. OneByOne /\ phase'[s] = "resolved"
    BY <2>1, <2>2, NobodyElse
  <2>4. file = <<>> /\ Verifies(legacy) /\ exists
    BY <1>2, <2>2, <2>3 DEF Prepared, IntactLegacy, TypeInv
  <2>5. file' = legacy
    BY <1>1, <2>2, <2>4, CopyOntoNothing
  <2>6. Intact'
    BY <2>4, <2>5, EvidenceLogAssumption DEF Intact, TypeInv
  <2>7. Prepared(s)'
    BY <2>2, <2>3, <2>4 DEF Prepared
  <2>8. Continued'
    BY <1>1, <2>2, <2>5 DEF Continued, BeginsWithLegacy
  <2> QED
    BY <2>1, <2>2, <2>6, <2>7, <2>8, KeptByStep
<1>7. ASSUME NEW s \in Sessions, CopyCut(s) PROVE OneByOneInv'
  BY <1>7, GotoKeepsDisturbances DEF CopyCut, OneByOne
<1>8. ASSUME NEW s \in Sessions, NEW ph \in {"tailed", "open", "ended"}, Goto(s, ph, {}),
             phase[s] \notin {"new", "truncated", "ended"},
             UNCHANGED <<legacy, file>>,
             exists' = exists \/ (exists' = TRUE /\ phase[s] = "tailed"),
             ph \in {"tailed", "open"} => last'[s] = TailHash(file),
             ph = "tailed" => phase[s] = "resolved"
      PROVE  OneByOneInv'
  <2>1. /\ OneByOne /\ phase'[s] = ph
        /\ \A t \in Sessions \ {s} : phase'[t] = phase[t]
    BY <1>8, NobodyElse
  <2>2. \A t \in Sessions : phase[t] # "truncated"
    <3>1. \A t \in Sessions \ {s} : phase[t] \in {"new", "ended"}
      BY <1>8, NobodyElse
    <3> QED
      BY <1>8, <3>1
  <2>3. exists' /\ IntactLegacy => exists
    BY <1>2, <1>8, <2>1 DEF Prepared
  <2>4. Prepared(s)'
    BY <1>2, <1>8, <2>1, <2>3 DEF Prepared, IntactLegacy, TailHash
  <2>5. Continued'
    BY <1>2, <1>8, <2>1, <2>2, <2>3 DEF Continued, IntactLegacy, BeginsWithLegacy
  <2>6. Intact'
    BY <1>3, <1>8, <2>1
  <2> QED
    BY <1>8, <2>4, <2>5, <2>6, KeptByStep
<1>9. ASSUME NEW s \in Sessions, ReadTail(s) PROVE OneByOneInv'
  <2>1. last'[s] = TailHash(file)
    BY <1>9 DEF ReadTail, TypeInv, TypeOK
  <2> QED
    BY <1>8, <1>9, <2>1 DEF ReadTail
<1>10. ASSUME NEW s \in Sessions, Open(s) PROVE OneByOneInv'
  <2>1. OneByOne
    BY <1>10, NobodyElse DEF Open
  <2>2. last'[s] = TailHash(file)
    BY <1>2, <1>10, <2>1 DEF Open, Prepared
  <2> QED
    BY <1>8, <1>10, <2>2 DEF Open
<1>11. ASSUME NEW s \in Sessions, RefuseTail(s) \/ End(s) PROVE OneByOneInv'
  BY <1>8, <1>11 DEF RefuseTail, End
<1>12. ASSUME NEW s \in Sessions, Write(s) PROVE OneByOneInv'
  <2> DEFINE line == NextRecord(s)
             n == Len(file)
  <2>1. /\ Goto(s, "open", {}) /\ phase[s] = "open"
        /\ file' = Appended(line) /\ last' = [last EXCEPT ![s] = serial + 1]
        /\ UNCHANGED <<legacy, exists>>
    BY <1>12 DEF Write, MayWrite
  <2>2. line \in Line /\ line.whole /\ line.ended /\ line.prev = last[s] /\ line.hash = serial + 1
    BY RecordIsALine DEF TypeInv, NextRecord
  <2>3. /\ OneByOne /\ phase'[s] = "open"
        /\ \A t \in Sessions \ {s} : phase[t] \in {"new", "ended"}
    BY <2>1, NobodyElse
  <2>4. file' = Append(file, line)
    <3>1. file # <<>> => file[Len(file)].ended
      BY <1>1, <1>2, <2>3, EmptySeq DEF Intact
    <3> QED
      BY <2>1, <3>1 DEF Appended
  <2> HIDE DEF line
  <2>5. /\ Len(file') = n + 1
        /\ \A i \in 1..n : file'[i] = file[i]
        /\ file'[n + 1] = line
    BY <1>1, <2>2, <2>4
  <2>6. \A i \in 1..Len(file') : file'[i].ended /\ file'[i].whole
    BY <1>1, <1>2, <2>2, <2>3, <2>5 DEF Intact, Verifies, Loadable
  <2>7. Chained(file')
    <3>1. ASSUME NEW i \in 2..n + 1 PROVE file'[i].prev = file'[i - 1].hash
      <4>1. CASE i \in 2..n
        <5>1. i \in 1..n /\ i - 1 \in 1..n
          BY <1>1, <4>1
        <5>2. file[i].prev = file[i - 1].hash
          BY <1>2, <2>3, <4>1 DEF Intact, Verifies, Chained
        <5> QED
          BY <2>5, <5>1, <5>2
      <4>2. CASE i = n + 1
        <5>1. n \in 1..n /\ file # <<>>
          BY <1>1, <4>2, EmptySeq
        <5>2. last[s] = file[n].hash
          BY <1>2, <2>1, <2>3, <5>1 DEF Prepared, TailHash
        <5>3. i - 1 = n
          BY <1>1, <4>2
        <5> QED
          BY <2>2, <2>5, <4>2, <5>1, <5>2, <5>3
      <4> QED
        BY <1>1, <4>1, <4>2
    <3> QED
      BY <2>5, <3>1 DEF Chained
  <2>8. Intact'
    BY <2>6, <2>7 DEF Intact, Verifies, Loadable
  <2>9. Prepared(s)'
    <3>1. file' # <<>> /\ file'[Len(file')].hash = serial + 1
      BY <1>1, <2>2, <2>5, EmptySeq
    <3>2. last'[s] = serial + 1
      BY <2>1 DEF TypeInv, TypeOK
    <3> QED
      BY <2>3, <3>1, <3>2 DEF Prepared, TailHash
  <2>10. Continued'
    <3>1. \A t \in Sessions : phase[t] # "truncated"
      BY <2>1, <2>3
    <3>2. ASSUME exists, IntactLegacy PROVE BeginsWithLegacy'
      <4>1. BeginsWithLegacy
        BY <1>2, <2>3, <3>1, <3>2 DEF Continued
      <4>2. \A i \in 1..Len(legacy) : i \in 1..n
        BY <1>1, <4>1 DEF BeginsWithLegacy
      <4> QED
        BY <1>1, <2>1, <2>5, <4>1, <4>2 DEF BeginsWithLegacy
    <3> QED
      BY <2>1, <3>2 DEF Continued, IntactLegacy
  <2> QED
    BY <2>1, <2>8, <2>9, <2>10, KeptByStep
<1>13. ASSUME NEW s \in Sessions, ShortWrite(s) PROVE OneByOneInv'
  BY <1>13, GotoKeepsDisturbances DEF ShortWrite, OneByOne
<1>14. CASE UNCHANGED vars
  BY <1>14 DEF vars, OneByOneInv, OneByOne, Alive, Prepared, Continued, IntactLegacy,
               BeginsWithLegacy, TailHash
<1> QED
  BY <1>4, <1>5, <1>6, <1>7, <1>9, <1>10, <1>11, <1>12, <1>13, <1>14 DEF Next

\* Sessions one after the other leave one chain, wherever each of them ends
\* between its writes: the next one reads the hash of the last record before
\* it opens the log.
THEOREM OneChain == Spec => []SessionsChain
<1>1. OneByOneInv => SessionsChain
  BY DEF OneByOneInv, OneByOne, SessionsChain
<1> QED
  BY TypeInvInit, TypeInvNext, OneByOneInit, OneByOneNext, <1>1, PTL DEF Spec

\* A log that exists continues the intact legacy log: a session that finds no
\* log copies the legacy log before it reads the tail and opens the log.
THEOREM LegacyIsContinued == Spec => []LegacyContinues
<1>1. OneByOneInv => LegacyContinues
  BY DEF OneByOneInv, OneByOne, LegacyContinues, Continued, IntactLegacy, BeginsWithLegacy
<1> QED
  BY TypeInvInit, TypeInvNext, OneByOneInit, OneByOneNext, <1>1, PTL DEF Spec
=============================================================================
