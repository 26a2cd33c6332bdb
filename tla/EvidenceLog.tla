---------------------------- MODULE EvidenceLog ----------------------------
(***************************************************************************)
(* The evidence log (internal/evidence, ResolveEvidencePath in             *)
(* internal/cli): one file of hash-chained records that every `plan`,      *)
(* `run` and flat session appends to, and that starts as a copy of the log *)
(* of an earlier release when there is one.                                *)
(*                                                                         *)
(* A session is one process.  It looks for the log, copies the legacy log  *)
(* if it has to, reads the hash of the last record, opens the file for     *)
(* appending and from then on keeps the last hash in memory; nothing locks *)
(* the file.  A session may end, or be killed, between any two steps, and  *)
(* a write may put only a part of its bytes in the file.                   *)
(*                                                                         *)
(* Every record has a fresh action id, so hashes are pairwise different:   *)
(* a hash is the number of the record, and NoHash stands for "".           *)
(***************************************************************************)
EXTENDS Integers, Sequences, FiniteSets

CONSTANTS
  Sessions,      \* the processes that use the log
  LegacyLogs,    \* logs an earlier release may have left behind; <<>> for none
  Legacy,        \* who wrote the records of a legacy log
  RecordBound    \* how many records are written, over all sessions

NoHash == 0

\* A line of the file.  whole: it parses as the record given by the other
\* fields.  ended: its newline was written, so that the next append starts a
\* line of its own.
Line == [by: Sessions \cup {Legacy}, hash: Nat, prev: Nat, whole: BOOLEAN, ended: BOOLEAN]

ASSUME EvidenceLogAssumption ==
  /\ Legacy \notin Sessions
  /\ LegacyLogs \subseteq Seq(Line)
  /\ \A log \in LegacyLogs : \A i \in 1..Len(log) :
       /\ log[i].by = Legacy
       /\ log[i].hash \in 1..10 * Len(log)
       /\ log[i].ended
       \* Record hashes what it binds to, so no record binds to itself.
       /\ log[i].whole => log[i].prev # log[i].hash
  /\ RecordBound \in Nat

VARIABLES
  legacy,      \* the legacy log; never changes
  exists,      \* whether the canonical log exists
  file,        \* the lines of the canonical log
  phase,       \* how far each session is
  last,        \* the hash each session chains its next record to
  serial,      \* the number of the newest record
  acked,       \* history: the lines whose Write returned no error
  disturbed    \* history: what interfered with the log so far

vars == <<legacy, exists, file, phase, last, serial, acked, disturbed>>

\* copying: found no log and an intact legacy log; truncated: has created the
\* copy but not written it; tailed: has read the last hash, not opened the file.
Phases == {"new", "copying", "truncated", "resolved", "tailed", "open", "ended"}
Disturbances == {"overlap", "short_write", "cut_copy", "clobber"}

Alive(ph) == {s \in Sessions : ph[s] \notin {"new", "ended"}}

\* Legacy records are numbered below the records of this release.
FirstSerial == 10 * Len(legacy)

Init ==
  /\ legacy \in LegacyLogs
  /\ exists = FALSE
  /\ file = <<>>
  /\ phase = [s \in Sessions |-> "new"]
  /\ last = [s \in Sessions |-> NoHash]
  /\ serial = FirstSerial
  /\ acked = {}
  /\ disturbed = {}

\* Two sessions that are alive at once disturb each other, whatever they do.
Goto(s, ph, interference) ==
  /\ phase' = [phase EXCEPT ![s] = ph]
  /\ disturbed' = disturbed \cup interference
                    \cup (IF Cardinality(Alive(phase')) > 1 THEN {"overlap"} ELSE {})

-----------------------------------------------------------------------------
(***************************************************************************)
(* Reading the log.                                                        *)
(***************************************************************************)

\* LoadEvidenceLog: one line that does not parse makes the log unreadable.
Loadable(log) == \A i \in 1..Len(log) : log[i].whole

\* Defect: VerifyChain looks at the order of the hashes only.
ChainedLoosely(log) == \A i \in 2..Len(log) : log[i].prev < log[i].hash

\* VerifyChain returning -1: every record binds to its predecessor, and the
\* first one to whatever it names.
Chained(log) == \A i \in 2..Len(log) : log[i].prev = log[i - 1].hash

Verifies(log) == Loadable(log) /\ Chained(log)

-----------------------------------------------------------------------------
(***************************************************************************)
(* ResolveEvidencePath.                                                    *)
(***************************************************************************)
Resolve(s) ==
  /\ phase[s] = "new"
  /\ IF ~exists /\ legacy # <<>> /\ Verifies(legacy)
       THEN Goto(s, "copying", {})
       ELSE Goto(s, "resolved", {})
  /\ UNCHANGED <<legacy, exists, file, last, serial, acked>>

\* os.WriteFile(canonical, raw) truncates whatever is there by now ...
CopyTruncate(s) ==
  /\ phase[s] = "copying"
  /\ exists' = TRUE
  /\ file' = <<>>
  /\ Goto(s, "truncated", IF file # <<>> THEN {"clobber"} ELSE {})
  /\ UNCHANGED <<legacy, last, serial, acked>>

\* The remains of lines of which a part was overwritten or never written.
Garbage == [by |-> Legacy, hash |-> NoHash, prev |-> NoHash, whole |-> FALSE, ended |-> TRUE]

\* Defect: the copy is a new log that starts without the old records.
CopyNothing(s) ==
  /\ phase[s] = "truncated"
  /\ Goto(s, "resolved", {})
  /\ UNCHANGED <<legacy, exists, file, last, serial, acked>>

\* Every copy writes the same bytes from the beginning of the file, over what
\* others may have copied or appended since.  A hash tells whose line it is, so
\* up to line i the file holds the legacy log or the beginning of it.
Agrees(i) == \A j \in 1..i : j <= Len(file) /\ j <= Len(legacy) => file[j].hash = legacy[j].hash

\* What sticks out behind bytes that end inside or right after line k - 1.
Remainder(torn, k) ==
  SubSeq(<<[Garbage EXCEPT !.ended = file[k - 1].ended]>>, 1, torn) \o SubSeq(file, k, Len(file))

\* The first n lines are written.  What they meet line by line stays as it is;
\* nothing sticks out but behind a line that is not the one written there.
Overlay(n) ==
  LET lines == SubSeq(legacy, 1, n) IN
  IF n <= Len(file) /\ SubSeq(file, 1, n) = lines THEN UNCHANGED file
  ELSE \/ file' = lines
       \/ \E torn \in 0..1, k \in 2..Len(file) + 1 :
            ~Agrees(IF k <= n THEN k - 1 ELSE n) /\ file' = lines \o Remainder(torn, k)

\* n lines and a part of the next one, possibly all but its newline.
OverlayCut(n) ==
  LET lines == SubSeq(legacy, 1, n) IN
  IF n < Len(file) /\ SubSeq(file, 1, n + 1) = SubSeq(legacy, 1, n + 1) THEN UNCHANGED file
  ELSE \/ \E all \in BOOLEAN :
            file' = Append(lines, [legacy[n + 1] EXCEPT !.whole = @ /\ all, !.ended = FALSE])
       \/ \E k \in 2..Len(file) + 1 :
            ~Agrees(IF k <= n + 1 THEN k - 1 ELSE n + 1) /\ file' = lines \o Remainder(1, k)

CopyWrite(s) ==
  /\ phase[s] = "truncated"
  /\ Overlay(Len(legacy))
  /\ Goto(s, "resolved", IF file # <<>> THEN {"clobber"} ELSE {})
  /\ UNCHANGED <<legacy, exists, last, serial, acked>>

\* The copy fails, or the process is killed, before all of it is written, or
\* closing the file fails after that.
CopyCut(s) ==
  /\ phase[s] = "truncated"
  /\ \/ \E n \in 0..Len(legacy) : Overlay(n)
     \/ \E n \in 0..Len(legacy) - 1 : OverlayCut(n)
  /\ Goto(s, "ended", {"cut_copy"})
  /\ UNCHANGED <<legacy, exists, last, serial, acked>>

-----------------------------------------------------------------------------
(***************************************************************************)
(* NewJSONLSink, Write and Close.                                          *)
(***************************************************************************)

\* Defect: every session starts a chain of its own.
TailHashFresh(log) == NoHash

\* lastRecordHash: an error when the last line does not parse.
TailHash(log) == IF log = <<>> THEN NoHash ELSE log[Len(log)].hash

ReadTail(s) ==
  /\ phase[s] = "resolved"
  /\ file # <<>> => file[Len(file)].whole
  /\ last' = [last EXCEPT ![s] = TailHash(file)]
  /\ Goto(s, "tailed", {})
  /\ UNCHANGED <<legacy, exists, file, serial, acked>>

RefuseTail(s) ==
  /\ phase[s] = "resolved"
  /\ file # <<>>
  /\ ~file[Len(file)].whole
  /\ Goto(s, "ended", {})
  /\ UNCHANGED <<legacy, exists, file, last, serial, acked>>

\* Defect: the log is opened with O_TRUNC instead of O_APPEND.
OpenTruncating(s) ==
  /\ phase[s] = "tailed"
  /\ exists' = TRUE
  /\ file' = <<>>
  /\ Goto(s, "open", {})
  /\ UNCHANGED <<legacy, last, serial, acked>>

Open(s) ==
  /\ phase[s] = "tailed"
  /\ exists' = TRUE
  /\ Goto(s, "open", {})
  /\ UNCHANGED <<legacy, file, last, serial, acked>>

\* Bytes appended to an unfinished line become part of that line, which does
\* not parse any more.
Appended(line) ==
  IF file # <<>> /\ ~file[Len(file)].ended
    THEN [file EXCEPT ![Len(file)] = [Garbage EXCEPT !.ended = line.ended]]
    ELSE Append(file, line)

NextRecord(s) == [by |-> s, hash |-> serial + 1, prev |-> last[s],
                  whole |-> TRUE, ended |-> TRUE]

\* The bound on the number of records.
MayWrite(s) == phase[s] = "open" /\ serial < FirstSerial + RecordBound

\* Defect: the sink forgets to remember the hash it wrote.
WriteForgetful(s) ==
  /\ MayWrite(s)
  /\ serial' = serial + 1
  /\ file' = Appended(NextRecord(s))
  /\ acked' = acked \cup {NextRecord(s)}
  /\ Goto(s, "open", {})
  /\ UNCHANGED <<legacy, exists, last>>

Write(s) ==
  /\ MayWrite(s)
  /\ serial' = serial + 1
  /\ file' = Appended(NextRecord(s))
  /\ last' = [last EXCEPT ![s] = serial + 1]
  /\ acked' = acked \cup {NextRecord(s)}
  /\ Goto(s, "open", {})
  /\ UNCHANGED <<legacy, exists>>

\* Write returning an error, or the process killed inside it: nothing of the
\* line, or a part of it, possibly all but the newline, is in the file.
ShortWrite(s) ==
  /\ MayWrite(s)
  /\ serial' = serial + 1
  /\ \/ UNCHANGED file
     \/ \E whole \in BOOLEAN :
          file' = Appended([NextRecord(s) EXCEPT !.whole = whole, !.ended = FALSE])
  /\ Goto(s, "open", {"short_write"})
  /\ UNCHANGED <<legacy, exists, last, acked>>

\* The session closes the log, fails for another reason, or is killed.
End(s) ==
  /\ phase[s] \notin {"new", "truncated", "ended"}
  /\ Goto(s, "ended", {})
  /\ UNCHANGED <<legacy, exists, file, last, serial, acked>>

Next ==
  \E s \in Sessions :
    \/ Resolve(s) \/ CopyTruncate(s) \/ CopyWrite(s) \/ CopyCut(s)
    \/ ReadTail(s) \/ RefuseTail(s) \/ Open(s)
    \/ Write(s) \/ ShortWrite(s) \/ End(s)

Spec == Init /\ [][Next]_vars

-----------------------------------------------------------------------------
(***************************************************************************)
(* Properties.                                                             *)
(***************************************************************************)
TypeOK ==
  /\ legacy \in Seq(Line)
  /\ exists \in BOOLEAN
  /\ file \in Seq(Line)
  /\ file # <<>> => exists
  /\ phase \in [Sessions -> Phases]
  /\ last \in [Sessions -> Nat]
  /\ serial \in Nat
  /\ acked \subseteq Line
  /\ disturbed \subseteq Disturbances

InFile(line) == \E i \in 1..Len(file) : file[i] = line

\* evidence.go NewJSONLSink: sessions one after the other, each of them ending
\* or killed at any point between its writes, leave one continuous chain that
\* whole-file verification accepts.
SessionsChain == disturbed \cap {"overlap", "short_write", "cut_copy"} = {} => Verifies(file)

\* evidence.go Write over run_cmd.go loadRunEvidence: whenever the log can be
\* read at all, the records of one session verify as a segment, whatever other
\* sessions wrote between them and even after a copy of the legacy log threw
\* some of them away; an honest run is never taken for a tampered one.
EachSessionChains ==
  Loadable(file) =>
    \A i, j \in 1..Len(file) :
      /\ i < j
      /\ file[i].by = file[j].by
      /\ file[i].by # Legacy
      /\ \A k \in (i + 1)..(j - 1) : file[k].by # file[i].by
      => file[j].prev = file[i].hash

\* evidence.go Write: a record whose Write returned without an error stays in
\* the log and readable, also when sessions overlap, as long as no write was cut
\* short and no late copy of the legacy log replaced the file.
AcknowledgedStay ==
  disturbed \cap {"short_write", "cut_copy", "clobber"} = {} => \A line \in acked : InFile(line)

\* cli.go ResolveEvidencePath: once there is a log, it continues an intact
\* legacy log, unless the copy was cut or sessions overlapped.
LegacyContinues ==
  disturbed \cap {"overlap", "cut_copy", "short_write"} = {}
    /\ exists /\ legacy # <<>> /\ Verifies(legacy)
    /\ (\A s \in Sessions : phase[s] # "truncated") =>
    /\ Len(file) >= Len(legacy)
    /\ \A i \in 1..Len(legacy) : file[i] = legacy[i]

Without(log, i) == [k \in 1..Len(log) - 1 |-> IF k < i THEN log[k] ELSE log[k + 1]]

\* evidence.go Record: in a log that verifies, a record that is neither the
\* first nor the last cannot be missing without verification noticing.  That the
\* first one can is contrary to what evidence.go and SECURITY.md say of every
\* record (evidence.go VerifyChain, which starts from that record's own word).
DeletionShows ==
  Verifies(file) => \A i \in 2..Len(file) - 1 : ~Verifies(Without(file, i))

\* What evidence.go says of NewJSONLSink: "one file is one continuous chain
\* across every process that ever appended to it".
OneContinuousChain == Loadable(file) => Verifies(file)
=============================================================================
