------------------------------- MODULE Limits -------------------------------
(***************************************************************************)
(* The per-run usage bounds (internal/limits): a total tool-call budget, a *)
(* cap on consecutive identical calls and a cap on consecutive failures.   *)
(* One tracker serves every tool call of a run; calls of one batch run     *)
(* concurrently, so OnBegin and OnFinish of different calls interleave in  *)
(* any order, each of them atomic under the tracker's mutex.               *)
(*                                                                         *)
(* cause is the cancel cause of the run context.  The tracker, the plan    *)
(* guard and the deadline all try to set it and the first one wins, which  *)
(* is what context.WithCancelCause does.                                   *)
(*                                                                         *)
(* admitted and finished are history variables: the calls OnBegin let      *)
(* through and the executions OnFinish saw, in order.  The code keeps only *)
(* the counters; the properties say that the counters mean what they       *)
(* should of the history.                                                  *)
(***************************************************************************)
EXTENDS Integers, Sequences, FiniteSets

CONSTANTS
  Requests,                \* what a call asks for: a tool and its arguments
  MaxToolCalls,            \* 0 disables the bound, as in the code
  MaxRepeatedIdentical,    \* 0 disables the bound
  MaxConsecutiveFailures   \* 0 disables the bound

\* lastKey before the first call: the empty string is no call's signature.
NoRequest == ""

ASSUME LimitsAssumption ==
  /\ MaxToolCalls \in Nat
  /\ MaxRepeatedIdentical \in Nat
  /\ MaxConsecutiveFailures \in Nat
  /\ NoRequest \notin Requests

\* The names of limits.go, the other cancel causes of a run, and their absence.
LimitNames == {"max_tool_calls", "max_repeated_identical", "max_consecutive_failures"}
OtherCauses == {"plan_invalidated", "timeout"}
None == "none"
Executions == {"ok", "error", "denied", "aborted"}

VARIABLES
  total,      \* calls counted against the budget
  lastKey,    \* the last counted request, or NoRequest
  streak,     \* how many of the last counted calls were lastKey
  fails,      \* calls finished without "ok" since the last "ok"
  tripped,    \* the exhausted limit, or None
  cause,      \* cancel cause of the run context, or None
  admitted,   \* history: requests OnBegin let through
  finished    \* history: execution values OnFinish saw

limitVars == <<total, lastKey, streak, fails, tripped, cause, admitted, finished>>

LimitsInit ==
  /\ total = 0
  /\ lastKey = NoRequest
  /\ streak = 0
  /\ fails = 0
  /\ tripped = None
  /\ cause = None
  /\ admitted = <<>>
  /\ finished = <<>>

-----------------------------------------------------------------------------
(***************************************************************************)
(* The operations of the tracker.                                          *)
(***************************************************************************)

\* Cancel the run context: only the first cause is kept.
CancelWith(c) == cause' = IF cause = None THEN c ELSE cause

Trip(limit) == tripped' = limit /\ CancelWith(limit)

\* Defects: bounds off by one.
BudgetOffByOne(n) == MaxToolCalls > 0 /\ n > MaxToolCalls + 1
RepeatedOffByOne(n) == MaxRepeatedIdentical > 0 /\ n > MaxRepeatedIdentical + 1

OverBudget(n) == MaxToolCalls > 0 /\ n > MaxToolCalls
Repeats(req) == IF req = lastKey THEN streak + 1 ELSE 1
OverRepeated(n) == MaxRepeatedIdentical > 0 /\ n > MaxRepeatedIdentical
OverFailures(n) == MaxConsecutiveFailures > 0 /\ n >= MaxConsecutiveFailures

\* OnBegin returning nil: the call is counted and may go on.
OnBeginAdmit(req) ==
  /\ tripped = None
  /\ ~OverBudget(total + 1)
  /\ ~OverRepeated(Repeats(req))
  /\ total' = total + 1
  /\ lastKey' = req
  /\ streak' = Repeats(req)
  /\ admitted' = Append(admitted, req)
  /\ UNCHANGED <<fails, tripped, cause, finished>>

\* OnBegin returning an error: a limit had tripped, or this call trips one.
\* The budget check comes before the request is looked at.
OnBeginAfterTrip == tripped # None /\ UNCHANGED limitVars

OnBeginOverBudget ==
  /\ tripped = None
  /\ OverBudget(total + 1)
  /\ total' = total + 1
  /\ Trip("max_tool_calls")
  /\ UNCHANGED <<lastKey, streak, fails, admitted, finished>>

OnBeginRepeated(req) ==
  /\ tripped = None
  /\ ~OverBudget(total + 1)
  /\ OverRepeated(Repeats(req))
  /\ total' = total + 1
  /\ lastKey' = req
  /\ streak' = Repeats(req)
  /\ Trip("max_repeated_identical")
  /\ UNCHANGED <<fails, admitted, finished>>

OnBeginRefuse(req) == OnBeginAfterTrip \/ OnBeginOverBudget \/ OnBeginRepeated(req)

\* Defect: a success does not end the run of failures.
OnFinishOkForgets ==
  /\ finished' = Append(finished, "ok")
  /\ UNCHANGED <<total, lastKey, streak, fails, tripped, cause, admitted>>

OnFinishOk ==
  /\ fails' = 0
  /\ finished' = Append(finished, "ok")
  /\ UNCHANGED <<total, lastKey, streak, tripped, cause, admitted>>

\* Defect: a later limit takes the place of the one that tripped.
OnFinishNotOkAgain(execution) ==
  /\ fails' = fails + 1
  /\ finished' = Append(finished, execution)
  /\ IF OverFailures(fails + 1)
       THEN Trip("max_consecutive_failures")
       ELSE UNCHANGED <<tripped, cause>>
  /\ UNCHANGED <<total, lastKey, streak, admitted>>

OnFinishNotOk(execution) ==
  /\ fails' = fails + 1
  /\ finished' = Append(finished, execution)
  /\ IF tripped = None /\ OverFailures(fails + 1)
       THEN Trip("max_consecutive_failures")
       ELSE UNCHANGED <<tripped, cause>>
  /\ UNCHANGED <<total, lastKey, streak, admitted>>

OnFinish(execution) ==
  \/ execution = "ok" /\ OnFinishOk
  \/ execution # "ok" /\ OnFinishNotOk(execution)

\* The run context is cancelled by the plan guard or by the deadline.
CancelElsewhere(c) ==
  /\ CancelWith(c)
  /\ UNCHANGED <<total, lastKey, streak, fails, tripped, admitted, finished>>

-----------------------------------------------------------------------------
(***************************************************************************)
(* The tracker alone, driven by any interleaving of calls.                 *)
(***************************************************************************)
LimitsNext ==
  \/ \E req \in Requests : OnBeginAdmit(req) \/ OnBeginRefuse(req)
  \/ \E execution \in Executions : OnFinish(execution)
  \/ \E c \in OtherCauses : CancelElsewhere(c)

LimitsSpec == LimitsInit /\ [][LimitsNext]_limitVars

LimitsTypeOK ==
  /\ total \in Nat
  /\ lastKey \in Requests \cup {NoRequest}
  /\ streak \in Nat
  /\ fails \in Nat
  /\ tripped \in LimitNames \cup {None}
  /\ cause \in LimitNames \cup OtherCauses \cup {None}
  /\ admitted \in Seq(Requests)
  /\ finished \in Seq(Executions)

-----------------------------------------------------------------------------
(***************************************************************************)
(* Properties.                                                             *)
(***************************************************************************)

\* limits.go Tracker: until a limit trips, the counters say of the history what
\* they are meant to: every admitted call is counted, lastKey and streak are
\* the last request and the length of its run, and fails is the length of the
\* run of failures the finished calls end with.  The limits are decided on the
\* counters alone, so everything below rests on this.
StreakMatches ==
  LET n == Len(admitted) IN
  /\ total = n
  /\ MaxRepeatedIdentical > 0 => streak <= MaxRepeatedIdentical
  /\ streak <= n
  /\ n > 0 => streak > 0 /\ lastKey = admitted[n]
  /\ \A i \in 1..n : i > n - streak => admitted[i] = lastKey
  /\ streak < n => admitted[n - streak] # lastKey

FailsMatch ==
  LET m == Len(finished) IN
  /\ fails <= m
  /\ \A i \in 1..m : i > m - fails => finished[i] # "ok"
  /\ fails < m => finished[m - fails] = "ok"

CountersMatchHistory ==
  /\ tripped = None => StreakMatches
  /\ FailsMatch
  /\ tripped = None /\ MaxConsecutiveFailures > 0 => fails < MaxConsecutiveFailures

\* limits.go OnBegin: never more than MaxToolCalls calls get past the budget,
\* whatever is asked for, however the calls fail and interleave.
WithinBudget == MaxToolCalls > 0 => Len(admitted) <= MaxToolCalls

\* limits.go OnBegin: no MaxRepeatedIdentical + 1 consecutive admitted calls
\* are the same request (the stuck-loop bound), although only the last
\* request and a counter are kept.
NoStuckLoop ==
  MaxRepeatedIdentical > 0 =>
    \A i \in 1..Len(admitted) :
      i + MaxRepeatedIdentical <= Len(admitted) =>
        \E j \in i..(i + MaxRepeatedIdentical) : admitted[j] # admitted[i]

\* limits.go OnFinish: while no limit has tripped, fewer than
\* MaxConsecutiveFailures of the last finished calls are all failures or
\* denials, however the calls of a batch finished.
NoFlailing ==
  MaxConsecutiveFailures > 0 /\ tripped = None =>
    \/ Len(finished) < MaxConsecutiveFailures
    \/ \E i \in (Len(finished) - MaxConsecutiveFailures + 1)..Len(finished) :
         finished[i] = "ok"

\* limits.go Tracker: the three bounds together.  They bound what the history
\* shows, while the code decides them on counters that calls of one batch raise
\* and reset in any order.
LimitsHold == WithinBudget /\ NoStuckLoop /\ NoFlailing

\* limits.go trip: an exhausted limit always leaves the run context cancelled.
TripCancelsRun == tripped # None => cause # None

\* limits.go, package comment: a tripped limit is terminal. Once one has
\* tripped nothing more is admitted, and the limit and the cancel cause
\* reported for the run do not change any more.
TripIsTerminal ==
  [][tripped # None => UNCHANGED <<tripped, admitted, cause>>]_limitVars
=============================================================================
