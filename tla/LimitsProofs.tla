---------------------------- MODULE LimitsProofs ----------------------------
(***************************************************************************)
(* Proofs about the usage tracker, for every value of the three limits and *)
(* every set of requests.                                                  *)
(*                                                                         *)
(* The inductive invariant adds to the type invariant that the counters    *)
(* describe the history.  Without it neither limit is inductive: streak    *)
(* and fails could have any value when the next call arrives.              *)
(***************************************************************************)
EXTENDS Limits, TLAPS

LimitsInv ==
  /\ LimitsTypeOK
  /\ CountersMatchHistory
  /\ WithinBudget
  /\ NoStuckLoop
  /\ TripCancelsRun

\* Appending to a history keeps its entries and adds one at its end.
LEMMA AppendEntries ==
  ASSUME NEW S, NEW s \in Seq(S), NEW e \in S
  PROVE  /\ Append(s, e) \in Seq(S)
         /\ Len(Append(s, e)) = Len(s) + 1
         /\ Append(s, e)[Len(s) + 1] = e
         /\ \A i \in 1..Len(s) : Append(s, e)[i] = s[i]
  OBVIOUS

\* The tracker starts with the invariant.
LEMMA LimitsInitInv == LimitsAssumption /\ LimitsInit => LimitsInv
  BY DEF LimitsAssumption, LimitsInit, LimitsInv, LimitsTypeOK, CountersMatchHistory,
         StreakMatches, FailsMatch, WithinBudget, NoStuckLoop, TripCancelsRun,
         LimitNames, OtherCauses, None

\* OnBegin letting a call through preserves the invariant.
LEMMA OnBeginAdmitInv ==
  ASSUME LimitsAssumption, LimitsInv, NEW req \in Requests, OnBeginAdmit(req)
  PROVE  LimitsInv'
<1> DEFINE n == Len(admitted)
           R == MaxRepeatedIdentical
<1> USE DEF LimitsAssumption, LimitsInv
<1>1. /\ admitted' = Append(admitted, req)
      /\ total' = total + 1
      /\ lastKey' = req
      /\ streak' = IF req = lastKey THEN streak + 1 ELSE 1
      /\ tripped = None
      /\ UNCHANGED <<fails, tripped, cause, finished>>
      /\ MaxToolCalls > 0 => total + 1 <= MaxToolCalls
      /\ R > 0 => streak' <= R
  BY DEF OnBeginAdmit, Repeats, OverBudget, OverRepeated, LimitsTypeOK
<1>2. /\ admitted' \in Seq(Requests)
      /\ Len(admitted') = n + 1
      /\ admitted'[n + 1] = req
      /\ \A i \in 1..n : admitted'[i] = admitted[i]
      /\ n \in Nat
  BY <1>1, AppendEntries DEF LimitsTypeOK
<1>3. LimitsTypeOK'
  BY <1>1, <1>2 DEF LimitsTypeOK
<1>4. StreakMatches
  BY <1>1 DEF CountersMatchHistory
<1>5. StreakMatches'
  <2>1. streak' <= n + 1 /\ streak' > 0 /\ streak' \in Nat
    BY <1>1, <1>2, <1>4 DEF StreakMatches, LimitsTypeOK
  <2>2. ASSUME NEW i \in 1..(n + 1), i > n + 1 - streak'
        PROVE  admitted'[i] = req
    <3>1. CASE i = n + 1
      BY <1>2, <3>1
    <3>2. CASE i # n + 1 /\ req = lastKey
      BY <1>1, <1>2, <1>4, <2>2, <3>2 DEF StreakMatches, LimitsTypeOK
    <3>3. CASE i # n + 1 /\ req # lastKey
      BY <1>1, <1>2, <2>2, <3>3
    <3>4. QED
      BY <3>1, <3>2, <3>3
  <2>3. ASSUME streak' < n + 1
        PROVE  admitted'[n + 1 - streak'] # req
    <3>1. CASE req = lastKey
      <4>1. streak < n /\ n + 1 - streak' = n - streak /\ n - streak \in 1..n
        BY <1>1, <1>2, <1>4, <2>3, <3>1 DEF StreakMatches, LimitsTypeOK
      <4>2. QED
        BY <1>2, <1>4, <3>1, <4>1 DEF StreakMatches
    <3>2. CASE req # lastKey
      <4>1. n > 0 /\ n + 1 - streak' = n
        BY <1>1, <1>2, <2>3, <3>2
      <4>2. QED
        BY <1>2, <1>4, <3>2, <4>1 DEF StreakMatches
    <3>3. QED
      BY <3>1, <3>2
  <2>4. total' = n + 1
    BY <1>1, <1>4 DEF StreakMatches
  <2>5. QED
    BY <1>1, <1>2, <2>1, <2>2, <2>3, <2>4 DEF StreakMatches
<1>6. CountersMatchHistory'
  BY <1>1, <1>5 DEF CountersMatchHistory, FailsMatch
<1>7. WithinBudget'
  BY <1>1, <1>2, <1>4 DEF WithinBudget, StreakMatches
<1>8. NoStuckLoop'
  <2> SUFFICES ASSUME R > 0, NEW i \in 1..(n + 1), i + R <= n + 1
               PROVE  \E j \in i..(i + R) : admitted'[j] # admitted'[i]
    BY <1>2 DEF NoStuckLoop
  <2>1. CASE i + R <= n
    <3>1. i \in 1..n /\ R \in Nat
      BY <1>2, <2>1
    <3>2. PICK j \in i..(i + R) : admitted[j] # admitted[i]
      BY <2>1, <3>1 DEF NoStuckLoop
    <3>3. j \in 1..n
      BY <1>2, <2>1, <3>1
    <3>4. QED
      BY <1>2, <3>1, <3>2, <3>3
  <2>2. CASE i + R = n + 1
    <3>1. streak' < n + 1 /\ streak' \in Nat
      BY <1>1, <1>3, <2>2 DEF LimitsTypeOK
    <3>2. admitted'[n + 1 - streak'] # admitted'[n + 1]
      <4>1. Len(admitted') = n + 1 /\ n \in Nat
        BY <1>1, <1>2
      <4>2. lastKey' = admitted'[n + 1] /\ admitted'[n + 1 - streak'] # lastKey'
        BY <1>5, <3>1, <4>1 DEF StreakMatches
      <4>3. QED
        BY <4>2
    <3>3. n + 1 - streak' \in i..(i + R) /\ n + 1 \in i..(i + R)
      BY <1>1, <1>2, <1>5, <2>2, <3>1 DEF StreakMatches
    <3>4. QED
      BY <3>2, <3>3
  <2>3. QED
    BY <1>2, <2>1, <2>2
<1>9. TripCancelsRun'
  BY <1>1 DEF TripCancelsRun
<1>10. QED
  BY <1>3, <1>6, <1>7, <1>8, <1>9

\* OnBegin refusing a call preserves the invariant: nothing is admitted, and
\* a trip cancels the run.
LEMMA OnBeginRefuseInv ==
  ASSUME LimitsAssumption, LimitsInv, NEW req \in Requests, OnBeginRefuse(req)
  PROVE  LimitsInv'
<1> USE DEF LimitsAssumption, LimitsInv
<1>1. CASE OnBeginAfterTrip
  BY <1>1 DEF OnBeginAfterTrip, limitVars, LimitsTypeOK, CountersMatchHistory,
         StreakMatches, FailsMatch, WithinBudget, NoStuckLoop, TripCancelsRun
<1>2. CASE OnBeginOverBudget \/ OnBeginRepeated(req)
  <2>1. /\ total' \in Nat /\ streak' \in Nat /\ lastKey' \in Requests \cup {NoRequest}
        /\ tripped' \in LimitNames /\ tripped' # None
        /\ cause' = IF cause = None THEN tripped' ELSE cause
        /\ UNCHANGED <<fails, admitted, finished>>
    BY <1>2 DEF OnBeginOverBudget, OnBeginRepeated, Trip, CancelWith, Repeats,
           LimitsTypeOK, LimitNames, None
  <2>2. QED
    BY <2>1 DEF LimitsTypeOK, CountersMatchHistory, FailsMatch, WithinBudget,
           NoStuckLoop, TripCancelsRun
<1>3. QED
  BY <1>1, <1>2 DEF OnBeginRefuse

\* OnFinish preserves the invariant.
LEMMA OnFinishInv ==
  ASSUME LimitsAssumption, LimitsInv, NEW execution \in Executions, OnFinish(execution)
  PROVE  LimitsInv'
<1> DEFINE m == Len(finished)
<1> USE DEF LimitsAssumption, LimitsInv
<1>1. /\ finished' = Append(finished, execution)
      /\ fails' = IF execution = "ok" THEN 0 ELSE fails + 1
      /\ UNCHANGED <<total, lastKey, streak, admitted>>
      /\ \/ tripped' = tripped /\ cause' = cause
         \/ /\ tripped' = "max_consecutive_failures"
            /\ cause' = IF cause = None THEN tripped' ELSE cause
      /\ tripped' = None /\ MaxConsecutiveFailures > 0 => fails' < MaxConsecutiveFailures
  BY DEF OnFinish, OnFinishOk, OnFinishNotOk, Trip, CancelWith, OverFailures,
         LimitsTypeOK, None
<1>2. /\ finished' \in Seq(Executions)
      /\ Len(finished') = m + 1
      /\ finished'[m + 1] = execution
      /\ \A i \in 1..m : finished'[i] = finished[i]
      /\ m \in Nat
  BY <1>1, AppendEntries DEF LimitsTypeOK
<1>3. LimitsTypeOK'
  BY <1>1, <1>2 DEF LimitsTypeOK, LimitNames
<1>4. FailsMatch'
  <2>1. CASE execution = "ok"
    BY <1>1, <1>2, <2>1 DEF FailsMatch
  <2>2. CASE execution # "ok"
    <3>1. fails' = fails + 1 /\ fails \in Nat /\ FailsMatch
      BY <1>1, <2>2 DEF LimitsTypeOK, CountersMatchHistory
    <3>2. \A i \in 1..(m + 1) : i > m - fails => finished'[i] # "ok"
      BY <1>2, <2>2, <3>1 DEF FailsMatch
    <3>3. fails < m => m - fails \in 1..m
      BY <1>2, <3>1
    <3>4. QED
      BY <1>2, <3>1, <3>2, <3>3 DEF FailsMatch
  <2>3. QED
    BY <2>1, <2>2
<1>5. tripped' = None => tripped = None
  BY <1>1 DEF None
<1>6. CountersMatchHistory'
  BY <1>1, <1>4, <1>5 DEF CountersMatchHistory, StreakMatches
<1>7. WithinBudget' /\ NoStuckLoop'
  BY <1>1 DEF WithinBudget, NoStuckLoop
<1>8. TripCancelsRun'
  BY <1>1 DEF TripCancelsRun, None
<1>9. QED
  BY <1>3, <1>6, <1>7, <1>8

\* Cancelling the run for another reason preserves the invariant.
LEMMA CancelElsewhereInv ==
  ASSUME LimitsInv, NEW c \in OtherCauses, CancelElsewhere(c)
  PROVE  LimitsInv'
<1>1. /\ cause' = IF cause = None THEN c ELSE cause
      /\ UNCHANGED <<total, lastKey, streak, fails, tripped, admitted, finished>>
      /\ c # None
  BY DEF CancelElsewhere, CancelWith, OtherCauses, None
<1>2. QED
  BY <1>1 DEF LimitsInv, LimitsTypeOK, CountersMatchHistory, StreakMatches, FailsMatch,
         WithinBudget, NoStuckLoop, TripCancelsRun

\* A step that leaves the tracker alone preserves the invariant.
LEMMA LimitsStutterInv ==
  ASSUME LimitsInv, UNCHANGED limitVars
  PROVE  LimitsInv'
  BY DEF LimitsInv, limitVars, LimitsTypeOK, CountersMatchHistory, StreakMatches,
         FailsMatch, WithinBudget, NoStuckLoop, TripCancelsRun

\* Every step of the tracker preserves the invariant.
LEMMA LimitsNextInv ==
  ASSUME LimitsAssumption, LimitsInv, [LimitsNext]_limitVars
  PROVE  LimitsInv'
<1>1. CASE UNCHANGED limitVars
  BY <1>1, LimitsStutterInv
<1>2. ASSUME NEW req \in Requests, OnBeginAdmit(req) \/ OnBeginRefuse(req)
      PROVE  LimitsInv'
  BY <1>2, OnBeginAdmitInv, OnBeginRefuseInv
<1>3. ASSUME NEW execution \in Executions, OnFinish(execution)
      PROVE  LimitsInv'
  BY <1>3, OnFinishInv
<1>4. ASSUME NEW c \in OtherCauses, CancelElsewhere(c)
      PROVE  LimitsInv'
  BY <1>4, CancelElsewhereInv
<1>5. QED
  BY <1>1, <1>2, <1>3, <1>4 DEF LimitsNext

\* The tracker's invariant holds in every state of every run.
LEMMA LimitsInvariance == LimitsSpec => []LimitsInv
<1>1. LimitsInit => LimitsInv
  BY LimitsInitInv, LimitsAssumption
<1>2. LimitsInv /\ [LimitsNext]_limitVars => LimitsInv'
  BY LimitsNextInv, LimitsAssumption
<1>3. QED
  BY <1>1, <1>2, PTL DEF LimitsSpec

\* limits.go Tracker: the counters describe the history of calls.
THEOREM CountersCorrect == LimitsSpec => []CountersMatchHistory
<1>1. LimitsInv => CountersMatchHistory
  BY DEF LimitsInv
<1>2. QED
  BY <1>1, LimitsInvariance, PTL

\* limits.go OnBegin: at most MaxToolCalls calls get past the budget.
THEOREM BudgetHolds == LimitsSpec => []WithinBudget
<1>1. LimitsInv => WithinBudget
  BY DEF LimitsInv
<1>2. QED
  BY <1>1, LimitsInvariance, PTL

\* limits.go OnBegin: no request is admitted more than MaxRepeatedIdentical
\* times in a row.
THEOREM StuckLoopStops == LimitsSpec => []NoStuckLoop
<1>1. LimitsInv => NoStuckLoop
  BY DEF LimitsInv
<1>2. QED
  BY <1>1, LimitsInvariance, PTL

\* limits.go OnFinish: MaxConsecutiveFailures failures in a row trip the limit.
THEOREM FlailingStops == LimitsSpec => []NoFlailing
<1>1. LimitsAssumption /\ LimitsInv => NoFlailing
  <2> SUFFICES ASSUME LimitsAssumption, LimitsInv,
                      MaxConsecutiveFailures > 0, tripped = None,
                      Len(finished) >= MaxConsecutiveFailures
               PROVE  \E i \in (Len(finished) - MaxConsecutiveFailures + 1)..Len(finished) :
                        finished[i] = "ok"
    BY DEF NoFlailing, LimitsInv, LimitsTypeOK, LimitsAssumption
  <2>1. fails < MaxConsecutiveFailures /\ FailsMatch
    BY DEF LimitsInv, CountersMatchHistory
  <2>2. /\ fails < Len(finished)
        /\ Len(finished) - fails
             \in (Len(finished) - MaxConsecutiveFailures + 1)..Len(finished)
    BY <2>1 DEF LimitsInv, LimitsTypeOK, LimitsAssumption
  <2>3. QED
    BY <2>1, <2>2 DEF FailsMatch
<1>2. QED
  BY <1>1, LimitsAssumption, LimitsInvariance, PTL

\* limits.go Tracker: the three bounds together.
THEOREM BoundsHold == LimitsSpec => []LimitsHold
<1>1. WithinBudget /\ NoStuckLoop /\ NoFlailing => LimitsHold
  BY DEF LimitsHold
<1>2. QED
  BY <1>1, BudgetHolds, StuckLoopStops, FlailingStops, PTL

\* limits.go, package comment: a tripped limit is terminal.
THEOREM TripTerminal == LimitsSpec => TripIsTerminal
<1>1. LimitsInv /\ [LimitsNext]_limitVars
        => [tripped # None => UNCHANGED <<tripped, admitted, cause>>]_limitVars
  <2> SUFFICES ASSUME LimitsInv, LimitsNext, tripped # None
               PROVE  UNCHANGED <<tripped, admitted, cause>>
    OBVIOUS
  <2>1. cause # None
    BY DEF LimitsInv, TripCancelsRun
  <2>2. QED
    BY <2>1 DEF LimitsNext, OnBeginAdmit, OnBeginRefuse, OnBeginAfterTrip, limitVars,
           OnBeginOverBudget, OnBeginRepeated, OnFinish, OnFinishOk, OnFinishNotOk,
           CancelElsewhere, CancelWith
<1>2. QED
  BY <1>1, LimitsInvariance, PTL DEF LimitsSpec, TripIsTerminal
=============================================================================
