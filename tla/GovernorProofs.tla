--------------------------- MODULE GovernorProofs ---------------------------
(***************************************************************************)
(* Proofs about the governed run: for every set of calls and requests, any *)
(* limits, plan, session and approver.                                     *)
(*                                                                         *)
(* A property such as VarianceNeedsHuman speaks of calls that acted; what  *)
(* a call is allowed to do is decided several steps before it acts, with   *)
(* steps of other calls in between.  The inductive invariant therefore     *)
(* says of every stage of a ticket what has been established by then, and  *)
(* of every record that it still agrees with its ticket.                   *)
(***************************************************************************)
EXTENDS Governor, LimitsProofs, FiniteSetTheorems, SequenceTheorems

\* What policy, guard and approver established about an authorized call.
Cleared(t) ==
  /\ PolicyAllows(Risk[t.req])
  /\ Risk[t.req] \in Risky => t.approvedBy \in {"auto", "prompt"}
  /\ UnderPlan =>
       /\ \E i \in 1..Len(admitted) : admitted[i] = t.req
       /\ Risk[t.req] \in Risky =>
            /\ t.ruledAt = StartSHA
            /\ t.req \in Listed \/ t.approvedBy = "prompt"
            /\ ~(Risk[t.req] = "R3" /\ t.req \in Forbidden)

\* What policy and guard established about a call waiting for its approval.
AwaitingApproval(t) ==
  /\ PolicyAllows(Risk[t.req])
  /\ UnderPlan =>
       /\ \E i \in 1..Len(admitted) : admitted[i] = t.req
       /\ Risk[t.req] \in Risky =>
            /\ t.ruledAt = StartSHA
            /\ t.req \in Listed \/ t.variance = TRUE
            /\ ~(Risk[t.req] = "R3" /\ t.req \in Forbidden)

TicketInv(t) ==
  /\ t.stage # "unused" => t.req \in Requests
  /\ t.stage \in {"unused", "begin", "ruling", "approval"} =>
       /\ t.authorization = None /\ t.execution = None
       /\ t.effectAt = None /\ ~t.emitted
  /\ t.stage = "ruling" /\ UnderPlan => \E i \in 1..Len(admitted) : admitted[i] = t.req
  /\ t.stage = "approval" => AwaitingApproval(t)
  /\ t.stage = "effect" =>
       /\ t.authorization = "allowed" /\ t.execution = None
       /\ t.effectAt = None /\ ~t.emitted
  /\ t.authorization = "allowed" => Cleared(t)
  /\ t.effectAt # None => t.authorization = "allowed"
  /\ t.execution = "ok" => t.effectAt # None
  /\ t.execution = "denied" => t.authorization = "denied"
  /\ t.emitted <=> \/ t.stage \in {"settle", "done"}
                   \/ t.stage = "return" /\ t.execution # None
  /\ t.stage \in {"finish", "settle", "done"} => t.execution # None

RecordInv(r) ==
  /\ ticket[r.call].emitted
  /\ r.authorization = ticket[r.call].authorization
  /\ r.execution = ticket[r.call].execution

EvidenceInv ==
  /\ \A i \in 1..Len(evidence) : RecordInv(evidence[i])
  /\ \A i, j \in 1..Len(evidence) : i # j => evidence[i].call # evidence[j].call
  /\ ~SinkFaults => \A c \in Calls : ticket[c].emitted => Recorded(c)

CallsInv ==
  /\ ticket \in [Calls -> Ticket]
  /\ \A c \in Calls : TicketInv(ticket[c])
  /\ EvidenceInv

GovernorInv == TypeOK /\ CallsInv

-----------------------------------------------------------------------------
(***************************************************************************)
(* Steps of one call.                                                      *)
(***************************************************************************)

\* What is known about a request that was admitted stays known.
AdmittedKept ==
  \A req \in Requests :
    (\E i \in 1..Len(admitted) : admitted[i] = req)
      => (\E i \in 1..Len(admitted') : admitted'[i] = req)

LEMMA AdmittedUnchanged == ASSUME UNCHANGED limitVars PROVE AdmittedKept
  BY DEF AdmittedKept, limitVars

LEMMA AdmittedAppend ==
  ASSUME LimitsTypeOK, NEW req \in Requests, OnBeginAdmit(req)
  PROVE  AdmittedKept /\ \E i \in 1..Len(admitted') : admitted'[i] = req
<1>1. admitted' = Append(admitted, req) /\ admitted \in Seq(Requests)
  BY DEF OnBeginAdmit, LimitsTypeOK
<1>2. /\ Len(admitted') = Len(admitted) + 1
      /\ admitted'[Len(admitted) + 1] = req
      /\ \A i \in 1..Len(admitted) : admitted'[i] = admitted[i]
      /\ Len(admitted) \in Nat
  BY <1>1, AppendEntries
<1>3. Len(admitted) + 1 \in 1..Len(admitted')
      /\ \A i \in 1..Len(admitted) : i \in 1..Len(admitted')
  BY <1>2
<1>4. QED
  BY <1>2, <1>3 DEF AdmittedKept

\* A step of one call leaves what is known about the other calls alone.
LEMMA TicketStep ==
  ASSUME TypeOK, \A d \in Calls : TicketInv(ticket[d]),
         NEW c \in Calls, NEW t \in Ticket, Becomes(c, t), TicketInv(t)',
         session' = session, AdmittedKept
  PROVE  /\ ticket' \in [Calls -> Ticket]
         /\ \A d \in Calls : TicketInv(ticket[d])'
<1>1. ticket' \in [Calls -> Ticket] /\ ticket'[c] = t
      /\ \A d \in Calls : d # c => ticket'[d] = ticket[d]
  BY DEF TypeOK, Becomes
<1>2. ASSUME NEW d \in Calls, d # c
      PROVE  TicketInv(ticket[d])'
  <2>1. ticket'[d] = ticket[d] /\ ticket[d] \in Ticket /\ TicketInv(ticket[d])
    BY <1>1, <1>2 DEF TypeOK
  <2>2. /\ UnderPlan' = UnderPlan
        /\ \A risk : PolicyAllows(risk)' = PolicyAllows(risk)
    BY DEF UnderPlan, PolicyAllows
  <2>3. ticket[d].stage # "unused" => ticket[d].req \in Requests
    BY <2>1 DEF TicketInv
  <2>4. ticket[d].authorization = "allowed" => ticket[d].stage # "unused"
    BY <2>1 DEF TicketInv, None
  <2>5. Cleared(ticket[d]) /\ ticket[d].stage # "unused" => Cleared(ticket[d])'
    BY <2>1, <2>2, <2>3 DEF Cleared, AdmittedKept
  <2>6. AwaitingApproval(ticket[d]) /\ ticket[d].stage # "unused"
          => AwaitingApproval(ticket[d])'
    BY <2>1, <2>2, <2>3 DEF AwaitingApproval, AdmittedKept
  <2>7. QED
    BY <2>1, <2>2, <2>3, <2>4, <2>5, <2>6 DEF TicketInv, AdmittedKept
<1>3. QED
  BY <1>1, <1>2
\* The records still agree with the tickets after a step that neither appends
\* a record nor changes what a recorded ticket says.
LEMMA EvidenceStep ==
  ASSUME TypeOK, EvidenceInv, NEW c \in Calls, NEW t \in Ticket, Becomes(c, t),
         evidence' = evidence,
         t.emitted = ticket[c].emitted,
         t.emitted => /\ t.authorization = ticket[c].authorization
                      /\ t.execution = ticket[c].execution
  PROVE  EvidenceInv'
<1>1. ticket'[c] = t /\ \A d \in Calls : d # c => ticket'[d] = ticket[d]
  BY DEF TypeOK, Becomes
<1>2. \A i \in 1..Len(evidence) : evidence[i].call \in Calls
  <2>1. evidence \in Seq(EvidenceRecord)
    BY DEF TypeOK
  <2>2. \A i \in 1..Len(evidence) : evidence[i] \in EvidenceRecord
    BY <2>1
  <2>3. QED
    BY <2>2 DEF EvidenceRecord
<1>3. ASSUME NEW i \in 1..Len(evidence)
      PROVE  RecordInv(evidence[i])'
  BY <1>1, <1>2 DEF EvidenceInv, RecordInv
<1>4. \A d \in Calls : Recorded(d)' = Recorded(d)
  BY DEF Recorded
<1>5. \A d \in Calls : ticket'[d].emitted = ticket[d].emitted
  BY <1>1
<1>6. QED
  BY <1>3, <1>4, <1>5 DEF EvidenceInv

\* Facts about the tickets every step starts from.
LEMMA TicketFacts ==
  ASSUME TypeOK, NEW c \in Calls
  PROVE  /\ ticket[c] \in Ticket
         /\ NewTicket \in Ticket
         /\ DenyTicket(ticket[c]) \in Ticket
         /\ ticket[c].stage \in Stages
         /\ ticket[c].req \in Requests \cup {NoRequest}
         /\ head \in Heads /\ None \notin Heads
  BY ZenonT(60), GovernorAssumption
     DEF TypeOK, Ticket, NewTicket, DenyTicket, Stages, Executions

\* What denying does to a ticket.
LEMMA DeniedTicket ==
  ASSUME NEW t \in Ticket
  PROVE  /\ DenyTicket(t) \in Ticket
         /\ DenyTicket(t).stage = "finish"
         /\ DenyTicket(t).execution = "denied" /\ DenyTicket(t).authorization = "denied"
         /\ DenyTicket(t).req = t.req /\ DenyTicket(t).effectAt = t.effectAt
         /\ DenyTicket(t).emitted = t.emitted
  BY DEF Ticket, DenyTicket, Executions, Stages

\* A call denied before it was authorized: its ticket is as it should be.
LEMMA DenyStep ==
  ASSUME TypeOK, \A d \in Calls : TicketInv(ticket[d]), EvidenceInv,
         NEW c \in Calls, NEW t \in Ticket,
         t = ticket[c] \/ t = [ticket[c] EXCEPT !.ruledAt = head],
         ticket[c].stage \in {"begin", "ruling", "approval"},
         Becomes(c, DenyTicket(t)),
         session' = session, AdmittedKept, evidence' = evidence
  PROVE  CallsInv'
<1> DEFINE u == DenyTicket(t)
<1>1. /\ u \in Ticket
      /\ u.stage = "finish" /\ u.execution = "denied" /\ u.authorization = "denied"
      /\ u.req = ticket[c].req /\ u.effectAt = ticket[c].effectAt
      /\ u.emitted = ticket[c].emitted
  <2>1. ticket[c] \in Ticket /\ head \in Heads
    BY TicketFacts
  <2>2. /\ t.req = ticket[c].req /\ t.effectAt = ticket[c].effectAt
        /\ t.emitted = ticket[c].emitted
    BY <2>1 DEF Ticket
  <2>3. /\ u \in Ticket
        /\ u.stage = "finish" /\ u.execution = "denied" /\ u.authorization = "denied"
        /\ u.req = t.req /\ u.effectAt = t.effectAt /\ u.emitted = t.emitted
    BY DeniedTicket
  <2>4. QED
    BY <2>2, <2>3
<1>2. /\ TicketInv(ticket[c]) /\ ~u.emitted /\ u.effectAt = None
      /\ u.req \in Requests
  BY <1>1 DEF TicketInv
<1>3. TicketInv(u)'
  BY <1>1, <1>2 DEF TicketInv, None
<1>4. QED
  BY <1>1, <1>2, <1>3, TicketStep, EvidenceStep DEF CallsInv

LEMMA BeginPrecheckedInv ==
  ASSUME GovernorInv, NEW c \in Calls, BeginPrechecked(c)
  PROVE  CallsInv'
<1> USE DEF GovernorInv, CallsInv
<1>1. At(c, "begin") /\ UNCHANGED limitVars /\ session' = session /\ evidence' = evidence
  BY DEF BeginPrechecked
<1>2. AdmittedKept /\ ticket[c] \in Ticket
  BY <1>1, AdmittedUnchanged, TicketFacts
<1>3. CASE Becomes(c, DenyTicket(ticket[c]))
  BY <1>1, <1>2, <1>3, DenyStep DEF At
<1>4. CASE Becomes(c, [ticket[c] EXCEPT !.stage = "finish", !.execution = "error"])
  <2>1. PICK t \in Ticket :
            t = [ticket[c] EXCEPT !.stage = "finish", !.execution = "error"]
    BY <1>2 DEF Ticket, Stages, Executions
  <2>2. /\ t.stage = "finish" /\ t.execution = "error"
        /\ t.req = ticket[c].req /\ t.authorization = ticket[c].authorization
        /\ t.effectAt = ticket[c].effectAt /\ t.emitted = ticket[c].emitted
    BY <1>2, <2>1 DEF Ticket
  <2>3. TicketInv(t)' /\ ~t.emitted
    BY <1>1, <2>2 DEF TicketInv, At, None
  <2>4. QED
    BY <1>1, <1>2, <1>4, <2>1, <2>2, <2>3, TicketStep, EvidenceStep
<1>5. QED
  BY <1>3, <1>4 DEF BeginPrechecked

LEMMA BeginLimitedInv ==
  ASSUME GovernorInv, NEW c \in Calls, BeginLimited(c)
  PROVE  CallsInv'
<1> USE DEF GovernorInv, CallsInv
<1>1. /\ At(c, "begin") /\ session' = session /\ evidence' = evidence
      /\ Becomes(c, DenyTicket(ticket[c]))
  BY DEF BeginLimited
<1>2. admitted' = admitted
  BY DEF BeginLimited, OnBeginRefuse, OnBeginAfterTrip, OnBeginOverBudget,
         OnBeginRepeated, limitVars
<1>3. AdmittedKept /\ ticket[c] \in Ticket
  BY <1>2, TicketFacts DEF AdmittedKept
<1>4. QED
  BY <1>1, <1>3, DenyStep DEF At

LEMMA BeginAdmittedInv ==
  ASSUME GovernorInv, NEW c \in Calls, BeginAdmitted(c)
  PROVE  CallsInv'
<1> USE DEF GovernorInv, CallsInv
<1>0. PICK t \in Ticket : t = [ticket[c] EXCEPT !.stage = "ruling"]
  BY ZenonT(60), TicketFacts DEF Ticket, Stages
<1>1. /\ At(c, "begin") /\ session' = session /\ evidence' = evidence
      /\ Becomes(c, t)
      /\ IF UnderPlan THEN OnBeginAdmit(ticket[c].req) ELSE UNCHANGED limitVars
  BY <1>0 DEF BeginAdmitted
<1>2. ticket[c].req \in Requests /\ TicketInv(ticket[c]) /\ LimitsTypeOK
  BY <1>1 DEF TicketInv, At, TypeOK
<1>3. /\ AdmittedKept
      /\ UnderPlan => \E i \in 1..Len(admitted') : admitted'[i] = ticket[c].req
  BY <1>1, <1>2, AdmittedAppend, AdmittedUnchanged
<1>4. UnderPlan' = UnderPlan
  BY <1>1 DEF UnderPlan
<1>5. /\ t.stage = "ruling" /\ t.execution = ticket[c].execution
      /\ t.req = ticket[c].req /\ t.authorization = ticket[c].authorization
      /\ t.effectAt = ticket[c].effectAt /\ t.emitted = ticket[c].emitted
  BY <1>0, TicketFacts DEF Ticket
<1>6. TicketInv(t)' /\ ~t.emitted
  BY <1>1, <1>2, <1>3, <1>4, <1>5 DEF TicketInv, At, None
<1>7. QED
  BY <1>1, <1>3, <1>5, <1>6, TicketStep, EvidenceStep

LEMMA RuleDeniedInv ==
  ASSUME GovernorInv, NEW c \in Calls, RuleDenied(c)
  PROVE  CallsInv'
<1> USE DEF GovernorInv, CallsInv
<1>1. /\ At(c, "ruling") /\ UNCHANGED limitVars /\ session' = session
      /\ evidence' = evidence /\ Becomes(c, DenyTicket(ticket[c]))
  BY DEF RuleDenied
<1>2. AdmittedKept /\ ticket[c] \in Ticket
  BY <1>1, AdmittedUnchanged, TicketFacts
<1>3. QED
  BY <1>1, <1>2, DenyStep DEF At

LEMMA RuleInvalidatedInv ==
  ASSUME GovernorInv, NEW c \in Calls, RuleInvalidated(c)
  PROVE  CallsInv'
<1> USE DEF GovernorInv, CallsInv
<1> DEFINE t == [ticket[c] EXCEPT !.ruledAt = head]
<1>1. /\ At(c, "ruling") /\ admitted' = admitted /\ session' = session
      /\ evidence' = evidence /\ Becomes(c, DenyTicket(t))
  BY DEF RuleInvalidated, CancelElsewhere
<1>2. AdmittedKept /\ t \in Ticket
  BY <1>1, TicketFacts DEF AdmittedKept, Ticket
<1>3. QED
  BY <1>1, <1>2, DenyStep DEF At

LEMMA RulePermittedInv ==
  ASSUME GovernorInv, NEW c \in Calls, RulePermitted(c)
  PROVE  CallsInv'
<1> USE DEF GovernorInv, CallsInv
<1>0. PICK req, variance, approval :
        /\ req = ticket[c].req
        /\ variance = GuardRequiresApproval(req)
        /\ approval = (PolicyRequiresApproval(Risk[req]) \/ variance)
  OBVIOUS
<1>1. /\ variance \in BOOLEAN /\ approval \in BOOLEAN
      /\ Risk[req] \in Risky => approval
      /\ variance => approval
  BY <1>0 DEF GuardRequiresApproval, PolicyRequiresApproval
<1>2. PICK t \in Ticket :
        t = [ticket[c] EXCEPT
               !.stage = IF approval THEN "approval" ELSE "effect",
               !.authorization = IF approval THEN None ELSE "allowed",
               !.variance = variance,
               !.ruledAt = head]
  BY ZenonT(60), <1>1, TicketFacts DEF Ticket, Stages
<1>3. /\ t.stage = IF approval THEN "approval" ELSE "effect"
      /\ t.authorization = IF approval THEN None ELSE "allowed"
      /\ t.variance = variance /\ t.ruledAt = head /\ t.req = req
      /\ t.execution = ticket[c].execution /\ t.effectAt = ticket[c].effectAt
      /\ t.emitted = ticket[c].emitted
  BY <1>0, <1>2, TicketFacts DEF Ticket
<1>4. /\ At(c, "ruling") /\ PolicyAllows(Risk[req]) /\ ~GuardDenies(req)
      /\ ~HeadMoved(req) /\ Becomes(c, t)
      /\ UNCHANGED <<limitVars, session, evidence>>
  BY <1>0, <1>2 DEF RulePermitted
<1>5. AdmittedKept /\ TicketInv(ticket[c])
  BY <1>4, AdmittedUnchanged
<1>6. /\ req \in Requests /\ t.execution = None /\ t.effectAt = None /\ ~t.emitted
      /\ UnderPlan => \E i \in 1..Len(admitted) : admitted[i] = req
  BY <1>0, <1>3, <1>4, <1>5 DEF TicketInv, At
<1>7. AwaitingApproval(t)'
  BY <1>0, <1>3, <1>4, <1>6
     DEF AwaitingApproval, GuardDenies, HeadMoved, GuardRequiresApproval, UnderPlan,
         PolicyAllows, limitVars
<1>8. ~approval => Cleared(t)'
  BY <1>1, <1>3, <1>4, <1>6 DEF Cleared, UnderPlan, PolicyAllows, limitVars
<1>9. TicketInv(t)'
  BY <1>1, <1>3, <1>6, <1>7, <1>8 DEF TicketInv, None
<1>10. QED
  BY <1>4, <1>5, <1>6, <1>3, <1>9, TicketStep, EvidenceStep

LEMMA ApproveInv ==
  ASSUME GovernorInv, NEW c \in Calls, Approve(c)
  PROVE  CallsInv'
<1> USE DEF GovernorInv, CallsInv
<1>1. session.approver \in Approvers
  BY DEF TypeOK, Session
<1>2. PICK t \in Ticket :
        t = [ticket[c] EXCEPT !.stage = "effect", !.authorization = "allowed",
                              !.approvedBy = session.approver]
  BY ZenonT(60), <1>1, TicketFacts DEF Ticket, Stages
<1>3. /\ t.stage = "effect" /\ t.authorization = "allowed"
      /\ t.approvedBy = session.approver /\ t.variance = ticket[c].variance
      /\ t.ruledAt = ticket[c].ruledAt /\ t.req = ticket[c].req
      /\ t.execution = ticket[c].execution /\ t.effectAt = ticket[c].effectAt
      /\ t.emitted = ticket[c].emitted
  BY <1>2, TicketFacts DEF Ticket
<1>4. /\ At(c, "approval") /\ Becomes(c, t)
      /\ TRUE \in Answers(session.approver, ticket[c].variance)
      /\ UNCHANGED <<limitVars, session, evidence>>
  BY <1>2 DEF Approve
<1>5. AdmittedKept /\ TicketInv(ticket[c])
  BY <1>4, AdmittedUnchanged
<1>6. /\ t.req \in Requests /\ t.execution = None /\ t.effectAt = None /\ ~t.emitted
      /\ AwaitingApproval(ticket[c])
  BY <1>3, <1>4, <1>5 DEF TicketInv, At
<1>7. /\ session.approver \in {"auto", "prompt"}
      /\ session.approver = "auto" => ticket[c].variance = FALSE
  <2>1. ticket[c].variance \in BOOLEAN
    BY ZenonT(60), TicketFacts DEF Ticket
  <2>2. QED
    BY <1>1, <1>4, <2>1 DEF Answers, Approvers
<1>8. Cleared(t)'
  <2>1. session' = session /\ admitted' = admitted
    BY <1>4 DEF limitVars
  <2>2. PolicyAllows(Risk[t.req])
    BY <1>3, <1>6 DEF AwaitingApproval
  <2>3. t.req \in Listed \/ ticket[c].variance = TRUE => t.req \in Listed \/ t.approvedBy = "prompt"
    BY <1>3, <1>7
  <2>4. UnderPlan => \E i \in 1..Len(admitted) : admitted[i] = t.req
    BY <1>3, <1>6 DEF AwaitingApproval
  <2>5. UnderPlan /\ Risk[t.req] \in Risky =>
          /\ t.ruledAt = StartSHA
          /\ t.req \in Listed \/ ticket[c].variance = TRUE
          /\ ~(Risk[t.req] = "R3" /\ t.req \in Forbidden)
    BY <1>3, <1>6 DEF AwaitingApproval
  <2>6. QED
    BY <1>3, <1>7, <2>1, <2>2, <2>3, <2>4, <2>5 DEF Cleared, UnderPlan, PolicyAllows
<1>9. TicketInv(t)'
  BY <1>3, <1>6, <1>8 DEF TicketInv, None
<1>10. QED
  BY <1>4, <1>5, <1>6, <1>3, <1>9, TicketStep, EvidenceStep

LEMMA DeclineInv ==
  ASSUME GovernorInv, NEW c \in Calls, Decline(c)
  PROVE  CallsInv'
<1> USE DEF GovernorInv, CallsInv
<1>1. /\ At(c, "approval") /\ UNCHANGED limitVars /\ session' = session
      /\ evidence' = evidence /\ Becomes(c, DenyTicket(ticket[c]))
  BY DEF Decline
<1>2. AdmittedKept /\ ticket[c] \in Ticket
  BY <1>1, AdmittedUnchanged, TicketFacts
<1>3. QED
  BY <1>1, <1>2, DenyStep DEF At

LEMMA EffectInv ==
  ASSUME GovernorInv, NEW c \in Calls, Effect(c) \/ EffectFails(c)
  PROVE  CallsInv'
<1> USE DEF GovernorInv, CallsInv
<1>1. PICK execution \in {"ok", "error"}, at \in {None, head} :
        /\ execution = "ok" => at = head
        /\ Becomes(c, [ticket[c] EXCEPT !.stage = "finish", !.execution = execution,
                                        !.effectAt = at])
  BY DEF Effect, EffectFails
<1>2. PICK t \in Ticket :
        t = [ticket[c] EXCEPT !.stage = "finish", !.execution = execution,
                              !.effectAt = at]
  BY ZenonT(60), TicketFacts DEF Ticket, Stages, Executions
<1>3. /\ t.stage = "finish" /\ t.execution = execution /\ t.effectAt = at
      /\ t.authorization = ticket[c].authorization
      /\ t.approvedBy = ticket[c].approvedBy /\ t.ruledAt = ticket[c].ruledAt
      /\ t.req = ticket[c].req /\ t.emitted = ticket[c].emitted
  BY <1>2, TicketFacts DEF Ticket
<1>4. /\ At(c, "effect") /\ Becomes(c, t)
      /\ UNCHANGED <<limitVars, session, evidence>>
  BY <1>1, <1>2 DEF Effect, EffectFails
<1>5. AdmittedKept /\ TicketInv(ticket[c])
  BY <1>4, AdmittedUnchanged
<1>6. /\ t.req \in Requests /\ t.authorization = "allowed" /\ ~t.emitted
      /\ Cleared(ticket[c])
  BY <1>3, <1>4, <1>5 DEF TicketInv, At
<1>7. Cleared(t)'
  BY <1>3, <1>4, <1>6 DEF Cleared, UnderPlan, PolicyAllows, limitVars
<1>8. at # None \/ execution # "ok"
  BY <1>1, TicketFacts
<1>9. TicketInv(t)'
  BY <1>3, <1>6, <1>7, <1>8 DEF TicketInv, None
<1>10. QED
  BY <1>4, <1>5, <1>6, <1>3, <1>9, TicketStep, EvidenceStep

LEMMA PanicInv ==
  ASSUME GovernorInv, NEW c \in Calls, Panic(c)
  PROVE  CallsInv'
<1> USE DEF GovernorInv, CallsInv
<1>1. PICK at \in {ticket[c].effectAt, head} :
        /\ at # ticket[c].effectAt => At(c, "effect")
        /\ Becomes(c, [ticket[c] EXCEPT !.stage = "return", !.effectAt = at])
  <2>1. CASE ticket[c].stage \in {"ruling", "approval"}
    <3>1. [ticket[c] EXCEPT !.stage = "return"]
            = [ticket[c] EXCEPT !.stage = "return", !.effectAt = ticket[c].effectAt]
      BY ZenonT(60), TicketFacts DEF Ticket
    <3>2. QED
      BY <2>1, <3>1 DEF Panic, At
  <2>2. CASE At(c, "effect")
    <3>1. ticket[c].effectAt = None
      BY <2>2 DEF TicketInv, At
    <3>2. QED
      BY <2>2, <3>1 DEF Panic, At
  <2>3. QED
    BY <2>1, <2>2 DEF Panic
<1>2. PICK t \in Ticket :
        t = [ticket[c] EXCEPT !.stage = "return", !.effectAt = at]
  BY ZenonT(60), TicketFacts DEF Ticket, Stages
<1>3. /\ t.stage = "return" /\ t.effectAt = at
      /\ t.execution = ticket[c].execution
      /\ t.authorization = ticket[c].authorization
      /\ t.approvedBy = ticket[c].approvedBy /\ t.ruledAt = ticket[c].ruledAt
      /\ t.req = ticket[c].req /\ t.emitted = ticket[c].emitted
  BY <1>2, TicketFacts DEF Ticket
<1>4. /\ ticket[c].stage \in {"ruling", "approval", "effect"} /\ Becomes(c, t)
      /\ UNCHANGED <<limitVars, session, evidence>>
  BY <1>1, <1>2 DEF Panic, At
<1>5. AdmittedKept /\ TicketInv(ticket[c])
  BY <1>4, AdmittedUnchanged
<1>6. /\ t.req \in Requests /\ t.execution = None /\ ~t.emitted
      /\ t.authorization = "allowed" => Cleared(ticket[c])
      /\ t.effectAt # None => t.authorization = "allowed"
  BY <1>1, <1>3, <1>4, <1>5 DEF TicketInv, At
<1>7. t.authorization = "allowed" => Cleared(t)'
  BY <1>3, <1>4, <1>6 DEF Cleared, UnderPlan, PolicyAllows, limitVars
<1>8. TicketInv(t)'
  BY <1>3, <1>6, <1>7 DEF TicketInv, None
<1>9. QED
  BY <1>4, <1>5, <1>6, <1>3, <1>8, TicketStep, EvidenceStep

\* The stages after "finish" pass on what was established before.
LEMMA LateStep ==
  ASSUME GovernorInv, NEW c \in Calls, NEW t \in Ticket, Becomes(c, t),
         ticket[c].stage \in {"finish", "settle", "return"},
         t.req = ticket[c].req, t.authorization = ticket[c].authorization,
         t.approvedBy = ticket[c].approvedBy, t.ruledAt = ticket[c].ruledAt,
         t.effectAt = ticket[c].effectAt,
         t.stage \in {"finish", "settle", "return", "done"},
         t.execution # None,
         t.execution \in {ticket[c].execution, "aborted"},
         t.emitted <=> t.stage # "finish",
         session' = session, AdmittedKept
  PROVE  /\ ticket' \in [Calls -> Ticket]
         /\ \A d \in Calls : TicketInv(ticket[d])'
<1> USE DEF GovernorInv, CallsInv
<1>1. /\ ticket[c] \in Ticket /\ TicketInv(ticket[c]) /\ t.req \in Requests
  BY ZenonT(60), TicketFacts DEF TicketInv
<1>2. t.authorization = "allowed" => Cleared(t)'
  <2>1. t.authorization = "allowed" => Cleared(ticket[c])
    BY <1>1 DEF TicketInv
  <2>2. /\ PolicyAllows(Risk[t.req])' <=> PolicyAllows(Risk[ticket[c].req])
        /\ UnderPlan' <=> UnderPlan
    BY DEF PolicyAllows, UnderPlan
  <2>3. QED
    BY <1>1, <2>1, <2>2 DEF Cleared, AdmittedKept
<1>3. TicketInv(t)'
  BY <1>1, <1>2 DEF TicketInv, None
<1>4. QED
  BY <1>3, TicketStep

LEMMA SettleInv ==
  ASSUME GovernorInv, NEW c \in Calls, Settle(c)
  PROVE  CallsInv'
<1> USE DEF GovernorInv, CallsInv
<1>1. PICK t \in Ticket : t = [ticket[c] EXCEPT !.stage = "return"]
  BY ZenonT(60), TicketFacts DEF Ticket, Stages
<1>2. /\ t.stage = "return"
      /\ t.execution = ticket[c].execution /\ t.effectAt = ticket[c].effectAt
      /\ t.authorization = ticket[c].authorization
      /\ t.approvedBy = ticket[c].approvedBy /\ t.ruledAt = ticket[c].ruledAt
      /\ t.req = ticket[c].req /\ t.emitted = ticket[c].emitted
  BY <1>1, TicketFacts DEF Ticket
<1>3. /\ At(c, "settle") /\ Becomes(c, t) /\ UNCHANGED <<session, evidence>>
      /\ admitted' = admitted
  BY <1>1 DEF Settle, OnFinish, OnFinishOk, OnFinishNotOk, limitVars
<1>4. TicketInv(ticket[c]) /\ AdmittedKept
  BY <1>3 DEF AdmittedKept
<1>5. t.emitted /\ t.execution # None /\ ticket[c].stage = "settle"
  BY <1>2, <1>3, <1>4 DEF TicketInv, At
<1>6. QED
  BY <1>2, <1>3, <1>4, <1>5, LateStep, EvidenceStep

LEMMA EnsureEmittedInv ==
  ASSUME GovernorInv, NEW c \in Calls, EnsureEmitted(c)
  PROVE  CallsInv'
<1> USE DEF GovernorInv, CallsInv
<1>1. /\ At(c, "return") /\ UNCHANGED <<limitVars, session, evidence>>
  BY DEF EnsureEmitted
<1>2. AdmittedKept /\ TicketInv(ticket[c])
  BY <1>1, AdmittedUnchanged
<1>3. CASE ticket[c].emitted /\ Becomes(c, [ticket[c] EXCEPT !.stage = "done"])
  <2>1. PICK t \in Ticket : t = [ticket[c] EXCEPT !.stage = "done"]
    BY ZenonT(60), TicketFacts DEF Ticket, Stages
  <2>2. /\ t.stage = "done"
        /\ t.execution = ticket[c].execution /\ t.effectAt = ticket[c].effectAt
        /\ t.authorization = ticket[c].authorization
        /\ t.approvedBy = ticket[c].approvedBy /\ t.ruledAt = ticket[c].ruledAt
        /\ t.req = ticket[c].req /\ t.emitted = ticket[c].emitted
    BY <2>1, TicketFacts DEF Ticket
  <2>3. t.emitted /\ t.execution # None /\ ticket[c].stage = "return"
    BY <1>1, <1>2, <1>3, <2>2 DEF TicketInv, At
  <2>4. QED
    BY <1>1, <1>2, <1>3, <2>1, <2>2, <2>3, LateStep, EvidenceStep
<1>4. CASE /\ ~ticket[c].emitted
           /\ Becomes(c, [ticket[c] EXCEPT !.stage = "finish", !.execution = "aborted"])
  <2>1. PICK t \in Ticket :
            t = [ticket[c] EXCEPT !.stage = "finish", !.execution = "aborted"]
    BY ZenonT(60), TicketFacts DEF Ticket, Stages, Executions
  <2>2. /\ t.stage = "finish" /\ t.execution = "aborted"
        /\ t.effectAt = ticket[c].effectAt
        /\ t.authorization = ticket[c].authorization
        /\ t.approvedBy = ticket[c].approvedBy /\ t.ruledAt = ticket[c].ruledAt
        /\ t.req = ticket[c].req /\ t.emitted = ticket[c].emitted
    BY <2>1, TicketFacts DEF Ticket
  <2>3. ~t.emitted /\ t.execution # None /\ ticket[c].stage = "return"
    BY <1>1, <1>4, <2>2 DEF At, None
  <2>4. QED
    BY <1>1, <1>2, <1>4, <2>1, <2>2, <2>3, LateStep, EvidenceStep
<1>5. QED
  BY <1>3, <1>4 DEF EnsureEmitted

LEMMA EmitInv ==
  ASSUME GovernorInv, NEW c \in Calls, Emit(c)
  PROVE  CallsInv' /\ evidence' \in Seq(EvidenceRecord)
<1> USE DEF GovernorInv, CallsInv
<1>1. PICK t \in Ticket : t = [ticket[c] EXCEPT !.stage = "settle", !.emitted = TRUE]
  BY ZenonT(60), TicketFacts DEF Ticket, Stages
<1>2. /\ t.stage = "settle" /\ t.emitted = TRUE
      /\ t.execution = ticket[c].execution /\ t.effectAt = ticket[c].effectAt
      /\ t.authorization = ticket[c].authorization
      /\ t.approvedBy = ticket[c].approvedBy /\ t.ruledAt = ticket[c].ruledAt
      /\ t.req = ticket[c].req
  BY <1>1, TicketFacts DEF Ticket
<1>3. /\ At(c, "finish") /\ Becomes(c, t) /\ UNCHANGED <<limitVars, session>>
  BY <1>1 DEF Emit
<1>4. TicketInv(ticket[c]) /\ AdmittedKept
  BY <1>3, AdmittedUnchanged
<1>5. /\ t.execution # None /\ ticket[c].stage = "finish" /\ ~ticket[c].emitted
      /\ t.execution \in Executions
      /\ t.authorization \in {None, "denied", "allowed"}
  BY <1>2, <1>3, <1>4 DEF TicketInv, At, Ticket
<1>6. /\ ticket' \in [Calls -> Ticket]
      /\ \A d \in Calls : TicketInv(ticket[d])'
  BY <1>2, <1>3, <1>4, <1>5, LateStep
<1>7. ticket'[c] = t /\ \A d \in Calls : d # c => ticket'[d] = ticket[d]
  BY <1>3 DEF Becomes
<1>8. PICK r : r = [call |-> c, authorization |-> t.authorization,
                    execution |-> t.execution]
  OBVIOUS
<1>9. /\ r \in EvidenceRecord
      /\ r.call = c /\ r.authorization = t.authorization /\ r.execution = t.execution
  BY <1>5, <1>8 DEF EvidenceRecord
<1>10. evidence \in Seq(EvidenceRecord)
  BY DEF TypeOK
<1>11. \A i \in 1..Len(evidence) : evidence[i] \in EvidenceRecord
  BY <1>10
<1>12. \A i \in 1..Len(evidence) :
         evidence[i].call \in Calls /\ evidence[i].call # c /\ RecordInv(evidence[i])
  BY <1>5, <1>11 DEF EvidenceRecord, EvidenceInv, RecordInv
<1>13. \A i \in 1..Len(evidence) : \A q \in EvidenceRecord :
         q = evidence[i] => RecordInv(q)'
  BY <1>7, <1>12 DEF RecordInv
<1>14. CASE evidence' = Append(evidence, r)
  <2>1. /\ evidence' \in Seq(EvidenceRecord)
        /\ Len(evidence') = Len(evidence) + 1 /\ Len(evidence) \in Nat
        /\ evidence'[Len(evidence) + 1] = r
        /\ \A i \in 1..Len(evidence) : evidence'[i] = evidence[i]
    BY <1>9, <1>10, <1>14, AppendEntries
  <2>2. RecordInv(r)'
    BY <1>2, <1>7, <1>9 DEF RecordInv
  <2>3. \A i \in 1..Len(evidence') : RecordInv(evidence[i])'
    BY <1>11, <1>13, <2>1, <2>2 DEF RecordInv
  <2>4. \A i, j \in 1..Len(evidence') : i # j => evidence'[i].call # evidence'[j].call
    BY <1>9, <1>12, <2>1 DEF EvidenceInv
  <2>5. \A d \in Calls : Recorded(d) => Recorded(d)'
    BY <2>1 DEF Recorded
  <2>6. Recorded(c)'
    BY <1>9, <2>1 DEF Recorded
  <2>7. QED
    BY <1>6, <1>7, <2>1, <2>3, <2>4, <2>5, <2>6 DEF EvidenceInv
<1>15. CASE SinkFaults /\ evidence' = evidence
  <2>1. \A i \in 1..Len(evidence') : RecordInv(evidence[i])'
    BY <1>11, <1>13, <1>15 DEF RecordInv
  <2>2. QED
    BY <1>6, <1>10, <1>15, <2>1 DEF EvidenceInv
<1>16. QED
  BY <1>2, <1>8, <1>14, <1>15 DEF Emit

-----------------------------------------------------------------------------
(***************************************************************************)
(* Steps of the loop and of the environment.                               *)
(***************************************************************************)
LEMMA ProposeInv ==
  ASSUME GovernorInv, Propose
  PROVE  CallsInv'
<1> USE DEF GovernorInv, CallsInv
<1>1. PICK batch \in SUBSET {c \in Calls : At(c, "unused")} :
        \E asked \in [batch -> Toolset] :
          ticket' = [c \in Calls |->
                       IF c \in batch
                         THEN [NewTicket EXCEPT !.stage = "begin", !.req = asked[c]]
                         ELSE ticket[c]]
  BY DEF Propose
<1>2. PICK asked \in [batch -> Toolset] :
          ticket' = [c \in Calls |->
                       IF c \in batch
                         THEN [NewTicket EXCEPT !.stage = "begin", !.req = asked[c]]
                         ELSE ticket[c]]
  BY <1>1
<1>3. UNCHANGED <<limitVars, session, evidence>>
  BY DEF Propose
<1>4. \A c \in batch : c \in Calls /\ At(c, "unused") /\ asked[c] \in Requests
  BY DEF Toolset
<1>5. ASSUME NEW c \in batch
      PROVE  /\ ticket'[c] \in Ticket
             /\ TicketInv(ticket[c])' /\ ~ticket'[c].emitted /\ ~ticket[c].emitted
  <2>1. ticket'[c] = [NewTicket EXCEPT !.stage = "begin", !.req = asked[c]]
    BY <1>2, <1>4
  <2>2. /\ ticket'[c].stage = "begin" /\ ticket'[c].req = asked[c]
        /\ ticket'[c].authorization = None /\ ticket'[c].execution = None
        /\ ticket'[c].effectAt = None /\ ~ticket'[c].emitted
    BY <2>1 DEF NewTicket
  <2>3. ticket'[c] \in Ticket
    BY <1>4, <2>1 DEF NewTicket, Ticket, Stages
  <2>4. TicketInv(ticket[c])'
    BY <1>4, <2>2 DEF TicketInv, None
  <2>5. ~ticket[c].emitted
    BY <1>4 DEF TicketInv, At
  <2>6. QED
    BY <2>2, <2>3, <2>4, <2>5
<1>6. ASSUME NEW c \in Calls \ batch
      PROVE  ticket'[c] = ticket[c] /\ ticket[c] \in Ticket /\ TicketInv(ticket[c])'
  <2>1. ticket'[c] = ticket[c]
    BY <1>2
  <2>2. TicketInv(ticket[c])'
    BY <1>3, <2>1
       DEF TicketInv, Cleared, AwaitingApproval, PolicyAllows, UnderPlan, limitVars
  <2>3. QED
    BY <2>1, <2>2
<1>7. ticket' \in [Calls -> Ticket]
  BY <1>2, <1>5, <1>6
<1>8. \A c \in Calls : TicketInv(ticket[c])'
  BY <1>5, <1>6
<1>9. \A c \in Calls : ticket[c].emitted => ticket'[c] = ticket[c]
  BY <1>5, <1>6
<1>10. \A c \in Calls : ticket'[c].emitted => ticket[c].emitted
  BY <1>5, <1>6
<1>11. \A i \in 1..Len(evidence) : evidence[i].call \in Calls
  <2>1. evidence \in Seq(EvidenceRecord)
    BY DEF TypeOK
  <2>2. \A i \in 1..Len(evidence) : evidence[i] \in EvidenceRecord
    BY <2>1
  <2>3. QED
    BY <2>2 DEF EvidenceRecord
<1>12. \A i \in 1..Len(evidence) : RecordInv(evidence[i])'
  BY <1>3, <1>9, <1>11 DEF EvidenceInv, RecordInv
<1>13. EvidenceInv'
  BY <1>3, <1>10, <1>12 DEF EvidenceInv, Recorded
<1>14. QED
  BY <1>7, <1>8, <1>13

LEMMA OtherStepInv ==
  ASSUME GovernorInv, UNCHANGED <<session, ticket, evidence, admitted>>
  PROVE  CallsInv'
  BY DEF GovernorInv, CallsInv, TicketInv, Cleared, AwaitingApproval, PolicyAllows,
         UnderPlan, EvidenceInv, RecordInv, Recorded

LEMMA CallsInvStep ==
  ASSUME GovernorInv, [Next]_vars
  PROVE  CallsInv'
<1>1. ASSUME NEW c \in Calls, Work(c) \/ Answer(c) \/ Panic(c)
      PROVE  CallsInv'
  BY <1>1, BeginPrecheckedInv, BeginLimitedInv, BeginAdmittedInv, RuleDeniedInv,
     RuleInvalidatedInv, RulePermittedInv, ApproveInv, DeclineInv, EffectInv, EmitInv,
     SettleInv, EnsureEmittedInv, PanicInv
     DEF Work, Answer
<1>2. CASE Propose
  BY <1>2, ProposeInv
<1>3. CASE BatchDone \/ EndLoop \/ Classify \/ Timeout \/ MoveHead \/ UNCHANGED vars
  BY <1>3, OtherStepInv
     DEF BatchDone, EndLoop, Classify, Timeout, MoveHead, CancelElsewhere, vars, runVars,
         limitVars
<1>4. QED
  BY <1>1, <1>2, <1>3 DEF Next

\* Every step of a run is a step of the usage tracker, or leaves it alone.
LEMMA LimitsStep ==
  ASSUME GovernorInv, [Next]_vars
  PROVE  [LimitsNext]_limitVars
<1> USE DEF GovernorInv, CallsInv
<1>1. ASSUME NEW c \in Calls, BeginLimited(c) \/ BeginAdmitted(c)
      PROVE  [LimitsNext]_limitVars
  <2>1. ticket[c].req \in Requests
    BY <1>1 DEF BeginLimited, BeginAdmitted, TicketInv, At
  <2>2. QED
    BY <1>1, <2>1 DEF BeginLimited, BeginAdmitted, LimitsNext
<1>2. ASSUME NEW c \in Calls, Settle(c)
      PROVE  [LimitsNext]_limitVars
  <2>1. ticket[c].execution \in Executions
    BY <1>2, TicketFacts DEF Settle, TicketInv, At, Ticket
  <2>2. QED
    BY <1>2, <2>1 DEF Settle, LimitsNext
<1>3. ASSUME NEW c \in Calls, RuleInvalidated(c)
      PROVE  [LimitsNext]_limitVars
  BY <1>3 DEF RuleInvalidated, LimitsNext, OtherCauses
<1>4. CASE Timeout
  BY <1>4 DEF Timeout, LimitsNext, OtherCauses
<1>5. ASSUME NEW c \in Calls,
             \/ BeginPrechecked(c) \/ RuleDenied(c) \/ RulePermitted(c) \/ Approve(c)
             \/ Decline(c) \/ Effect(c) \/ EffectFails(c) \/ Panic(c) \/ Emit(c)
             \/ EnsureEmitted(c)
      PROVE  UNCHANGED limitVars
  BY <1>5 DEF BeginPrechecked, RuleDenied, RulePermitted, Approve, Decline, Effect,
              EffectFails, Panic, Emit, EnsureEmitted
<1>6. CASE Propose \/ BatchDone \/ EndLoop \/ Classify \/ MoveHead \/ UNCHANGED vars
  BY <1>6 DEF Propose, BatchDone, EndLoop, Classify, MoveHead, vars
<1>7. QED
  BY <1>1, <1>2, <1>3, <1>4, <1>5, <1>6 DEF Next, Work, Answer

\* What a step does to everything but the calls.
LEMMA TypeStep ==
  ASSUME GovernorInv, [Next]_vars, CallsInv', LimitsTypeOK'
  PROVE  TypeOK'
<1> USE DEF GovernorInv, CallsInv
<1>1. /\ session \in Session /\ head \in Heads /\ loop \in {"thinking", "acting", "ended"}
      /\ turn \in 0..MaxSteps /\ runErr \in RunErrors \cup {None}
      /\ status \in Statuses \cup {None} /\ evidence \in Seq(EvidenceRecord)
      /\ tripped \in LimitNames \cup {None}
      /\ cause \in LimitNames \cup OtherCauses \cup {None}
  BY DEF TypeOK, LimitsTypeOK
<1>2. ticket' \in [Calls -> Ticket]
  OBVIOUS
<1>3. ASSUME NEW c \in Calls,
             \/ BeginPrechecked(c) \/ BeginLimited(c) \/ BeginAdmitted(c) \/ RuleDenied(c)
             \/ RuleInvalidated(c) \/ RulePermitted(c) \/ Approve(c) \/ Decline(c)
             \/ Settle(c) \/ EnsureEmitted(c)
      PROVE  TypeOK'
  <2>1. UNCHANGED <<session, head, loop, turn, runErr, status, evidence>>
    BY <1>3 DEF BeginPrechecked, BeginLimited, BeginAdmitted, RuleDenied, RuleInvalidated,
                RulePermitted, Approve, Decline, Settle, EnsureEmitted
  <2>2. QED
    BY <1>1, <1>2, <2>1 DEF TypeOK
<1>4. ASSUME NEW c \in Calls, Effect(c) \/ EffectFails(c) \/ Panic(c)
      PROVE  TypeOK'
  <2>1. UNCHANGED <<session, loop, turn, status, evidence>>
    BY <1>4 DEF Effect, EffectFails, Panic
  <2>2. head' \in Heads
    BY <1>1, <1>4 DEF Effect, EffectFails, Panic
  <2>3. runErr' \in RunErrors \cup {None}
    BY <1>1, <1>4 DEF Effect, EffectFails, Panic, RunErrors
  <2>4. QED
    BY <1>1, <1>2, <2>1, <2>2, <2>3 DEF TypeOK
<1>5. ASSUME NEW c \in Calls, Emit(c)
      PROVE  TypeOK'
  <2>1. UNCHANGED <<session, head, loop, turn, runErr, status>>
    BY <1>5 DEF Emit
  <2>2. evidence' \in Seq(EvidenceRecord)
    BY <1>5, EmitInv
  <2>3. QED
    BY <1>1, <1>2, <2>1, <2>2 DEF TypeOK
<1>6. CASE Propose
  <2>1. UNCHANGED <<session, head, runErr, status, evidence>> /\ loop' = "acting"
        /\ turn' = turn + 1 /\ turn < MaxSteps
    BY <1>6 DEF Propose
  <2>2. turn' \in 0..MaxSteps
    BY <1>1, <2>1, GovernorAssumption
  <2>3. QED
    BY <1>1, <1>2, <2>1, <2>2 DEF TypeOK
<1>7. CASE BatchDone \/ EndLoop
  <2>1. /\ UNCHANGED <<session, head, turn, status, evidence>>
        /\ loop' \in {"thinking", "ended"} /\ runErr' \in RunErrors \cup {None}
    BY <1>1, <1>7 DEF BatchDone, EndLoop, RunErrors
  <2>2. QED
    BY <1>1, <1>2, <2>1 DEF TypeOK
<1>8. CASE Classify
  <2>1. UNCHANGED <<session, head, loop, turn, runErr, evidence>>
    BY <1>8 DEF Classify
  <2>2. Outcome \in Statuses
    BY <1>1 DEF Outcome, Statuses, RunErrors
  <2>3. status' \in Statuses
    BY <1>8, <2>2 DEF Classify, Statuses
  <2>4. QED
    BY <1>1, <1>2, <2>1, <2>3 DEF TypeOK
<1>9. CASE MoveHead
  BY <1>1, <1>2, <1>9 DEF MoveHead, TypeOK
<1>10. CASE Timeout \/ UNCHANGED vars
  BY <1>1, <1>2, <1>10 DEF Timeout, TypeOK, vars, runVars
<1>11. QED
  BY <1>3, <1>4, <1>5, <1>6, <1>7, <1>8, <1>9, <1>10 DEF Next, Work, Answer

-----------------------------------------------------------------------------
(***************************************************************************)
(* The invariant of the run, and what follows from it.                     *)
(***************************************************************************)
RunInv == LimitsInv /\ GovernorInv

LEMMA RunInitInv == Init => RunInv
<1> SUFFICES ASSUME Init PROVE RunInv
  OBVIOUS
<1>1. LimitsInv
  BY LimitsInitInv, LimitsAssumption DEF Init
<1>2. \A c \in Calls : ticket[c] = NewTicket
  BY DEF Init
<1>3. NewTicket \in Ticket
  BY DEF NewTicket, Ticket, Stages
<1>4. TypeOK
  BY <1>1, <1>3, GovernorAssumption DEF Init, TypeOK, LimitsInv, Heads
<1>5. \A c \in Calls : TicketInv(ticket[c])
  BY <1>2 DEF NewTicket, TicketInv, None
<1>6. EvidenceInv
  BY <1>2 DEF Init, EvidenceInv, NewTicket
<1>7. QED
  BY <1>1, <1>4, <1>5, <1>6 DEF RunInv, GovernorInv, CallsInv, TypeOK

LEMMA RunInvariance == Spec => []RunInv
<1>1. RunInv /\ [Next]_vars => RunInv'
  <2> SUFFICES ASSUME RunInv, [Next]_vars PROVE RunInv'
    OBVIOUS
  <2>1. CallsInv'
    BY CallsInvStep DEF RunInv
  <2>2. LimitsInv'
    BY LimitsStep, LimitsNextInv, LimitsAssumption DEF RunInv
  <2>3. TypeOK'
    BY <2>1, <2>2, TypeStep DEF RunInv, LimitsInv
  <2>4. QED
    BY <2>1, <2>2, <2>3 DEF RunInv, GovernorInv
<1>2. QED
  BY RunInitInv, <1>1, PTL DEF Spec

\* Every variable of the run keeps its type.
THEOREM TypeCorrect == Spec => []TypeOK
<1>1. RunInv => TypeOK
  BY DEF RunInv, GovernorInv
<1>2. QED
  BY <1>1, RunInvariance, PTL

\* governor.go, package comment: no call is recorded twice and, when the log
\* can be written, none returns without its record, whatever the calls of a
\* batch do and wherever they panic.
THEOREM OneRecord == Spec => []ExactlyOneRecord
<1>1. RunInv => ExactlyOneRecord
  <2> SUFFICES ASSUME RunInv PROVE ExactlyOneRecord
    OBVIOUS
  <2>1. \A c \in Calls : At(c, "done") => ticket[c].emitted
    BY DEF RunInv, GovernorInv, CallsInv, TicketInv, At
  <2>2. QED
    BY <2>1 DEF RunInv, GovernorInv, CallsInv, EvidenceInv, ExactlyOneRecord
<1>2. QED
  BY <1>1, RunInvariance, PTL

\* governor.go: a record never calls an effect denied, nor a call that did not
\* act executed, and what a record says stays true of its call.
THEOREM TruthfulRecords == Spec => []RecordsTellTheTruth
<1>1. RunInv => RecordsTellTheTruth
  <2> SUFFICES ASSUME RunInv, NEW i \in 1..Len(evidence)
               PROVE  LET r == evidence[i] IN
                      /\ r.execution = "ok" => Acted(r.call)
                      /\ Acted(r.call) => r.authorization = "allowed" /\ r.execution # "denied"
                      /\ r.execution = "denied" => r.authorization = "denied"
    BY DEF RecordsTellTheTruth
  <2>1. evidence \in Seq(EvidenceRecord)
    BY DEF RunInv, GovernorInv, TypeOK
  <2>2. evidence[i] \in EvidenceRecord
    BY <2>1
  <2>3. PICK c \in Calls : c = evidence[i].call
    BY <2>2 DEF EvidenceRecord
  <2>4. /\ TicketInv(ticket[c])
        /\ evidence[i].authorization = ticket[c].authorization
        /\ evidence[i].execution = ticket[c].execution
    BY <2>3 DEF RunInv, GovernorInv, CallsInv, EvidenceInv, RecordInv
  <2>5. QED
    BY <2>3, <2>4 DEF TicketInv, Acted
<1>2. QED
  BY <1>1, RunInvariance, PTL

\* approval.go, planguard.go: under a plan no write and no command happens
\* outside the plan without a human's approval.
THEOREM VarianceApproved == Spec => []VarianceNeedsHuman
<1>1. RunInv => VarianceNeedsHuman
  BY DEF RunInv, GovernorInv, CallsInv, TicketInv, Cleared, VarianceNeedsHuman, Acted
<1>2. QED
  BY <1>1, RunInvariance, PTL

\* planguard.go: what acts under a plan was ruled on at the plan's HEAD.
THEOREM RulingHead == Spec => []RuledAtPlanHead
<1>1. RunInv => RuledAtPlanHead
  BY DEF RunInv, GovernorInv, CallsInv, TicketInv, Cleared, RuledAtPlanHead, Acted
<1>2. QED
  BY <1>1, RunInvariance, PTL

\* policy.go, governor.go: nothing happens without its capability, its approval
\* and its admission by the usage tracker.
THEOREM AuthorityHolds == Spec => []EffectsWithinAuthority
<1>1. RunInv => EffectsWithinAuthority
  BY DEF RunInv, GovernorInv, CallsInv, TicketInv, Cleared, EffectsWithinAuthority, Acted,
         PolicyAllows
<1>2. QED
  BY <1>1, RunInvariance, PTL

\* A governed run uses its usage tracker as the tracker is meant to be used, so
\* what is proved of the tracker alone holds in every run.
THEOREM RunsTracker == Spec => LimitsSpec
<1>1. Init => LimitsInit
  BY DEF Init
<1>2. RunInv /\ [Next]_vars => [LimitsNext]_limitVars
  BY LimitsStep DEF RunInv
<1>3. QED
  BY <1>1, <1>2, RunInvariance, PTL DEF Spec, LimitsSpec

-----------------------------------------------------------------------------
(***************************************************************************)
(* The life of a ticket: which fields a step of a call changes, and to     *)
(* what.  o is the ticket before the step and n the ticket after it.       *)
(***************************************************************************)
Unacted(o, n) == n.effectAt = o.effectAt /\ n.emitted = o.emitted
Unruled(o, n) == n.ruledAt = o.ruledAt
Unfinished(o, n) == n.execution = o.execution /\ Unacted(o, n)

ToDenied(o, n) ==
  /\ o.stage \in {"begin", "ruling", "approval"} /\ n.stage = "finish"
  /\ n.authorization = "denied" /\ n.execution = "denied" /\ Unacted(o, n)
ToRefused(o, n) == ToDenied(o, n) /\ Unruled(o, n)
ToInvalidated(o, n) ==
  ToDenied(o, n) /\ n.ruledAt = head /\ UnderPlan /\ head \in OtherSHAs

ToFailed(o, n) ==
  /\ o.stage = "begin" /\ n.stage = "finish"
  /\ n.authorization = o.authorization /\ n.execution = "error"
  /\ Unacted(o, n) /\ Unruled(o, n)

ToAdmitted(o, n) ==
  /\ o.stage = "begin" /\ n.stage = "ruling"
  /\ n.authorization = o.authorization /\ Unfinished(o, n) /\ Unruled(o, n)

ToPermitted(o, n) ==
  /\ o.stage = "ruling"
  /\ \/ n.stage = "approval" /\ n.authorization = None /\ Risk[o.req] \in Risky
     \/ n.stage = "effect" /\ n.authorization = "allowed"
  /\ n.ruledAt = head
  /\ UnderPlan /\ Risk[o.req] \in Risky => head = StartSHA
  /\ Unfinished(o, n)

ToApproved(o, n) ==
  /\ o.stage = "approval" /\ n.stage = "effect"
  /\ n.authorization = "allowed" /\ Unfinished(o, n) /\ Unruled(o, n)

ToActed(o, n) ==
  /\ o.stage = "effect" /\ n.stage = "finish"
  /\ n.authorization = o.authorization /\ n.emitted = o.emitted /\ Unruled(o, n)
  /\ \/ n.execution = "ok" /\ n.effectAt = head
     \/ n.execution = "error" /\ n.effectAt \in {None, head}

ToPanicked(o, n) ==
  /\ o.stage \in {"ruling", "approval", "effect"} /\ n.stage = "return"
  /\ n.effectAt # o.effectAt => o.stage = "effect" /\ n.effectAt = head
  /\ n.authorization = o.authorization /\ n.execution = o.execution
  /\ n.emitted = o.emitted /\ Unruled(o, n)

ToEmitted(o, n) ==
  /\ o.stage = "finish" /\ n.stage = "settle"
  /\ n.authorization = o.authorization /\ n.execution = o.execution
  /\ n.effectAt = o.effectAt /\ n.emitted = TRUE /\ Unruled(o, n)

ToSettled(o, n) ==
  /\ o.stage = "settle" /\ n.stage = "return"
  /\ n.authorization = o.authorization /\ Unfinished(o, n) /\ Unruled(o, n)

ToClosed(o, n) ==
  /\ o.stage = "return" /\ o.emitted /\ n.stage = "done"
  /\ n.authorization = o.authorization /\ Unfinished(o, n) /\ Unruled(o, n)

ToAborted(o, n) ==
  /\ o.stage = "return" /\ ~o.emitted /\ n.stage = "finish"
  /\ n.authorization = o.authorization /\ n.execution = "aborted"
  /\ Unacted(o, n) /\ Unruled(o, n)

\* A step of a call changes no other call's ticket, and neither its own request.
Own(c) ==
  /\ ticket'[c].req = ticket[c].req
  /\ \A d \in Calls : d # c => ticket'[d] = ticket[d]

LEMMA BecomesOwn ==
  ASSUME TypeOK, NEW c \in Calls, NEW t, Becomes(c, t), t.req = ticket[c].req
  PROVE  ticket'[c] = t /\ Own(c)
  BY DEF TypeOK, Becomes, Own

\* The ticket a denial leaves.
LEMMA DenyMove ==
  ASSUME TypeOK, NEW c \in Calls, Becomes(c, DenyTicket(ticket[c])),
         ticket[c].stage \in {"begin", "ruling", "approval"}
  PROVE  Own(c) /\ ToRefused(ticket[c], ticket'[c])
<1>1. PICK t : t = DenyTicket(ticket[c])
  OBVIOUS
<1>2. /\ t.stage = "finish" /\ t.execution = "denied" /\ t.authorization = "denied"
      /\ t.req = ticket[c].req /\ t.effectAt = ticket[c].effectAt
      /\ t.emitted = ticket[c].emitted /\ t.ruledAt = ticket[c].ruledAt
  BY <1>1, TicketFacts DEF DenyTicket, Ticket
<1>3. ticket'[c] = t /\ Own(c)
  BY <1>1, <1>2, BecomesOwn
<1>4. QED
  BY <1>2, <1>3 DEF ToRefused, ToDenied, Unacted, Unruled

LEMMA BeginMoves ==
  ASSUME TypeOK, NEW c \in Calls
  PROVE  /\ BeginPrechecked(c) => Own(c) /\ (\/ ToRefused(ticket[c], ticket'[c])
                                             \/ ToFailed(ticket[c], ticket'[c]))
         /\ BeginLimited(c) => Own(c) /\ ToRefused(ticket[c], ticket'[c])
         /\ BeginAdmitted(c) => Own(c) /\ ToAdmitted(ticket[c], ticket'[c])
<1>0. ticket[c] \in Ticket
  BY TicketFacts
<1>1. ASSUME BeginPrechecked(c)
      PROVE  Own(c) /\ (ToRefused(ticket[c], ticket'[c]) \/ ToFailed(ticket[c], ticket'[c]))
  <2>1. At(c, "begin")
    BY <1>1 DEF BeginPrechecked
  <2>2. CASE Becomes(c, DenyTicket(ticket[c]))
    BY <2>1, <2>2, DenyMove DEF At
  <2>3. CASE Becomes(c, [ticket[c] EXCEPT !.stage = "finish", !.execution = "error"])
    <3>1. PICK t : t = [ticket[c] EXCEPT !.stage = "finish", !.execution = "error"]
      OBVIOUS
    <3>2. /\ t.stage = "finish" /\ t.execution = "error"
          /\ t.authorization = ticket[c].authorization
          /\ t.req = ticket[c].req /\ t.effectAt = ticket[c].effectAt
          /\ t.emitted = ticket[c].emitted /\ t.ruledAt = ticket[c].ruledAt
      BY <1>0, <3>1 DEF Ticket
    <3>3. ticket'[c] = t /\ Own(c)
      BY <2>3, <3>1, <3>2, BecomesOwn
    <3>4. QED
      BY <2>1, <3>2, <3>3 DEF ToFailed, Unacted, Unruled, At
  <2>4. QED
    BY <1>1, <2>2, <2>3 DEF BeginPrechecked
<1>2. BeginLimited(c) => Own(c) /\ ToRefused(ticket[c], ticket'[c])
  BY DenyMove DEF BeginLimited, At
<1>3. ASSUME BeginAdmitted(c)
      PROVE  Own(c) /\ ToAdmitted(ticket[c], ticket'[c])
  <2>1. PICK t : t = [ticket[c] EXCEPT !.stage = "ruling"]
    OBVIOUS
  <2>2. /\ t.stage = "ruling" /\ t.authorization = ticket[c].authorization
        /\ t.execution = ticket[c].execution
        /\ t.req = ticket[c].req /\ t.effectAt = ticket[c].effectAt
        /\ t.emitted = ticket[c].emitted /\ t.ruledAt = ticket[c].ruledAt
    BY <1>0, <2>1 DEF Ticket
  <2>3. At(c, "begin") /\ Becomes(c, t)
    BY <1>3, <2>1 DEF BeginAdmitted
  <2>4. ticket'[c] = t /\ Own(c)
    BY <2>2, <2>3, BecomesOwn
  <2>5. QED
    BY <2>2, <2>3, <2>4 DEF ToAdmitted, Unfinished, Unacted, Unruled, At
<1>4. QED
  BY <1>1, <1>2, <1>3

LEMMA RulingMoves ==
  ASSUME TypeOK, NEW c \in Calls
  PROVE  /\ RuleDenied(c) => Own(c) /\ ToRefused(ticket[c], ticket'[c])
         /\ RuleInvalidated(c) => Own(c) /\ ToInvalidated(ticket[c], ticket'[c])
         /\ RulePermitted(c) => Own(c) /\ ToPermitted(ticket[c], ticket'[c])
<1>0. ticket[c] \in Ticket
  BY TicketFacts
<1>1. RuleDenied(c) => Own(c) /\ ToRefused(ticket[c], ticket'[c])
  BY DenyMove DEF RuleDenied, At
<1>2. ASSUME RuleInvalidated(c)
      PROVE  Own(c) /\ ToInvalidated(ticket[c], ticket'[c])
  <2>1. PICK u : u = [ticket[c] EXCEPT !.ruledAt = head]
    OBVIOUS
  <2>2. /\ u.req = ticket[c].req /\ u.effectAt = ticket[c].effectAt
        /\ u.emitted = ticket[c].emitted /\ u.ruledAt = head /\ u \in Ticket
    BY <1>0, <2>1, TicketFacts DEF Ticket
  <2>3. PICK t : t = DenyTicket(u)
    OBVIOUS
  <2>4. /\ t.stage = "finish" /\ t.execution = "denied" /\ t.authorization = "denied"
        /\ t.req = u.req /\ t.effectAt = u.effectAt
        /\ t.emitted = u.emitted /\ t.ruledAt = u.ruledAt
    BY <2>2, <2>3 DEF DenyTicket, Ticket
  <2>5. /\ At(c, "ruling") /\ Becomes(c, t) /\ HeadMoved(ticket[c].req)
    BY <1>2, <2>1, <2>3 DEF RuleInvalidated, GuardInvalidates
  <2>6. ticket'[c] = t /\ Own(c)
    BY <2>2, <2>4, <2>5, BecomesOwn
  <2>7. UnderPlan /\ head \in OtherSHAs
    BY <2>5 DEF HeadMoved, TypeOK, Heads
  <2>8. QED
    BY <2>2, <2>4, <2>5, <2>6, <2>7 DEF ToInvalidated, ToDenied, Unacted, At
<1>3. ASSUME RulePermitted(c)
      PROVE  Own(c) /\ ToPermitted(ticket[c], ticket'[c])
  <2>1. PICK req, variance, approval :
          /\ req = ticket[c].req
          /\ variance = GuardRequiresApproval(req)
          /\ approval = (PolicyRequiresApproval(Risk[req]) \/ variance)
    OBVIOUS
  <2>2. approval => Risk[req] \in Risky
    BY <2>1 DEF GuardRequiresApproval, PolicyRequiresApproval
  <2>3. PICK t : t = [ticket[c] EXCEPT
                 !.stage = IF approval THEN "approval" ELSE "effect",
                 !.authorization = IF approval THEN None ELSE "allowed",
                 !.variance = variance,
                 !.ruledAt = head]
    OBVIOUS
  <2>4. /\ t.stage = IF approval THEN "approval" ELSE "effect"
        /\ t.authorization = IF approval THEN None ELSE "allowed"
        /\ t.ruledAt = head /\ t.req = req
        /\ t.execution = ticket[c].execution /\ t.effectAt = ticket[c].effectAt
        /\ t.emitted = ticket[c].emitted
    BY <1>0, <2>1, <2>3 DEF Ticket
  <2>5. At(c, "ruling") /\ ~HeadMoved(req) /\ Becomes(c, t)
    BY <1>3, <2>1, <2>3 DEF RulePermitted
  <2>6. ticket'[c] = t /\ Own(c)
    BY <2>1, <2>4, <2>5, BecomesOwn
  <2>7. UnderPlan /\ Risk[req] \in Risky => head = StartSHA
    BY <2>5 DEF HeadMoved
  <2>8. CASE approval
    BY <2>1, <2>2, <2>4, <2>5, <2>6, <2>7, <2>8
       DEF ToPermitted, Unfinished, Unacted, At
  <2>9. CASE ~approval
    BY <2>1, <2>4, <2>5, <2>6, <2>7, <2>9 DEF ToPermitted, Unfinished, Unacted, At
  <2>10. QED
    BY <2>8, <2>9
<1>4. QED
  BY <1>1, <1>2, <1>3

LEMMA AnswerMoves ==
  ASSUME TypeOK, NEW c \in Calls
  PROVE  /\ Approve(c) => Own(c) /\ ToApproved(ticket[c], ticket'[c])
         /\ Decline(c) => Own(c) /\ ToRefused(ticket[c], ticket'[c])
<1>1. ASSUME Approve(c)
      PROVE  Own(c) /\ ToApproved(ticket[c], ticket'[c])
  <2>1. PICK t : t = [ticket[c] EXCEPT !.stage = "effect", !.authorization = "allowed",
                                       !.approvedBy = session.approver]
    OBVIOUS
  <2>2. /\ t.stage = "effect" /\ t.authorization = "allowed"
        /\ t.execution = ticket[c].execution
        /\ t.req = ticket[c].req /\ t.effectAt = ticket[c].effectAt
        /\ t.emitted = ticket[c].emitted /\ t.ruledAt = ticket[c].ruledAt
    BY <2>1, TicketFacts DEF Ticket
  <2>3. At(c, "approval") /\ Becomes(c, t)
    BY <1>1, <2>1 DEF Approve
  <2>4. ticket'[c] = t /\ Own(c)
    BY <2>2, <2>3, BecomesOwn
  <2>5. QED
    BY <2>2, <2>3, <2>4 DEF ToApproved, Unfinished, Unacted, Unruled, At
<1>2. Decline(c) => Own(c) /\ ToRefused(ticket[c], ticket'[c])
  BY DenyMove DEF Decline, At
<1>3. QED
  BY <1>1, <1>2

LEMMA EffectMoves ==
  ASSUME GovernorInv, NEW c \in Calls
  PROVE  /\ Effect(c) \/ EffectFails(c) => Own(c) /\ ToActed(ticket[c], ticket'[c])
         /\ Panic(c) => Own(c) /\ ToPanicked(ticket[c], ticket'[c])
<1> USE DEF GovernorInv, CallsInv
<1>0. ticket[c] \in Ticket
  BY TicketFacts
<1>1. ASSUME Effect(c) \/ EffectFails(c)
      PROVE  Own(c) /\ ToActed(ticket[c], ticket'[c])
  <2>1. PICK execution \in {"ok", "error"}, at \in {None, head} :
          /\ execution = "ok" => at = head
          /\ Becomes(c, [ticket[c] EXCEPT !.stage = "finish", !.execution = execution,
                                          !.effectAt = at])
    BY <1>1 DEF Effect, EffectFails
  <2>2. PICK t : t = [ticket[c] EXCEPT !.stage = "finish", !.execution = execution,
                                       !.effectAt = at]
    OBVIOUS
  <2>3. /\ t.stage = "finish" /\ t.execution = execution /\ t.effectAt = at
        /\ t.authorization = ticket[c].authorization /\ t.req = ticket[c].req
        /\ t.emitted = ticket[c].emitted /\ t.ruledAt = ticket[c].ruledAt
    BY <1>0, <2>2 DEF Ticket
  <2>4. At(c, "effect")
    BY <1>1 DEF Effect, EffectFails
  <2>5. ticket'[c] = t /\ Own(c)
    BY <2>1, <2>2, <2>3, BecomesOwn
  <2>6. QED
    BY <2>1, <2>3, <2>4, <2>5 DEF ToActed, Unruled, At
<1>2. ASSUME Panic(c)
      PROVE  Own(c) /\ ToPanicked(ticket[c], ticket'[c])
  <2>1. CASE /\ ticket[c].stage \in {"ruling", "approval"}
             /\ Becomes(c, [ticket[c] EXCEPT !.stage = "return"])
    <3>1. PICK t : t = [ticket[c] EXCEPT !.stage = "return"]
      OBVIOUS
    <3>2. /\ t.stage = "return" /\ t.authorization = ticket[c].authorization
          /\ t.execution = ticket[c].execution
          /\ t.req = ticket[c].req /\ t.effectAt = ticket[c].effectAt
          /\ t.emitted = ticket[c].emitted /\ t.ruledAt = ticket[c].ruledAt
      BY <1>0, <3>1 DEF Ticket
    <3>3. ticket'[c] = t /\ Own(c)
      BY <2>1, <3>1, <3>2, BecomesOwn
    <3>4. QED
      BY <2>1, <3>2, <3>3 DEF ToPanicked, Unruled
  <2>2. ASSUME At(c, "effect"), NEW at \in {None, head},
               Becomes(c, [ticket[c] EXCEPT !.stage = "return", !.effectAt = at]),
               ticket[c].effectAt = None
        PROVE  Own(c) /\ ToPanicked(ticket[c], ticket'[c])
    <3>1. PICK t : t = [ticket[c] EXCEPT !.stage = "return", !.effectAt = at]
      OBVIOUS
    <3>2. /\ t.stage = "return" /\ t.authorization = ticket[c].authorization
          /\ t.execution = ticket[c].execution
          /\ t.req = ticket[c].req /\ t.effectAt = at
          /\ t.emitted = ticket[c].emitted /\ t.ruledAt = ticket[c].ruledAt
      BY <1>0, <3>1 DEF Ticket
    <3>3. ticket'[c] = t /\ Own(c)
      BY <2>2, <3>1, <3>2, BecomesOwn
    <3>4. QED
      BY <2>2, <3>2, <3>3 DEF ToPanicked, Unruled, At
  <2>3. At(c, "effect") => ticket[c].effectAt = None
    BY DEF TicketInv, At
  <2>4. QED
    BY <1>2, <2>1, <2>2, <2>3 DEF Panic
<1>3. QED
  BY <1>1, <1>2

LEMMA RecordMoves ==
  ASSUME TypeOK, NEW c \in Calls
  PROVE  /\ Emit(c) => Own(c) /\ ToEmitted(ticket[c], ticket'[c])
         /\ Settle(c) => Own(c) /\ ToSettled(ticket[c], ticket'[c])
         /\ EnsureEmitted(c) => Own(c) /\ (\/ ToClosed(ticket[c], ticket'[c])
                                           \/ ToAborted(ticket[c], ticket'[c]))
<1>0. ticket[c] \in Ticket
  BY TicketFacts
<1>1. ASSUME Emit(c)
      PROVE  Own(c) /\ ToEmitted(ticket[c], ticket'[c])
  <2>1. PICK t : t = [ticket[c] EXCEPT !.stage = "settle", !.emitted = TRUE]
    OBVIOUS
  <2>2. /\ t.stage = "settle" /\ t.emitted = TRUE
        /\ t.authorization = ticket[c].authorization
        /\ t.execution = ticket[c].execution /\ t.req = ticket[c].req
        /\ t.effectAt = ticket[c].effectAt /\ t.ruledAt = ticket[c].ruledAt
    BY <1>0, <2>1 DEF Ticket
  <2>3. At(c, "finish") /\ Becomes(c, t)
    BY <1>1, <2>1 DEF Emit
  <2>4. ticket'[c] = t /\ Own(c)
    BY <2>2, <2>3, BecomesOwn
  <2>5. QED
    BY <2>2, <2>3, <2>4 DEF ToEmitted, Unruled, At
<1>2. ASSUME NEW stage, Becomes(c, [ticket[c] EXCEPT !.stage = stage])
      PROVE  /\ Own(c) /\ ticket'[c].stage = stage
             /\ ticket'[c].authorization = ticket[c].authorization
             /\ Unfinished(ticket[c], ticket'[c]) /\ Unruled(ticket[c], ticket'[c])
  <2>1. PICK t : t = [ticket[c] EXCEPT !.stage = stage]
    OBVIOUS
  <2>2. /\ t.stage = stage /\ t.authorization = ticket[c].authorization
        /\ t.execution = ticket[c].execution
        /\ t.req = ticket[c].req /\ t.effectAt = ticket[c].effectAt
        /\ t.emitted = ticket[c].emitted /\ t.ruledAt = ticket[c].ruledAt
    BY <1>0, <2>1 DEF Ticket
  <2>3. ticket'[c] = t /\ Own(c)
    BY <1>2, <2>1, <2>2, BecomesOwn
  <2>4. QED
    BY <2>2, <2>3 DEF Unfinished, Unacted, Unruled
<1>3. Settle(c) => Own(c) /\ ToSettled(ticket[c], ticket'[c])
  BY <1>2 DEF Settle, ToSettled, At
<1>4. ASSUME EnsureEmitted(c)
      PROVE  Own(c) /\ (ToClosed(ticket[c], ticket'[c]) \/ ToAborted(ticket[c], ticket'[c]))
  <2>1. At(c, "return")
    BY <1>4 DEF EnsureEmitted
  <2>2. CASE ticket[c].emitted /\ Becomes(c, [ticket[c] EXCEPT !.stage = "done"])
    BY <1>2, <2>1, <2>2 DEF ToClosed, At
  <2>3. CASE /\ ~ticket[c].emitted
             /\ Becomes(c, [ticket[c] EXCEPT !.stage = "finish", !.execution = "aborted"])
    <3>1. PICK t : t = [ticket[c] EXCEPT !.stage = "finish", !.execution = "aborted"]
      OBVIOUS
    <3>2. /\ t.stage = "finish" /\ t.execution = "aborted"
          /\ t.authorization = ticket[c].authorization
          /\ t.req = ticket[c].req /\ t.effectAt = ticket[c].effectAt
          /\ t.emitted = ticket[c].emitted /\ t.ruledAt = ticket[c].ruledAt
      BY <1>0, <3>1 DEF Ticket
    <3>3. ticket'[c] = t /\ Own(c)
      BY <2>3, <3>1, <3>2, BecomesOwn
    <3>4. QED
      BY <2>1, <2>3, <3>2, <3>3 DEF ToAborted, Unacted, Unruled, At
  <2>4. QED
    BY <1>4, <2>2, <2>3 DEF EnsureEmitted
<1>5. QED
  BY <1>1, <1>3, <1>4

\* A batch opens some unused tickets and leaves the others alone.
LEMMA ProposeMoves ==
  ASSUME GovernorInv, Propose
  PROVE  \A c \in Calls :
           \/ ticket'[c] = ticket[c]
           \/ /\ ticket[c].stage = "unused" /\ ticket'[c].stage = "begin"
              /\ ticket'[c].authorization = None /\ ticket'[c].execution = None
              /\ ticket'[c].effectAt = None /\ ~ticket'[c].emitted
              /\ ticket'[c].ruledAt = None
<1>1. PICK batch \in SUBSET {c \in Calls : At(c, "unused")} :
        \E asked \in [batch -> Toolset] :
          ticket' = [c \in Calls |->
                       IF c \in batch
                         THEN [NewTicket EXCEPT !.stage = "begin", !.req = asked[c]]
                         ELSE ticket[c]]
  BY DEF Propose
<1>2. PICK asked \in [batch -> Toolset] :
          ticket' = [c \in Calls |->
                       IF c \in batch
                         THEN [NewTicket EXCEPT !.stage = "begin", !.req = asked[c]]
                         ELSE ticket[c]]
  BY <1>1
<1>3. ASSUME NEW c \in Calls, c \in batch
      PROVE  /\ ticket[c].stage = "unused" /\ ticket'[c].stage = "begin"
             /\ ticket'[c].authorization = None /\ ticket'[c].execution = None
             /\ ticket'[c].effectAt = None /\ ~ticket'[c].emitted
             /\ ticket'[c].ruledAt = None
  <2>1. ticket'[c] = [NewTicket EXCEPT !.stage = "begin", !.req = asked[c]]
    BY <1>2, <1>3
  <2>2. QED
    BY <1>3, <2>1 DEF NewTicket, At
<1>4. \A c \in Calls : c \notin batch => ticket'[c] = ticket[c]
  BY <1>2
<1>5. QED
  BY <1>3, <1>4

-----------------------------------------------------------------------------
(***************************************************************************)
(* The budget: as many calls are under way past OnBegin, or authorized, as *)
(* were admitted, and only such a call can act.                            *)
(***************************************************************************)
PastBudget(t) == t.stage \in {"ruling", "approval"} \/ t.authorization = "allowed"
Admitted == {c \in Calls : PastBudget(ticket[c])}

BudgetInv ==
  UnderPlan => IsFiniteSet(Admitted) /\ Cardinality(Admitted) <= Len(admitted)

LEMMA BudgetInit == Init => BudgetInv
<1>1. Init => Admitted = {}
  BY DEF Init, Admitted, PastBudget, NewTicket, None
<1>2. Init => Len(admitted) = 0
  BY DEF Init, LimitsInit
<1>3. QED
  BY <1>1, <1>2, FS_EmptySet DEF BudgetInv

\* Fewer calls, as many admitted requests.
LEMMA BudgetKept ==
  ASSUME BudgetInv, UnderPlan' = UnderPlan, Admitted' \subseteq Admitted,
         Len(admitted') = Len(admitted), Len(admitted) \in Nat
  PROVE  BudgetInv'
<1> SUFFICES ASSUME UnderPlan
             PROVE  IsFiniteSet(Admitted') /\ Cardinality(Admitted') <= Len(admitted')
  BY DEF BudgetInv
<1>1. IsFiniteSet(Admitted) /\ Cardinality(Admitted) <= Len(admitted)
  BY DEF BudgetInv
<1>2. /\ IsFiniteSet(Admitted') /\ Cardinality(Admitted') \in Nat
      /\ Cardinality(Admitted) \in Nat /\ Cardinality(Admitted') <= Cardinality(Admitted)
  BY <1>1, FS_Subset, FS_CardinalityType
<1>3. QED
  BY <1>1, <1>2

\* One call more, one admitted request more.
LEMMA BudgetUsed ==
  ASSUME BudgetInv, UnderPlan' = UnderPlan, NEW c \in Calls,
         Admitted' \subseteq Admitted \cup {c},
         UnderPlan => Len(admitted') = Len(admitted) + 1, Len(admitted) \in Nat
  PROVE  BudgetInv'
<1> SUFFICES ASSUME UnderPlan
             PROVE  IsFiniteSet(Admitted') /\ Cardinality(Admitted') <= Len(admitted')
  BY DEF BudgetInv
<1>1. IsFiniteSet(Admitted) /\ Cardinality(Admitted) <= Len(admitted)
  BY DEF BudgetInv
<1>2. /\ IsFiniteSet(Admitted \cup {c})
      /\ Cardinality(Admitted \cup {c}) \in {Cardinality(Admitted), Cardinality(Admitted) + 1}
      /\ Cardinality(Admitted) \in Nat
  BY <1>1, FS_AddElement, FS_CardinalityType
<1>3. /\ IsFiniteSet(Admitted') /\ Cardinality(Admitted') \in Nat
      /\ Cardinality(Admitted') <= Cardinality(Admitted \cup {c})
  BY <1>2, FS_Subset, FS_CardinalityType
<1>4. QED
  BY <1>1, <1>2, <1>3

LEMMA BudgetNext == RunInv /\ BudgetInv /\ [Next]_vars => BudgetInv'
<1> SUFFICES ASSUME RunInv, BudgetInv, [Next]_vars PROVE BudgetInv'
  OBVIOUS
<1> USE DEF RunInv, GovernorInv, CallsInv
<1>1. Len(admitted) \in Nat
  BY DEF TypeOK, LimitsTypeOK
<1>2. ASSUME NEW c \in Calls, Own(c), PastBudget(ticket'[c]) => PastBudget(ticket[c])
      PROVE  Admitted' \subseteq Admitted
  BY <1>2 DEF Admitted, PastBudget, Own
<1>3. ASSUME NEW c \in Calls, Own(c), session' = session, Len(admitted') = Len(admitted),
             PastBudget(ticket'[c]) => PastBudget(ticket[c])
      PROVE  BudgetInv'
  BY <1>1, <1>2, <1>3, BudgetKept DEF UnderPlan
<1>4. ASSUME NEW c \in Calls, BeginPrechecked(c) \/ BeginLimited(c)
      PROVE  BudgetInv'
  <2>1. session' = session /\ admitted' = admitted
    BY <1>4 DEF BeginPrechecked, BeginLimited, limitVars, OnBeginRefuse,
                OnBeginAfterTrip, OnBeginOverBudget, OnBeginRepeated
  <2>2. Own(c) /\ (ToRefused(ticket[c], ticket'[c]) \/ ToFailed(ticket[c], ticket'[c]))
    BY <1>4, BeginMoves
  <2>3. PastBudget(ticket'[c]) => PastBudget(ticket[c])
    BY <2>2 DEF ToRefused, ToDenied, ToFailed, PastBudget
  <2>4. QED
    BY <1>3, <2>1, <2>2, <2>3
<1>5. ASSUME NEW c \in Calls, BeginAdmitted(c)
      PROVE  BudgetInv'
  <2>1. session' = session
    BY <1>5 DEF BeginAdmitted
  <2>2. UnderPlan => Len(admitted') = Len(admitted) + 1
    <3>1. ticket[c].req \in Requests /\ admitted \in Seq(Requests)
      BY <1>5 DEF BeginAdmitted, TicketInv, At, TypeOK, LimitsTypeOK
    <3>2. UnderPlan => admitted' = Append(admitted, ticket[c].req)
      BY <1>5 DEF BeginAdmitted, OnBeginAdmit
    <3>3. QED
      BY <3>1, <3>2, AppendEntries
  <2>3. Own(c)
    BY <1>5, BeginMoves
  <2>4. Admitted' \subseteq Admitted \cup {c}
    BY <2>3 DEF Own, Admitted, PastBudget
  <2>5. QED
    BY <1>1, <2>1, <2>2, <2>4, BudgetUsed DEF UnderPlan
<1>6. ASSUME NEW c \in Calls, RuleDenied(c) \/ RuleInvalidated(c) \/ RulePermitted(c)
      PROVE  BudgetInv'
  <2>1. session' = session /\ admitted' = admitted
    BY <1>6 DEF RuleDenied, RuleInvalidated, RulePermitted, limitVars, CancelElsewhere
  <2>2. Own(c) /\ (\/ ToRefused(ticket[c], ticket'[c])
                   \/ ToInvalidated(ticket[c], ticket'[c])
                   \/ ToPermitted(ticket[c], ticket'[c]))
    BY <1>6, RulingMoves
  <2>3. PastBudget(ticket'[c]) => PastBudget(ticket[c])
    BY <2>2 DEF ToRefused, ToInvalidated, ToDenied, ToPermitted, PastBudget
  <2>4. QED
    BY <1>3, <2>1, <2>2, <2>3
<1>7. ASSUME NEW c \in Calls, Answer(c)
      PROVE  BudgetInv'
  <2>1. session' = session /\ admitted' = admitted
    BY <1>7 DEF Answer, Approve, Decline, limitVars
  <2>2. Own(c) /\ (ToRefused(ticket[c], ticket'[c]) \/ ToApproved(ticket[c], ticket'[c]))
    BY <1>7, AnswerMoves DEF Answer
  <2>3. PastBudget(ticket'[c]) => PastBudget(ticket[c])
    BY <2>2 DEF ToRefused, ToDenied, ToApproved, PastBudget
  <2>4. QED
    BY <1>3, <2>1, <2>2, <2>3
<1>8. ASSUME NEW c \in Calls, Effect(c) \/ EffectFails(c) \/ Panic(c)
      PROVE  BudgetInv'
  <2>1. session' = session /\ admitted' = admitted
    BY <1>8 DEF Effect, EffectFails, Panic, limitVars
  <2>2. Own(c) /\ (ToActed(ticket[c], ticket'[c]) \/ ToPanicked(ticket[c], ticket'[c]))
    BY <1>8, EffectMoves
  <2>3. PastBudget(ticket'[c]) => PastBudget(ticket[c])
    BY <2>2 DEF ToActed, ToPanicked, PastBudget
  <2>4. QED
    BY <1>3, <2>1, <2>2, <2>3
<1>9. ASSUME NEW c \in Calls, Emit(c) \/ Settle(c) \/ EnsureEmitted(c)
      PROVE  BudgetInv'
  <2>1. session' = session /\ admitted' = admitted
    BY <1>9 DEF Emit, Settle, EnsureEmitted, limitVars, OnFinish, OnFinishOk, OnFinishNotOk
  <2>2. Own(c) /\ (\/ ToEmitted(ticket[c], ticket'[c]) \/ ToSettled(ticket[c], ticket'[c])
                   \/ ToClosed(ticket[c], ticket'[c]) \/ ToAborted(ticket[c], ticket'[c]))
    BY <1>9, RecordMoves
  <2>3. PastBudget(ticket'[c]) => PastBudget(ticket[c])
    BY <2>2 DEF ToEmitted, ToSettled, ToClosed, ToAborted, PastBudget
  <2>4. QED
    BY <1>3, <2>1, <2>2, <2>3
<1>10. CASE Propose
  <2>1. session' = session /\ admitted' = admitted
    BY <1>10 DEF Propose, limitVars
  <2>2. \A c \in Calls : PastBudget(ticket'[c]) => PastBudget(ticket[c])
    BY <1>10, ProposeMoves DEF PastBudget, None
  <2>3. Admitted' \subseteq Admitted
    BY <2>2 DEF Admitted, PastBudget
  <2>4. QED
    BY <1>1, <2>1, <2>3, BudgetKept DEF UnderPlan
<1>11. CASE BatchDone \/ EndLoop \/ Classify \/ Timeout \/ MoveHead \/ UNCHANGED vars
  <2>1. session' = session /\ admitted' = admitted /\ ticket' = ticket
    BY <1>11 DEF BatchDone, EndLoop, Classify, Timeout, MoveHead, CancelElsewhere, vars,
                 runVars, limitVars
  <2>2. Admitted' = Admitted
    BY <2>1 DEF Admitted, PastBudget
  <2>3. QED
    BY <1>1, <2>1, <2>2, BudgetKept DEF UnderPlan
<1>12. QED
  BY <1>4, <1>5, <1>6, <1>7, <1>8, <1>9, <1>10, <1>11 DEF Next, Work

LEMMA BudgetInvariance == Spec => []BudgetInv
  BY BudgetInit, BudgetNext, RunInvariance, PTL DEF Spec

\* limits.go over governor.go: no interleaving of the calls has more effects
\* than the budget allows.
THEOREM BudgetRespected == Spec => []EffectsWithinBudget
<1>1. RunInv /\ BudgetInv => EffectsWithinBudget
  <2> SUFFICES ASSUME RunInv, BudgetInv, UnderPlan, MaxToolCalls > 0
               PROVE  Cardinality({c \in Calls : Acted(c)}) <= MaxToolCalls
    BY DEF EffectsWithinBudget
  <2>1. {c \in Calls : Acted(c)} \subseteq Admitted
    BY DEF RunInv, GovernorInv, CallsInv, TicketInv, Acted, Admitted, PastBudget
  <2>2. /\ IsFiniteSet(Admitted) /\ Cardinality(Admitted) <= Len(admitted)
        /\ Len(admitted) <= MaxToolCalls /\ Len(admitted) \in Nat
    BY DEF BudgetInv, RunInv, LimitsInv, LimitsTypeOK, WithinBudget
  <2>3. /\ Cardinality({c \in Calls : Acted(c)}) <= Cardinality(Admitted)
        /\ Cardinality({c \in Calls : Acted(c)}) \in Nat
        /\ Cardinality(Admitted) \in Nat
    BY <2>1, <2>2, FS_Subset, FS_CardinalityType
  <2>4. MaxToolCalls \in Nat
    BY LimitsAssumption DEF LimitsAssumption
  <2>5. QED
    BY <2>2, <2>3, <2>4
<1>2. QED
  BY <1>1, RunInvariance, BudgetInvariance, PTL

-----------------------------------------------------------------------------
(***************************************************************************)
(* The status: what the loop, the cancel cause and the tickets say of each *)
(* other while the run goes on.                                            *)
(***************************************************************************)

\* A call lost to a panic, before and after EnsureEmitted found it.
Lost(t) == t.execution = "aborted" \/ (t.stage = "return" /\ ~t.emitted)

\* What a ticket remembers of its ruling: nothing before it, the plan's HEAD
\* while it waits for an approval.
RulingInv(t) ==
  /\ t.stage \in {"unused", "begin", "ruling"} => t.ruledAt = None
  /\ t.stage = "approval" /\ UnderPlan => t.ruledAt = StartSHA

CauseInv ==
  /\ \A c \in Calls : Invalidated(c) => cause # None
  /\ cause = "plan_invalidated" => \E c \in Calls : Invalidated(c)
  /\ cause \in LimitNames => cause = tripped
  /\ ~UnderPlan => tripped = None

LoopInv ==
  /\ loop # "acting" => \A c \in Calls : ticket[c].stage \in {"unused", "done"}
  /\ loop = "thinking" => runErr = None
  /\ status # None => loop = "ended"
  /\ \A c \in Calls : Lost(ticket[c]) => runErr # None

OutcomeInv ==
  /\ \A c \in Calls : RulingInv(ticket[c])
  /\ CauseInv
  /\ LoopInv
  /\ StatusIsHonest

LEMMA OutcomeInit == Init => OutcomeInv
<1> SUFFICES ASSUME Init PROVE OutcomeInv
  OBVIOUS
<1>1. \A c \in Calls : ticket[c] = NewTicket
  BY DEF Init
<1>2. /\ tripped = None /\ cause = None /\ status = None /\ loop = "thinking"
      /\ runErr = None
  BY DEF Init, LimitsInit
<1>3. \A c \in Calls : /\ ticket[c].stage = "unused" /\ ticket[c].ruledAt = None
                       /\ ticket[c].execution = None
  BY <1>1 DEF NewTicket
<1>4. LoopInv /\ \A c \in Calls : RulingInv(ticket[c])
  BY <1>2, <1>3 DEF LoopInv, RulingInv, Lost, None
<1>5. CauseInv
  BY <1>2, <1>3 DEF CauseInv, Invalidated, None, LimitNames
<1>6. StatusIsHonest
  BY <1>2 DEF StatusIsHonest, None, LimitNames
<1>7. QED
  BY <1>4, <1>5, <1>6 DEF OutcomeInv

\* While a call is under way the loop is acting and there is no status yet.
LEMMA UnderWay ==
  ASSUME RunInv, OutcomeInv, NEW c \in Calls, ticket[c].stage \notin {"unused", "done"}
  PROVE  loop = "acting" /\ status = None
<1>1. loop \in {"thinking", "acting", "ended"} /\ status \in Statuses \cup {None}
  BY DEF RunInv, GovernorInv, TypeOK
<1>2. QED
  BY <1>1 DEF OutcomeInv, LoopInv

\* What a step does to the cause, as long as it invalidates no call's plan.
CauseStep ==
  /\ \A c \in Calls : Invalidated(c) => cause' # None
  /\ cause' = "plan_invalidated" => \E c \in Calls : Invalidated(c)
  /\ cause' \in LimitNames => cause' = tripped'
  /\ ~UnderPlan => tripped' = None

\* A step of one call, made before there is a status: what has to be shown of
\* it is what it does to its ticket and to the cause.
LEMMA OutcomeCall ==
  ASSUME RunInv, OutcomeInv, NEW c \in Calls, Own(c),
         ticket[c].stage \notin {"unused", "done"},
         UNCHANGED <<session, loop, status>>,
         RulingInv(ticket[c])',
         Lost(ticket'[c]) => runErr' # None,
         runErr # None => runErr' # None,
         Invalidated(c)' <=> Invalidated(c),
         CauseStep
  PROVE  OutcomeInv'
<1>1. loop = "acting" /\ status = None
  BY UnderWay
<1>2. UnderPlan' = UnderPlan
  BY DEF UnderPlan
<1>3. \A d \in Calls : Invalidated(d)' <=> Invalidated(d)
  BY <1>2 DEF Own, Invalidated
<1>4. CauseInv'
  BY <1>2, <1>3 DEF CauseStep, CauseInv
<1>5. \A d \in Calls : RulingInv(ticket[d])'
  BY <1>2 DEF OutcomeInv, RulingInv, Own
<1>6. LoopInv'
  BY <1>1 DEF OutcomeInv, LoopInv, Own, Lost
<1>7. StatusIsHonest'
  BY <1>1 DEF StatusIsHonest, None, LimitNames
<1>8. QED
  BY <1>4, <1>5, <1>6, <1>7 DEF OutcomeInv

\* The same with the cause and the limits as they were.
LEMMA OutcomeQuietCall ==
  ASSUME RunInv, OutcomeInv, NEW c \in Calls, Own(c),
         ticket[c].stage \notin {"unused", "done"},
         UNCHANGED <<session, loop, status, tripped, cause>>,
         RulingInv(ticket[c])',
         Lost(ticket'[c]) => runErr' # None,
         runErr # None => runErr' # None,
         Invalidated(c)' <=> Invalidated(c)
  PROVE  OutcomeInv'
<1>1. CauseStep
  BY DEF OutcomeInv, CauseInv, CauseStep
<1>2. QED
  BY <1>1, OutcomeCall

\* What the moves of a ticket mean for the outcome of the run: only a panic
\* loses a call, and only the guard invalidates the plan.
LEMMA MoveOutcome ==
  ASSUME RunInv, OutcomeInv, NEW c \in Calls, session' = session,
         \/ ToRefused(ticket[c], ticket'[c]) \/ ToFailed(ticket[c], ticket'[c])
         \/ ToAdmitted(ticket[c], ticket'[c])
         \/ ToPermitted(ticket[c], ticket'[c]) \/ ToApproved(ticket[c], ticket'[c])
         \/ ToActed(ticket[c], ticket'[c]) \/ ToPanicked(ticket[c], ticket'[c])
         \/ ToEmitted(ticket[c], ticket'[c]) \/ ToSettled(ticket[c], ticket'[c])
         \/ ToClosed(ticket[c], ticket'[c]) \/ ToAborted(ticket[c], ticket'[c])
  PROVE  /\ ticket[c].stage \notin {"unused", "done"}
         /\ RulingInv(ticket[c])'
         /\ ~ToPanicked(ticket[c], ticket'[c]) => (Lost(ticket'[c]) => Lost(ticket[c]))
         /\ Invalidated(c)' <=> Invalidated(c)
<1> DEFINE o == ticket[c]
<1> DEFINE n == ticket'[c]
<1>1. /\ o.stage \in {"unused", "begin", "ruling", "approval", "effect"} => o.execution = None
      /\ o.stage \in {"begin", "ruling", "approval"} => ~o.emitted
      /\ o.stage = "settle" => o.emitted
      /\ o.stage = "return" /\ ~o.emitted => o.execution = None
  BY DEF RunInv, GovernorInv, CallsInv, TicketInv
<1>2. /\ RulingInv(o) /\ UnderPlan' = UnderPlan
      /\ None \notin OtherSHAs /\ StartSHA \notin OtherSHAs
  BY GovernorAssumption DEF OutcomeInv, UnderPlan, GovernorAssumption, Heads
<1>3. Invalidated(c) <=> UnderPlan /\ o.execution = "denied" /\ o.ruledAt \in OtherSHAs
  BY DEF Invalidated
<1>4. Invalidated(c)' <=> UnderPlan /\ n.execution = "denied" /\ n.ruledAt \in OtherSHAs
  BY <1>2 DEF Invalidated
<1>5. RulingInv(ticket[c])' <=>
        /\ n.stage \in {"unused", "begin", "ruling"} => n.ruledAt = None
        /\ n.stage = "approval" /\ UnderPlan => n.ruledAt = StartSHA
  BY <1>2 DEF RulingInv
<1> HIDE DEF o, n
<1>6. CASE ToRefused(o, n)
  <2>1. /\ o.stage \in {"begin", "ruling", "approval"} /\ n.stage = "finish"
        /\ n.execution = "denied" /\ n.ruledAt = o.ruledAt
    BY <1>6 DEF ToRefused, ToDenied, Unruled
  <2>2. UnderPlan => o.ruledAt \notin OtherSHAs
    BY <1>2, <2>1 DEF RulingInv
  <2>3. QED
    BY <1>1, <1>3, <1>4, <1>5, <2>1, <2>2 DEF Lost, None, o, n
<1>7. CASE ToFailed(o, n) \/ ToAdmitted(o, n) \/ ToApproved(o, n)
  BY <1>1, <1>2, <1>3, <1>4, <1>5, <1>7
     DEF ToFailed, ToAdmitted, ToApproved, Unfinished, Unruled, Lost, None, RulingInv, o, n
<1>8. CASE ToPermitted(o, n)
  <2>1. /\ o.stage = "ruling" /\ o.execution = None /\ n.execution = None
        /\ n.stage \in {"approval", "effect"} /\ n.ruledAt = head
        /\ n.stage = "approval" /\ UnderPlan => head = StartSHA
    BY <1>1, <1>8 DEF ToPermitted, Unfinished, o, n
  <2>2. QED
    BY <1>3, <1>4, <1>5, <2>1 DEF Lost, None, o, n
<1>9. CASE ToActed(o, n) \/ ToPanicked(o, n)
  BY <1>1, <1>2, <1>3, <1>4, <1>5, <1>9
     DEF ToActed, ToPanicked, Unruled, Lost, None, o, n
<1>10. CASE ToEmitted(o, n) \/ ToSettled(o, n) \/ ToClosed(o, n) \/ ToAborted(o, n)
  BY <1>1, <1>2, <1>3, <1>4, <1>5, <1>10
     DEF ToEmitted, ToSettled, ToClosed, ToAborted, Unfinished, Unacted, Unruled, Lost,
         None, o, n
<1>11. QED
  BY <1>6, <1>7, <1>8, <1>9, <1>10 DEF o, n

\* The guard invalidates the plan through one call and cancels the run.
LEMMA InvalidatedOutcome ==
  ASSUME RunInv, OutcomeInv, NEW c \in Calls, RuleInvalidated(c)
  PROVE  OutcomeInv'
<1>1. /\ UNCHANGED <<session, loop, status, runErr, tripped>>
      /\ cause' = IF cause = None THEN "plan_invalidated" ELSE cause
  BY DEF RuleInvalidated, CancelElsewhere, CancelWith
<1>2. Own(c) /\ ToInvalidated(ticket[c], ticket'[c])
  BY RulingMoves DEF RunInv, GovernorInv
<1>3. loop = "acting" /\ status = None /\ UnderPlan' = UnderPlan
  BY <1>1, <1>2, UnderWay DEF ToInvalidated, ToDenied, UnderPlan
<1>4. /\ ticket'[c].stage = "finish" /\ ticket'[c].execution = "denied"
      /\ ticket'[c].ruledAt \in OtherSHAs /\ UnderPlan
  BY <1>2 DEF ToInvalidated, ToDenied
<1>5. \A d \in Calls : d # c => ticket'[d] = ticket[d]
  BY <1>2 DEF Own
<1>6. Invalidated(c)'
  BY <1>3, <1>4 DEF Invalidated
<1>7. \A d \in Calls : d # c => (Invalidated(d)' <=> Invalidated(d))
  BY <1>3, <1>5 DEF Invalidated
<1>8. \A d \in Calls : RulingInv(ticket[d])'
  BY <1>3, <1>4, <1>5 DEF OutcomeInv, RulingInv
<1>9. CauseInv'
  <2>1. cause' # None
    BY <1>1 DEF None
  <2>2. cause' = "plan_invalidated" => \E d \in Calls : Invalidated(d)'
    BY <1>6
  <2>3. cause' \in LimitNames => cause' = tripped'
    BY <1>1 DEF OutcomeInv, CauseInv, LimitNames
  <2>4. QED
    BY <1>3, <1>4, <2>1, <2>2, <2>3 DEF CauseInv
<1>10. LoopInv'
  BY <1>1, <1>3, <1>4, <1>5 DEF OutcomeInv, LoopInv, Lost
<1>11. StatusIsHonest'
  BY <1>1, <1>3 DEF StatusIsHonest, None, LimitNames
<1>12. QED
  BY <1>8, <1>9, <1>10, <1>11 DEF OutcomeInv

\* A batch: its tickets are fresh.
LEMMA ProposeOutcome ==
  ASSUME RunInv, OutcomeInv, Propose
  PROVE  OutcomeInv'
<1>1. /\ UNCHANGED <<session, status, runErr, tripped, cause>>
      /\ loop = "thinking" /\ loop' = "acting"
  BY DEF Propose, limitVars
<1>2. status = None /\ UnderPlan' = UnderPlan
  BY <1>1 DEF OutcomeInv, LoopInv, RunInv, GovernorInv, TypeOK, UnderPlan
<1>3. \A c \in Calls :
        \/ ticket'[c] = ticket[c]
        \/ /\ ticket[c].stage = "unused" /\ ticket'[c].stage = "begin"
           /\ ticket'[c].execution = None /\ ticket'[c].ruledAt = None
  BY ProposeMoves DEF RunInv
<1>4. \A c \in Calls : ticket[c].stage = "unused" => ticket[c].execution = None
  BY DEF RunInv, GovernorInv, CallsInv, TicketInv
<1>5. \A c \in Calls : Invalidated(c)' <=> Invalidated(c)
  BY <1>2, <1>3, <1>4 DEF Invalidated, None
<1>6. \A c \in Calls : RulingInv(ticket[c])'
  BY <1>2, <1>3 DEF OutcomeInv, RulingInv
<1>7. CauseInv'
  BY <1>1, <1>2, <1>5 DEF OutcomeInv, CauseInv
<1>8. LoopInv'
  BY <1>1, <1>2, <1>3 DEF OutcomeInv, LoopInv, Lost, None
<1>9. StatusIsHonest'
  BY <1>1, <1>2 DEF StatusIsHonest, None, LimitNames
<1>10. QED
  BY <1>6, <1>7, <1>8, <1>9 DEF OutcomeInv

\* The loop goes on or ends: no call is under way, and none was lost if the
\* model is asked again.
LEMMA LoopOutcome ==
  ASSUME RunInv, OutcomeInv, BatchDone \/ EndLoop
  PROVE  OutcomeInv'
<1>1. UNCHANGED <<session, head, ticket, status, tripped, cause>>
  BY DEF BatchDone, EndLoop, limitVars
<1>2. UnderPlan' = UnderPlan /\ \A c \in Calls : Invalidated(c)' <=> Invalidated(c)
  BY <1>1 DEF UnderPlan, Invalidated
<1>3. status = None
  BY DEF OutcomeInv, LoopInv, BatchDone, EndLoop, RunInv, GovernorInv, TypeOK
<1>4. (\A c \in Calls : RulingInv(ticket[c])') /\ CauseInv'
  BY <1>1, <1>2 DEF OutcomeInv, RulingInv, CauseInv
<1>5. StatusIsHonest'
  BY <1>1, <1>3 DEF StatusIsHonest, None, LimitNames
<1>6. CASE BatchDone
  <2>1. LoopInv'
    BY <1>1, <1>3, <1>6 DEF OutcomeInv, LoopInv, BatchDone, InBatch
  <2>2. QED
    BY <1>4, <1>5, <2>1 DEF OutcomeInv
<1>7. CASE EndLoop
  <2>1. loop = "thinking" /\ runErr = None /\ loop' = "ended"
    BY <1>7 DEF EndLoop, OutcomeInv, LoopInv
  <2>2. \A c \in Calls : ~Lost(ticket[c])
    BY <2>1 DEF OutcomeInv, LoopInv
  <2>3. LoopInv'
    BY <1>1, <1>3, <2>1, <2>2 DEF OutcomeInv, LoopInv
  <2>4. QED
    BY <1>4, <1>5, <2>3 DEF OutcomeInv
<1>8. QED
  BY <1>6, <1>7

\* The verdict: the cancel cause before the loop's error and the limits.
LEMMA ClassifyOutcome ==
  ASSUME RunInv, OutcomeInv, Classify
  PROVE  OutcomeInv'
<1>1. /\ UNCHANGED <<session, head, ticket, loop, runErr, tripped, cause>>
      /\ loop = "ended" /\ status = None
  BY DEF Classify, limitVars
<1>2. UnderPlan' = UnderPlan /\ \A c \in Calls : Invalidated(c)' <=> Invalidated(c)
  BY <1>1 DEF UnderPlan, Invalidated
<1>3. (\A c \in Calls : RulingInv(ticket[c])') /\ CauseInv' /\ LoopInv'
  BY <1>1, <1>2 DEF OutcomeInv, RulingInv, CauseInv, LoopInv
<1>4. /\ tripped \in LimitNames \cup {None}
      /\ cause \in LimitNames \cup OtherCauses \cup {None}
      /\ runErr \in RunErrors \cup {None}
      /\ tripped # None => cause # None
  BY DEF RunInv, GovernorInv, TypeOK, LimitsTypeOK, LimitsInv, TripCancelsRun
<1>5. /\ \A c \in Calls : Lost(ticket[c]) => runErr # None
      /\ \A c \in Calls : Invalidated(c) => cause # None
      /\ cause = "plan_invalidated" => \E c \in Calls : Invalidated(c)
      /\ cause \in LimitNames => cause = tripped
      /\ ~UnderPlan => tripped = None
  BY DEF OutcomeInv, LoopInv, CauseInv
<1>6. StatusIsHonest' <=>
        /\ UnderPlan /\ status' = "completed" =>
             /\ tripped = None
             /\ \A c \in Calls : ticket[c].execution # "aborted" /\ ~Invalidated(c)
        /\ status' \in LimitNames => status' = tripped
        /\ status' = "plan_invalidated" => \E c \in Calls : Invalidated(c)
        /\ status' # None /\ tripped # None => status' \in LimitNames \cup OtherCauses
  BY <1>1, <1>2 DEF StatusIsHonest
<1>7. CASE ~UnderPlan
  <2>1. status' \in {"completed", "failed"} /\ tripped = None
    BY <1>5, <1>7 DEF Classify
  <2>2. QED
    BY <1>3, <1>6, <1>7, <2>1 DEF OutcomeInv, LimitNames
<1>8. CASE UnderPlan /\ cause # None
  <2>1. status' = cause
    BY <1>8 DEF Classify, Outcome
  <2>2. cause # "completed"
    BY <1>4 DEF LimitNames, OtherCauses, None
  <2>3. QED
    BY <1>3, <1>4, <1>5, <1>6, <1>8, <2>1, <2>2 DEF OutcomeInv
<1>9. CASE UnderPlan /\ cause = None
  <2>1. tripped = None
    BY <1>4, <1>9
  <2>2. /\ runErr = "max_iterations" => status' = "max_steps_exhausted"
        /\ runErr = "other" => status' = "provider_error"
        /\ runErr = None => status' = "completed"
    BY <1>9, <2>1 DEF Classify, Outcome, None
  <2>3. runErr \in {"max_iterations", "other", None}
    BY <1>4 DEF RunErrors
  <2>4. status' \notin LimitNames /\ status' # "plan_invalidated"
    BY <2>2, <2>3 DEF LimitNames
  <2>5. status' = "completed" => runErr = None
    BY <2>2, <2>3
  <2>6. status' = "completed" =>
          \A c \in Calls : ticket[c].execution # "aborted" /\ ~Invalidated(c)
    BY <1>5, <1>9, <2>5 DEF Lost
  <2>7. QED
    BY <1>3, <1>6, <2>1, <2>4, <2>6 DEF OutcomeInv
<1>10. QED
  BY <1>7, <1>8, <1>9

\* The deadline and the workspace.
LEMMA EnvironmentOutcome ==
  ASSUME RunInv, OutcomeInv, Timeout \/ MoveHead \/ UNCHANGED vars
  PROVE  OutcomeInv'
<1>1. UNCHANGED <<session, ticket, loop, status, runErr, tripped>>
  BY DEF Timeout, MoveHead, CancelElsewhere, vars, runVars, limitVars
<1>2. UnderPlan' = UnderPlan /\ \A c \in Calls : Invalidated(c)' <=> Invalidated(c)
  BY <1>1 DEF UnderPlan, Invalidated
<1>3. cause' = cause \/ (cause = None /\ cause' = "timeout")
  BY DEF Timeout, MoveHead, CancelElsewhere, CancelWith, vars, limitVars
<1>4. (\A c \in Calls : RulingInv(ticket[c])') /\ LoopInv'
  BY <1>1, <1>2 DEF OutcomeInv, RulingInv, LoopInv
<1>5. CauseInv'
  BY <1>1, <1>2, <1>3 DEF OutcomeInv, CauseInv, LimitNames, None
<1>6. StatusIsHonest'
  BY <1>1, <1>2 DEF OutcomeInv, StatusIsHonest
<1>7. QED
  BY <1>4, <1>5, <1>6 DEF OutcomeInv

LEMMA OutcomeNext == RunInv /\ OutcomeInv /\ [Next]_vars => OutcomeInv'
<1> SUFFICES ASSUME RunInv, OutcomeInv, [Next]_vars PROVE OutcomeInv'
  OBVIOUS
<1>0. GovernorInv /\ TypeOK /\ CallsInv /\ LimitsTypeOK
  BY DEF RunInv, GovernorInv, TypeOK
<1>1. \A c \in Calls : Lost(ticket[c]) => runErr # None
  BY DEF OutcomeInv, LoopInv
<1>2. ASSUME NEW c \in Calls, BeginPrechecked(c)
      PROVE  OutcomeInv'
  <2>1. UNCHANGED <<limitVars, session, loop, runErr, status>>
    BY <1>2 DEF BeginPrechecked
  <2>2. Own(c) /\ (ToRefused(ticket[c], ticket'[c]) \/ ToFailed(ticket[c], ticket'[c]))
    BY <1>0, <1>2, BeginMoves
  <2>3. ~ToPanicked(ticket[c], ticket'[c])
    BY <2>2 DEF ToRefused, ToDenied, ToFailed, ToPanicked
  <2>4. QED
    BY <1>1, <2>1, <2>2, <2>3, MoveOutcome, OutcomeQuietCall DEF limitVars
<1>3. ASSUME NEW c \in Calls, BeginLimited(c)
      PROVE  OutcomeInv'
  <2>1. UNCHANGED <<session, loop, runErr, status>> /\ UnderPlan
    BY <1>3 DEF BeginLimited
  <2>2. Own(c) /\ ToRefused(ticket[c], ticket'[c])
    BY <1>0, <1>3, BeginMoves
  <2>3. ~ToPanicked(ticket[c], ticket'[c])
    BY <2>2 DEF ToRefused, ToDenied, ToPanicked
  <2>4. CASE OnBeginAfterTrip
    BY <1>1, <2>1, <2>2, <2>3, <2>4, MoveOutcome, OutcomeQuietCall
       DEF OnBeginAfterTrip, limitVars
  <2>5. CASE OnBeginOverBudget \/ OnBeginRepeated(ticket[c].req)
    <3>1. PICK limit \in LimitNames : tripped = None /\ Trip(limit)
      BY <2>5 DEF OnBeginOverBudget, OnBeginRepeated, LimitNames
    <3>2. CauseStep
      BY <2>1, <3>1 DEF OutcomeInv, CauseInv, CauseStep, Trip, CancelWith, LimitNames, None
    <3>3. QED
      BY <1>1, <2>1, <2>2, <2>3, <3>2, MoveOutcome, OutcomeCall
  <2>6. QED
    BY <1>3, <2>4, <2>5 DEF BeginLimited, OnBeginRefuse
<1>4. ASSUME NEW c \in Calls, BeginAdmitted(c)
      PROVE  OutcomeInv'
  <2>1. UNCHANGED <<session, loop, runErr, status, tripped, cause>>
    BY <1>4 DEF BeginAdmitted, OnBeginAdmit, limitVars
  <2>2. Own(c) /\ ToAdmitted(ticket[c], ticket'[c])
    BY <1>0, <1>4, BeginMoves
  <2>3. ~ToPanicked(ticket[c], ticket'[c])
    BY <2>2 DEF ToAdmitted, ToPanicked
  <2>4. QED
    BY <1>1, <2>1, <2>2, <2>3, MoveOutcome, OutcomeQuietCall
<1>5. ASSUME NEW c \in Calls, RuleDenied(c) \/ RulePermitted(c)
      PROVE  OutcomeInv'
  <2>1. UNCHANGED <<limitVars, session, loop, runErr, status>>
    BY <1>5 DEF RuleDenied, RulePermitted
  <2>2. Own(c) /\ (ToRefused(ticket[c], ticket'[c]) \/ ToPermitted(ticket[c], ticket'[c]))
    BY <1>0, <1>5, RulingMoves
  <2>3. ~ToPanicked(ticket[c], ticket'[c])
    BY <2>2 DEF ToRefused, ToDenied, ToPermitted, ToPanicked
  <2>4. QED
    BY <1>1, <2>1, <2>2, <2>3, MoveOutcome, OutcomeQuietCall DEF limitVars
<1>6. ASSUME NEW c \in Calls, RuleInvalidated(c)
      PROVE  OutcomeInv'
  BY <1>6, InvalidatedOutcome
<1>7. ASSUME NEW c \in Calls, Answer(c)
      PROVE  OutcomeInv'
  <2>1. UNCHANGED <<limitVars, session, loop, runErr, status>>
    BY <1>7 DEF Answer, Approve, Decline
  <2>2. Own(c) /\ (ToRefused(ticket[c], ticket'[c]) \/ ToApproved(ticket[c], ticket'[c]))
    BY <1>0, <1>7, AnswerMoves DEF Answer
  <2>3. ~ToPanicked(ticket[c], ticket'[c])
    BY <2>2 DEF ToRefused, ToDenied, ToApproved, ToPanicked
  <2>4. QED
    BY <1>1, <2>1, <2>2, <2>3, MoveOutcome, OutcomeQuietCall DEF limitVars
<1>8. ASSUME NEW c \in Calls, Effect(c) \/ EffectFails(c)
      PROVE  OutcomeInv'
  <2>1. UNCHANGED <<limitVars, session, loop, runErr, status>>
    BY <1>8 DEF Effect, EffectFails
  <2>2. Own(c) /\ ToActed(ticket[c], ticket'[c])
    BY <1>0, <1>8, EffectMoves
  <2>3. ~ToPanicked(ticket[c], ticket'[c])
    BY <2>2 DEF ToActed, ToPanicked
  <2>4. QED
    BY <1>1, <2>1, <2>2, <2>3, MoveOutcome, OutcomeQuietCall DEF limitVars
<1>9. ASSUME NEW c \in Calls, Panic(c)
      PROVE  OutcomeInv'
  <2>1. UNCHANGED <<limitVars, session, loop, status>> /\ runErr' # None
    BY <1>9 DEF Panic, None
  <2>2. Own(c) /\ ToPanicked(ticket[c], ticket'[c])
    BY <1>0, <1>9, EffectMoves
  <2>3. QED
    BY <2>1, <2>2, MoveOutcome, OutcomeQuietCall DEF limitVars
<1>10. ASSUME NEW c \in Calls, Emit(c) \/ EnsureEmitted(c)
      PROVE  OutcomeInv'
  <2>1. UNCHANGED <<limitVars, session, loop, runErr, status>>
    BY <1>10 DEF Emit, EnsureEmitted
  <2>2. Own(c) /\ (\/ ToEmitted(ticket[c], ticket'[c]) \/ ToClosed(ticket[c], ticket'[c])
                   \/ ToAborted(ticket[c], ticket'[c]))
    BY <1>0, <1>10, RecordMoves
  <2>3. ~ToPanicked(ticket[c], ticket'[c])
    BY <2>2 DEF ToEmitted, ToClosed, ToAborted, ToPanicked
  <2>4. QED
    BY <1>1, <2>1, <2>2, <2>3, MoveOutcome, OutcomeQuietCall DEF limitVars
<1>11. ASSUME NEW c \in Calls, Settle(c)
       PROVE  OutcomeInv'
  <2>1. UNCHANGED <<session, loop, runErr, status>>
    BY <1>11 DEF Settle
  <2>2. Own(c) /\ ToSettled(ticket[c], ticket'[c])
    BY <1>0, <1>11, RecordMoves
  <2>3. ~ToPanicked(ticket[c], ticket'[c])
    BY <2>2 DEF ToSettled, ToPanicked
  <2>4. CASE UNCHANGED <<tripped, cause>>
    BY <1>1, <2>1, <2>2, <2>3, <2>4, MoveOutcome, OutcomeQuietCall
  <2>5. CASE UnderPlan /\ tripped = None /\ Trip("max_consecutive_failures")
    <3>1. CauseStep
      BY <2>1, <2>5 DEF OutcomeInv, CauseInv, CauseStep, Trip, CancelWith, LimitNames, None
    <3>2. QED
      BY <1>1, <2>1, <2>2, <2>3, <3>1, MoveOutcome, OutcomeCall
  <2>6. QED
    BY <1>11, <2>4, <2>5 DEF Settle, OnFinish, OnFinishOk, OnFinishNotOk, limitVars
<1>12. CASE Propose
  BY <1>12, ProposeOutcome
<1>13. CASE BatchDone \/ EndLoop
  BY <1>13, LoopOutcome
<1>14. CASE Classify
  BY <1>14, ClassifyOutcome
<1>15. CASE Timeout \/ MoveHead \/ UNCHANGED vars
  BY <1>15, EnvironmentOutcome
<1>16. QED
  BY <1>2, <1>3, <1>4, <1>5, <1>6, <1>7, <1>8, <1>9, <1>10, <1>11, <1>12, <1>13, <1>14,
     <1>15
     DEF Next, Work

LEMMA OutcomeInvariance == Spec => []OutcomeInv
  BY OutcomeInit, OutcomeNext, RunInvariance, PTL DEF Spec

\* classifyRunOutcome: the typed status of a run says what happened in it.
THEOREM HonestStatus == Spec => []StatusIsHonest
<1>1. OutcomeInv => StatusIsHonest
  BY DEF OutcomeInv
<1>2. QED
  BY <1>1, OutcomeInvariance, PTL

-----------------------------------------------------------------------------
(***************************************************************************)
(* The refinement: every step of a run is a step of the reference monitor, *)
(* or one the monitor does not see.                                        *)
(***************************************************************************)

\* MonitorState as a function of the ticket alone.
StateOf(t) ==
  CASE t.stage = "unused" -> "idle"
    [] t.stage = "done" -> "closed"
    [] t.stage # "done" /\ t.emitted -> "recorded"
    [] ~t.emitted /\ t.effectAt # None -> "acted"
    [] ~t.emitted /\ t.effectAt = None /\ t.authorization = "allowed" -> "allowed"
    [] OTHER -> "open"

LEMMA MonitorStateOf ==
  ASSUME NEW c \in Calls
  PROVE  MonitorState(c) = StateOf(ticket[c]) /\ MonitorState(c)' = StateOf(ticket'[c])
  BY DEF MonitorState, StateOf

\* What tells the states of the monitor apart.
LEMMA StatesOf ==
  ASSUME NEW t, t.stage = "unused" => ~t.emitted, t.stage = "done" => t.emitted,
         t.stage = "unused" => t.effectAt = None /\ t.authorization = None
  PROVE  /\ t.stage = "unused" => StateOf(t) = "idle"
         /\ t.stage = "done" => StateOf(t) = "closed"
         /\ t.stage \notin {"unused", "done"} /\ t.emitted => StateOf(t) = "recorded"
         /\ t.stage # "unused" /\ ~t.emitted /\ t.effectAt # None => StateOf(t) = "acted"
         /\ t.stage # "unused" /\ ~t.emitted /\ t.effectAt = None
              /\ t.authorization = "allowed" => StateOf(t) = "allowed"
         /\ t.stage # "unused" /\ ~t.emitted /\ t.effectAt = None
              /\ t.authorization # "allowed" => StateOf(t) = "open"
  BY DEF StateOf, None

MState == [c \in Calls |-> MonitorState(c)]
MLog == [i \in 1..Len(evidence) |->
           [call |-> evidence[i].call, verdict |-> MonitorVerdict(evidence[i].execution)]]

\* The move of one call between two states of the monitor.
LEMMA MonitorMove ==
  ASSUME NEW c \in Calls, Own(c)
  PROVE  MState' = [MState EXCEPT ![c] = StateOf(ticket'[c])]
<1>1. MState' = [d \in Calls |-> StateOf(ticket'[d])]
  BY MonitorStateOf DEF MState
<1>2. \A d \in Calls : d # c => StateOf(ticket'[d]) = MState[d]
  BY MonitorStateOf DEF Own, MState
<1>3. QED
  BY <1>1, <1>2 DEF MState

LEMMA MonitorRests ==
  ASSUME NEW c \in Calls, Own(c), StateOf(ticket'[c]) = StateOf(ticket[c])
  PROVE  MState' = MState
<1>1. MState' = [d \in Calls |-> StateOf(ticket'[d])] /\ MState = [d \in Calls |-> StateOf(ticket[d])]
  BY MonitorStateOf DEF MState
<1>2. \A d \in Calls : StateOf(ticket'[d]) = StateOf(ticket[d])
  BY DEF Own
<1>3. QED
  BY <1>1, <1>2

\* How the state of a call's monitor changes with its ticket, the emission aside.
LEMMA MonitorMoves ==
  ASSUME RunInv, RunInv', NEW c \in Calls,
         \/ ToRefused(ticket[c], ticket'[c]) \/ ToInvalidated(ticket[c], ticket'[c])
         \/ ToFailed(ticket[c], ticket'[c]) \/ ToAdmitted(ticket[c], ticket'[c])
         \/ ToPermitted(ticket[c], ticket'[c]) \/ ToApproved(ticket[c], ticket'[c])
         \/ ToActed(ticket[c], ticket'[c]) \/ ToPanicked(ticket[c], ticket'[c])
         \/ ToSettled(ticket[c], ticket'[c])
         \/ ToClosed(ticket[c], ticket'[c]) \/ ToAborted(ticket[c], ticket'[c])
  PROVE  \/ StateOf(ticket'[c]) = StateOf(ticket[c])
         \/ StateOf(ticket[c]) = "open" /\ StateOf(ticket'[c]) = "allowed"
         \/ StateOf(ticket[c]) = "allowed" /\ StateOf(ticket'[c]) = "acted"
         \/ StateOf(ticket[c]) = "recorded" /\ StateOf(ticket'[c]) = "closed"
<1> DEFINE o == ticket[c]
<1> DEFINE n == ticket'[c]
<1>1. /\ o.stage = "unused" => ~o.emitted
      /\ o.stage = "done" => o.emitted
      /\ o.stage = "unused" => o.effectAt = None /\ o.authorization = None
      /\ o.stage \in {"begin", "ruling", "approval"} =>
           ~o.emitted /\ o.effectAt = None /\ o.authorization = None
      /\ o.stage = "effect" =>
           ~o.emitted /\ o.effectAt = None /\ o.authorization = "allowed"
      /\ o.stage = "settle" => o.emitted
  BY DEF RunInv, GovernorInv, CallsInv, TicketInv
<1>2. /\ n.stage = "unused" => ~n.emitted
      /\ n.stage = "done" => n.emitted
      /\ n.stage = "unused" => n.effectAt = None /\ n.authorization = None
  BY DEF RunInv, GovernorInv, CallsInv, TicketInv
<1>3. None \notin Heads /\ head \in Heads
  BY TicketFacts DEF RunInv, GovernorInv
<1> HIDE DEF o, n
<1>4. CASE ToRefused(o, n) \/ ToInvalidated(o, n) \/ ToFailed(o, n) \/ ToAdmitted(o, n)
  <2>1. /\ o.stage \in {"begin", "ruling", "approval"} /\ n.stage \in {"finish", "ruling"}
        /\ n.authorization \in {"denied", None} /\ n.effectAt = None /\ ~n.emitted
    BY <1>1, <1>4 DEF ToRefused, ToInvalidated, ToDenied, ToFailed, ToAdmitted, Unfinished,
                      Unacted
  <2>2. StateOf(o) = "open" /\ StateOf(n) = "open"
    BY <1>1, <1>2, <2>1, StatesOf DEF None
  <2>3. QED
    BY <2>2 DEF o, n
<1>5. CASE ToPermitted(o, n) \/ ToApproved(o, n)
  <2>1. /\ o.stage \in {"ruling", "approval"} /\ n.stage \in {"approval", "effect"}
        /\ n.effectAt = None /\ ~n.emitted
    BY <1>1, <1>5 DEF ToPermitted, ToApproved, Unfinished, Unacted
  <2>2. StateOf(o) = "open" /\ StateOf(n) \in {"open", "allowed"}
    BY <1>1, <1>2, <2>1, StatesOf DEF None
  <2>3. QED
    BY <2>2 DEF o, n
<1>6. CASE ToActed(o, n) \/ (ToPanicked(o, n) /\ o.stage = "effect")
  <2>1. /\ o.stage = "effect" /\ n.stage \in {"finish", "return"}
        /\ n.authorization = "allowed" /\ ~n.emitted
    BY <1>1, <1>6 DEF ToActed, ToPanicked
  <2>2. StateOf(o) = "allowed" /\ StateOf(n) \in {"allowed", "acted"}
    BY <1>1, <1>2, <2>1, StatesOf
  <2>3. QED
    BY <2>2 DEF o, n
<1>7. CASE ToPanicked(o, n) /\ o.stage # "effect"
  <2>1. /\ o.stage \in {"ruling", "approval"} /\ n.stage = "return"
        /\ n.authorization = None /\ ~n.emitted /\ n.effectAt = None
    BY <1>1, <1>7 DEF ToPanicked
  <2>2. StateOf(o) = "open" /\ StateOf(n) = "open"
    BY <1>1, <1>2, <2>1, StatesOf DEF None
  <2>3. QED
    BY <2>2 DEF o, n
<1>8. CASE ToSettled(o, n) \/ ToClosed(o, n)
  <2>1. /\ o.stage \in {"settle", "return"} /\ n.stage \in {"return", "done"}
        /\ o.emitted /\ n.emitted
    BY <1>1, <1>8 DEF ToSettled, ToClosed, Unfinished, Unacted
  <2>2. StateOf(o) = "recorded" /\ StateOf(n) \in {"recorded", "closed"}
    BY <1>1, <1>2, <2>1, StatesOf
  <2>3. QED
    BY <2>2 DEF o, n
<1>9. CASE ToAborted(o, n)
  <2>1. /\ o.stage = "return" /\ n.stage = "finish" /\ ~o.emitted /\ ~n.emitted
        /\ n.effectAt = o.effectAt /\ n.authorization = o.authorization
    BY <1>9 DEF ToAborted, Unacted
  <2>2. StateOf(o) = StateOf(n)
    BY <1>1, <1>2, <2>1, StatesOf
  <2>3. QED
    BY <2>2 DEF o, n
<1>10. QED
  BY <1>4, <1>5, <1>6, <1>7, <1>8, <1>9 DEF o, n

MRecord == [call : Calls, verdict : {"done", "refused", "unclear"}]
MRecordOf(r) == [call |-> r.call, verdict |-> MonitorVerdict(r.execution)]

LEMMA MRecordType ==
  ASSUME NEW r \in EvidenceRecord
  PROVE  MRecordOf(r) \in MRecord
  BY DEF EvidenceRecord, MRecord, MRecordOf, MonitorVerdict

\* The monitor's log as a sequence: one of its records for each of the run's.
LEMMA MLogIsASeq ==
  ASSUME NEW log \in Seq(EvidenceRecord)
  PROVE  LET view == [i \in 1..Len(log) |-> MRecordOf(log[i])]
         IN  view \in Seq(MRecord) /\ Len(view) = Len(log)
<1> DEFINE view == [i \in 1..Len(log) |-> MRecordOf(log[i])]
<1>1. Len(log) \in Nat /\ \A i \in 1..Len(log) : log[i] \in EvidenceRecord
  BY LenProperties, ElementOfSeq
<1>2. view \in [1..Len(log) -> MRecord]
  BY <1>1, MRecordType
<1>3. view \in Seq(MRecord)
  BY <1>1, <1>2, SeqDef
<1>4. Len(view) = Len(log)
  <2>1. DOMAIN view = 1..Len(log) /\ DOMAIN view = 1..Len(view) /\ Len(view) \in Nat
    BY <1>3, LenProperties
  <2>2. QED
    BY <1>1, <2>1
<1>5. QED
  BY <1>3, <1>4

LEMMA MLogAppend ==
  ASSUME NEW log \in Seq(EvidenceRecord), NEW r \in EvidenceRecord,
         NEW new, new = Append(log, r)
  PROVE  [i \in 1..Len(new) |-> MRecordOf(new[i])]
           = Append([i \in 1..Len(log) |-> MRecordOf(log[i])], MRecordOf(r))
<1>1. PICK view : view = [i \in 1..Len(log) |-> MRecordOf(log[i])]
  OBVIOUS
<1>2. PICK after : after = [i \in 1..Len(new) |-> MRecordOf(new[i])]
  OBVIOUS
<1>3. /\ new \in Seq(EvidenceRecord) /\ Len(new) = Len(log) + 1 /\ Len(log) \in Nat
      /\ new[Len(log) + 1] = r /\ \A i \in 1..Len(log) : new[i] = log[i]
  BY AppendEntries
<1>4. /\ view \in Seq(MRecord) /\ Len(view) = Len(log)
      /\ after \in Seq(MRecord) /\ Len(after) = Len(new)
  BY <1>1, <1>2, <1>3, MLogIsASeq
<1>5. MRecordOf(r) \in MRecord
  BY MRecordType
<1>6. /\ Append(view, MRecordOf(r)) \in Seq(MRecord)
      /\ Len(Append(view, MRecordOf(r))) = Len(view) + 1
      /\ Append(view, MRecordOf(r))[Len(view) + 1] = MRecordOf(r)
      /\ \A i \in 1..Len(view) : Append(view, MRecordOf(r))[i] = view[i]
  BY <1>4, <1>5, AppendEntries
<1>7. \A i \in 1..Len(after) : after[i] = Append(view, MRecordOf(r))[i]
  <2>1. \A i \in 1..Len(log) : after[i] = MRecordOf(log[i]) /\ view[i] = MRecordOf(log[i])
    BY <1>1, <1>2, <1>3
  <2>2. after[Len(log) + 1] = MRecordOf(r)
    BY <1>2, <1>3
  <2>3. \A i \in 1..Len(after) : i \in 1..Len(log) \/ i = Len(log) + 1
    BY <1>3, <1>4
  <2>4. QED
    BY <1>4, <1>6, <2>1, <2>2, <2>3
<1>8. after = Append(view, MRecordOf(r))
  BY <1>3, <1>4, <1>6, <1>7, SeqEqual
<1>9. QED
  BY <1>1, <1>2, <1>8

\* The emission of a record is a step of the monitor that records the call.
LEMMA EmitRefines ==
  ASSUME RunInv, RunInv', ~SinkFaults, NEW c \in Calls, Emit(c)
  PROVE  Monitor!Record(c)
<1> DEFINE o == ticket[c]
<1> DEFINE n == ticket'[c]
<1>1. Own(c) /\ ToEmitted(o, n)
  BY RecordMoves DEF RunInv, GovernorInv
<1>2. /\ o.stage = "finish" /\ ~o.emitted /\ o.execution \in Executions
      /\ o.execution = "ok" => o.effectAt # None
      /\ o.execution = "denied" => o.authorization = "denied"
      /\ o.effectAt # None => o.authorization = "allowed"
      /\ o.authorization \in {None, "denied", "allowed"}
  <2>1. o \in Ticket /\ TicketInv(o)
    BY TicketFacts DEF RunInv, GovernorInv, CallsInv
  <2>2. o.stage = "finish"
    BY <1>1 DEF ToEmitted
  <2>3. o.execution \in Executions \cup {None} /\ o.authorization \in {None, "denied", "allowed"}
    BY <2>1 DEF Ticket
  <2>4. QED
    BY <2>1, <2>2, <2>3 DEF TicketInv
<1>3. n.stage = "settle" /\ n.emitted
  BY <1>1 DEF ToEmitted
<1>4. StateOf(n) = "recorded"
  BY <1>3, StatesOf
<1>5. MState' = [MState EXCEPT ![c] = "recorded"]
  BY <1>1, <1>4, MonitorMove
<1>6. MState[c] = StateOf(o)
  BY MonitorStateOf DEF MState
<1>7. PICK verdict \in {"done", "refused", "unclear"} : verdict = MonitorVerdict(o.execution)
  BY DEF MonitorVerdict
<1>8. \/ StateOf(o) = "open" /\ verdict # "done"
      \/ StateOf(o) = "allowed" /\ verdict = "unclear"
      \/ StateOf(o) = "acted" /\ verdict # "refused"
  <2>1. /\ verdict = "done" => o.execution = "ok"
        /\ verdict = "refused" => o.execution = "denied"
    BY <1>7 DEF MonitorVerdict
  <2>2. CASE o.effectAt # None
    <3>1. StateOf(o) = "acted"
      BY <1>2, <2>2, StatesOf
    <3>2. QED
      BY <1>2, <2>1, <2>2, <3>1
  <2>3. CASE o.effectAt = None /\ o.authorization = "allowed"
    <3>1. StateOf(o) = "allowed"
      BY <1>2, <2>3, StatesOf
    <3>2. verdict = "unclear"
      BY <1>2, <2>1, <2>3
    <3>3. QED
      BY <3>1, <3>2
  <2>4. CASE o.effectAt = None /\ o.authorization # "allowed"
    <3>1. StateOf(o) = "open"
      BY <1>2, <2>4, StatesOf
    <3>2. QED
      BY <1>2, <2>1, <2>4, <3>1
  <2>5. QED
    BY <2>2, <2>3, <2>4
<1>9. MLog' = Append(MLog, [call |-> c, verdict |-> verdict])
  <2>1. PICK r : r = [call |-> c, authorization |-> o.authorization,
                      execution |-> o.execution]
    OBVIOUS
  <2>2. r \in EvidenceRecord /\ r.call = c /\ r.execution = o.execution
    BY <1>2, <2>1 DEF EvidenceRecord
  <2>3. evidence \in Seq(EvidenceRecord) /\ evidence' = Append(evidence, r)
    BY <2>1 DEF Emit, RunInv, GovernorInv, TypeOK
  <2>4. MRecordOf(r) = [call |-> c, verdict |-> verdict]
    BY <1>7, <2>2 DEF MRecordOf
  <2>5. /\ MLog = [i \in 1..Len(evidence) |-> MRecordOf(evidence[i])]
        /\ MLog' = [i \in 1..Len(evidence') |-> MRecordOf(evidence'[i])]
    BY DEF MLog, MRecordOf, MonitorVerdict
  <2>6. QED
    BY <2>2, <2>3, <2>4, <2>5, MLogAppend
<1>10. QED
  BY <1>5, <1>6, <1>7, <1>8, <1>9
     DEF Monitor!Record, Monitor!Move, Monitor!Verdicts, MState, MLog

\* The other steps of a call move it on by one state, or not at all.
LEMMA CallRefines ==
  ASSUME RunInv, RunInv', NEW c \in Calls, Own(c), evidence' = evidence,
         \/ ToRefused(ticket[c], ticket'[c]) \/ ToInvalidated(ticket[c], ticket'[c])
         \/ ToFailed(ticket[c], ticket'[c]) \/ ToAdmitted(ticket[c], ticket'[c])
         \/ ToPermitted(ticket[c], ticket'[c]) \/ ToApproved(ticket[c], ticket'[c])
         \/ ToActed(ticket[c], ticket'[c]) \/ ToPanicked(ticket[c], ticket'[c])
         \/ ToSettled(ticket[c], ticket'[c])
         \/ ToClosed(ticket[c], ticket'[c]) \/ ToAborted(ticket[c], ticket'[c])
  PROVE  [Monitor!Next]_<<MState, MLog>>
<1>1. MLog' = MLog
  BY DEF MLog, MonitorVerdict
<1>2. MState[c] = StateOf(ticket[c]) /\ MState' = [MState EXCEPT ![c] = StateOf(ticket'[c])]
  BY MonitorStateOf, MonitorMove DEF MState
<1>3. CASE StateOf(ticket'[c]) = StateOf(ticket[c])
  BY <1>1, <1>3, MonitorRests
<1>4. CASE StateOf(ticket[c]) = "open" /\ StateOf(ticket'[c]) = "allowed"
  BY <1>1, <1>2, <1>4 DEF Monitor!Next, Monitor!Authorize, Monitor!Move, MState, MLog
<1>5. CASE StateOf(ticket[c]) = "allowed" /\ StateOf(ticket'[c]) = "acted"
  BY <1>1, <1>2, <1>5 DEF Monitor!Next, Monitor!Act, Monitor!Move, MState, MLog
<1>6. CASE StateOf(ticket[c]) = "recorded" /\ StateOf(ticket'[c]) = "closed"
  BY <1>1, <1>2, <1>6 DEF Monitor!Next, Monitor!Close, Monitor!Move, MState, MLog
<1>7. QED
  BY <1>3, <1>4, <1>5, <1>6, MonitorMoves

\* A batch opens its calls together.
LEMMA ProposeRefines ==
  ASSUME RunInv, RunInv', Propose
  PROVE  \E batch \in SUBSET Calls : Monitor!Open(batch)
<1>1. PICK batch : batch = {c \in Calls : ticket[c].stage = "unused" /\ ticket'[c].stage = "begin"}
  OBVIOUS
<1>2. \A c \in Calls :
        \/ ticket'[c] = ticket[c]
        \/ /\ ticket[c].stage = "unused" /\ ticket'[c].stage = "begin"
           /\ ticket'[c].authorization = None
           /\ ticket'[c].effectAt = None /\ ~ticket'[c].emitted
  BY ProposeMoves DEF RunInv
<1>3. ASSUME NEW c \in batch
      PROVE  c \in Calls /\ StateOf(ticket[c]) = "idle" /\ StateOf(ticket'[c]) = "open"
  <2>1. c \in Calls /\ ticket[c].stage = "unused" /\ ticket'[c].stage = "begin"
    BY <1>1
  <2>2. /\ ticket'[c].authorization = None
        /\ ticket'[c].effectAt = None /\ ~ticket'[c].emitted
    BY <1>2, <2>1
  <2>3. ~ticket[c].emitted /\ ticket[c].effectAt = None /\ ticket[c].authorization = None
    BY <2>1 DEF RunInv, GovernorInv, CallsInv, TicketInv
  <2>4. StateOf(ticket[c]) = "idle"
    BY <2>1, <2>3, StatesOf
  <2>5. StateOf(ticket'[c]) = "open"
    BY <2>1, <2>2, StatesOf DEF None
  <2>6. QED
    BY <2>1, <2>4, <2>5
<1>4. \A c \in Calls \ batch : StateOf(ticket'[c]) = StateOf(ticket[c])
  BY <1>1, <1>2
<1>5. /\ MState = [c \in Calls |-> StateOf(ticket[c])]
      /\ MState' = [c \in Calls |-> StateOf(ticket'[c])]
  BY MonitorStateOf DEF MState
<1>6. MState' = [c \in Calls |-> IF c \in batch THEN "open" ELSE MState[c]]
  BY <1>3, <1>4, <1>5
<1>7. \A c \in batch : MState[c] = "idle"
  BY <1>3, <1>5
<1>8. MLog' = MLog
  BY DEF Propose, MLog, MonitorVerdict
<1>9. Monitor!Open(batch)
  BY <1>6, <1>7, <1>8 DEF Monitor!Open, MState, MLog
<1>10. batch \in SUBSET Calls
  BY <1>1
<1>11. QED
  BY <1>9, <1>10

LEMMA StepRefines ==
  ASSUME RunInv, RunInv', ~SinkFaults, [Next]_vars
  PROVE  [Monitor!Next]_<<MState, MLog>>
<1>0. GovernorInv /\ TypeOK
  BY DEF RunInv, GovernorInv
<1>1. ASSUME NEW c \in Calls,
             BeginPrechecked(c) \/ BeginLimited(c) \/ BeginAdmitted(c)
      PROVE  [Monitor!Next]_<<MState, MLog>>
  <2>1. evidence' = evidence
    BY <1>1 DEF BeginPrechecked, BeginLimited, BeginAdmitted
  <2>2. QED
    BY <1>0, <1>1, <2>1, BeginMoves, CallRefines
<1>2. ASSUME NEW c \in Calls, RuleDenied(c) \/ RuleInvalidated(c) \/ RulePermitted(c)
      PROVE  [Monitor!Next]_<<MState, MLog>>
  <2>1. evidence' = evidence
    BY <1>2 DEF RuleDenied, RuleInvalidated, RulePermitted
  <2>2. QED
    BY <1>0, <1>2, <2>1, RulingMoves, CallRefines
<1>3. ASSUME NEW c \in Calls, Answer(c)
      PROVE  [Monitor!Next]_<<MState, MLog>>
  <2>1. evidence' = evidence
    BY <1>3 DEF Answer, Approve, Decline
  <2>2. QED
    BY <1>0, <1>3, <2>1, AnswerMoves, CallRefines DEF Answer
<1>4. ASSUME NEW c \in Calls, Effect(c) \/ EffectFails(c) \/ Panic(c)
      PROVE  [Monitor!Next]_<<MState, MLog>>
  <2>1. evidence' = evidence
    BY <1>4 DEF Effect, EffectFails, Panic
  <2>2. QED
    BY <1>0, <1>4, <2>1, EffectMoves, CallRefines
<1>5. ASSUME NEW c \in Calls, Settle(c) \/ EnsureEmitted(c)
      PROVE  [Monitor!Next]_<<MState, MLog>>
  <2>1. evidence' = evidence
    BY <1>5 DEF Settle, EnsureEmitted
  <2>2. QED
    BY <1>0, <1>5, <2>1, RecordMoves, CallRefines
<1>6. ASSUME NEW c \in Calls, Emit(c)
      PROVE  [Monitor!Next]_<<MState, MLog>>
  BY <1>6, EmitRefines DEF Monitor!Next
<1>7. CASE Propose
  BY <1>7, ProposeRefines DEF Monitor!Next
<1>8. CASE BatchDone \/ EndLoop \/ Classify \/ Timeout \/ MoveHead \/ UNCHANGED vars
  <2>1. ticket' = ticket /\ evidence' = evidence
    BY <1>8 DEF BatchDone, EndLoop, Classify, Timeout, MoveHead, vars, runVars
  <2>2. UNCHANGED <<MState, MLog>>
    BY <2>1 DEF MState, MLog, MonitorState, MonitorVerdict
  <2>3. QED
    BY <2>2
<1>9. QED
  BY <1>1, <1>2, <1>3, <1>4, <1>5, <1>6, <1>7, <1>8 DEF Next, Work

LEMMA InitRefines == Init => Monitor!Init
<1> SUFFICES ASSUME Init PROVE Monitor!Init
  OBVIOUS
<1>1. \A c \in Calls : MonitorState(c) = "idle"
  <2>1. \A c \in Calls : /\ ticket[c].stage = "unused" /\ ~ticket[c].emitted
                         /\ ticket[c].effectAt = None /\ ticket[c].authorization = None
    BY DEF Init, NewTicket
  <2>2. \A c \in Calls : StateOf(ticket[c]) = "idle"
    BY <2>1, StatesOf
  <2>3. QED
    BY <2>2, MonitorStateOf
<1>2. evidence \in Seq(EvidenceRecord) /\ Len(evidence) = 0
  BY DEF Init
<1>3. MLog = [i \in 1..Len(evidence) |-> MRecordOf(evidence[i])]
  BY DEF MLog, MRecordOf, MonitorVerdict
<1>4. MLog \in Seq(MRecord) /\ Len(MLog) = 0
  BY <1>2, <1>3, MLogIsASeq
<1>5. MLog = <<>>
  BY <1>4, EmptySeq
<1>6. QED
  BY <1>1, <1>5 DEF Monitor!Init, MLog

\* governor.go, package comment: as long as the log can be written, a governed
\* run is a reference monitor of its calls, whatever they ask for and however
\* their steps interleave.
THEOREM RefinesMonitor ==
  ASSUME ~SinkFaults
  PROVE  Spec => ImplementsMonitor
<1>1. RunInv /\ RunInv' /\ [Next]_vars => [Monitor!Next]_(Monitor!monitorVars)
  BY StepRefines DEF Monitor!monitorVars, MState, MLog
<1>2. QED
  BY <1>1, InitRefines, RunInvariance, PTL DEF Spec, ImplementsMonitor, Monitor!Spec
=============================================================================
