-------------------------- MODULE CrmDeliveryProofs --------------------------
(***************************************************************************)
(* Proofs about CrmDelivery, for any leads, delays, answers and bounds.    *)
(* For any number of workers: its types, the schedule and the retry budget *)
(* (inductive invariant Booked).  For one replica, as deployed: one lead   *)
(* in flight, no result lost, a pause that holds (inductive invariant      *)
(* OneInFlight).                                                           *)
(***************************************************************************)
EXTENDS CrmDelivery, TLAPS

(* Every result a worker can hold is a result the types know.               *)
LEMMA ResultTypes ==
    ASSUME NEW a \in Answers
    PROVE  /\ ClassifyCreate(a) \in CreateCategories
           /\ ReadEvidence(a) \in ReadEvidenceKinds
           /\ a.after \in RetryAfterHeaders
  BY HeadersAssumption
     DEF Answers, ClassifyCreate, CreateStatusCategory, CreateCategories,
         ReadEvidence, ClassifyRead, ReadEvidenceKinds, ReadCategories

LEMMA DecisionTypes ==
    ASSUME NEW e \in ReadEvidenceKinds, NEW h \in BOOLEAN
    PROVE  /\ BadRequestDecision(e) \in Decisions
           /\ ConflictDecision(e, h) \in Decisions \union {NeedsEmailLookup}
           /\ EmailDecision(e) \in Decisions
  BY DEF BadRequestDecision, ConflictDecision, EmailDecision, BlockerDecision,
         Decisions, NeedsEmailLookup

(* Changing columns of a row, within their bounds, leaves a row.            *)
LEMMA FollowUpTypes ==
    ASSUME NEW r \in LeadRow, NEW n \in 0..3, NEW e \in 0..3, NEW t \in Times
    PROVE  FollowUp(r, n, e, t) \in LeadRow
<1>1. NoTime \in Times
  BY DEF Times
<1>2. QED
  BY <1>1, ZenonT(60) DEF FollowUp, LeadRow

LEMMA RetryTypes ==
    ASSUME NEW r \in LeadRow, NEW n \in 0..3, NEW t \in Times
    PROVE  /\ [r EXCEPT !.retries = n, !.nextRetryAt = t, !.nextReconAt = NoTime] \in LeadRow
           /\ Unscheduled(r) \in LeadRow
           /\ [r EXCEPT !.nextRetryAt = NoTime] \in LeadRow
<1>1. NoTime \in Times
  BY DEF Times
<1>2. [r EXCEPT !.retries = n, !.nextRetryAt = t, !.nextReconAt = NoTime] \in LeadRow
  BY <1>1, ZenonT(60) DEF LeadRow
<1>3. Unscheduled(r) \in LeadRow
  BY <1>1, ZenonT(60) DEF Unscheduled, LeadRow
<1>4. [r EXCEPT !.nextRetryAt = NoTime] \in LeadRow
  BY <1>1, ZenonT(60) DEF LeadRow
<1>5. QED
  BY <1>2, <1>3, <1>4

LEMMA ClaimTypes ==
    ASSUME NEW r \in LeadRow, NEW t \in Times
    PROVE  ClaimedRow(r, t) \in LeadRow
<1>1. NoTime \in Times
  BY DEF Times
<1>2. r.attempts + 1 \in Nat
  BY DEF LeadRow
<1>3. QED
  BY <1>1, <1>2, ZenonT(60) DEF LeadRow, ClaimedRow

LEMMA ReadTypes ==
    ASSUME NEW r \in LeadRow, NEW n \in 0..3, NEW t \in Times
    PROVE  /\ [r EXCEPT !.notFound = n, !.errors = 0, !.nextReconAt = t] \in LeadRow
           /\ [r EXCEPT !.errors = n, !.nextReconAt = t] \in LeadRow
<1>1. 0 \in 0..3
  OBVIOUS
<1>2. [r EXCEPT !.notFound = n, !.errors = 0, !.nextReconAt = t] \in LeadRow
  BY <1>1, ZenonT(60) DEF LeadRow
<1>3. [r EXCEPT !.errors = n, !.nextReconAt = t] \in LeadRow
  BY <1>1, ZenonT(60) DEF LeadRow
<1>4. QED
  BY <1>2, <1>3

(* A retry time is a time: the configured one, or a later one the provider  *)
(* asked for.                                                               *)
LEMMA LaterTimes ==
    ASSUME NEW t \in Nat, NEW d \in Nat, NEW h \in RetryAfterHeaders
    PROVE  /\ LaterOf(t + d, RetryAfterTime(h, t)) \in Nat
           /\ LaterOf(t + d, NoTime) \in Nat
           /\ LaterOf(t + d, RetryAfterTime(h, t)) >= t + d
  BY DEF LaterOf, RetryAfterTime, RetryAfterHeaders, NoTime

-----------------------------------------------------------------------------
(* The times a worker holds in mid-cycle are real times.                    *)
TypesInv ==
    TypeOK /\ \A w \in Workers : /\ pc[w] # "idle" => at[w] \in Nat
                                 /\ pc[w] \in CreatePcs \union {"readRef", "applyRead"}
                                        => job[w] \in Leads

LEMMA TypesInit == Init => TypesInv
  BY DEF Init, TypesInv, TypeOK, DeliveryStatuses, EmptyRow, LeadRow, Times, NoTime,
         Pcs, NoLead, NoResult, NoHeader, Results, RetryAfterHeaders, CreatePcs

LEMMA EndCycleTypes ==
    ASSUME TypesInv, NEW w \in Workers, EndCycle(w)
    PROVE  /\ pc' \in [Workers -> Pcs]
           /\ job' \in [Workers -> Leads \union {NoLead}]
           /\ at' \in [Workers -> Times]
           /\ res' \in [Workers -> Results]
           /\ after' \in [Workers -> RetryAfterHeaders]
           /\ \A v \in Workers : /\ pc'[v] # "idle" => at'[v] \in Nat
                                 /\ pc'[v] \in CreatePcs \union {"readRef", "applyRead"}
                                        => job'[v] \in Leads
  BY DEF EndCycle, Goto, TypesInv, TypeOK, Pcs, NoLead, Times, NoTime, NoResult,
         Results, NoHeader, RetryAfterHeaders, CreatePcs

LEMMA SetLeadTypes ==
    ASSUME TypesInv, NEW l \in Leads, NEW s \in DeliveryStatuses, NEW r \in LeadRow,
           SetLead(l, s, r)
    PROVE  /\ status' \in [Leads -> DeliveryStatuses]
           /\ row' \in [Leads -> LeadRow]
  BY DEF SetLead, TypesInv, TypeOK

LEMMA IntakeTypes ==
    ASSUME TypesInv, NEW w \in Workers, IntakeStep(w)
    PROVE  TypesInv'
<1> USE DEF TypesInv, TypeOK, Goto, Pcs, CreatePcs, hubspot, bounds, database
<1>1. CASE StartCycle(w)
  BY <1>1 DEF StartCycle, Times
<1>2. CASE SkipNormalization(w)
  BY <1>2 DEF SkipNormalization
<1>3. ASSUME NEW l \in Leads, InsertLead(w, l)
      PROVE  TypesInv'
  <2>1. [EmptyRow EXCEPT !.createdAt = now] \in LeadRow
    BY DEF EmptyRow, LeadRow, Times, NoTime
  <2>2. /\ status' \in [Leads -> DeliveryStatuses]
        /\ row' \in [Leads -> LeadRow]
    BY <1>3, <2>1, SetLeadTypes DEF InsertLead, DeliveryStatuses
  <2>3. QED
    BY <1>3, <2>2 DEF InsertLead
<1>4. QED
  BY <1>1, <1>2, <1>3 DEF IntakeStep

(* Applying a result: whatever row is written, the worker is done.          *)
LEMMA ApplyTypes ==
    ASSUME TypesInv, NEW w \in Workers,
           NEW place \in CreatePcs \union {"readRef", "applyRead"}, NEW was,
           NEW s \in DeliveryStatuses, NEW r \in LeadRow,
           Applying(w, place, was), SetLead(job[w], s, r),
           pauseReason' \in {"NONE", "AUTH", "CONFIG"}
    PROVE  TypesInv'
<1>1. job[w] \in Leads
  BY DEF Applying, TypesInv
<1>2. /\ status' \in [Leads -> DeliveryStatuses]
      /\ row' \in [Leads -> LeadRow]
  BY <1>1, SetLeadTypes
<1>3. EndCycle(w)
  BY DEF Applying
<1>4. /\ pc' \in [Workers -> Pcs]
      /\ job' \in [Workers -> Leads \union {NoLead}]
      /\ at' \in [Workers -> Times]
      /\ res' \in [Workers -> Results]
      /\ after' \in [Workers -> RetryAfterHeaders]
      /\ \A v \in Workers : /\ pc'[v] # "idle" => at'[v] \in Nat
                            /\ pc'[v] \in CreatePcs \union {"readRef", "applyRead"}
                                   => job'[v] \in Leads
  BY <1>3, EndCycleTypes
<1>5. UNCHANGED <<req, contact, accepted, orphan, now, crashes, clears>>
  BY DEF Applying, hubspot, bounds
<1>6. QED
  BY <1>2, <1>4, <1>5 DEF TypesInv, TypeOK

LEMMA GateTypes ==
    ASSUME TypesInv, NEW w \in Workers, GateClear(w) \/ GateBlocked(w)
    PROVE  TypesInv'
<1>1. CASE GateClear(w)
  BY <1>1 DEF GateClear, AfterGate, Goto, TypesInv, TypeOK, Pcs, CreatePcs, hubspot,
              bounds, database
<1>2. CASE GateBlocked(w)
  <2>1. EndCycle(w) /\ UNCHANGED <<database, req, hubspot, bounds>>
    BY <1>2 DEF GateBlocked
  <2>2. QED
    BY <2>1, EndCycleTypes DEF TypesInv, TypeOK, hubspot, bounds, database
<1>3. QED
  BY <1>1, <1>2

LEMMA RecoverTypes ==
    ASSUME TypesInv, NEW w \in Workers, NEW l \in Leads,
           ReconcileRecover(w, l) \/ ClaimRecover(w, l)
    PROVE  TypesInv'
<1>1. pc[w] # "idle"
  BY DEF ReconcileRecover, ClaimRecover
<1>2. StaleUnknownRow(w, l) \in LeadRow
  BY <1>1, FollowUpTypes DEF StaleUnknownRow, TypesInv, TypeOK, Times
<1>3. /\ status' \in [Leads -> DeliveryStatuses]
      /\ row' \in [Leads -> LeadRow]
  BY <1>2, SetLeadTypes DEF ReconcileRecover, ClaimRecover, RecoverStale, DeliveryStatuses
<1>4. CASE ReconcileRecover(w, l)
  BY <1>3, <1>4 DEF ReconcileRecover, Goto, TypesInv, TypeOK, Pcs, CreatePcs, hubspot,
                    bounds
<1>5. CASE ClaimRecover(w, l)
  <2>1. EndCycle(w) /\ UNCHANGED <<pauseReason, req, hubspot, bounds>>
    BY <1>5 DEF ClaimRecover
  <2>2. QED
    BY <1>3, <2>1, EndCycleTypes DEF TypesInv, TypeOK, hubspot, bounds
<1>6. QED
  BY <1>4, <1>5

LEMMA ApplyReadTypes ==
    ASSUME TypesInv, NEW w \in Workers,
           \/ ApplyFound(w) \/ ApplyMismatch(w) \/ ApplyReadPause(w)
           \/ ApplyNotFound(w) \/ EscalateNotFound(w)
           \/ ApplyReadError(w) \/ EscalateReadErrors(w)
    PROVE  TypesInv'
<1> DEFINE r == row[job[w]]
<1>1. Applying(w, "applyRead", "UNKNOWN")
  BY DEF ApplyFound, ApplyMismatch, ApplyReadPause, ApplyNotFound, EscalateNotFound,
         ApplyReadError, EscalateReadErrors
<1>2. pc[w] = "applyRead"
  BY <1>1 DEF Applying
<1>3. /\ r \in LeadRow /\ at[w] \in Nat /\ after[w] \in RetryAfterHeaders
      /\ pauseReason \in {"NONE", "AUTH", "CONFIG"}
  BY <1>2 DEF TypesInv, TypeOK
<1>4. r.notFound \in 0..3 /\ r.errors \in 0..3
  BY <1>3 DEF LeadRow
<1>5. {0, 3} \subseteq 0..3 /\ NoTime \in Times
  BY DEF Times
<1>6. ASSUME NEW s \in DeliveryStatuses, NEW x \in LeadRow, SetLead(job[w], s, x),
             pauseReason' \in {"NONE", "AUTH", "CONFIG"}
      PROVE  TypesInv'
  BY <1>1, <1>6, ApplyTypes
<1>7. {"SUCCESS", "UNKNOWN", "UNKNOWN_ESCALATED"} \subseteq DeliveryStatuses
  BY DEF DeliveryStatuses
<1> HIDE DEF r
<1>8. CASE ApplyFound(w)
  <2>1. FollowUp(r, 0, 0, NoTime) \in LeadRow
    BY <1>3, <1>5, FollowUpTypes
  <2>2. QED
    BY <1>3, <1>6, <1>7, <1>8, <2>1 DEF ApplyFound, r
<1>9. CASE ApplyMismatch(w)
  BY <1>3, <1>6, <1>7, <1>9 DEF ApplyMismatch, ActivatePause, r
<1>10. CASE ApplyReadPause(w)
  BY <1>3, <1>6, <1>7, <1>10 DEF ApplyReadPause, ActivatePause, ReadPauseReason, r
<1>11. CASE ApplyNotFound(w)
  <2>1. r.notFound + 1 \in 1..2
    BY <1>4, <1>11 DEF ApplyNotFound, r
  <2>2. at[w] + NotFoundDelay[r.notFound + 1] \in Times
    BY <1>3, <2>1, DelaysAssumption DEF Times
  <2>3. [r EXCEPT !.notFound = r.notFound + 1, !.errors = 0,
                  !.nextReconAt = at[w] + NotFoundDelay[r.notFound + 1]] \in LeadRow
    <3>1. r.notFound + 1 \in 0..3
      BY <2>1
    <3>2. QED
      BY <1>3, <2>2, <3>1, ReadTypes
  <2>4. QED
    BY <1>3, <1>6, <1>7, <1>11, <2>3 DEF ApplyNotFound, r
<1>12. CASE EscalateNotFound(w)
  <2>1. FollowUp(r, 3, 0, NoTime) \in LeadRow
    BY <1>3, <1>5, FollowUpTypes
  <2>2. QED
    BY <1>3, <1>6, <1>7, <1>12, <2>1 DEF EscalateNotFound, r
<1>13. CASE ApplyReadError(w)
  <2>1. r.errors + 1 \in 1..2
    BY <1>4, <1>13 DEF ApplyReadError, r
  <2>2. ReadRetryTime(w, r.errors + 1) \in Times
    BY <1>3, <2>1, LaterTimes, DelaysAssumption DEF ReadRetryTime, Times
  <2>3. [r EXCEPT !.errors = r.errors + 1,
                  !.nextReconAt = ReadRetryTime(w, r.errors + 1)] \in LeadRow
    <3>1. r.errors + 1 \in 0..3
      BY <2>1
    <3>2. QED
      BY <1>3, <2>2, <3>1, ReadTypes
  <2>4. QED
    BY <1>3, <1>6, <1>7, <1>13, <2>3 DEF ApplyReadError, r
<1>14. CASE EscalateReadErrors(w)
  <2>1. FollowUp(r, r.notFound, 3, NoTime) \in LeadRow
    BY <1>3, <1>4, <1>5, FollowUpTypes
  <2>2. QED
    BY <1>3, <1>6, <1>7, <1>14, <2>1 DEF EscalateReadErrors, r
<1>15. QED
  BY <1>8, <1>9, <1>10, <1>11, <1>12, <1>13, <1>14

LEMMA ReconcileTypes ==
    ASSUME TypesInv, NEW w \in Workers, ReconcileStep(w)
    PROVE  TypesInv'
<1>1. CASE NothingToReconcile(w)
  BY <1>1 DEF NothingToReconcile, Goto, TypesInv, TypeOK, Pcs, CreatePcs, hubspot,
              bounds, database
<1>2. CASE ReadReference(w)
  <2>1. PICK a \in ReferenceAnswers(job[w]) :
            /\ res' = [res EXCEPT ![w] = ReadEvidence(a)]
            /\ after' = [after EXCEPT ![w] = a.after]
    BY <1>2 DEF ReadReference
  <2>2. ReadEvidence(a) \in Results /\ a.after \in RetryAfterHeaders
    BY ResultTypes DEF ReferenceAnswers, Results
  <2>3. QED
    BY <1>2, <2>1, <2>2 DEF ReadReference, Goto, TypesInv, TypeOK, Pcs, CreatePcs,
                            hubspot, bounds, database
<1>3. CASE ReadLost(w)
  <2>1. EndCycle(w) /\ UNCHANGED <<database, req, hubspot, bounds>>
    BY <1>3 DEF ReadLost
  <2>2. QED
    BY <2>1, EndCycleTypes DEF TypesInv, TypeOK, hubspot, bounds, database
<1>4. ASSUME NEW l \in Leads, SelectUnknown(w, l)
      PROVE  TypesInv'
  BY <1>4 DEF SelectUnknown, Goto, TypesInv, TypeOK, Pcs, CreatePcs, hubspot, bounds,
              database
<1>5. ASSUME NEW l \in Leads, ReconcileRecover(w, l)
      PROVE  TypesInv'
  BY <1>5, RecoverTypes
<1>6. QED
  BY <1>1, <1>2, <1>3, <1>4, <1>5, ApplyReadTypes DEF ReconcileStep

LEMMA ApplyCreateTypes ==
    ASSUME TypesInv, NEW w \in Workers,
           \/ ApplySuccess(w) \/ ApplyRetry(w) \/ ApplyExhausted(w) \/ ApplyUnknown(w)
           \/ ApplyPause(w) \/ ApplyPermanentFailure(w)
           \/ ApplyDecisionPause(w) \/ ApplyDecisionTerminal(w)
    PROVE  TypesInv'
<1> DEFINE r == row[job[w]]
<1>1. PICK place \in {"applyCreate", "applyDecision"} : Applying(w, place, "SENDING")
  BY DEF ApplySuccess, ApplyRetry, ApplyExhausted, ApplyUnknown, ApplyPause,
         ApplyPermanentFailure, ApplyDecisionPause, ApplyDecisionTerminal
<1>2. pc[w] \in {"applyCreate", "applyDecision"}
  BY <1>1 DEF Applying
<1>3. /\ r \in LeadRow /\ at[w] \in Nat /\ after[w] \in RetryAfterHeaders
      /\ pauseReason \in {"NONE", "AUTH", "CONFIG"}
  BY <1>2 DEF TypesInv, TypeOK, CreatePcs
<1>4. r.retries \in 0..3
  BY <1>3 DEF LeadRow
<1>5. 0 \in 0..3 /\ NoTime \in Times
  BY DEF Times
<1>6. ASSUME NEW s \in DeliveryStatuses, NEW x \in LeadRow, SetLead(job[w], s, x),
             pauseReason' \in {"NONE", "AUTH", "CONFIG"}
      PROVE  TypesInv'
  BY <1>1, <1>6, ApplyTypes DEF CreatePcs
<1>7. {"SUCCESS", "UNKNOWN", "RETRY_PENDING", "PENDING", "FAILED_ESCALATED",
       "EXISTING_CONTACT"} \subseteq DeliveryStatuses
  BY DEF DeliveryStatuses
<1>8. Unscheduled(r) \in LeadRow /\ [r EXCEPT !.nextRetryAt = NoTime] \in LeadRow
  BY <1>3, <1>5, RetryTypes
<1> HIDE DEF r
<1>9. CASE ApplySuccess(w)
  BY <1>3, <1>6, <1>7, <1>8, <1>9 DEF ApplySuccess, r
<1>10. CASE ApplyRetry(w)
  <2>1. r.retries + 1 \in 1..3
    BY <1>4, <1>10 DEF ApplyRetry, r
  <2>2. RetryTime(w, r.retries + 1) \in Times
    BY <1>3, <2>1, LaterTimes, DelaysAssumption DEF RetryTime, Times
  <2>3. [r EXCEPT !.retries = r.retries + 1, !.nextRetryAt = RetryTime(w, r.retries + 1),
                  !.nextReconAt = NoTime] \in LeadRow
    <3>1. r.retries + 1 \in 0..3
      BY <2>1
    <3>2. QED
      BY <1>3, <2>2, <3>1, RetryTypes
  <2>4. QED
    BY <1>3, <1>6, <1>7, <1>10, <2>3 DEF ApplyRetry, r
<1>11. CASE ApplyExhausted(w)
  BY <1>3, <1>6, <1>7, <1>8, <1>11 DEF ApplyExhausted, r
<1>12. CASE ApplyUnknown(w)
  <2>1. at[w] + ReconInitialDelay \in Times
    BY <1>3, DelaysAssumption DEF Times
  <2>2. FollowUp(r, 0, 0, at[w] + ReconInitialDelay) \in LeadRow
    BY <1>3, <1>5, <2>1, FollowUpTypes
  <2>3. QED
    BY <1>3, <1>6, <1>7, <1>12, <2>2 DEF ApplyUnknown, r
<1>13. CASE ApplyPause(w)
  BY <1>3, <1>6, <1>7, <1>8, <1>13 DEF ApplyPause, ActivatePause, ReadPauseReason, r
<1>14. CASE ApplyPermanentFailure(w)
  BY <1>3, <1>6, <1>7, <1>8, <1>14 DEF ApplyPermanentFailure, r
<1>15. CASE ApplyDecisionPause(w)
  BY <1>3, <1>6, <1>7, <1>8, <1>15
     DEF ApplyDecisionPause, ActivatePause, DecisionPauseReason, r
<1>16. CASE ApplyDecisionTerminal(w)
  BY <1>3, <1>6, <1>7, <1>8, <1>16 DEF ApplyDecisionTerminal, r
<1>17. QED
  BY <1>9, <1>10, <1>11, <1>12, <1>13, <1>14, <1>15, <1>16

LEMMA CreateTypes ==
    ASSUME TypesInv, NEW w \in Workers, CreateStep(w)
    PROVE  TypesInv'
<1>1. CASE NothingToClaim(w) \/ CreateLost(w)
  <2>1. EndCycle(w) /\ UNCHANGED <<database, req, hubspot, bounds>>
    BY <1>1 DEF NothingToClaim, CreateLost
  <2>2. QED
    BY <2>1, EndCycleTypes DEF TypesInv, TypeOK, hubspot, bounds, database
<1>2. CASE SendCreate(w)
  BY <1>2 DEF SendCreate, Goto, TypesInv, TypeOK, Pcs, CreatePcs, hubspot, bounds, database
<1>3. CASE ReceiveCreate(w)
  <2>1. PICK a \in Answers :
            /\ res' = [res EXCEPT ![w] = ClassifyCreate(a)]
            /\ after' = [after EXCEPT ![w] = a.after]
            /\ Goto(w, AfterCreate(ClassifyCreate(a)))
            /\ orphan' = IF req[w] = "open" /\ a \in CreatedAnswers
                         THEN [orphan EXCEPT ![job[w]] = @ + 1] ELSE orphan
    BY <1>3 DEF ReceiveCreate
  <2>2. ClassifyCreate(a) \in Results /\ a.after \in RetryAfterHeaders
    BY ResultTypes DEF Results
  <2>3. AfterCreate(ClassifyCreate(a)) \in {"classifyRef", "applyCreate"}
    BY DEF AfterCreate
  <2>4. orphan' \in [Leads -> Nat]
    BY <1>3, <2>1 DEF ReceiveCreate, TypesInv, TypeOK, CreatePcs
  <2>5. QED
    BY <1>3, <2>1, <2>2, <2>3, <2>4
       DEF ReceiveCreate, Goto, TypesInv, TypeOK, Pcs, CreatePcs, bounds, database
<1>4. ASSUME NEW d \in Decisions, Decide(w, d), pc[w] \in CreatePcs,
             UNCHANGED <<database, job, at, after, req, hubspot, bounds>>
      PROVE  TypesInv'
  BY <1>4 DEF Decide, Goto, TypesInv, TypeOK, Pcs, CreatePcs, Results, hubspot, bounds,
              database
<1>5. CASE ClassifyBadRequest(w)
  <2>1. PICK a \in ReferenceAnswers(job[w]) : Decide(w, BadRequestDecision(ReadEvidence(a)))
    BY <1>5 DEF ClassifyBadRequest
  <2>2. BadRequestDecision(ReadEvidence(a)) \in Decisions
    BY ResultTypes, DecisionTypes DEF ReferenceAnswers
  <2>3. QED
    BY <1>4, <1>5, <2>1, <2>2 DEF ClassifyBadRequest, CreatePcs
<1>6. CASE ClassifyConflict(w)
  <2> DEFINE d(a) == ConflictDecision(ReadEvidence(a), job[w] \notin EmailLess)
  <2>1. PICK a \in ReferenceAnswers(job[w]) :
            IF d(a) = NeedsEmailLookup
            THEN Goto(w, "classifyEmail") /\ UNCHANGED res
            ELSE Decide(w, d(a))
    BY <1>6 DEF ClassifyConflict
  <2>2. d(a) = NeedsEmailLookup \/ d(a) \in Decisions
    BY ResultTypes, DecisionTypes DEF ReferenceAnswers
  <2> HIDE DEF d
  <2>3. CASE d(a) = NeedsEmailLookup
    BY <1>6, <2>1, <2>3 DEF ClassifyConflict, Goto, TypesInv, TypeOK, Pcs, CreatePcs,
                            hubspot, bounds, database
  <2>4. CASE d(a) # NeedsEmailLookup
    BY <1>4, <1>6, <2>1, <2>2, <2>4 DEF ClassifyConflict, CreatePcs
  <2>5. QED
    BY <2>3, <2>4
<1>7. CASE ClassifyEmail(w)
  <2>1. PICK a \in EmailAnswers(job[w]) : Decide(w, EmailDecision(ReadEvidence(a)))
    BY <1>7 DEF ClassifyEmail
  <2>2. EmailDecision(ReadEvidence(a)) \in Decisions
    BY ResultTypes, DecisionTypes DEF EmailAnswers
  <2>3. QED
    BY <1>4, <1>7, <2>1, <2>2 DEF ClassifyEmail, CreatePcs
<1>8. ASSUME NEW l \in Leads, ClaimLead(w, l)
      PROVE  TypesInv'
  <2>1. row[l] \in LeadRow /\ at[w] \in Times
    BY DEF TypesInv, TypeOK
  <2>2. ClaimedRow(row[l], at[w]) \in LeadRow
    BY <2>1, ClaimTypes
  <2>3. SetLead(l, "SENDING", ClaimedRow(row[l], at[w]))
    BY <1>8 DEF ClaimLead
  <2>4. /\ status' \in [Leads -> DeliveryStatuses]
        /\ row' \in [Leads -> LeadRow]
    BY <2>2, <2>3, SetLeadTypes DEF DeliveryStatuses
  <2>5. QED
    BY <1>8, <2>4 DEF ClaimLead, MayClaim, Goto, TypesInv, TypeOK, Pcs, CreatePcs, hubspot, bounds
<1>9. ASSUME NEW l \in Leads, ClaimRecover(w, l)
      PROVE  TypesInv'
  BY <1>9, RecoverTypes
<1>10. QED
  BY <1>1, <1>2, <1>3, <1>5, <1>6, <1>7, <1>8, <1>9, ApplyCreateTypes DEF CreateStep

(* An update at a place outside the domain changes nothing.                 *)
LEMMA UpdateTypes ==
    ASSUME NEW S, NEW T, NEW f \in [S -> T], NEW x, NEW v, x \in S => v \in T
    PROVE  [f EXCEPT ![x] = v] \in [S -> T]
  OBVIOUS

LEMMA OutsideTypes ==
    ASSUME TypesInv,
           \/ \E w \in Workers : Abandon(w)
           \/ HubSpotStep \/ ClearPause \/ Tick
    PROVE  TypesInv'
<1>1. ASSUME NEW w \in Workers, Abandon(w)
      PROVE  TypesInv'
  <2>1. EndCycle(w)
    BY <1>1 DEF Abandon
  <2>2. orphan \in [Leads -> Nat] /\ (job[w] \in Leads => orphan[job[w]] + 1 \in Nat)
    BY DEF TypesInv, TypeOK
  <2>3. [orphan EXCEPT ![job[w]] = @ + 1] \in [Leads -> Nat]
    BY <2>2, UpdateTypes
  <2>4. orphan' \in [Leads -> Nat]
    BY <1>1, <2>2, <2>3 DEF Abandon
  <2>5. QED
    BY <1>1, <2>1, <2>4, EndCycleTypes DEF Abandon, TypesInv, TypeOK, database
<1>2. ASSUME NEW w \in Workers, HubSpotAccepts(w)
      PROVE  TypesInv'
  <2>1. accepted \in [Leads -> Nat] /\ (job[w] \in Leads => accepted[job[w]] + 1 \in Nat)
    BY DEF TypesInv, TypeOK
  <2>2. [accepted EXCEPT ![job[w]] = @ + 1] \in [Leads -> Nat]
    BY <2>1, UpdateTypes
  <2>3. QED
    BY <1>2, <2>2 DEF HubSpotAccepts, Create, TypesInv, TypeOK, bounds, database
<1>3. ASSUME NEW l \in Leads, HubSpotAcceptsLate(l)
      PROVE  TypesInv'
  <2>1. orphan[l] - 1 \in Nat
    BY <1>3 DEF HubSpotAcceptsLate, TypesInv, TypeOK
  <2>2. QED
    BY <1>3, <2>1 DEF HubSpotAcceptsLate, Create, TypesInv, TypeOK, bounds, database, memory
<1>4. ASSUME NEW l \in Leads,
             \/ ArchiveContact(l) \/ EditContact(l) \/ RepairContact(l)
             \/ ForeignCollision(l)
      PROVE  TypesInv'
  BY <1>4 DEF ArchiveContact, EditContact, RepairContact, ForeignCollision, ContactEdit,
              TypesInv, TypeOK, bounds, database, memory
<1>5. CASE ClearPause
  BY <1>5 DEF ClearPause, TypesInv, TypeOK, hubspot, memory
<1>6. CASE Tick
  BY <1>6 DEF Tick, TypesInv, TypeOK, hubspot, memory, database
<1>7. QED
  BY <1>1, <1>2, <1>3, <1>4, <1>5, <1>6 DEF HubSpotStep

LEMMA TypesStep == TypesInv /\ [Next]_vars => TypesInv'
<1> SUFFICES ASSUME TypesInv, [Next]_vars
             PROVE  TypesInv'
  OBVIOUS
<1>1. ASSUME NEW w \in Workers, WorkerStep(w)
      PROVE  TypesInv'
  BY <1>1, IntakeTypes, GateTypes, ReconcileTypes, CreateTypes DEF WorkerStep
<1>2. CASE UNCHANGED vars
  BY <1>2 DEF vars, TypesInv, TypeOK
<1>3. QED
  BY <1>1, <1>2, OutsideTypes DEF Next

(* The database's check constraints and the types of all other state hold   *)
(* in every state, whatever results are applied in whatever order.          *)
THEOREM Types == Spec => []TypeOK
<1>1. TypesInv => TypeOK
  BY DEF TypesInv
<1>2. QED
  BY <1>1, TypesInit, TypesStep, PTL DEF Spec

-----------------------------------------------------------------------------
(***************************************************************************)
(* The books of a lead: what its row says it waits for, and what it spent. *)
(* A lead that may be created again has a create to spare: one for each    *)
(* retry, one for each cleared pause, and one more if a pause is still to  *)
(* be cleared.                                                             *)
(***************************************************************************)
Pending == IF Paused THEN 1 ELSE 0

BudgetKept ==
    \A l \in Leads :
        /\ row[l].attempts <= 1 + row[l].retries + clears
        /\ status[l] \in {"PENDING", "RETRY_PENDING"} =>
              row[l].attempts <= row[l].retries + clears + Pending

Booked == TypesInv /\ ScheduleMatchesStatus /\ BudgetKept

(* The row r is scheduled as a lead of status s should be.                  *)
Scheduled(s, r) ==
    /\ (r.nextRetryAt # NoTime) <=> (s = "RETRY_PENDING")
    /\ (r.nextReconAt # NoTime) <=> (s = "UNKNOWN")

(* What a transaction may do to the counters: leave them and a status from  *)
(* which nothing is created, count one retry, return an attempt to a paused *)
(* delivery, or spend what a ready lead has to spare.                       *)
Accounted(l, s, r) ==
    \/ /\ s \notin {"PENDING", "RETRY_PENDING"}
       /\ r.attempts = row[l].attempts /\ r.retries = row[l].retries
    \/ /\ s = "RETRY_PENDING"
       /\ r.attempts = row[l].attempts /\ r.retries = row[l].retries + 1
    \/ /\ s = "PENDING" /\ Paused'
       /\ r.attempts = row[l].attempts /\ r.retries = row[l].retries
    \/ /\ s = "SENDING" /\ status[l] \in {"PENDING", "RETRY_PENDING"} /\ ~ Paused
       /\ r.attempts = row[l].attempts + 1 /\ r.retries = row[l].retries
    \/ r.attempts = 0 /\ r.retries = 0

(* The columns each form of write leaves and sets.                          *)
LEMMA FollowUpColumns ==
    ASSUME NEW r \in LeadRow, NEW n, NEW e, NEW t
    PROVE  /\ FollowUp(r, n, e, t).nextRetryAt = NoTime
           /\ FollowUp(r, n, e, t).nextReconAt = t
           /\ FollowUp(r, n, e, t).attempts = r.attempts
           /\ FollowUp(r, n, e, t).retries = r.retries
  BY DEF FollowUp, LeadRow

LEMMA UnscheduledColumns ==
    ASSUME NEW r \in LeadRow
    PROVE  /\ Unscheduled(r).nextRetryAt = NoTime /\ Unscheduled(r).nextReconAt = NoTime
           /\ Unscheduled(r).attempts = r.attempts /\ Unscheduled(r).retries = r.retries
  BY DEF Unscheduled, LeadRow

LEMMA ReleasedColumns ==
    ASSUME NEW r \in LeadRow, NEW x, x = [r EXCEPT !.nextRetryAt = NoTime]
    PROVE  /\ x.nextRetryAt = NoTime /\ x.nextReconAt = r.nextReconAt
           /\ x.attempts = r.attempts /\ x.retries = r.retries
  BY DEF LeadRow

LEMMA ClaimedColumns ==
    ASSUME NEW r \in LeadRow, NEW t
    PROVE  /\ ClaimedRow(r, t).nextRetryAt = NoTime
           /\ ClaimedRow(r, t).nextReconAt = r.nextReconAt
           /\ ClaimedRow(r, t).attempts = r.attempts + 1
           /\ ClaimedRow(r, t).retries = r.retries
  BY DEF ClaimedRow, LeadRow

(* A transaction that writes one lead keeps the books of all.               *)
LEMMA WriteBooked ==
    ASSUME Booked, TypesInv', NEW l \in Leads, NEW s, NEW r,
           SetLead(l, s, r), Scheduled(s, r), Accounted(l, s, r),
           Paused => Paused', clears' = clears
    PROVE  Booked'
<1>1. /\ status'[l] = s /\ row'[l] = r
      /\ \A k \in Leads \ {l} : status'[k] = status[k] /\ row'[k] = row[k]
  BY DEF Booked, TypesInv, TypeOK, SetLead
<1>2. /\ \A k \in Leads : /\ row[k].attempts \in Nat /\ row[k].retries \in Nat
                          /\ row'[k].attempts \in Nat /\ row'[k].retries \in Nat
      /\ clears \in Nat /\ Pending \in 0..1 /\ Pending' \in 0..1 /\ Pending <= Pending'
  <2>1. ASSUME NEW r0 \in LeadRow
        PROVE  r0.attempts \in Nat /\ r0.retries \in Nat
    BY DEF LeadRow
  <2>2. /\ row \in [Leads -> LeadRow] /\ row' \in [Leads -> LeadRow]
        /\ clears \in Nat
    BY DEF Booked, TypesInv, TypeOK
  <2>3. Pending \in 0..1 /\ Pending' \in 0..1 /\ Pending <= Pending'
    BY DEF Pending
  <2>4. QED
    BY <2>1, <2>2, <2>3
<1>3. ScheduleMatchesStatus'
  <2>1. \A k \in Leads : Scheduled(status'[k], row'[k])
    BY <1>1 DEF Booked, ScheduleMatchesStatus, Scheduled
  <2>2. QED
    BY <2>1 DEF ScheduleMatchesStatus, Scheduled
<1>4. ASSUME NEW k \in Leads
      PROVE  /\ row'[k].attempts <= 1 + row'[k].retries + clears'
             /\ status'[k] \in {"PENDING", "RETRY_PENDING"} =>
                   row'[k].attempts <= row'[k].retries + clears' + Pending'
  <2>1. /\ row[k].attempts <= 1 + row[k].retries + clears
        /\ status[k] \in {"PENDING", "RETRY_PENDING"} =>
              row[k].attempts <= row[k].retries + clears + Pending
    BY DEF Booked, BudgetKept
  <2>2. CASE k # l
    BY <1>1, <1>2, <2>1, <2>2
  <2>3. CASE k = l
    <3>1. Pending' = 1 <=> Paused'
      BY DEF Pending
    <3>2. Pending = 0 <=> ~ Paused
      BY DEF Pending
    <3>3. QED
      BY <1>1, <1>2, <2>1, <2>3, <3>1, <3>2 DEF Accounted
  <2>4. QED
    BY <2>2, <2>3
<1>5. BudgetKept'
  BY <1>4 DEF BudgetKept
<1>6. QED
  BY <1>3, <1>5 DEF Booked

(* A transaction that writes none.                                          *)
LEMMA SameBooked ==
    ASSUME Booked, TypesInv', UNCHANGED <<status, row, pauseReason, clears>>
    PROVE  Booked'
  BY DEF Booked, ScheduleMatchesStatus, BudgetKept, Pending, Paused

LEMMA BookedInit == Init => Booked
<1> SUFFICES ASSUME Init
             PROVE  Booked
  OBVIOUS
<1>1. ScheduleMatchesStatus /\ BudgetKept
  BY DEF Init, EmptyRow, ScheduleMatchesStatus, BudgetKept
<1>2. QED
  BY <1>1, TypesInit DEF Booked

LEMMA RecoverBooked ==
    ASSUME Booked, TypesInv', NEW w \in Workers, NEW l \in Leads,
           ReconcileRecover(w, l) \/ ClaimRecover(w, l)
    PROVE  Booked'
<1>1. /\ SetLead(l, "UNKNOWN", StaleUnknownRow(w, l))
      /\ UNCHANGED <<pauseReason, clears>> /\ pc[w] # "idle"
  BY DEF ReconcileRecover, ClaimRecover, RecoverStale, bounds
<1>2. row[l] \in LeadRow /\ at[w] # NoTime
  BY <1>1 DEF Booked, TypesInv, TypeOK, NoTime
<1>3. /\ Scheduled("UNKNOWN", StaleUnknownRow(w, l))
      /\ Accounted(l, "UNKNOWN", StaleUnknownRow(w, l))
  BY <1>2, FollowUpColumns DEF StaleUnknownRow, Scheduled, Accounted
<1>4. QED
  BY <1>1, <1>3, WriteBooked DEF Paused

LEMMA ApplyReadBooked ==
    ASSUME Booked, TypesInv', NEW w \in Workers,
           \/ ApplyFound(w) \/ ApplyMismatch(w) \/ ApplyReadPause(w)
           \/ ApplyNotFound(w) \/ EscalateNotFound(w)
           \/ ApplyReadError(w) \/ EscalateReadErrors(w)
    PROVE  Booked'
<1> DEFINE r == row[job[w]]
<1>1. /\ pc[w] = "applyRead" /\ status[job[w]] = "UNKNOWN" /\ clears' = clears
  BY DEF ApplyFound, ApplyMismatch, ApplyReadPause, ApplyNotFound, EscalateNotFound,
         ApplyReadError, EscalateReadErrors, Applying, bounds
<1>2. Paused => Paused'
  BY DEF ApplyFound, ApplyMismatch, ApplyReadPause, ApplyNotFound, EscalateNotFound,
         ApplyReadError, EscalateReadErrors, ActivatePause, Paused
<1>3. /\ job[w] \in Leads /\ r \in LeadRow /\ at[w] \in Nat
      /\ after[w] \in RetryAfterHeaders
  BY <1>1 DEF Booked, TypesInv, TypeOK
<1>4. r.nextRetryAt = NoTime /\ r.nextReconAt # NoTime
  BY <1>1, <1>3 DEF Booked, ScheduleMatchesStatus
<1>5. r.notFound \in 0..3 /\ r.errors \in 0..3
  BY <1>3 DEF LeadRow
<1> HIDE DEF r
<1>6. ASSUME NEW s, NEW x, SetLead(job[w], s, x),
             s \in {"SUCCESS", "UNKNOWN", "UNKNOWN_ESCALATED"},
             x.attempts = r.attempts, x.retries = r.retries, x.nextRetryAt = NoTime,
             (x.nextReconAt # NoTime) <=> (s = "UNKNOWN")
      PROVE  Booked'
  <2>1. Scheduled(s, x) /\ Accounted(job[w], s, x)
    BY <1>6 DEF Scheduled, Accounted, r
  <2>2. QED
    BY <1>1, <1>2, <1>3, <1>6, <2>1, WriteBooked
<1>7. CASE ApplyFound(w)
  BY <1>3, <1>6, <1>7, FollowUpColumns DEF ApplyFound, r
<1>8. CASE ApplyMismatch(w) \/ ApplyReadPause(w)
  BY <1>4, <1>6, <1>8 DEF ApplyMismatch, ApplyReadPause, r
<1>9. CASE EscalateNotFound(w) \/ EscalateReadErrors(w)
  BY <1>3, <1>6, <1>9, FollowUpColumns DEF EscalateNotFound, EscalateReadErrors, r
<1>10. CASE ApplyNotFound(w)
  <2> DEFINE t == at[w] + NotFoundDelay[r.notFound + 1]
             x == [r EXCEPT !.notFound = r.notFound + 1, !.errors = 0, !.nextReconAt = t]
  <2>1. r.notFound + 1 \in 1..2
    BY <1>5, <1>10 DEF ApplyNotFound, r
  <2>2. t \in Nat /\ t # NoTime
    BY <1>3, <2>1, DelaysAssumption DEF NoTime
  <2>3. SetLead(job[w], "UNKNOWN", x)
    BY <1>10 DEF ApplyNotFound, r
  <2> HIDE DEF t
  <2>4. /\ x.nextRetryAt = r.nextRetryAt /\ x.nextReconAt = t
        /\ x.attempts = r.attempts /\ x.retries = r.retries
    BY <1>3 DEF LeadRow
  <2>5. QED
    BY <1>4, <1>6, <2>2, <2>3, <2>4
<1>11. CASE ApplyReadError(w)
  <2> DEFINE t == ReadRetryTime(w, r.errors + 1)
             x == [r EXCEPT !.errors = r.errors + 1, !.nextReconAt = t]
  <2>1. r.errors + 1 \in 1..2
    BY <1>5, <1>11 DEF ApplyReadError, r
  <2>2. t \in Nat
    BY <1>3, <2>1, LaterTimes, DelaysAssumption DEF ReadRetryTime
  <2>3. SetLead(job[w], "UNKNOWN", x)
    BY <1>11 DEF ApplyReadError, r
  <2> HIDE DEF t
  <2>4. t # NoTime
    BY <2>2 DEF NoTime
  <2>5. /\ x.nextRetryAt = r.nextRetryAt /\ x.nextReconAt = t
        /\ x.attempts = r.attempts /\ x.retries = r.retries
    BY <1>3 DEF LeadRow
  <2>6. QED
    BY <1>4, <1>6, <2>3, <2>4, <2>5
<1>12. QED
  BY <1>7, <1>8, <1>9, <1>10, <1>11

LEMMA ApplyCreateBooked ==
    ASSUME Booked, TypesInv', NEW w \in Workers,
           \/ ApplySuccess(w) \/ ApplyRetry(w) \/ ApplyExhausted(w) \/ ApplyUnknown(w)
           \/ ApplyPause(w) \/ ApplyPermanentFailure(w)
           \/ ApplyDecisionPause(w) \/ ApplyDecisionTerminal(w)
    PROVE  Booked'
<1> DEFINE r == row[job[w]]
<1>1. /\ pc[w] \in {"applyCreate", "applyDecision"} /\ status[job[w]] = "SENDING"
      /\ clears' = clears
  BY DEF ApplySuccess, ApplyRetry, ApplyExhausted, ApplyUnknown, ApplyPause,
         ApplyPermanentFailure, ApplyDecisionPause, ApplyDecisionTerminal, Applying, bounds
<1>2. Paused => Paused'
  BY DEF ApplySuccess, ApplyRetry, ApplyExhausted, ApplyUnknown, ApplyPause,
         ApplyPermanentFailure, ApplyDecisionPause, ApplyDecisionTerminal,
         ActivatePause, Paused
<1>3. /\ job[w] \in Leads /\ r \in LeadRow /\ at[w] \in Nat
      /\ after[w] \in RetryAfterHeaders
  BY <1>1 DEF Booked, TypesInv, TypeOK, CreatePcs
<1>4. r.nextRetryAt = NoTime /\ r.nextReconAt = NoTime
  BY <1>1, <1>3 DEF Booked, ScheduleMatchesStatus
<1>5. r.retries \in 0..3
  BY <1>3 DEF LeadRow
<1> HIDE DEF r
<1>6. ASSUME NEW s, NEW x, SetLead(job[w], s, x),
             Scheduled(s, x), Accounted(job[w], s, x)
      PROVE  Booked'
  BY <1>1, <1>2, <1>3, <1>6, WriteBooked
<1>7. ASSUME NEW s \in {"SUCCESS", "FAILED_ESCALATED", "EXISTING_CONTACT"},
             SetLead(job[w], s, Unscheduled(r))
      PROVE  Booked'
  <2>1. Scheduled(s, Unscheduled(r)) /\ Accounted(job[w], s, Unscheduled(r))
    BY <1>3, UnscheduledColumns DEF Scheduled, Accounted, r
  <2>2. QED
    BY <1>6, <1>7, <2>1
<1>8. CASE ApplySuccess(w) \/ ApplyExhausted(w) \/ ApplyPermanentFailure(w)
           \/ ApplyDecisionTerminal(w)
  BY <1>7, <1>8
     DEF ApplySuccess, ApplyExhausted, ApplyPermanentFailure, ApplyDecisionTerminal, r
<1>9. CASE ApplyRetry(w)
  <2> DEFINE t == RetryTime(w, r.retries + 1)
             x == [r EXCEPT !.retries = r.retries + 1, !.nextRetryAt = t,
                            !.nextReconAt = NoTime]
  <2>1. r.retries + 1 \in 1..3
    BY <1>5, <1>9 DEF ApplyRetry, r
  <2>2. t \in Nat
    BY <1>3, <2>1, LaterTimes, DelaysAssumption DEF RetryTime
  <2>3. SetLead(job[w], "RETRY_PENDING", x)
    BY <1>9 DEF ApplyRetry, r
  <2> HIDE DEF t
  <2>4. t # NoTime
    BY <2>2 DEF NoTime
  <2>5. /\ x.nextRetryAt = t /\ x.nextReconAt = NoTime
        /\ x.attempts = r.attempts /\ x.retries = r.retries + 1
    BY <1>3 DEF LeadRow
  <2>6. Scheduled("RETRY_PENDING", x) /\ Accounted(job[w], "RETRY_PENDING", x)
    BY <2>4, <2>5 DEF Scheduled, Accounted, r
  <2>7. QED
    BY <1>6, <2>3, <2>6
<1>10. CASE ApplyUnknown(w)
  <2> DEFINE t == at[w] + ReconInitialDelay
  <2>1. t \in Nat /\ t # NoTime
    BY <1>3, DelaysAssumption DEF NoTime
  <2> HIDE DEF t
  <2>2. Scheduled("UNKNOWN", FollowUp(r, 0, 0, t))
        /\ Accounted(job[w], "UNKNOWN", FollowUp(r, 0, 0, t))
    BY <1>3, <2>1, FollowUpColumns DEF Scheduled, Accounted, r
  <2>3. QED
    BY <1>6, <1>10, <2>2 DEF ApplyUnknown, r, t
<1>11. CASE ApplyPause(w) \/ ApplyDecisionPause(w)
  <2> DEFINE x == [r EXCEPT !.nextRetryAt = NoTime]
  <2>1. SetLead(job[w], "PENDING", x)
    BY <1>11 DEF ApplyPause, ApplyDecisionPause, r
  <2>2. Paused'
    BY <1>11 DEF ApplyPause, ApplyDecisionPause, ActivatePause, ReadPauseReason,
                 DecisionPauseReason, Paused
  <2>3. /\ x.nextRetryAt = NoTime /\ x.nextReconAt = r.nextReconAt
        /\ x.attempts = r.attempts /\ x.retries = r.retries
    BY <1>3, ReleasedColumns
  <2>4. Scheduled("PENDING", x) /\ Accounted(job[w], "PENDING", x)
    BY <1>4, <2>2, <2>3 DEF Scheduled, Accounted, r
  <2>5. QED
    BY <1>6, <2>1, <2>4
<1>12. QED
  BY <1>8, <1>9, <1>10, <1>11

LEMMA InsertBooked ==
    ASSUME Booked, TypesInv', NEW w \in Workers, NEW l \in Leads, InsertLead(w, l)
    PROVE  Booked'
<1> DEFINE x == [EmptyRow EXCEPT !.createdAt = now]
<1>1. x.nextRetryAt = NoTime /\ x.nextReconAt = NoTime /\ x.attempts = 0 /\ x.retries = 0
  BY DEF EmptyRow
<1>2. SetLead(l, "PENDING", x) /\ UNCHANGED <<pauseReason, clears>>
  BY DEF InsertLead, bounds
<1> HIDE DEF x
<1>3. Scheduled("PENDING", x) /\ Accounted(l, "PENDING", x)
  BY <1>1 DEF Scheduled, Accounted
<1>4. QED
  BY <1>2, <1>3, WriteBooked DEF Paused

LEMMA ClaimBooked ==
    ASSUME Booked, TypesInv', NEW w \in Workers, NEW l \in Leads, ClaimLead(w, l)
    PROVE  Booked'
<1>1. /\ SetLead(l, "SENDING", ClaimedRow(row[l], at[w]))
      /\ UNCHANGED <<pauseReason, clears>> /\ ~ Paused
  BY DEF ClaimLead, MayClaim, bounds
<1>2. status[l] \in {"PENDING", "RETRY_PENDING"}
  BY DEF ClaimLead, IsFirst, Eligible
<1>3. row[l] \in LeadRow /\ row[l].nextReconAt = NoTime
  BY <1>2 DEF Booked, TypesInv, TypeOK, ScheduleMatchesStatus
<1>4. /\ Scheduled("SENDING", ClaimedRow(row[l], at[w]))
      /\ Accounted(l, "SENDING", ClaimedRow(row[l], at[w]))
  BY <1>1, <1>2, <1>3, ClaimedColumns DEF Scheduled, Accounted
<1>5. QED
  BY <1>1, <1>4, WriteBooked DEF Paused

(* A cleared pause is one more attempt for every lead.                      *)
LEMMA ClearBooked ==
    ASSUME Booked, TypesInv', ClearPause
    PROVE  Booked'
<1>1. UNCHANGED <<status, row>> /\ clears' = clears + 1 /\ pauseReason' = "NONE" /\ Paused
  BY DEF ClearPause
<1>2. Pending = 1 /\ Pending' = 0
  BY <1>1 DEF Pending, Paused
<1>3. clears \in Nat
  BY DEF Booked, TypesInv, TypeOK
<1>4. ASSUME NEW l \in Leads
      PROVE  row[l].attempts \in Nat /\ row[l].retries \in Nat
  <2>1. row[l] \in LeadRow
    BY DEF Booked, TypesInv, TypeOK
  <2>2. QED
    BY <2>1 DEF LeadRow
<1>5. BudgetKept'
  BY <1>1, <1>2, <1>3, <1>4 DEF Booked, BudgetKept
<1>6. ScheduleMatchesStatus'
  BY <1>1 DEF Booked, ScheduleMatchesStatus
<1>7. QED
  BY <1>5, <1>6 DEF Booked

LEMMA BookedStep == Booked /\ [Next]_vars => Booked'
<1> SUFFICES ASSUME Booked, [Next]_vars
             PROVE  Booked'
  OBVIOUS
<1>1. TypesInv'
  BY TypesStep DEF Booked
<1>2. CASE UNCHANGED vars
  BY <1>1, <1>2, SameBooked DEF vars
<1>3. ASSUME NEW w \in Workers, IntakeStep(w)
      PROVE  Booked'
  BY <1>1, <1>3, InsertBooked, SameBooked
     DEF IntakeStep, StartCycle, SkipNormalization, database, bounds
<1>4. ASSUME NEW w \in Workers, GateClear(w) \/ GateBlocked(w)
      PROVE  Booked'
  BY <1>1, <1>4, SameBooked DEF GateClear, GateBlocked, database, bounds
<1>5. ASSUME NEW w \in Workers, ReconcileStep(w)
      PROVE  Booked'
  <2>1. CASE NothingToReconcile(w) \/ ReadReference(w) \/ ReadLost(w)
             \/ \E l \in Leads : SelectUnknown(w, l)
    BY <1>1, <2>1, SameBooked
       DEF NothingToReconcile, ReadReference, ReadLost, SelectUnknown, database, bounds
  <2>2. QED
    BY <1>1, <1>5, <2>1, ApplyReadBooked, RecoverBooked DEF ReconcileStep
<1>6. ASSUME NEW w \in Workers, CreateStep(w)
      PROVE  Booked'
  <2>1. CASE \/ NothingToClaim(w) \/ SendCreate(w) \/ ReceiveCreate(w)
             \/ ClassifyBadRequest(w) \/ ClassifyConflict(w) \/ ClassifyEmail(w)
             \/ CreateLost(w)
    BY <1>1, <2>1, SameBooked
       DEF NothingToClaim, SendCreate, ReceiveCreate, ClassifyBadRequest,
           ClassifyConflict, ClassifyEmail, CreateLost, database, bounds
  <2>2. QED
    BY <1>1, <1>6, <2>1, ApplyCreateBooked, ClaimBooked, RecoverBooked DEF CreateStep
<1>7. CASE (\E w \in Workers : Abandon(w)) \/ HubSpotStep \/ Tick
  BY <1>1, <1>7, SameBooked
     DEF Abandon, HubSpotStep, Tick, HubSpotAccepts, HubSpotAcceptsLate, ArchiveContact,
         EditContact, RepairContact, ForeignCollision, ContactEdit, database, bounds
<1>8. QED
  BY <1>1, <1>2, <1>3, <1>4, <1>5, <1>6, <1>7, ClearBooked DEF Next, WorkerStep

LEMMA BookedAlways == Spec => []Booked
  BY BookedInit, BookedStep, PTL DEF Spec

(* No lead is parked with nothing to wake it, and none is woken from a      *)
(* status that is over: apply_create_result, _apply_deferred_decision, the  *)
(* claim, the recovery and the reconciliation set and clear the due times   *)
(* together with the status, whatever workers they run in.                  *)
THEOREM ScheduleTrue == Spec => []ScheduleMatchesStatus
<1>1. Booked => ScheduleMatchesStatus
  BY DEF Booked
<1>2. QED
  BY <1>1, BookedAlways, PTL

(* However cycles overlap and crash, a lead is attempted at most once plus  *)
(* once per counted retry plus once per pause an operator cleared           *)
(* (operator.clear_crm_pause).                                              *)
THEOREM BudgetHolds == Spec => []RetryBudget
<1>1. Booked => RetryBudget
  BY DEF Booked, BudgetKept, RetryBudget
<1>2. QED
  BY <1>1, BookedAlways, PTL

-----------------------------------------------------------------------------
(***************************************************************************)
(* What the deployment's one replica adds.  No lead is SENDING from the    *)
(* moment the gate lets the worker through until it claims one, so the     *)
(* lead it claims or looks up is the only one under way.                   *)
(***************************************************************************)
OneReplica == \A v, w \in Workers : v = w

BeyondGate == {"reconSelect", "claim", "readRef", "applyRead"}

GateHeld == \A w \in Workers : pc[w] \in BeyondGate => SendingLeads = {}

OneInFlight == TypesInv /\ SingleFlight /\ NoResultLost /\ PauseStopsDelivery /\ GateHeld

LEMMA AloneInit == Init => OneInFlight
<1> SUFFICES ASSUME Init
             PROVE  OneInFlight
  OBVIOUS
<1>1. SingleFlight /\ NoResultLost /\ PauseStopsDelivery /\ GateHeld
  BY DEF Init, SingleFlight, SendingLeads, NoResultLost, PauseStopsDelivery, Paused,
         GateHeld, BeyondGate, CreatePcs
<1>2. QED
  BY <1>1, TypesInit DEF OneInFlight

(* The only worker moves on within a cycle; the leads stay as they are.     *)
LEMMA AloneMoves ==
    ASSUME OneReplica, OneInFlight, TypesInv', NEW w \in Workers, NEW place,
           Goto(w, place), UNCHANGED <<status, pauseReason>>,
           place \in CreatePcs => ~ Paused /\ status[job'[w]] = "SENDING",
           place \in {"readRef", "applyRead"} => ~ Paused /\ status[job'[w]] = "UNKNOWN",
           place \in BeyondGate => SendingLeads = {}
    PROVE  OneInFlight'
<1>1. \A v \in Workers : v = w /\ pc'[v] = place
  BY DEF OneReplica, Goto, OneInFlight, TypesInv, TypeOK
<1>2. SendingLeads' = SendingLeads /\ Paused' = Paused
  BY DEF SendingLeads, Paused
<1>3. SingleFlight'
  BY <1>2 DEF SingleFlight, OneInFlight
<1>4. NoResultLost'
  BY <1>1 DEF NoResultLost
<1>5. PauseStopsDelivery'
  BY <1>1, <1>2 DEF PauseStopsDelivery
<1>6. GateHeld'
  BY <1>1, <1>2 DEF GateHeld
<1>7. QED
  BY <1>3, <1>4, <1>5, <1>6 DEF OneInFlight

(* The only worker ends its cycle; no further lead becomes SENDING.         *)
LEMMA AloneEnds ==
    ASSUME OneReplica, OneInFlight, TypesInv', NEW w \in Workers, EndCycle(w),
           \A k \in Leads : status'[k] = "SENDING" => status[k] = "SENDING"
    PROVE  OneInFlight'
<1>1. \A v \in Workers : pc'[v] = "idle"
  BY DEF OneReplica, EndCycle, Goto, OneInFlight, TypesInv, TypeOK
<1>2. SingleFlight'
  BY DEF SingleFlight, SendingLeads, OneInFlight
<1>3. NoResultLost' /\ PauseStopsDelivery' /\ GateHeld'
  BY <1>1 DEF NoResultLost, PauseStopsDelivery, GateHeld, BeyondGate, CreatePcs
<1>4. QED
  BY <1>2, <1>3 DEF OneInFlight

LEMMA AloneWrites ==
    ASSUME OneReplica, OneInFlight, TypesInv', NEW w \in Workers, EndCycle(w),
           NEW l \in Leads, NEW s, NEW r, SetLead(l, s, r), s # "SENDING"
    PROVE  OneInFlight'
<1>1. \A k \in Leads : status'[k] = "SENDING" => status[k] = "SENDING"
  BY DEF SetLead, OneInFlight, TypesInv, TypeOK
<1>2. QED
  BY <1>1, AloneEnds

LEMMA AloneIntake ==
    ASSUME OneReplica, OneInFlight, TypesInv', NEW w \in Workers, IntakeStep(w)
    PROVE  OneInFlight'
<1>1. CASE StartCycle(w) \/ SkipNormalization(w)
  BY <1>1, AloneMoves DEF StartCycle, SkipNormalization, database, CreatePcs, BeyondGate
<1>2. ASSUME NEW l \in Leads, InsertLead(w, l)
      PROVE  OneInFlight'
  <2>1. \A v \in Workers : pc'[v] = "reconGate"
    BY <1>2 DEF InsertLead, OneReplica, Goto, OneInFlight, TypesInv, TypeOK
  <2>2. \A k \in Leads : status'[k] = "SENDING" => status[k] = "SENDING"
    BY <1>2 DEF InsertLead, SetLead, OneInFlight, TypesInv, TypeOK
  <2>3. SingleFlight'
    BY <2>2 DEF SingleFlight, SendingLeads, OneInFlight
  <2>4. NoResultLost' /\ PauseStopsDelivery' /\ GateHeld'
    BY <2>1 DEF NoResultLost, PauseStopsDelivery, GateHeld, BeyondGate, CreatePcs
  <2>5. QED
    BY <2>3, <2>4 DEF OneInFlight
<1>3. QED
  BY <1>1, <1>2 DEF IntakeStep

(* A recovery leaves no lead SENDING: there was only one.                   *)
LEMMA AloneRecovers ==
    ASSUME OneReplica, OneInFlight, TypesInv', NEW w \in Workers, NEW l \in Leads,
           ReconcileRecover(w, l) \/ ClaimRecover(w, l)
    PROVE  OneInFlight'
<1>1. CASE ClaimRecover(w, l)
  BY <1>1, AloneWrites DEF ClaimRecover, RecoverStale
<1>2. CASE ReconcileRecover(w, l)
  <2>1. \A v \in Workers : pc'[v] = "reconSelect"
    BY <1>2 DEF ReconcileRecover, OneReplica, Goto, OneInFlight, TypesInv, TypeOK
  <2>2. SendingLeads = {l}
    BY <1>2 DEF ReconcileRecover, RecoverStale, OldestSending, IsFirst, OneInFlight,
                SingleFlight
  <2>3. /\ status'[l] = "UNKNOWN"
        /\ \A k \in Leads \ {l} : status'[k] = status[k]
    BY <1>2 DEF ReconcileRecover, RecoverStale, SetLead, OneInFlight, TypesInv, TypeOK
  <2>4. SendingLeads' = {}
    BY <2>2, <2>3 DEF SendingLeads
  <2>5. SingleFlight' /\ GateHeld'
    BY <2>4 DEF SingleFlight, GateHeld
  <2>6. NoResultLost' /\ PauseStopsDelivery'
    BY <2>1 DEF NoResultLost, PauseStopsDelivery, CreatePcs
  <2>7. QED
    BY <2>5, <2>6 DEF OneInFlight
<1>3. QED
  BY <1>1, <1>2

LEMMA AloneReconciles ==
    ASSUME OneReplica, OneInFlight, TypesInv', NEW w \in Workers, ReconcileStep(w)
    PROVE  OneInFlight'
<1>1. CASE NothingToReconcile(w)
  BY <1>1, AloneMoves DEF NothingToReconcile, database, CreatePcs, BeyondGate
<1>2. CASE ReadReference(w)
  <2>1. /\ pc[w] = "readRef" /\ Goto(w, "applyRead") /\ job' = job
        /\ UNCHANGED <<status, pauseReason>>
    BY <1>2 DEF ReadReference, database
  <2>2. SendingLeads = {} /\ ~ Paused /\ status[job[w]] = "UNKNOWN"
    BY <2>1 DEF OneInFlight, GateHeld, BeyondGate, PauseStopsDelivery, NoResultLost
  <2>3. "applyRead" \notin CreatePcs
    BY DEF CreatePcs
  <2>4. QED
    BY <2>1, <2>2, <2>3, AloneMoves
<1>3. CASE ReadLost(w)
  BY <1>3, AloneEnds DEF ReadLost, database
<1>4. ASSUME NEW l \in Leads, SelectUnknown(w, l)
      PROVE  OneInFlight'
  <2>1. /\ pc[w] = "reconSelect" /\ ~ Paused /\ Goto(w, "readRef")
        /\ UNCHANGED <<status, pauseReason>>
    BY <1>4 DEF SelectUnknown, database
  <2>2. job'[w] = l /\ status[l] = "UNKNOWN"
    BY <1>4 DEF SelectUnknown, IsFirst, DueUnknown, OneInFlight, TypesInv, TypeOK
  <2>3. SendingLeads = {}
    BY <2>1 DEF OneInFlight, GateHeld, BeyondGate
  <2>4. "readRef" \notin CreatePcs
    BY DEF CreatePcs
  <2>5. QED
    BY <2>1, <2>2, <2>3, <2>4, AloneMoves
<1>5. CASE \/ ApplyFound(w) \/ ApplyMismatch(w) \/ ApplyReadPause(w)
           \/ ApplyNotFound(w) \/ EscalateNotFound(w)
           \/ ApplyReadError(w) \/ EscalateReadErrors(w)
  <2>1. Applying(w, "applyRead", "UNKNOWN")
    BY <1>5 DEF ApplyFound, ApplyMismatch, ApplyReadPause, ApplyNotFound,
                EscalateNotFound, ApplyReadError, EscalateReadErrors
  <2>2. job[w] \in Leads /\ EndCycle(w)
    BY <2>1 DEF Applying, OneInFlight, TypesInv
  <2>3. PICK s \in {"SUCCESS", "UNKNOWN", "UNKNOWN_ESCALATED"} : \E r : SetLead(job[w], s, r)
    BY <1>5 DEF ApplyFound, ApplyMismatch, ApplyReadPause, ApplyNotFound,
                EscalateNotFound, ApplyReadError, EscalateReadErrors
  <2>4. QED
    BY <2>2, <2>3, AloneWrites
<1>6. QED
  BY <1>1, <1>2, <1>3, <1>4, <1>5, AloneRecovers DEF ReconcileStep

(* The worker that holds the SENDING lead goes on with it.                  *)
LEMMA AloneCarriesOn ==
    ASSUME OneReplica, OneInFlight, TypesInv', NEW w \in Workers,
           NEW place \in CreatePcs, pc[w] \in CreatePcs, Goto(w, place),
           UNCHANGED <<status, pauseReason, job>>
    PROVE  OneInFlight'
<1>1. ~ Paused /\ status[job[w]] = "SENDING"
  BY DEF OneInFlight, PauseStopsDelivery, NoResultLost
<1>2. place \notin BeyondGate
  BY DEF CreatePcs, BeyondGate
<1>3. place \notin {"readRef", "applyRead"}
  BY DEF CreatePcs
<1>4. QED
  BY <1>1, <1>2, <1>3, AloneMoves

LEMMA AloneCreates ==
    ASSUME OneReplica, OneInFlight, TypesInv', NEW w \in Workers, CreateStep(w)
    PROVE  OneInFlight'
<1>1. CASE NothingToClaim(w) \/ CreateLost(w)
  BY <1>1, AloneEnds DEF NothingToClaim, CreateLost, database
<1>2. CASE \/ SendCreate(w) \/ ReceiveCreate(w) \/ ClassifyBadRequest(w)
           \/ ClassifyConflict(w) \/ ClassifyEmail(w)
  <2>1. /\ pc[w] \in CreatePcs /\ UNCHANGED <<status, pauseReason, job>>
        /\ \E place \in CreatePcs : Goto(w, place)
    <3>1. CASE SendCreate(w)
      BY <3>1 DEF SendCreate, database, CreatePcs
    <3>2. CASE ReceiveCreate(w)
      BY <3>2 DEF ReceiveCreate, AfterCreate, database, CreatePcs
    <3>3. CASE ClassifyBadRequest(w) \/ ClassifyEmail(w)
      BY <3>3 DEF ClassifyBadRequest, ClassifyEmail, Decide, database, CreatePcs
    <3>4. CASE ClassifyConflict(w)
      BY <3>4 DEF ClassifyConflict, Decide, database, CreatePcs
    <3>5. QED
      BY <1>2, <3>1, <3>2, <3>3, <3>4
  <2>2. QED
    BY <2>1, AloneCarriesOn
<1>3. CASE \/ ApplySuccess(w) \/ ApplyRetry(w) \/ ApplyExhausted(w) \/ ApplyUnknown(w)
           \/ ApplyPause(w) \/ ApplyPermanentFailure(w)
           \/ ApplyDecisionPause(w) \/ ApplyDecisionTerminal(w)
  <2>1. \E place \in CreatePcs : Applying(w, place, "SENDING")
    BY <1>3 DEF ApplySuccess, ApplyRetry, ApplyExhausted, ApplyUnknown, ApplyPause,
                ApplyPermanentFailure, ApplyDecisionPause, ApplyDecisionTerminal, CreatePcs
  <2>2. job[w] \in Leads /\ EndCycle(w)
    BY <2>1 DEF Applying, OneInFlight, TypesInv
  <2>3. PICK s \in DeliveryStatuses \ {"SENDING"} : \E r : SetLead(job[w], s, r)
    BY <1>3 DEF ApplySuccess, ApplyRetry, ApplyExhausted, ApplyUnknown, ApplyPause,
                ApplyPermanentFailure, ApplyDecisionPause, ApplyDecisionTerminal,
                DeliveryStatuses
  <2>4. QED
    BY <2>2, <2>3, AloneWrites
<1>4. ASSUME NEW l \in Leads, ClaimLead(w, l)
      PROVE  OneInFlight'
  <2>1. pc[w] = "claim" /\ ~ Paused /\ UNCHANGED pauseReason
    BY <1>4 DEF ClaimLead, MayClaim
  <2>2. SendingLeads = {}
    BY <2>1 DEF OneInFlight, GateHeld, BeyondGate
  <2>3. /\ status'[l] = "SENDING" /\ job'[w] = l
        /\ \A k \in Leads \ {l} : status'[k] = status[k]
        /\ \A v \in Workers : v = w /\ pc'[v] = "send"
    BY <1>4 DEF ClaimLead, SetLead, Goto, OneReplica, OneInFlight, TypesInv, TypeOK
  <2>4. SendingLeads' = {l}
    BY <2>2, <2>3 DEF SendingLeads
  <2>5. SingleFlight'
    BY <2>4 DEF SingleFlight
  <2>6. NoResultLost' /\ PauseStopsDelivery' /\ GateHeld'
    BY <2>1, <2>3 DEF NoResultLost, PauseStopsDelivery, Paused, GateHeld, BeyondGate,
                      CreatePcs
  <2>7. QED
    BY <2>5, <2>6 DEF OneInFlight
<1>5. QED
  BY <1>1, <1>2, <1>3, <1>4, AloneRecovers DEF CreateStep

LEMMA AloneStep ==
    ASSUME OneReplica
    PROVE  OneInFlight /\ [Next]_vars => OneInFlight'
<1> SUFFICES ASSUME OneInFlight, [Next]_vars
             PROVE  OneInFlight'
  OBVIOUS
<1>1. TypesInv'
  BY TypesStep DEF OneInFlight
<1>2. ASSUME UNCHANGED <<status, pc, job>>, pauseReason' \in {pauseReason, "NONE"}
      PROVE  OneInFlight'
  BY <1>1, <1>2 DEF OneInFlight, SingleFlight, SendingLeads, NoResultLost,
                    PauseStopsDelivery, Paused, GateHeld
<1>3. CASE UNCHANGED vars \/ HubSpotStep \/ ClearPause \/ Tick
  BY <1>2, <1>3 DEF vars, HubSpotStep, ClearPause, Tick, HubSpotAccepts,
         HubSpotAcceptsLate, ArchiveContact, EditContact, RepairContact,
         ForeignCollision, ContactEdit, database, memory
<1>4. ASSUME NEW w \in Workers, Abandon(w)
      PROVE  OneInFlight'
  BY <1>1, <1>4, AloneEnds DEF Abandon, database
<1>5. ASSUME NEW w \in Workers, GateClear(w)
      PROVE  OneInFlight'
  BY <1>1, <1>5, AloneMoves
     DEF GateClear, AfterGate, database, BeyondGate, CreatePcs
<1>6. ASSUME NEW w \in Workers, GateBlocked(w)
      PROVE  OneInFlight'
  BY <1>1, <1>6, AloneEnds DEF GateBlocked, database
<1>7. QED
  BY <1>1, <1>3, <1>4, <1>5, <1>6, AloneIntake, AloneReconciles, AloneCreates
     DEF Next, WorkerStep

LEMMA AloneAlways ==
    ASSUME OneReplica
    PROVE  Spec => []OneInFlight
  BY AloneInit, AloneStep, PTL DEF Spec

(* With one replica at most one lead is SENDING, whatever crashed before:   *)
(* the gate both CRM transactions open with                                 *)
(* (_check_or_recover_sending_in_transaction) is read and acted on by the   *)
(* same worker.                                                             *)
THEOREM OneSending ==
    ASSUME OneReplica
    PROVE  Spec => []SingleFlight
<1>1. OneInFlight => SingleFlight
  BY DEF OneInFlight
<1>2. QED
  BY <1>1, AloneAlways, PTL

(* With one replica no completed result is thrown away: apply_create_result *)
(* and the reconciliation find the lead in the status they left it in.      *)
THEOREM ResultsApply ==
    ASSUME OneReplica
    PROVE  Spec => []NoResultLost
<1>1. OneInFlight => NoResultLost
  BY DEF OneInFlight
<1>2. QED
  BY <1>1, AloneAlways, PTL

(* With one replica nothing is asked of HubSpot while delivery is paused:   *)
(* the pause is read by the transactions that select or claim a lead, and   *)
(* only this worker sets it.                                                *)
THEOREM PauseHolds ==
    ASSUME OneReplica
    PROVE  Spec => []PauseStopsDelivery
<1>1. OneInFlight => PauseStopsDelivery
  BY DEF OneInFlight
<1>2. QED
  BY <1>1, AloneAlways, PTL
=============================================================================
