--------------------------- MODULE CrmSafetyProofs ---------------------------
(***************************************************************************)
(* CRM delivery creates no lead twice and records no outcome that is not   *)
(* true of HubSpot, for any number of leads and of workers, however their  *)
(* cycles overlap.  The inductive invariant is SafeDelivery, and on it     *)
(* stands that CRM delivery implements LeadPromise.                        *)
(***************************************************************************)
EXTENDS CrmDeliveryProofs

Inv == TypesInv /\ SafeDelivery

(* What an answer says is what HubSpot did.                                 *)
LEMMA CreateEvidence ==
    ASSUME NEW a \in Answers
    PROVE  /\ a \in CreatedAnswers => ClassifyCreate(a) \in {"SUCCESS", "UNKNOWN"}
           /\ a \in NotCreatedAnswers => ClassifyCreate(a) # "SUCCESS"
           /\ ClassifyCreate(a) \in CreateCategories
  BY StatusesAssumption
     DEF Answers, CreatedAnswers, NotCreatedAnswers, ClassifyCreate,
         CreateStatusCategory, CreateCategories

LEMMA MatchEvidence ==
    ASSUME NEW a \in Answers, ReadEvidence(a) = "FOUND_MATCH"
    PROVE  a.kind = "response" /\ a.status = 200 /\ a.usable /\ a.same
  BY StatusesAssumption DEF ReadEvidence, ClassifyRead, Answers

LEMMA ReferenceEvidence ==
    ASSUME NEW l \in Leads, NEW a \in ReferenceAnswers(l),
           ReadEvidence(a) = "FOUND_MATCH"
    PROVE  contact[l] = "match"
<1>1. a \in Answers
  BY Zenon DEF ReferenceAnswers
<1>2. /\ a.kind = "response" /\ a.status = 200 /\ a.usable => a.same = (contact[l] = "match")
  BY Zenon DEF ReferenceAnswers
<1>3. QED
  BY <1>1, <1>2, MatchEvidence, Zenon

-----------------------------------------------------------------------------
LEMMA SafeInit == Init => Inv
<1> SUFFICES ASSUME Init
             PROVE  SafeDelivery
  BY TypesInit DEF Inv
<1>1. TypeOK
  BY TypesInit DEF TypesInv
<1>2. QED
  BY <1>1 DEF Init, SafeDelivery, AtMostOneContact, TruthfulOutcome, OneOwner,
              RequestMatchesPlace, ResultIsEvidence, MatchIsCreated, Untouched, CreatePcs

(* A worker step that ends a cycle and writes nothing.                      *)
LEMMA EndSafe ==
    ASSUME Inv, NEW w \in Workers, EndCycle(w), req[w] = "none",
           UNCHANGED <<status, req, contact, accepted, orphan>>, TypesInv'
    PROVE  Inv'
<1> USE DEF Inv, SafeDelivery, TypesInv, TypeOK, EndCycle, Goto, NoLead, NoResult
<1>1. AtMostOneContact' /\ TruthfulOutcome'
  BY DEF AtMostOneContact, TruthfulOutcome, Untouched
<1>2. OneOwner'
  BY DEF OneOwner, CreatePcs
<1>3. RequestMatchesPlace'
  BY DEF RequestMatchesPlace
<1>4. ResultIsEvidence'
  BY DEF ResultIsEvidence, Untouched, RequestMatchesPlace
<1>5. MatchIsCreated'
  BY DEF MatchIsCreated
<1>6. QED
  BY <1>1, <1>2, <1>3, <1>4, <1>5

(* Between two places where the worker does not hold a lead.                *)
LEMMA WalkSafe ==
    ASSUME Inv, NEW w \in Workers, NEW place, Goto(w, place),
           pc[w] \in {"idle", "normalize", "reconGate", "reconSelect", "claimGate", "claim"},
           place \in {"normalize", "reconGate", "reconSelect", "claimGate", "claim"},
           UNCHANGED <<status, job, res, req, contact, accepted, orphan>>, TypesInv'
    PROVE  Inv'
<1> USE DEF Inv, SafeDelivery, TypesInv, TypeOK, Goto
<1>1. AtMostOneContact' /\ TruthfulOutcome'
  BY DEF AtMostOneContact, TruthfulOutcome, Untouched
<1>2. OneOwner'
  BY DEF OneOwner, CreatePcs
<1>3. RequestMatchesPlace'
  BY DEF RequestMatchesPlace
<1>4. ResultIsEvidence'
  BY DEF ResultIsEvidence, Untouched, RequestMatchesPlace
<1>5. MatchIsCreated'
  BY DEF MatchIsCreated
<1>6. QED
  BY <1>1, <1>2, <1>3, <1>4, <1>5

(* A lead's status changes in a way its evidence allows, and no worker but  *)
(* the one that writes it is creating the lead, or the status stays one     *)
(* that allows an outstanding create.                                       *)
LEMMA OutcomeSafe ==
    ASSUME Inv, NEW l \in Leads, NEW s \in DeliveryStatuses,
           status' = [status EXCEPT ![l] = s],
           UNCHANGED <<accepted, orphan>>,
           s = "SUCCESS" => accepted[l] = 1,
           s \in {"NONE", "PENDING", "RETRY_PENDING", "FAILED_ESCALATED",
                  "EXISTING_CONTACT"} => Untouched(l)
    PROVE  AtMostOneContact' /\ TruthfulOutcome'
  BY DEF Inv, SafeDelivery, TypeOK, AtMostOneContact, TruthfulOutcome, Untouched

LEMMA ApplySafe ==
    ASSUME Inv, NEW w \in Workers, NEW s \in DeliveryStatuses,
           \/ pc[w] \in {"applyCreate", "applyDecision"}
           \/ pc[w] = "applyRead" /\ s \in {"UNKNOWN", "SUCCESS", "UNKNOWN_ESCALATED"},
           EndCycle(w), status' = [status EXCEPT ![job[w]] = s],
           UNCHANGED <<req, contact, accepted, orphan>>,
           s = "SUCCESS" => accepted[job[w]] = 1,
           s \in {"NONE", "PENDING", "RETRY_PENDING", "FAILED_ESCALATED",
                  "EXISTING_CONTACT"} => Untouched(job[w]),
           s # "SENDING", TypesInv'
    PROVE  Inv'
<1> USE DEF Inv, SafeDelivery, TypesInv, TypeOK, EndCycle, Goto, NoLead, NoResult
<1>1. job[w] \in Leads
  BY DEF CreatePcs
<1>2. AtMostOneContact' /\ TruthfulOutcome'
  BY <1>1, OutcomeSafe
<1>3. OneOwner'
  BY <1>1 DEF OneOwner, CreatePcs, DeliveryStatuses
<1>4. RequestMatchesPlace'
  BY DEF RequestMatchesPlace
<1>5. ResultIsEvidence'
  BY DEF ResultIsEvidence, Untouched, RequestMatchesPlace
<1>6. MatchIsCreated'
  BY DEF MatchIsCreated
<1>7. QED
  BY <1>2, <1>3, <1>4, <1>5, <1>6

-----------------------------------------------------------------------------
LEMMA IntakeSafe ==
    ASSUME Inv, NEW w \in Workers, IntakeStep(w)
    PROVE  Inv'
<1>1. TypesInv'
  BY IntakeTypes DEF Inv
<1>2. CASE StartCycle(w) \/ SkipNormalization(w)
  BY <1>1, <1>2, WalkSafe DEF StartCycle, SkipNormalization, database, hubspot
<1>3. ASSUME NEW l \in Leads, InsertLead(w, l)
      PROVE  Inv'
  <2> USE DEF Inv, SafeDelivery, TypesInv, TypeOK, Goto
  <2>1. /\ status[l] = "NONE" /\ status' = [status EXCEPT ![l] = "PENDING"]
        /\ pc[w] = "normalize" /\ pc' = [pc EXCEPT ![w] = "reconGate"]
        /\ UNCHANGED <<job, res, req, contact, accepted, orphan>>
    BY <1>3 DEF InsertLead, SetLead, hubspot
  <2>2. Untouched(l)
    BY <2>1 DEF TruthfulOutcome
  <2>3. AtMostOneContact' /\ TruthfulOutcome'
    BY <2>1, <2>2, OutcomeSafe DEF DeliveryStatuses
  <2>4. OneOwner'
    BY <2>1 DEF OneOwner, CreatePcs
  <2>5. RequestMatchesPlace'
    BY <2>1 DEF RequestMatchesPlace
  <2>6. ResultIsEvidence'
    BY <2>1 DEF ResultIsEvidence, Untouched, RequestMatchesPlace
  <2>7. MatchIsCreated'
    BY <2>1 DEF MatchIsCreated
  <2>8. QED
    BY <1>1, <2>3, <2>4, <2>5, <2>6, <2>7
<1>4. QED
  BY <1>2, <1>3 DEF IntakeStep

LEMMA GateSafe ==
    ASSUME Inv, NEW w \in Workers, GateClear(w) \/ GateBlocked(w)
    PROVE  Inv'
<1>1. TypesInv'
  BY GateTypes DEF Inv
<1>2. CASE GateClear(w)
  BY <1>1, <1>2, WalkSafe DEF GateClear, AfterGate, database, hubspot
<1>3. CASE GateBlocked(w)
  <2>1. req[w] = "none"
    BY <1>3 DEF GateBlocked, Inv, SafeDelivery, RequestMatchesPlace
  <2>2. QED
    BY <1>1, <1>3, <2>1, EndSafe DEF GateBlocked, database, hubspot
<1>4. QED
  BY <1>2, <1>3

(* A stale lead becomes UNKNOWN whatever its last worker is still doing.    *)
LEMMA RecoverSafe ==
    ASSUME Inv, NEW w \in Workers, NEW l \in Leads,
           ReconcileRecover(w, l) \/ ClaimRecover(w, l)
    PROVE  Inv'
<1> USE DEF Inv, SafeDelivery, TypesInv, TypeOK
<1>1. TypesInv'
  BY RecoverTypes
<1>2. /\ status[l] = "SENDING" /\ status' = [status EXCEPT ![l] = "UNKNOWN"]
      /\ pc[w] \in {"reconGate", "claimGate"}
      /\ \E place \in {"reconSelect", "idle"} : pc' = [pc EXCEPT ![w] = place]
      /\ \A v \in Workers \ {w} : job'[v] = job[v] /\ res'[v] = res[v]
      /\ UNCHANGED <<req, contact, accepted, orphan>>
  BY DEF ReconcileRecover, ClaimRecover, RecoverStale, SetLead, hubspot, OldestSending, IsFirst,
         SendingLeads, EndCycle, Goto
<1>3. AtMostOneContact' /\ TruthfulOutcome'
  BY <1>2, OutcomeSafe DEF DeliveryStatuses
<1>4. OneOwner'
  BY <1>1, <1>2 DEF OneOwner, CreatePcs
<1>5. RequestMatchesPlace'
  BY <1>2 DEF RequestMatchesPlace
<1>6. ResultIsEvidence'
  BY <1>2 DEF ResultIsEvidence, Untouched, RequestMatchesPlace
<1>7. MatchIsCreated'
  BY <1>1, <1>2 DEF MatchIsCreated
<1>8. QED
  BY <1>1, <1>3, <1>4, <1>5, <1>6, <1>7

LEMMA ReconcileSafe ==
    ASSUME Inv, NEW w \in Workers, ReconcileStep(w)
    PROVE  Inv'
<1> USE DEF Inv, SafeDelivery, TypesInv, TypeOK
<1>1. TypesInv'
  BY ReconcileTypes
<1>2. CASE NothingToReconcile(w)
  BY <1>1, <1>2, WalkSafe DEF NothingToReconcile, database, hubspot
<1>3. CASE ReadLost(w)
  <2>1. req[w] = "none"
    BY <1>3 DEF ReadLost, RequestMatchesPlace
  <2>2. QED
    BY <1>1, <1>3, <2>1, EndSafe DEF ReadLost, database, hubspot
<1>4. CASE ReadReference(w)
  <2>1. PICK a \in ReferenceAnswers(job[w]) : res' = [res EXCEPT ![w] = ReadEvidence(a)]
    BY <1>4 DEF ReadReference
  <2>2. /\ pc[w] = "readRef" /\ pc' = [pc EXCEPT ![w] = "applyRead"]
        /\ UNCHANGED <<status, job, req, contact, accepted, orphan>>
    BY <1>4 DEF ReadReference, Goto, database, hubspot
  <2>3. job[w] \in Leads
    BY <2>2
  <2>4. ReadEvidence(a) = "FOUND_MATCH" => accepted[job[w]] = 1
    BY <2>3, ReferenceEvidence DEF MatchIsCreated
  <2>5. AtMostOneContact' /\ TruthfulOutcome'
    BY <2>2 DEF AtMostOneContact, TruthfulOutcome, Untouched
  <2>6. OneOwner'
    BY <2>2 DEF OneOwner, CreatePcs
  <2>7. RequestMatchesPlace'
    BY <2>2 DEF RequestMatchesPlace
  <2>8. ResultIsEvidence'
    BY <2>1, <2>2 DEF ResultIsEvidence, Untouched, RequestMatchesPlace
  <2>9. MatchIsCreated'
    BY <2>1, <2>2, <2>3, <2>4 DEF MatchIsCreated
  <2>10. QED
    BY <1>1, <2>5, <2>6, <2>7, <2>8, <2>9
<1>5. ASSUME NEW l \in Leads, SelectUnknown(w, l)
      PROVE  Inv'
  <2>1. /\ pc[w] = "reconSelect" /\ pc' = [pc EXCEPT ![w] = "readRef"]
        /\ job' = [job EXCEPT ![w] = l]
        /\ UNCHANGED <<status, res, req, contact, accepted, orphan>>
    BY <1>5 DEF SelectUnknown, Goto, database, hubspot
  <2>2. AtMostOneContact' /\ TruthfulOutcome'
    BY <2>1 DEF AtMostOneContact, TruthfulOutcome, Untouched
  <2>3. OneOwner'
    BY <2>1 DEF OneOwner, CreatePcs
  <2>4. RequestMatchesPlace'
    BY <2>1 DEF RequestMatchesPlace
  <2>5. ResultIsEvidence'
    BY <2>1 DEF ResultIsEvidence, Untouched, RequestMatchesPlace
  <2>6. MatchIsCreated'
    BY <2>1 DEF MatchIsCreated
  <2>7. QED
    BY <1>1, <2>2, <2>3, <2>4, <2>5, <2>6
<1>6. CASE \/ ApplyFound(w) \/ ApplyMismatch(w) \/ ApplyReadPause(w)
           \/ ApplyNotFound(w) \/ EscalateNotFound(w)
           \/ ApplyReadError(w) \/ EscalateReadErrors(w)
  <2>1. PICK s \in {"SUCCESS", "UNKNOWN", "UNKNOWN_ESCALATED"} :
            /\ status' = [status EXCEPT ![job[w]] = s]
            /\ s = "SUCCESS" => res[w] = "FOUND_MATCH"
    BY <1>6 DEF ApplyFound, ApplyMismatch, ApplyReadPause, ApplyNotFound,
                EscalateNotFound, ApplyReadError, EscalateReadErrors, SetLead
  <2>2. Applying(w, "applyRead", "UNKNOWN")
    BY <1>6 DEF ApplyFound, ApplyMismatch, ApplyReadPause, ApplyNotFound,
                EscalateNotFound, ApplyReadError, EscalateReadErrors
  <2>3. /\ pc[w] = "applyRead" /\ EndCycle(w)
        /\ UNCHANGED <<req, contact, accepted, orphan>>
    BY <2>2 DEF Applying, hubspot
  <2>4. s = "SUCCESS" => accepted[job[w]] = 1
    BY <2>1, <2>3 DEF MatchIsCreated
  <2>5. s \in DeliveryStatuses
    BY DEF DeliveryStatuses
  <2>6. QED
    BY <1>1, <2>1, <2>3, <2>4, <2>5, ApplySafe
<1>7. QED
  BY <1>2, <1>3, <1>4, <1>5, <1>6, RecoverSafe DEF ReconcileStep

-----------------------------------------------------------------------------
LEMMA ApplyCreateSafe ==
    ASSUME Inv, NEW w \in Workers,
           \/ ApplySuccess(w) \/ ApplyRetry(w) \/ ApplyExhausted(w) \/ ApplyUnknown(w)
           \/ ApplyPause(w) \/ ApplyPermanentFailure(w)
           \/ ApplyDecisionPause(w) \/ ApplyDecisionTerminal(w)
    PROVE  Inv'
<1>1. TypesInv'
  BY ApplyCreateTypes DEF Inv
<1>2. PICK place \in {"applyCreate", "applyDecision"} : Applying(w, place, "SENDING")
  BY DEF ApplySuccess, ApplyRetry, ApplyExhausted, ApplyUnknown, ApplyPause,
         ApplyPermanentFailure, ApplyDecisionPause, ApplyDecisionTerminal
<1>3. /\ pc[w] = place /\ EndCycle(w)
      /\ UNCHANGED <<req, contact, accepted, orphan>>
  BY <1>2 DEF Applying, hubspot
<1>4. /\ pc[w] = "applyDecision" => Untouched(job[w])
      /\ pc[w] = "applyCreate" =>
             /\ res[w] = "SUCCESS" => accepted[job[w]] = 1
             /\ res[w] \notin {"SUCCESS", "UNKNOWN"} => Untouched(job[w])
  BY DEF Inv, SafeDelivery, ResultIsEvidence
<1>5. ASSUME NEW s \in DeliveryStatuses, s # "SENDING",
             status' = [status EXCEPT ![job[w]] = s],
             s = "SUCCESS" => accepted[job[w]] = 1,
             s \in {"NONE", "PENDING", "RETRY_PENDING", "FAILED_ESCALATED",
                    "EXISTING_CONTACT"} => Untouched(job[w])
      PROVE  Inv'
  BY <1>1, <1>3, <1>5, ApplySafe
<1>6. {"SUCCESS", "UNKNOWN", "RETRY_PENDING", "PENDING", "FAILED_ESCALATED",
       "EXISTING_CONTACT"} \subseteq DeliveryStatuses
  BY DEF DeliveryStatuses
<1>7. CASE ApplySuccess(w)
  BY <1>4, <1>5, <1>6, <1>7 DEF ApplySuccess, Applying, SetLead
<1>8. CASE ApplyRetry(w)
  BY <1>4, <1>5, <1>6, <1>8 DEF ApplyRetry, Applying, SetLead, Retryable
<1>9. CASE ApplyExhausted(w)
  BY <1>4, <1>5, <1>6, <1>9 DEF ApplyExhausted, Applying, SetLead, Retryable
<1>10. CASE ApplyUnknown(w)
  BY <1>4, <1>5, <1>6, <1>10 DEF ApplyUnknown, Applying, SetLead
<1>11. CASE ApplyPause(w)
  BY <1>4, <1>5, <1>6, <1>11 DEF ApplyPause, Applying, SetLead
<1>12. CASE ApplyPermanentFailure(w)
  BY <1>4, <1>5, <1>6, <1>12 DEF ApplyPermanentFailure, Applying, SetLead
<1>13. CASE ApplyDecisionPause(w)
  BY <1>4, <1>5, <1>6, <1>13 DEF ApplyDecisionPause, Applying, SetLead
<1>14. CASE ApplyDecisionTerminal(w)
  BY <1>4, <1>5, <1>6, <1>14 DEF ApplyDecisionTerminal, Applying, SetLead
<1>15. QED
  BY <1>7, <1>8, <1>9, <1>10, <1>11, <1>12, <1>13, <1>14

(* A refused create moves on from lookup to lookup to its decision; HubSpot *)
(* holds nothing of the lead all along.                                     *)
LEMMA ClassifySafe ==
    ASSUME Inv, NEW w \in Workers,
           ClassifyBadRequest(w) \/ ClassifyConflict(w) \/ ClassifyEmail(w)
    PROVE  Inv'
<1> USE DEF Inv, SafeDelivery, TypesInv, TypeOK
<1>1. TypesInv'
  <2>1. CreateStep(w)
    BY DEF CreateStep
  <2>2. QED
    BY <2>1, CreateTypes
<1>2. /\ pc[w] \in {"classifyRef", "classifyEmail"}
      /\ \E place \in {"classifyEmail", "applyDecision"} : pc' = [pc EXCEPT ![w] = place]
      /\ \A v \in Workers \ {w} : res'[v] = res[v]
      /\ UNCHANGED <<status, job, req, contact, accepted, orphan>>
  BY DEF ClassifyBadRequest, ClassifyConflict, ClassifyEmail, Decide, Goto, database,
         hubspot
<1>3. AtMostOneContact' /\ TruthfulOutcome'
  BY <1>2 DEF AtMostOneContact, TruthfulOutcome, Untouched
<1>4. OneOwner'
  BY <1>2 DEF OneOwner, CreatePcs
<1>5. RequestMatchesPlace'
  BY <1>2 DEF RequestMatchesPlace
<1>6. ResultIsEvidence'
  BY <1>2 DEF ResultIsEvidence, Untouched, RequestMatchesPlace
<1>7. MatchIsCreated'
  BY <1>2 DEF MatchIsCreated
<1>8. QED
  BY <1>1, <1>3, <1>4, <1>5, <1>6, <1>7

LEMMA ClaimSafe ==
    ASSUME Inv, NEW w \in Workers, NEW l \in Leads, ClaimLead(w, l)
    PROVE  Inv'
<1> USE DEF Inv, SafeDelivery, TypesInv, TypeOK
<1>1. TypesInv'
  <2>1. CreateStep(w)
    BY DEF CreateStep
  <2>2. QED
    BY <2>1, CreateTypes
<1>2. /\ pc[w] = "claim" /\ pc' = [pc EXCEPT ![w] = "send"]
      /\ job' = [job EXCEPT ![w] = l]
      /\ status[l] \in {"PENDING", "RETRY_PENDING"}
      /\ status' = [status EXCEPT ![l] = "SENDING"]
      /\ UNCHANGED <<res, req, contact, accepted, orphan>>
  BY DEF ClaimLead, MayClaim, Goto, SetLead, IsFirst, Eligible, hubspot
<1>3. Untouched(l)
  BY <1>2 DEF TruthfulOutcome
<1>4. AtMostOneContact' /\ TruthfulOutcome'
  BY <1>2, OutcomeSafe DEF DeliveryStatuses
<1>5. \A v \in Workers : pc[v] \in CreatePcs => job[v] # l
  BY <1>2 DEF OneOwner
<1>6. OneOwner'
  BY <1>1, <1>2, <1>5 DEF OneOwner, CreatePcs
<1>7. RequestMatchesPlace'
  BY <1>2 DEF RequestMatchesPlace
<1>8. ResultIsEvidence'
  BY <1>2, <1>3 DEF ResultIsEvidence, Untouched, RequestMatchesPlace
<1>9. MatchIsCreated'
  BY <1>2 DEF MatchIsCreated
<1>10. QED
  BY <1>1, <1>4, <1>6, <1>7, <1>8, <1>9

LEMMA ExchangeSafe ==
    ASSUME Inv, NEW w \in Workers, SendCreate(w) \/ ReceiveCreate(w)
    PROVE  Inv'
<1> USE DEF Inv, SafeDelivery, TypesInv, TypeOK, Goto
<1>1. TypesInv'
  <2>1. CreateStep(w)
    BY DEF CreateStep
  <2>2. QED
    BY <2>1, CreateTypes
<1>2. CASE SendCreate(w)
  <2>1. /\ pc[w] = "send" /\ pc' = [pc EXCEPT ![w] = "awaitCreate"]
        /\ req' = [req EXCEPT ![w] = "open"]
        /\ UNCHANGED <<status, job, res, contact, accepted, orphan>>
    BY <1>2 DEF SendCreate, database, hubspot
  <2>2. AtMostOneContact' /\ TruthfulOutcome'
    BY <2>1 DEF AtMostOneContact, TruthfulOutcome, Untouched
  <2>3. OneOwner'
    BY <2>1 DEF OneOwner, CreatePcs
  <2>4. RequestMatchesPlace'
    BY <2>1 DEF RequestMatchesPlace
  <2>5. ResultIsEvidence'
    BY <2>1 DEF ResultIsEvidence, Untouched, RequestMatchesPlace
  <2>6. MatchIsCreated'
    BY <2>1 DEF MatchIsCreated
  <2>7. QED
    BY <1>1, <2>2, <2>3, <2>4, <2>5, <2>6
<1>3. CASE ReceiveCreate(w)
  <2>1. PICK a \in Answers :
            /\ a \in (IF req[w] = "accepted" THEN CreatedAnswers ELSE NotCreatedAnswers)
            /\ res' = [res EXCEPT ![w] = ClassifyCreate(a)]
            /\ pc' = [pc EXCEPT ![w] = AfterCreate(ClassifyCreate(a))]
            /\ orphan' = IF req[w] = "open" /\ a \in CreatedAnswers
                         THEN [orphan EXCEPT ![job[w]] = @ + 1] ELSE orphan
    BY <1>3 DEF ReceiveCreate
  <2>2. /\ pc[w] = "awaitCreate" /\ req' = [req EXCEPT ![w] = "none"]
        /\ UNCHANGED <<status, job, contact, accepted>>
    BY <1>3 DEF ReceiveCreate, database
  <2>3. job[w] \in Leads /\ status[job[w]] \in {"SENDING", "UNKNOWN", "SUCCESS",
                                               "UNKNOWN_ESCALATED"}
    BY <2>2 DEF OneOwner, CreatePcs
  <2>4. req[w] \in {"open", "accepted"}
    BY <2>2 DEF RequestMatchesPlace
  <2>5. /\ req[w] = "open" => Untouched(job[w])
        /\ req[w] = "accepted" => accepted[job[w]] = 1
    BY DEF ResultIsEvidence
  <2> DEFINE c == ClassifyCreate(a)
  <2>6. /\ req[w] = "accepted" => c \in {"SUCCESS", "UNKNOWN"}
        /\ req[w] = "open" => c # "SUCCESS"
        /\ req[w] = "open" /\ a \in CreatedAnswers => c = "UNKNOWN"
    BY <2>1, <2>4, CreateEvidence
  <2>7. /\ AfterCreate(c) \in {"classifyRef", "applyCreate"}
        /\ AfterCreate(c) = "classifyRef" => c \notin {"SUCCESS", "UNKNOWN"}
    BY DEF AfterCreate
  <2> HIDE DEF c
  <2>8. \A l \in Leads : orphan'[l] = orphan[l] \/ (l = job[w] /\ req[w] = "open"
                                            /\ orphan'[l] = 1 /\ c = "UNKNOWN")
    BY <2>1, <2>5, <2>6 DEF Untouched
  <2>9. AtMostOneContact' /\ TruthfulOutcome'
    BY <2>2, <2>3, <2>5, <2>8 DEF AtMostOneContact, TruthfulOutcome, Untouched
  <2>10. OneOwner'
    BY <2>1, <2>2, <2>7 DEF OneOwner, CreatePcs, c
  <2>11. RequestMatchesPlace'
    BY <2>1, <2>2, <2>7 DEF RequestMatchesPlace, c
  <2>12. ResultIsEvidence'
    <3>1. \A v \in Workers \ {w} : pc[v] \in CreatePcs => job[v] # job[w]
      BY <2>2 DEF OneOwner, CreatePcs
    <3>2. \A v \in Workers \ {w} : /\ pc'[v] = pc[v] /\ res'[v] = res[v]
                                   /\ req'[v] = req[v] /\ job'[v] = job[v]
                                   /\ req[v] # "none" => pc[v] \in CreatePcs
      BY <2>1, <2>2 DEF RequestMatchesPlace, CreatePcs
    <3>3. \A v \in Workers \ {w} : pc[v] \in CreatePcs =>
              /\ accepted'[job[v]] = accepted[job[v]]
              /\ orphan'[job[v]] = orphan[job[v]]
      BY <2>2, <2>8, <3>1 DEF OneOwner
    <3>4. /\ pc'[w] = AfterCreate(c) /\ res'[w] = c /\ req'[w] = "none"
      BY <2>1, <2>2 DEF c
    <3>5. c \notin {"SUCCESS", "UNKNOWN"} => Untouched(job[w])'
      BY <2>2, <2>3, <2>4, <2>5, <2>6, <2>8 DEF Untouched
    <3>6. c = "SUCCESS" => accepted'[job[w]] = 1
      BY <2>2, <2>4, <2>5, <2>6
    <3> DEFINE Evidence(v) ==
          /\ pc[v] \in {"send", "classifyRef", "classifyEmail", "applyDecision"}
                 => Untouched(job[v])
          /\ req[v] = "open" => Untouched(job[v])
          /\ req[v] = "accepted" => accepted[job[v]] = 1
          /\ pc[v] = "applyCreate" =>
                 /\ res[v] = "SUCCESS" => accepted[job[v]] = 1
                 /\ res[v] \notin {"SUCCESS", "UNKNOWN"} => Untouched(job[v])
    <3>7. Evidence(w)'
      BY <2>2, <2>7, <3>4, <3>5, <3>6 DEF Untouched
    <3>8. ASSUME NEW v \in Workers \ {w}
          PROVE  Evidence(v)'
      <4>1. Evidence(v)
        BY DEF ResultIsEvidence
      <4>2. /\ pc'[v] = pc[v] /\ res'[v] = res[v] /\ req'[v] = req[v] /\ job'[v] = job[v]
            /\ req[v] # "none" => pc[v] \in CreatePcs
        BY <3>2
      <4>3. pc[v] \in CreatePcs => (Untouched(job[v])' <=> Untouched(job[v]))
        BY <2>2, <3>3 DEF Untouched
      <4>4. pc[v] \in CreatePcs => accepted'[job[v]] = accepted[job[v]]
        BY <3>3
      <4>5. QED
        BY <4>1, <4>2, <4>3, <4>4 DEF CreatePcs, Untouched
    <3>9. QED
      BY <3>7, <3>8 DEF ResultIsEvidence
  <2>13. MatchIsCreated'
    BY <2>1, <2>2, <2>7 DEF MatchIsCreated, c
  <2>14. QED
    BY <1>1, <2>9, <2>10, <2>11, <2>12, <2>13
<1>4. QED
  BY <1>2, <1>3

LEMMA CreateSafe ==
    ASSUME Inv, NEW w \in Workers, CreateStep(w)
    PROVE  Inv'
<1>1. TypesInv'
  BY CreateTypes DEF Inv
<1>2. CASE NothingToClaim(w) \/ CreateLost(w)
  <2>1. req[w] = "none"
    BY <1>2 DEF NothingToClaim, CreateLost, Inv, SafeDelivery, RequestMatchesPlace, TypeOK
  <2>2. QED
    BY <1>1, <1>2, <2>1, EndSafe DEF NothingToClaim, CreateLost, database, hubspot
<1>3. QED
  BY <1>2, ExchangeSafe, ClassifySafe, ApplyCreateSafe, ClaimSafe, RecoverSafe
     DEF CreateStep

-----------------------------------------------------------------------------
(* A request given up on may still be performed: it counts from then on as  *)
(* outstanding.                                                             *)
LEMMA AbandonSafe ==
    ASSUME Inv, NEW w \in Workers, Abandon(w)
    PROVE  Inv'
<1> USE DEF Inv, SafeDelivery, TypesInv, TypeOK
<1>1. TypesInv'
  BY OutsideTypes
<1>2. CASE req[w] = "open"
  <2>1. /\ pc[w] = "awaitCreate" /\ pc' = [pc EXCEPT ![w] = "idle"]
        /\ job' = [job EXCEPT ![w] = NoLead] /\ res' = [res EXCEPT ![w] = NoResult]
        /\ req' = [req EXCEPT ![w] = "none"]
        /\ orphan' = [orphan EXCEPT ![job[w]] = @ + 1]
        /\ UNCHANGED <<status, contact, accepted>>
    BY <1>2 DEF Abandon, EndCycle, Goto, database, RequestMatchesPlace
  <2>2. /\ job[w] \in Leads /\ Untouched(job[w])
        /\ status[job[w]] \in {"SENDING", "UNKNOWN", "SUCCESS", "UNKNOWN_ESCALATED"}
        /\ \A v \in Workers \ {w} : pc[v] \in CreatePcs => job[v] # job[w]
    BY <1>2, <2>1 DEF OneOwner, ResultIsEvidence, CreatePcs
  <2>3. /\ orphan'[job[w]] = 1
        /\ \A l \in Leads \ {job[w]} : orphan'[l] = orphan[l]
    BY <2>1, <2>2 DEF Untouched
  <2>4. AtMostOneContact'
    BY <2>1, <2>2, <2>3 DEF AtMostOneContact, Untouched
  <2>5. TruthfulOutcome'
    BY <2>1, <2>2, <2>3 DEF TruthfulOutcome, Untouched
  <2>6. OneOwner'
    BY <2>1 DEF OneOwner, CreatePcs
  <2>7. RequestMatchesPlace'
    BY <2>1 DEF RequestMatchesPlace
  <2>8. ResultIsEvidence'
    <3>1. ASSUME NEW v \in Workers \ {w}, pc[v] \in CreatePcs
          PROVE  orphan'[job[v]] = orphan[job[v]]
      BY <2>2, <2>3, <3>1 DEF OneOwner
    <3>2. \A v \in Workers \ {w} : req[v] # "none" => pc[v] \in CreatePcs
      BY DEF RequestMatchesPlace, CreatePcs
    <3>3. QED
      BY <2>1, <3>1, <3>2 DEF ResultIsEvidence, Untouched, CreatePcs
  <2>9. MatchIsCreated'
    BY <2>1 DEF MatchIsCreated
  <2>10. QED
    BY <1>1, <2>4, <2>5, <2>6, <2>7, <2>8, <2>9
<1>3. CASE req[w] # "open"
  <2>1. /\ pc' = [pc EXCEPT ![w] = "idle"]
        /\ job' = [job EXCEPT ![w] = NoLead] /\ res' = [res EXCEPT ![w] = NoResult]
        /\ req' = [req EXCEPT ![w] = "none"]
        /\ UNCHANGED <<status, contact, accepted, orphan>>
    BY <1>3 DEF Abandon, EndCycle, Goto, database
  <2>2. AtMostOneContact' /\ TruthfulOutcome'
    BY <2>1 DEF AtMostOneContact, TruthfulOutcome, Untouched
  <2>3. OneOwner'
    BY <2>1 DEF OneOwner, CreatePcs
  <2>4. RequestMatchesPlace'
    BY <2>1 DEF RequestMatchesPlace
  <2>5. ResultIsEvidence'
    BY <2>1 DEF ResultIsEvidence, Untouched
  <2>6. MatchIsCreated'
    BY <2>1 DEF MatchIsCreated
  <2>7. QED
    BY <1>1, <2>2, <2>3, <2>4, <2>5, <2>6
<1>4. QED
  BY <1>2, <1>3

(* HubSpot performs a create its worker still waits for.                    *)
LEMMA AcceptSafe ==
    ASSUME Inv, NEW w \in Workers, HubSpotAccepts(w)
    PROVE  Inv'
<1> USE DEF Inv, SafeDelivery, TypesInv, TypeOK
<1>1. TypesInv'
  <2>1. HubSpotStep
    BY DEF HubSpotStep
  <2>2. QED
    BY <2>1, OutsideTypes
<1>2. /\ req[w] = "open" /\ req' = [req EXCEPT ![w] = "accepted"]
      /\ contact' = [contact EXCEPT ![job[w]] = "match"]
      /\ accepted' = [accepted EXCEPT ![job[w]] = @ + 1]
      /\ UNCHANGED <<status, pc, job, res, orphan>>
  BY DEF HubSpotAccepts, Create, database
<1>3. /\ pc[w] = "awaitCreate" /\ job[w] \in Leads /\ Untouched(job[w])
      /\ status[job[w]] \in {"SENDING", "UNKNOWN", "SUCCESS", "UNKNOWN_ESCALATED"}
      /\ \A v \in Workers \ {w} : pc[v] \in CreatePcs => job[v] # job[w]
  BY <1>2 DEF OneOwner, ResultIsEvidence, RequestMatchesPlace, CreatePcs
<1>4. /\ accepted'[job[w]] = 1
      /\ \A l \in Leads \ {job[w]} : accepted'[l] = accepted[l] /\ contact'[l] = contact[l]
  BY <1>2, <1>3 DEF Untouched
<1>5. AtMostOneContact'
  BY <1>2, <1>3, <1>4 DEF AtMostOneContact, Untouched
<1>6. TruthfulOutcome'
  BY <1>2, <1>3, <1>4 DEF TruthfulOutcome, Untouched
<1>7. OneOwner'
  BY <1>2 DEF OneOwner
<1>8. RequestMatchesPlace'
  BY <1>2, <1>3 DEF RequestMatchesPlace
<1>9. ResultIsEvidence'
  <2>1. ASSUME NEW v \in Workers \ {w}, pc[v] \in CreatePcs
        PROVE  accepted'[job[v]] = accepted[job[v]]
    BY <1>3, <1>4, <2>1 DEF OneOwner
  <2>2. \A v \in Workers \ {w} : req[v] # "none" => pc[v] \in CreatePcs
    BY DEF RequestMatchesPlace, CreatePcs
  <2>3. QED
    BY <1>2, <1>3, <1>4, <2>1, <2>2 DEF ResultIsEvidence, Untouched, CreatePcs
<1>10. MatchIsCreated'
  BY <1>2, <1>3, <1>4 DEF MatchIsCreated, Untouched
<1>11. QED
  BY <1>1, <1>5, <1>6, <1>7, <1>8, <1>9, <1>10

(* HubSpot performs a create nobody waits for: the lead's own workers would *)
(* contradict it, so there are none.                                        *)
LEMMA AcceptLateSafe ==
    ASSUME Inv, NEW l \in Leads, HubSpotAcceptsLate(l)
    PROVE  Inv'
<1> USE DEF Inv, SafeDelivery, TypesInv, TypeOK
<1>1. TypesInv'
  <2>1. HubSpotStep
    BY DEF HubSpotStep
  <2>2. QED
    BY <2>1, OutsideTypes
<1>2. /\ orphan[l] > 0 /\ orphan' = [orphan EXCEPT ![l] = @ - 1]
      /\ contact' = [contact EXCEPT ![l] = "match"]
      /\ accepted' = [accepted EXCEPT ![l] = @ + 1]
      /\ UNCHANGED <<status, pc, job, res, req>>
  BY DEF HubSpotAcceptsLate, Create, database, memory
<1>3. orphan[l] = 1 /\ accepted[l] = 0 /\ ~ Untouched(l)
  <2>1. accepted[l] \in Nat /\ orphan[l] \in Nat /\ accepted[l] + orphan[l] <= 1
    BY DEF AtMostOneContact
  <2>2. orphan[l] = 1 /\ accepted[l] = 0
    BY <1>2, <2>1
  <2>3. QED
    BY <2>2 DEF Untouched
<1>4. /\ accepted'[l] = 1 /\ orphan'[l] = 0
      /\ \A k \in Leads \ {l} : accepted'[k] = accepted[k] /\ orphan'[k] = orphan[k]
                               /\ contact'[k] = contact[k]
  BY <1>2, <1>3
<1>5. AtMostOneContact'
  BY <1>2, <1>4 DEF AtMostOneContact
<1>6. TruthfulOutcome'
  BY <1>2, <1>3, <1>4 DEF TruthfulOutcome, Untouched
<1>7. OneOwner'
  BY <1>2 DEF OneOwner
<1>8. RequestMatchesPlace'
  BY <1>2 DEF RequestMatchesPlace
<1>9. ResultIsEvidence'
  <2>1. \A v \in Workers : pc[v] \in CreatePcs => job[v] \in Leads
    BY DEF OneOwner
  <2>2. \A v \in Workers : req[v] # "none" => pc[v] \in CreatePcs
    BY DEF RequestMatchesPlace, CreatePcs
  <2>3. QED
    BY <1>2, <1>3, <1>4, <2>1, <2>2 DEF ResultIsEvidence, Untouched, CreatePcs
<1>10. MatchIsCreated'
  BY <1>2, <1>3, <1>4 DEF MatchIsCreated
<1>11. QED
  BY <1>1, <1>5, <1>6, <1>7, <1>8, <1>9, <1>10

(* What people do to Contacts, operators to pauses and clocks to time.      *)
LEMMA AroundSafe ==
    ASSUME Inv,
           \/ \E l \in Leads : ArchiveContact(l) \/ EditContact(l) \/ RepairContact(l)
                              \/ ForeignCollision(l)
           \/ ClearPause \/ Tick \/ UNCHANGED vars
    PROVE  Inv'
<1> USE DEF Inv, SafeDelivery, TypesInv, TypeOK
<1>1. TypesInv'
  BY TypesStep DEF Next, HubSpotStep
<1>2. /\ UNCHANGED <<status, pc, job, res, req, accepted, orphan>>
      /\ \A l \in Leads : contact'[l] = "match" => contact[l] = "match" \/ accepted[l] > 0
  <2>1. ASSUME NEW l \in Leads, NEW from, NEW to, ContactEdit(l, from, to),
               to = "match" => accepted[l] > 0
        PROVE  <1>2!1 /\ <1>2!2
    BY <2>1 DEF ContactEdit, database, memory
  <2>2. ASSUME NEW l \in Leads,
               \/ ArchiveContact(l) \/ EditContact(l) \/ RepairContact(l)
               \/ ForeignCollision(l)
        PROVE  <1>2!1 /\ <1>2!2
    BY <2>1, <2>2 DEF ArchiveContact, EditContact, RepairContact, ForeignCollision
  <2>3. CASE ClearPause \/ Tick \/ UNCHANGED vars
    BY <2>3 DEF ClearPause, Tick, vars, database, memory, hubspot
  <2>4. QED
    BY <2>2, <2>3
<1>3. AtMostOneContact' /\ TruthfulOutcome'
  BY <1>2 DEF AtMostOneContact, TruthfulOutcome, Untouched
<1>4. OneOwner' /\ RequestMatchesPlace' /\ ResultIsEvidence'
  BY <1>2 DEF OneOwner, RequestMatchesPlace, ResultIsEvidence, Untouched
<1>5. MatchIsCreated'
  <2>1. ASSUME NEW l \in Leads
        PROVE  accepted[l] > 0 => accepted[l] = 1
    <3>1. accepted[l] \in Nat /\ orphan[l] \in Nat /\ accepted[l] + orphan[l] <= 1
      BY DEF AtMostOneContact
    <3>2. QED
      BY <3>1
  <2>2. QED
    BY <1>2, <2>1 DEF MatchIsCreated
<1>6. QED
  BY <1>1, <1>3, <1>4, <1>5

LEMMA SafeStep == Inv /\ [Next]_vars => Inv'
<1> SUFFICES ASSUME Inv, [Next]_vars
             PROVE  Inv'
  OBVIOUS
<1>1. ASSUME NEW w \in Workers, WorkerStep(w)
      PROVE  Inv'
  BY <1>1, IntakeSafe, GateSafe, ReconcileSafe, CreateSafe DEF WorkerStep
<1>2. QED
  BY <1>1, AbandonSafe, AcceptSafe, AcceptLateSafe, AroundSafe DEF Next, HubSpotStep

LEMMA SafeAlways == Spec => []Inv
  BY SafeInit, SafeStep, PTL DEF Spec

(* However many workers overlap, crash and retry, no lead becomes two       *)
(* Contacts: a create is only sent for a lead that has none and to which    *)
(* none is on its way.                                                      *)
THEOREM NeverTwice == Spec => []AtMostOneContact
<1>1. Inv => AtMostOneContact
  BY DEF Inv, SafeDelivery
<1>2. QED
  BY <1>1, SafeAlways, PTL

(* However many workers overlap, the outcome recorded for a lead is true of *)
(* HubSpot: SUCCESS means a Contact was created, every failure and every    *)
(* renewed attempt means that none was and none is on its way.              *)
THEOREM OutcomesAreTrue == Spec => []TruthfulOutcome
<1>1. Inv => TruthfulOutcome
  BY DEF Inv, SafeDelivery
<1>2. QED
  BY <1>1, SafeAlways, PTL

-----------------------------------------------------------------------------
(***************************************************************************)
(* CRM delivery implements LeadPromise: each of its steps is, seen through *)
(* status and accepted, a step of the promise or none.  Most steps write   *)
(* neither; the rest either move one lead's status (MoveKept) or perform   *)
(* one create (EffectKept).  What makes them steps of the promise is Inv.  *)
(***************************************************************************)
Phase == [l \in Leads |-> PhaseOf(status[l])]

PromiseStep == [Promise!Next]_<<Phase, accepted>>

(* The moves of one lead's status the promise has a step for.               *)
Promised(l, s) ==
    \/ s = status[l]
    \/ status[l] = "NONE" /\ s = "PENDING"
    \/ status[l] \in {"PENDING", "RETRY_PENDING"} /\ s = "SENDING"
    \/ /\ status[l] = "SENDING" /\ accepted[l] = 0
       /\ s \in {"PENDING", "RETRY_PENDING", "EXISTING_CONTACT", "FAILED_ESCALATED"}
    \/ status[l] = "SENDING" /\ s = "UNKNOWN"
    \/ status[l] \in {"SENDING", "UNKNOWN"} /\ s = "SUCCESS" /\ accepted[l] = 1
    \/ status[l] = "UNKNOWN" /\ s = "UNKNOWN_ESCALATED"

LEMMA PhaseValues ==
    /\ PhaseOf("NONE") = "none" /\ PhaseOf("PENDING") = "ready"
    /\ PhaseOf("RETRY_PENDING") = "ready" /\ PhaseOf("SENDING") = "attempting"
    /\ PhaseOf("UNKNOWN") = "uncertain" /\ PhaseOf("SUCCESS") = "delivered"
    /\ PhaseOf("EXISTING_CONTACT") = "existing"
    /\ PhaseOf("FAILED_ESCALATED") = "failed"
    /\ PhaseOf("UNKNOWN_ESCALATED") = "unresolved"
  BY DEF PhaseOf

-----------------------------------------------------------------------------
LEMMA StutterKept ==
    ASSUME UNCHANGED <<status, accepted>>
    PROVE  PromiseStep
<1>1. Phase' = Phase
  BY DEF Phase
<1>2. QED
  BY <1>1 DEF PromiseStep

LEMMA MoveKept ==
    ASSUME TypeOK, NEW l \in Leads, NEW s \in DeliveryStatuses, NEW r,
           SetLead(l, s, r), Promised(l, s), UNCHANGED accepted
    PROVE  PromiseStep
<1>1. status' = [status EXCEPT ![l] = s] /\ status \in [Leads -> DeliveryStatuses]
  BY DEF SetLead, TypeOK
<1>2. Phase' = [Phase EXCEPT ![l] = PhaseOf(s)]
  BY <1>1 DEF Phase
<1>3. Phase[l] = PhaseOf(status[l])
  BY DEF Phase
<1>4. ASSUME NEW from, Phase[l] \in from
      PROVE  Promise!Move(l, from, PhaseOf(s))
  BY <1>2, <1>4 DEF Promise!Move, Phase
<1>5. CASE s = status[l]
  <2>1. status' = status
    BY <1>1, <1>5
  <2>2. QED
    BY <2>1, StutterKept
<1>6. CASE s # status[l]
  <2>1. Promise!Step(l)
    <3>1. CASE status[l] = "NONE" /\ s = "PENDING"
      BY <1>3, <1>4, <3>1, PhaseValues DEF Promise!Step, Promise!Arrive
    <3>2. CASE status[l] \in {"PENDING", "RETRY_PENDING"} /\ s = "SENDING"
      BY <1>3, <1>4, <3>2, PhaseValues DEF Promise!Step, Promise!Attempt
    <3>3. CASE /\ status[l] = "SENDING" /\ accepted[l] = 0
               /\ s \in {"PENDING", "RETRY_PENDING", "EXISTING_CONTACT", "FAILED_ESCALATED"}
      BY <1>3, <1>4, <3>3, PhaseValues DEF Promise!Step, Promise!Refuse
    <3>4. CASE status[l] = "SENDING" /\ s = "UNKNOWN"
      BY <1>3, <1>4, <3>4, PhaseValues DEF Promise!Step, Promise!LoseTrack
    <3>5. CASE status[l] \in {"SENDING", "UNKNOWN"} /\ s = "SUCCESS" /\ accepted[l] = 1
      BY <1>3, <1>4, <3>5, PhaseValues DEF Promise!Step, Promise!Confirm
    <3>6. CASE status[l] = "UNKNOWN" /\ s = "UNKNOWN_ESCALATED"
      BY <1>3, <1>4, <3>6, PhaseValues DEF Promise!Step, Promise!GiveUp
    <3>7. QED
      BY <1>6, <3>1, <3>2, <3>3, <3>4, <3>5, <3>6 DEF Promised
  <2>2. QED
    BY <2>1 DEF PromiseStep, Promise!Next
<1>7. QED
  BY <1>5, <1>6

LEMMA EffectKept ==
    ASSUME TypeOK, NEW l \in Leads, Create(l), UNCHANGED status, accepted[l] = 0,
           status[l] \in {"SENDING", "UNKNOWN", "UNKNOWN_ESCALATED"}
    PROVE  PromiseStep
<1>1. Phase' = Phase /\ Phase[l] \in {"attempting", "uncertain", "unresolved"}
  BY PhaseValues DEF Phase
<1>2. accepted' = [accepted EXCEPT ![l] = 1]
  BY DEF Create, TypeOK
<1>3. Promise!Effect(l)
  BY <1>1, <1>2 DEF Promise!Effect, Phase
<1>4. QED
  BY <1>3 DEF PromiseStep, Promise!Next, Promise!Step

-----------------------------------------------------------------------------
LEMMA IntakeKept ==
    ASSUME Inv, NEW w \in Workers, IntakeStep(w)
    PROVE  PromiseStep
<1>1. CASE StartCycle(w) \/ SkipNormalization(w)
  BY <1>1, StutterKept DEF StartCycle, SkipNormalization, database, hubspot
<1>2. ASSUME NEW l \in Leads, InsertLead(w, l)
      PROVE  PromiseStep
  BY <1>2, MoveKept DEF InsertLead, hubspot, Inv, TypesInv, Promised, DeliveryStatuses
<1>3. QED
  BY <1>1, <1>2 DEF IntakeStep

LEMMA RecoverKept ==
    ASSUME Inv, NEW l \in Leads, NEW w \in Workers, RecoverStale(w, l),
           UNCHANGED accepted
    PROVE  PromiseStep
<1>1. status[l] = "SENDING"
  BY DEF RecoverStale, OldestSending, IsFirst, SendingLeads
<1>2. QED
  BY <1>1, MoveKept DEF RecoverStale, Inv, TypesInv, Promised, DeliveryStatuses

LEMMA ReconcileKept ==
    ASSUME Inv, NEW w \in Workers, ReconcileStep(w)
    PROVE  PromiseStep
<1>1. CASE NothingToReconcile(w) \/ ReadReference(w) \/ ReadLost(w)
  BY <1>1, StutterKept DEF NothingToReconcile, ReadReference, ReadLost, database, hubspot
<1>2. ASSUME NEW l \in Leads, ReconcileRecover(w, l) \/ SelectUnknown(w, l)
      PROVE  PromiseStep
  BY <1>2, StutterKept, RecoverKept DEF ReconcileRecover, SelectUnknown, database, hubspot
<1>3. ASSUME Applying(w, "applyRead", "UNKNOWN")
      PROVE  /\ job[w] \in Leads /\ status[job[w]] = "UNKNOWN" /\ UNCHANGED accepted
             /\ res[w] = "FOUND_MATCH" => accepted[job[w]] = 1
             /\ TypeOK
  BY <1>3 DEF Applying, hubspot, Inv, TypesInv, SafeDelivery, MatchIsCreated
<1>4. CASE ApplyFound(w)
  <2>1. Promised(job[w], "SUCCESS")
    BY <1>3, <1>4 DEF ApplyFound, Promised
  <2>2. QED
    BY <1>3, <1>4, <2>1, MoveKept DEF ApplyFound, DeliveryStatuses
<1>5. CASE EscalateNotFound(w) \/ EscalateReadErrors(w)
  <2>1. Applying(w, "applyRead", "UNKNOWN") /\ \E r : SetLead(job[w], "UNKNOWN_ESCALATED", r)
    BY <1>5 DEF EscalateNotFound, EscalateReadErrors
  <2>2. Promised(job[w], "UNKNOWN_ESCALATED")
    BY <1>3, <2>1 DEF Promised
  <2>3. QED
    BY <1>3, <2>1, <2>2, MoveKept DEF DeliveryStatuses
<1>6. CASE ApplyMismatch(w) \/ ApplyReadPause(w) \/ ApplyNotFound(w) \/ ApplyReadError(w)
  <2>1. Applying(w, "applyRead", "UNKNOWN") /\ \E r : SetLead(job[w], "UNKNOWN", r)
    BY <1>6 DEF ApplyMismatch, ApplyReadPause, ApplyNotFound, ApplyReadError
  <2>2. Promised(job[w], "UNKNOWN")
    BY <1>3, <2>1 DEF Promised
  <2>3. QED
    BY <1>3, <2>1, <2>2, MoveKept DEF DeliveryStatuses
<1>7. QED
  BY <1>1, <1>2, <1>4, <1>5, <1>6 DEF ReconcileStep

-----------------------------------------------------------------------------
LEMMA ClaimKept ==
    ASSUME Inv, NEW w \in Workers, NEW l \in Leads, ClaimLead(w, l)
    PROVE  PromiseStep
<1>1. status[l] \in {"PENDING", "RETRY_PENDING"}
  BY DEF ClaimLead, IsFirst, Eligible
<1>2. QED
  BY <1>1, MoveKept DEF ClaimLead, hubspot, Inv, TypesInv, Promised, DeliveryStatuses

(* A result that makes a lead ready again, or final, proves that nothing    *)
(* was created; a success proves that something was.                        *)
LEMMA ApplyCreateKept ==
    ASSUME Inv, NEW w \in Workers,
           \/ ApplySuccess(w) \/ ApplyRetry(w) \/ ApplyExhausted(w) \/ ApplyUnknown(w)
           \/ ApplyPause(w) \/ ApplyPermanentFailure(w)
           \/ ApplyDecisionPause(w) \/ ApplyDecisionTerminal(w)
    PROVE  PromiseStep
<1>1. ASSUME NEW place \in {"applyCreate", "applyDecision"}, Applying(w, place, "SENDING")
      PROVE  /\ job[w] \in Leads /\ status[job[w]] = "SENDING" /\ UNCHANGED accepted
             /\ TypeOK
             /\ place = "applyDecision" => accepted[job[w]] = 0
             /\ place = "applyCreate" /\ res[w] = "SUCCESS" => accepted[job[w]] = 1
             /\ place = "applyCreate" /\ res[w] \notin {"SUCCESS", "UNKNOWN"}
                    => accepted[job[w]] = 0
  BY <1>1 DEF Applying, hubspot, Inv, TypesInv, SafeDelivery, ResultIsEvidence, OneOwner,
              Untouched, CreatePcs
<1>2. CASE ApplySuccess(w)
  <2>1. Promised(job[w], "SUCCESS")
    BY <1>1, <1>2 DEF ApplySuccess, Promised
  <2>2. QED
    BY <1>1, <1>2, <2>1, MoveKept DEF ApplySuccess, DeliveryStatuses
<1>3. CASE ApplyUnknown(w)
  <2>1. Promised(job[w], "UNKNOWN")
    BY <1>1, <1>3 DEF ApplyUnknown, Promised
  <2>2. QED
    BY <1>1, <1>3, <2>1, MoveKept DEF ApplyUnknown, DeliveryStatuses
<1>4. ASSUME NEW place \in {"applyCreate", "applyDecision"}, Applying(w, place, "SENDING"),
             place = "applyCreate" => res[w] \notin {"SUCCESS", "UNKNOWN"},
             NEW s \in {"PENDING", "RETRY_PENDING", "EXISTING_CONTACT", "FAILED_ESCALATED"},
             NEW r, SetLead(job[w], s, r)
      PROVE  PromiseStep
  <2>1. Promised(job[w], s)
    BY <1>1, <1>4 DEF Promised
  <2>2. QED
    BY <1>1, <1>4, <2>1, MoveKept DEF DeliveryStatuses
<1>5. CASE ApplyRetry(w) \/ ApplyExhausted(w)
  BY <1>4, <1>5 DEF ApplyRetry, ApplyExhausted, Retryable
<1>6. CASE ApplyPause(w) \/ ApplyPermanentFailure(w)
  BY <1>4, <1>6 DEF ApplyPause, ApplyPermanentFailure
<1>7. CASE ApplyDecisionPause(w) \/ ApplyDecisionTerminal(w)
  BY <1>4, <1>7 DEF ApplyDecisionPause, ApplyDecisionTerminal
<1>8. QED
  BY <1>2, <1>3, <1>5, <1>6, <1>7

LEMMA CreateKept ==
    ASSUME Inv, NEW w \in Workers, CreateStep(w)
    PROVE  PromiseStep
<1>1. CASE NothingToClaim(w) \/ SendCreate(w) \/ ReceiveCreate(w) \/ CreateLost(w)
  BY <1>1, StutterKept DEF NothingToClaim, SendCreate, ReceiveCreate, CreateLost,
                           database, hubspot
<1>2. CASE ClassifyBadRequest(w) \/ ClassifyConflict(w) \/ ClassifyEmail(w)
  BY <1>2, StutterKept DEF ClassifyBadRequest, ClassifyConflict, ClassifyEmail,
                           database, hubspot
<1>3. ASSUME NEW l \in Leads, ClaimRecover(w, l)
      PROVE  PromiseStep
  BY <1>3, RecoverKept DEF ClaimRecover, hubspot
<1>4. QED
  BY <1>1, <1>2, <1>3, ClaimKept, ApplyCreateKept DEF CreateStep

-----------------------------------------------------------------------------
(* A create can be performed only while its lead is being attempted or its  *)
(* attempt is uncertain.                                                    *)
LEMMA AcceptKept ==
    ASSUME Inv, NEW w \in Workers, HubSpotAccepts(w)
    PROVE  PromiseStep
<1>1. Create(job[w]) /\ UNCHANGED status /\ req[w] = "open"
  BY DEF HubSpotAccepts, database
<1>2. /\ job[w] \in Leads /\ accepted[job[w]] = 0
      /\ status[job[w]] \in {"SENDING", "UNKNOWN", "SUCCESS", "UNKNOWN_ESCALATED"}
  BY <1>1 DEF Inv, SafeDelivery, RequestMatchesPlace, ResultIsEvidence, OneOwner, Untouched,
              CreatePcs
<1>3. status[job[w]] # "SUCCESS"
  BY <1>2 DEF Inv, SafeDelivery, TruthfulOutcome
<1>4. QED
  BY <1>1, <1>2, <1>3, EffectKept DEF Inv, TypesInv

LEMMA AcceptLateKept ==
    ASSUME Inv, NEW l \in Leads, HubSpotAcceptsLate(l)
    PROVE  PromiseStep
<1>1. Create(l) /\ UNCHANGED status /\ orphan[l] > 0
  BY DEF HubSpotAcceptsLate, database
<1>2. TypeOK /\ accepted[l] \in Nat /\ orphan[l] \in Nat /\ accepted[l] + orphan[l] <= 1
  BY DEF Inv, TypesInv, TypeOK, SafeDelivery, AtMostOneContact
<1>3. accepted[l] = 0 /\ ~ Untouched(l)
  BY <1>1, <1>2 DEF Untouched
<1>4. status[l] \in {"SENDING", "UNKNOWN", "UNKNOWN_ESCALATED"}
  BY <1>2, <1>3 DEF Inv, SafeDelivery, TruthfulOutcome, TypeOK, DeliveryStatuses
<1>5. QED
  BY <1>1, <1>2, <1>3, <1>4, EffectKept

LEMMA StepKept == Inv /\ [Next]_vars => PromiseStep
<1> SUFFICES ASSUME Inv, [Next]_vars
             PROVE  PromiseStep
  OBVIOUS
<1>1. CASE ClearPause \/ Tick \/ UNCHANGED vars
  BY <1>1, StutterKept DEF ClearPause, Tick, vars, database, hubspot
<1>2. ASSUME NEW w \in Workers, GateClear(w) \/ GateBlocked(w) \/ Abandon(w)
      PROVE  PromiseStep
  BY <1>2, StutterKept DEF GateClear, GateBlocked, Abandon, database, hubspot
<1>3. ASSUME NEW w \in Workers, WorkerStep(w)
      PROVE  PromiseStep
  BY <1>2, <1>3, IntakeKept, ReconcileKept, CreateKept DEF WorkerStep
<1>4. ASSUME NEW l \in Leads,
             \/ ArchiveContact(l) \/ EditContact(l) \/ RepairContact(l)
             \/ ForeignCollision(l)
      PROVE  PromiseStep
  BY <1>4, StutterKept DEF ArchiveContact, EditContact, RepairContact, ForeignCollision,
                           ContactEdit, database
<1>5. QED
  BY <1>1, <1>2, <1>3, <1>4, AcceptKept, AcceptLateKept DEF Next, HubSpotStep

LEMMA InitKept == Init => Promise!Init
  BY PhaseValues DEF Init, Promise!Init

(* CRM delivery implements its promise, whatever the number of workers, the *)
(* answers and the failures: an uncertain attempt is never repeated, a lead *)
(* is attempted again only when nothing was or will be created for it, and  *)
(* outcomes are final.                                                      *)
THEOREM Implements == Spec => KeepsPromise
<1>1. PromiseStep => [Promise!Next]_<<[l \in Leads |-> PhaseOf(status[l])], accepted>>
  BY DEF PromiseStep, Phase
<1>2. QED
  BY <1>1, InitKept, StepKept, SafeAlways, PTL DEF Spec, KeepsPromise, Promise!Spec
=============================================================================
