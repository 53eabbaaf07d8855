-------------------------- MODULE EventPipelineProofs --------------------------
(***************************************************************************)
(* Proofs about the intake, for any events, payloads, lease and bounds and *)
(* any number of simultaneous requests and overlapping workers: what is    *)
(* acknowledged is stored, once; an event becomes one lead; and the        *)
(* pipeline implements IntakePromise.                                      *)
(* With one replica besides, an event is converted once.                   *)
(***************************************************************************)
EXTENDS EventPipeline, TLAPS

(***************************************************************************)
(* The inductive invariant.  A request carries an event and a payload; of  *)
(* the requests that carry the same event at most one has inserted it, and *)
(* only while it is not stored, or has it still to be called new; a worker *)
(* that converts has an event; leads belong to normalized events.          *)
(***************************************************************************)
CarriesEvent(r) ==
    request[r].place # "idle" =>
        request[r].key \in Events /\ request[r].payload \in Payloads

InsertsAlone(r) ==
    request[r].place = "inserted" =>
        /\ ~ Stored(request[r].key)
        /\ \A s \in Requests :
              request[s].place = "inserted" /\ request[s].key = request[r].key => s = r

AnswersStored(r) ==
    request[r].place \in {"fresh", "duplicate"} => Stored(request[r].key)

NewOnce(r) ==
    request[r].place = "fresh" =>
        /\ fresh[request[r].key] = 0
        /\ \A s \in Requests :
              request[s].place = "fresh" /\ request[s].key = request[r].key => s = r

HasJob(w) == pc[w] = "convert" => job[w] \in Events

StoredOrBlank(e) ==
    /\ event[e].status = "NONE" => event[e].payload = "none" /\ fresh[e] = 0
    /\ event[e].status # "NONE" => event[e].payload \in PayloadKinds

Inv ==
    /\ TypeOK
    /\ \A r \in Requests :
          CarriesEvent(r) /\ InsertsAlone(r) /\ AnswersStored(r) /\ NewOnce(r)
    /\ \A w \in Workers : HasJob(w)
    /\ \A e \in Events : StoredOrBlank(e)
    /\ AcceptedOnce /\ OneLeadPerEvent

LEMMA InitInv == Init => Inv
<1> SUFFICES ASSUME Init PROVE Inv
  OBVIOUS
<1>1. TypeOK
  BY DEF Init, TypeOK, EventRow, EmptyRow, EventStatuses, Times, NoRequest
<1>2. \A r \in Requests : request[r].place = "idle"
  BY DEF Init, NoRequest
<1>3. \A e \in Events : event[e].status = "NONE" /\ event[e].payload = "none" /\ fresh[e] = 0
  BY DEF Init, EmptyRow
<1>4. \A w \in Workers : pc[w] = "idle"
  BY DEF Init
<1>5. AcceptedOnce
  BY <1>3 DEF Init, AcceptedOnce
<1>6. OneLeadPerEvent
  BY <1>3 DEF Init, OneLeadPerEvent, HasLead
<1>7. QED
  BY <1>1, <1>2, <1>3, <1>4, <1>5, <1>6
     DEF Inv, CarriesEvent, InsertsAlone, AnswersStored, NewOnce, HasJob, StoredOrBlank

-----------------------------------------------------------------------------
(* The webhook endpoint.                                                    *)
Places == {"idle", "received", "inserted", "fresh", "duplicate"}

RequestRow == [place : Places, key : Events \union {NoEvent},
               payload : Payloads \union {"none"}, receivedAt : Times]

LEMMA SetRequestTyped ==
    ASSUME Inv, NEW r \in Requests, NEW value \in RequestRow, SetRequest(r, value),
           UNCHANGED <<event, fresh, acked>>
    PROVE  TypeOK'
  BY DEF SetRequest, worker, bounds, Inv, TypeOK, RequestRow, Places

(* Whatever does not write events leaves the leads and the workers right.   *)
LEMMA EventsUnwritten ==
    ASSUME Inv, UNCHANGED <<event, lead>>
    PROVE  OneLeadPerEvent'
  BY DEF Inv, OneLeadPerEvent, HasLead

LEMMA DeliverKept ==
    ASSUME Inv, NEW r \in Requests, NEW e \in Events, NEW p \in Payloads, Deliver(r, e, p)
    PROVE  Inv'
<1> DEFINE value == [place |-> "received", key |-> e, payload |-> p, receivedAt |-> now]
<1>1. value \in RequestRow
  BY DEF Inv, TypeOK, RequestRow, Places, Times
<1>2. TypeOK'
  BY <1>1, SetRequestTyped DEF Deliver
<1>3. /\ request'[r] = value
      /\ \A s \in Requests \ {r} : request'[s] = request[s]
      /\ UNCHANGED <<event, lead, fresh, acked, pc, job>>
  BY DEF Deliver, SetRequest, worker, Inv, TypeOK
<1>4. ASSUME NEW s \in Requests
      PROVE  CarriesEvent(s)' /\ InsertsAlone(s)' /\ AnswersStored(s)' /\ NewOnce(s)'
  BY <1>3 DEF Inv, CarriesEvent, InsertsAlone, AnswersStored, NewOnce, Stored
<1>5. QED
  BY <1>2, <1>3, <1>4, EventsUnwritten DEF Inv, HasJob, StoredOrBlank, AcceptedOnce, Stored

LEMMA InsertKept ==
    ASSUME Inv, NEW r \in Requests, InsertEvent(r)
    PROVE  Inv'
<1> DEFINE to == IF Stored(request[r].key) THEN "duplicate" ELSE "inserted"
           value == [request[r] EXCEPT !.place = to]
<1>1. request[r] \in RequestRow /\ request[r].place = "received"
  BY DEF InsertEvent, Inv, TypeOK, RequestRow, Places
<1>2. value \in RequestRow
  BY <1>1 DEF RequestRow, Places
<1>3. TypeOK'
  BY <1>2, SetRequestTyped DEF InsertEvent
<1>4. /\ request'[r].place = to /\ request'[r].key = request[r].key
      /\ request'[r].payload = request[r].payload
      /\ \A s \in Requests \ {r} : request'[s] = request[s]
      /\ UNCHANGED <<event, lead, fresh, acked, pc, job>>
  BY <1>1 DEF InsertEvent, SetRequest, worker, Inv, TypeOK, RequestRow
<1>5. ASSUME NEW s \in Requests
      PROVE  CarriesEvent(s)' /\ InsertsAlone(s)' /\ AnswersStored(s)' /\ NewOnce(s)'
  <2>1. CarriesEvent(s)' /\ AnswersStored(s)' /\ NewOnce(s)'
    BY <1>1, <1>4 DEF Inv, CarriesEvent, AnswersStored, NewOnce, Stored
  <2>2. InsertsAlone(s)'
    BY <1>1, <1>4 DEF InsertEvent, InsertMayProceed, Inv, InsertsAlone, Stored
  <2>3. QED
    BY <2>1, <2>2
<1>6. QED
  BY <1>3, <1>4, <1>5, EventsUnwritten DEF Inv, HasJob, StoredOrBlank, AcceptedOnce, Stored

LEMMA CommitKept ==
    ASSUME Inv, NEW r \in Requests, CommitEvent(r)
    PROVE  Inv'
<1> DEFINE e == request[r].key
           value == [request[r] EXCEPT !.place = "fresh"]
           rowOf == [status |-> "RECEIVED", payload |-> request[r].payload,
                     receivedAt |-> request[r].receivedAt, startedAt |-> NoTime]
<1>1. /\ request[r] \in RequestRow /\ request[r].place = "inserted"
      /\ e \in Events /\ request[r].payload \in Payloads /\ ~ Stored(e) /\ fresh[e] = 0
  BY DEF CommitEvent, Inv, TypeOK, RequestRow, Places, CarriesEvent, InsertsAlone,
         StoredOrBlank, Stored
<1>2. /\ event' = [event EXCEPT ![e] = rowOf] /\ rowOf \in EventRow
      /\ request' = [request EXCEPT ![r] = value] /\ value \in RequestRow
      /\ UNCHANGED <<lead, nextId, fresh, acked, pc, job, at, tries, now, crashes>>
  BY <1>1, PayloadsAssumption
     DEF CommitEvent, SetRequest, worker, bounds, EventRow, EventStatuses, RequestRow, Places,
         Times
<1>3. /\ event'[e] = rowOf /\ \A f \in Events \ {e} : event'[f] = event[f]
      /\ request'[r].place = "fresh" /\ request'[r].key = e
      /\ request'[r].payload = request[r].payload
      /\ \A s \in Requests \ {r} : request'[s] = request[s]
  BY <1>1, <1>2 DEF Inv, TypeOK, RequestRow
<1>4. TypeOK'
  BY <1>2 DEF Inv, TypeOK, RequestRow, Places
<1>5. \A f \in Events : Stored(f)' <=> Stored(f) \/ f = e
  BY <1>3 DEF Stored
<1>6. ASSUME NEW s \in Requests
      PROVE  CarriesEvent(s)' /\ InsertsAlone(s)' /\ AnswersStored(s)' /\ NewOnce(s)'
  <2>1. CarriesEvent(s)'
    BY <1>1, <1>3 DEF Inv, CarriesEvent
  <2>2. AnswersStored(s)'
    BY <1>1, <1>3, <1>5 DEF Inv, AnswersStored, CarriesEvent
  <2>3. InsertsAlone(s)'
    BY <1>1, <1>3, <1>5 DEF Inv, InsertsAlone, CarriesEvent
  <2>4. NewOnce(s)'
    BY <1>1, <1>2, <1>3 DEF Inv, NewOnce, AnswersStored, CarriesEvent
  <2>5. QED
    BY <2>1, <2>2, <2>3, <2>4
<1>7. \A f \in Events : StoredOrBlank(f)'
  BY <1>1, <1>2, <1>3, PayloadsAssumption DEF Inv, StoredOrBlank
<1>8. AcceptedOnce'
  BY <1>2, <1>5 DEF Inv, AcceptedOnce
<1>9. OneLeadPerEvent'
  BY <1>1, <1>2, <1>3 DEF Inv, OneLeadPerEvent, HasLead, Stored
<1>10. QED
  BY <1>2, <1>4, <1>6, <1>7, <1>8, <1>9 DEF Inv, HasJob

LEMMA AnswerKept ==
    ASSUME Inv, NEW r \in Requests, Answer202(r)
    PROVE  Inv'
<1> DEFINE e == request[r].key
<1>1. request[r].place \in {"fresh", "duplicate"} /\ e \in Events /\ Stored(e)
  BY DEF Answer202, Inv, CarriesEvent, AnswersStored
<1>2. /\ request'[r] = NoRequest /\ NoRequest \in RequestRow
      /\ \A s \in Requests \ {r} : request'[s] = request[s]
      /\ UNCHANGED <<event, lead, nextId, pc, job, at, tries, now, crashes>>
  BY DEF Answer202, SetRequest, worker, bounds, Inv, TypeOK, NoRequest, RequestRow, Places,
         Times
<1>3. /\ acked' = acked \union {e}
      /\ \A f \in Events : fresh'[f] = IF f = e /\ request[r].place = "fresh"
                                       THEN fresh[f] + 1 ELSE fresh[f]
      /\ fresh' \in [Events -> Nat]
  <2>1. acked' = acked \union {e} /\ fresh \in [Events -> Nat]
    BY DEF Answer202, Inv, TypeOK
  <2>2. fresh' = IF request[r].place = "fresh" THEN [fresh EXCEPT ![e] = fresh[e] + 1]
                                               ELSE fresh
    BY DEF Answer202
  <2>3. QED
    BY <1>1, <2>1, <2>2
<1>4. TypeOK'
  BY <1>1, <1>2, <1>3 DEF Answer202, SetRequest, Inv, TypeOK, RequestRow, Places
<1>5. request[r].place = "fresh" => fresh[e] = 0
  BY DEF Inv, NewOnce
<1>6. ASSUME NEW s \in Requests
      PROVE  CarriesEvent(s)' /\ InsertsAlone(s)' /\ AnswersStored(s)' /\ NewOnce(s)'
  <2>1. CarriesEvent(s)' /\ InsertsAlone(s)' /\ AnswersStored(s)'
    BY <1>2 DEF Inv, CarriesEvent, InsertsAlone, AnswersStored, NoRequest, Stored
  <2>2. NewOnce(s)'
    BY <1>2, <1>3 DEF Inv, NewOnce, CarriesEvent, NoRequest
  <2>3. QED
    BY <2>1, <2>2
<1>7. \A f \in Events : StoredOrBlank(f)'
  BY <1>1, <1>2, <1>3 DEF Inv, StoredOrBlank, Stored
<1>8. AcceptedOnce'
  BY <1>1, <1>2, <1>3, <1>5 DEF Inv, AcceptedOnce, Stored
<1>9. QED
  BY <1>2, <1>4, <1>6, <1>7, <1>8, EventsUnwritten DEF Inv, HasJob

LEMMA LoseKept ==
    ASSUME Inv, NEW r \in Requests, LoseRequest(r)
    PROVE  Inv'
<1>1. NoRequest \in RequestRow
  BY DEF NoRequest, RequestRow, Places, Times
<1>2. TypeOK'
  BY <1>1, SetRequestTyped DEF LoseRequest
<1>3. /\ request'[r] = NoRequest
      /\ \A s \in Requests \ {r} : request'[s] = request[s]
      /\ UNCHANGED <<event, lead, fresh, acked, pc, job>>
  BY DEF LoseRequest, SetRequest, worker, Inv, TypeOK
<1>4. ASSUME NEW s \in Requests
      PROVE  CarriesEvent(s)' /\ InsertsAlone(s)' /\ AnswersStored(s)' /\ NewOnce(s)'
  BY <1>3 DEF Inv, CarriesEvent, InsertsAlone, AnswersStored, NewOnce, Stored, NoRequest
<1>5. QED
  BY <1>2, <1>3, <1>4, EventsUnwritten DEF Inv, HasJob, StoredOrBlank, AcceptedOnce, Stored

-----------------------------------------------------------------------------
(* The worker.  It moves stored events between statuses and writes neither  *)
(* payloads nor what the endpoint keeps.                                    *)
LEMMA WorkerMovesKept ==
    ASSUME Inv, TypeOK', UNCHANGED web,
           \A e \in Events : /\ event'[e].payload = event[e].payload
                             /\ Stored(e)' <=> Stored(e)
    PROVE  /\ \A r \in Requests :
                 (CarriesEvent(r) /\ InsertsAlone(r) /\ AnswersStored(r) /\ NewOnce(r))'
           /\ \A e \in Events : StoredOrBlank(e)'
           /\ AcceptedOnce'
<1>1. UNCHANGED <<request, fresh, acked>>
  BY DEF web
<1>2. \A r \in Requests : CarriesEvent(r)' /\ NewOnce(r)'
  BY <1>1 DEF Inv, CarriesEvent, NewOnce
<1>3. \A r \in Requests : InsertsAlone(r)' /\ AnswersStored(r)'
  BY <1>1 DEF Inv, InsertsAlone, AnswersStored, CarriesEvent
<1>4. \A e \in Events : StoredOrBlank(e)'
  BY <1>1 DEF Inv, StoredOrBlank, Stored
<1>5. AcceptedOnce'
  BY <1>1 DEF Inv, AcceptedOnce
<1>6. QED
  BY <1>2, <1>3, <1>4, <1>5

LEMMA EventsAtRest ==
    ASSUME Inv, TypeOK', UNCHANGED <<event, lead, web>>, \A w \in Workers : HasJob(w)'
    PROVE  Inv'
  BY WorkerMovesKept, EventsUnwritten DEF Inv, Stored

(* A step from one status to another of an event without a lead, to a       *)
(* status of events without one.                                            *)
LEMMA OpenMoveKept ==
    ASSUME Inv, TypeOK', UNCHANGED <<lead, web>>, NEW e \in Events, NEW row \in EventRow,
           event' = [event EXCEPT ![e] = row], row.payload = event[e].payload,
           Stored(e), ~ HasLead(e), row.status \notin {"NONE", "NORMALIZED"},
           \A w \in Workers : HasJob(w)'
    PROVE  Inv'
<1>1. event'[e] = row /\ \A f \in Events \ {e} : event'[f] = event[f]
  BY DEF Inv, TypeOK
<1>2. OneLeadPerEvent'
  BY <1>1 DEF Inv, OneLeadPerEvent, HasLead
<1>3. \A f \in Events : event'[f].payload = event[f].payload /\ (Stored(f)' <=> Stored(f))
  BY <1>1 DEF Stored
<1>4. QED
  BY <1>2, <1>3, WorkerMovesKept DEF Inv

LEMMA WorkerTyped ==
    ASSUME Inv, NEW w \in Workers, EndCycle(w)
    PROVE  /\ pc' \in [Workers -> {"idle", "recover", "claim", "convert", "crm"}]
           /\ job' \in [Workers -> Events \union {NoEvent}]
           /\ at' \in [Workers -> Times]
           /\ \A v \in Workers : HasJob(v)'
  BY DEF EndCycle, Goto, Inv, TypeOK, HasJob, Times

LEMMA GotoTyped ==
    ASSUME Inv, NEW w \in Workers, NEW place \in {"recover", "claim", "crm"}, Goto(w, place),
           UNCHANGED job
    PROVE  /\ pc' \in [Workers -> {"idle", "recover", "claim", "convert", "crm"}]
           /\ \A v \in Workers : HasJob(v)'
  BY DEF Goto, Inv, TypeOK, HasJob

LEMMA RecoverKept ==
    ASSUME Inv, NEW w \in Workers, NEW e \in Events, RecoverStale(w, e)
    PROVE  Inv'
<1>1. event[e].status = "PROCESSING" /\ event[e] \in EventRow
  BY DEF RecoverStale, Stale, Inv, TypeOK
<1>2. ~ HasLead(e) /\ Stored(e)
  BY <1>1 DEF Inv, OneLeadPerEvent, Stored
<1>3. event' = [event EXCEPT ![e] = ResetRow(event[e])]
  BY <1>2 DEF RecoverStale, Inv, TypeOK
<1>4. /\ ResetRow(event[e]) \in EventRow /\ ResetRow(event[e]).status = "RECEIVED"
      /\ ResetRow(event[e]).payload = event[e].payload
  BY <1>1 DEF ResetRow, EventRow, EventStatuses, Times
<1>5. TypeOK' /\ \A v \in Workers : HasJob(v)'
  BY <1>3, <1>4, GotoTyped DEF RecoverStale, web, bounds, Inv, TypeOK
<1>6. QED
  BY <1>2, <1>3, <1>4, <1>5, OpenMoveKept DEF RecoverStale

LEMMA ClaimKept ==
    ASSUME Inv, NEW w \in Workers, NEW e \in Events, ClaimReceived(w, e)
    PROVE  Inv'
<1> DEFINE row == [event[e] EXCEPT !.status = "PROCESSING", !.startedAt = at[w]]
<1>1. event[e].status = "RECEIVED" /\ event[e] \in EventRow /\ at[w] \in Times
  BY DEF ClaimReceived, Received, Inv, TypeOK
<1>2. ~ HasLead(e) /\ Stored(e)
  BY <1>1 DEF Inv, OneLeadPerEvent, Stored
<1>3. event' = [event EXCEPT ![e] = row]
  BY DEF ClaimReceived, Inv, TypeOK
<1>4. row \in EventRow /\ row.status = "PROCESSING" /\ row.payload = event[e].payload
  BY <1>1 DEF EventRow, EventStatuses
<1>5. TypeOK' /\ \A v \in Workers : HasJob(v)'
  BY <1>3, <1>4 DEF ClaimReceived, Goto, web, bounds, Inv, TypeOK, HasJob
<1>6. QED
  BY <1>2, <1>3, <1>4, <1>5, OpenMoveKept DEF ClaimReceived

(* What the three ends of a conversion share.                               *)
LEMMA FinishTyped ==
    ASSUME Inv, NEW w \in Workers, Convert(w), pc[w] = "convert",
           NEW status \in EventStatuses, Finish(w, status)
    PROVE  /\ event' = [event EXCEPT ![job[w]] = [event[job[w]] EXCEPT !.status = status]]
           /\ [event[job[w]] EXCEPT !.status = status] \in EventRow
           /\ event' \in [Events -> EventRow]
           /\ pc' \in [Workers -> {"idle", "recover", "claim", "convert", "crm"}]
           /\ tries' \in [Events -> Nat]
           /\ \A v \in Workers : HasJob(v)'
<1>1. job[w] \in Events /\ event[job[w]] \in EventRow
  BY DEF Inv, TypeOK, HasJob
<1>2. [event[job[w]] EXCEPT !.status = status] \in EventRow
  BY <1>1 DEF EventRow
<1>3. event' = [event EXCEPT ![job[w]] = [event[job[w]] EXCEPT !.status = status]]
  BY <1>1 DEF Finish, Inv, TypeOK
<1>4. tries' \in [Events -> Nat]
  BY <1>1 DEF Convert, Inv, TypeOK
<1>5. QED
  BY <1>2, <1>3, <1>4, GotoTyped DEF Finish, Inv, TypeOK

LEMMA NormalizeKept ==
    ASSUME Inv, NEW w \in Workers, Normalize(w)
    PROVE  Inv'
<1> DEFINE e == job[w]
           l == [id |-> nextId, event |-> e]
<1>1. pc[w] = "convert" /\ Convert(w) /\ Finish(w, "NORMALIZED") /\ "NORMALIZED" \in EventStatuses
  BY DEF Normalize, Convert, EventStatuses
<1>2. /\ e \in Events /\ event[e] \in EventRow /\ event[e].status = "PROCESSING"
      /\ ~ HasLead(e) /\ lead' = lead \union {l} /\ nextId' = nextId + 1
  BY <1>1 DEF Normalize, Inv, TypeOK, HasJob
<1>3. /\ event'[e].status = "NORMALIZED" /\ event'[e].payload = event[e].payload
      /\ \A f \in Events \ {e} : event'[f] = event[f]
  <2> DEFINE row == [event[e] EXCEPT !.status = "NORMALIZED"]
  <2>1. event' = [event EXCEPT ![e] = row] /\ event \in [Events -> EventRow]
    BY <1>1, FinishTyped DEF Inv, TypeOK
  <2>2. row.status = "NORMALIZED" /\ row.payload = event[e].payload
    BY <1>2 DEF EventRow
  <2> HIDE DEF row
  <2>3. QED
    BY <1>2, <2>1, <2>2
<1>4. TypeOK' /\ \A v \in Workers : HasJob(v)'
  <2>1. nextId \in Nat \ {0} /\ lead \subseteq [id : 1..(nextId - 1), event : Events]
    BY DEF Inv, TypeOK
  <2>2. nextId' \in Nat \ {0} /\ nextId \in 1..(nextId' - 1)
        /\ 1..(nextId - 1) \subseteq 1..(nextId' - 1)
    BY <1>2, <2>1
  <2>3. lead' \subseteq [id : 1..(nextId' - 1), event : Events]
    BY <1>2, <2>1, <2>2
  <2>4. UNCHANGED <<request, fresh, acked, job, at, now, crashes>>
    BY <1>1 DEF Convert, Finish, web, bounds
  <2>5. QED
    BY <1>1, <2>2, <2>3, <2>4, FinishTyped DEF Inv, TypeOK
<1>5. OneLeadPerEvent'
  <2>1. \A k \in lead : k.id # nextId /\ k.event # e
    BY <1>2 DEF Inv, TypeOK, HasLead
  <2>2. ASSUME NEW f \in Events
        PROVE  HasLead(f)' <=> HasLead(f) \/ f = e
    <3>1. l.event = e
      OBVIOUS
    <3> HIDE DEF l
    <3>2. \A k : k \in lead' <=> k \in lead \/ k = l
      BY <1>2
    <3>3. QED
      BY <3>1, <3>2 DEF HasLead
  <2>3. \A f \in Events : HasLead(f)' <=> event'[f].status = "NORMALIZED"
    BY <1>3, <2>2 DEF Inv, OneLeadPerEvent
  <2>4. \A k, m \in lead' : (k.event = m.event \/ k.id = m.id) => k = m
    BY <1>2, <2>1 DEF Inv, OneLeadPerEvent
  <2>5. QED
    BY <2>3, <2>4 DEF OneLeadPerEvent
<1>6. \A f \in Events : event'[f].payload = event[f].payload /\ (Stored(f)' <=> Stored(f))
  BY <1>2, <1>3 DEF Stored
<1>7. QED
  BY <1>1, <1>4, <1>5, <1>6, WorkerMovesKept DEF Convert, Inv

LEMMA FailKept ==
    ASSUME Inv, NEW w \in Workers, FailNormalization(w)
    PROVE  Inv'
<1>1. /\ pc[w] = "convert" /\ Convert(w) /\ Finish(w, "NORMALIZATION_FAILED")
      /\ "NORMALIZATION_FAILED" \in EventStatuses
  BY DEF FailNormalization, Convert, EventStatuses
<1>2. job[w] \in Events /\ event[job[w]] \in EventRow
  BY <1>1 DEF Inv, TypeOK, HasJob
<1>3. TypeOK' /\ \A v \in Workers : HasJob(v)'
  BY <1>1, FinishTyped DEF FailNormalization, Convert, Finish, web, bounds, Inv, TypeOK
<1>4. Stored(job[w]) /\ ~ HasLead(job[w])
  BY DEF FailNormalization, Stored
<1>5. QED
  <2> DEFINE row == [event[job[w]] EXCEPT !.status = "NORMALIZATION_FAILED"]
  <2>1. event' = [event EXCEPT ![job[w]] = row] /\ row \in EventRow
    BY <1>1, FinishTyped
  <2>2. row.status = "NORMALIZATION_FAILED" /\ row.payload = event[job[w]].payload
    BY <1>2 DEF EventRow
  <2>3. UNCHANGED <<lead, web>>
    BY <1>1 DEF FailNormalization, Convert
  <2> HIDE DEF row
  <2>4. QED
    BY <1>2, <1>3, <1>4, <2>1, <2>2, <2>3, OpenMoveKept

(* Between transactions an event with a lead is NORMALIZED: nothing is left *)
(* to repair.                                                               *)
LEMMA NothingToRepair ==
    ASSUME Inv, NEW w \in Workers, AlreadyProcessed(w)
    PROVE  Inv' /\ event' = event
<1> DEFINE status == IF HasLead(job[w]) THEN "NORMALIZED" ELSE "NORMALIZATION_FAILED"
<1>1. pc[w] = "convert" /\ Convert(w) /\ Finish(w, status) /\ status \in EventStatuses
  BY DEF AlreadyProcessed, Convert, EventStatuses
<1>2. job[w] \in Events /\ event[job[w]] \in EventRow
  BY <1>1 DEF Inv, TypeOK, HasJob
<1>3. event[job[w]].status = status
  BY <1>2 DEF AlreadyProcessed, Inv, OneLeadPerEvent
<1>4. [event[job[w]] EXCEPT !.status = status] = event[job[w]]
  BY <1>2, <1>3 DEF EventRow
<1>5. event' = event
  BY <1>1, <1>2, <1>4, FinishTyped DEF Inv, TypeOK
<1>6. TypeOK' /\ \A v \in Workers : HasJob(v)'
  BY <1>1, FinishTyped DEF AlreadyProcessed, Convert, Finish, web, bounds, Inv, TypeOK
<1>7. QED
  BY <1>1, <1>5, <1>6, EventsAtRest DEF AlreadyProcessed, Convert

LEMMA RaiseKept ==
    ASSUME Inv, NEW w \in Workers, RaiseFromCycle(w)
    PROVE  Inv'
<1>1. tries' \in [Events -> Nat]
  BY DEF RaiseFromCycle, Convert, Inv, TypeOK, HasJob
<1>2. TypeOK' /\ \A v \in Workers : HasJob(v)'
  BY <1>1, WorkerTyped DEF RaiseFromCycle, Convert, web, bounds, Inv, TypeOK
<1>3. QED
  BY <1>2, EventsAtRest DEF RaiseFromCycle, Convert

LEMMA AbandonKept ==
    ASSUME Inv, NEW w \in Workers, Abandon(w)
    PROVE  Inv'
<1>1. nextId \in Nat \ {0} /\ lead \subseteq [id : 1..(nextId - 1), event : Events]
  BY DEF Inv, TypeOK
<1>2. nextId' \in Nat \ {0} /\ 1..(nextId - 1) \subseteq 1..(nextId' - 1)
  <2>1. nextId' = nextId \/ nextId' = nextId + 1
    BY DEF Abandon
  <2>2. QED
    BY <1>1, <2>1
<1>3. lead' \subseteq [id : 1..(nextId' - 1), event : Events]
  BY <1>1, <1>2 DEF Abandon
<1>4. TypeOK' /\ \A v \in Workers : HasJob(v)'
  BY <1>2, <1>3, WorkerTyped DEF Abandon, web, Inv, TypeOK
<1>5. QED
  BY <1>4, EventsAtRest DEF Abandon

LEMMA WorkerStepKept ==
    ASSUME Inv, NEW w \in Workers, WorkerStep(w)
    PROVE  Inv'
<1>1. CASE StartCycle(w)
  <2>1. TypeOK' /\ \A v \in Workers : HasJob(v)'
    BY <1>1, GotoTyped DEF StartCycle, web, bounds, Inv, TypeOK, Times
  <2>2. QED
    BY <1>1, <2>1, EventsAtRest DEF StartCycle
<1>2. CASE NothingStale(w) \/ NothingReceived(w)
  <2>1. TypeOK' /\ \A v \in Workers : HasJob(v)'
    BY <1>2, GotoTyped DEF NothingStale, NothingReceived, web, bounds, Inv, TypeOK
  <2>2. QED
    BY <1>2, <2>1, EventsAtRest DEF NothingStale, NothingReceived
<1>3. CASE CrmPhase(w)
  <2>1. TypeOK' /\ \A v \in Workers : HasJob(v)'
    BY <1>3, WorkerTyped DEF CrmPhase, web, bounds, Inv, TypeOK
  <2>2. QED
    BY <1>3, <2>1, EventsAtRest DEF CrmPhase
<1>4. QED
  BY <1>1, <1>2, <1>3, RecoverKept, ClaimKept, NormalizeKept, FailKept, NothingToRepair,
     RaiseKept DEF WorkerStep

LEMMA StepKept ==
    ASSUME Inv, [Next]_vars
    PROVE  Inv'
<1>1. CASE WebStep
  BY <1>1, DeliverKept, InsertKept, CommitKept, AnswerKept, LoseKept DEF WebStep
<1>2. CASE Tick
  <2>1. TypeOK' /\ \A v \in Workers : HasJob(v)'
    BY <1>2 DEF Tick, web, worker, Inv, TypeOK, HasJob
  <2>2. QED
    BY <1>2, <2>1, EventsAtRest DEF Tick
<1>3. CASE UNCHANGED vars
  <2>1. TypeOK' /\ \A v \in Workers : HasJob(v)'
    BY <1>3 DEF vars, Inv, TypeOK, HasJob
  <2>2. QED
    BY <1>3, <2>1, EventsAtRest DEF vars, web
<1>4. QED
  BY <1>1, <1>2, <1>3, WorkerStepKept, AbandonKept DEF Next

LEMMA Always == Spec => []Inv
  BY InitInv, StepKept, PTL DEF Spec

(* webhooks.py, normalization/service.py: events, leads, requests and the   *)
(* workers' memory keep their types, whatever is delivered or crashes.      *)
THEOREM Types == Spec => []TypeOK
<1>1. Inv => TypeOK
  BY DEF Inv
<1>2. QED
  BY <1>1, Always, PTL

(* webhooks.py: whatever the number of simultaneous and repeated            *)
(* deliveries, what is acknowledged is stored and called new at most once.  *)
THEOREM Accepted == Spec => []AcceptedOnce
<1>1. Inv => AcceptedOnce
  BY DEF Inv
<1>2. QED
  BY <1>1, Always, PTL

(* normalization/service.py: with any number of overlapping workers and any *)
(* lease, an event has at most one lead, exactly when it is NORMALIZED.     *)
THEOREM OneLead == Spec => []OneLeadPerEvent
<1>1. Inv => OneLeadPerEvent
  BY DEF Inv
<1>2. QED
  BY <1>1, Always, PTL

-----------------------------------------------------------------------------
(***************************************************************************)
(* The pipeline implements IntakePromise: committing a request stores the  *)
(* event, the two ends of a conversion settle it, and every other step     *)
(* leaves payloads alone and keeps open events open.                       *)
(***************************************************************************)
OutcomeOf(status) ==
    CASE status = "NORMALIZED"           -> "lead"
      [] status = "NORMALIZATION_FAILED" -> "failed"
      [] OTHER                           -> "open"

Content == [e \in Events |-> event[e].payload]
Outcome == [e \in Events |-> OutcomeOf(event[e].status)]

PromiseStep == Promise!Next \/ UNCHANGED <<Content, Outcome>>

LEMMA OutcomeValues ==
    /\ OutcomeOf("NORMALIZED") = "lead" /\ OutcomeOf("NORMALIZATION_FAILED") = "failed"
    /\ \A s \in {"NONE", "RECEIVED", "PROCESSING"} : OutcomeOf(s) = "open"
  BY DEF OutcomeOf

LEMMA OpenStays ==
    ASSUME \A e \in Events :
               /\ event'[e].payload = event[e].payload
               /\ OutcomeOf(event'[e].status) = OutcomeOf(event[e].status)
    PROVE  PromiseStep
  BY DEF PromiseStep, Content, Outcome

LEMMA UnwrittenStays ==
    ASSUME UNCHANGED event
    PROVE  PromiseStep
  BY OpenStays

LEMMA StorePromised ==
    ASSUME Inv, NEW r \in Requests, CommitEvent(r)
    PROVE  PromiseStep
<1> PICK e \in Events, p \in Payloads : e = request[r].key /\ p = request[r].payload
  BY DEF CommitEvent, Inv, CarriesEvent
<1>1. event[e].status = "NONE" /\ event[e].payload = "none"
  BY DEF CommitEvent, Inv, InsertsAlone, StoredOrBlank, Stored
<1>2. /\ event'[e].payload = p /\ event'[e].status = "RECEIVED"
      /\ \A f \in Events \ {e} : event'[f] = event[f]
  BY <1>1 DEF CommitEvent, Inv, TypeOK
<1>3. Content[e] = "none" /\ Content' = [Content EXCEPT ![e] = p]
  BY <1>1, <1>2 DEF Content
<1>4. Outcome' = Outcome
  BY <1>1, <1>2, OutcomeValues DEF Outcome
<1>5. Promise!Store(e)
  BY <1>1, <1>3, <1>4 DEF Promise!Store, Content, Outcome, OutcomeOf
<1>6. QED
  BY <1>5 DEF PromiseStep, Promise!Next

(* A conversion ends an event that was open, with the status its payload    *)
(* asks for.                                                                *)
LEMMA SettlePromised ==
    ASSUME Inv, NEW w \in Workers, Normalize(w) \/ FailNormalization(w)
    PROVE  PromiseStep
<1> DEFINE e == job[w]
<1>1. e \in Events /\ event[e] \in EventRow /\ event[e].status = "PROCESSING"
  BY DEF Normalize, FailNormalization, Convert, Inv, HasJob, TypeOK
<1>2. ASSUME NEW status, Finish(w, status)
      PROVE  /\ Content' = Content
             /\ Outcome[e] = "open" /\ Outcome' = [Outcome EXCEPT ![e] = OutcomeOf(status)]
  <2>1. event' = [event EXCEPT ![e] = [event[e] EXCEPT !.status = status]]
    BY <1>1, <1>2 DEF Finish, Inv, TypeOK
  <2>2. event'[e].status = status /\ event'[e].payload = event[e].payload
    BY <1>1, <2>1 DEF Inv, TypeOK, EventRow
  <2>3. \A f \in Events \ {e} : event'[f] = event[f]
    BY <2>1 DEF Inv, TypeOK
  <2>4. QED
    BY <1>1, <2>2, <2>3, OutcomeValues DEF Content, Outcome
<1>3. ASSUME NEW p, NEW status, event[e].payload = p, Finish(w, status)
      PROVE  Promise!Settle(e, p, OutcomeOf(status))
  BY <1>1, <1>2, <1>3 DEF Promise!Settle, Content, Outcome, OutcomeOf
<1>4. CASE Normalize(w)
  <2>1. Promise!Settle(e, "valid", "lead")
    BY <1>3, <1>4, OutcomeValues DEF Normalize
  <2>2. QED
    BY <1>1, <2>1 DEF PromiseStep, Promise!Next
<1>5. CASE FailNormalization(w)
  <2>1. Promise!Settle(e, "invalid", "failed")
    BY <1>3, <1>5, OutcomeValues DEF FailNormalization
  <2>2. QED
    BY <1>1, <2>1 DEF PromiseStep, Promise!Next
<1>6. QED
  BY <1>4, <1>5

LEMMA ReopenPromised ==
    ASSUME Inv, NEW w \in Workers, NEW e \in Events, RecoverStale(w, e) \/ ClaimReceived(w, e)
    PROVE  PromiseStep
<1>1. event[e] \in EventRow /\ event[e].status \in {"RECEIVED", "PROCESSING"} /\ ~ HasLead(e)
  BY DEF RecoverStale, Stale, ClaimReceived, Received, Inv, TypeOK, OneLeadPerEvent
<1>2. /\ event'[e].payload = event[e].payload
      /\ event'[e].status \in {"RECEIVED", "PROCESSING"}
      /\ \A f \in Events \ {e} : event'[f] = event[f]
  <2>1. CASE RecoverStale(w, e)
    <3>1. event' = [event EXCEPT ![e] = ResetRow(event[e])]
      BY <1>1, <2>1 DEF RecoverStale, Inv, TypeOK
    <3>2. /\ ResetRow(event[e]).payload = event[e].payload
          /\ ResetRow(event[e]).status = "RECEIVED"
      BY <1>1 DEF ResetRow, EventRow
    <3>3. QED
      BY <3>1, <3>2 DEF Inv, TypeOK
  <2>2. CASE ClaimReceived(w, e)
    <3>1. event' = [event EXCEPT ![e].status = "PROCESSING", ![e].startedAt = at[w]]
      BY <2>2 DEF ClaimReceived
    <3>2. QED
      BY <1>1, <3>1 DEF EventRow, Inv, TypeOK
  <2>3. QED
    BY <2>1, <2>2
<1>3. QED
  BY <1>1, <1>2, OutcomeValues, OpenStays

LEMMA StepPromised == Inv /\ [Next]_vars => PromiseStep
<1> SUFFICES ASSUME Inv, [Next]_vars
             PROVE  PromiseStep
  OBVIOUS
<1>1. CASE Tick \/ UNCHANGED vars
  BY <1>1, UnwrittenStays DEF Tick, vars
<1>2. CASE WebStep
  BY <1>2, StorePromised, UnwrittenStays
     DEF WebStep, Deliver, InsertEvent, Answer202, LoseRequest
<1>3. ASSUME NEW w \in Workers, WorkerStep(w)
      PROVE  PromiseStep
  <2>1. CASE StartCycle(w) \/ NothingStale(w) \/ NothingReceived(w) \/ CrmPhase(w)
    BY <2>1, UnwrittenStays DEF StartCycle, NothingStale, NothingReceived, CrmPhase
  <2>2. CASE AlreadyProcessed(w) \/ RaiseFromCycle(w)
    BY <2>2, NothingToRepair, UnwrittenStays DEF RaiseFromCycle
  <2>3. QED
    BY <1>3, <2>1, <2>2, SettlePromised, ReopenPromised DEF WorkerStep
<1>4. ASSUME NEW w \in Workers, Abandon(w)
      PROVE  PromiseStep
  BY <1>4, UnwrittenStays DEF Abandon
<1>5. QED
  BY <1>1, <1>2, <1>3, <1>4 DEF Next

LEMMA InitPromised == Init => Promise!Init
  BY OutcomeValues DEF Init, EmptyRow, Promise!Init, OutcomeOf

(* The intake implements its promise, whatever the number of deliveries and *)
(* workers, and wherever they are cut short: the first delivery fixes an    *)
(* event's payload, its outcome fits that payload and is final.             *)
THEOREM Implements == Spec => KeepsPromise
<1>1. PromiseStep =>
          [Promise!Next]_<<[e \in Events |-> event[e].payload],
                           [e \in Events |->
                               CASE event[e].status = "NORMALIZED"           -> "lead"
                                 [] event[e].status = "NORMALIZATION_FAILED" -> "failed"
                                 [] OTHER                                    -> "open"]>>
  BY DEF PromiseStep, Content, Outcome, OutcomeOf
<1>2. QED
  BY <1>1, InitPromised, StepPromised, Always, PTL DEF Spec, KeepsPromise, Promise!Spec

-----------------------------------------------------------------------------
(***************************************************************************)
(* What the deployment's one replica adds, if every payload is converted   *)
(* or refused: the event a worker converts is still the one it claimed,    *)
(* and an event that may be converted has not been.                        *)
(***************************************************************************)
OneReplica == \A v, w \in Workers : v = w

Unconverted == {"NONE", "RECEIVED", "PROCESSING"}

Counted(e) ==
    /\ tries[e] <= 1
    /\ event[e].status \in Unconverted => tries[e] = 0
    /\ event[e].payload # "raises"

StillClaimed(w) == pc[w] = "convert" => event[job[w]].status = "PROCESSING"

Once == (\A e \in Events : Counted(e)) /\ (\A w \in Workers : StillClaimed(w))

LEMMA OnceInit == Init => Once
  BY DEF Init, EmptyRow, Once, Counted, StillClaimed

(* The endpoint writes only events that are not stored yet.                 *)
LEMMA WebOnce ==
    ASSUME Inv, Once, "raises" \notin Payloads, WebStep
    PROVE  Once'
<1>1. UNCHANGED <<pc, job, tries>>
  BY DEF WebStep, Deliver, InsertEvent, CommitEvent, Answer202, LoseRequest, SetRequest,
         worker
<1>2. CASE UNCHANGED event
  BY <1>1, <1>2 DEF Once, Counted, StillClaimed
<1>3. ASSUME NEW r \in Requests, CommitEvent(r)
      PROVE  Once'
  <2> DEFINE e == request[r].key
  <2>1. /\ e \in Events /\ event[e].status = "NONE"
        /\ request[r].payload # "raises"
    BY <1>3 DEF CommitEvent, Inv, CarriesEvent, InsertsAlone, Stored
  <2>2. /\ event'[e].status = "RECEIVED" /\ event'[e].payload # "raises"
        /\ \A f \in Events \ {e} : event'[f] = event[f]
    BY <1>3, <2>1 DEF CommitEvent, Inv, TypeOK
  <2>3. tries[e] = 0
    BY <2>1 DEF Once, Counted, Unconverted
  <2>4. \A f \in Events : Counted(f)'
    BY <1>1, <2>2, <2>3 DEF Once, Counted
  <2>5. \A w \in Workers : StillClaimed(w)'
    BY <1>1, <2>1, <2>2 DEF Once, StillClaimed, Inv, HasJob
  <2>6. QED
    BY <2>4, <2>5 DEF Once
<1>4. QED
  BY <1>2, <1>3 DEF WebStep, Deliver, InsertEvent, Answer202, LoseRequest

(* The only worker moves one event on, converting none.                     *)
LEMMA MoveOnce ==
    ASSUME OneReplica, Inv, Once, NEW w \in Workers, NEW e \in Events, NEW row,
           event' = [event EXCEPT ![e] = row], row.payload = event[e].payload,
           event[e].status \in Unconverted, UNCHANGED tries,
           pc'[w] = "convert" => job'[w] = e /\ row.status = "PROCESSING"
    PROVE  Once'
<1>1. event'[e] = row /\ \A f \in Events \ {e} : event'[f] = event[f]
  BY DEF Inv, TypeOK
<1>2. tries[e] = 0
  BY DEF Once, Counted
<1>3. \A v \in Workers : v = w
  BY DEF OneReplica
<1>4. QED
  BY <1>1, <1>2, <1>3 DEF Once, Counted, StillClaimed

(* The only worker ends a conversion of the event it claimed.               *)
LEMMA FinishOnce ==
    ASSUME OneReplica, Inv, Once, NEW w \in Workers, pc[w] = "convert", Convert(w),
           NEW status \in EventStatuses \ Unconverted, Finish(w, status)
    PROVE  Once'
<1> DEFINE e == job[w]
           row == [event[e] EXCEPT !.status = status]
<1>1. /\ e \in Events /\ event[e] \in EventRow /\ event' = [event EXCEPT ![e] = row]
  BY FinishTyped DEF Inv, TypeOK, HasJob
<1>2. row.status = status /\ row.payload = event[e].payload
  BY <1>1 DEF EventRow
<1> HIDE DEF row
<1>3. event'[e] = row /\ \A f \in Events \ {e} : event'[f] = event[f]
  BY <1>1 DEF Inv, TypeOK
<1>4. tries[e] = 0
  BY <1>1 DEF Once, Counted, StillClaimed, Unconverted
<1>5. tries'[e] = 1 /\ \A f \in Events \ {e} : tries'[f] = tries[f]
  BY <1>1, <1>4 DEF Convert, Inv, TypeOK
<1>6. \A v \in Workers : pc'[v] # "convert"
  BY DEF OneReplica, Finish, Goto, Inv, TypeOK
<1>7. \A f \in Events : Counted(f)'
  BY <1>1, <1>2, <1>3, <1>5 DEF Once, Counted
<1>8. QED
  BY <1>6, <1>7 DEF Once, StillClaimed

(* An event that is being converted is nobody else's and has no lead: the   *)
(* conversion neither raises nor finds the event processed.                 *)
LEMMA ConvertsOnce ==
    ASSUME OneReplica, Inv, Once, NEW w \in Workers,
           \/ Normalize(w) \/ FailNormalization(w)
           \/ AlreadyProcessed(w) \/ RaiseFromCycle(w)
    PROVE  Once'
<1>1. pc[w] = "convert" /\ Convert(w)
  BY DEF Normalize, FailNormalization, AlreadyProcessed, RaiseFromCycle, Convert
<1>2. /\ job[w] \in Events /\ event[job[w]].status = "PROCESSING"
      /\ event[job[w]].payload # "raises"
  BY <1>1 DEF Once, Counted, StillClaimed, Inv, HasJob
<1>3. ~ HasLead(job[w])
  BY <1>2 DEF Inv, OneLeadPerEvent
<1>4. ~ AlreadyProcessed(w) /\ ~ RaiseFromCycle(w)
  BY <1>2, <1>3 DEF AlreadyProcessed, RaiseFromCycle
<1>5. PICK status \in {"NORMALIZED", "NORMALIZATION_FAILED"} : Finish(w, status)
  BY <1>4 DEF Normalize, FailNormalization
<1>6. status \in EventStatuses \ Unconverted
  BY DEF EventStatuses, Unconverted
<1>7. QED
  BY <1>1, <1>5, <1>6, FinishOnce

LEMMA OnceStep ==
    ASSUME OneReplica, "raises" \notin Payloads
    PROVE  Inv /\ Once /\ [Next]_vars => Once'
<1> SUFFICES ASSUME Inv, Once, [Next]_vars
             PROVE  Once'
  OBVIOUS
<1>1. CASE UNCHANGED vars \/ Tick
  BY <1>1 DEF vars, Tick, worker, Once, Counted, StillClaimed
<1>2. ASSUME NEW w \in Workers, UNCHANGED <<event, tries>>, pc'[w] # "convert"
      PROVE  Once'
  BY <1>2 DEF OneReplica, Once, Counted, StillClaimed
<1>3. ASSUME NEW w \in Workers,
             \/ StartCycle(w) \/ NothingStale(w) \/ NothingReceived(w) \/ CrmPhase(w)
             \/ Abandon(w)
      PROVE  Once'
  BY <1>2, <1>3 DEF StartCycle, NothingStale, NothingReceived, CrmPhase, Abandon,
                    EndCycle, Goto, Inv, TypeOK
<1>4. ASSUME NEW w \in Workers, NEW e \in Events, RecoverStale(w, e)
      PROVE  Once'
  <2>1. event[e].status = "PROCESSING" /\ event[e] \in EventRow
    BY <1>4 DEF RecoverStale, Stale, Inv, TypeOK
  <2>2. ~ HasLead(e)
    BY <2>1 DEF Inv, OneLeadPerEvent
  <2>3. event' = [event EXCEPT ![e] = ResetRow(event[e])]
    BY <1>4, <2>2 DEF RecoverStale, Inv, TypeOK
  <2>4. ResetRow(event[e]).payload = event[e].payload
    BY <2>1 DEF ResetRow, EventRow
  <2>5. pc'[w] # "convert" /\ UNCHANGED tries
    BY <1>4 DEF RecoverStale, Goto, Inv, TypeOK
  <2>6. QED
    BY <2>1, <2>3, <2>4, <2>5, MoveOnce DEF Unconverted
<1>5. ASSUME NEW w \in Workers, NEW e \in Events, ClaimReceived(w, e)
      PROVE  Once'
  <2> DEFINE row == [event[e] EXCEPT !.status = "PROCESSING", !.startedAt = at[w]]
  <2>1. event[e].status = "RECEIVED" /\ event[e] \in EventRow
    BY <1>5 DEF ClaimReceived, Received, Inv, TypeOK
  <2>2. event' = [event EXCEPT ![e] = row] /\ UNCHANGED tries
    BY <1>5 DEF ClaimReceived, Inv, TypeOK
  <2>3. row.payload = event[e].payload /\ row.status = "PROCESSING"
    BY <2>1 DEF EventRow
  <2>4. job'[w] = e
    BY <1>5 DEF ClaimReceived, Inv, TypeOK
  <2> HIDE DEF row
  <2>5. QED
    BY <2>1, <2>2, <2>3, <2>4, MoveOnce DEF Unconverted
<1>6. QED
  BY <1>1, <1>3, <1>4, <1>5, WebOnce, ConvertsOnce DEF Next, WorkerStep

(* docs/05_normalization.md: "Do not automatically repeat the same          *)
(* deterministic normalization".  With one replica, and if no conversion    *)
(* raises anything but a NormalizationFailure, claim_one_received and       *)
(* normalize_webhook_event bring the conversion of an event to an end once, *)
(* whatever crashed before.                                                 *)
THEOREM ConvertsOneTime ==
    ASSUME OneReplica, "raises" \notin Payloads
    PROVE  Spec => []ConvertedOnce
<1>1. Once => ConvertedOnce
  BY DEF Once, Counted, ConvertedOnce
<1>2. QED
  BY <1>1, OnceInit, OnceStep, Always, PTL DEF Spec
=============================================================================
