---------------------------- MODULE EventPipeline ----------------------------
(***************************************************************************)
(* From a provider's delivery to a lead: the webhook endpoint              *)
(* (src/project3_crm/webhooks.py, db/webhook_events.py) stores an event    *)
(* once, whatever the provider sends again or at the same time, and the    *)
(* worker (worker.py, normalization/service.py) turns each stored event    *)
(* into one lead or into a failure.                                        *)
(*                                                                         *)
(* Requests and workers interleave; one database transaction of a worker   *)
(* is one action, the transaction of a request is an insert and a commit,  *)
(* because a second insert of the same event waits between the two.        *)
(***************************************************************************)
EXTENDS Integers, FiniteSets

CONSTANTS
    Events,      \* (source, event_id) keys
    Requests,    \* webhook requests handled at a time
    Workers,     \* worker replicas
    Payloads,    \* what conversion makes of the payloads delivered
    Lease,       \* worker_lease_seconds
    MaxClock,    \* bound: the clock stops here
    MaxCrashes   \* bound: worker cycles cut short

(* A payload is converted, or refused with a NormalizationFailure, or some  *)
(* other exception escapes from its conversion.                             *)
PayloadKinds == {"valid", "invalid", "raises"}

ASSUME PayloadsAssumption == Payloads \subseteq PayloadKinds
ASSUME LeaseAssumption ==
    Lease \in Nat \ {0} /\ MaxClock \in Nat /\ MaxCrashes \in Nat

VARIABLES
    event,     \* webhook_events, one row for each key
    lead,      \* normalized_leads, the columns that identify a lead
    nextId,    \* normalized_leads_id_seq
    request,   \* the webhook requests under way
    fresh,     \* answers "duplicate": false given for each event
    acked,     \* events the provider was told are accepted
    pc, job, at,
    tries,     \* conversions of each event that ran to an end
    now, crashes

web    == <<request, fresh, acked>>
worker == <<pc, job, at>>
bounds == <<now, crashes>>
vars   == <<event, lead, nextId, request, fresh, acked, pc, job, at, tries, now, crashes>>

-----------------------------------------------------------------------------
NoTime == -1
NoEvent == "no event"

EventStatuses == {"NONE", "RECEIVED", "PROCESSING", "NORMALIZED", "NORMALIZATION_FAILED"}

Times == Nat \union {NoTime}

EventRow == [status : EventStatuses, payload : PayloadKinds \union {"none"},
             receivedAt : Times, startedAt : Times]

EmptyRow == [status |-> "NONE", payload |-> "none", receivedAt |-> NoTime,
             startedAt |-> NoTime]

NoRequest == [place |-> "idle", key |-> NoEvent, payload |-> "none", receivedAt |-> NoTime]

Init ==
    /\ event = [e \in Events |-> EmptyRow]
    /\ lead = {} /\ nextId = 1
    /\ request = [r \in Requests |-> NoRequest]
    /\ fresh = [e \in Events |-> 0]
    /\ acked = {}
    /\ pc = [w \in Workers |-> "idle"]
    /\ job = [w \in Workers |-> NoEvent]
    /\ at = [w \in Workers |-> NoTime]
    /\ tries = [e \in Events |-> 0]
    /\ now = 0 /\ crashes = 0

Stored(e) == event[e].status # "NONE"

HasLead(e) == \E l \in lead : l.event = e

-----------------------------------------------------------------------------
(***************************************************************************)
(* The webhook endpoint (receive_webhook).  A request that is not          *)
(* authenticated, too large, malformed or without an event id is refused   *)
(* before it touches the database.                                         *)
(***************************************************************************)
SetRequest(r, value) ==
    /\ request' = [request EXCEPT ![r] = value]
    /\ UNCHANGED <<lead, nextId, worker, tries, bounds>>

(* The time of reception is read before the row is inserted.                *)
Deliver(r, e, p) ==
    /\ request[r].place = "idle"
    /\ SetRequest(r, [place |-> "received", key |-> e, payload |-> p, receivedAt |-> now])
    /\ UNCHANGED <<event, fresh, acked>>

(* Mutant: nothing makes a second insert of a key wait for the first.       *)
NoInsertUnderWay(r) == TRUE

(* The unique constraint holds a second insert of a key back until the      *)
(* transaction of the first ends.                                           *)
InsertMayProceed(r) ==
    \A s \in Requests : request[s].place = "inserted" => request[s].key # request[r].key

(* ON CONFLICT DO NOTHING RETURNING id.                                     *)
InsertEvent(r) ==
    /\ request[r].place = "received" /\ InsertMayProceed(r)
    /\ SetRequest(r, [request[r] EXCEPT
                          !.place = IF Stored(request[r].key) THEN "duplicate" ELSE "inserted"])
    /\ UNCHANGED <<event, fresh, acked>>

CommitEvent(r) ==
    /\ request[r].place = "inserted"
    /\ event' = [event EXCEPT ![request[r].key] =
           [status |-> "RECEIVED", payload |-> request[r].payload,
            receivedAt |-> request[r].receivedAt, startedAt |-> NoTime]]
    /\ SetRequest(r, [request[r] EXCEPT !.place = "fresh"])
    /\ UNCHANGED <<fresh, acked>>

Answer202(r) ==
    /\ request[r].place \in {"fresh", "duplicate"}
    /\ acked' = acked \union {request[r].key}
    /\ fresh' = IF request[r].place = "fresh" THEN [fresh EXCEPT ![request[r].key] = @ + 1]
                                              ELSE fresh
    /\ SetRequest(r, NoRequest)
    /\ UNCHANGED event

(* The transaction fails and is rolled back (503), or the process or the    *)
(* connection is lost, before the commit or after it: the provider does not *)
(* learn that the event is stored.                                          *)
LoseRequest(r) ==
    /\ request[r].place # "idle"
    /\ SetRequest(r, NoRequest)
    /\ UNCHANGED <<event, fresh, acked>>

-----------------------------------------------------------------------------
(***************************************************************************)
(* The worker's normalization phase: recover one stale event, claim one    *)
(* received event, convert it.                                             *)
(***************************************************************************)
Goto(w, place) == pc' = [pc EXCEPT ![w] = place]

EndCycle(w) ==
    /\ Goto(w, "idle")
    /\ job' = [job EXCEPT ![w] = NoEvent]
    /\ at' = [at EXCEPT ![w] = NoTime]

StartCycle(w) ==
    /\ pc[w] = "idle"
    /\ at' = [at EXCEPT ![w] = now]
    /\ Goto(w, "recover")
    /\ UNCHANGED <<event, lead, nextId, web, job, tries, bounds>>

(* Mutant: whatever was claimed long ago is stale, finished or not.         *)
StartedLongAgo(w) ==
    {e \in Events : event[e].startedAt # NoTime /\ event[e].startedAt < at[w] - Lease}

(* Mutant: only an event without a time of its claim is stale.              *)
NeverStale(w) ==
    {e \in Events : event[e].status = "PROCESSING" /\ event[e].startedAt = NoTime}

Stale(w) ==
    {e \in Events : /\ event[e].status = "PROCESSING"
                    /\ event[e].startedAt # NoTime
                    /\ event[e].startedAt < at[w] - Lease}

(* Mutant: the status of another table is written.                          *)
ResetAsPending(row) == [row EXCEPT !.status = "PENDING", !.startedAt = NoTime]

ResetRow(row) == [row EXCEPT !.status = "RECEIVED", !.startedAt = NoTime]

(* The oldest stale event becomes NORMALIZED if its lead exists, and is     *)
(* received again if it does not.                                           *)
RecoverStale(w, e) ==
    /\ pc[w] = "recover"
    /\ e \in Stale(w)
    /\ \A f \in Stale(w) : event[e].startedAt <= event[f].startedAt
    /\ event' = [event EXCEPT ![e] = IF HasLead(e) THEN [@ EXCEPT !.status = "NORMALIZED"]
                                                   ELSE ResetRow(@)]
    /\ Goto(w, "claim")
    /\ UNCHANGED <<lead, nextId, web, job, at, tries, bounds>>

NothingStale(w) ==
    /\ pc[w] = "recover" /\ Stale(w) = {}
    /\ Goto(w, "claim")
    /\ UNCHANGED <<event, lead, nextId, web, job, at, tries, bounds>>

Received == {e \in Events : event[e].status = "RECEIVED"}

(* The event received first; rows of one time come in the order of their    *)
(* ids, which is left open here.                                            *)
ClaimReceived(w, e) ==
    /\ pc[w] = "claim"
    /\ e \in Received
    /\ \A f \in Received : event[e].receivedAt <= event[f].receivedAt
    /\ event' = [event EXCEPT ![e].status = "PROCESSING", ![e].startedAt = at[w]]
    /\ job' = [job EXCEPT ![w] = e]
    /\ Goto(w, "convert")
    /\ UNCHANGED <<lead, nextId, web, at, tries, bounds>>

NothingReceived(w) ==
    /\ pc[w] = "claim" /\ Received = {}
    /\ Goto(w, "crm")
    /\ UNCHANGED <<event, lead, nextId, web, job, at, tries, bounds>>

(* normalize_webhook_event: conversion, which depends on the payload alone, *)
(* then one transaction under the event's row lock.                         *)
Convert(w) ==
    /\ pc[w] = "convert"
    /\ tries' = [tries EXCEPT ![job[w]] = @ + 1]
    /\ UNCHANGED <<web, bounds>>

Finish(w, status) ==
    /\ event' = [event EXCEPT ![job[w]].status = status]
    /\ Goto(w, "crm")
    /\ UNCHANGED <<job, at>>

(* Mutant: neither an existing lead nor the event's status is looked at.    *)
NormalizeUnchecked(w) ==
    /\ Convert(w)
    /\ event[job[w]].payload = "valid"
    /\ lead' = lead \union {[id |-> nextId, event |-> job[w]]}
    /\ nextId' = nextId + 1
    /\ Finish(w, "NORMALIZED")

Normalize(w) ==
    /\ Convert(w)
    /\ event[job[w]].payload = "valid"
    /\ event[job[w]].status = "PROCESSING" /\ ~ HasLead(job[w])
    /\ lead' = lead \union {[id |-> nextId, event |-> job[w]]}
    /\ nextId' = nextId + 1
    /\ Finish(w, "NORMALIZED")

FailNormalization(w) ==
    /\ Convert(w)
    /\ event[job[w]].payload = "invalid"
    /\ event[job[w]].status = "PROCESSING" /\ ~ HasLead(job[w])
    /\ Finish(w, "NORMALIZATION_FAILED")
    /\ UNCHANGED <<lead, nextId>>

(* Another worker finished the event; an event with a lead that is not      *)
(* marked so is repaired.                                                   *)
AlreadyProcessed(w) ==
    /\ Convert(w)
    /\ event[job[w]].payload # "raises"
    /\ \/ HasLead(job[w]) /\ event[job[w]].status \in {"PROCESSING", "NORMALIZED"}
       \/ ~ HasLead(job[w]) /\ event[job[w]].status = "NORMALIZATION_FAILED"
    /\ Finish(w, IF HasLead(job[w]) THEN "NORMALIZED" ELSE "NORMALIZATION_FAILED")
    /\ UNCHANGED <<lead, nextId>>

(* The conversion raises, or the event is no longer this worker's to        *)
(* finish: the exception ends the cycle and the event stays as it is.       *)
RaiseFromCycle(w) ==
    /\ Convert(w)
    /\ \/ event[job[w]].payload = "raises"
       \/ HasLead(job[w]) /\ event[job[w]].status \notin {"PROCESSING", "NORMALIZED"}
       \/ /\ ~ HasLead(job[w])
          /\ event[job[w]].status \notin {"PROCESSING", "NORMALIZATION_FAILED"}
    /\ EndCycle(w)
    /\ UNCHANGED <<event, lead, nextId>>

(* The CRM phase leaves events alone.                                       *)
CrmPhase(w) ==
    /\ pc[w] = "crm"
    /\ EndCycle(w)
    /\ UNCHANGED <<event, lead, nextId, web, tries, bounds>>

(* The process dies or a database error reaches the loop; the transaction   *)
(* under way rolls back, a lead id it drew does not.                        *)
Abandon(w) ==
    /\ pc[w] # "idle" /\ crashes < MaxCrashes
    /\ crashes' = crashes + 1
    /\ nextId' \in {nextId, IF pc[w] = "convert" THEN nextId + 1 ELSE nextId}
    /\ EndCycle(w)
    /\ UNCHANGED <<event, lead, web, tries, now>>

Tick ==
    /\ now < MaxClock
    /\ now' = now + 1
    /\ UNCHANGED <<event, lead, nextId, web, worker, tries, crashes>>

-----------------------------------------------------------------------------
WebStep ==
    \E r \in Requests :
        \/ \E e \in Events, p \in Payloads : Deliver(r, e, p)
        \/ InsertEvent(r) \/ CommitEvent(r) \/ Answer202(r) \/ LoseRequest(r)

WorkerStep(w) ==
    \/ StartCycle(w) \/ NothingStale(w) \/ NothingReceived(w) \/ CrmPhase(w)
    \/ Normalize(w) \/ FailNormalization(w) \/ AlreadyProcessed(w) \/ RaiseFromCycle(w)
    \/ \E e \in Events : RecoverStale(w, e) \/ ClaimReceived(w, e)

Next == WebStep \/ Tick \/ \E w \in Workers : WorkerStep(w) \/ Abandon(w)

Spec == Init /\ [][Next]_vars

-----------------------------------------------------------------------------
(* Every variable keeps its type; an event's status satisfies the table's   *)
(* check constraint.                                                        *)
TypeOK ==
    /\ event \in [Events -> EventRow]
    /\ lead \subseteq [id : 1..(nextId - 1), event : Events]
    /\ nextId \in Nat \ {0}
    /\ request \in [Requests -> [place : {"idle", "received", "inserted", "fresh", "duplicate"},
                                 key : Events \union {NoEvent},
                                 payload : Payloads \union {"none"}, receivedAt : Times]]
    /\ fresh \in [Events -> Nat] /\ acked \subseteq Events
    /\ pc \in [Workers -> {"idle", "recover", "claim", "convert", "crm"}]
    /\ job \in [Workers -> Events \union {NoEvent}]
    /\ at \in [Workers -> Times]
    /\ tries \in [Events -> Nat]
    /\ now \in Nat /\ crashes \in Nat

(* An accepted delivery is durable: whatever the provider was told is       *)
(* accepted is stored, and of all the deliveries of one event, repeated or  *)
(* simultaneous, at most one is called new.                                 *)
AcceptedOnce == \A e \in Events : (e \in acked => Stored(e)) /\ fresh[e] <= 1

(* However workers overlap, an event has at most one lead, exactly when it  *)
(* is marked NORMALIZED, and no two leads share the id their integration    *)
(* reference is made of.                                                    *)
OneLeadPerEvent ==
    /\ \A k, l \in lead : (k.event = l.event \/ k.id = l.id) => k = l
    /\ \A e \in Events : HasLead(e) <=> event[e].status = "NORMALIZED"

(* docs/05_normalization.md: "Do not automatically repeat the same          *)
(* deterministic normalization": with one replica the conversion of an      *)
(* event runs to an end once, whatever crashed before.                      *)
ConvertedOnce == \A e \in Events : tries[e] <= 1

-----------------------------------------------------------------------------
Promise == INSTANCE IntakePromise
    WITH content <- [e \in Events |-> event[e].payload],
         outcome <- [e \in Events |->
             CASE event[e].status = "NORMALIZED"           -> "lead"
               [] event[e].status = "NORMALIZATION_FAILED" -> "failed"
               [] OTHER                                    -> "open"]

(* The pipeline implements the intake's promise: the first delivery fixes   *)
(* an event's payload, its outcome fits that payload and is final.          *)
KeepsPromise == Promise!Spec
=============================================================================
