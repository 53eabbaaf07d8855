---------------------------- MODULE MCCrmDelivery ----------------------------
(***************************************************************************)
(* CrmDelivery for TLC: small values for its constants, a specification in *)
(* which time has no end and passes only when CRM delivery has nothing     *)
(* left to do, for liveness, and two statements of the documents the code  *)
(* departs from.                                                           *)
(***************************************************************************)
EXTENDS CrmDelivery, TLC

MCRetryDelay == <<1, 1, 1>>
MCNotFoundDelay == <<1, 1>>
MCErrorDelay == <<1, 1>>

(* One status of every category but RETRYABLE_FAILURE, which the failure to *)
(* connect stands for.                                                      *)
MCStatuses == {200, 400, 401, 403, 404, 409, 422, 429, 503}

(* A success, an absence and a conflict.                                    *)
MCMismatchStatuses == {200, 404, 409}

(* A success, an absence and a rate limit.                                  *)
MCRetryStatuses == {200, 404, 429}

MCHeaders == {NoHeader, [kind |-> "seconds", n |-> 2]}

MCNoHeaders == {NoHeader}

Symmetry == Permutations(Workers)

(***************************************************************************)
(* Liveness.  A bounded clock must not run out while work is waiting: at   *)
(* MaxClock the world ages instead, every time the database holds moving   *)
(* one into the past.  Time passes while no cycle is under way, nothing is *)
(* due and some lead waits for a time; cycles that would find nothing to   *)
(* do are left out, and so are the people who edit Contacts, whom the      *)
(* `overlap` and `mismatch` runs have.                                     *)
(* A worker that can take a step takes one (calls time out, the loop       *)
(* catches exceptions, the container is restarted), and time passes,       *)
(* however many cycles it is interrupted by; what HubSpot, operators and   *)
(* crashes do is not promised.                                             *)
(***************************************************************************)
WorkDue ==
    \/ \E l \in SendingLeads : row[l].lastAttemptAt < now - Lease
    \/ /\ SendingLeads = {}
       /\ \E l \in Leads : \/ status[l] = "PENDING"
                           \/ status[l] = "RETRY_PENDING" /\ Due(row[l].nextRetryAt, now)
                           \/ status[l] = "UNKNOWN" /\ Due(row[l].nextReconAt, now)

Waiting == \E l \in Leads : status[l] \in {"RETRY_PENDING", "UNKNOWN", "SENDING"}

Earlier(t) == IF t > 0 THEN t - 1 ELSE t

Age ==
    /\ now = MaxClock
    /\ row' = [l \in Leads |-> [row[l] EXCEPT
           !.createdAt = Earlier(@), !.nextRetryAt = Earlier(@),
           !.lastAttemptAt = Earlier(@), !.nextReconAt = Earlier(@)]]
    /\ UNCHANGED <<status, pauseReason, memory, hubspot, bounds>>

LazyTick ==
    /\ ~ Paused /\ ~ WorkDue /\ Waiting
    /\ \A w \in Workers : pc[w] = "idle"
    /\ Tick \/ Age

LazyStep(w) ==
    /\ pc[w] = "idle" => WorkDue \/ \E l \in Leads : status[l] = "NONE"
    /\ WorkerStep(w)

LazyNext ==
    \/ \E w \in Workers : LazyStep(w) \/ Abandon(w) \/ HubSpotAccepts(w)
    \/ \E l \in Leads : HubSpotAcceptsLate(l)
    \/ LazyTick

LiveSpec ==
    /\ Init /\ [][LazyNext]_vars
    /\ \A w \in Workers : WF_vars(LazyStep(w))
    /\ SF_vars(LazyTick)

(* Every lead that reached the database is settled, whatever failed on the  *)
(* way, unless delivery is waiting for an operator.                         *)
EveryLeadSettles ==
    \A l \in Leads : status[l] # "NONE" ~> status[l] \in Terminal \/ Paused

-----------------------------------------------------------------------------
(***************************************************************************)
(* What the documents say and the code does otherwise.                     *)
(***************************************************************************)

(* docs/06_worker_and_retries.md: "For provider-directed responses, respect *)
(* Retry-After": a retryable create is not scheduled again sooner than the  *)
(* provider asked for, counted from when its answer is applied.  The code   *)
(* counts from the start of the cycle.                                      *)
RetryAfterRespected ==
    [][\A w \in Workers :
          (ApplyRetry(w) /\ after[w].kind = "seconds") =>
              row'[job[w]].nextRetryAt >= now + after[w].n]_vars

(* docs/02_database.md: "A completed active found/404 read resets           *)
(* reconciliation_error_count=0".  A found Contact whose identity differs   *)
(* leaves the counter as it was, so the "third consecutive" failure need    *)
(* not be consecutive.                                                      *)
CompletedReadResetsErrors ==
    [][\A w \in Workers :
          (ApplyFound(w) \/ ApplyMismatch(w) \/ ApplyNotFound(w) \/ EscalateNotFound(w))
              => row'[job[w]].errors = 0]_vars
=============================================================================
