----------------------------- MODULE CrmDelivery -----------------------------
(***************************************************************************)
(* CRM delivery (src/project3_crm/crm_delivery.py) as the worker runs it:  *)
(* each cycle normalizes at most one event into a lead, then reconciles at *)
(* most one UNKNOWN lead, or else claims at most one lead, creates its     *)
(* Contact in HubSpot and records the result.  One database transaction is *)
(* one action, except where the code reads before it takes the lock it     *)
(* decides under (the SENDING gate is read before the runtime row is       *)
(* locked); one HTTP exchange is a send and a receive.                     *)
(*                                                                         *)
(* The deployment promises one worker replica.  The module has a set of    *)
(* workers, to tell what depends on that promise from what does not.       *)
(***************************************************************************)
EXTENDS HubSpotAdapter

CONSTANTS
    Leads,             \* ids of the leads the intake may produce
    Workers,           \* worker replicas
    EmailLess,         \* leads normalized without an email
    KnownEmails,       \* leads whose email an active foreign Contact has
    Lease,             \* worker_lease_seconds
    RetryDelay,        \* crm_retry_delay_1..3_seconds
    ReconInitialDelay, \* crm_reconcile_initial_delay_seconds
    NotFoundDelay,     \* crm_reconcile_not_found_delay_2..3_seconds
    ErrorDelay,        \* crm_reconcile_error_delay_1..2_seconds
    MaxClock,          \* bound: the clock stops here
    MaxCrashes,        \* bound: cycles cut short by a crash or an exception
    MaxClears          \* bound: pauses an operator clears

ASSUME LeadsAssumption ==
    Leads \subseteq Nat \ {0} /\ EmailLess \subseteq Leads
    /\ KnownEmails \subseteq Leads \ EmailLess
ASSUME DelaysAssumption ==
    /\ Lease \in Nat \ {0} /\ ReconInitialDelay \in Nat
    /\ RetryDelay \in [1..3 -> Nat]
    /\ NotFoundDelay \in [1..2 -> Nat] /\ ErrorDelay \in [1..2 -> Nat]
ASSUME BoundsAssumption ==
    MaxClock \in Nat /\ MaxCrashes \in Nat /\ MaxClears \in Nat

VARIABLES
    status,      \* normalized_leads.delivery_status, "NONE" before the row exists
    row,         \* the columns of a lead that steer its delivery
    pauseReason, \* integration_runtime_state: "NONE" when delivery is not paused
    pc,          \* where each worker is in its cycle
    job,         \* the lead a worker holds in memory
    at,          \* the time a worker read at the start of its cycle
    res,         \* the result, evidence or decision it is about to apply
    after,       \* the Retry-After header that came with it
    req,         \* its create request: not in flight, open, or performed
    contact,     \* HubSpot: the Contact carrying the lead's reference
    accepted,    \* HubSpot: Contacts created for the lead so far
    orphan,      \* transmitted creates of the lead nobody waits for any more
    now, crashes, clears

database == <<status, row, pauseReason>>
memory   == <<pc, job, at, res, after, req>>
hubspot  == <<contact, accepted, orphan>>
bounds   == <<now, crashes, clears>>
vars     == <<status, row, pauseReason, pc, job, at, res, after, req,
              contact, accepted, orphan, now, crashes, clears>>

-----------------------------------------------------------------------------
DeliveryStatuses ==
    {"NONE", "PENDING", "SENDING", "RETRY_PENDING", "UNKNOWN", "SUCCESS",
     "EXISTING_CONTACT", "FAILED_ESCALATED", "UNKNOWN_ESCALATED"}

Terminal ==
    {"SUCCESS", "EXISTING_CONTACT", "FAILED_ESCALATED", "UNKNOWN_ESCALATED"}

Times == Nat \union {NoTime}

LeadRow ==
    [createdAt : Times, attempts : Nat, retries : 0..3, nextRetryAt : Times,
     lastAttemptAt : Times, notFound : 0..3, errors : 0..3, nextReconAt : Times]

EmptyRow ==
    [createdAt |-> NoTime, attempts |-> 0, retries |-> 0, nextRetryAt |-> NoTime,
     lastAttemptAt |-> NoTime, notFound |-> 0, errors |-> 0, nextReconAt |-> NoTime]

NoLead == 0
NoResult == "NONE"

Pcs == {"idle", "normalize", "reconGate", "reconSelect", "readRef", "applyRead",
        "claimGate", "claim", "send", "awaitCreate", "classifyRef",
        "classifyEmail", "applyDecision", "applyCreate"}

Results == CreateCategories \union ReadEvidenceKinds \union Decisions \union {NoResult}

Init ==
    /\ status = [l \in Leads |-> "NONE"]
    /\ row = [l \in Leads |-> EmptyRow]
    /\ pauseReason = "NONE"
    /\ pc = [w \in Workers |-> "idle"]
    /\ job = [w \in Workers |-> NoLead]
    /\ at = [w \in Workers |-> NoTime]
    /\ res = [w \in Workers |-> NoResult]
    /\ after = [w \in Workers |-> NoHeader]
    /\ req = [w \in Workers |-> "none"]
    /\ contact = [l \in Leads |-> "none"]
    /\ accepted = [l \in Leads |-> 0]
    /\ orphan = [l \in Leads |-> 0]
    /\ now = 0 /\ crashes = 0 /\ clears = 0

-----------------------------------------------------------------------------
(* The row ORDER BY key, id LIMIT 1 returns.                                *)
IsFirst(l, S, key) ==
    /\ l \in S
    /\ \A k \in S : key[l] < key[k] \/ (key[l] = key[k] /\ l <= k)

(* A comparison with NULL is not true.                                      *)
Due(t, time) == t # NoTime /\ t <= time

Paused == pauseReason # "NONE"

SendingLeads == {l \in Leads : status[l] = "SENDING"}

DueUnknown(w) == {l \in Leads : status[l] = "UNKNOWN" /\ Due(row[l].nextReconAt, at[w])}

Eligible(w) ==
    {l \in Leads : \/ status[l] = "PENDING"
                   \/ status[l] = "RETRY_PENDING" /\ Due(row[l].nextRetryAt, at[w])}

DueOrCreated ==
    [l \in Leads |-> IF status[l] = "RETRY_PENDING" THEN row[l].nextRetryAt
                                                    ELSE row[l].createdAt]

OldestSending(l) == IsFirst(l, SendingLeads, [k \in Leads |-> row[k].lastAttemptAt])

LeaseExpired(w, l) ==
    row[l].lastAttemptAt # NoTime /\ row[l].lastAttemptAt < at[w] - Lease

Goto(w, place) == pc' = [pc EXCEPT ![w] = place]

(* The worker drops what it holds: the call returned or raised.             *)
EndCycle(w) ==
    /\ Goto(w, "idle")
    /\ job' = [job EXCEPT ![w] = NoLead]
    /\ at' = [at EXCEPT ![w] = NoTime]
    /\ res' = [res EXCEPT ![w] = NoResult]
    /\ after' = [after EXCEPT ![w] = NoHeader]

SetLead(l, s, r) ==
    /\ status' = [status EXCEPT ![l] = s]
    /\ row' = [row EXCEPT ![l] = r]

(* The columns an uncertain lead is followed up by; writing them clears a   *)
(* retry time.                                                              *)
FollowUp(r, notFound, errors, due) ==
    [r EXCEPT !.notFound = notFound, !.errors = errors, !.nextReconAt = due,
              !.nextRetryAt = NoTime]

(* Mutant: the pause is not saved with the lead.                            *)
ActivatePauseLost(reason) ==
    pauseReason' = pauseReason

(* An already active pause keeps its reason and its time.                   *)
ActivatePause(reason) ==
    pauseReason' = IF Paused THEN pauseReason ELSE reason

-----------------------------------------------------------------------------
(***************************************************************************)
(* The cycle up to the CRM phase (worker.run_worker_cycle).  One time is   *)
(* read at the start and handed to every later call of the cycle.          *)
(***************************************************************************)
StartCycle(w) ==
    /\ pc[w] = "idle"
    /\ at' = [at EXCEPT ![w] = now]
    /\ Goto(w, "normalize")
    /\ UNCHANGED <<database, job, res, after, req, hubspot, bounds>>

(* Normalization inserts the lead, stamped with a time of its own.          *)
InsertLead(w, l) ==
    /\ pc[w] = "normalize" /\ status[l] = "NONE"
    /\ SetLead(l, "PENDING", [EmptyRow EXCEPT !.createdAt = now])
    /\ Goto(w, "reconGate")
    /\ UNCHANGED <<pauseReason, job, at, res, after, req, hubspot, bounds>>

SkipNormalization(w) ==
    /\ pc[w] = "normalize"
    /\ Goto(w, "reconGate")
    /\ UNCHANGED <<database, job, at, res, after, req, hubspot, bounds>>

-----------------------------------------------------------------------------
(***************************************************************************)
(* The SENDING gate (_check_or_recover_sending_in_transaction), which both *)
(* CRM transactions open with: a fresh SENDING lead blocks the cycle, a    *)
(* stale one becomes UNKNOWN.  After a recovery the reconciliation goes    *)
(* on, the claim gives up.  The rest of a recovering reconciliation only   *)
(* reads, so its commit is placed here.                                    *)
(***************************************************************************)
AfterGate == [reconGate |-> "reconSelect", claimGate |-> "claim"]

(* Mutant: the gate only looks for stale leads.                             *)
GateIgnoresFresh(w) ==
    /\ pc[w] \in {"reconGate", "claimGate"}
    /\ Goto(w, AfterGate[pc[w]])
    /\ UNCHANGED <<database, job, at, res, after, req, hubspot, bounds>>

GateClear(w) ==
    /\ pc[w] \in {"reconGate", "claimGate"}
    /\ SendingLeads = {}
    /\ Goto(w, AfterGate[pc[w]])
    /\ UNCHANGED <<database, job, at, res, after, req, hubspot, bounds>>

GateBlocked(w) ==
    /\ pc[w] \in {"reconGate", "claimGate"}
    /\ \E l \in Leads : OldestSending(l) /\ ~ LeaseExpired(w, l)
    /\ EndCycle(w)
    /\ UNCHANGED <<database, req, hubspot, bounds>>

StaleUnknownRow(w, l) == FollowUp(row[l], 0, 0, at[w])

(* Mutant: a stale lead is taken as failed.                                 *)
RecoverAsFailed(w, l) ==
    /\ OldestSending(l) /\ LeaseExpired(w, l)
    /\ SetLead(l, "FAILED_ESCALATED", row[l])

RecoverStale(w, l) ==
    /\ OldestSending(l) /\ LeaseExpired(w, l)
    /\ SetLead(l, "UNKNOWN", StaleUnknownRow(w, l))

ReconcileRecover(w, l) ==
    /\ pc[w] = "reconGate"
    /\ RecoverStale(w, l)
    /\ Goto(w, "reconSelect")
    /\ UNCHANGED <<pauseReason, job, at, res, after, req, hubspot, bounds>>

ClaimRecover(w, l) ==
    /\ pc[w] = "claimGate"
    /\ RecoverStale(w, l)
    /\ EndCycle(w)
    /\ UNCHANGED <<pauseReason, req, hubspot, bounds>>

-----------------------------------------------------------------------------
(***************************************************************************)
(* Reconciliation of one UNKNOWN lead (reconcile_one_unknown): select it,  *)
(* look its reference up, apply what the lookup showed in a transaction of *)
(* its own.                                                                *)
(***************************************************************************)
SelectUnknown(w, l) ==
    /\ pc[w] = "reconSelect" /\ ~ Paused
    /\ IsFirst(l, DueUnknown(w), [k \in Leads |-> row[k].nextReconAt])
    /\ job' = [job EXCEPT ![w] = l]
    /\ Goto(w, "readRef")
    /\ UNCHANGED <<database, at, res, after, req, hubspot, bounds>>

NothingToReconcile(w) ==
    /\ pc[w] = "reconSelect"
    /\ Paused \/ DueUnknown(w) = {}
    /\ Goto(w, "claimGate")
    /\ UNCHANGED <<database, job, at, res, after, req, hubspot, bounds>>

(* What a lookup by reference can return: a usable 200 tells the truth      *)
(* about an active Contact, a 404 may also come from a lagging index.       *)
ReferenceAnswers(l) ==
    {a \in Answers :
        /\ a.kind # "notSent"
        /\ (a.kind = "response" /\ a.status = 200 /\ a.usable) =>
               /\ contact[l] \in {"match", "mismatch"}
               /\ a.same = (contact[l] = "match")}

ReadReference(w) ==
    /\ pc[w] = "readRef"
    /\ \E a \in ReferenceAnswers(job[w]) :
          /\ res' = [res EXCEPT ![w] = ReadEvidence(a)]
          /\ after' = [after EXCEPT ![w] = a.after]
    /\ Goto(w, "applyRead")
    /\ UNCHANGED <<database, job, at, req, hubspot, bounds>>

Applying(w, place, s) ==
    /\ pc[w] = place /\ status[job[w]] = s
    /\ EndCycle(w)
    /\ UNCHANGED <<req, hubspot, bounds>>

ApplyFound(w) ==
    /\ Applying(w, "applyRead", "UNKNOWN")
    /\ res[w] = "FOUND_MATCH"
    /\ SetLead(job[w], "SUCCESS", FollowUp(row[job[w]], 0, 0, NoTime))
    /\ UNCHANGED pauseReason

(* Identity mismatch: pause, and leave the lead UNKNOWN as it is, its       *)
(* counters and its due time included.                                      *)
ApplyMismatch(w) ==
    /\ Applying(w, "applyRead", "UNKNOWN")
    /\ res[w] = "FOUND_MISMATCH"
    /\ ActivatePause("CONFIG")
    /\ SetLead(job[w], "UNKNOWN", row[job[w]])

ApplyNotFound(w) ==
    LET n == row[job[w]].notFound + 1 IN
    /\ Applying(w, "applyRead", "UNKNOWN")
    /\ res[w] = "ACTIVE_NOT_FOUND"
    /\ n < 3
    /\ SetLead(job[w], "UNKNOWN",
               [row[job[w]] EXCEPT !.notFound = n, !.errors = 0,
                                   !.nextReconAt = at[w] + NotFoundDelay[n]])
    /\ UNCHANGED pauseReason

EscalateNotFound(w) ==
    /\ Applying(w, "applyRead", "UNKNOWN")
    /\ res[w] = "ACTIVE_NOT_FOUND"
    /\ row[job[w]].notFound + 1 >= 3
    /\ SetLead(job[w], "UNKNOWN_ESCALATED", FollowUp(row[job[w]], 3, 0, NoTime))
    /\ UNCHANGED pauseReason

ReadErrors == {"RETRYABLE_READ_FAILURE", "INDETERMINATE_READ"}

(* Only a retryable read failure heeds the provider's Retry-After.          *)
ReadRetryTime(w, n) ==
    LaterOf(at[w] + ErrorDelay[n],
            IF res[w] = "RETRYABLE_READ_FAILURE" THEN RetryAfterTime(after[w], at[w])
                                                 ELSE NoTime)

(* Mutant: a failed lookup starts the count of absences again.              *)
ReadErrorForgetsAbsences(w) ==
    LET n == row[job[w]].errors + 1 IN
    /\ Applying(w, "applyRead", "UNKNOWN")
    /\ res[w] \in ReadErrors
    /\ n < 3
    /\ SetLead(job[w], "UNKNOWN", FollowUp(row[job[w]], 0, n, ReadRetryTime(w, n)))
    /\ UNCHANGED pauseReason

ApplyReadError(w) ==
    LET n == row[job[w]].errors + 1 IN
    /\ Applying(w, "applyRead", "UNKNOWN")
    /\ res[w] \in ReadErrors
    /\ n < 3
    /\ SetLead(job[w], "UNKNOWN",
               [row[job[w]] EXCEPT !.errors = n, !.nextReconAt = ReadRetryTime(w, n)])
    /\ UNCHANGED pauseReason

EscalateReadErrors(w) ==
    /\ Applying(w, "applyRead", "UNKNOWN")
    /\ res[w] \in ReadErrors
    /\ row[job[w]].errors + 1 >= 3
    /\ SetLead(job[w], "UNKNOWN_ESCALATED",
               FollowUp(row[job[w]], row[job[w]].notFound, 3, NoTime))
    /\ UNCHANGED pauseReason

(* Mutant: the category is stored for the reason.                           *)
ReadPauseCategory == [AUTH_FAILURE |-> "AUTH_FAILURE", CONFIG_FAILURE |-> "CONFIG_FAILURE"]

ReadPauseReason == [AUTH_FAILURE |-> "AUTH", CONFIG_FAILURE |-> "CONFIG"]

ApplyReadPause(w) ==
    /\ Applying(w, "applyRead", "UNKNOWN")
    /\ res[w] \in {"AUTH_FAILURE", "CONFIG_FAILURE"}
    /\ ActivatePause(ReadPauseReason[res[w]])
    /\ SetLead(job[w], "UNKNOWN", row[job[w]])

(* The lead left UNKNOWN, or SENDING below, while the worker was away: the  *)
(* transaction raises and rolls back.                                       *)
ReadLost(w) ==
    /\ pc[w] = "applyRead" /\ status[job[w]] # "UNKNOWN"
    /\ EndCycle(w)
    /\ UNCHANGED <<database, req, hubspot, bounds>>

-----------------------------------------------------------------------------
(***************************************************************************)
(* One create (deliver_one_crm_create): claim and commit, send, receive,   *)
(* classify a refusal by lookups, apply.                                   *)
(***************************************************************************)
(* Mutant: the pause does not stop a claim.                                 *)
MayClaimWhilePaused(w) == pc[w] = "claim" /\ DueUnknown(w) = {}

MayClaim(w) == pc[w] = "claim" /\ ~ Paused /\ DueUnknown(w) = {}

(* Mutant: a claimed lead keeps the time of its retry.                      *)
ClaimedStillDue(r, t) == [r EXCEPT !.attempts = @ + 1, !.lastAttemptAt = t]

ClaimedRow(r, t) ==
    [r EXCEPT !.attempts = @ + 1, !.lastAttemptAt = t, !.nextRetryAt = NoTime]

(* Mutant: the claim is not committed before the request is sent.           *)
ClaimUncommitted(w, l) ==
    /\ MayClaim(w) /\ IsFirst(l, Eligible(w), DueOrCreated)
    /\ job' = [job EXCEPT ![w] = l]
    /\ Goto(w, "send")
    /\ UNCHANGED <<database, at, res, after, req, hubspot, bounds>>

ClaimLead(w, l) ==
    /\ MayClaim(w) /\ IsFirst(l, Eligible(w), DueOrCreated)
    /\ SetLead(l, "SENDING", ClaimedRow(row[l], at[w]))
    /\ job' = [job EXCEPT ![w] = l]
    /\ Goto(w, "send")
    /\ UNCHANGED <<pauseReason, at, res, after, req, hubspot, bounds>>

NothingToClaim(w) ==
    /\ pc[w] = "claim"
    /\ Paused \/ DueUnknown(w) # {} \/ Eligible(w) = {}
    /\ EndCycle(w)
    /\ UNCHANGED <<database, req, hubspot, bounds>>

SendCreate(w) ==
    /\ pc[w] = "send"
    /\ req' = [req EXCEPT ![w] = "open"]
    /\ Goto(w, "awaitCreate")
    /\ UNCHANGED <<database, job, at, res, after, hubspot, bounds>>

AfterCreate(category) ==
    IF category \in {"BAD_REQUEST_REQUIRES_SAFE_CLASSIFICATION",
                     "CONFLICT_REQUIRES_LOOKUP"}
    THEN "classifyRef" ELSE "applyCreate"

(* The answer, or its absence, ends the exchange.  A request that was       *)
(* neither performed nor refused may still reach HubSpot.                   *)
ReceiveCreate(w) ==
    /\ pc[w] = "awaitCreate"
    /\ \E a \in Answers :
          /\ a \in (IF req[w] = "accepted" THEN CreatedAnswers ELSE NotCreatedAnswers)
          /\ res' = [res EXCEPT ![w] = ClassifyCreate(a)]
          /\ after' = [after EXCEPT ![w] = a.after]
          /\ Goto(w, AfterCreate(ClassifyCreate(a)))
          /\ orphan' = IF req[w] = "open" /\ a \in CreatedAnswers
                       THEN [orphan EXCEPT ![job[w]] = @ + 1] ELSE orphan
    /\ req' = [req EXCEPT ![w] = "none"]
    /\ UNCHANGED <<database, job, at, contact, accepted, bounds>>

Decide(w, decision) ==
    /\ res' = [res EXCEPT ![w] = decision]
    /\ Goto(w, "applyDecision")

ClassifyBadRequest(w) ==
    /\ pc[w] = "classifyRef" /\ res[w] = "BAD_REQUEST_REQUIRES_SAFE_CLASSIFICATION"
    /\ \E a \in ReferenceAnswers(job[w]) : Decide(w, BadRequestDecision(ReadEvidence(a)))
    /\ UNCHANGED <<database, job, at, after, req, hubspot, bounds>>

ClassifyConflict(w) ==
    /\ pc[w] = "classifyRef" /\ res[w] = "CONFLICT_REQUIRES_LOOKUP"
    /\ \E a \in ReferenceAnswers(job[w]) :
          LET d == ConflictDecision(ReadEvidence(a), job[w] \notin EmailLess) IN
          IF d = NeedsEmailLookup
          THEN Goto(w, "classifyEmail") /\ UNCHANGED res
          ELSE Decide(w, d)
    /\ UNCHANGED <<database, job, at, after, req, hubspot, bounds>>

(* A lookup by email finds some active Contact, whose primary email may be  *)
(* another one.                                                             *)
EmailAnswers(l) ==
    {a \in Answers :
        /\ a.kind # "notSent"
        /\ (a.kind = "response" /\ a.status = 200 /\ a.usable) =>
               l \in KnownEmails \/ contact[l] \in {"match", "mismatch"}}

ClassifyEmail(w) ==
    /\ pc[w] = "classifyEmail"
    /\ \E a \in EmailAnswers(job[w]) : Decide(w, EmailDecision(ReadEvidence(a)))
    /\ UNCHANGED <<database, job, at, after, req, hubspot, bounds>>

-----------------------------------------------------------------------------
(***************************************************************************)
(* Applying the result of a create (apply_create_result) and the decision  *)
(* that followed a refused one (_apply_deferred_decision).                 *)
(***************************************************************************)
Unscheduled(r) == [r EXCEPT !.nextRetryAt = NoTime, !.nextReconAt = NoTime]

ApplySuccess(w) ==
    /\ Applying(w, "applyCreate", "SENDING")
    /\ res[w] = "SUCCESS"
    /\ SetLead(job[w], "SUCCESS", Unscheduled(row[job[w]]))
    /\ UNCHANGED pauseReason

Retryable == {"RETRYABLE_FAILURE", "RATE_LIMITED"}

RetryTime(w, n) ==
    LaterOf(at[w] + RetryDelay[n], RetryAfterTime(after[w], at[w]))

ApplyRetry(w) ==
    LET n == row[job[w]].retries + 1 IN
    /\ Applying(w, "applyCreate", "SENDING")
    /\ res[w] \in Retryable
    /\ row[job[w]].retries < 3
    /\ SetLead(job[w], "RETRY_PENDING",
               [row[job[w]] EXCEPT !.retries = n, !.nextRetryAt = RetryTime(w, n),
                                   !.nextReconAt = NoTime])
    /\ UNCHANGED pauseReason

ApplyExhausted(w) ==
    /\ Applying(w, "applyCreate", "SENDING")
    /\ res[w] \in Retryable
    /\ row[job[w]].retries >= 3
    /\ SetLead(job[w], "FAILED_ESCALATED", Unscheduled(row[job[w]]))
    /\ UNCHANGED pauseReason

ApplyUnknown(w) ==
    /\ Applying(w, "applyCreate", "SENDING")
    /\ res[w] = "UNKNOWN"
    /\ SetLead(job[w], "UNKNOWN", FollowUp(row[job[w]], 0, 0, at[w] + ReconInitialDelay))
    /\ UNCHANGED pauseReason

ApplyPause(w) ==
    /\ Applying(w, "applyCreate", "SENDING")
    /\ res[w] \in {"AUTH_FAILURE", "CONFIG_FAILURE"}
    /\ ActivatePause(ReadPauseReason[res[w]])
    /\ SetLead(job[w], "PENDING", [row[job[w]] EXCEPT !.nextRetryAt = NoTime])

ApplyPermanentFailure(w) ==
    /\ Applying(w, "applyCreate", "SENDING")
    /\ res[w] = "UNCLASSIFIED_PERMANENT_FAILURE"
    /\ SetLead(job[w], "FAILED_ESCALATED", Unscheduled(row[job[w]]))
    /\ UNCHANGED pauseReason

DecisionPauseReason == [PAUSE_AUTH |-> "AUTH", PAUSE_CONFIG |-> "CONFIG"]

ApplyDecisionPause(w) ==
    /\ Applying(w, "applyDecision", "SENDING")
    /\ res[w] \in {"PAUSE_AUTH", "PAUSE_CONFIG"}
    /\ ActivatePause(DecisionPauseReason[res[w]])
    /\ SetLead(job[w], "PENDING", [row[job[w]] EXCEPT !.nextRetryAt = NoTime])

(* The decision's kind is the status it leads to.                           *)
ApplyDecisionTerminal(w) ==
    /\ Applying(w, "applyDecision", "SENDING")
    /\ res[w] \in {"EXISTING_CONTACT", "FAILED_ESCALATED"}
    /\ SetLead(job[w], res[w], Unscheduled(row[job[w]]))
    /\ UNCHANGED pauseReason

CreateLost(w) ==
    /\ pc[w] \in {"applyCreate", "applyDecision"} /\ status[job[w]] # "SENDING"
    /\ EndCycle(w)
    /\ UNCHANGED <<database, req, hubspot, bounds>>

-----------------------------------------------------------------------------
(***************************************************************************)
(* What happens around the workers.                                        *)
(***************************************************************************)

(* The process dies and is restarted, or an exception reaches the loop,     *)
(* anywhere in a cycle; a transaction not yet committed rolls back.         *)
Abandon(w) ==
    /\ pc[w] # "idle" /\ crashes < MaxCrashes
    /\ crashes' = crashes + 1
    /\ EndCycle(w)
    /\ orphan' = IF req[w] = "open" THEN [orphan EXCEPT ![job[w]] = @ + 1] ELSE orphan
    /\ req' = [req EXCEPT ![w] = "none"]
    /\ UNCHANGED <<database, contact, accepted, now, clears>>

(* operator.clear_crm_pause *)
ClearPause ==
    /\ Paused /\ clears < MaxClears
    /\ pauseReason' = "NONE"
    /\ clears' = clears + 1
    /\ UNCHANGED <<status, row, memory, hubspot, now, crashes>>

(* HubSpot keeps the reference and the email unique among active Contacts.  *)
Creatable(l) == contact[l] \in {"none", "archived"} /\ l \notin KnownEmails

Create(l) ==
    /\ Creatable(l)
    /\ contact' = [contact EXCEPT ![l] = "match"]
    /\ accepted' = [accepted EXCEPT ![l] = @ + 1]

HubSpotAccepts(w) ==
    /\ req[w] = "open"
    /\ Create(job[w])
    /\ req' = [req EXCEPT ![w] = "accepted"]
    /\ UNCHANGED <<database, pc, job, at, res, after, orphan, bounds>>

(* A create the worker gave up on is performed after all.                   *)
HubSpotAcceptsLate(l) ==
    /\ orphan[l] > 0
    /\ Create(l)
    /\ orphan' = [orphan EXCEPT ![l] = @ - 1]
    /\ UNCHANGED <<database, memory, bounds>>

(* People edit, archive and repair Contacts; only this system's creates     *)
(* write a lead's reference together with its email.                        *)
ContactEdit(l, from, to) ==
    /\ contact[l] = from
    /\ contact' = [contact EXCEPT ![l] = to]
    /\ UNCHANGED <<database, memory, accepted, orphan, bounds>>

ArchiveContact(l)   == ContactEdit(l, "match", "archived")
EditContact(l)      == ContactEdit(l, "match", "mismatch")
ForeignCollision(l) == ContactEdit(l, "none", "mismatch")
RepairContact(l)    == accepted[l] > 0 /\ ContactEdit(l, "mismatch", "match")

Tick ==
    /\ now < MaxClock
    /\ now' = now + 1
    /\ UNCHANGED <<database, memory, hubspot, crashes, clears>>

-----------------------------------------------------------------------------
IntakeStep(w) ==
    StartCycle(w) \/ SkipNormalization(w) \/ \E l \in Leads : InsertLead(w, l)

ReconcileStep(w) ==
    \/ NothingToReconcile(w) \/ ReadReference(w) \/ ReadLost(w)
    \/ ApplyFound(w) \/ ApplyMismatch(w) \/ ApplyReadPause(w)
    \/ ApplyNotFound(w) \/ EscalateNotFound(w)
    \/ ApplyReadError(w) \/ EscalateReadErrors(w)
    \/ \E l \in Leads : ReconcileRecover(w, l) \/ SelectUnknown(w, l)

CreateStep(w) ==
    \/ NothingToClaim(w) \/ SendCreate(w) \/ ReceiveCreate(w)
    \/ ClassifyBadRequest(w) \/ ClassifyConflict(w) \/ ClassifyEmail(w)
    \/ ApplySuccess(w) \/ ApplyRetry(w) \/ ApplyExhausted(w) \/ ApplyUnknown(w)
    \/ ApplyPause(w) \/ ApplyPermanentFailure(w)
    \/ ApplyDecisionPause(w) \/ ApplyDecisionTerminal(w) \/ CreateLost(w)
    \/ \E l \in Leads : ClaimRecover(w, l) \/ ClaimLead(w, l)

WorkerStep(w) ==
    IntakeStep(w) \/ GateClear(w) \/ GateBlocked(w) \/ ReconcileStep(w) \/ CreateStep(w)

HubSpotStep ==
    \/ \E w \in Workers : HubSpotAccepts(w)
    \/ \E l \in Leads : \/ HubSpotAcceptsLate(l) \/ ArchiveContact(l) \/ EditContact(l)
                        \/ RepairContact(l) \/ ForeignCollision(l)

Next ==
    \/ \E w \in Workers : WorkerStep(w) \/ Abandon(w)
    \/ HubSpotStep
    \/ ClearPause
    \/ Tick

Spec == Init /\ [][Next]_vars

-----------------------------------------------------------------------------
(* Every variable keeps its type: the database columns stay within their    *)
(* check constraints, whatever results are applied in whatever order.       *)
TypeOK ==
    /\ status \in [Leads -> DeliveryStatuses]
    /\ row \in [Leads -> LeadRow]
    /\ pauseReason \in {"NONE", "AUTH", "CONFIG"}
    /\ pc \in [Workers -> Pcs]
    /\ job \in [Workers -> Leads \union {NoLead}]
    /\ at \in [Workers -> Times]
    /\ res \in [Workers -> Results]
    /\ after \in [Workers -> RetryAfterHeaders]
    /\ req \in [Workers -> {"none", "open", "accepted"}]
    /\ contact \in [Leads -> {"none", "match", "mismatch", "archived"}]
    /\ accepted \in [Leads -> Nat]
    /\ orphan \in [Leads -> Nat]
    /\ now \in Nat /\ crashes \in Nat /\ clears \in Nat

CreatePcs == {"send", "awaitCreate", "classifyRef", "classifyEmail", "applyDecision",
              "applyCreate"}

Untouched(l) == accepted[l] = 0 /\ orphan[l] = 0

(* No lead ever becomes two Contacts: not after a crash between the claim   *)
(* and its result, a late acceptance, an archived Contact, an expired lease *)
(* or an operator's clearing of a pause.                                    *)
AtMostOneContact == \A l \in Leads : accepted[l] + orphan[l] <= 1

(* The recorded outcome is true of HubSpot: SUCCESS is recorded only for a  *)
(* created Contact; a lead that may be created again, that failed for good  *)
(* or that was found to exist already was never created and has no request  *)
(* under way.                                                               *)
TruthfulOutcome ==
    \A l \in Leads :
        /\ status[l] = "SUCCESS" => accepted[l] = 1
        /\ status[l] \in {"NONE", "PENDING", "RETRY_PENDING", "FAILED_ESCALATED",
                          "EXISTING_CONTACT"} => Untouched(l)

(* The retry budget: beyond its first create and three retries a lead is    *)
(* attempted again only once per pause that somebody cleared.               *)
RetryBudget ==
    \A l \in Leads : row[l].attempts <= 1 + row[l].retries + clears

(* A lead waits for a time exactly when its status needs one, so no lead is *)
(* parked in RETRY_PENDING or UNKNOWN with nothing to wake it, and none is  *)
(* woken from a status that is over.                                        *)
ScheduleMatchesStatus ==
    \A l \in Leads :
        /\ (row[l].nextRetryAt # NoTime) <=> (status[l] = "RETRY_PENDING")
        /\ (row[l].nextReconAt # NoTime) <=> (status[l] = "UNKNOWN")

(* With one replica a worker's lead is still the way it left it when it     *)
(* comes back from HubSpot, so no completed result is ever thrown away.     *)
NoResultLost ==
    \A w \in Workers :
        /\ pc[w] \in CreatePcs => status[job[w]] = "SENDING"
        /\ pc[w] \in {"readRef", "applyRead"} => status[job[w]] = "UNKNOWN"

(* With one replica at most one lead is SENDING, whatever crashed before.   *)
SingleFlight == \A k, l \in SendingLeads : k = l

(* With one replica nothing is asked of HubSpot while delivery is paused,   *)
(* and a pause can only begin where the exchange with HubSpot is over.      *)
PauseStopsDelivery ==
    Paused => \A w \in Workers : pc[w] \notin CreatePcs \union {"readRef", "applyRead"}

-----------------------------------------------------------------------------
(***************************************************************************)
(* Why the two hold for any number of workers: a lead being created has    *)
(* one worker, and what that worker is about to apply is evidence of what  *)
(* HubSpot did.                                                            *)
(***************************************************************************)
OneOwner ==
    \A w \in Workers : pc[w] \in CreatePcs =>
        /\ job[w] \in Leads
        /\ status[job[w]] \in {"SENDING", "UNKNOWN", "SUCCESS", "UNKNOWN_ESCALATED"}
        /\ \A v \in Workers : pc[v] \in CreatePcs /\ job[v] = job[w] => v = w

RequestMatchesPlace ==
    \A w \in Workers : (req[w] # "none") <=> (pc[w] = "awaitCreate")

ResultIsEvidence ==
    \A w \in Workers :
        /\ pc[w] \in {"send", "classifyRef", "classifyEmail", "applyDecision"}
               => Untouched(job[w])
        /\ req[w] = "open" => Untouched(job[w])
        /\ req[w] = "accepted" => accepted[job[w]] = 1
        /\ pc[w] = "applyCreate" =>
               /\ res[w] = "SUCCESS" => accepted[job[w]] = 1
               /\ res[w] \notin {"SUCCESS", "UNKNOWN"} => Untouched(job[w])

MatchIsCreated ==
    /\ \A l \in Leads : contact[l] = "match" => accepted[l] = 1
    /\ \A w \in Workers : pc[w] \in {"readRef", "applyRead"} =>
          /\ job[w] \in Leads
          /\ pc[w] = "applyRead" /\ res[w] = "FOUND_MATCH" => accepted[job[w]] = 1

(* The inductive invariant: with the types, these say that a create is only *)
(* sent for a lead nothing was or will be created for.                      *)
SafeDelivery ==
    /\ TypeOK /\ AtMostOneContact /\ TruthfulOutcome
    /\ OneOwner /\ RequestMatchesPlace /\ ResultIsEvidence /\ MatchIsCreated

-----------------------------------------------------------------------------
(***************************************************************************)
(* The promise CRM delivery implements.                                    *)
(***************************************************************************)
PhaseOf(s) ==
    CASE s = "NONE"                            -> "none"
      [] s \in {"PENDING", "RETRY_PENDING"}    -> "ready"
      [] s = "SENDING"                         -> "attempting"
      [] s = "UNKNOWN"                         -> "uncertain"
      [] s = "SUCCESS"                         -> "delivered"
      [] s = "EXISTING_CONTACT"                -> "existing"
      [] s = "FAILED_ESCALATED"                -> "failed"
      [] OTHER                                 -> "unresolved"

Promise == INSTANCE LeadPromise
    WITH phase <- [l \in Leads |-> PhaseOf(status[l])], effects <- accepted

(* CRM delivery implements the promise: an uncertain attempt is never       *)
(* repeated, a lead is attempted again only while it is certain that        *)
(* nothing was or will be created for it, and outcomes are final.           *)
KeepsPromise == Promise!Spec
=============================================================================
