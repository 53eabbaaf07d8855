# A TLA+ model of the CRM integration

The service under `src/` receives leads from three providers by webhook, stores each event once in
PostgreSQL, normalizes it into a lead, creates a Contact for the lead in HubSpot, and mails people about
what failed. This directory holds TLA+ modules that model it, TLC configurations that check them on small
instances, and theorems, checked by TLAPS, that hold for every value of the constants.

What can go wrong here is hardly visible in a test of one function: a create whose answer is lost and
which HubSpot performs a minute later, a worker that is killed between the claim and the result, a lease
that runs out under a running request, an operator who clears a pause between two transactions. The
models are built around these.

Paths below are relative to `src/src/project3_crm/` unless they start with `docs/` or `tests/`, which are
under `src/`.

## 1. The system

### Components

| component | code | state it keeps | operations |
|---|---|---|---|
| Webhook ingestion | `webhooks.py`, `db/webhook_events.py` | a row of `webhook_events` for each (source, event_id) | `receive_webhook`: authenticate, read the body, parse, `INSERT … ON CONFLICT DO NOTHING`, commit, answer 202 |
| Normalization | `worker.py:85-217`, `normalization/` | `event_status`, `processing_started_at`; the inserted lead | `recover_one_stale_processing`, `claim_one_received`, `normalize_webhook_event` |
| CRM delivery | `crm_delivery.py` | `delivery_status`, attempt, retry and reconciliation columns of `normalized_leads`; the pause in `integration_runtime_state` | `check_or_recover_sending`, `reconcile_one_unknown`, `claim_one_crm_create`, `deliver_one_crm_create`, `apply_create_result`, `apply_reconciliation_result`, the safe classification of a 400 or 409 |
| HubSpot adapter | `integrations/hubspot.py` | none | classification of a create's or a lookup's answer |
| Worker loop | `worker.py:220-404` | the time of the next notification check, in memory | the notification check when due, then one cycle of normalization and CRM work; startup readiness |
| Notification streams | `notifications/service.py` | `escalation_notified_at`, stream attempts and errors, `pause_alert_sent_at`, the cluster columns | CRM failure batch, normalization failure batch, pause alert, technical cluster alert |
| SMTP sender | `notifications/smtp.py` | none | `send`, and when a partial refusal or a lost answer counts as sent |
| Operator command | `operator.py` | none | `clear_crm_pause` |
| Schema, migration | `db/schema.py`, `migrations/` | check, unique and foreign key constraints | none |
| Configuration, health, logging | `config.py`, `web.py`, `logging_config.py`, `db/database.py` | none | none that change the state above |

### How they interact

Web processes and the worker share nothing but the database. A stored event is the message from one to
the other; a lead with `delivery_status = 'PENDING'` is the message from normalization to CRM delivery.
Both happen in the same worker loop, in one cycle after the other: one stale event recovered, one event
claimed and normalized, one UNKNOWN lead reconciled or else one lead created. All decisions of a cycle use
the time read at its start (`worker.py:235`). CRM delivery calls HubSpot outside of any transaction,
and writes what it learnt in a transaction whose `WHERE` clause repeats the status it expects. An access
or configuration failure sets the pause; only the operator clears it. The notification streams read the
escalated rows and the pause, and mark what they mailed.

### What is hard

* **Lost and late answers.** A create has no idempotency key. A lost answer, a 5xx or a 2xx without
  an id says nothing, and the request may be performed after the worker stopped waiting.
* **Crashes and restarts** between any two transactions, between a commit and the request it announces, and
  between the request and the commit of its result.
* **Leases.** PROCESSING events and SENDING leads are recovered by age. The age is that of a cycle's start.
* **Lookups that lag or fail.** A 404 is not proof of absence; a lookup can itself fail in every way.
* **Two locks, read in sequence.** The SENDING gate is read before the runtime row is locked
  (`crm_delivery.py:109-115`, `:675-693`): the deployment's single replica hides what that permits.
* **Repeated and simultaneous deliveries** of one event, with different payloads.
* **Counters at their limits**: three retries, three absences, three read errors, and what resets them.
* **Progress**: one SENDING lead stops all CRM work, one due UNKNOWN lead stops all creates, and an event whose
  conversion raises comes back before younger ones.
* **Messages outside transactions.** Rows are selected, mailed and marked in three steps. A message may reach some
  addressees only, or all and still be reported as failed; pauses and failures change while it is on its way.
* **Schedules in two places.** When a stream is due is in the database and survives a crash; when the next check
  is due is in memory and does not.

### What makes each component correct

* *Ingestion*: an acknowledged event is stored, and only one delivery of it is called new.
* *Normalization*: an event becomes one lead or one recorded failure, finally; a conversion that ran to its
  end is not run again; every acknowledged event finishes.
* *CRM delivery*: no lead becomes two Contacts; the recorded outcome is true of HubSpot; a lead is attempted
  again only while it is certain that nothing was or will be created for it; retries stay within their
  budget; no completed result is lost; nothing is asked of HubSpot while paused; every lead settles.
* *Adapter*: only definite evidence is classified as definite.
* *Notifications*: what is marked as notified was mailed to all; each failure is mailed at least once, the oldest
  first, never before its delay and never again once recorded; a stream that fails holds up no other; an alert belongs to the
  pause it was prepared for, and is recorded once it was heard; an episode stays whole, and its failures are neither forgotten nor counted twice.
* *SMTP sender*: success means that every addressee has the message, and each exception is handled by its own clause.
* *Worker loop*: checks keep their delay, and exceptions starve nothing.

## 2. Modules

| module | role |
|---|---|
| `HubSpotAdapter` | what the adapter makes of an answer, what a lookup proves, the decision after a refused create, Retry-After arithmetic: pure operators |
| `CrmDelivery` | the worker's cycle from normalization to the applied result, HubSpot, people who edit Contacts, the operator, time |
| `LeadPromise` | what CRM delivery promises for a lead, without workers, clocks, pauses or requests |
| `EventPipeline` | webhook requests, the event table, recovery, claim and normalization |
| `IntakePromise` | what the intake promises of an event |
| `SmtpSender` | every end of an SMTP exchange, what the sender reports of it and who has the message: pure operators |
| `FailureBatches` | the two batch streams: schedule, selection, message, record |
| `NoticePromise` | what the batch streams promise of a failure that people must hear of |
| `PauseAlert` | the alert of a pause, at once and at every check, against the operator |
| `ClusterAlert` | the rolling window of technical failures and the episodes frozen from it |
| `WorkerLoop` | the loop itself: checks, cycles, their exceptions, and whose turn it is |
| `MCCrmDelivery`, `MCEventPipeline`, `MCFailureBatches`, `MCPauseAlert`, `MCClusterAlert` | values for TLC, the fair specifications and the properties that need them, statements of the documents |
| `CrmDeliveryProofs`, `CrmSafetyProofs`, `EventPipelineProofs`, `SmtpSenderProofs`, `FailureBatchProofs`, `PauseAlertProofs`, `ClusterAlertProofs`, `WorkerLoopProofs` | theorems, see section 4 |

`CrmDelivery` extends `HubSpotAdapter` and instantiates `LeadPromise`; `EventPipeline` instantiates
`IntakePromise`; the three notification modules extend `SmtpSender`, and `FailureBatches` instantiates `NoticePromise`.
The components meet in the database, and each module has its own view of the rows it shares with another:

* the insertion of a lead is `EventPipeline!Normalize` in full and `CrmDelivery!InsertLead` as CRM delivery sees it;
* a pause is activated by `CrmDelivery!ActivatePause` and, with the alert columns it resets, by
  `PauseAlert!ActivatePause`; it is cleared by `ClearPause` of both;
* the failures of the other two components leave rows behind for the streams: an escalated lead
  (`ApplyExhausted`, `ApplyPermanentFailure`, … of `CrmDelivery`) is `FailureBatches!FailLead`, a refused event
  (`EventPipeline!FailNormalization`) is `FailureBatches!FailEvent`, and a technical failure of a lead is
  `ClusterAlert!FailTechnically`.

An operator whose comment starts with *Mutant:* is a plausible mistake in the definition that follows it.
None is used by a specification. Substituted for that definition, each makes the property it belongs to
fail, which shows that the property depends on that line of the code.

### CrmDelivery

State. `status` and `row` are the columns of `normalized_leads` that steer delivery; `"NONE"` is a lead that is
not in the table yet. `pauseReason` stands for the pause (the check constraint `pause_state_consistent` ties the
two). Per worker: `pc` its place in the cycle, `job` the lead it holds in memory, `at` the frozen time of the
cycle, `res` and `after` the answer it is about to apply, `req` the request under way. Of HubSpot: `contact`, what
carries the lead's reference; `accepted`, how many creates were performed for it; `orphan`, how many
transmitted creates nobody waits for any more and that may still be performed.

Actions. One transaction is one action. The exception is the SENDING gate: it is read before the runtime row
is locked, so the gate (`GateClear`, `GateBlocked`, `ReconcileRecover`, `ClaimRecover`) and what follows it (`SelectUnknown`,
`ClaimLead`, …) are two actions, between which another worker or the operator may act. An HTTP exchange is a send
(`SendCreate`), what HubSpot does (`HubSpotAccepts`) and the answer (`ReceiveCreate`); a lookup changes nothing
in HubSpot and is one action. `Abandon` is the death of the process or an exception that reaches the loop, at
any place. Error texts, correlation ids and the timestamps no decision of delivery reads (`sent_at`,
`first_failure_at` and the columns of the notification streams) are left out; `updated_at` likewise.

What the code trusts HubSpot with is stated in `CreatedAnswers`, `NotCreatedAnswers`, `ReferenceAnswers`, `EmailAnswers`,
`Creatable` and `ContactEdit`: a performed create is not answered by a 4xx or a failure to connect, an
unperformed one is not confirmed with an id; a usable lookup that returns a Contact tells the truth, a 404 may
lag behind; reference and email are unique among active Contacts; a Contact that carries both a lead's
reference and its identity was created by this system. The first of these is the strongest: the code
relies on it when it sends a rate-limited lead again.

### EventPipeline

State. `event` is `webhook_events` by key, `lead` and `nextId` the lead table and its sequence, `request` the webhook
requests under way, `pc`, `job`, `at` the worker. `fresh`, `acked` and `tries` record what the provider was told
and how many conversions ran to an end.

Actions. A request's transaction is an insert and a commit, because a second insert of the same key waits
between them (`InsertMayProceed` is the unique constraint). A worker's transactions are one action each:
normalization takes the row lock first and does everything under it. A payload is *valid*, *invalid* (a
`NormalizationFailure`) or *raises* (another exception leaves the conversion). The branches of `recover_one_stale_processing`
and `normalize_webhook_event` for an event that has a lead but is still PROCESSING are modelled, and no
behaviour reaches them: lead and status are written in one transaction (`NothingToRepair` in
`EventPipelineProofs` proves it). They are a safeguard.

A worker that waits for a row which another worker changes is served the changed row, finds that it does not
satisfy the condition any more, and goes on as if there were nothing to do, where the model's worker takes the next row. It
takes two workers and two rows to tell the difference, and the worker has the next row in its next cycle.

### SmtpSender

An attempt (`Attempts`) is one call of `send` by what smtplib did: not begun (STARTTLS is off, or the message cannot
be built), answered with a set of refused recipients, or raised. `taken` is the set of recipients the server
took the message for. The sender cannot see it: after a lost connection any of them may have the message.
`Lineage` is the class hierarchy of smtplib, ssl and socket exceptions, `Clauses` the except clauses of
`send` in their order, `Handler` the one Python runs. `Send` is the reported category. `Deliveries` is all that a
notification stream can tell apart: was it reported as sent, and who has it. The three notification modules take every
element of it at every message, so partial refusals, failures after delivery and plain losses are all there.

### FailureBatches

State. `failedAt` is `failure_at` of a lead or `completed_at` of an event, `notified` the rows whose `escalation_notified_at` is set,
`schedule` each stream's three columns of `integration_runtime_state`. Per worker: `place`, its place in the check or in the
cycle after it, `stream`, the frozen time `at` of the check or cycle, the `batch` it holds, the result `sent`, and `nextCheck`,
which only lives in memory. `copies` and `lastTry` record what people had and when.

Actions. The code has one function per stream; they differ in tables and columns only, and are one set of
actions with the stream as a parameter. An iteration is a check, or none (`SkipCheck`), and then a cycle (`StartCycle`), in which an event
and after it a lead may fail. A lead's failure is dated by the start of its cycle (`FailLead`), as the code does, an event's by a time that normalization
reads before its transaction (`FailEvent`): both may be earlier than the moment they are committed. `SelectBatch` is the first transaction (due, oldest rows up to the
limit, attempt time), `SendBatch` the message outside any transaction, `RecordSent` and `RecordFailed` the second one. `EmptyBatch`
writes the success time although nothing was sent, as the code does. `OperationRaises` is caught by
`run_notification_check`, which goes on with the next stream; `Crash` forgets the batch and the timer.

### PauseAlert

State. `pause` is reason and `paused_at`, `alertSent` and `alertError` the alert columns. `paused_at` serves as the identity of a
pause and nothing else, and two pauses never share it, as two cycles do not share their time; it is the number of the activation.
Per worker: `place`, the pause it `captured`, `sent`, `untilCheck`.

Actions. `ActivatePause` leads straight into the alert, as `run_worker_cycle` calls it; `StartCheck` leads there every
delay. `CapturePause` reads, `SendAlert` mails, `RecordAlert` writes if the pause is still the captured one, `StalePause` does not.
`ClearPause` may come anywhere, followed by a new pause for the same reason.

### ClusterAlert

State. `lastFailure`, `pendingAt`, `alertedAt` are the three columns of a lead; per worker the rows and the time of the
episode it mails. `frozen` and `told` record which failures were put into which episode, and which
leads were in a message that every addressee had.

Actions. `SelectCluster` reads the qualifying rows, `FreezeEpisode` updates them with the time of the check in a second
statement without having locked them, `TakePending` finds an episode left over from earlier. `SendAlert`, then `RecordAlert`, which writes the
episode's time and not the current one, or `KeepEpisode`. Reading the clock takes a tick, so no
two readings are the same.

### WorkerLoop

State. The status, age and order of arrival of events, the place in the loop, the operation of the check
that is next, and the timer. The phases are reduced to what the loop sees of them: idle, useful or raised.
An event in `Poison` is one whose conversion raises (the third payload of `EventPipeline`). One iteration is the unit of time.

## 3. Runs

All bounds are constants of the modules: `MaxClock` (the last tick), `MaxCrashes` or `MaxFaults`, `MaxClears`, `MaxPauses`.

`CHECK_DEADLOCK FALSE` stands in most configurations because at the last tick, with crashes spent, a worker
may be left with nothing but idle cycles, and the fair specifications stop the clock on purpose.

| run | instance | checks | shows |
|---|---|---|---|
| `overlap` | 1 lead, 2 workers, a status of every category, Retry-After, 1 cleared pause, 3 instants | `TypeOK`, `AtMostOneContact`, `TruthfulOutcome`, `RetryBudget`, `ScheduleMatchesStatus`, `KeepsPromise` | none of this needs the single replica: workers overlap, stop and are recovered, HubSpot accepts late, and `LeadPromise` is implemented |
| `pair` | 2 leads, 1 worker, a status of every category, one email known to HubSpot, 1 crash, time without end, fair | `NoResultLost`, `SingleFlight`, `PauseStopsDelivery`, `EveryLeadSettles` | what one replica adds, and that each lead reaches an outcome, or a pause, in whatever order retries, absences and read errors come and though it shares the worker with another |
| `retry_after` | 1 lead, 1 worker | `RetryAfterRespected` | violated, see below |
| `mismatch` | 1 lead, 1 worker | `CompletedReadResetsErrors` | violated, see below |
| `intake_single` | 2 events, 1 request, 1 worker, 1 crash, fair | `TypeOK`, `ConvertedOnce`, `EveryEventFinishes` | no conversion is repeated after it ended, and every acknowledged event finishes |
| `intake_overlap` | 1 event, 2 requests, 2 workers, any payload | `AcceptedOnce`, `OneLeadPerEvent`, `KeepsPromise` | simultaneous deliveries and overlapping workers: stored once, called new once, one lead, `IntakePromise` implemented |
| `intake_repeated` | 1 event whose conversion may raise | `ConvertedOnce` | violated, see below |
| `batches` | 1 lead, 2 events, batches of one, 1 worker, 1 fault, time without end, fair | `TypeOK`, `ReportedTruly`, `HandledByItsClause`, `NotifiedWasMailed`, `OldestFirst`, `TriesApart`, `KeepsPromise`, `EveryFailureMailed` | the sender's categories; every failure is mailed to all, in order, not too often, and a stream does not wait for the other |
| `batches_empty` | the same, clock bounded | `DueBeforeFirstBatch` | violated, see below |
| `pause` | 2 workers, 2 pauses, 1 fault, fair | `TypeOK`, `AlertBelongsToPause`, `HeardIsRecorded`, `EveryPauseAlerted` | an alert never counts for another pause, what was heard is recorded, and no pause goes unannounced |
| `cluster` | 3 leads, 1 worker, threshold 2, window 6, checks every 3, 1 fault, fair | `TypeOK`, `AlertedWasMailed`, `EpisodeIntact`, `NothingSwallowed`, `CountedOnce`, `EveryEpisodeAlerted`, `ClusterInTime` | an episode stays whole until it is mailed, no failure is lost or counted twice, and which clusters are certain to be seen, the later ones included |
| `loop` | 3 events, 2 of them poisonous, lease 2, delay 2, 1 fault, fair | `TypeOK`, `ChecksApart`, `EveryOperationRuns`, `OthersGetTheirTurn` | exceptions starve neither a notification operation, nor younger events, nor CRM work |

### Why the bounds are enough

*CRM delivery.* All delays and leases are one tick, so that every deadline is reached and passed within the
clock; what the code compares is the order of times, not their length. A lead interacts with
another one only through the SENDING gate, the priority of due UNKNOWN leads, the order of the claim and
the pause: two leads are enough for each of them, and one for everything that is about a lead and its Contact. Two
workers are enough for a lease to expire under a request. `overlap` has no crash of its own and needs none: a
worker that takes no further step is one that died, the other recovers its lead, and the
specification without fairness has those behaviours. In `pair` time does not end: at the last tick all times move into the past
instead (`Age`), which no comparison of the code notices, since delays are one tick and the clock reaches two. So every create may be answered in
every way up to its fourth failure, every lookup too, and read errors and absences may follow one another in any order, with each other's counters reset as
the code does: a lead ends as a success, an existing Contact, a failure, or escalated after three absences or three errors. One email is in HubSpot before and
one is not, so that both sides of a conflict occur. Edits of Contacts are left to `overlap` and `mismatch`, and a clear of the pause between the two
transactions of a step to `overlap` and to the theorem `PauseHolds`, which has any number of them.

*Intake.* Two requests for one key meet at the unique constraint, two workers at the lease; two events
are enough for an order among them.

*Batches.* With batches of one, the two events need two batches, and `OldestFirst` has something to choose. `Interval` is
longer than `Retry`, which is all the code distinguishes. In `batches` time does not end: no decision tells distances
beyond the longest delay apart, so at the last tick all times move into the past instead (`Age`). Time passes during cycles, whose failures
are dated earlier than they are stored. The one worker reads the clock at the beginning of a check and does nothing else during it, so that
time that passes during a check is the same as time that passes after it (`LiveTick`). The number of reply codes does not change the state space, because a
stream does not see them: one temporary and one permanent code are enough.

*Pause alert.* Two workers and two pauses: one is captured, the other is active. Times are kept as distances, so the run has no end of time.

*Cluster.* Three leads and a threshold of two leave a lead that fails while the other two are an episode. The
window is two delays between checks, as by default (600 and 300 seconds). The clock stops at 9, one and a half windows;
the timers of checks go on, so that what was frozen is mailed.

*Loop.* Two poisonous events and a lease of two iterations are the boundary: the ones that come back do not
fill every iteration. With more of them than iterations in a lease `OthersGetTheirTurn` is false, see below.

The theorems of section 4 fix none of these numbers.

### One replica or several

`docs/10_deployment.md` promises one worker. `NoResultLost`, `SingleFlight`, `PauseStopsDelivery`, `ConvertedOnce`,
`TriesApart`, `OldestFirst` and `KeepsPromise` of `FailureBatches`, `EpisodeIntact`, `NothingSwallowed` and `CountedOnce` are stated for that worker and
are false with two. `OldestFirst` is among them because a lead's failure carries the time its cycle began: a second replica may mail and mark a younger
failure before the first one commits it.
The others hold for any number, and are checked or proved so: no second Contact, true outcomes, one lead per
event, schedules that match the status, bounded retries, and what is marked as notified or alerted was mailed. So a second replica, started by mistake, can mail
twice, early or out of order and forget a technical failure whose time is older than an episode's; it can not lose a lead or make it two Contacts.

### Fairness

* Steps of a worker are weakly fair: calls have timeouts, the loop catches exceptions and goes on, a dead
  container is restarted. Nothing is assumed of crashes, exceptions, providers, people or the order of answers.
* Time passes. In `MCEventPipeline` the clock is bounded, and waits while there is work that is due (`LazyTick`): it would
  otherwise run out under waiting work, which the real clock does not do. In `MCCrmDelivery` it has no end, and passes between cycles while
  nothing is due and some lead waits; it is strongly fair, as cycles interrupt it again and again. Cycles that find nothing to do are left out
  there (`LazyStep`): they change nothing. A worker slower than its delays is covered by the safety runs, whose clock runs freely. `MCClusterAlert` lets a due check begin before the next tick (`Prompt`):
  ticks are minutes there, and cycles take seconds.
* The notification runs assume that a message which can be accepted again and again is accepted at last
  (strong fairness of an accepted delivery). Without it nothing would ever be mailed. In `batches` this is assumed of messages
  to Automation only: failed events are mailed although every message about leads may fail for ever.
* CRM runs assume nothing of HubSpot: a lead whose lookups always fail is escalated.

### What the code does otherwise than its documents

* `retry_after`: Retry-After is counted from the start of the cycle, before normalization and the exchange with
  HubSpot, so the next attempt may come earlier than asked (`worker.py:244`, `docs/06_worker_and_retries.md:128`).
* `mismatch`: a lookup that finds a Contact of another identity leaves `reconciliation_error_count` as it was
  (`crm_delivery.py:828`, `docs/02_database.md:223`); the escalation at the third error can count errors on both
  sides of it. `tests/test_crm_delivery.py:1515-1551` expects what the code does, so that one of the two has to give way.
* `intake_repeated`: a timestamp such as `0001-01-01T00:00:00+05:00` makes `astimezone(UTC)` raise `OverflowError`
  (`normalization/models.py:32`), which is not turned into a `NormalizationFailure`. The event stays PROCESSING
  and its conversion is repeated after each lease (`docs/05_normalization.md`).
* `batches_empty`: a due check that finds nothing to mail sets the stream's success time, so that the first failure
  after it waits for the batch interval although there was no batch before (`notifications/service.py:217`,
  `docs/08_notifications.md:110`). `tests/test_notification_service.py:580-586` and `:650-662` expect what the code does.

Further observations that the models make precise, and that no run states as a violation:

* A message that the server takes for some recipients and refuses for others counts as failed
  (`notifications/smtp.py:229`). The batch is mailed again to all, at every retry delay, as long as one address is
  refused; `NoticePromise!Tell` allows exactly this.
* "5 distinct normalized leads within rolling 10 minutes" is sampled at the checks, over a window that ends at the check.
  Failures that are within the window of each other, but not of the next check, are no cluster, and nothing is sampled while an episode is pending, so
  that a cluster which arises meanwhile may be gone by the time it is mailed. `ClusterInTime` states what is certain: whenever no episode is
  pending, any threshold of leads that failed since their last alert, no longer ago than the window less one delay between checks and a tick, become an
  episode together, however many episodes there were before.
* Events whose conversion raises are recovered before younger ones are claimed, one in each cycle, and end that cycle before CRM
  work. With more of them than cycles in a lease, younger events and CRM work wait for ever.

## 4. Theorems

Assumptions are those the modules name: natural numbers for times and bounds, leases, delays, window, threshold and batch
limit positive as in `config.py`, reply codes and statuses that are numbers. Leads, events, requests and
workers are arbitrary sets of any size; the clock, crashes, cleared pauses and faults are bounded by
arbitrary numbers. Where a theorem needs one worker, it says `ASSUME \A v, w \in Workers : v = w`.

### CRM delivery

* `Types` (`CrmDeliveryProofs`): `Spec => []TypeOK`. `TypeOK` says nothing of a held lead being a lead or of the result fitting
  the place where it is applied, which an application of it needs, so the invariant is strengthened with the
  facts about places that `TypesInv` names.
* `ScheduleTrue` (`ScheduleMatchesStatus`) and `BudgetHolds` (`RetryBudget`), for any number of overlapping workers, from the
  inductive invariant `Booked`. `RetryBudget` alone is not inductive: it bounds the attempts of a lead after its claim, so a lead that
  may still be claimed has to be one attempt below the bound (`BudgetKept`), except while the pause that put it back
  has not been cleared, whose clearing is what pays for the attempt (`Pending`). `Accounted` is what a transaction may do to the counters,
  and each of the transactions is shown to be one of its four cases.
* `OneSending` (`SingleFlight`), `ResultsApply` (`NoResultLost`) and `PauseHolds` (`PauseStopsDelivery`), with the hypothesis `OneReplica`, that the
  workers are one. The inductive invariant `OneInFlight` joins the three with `GateHeld`: from the gate to the claim no lead is SENDING, although
  gate, lookup and claim are transactions of their own. Each of the three needs the other two: a result would be lost if a second
  lead were in flight, a pause would find a create under way if a lead were claimed beside it.
* `NeverTwice` and `OutcomesAreTrue` (`CrmSafetyProofs`): `Spec => []AtMostOneContact`, `Spec => []TruthfulOutcome`. Neither is inductive: a worker
  in memory may hold a lead which it is about to create, or a result that allows a resend. `SafeDelivery` adds
  what makes it safe:
  - `OneOwner`: a lead being created is held by one worker, and its status cannot return to one that may be
    claimed. This is the heart of it: recovery leads from SENDING to UNKNOWN, and nothing leads from UNKNOWN to
    PENDING or RETRY_PENDING.
  - `RequestMatchesPlace`: a request is under way exactly while its worker waits for it.
  - `ResultIsEvidence`: a lead that is being sent or classified was not created and has no request under way, and a
    result about to be applied says so of HubSpot truly.
  - `MatchIsCreated`: a matching Contact was created by this system, once.

  The proof has one lemma for each action or group of actions that touches the same variables, joined in
  `SafeStep`; `SafeAlways` is the temporal step.
* `Implements` (`CrmSafetyProofs`): `Spec => KeepsPromise`, the refinement of `LeadPromise`, on the same invariant. A step writes
  neither `status` nor `accepted` (`StutterKept`), or moves one lead's status (`MoveKept`), or performs one create (`EffectKept`).
  That a refusal is final needs `ResultIsEvidence`; that a create is performed only for a lead that is being attempted or
  whose attempt is uncertain needs `OneOwner` and `TruthfulOutcome`.

### Intake (`EventPipelineProofs`)

`Types`, `Accepted` (`AcceptedOnce`), `OneLead` (`OneLeadPerEvent`) and `Implements` (`KeepsPromise`), for any number of requests and workers.
The inductive invariant `Inv` says of requests: of those with one key, at most one has inserted it, and only while
it is not stored (`InsertsAlone`); one that is about to answer is about a stored event (`AnswersStored`); at most one has "new"
to answer, and nobody was told so before (`NewOnce`). It says of an event that it is blank or has a payload
(`StoredOrBlank`), and of a converting worker that it has one (`HasJob`). `OneLeadPerEvent` needs no strengthening beyond types, because
lead and status are written together under the row's lock, whatever the worker remembered.

`ConvertsOneTime` (`ConvertedOnce`) has two hypotheses: one replica, and no payload whose conversion raises something other than a
`NormalizationFailure`. The second is what the run `intake_repeated` shows to be necessary. The inductive
invariant is `Inv` with `Once`: an event that may be converted has not been (`Counted`), and the event a worker converts is still
the one it claimed (`StillClaimed`), since only that worker could have recovered it, and does so between two conversions.

### Notifications

* `SuccessMeansDelivery` (`SmtpSenderProofs`): no attempt is reported as something else than what the addressees have, for any reply
  codes; `ReportsAreTrue` (`FailureBatchProofs`) is the same of each message of a stream (`ReportedTruly`). `DeliveryForm`, that what a stream is told is sent was
  taken for all addressees, is what the other three modules use of the sender.
* `NoClauseHidesAnother` (`SmtpSenderProofs`): the set `Misclassified` of exceptions that a clause takes from one nearer to their class is
  empty, by the order of the clauses and the lineage of each class; `ClausesAreOrdered` (`FailureBatchProofs`) is the same of each message of a
  stream (`HandledByItsClause`).
* `Types`, `NotifiedMailed`, `Implements` (`FailureBatchProofs`). `NotifiedWasMailed` is not inductive, as a worker that is about to
  record a batch has to have mailed it; `Mailed` adds that the batch in memory is of the stream in hand and, if the result is "sent", that
  each of its items was delivered to all its addressees. `Implements` is the refinement of `NoticePromise` and needs one worker: two may
  select the same rows, and the second message follows the record of the first (`OneWorker`).
* `OldestGoFirst` (`OldestFirst`), for one worker and any batch limit, from `InOrder`. What is older than a marked failure is marked
  (`NotifiedFirst`), and what is older than a failure in a worker's batch is marked or in the same batch (`BatchFirst`). A new failure is not dated by the clock but
  by its cycle, so it has to be shown not older than anything marked: the one worker marks nothing between the start of a cycle and its end, and no
  failure of a stream that is stored by then is dated later than the failure the cycle may still store (`CycleFollows`, `DatedBy`). With a second worker this is false.
* `MessagesApart` (`TriesApart`), for one worker, any delays and any number of crashes, from `Spaced`. A worker's memory says nothing
  after a restart, so the invariant ties the columns to the last message: the time at which a stream is due (`DueFrom`) is never before the last
  message's delay is over (`Settled`). It holds because the attempt is recorded before the message (`UnderWay`), and because an attempt is later
  than the success before it, so that the columns say "incomplete" until the result is recorded.
* `Types`, `AlertBelongs` (`PauseAlertProofs`): `AlertBelongsToPause` for any number of workers. `ResultOfCaptured` ties the result in a
  worker's memory to the pause it captured, not to the one that is active; `SamePause` does the rest.
* `HeardRecorded` (`HeardIsRecorded`), for any number of workers, from `Heard`: an active pause whose alert is not recorded was in no message, unless one
  failed, a fault happened, or a worker is about to record it (`Awaited`). That a new pause was in no message is `Known`: messages are
  about pauses that were activated before. From it follows `AlertsOnce` for one worker, which has no run of its own: nobody has a second message
  about a pause unless a message about it failed or a fault happened (`RepeatedAfterFaultOnly`). Two workers can read one pause at once and both mail it.
* `Types`, `AlertedMailed` (`ClusterAlertProofs`) for any number of workers: a worker about to record a success has told of exactly its episode
  and rows. `StaysWhole` (`EpisodeIntact`), `NoneSwallowed` (`NothingSwallowed`) and `NoneTwice` (`CountedOnce`) for one worker, from one invariant
  `OneWorker`: the clock is ahead of all times read (`Clock`, `ReadsClock`), the worker in hand holds the pending episode and nothing
  else (`HoldsEpisode`), the last failure of a pending lead is in its episode or newer than it (`FrozenOrNewer`), and a frozen
  failure that is still its lead's last is pending or was alerted (`PendingOrAlerted`). That two readings of the clock differ is what the
  comparison of a failure's time with an alert's rests on.

### Worker loop (`WorkerLoopProofs`)

`Types` (`TypeOK`) and `ApartInOneProcess` (`ChecksApart`, an action property). The inductive invariant adds `DelayKept`: outside of a check, what is left
until the next one and what has passed since the last one began make up the delay, since no other step moves one of the two counters without
the other. After a restart both start as if a delay had passed, which is why the property is of one process.

### What is only model-checked

Every invariant, action property and refinement that a passing run checks is a theorem of its module's `Spec`. A run of
`LiveSpec` adds fairness to that `Spec` and narrows when time passes, so the theorems cover its steps too; only the `Age` of `MCFailureBatches` and
`MCCrmDelivery`, which lets TLC's bounded clock go on for ever by moving all times back, is not a step of `Spec`. The clock of `Spec` needs none, as its bound is arbitrary there.

The liveness properties (`EveryLeadSettles`, `EveryEventFinishes`, `EveryFailureMailed`, `EveryPauseAlerted`, `EveryEpisodeAlerted`, `ClusterInTime`,
`EveryOperationRuns`, `OthersGetTheirTurn`) rest on fairness, which is out of the prover's reach, and hold for the instances of section 3.
The properties of the runs that expect a violation are false, and have no theorem.

## 5. Not modelled

* Authentication, body limits and JSON parsing: they refuse a request before any state changes.
* The mapping of provider fields, trimming and phone or email formats: data no decision of the state machines
  reads. Of conversion only its outcome is modelled.
* The texts of messages, their subjects and the formatting of times. Their addressees are in `SmtpSender`.
* The startup checks of the worker (HubSpot properties, SMTP settings), stop requests and sleeps: no state of the
  database changes there. A restart is an action.
* Configuration loading, health endpoints, logging, migrations' DDL: no behaviour of their own. The bounds of
  `config.py` are assumptions of the modules.
* Database outages are not an action of their own: a transaction that fails is a cycle cut short (`Abandon`), an operation
  that raises, or a request that is lost (`LoseRequest`), each after a rollback.
* A commit whose acknowledgement is lost is the same as a crash right after it, which `Abandon` and `Crash` cover.
* A missing singleton row of `integration_runtime_state`, which the migration inserts and nothing deletes: its
  exceptions are exceptions like any other.
* One composition of everything: the components share rows, and each module leaves the others' columns alone.
  Their product is beyond TLC, and what they rely on of each other is listed in section 2.

## 6. Plan

Done: all modules of section 2 with their runs, and the theorems of section 4.

Next, in this order:

1. Abstract specifications of the two alerts, as `NoticePromise` is one of the batches, and theorems that `PauseAlert` and `ClusterAlert` implement them.
2. The decision of the webhook endpoint before its transaction, and the adapters' choice between a valid and an
   invalid payload, as operators checked against the documents' tables.
3. `ClusterAlert` and `FailureBatches` with failures taken from `CrmDelivery` itself, on an instance small enough for both.
