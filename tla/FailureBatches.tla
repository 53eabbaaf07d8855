---------------------------- MODULE FailureBatches ----------------------------
(***************************************************************************)
(* The two batch streams of notifications/service.py: escalated leads are  *)
(* mailed to Ops and Automation, failed events to Automation.  A stream    *)
(* has its own schedule in integration_runtime_state; a batch is selected  *)
(* in one transaction, mailed outside of any, and recorded in a second     *)
(* one.  The two functions of the code are the same but for their tables   *)
(* and columns, so they are one set of actions here, for a stream.         *)
(*                                                                         *)
(* An iteration of the worker's loop is a notification check, when the     *)
(* time of the next one in its memory has come, and then a cycle, in which *)
(* an event and after it a lead may fail (worker.py).                      *)
(***************************************************************************)
EXTENDS SmtpSender, FiniteSets

CONSTANTS
    Items,       \* leads and events that may fail
    StreamOf,    \* the stream each belongs to
    Workers,     \* worker replicas
    Interval,    \* notification_batch_interval_seconds
    Retry,       \* notification_failure_retry_seconds
    MaxItems,    \* notification_batch_max_items
    MaxClock,    \* bound: the clock stops here
    MaxFaults    \* bound: crashes and exceptions

Streams == {"crm", "normalization"}

ASSUME ItemsAssumption == StreamOf \in [Items -> Streams]
ASSUME SettingsAssumption ==
    Interval \in Nat \ {0} /\ Retry \in Nat \ {0} /\ MaxItems \in Nat \ {0}
ASSUME BoundsAssumption == MaxClock \in Nat /\ MaxFaults \in Nat

VARIABLES
    failedAt,    \* failure_at of a lead, completed_at of an event, NoTime before it failed
    notified,    \* items whose escalation_notified_at is set
    schedule,    \* the stream columns of integration_runtime_state
    place, stream, at, batch, sent,   \* a worker in its check or cycle
    nextCheck,   \* next_notification_check_monotonic
    copies,      \* messages each person had about each item, Many standing for two or more
    lastTry,     \* the last message of each stream: its check, and if that recorded it as sent
    now, faults

data   == <<failedAt, notified, schedule>>
worker == <<place, stream, at, batch, sent, nextCheck>>
past   == <<copies, lastTry>>
vars   == <<failedAt, notified, schedule, place, stream, at, batch, sent, nextCheck,
            copies, lastTry, now, faults>>

-----------------------------------------------------------------------------
NoTime == -1
Times == Nat \union {NoTime}
People == {"ops", "automation"}
Many == 2

(* What a delivery may be, for each stream.                                 *)
StreamDeliveries == [s \in Streams |-> Deliveries(Addressees[s])]

Audience == [i \in Items |-> Addressees[StreamOf[i]]]

Init ==
    /\ failedAt = [i \in Items |-> NoTime]
    /\ notified = {}
    /\ schedule = [s \in Streams |-> [attemptAt |-> NoTime, successAt |-> NoTime,
                                      error |-> FALSE]]
    /\ place = [w \in Workers |-> "idle"]
    /\ stream = [w \in Workers |-> "crm"]
    /\ at = [w \in Workers |-> NoTime]
    /\ batch = [w \in Workers |-> {}]
    /\ sent = [w \in Workers |-> FALSE]
    /\ nextCheck = [w \in Workers |-> 0]
    /\ copies = [i \in Items |-> [p \in People |-> 0]]
    /\ lastTry = [s \in Streams |-> [at |-> NoTime, recorded |-> FALSE]]
    /\ now = 0 /\ faults = 0

CheckPlaces == {"select", "send", "record"}

Failed(i) == failedAt[i] # NoTime

Unsent(s) == {i \in Items : StreamOf[i] = s /\ Failed(i) /\ i \notin notified}

-----------------------------------------------------------------------------
Return(w) ==
    /\ place' = [place EXCEPT ![w] = "idle"]
    /\ at' = [at EXCEPT ![w] = NoTime]
    /\ UNCHANGED <<stream, batch, sent, nextCheck>>

SkipCheck(w) ==
    /\ place[w] = "idle" /\ now < nextCheck[w]
    /\ place' = [place EXCEPT ![w] = "ready"]
    /\ UNCHANGED <<data, stream, at, batch, sent, nextCheck, past, now, faults>>

(* The cycle's time is read once, before its work.                          *)
StartCycle(w) ==
    /\ place[w] = "ready"
    /\ place' = [place EXCEPT ![w] = "cycle"]
    /\ at' = [at EXCEPT ![w] = now]
    /\ UNCHANGED <<data, stream, batch, sent, nextCheck, past, now, faults>>

(* The event of the cycle is refused for good.  Normalization reads a time  *)
(* of its own before the transaction that stores it.                        *)
FailEvent(w, i) ==
    /\ place[w] = "cycle" /\ StreamOf[i] = "normalization" /\ ~ Failed(i)
    /\ \E t \in at[w]..now : failedAt' = [failedAt EXCEPT ![i] = t]
    /\ place' = [place EXCEPT ![w] = "crm"]
    /\ UNCHANGED <<notified, schedule, stream, at, batch, sent, nextCheck, past, now, faults>>

(* The lead of the cycle is escalated, at the time the cycle began.         *)
FailLead(w, i) ==
    /\ place[w] \in {"cycle", "crm"} /\ StreamOf[i] = "crm" /\ ~ Failed(i)
    /\ failedAt' = [failedAt EXCEPT ![i] = at[w]]
    /\ Return(w)
    /\ UNCHANGED <<notified, schedule, past, now, faults>>

(* The cycle ends without a failed lead, or raises.                         *)
EndCycle(w) ==
    /\ place[w] \in {"cycle", "crm"}
    /\ Return(w)
    /\ UNCHANGED <<data, past, now, faults>>

(* The check's time is read once and used by all its operations; the next   *)
(* check is due one retry delay after the start of this one.                *)
StartCheck(w) ==
    /\ place[w] = "idle" /\ now >= nextCheck[w]
    /\ place' = [place EXCEPT ![w] = "select"]
    /\ stream' = [stream EXCEPT ![w] = "crm"]
    /\ at' = [at EXCEPT ![w] = now]
    /\ nextCheck' = [nextCheck EXCEPT ![w] = now + Retry]
    /\ UNCHANGED <<data, batch, sent, past, now, faults>>

(* The stream's operation ends; the CRM stream's comes first.               *)
Advance(w) ==
    /\ place' = [place EXCEPT ![w] = IF stream[w] = "crm" THEN "select" ELSE "ready"]
    /\ stream' = [stream EXCEPT ![w] = IF @ = "crm" THEN "normalization" ELSE "crm"]
    /\ at' = [at EXCEPT ![w] = IF stream[w] = "crm" THEN @ ELSE NoTime]
    /\ batch' = [batch EXCEPT ![w] = {}]
    /\ sent' = [sent EXCEPT ![w] = FALSE]
    /\ UNCHANGED nextCheck

Stay(w, to) ==
    /\ place' = [place EXCEPT ![w] = to]
    /\ UNCHANGED <<stream, at, nextCheck>>

(* _stream_is_due.                                                          *)
StreamIsDue(s, t) ==
    LET c == schedule[s]
        incomplete == c.successAt = NoTime \/ c.attemptAt > c.successAt
    IN  CASE c.attemptAt = NoTime -> TRUE
          [] c.attemptAt # NoTime /\ (c.error \/ incomplete) -> t >= c.attemptAt + Retry
          [] OTHER -> t >= c.successAt + Interval

NotDue(w) ==
    /\ place[w] = "select" /\ ~ StreamIsDue(stream[w], at[w])
    /\ Advance(w)
    /\ UNCHANGED <<data, past, now, faults>>

(* Mutant: the two streams share their schedule.                            *)
EmptySharedSchedule(w) ==
    /\ place[w] = "select" /\ StreamIsDue(stream[w], at[w])
    /\ Unsent(stream[w]) = {}
    /\ schedule' = [s \in Streams |-> [attemptAt |-> at[w], successAt |-> at[w],
                                       error |-> FALSE]]
    /\ Advance(w)
    /\ UNCHANGED <<failedAt, notified, past, now, faults>>

(* A check that finds nothing to mail counts as a success of the stream.    *)
EmptyBatch(w) ==
    /\ place[w] = "select" /\ StreamIsDue(stream[w], at[w])
    /\ Unsent(stream[w]) = {}
    /\ schedule' = [schedule EXCEPT ![stream[w]] =
                        [attemptAt |-> at[w], successAt |-> at[w], error |-> FALSE]]
    /\ Advance(w)
    /\ UNCHANGED <<failedAt, notified, past, now, faults>>

(* Mutant: the limit is not applied.                                        *)
WholeBacklog(b, s) == b = Unsent(s) /\ b # {}

(* Mutant: the batch is not ordered.                                        *)
AnyBatch(b, s) ==
    /\ b \subseteq Unsent(s) /\ b # {}
    /\ Cardinality(b) <= MaxItems
    /\ Cardinality(b) = MaxItems \/ b = Unsent(s)

(* At most MaxItems of the unsent items, the oldest; rows of one time come  *)
(* in the order of their ids, which is left open here.                      *)
OldestUnsent(b, s) ==
    /\ b \subseteq Unsent(s) /\ b # {}
    /\ Cardinality(b) <= MaxItems
    /\ Cardinality(b) = MaxItems \/ b = Unsent(s)
    /\ \A i \in b, j \in Unsent(s) \ b : failedAt[i] <= failedAt[j]

(* Mutant: the attempt is recorded with its result only.                    *)
SelectUnrecorded(w, b) ==
    /\ place[w] = "select" /\ StreamIsDue(stream[w], at[w])
    /\ OldestUnsent(b, stream[w])
    /\ batch' = [batch EXCEPT ![w] = b]
    /\ Stay(w, "send")
    /\ UNCHANGED <<data, sent, past, now, faults>>

(* The attempt is recorded before the message is sent.                      *)
SelectBatch(w, b) ==
    /\ place[w] = "select" /\ StreamIsDue(stream[w], at[w])
    /\ OldestUnsent(b, stream[w])
    /\ schedule' = [schedule EXCEPT ![stream[w]].attemptAt = at[w]]
    /\ batch' = [batch EXCEPT ![w] = b]
    /\ Stay(w, "send")
    /\ UNCHANGED <<failedAt, notified, sent, past, now, faults>>

OneMore(n) == IF n = Many THEN Many ELSE n + 1

(* One attempt to mail the batch, whoever the server took it for.           *)
SendBatch(w, d) ==
    /\ place[w] = "send"
    /\ copies' = [i \in Items |-> [p \in People |->
           IF i \in batch[w] /\ p \in d.taken THEN OneMore(copies[i][p]) ELSE copies[i][p]]]
    /\ lastTry' = [lastTry EXCEPT ![stream[w]] = [at |-> at[w], recorded |-> FALSE]]
    /\ sent' = [sent EXCEPT ![w] = d.sent]
    /\ Stay(w, "record")
    /\ UNCHANGED <<data, batch, now, faults>>

(* Mutant: whatever is unsent when the result arrives is marked.            *)
RecordAllSent(w) ==
    /\ place[w] = "record" /\ sent[w]
    /\ notified' = notified \union Unsent(stream[w])
    /\ schedule' = [schedule EXCEPT ![stream[w]] =
                        [attemptAt |-> at[w], successAt |-> at[w], error |-> FALSE]]
    /\ lastTry' = [lastTry EXCEPT ![stream[w]].recorded = TRUE]
    /\ Advance(w)
    /\ UNCHANGED <<failedAt, copies, now, faults>>

RecordSent(w) ==
    /\ place[w] = "record" /\ sent[w]
    /\ notified' = notified \union batch[w]
    /\ schedule' = [schedule EXCEPT ![stream[w]] =
                        [attemptAt |-> at[w], successAt |-> at[w], error |-> FALSE]]
    /\ lastTry' = [lastTry EXCEPT ![stream[w]].recorded = TRUE]
    /\ Advance(w)
    /\ UNCHANGED <<failedAt, copies, now, faults>>

RecordFailed(w) ==
    /\ place[w] = "record" /\ ~ sent[w]
    /\ schedule' = [schedule EXCEPT ![stream[w]].attemptAt = at[w], ![stream[w]].error = TRUE]
    /\ Advance(w)
    /\ UNCHANGED <<failedAt, notified, past, now, faults>>

(* An operation raises, its transaction is rolled back, and the check goes  *)
(* on with the next operation.                                              *)
OperationRaises(w) ==
    /\ place[w] \in CheckPlaces /\ faults < MaxFaults
    /\ faults' = faults + 1
    /\ Advance(w)
    /\ UNCHANGED <<data, past, now>>

(* The process dies anywhere; the next one begins with a check.             *)
Crash(w) ==
    /\ faults < MaxFaults
    /\ faults' = faults + 1
    /\ place' = [place EXCEPT ![w] = "idle"]
    /\ stream' = [stream EXCEPT ![w] = "crm"]
    /\ at' = [at EXCEPT ![w] = NoTime]
    /\ batch' = [batch EXCEPT ![w] = {}]
    /\ sent' = [sent EXCEPT ![w] = FALSE]
    /\ nextCheck' = [nextCheck EXCEPT ![w] = 0]
    /\ UNCHANGED <<data, past, now>>

Tick ==
    /\ now < MaxClock
    /\ now' = now + 1
    /\ UNCHANGED <<data, worker, past, faults>>

-----------------------------------------------------------------------------
CheckStep(w) ==
    \/ StartCheck(w) \/ NotDue(w) \/ EmptyBatch(w)
    \/ \E b \in SUBSET Items : SelectBatch(w, b)
    \/ \E d \in StreamDeliveries[stream[w]] : SendBatch(w, d)
    \/ RecordSent(w) \/ RecordFailed(w)

CycleStep(w) ==
    \/ SkipCheck(w) \/ StartCycle(w) \/ EndCycle(w)
    \/ \E i \in Items : FailLead(w, i) \/ FailEvent(w, i)

Next ==
    \/ \E w \in Workers : CheckStep(w) \/ CycleStep(w) \/ OperationRaises(w) \/ Crash(w)
    \/ Tick

Spec == Init /\ [][Next]_vars
-----------------------------------------------------------------------------
BatchFits(w) ==
    place[w] \in {"send", "record"} => batch[w] # {} /\ Cardinality(batch[w]) <= MaxItems

(* Every variable keeps its type, and a worker that mails holds a batch     *)
(* within the limit (notification_batch_max_items).                         *)
TypeOK ==
    /\ failedAt \in [Items -> Times] /\ notified \subseteq Items
    /\ schedule \in [Streams -> [attemptAt : Times, successAt : Times, error : BOOLEAN]]
    /\ place \in [Workers -> {"idle", "ready", "cycle", "crm"} \union CheckPlaces]
    /\ stream \in [Workers -> Streams]
    /\ at \in [Workers -> Times]
    /\ batch \in [Workers -> SUBSET Items]
    /\ \A w \in Workers : BatchFits(w)
    /\ sent \in [Workers -> BOOLEAN]
    /\ nextCheck \in [Workers -> Nat]
    /\ copies \in [Items -> [People -> 0..Many]]
    /\ lastTry \in [Streams -> [at : Times, recorded : BOOLEAN]]
    /\ now \in Nat /\ faults \in Nat

(* Nothing is marked as notified that was not: whatever was refused, lost   *)
(* or repeated, and however many workers overlap, a lead or event whose     *)
(* escalation_notified_at is set is in a message that every addressee had.  *)
NotifiedWasMailed ==
    \A i \in notified : \A p \in Audience[i] : copies[i][p] > 0

(* However the message under way ends, it is reported as sent exactly when  *)
(* the server acknowledged it for every addressee: neither a refused        *)
(* recipient nor a connection lost after the data counts as sent, and an    *)
(* acknowledged message never as failed (SmtpNotificationSender.send).      *)
ReportedTruly ==
    \A w \in Workers :
        place[w] = "send" => \A x \in Misreported : x.to # Addressees[stream[w]]

(* Whatever the message under way raises is handled by the except clause    *)
(* nearest to its class, although smtplib's exceptions and TLS errors are   *)
(* all OSErrors: no clause of send hides a later one.                       *)
HandledByItsClause ==
    \A w \in Workers :
        place[w] = "send" => \A x \in Misclassified : x.to # Addressees[stream[w]]

(* With one replica the batch limit delays no failure behind a later one of *)
(* its stream, although a lead's failure is stored as of the time its cycle *)
(* began and an event's as of a time before it is committed.                *)
OldestFirst ==
    \A i, j \in Items :
        /\ StreamOf[i] = StreamOf[j] /\ Failed(i)
        /\ failedAt[i] < failedAt[j] /\ j \in notified
        => i \in notified

(* docs/08_notifications.md: a failing stream is not retried "more often    *)
(* than every 5 minutes", nor a successful one before its interval: by the  *)
(* times of their checks two messages of one stream are so far apart,       *)
(* through crashes and restarts, which reset the check's own timer.         *)
TriesApart ==
    \A w \in Workers :
        LET last == lastTry[stream[w]]
        IN  place[w] = "send" /\ last.at # NoTime =>
                at[w] >= last.at + (IF last.recorded THEN Interval ELSE Retry)

Promise == INSTANCE NoticePromise
    WITH Matters <- Items,
         recorded <- notified

(* The streams implement the promise: a failure is mailed until all its     *)
(* addressees have it and this is recorded, and then never again.           *)
KeepsPromise == Promise!Spec
=============================================================================
