-------------------------- MODULE FailureBatchProofs --------------------------
(***************************************************************************)
(* Proofs about the batch streams, for any reply codes, items, delays and  *)
(* bounds.  However many workers overlap: what is marked as notified was   *)
(* mailed.  With one worker: the oldest failures of a stream go first, its *)
(* messages are their delay apart, and the streams implement NoticePromise.*)
(***************************************************************************)
EXTENDS FailureBatches, SmtpSenderProofs

(* What a stream learns of a message, and who has it.                       *)
LEMMA StreamDelivery ==
    ASSUME NEW s \in Streams, NEW d \in StreamDeliveries[s]
    PROVE  /\ d.sent \in BOOLEAN /\ d.taken \subseteq Addressees[s]
           /\ d.sent => d.taken = Addressees[s]
<1>1. d \in Deliveries(Addressees[s])
  BY DEF StreamDeliveries
<1>2. QED
  BY <1>1, DeliveryForm

-----------------------------------------------------------------------------
(* Type correctness, one action at a time.                                  *)
WorkerTyped ==
    /\ place \in [Workers -> {"idle", "ready", "cycle", "crm"} \union CheckPlaces]
    /\ stream \in [Workers -> Streams]
    /\ at \in [Workers -> Times]
    /\ batch \in [Workers -> SUBSET Items]
    /\ \A w \in Workers : BatchFits(w)
    /\ sent \in [Workers -> BOOLEAN]
    /\ nextCheck \in [Workers -> Nat]

LEMMA AdvanceTyped ==
    ASSUME TypeOK, NEW w \in Workers, Advance(w)
    PROVE  WorkerTyped'
  BY DEF TypeOK, Advance, WorkerTyped, BatchFits, CheckPlaces, Streams, Times, NoTime

LEMMA InitTyped == Init => TypeOK
  BY DEF Init, TypeOK, BatchFits, Streams, Times, NoTime, People, Many

LEMMA CheckTyped ==
    ASSUME TypeOK, NEW w \in Workers, CheckStep(w)
    PROVE  TypeOK'
<1>1. CASE StartCheck(w)
  BY <1>1, SettingsAssumption DEF StartCheck, TypeOK, BatchFits, CheckPlaces, Streams, Times,
                                  data, past
<1>2. CASE NotDue(w)
  BY <1>2, AdvanceTyped DEF NotDue, TypeOK, WorkerTyped, data, past
<1>3. CASE EmptyBatch(w)
  <2>1. schedule' \in [Streams -> [attemptAt : Times, successAt : Times, error : BOOLEAN]]
    BY <1>3 DEF EmptyBatch, TypeOK
  <2>2. QED
    BY <1>3, <2>1, AdvanceTyped DEF EmptyBatch, TypeOK, WorkerTyped, past
<1>4. ASSUME NEW b \in SUBSET Items, SelectBatch(w, b)
      PROVE  TypeOK'
  <2>1. schedule' \in [Streams -> [attemptAt : Times, successAt : Times, error : BOOLEAN]]
    BY <1>4 DEF SelectBatch, TypeOK
  <2>2. QED
    BY <1>4, <2>1 DEF SelectBatch, OldestUnsent, Stay, TypeOK, BatchFits, CheckPlaces, past
<1>5. ASSUME NEW d \in StreamDeliveries[stream[w]], SendBatch(w, d)
      PROVE  TypeOK'
  <2>1. stream[w] \in Streams /\ d.sent \in BOOLEAN
    BY StreamDelivery DEF TypeOK
  <2>2. copies' \in [Items -> [People -> 0..Many]]
    BY <1>5 DEF SendBatch, TypeOK, OneMore, Many
  <2>3. lastTry' \in [Streams -> [at : Times, recorded : BOOLEAN]]
    BY <1>5 DEF SendBatch, TypeOK
  <2>4. QED
    BY <1>5, <2>1, <2>2, <2>3 DEF SendBatch, Stay, TypeOK, BatchFits, CheckPlaces, data
<1>6. CASE RecordSent(w)
  <2>1. schedule' \in [Streams -> [attemptAt : Times, successAt : Times, error : BOOLEAN]]
    BY <1>6 DEF RecordSent, TypeOK
  <2>2. lastTry' \in [Streams -> [at : Times, recorded : BOOLEAN]]
    BY <1>6 DEF RecordSent, TypeOK
  <2>3. QED
    BY <1>6, <2>1, <2>2, AdvanceTyped DEF RecordSent, TypeOK, WorkerTyped
<1>7. CASE RecordFailed(w)
  <2>1. schedule' \in [Streams -> [attemptAt : Times, successAt : Times, error : BOOLEAN]]
    BY <1>7 DEF RecordFailed, TypeOK
  <2>2. QED
    BY <1>7, <2>1, AdvanceTyped DEF RecordFailed, TypeOK, WorkerTyped, past
<1>8. QED
  BY <1>1, <1>2, <1>3, <1>4, <1>5, <1>6, <1>7 DEF CheckStep

LEMMA CycleTyped ==
    ASSUME TypeOK, NEW w \in Workers, CycleStep(w)
    PROVE  TypeOK'
<1>1. CASE SkipCheck(w)
  BY <1>1 DEF SkipCheck, TypeOK, BatchFits, data, past
<1>2. CASE StartCycle(w)
  BY <1>2 DEF StartCycle, TypeOK, BatchFits, Times, data, past
<1>3. CASE EndCycle(w)
  BY <1>3 DEF EndCycle, Return, TypeOK, BatchFits, Times, data, past
<1>4. ASSUME NEW i \in Items, FailLead(w, i)
      PROVE  TypeOK'
  BY <1>4 DEF FailLead, Return, TypeOK, BatchFits, Times, past
<1>5. ASSUME NEW i \in Items, FailEvent(w, i)
      PROVE  TypeOK'
  <2>1. PICK t \in at[w]..now : failedAt' = [failedAt EXCEPT ![i] = t]
    BY <1>5 DEF FailEvent
  <2>2. at[w] \in Nat \union {-1} /\ now \in Nat
    BY DEF TypeOK, Times, NoTime
  <2>3. t \in Times
    BY <2>2 DEF Times, NoTime
  <2>4. QED
    BY <1>5, <2>1, <2>3 DEF FailEvent, TypeOK, BatchFits, past
<1>6. QED
  BY <1>1, <1>2, <1>3, <1>4, <1>5 DEF CycleStep

(* A cycle leaves the streams alone, and its worker in no check.            *)
LEMMA CycleApart ==
    ASSUME TypeOK, NEW w \in Workers, CycleStep(w)
    PROVE  /\ UNCHANGED <<notified, schedule, stream, batch, sent, nextCheck, past, now>>
           /\ place[w] \notin {"send", "record"}
           /\ place'[w] \in {"idle", "ready", "cycle", "crm"}
           /\ \A v \in Workers \ {w} : place'[v] = place[v] /\ at'[v] = at[v]
<1>1. CASE SkipCheck(w) \/ StartCycle(w)
  BY <1>1 DEF SkipCheck, StartCycle, TypeOK, data
<1>2. CASE EndCycle(w)
  BY <1>2 DEF EndCycle, Return, TypeOK, data
<1>3. ASSUME NEW i \in Items, FailLead(w, i) \/ FailEvent(w, i)
      PROVE  /\ UNCHANGED <<notified, schedule, stream, batch, sent, nextCheck, past, now>>
             /\ place[w] \notin {"send", "record"}
             /\ place'[w] \in {"idle", "crm"}
             /\ \A v \in Workers \ {w} : place'[v] = place[v] /\ at'[v] = at[v]
  BY <1>3 DEF FailLead, FailEvent, Return, TypeOK
<1>4. QED
  BY <1>1, <1>2, <1>3 DEF CycleStep

LEMMA StepTyped ==
    ASSUME TypeOK, [Next]_vars
    PROVE  TypeOK'
<1>1. ASSUME NEW w \in Workers, OperationRaises(w)
      PROVE  TypeOK'
  BY <1>1, AdvanceTyped DEF OperationRaises, TypeOK, WorkerTyped, data, past
<1>2. ASSUME NEW w \in Workers, Crash(w)
      PROVE  TypeOK'
  BY <1>2 DEF Crash, TypeOK, BatchFits, Streams, Times, data, past
<1>3. CASE Tick
  BY <1>3 DEF Tick, TypeOK, BatchFits, data, worker, past
<1>4. CASE UNCHANGED vars
  BY <1>4 DEF vars, TypeOK, BatchFits
<1>5. QED
  BY <1>1, <1>2, <1>3, <1>4, CheckTyped, CycleTyped DEF Next

(* notifications/service.py, worker.py: with any items, delays, workers and *)
(* faults, the streams' columns and the workers' memory keep their types,   *)
(* and what a worker mails is a batch within the limit.                     *)
THEOREM Types == Spec => []TypeOK
  BY InitTyped, StepTyped, PTL DEF Spec

-----------------------------------------------------------------------------
(***************************************************************************)
(* What is marked was mailed.  A worker holds items of its stream, and     *)
(* when it is about to mark them, everybody they concern has had them.     *)
(***************************************************************************)
Heard(i) == \A p \in Audience[i] : copies[i][p] > 0

OfStream(w) == place[w] \in {"send", "record"} => \A i \in batch[w] : StreamOf[i] = stream[w]

Delivered(w) == place[w] = "record" /\ sent[w] => \A i \in batch[w] : Heard(i)

Mailed ==
    /\ TypeOK
    /\ \A w \in Workers : OfStream(w) /\ Delivered(w)
    /\ NotifiedWasMailed

(* A worker that leaves its operation holds nothing, the others are as      *)
(* before.                                                                  *)
LEMMA AdvanceMailed ==
    ASSUME Mailed, NEW w \in Workers, Advance(w), UNCHANGED copies
    PROVE  \A v \in Workers : OfStream(v)' /\ Delivered(v)'
  BY DEF Advance, Mailed, TypeOK, OfStream, Delivered, Heard, Audience

LEMMA CopiesGrow ==
    ASSUME TypeOK, NEW w \in Workers, NEW d, SendBatch(w, d), NEW i \in Items, NEW p \in People
    PROVE  /\ copies[i][p] \in Nat /\ copies'[i][p] \in Nat
           /\ copies'[i][p] >= copies[i][p]
           /\ IF i \in batch[w] /\ p \in d.taken THEN copies'[i][p] > 0
                                                 ELSE copies'[i][p] = copies[i][p]
<1>1. copies[i] \in [People -> 0..Many]
  BY DEF TypeOK
<1>2. copies[i][p] \in 0..2
  BY <1>1 DEF Many
<1>3. copies'[i][p] =
          IF i \in batch[w] /\ p \in d.taken THEN OneMore(copies[i][p]) ELSE copies[i][p]
  BY DEF SendBatch
<1>4. QED
  BY <1>2, <1>3 DEF OneMore, Many

LEMMA SendMailed ==
    ASSUME Mailed, TypeOK', NEW w \in Workers, NEW d \in StreamDeliveries[stream[w]],
           SendBatch(w, d)
    PROVE  Mailed'
<1>1. \A i \in Items, p \in People :
          /\ copies[i][p] \in Nat /\ copies'[i][p] \in Nat
          /\ copies'[i][p] >= copies[i][p]
          /\ i \in batch[w] /\ p \in d.taken => copies'[i][p] > 0
  BY CopiesGrow DEF Mailed
<1>2. \A i \in Items : Audience[i] \subseteq People
  BY ItemsAssumption DEF Audience, Addressees, Streams, People
<1>3. \A i \in Items : Heard(i) => Heard(i)'
  <2>1. ASSUME NEW i \in Items, NEW p \in People, copies[i][p] > 0
        PROVE  copies'[i][p] > 0
    BY <1>1, <2>1
  <2>2. Audience' = Audience
    BY DEF Audience
  <2>3. QED
    BY <1>2, <2>1, <2>2 DEF Heard
<1>4. d.sent => \A i \in batch[w] : Heard(i)'
  <2>1. d.sent => d.taken = Addressees[stream[w]]
    BY StreamDelivery DEF Mailed, TypeOK
  <2>2. \A i \in batch[w] : i \in Items /\ Audience[i] = Addressees[stream[w]]
    BY DEF SendBatch, Mailed, TypeOK, OfStream, Audience
  <2>3. \A i \in batch[w], p \in d.taken \intersect People : copies'[i][p] > 0
    BY <1>1, <2>2
  <2>4. QED
    BY <1>2, <2>1, <2>2, <2>3 DEF Heard, Audience
<1>5. \A v \in Workers : OfStream(v)'
  BY DEF SendBatch, Stay, Mailed, TypeOK, OfStream
<1>6. \A v \in Workers : Delivered(v)'
  BY <1>3, <1>4 DEF SendBatch, Stay, Mailed, TypeOK, Delivered
<1>7. NotifiedWasMailed'
  BY <1>3 DEF SendBatch, data, Mailed, TypeOK, NotifiedWasMailed, Heard
<1>8. QED
  BY <1>5, <1>6, <1>7 DEF Mailed

LEMMA MailedKept ==
    ASSUME Mailed, [Next]_vars
    PROVE  Mailed'
<1>1. TypeOK'
  BY StepTyped DEF Mailed
<1>2. ASSUME NEW w \in Workers, CheckStep(w)
      PROVE  Mailed'
  <2>1. CASE StartCheck(w)
    BY <1>1, <2>1 DEF StartCheck, Mailed, TypeOK, OfStream, Delivered, Heard, Audience,
                      NotifiedWasMailed, data, past
  <2>2. CASE NotDue(w)
    BY <1>1, <2>2, AdvanceMailed DEF NotDue, Mailed, NotifiedWasMailed, data, past
  <2>3. CASE EmptyBatch(w)
    BY <1>1, <2>3, AdvanceMailed DEF EmptyBatch, Mailed, NotifiedWasMailed, past
  <2>4. ASSUME NEW b \in SUBSET Items, SelectBatch(w, b)
        PROVE  Mailed'
    <3>1. \A i \in b : StreamOf[i] = stream[w]
      BY <2>4 DEF SelectBatch, OldestUnsent, Unsent
    <3>2. \A v \in Workers : OfStream(v)' /\ Delivered(v)'
      BY <2>4, <3>1 DEF SelectBatch, Stay, Mailed, TypeOK, OfStream, Delivered, Heard,
                        Audience, past
    <3>3. QED
      BY <1>1, <2>4, <3>2 DEF SelectBatch, Mailed, NotifiedWasMailed, past
  <2>5. ASSUME NEW d \in StreamDeliveries[stream[w]], SendBatch(w, d)
        PROVE  Mailed'
    BY <1>1, <2>5, SendMailed
  <2>6. CASE RecordSent(w)
    <3>1. \A i \in batch[w] : Heard(i)
      BY <2>6 DEF RecordSent, Mailed, Delivered
    <3>2. NotifiedWasMailed'
      BY <2>6, <3>1 DEF RecordSent, Mailed, NotifiedWasMailed, Heard, Audience
    <3>3. QED
      BY <1>1, <2>6, <3>2, AdvanceMailed DEF RecordSent, Mailed
  <2>7. CASE RecordFailed(w)
    BY <1>1, <2>7, AdvanceMailed DEF RecordFailed, Mailed, NotifiedWasMailed, past
  <2>8. QED
    BY <1>2, <2>1, <2>2, <2>3, <2>4, <2>5, <2>6, <2>7 DEF CheckStep
<1>3. ASSUME NEW w \in Workers, CycleStep(w)
      PROVE  Mailed'
  BY <1>1, <1>3, CycleApart DEF Mailed, OfStream, Delivered, Heard, Audience,
                                NotifiedWasMailed, past
<1>4. ASSUME NEW w \in Workers, OperationRaises(w)
      PROVE  Mailed'
  BY <1>1, <1>4, AdvanceMailed DEF OperationRaises, Mailed, NotifiedWasMailed, data, past
<1>5. ASSUME NEW w \in Workers, Crash(w)
      PROVE  Mailed'
  BY <1>1, <1>5 DEF Crash, Mailed, TypeOK, OfStream, Delivered, Heard, Audience,
                    NotifiedWasMailed, data, past
<1>6. CASE Tick
  BY <1>1, <1>6 DEF Tick, Mailed, OfStream, Delivered, Heard, Audience, NotifiedWasMailed,
                    data, worker, past
<1>7. CASE UNCHANGED vars
  BY <1>1, <1>7 DEF vars, Mailed, OfStream, Delivered, Heard, Audience, NotifiedWasMailed
<1>8. QED
  BY <1>2, <1>3, <1>4, <1>5, <1>6, <1>7 DEF Next

LEMMA InitMailed == Init => Mailed
  BY InitTyped DEF Init, Mailed, OfStream, Delivered, NotifiedWasMailed

LEMMA AlwaysMailed == Spec => []Mailed
  BY InitMailed, MailedKept, PTL DEF Spec

(* notifications/service.py: with any number of overlapping workers, faults *)
(* and partial refusals, an item whose escalation_notified_at is set was in *)
(* a message that each of its addressees had.                               *)
THEOREM NotifiedMailed == Spec => []NotifiedWasMailed
<1>1. Mailed => NotifiedWasMailed
  BY DEF Mailed
<1>2. QED
  BY <1>1, AlwaysMailed, PTL

(* notifications/smtp.py: whatever message is under way, of either stream   *)
(* and for any reply codes, its result says who has it.                     *)
THEOREM ReportsAreTrue == Spec => []ReportedTruly
<1>1. ReportedTruly
  BY SuccessMeansDelivery DEF ReportedTruly
<1>2. QED
  BY <1>1, PTL

(* notifications/smtp.py: whatever the message under way raises, of either  *)
(* stream, is handled by the except clause nearest to its class.            *)
THEOREM ClausesAreOrdered == Spec => []HandledByItsClause
<1>1. HandledByItsClause
  BY NoClauseHidesAnother DEF HandledByItsClause
<1>2. QED
  BY <1>1, PTL

-----------------------------------------------------------------------------
(***************************************************************************)
(* One worker implements the promise: what it holds is not marked, so a    *)
(* message is never about a marked item.                                   *)
(***************************************************************************)
Unmarked(w) == place[w] \in {"send", "record"} => batch[w] \intersect notified = {}

OneWorker == Mailed /\ \A w \in Workers : Unmarked(w)

PromiseStep == [Promise!Next]_<<copies, notified>>

LEMMA InitOneWorker == Init => OneWorker
  BY InitMailed DEF Init, OneWorker, Unmarked

LEMMA UnmarkedKept ==
    ASSUME \A v, w \in Workers : v = w, OneWorker, [Next]_vars
    PROVE  \A w \in Workers : Unmarked(w)'
<1>1. ASSUME NEW w \in Workers, Advance(w) \/ Crash(w)
      PROVE  \A v \in Workers : Unmarked(v)'
  BY <1>1 DEF Advance, Crash, OneWorker, Mailed, TypeOK, Unmarked
<1>2. ASSUME NEW w \in Workers, CheckStep(w)
      PROVE  \A v \in Workers : Unmarked(v)'
  <2>1. CASE StartCheck(w)
    BY <2>1 DEF StartCheck, OneWorker, Mailed, TypeOK, Unmarked, data
  <2>2. CASE NotDue(w) \/ EmptyBatch(w) \/ RecordSent(w) \/ RecordFailed(w)
    BY <1>1, <2>2 DEF NotDue, EmptyBatch, RecordSent, RecordFailed
  <2>3. ASSUME NEW b \in SUBSET Items, SelectBatch(w, b)
        PROVE  \A v \in Workers : Unmarked(v)'
    <3>1. b \intersect notified = {}
      BY <2>3 DEF SelectBatch, OldestUnsent, Unsent
    <3>2. QED
      BY <2>3, <3>1 DEF SelectBatch, Stay, OneWorker, Mailed, TypeOK, Unmarked
  <2>4. ASSUME NEW d \in StreamDeliveries[stream[w]], SendBatch(w, d)
        PROVE  \A v \in Workers : Unmarked(v)'
    BY <2>4 DEF SendBatch, Stay, OneWorker, Mailed, TypeOK, Unmarked, data
  <2>5. QED
    BY <1>2, <2>1, <2>2, <2>3, <2>4 DEF CheckStep
<1>3. ASSUME NEW w \in Workers, CycleStep(w)
      PROVE  \A v \in Workers : Unmarked(v)'
  BY <1>3, CycleApart DEF OneWorker, Mailed, Unmarked
<1>4. ASSUME NEW w \in Workers, OperationRaises(w)
      PROVE  \A v \in Workers : Unmarked(v)'
  BY <1>1, <1>4 DEF OperationRaises
<1>5. CASE Tick
  BY <1>5 DEF Tick, OneWorker, Unmarked, data, worker
<1>6. CASE UNCHANGED vars
  BY <1>6 DEF vars, OneWorker, Unmarked
<1>7. QED
  BY <1>1, <1>2, <1>3, <1>4, <1>5, <1>6 DEF Next

LEMMA SendPromised ==
    ASSUME OneWorker, NEW w \in Workers, NEW d \in StreamDeliveries[stream[w]],
           SendBatch(w, d)
    PROVE  Promise!Tell
<1>1. ASSUME NEW i \in Items, NEW p \in People
      PROVE  /\ copies[i][p] \in Nat /\ copies'[i][p] \in Nat
             /\ copies'[i][p] >= copies[i][p]
             /\ copies'[i][p] # copies[i][p] => i \in batch[w] /\ p \in d.taken
  BY CopiesGrow DEF OneWorker, Mailed
<1>2. copies' \in [Items -> [People -> Nat]]
  <2>1. copies' = [i \in Items |-> [p \in People |-> copies'[i][p]]]
    BY DEF SendBatch
  <2>2. QED
    BY <1>1, <2>1
<1>3. stream[w] \in Streams /\ d.taken \subseteq Addressees[stream[w]]
  BY StreamDelivery DEF OneWorker, Mailed, TypeOK
<1>4. \A i \in batch[w] : i \notin notified /\ Addressees[stream[w]] = Audience[i]
  BY DEF SendBatch, OneWorker, Mailed, TypeOK, OfStream, Unmarked, Audience
<1>5. ASSUME NEW i \in Items, NEW p \in People, copies'[i][p] # copies[i][p]
      PROVE  i \notin notified /\ p \in Audience[i] /\ copies'[i][p] > copies[i][p]
  BY <1>1, <1>3, <1>4, <1>5
<1>6. QED
  BY <1>2, <1>5 DEF Promise!Tell, SendBatch, data

LEMMA StepPromised ==
    ASSUME OneWorker, [Next]_vars
    PROVE  PromiseStep
<1>1. ASSUME NEW w \in Workers, CheckStep(w)
      PROVE  PromiseStep
  <2>1. CASE StartCheck(w) \/ NotDue(w) \/ EmptyBatch(w) \/ RecordFailed(w)
    BY <2>1 DEF StartCheck, NotDue, EmptyBatch, RecordFailed, data, past, PromiseStep
  <2>2. ASSUME NEW b \in SUBSET Items, SelectBatch(w, b)
        PROVE  PromiseStep
    BY <2>2 DEF SelectBatch, past, PromiseStep
  <2>3. ASSUME NEW d \in StreamDeliveries[stream[w]], SendBatch(w, d)
        PROVE  PromiseStep
    BY <2>3, SendPromised DEF Promise!Next, PromiseStep
  <2>4. CASE RecordSent(w)
    <3>1. \A i \in batch[w] : Heard(i)
      BY <2>4 DEF RecordSent, OneWorker, Mailed, Delivered
    <3>2. batch[w] \in SUBSET Items
      BY DEF OneWorker, Mailed, TypeOK
    <3>3. Promise!Record(batch[w])
      BY <2>4, <3>1 DEF RecordSent, Promise!Record, Heard
    <3>4. QED
      BY <3>2, <3>3 DEF Promise!Next, PromiseStep
  <2>5. QED
    BY <1>1, <2>1, <2>2, <2>3, <2>4 DEF CheckStep
<1>2. ASSUME NEW w \in Workers, CycleStep(w)
      PROVE  PromiseStep
  BY <1>2, CycleApart DEF OneWorker, Mailed, past, PromiseStep
<1>3. ASSUME NEW w \in Workers, OperationRaises(w) \/ Crash(w)
      PROVE  PromiseStep
  BY <1>3 DEF OperationRaises, Crash, data, past, PromiseStep
<1>4. CASE Tick
  BY <1>4 DEF Tick, data, past, PromiseStep
<1>5. CASE UNCHANGED vars
  BY <1>5 DEF vars, PromiseStep
<1>6. QED
  BY <1>1, <1>2, <1>3, <1>4, <1>5 DEF Next

LEMMA InitPromised == Init => Promise!Init
  BY DEF Init, Promise!Init

(* notifications/service.py: with one worker, for any items, delays, batch  *)
(* limit, mail results and crashes, the batch streams implement             *)
(* NoticePromise.                                                           *)
THEOREM Implements ==
    ASSUME \A v, w \in Workers : v = w
    PROVE  Spec => KeepsPromise
<1>1. OneWorker /\ [Next]_vars => OneWorker'
  BY MailedKept, UnmarkedKept DEF OneWorker
<1>2. OneWorker /\ [Next]_vars => [Promise!Next]_<<copies, notified>>
  BY StepPromised DEF PromiseStep
<1>3. QED
  BY InitOneWorker, InitPromised, <1>1, <1>2, PTL DEF Spec, KeepsPromise, Promise!Spec

-----------------------------------------------------------------------------
(***************************************************************************)
(* One worker mails the oldest first.  What failed earlier than an item of *)
(* a batch is in that batch or was mailed before; and a failure that comes *)
(* later is not dated earlier than those the cycle has found, although it  *)
(* is dated before it is stored: an event's between the beginning of the   *)
(* cycle and now, a lead's at that beginning.  A second worker's failures  *)
(* could be mailed in between.                                             *)
(***************************************************************************)
Before(i, j) == StreamOf[i] = StreamOf[j] /\ Failed(i) /\ failedAt[i] < failedAt[j]

BatchFirst(w) ==
    place[w] \in {"send", "record"} =>
        /\ \A j \in batch[w] : Failed(j)
        /\ \A i \in Items, j \in batch[w] : Before(i, j) => i \in notified \union batch[w]

NotifiedFirst ==
    /\ \A j \in notified : Failed(j)
    /\ \A i \in Items, j \in notified : Before(i, j) => i \in notified

(* All failures of the stream are dated at t or before.                     *)
DatedBy(s, t) == \A i \in Items : StreamOf[i] = s => failedAt[i] <= t

CycleFollows(w) ==
    /\ place[w] \in {"cycle", "crm"} => at[w] \in 0..now /\ DatedBy("crm", at[w])
    /\ place[w] = "cycle" => DatedBy("normalization", at[w])

InOrder ==
    /\ TypeOK
    /\ DatedBy("crm", now) /\ DatedBy("normalization", now)
    /\ NotifiedFirst
    /\ \A w \in Workers : BatchFirst(w) /\ CycleFollows(w)

LEMMA InitInOrder == Init => InOrder
  BY InitTyped DEF Init, InOrder, DatedBy, CycleFollows, NotifiedFirst, BatchFirst, NoTime

(* Nothing fails in a check: only the batch of the one worker changes.      *)
LEMMA OrderStays ==
    ASSUME \A v, w \in Workers : v = w, InOrder, TypeOK', UNCHANGED <<failedAt, now>>,
           NotifiedFirst', NEW w \in Workers, place'[w] \notin {"cycle", "crm"}, BatchFirst(w)'
    PROVE  InOrder'
<1>1. CycleFollows(w)'
  BY DEF CycleFollows
<1>2. DatedBy("crm", now)' /\ DatedBy("normalization", now)'
  BY DEF InOrder, DatedBy
<1>3. QED
  BY <1>1, <1>2 DEF InOrder

(* A worker that leaves its operation has no batch.                         *)
LEMMA LeaveInOrder ==
    ASSUME \A v, w \in Workers : v = w, InOrder, TypeOK', NEW w \in Workers,
           Advance(w) \/ Crash(w), UNCHANGED <<failedAt, now>>, NotifiedFirst'
    PROVE  InOrder'
<1>1. place'[w] \notin {"cycle", "crm", "send", "record"}
  BY DEF Advance, Crash, InOrder, TypeOK
<1>2. BatchFirst(w)'
  BY <1>1 DEF BatchFirst
<1>3. QED
  BY <1>1, <1>2, OrderStays

LEMMA NotifiedStays ==
    ASSUME InOrder, UNCHANGED <<failedAt, notified>>
    PROVE  NotifiedFirst'
  BY DEF InOrder, NotifiedFirst, Before, Failed

LEMMA CheckInOrder ==
    ASSUME \A v, w \in Workers : v = w, InOrder, TypeOK', NEW w \in Workers, CheckStep(w)
    PROVE  InOrder'
<1>1. CASE StartCheck(w)
  <2>1. UNCHANGED <<failedAt, notified, now>> /\ place'[w] = "select"
    BY <1>1 DEF StartCheck, data, InOrder, TypeOK
  <2>2. BatchFirst(w)'
    BY <2>1 DEF BatchFirst
  <2>3. QED
    BY <2>1, <2>2, NotifiedStays, OrderStays
<1>2. CASE NotDue(w) \/ EmptyBatch(w) \/ RecordFailed(w)
  BY <1>2, NotifiedStays, LeaveInOrder DEF NotDue, EmptyBatch, RecordFailed, data
<1>3. ASSUME NEW b \in SUBSET Items, SelectBatch(w, b)
      PROVE  InOrder'
  <2>1. UNCHANGED <<failedAt, notified, now>> /\ batch'[w] = b /\ place'[w] = "send"
    BY <1>3 DEF SelectBatch, Stay, InOrder, TypeOK
  <2>2. /\ b \subseteq Unsent(stream[w])
        /\ \A i \in b, j \in Unsent(stream[w]) \ b : failedAt[i] <= failedAt[j]
    BY <1>3 DEF SelectBatch, OldestUnsent
  <2>3. ASSUME NEW i \in Items, NEW j \in b, Before(i, j)
        PROVE  i \in notified \union b
    <3>1. i \in notified \/ i \in Unsent(stream[w])
      BY <2>2, <2>3 DEF Before, Unsent
    <3>2. failedAt[i] \in Int /\ failedAt[j] \in Int /\ failedAt[i] < failedAt[j]
      BY <2>3 DEF Before, InOrder, TypeOK, Times, NoTime
    <3>3. QED
      BY <2>2, <3>1, <3>2
  <2>4. BatchFirst(w)'
    BY <2>1, <2>2, <2>3 DEF BatchFirst, Before, Failed, Unsent
  <2>5. QED
    BY <2>1, <2>4, NotifiedStays, OrderStays
<1>4. ASSUME NEW d \in StreamDeliveries[stream[w]], SendBatch(w, d)
      PROVE  InOrder'
  <2>1. UNCHANGED <<failedAt, notified, now, batch>> /\ place[w] = "send" /\ place'[w] = "record"
    BY <1>4 DEF SendBatch, Stay, data, InOrder, TypeOK
  <2>2. BatchFirst(w)'
    BY <2>1 DEF BatchFirst, Before, Failed, InOrder, TypeOK
  <2>3. QED
    BY <2>1, <2>2, NotifiedStays, OrderStays
<1>5. CASE RecordSent(w)
  <2>1. /\ UNCHANGED <<failedAt, now>> /\ notified' = notified \union batch[w]
        /\ place[w] = "record" /\ Advance(w)
    BY <1>5 DEF RecordSent
  <2>2. NotifiedFirst'
    BY <2>1 DEF InOrder, NotifiedFirst, BatchFirst, Before, Failed
  <2>3. QED
    BY <2>1, <2>2, LeaveInOrder
<1>6. QED
  BY <1>1, <1>2, <1>3, <1>4, <1>5 DEF CheckStep

(* A failure dated no earlier than any before it comes before none of them. *)
LEMMA NewestFollows ==
    ASSUME InOrder, NEW x \in Items, ~ Failed(x), NEW t \in Nat, DatedBy(StreamOf[x], t),
           failedAt' = [failedAt EXCEPT ![x] = t], UNCHANGED notified
    PROVE  NotifiedFirst'
<1>1. /\ failedAt'[x] = t /\ \A i \in Items \ {x} : failedAt'[i] = failedAt[i]
      /\ \A i \in Items : failedAt[i] \in Int
  BY DEF InOrder, TypeOK, Times, NoTime
<1>2. ASSUME NEW i \in Items, NEW j \in notified, Before(i, j)'
      PROVE  i \in notified
  <2>1. j \in Items /\ Failed(j) /\ j # x
    BY DEF InOrder, TypeOK, NotifiedFirst
  <2>2. failedAt'[j] = failedAt[j] /\ StreamOf[i] = StreamOf[j] /\ failedAt'[i] < failedAt'[j]
    BY <1>1, <1>2, <2>1 DEF Before
  <2>3. i # x
    BY <1>1, <2>1, <2>2 DEF DatedBy
  <2>4. Before(i, j)
    BY <1>1, <1>2, <2>2, <2>3 DEF Before, Failed
  <2>5. QED
    BY <2>4 DEF InOrder, NotifiedFirst
<1>3. ASSUME NEW j \in notified
      PROVE  Failed(j)'
  <2>1. j \in Items /\ Failed(j) /\ j # x
    BY DEF InOrder, TypeOK, NotifiedFirst
  <2>2. QED
    BY <1>1, <2>1 DEF Failed
<1>4. QED
  BY <1>2, <1>3 DEF NotifiedFirst

LEMMA LeadInOrder ==
    ASSUME \A v, w \in Workers : v = w, InOrder, TypeOK', NEW w \in Workers,
           NEW x \in Items, FailLead(w, x)
    PROVE  InOrder'
<1>1. /\ place[w] \in {"cycle", "crm"} /\ place'[w] = "idle"
      /\ StreamOf[x] = "crm" /\ ~ Failed(x)
      /\ failedAt' = [failedAt EXCEPT ![x] = at[w]]
      /\ UNCHANGED <<notified, now>>
  BY DEF FailLead, Return, InOrder, TypeOK
<1>2. PICK t \in 0..now : t = at[w] /\ DatedBy("crm", t)
  BY <1>1 DEF InOrder, CycleFollows
<1>3. NotifiedFirst'
  <2>1. t \in Nat /\ DatedBy(StreamOf[x], t) /\ failedAt' = [failedAt EXCEPT ![x] = t]
    BY <1>1, <1>2
  <2>2. QED
    BY <1>1, <2>1, NewestFollows
<1>4. /\ failedAt'[x] = t /\ t <= now
      /\ \A i \in Items \ {x} : failedAt'[i] = failedAt[i]
  BY <1>1, <1>2 DEF InOrder, TypeOK
<1>5. DatedBy("crm", now)' /\ DatedBy("normalization", now)'
  BY <1>1, <1>4 DEF InOrder, DatedBy
<1>6. BatchFirst(w)' /\ CycleFollows(w)'
  BY <1>1 DEF BatchFirst, CycleFollows
<1>7. QED
  BY <1>3, <1>5, <1>6 DEF InOrder

LEMMA EventInOrder ==
    ASSUME \A v, w \in Workers : v = w, InOrder, TypeOK', NEW w \in Workers,
           NEW x \in Items, FailEvent(w, x)
    PROVE  InOrder'
<1>1. place[w] = "cycle" /\ place'[w] = "crm" /\ at' = at /\ UNCHANGED <<notified, now>>
      /\ StreamOf[x] = "normalization" /\ ~ Failed(x)
  BY DEF FailEvent, InOrder, TypeOK
<1>2. at[w] \in 0..now /\ DatedBy("crm", at[w]) /\ DatedBy("normalization", at[w])
  BY <1>1 DEF InOrder, CycleFollows
<1>3. PICK t \in at[w]..now : failedAt' = [failedAt EXCEPT ![x] = t]
  BY DEF FailEvent
<1>4. /\ t \in Nat /\ at[w] <= t /\ t <= now
      /\ failedAt'[x] = t /\ \A i \in Items \ {x} : failedAt'[i] = failedAt[i]
      /\ \A i \in Items : failedAt[i] \in Int
  BY <1>2, <1>3 DEF InOrder, TypeOK, Times, NoTime
<1>5. DatedBy("normalization", t)
  BY <1>2, <1>4 DEF DatedBy
<1>6. NotifiedFirst'
  BY <1>1, <1>3, <1>4, <1>5, NewestFollows
<1>7. DatedBy("crm", now)' /\ DatedBy("normalization", now)'
  BY <1>1, <1>4 DEF InOrder, DatedBy
<1>8. DatedBy("crm", at[w])'
  BY <1>1, <1>2, <1>4 DEF DatedBy
<1>9. BatchFirst(w)' /\ CycleFollows(w)'
  BY <1>1, <1>2, <1>8 DEF BatchFirst, CycleFollows
<1>10. QED
  BY <1>6, <1>7, <1>9 DEF InOrder

(* A cycle that begins begins after all failures so far.                    *)
LEMMA CycleInOrder ==
    ASSUME \A v, w \in Workers : v = w, InOrder, TypeOK', NEW w \in Workers, CycleStep(w)
    PROVE  InOrder'
<1>1. CASE SkipCheck(w) \/ EndCycle(w)
  <2>1. UNCHANGED <<failedAt, notified, now>> /\ place'[w] \in {"ready", "idle"}
    BY <1>1 DEF SkipCheck, EndCycle, Return, data, InOrder, TypeOK
  <2>2. BatchFirst(w)'
    BY <2>1 DEF BatchFirst
  <2>3. QED
    BY <2>1, <2>2, NotifiedStays, OrderStays
<1>2. CASE StartCycle(w)
  <2>1. UNCHANGED <<failedAt, notified, now>> /\ place'[w] = "cycle" /\ at'[w] = now
        /\ now \in Nat
    BY <1>2 DEF StartCycle, data, InOrder, TypeOK
  <2>2. DatedBy("crm", now)' /\ DatedBy("normalization", now)'
    BY <2>1 DEF InOrder, DatedBy
  <2>3. BatchFirst(w)' /\ CycleFollows(w)'
    BY <2>1, <2>2 DEF BatchFirst, CycleFollows, DatedBy
  <2>4. QED
    BY <2>1, <2>2, <2>3, NotifiedStays DEF InOrder
<1>3. QED
  BY <1>1, <1>2, LeadInOrder, EventInOrder DEF CycleStep

LEMMA StepInOrder ==
    ASSUME \A v, w \in Workers : v = w, InOrder, [Next]_vars
    PROVE  InOrder'
<1>1. TypeOK'
  BY StepTyped DEF InOrder
<1>2. ASSUME NEW w \in Workers, OperationRaises(w) \/ Crash(w)
      PROVE  InOrder'
  <2>1. UNCHANGED <<failedAt, notified, now>> /\ (Advance(w) \/ Crash(w))
    BY <1>2 DEF OperationRaises, Crash, data
  <2>2. QED
    BY <1>1, <2>1, NotifiedStays, LeaveInOrder
<1>3. CASE Tick \/ UNCHANGED vars
  <2>1. /\ UNCHANGED <<failedAt, notified, place, at, batch>> /\ now \in Nat
        /\ now' = now \/ now' = now + 1
        /\ \A i \in Items : failedAt[i] \in Int
    BY <1>3 DEF Tick, vars, data, worker, InOrder, TypeOK, Times, NoTime
  <2>2. DatedBy("crm", now)' /\ DatedBy("normalization", now)'
    BY <2>1 DEF InOrder, DatedBy
  <2>3. \A w \in Workers : BatchFirst(w)' /\ CycleFollows(w)'
    BY <2>1 DEF InOrder, BatchFirst, CycleFollows, DatedBy, Before, Failed
  <2>4. QED
    BY <1>1, <2>1, <2>2, <2>3, NotifiedStays DEF InOrder
<1>4. QED
  BY <1>1, <1>2, <1>3, CheckInOrder, CycleInOrder DEF Next

(* notifications/service.py: a batch is the oldest unsent failures of its   *)
(* stream.  With one worker, any batch limit and any faults no failure is   *)
(* notified while an earlier one of its stream is not, although a cycle     *)
(* dates its failures before it stores them.                                *)
THEOREM OldestGoFirst ==
    ASSUME \A v, w \in Workers : v = w
    PROVE  Spec => []OldestFirst
<1>1. InOrder => OldestFirst
  BY DEF InOrder, NotifiedFirst, Before, OldestFirst
<1>2. InOrder /\ [Next]_vars => InOrder'
  BY StepInOrder
<1>3. QED
  BY <1>1, <1>2, InitInOrder, PTL DEF Spec

-----------------------------------------------------------------------------
(***************************************************************************)
(* One worker's messages of a stream are apart.  The columns of a stream   *)
(* outlive its worker, and they say of every message that was sent that    *)
(* the stream is not due before its delay is over: an attempt is recorded  *)
(* before its message, and dated later than the success before it.         *)
(***************************************************************************)
Columns == [attemptAt : Times, successAt : Times, error : BOOLEAN]

DueFrom(c) ==
    IF c.error \/ c.successAt = NoTime \/ c.attemptAt > c.successAt
    THEN c.attemptAt + Retry ELSE c.successAt + Interval

Delay(last) == IF last.recorded THEN Interval ELSE Retry

Settled(s) ==
    /\ schedule[s].successAt <= schedule[s].attemptAt
    /\ lastTry[s].at # NoTime =>
          /\ schedule[s].attemptAt # NoTime
          /\ DueFrom(schedule[s]) >= lastTry[s].at + Delay(lastTry[s])

MayFollow(last, t) == last.at # NoTime => t >= last.at + Delay(last)

Attempted(w) ==
    /\ schedule[stream[w]].attemptAt = at[w]
    /\ schedule[stream[w]].successAt < at[w]

UnderWay(w) ==
    /\ place[w] \in CheckPlaces => at[w] \in Nat
    /\ place[w] \in {"send", "record"} => Attempted(w)
    /\ place[w] = "send" => MayFollow(lastTry[stream[w]], at[w])
    /\ place[w] = "record" => lastTry[stream[w]] = [at |-> at[w], recorded |-> FALSE]

Spaced ==
    /\ TypeOK
    /\ \A s \in Streams : Settled(s)
    /\ \A w \in Workers : UnderWay(w)

LEMMA InitSpaced == Init => Spaced
  BY InitTyped DEF Init, Spaced, Settled, UnderWay, CheckPlaces, NoTime

LEMMA DueMeans ==
    ASSUME NEW s, NEW t
    PROVE  StreamIsDue(s, t) <=>
               schedule[s].attemptAt = NoTime \/ t >= DueFrom(schedule[s])
  BY DEF StreamIsDue, DueFrom

(* A due check is later than what the stream's columns record.              *)
LEMMA DueIsLater ==
    ASSUME NEW c \in Columns, c.successAt <= c.attemptAt, NEW t \in Nat,
           c.attemptAt = NoTime \/ t >= DueFrom(c)
    PROVE  c.attemptAt < t /\ c.successAt < t
<1>1. c.attemptAt \in Nat \union {-1} /\ c.successAt \in Nat \union {-1}
  BY DEF Columns, Times, NoTime
<1>2. Interval \in Nat /\ Interval > 0 /\ Retry \in Nat /\ Retry > 0
  BY SettingsAssumption
<1>3. QED
  BY <1>1, <1>2 DEF DueFrom, NoTime

(* The columns while an attempt is recorded without its result, after a     *)
(* failure, and after a success.                                            *)
LEMMA DueAfter ==
    ASSUME NEW c \in Columns, NEW t \in Nat, c.attemptAt = t
    PROVE  /\ c.successAt < t => DueFrom(c) = t + Retry
           /\ c.error => DueFrom(c) = t + Retry
           /\ c.successAt = t /\ ~ c.error => DueFrom(c) = t + Interval
<1>1. c.successAt \in Nat \union {-1} /\ t # -1
  BY DEF Columns, Times, NoTime
<1>2. QED
  BY <1>1 DEF DueFrom, NoTime

(* The only worker and the columns of its stream are all that is written.   *)
LEMMA SpacedOfOne ==
    ASSUME \A v, w \in Workers : v = w, Spaced, TypeOK', NEW w \in Workers, UnderWay(w)',
           NEW s \in Streams, Settled(s)',
           \A z \in Streams \ {s} : schedule'[z] = schedule[z] /\ lastTry'[z] = lastTry[z]
    PROVE  Spaced'
<1>1. ASSUME NEW z \in Streams \ {s}
      PROVE  Settled(z)'
  BY <1>1 DEF Spaced, Settled, DueFrom, Delay
<1>2. QED
  BY <1>1 DEF Spaced

LEMMA LeaveUnderWay ==
    ASSUME Spaced, NEW w \in Workers,
           Crash(w) \/ (place[w] \in CheckPlaces /\ Advance(w)) \/ CycleStep(w)
    PROVE  UnderWay(w)'
<1>1. CASE Crash(w) \/ CycleStep(w)
  <2>1. place'[w] \in {"idle", "ready", "cycle", "crm"}
    BY <1>1, CycleApart DEF Crash, Spaced, TypeOK
  <2>2. QED
    BY <2>1 DEF UnderWay, CheckPlaces
<1>2. CASE place[w] \in CheckPlaces /\ Advance(w)
  <2>1. place'[w] \in {"select", "ready"} /\ (place'[w] = "select" => at'[w] = at[w])
    BY <1>2 DEF Advance, Spaced, TypeOK
  <2>2. at[w] \in Nat
    BY <1>2 DEF Spaced, UnderWay
  <2>3. QED
    BY <2>1, <2>2 DEF UnderWay, CheckPlaces
<1>3. QED
  BY <1>1, <1>2

(* The columns and the last message of every stream are as they were.       *)
LEMMA SettledStays ==
    ASSUME Spaced, TypeOK', UNCHANGED <<schedule, lastTry>>,
           \A w \in Workers : UnderWay(w)'
    PROVE  Spaced'
  BY DEF Spaced, Settled, DueFrom, Delay

(* What is true of the check that begins an operation of its stream.        *)
LEMMA SelectFacts ==
    ASSUME Spaced, NEW w \in Workers, place[w] = "select", StreamIsDue(stream[w], at[w])
    PROVE  /\ stream[w] \in Streams /\ at[w] \in Nat
           /\ schedule[stream[w]] \in Columns
           /\ lastTry[stream[w]] \in [at : Times, recorded : BOOLEAN]
           /\ schedule[stream[w]].attemptAt < at[w] /\ schedule[stream[w]].successAt < at[w]
           /\ MayFollow(lastTry[stream[w]], at[w])
<1> DEFINE s == stream[w]
           c == schedule[s]
<1>1. s \in Streams /\ at[w] \in Nat /\ c \in Columns
      /\ lastTry[s] \in [at : Times, recorded : BOOLEAN]
  BY DEF Spaced, TypeOK, UnderWay, CheckPlaces, Columns
<1>2. c.successAt <= c.attemptAt /\ (c.attemptAt = NoTime \/ at[w] >= DueFrom(c))
  BY <1>1, DueMeans DEF Spaced, Settled
<1>3. c.attemptAt < at[w] /\ c.successAt < at[w]
  BY <1>1, <1>2, DueIsLater
<1>4. MayFollow(lastTry[s], at[w])
  <2>1. SUFFICES ASSUME lastTry[s].at # NoTime
                 PROVE  at[w] >= lastTry[s].at + Delay(lastTry[s])
    BY DEF MayFollow
  <2>2. c.attemptAt # NoTime /\ DueFrom(c) >= lastTry[s].at + Delay(lastTry[s])
    BY <1>1, <2>1 DEF Spaced, Settled
  <2>3. /\ DueFrom(c) \in Int /\ lastTry[s].at + Delay(lastTry[s]) \in Int
    <3>1. lastTry[s].at \in Int /\ c.attemptAt \in Int /\ c.successAt \in Int
      BY <1>1 DEF Columns, Times, NoTime
    <3>2. QED
      BY <3>1, SettingsAssumption DEF DueFrom, Delay
  <2>4. QED
    BY <1>1, <1>2, <2>2, <2>3
<1>5. QED
  BY <1>1, <1>3, <1>4

(* After t, where a message may follow the last one, its delay is over.     *)
LEMMA LaterStillMayFollow ==
    ASSUME NEW last \in [at : Times, recorded : BOOLEAN], last.at # NoTime,
           NEW t \in Nat, MayFollow(last, t), NEW d \in Nat
    PROVE  t + d >= last.at + Delay(last)
<1>1. last.at \in Nat /\ Delay(last) \in Nat
  BY SettingsAssumption DEF Times, Delay
<1>2. t >= last.at + Delay(last)
  BY DEF MayFollow
<1>3. QED
  BY <1>1, <1>2

LEMMA SettledBy ==
    ASSUME NEW s, NEW c, NEW last, schedule'[s] = c, lastTry'[s] = last,
           c.successAt <= c.attemptAt, c.attemptAt # NoTime,
           last.at # NoTime => DueFrom(c) >= last.at + Delay(last)
    PROVE  Settled(s)'
  BY DEF Settled, DueFrom, Delay

LEMMA EmptySpaced ==
    ASSUME \A v, w \in Workers : v = w, Spaced, TypeOK', NEW w \in Workers, EmptyBatch(w)
    PROVE  Spaced'
<1>1. place[w] = "select" /\ Advance(w)
  BY DEF EmptyBatch
<1>2. UnderWay(w)'
  BY <1>1, LeaveUnderWay DEF CheckPlaces
<1>3. PICK s \in Streams, t \in Nat, last \in [at : Times, recorded : BOOLEAN] :
          /\ s = stream[w] /\ t = at[w] /\ last = lastTry[s] /\ MayFollow(last, t)
  BY SelectFacts DEF EmptyBatch
<1>4. PICK c : c = [attemptAt |-> t, successAt |-> t, error |-> FALSE]
  OBVIOUS
<1>5. /\ schedule'[s] = c /\ lastTry' = lastTry
      /\ \A z \in Streams \ {s} : schedule'[z] = schedule[z]
  BY <1>3, <1>4 DEF EmptyBatch, past, Spaced, TypeOK
<1>6. c \in Columns /\ c.attemptAt = t /\ c.successAt = t /\ ~ c.error /\ t # NoTime
  BY <1>4 DEF Columns, Times, NoTime
<1>7. DueFrom(c) = t + Interval
  BY <1>6, DueAfter
<1>8. last.at # NoTime => DueFrom(c) >= last.at + Delay(last)
  BY <1>3, <1>7, LaterStillMayFollow, SettingsAssumption
<1>9. c.successAt <= c.attemptAt
  BY <1>6
<1>10. Settled(s)'
  BY <1>3, <1>5, <1>6, <1>8, <1>9, SettledBy
<1>11. QED
  BY <1>2, <1>5, <1>10, SpacedOfOne

LEMMA SelectSpaced ==
    ASSUME \A v, w \in Workers : v = w, Spaced, TypeOK', NEW w \in Workers,
           NEW b \in SUBSET Items, SelectBatch(w, b)
    PROVE  Spaced'
<1>1. PICK s \in Streams, t \in Nat, last \in [at : Times, recorded : BOOLEAN] :
          /\ s = stream[w] /\ t = at[w] /\ last = lastTry[s] /\ MayFollow(last, t)
          /\ schedule[s] \in Columns /\ schedule[s].successAt < t
  BY SelectFacts DEF SelectBatch
<1>2. PICK c : c = [schedule[s] EXCEPT !.attemptAt = t]
  OBVIOUS
<1>3. /\ schedule'[s] = c /\ lastTry' = lastTry
      /\ \A z \in Streams \ {s} : schedule'[z] = schedule[z]
  BY <1>1, <1>2 DEF SelectBatch, past, Spaced, TypeOK
<1>4. c \in Columns /\ c.attemptAt = t /\ c.successAt = schedule[s].successAt
  BY <1>1, <1>2 DEF Columns, Times, NoTime
<1>5. t # NoTime /\ c.successAt \in Int
  BY <1>4 DEF Columns, Times, NoTime
<1>6. place'[w] = "send" /\ stream' = stream /\ at' = at
  BY DEF SelectBatch, Stay, Spaced, TypeOK
<1>7. UnderWay(w)'
  BY <1>1, <1>3, <1>4, <1>6 DEF UnderWay, Attempted, MayFollow, Delay
<1>8. DueFrom(c) = t + Retry /\ c.successAt <= c.attemptAt
  BY <1>1, <1>4, <1>5, DueAfter
<1>9. last.at # NoTime => DueFrom(c) >= last.at + Delay(last)
  BY <1>1, <1>8, LaterStillMayFollow, SettingsAssumption
<1>10. Settled(s)'
  BY <1>1, <1>3, <1>4, <1>5, <1>8, <1>9, SettledBy
<1>11. QED
  BY <1>3, <1>7, <1>10, SpacedOfOne

(* What is true of a worker after the attempt of its batch was recorded.    *)
LEMMA AttemptFacts ==
    ASSUME Spaced, NEW w \in Workers, place[w] \in {"send", "record"}
    PROVE  /\ stream[w] \in Streams /\ at[w] \in Nat
           /\ schedule[stream[w]] \in Columns
           /\ schedule[stream[w]].attemptAt = at[w]
           /\ schedule[stream[w]].successAt < at[w]
<1>1. stream[w] \in Streams /\ at[w] \in Nat /\ Attempted(w)
  BY DEF Spaced, TypeOK, UnderWay, CheckPlaces
<1>2. schedule[stream[w]] \in Columns
  BY <1>1 DEF Spaced, TypeOK, Columns
<1>3. QED
  BY <1>1, <1>2 DEF Attempted

LEMMA SendSpaced ==
    ASSUME \A v, w \in Workers : v = w, Spaced, TypeOK', NEW w \in Workers,
           NEW d \in StreamDeliveries[stream[w]], SendBatch(w, d)
    PROVE  Spaced'
<1>1. place[w] = "send"
  BY DEF SendBatch
<1>2. PICK s \in Streams, t \in Nat, c \in Columns :
          /\ s = stream[w] /\ t = at[w] /\ c = schedule[s]
          /\ c.attemptAt = t /\ c.successAt < t
  BY <1>1, AttemptFacts
<1>3. PICK last : last = [at |-> t, recorded |-> FALSE]
  OBVIOUS
<1>4. /\ schedule' = schedule /\ lastTry'[s] = last
      /\ \A z \in Streams \ {s} : lastTry'[z] = lastTry[z]
  BY <1>2, <1>3 DEF SendBatch, data, Spaced, TypeOK
<1>5. place'[w] = "record" /\ stream' = stream /\ at' = at
  BY DEF SendBatch, Stay, Spaced, TypeOK
<1>6. UnderWay(w)'
  BY <1>2, <1>3, <1>4, <1>5 DEF UnderWay, Attempted
<1>7. last.at = t /\ Delay(last) = Retry
  BY <1>3 DEF Delay
<1>8. DueFrom(c) = t + Retry
  BY <1>2, DueAfter
<1>9. t # NoTime /\ c.successAt \in Int
  BY DEF Columns, Times, NoTime
<1>10. c.successAt <= c.attemptAt /\ DueFrom(c) >= last.at + Delay(last)
  BY <1>2, <1>7, <1>8, <1>9, SettingsAssumption
<1>11. Settled(s)'
  BY <1>2, <1>4, <1>9, <1>10, SettledBy
<1>12. QED
  BY <1>4, <1>6, <1>11, SpacedOfOne

LEMMA RecordSpaced ==
    ASSUME \A v, w \in Workers : v = w, Spaced, TypeOK', NEW w \in Workers,
           RecordSent(w) \/ RecordFailed(w)
    PROVE  Spaced'
<1>1. place[w] = "record" /\ Advance(w)
  BY DEF RecordSent, RecordFailed
<1>2. PICK s \in Streams, t \in Nat :
          /\ s = stream[w] /\ t = at[w] /\ schedule[s] \in Columns
          /\ schedule[s].attemptAt = t /\ schedule[s].successAt < t
  BY <1>1, AttemptFacts
<1>3. t # NoTime /\ schedule[s].successAt \in Int
  BY <1>2 DEF Columns, Times, NoTime
<1>4. lastTry[s] = [at |-> t, recorded |-> FALSE]
  BY <1>1, <1>2 DEF Spaced, UnderWay
<1>5. UnderWay(w)'
  BY <1>1, LeaveUnderWay DEF CheckPlaces
<1>6. CASE RecordSent(w)
  <2>1. PICK c, last : /\ c = [attemptAt |-> t, successAt |-> t, error |-> FALSE]
                       /\ last = [lastTry[s] EXCEPT !.recorded = TRUE]
    OBVIOUS
  <2>2. schedule'[s] = c /\ \A z \in Streams \ {s} : schedule'[z] = schedule[z]
    BY <1>2, <1>6, <2>1 DEF RecordSent, Spaced, TypeOK
  <2>3. lastTry' = [lastTry EXCEPT ![s] = last]
    BY <1>2, <1>6, <2>1 DEF RecordSent
  <2>4. last.at = t /\ last.recorded
    BY <1>4, <2>1 DEF Spaced, TypeOK
  <2>5. lastTry'[s] = last /\ \A z \in Streams \ {s} : lastTry'[z] = lastTry[z]
    BY <2>3 DEF Spaced, TypeOK
  <2>6. /\ c \in Columns /\ c.attemptAt = t /\ c.successAt = t /\ ~ c.error
        /\ last.at = t /\ Delay(last) = Interval
    BY <2>1, <2>4 DEF Columns, Times, Delay
  <2>7. DueFrom(c) = t + Interval
    BY <2>6, DueAfter
  <2>8. c.successAt <= c.attemptAt /\ DueFrom(c) >= last.at + Delay(last)
    BY <2>6, <2>7, SettingsAssumption
  <2>9. Settled(s)'
    BY <1>3, <2>2, <2>5, <2>6, <2>8, SettledBy
  <2>10. QED
    BY <1>5, <2>2, <2>5, <2>9, SpacedOfOne
<1>7. CASE RecordFailed(w)
  <2>1. PICK c, last : /\ c = [schedule[s] EXCEPT !.attemptAt = t, !.error = TRUE]
                       /\ last = lastTry[s]
    OBVIOUS
  <2>2. /\ schedule'[s] = c /\ lastTry' = lastTry
        /\ \A z \in Streams \ {s} : schedule'[z] = schedule[z]
    BY <1>2, <1>7, <2>1 DEF RecordFailed, past, Spaced, TypeOK
  <2>3. c \in Columns /\ c.attemptAt = t /\ c.successAt = schedule[s].successAt /\ c.error
    BY <1>2, <2>1 DEF Columns, Times
  <2>4. last.at = t /\ Delay(last) = Retry
    BY <1>4, <2>1 DEF Delay
  <2>5. DueFrom(c) = t + Retry
    BY <2>3, DueAfter
  <2>6. c.successAt <= c.attemptAt /\ DueFrom(c) >= last.at + Delay(last)
    BY <1>2, <1>3, <2>3, <2>4, <2>5, SettingsAssumption
  <2>7. Settled(s)'
    BY <1>3, <2>1, <2>2, <2>3, <2>6, SettledBy
  <2>8. QED
    BY <1>5, <2>2, <2>7, SpacedOfOne
<1>8. QED
  BY <1>6, <1>7

LEMMA StepSpaced ==
    ASSUME \A v, w \in Workers : v = w, Spaced, [Next]_vars
    PROVE  Spaced'
<1>1. TypeOK'
  BY StepTyped DEF Spaced
<1>2. ASSUME NEW w \in Workers, UNCHANGED <<schedule, lastTry>>, UnderWay(w)'
      PROVE  Spaced'
  BY <1>1, <1>2, SettledStays
<1>3. ASSUME NEW w \in Workers, StartCheck(w)
      PROVE  Spaced'
  <2>1. place'[w] = "select" /\ at'[w] = now /\ now \in Nat
    BY <1>3 DEF StartCheck, Spaced, TypeOK
  <2>2. UnderWay(w)'
    BY <2>1 DEF UnderWay
  <2>3. QED
    BY <1>2, <1>3, <2>2 DEF StartCheck, data, past
<1>4. ASSUME NEW w \in Workers,
             NotDue(w) \/ OperationRaises(w) \/ Crash(w) \/ CycleStep(w)
      PROVE  Spaced'
  <2>1. Crash(w) \/ (place[w] \in CheckPlaces /\ Advance(w)) \/ CycleStep(w)
    BY <1>4 DEF NotDue, OperationRaises, CheckPlaces
  <2>2. UnderWay(w)'
    BY <2>1, LeaveUnderWay
  <2>3. UNCHANGED <<schedule, lastTry>>
    BY <1>4, CycleApart DEF NotDue, OperationRaises, Crash, Spaced, data, past
  <2>4. QED
    BY <1>2, <2>2, <2>3
<1>5. CASE UNCHANGED <<schedule, lastTry, place, stream, at>>
  <2>1. \A w \in Workers : UnderWay(w)'
    BY <1>5 DEF Spaced, UnderWay, Attempted, MayFollow, Delay
  <2>2. QED
    BY <1>1, <1>5, <2>1, SettledStays
<1>6. CASE Tick \/ UNCHANGED vars
  BY <1>5, <1>6 DEF Tick, vars, data, worker, past
<1>7. QED
  BY <1>1, <1>3, <1>4, <1>6, EmptySpaced, SelectSpaced, SendSpaced, RecordSpaced
     DEF Next, CheckStep

(* docs/08_notifications.md: a failing stream is not retried "more often    *)
(* than every 5 minutes", nor a successful one before its interval: with    *)
(* one worker, whatever crashes and however the check's own timer restarts, *)
(* _stream_is_due keeps the messages of a stream their delay apart, for any *)
(* delays.                                                                  *)
THEOREM MessagesApart ==
    ASSUME \A v, w \in Workers : v = w
    PROVE  Spec => []TriesApart
<1>1. Spaced => TriesApart
  BY DEF Spaced, UnderWay, MayFollow, Delay, TriesApart
<1>2. Spaced /\ [Next]_vars => Spaced'
  BY StepSpaced
<1>3. QED
  BY <1>1, <1>2, InitSpaced, PTL DEF Spec
=============================================================================
