--------------------------- MODULE PauseAlertProofs ---------------------------
(***************************************************************************)
(* Proofs about the pause alert, for any number of workers, activations    *)
(* and faults: an alert recorded as sent, and a recorded error, belong to  *)
(* the pause that is active, and what people heard of it is recorded.  One *)
(* worker, as deployed, repeats an alert only after a failure or a fault.  *)
(***************************************************************************)
EXTENDS PauseAlert, SmtpSenderProofs

LEMMA PauseDelivery ==
    ASSUME NEW d \in PauseDeliveries
    PROVE  d.sent \in BOOLEAN /\ (d.sent => d.taken = People)
<1>1. Addressees.pause = People
  BY DEF Addressees, People
<1>2. QED
  BY <1>1, DeliveryForm DEF PauseDeliveries

-----------------------------------------------------------------------------
(***************************************************************************)
(* The inductive invariant.  A worker that mails or records holds a pause  *)
(* that was active; when it records, its result is about that pause.       *)
(***************************************************************************)
Told(e) == \A p \in People : copies[e][p] > 0

Holds(w) == place[w] \in {"send", "record"} => captured[w] \in Pauses

ResultOfCaptured(w) ==
    place[w] = "record" => IF sent[w] THEN Told(captured[w]) ELSE captured[w] \in missed

Inv ==
    /\ TypeOK
    /\ \A w \in Workers : Holds(w) /\ ResultOfCaptured(w)
    /\ AlertBelongsToPause

LEMMA InitInv == Init => Inv
<1> SUFFICES ASSUME Init PROVE Inv
  OBVIOUS
<1>1. 0 \in 0..Retry /\ 0 \in 0..MaxPauses /\ 0 \in 0..MaxFaults /\ 0 \in 0..Many
  BY PauseAssumption DEF Many
<1>2. TypeOK
  BY <1>1 DEF Init, TypeOK
<1>3. \A w \in Workers : Holds(w) /\ ResultOfCaptured(w)
  BY DEF Init, Holds, ResultOfCaptured
<1>4. AlertBelongsToPause
  BY DEF Init, AlertBelongsToPause
<1>5. QED
  BY <1>2, <1>3, <1>4 DEF Inv

(* A worker that returns holds no pause.                                    *)
LEMMA ReturnKept ==
    ASSUME Inv, NEW w \in Workers, Return(w), UNCHANGED past
    PROVE  /\ place' \in [Workers -> {"idle", "crm", "alert", "send", "record"}]
           /\ captured' \in [Workers -> Pauses \union {NoPause}]
           /\ sent' \in [Workers -> BOOLEAN]
           /\ \A v \in Workers : Holds(v)' /\ ResultOfCaptured(v)'
  BY DEF Return, Goto, past, Inv, TypeOK, Holds, ResultOfCaptured, Told

(* A worker that moves elsewhere than to the mail, and keeps the rest.      *)
LEMMA GotoKept ==
    ASSUME Inv, NEW w \in Workers, NEW to \in {"idle", "crm", "alert"}, Goto(w, to),
           UNCHANGED <<captured, sent, past>>
    PROVE  /\ place' \in [Workers -> {"idle", "crm", "alert", "send", "record"}]
           /\ \A v \in Workers : Holds(v)' /\ ResultOfCaptured(v)'
  BY DEF Goto, past, Inv, TypeOK, Holds, ResultOfCaptured, Told

LEMMA ActivateKept ==
    ASSUME Inv, NEW w \in Workers, ActivatePause(w)
    PROVE  Inv'
<1>1. /\ place' \in [Workers -> {"idle", "crm", "alert", "send", "record"}]
      /\ \A v \in Workers : Holds(v)' /\ ResultOfCaptured(v)'
  BY GotoKept DEF ActivatePause
<1>2. CASE AlreadyPaused(w)
  BY <1>1, <1>2 DEF ActivatePause, AlreadyPaused, state, past, Inv, TypeOK,
                    AlertBelongsToPause, Paused
<1>3. ASSUME NEW r \in Reasons, NewPause(w, r)
      PROVE  Inv'
  <2>1. activations' \in 1..MaxPauses
    BY <1>3, PauseAssumption DEF NewPause, Inv, TypeOK
  <2>2. pause' \in Pauses
    BY <1>3, <2>1 DEF NewPause, Pauses
  <2>3. TypeOK'
    <3>1. activations' \in 0..MaxPauses
      BY <2>1, PauseAssumption
    <3>2. alertSent' \in BOOLEAN /\ alertError' \in BOOLEAN
      BY <1>3 DEF NewPause
    <3>3. UNCHANGED <<captured, sent, untilCheck, copies, missed, faults>>
      BY DEF ActivatePause, past
    <3>4. QED
      BY <1>1, <2>2, <3>1, <3>2, <3>3 DEF Inv, TypeOK
  <2>4. QED
    BY <1>1, <1>3, <2>3 DEF NewPause, Inv, AlertBelongsToPause
<1>4. QED
  BY <1>2, <1>3 DEF ActivatePause

LEMMA SendKept ==
    ASSUME Inv, NEW w \in Workers, NEW d \in PauseDeliveries, SendAlert(w, d)
    PROVE  Inv'
<1> DEFINE e == captured[w]
<1>1. e \in Pauses
  BY DEF SendAlert, Inv, Holds
<1>2. d.sent \in BOOLEAN /\ (d.sent => d.taken = People)
  BY PauseDelivery
<1>3. ASSUME NEW p \in People
      PROVE  /\ copies[e][p] \in 0..2
             /\ copies'[e][p] = IF p \in d.taken THEN OneMore(copies[e][p]) ELSE copies[e][p]
  BY <1>1 DEF SendAlert, Inv, TypeOK, Many
<1>4. \A f \in Pauses \ {e} : copies'[f] = copies[f]
  BY <1>1 DEF SendAlert, Inv, TypeOK
<1>5. \A p \in People :
          /\ copies'[e][p] \in 0..2
          /\ copies[e][p] > 0 \/ p \in d.taken => copies'[e][p] > 0
  BY <1>3 DEF OneMore, Many
<1>6. \A f \in Pauses : Told(f) => Told(f)'
  BY <1>4, <1>5 DEF Told
<1>7. d.sent => \A p \in People : copies'[e][p] > 0
  BY <1>2, <1>5
<1>8. missed' \subseteq Pauses /\ missed \subseteq missed' /\ (~ d.sent => e \in missed')
  BY <1>1 DEF SendAlert, Inv, TypeOK
<1>9. copies' \in [Pauses -> [People -> 0..Many]]
  BY <1>1 DEF SendAlert, Inv, TypeOK, OneMore, Many
<1>10. TypeOK'
  BY <1>2, <1>8, <1>9 DEF SendAlert, Goto, state, bounds, Inv, TypeOK
<1>11. ASSUME NEW v \in Workers
       PROVE  Holds(v)' /\ ResultOfCaptured(v)'
  <2>1. CASE v = w
    BY <1>1, <1>7, <1>8, <2>1 DEF SendAlert, Goto, Inv, TypeOK, Holds, ResultOfCaptured, Told
  <2>2. CASE v # w
    <3>1. place'[v] = place[v] /\ captured'[v] = captured[v] /\ sent'[v] = sent[v]
      BY <2>2 DEF SendAlert, Goto, Inv, TypeOK
    <3>2. Holds(v) /\ ResultOfCaptured(v)
      BY DEF Inv
    <3>3. QED
      BY <1>6, <1>8, <3>1, <3>2 DEF Holds, ResultOfCaptured, Told
  <2>3. QED
    BY <2>1, <2>2
<1>12. AlertBelongsToPause'
  <2>1. /\ alertSent => Paused /\ Told(pause)
        /\ alertError => pause \in missed
    BY DEF Inv, AlertBelongsToPause, Told
  <2>2. Paused => pause \in Pauses
    BY DEF Inv, TypeOK, Paused
  <2>3. UNCHANGED <<pause, alertSent, alertError>>
    BY DEF SendAlert, state
  <2>4. QED
    BY <1>6, <1>8, <2>1, <2>2, <2>3 DEF AlertBelongsToPause, Told, Paused
<1>13. QED
  BY <1>10, <1>11, <1>12 DEF Inv

LEMMA RecordKept ==
    ASSUME Inv, NEW w \in Workers, RecordAlert(w)
    PROVE  Inv'
<1>1. /\ place' \in [Workers -> {"idle", "crm", "alert", "send", "record"}]
      /\ captured' \in [Workers -> Pauses \union {NoPause}]
      /\ sent' \in [Workers -> BOOLEAN]
      /\ \A v \in Workers : Holds(v)' /\ ResultOfCaptured(v)'
  BY ReturnKept DEF RecordAlert
<1>2. TypeOK'
  BY <1>1 DEF RecordAlert, past, bounds, Inv, TypeOK
<1>3. pause \in Pauses /\ (IF sent[w] THEN Told(pause) ELSE pause \in missed)
  BY DEF RecordAlert, SamePause, Inv, Holds, ResultOfCaptured
<1>4. NoPause \notin Pauses
  BY DEF NoPause, Pauses, Reasons
<1>5. AlertBelongsToPause'
  BY <1>3, <1>4 DEF RecordAlert, past, AlertBelongsToPause, Paused, Told
<1>6. QED
  BY <1>1, <1>2, <1>5 DEF Inv

LEMMA StepKept ==
    ASSUME Inv, [Next]_vars
    PROVE  Inv'
<1>1. ASSUME NEW w \in Workers, ClaimCrmWork(w) \/ FinishCrmWork(w)
      PROVE  Inv'
  BY <1>1, GotoKept DEF ClaimCrmWork, FinishCrmWork, state, past, bounds, Inv, TypeOK,
                        AlertBelongsToPause, Paused
<1>2. ASSUME NEW w \in Workers, StartCheck(w)
      PROVE  Inv'
  <2>1. untilCheck' \in [Workers -> 0..Retry]
    BY <1>2, PauseAssumption DEF StartCheck, Inv, TypeOK
  <2>2. QED
    BY <1>2, <2>1, GotoKept DEF StartCheck, state, past, bounds, Inv, TypeOK,
                                AlertBelongsToPause, Paused
<1>3. ASSUME NEW w \in Workers, NothingToAlert(w) \/ StalePause(w)
      PROVE  Inv'
  BY <1>3, ReturnKept DEF NothingToAlert, StalePause, state, past, bounds, Inv, TypeOK,
                          AlertBelongsToPause, Paused
<1>4. ASSUME NEW w \in Workers, CapturePause(w)
      PROVE  Inv'
  <2>1. pause \in Pauses
    BY <1>4 DEF CapturePause, Paused, Inv, TypeOK
  <2>2. TypeOK'
    BY <1>4, <2>1 DEF CapturePause, Goto, state, past, bounds, Inv, TypeOK
  <2>3. \A v \in Workers : Holds(v)' /\ ResultOfCaptured(v)'
    BY <1>4, <2>1 DEF CapturePause, Goto, past, Inv, TypeOK, Holds, ResultOfCaptured, Told
  <2>4. QED
    BY <1>4, <2>2, <2>3 DEF CapturePause, state, past, Inv, AlertBelongsToPause, Paused
<1>5. ASSUME NEW w \in Workers, Crash(w)
      PROVE  Inv'
  <2>1. /\ untilCheck' \in [Workers -> 0..Retry]
        /\ faults' \in 0..MaxFaults
    BY <1>5, PauseAssumption DEF Crash, Inv, TypeOK
  <2>2. QED
    BY <1>5, <2>1, ReturnKept DEF Crash, state, past, Inv, TypeOK, AlertBelongsToPause, Paused
<1>6. ASSUME NEW w \in Workers, AlertRaises(w)
      PROVE  Inv'
  <2>1. faults' \in 0..MaxFaults
    BY <1>6, PauseAssumption DEF AlertRaises, Inv, TypeOK
  <2>2. QED
    BY <1>6, <2>1, ReturnKept DEF AlertRaises, state, past, Inv, TypeOK,
                                  AlertBelongsToPause, Paused
<1>7. CASE ClearPause
  BY <1>7 DEF ClearPause, ClearColumns, worker, past, bounds, Inv, TypeOK, Holds,
              ResultOfCaptured, Told, AlertBelongsToPause
<1>8. CASE Tick
  <2>1. untilCheck' \in [Workers -> 0..Retry]
    <3>1. ASSUME NEW v \in Workers
          PROVE  (IF untilCheck[v] = 0 THEN 0 ELSE untilCheck[v] - 1) \in 0..Retry
      <4>1. untilCheck[v] \in 0..Retry
        BY DEF Inv, TypeOK
      <4>2. QED
        BY <4>1, PauseAssumption
    <3>2. QED
      BY <1>8, <3>1 DEF Tick
  <2>2. QED
    BY <1>8, <2>1 DEF Tick, state, past, bounds, Inv, TypeOK, Holds, ResultOfCaptured, Told,
                      AlertBelongsToPause, Paused
<1>9. CASE UNCHANGED vars
  BY <1>9 DEF vars, Inv, TypeOK, Holds, ResultOfCaptured, Told, AlertBelongsToPause, Paused
<1>10. QED
  BY <1>1, <1>2, <1>3, <1>4, <1>5, <1>6, <1>7, <1>8, <1>9, ActivateKept, SendKept, RecordKept
     DEF Next, WorkerStep

LEMMA Always == Spec => []Inv
  BY InitInv, StepKept, PTL DEF Spec

(* notifications/service.py: the columns of the pause alert and the memory  *)
(* of its workers keep their types, for any number of workers and faults.   *)
THEOREM Types == Spec => []TypeOK
<1>1. Inv => TypeOK
  BY DEF Inv
<1>2. QED
  BY <1>1, Always, PTL

(* notifications/service.py: however the pause is cleared and activated     *)
(* while workers mail it, an alert is recorded as sent only for the pause   *)
(* all addressees were told of, an error only for the pause it is about.    *)
THEOREM AlertBelongs == Spec => []AlertBelongsToPause
<1>1. Inv => AlertBelongsToPause
  BY DEF Inv
<1>2. QED
  BY <1>1, Always, PTL

-----------------------------------------------------------------------------
(***************************************************************************)
(* What people heard is recorded, with any number of workers.  A new pause *)
(* was in no message, as it is not one of those activated before (Known);  *)
(* the first message about it fails, or its worker records it, unless      *)
(* another one did.                                                        *)
(***************************************************************************)
Untold(e) == \A p \in People : copies[e][p] = 0

Activated(e) == e.at <= activations

Known ==
    /\ Paused => Activated(pause)
    /\ \A w \in Workers : place[w] \in {"send", "record"} => Activated(captured[w])
    /\ \A e \in Pauses : Activated(e) \/ Untold(e)

Recording(w, e) == place[w] = "record" /\ captured[w] = e /\ sent[w]

Awaited(e) ==
    pause = e /\ ~ alertSent /\ e \notin missed =>
        Untold(e) \/ \E w \in Workers : Recording(w, e)

AllAwaited == faults = 0 => \A e \in Pauses : Awaited(e)

Heard == Inv /\ Known /\ AllAwaited

LEMMA InitHeard == Init => Heard
<1> SUFFICES ASSUME Init PROVE Heard
  OBVIOUS
<1>1. \A e \in Pauses : Untold(e)
  BY DEF Init, Untold
<1>2. Known
  BY <1>1 DEF Init, Known, Paused
<1>3. AllAwaited
  BY <1>1 DEF AllAwaited, Awaited
<1>4. QED
  BY <1>2, <1>3, InitInv DEF Heard

LEMMA SendKnown ==
    ASSUME Heard, NEW w \in Workers, NEW d \in PauseDeliveries, SendAlert(w, d)
    PROVE  Known'
<1>1. PICK e \in Pauses : e = captured[w] /\ Activated(e)
  BY DEF SendAlert, Heard, Inv, Holds, Known
<1>2. \A f \in Pauses \ {e} : copies'[f] = copies[f]
  BY <1>1 DEF SendAlert, Heard, Inv, TypeOK
<1>3. UNCHANGED <<pause, activations, captured>>
  BY DEF SendAlert, state, bounds
<1>4. \A v \in Workers : place'[v] \in {"send", "record"} => place[v] \in {"send", "record"}
  BY DEF SendAlert, Goto, Heard, Inv, TypeOK
<1>5. QED
  BY <1>1, <1>2, <1>3, <1>4 DEF Heard, Known, Paused, Activated, Untold

LEMMA OtherKnown ==
    ASSUME Heard, Inv', [Next]_vars, UNCHANGED copies
    PROVE  Known'
<1>1. ASSUME UNCHANGED activations,
             \/ pause' = pause
             \/ pause' = NoPause,
             \A v \in Workers : place'[v] \in {"send", "record"} =>
                 \/ place[v] \in {"send", "record"} /\ captured'[v] = captured[v]
                 \/ Paused /\ captured'[v] = pause
      PROVE  Known'
  BY <1>1 DEF Heard, Known, Paused, Activated, Untold
<1>2. ASSUME NEW w \in Workers,
             ClaimCrmWork(w) \/ FinishCrmWork(w) \/ StartCheck(w) \/ NothingToAlert(w)
             \/ CapturePause(w) \/ RecordAlert(w) \/ StalePause(w) \/ AlertRaises(w) \/ Crash(w)
      PROVE  Known'
  BY <1>1, <1>2 DEF ClaimCrmWork, FinishCrmWork, StartCheck, NothingToAlert, CapturePause,
                    RecordAlert, StalePause, AlertRaises, Crash, Return, Goto, state, bounds,
                    Heard, Inv, TypeOK
<1>3. ASSUME NEW w \in Workers, ActivatePause(w)
      PROVE  Known'
  <2>1. \A v \in Workers : place'[v] \in {"send", "record"} =>
            place[v] \in {"send", "record"} /\ captured'[v] = captured[v]
    BY <1>3 DEF ActivatePause, Goto, Heard, Inv, TypeOK
  <2>2. CASE AlreadyPaused(w)
    BY <1>1, <2>1, <2>2 DEF AlreadyPaused, state
  <2>3. ASSUME NEW r \in Reasons, NewPause(w, r)
        PROVE  Known'
    <3>1. activations' = activations + 1 /\ pause'.at = activations' /\ activations \in Int
      BY <2>3 DEF NewPause, Heard, Inv, TypeOK
    <3>2. \A e : e.at \in Int /\ Activated(e) => Activated(e)'
      BY <3>1 DEF Activated
    <3>3. \A e \in Pauses : e.at \in Int
      BY PauseAssumption DEF Pauses
    <3>4. \A v \in Workers : place[v] \in {"send", "record"} => captured[v] \in Pauses
      BY DEF Heard, Inv, Holds
    <3>5. Activated(pause)'
      BY <3>1 DEF Activated
    <3>6. \A v \in Workers : place'[v] \in {"send", "record"} => Activated(captured[v])'
      BY <2>1, <3>1, <3>3, <3>4 DEF Heard, Known, Activated
    <3>7. \A e \in Pauses : (Activated(e) \/ Untold(e))'
      BY <3>2, <3>3 DEF Heard, Known, Untold
    <3>8. QED
      BY <3>5, <3>6, <3>7 DEF Known
  <2>4. QED
    BY <1>3, <2>2, <2>3 DEF ActivatePause
<1>4. CASE ClearPause
  BY <1>1, <1>4 DEF ClearPause, ClearColumns, worker, bounds
<1>5. CASE Tick \/ UNCHANGED vars
  BY <1>1, <1>5 DEF Tick, vars, state, bounds
<1>6. ASSUME NEW w \in Workers, NEW d \in PauseDeliveries, SendAlert(w, d)
      PROVE  Known'
  BY <1>6, SendKnown
<1>7. QED
  BY <1>2, <1>3, <1>4, <1>5, <1>6 DEF Next, WorkerStep

(* A step that neither sends nor records keeps what is awaited.             *)
LEMMA QuietAwaited ==
    ASSUME Heard, UNCHANGED <<pause, alertSent, captured, sent, past, faults>>,
           \A v \in Workers : place[v] = "record" => place'[v] = "record"
    PROVE  AllAwaited'
  BY DEF past, Heard, AllAwaited, Awaited, Untold, Recording

LEMMA ReturnAwaited ==
    ASSUME Heard, NEW w \in Workers, place[w] # "record", Return(w),
           UNCHANGED <<pause, alertSent, past, faults>>
    PROVE  AllAwaited'
<1>1. ASSUME NEW v \in Workers, NEW e \in Pauses, Recording(v, e)
      PROVE  Recording(v, e)'
  BY <1>1 DEF Return, Goto, Recording, Heard, Inv, TypeOK
<1>2. QED
  BY <1>1 DEF past, Heard, AllAwaited, Awaited, Untold

LEMMA ActivateAwaited ==
    ASSUME Heard, Inv', NEW w \in Workers, ActivatePause(w)
    PROVE  AllAwaited'
<1>1. /\ \A v \in Workers : place[v] = "record" => place'[v] = "record"
      /\ UNCHANGED <<captured, sent, past, faults>>
  BY DEF ActivatePause, AlreadyPaused, NewPause, Goto, Heard, Inv, TypeOK
<1>2. CASE AlreadyPaused(w)
  BY <1>1, <1>2, QuietAwaited DEF AlreadyPaused, state
<1>3. ASSUME NEW r \in Reasons, NewPause(w, r)
      PROVE  AllAwaited'
  <2>1. pause' \in Pauses /\ pause'.at = activations + 1 /\ activations \in Int
    BY <1>3 DEF NewPause, Pauses, Heard, Inv, TypeOK
  <2>2. \A e \in Pauses : pause' = e => Untold(e)
    BY <2>1 DEF Heard, Known, Activated
  <2>3. QED
    BY <1>1, <2>2 DEF past, AllAwaited, Awaited, Untold
<1>4. QED
  BY <1>2, <1>3 DEF ActivatePause

LEMMA SendAwaited ==
    ASSUME Heard, NEW w \in Workers, NEW d \in PauseDeliveries, SendAlert(w, d)
    PROVE  AllAwaited'
<1>1. PICK e \in Pauses : e = captured[w]
  BY DEF SendAlert, Heard, Inv, Holds
<1>2. /\ place[w] = "send" /\ place'[w] = "record" /\ sent'[w] = d.sent
      /\ missed' = IF d.sent THEN missed ELSE missed \union {e}
      /\ UNCHANGED <<pause, alertSent, captured, faults>>
      /\ \A v \in Workers \ {w} : place'[v] = place[v] /\ sent'[v] = sent[v]
  BY <1>1 DEF SendAlert, Goto, state, bounds, Heard, Inv, TypeOK
<1>3. \A f \in Pauses \ {e} : copies'[f] = copies[f]
  BY <1>1 DEF SendAlert, Heard, Inv, TypeOK
<1>4. ASSUME NEW f \in Pauses, faults = 0
      PROVE  Awaited(f)'
  <2>1. CASE f = e
    BY <1>1, <1>2, <2>1 DEF Awaited, Recording
  <2>2. CASE f # e
    <3>1. ASSUME NEW v \in Workers, Recording(v, f)
          PROVE  Recording(v, f)'
      BY <1>2, <3>1 DEF Recording
    <3>2. Awaited(f)
      BY <1>4 DEF Heard, AllAwaited
    <3>3. QED
      BY <1>2, <1>3, <2>2, <3>1, <3>2 DEF Awaited, Untold
  <2>3. QED
    BY <2>1, <2>2
<1>5. QED
  BY <1>2, <1>4 DEF AllAwaited

(* A result is recorded, or it is that of a pause that is over.             *)
LEMMA RecordAwaited ==
    ASSUME Heard, NEW w \in Workers, RecordAlert(w) \/ StalePause(w)
    PROVE  AllAwaited'
<1>1. /\ UNCHANGED <<pause, copies, missed, faults>>
      /\ \A v \in Workers \ {w} :
            place'[v] = place[v] /\ captured'[v] = captured[v] /\ sent'[v] = sent[v]
  BY DEF RecordAlert, StalePause, Return, Goto, state, past, bounds, Heard, Inv, TypeOK
<1>2. ASSUME NEW f \in Pauses, faults = 0
      PROVE  Awaited(f)'
  <2>1. CASE RecordAlert(w)
    BY <1>1, <2>1 DEF RecordAlert, SamePause, Heard, Inv, ResultOfCaptured, Awaited
  <2>2. CASE StalePause(w)
    <3>1. SUFFICES ASSUME pause = f, ~ alertSent
                   PROVE  Awaited(f)'
      BY <1>1, <2>2 DEF StalePause, state, Awaited
    <3>2. captured[w] # f
      BY <2>2, <3>1 DEF StalePause, SamePause
    <3>3. ASSUME NEW v \in Workers, Recording(v, f)
          PROVE  Recording(v, f)'
      BY <1>1, <3>2, <3>3 DEF Recording
    <3>4. Awaited(f)
      BY <1>2 DEF Heard, AllAwaited
    <3>5. QED
      BY <1>1, <2>2, <3>3, <3>4 DEF StalePause, state, Awaited, Untold
  <2>3. QED
    BY <2>1, <2>2
<1>3. QED
  BY <1>1, <1>2 DEF AllAwaited

LEMMA StepAwaited ==
    ASSUME Heard, Inv', [Next]_vars
    PROVE  AllAwaited'
<1>1. ASSUME NEW w \in Workers,
             ClaimCrmWork(w) \/ FinishCrmWork(w) \/ StartCheck(w)
      PROVE  AllAwaited'
  BY <1>1, QuietAwaited DEF ClaimCrmWork, FinishCrmWork, StartCheck, Goto, state, bounds,
                            Heard, Inv, TypeOK
<1>2. ASSUME NEW w \in Workers, NothingToAlert(w)
      PROVE  AllAwaited'
  BY <1>2, ReturnAwaited DEF NothingToAlert, state, bounds
<1>3. ASSUME NEW w \in Workers, CapturePause(w)
      PROVE  AllAwaited'
  <2>1. UNCHANGED <<pause, alertSent, past, faults>>
    BY <1>3 DEF CapturePause, state, bounds
  <2>2. ASSUME NEW v \in Workers, NEW e \in Pauses, Recording(v, e)
        PROVE  Recording(v, e)'
    BY <1>3, <2>2 DEF CapturePause, Goto, Recording, Heard, Inv, TypeOK
  <2>3. QED
    BY <2>1, <2>2 DEF past, Heard, AllAwaited, Awaited, Untold
<1>4. ASSUME NEW w \in Workers, AlertRaises(w) \/ Crash(w)
      PROVE  AllAwaited'
  BY <1>4, PauseAssumption DEF AlertRaises, Crash, Heard, Inv, TypeOK, AllAwaited
<1>5. CASE ClearPause
  <2>1. pause' \notin Pauses
    BY <1>5 DEF ClearPause, ClearColumns, NoPause, Pauses, Reasons
  <2>2. QED
    BY <2>1 DEF AllAwaited, Awaited
<1>6. CASE Tick \/ UNCHANGED vars
  BY <1>6, QuietAwaited DEF Tick, vars, state, past, bounds
<1>7. QED
  BY <1>1, <1>2, <1>3, <1>4, <1>5, <1>6, ActivateAwaited, SendAwaited, RecordAwaited
     DEF Next, WorkerStep

LEMMA StepHeard == Heard /\ [Next]_vars => Heard'
<1> SUFFICES ASSUME Heard, [Next]_vars PROVE Heard'
  OBVIOUS
<1>1. Inv'
  BY StepKept DEF Heard
<1>2. AllAwaited'
  BY <1>1, StepAwaited
<1>3. ASSUME NEW w \in Workers, NEW d \in PauseDeliveries, SendAlert(w, d)
      PROVE  Known'
  BY <1>3, SendKnown
<1>4. UNCHANGED copies => Known'
  BY <1>1, OtherKnown
<1>5. UNCHANGED copies \/ \E w \in Workers, d \in PauseDeliveries : SendAlert(w, d)
  BY DEF Next, WorkerStep, ClaimCrmWork, FinishCrmWork, ActivatePause, StartCheck,
         NothingToAlert, CapturePause, RecordAlert, StalePause, AlertRaises, Crash,
         ClearPause, Tick, vars, past
<1>6. QED
  BY <1>1, <1>2, <1>3, <1>4, <1>5 DEF Heard

LEMMA HeardAlways == Spec => []Heard
  BY InitHeard, StepHeard, PTL DEF Spec

(* docs/08_notifications.md: with any number of workers, an active pause    *)
(* that is still to be alerted was in no message, unless one failed, a      *)
(* fault happened, or a worker is about to record it.                       *)
THEOREM HeardRecorded == Spec => []HeardIsRecorded
<1>1. Heard => HeardIsRecorded
  BY DEF Heard, AllAwaited, Awaited, Untold, Recording, HeardIsRecorded, Paused, Inv, TypeOK
<1>2. QED
  BY <1>1, HeardAlways, PTL

-----------------------------------------------------------------------------
(***************************************************************************)
(* One worker.  While no fault happens, a pause that is about to be mailed *)
(* was in no message, or one of its messages failed.                       *)
(***************************************************************************)
RepeatedAfterFaultOnly ==
    \A e \in Pauses, p \in People : copies[e][p] = Many => e \in missed \/ faults > 0

FirstSend(w) == place[w] = "send" /\ captured[w] \notin missed => Untold(captured[w])

Alone ==
    /\ RepeatedAfterFaultOnly
    /\ faults = 0 => \A w \in Workers : FirstSend(w)

LEMMA InitAlone == Init => Alone
  BY DEF Init, Alone, RepeatedAfterFaultOnly, FirstSend, Many

LEMMA SendAlone ==
    ASSUME \A v, w \in Workers : v = w, Heard, Alone,
           NEW w \in Workers, NEW d \in PauseDeliveries, SendAlert(w, d)
    PROVE  Alone'
<1>1. PICK e \in Pauses : e = captured[w]
  BY DEF SendAlert, Heard, Inv, Holds
<1>2. /\ place[w] = "send" /\ place'[w] = "record" /\ missed \subseteq missed'
      /\ UNCHANGED faults
  BY DEF SendAlert, Goto, bounds, Heard, Inv, TypeOK
<1>3. /\ \A f \in Pauses \ {e} : copies'[f] = copies[f]
      /\ \A p \in People :
            copies'[e][p] = IF p \in d.taken THEN OneMore(copies[e][p]) ELSE copies[e][p]
  BY <1>1 DEF SendAlert, Heard, Inv, TypeOK
<1>4. faults = 0 /\ e \notin missed => Untold(e)
  BY <1>1, <1>2 DEF Alone, FirstSend
<1>5. faults \in Nat
  BY PauseAssumption DEF Heard, Inv, TypeOK
<1>6. ASSUME NEW f \in Pauses, NEW p \in People, copies'[f][p] = Many
      PROVE  (f \in missed \/ faults > 0)'
  <2>1. CASE f # e
    BY <1>2, <1>3, <1>6, <2>1 DEF Alone, RepeatedAfterFaultOnly
  <2>2. CASE f = e
    <3>1. ~ Untold(e)
      BY <1>3, <1>6, <2>2 DEF Untold, OneMore, Many
    <3>2. QED
      BY <1>2, <1>4, <1>5, <2>2, <3>1
  <2>3. QED
    BY <2>1, <2>2
<1>7. \A v \in Workers : FirstSend(v)'
  BY <1>2 DEF FirstSend
<1>8. QED
  BY <1>6, <1>7 DEF Alone, RepeatedAfterFaultOnly

(* The pause is read when the only worker has nothing to record.            *)
LEMMA CaptureAlone ==
    ASSUME \A v, w \in Workers : v = w, Heard, Alone, NEW w \in Workers, CapturePause(w)
    PROVE  Alone'
<1>1. /\ place[w] = "alert" /\ captured'[w] = pause /\ ~ alertSent /\ pause \in Pauses
      /\ UNCHANGED <<past, faults>>
  BY DEF CapturePause, Paused, bounds, Heard, Inv, TypeOK
<1>2. \A v \in Workers, e \in Pauses : ~ Recording(v, e)
  BY <1>1 DEF Recording
<1>3. faults = 0 /\ pause \notin missed => Untold(pause)
  BY <1>1, <1>2 DEF Heard, AllAwaited, Awaited
<1>4. faults = 0 => FirstSend(w)'
  BY <1>1, <1>3 DEF past, FirstSend, Untold
<1>5. QED
  BY <1>1, <1>4 DEF past, Alone, RepeatedAfterFaultOnly

LEMMA StepAlone ==
    ASSUME \A v, w \in Workers : v = w, Heard, Alone, [Next]_vars
    PROVE  Alone'
<1>1. ASSUME UNCHANGED <<past, faults>>,
             \A v \in Workers : place'[v] = "send" =>
                 place[v] = "send" /\ captured'[v] = captured[v]
      PROVE  Alone'
  BY <1>1 DEF past, Alone, RepeatedAfterFaultOnly, FirstSend, Untold
<1>2. ASSUME NEW w \in Workers,
             ClaimCrmWork(w) \/ FinishCrmWork(w) \/ ActivatePause(w) \/ StartCheck(w)
             \/ NothingToAlert(w) \/ RecordAlert(w) \/ StalePause(w)
      PROVE  Alone'
  BY <1>1, <1>2 DEF ClaimCrmWork, FinishCrmWork, ActivatePause, StartCheck, NothingToAlert,
                    RecordAlert, StalePause, Return, Goto, bounds, Heard, Inv, TypeOK
<1>3. ASSUME NEW w \in Workers, AlertRaises(w) \/ Crash(w)
      PROVE  Alone'
  <2>1. faults' > 0 /\ UNCHANGED past
    BY <1>3, PauseAssumption DEF AlertRaises, Crash, Heard, Inv, TypeOK
  <2>2. QED
    BY <2>1 DEF Alone, RepeatedAfterFaultOnly
<1>4. CASE ClearPause \/ Tick \/ UNCHANGED vars
  BY <1>1, <1>4 DEF ClearPause, Tick, vars, worker, past, bounds
<1>5. QED
  BY <1>2, <1>3, <1>4, SendAlone, CaptureAlone DEF Next, WorkerStep

(* docs/08_notifications.md: an alert is repeated only after a failed       *)
(* message or a fault.  The worker that meets a pause alerts it at once,    *)
(* and at every check until that is recorded: with one worker, nobody has a *)
(* second message about it otherwise.                                       *)
THEOREM AlertsOnce ==
    ASSUME \A v, w \in Workers : v = w
    PROVE  Spec => []RepeatedAfterFaultOnly
<1>1. Alone => RepeatedAfterFaultOnly
  BY DEF Alone
<1>2. Heard /\ Alone /\ [Next]_vars => Alone'
  BY StepAlone
<1>3. QED
  BY <1>1, <1>2, InitAlone, HeardAlways, PTL DEF Spec
=============================================================================
