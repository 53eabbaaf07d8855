-------------------------- MODULE ClusterAlertProofs --------------------------
(***************************************************************************)
(* Proofs about the cluster alert, for any leads, window, threshold,       *)
(* delays and bounds: with any number of workers, a lead is recorded as    *)
(* alerted only at the time of an episode it was mailed in; and with one   *)
(* worker an episode stays whole, no failure is swallowed by an alert that *)
(* is not about it, and none is counted twice.                             *)
(***************************************************************************)
EXTENDS ClusterAlert, SmtpSenderProofs, FiniteSetTheorems

LEMMA ClusterDelivery ==
    ASSUME NEW d \in ClusterDeliveries
    PROVE  d.sent \in BOOLEAN /\ (d.sent => d.taken = Addressees.cluster)
  BY DeliveryForm DEF ClusterDeliveries

LEMMA EnoughIsSome ==
    ASSUME NEW leads, Enough(leads)
    PROVE  leads # {}
  BY ClusterAssumption, FS_EmptySet DEF Enough

-----------------------------------------------------------------------------
(***************************************************************************)
(* What holds with any number of workers: a worker in a check or a cycle   *)
(* has read its time, one that freezes has rows, and one whose message was *)
(* sent holds rows that are told.                                          *)
(***************************************************************************)
HasTime(w) == place[w] \in {"crm", "check", "freeze"} => at[w] # NoTime

HasRows(w) == place[w] = "freeze" => rows[w] # {}

Delivered(w) ==
    place[w] = "record" /\ sent[w] => \A l \in rows[w] : <<episode[w], l>> \in told

Inv ==
    /\ TypeOK
    /\ \A w \in Workers : HasTime(w) /\ HasRows(w) /\ Delivered(w)
    /\ AlertedWasMailed

LEMMA InitInv == Init => Inv
  BY DEF Init, Inv, TypeOK, HasTime, HasRows, Delivered, AlertedWasMailed, Times

LEMMA ClockTyped ==
    ASSUME Inv
    PROVE  /\ now \in Times /\ now # NoTime
           /\ Countdown \in [Workers -> Nat]
           /\ ClockGoesOn => now' \in Nat
<1>1. ASSUME NEW v \in Workers
      PROVE  (IF untilCheck[v] = 0 THEN 0 ELSE untilCheck[v] - 1) \in Nat
  <2>1. untilCheck[v] \in Nat
    BY DEF Inv, TypeOK
  <2>2. QED
    BY <2>1
<1>2. QED
  BY <1>1 DEF Countdown, ClockGoesOn, Inv, TypeOK, Times, NoTime

WorkerKept ==
    /\ place \in [Workers -> {"idle", "crm", "check", "freeze", "send", "record"}]
    /\ at \in [Workers -> Times]
    /\ rows \in [Workers -> SUBSET Leads]
    /\ episode \in [Workers -> Times]
    /\ sent \in [Workers -> BOOLEAN]
    /\ \A w \in Workers :
          /\ place[w] \in {"send", "record"} => rows[w] # {} /\ episode[w] # NoTime
          /\ HasTime(w) /\ HasRows(w) /\ Delivered(w)

LEMMA ReturnKept ==
    ASSUME Inv, NEW w \in Workers, Return(w), UNCHANGED told
    PROVE  WorkerKept'
  BY DEF Return, Goto, Inv, TypeOK, HasTime, HasRows, Delivered, Times, WorkerKept

LEMMA CycleKept ==
    ASSUME Inv, NEW w \in Workers, CycleStep(w)
    PROVE  Inv'
<1>1. CASE StartCycle(w)
  <2>1. WorkerKept'
    BY <1>1, ClockTyped DEF StartCycle, Goto, past, Inv, TypeOK, HasTime, HasRows, Delivered,
                            WorkerKept
  <2>2. QED
    BY <1>1, <2>1, ClockTyped DEF StartCycle, columns, past, Inv, TypeOK, WorkerKept,
                                  AlertedWasMailed
<1>2. CASE EndCycle(w)
  BY <1>2, ReturnKept DEF EndCycle, columns, past, Inv, TypeOK, WorkerKept, AlertedWasMailed
<1>3. ASSUME NEW l \in Leads, FailTechnically(w, l)
      PROVE  Inv'
  <2>1. lastFailure' \in [Leads -> Times]
    BY <1>3 DEF FailTechnically, Inv, TypeOK
  <2>2. QED
    BY <1>3, <2>1, ReturnKept DEF FailTechnically, past, Inv, TypeOK, WorkerKept,
                                  AlertedWasMailed
<1>4. QED
  BY <1>1, <1>2, <1>3 DEF CycleStep

LEMMA FreezeKept ==
    ASSUME Inv, NEW w \in Workers, FreezeEpisode(w)
    PROVE  Inv'
<1>1. at[w] \in Times /\ at[w] # NoTime /\ rows[w] # {}
  BY DEF FreezeEpisode, Inv, TypeOK, HasTime, HasRows
<1>2. pendingAt' \in [Leads -> Times]
  BY <1>1 DEF FreezeEpisode, Inv, TypeOK
<1>3. frozen' \subseteq [at : Times, lead : Leads, failure : Times]
  BY <1>1 DEF FreezeEpisode, Inv, TypeOK
<1>4. WorkerKept'
  BY <1>1 DEF FreezeEpisode, Goto, Inv, TypeOK, HasTime, HasRows, Delivered, WorkerKept
<1>5. QED
  BY <1>2, <1>3, <1>4 DEF FreezeEpisode, Inv, TypeOK, WorkerKept, AlertedWasMailed

LEMMA SendKept ==
    ASSUME Inv, NEW w \in Workers, NEW d \in ClusterDeliveries, SendAlert(w, d)
    PROVE  Inv'
<1>1. d.sent \in BOOLEAN /\ (d.sent => d.taken = Addressees.cluster)
  BY ClusterDelivery
<1>2. /\ told \subseteq told' /\ told' \subseteq Times \X Leads
      /\ d.sent => {episode[w]} \X rows[w] \subseteq told'
  BY <1>1 DEF SendAlert, Inv, TypeOK
<1>3. d.sent => \A l \in rows[w] : <<episode[w], l>> \in told'
  BY <1>2
<1>4. ASSUME NEW v \in Workers
      PROVE  Delivered(v)'
  <2>1. CASE v = w
    BY <1>3, <2>1 DEF SendAlert, Goto, Inv, TypeOK, Delivered
  <2>2. CASE v # w
    BY <1>2, <2>2 DEF SendAlert, Goto, Inv, TypeOK, Delivered
  <2>3. QED
    BY <2>1, <2>2
<1>5. WorkerKept'
  BY <1>1, <1>4 DEF SendAlert, Goto, Inv, TypeOK, HasTime, HasRows, WorkerKept
<1>6. QED
  BY <1>2, <1>5 DEF SendAlert, columns, Inv, TypeOK, WorkerKept, AlertedWasMailed

LEMMA RecordKept ==
    ASSUME Inv, NEW w \in Workers, RecordAlert(w)
    PROVE  Inv'
<1>1. \A l \in rows[w] : <<episode[w], l>> \in told
  BY DEF RecordAlert, Inv, Delivered
<1>2. pendingAt' \in [Leads -> Times] /\ alertedAt' \in [Leads -> Times]
  BY DEF RecordAlert, Inv, TypeOK, Times
<1>3. AlertedWasMailed'
  BY <1>1 DEF RecordAlert, past, Inv, TypeOK, AlertedWasMailed
<1>4. QED
  BY <1>2, <1>3, ReturnKept DEF RecordAlert, past, Inv, TypeOK, WorkerKept

LEMMA CheckKept ==
    ASSUME Inv, NEW w \in Workers, CheckStep(w)
    PROVE  Inv'
<1>1. CASE StartCheck(w)
  <2>1. Retry - 1 \in Nat
    BY ClusterAssumption
  <2>2. untilCheck' \in [Workers -> Nat]
    BY <1>1, <2>1, ClockTyped DEF StartCheck
  <2>3. WorkerKept'
    BY <1>1, ClockTyped DEF StartCheck, Goto, past, Inv, TypeOK, HasTime, HasRows, Delivered,
                            WorkerKept
  <2>4. QED
    BY <1>1, <2>2, <2>3, ClockTyped DEF StartCheck, columns, past, Inv, TypeOK, WorkerKept,
                                        AlertedWasMailed
<1>2. CASE NoCluster(w) \/ KeepEpisode(w)
  BY <1>2, ReturnKept DEF NoCluster, KeepEpisode, columns, past, Inv, TypeOK, WorkerKept,
                          AlertedWasMailed
<1>3. CASE SelectCluster(w)
  <2>1. Qualifying(w) # {} /\ Qualifying(w) \subseteq Leads
    BY <1>3, EnoughIsSome DEF SelectCluster, Qualifying
  <2>2. WorkerKept'
    BY <1>3, <2>1 DEF SelectCluster, Goto, past, Inv, TypeOK, HasTime, HasRows, Delivered,
                      WorkerKept
  <2>3. QED
    BY <1>3, <2>2 DEF SelectCluster, columns, past, Inv, TypeOK, WorkerKept, AlertedWasMailed
<1>4. ASSUME NEW l \in Leads, TakePending(w, l)
      PROVE  Inv'
  <2>1. EpisodeOf(w, l) # {} /\ EpisodeOf(w, l) \subseteq Leads
    BY DEF EpisodeOf
  <2>2. pendingAt[l] \in Times /\ pendingAt[l] # NoTime
    BY <1>4 DEF TakePending, Pending, Inv, TypeOK
  <2>3. WorkerKept'
    BY <1>4, <2>1, <2>2 DEF TakePending, Goto, past, Inv, TypeOK, HasTime, HasRows, Delivered,
                            WorkerKept
  <2>4. QED
    BY <1>4, <2>3 DEF TakePending, columns, past, Inv, TypeOK, WorkerKept, AlertedWasMailed
<1>5. QED
  BY <1>1, <1>2, <1>3, <1>4, FreezeKept, SendKept, RecordKept DEF CheckStep

LEMMA StepKept ==
    ASSUME Inv, [Next]_vars
    PROVE  Inv'
<1>1. ASSUME NEW w \in Workers, Raise(w)
      PROVE  Inv'
  BY <1>1, ReturnKept DEF Raise, columns, past, Inv, TypeOK, WorkerKept, AlertedWasMailed
<1>2. ASSUME NEW w \in Workers, Crash(w)
      PROVE  Inv'
  BY <1>2, ReturnKept DEF Crash, columns, past, Inv, TypeOK, WorkerKept, AlertedWasMailed
<1>3. CASE Tick
  BY <1>3, ClockTyped DEF Tick, columns, worker, past, Inv, TypeOK, HasTime, HasRows,
                          Delivered, AlertedWasMailed
<1>4. CASE UNCHANGED vars
  BY <1>4 DEF vars, Inv, TypeOK, HasTime, HasRows, Delivered, AlertedWasMailed
<1>5. QED
  BY <1>1, <1>2, <1>3, <1>4, CycleKept, CheckKept DEF Next

LEMMA Always == Spec => []Inv
  BY InitInv, StepKept, PTL DEF Spec

(* notifications/service.py: the cluster columns and the memory of a check  *)
(* keep their types, and a worker that mails or records holds an episode.   *)
THEOREM Types == Spec => []TypeOK
<1>1. Inv => TypeOK
  BY DEF Inv
<1>2. QED
  BY <1>1, Always, PTL

(* notifications/service.py: with any number of workers, a lead is recorded *)
(* as alerted at a time only if all addressees had a message about the      *)
(* episode of that time with the lead in it.                                *)
THEOREM AlertedMailed == Spec => []AlertedWasMailed
<1>1. Inv => AlertedWasMailed
  BY DEF Inv
<1>2. QED
  BY <1>1, Always, PTL

-----------------------------------------------------------------------------
(***************************************************************************)
(* One worker.  What was read from the clock is in the past, except that   *)
(* the bounded clock stands still in the end; the worker's episode is the  *)
(* pending one; and what was frozen is pending still or alerted since.     *)
(***************************************************************************)
Past(t) == t < now \/ (t = now /\ now = MaxClock)

Clock ==
    /\ now <= MaxClock
    /\ \A l \in Leads :
          /\ lastFailure[l] < now /\ Past(pendingAt[l]) /\ Past(alertedAt[l])
          /\ l \in Pending => alertedAt[l] <= pendingAt[l]

ReadsClock(w) ==
    /\ place[w] = "crm" =>
          /\ at[w] < now
          /\ \A l \in Leads :
                lastFailure[l] < at[w] /\ pendingAt[l] < at[w] /\ alertedAt[l] < at[w]
    /\ place[w] \in {"check", "freeze"} =>
          /\ Past(at[w])
          /\ \A l \in Leads : lastFailure[l] < at[w] /\ alertedAt[l] <= at[w]

HoldsEpisode(w) ==
    /\ place[w] = "freeze" =>
          /\ Pending = {} /\ Enough(rows[w])
          /\ \A l \in rows[w] : lastFailure[l] # NoTime /\ alertedAt[l] < lastFailure[l]
    /\ place[w] \in {"send", "record"} =>
          rows[w] = Pending /\ \A l \in Pending : pendingAt[l] = episode[w]

FrozenOrNewer ==
    \A l \in Pending : lastFailure[l] <= pendingAt[l] =>
        [at |-> pendingAt[l], lead |-> l, failure |-> lastFailure[l]] \in frozen

PendingOrAlerted ==
    \A f \in frozen :
        /\ f.failure # NoTime /\ f.failure <= f.at /\ f.failure <= lastFailure[f.lead]
        /\ f.failure = lastFailure[f.lead] =>
              pendingAt[f.lead] = f.at \/ f.failure <= alertedAt[f.lead]

OneWorker ==
    /\ Inv /\ Clock /\ \A w \in Workers : ReadsClock(w) /\ HoldsEpisode(w)
    /\ FrozenOrNewer /\ PendingOrAlerted
    /\ EpisodeIntact /\ NothingSwallowed /\ CountedOnce

LEMMA TimesAreNumbers ==
    ASSUME Inv
    PROVE  /\ now \in Nat /\ NoTime \in Int
           /\ \A l \in Leads : /\ lastFailure[l] \in Int /\ lastFailure[l] >= NoTime
                               /\ pendingAt[l] \in Int /\ pendingAt[l] >= NoTime
                               /\ alertedAt[l] \in Int /\ alertedAt[l] >= NoTime
           /\ \A w \in Workers : at[w] \in Int /\ at[w] >= NoTime
           /\ \A f \in frozen : f.at \in Int /\ f.failure \in Int /\ f.lead \in Leads
  BY DEF Inv, TypeOK, Times, NoTime

LEMMA InitOneWorker == Init => OneWorker
<1> SUFFICES ASSUME Init PROVE OneWorker
  OBVIOUS
<1>1. Pending = {}
  BY DEF Init, Pending
<1>2. Clock
  BY <1>1, ClusterAssumption DEF Init, Clock, Past, NoTime
<1>3. \A w \in Workers : ReadsClock(w) /\ HoldsEpisode(w)
  BY DEF Init, ReadsClock, HoldsEpisode
<1>4. FrozenOrNewer /\ PendingOrAlerted /\ EpisodeIntact /\ CountedOnce
  BY <1>1 DEF Init, FrozenOrNewer, PendingOrAlerted, EpisodeIntact, CountedOnce
<1>5. NothingSwallowed
  BY DEF Init, NothingSwallowed
<1>6. QED
  BY <1>2, <1>3, <1>4, <1>5, InitInv DEF OneWorker

(* What a step that writes no column and sends no message leaves as it was. *)
RecordsKept ==
    FrozenOrNewer /\ PendingOrAlerted /\ EpisodeIntact /\ NothingSwallowed /\ CountedOnce

LEMMA Unwritten ==
    ASSUME OneWorker, UNCHANGED <<columns, past>>
    PROVE  RecordsKept' /\ Pending' = Pending
<1>1. Pending' = Pending
  BY DEF Pending, columns
<1>2. FrozenOrNewer' /\ PendingOrAlerted'
  BY <1>1 DEF columns, past, OneWorker, FrozenOrNewer, PendingOrAlerted
<1>3. EpisodeIntact' /\ NothingSwallowed' /\ CountedOnce'
  BY <1>1 DEF columns, past, OneWorker, EpisodeIntact, NothingSwallowed, CountedOnce
<1>4. QED
  BY <1>1, <1>2, <1>3 DEF RecordsKept

(* The clock goes on, or stands still at its bound.                         *)
LEMMA ClockKept ==
    ASSUME OneWorker, ClockGoesOn, UNCHANGED columns
    PROVE  /\ Clock' /\ now <= now'
           /\ \A t \in Int : Past(t) => Past(t)'
           /\ now < MaxClock => now < now'
           /\ now < now' \/ (now = now' /\ now' = MaxClock)
<1>1. now \in Nat /\ MaxClock \in Nat /\ now <= MaxClock
  BY TimesAreNumbers, ClusterAssumption DEF OneWorker, Clock
<1>2. now' = IF now < MaxClock THEN now + 1 ELSE now
  BY DEF ClockGoesOn
<1>3. now' \in Nat /\ now <= now' /\ now' <= MaxClock /\ (now < MaxClock => now < now')
  BY <1>1, <1>2
<1>4. \A t \in Int : Past(t) => Past(t)'
  BY <1>1, <1>2, <1>3 DEF Past
<1>5. now < now' \/ (now = now' /\ now' = MaxClock)
  BY <1>1, <1>2
<1>6. Clock'
  <2>1. ASSUME NEW l \in Leads
        PROVE  /\ lastFailure[l] < now' /\ Past(pendingAt[l])' /\ Past(alertedAt[l])'
               /\ l \in Pending => alertedAt[l] <= pendingAt[l]
    <3>1. /\ lastFailure[l] \in Int /\ pendingAt[l] \in Int /\ alertedAt[l] \in Int
          /\ lastFailure[l] < now /\ Past(pendingAt[l]) /\ Past(alertedAt[l])
      BY TimesAreNumbers DEF OneWorker, Clock
    <3>2. UNCHANGED <<pendingAt, alertedAt>>
      BY DEF columns
    <3>3. QED
      BY <1>1, <1>3, <1>4, <3>1, <3>2 DEF OneWorker, Clock, Past
  <2>2. Pending' = Pending
    BY DEF Pending, columns
  <2>3. QED
    BY <1>3, <2>1, <2>2 DEF Clock, columns
<1>7. QED
  BY <1>3, <1>4, <1>5, <1>6

LEMMA ReturnRests ==
    ASSUME \A v, w \in Workers : v = w, OneWorker, NEW w \in Workers, Return(w)
    PROVE  \A v \in Workers : ReadsClock(v)' /\ HoldsEpisode(v)'
  BY DEF Return, Goto, OneWorker, Inv, TypeOK, ReadsClock, HoldsEpisode

LEMMA QuietReturn ==
    ASSUME \A v, w \in Workers : v = w, OneWorker, Inv', NEW w \in Workers, Return(w),
           UNCHANGED <<columns, past, now>>
    PROVE  OneWorker'
<1>1. Clock'
  <2>1. Pending' = Pending
    BY DEF Pending, columns
  <2>2. QED
    BY <2>1 DEF columns, OneWorker, Clock, Past
<1>2. QED
  BY <1>1, ReturnRests, Unwritten DEF OneWorker, RecordsKept

LEMMA StartCycleOne ==
    ASSUME \A v, w \in Workers : v = w, OneWorker, Inv', NEW w \in Workers, StartCycle(w)
    PROVE  OneWorker'
<1>1. /\ UNCHANGED <<columns, past>> /\ ClockGoesOn
      /\ place'[w] = "crm" /\ at'[w] = now /\ now < MaxClock
  BY DEF StartCycle, Goto, OneWorker, Inv, TypeOK
<1>2. Clock' /\ now < now'
  BY <1>1, ClockKept
<1>3. \A l \in Leads : lastFailure'[l] < now /\ pendingAt'[l] < now /\ alertedAt'[l] < now
  BY <1>1 DEF columns, OneWorker, Clock, Past
<1>4. \A v \in Workers : ReadsClock(v)' /\ HoldsEpisode(v)'
  BY <1>1, <1>2, <1>3 DEF ReadsClock, HoldsEpisode
<1>5. QED
  BY <1>1, <1>2, <1>4, Unwritten DEF OneWorker, RecordsKept

LEMMA StartCheckOne ==
    ASSUME \A v, w \in Workers : v = w, OneWorker, Inv', NEW w \in Workers, StartCheck(w)
    PROVE  OneWorker'
<1>1. /\ UNCHANGED <<columns, past>> /\ ClockGoesOn
      /\ place'[w] = "check" /\ at'[w] = now
  BY DEF StartCheck, Goto, OneWorker, Inv, TypeOK
<1>2. Clock' /\ (now < now' \/ (now = now' /\ now' = MaxClock))
  BY <1>1, ClockKept
<1>3. Past(at[w])'
  BY <1>1, <1>2 DEF Past
<1>4. ASSUME NEW l \in Leads
      PROVE  lastFailure'[l] < now /\ alertedAt'[l] <= now
  <2>1. alertedAt[l] \in Int /\ now \in Int /\ lastFailure[l] < now /\ Past(alertedAt[l])
    BY TimesAreNumbers DEF OneWorker, Clock
  <2>2. QED
    BY <1>1, <2>1 DEF columns, Past
<1>5. \A v \in Workers : ReadsClock(v)' /\ HoldsEpisode(v)'
  BY <1>1, <1>3, <1>4 DEF ReadsClock, HoldsEpisode
<1>6. QED
  BY <1>1, <1>2, <1>5, Unwritten DEF OneWorker, RecordsKept

LEMMA TickOne ==
    ASSUME \A v, w \in Workers : v = w, OneWorker, Inv', Tick
    PROVE  OneWorker'
<1>1. UNCHANGED <<columns, worker, past>> /\ ClockGoesOn
  BY DEF Tick
<1>2. Clock' /\ now <= now' /\ \A t \in Int : Past(t) => Past(t)'
  BY <1>1, ClockKept
<1>3. ASSUME NEW w \in Workers
      PROVE  ReadsClock(w)' /\ HoldsEpisode(w)'
  <2>1. at[w] \in Int /\ now \in Int /\ now' \in Int
    BY TimesAreNumbers DEF OneWorker, Inv, TypeOK
  <2>2. /\ at[w] < now => at[w] < now'
        /\ Past(at[w]) => at[w] < now' \/ (at[w] = now' /\ now' = MaxClock)
    BY <1>2, <2>1 DEF Past
  <2>3. ReadsClock(w) /\ HoldsEpisode(w)
    BY DEF OneWorker
  <2>4. ReadsClock(w)'
    BY <1>1, <2>2, <2>3 DEF columns, worker, ReadsClock, Past
  <2>5. HoldsEpisode(w)'
    BY <1>1, <2>3 DEF columns, worker, HoldsEpisode, Pending
  <2>6. QED
    BY <2>4, <2>5
<1>4. QED
  BY <1>1, <1>2, <1>3, Unwritten DEF OneWorker, RecordsKept

LEMMA FailOne ==
    ASSUME \A v, w \in Workers : v = w, OneWorker, Inv', NEW w \in Workers, NEW l \in Leads,
           FailTechnically(w, l)
    PROVE  OneWorker'
<1>1. /\ lastFailure' = [lastFailure EXCEPT ![l] = at[w]]
      /\ UNCHANGED <<pendingAt, alertedAt, frozen, told, now>> /\ Return(w)
  BY DEF FailTechnically, past
<1>2. /\ at[w] \in Int /\ at[w] < now
      /\ \A m \in Leads : lastFailure[m] < at[w] /\ pendingAt[m] < at[w] /\ alertedAt[m] < at[w]
  BY TimesAreNumbers DEF FailTechnically, OneWorker, ReadsClock
<1>3. /\ lastFailure'[l] = at[w]
      /\ \A m \in Leads \ {l} : lastFailure'[m] = lastFailure[m]
  BY <1>1 DEF OneWorker, Inv, TypeOK
<1>4. Pending' = Pending
  BY <1>1 DEF Pending
<1>5. Clock'
  BY <1>1, <1>2, <1>3, <1>4 DEF OneWorker, Clock, Past
<1>6. FrozenOrNewer'
  <2>1. ASSUME NEW m \in Pending, lastFailure'[m] <= pendingAt[m]
        PROVE  m # l
    BY <1>2, <1>3, <2>1, TimesAreNumbers DEF Pending, OneWorker
  <2>2. QED
    BY <1>1, <1>3, <1>4, <2>1 DEF OneWorker, FrozenOrNewer, Pending
<1>7. PendingOrAlerted'
  <2>1. ASSUME NEW f \in frozen
        PROVE  /\ f.failure # NoTime /\ f.failure <= f.at /\ f.failure <= lastFailure'[f.lead]
               /\ f.failure = lastFailure'[f.lead] =>
                     pendingAt[f.lead] = f.at \/ f.failure <= alertedAt[f.lead]
    <3>1. /\ f.failure \in Int /\ f.at \in Int /\ f.lead \in Leads
          /\ f.failure # NoTime /\ f.failure <= f.at /\ f.failure <= lastFailure[f.lead]
          /\ f.failure = lastFailure[f.lead] =>
                pendingAt[f.lead] = f.at \/ f.failure <= alertedAt[f.lead]
      BY TimesAreNumbers DEF OneWorker, PendingOrAlerted
    <3>2. CASE f.lead = l
      <4>1. lastFailure[l] \in Int /\ lastFailure[l] < at[w]
        BY <1>2, TimesAreNumbers DEF OneWorker
      <4>2. f.failure < lastFailure'[l]
        BY <1>2, <1>3, <3>1, <3>2, <4>1
      <4>3. QED
        BY <1>2, <1>3, <3>1, <3>2, <4>2
    <3>3. CASE f.lead # l
      BY <1>3, <3>1, <3>3
    <3>4. QED
      BY <3>2, <3>3
  <2>2. QED
    BY <1>1, <2>1 DEF PendingOrAlerted
<1>8. NothingSwallowed'
  <2>1. ASSUME NEW m \in Leads, lastFailure'[m] <= alertedAt[m]
        PROVE  m # l
    BY <1>2, <1>3, <2>1, TimesAreNumbers DEF OneWorker
  <2>2. QED
    BY <1>1, <1>3, <2>1 DEF OneWorker, NothingSwallowed
<1>9. EpisodeIntact' /\ CountedOnce'
  BY <1>1, <1>4 DEF OneWorker, EpisodeIntact, CountedOnce
<1>10. QED
  BY <1>1, <1>5, <1>6, <1>7, <1>8, <1>9, ReturnRests DEF OneWorker

LEMMA SelectOne ==
    ASSUME \A v, w \in Workers : v = w, OneWorker, Inv', NEW w \in Workers, SelectCluster(w)
    PROVE  OneWorker'
<1>1. /\ UNCHANGED <<columns, past, at, now>>
      /\ place'[w] = "freeze" /\ rows'[w] = Qualifying(w)
      /\ place[w] = "check" /\ Pending = {} /\ Enough(Qualifying(w))
  BY DEF SelectCluster, Goto, OneWorker, Inv, TypeOK
<1>2. Pending' = Pending /\ RecordsKept'
  BY <1>1, Unwritten
<1>3. Clock'
  BY <1>1, <1>2 DEF columns, OneWorker, Clock, Past
<1>4. ReadsClock(w)'
  BY <1>1 DEF columns, OneWorker, ReadsClock, Past
<1>5. ASSUME NEW l \in Qualifying(w)
      PROVE  lastFailure[l] # NoTime /\ alertedAt[l] < lastFailure[l]
  <2>1. lastFailure[l] \in Int /\ lastFailure[l] >= NoTime /\ NoTime \in Int
    BY TimesAreNumbers DEF OneWorker, Qualifying
  <2>2. QED
    BY <2>1 DEF Qualifying
<1>6. HoldsEpisode(w)'
  BY <1>1, <1>2, <1>5 DEF columns, HoldsEpisode, Enough
<1>7. QED
  BY <1>2, <1>3, <1>4, <1>6 DEF OneWorker, RecordsKept

LEMMA TakeOne ==
    ASSUME \A v, w \in Workers : v = w, OneWorker, Inv', NEW w \in Workers, NEW l \in Leads,
           TakePending(w, l)
    PROVE  OneWorker'
<1>1. /\ UNCHANGED <<columns, past, at, now>>
      /\ place'[w] = "send" /\ rows'[w] = EpisodeOf(w, l) /\ episode'[w] = pendingAt[l]
      /\ l \in Pending
  BY DEF TakePending, Goto, OneWorker, Inv, TypeOK
<1>2. Pending' = Pending /\ RecordsKept'
  BY <1>1, Unwritten
<1>3. Clock'
  BY <1>1, <1>2 DEF columns, OneWorker, Clock, Past
<1>4. EpisodeOf(w, l) = Pending /\ \A m \in Pending : pendingAt[m] = pendingAt[l]
  BY <1>1 DEF EpisodeOf, Pending, OneWorker, EpisodeIntact
<1>5. ReadsClock(w)' /\ HoldsEpisode(w)'
  BY <1>1, <1>2, <1>4 DEF columns, ReadsClock, HoldsEpisode
<1>6. QED
  BY <1>2, <1>3, <1>5 DEF OneWorker, RecordsKept

LEMMA SendOne ==
    ASSUME \A v, w \in Workers : v = w, OneWorker, Inv', NEW w \in Workers,
           NEW d \in ClusterDeliveries, SendAlert(w, d)
    PROVE  OneWorker'
<1>1. /\ UNCHANGED <<columns, rows, episode, frozen, now>> /\ told \subseteq told'
      /\ place[w] = "send" /\ place'[w] = "record"
  BY DEF SendAlert, Goto, OneWorker, Inv, TypeOK
<1>2. Pending' = Pending
  BY <1>1 DEF Pending, columns
<1>3. Clock'
  BY <1>1, <1>2 DEF columns, OneWorker, Clock, Past
<1>4. ReadsClock(w)' /\ HoldsEpisode(w)'
  BY <1>1, <1>2 DEF columns, OneWorker, ReadsClock, HoldsEpisode
<1>5. FrozenOrNewer' /\ PendingOrAlerted' /\ EpisodeIntact' /\ CountedOnce'
  BY <1>1, <1>2 DEF columns, OneWorker, FrozenOrNewer, PendingOrAlerted, EpisodeIntact,
                    CountedOnce
<1>6. NothingSwallowed'
  BY <1>1 DEF columns, OneWorker, NothingSwallowed
<1>7. QED
  BY <1>3, <1>4, <1>5, <1>6 DEF OneWorker

LEMMA FreezeOne ==
    ASSUME \A v, w \in Workers : v = w, OneWorker, Inv', NEW w \in Workers, FreezeEpisode(w)
    PROVE  OneWorker'
<1> DEFINE fresh == rows[w]
           new == {[at |-> at[w], lead |-> l, failure |-> lastFailure[l]] : l \in fresh}
<1>1. /\ place[w] = "freeze" /\ Pending = {} /\ Enough(fresh) /\ fresh \subseteq Leads
      /\ \A l \in fresh : lastFailure[l] # NoTime /\ alertedAt[l] < lastFailure[l]
  BY DEF FreezeEpisode, OneWorker, Inv, TypeOK, HoldsEpisode
<1>2. rows[w] \ Pending = fresh
  BY <1>1
<1>3. /\ pendingAt' = [l \in Leads |-> IF l \in fresh THEN at[w] ELSE pendingAt[l]]
      /\ frozen' = frozen \union new
  BY <1>2 DEF FreezeEpisode
<1>4. /\ UNCHANGED <<lastFailure, alertedAt, at, rows, told, now>>
      /\ place'[w] = "send" /\ episode'[w] = at[w]
  BY DEF FreezeEpisode, Goto, OneWorker, Inv, TypeOK
<1>5. at[w] \in Int /\ at[w] # NoTime /\ Past(at[w])
  BY <1>1, TimesAreNumbers DEF OneWorker, Inv, HasTime, ReadsClock
<1>6. \A l \in Leads : /\ lastFailure[l] \in Int /\ alertedAt[l] \in Int
                       /\ lastFailure[l] < at[w] /\ alertedAt[l] <= at[w]
  BY <1>1, TimesAreNumbers DEF OneWorker, ReadsClock
<1>7. \A l \in Leads : pendingAt[l] = NoTime
  BY <1>1 DEF Pending
<1>8. Pending' = fresh /\ \A l \in fresh : pendingAt'[l] = at[w]
  BY <1>1, <1>3, <1>5, <1>7 DEF Pending
<1> HIDE DEF fresh
<1>9. Clock'
  <2>1. ASSUME NEW l \in Leads
        PROVE  /\ lastFailure[l] < now /\ Past(pendingAt'[l]) /\ Past(alertedAt[l])
               /\ l \in fresh => alertedAt[l] <= pendingAt'[l]
    BY <1>3, <1>5, <1>6, <1>8 DEF OneWorker, Clock
  <2>2. QED
    BY <1>4, <1>8, <2>1 DEF OneWorker, Clock, Past
<1>10. ReadsClock(w)' /\ HoldsEpisode(w)'
  BY <1>4, <1>8 DEF ReadsClock, HoldsEpisode, fresh
<1>11. FrozenOrNewer'
  BY <1>3, <1>4, <1>8 DEF FrozenOrNewer
<1>12. PendingOrAlerted'
  <2>1. ASSUME NEW f \in new
        PROVE  /\ f.failure # NoTime /\ f.failure <= f.at
               /\ f.failure <= lastFailure[f.lead] /\ pendingAt'[f.lead] = f.at
    <3>1. PICK l \in fresh : f = [at |-> at[w], lead |-> l, failure |-> lastFailure[l]]
      BY <2>1
    <3>2. l \in Leads /\ f.at = at[w] /\ f.lead = l /\ f.failure = lastFailure[l]
      BY <1>1, <3>1
    <3>3. QED
      BY <1>1, <1>5, <1>6, <1>8, <3>1, <3>2
  <2>2. ASSUME NEW f \in frozen
        PROVE  /\ f.failure # NoTime /\ f.failure <= f.at /\ f.failure <= lastFailure[f.lead]
               /\ f.failure = lastFailure[f.lead] => f.failure <= alertedAt[f.lead]
    <3>1. /\ f.lead \in Leads /\ f.at \in Int /\ f.failure \in Int
          /\ f.failure # NoTime /\ f.failure <= f.at /\ f.failure <= lastFailure[f.lead]
          /\ f.failure = lastFailure[f.lead] =>
                pendingAt[f.lead] = f.at \/ f.failure <= alertedAt[f.lead]
      BY TimesAreNumbers DEF OneWorker, PendingOrAlerted
    <3>2. lastFailure[f.lead] \in Int /\ lastFailure[f.lead] >= NoTime
      BY <3>1, TimesAreNumbers DEF OneWorker
    <3>3. f.failure = lastFailure[f.lead] => f.at # NoTime
      BY <3>1, <3>2 DEF NoTime
    <3>4. QED
      BY <1>7, <3>1, <3>3
  <2>3. QED
    BY <1>3, <1>4, <2>1, <2>2 DEF PendingOrAlerted
<1>13. EpisodeIntact'
  BY <1>1, <1>8 DEF EpisodeIntact, Enough
<1>14. NothingSwallowed'
  BY <1>3, <1>4 DEF OneWorker, NothingSwallowed
<1>15. CountedOnce'
  <2>1. ASSUME NEW f \in frozen, NEW g \in new, f.lead = g.lead
        PROVE  f.failure # g.failure
    <3>1. PICK l \in fresh : g = [at |-> at[w], lead |-> l, failure |-> lastFailure[l]]
      BY <2>1
    <3>2. l \in Leads /\ g.lead = l /\ g.failure = lastFailure[l] /\ f.lead = l
      BY <1>1, <2>1, <3>1
    <3>3. alertedAt[l] < lastFailure[l] /\ lastFailure[l] # NoTime /\ pendingAt[l] = NoTime
      BY <1>1, <1>7, <3>1, <3>2
    <3>4. /\ f.at \in Int /\ f.failure \in Int
          /\ f.failure # NoTime /\ f.failure <= f.at
          /\ f.failure = lastFailure[l] => pendingAt[l] = f.at \/ f.failure <= alertedAt[l]
      BY <3>2, TimesAreNumbers DEF OneWorker, PendingOrAlerted
    <3>5. /\ lastFailure[l] \in Int /\ lastFailure[l] >= NoTime
          /\ alertedAt[l] \in Int /\ NoTime = -1
      BY <3>2, TimesAreNumbers DEF OneWorker, NoTime
    <3>6. ASSUME f.failure = lastFailure[l]
          PROVE  FALSE
      BY <3>3, <3>4, <3>5, <3>6
    <3>7. QED
      BY <3>2, <3>6
  <2>2. \A f, g \in new : f.at = g.at
    OBVIOUS
  <2>3. QED
    BY <1>3, <2>1, <2>2 DEF OneWorker, CountedOnce
<1>16. QED
  BY <1>9, <1>10, <1>11, <1>12, <1>13, <1>14, <1>15 DEF OneWorker

LEMMA RecordOne ==
    ASSUME \A v, w \in Workers : v = w, OneWorker, Inv', NEW w \in Workers, RecordAlert(w)
    PROVE  OneWorker'
<1>1. /\ rows[w] = Pending /\ Pending \subseteq Leads
      /\ \A l \in Pending : pendingAt[l] = episode[w] /\ <<episode[w], l>> \in told
  BY DEF RecordAlert, OneWorker, Inv, HoldsEpisode, Delivered, Pending
<1>2. /\ alertedAt' = [l \in Leads |-> IF l \in Pending THEN pendingAt[l] ELSE alertedAt[l]]
      /\ pendingAt' = [l \in Leads |-> NoTime]
  BY <1>1 DEF RecordAlert, Pending
<1>3. UNCHANGED <<lastFailure, frozen, told, now>> /\ Return(w)
  BY DEF RecordAlert, past
<1>4. Pending' = {}
  BY <1>2 DEF Pending
<1>5. Clock'
  <2>1. now \in Nat /\ NoTime < now
    BY TimesAreNumbers DEF OneWorker, NoTime
  <2>2. QED
    BY <1>2, <1>3, <1>4, <2>1 DEF OneWorker, Clock, Past
<1>6. FrozenOrNewer' /\ EpisodeIntact' /\ CountedOnce'
  BY <1>3, <1>4 DEF OneWorker, FrozenOrNewer, EpisodeIntact, CountedOnce
<1>7. PendingOrAlerted'
  <2>1. ASSUME NEW f \in frozen, f.failure = lastFailure[f.lead]
        PROVE  f.failure <= alertedAt'[f.lead]
    <3>1. /\ f.lead \in Leads /\ f.at \in Int /\ f.failure \in Int
          /\ f.failure # NoTime /\ f.failure <= f.at
          /\ pendingAt[f.lead] = f.at \/ f.failure <= alertedAt[f.lead]
      BY <2>1, TimesAreNumbers DEF OneWorker, PendingOrAlerted
    <3>2. /\ alertedAt[f.lead] \in Int /\ pendingAt[f.lead] \in Int
          /\ f.lead \in Pending => alertedAt[f.lead] <= pendingAt[f.lead]
          /\ f.lead \notin Pending => pendingAt[f.lead] = NoTime
          /\ lastFailure[f.lead] \in Int /\ lastFailure[f.lead] >= NoTime /\ NoTime = -1
      BY <3>1, TimesAreNumbers DEF OneWorker, Clock, Pending, NoTime
    <3>3. CASE f.lead \in Pending
      BY <1>2, <3>1, <3>2, <3>3
    <3>4. CASE f.lead \notin Pending
      BY <1>2, <2>1, <3>1, <3>2, <3>4
    <3>5. QED
      BY <3>3, <3>4
  <2>2. QED
    BY <1>3, <2>1 DEF OneWorker, PendingOrAlerted
<1>8. NothingSwallowed'
  <2>1. ASSUME NEW l \in Pending, lastFailure[l] <= pendingAt[l]
        PROVE  \E f \in frozen : /\ f.lead = l /\ f.failure = lastFailure[l]
                                 /\ <<f.at, l>> \in told
    BY <1>1, <2>1 DEF OneWorker, FrozenOrNewer
  <2>2. QED
    BY <1>2, <1>3, <2>1 DEF OneWorker, NothingSwallowed
<1>9. QED
  BY <1>3, <1>5, <1>6, <1>7, <1>8, ReturnRests DEF OneWorker

LEMMA StepOne ==
    ASSUME \A v, w \in Workers : v = w, OneWorker, [Next]_vars
    PROVE  OneWorker'
<1>1. Inv'
  BY StepKept DEF OneWorker
<1>2. ASSUME NEW w \in Workers, NoCluster(w) \/ KeepEpisode(w) \/ EndCycle(w) \/ Raise(w)
                                \/ Crash(w)
      PROVE  OneWorker'
  BY <1>1, <1>2, QuietReturn DEF NoCluster, KeepEpisode, EndCycle, Raise, Crash
<1>3. ASSUME NEW w \in Workers, CheckStep(w)
      PROVE  OneWorker'
  BY <1>1, <1>2, <1>3, StartCheckOne, SelectOne, TakeOne, SendOne, FreezeOne, RecordOne
     DEF CheckStep
<1>4. ASSUME NEW w \in Workers, CycleStep(w)
      PROVE  OneWorker'
  BY <1>1, <1>2, <1>4, StartCycleOne, FailOne DEF CycleStep
<1>5. CASE UNCHANGED vars
  <2>1. UNCHANGED <<columns, worker, past, now>>
    BY <1>5 DEF vars, columns, worker, past
  <2>2. RecordsKept' /\ Pending' = Pending
    BY <2>1, Unwritten
  <2>3. Clock' /\ \A w \in Workers : ReadsClock(w)' /\ HoldsEpisode(w)'
    BY <2>1, <2>2 DEF columns, worker, OneWorker, Clock, ReadsClock, HoldsEpisode, Past
  <2>4. QED
    BY <1>1, <2>2, <2>3 DEF OneWorker, RecordsKept
<1>6. QED
  BY <1>1, <1>2, <1>3, <1>4, <1>5, TickOne DEF Next

LEMMA AlwaysOne ==
    ASSUME \A v, w \in Workers : v = w
    PROVE  Spec => []OneWorker
<1>1. OneWorker /\ [Next]_vars => OneWorker'
  BY StepOne
<1>2. QED
  BY InitOneWorker, <1>1, PTL DEF Spec

(* notifications/service.py: with one worker the pending leads are one      *)
(* episode of enough leads, whatever fails while it is mailed.              *)
THEOREM StaysWhole ==
    ASSUME \A v, w \in Workers : v = w
    PROVE  Spec => []EpisodeIntact
<1>1. OneWorker => EpisodeIntact
  BY DEF OneWorker
<1>2. QED
  BY <1>1, AlwaysOne, PTL

(* notifications/service.py: with one worker a failure that an alert keeps  *)
(* from qualifying was in a message about an episode, for any window,       *)
(* threshold and delays.                                                    *)
THEOREM NoneSwallowed ==
    ASSUME \A v, w \in Workers : v = w
    PROVE  Spec => []NothingSwallowed
<1>1. OneWorker => NothingSwallowed
  BY DEF OneWorker
<1>2. QED
  BY <1>1, AlwaysOne, PTL

(* notifications/service.py: with one worker no failure of a lead is put    *)
(* into two episodes.                                                       *)
THEOREM NoneTwice ==
    ASSUME \A v, w \in Workers : v = w
    PROVE  Spec => []CountedOnce
<1>1. OneWorker => CountedOnce
  BY DEF OneWorker
<1>2. QED
  BY <1>1, AlwaysOne, PTL
=============================================================================
