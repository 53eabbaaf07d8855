--------------------------- MODULE WorkerLoopProofs ---------------------------
(***************************************************************************)
(* Proofs about the worker's loop, for any events, however many of them    *)
(* cannot be converted, any lease and delay and any number of faults: its  *)
(* types, and the distance of its notification checks.                     *)
(***************************************************************************)
EXTENDS WorkerLoop, TLAPS

(* Where counters start is within their range.                              *)
LEMMA Starts ==
    /\ 0 \in 0..(Lease + 1) /\ 0 \in 0..MaxFaults
    /\ 0 \in 0..Retry /\ Retry \in 0..Retry
    /\ 1 \in DOMAIN Operations
<1>1. 1 \in DOMAIN Operations
  BY DEF Operations
<1>2. QED
  BY <1>1, LoopAssumption

LEMMA InitTyped == Init => TypeOK
<1>1. <<>> \in Seq(Events)
  OBVIOUS
<1>2. QED
  BY <1>1, Starts DEF Init, TypeOK

(* The check's counter walks through its operations and returns to the      *)
(* first.                                                                   *)
LEMMA NextOperation ==
    ASSUME operation \in DOMAIN Operations
    PROVE  (IF operation = Len(Operations) THEN 1 ELSE operation + 1) \in DOMAIN Operations
  BY DEF Operations

LEMMA CheckTyped ==
    ASSUME TypeOK, StartCheck \/ RunOperation \/ EndCheck \/ SkipCheck
    PROVE  TypeOK'
<1>1. CASE StartCheck
  BY <1>1, Starts DEF StartCheck, TypeOK, table
<1>2. CASE RunOperation
  <2>1. operation' \in DOMAIN Operations
    BY <1>2, NextOperation DEF RunOperation, TypeOK
  <2>2. useful' \in BOOLEAN
    BY <1>2 DEF RunOperation, TypeOK
  <2>3. QED
    BY <1>2, <2>1, <2>2 DEF RunOperation, TypeOK, table, timer
<1>3. CASE EndCheck
  BY <1>3, Starts DEF EndCheck, TypeOK, table
<1>4. CASE SkipCheck
  BY <1>4 DEF SkipCheck, TypeOK, table, timer
<1>5. QED
  BY <1>1, <1>2, <1>3, <1>4

LEMMA CycleTyped ==
    ASSUME TypeOK,
           \/ RecoverStale \/ ClaimReceived \/ NothingReceived \/ Convert \/ CrmWork
           \/ ConversionRaises
    PROVE  TypeOK'
<1>1. CASE RecoverStale
  <2>1. event' \in [Events -> {"NONE", "RECEIVED", "PROCESSING", "DONE"}]
    BY <1>1 DEF RecoverStale, TypeOK, Stale
  <2>2. useful' \in BOOLEAN
    BY <1>1 DEF RecoverStale, TypeOK
  <2>3. QED
    BY <1>1, <2>1, <2>2 DEF RecoverStale, TypeOK, timer
<1>2. CASE ClaimReceived
  <2>1. PICK e \in Received : /\ event' = [event EXCEPT ![e] = "PROCESSING"]
                              /\ age' = [age EXCEPT ![e] = 0]
                              /\ job' = e
    BY <1>2 DEF ClaimReceived
  <2>2. e \in Events
    BY DEF Received
  <2>3. age' \in [Events -> 0..(Lease + 1)]
    BY <2>1, <2>2, Starts DEF TypeOK
  <2>4. QED
    BY <1>2, <2>1, <2>2, <2>3 DEF ClaimReceived, TypeOK, timer
<1>3. CASE NothingReceived
  BY <1>3 DEF NothingReceived, TypeOK, table, timer
<1>4. CASE Convert
  BY <1>4 DEF Convert, TypeOK, timer
<1>5. CASE CrmWork
  <2>1. useful' \in BOOLEAN
    BY <1>5 DEF CrmWork, TypeOK
  <2>2. QED
    BY <1>5, <2>1 DEF CrmWork, TypeOK, table, timer
<1>6. CASE ConversionRaises
  BY <1>6 DEF ConversionRaises, TypeOK, table, timer
<1>7. QED
  BY <1>1, <1>2, <1>3, <1>4, <1>5, <1>6

(* One iteration later both timers are in their range, and what one loses   *)
(* the other has gained.                                                    *)
LEMMA OneIteration ==
    ASSUME NEW r \in Nat, NEW u \in 0..r, NEW s \in 0..r
    PROVE  LET later == IF s < r THEN s + 1 ELSE r
           IN  /\ Less(u) \in 0..r /\ later \in 0..r
               /\ u + s >= r => Less(u) + later >= r
  BY DEF Less

LEMMA IterationTyped ==
    ASSUME TypeOK, EndIteration
    PROVE  TypeOK'
<1>1. untilCheck \in 0..Retry /\ sinceCheck \in 0..Retry /\ Retry \in Nat
  BY LoopAssumption DEF TypeOK
<1>2. untilCheck' \in 0..Retry /\ sinceCheck' \in 0..Retry
  BY <1>1, OneIteration DEF EndIteration
<1>3. age' \in [Events -> 0..(Lease + 1)]
  <2>1. \A e \in Events : age[e] \in 0..(Lease + 1) /\ Lease \in Nat
    BY LoopAssumption DEF TypeOK
  <2>2. \A e \in Events : age[e] <= Lease => age[e] + 1 \in 0..(Lease + 1)
    BY <2>1
  <2>3. QED
    BY <2>1, <2>2 DEF EndIteration
<1>4. QED
  BY <1>2, <1>3 DEF EndIteration, TypeOK

LEMMA FaultTyped ==
    ASSUME TypeOK, CycleRaises \/ Restart
    PROVE  TypeOK'
<1>1. faults' \in 0..MaxFaults
  BY LoopAssumption DEF CycleRaises, Restart, TypeOK
<1>2. CASE CycleRaises
  BY <1>1, <1>2 DEF CycleRaises, TypeOK, table, timer
<1>3. CASE Restart
  BY <1>1, <1>3, Starts DEF Restart, TypeOK, table
<1>4. QED
  BY <1>2, <1>3

LEMMA StepTyped == TypeOK /\ [Next]_vars => TypeOK'
<1> SUFFICES ASSUME TypeOK, [Next]_vars
             PROVE  TypeOK'
  OBVIOUS
<1>1. ASSUME NEW e \in Events, Arrive(e)
      PROVE  TypeOK'
  <2>1. arrivals' \in Seq(Events)
    BY <1>1 DEF Arrive, TypeOK
  <2>2. QED
    BY <1>1, <2>1 DEF Arrive, TypeOK, timer
<1>2. CASE UNCHANGED vars
  BY <1>2 DEF vars, TypeOK
<1>3. QED
  BY <1>1, <1>2, CheckTyped, CycleTyped, IterationTyped, FaultTyped DEF Next, LoopStep

(* worker.py: however the phases of a cycle end, events keep to the table's *)
(* statuses and the timers to their range.                                  *)
THEOREM Types == Spec => []TypeOK
  BY InitTyped, StepTyped, PTL DEF Spec

-----------------------------------------------------------------------------
(***************************************************************************)
(* Outside a check, what is left until the next one and what has passed    *)
(* since the last make up a whole retry delay.                             *)
(***************************************************************************)
DelayKept == place \notin {"check", "checked"} => untilCheck + sinceCheck >= Retry

Inv == TypeOK /\ DelayKept

LEMMA InitInv == Init => Inv
  BY InitTyped, LoopAssumption DEF Inv, Init, DelayKept

LEMMA DelayStep == Inv /\ [Next]_vars => Inv'
<1> SUFFICES ASSUME Inv, [Next]_vars
             PROVE  Inv'
  OBVIOUS
<1>1. TypeOK'
  BY StepTyped DEF Inv
<1>2. untilCheck \in 0..Retry /\ sinceCheck \in 0..Retry /\ Retry \in Nat
  BY LoopAssumption DEF Inv, TypeOK
<1>3. CASE StartCheck \/ RunOperation \/ EndCheck \/ SkipCheck
  <2>1. CASE StartCheck \/ RunOperation
    BY <1>1, <2>1 DEF StartCheck, RunOperation, Inv, DelayKept
  <2>2. CASE EndCheck
    BY <1>1, <1>2, <2>2 DEF EndCheck, Inv, DelayKept
  <2>3. CASE SkipCheck
    BY <1>1, <2>3 DEF SkipCheck, timer, Inv, DelayKept
  <2>4. QED
    BY <1>3, <2>1, <2>2, <2>3
<1>4. CASE \/ RecoverStale \/ ClaimReceived \/ NothingReceived \/ Convert \/ CrmWork
           \/ ConversionRaises \/ CycleRaises
  <2>1. place \notin {"check", "checked"} /\ UNCHANGED <<untilCheck, sinceCheck>>
    BY <1>4 DEF RecoverStale, ClaimReceived, NothingReceived, Convert, CrmWork,
                ConversionRaises, CycleRaises, timer
  <2>2. QED
    BY <1>1, <2>1 DEF Inv, DelayKept
<1>5. CASE EndIteration
  <2>1. place = "end"
    BY <1>5 DEF EndIteration
  <2>2. untilCheck + sinceCheck >= Retry
    BY <2>1 DEF Inv, DelayKept
  <2>3. untilCheck' + sinceCheck' >= Retry
    BY <1>2, <1>5, <2>2, OneIteration DEF EndIteration
  <2>4. QED
    BY <1>1, <2>3 DEF Inv, DelayKept
<1>6. CASE Restart
  BY <1>1, <1>2, <1>6 DEF Restart, Inv, DelayKept
<1>7. ASSUME NEW e \in Events, Arrive(e)
      PROVE  Inv'
  BY <1>1, <1>7 DEF Arrive, timer, Inv, DelayKept
<1>8. CASE UNCHANGED vars
  BY <1>1, <1>8 DEF vars, Inv, DelayKept
<1>9. QED
  BY <1>3, <1>4, <1>5, <1>6, <1>7, <1>8, <1>1 DEF Next, LoopStep, Inv

(* worker.py: whatever the operations of a check and the cycles between do  *)
(* or raise, one process begins its checks at least the retry delay apart.  *)
THEOREM ApartInOneProcess == Spec => ChecksApart
<1>1. Inv /\ [Next]_vars => [StartCheck => sinceCheck >= Retry]_vars
  BY LoopAssumption DEF Inv, TypeOK, DelayKept, StartCheck
<1>2. QED
  BY InitInv, DelayStep, <1>1, PTL DEF Spec, ChecksApart
=============================================================================
