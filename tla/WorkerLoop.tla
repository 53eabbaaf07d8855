------------------------------ MODULE WorkerLoop ------------------------------
(***************************************************************************)
(* The worker's loop (src/project3_crm/worker.py): a notification check    *)
(* when it is due, then one cycle of recovery, claim, normalization and    *)
(* CRM work, then a sleep if nothing was done or a backoff if the cycle    *)
(* raised.  What the operations do is modelled elsewhere; here it matters  *)
(* that they return, find nothing to do, or raise, and which event a       *)
(* normalization that raises has taken the turn of.                        *)
(*                                                                         *)
(* The unit of time is the longest that one iteration takes, its sleep     *)
(* included.                                                               *)
(***************************************************************************)
EXTENDS Integers, Sequences, FiniteSets

CONSTANTS
    Events,
    Poison,      \* events whose conversion raises an unexpected exception
    Lease,       \* worker_lease_seconds
    Retry,       \* notification_failure_retry_seconds
    MaxFaults    \* bound: exceptions of other origin that end a cycle, and restarts

ASSUME LoopAssumption ==
    /\ Poison \subseteq Events /\ IsFiniteSet(Events)
    /\ Lease \in Nat \ {0} /\ Retry \in Nat \ {0} /\ MaxFaults \in Nat

VARIABLES
    event,        \* status of each event
    age,          \* iterations since it was claimed, up to one more than the lease
    arrivals,     \* the events in the order of received_at
    place,        \* where the loop is
    operation,    \* the check's operation that is next
    job,          \* the event that was claimed
    useful,       \* useful_work or notification_work
    untilCheck,   \* iterations until the next notification check
    sinceCheck,   \* iterations since the last check began, in this process
    faults

table == <<event, age, arrivals>>
timer == <<untilCheck, sinceCheck>>
vars  == <<event, age, arrivals, place, operation, job, useful, untilCheck, sinceCheck, faults>>

-----------------------------------------------------------------------------
NoEvent == "no event"

Operations == <<"pause alert", "cluster alert", "CRM failures", "normalization failures">>

Init ==
    /\ event = [e \in Events |-> "NONE"]
    /\ age = [e \in Events |-> 0]
    /\ arrivals = <<>>
    /\ place = "top" /\ operation = 1
    /\ job = NoEvent /\ useful = FALSE
    /\ untilCheck = 0 /\ sinceCheck = Retry
    /\ faults = 0

(* A webhook request stores an event.                                       *)
Arrive(e) ==
    /\ event[e] = "NONE"
    /\ event' = [event EXCEPT ![e] = "RECEIVED"]
    /\ arrivals' = Append(arrivals, e)
    /\ UNCHANGED <<age, place, operation, job, useful, timer, faults>>

-----------------------------------------------------------------------------
StartCheck ==
    /\ place = "top" /\ untilCheck = 0
    /\ place' = "check" /\ operation' = 1
    /\ sinceCheck' = 0
    /\ UNCHANGED <<table, job, useful, untilCheck, faults>>

(* Mutant: an operation that raises ends the check.                         *)
OperationEndsCheck ==
    /\ place = "check"
    /\ \E raises \in BOOLEAN :
          /\ operation' = IF raises \/ operation = Len(Operations) THEN 1 ELSE operation + 1
          /\ place' = IF raises \/ operation = Len(Operations) THEN "checked" ELSE "check"
    /\ useful' \in {useful, TRUE}
    /\ UNCHANGED <<table, job, timer, faults>>

(* An operation is idle, useful, or raises; the next one follows anyway.    *)
RunOperation ==
    /\ place = "check"
    /\ operation' = IF operation = Len(Operations) THEN 1 ELSE operation + 1
    /\ place' = IF operation = Len(Operations) THEN "checked" ELSE "check"
    /\ useful' \in {useful, TRUE}
    /\ UNCHANGED <<table, job, timer, faults>>

(* Mutant: only a check that did something sets the timer.                  *)
EndUsefulCheck ==
    /\ place = "checked"
    /\ untilCheck' = IF useful THEN Retry ELSE 0
    /\ place' = "recover"
    /\ UNCHANGED <<table, operation, job, useful, sinceCheck, faults>>

EndCheck ==
    /\ place = "checked"
    /\ untilCheck' = Retry
    /\ place' = "recover"
    /\ UNCHANGED <<table, operation, job, useful, sinceCheck, faults>>

SkipCheck ==
    /\ place = "top" /\ untilCheck > 0
    /\ place' = "recover"
    /\ UNCHANGED <<table, operation, job, useful, timer, faults>>

-----------------------------------------------------------------------------
(* Mutant: the lease is not waited for.                                     *)
StaleAtOnce == {e \in Events : event[e] = "PROCESSING"}

Stale == {e \in Events : event[e] = "PROCESSING" /\ age[e] > Lease}

Received == {e \in Events : event[e] = "RECEIVED"}

Position(e) == CHOOSE i \in DOMAIN arrivals : arrivals[i] = e

(* Mutant: the event is reset to a status of leads.                         *)
RecoverAsPending ==
    /\ place = "recover"
    /\ IF Stale = {}
       THEN UNCHANGED <<event, useful>>
       ELSE \E e \in Stale :
                /\ \A f \in Stale : age[f] <= age[e]
                /\ event' = [event EXCEPT ![e] = "PENDING"]
                /\ useful' = TRUE
    /\ place' = "claim"
    /\ UNCHANGED <<age, arrivals, operation, job, timer, faults>>

(* recover_one_stale_processing: the event claimed longest ago, if any.     *)
RecoverStale ==
    /\ place = "recover"
    /\ IF Stale = {}
       THEN UNCHANGED <<event, useful>>
       ELSE \E e \in Stale :
                /\ \A f \in Stale : age[f] <= age[e]
                /\ event' = [event EXCEPT ![e] = "RECEIVED"]
                /\ useful' = TRUE
    /\ place' = "claim"
    /\ UNCHANGED <<age, arrivals, operation, job, timer, faults>>

OldestReceived(e) == \A f \in Received : Position(e) <= Position(f)

(* claim_one_received; a recovered event has kept its place in the order.   *)
ClaimReceived ==
    /\ place = "claim" /\ Received # {}
    /\ \E e \in Received :
          /\ OldestReceived(e)
          /\ event' = [event EXCEPT ![e] = "PROCESSING"]
          /\ age' = [age EXCEPT ![e] = 0]
          /\ job' = e
    /\ place' = "convert" /\ useful' = TRUE
    /\ UNCHANGED <<arrivals, operation, timer, faults>>

NothingReceived ==
    /\ place = "claim" /\ Received = {}
    /\ place' = "crm"
    /\ UNCHANGED <<table, operation, job, useful, timer, faults>>

Convert ==
    /\ place = "convert" /\ job \notin Poison
    /\ event' = [event EXCEPT ![job] = "DONE"]
    /\ place' = "crm"
    /\ UNCHANGED <<age, arrivals, operation, job, useful, timer, faults>>

(* CRM work is idle or useful; a pause it activates is alerted in the same  *)
(* step, and an exception of that alert is swallowed.                       *)
CrmWork ==
    /\ place = "crm"
    /\ useful' \in {useful, TRUE}
    /\ place' = "end"
    /\ UNCHANGED <<table, operation, job, timer, faults>>

(* The exception of a cycle ends it: later phases are not run.              *)
ConversionRaises ==
    /\ place = "convert" /\ job \in Poison
    /\ place' = "end"
    /\ UNCHANGED <<table, operation, job, useful, timer, faults>>

CycleRaises ==
    /\ place \in {"recover", "claim", "convert", "crm"} /\ faults < MaxFaults
    /\ faults' = faults + 1
    /\ place' = "end"
    /\ UNCHANGED <<table, operation, job, useful, timer>>

Less(n) == IF n = 0 THEN 0 ELSE n - 1

(* The iteration ends, with a sleep, a backoff or neither.                  *)
EndIteration ==
    /\ place = "end"
    /\ place' = "top" /\ useful' = FALSE /\ job' = NoEvent
    /\ age' = [e \in Events |-> IF event[e] = "PROCESSING" /\ age[e] <= Lease
                                THEN age[e] + 1 ELSE age[e]]
    /\ untilCheck' = Less(untilCheck)
    /\ sinceCheck' = IF sinceCheck < Retry THEN sinceCheck + 1 ELSE Retry
    /\ UNCHANGED <<event, arrivals, operation, faults>>

(* The process stops or dies, and a new one is started.                     *)
Restart ==
    /\ faults < MaxFaults
    /\ faults' = faults + 1
    /\ place' = "top" /\ operation' = 1 /\ job' = NoEvent /\ useful' = FALSE
    /\ untilCheck' = 0 /\ sinceCheck' = Retry
    /\ UNCHANGED table

-----------------------------------------------------------------------------
LoopStep ==
    \/ StartCheck \/ RunOperation \/ EndCheck \/ SkipCheck
    \/ RecoverStale \/ ClaimReceived \/ NothingReceived \/ Convert \/ CrmWork
    \/ ConversionRaises \/ EndIteration

Next == LoopStep \/ CycleRaises \/ Restart \/ \E e \in Events : Arrive(e)

(* The loop goes on: calls have timeouts, and exceptions are caught.        *)
Spec == Init /\ [][Next]_vars /\ WF_vars(LoopStep)

-----------------------------------------------------------------------------
(* Every variable keeps its type.                                           *)
TypeOK ==
    /\ event \in [Events -> {"NONE", "RECEIVED", "PROCESSING", "DONE"}]
    /\ age \in [Events -> 0..(Lease + 1)]
    /\ arrivals \in Seq(Events)
    /\ place \in {"top", "check", "checked", "recover", "claim", "convert", "crm", "end"}
    /\ operation \in DOMAIN Operations
    /\ job \in Events \union {NoEvent}
    /\ useful \in BOOLEAN
    /\ untilCheck \in 0..Retry /\ sinceCheck \in 0..Retry
    /\ faults \in 0..MaxFaults

(* However a check ends, run_worker_loop sets the next one to its start     *)
(* plus notification_failure_retry_seconds: one process begins checks at    *)
(* least that delay apart, whatever the operations and cycles between them  *)
(* did.                                                                     *)
ChecksApart == [][StartCheck => sinceCheck >= Retry]_vars

(* Each of the four operations is run again and again, although the others, *)
(* or every cycle, may raise whenever they run.                             *)
EveryOperationRuns ==
    \A i \in DOMAIN Operations : []<>(place = "check" /\ operation = i)

(* Events whose conversion raises come back after their lease and are       *)
(* claimed before younger ones, and the cycles they end do no CRM work.     *)
(* While there are no more of them than iterations in a lease, the others   *)
(* are still converted and CRM work still gets its turn.                    *)
OthersGetTheirTurn ==
    /\ \A e \in Events \ Poison : event[e] = "RECEIVED" ~> event[e] = "DONE"
    /\ []<>(place = "crm")
=============================================================================
