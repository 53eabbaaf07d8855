--------------------------- MODULE MCFailureBatches ---------------------------
(***************************************************************************)
(* FailureBatches for TLC: an instance, a specification without an end of  *)
(* time for liveness, and a statement of the documents.                    *)
(***************************************************************************)
EXTENDS FailureBatches

CONSTANTS l1, e1, e2   \* a lead and two events

MCStreams == [i \in {l1, e1, e2} |-> IF i = l1 THEN "crm" ELSE "normalization"]

-----------------------------------------------------------------------------
(***************************************************************************)
(* Time without end.  Only the distances of times matter, and no decision  *)
(* tells distances beyond the longest delay apart; so when the clock is at *)
(* MaxClock, which is not below the delays, all times move one tick into   *)
(* the past instead, and stop at 0.                                        *)
(***************************************************************************)
Earlier(t) == IF t > 0 THEN t - 1 ELSE t

Age ==
    /\ now = MaxClock
    /\ failedAt' = [i \in Items |-> Earlier(failedAt[i])]
    /\ schedule' = [s \in Streams |->
           [schedule[s] EXCEPT !.attemptAt = Earlier(@), !.successAt = Earlier(@)]]
    /\ at' = [w \in Workers |-> Earlier(at[w])]
    /\ nextCheck' = [w \in Workers |-> Earlier(nextCheck[w])]
    /\ lastTry' = [s \in Streams |-> [lastTry[s] EXCEPT !.at = Earlier(@)]]
    /\ UNCHANGED <<notified, place, stream, batch, sent, copies, now, faults>>

(* A check reads the clock once, when it begins, and the one worker does    *)
(* nothing else meanwhile: time that passes during a check is the same as   *)
(* time that passes after it.                                               *)
LiveTick == (\A w \in Workers : place[w] \notin CheckPlaces) /\ (Tick \/ Age)

LiveNext ==
    \/ \E w \in Workers : CheckStep(w) \/ CycleStep(w) \/ OperationRaises(w) \/ Crash(w)
    \/ LiveTick

(* A message of the stream is accepted.                                     *)
Accepted(s) ==
    \E w \in Workers : stream[w] = s /\ \E d \in StreamDeliveries[s] : d.sent /\ SendBatch(w, d)

(* Workers go on (the sender has a timeout, the loop catches exceptions,    *)
(* the container is restarted), time passes, and the server accepts a       *)
(* message to Automation now and then.  Nothing is assumed of messages to   *)
(* Ops.                                                                     *)
LiveSpec ==
    /\ Init /\ [][LiveNext]_vars
    /\ \A w \in Workers : WF_vars(CheckStep(w) \/ CycleStep(w))
    /\ WF_vars(LiveTick)
    /\ SF_vars(Accepted("normalization"))

(* docs/08_notifications.md: "success in one cannot delay retry of the      *)
(* other".  All failed events are mailed in the end, in as many batches and *)
(* attempts as it takes, whatever becomes of the messages about leads.      *)
EveryFailureMailed ==
    Unsent("normalization") # {} ~> Unsent("normalization") = {}

-----------------------------------------------------------------------------
(* docs/08_notifications.md: "Each stream is due independently when it has  *)
(* unsent rows/events and either: it has no previous successful batch, or   *)
(* at least about 2 hours have passed since that stream's last successful   *)
(* batch": after a check that found nothing to mail there is still no       *)
(* previous batch, and none that failed.                                    *)
DueBeforeFirstBatch ==
    \A w \in Workers :
        /\ place[w] = "select" /\ Unsent(stream[w]) # {}
        /\ lastTry[stream[w]].at = NoTime /\ faults = 0
        => StreamIsDue(stream[w], at[w])
=============================================================================
