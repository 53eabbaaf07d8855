---------------------------- MODULE MCClusterAlert ----------------------------
(***************************************************************************)
(* ClusterAlert for TLC, and its liveness.                                 *)
(***************************************************************************)
EXTENDS ClusterAlert, FiniteSetsExt

(***************************************************************************)
(* Cycles and checks take seconds, and ticks are minutes: a due check is   *)
(* not late.  Workers go on, time passes, and the server accepts a message *)
(* now and then.                                                           *)
(***************************************************************************)
Prompt == \A w \in Workers : place[w] = "idle" /\ untilCheck[w] > 0

LiveNext ==
    \/ \E w \in Workers : CheckStep(w) \/ CycleStep(w) \/ Raise(w) \/ Crash(w)
    \/ Prompt /\ Tick

Accepted == \E w \in Workers : \E d \in ClusterDeliveries : d.sent /\ SendAlert(w, d)

LiveSpec ==
    /\ Init /\ [][LiveNext]_vars
    /\ \A w \in Workers : WF_vars(CheckStep(w)) /\ WF_vars(place[w] = "crm" /\ CycleStep(w))
    /\ WF_vars(Prompt /\ Tick)
    /\ SF_vars(Accepted)

(* docs/08_notifications.md: the episode "remains retryable even after the  *)
(* original 10-minute detection window has passed": every frozen episode is *)
(* mailed and recorded in the end, whatever crashes.                        *)
EveryEpisodeAlerted == Pending # {} ~> Pending = {}

(***************************************************************************)
(* docs/00_project_contract.md: "Immediate cluster alert when: 5 distinct  *)
(* normalized leads within rolling 10 minutes".  The window is sampled at  *)
(* checks, back from the time of the check, and not while an episode is    *)
(* pending.  What remains of the promise: leads that failed anew, since    *)
(* their last alert, no longer ago than the window less one delay between  *)
(* checks and one tick, while no episode is pending, become pending        *)
(* together, however many episodes there were before, unless an operation  *)
(* raises meanwhile.                                                       *)
(***************************************************************************)
News(l) ==
    lastFailure[l] # NoTime /\ (alertedAt[l] = NoTime \/ lastFailure[l] > alertedAt[l])

JustClustered(leads) ==
    /\ Pending = {}
    /\ \A l \in leads : News(l) /\ lastFailure[l] >= now - 1 - (Window - Retry)

ClusterInTime ==
    \A leads \in kSubset(Threshold, Leads) :
        JustClustered(leads) /\ faults = MaxFaults ~> leads \subseteq Pending
=============================================================================
