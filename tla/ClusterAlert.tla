----------------------------- MODULE ClusterAlert -----------------------------
(***************************************************************************)
(* The alert of clustered technical failures:                              *)
(* process_cluster_technical_alert of notifications/service.py, run by     *)
(* every notification check, against the cycles that record technical      *)
(* failures (crm_delivery.py, _failure_values).  Enough leads that failed  *)
(* within the window are frozen into an episode, which is mailed outside   *)
(* of any transaction, for as many checks as it takes, and then recorded   *)
(* with the time it was frozen at.                                         *)
(*                                                                         *)
(* No two readings of the clock are the same: reading it takes a tick.     *)
(***************************************************************************)
EXTENDS SmtpSender, FiniteSets

CONSTANTS
    Leads,
    Workers,      \* worker replicas
    Window,       \* cluster_failure_window_seconds
    Threshold,    \* cluster_failure_threshold
    Retry,        \* notification_failure_retry_seconds
    MaxClock,     \* bound: the clock stops here, the checks' timers do not
    MaxFaults     \* bound: crashes and exceptions

ASSUME ClusterAssumption ==
    /\ Window \in Nat \ {0} /\ Threshold \in Nat \ {0} /\ Retry \in Nat \ {0}
    /\ MaxClock \in Nat /\ MaxFaults \in Nat

VARIABLES
    lastFailure,   \* last_technical_failure_at
    pendingAt,     \* cluster_alert_pending_at
    alertedAt,     \* cluster_alerted_at
    place, at,     \* a worker in a cycle or a check, and the time it read
    rows, episode, sent,   \* the episode it holds, and the result of mailing it
    untilCheck,    \* time until each worker's next notification check
    frozen,        \* the failures that were put into episodes
    told,          \* episodes and leads in a message that all addressees had
    now, faults

columns == <<lastFailure, pendingAt, alertedAt>>
worker  == <<place, at, rows, episode, sent>>
past    == <<frozen, told>>
vars    == <<lastFailure, pendingAt, alertedAt, place, at, rows, episode, sent, untilCheck,
             frozen, told, now, faults>>

-----------------------------------------------------------------------------
NoTime == -1
Times == Nat \union {NoTime}

ClusterDeliveries == Deliveries(Addressees.cluster)

Init ==
    /\ lastFailure = [l \in Leads |-> NoTime]
    /\ pendingAt = [l \in Leads |-> NoTime]
    /\ alertedAt = [l \in Leads |-> NoTime]
    /\ place = [w \in Workers |-> "idle"]
    /\ at = [w \in Workers |-> NoTime]
    /\ rows = [w \in Workers |-> {}]
    /\ episode = [w \in Workers |-> NoTime]
    /\ sent = [w \in Workers |-> FALSE]
    /\ untilCheck = [w \in Workers |-> 0]
    /\ frozen = {} /\ told = {}
    /\ now = 0 /\ faults = 0

Goto(w, to) == place' = [place EXCEPT ![w] = to]

Return(w) ==
    /\ Goto(w, "idle")
    /\ at' = [at EXCEPT ![w] = NoTime]
    /\ rows' = [rows EXCEPT ![w] = {}]
    /\ episode' = [episode EXCEPT ![w] = NoTime]
    /\ sent' = [sent EXCEPT ![w] = FALSE]

Countdown == [w \in Workers |-> IF untilCheck[w] = 0 THEN 0 ELSE untilCheck[w] - 1]

ClockGoesOn == now' = IF now < MaxClock THEN now + 1 ELSE now

-----------------------------------------------------------------------------
(* A cycle begins when no check is due.                                     *)
StartCycle(w) ==
    /\ place[w] = "idle" /\ untilCheck[w] > 0 /\ now < MaxClock
    /\ Goto(w, "crm")
    /\ at' = [at EXCEPT ![w] = now]
    /\ ClockGoesOn /\ untilCheck' = Countdown
    /\ UNCHANGED <<columns, rows, episode, sent, past, faults>>

(* The cycle's work on a lead ends in a technical failure, of the cycle's   *)
(* time, or otherwise.                                                      *)
FailTechnically(w, l) ==
    /\ place[w] = "crm"
    /\ lastFailure' = [lastFailure EXCEPT ![l] = at[w]]
    /\ Return(w)
    /\ UNCHANGED <<pendingAt, alertedAt, untilCheck, past, now, faults>>

EndCycle(w) ==
    /\ place[w] = "crm"
    /\ Return(w)
    /\ UNCHANGED <<columns, untilCheck, past, now, faults>>

(* The next check is due one retry delay after this reading, which itself   *)
(* takes a tick.                                                            *)
StartCheck(w) ==
    /\ place[w] = "idle" /\ untilCheck[w] = 0
    /\ Goto(w, "check")
    /\ at' = [at EXCEPT ![w] = now]
    /\ ClockGoesOn /\ untilCheck' = [Countdown EXCEPT ![w] = Retry - 1]
    /\ UNCHANGED <<columns, rows, episode, sent, past, faults>>

-----------------------------------------------------------------------------
Pending == {l \in Leads : pendingAt[l] # NoTime}

(* Mutant: the leads of the newest failures only are taken, the rest of the *)
(* episode is forgotten.                                                    *)
RecentlyPending(w, l) ==
    {m \in Leads : pendingAt[m] = pendingAt[l] /\ lastFailure[m] >= at[w] - Window}

(* All leads of the pending episode that l belongs to.                      *)
EpisodeOf(w, l) == {m \in Leads : pendingAt[m] = pendingAt[l]}

(* The oldest episode that is not recorded comes before any new one.        *)
TakePending(w, l) ==
    /\ place[w] = "check" /\ l \in Pending
    /\ \A m \in Pending : pendingAt[l] <= pendingAt[m]
    /\ rows' = [rows EXCEPT ![w] = EpisodeOf(w, l)]
    /\ episode' = [episode EXCEPT ![w] = pendingAt[l]]
    /\ Goto(w, "send")
    /\ UNCHANGED <<columns, at, sent, untilCheck, past, now, faults>>

(* Mutant: alerted leads qualify again while their failure is recent.       *)
RecentFailures(w) ==
    {l \in Leads : lastFailure[l] # NoTime /\ lastFailure[l] >= at[w] - Window}

(* Mutant: a lead is alerted once.                                          *)
QualifyingOnce(w) ==
    {l \in Leads : /\ lastFailure[l] # NoTime
                   /\ lastFailure[l] >= at[w] - Window
                   /\ pendingAt[l] = NoTime
                   /\ alertedAt[l] = NoTime}

(* The leads whose last failure is recent and newer than their last alert.  *)
Qualifying(w) ==
    {l \in Leads : /\ lastFailure[l] # NoTime
                   /\ lastFailure[l] >= at[w] - Window
                   /\ pendingAt[l] = NoTime
                   /\ alertedAt[l] = NoTime \/ lastFailure[l] > alertedAt[l]}

Enough(leads) == Cardinality(leads) >= Threshold

NoCluster(w) ==
    /\ place[w] = "check" /\ Pending = {} /\ ~ Enough(Qualifying(w))
    /\ Return(w)
    /\ UNCHANGED <<columns, untilCheck, past, now, faults>>

(* The qualifying rows are read without a lock ...                          *)
SelectCluster(w) ==
    /\ place[w] = "check" /\ Pending = {} /\ Enough(Qualifying(w))
    /\ rows' = [rows EXCEPT ![w] = Qualifying(w)]
    /\ Goto(w, "freeze")
    /\ UNCHANGED <<columns, at, episode, sent, untilCheck, past, now, faults>>

(* Mutant: the episode keeps the time its rows had when they were read.     *)
FreezeUntimed(w) ==
    /\ place[w] = "freeze"
    /\ LET fresh == rows[w] \ Pending
       IN  /\ pendingAt' = [l \in Leads |-> IF l \in fresh THEN at[w] ELSE pendingAt[l]]
           /\ frozen' = frozen \union {[at |-> at[w], lead |-> l, failure |-> lastFailure[l]] :
                                           l \in fresh}
    /\ Goto(w, "send")
    /\ UNCHANGED <<lastFailure, alertedAt, at, rows, episode, sent, untilCheck, told, now, faults>>

(* ... and updated by a second statement, which skips those that another    *)
(* worker has made pending meanwhile.                                       *)
FreezeEpisode(w) ==
    /\ place[w] = "freeze"
    /\ LET fresh == rows[w] \ Pending
       IN  /\ pendingAt' = [l \in Leads |-> IF l \in fresh THEN at[w] ELSE pendingAt[l]]
           /\ frozen' = frozen \union {[at |-> at[w], lead |-> l, failure |-> lastFailure[l]] :
                                           l \in fresh}
    /\ episode' = [episode EXCEPT ![w] = at[w]]
    /\ Goto(w, "send")
    /\ UNCHANGED <<lastFailure, alertedAt, at, rows, sent, untilCheck, told, now, faults>>

SendAlert(w, d) ==
    /\ place[w] = "send"
    /\ told' = IF d.taken = Addressees.cluster THEN told \union ({episode[w]} \X rows[w])
                                               ELSE told
    /\ sent' = [sent EXCEPT ![w] = d.sent]
    /\ Goto(w, "record")
    /\ UNCHANGED <<columns, at, rows, episode, untilCheck, frozen, now, faults>>

(* The rows of the episode are all still in it.                             *)
Current(w) == {l \in rows[w] : pendingAt[l] = episode[w]} = rows[w]

(* Mutant: the time of recording becomes the time of the alert.             *)
RecordCompletion(w) ==
    /\ place[w] = "record" /\ Current(w) /\ sent[w]
    /\ alertedAt' = [l \in Leads |-> IF l \in rows[w] THEN at[w] ELSE alertedAt[l]]
    /\ pendingAt' = [l \in Leads |-> IF l \in rows[w] THEN NoTime ELSE pendingAt[l]]
    /\ Return(w)
    /\ UNCHANGED <<lastFailure, untilCheck, past, now, faults>>

(* Mutant: what the result of the message was is not asked.                 *)
RecordAnyResult(w) ==
    /\ place[w] = "record" /\ Current(w)
    /\ alertedAt' = [l \in Leads |-> IF l \in rows[w] THEN episode[w] ELSE alertedAt[l]]
    /\ pendingAt' = [l \in Leads |-> IF l \in rows[w] THEN NoTime ELSE pendingAt[l]]
    /\ Return(w)
    /\ UNCHANGED <<lastFailure, untilCheck, past, now, faults>>

RecordAlert(w) ==
    /\ place[w] = "record" /\ Current(w) /\ sent[w]
    /\ alertedAt' = [l \in Leads |-> IF l \in rows[w] THEN episode[w] ELSE alertedAt[l]]
    /\ pendingAt' = [l \in Leads |-> IF l \in rows[w] THEN NoTime ELSE pendingAt[l]]
    /\ Return(w)
    /\ UNCHANGED <<lastFailure, untilCheck, past, now, faults>>

(* A failed message, or a stale episode, changes nothing.                   *)
KeepEpisode(w) ==
    /\ place[w] = "record" /\ ~ (Current(w) /\ sent[w])
    /\ Return(w)
    /\ UNCHANGED <<columns, untilCheck, past, now, faults>>

(* The operation or the cycle raises; its transaction is rolled back.       *)
Raise(w) ==
    /\ place[w] # "idle" /\ faults < MaxFaults
    /\ faults' = faults + 1
    /\ Return(w)
    /\ UNCHANGED <<columns, untilCheck, past, now>>

Crash(w) ==
    /\ faults < MaxFaults
    /\ faults' = faults + 1
    /\ Return(w)
    /\ untilCheck' = [untilCheck EXCEPT ![w] = 0]
    /\ UNCHANGED <<columns, past, now>>

Tick ==
    /\ now < MaxClock \/ \E w \in Workers : untilCheck[w] > 0
    /\ ClockGoesOn /\ untilCheck' = Countdown
    /\ UNCHANGED <<columns, worker, past, faults>>

-----------------------------------------------------------------------------
CheckStep(w) ==
    \/ StartCheck(w) \/ NoCluster(w) \/ SelectCluster(w) \/ FreezeEpisode(w)
    \/ \E l \in Leads : TakePending(w, l)
    \/ \E d \in ClusterDeliveries : SendAlert(w, d)
    \/ RecordAlert(w) \/ KeepEpisode(w)

CycleStep(w) == StartCycle(w) \/ EndCycle(w) \/ \E l \in Leads : FailTechnically(w, l)

Next ==
    \/ \E w \in Workers : CheckStep(w) \/ CycleStep(w) \/ Raise(w) \/ Crash(w)
    \/ Tick

Spec == Init /\ [][Next]_vars

-----------------------------------------------------------------------------
(* Every variable keeps its type, and a worker that mails holds an episode. *)
TypeOK ==
    /\ lastFailure \in [Leads -> Times]
    /\ pendingAt \in [Leads -> Times]
    /\ alertedAt \in [Leads -> Times]
    /\ place \in [Workers -> {"idle", "crm", "check", "freeze", "send", "record"}]
    /\ at \in [Workers -> Times]
    /\ rows \in [Workers -> SUBSET Leads]
    /\ episode \in [Workers -> Times]
    /\ sent \in [Workers -> BOOLEAN]
    /\ \A w \in Workers :
          place[w] \in {"send", "record"} => rows[w] # {} /\ episode[w] # NoTime
    /\ untilCheck \in [Workers -> Nat]
    /\ frozen \subseteq [at : Times, lead : Leads, failure : Times]
    /\ told \subseteq Times \X Leads
    /\ now \in Nat /\ faults \in Nat

(* However many workers prepare, mail and record episodes at a time, a lead *)
(* is recorded as alerted at a time only if all addressees had a message    *)
(* about the episode of that time with the lead in it.                      *)
AlertedWasMailed ==
    \A l \in Leads : alertedAt[l] # NoTime => <<alertedAt[l], l>> \in told

(* One replica: the pending leads are one episode, of enough leads, however *)
(* often it is mailed in vain and whatever fails meanwhile.                 *)
EpisodeIntact ==
    /\ \A l, m \in Pending : pendingAt[l] = pendingAt[m]
    /\ Pending # {} => Enough(Pending)

(* docs/08_notifications.md: "a newer failure occurring while the email is  *)
(* in flight remains eligible": a failure that no longer qualifies because  *)
(* of an alert was in that alert or in an earlier one.                      *)
NothingSwallowed ==
    \A l \in Leads : lastFailure[l] # NoTime /\ lastFailure[l] <= alertedAt[l] =>
        \E f \in frozen : /\ f.lead = l /\ f.failure = lastFailure[l]
                          /\ <<f.at, l>> \in told

(* No failure of a lead is counted towards two episodes.                    *)
CountedOnce ==
    \A f, g \in frozen : f.lead = g.lead /\ f.failure = g.failure => f.at = g.at
=============================================================================
