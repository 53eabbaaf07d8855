------------------------------ MODULE PauseAlert ------------------------------
(***************************************************************************)
(* The alert of a CRM pause: process_crm_pause_alert of                    *)
(* notifications/service.py, called right after the cycle that activated   *)
(* the pause and by every notification check (worker.py), against the      *)
(* activation of a pause (crm_delivery.py) and the operator who clears it  *)
(* (operator.py).  The pause is read in one transaction, mailed outside of *)
(* any, and the result recorded in a second one if the pause is still the  *)
(* same.                                                                   *)
(*                                                                         *)
(* paused_at only tells one pause from another here: it is the number of   *)
(* the activation, which no two cycles share as no two share their time.   *)
(***************************************************************************)
EXTENDS SmtpSender

CONSTANTS
    Workers,     \* worker replicas
    Retry,       \* notification_failure_retry_seconds
    MaxPauses,   \* bound: activations
    MaxFaults    \* bound: crashes and exceptions

ASSUME PauseAssumption ==
    Retry \in Nat \ {0} /\ MaxPauses \in Nat /\ MaxFaults \in Nat

VARIABLES
    pause,        \* the active pause, NoPause if there is none
    alertSent,    \* pause_alert_sent_at is set
    alertError,   \* pause_alert_last_error is set
    place, captured, sent,   \* a worker in a cycle or an alert
    untilCheck,   \* time until each worker's next notification check
    copies,       \* messages each person had about each pause, Many standing for two or more
    missed,       \* pauses of which a message failed
    activations, faults

state  == <<pause, alertSent, alertError>>
worker == <<place, captured, sent, untilCheck>>
past   == <<copies, missed>>
bounds == <<activations, faults>>
vars   == <<pause, alertSent, alertError, place, captured, sent, untilCheck,
            copies, missed, activations, faults>>

-----------------------------------------------------------------------------
Reasons == {"AUTH", "CONFIG"}
Pauses == [reason : Reasons, at : 1..MaxPauses]
NoPause == [reason |-> "none", at |-> 0]
People == {"ops", "automation"}
Many == 2

PauseDeliveries == Deliveries(Addressees.pause)

Init ==
    /\ pause = NoPause /\ alertSent = FALSE /\ alertError = FALSE
    /\ place = [w \in Workers |-> "idle"]
    /\ captured = [w \in Workers |-> NoPause]
    /\ sent = [w \in Workers |-> FALSE]
    /\ untilCheck = [w \in Workers |-> 0]
    /\ copies = [e \in Pauses |-> [p \in People |-> 0]]
    /\ missed = {}
    /\ activations = 0 /\ faults = 0

Paused == pause # NoPause

Goto(w, to) == place' = [place EXCEPT ![w] = to]

Return(w) ==
    /\ Goto(w, "idle")
    /\ captured' = [captured EXCEPT ![w] = NoPause]
    /\ sent' = [sent EXCEPT ![w] = FALSE]

-----------------------------------------------------------------------------
(* A cycle begins when no check is due, and its CRM work only while there   *)
(* is no pause.                                                             *)
ClaimCrmWork(w) ==
    /\ place[w] = "idle" /\ untilCheck[w] > 0 /\ ~ Paused
    /\ Goto(w, "crm")
    /\ UNCHANGED <<state, captured, sent, untilCheck, past, bounds>>

FinishCrmWork(w) ==
    /\ place[w] = "crm"
    /\ Goto(w, "idle")
    /\ UNCHANGED <<state, captured, sent, untilCheck, past, bounds>>

(* _activate_pause, and the outcome on which the cycle calls the alert at   *)
(* once; a pause that is already active is not touched.                     *)
NewPause(w, r) ==
    /\ place[w] = "crm" /\ ~ Paused /\ activations < MaxPauses
    /\ activations' = activations + 1
    /\ pause' = [reason |-> r, at |-> activations']
    /\ alertSent' = FALSE /\ alertError' = FALSE

(* Mutant: the alert columns are reset whether or not there was a pause.    *)
ResetAlert(w) ==
    /\ place[w] = "crm" /\ Paused
    /\ alertSent' = FALSE /\ alertError' = FALSE
    /\ UNCHANGED <<pause, activations>>

AlreadyPaused(w) ==
    /\ place[w] = "crm" /\ Paused
    /\ UNCHANGED <<state, activations>>

ActivatePause(w) ==
    /\ AlreadyPaused(w) \/ \E r \in Reasons : NewPause(w, r)
    /\ Goto(w, "alert")
    /\ UNCHANGED <<captured, sent, untilCheck, past, faults>>

(* Mutant: paused_at is not cleared with the reason.                        *)
ClearReasonOnly ==
    /\ Paused
    /\ pause' = [pause EXCEPT !.reason = "none"]
    /\ alertSent' = FALSE /\ alertError' = FALSE

(* clear_crm_pause.                                                         *)
ClearColumns ==
    /\ Paused
    /\ pause' = NoPause
    /\ alertSent' = FALSE /\ alertError' = FALSE

ClearPause ==
    /\ ClearColumns
    /\ UNCHANGED <<worker, past, bounds>>

-----------------------------------------------------------------------------
(* The notification check begins with the pause alert.                      *)
StartCheck(w) ==
    /\ place[w] = "idle" /\ untilCheck[w] = 0
    /\ Goto(w, "alert")
    /\ untilCheck' = [untilCheck EXCEPT ![w] = Retry]
    /\ UNCHANGED <<state, captured, sent, past, bounds>>

NothingToAlert(w) ==
    /\ place[w] = "alert" /\ (~ Paused \/ alertSent)
    /\ Return(w)
    /\ UNCHANGED <<state, untilCheck, past, bounds>>

(* Mutant: an alert that failed is not tried again.                         *)
CaptureUntried(w) ==
    /\ place[w] = "alert" /\ Paused /\ ~ alertSent /\ ~ alertError
    /\ captured' = [captured EXCEPT ![w] = pause]
    /\ Goto(w, "send")
    /\ UNCHANGED <<state, sent, untilCheck, past, bounds>>

CapturePause(w) ==
    /\ place[w] = "alert" /\ Paused /\ ~ alertSent
    /\ captured' = [captured EXCEPT ![w] = pause]
    /\ Goto(w, "send")
    /\ UNCHANGED <<state, sent, untilCheck, past, bounds>>

OneMore(n) == IF n = Many THEN Many ELSE n + 1

SendAlert(w, d) ==
    /\ place[w] = "send"
    /\ copies' = [copies EXCEPT ![captured[w]] =
           [p \in People |-> IF p \in d.taken THEN OneMore(@[p]) ELSE @[p]]]
    /\ missed' = IF d.sent THEN missed ELSE missed \union {captured[w]}
    /\ sent' = [sent EXCEPT ![w] = d.sent]
    /\ Goto(w, "record")
    /\ UNCHANGED <<state, captured, untilCheck, bounds>>

(* Mutant: a pause of the same reason is taken for the same pause.          *)
SameReason(w) == pause.reason = captured[w].reason /\ ~ alertSent

SamePause(w) == pause = captured[w] /\ ~ alertSent

RecordAlert(w) ==
    /\ place[w] = "record" /\ SamePause(w)
    /\ alertSent' = sent[w] /\ alertError' = ~ sent[w]
    /\ Return(w)
    /\ UNCHANGED <<pause, untilCheck, past, bounds>>

(* The pause was cleared, or cleared and activated again, or another worker *)
(* recorded its alert.                                                      *)
StalePause(w) ==
    /\ place[w] = "record" /\ ~ SamePause(w)
    /\ Return(w)
    /\ UNCHANGED <<state, untilCheck, past, bounds>>

(* The cycle and the check go on after an exception of the alert.           *)
AlertRaises(w) ==
    /\ place[w] # "idle" /\ faults < MaxFaults
    /\ faults' = faults + 1
    /\ Return(w)
    /\ UNCHANGED <<state, untilCheck, past, activations>>

Crash(w) ==
    /\ faults < MaxFaults
    /\ faults' = faults + 1
    /\ Return(w)
    /\ untilCheck' = [untilCheck EXCEPT ![w] = 0]
    /\ UNCHANGED <<state, past, activations>>

Tick ==
    /\ \E w \in Workers : untilCheck[w] > 0
    /\ untilCheck' = [w \in Workers |-> IF untilCheck[w] = 0 THEN 0 ELSE untilCheck[w] - 1]
    /\ UNCHANGED <<state, place, captured, sent, past, bounds>>

-----------------------------------------------------------------------------
WorkerStep(w) ==
    \/ ClaimCrmWork(w) \/ FinishCrmWork(w) \/ ActivatePause(w)
    \/ StartCheck(w) \/ NothingToAlert(w) \/ CapturePause(w)
    \/ \E d \in PauseDeliveries : SendAlert(w, d)
    \/ RecordAlert(w) \/ StalePause(w)

Next ==
    \/ \E w \in Workers : WorkerStep(w) \/ AlertRaises(w) \/ Crash(w)
    \/ ClearPause \/ Tick

Spec == Init /\ [][Next]_vars

-----------------------------------------------------------------------------
(* Every variable keeps its type.                                           *)
TypeOK ==
    /\ pause \in Pauses \union {NoPause}
    /\ alertSent \in BOOLEAN /\ alertError \in BOOLEAN
    /\ place \in [Workers -> {"idle", "crm", "alert", "send", "record"}]
    /\ captured \in [Workers -> Pauses \union {NoPause}]
    /\ sent \in [Workers -> BOOLEAN]
    /\ untilCheck \in [Workers -> 0..Retry]
    /\ copies \in [Pauses -> [People -> 0..Many]]
    /\ missed \subseteq Pauses
    /\ activations \in 0..MaxPauses /\ faults \in 0..MaxFaults

(* docs/08_notifications.md: "A later new pause is a new alert episode":    *)
(* whatever is cleared and activated while SMTP runs, an alert is recorded  *)
(* as sent only for the pause all addressees were told of, and an error     *)
(* only for the pause whose message failed.                                 *)
AlertBelongsToPause ==
    /\ alertSent => Paused /\ \A p \in People : copies[pause][p] > 0
    /\ alertError => pause \in missed

(* docs/08_notifications.md accepts "that rare duplicate" of a worker that  *)
(* crashes "before the DB timestamp commits" and of a message that failed.  *)
(* Otherwise what people have heard is recorded or about to be: although    *)
(* several cycles meet one pause and each check alerts it, and the operator *)
(* clears it meanwhile, no pause that is mailed again was heard of.         *)
HeardIsRecorded ==
    Paused /\ ~ alertSent /\ faults = 0 /\ pause \notin missed =>
        \/ \A p \in People : copies[pause][p] = 0
        \/ \E w \in Workers : place[w] = "record" /\ captured[w] = pause /\ sent[w]
=============================================================================
