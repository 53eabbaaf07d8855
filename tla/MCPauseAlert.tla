----------------------------- MODULE MCPauseAlert -----------------------------
(***************************************************************************)
(* PauseAlert for TLC, and its liveness.                                   *)
(***************************************************************************)
EXTENDS PauseAlert

Accepted == \E w \in Workers : \E d \in PauseDeliveries : d.sent /\ SendAlert(w, d)

(***************************************************************************)
(* Workers go on (the sender has a timeout, exceptions are caught, the     *)
(* container is restarted) and time passes.  The server accepts a message  *)
(* now and then.                                                           *)
(***************************************************************************)
LiveSpec ==
    /\ Spec
    /\ \A w \in Workers : WF_vars(WorkerStep(w))
    /\ WF_vars(Tick)
    /\ SF_vars(Accepted)

(* docs/08_notifications.md: an alert that fails is retried "on the         *)
(* worker's 5-minute notification check": every pause is alerted or cleared *)
(* in the end, whatever crashes and however often the message fails before. *)
EveryPauseAlerted == (Paused /\ ~ alertSent) ~> (alertSent \/ ~ Paused)
=============================================================================
