---------------------------- MODULE IntakePromise ----------------------------
(***************************************************************************)
(* What the intake promises of a provider event, with no requests, workers *)
(* or leases: the first delivery that commits fixes its payload, it then   *)
(* becomes exactly one lead if the payload can be converted and a failure  *)
(* if it cannot, and that is final.                                        *)
(***************************************************************************)
CONSTANTS Events, Payloads

VARIABLES
    content,   \* the payload an event is stored with, "none" before
    outcome    \* "open", then "lead" or "failed"

Init ==
    /\ content = [e \in Events |-> "none"]
    /\ outcome = [e \in Events |-> "open"]

Store(e) ==
    /\ content[e] = "none"
    /\ \E p \in Payloads : content' = [content EXCEPT ![e] = p]
    /\ UNCHANGED outcome

Settle(e, p, to) ==
    /\ content[e] = p /\ outcome[e] = "open"
    /\ outcome' = [outcome EXCEPT ![e] = to]
    /\ UNCHANGED content

Next ==
    \E e \in Events :
        Store(e) \/ Settle(e, "valid", "lead") \/ Settle(e, "invalid", "failed")

Spec == Init /\ [][Next]_<<content, outcome>>
=============================================================================
