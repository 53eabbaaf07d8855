----------------------------- MODULE LeadPromise -----------------------------
(***************************************************************************)
(* What CRM delivery promises for each lead, with no workers, clocks,      *)
(* pauses or requests: the lead is created in HubSpot at most once, it is  *)
(* attempted again only while it is certain that nothing was or will be    *)
(* created for it, an uncertain attempt is never repeated, and an outcome  *)
(* once recorded is final.                                                 *)
(***************************************************************************)
EXTENDS Naturals

CONSTANT Leads

VARIABLES
    phase,    \* what is recorded of each lead
    effects   \* Contacts created for it

Phases == {"none", "ready", "attempting", "uncertain", "delivered", "existing",
           "failed", "unresolved"}

Init ==
    /\ phase = [l \in Leads |-> "none"]
    /\ effects = [l \in Leads |-> 0]

Move(l, from, to) ==
    /\ phase[l] \in from
    /\ phase' = [phase EXCEPT ![l] = to]
    /\ UNCHANGED effects

Arrive(l)    == Move(l, {"none"}, "ready")
Attempt(l)   == Move(l, {"ready"}, "attempting")

(* An attempt may take effect for as long as it is not known to be over.    *)
Effect(l) ==
    /\ phase[l] \in {"attempting", "uncertain", "unresolved"}
    /\ effects[l] = 0
    /\ effects' = [effects EXCEPT ![l] = 1]
    /\ UNCHANGED phase

(* A refusal is final for the attempt: no effect, and none to come.         *)
Refuse(l) ==
    /\ effects[l] = 0
    /\ \E to \in {"ready", "existing", "failed"} : Move(l, {"attempting"}, to)

LoseTrack(l) == Move(l, {"attempting"}, "uncertain")
Confirm(l)   == effects[l] = 1 /\ Move(l, {"attempting", "uncertain"}, "delivered")
GiveUp(l)    == Move(l, {"uncertain"}, "unresolved")

Step(l) ==
    \/ Arrive(l) \/ Attempt(l) \/ Effect(l) \/ Refuse(l)
    \/ LoseTrack(l) \/ Confirm(l) \/ GiveUp(l)

Next == \E l \in Leads : Step(l)

Spec == Init /\ [][Next]_<<phase, effects>>
=============================================================================
