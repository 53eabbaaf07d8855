---------------------------- MODULE NoticePromise ----------------------------
(***************************************************************************)
(* What the batch streams promise of the failures people must hear of,     *)
(* with no workers, batches, schedules or mail servers: the people a       *)
(* matter concerns are told, in any order and perhaps more than once,      *)
(* until each of them was and this is recorded; from then on nobody is     *)
(* told of it again.                                                       *)
(***************************************************************************)
EXTENDS Naturals

CONSTANTS Matters, People, Audience   \* Audience[m] \subseteq People

VARIABLES
    copies,    \* messages about each matter that each person has had
    recorded   \* the matters everybody concerned is known to have heard of

Init ==
    /\ copies = [m \in Matters |-> [p \in People |-> 0]]
    /\ recorded = {}

(* One message may be about several matters and reach some of the people.   *)
Tell ==
    /\ copies' \in [Matters -> [People -> Nat]]
    /\ \A m \in Matters, p \in People :
          copies'[m][p] # copies[m][p] =>
              m \notin recorded /\ p \in Audience[m] /\ copies'[m][p] > copies[m][p]
    /\ UNCHANGED recorded

Record(ms) ==
    /\ \A m \in ms : \A p \in Audience[m] : copies[m][p] > 0
    /\ recorded' = recorded \union ms
    /\ UNCHANGED copies

Next == Tell \/ \E ms \in SUBSET Matters : Record(ms)

Spec == Init /\ [][Next]_<<copies, recorded>>
=============================================================================
