---------------------------- MODULE MCEventPipeline ----------------------------
(***************************************************************************)
(* EventPipeline for TLC: symmetries, and a specification in which the     *)
(* clock waits for the workers, for liveness.                              *)
(***************************************************************************)
EXTENDS EventPipeline, TLC

ConvertedOrRefused == {"valid", "invalid"}
AnyPayload == {"valid", "invalid", "raises"}

Symmetry == Permutations(Requests) \union Permutations(Workers)

(***************************************************************************)
(* A worker that can take a step takes one, and time passes while a        *)
(* claimed event waits for its lease.  Nothing is promised of providers,   *)
(* requests and crashes.                                                   *)
(***************************************************************************)
Waiting == \E e \in Events : event[e].status = "PROCESSING"

LazyTick ==
    /\ Waiting /\ Received = {}
    /\ \A w \in Workers : job[w] = NoEvent
    /\ \A e \in Events : event[e].status = "PROCESSING" => event[e].startedAt >= now - Lease
    /\ Tick

LazyNext == WebStep \/ LazyTick \/ \E w \in Workers : WorkerStep(w) \/ Abandon(w)

LiveSpec ==
    /\ Init /\ [][LazyNext]_vars
    /\ \A w \in Workers : WF_vars(WorkerStep(w))
    /\ WF_vars(LazyTick)

(* Every event the provider was told is accepted ends as a lead or as a     *)
(* recorded failure, whatever crashes on the way.                           *)
EveryEventFinishes ==
    \A e \in Events :
        e \in acked ~> event[e].status \in {"NORMALIZED", "NORMALIZATION_FAILED"}
=============================================================================
