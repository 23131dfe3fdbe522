----------------------------- MODULE FilterChain -----------------------------
(***************************************************************************)
(* What a chain of n reversible filters promises its caller, with nothing   *)
(* said about buffers: a volume passes through every stage in order, the    *)
(* chain either delivers the fully filtered volume or refuses, and decoding *)
(* what was delivered undoes the stages in reverse order.                   *)
(*                                                                         *)
(* data is the number of stages the volume carries, or Lost once a stage    *)
(* failed to process it.                                                    *)
(***************************************************************************)
EXTENDS Integers

CONSTANT Lengths    \* numbers of stages a chain may have

VARIABLES n, phase, data, reported

vars == <<n, phase, data, reported>>

Lost == -1

Init == n \in Lengths /\ phase = "idle" /\ data = 0 /\ reported = FALSE

Accept ==
    /\ phase = "idle"
    /\ phase' = "encoding"
    /\ UNCHANGED <<n, data, reported>>

Filter ==
    /\ phase = "encoding"
    /\ data \in 0 .. n - 1
    /\ data' = data + 1
    /\ UNCHANGED <<n, phase, reported>>

\* The stage did not produce a result the chain accepts.
Refuse ==
    /\ phase = "encoding"
    /\ data < n
    /\ phase' = "refused"
    /\ data' = Lost
    /\ UNCHANGED <<n, reported>>

Deliver ==
    /\ phase = "encoding"
    /\ data = n
    /\ phase' = "delivered"
    /\ UNCHANGED <<n, data, reported>>

Return ==
    /\ phase = "delivered"
    /\ phase' = "decoding"
    /\ UNCHANGED <<n, data, reported>>

Unfilter ==
    /\ phase = "decoding"
    /\ data \in 1 .. n
    /\ data' = data - 1
    /\ UNCHANGED <<n, phase, reported>>

\* A stage reports an error: what it leaves behind is no longer the volume.
Fault ==
    /\ phase = "decoding"
    /\ data # 0
    /\ data' = Lost
    /\ reported' = TRUE
    /\ UNCHANGED <<n, phase>>

\* Only a volume freed of all its stages, or a reported error, comes back.
Restore ==
    /\ phase = "decoding"
    /\ data = 0 \/ (data = Lost /\ reported)
    /\ phase' = "restored"
    /\ UNCHANGED <<n, data, reported>>

NextVolume ==
    /\ phase \in {"refused", "restored"}
    /\ phase' = "idle" /\ data' = 0 /\ reported' = FALSE
    /\ UNCHANGED n

Next ==
    \/ Accept \/ Filter \/ Refuse \/ Deliver
    \/ Return \/ Unfilter \/ Fault \/ Restore
    \/ NextVolume

Spec == Init /\ [][Next]_vars
=============================================================================
