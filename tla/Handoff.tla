------------------------------- MODULE Handoff --------------------------------
(***************************************************************************)
(* What a coding execution promises: one patch is offered for review, it   *)
(* stays as it was offered, and it is taken or dropped once.               *)
(***************************************************************************)
CONSTANTS
    Patches,
    NoPatch         \* no patch is offered

VARIABLES phase, patch

vars == <<phase, patch>>

Init == phase = "pending" /\ patch = NoPatch

Offer(p) == phase = "pending" /\ phase' = "offered" /\ patch' = p

(* The operator approves what was offered.                                  *)
Take == phase = "offered" /\ phase' = "taken" /\ UNCHANGED patch

(* The execution fails, or is cancelled before or after the offer.          *)
Drop == phase \in {"pending", "offered"} /\ phase' = "dropped" /\ patch' = NoPatch

Next == (\E p \in Patches : Offer(p)) \/ Take \/ Drop

Spec == Init /\ [][Next]_vars
=============================================================================
