----------------------------- MODULE PackageSlot -----------------------------
(***************************************************************************)
(* What a package store promises a reactor: one durable slot, replaced as a *)
(* whole, and a memory that only ever takes the slot's value as a whole.    *)
(* A replacement may pass through the empty slot, and the slot may be lost, *)
(* but an older or a mixed package never comes back.                        *)
(***************************************************************************)
CONSTANTS Packages, Empty

VARIABLES slot, serving

slotVars == <<slot, serving>>

SlotInit == slot = Empty /\ serving = Empty

Publish == slot' \in Packages /\ UNCHANGED serving
Lose    == slot # Empty /\ slot' = Empty /\ UNCHANGED serving
Serve   == slot # Empty /\ serving' = slot /\ UNCHANGED slot
Forget  == serving' = Empty /\ UNCHANGED slot

SlotNext == Publish \/ Lose \/ Serve \/ Forget

SlotSpec == SlotInit /\ [][SlotNext]_slotVars
===============================================================================
