------------------------------- MODULE Arming -------------------------------
(***************************************************************************)
(* What the server promises about arming, with no threads, flags or        *)
(* orders: the pump runs only in an armed state; SAFE is left only for     *)
(* PREARMED and an armed state is entered only from there, both with the   *)
(* pump off.  The promise lapses when an operator's cancellation overtakes *)
(* a thread that is at work; from then on anything may happen.             *)
(***************************************************************************)
VARIABLES mode, pumping, lapsed

armingVars == <<mode, pumping, lapsed>>

Unarmed == {"SAFE", "PREARMED"}
ArmedModes == {"ENGAGE_AUTO", "ARMED_MANUAL"}

Init == mode = "SAFE" /\ pumping = FALSE /\ lapsed = FALSE

Safe == mode' = "SAFE" /\ pumping' = FALSE /\ UNCHANGED lapsed

Prearm == mode = "SAFE" /\ mode' = "PREARMED" /\ UNCHANGED <<pumping, lapsed>>

Arm == mode = "PREARMED" /\ mode' \in ArmedModes /\ UNCHANGED <<pumping, lapsed>>

Disarm == mode \in ArmedModes /\ mode' = "PREARMED" /\ pumping' = FALSE /\ UNCHANGED lapsed

Pump == mode \in ArmedModes /\ pumping' \in BOOLEAN /\ UNCHANGED <<mode, lapsed>>

Lapse ==
    /\ lapsed' = TRUE
    /\ mode' \in Unarmed \cup ArmedModes
    /\ pumping' \in BOOLEAN

Next == Safe \/ Prearm \/ Arm \/ Disarm \/ Pump \/ Lapse

Spec == Init /\ [][Next]_armingVars
=============================================================================
