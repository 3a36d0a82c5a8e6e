------------------------------ MODULE MCAiming ------------------------------
(* A small instance of Aiming for TLC.                                       *)
EXTENDS Aiming

Place(p, t) == [a \in Axes |-> IF a = "pan" THEN p ELSE t]

\* Two places in reach, one beyond the pan limit and one at the tilt limit.
SomePlaces == {Place(0, 0), Place(0, 1), Place(2, 0)}

\* The operator steps the pan in one direction, over the limit in the end.
SomeCommands == {[axis |-> "pan", step |-> 1]}
=============================================================================
