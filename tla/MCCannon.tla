------------------------------ MODULE MCCannon ------------------------------
(* Small instances of Cannon for TLC.                                        *)
EXTENDS Cannon

Plain == {Only(b) : b \in Bases \cup {"OTHER"}}

\* Every base, and in manual the words of a client whose laser or calibration box
\* is ticked, or whose copy of the state still carries FIRING.
AllRequests ==
    Plain \cup {[base |-> "ARMED_MANUAL", flags |-> F] :
                  F \in {{"LASER_ON"}, {"CALIB_ON"}, {"LASER_ON", "FIRING"}}}

\* Two targets, one target, a text with a character that is no digit, an
\* empty text and one longer than the array.
AllOrders == {<<1, 0>>, <<1>>, <<0, NonDigit>>, <<>>, <<1, 0, 1>>}

LiveOrders == {<<1, 0>>}
OneOrder == {<<1>>}
=============================================================================
