------------------------------ MODULE ServoPi ------------------------------
(***************************************************************************)
(* The pulse that Servo::angle makes of an angle.  The unit of an angle is *)
(* half a degree, the step of a pan or tilt command; the driver is opened  *)
(* with pulses of 0.75 to 2.25 ms at 50 Hz, counted in 4096ths of the      *)
(* period.  Every conversion to uint16_t drops the fraction.               *)
(***************************************************************************)
EXTENDS Integers

HalfCircle == 360
Steps == 4095
LowPulse == 153
HighPulse == 460

\* h is an angle in half degrees; those beyond a quarter turn to either side are cut off.
Position(h) ==
    LET a == IF h > 180 THEN 180 ELSE IF h < -180 THEN -180 ELSE h
    IN  ((a + 180) * Steps) \div HalfCircle

\* Mutant of Pulse: the quotient is taken before the product, as integers do.
PulseDividedFirst(h) ==
    ((HighPulse - LowPulse) \div Steps) * Position(h) + LowPulse

Pulse(h) ==
    ((HighPulse - LowPulse) * Position(h)) \div Steps + LowPulse

\* The two registers that end the pulse, written one byte at a time.
OffLow(h) == Pulse(h) % 256
OffHigh(h) == Pulse(h) \div 256

-----------------------------------------------------------------------------
\* The pulse an exact division gives, the fraction dropped once.
ExactPulse(h) == ((HighPulse - LowPulse) * (h + 180)) \div HalfCircle + LowPulse

\* The angles at which dropping the fraction twice costs at most one count and the
\* count fits the two byte registers, and from which one step moves the pulse by one
\* count or not at all and two in the same direction always move it.
FaithfulAngles ==
    {h \in -180 .. 178 :
        /\ Pulse(h) \in {ExactPulse(h) - 1, ExactPulse(h)}
        /\ OffHigh(h) < 16 /\ 256 * OffHigh(h) + OffLow(h) = Pulse(h)
        /\ Pulse(h + 1) \in {Pulse(h), Pulse(h) + 1}
        /\ Pulse(h + 2) > Pulse(h)}
=============================================================================
