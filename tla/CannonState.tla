---------------------------- MODULE CannonState ----------------------------
(***************************************************************************)
(* The vocabulary of the cannon server: the system state word of           *)
(* Common/Message.h and the states of an automatic engagement.             *)
(*                                                                         *)
(* SystemState_t is a bit mask.  Its low four bits hold the operating      *)
(* state and four more bits hold flags that are set and cleared on their   *)
(* own.  The model splits the word in two: a base, and the set of flags.   *)
(***************************************************************************)

\* The operating states the server's own assignments can leave in the word.
Bases == {"SAFE", "PREARMED", "ENGAGE_AUTO", "ARMED_MANUAL"}

\* The bits CLEAR_LASER_FIRING_ARMED_CALIB_MASK removes.
Flags == {"ARMED", "FIRING", "LASER_ON", "CALIB_ON"}

SystemStates == [base : Bases, flags : SUBSET Flags]

\* A client may ask for any word.  "OTHER" stands for every base that is not
\* one of the four, UNKNOWN among them.
RequestWords == [base : Bases \cup {"OTHER"}, flags : SUBSET Flags]

\* The word with no flag: state & CLEAR_LASER_FIRING_ARMED_CALIB_MASK.
Only(b) == [base |-> b, flags |-> {}]

WithFlag(s, f) == [s EXCEPT !.flags = @ \cup {f}]

WithoutFlags(s, F) == [s EXCEPT !.flags = @ \ F]

\* What fire(true) tests before it touches the pin.
FirePermitted(s) == s.base \notin {"SAFE", "PREARMED"}

\* TEngagementState, the state of the automatic engagement.
EngagementStates ==
    {"NOT_ACTIVE", "ACTIVATE", "NEW_TARGET", "LOOKING_FOR_TARGET", "TRACKING",
     "TRACKING_STABLE", "ENGAGEMENT_IN_PROGRESS", "ENGAGEMENT_COMPLETE"}
=============================================================================
