------------------------------- MODULE Aiming -------------------------------
(***************************************************************************)
(* Pointing the cannon: the angles Pan and Tilt, which the main thread     *)
(* corrects by what it sees of a target and the network thread steps by    *)
(* the operator's commands, and the servos they are told to.               *)
(*                                                                         *)
(* The threads read and write the angles with no lock; only ServoAngle,    *)
(* which tests an angle against its limits and tells it to the servo, holds*)
(* I2C_Mutex.  Where the compiler may read an angle again or use the value *)
(* it has, both are modelled.                                              *)
(*                                                                         *)
(* Angles are counted in half degrees: a command is one step, and two      *)
(* angles are close in the sense of compare_float when they are equal.     *)
(***************************************************************************)
EXTENDS ServoPi

CONSTANTS
    Limit,       \* MAX_PAN and MAX_TILT; MIN_PAN and MIN_TILT are its negatives
    MaxAngle,    \* bounds the angles the program may drift to: it holds them there
    Places,      \* where a target may be, as a pan and a tilt angle
    Commands     \* the pan and tilt commands the operator sends

Axes == {"pan", "tilt"}

ASSUME LimitAssumption == Limit \in Nat \ {0}
ASSUME MaxAngleAssumption == MaxAngle \in Nat /\ MaxAngle > Limit
ASSUME PlacesAssumption == Places # {} /\ Places \subseteq [Axes -> -MaxAngle .. MaxAngle]
ASSUME CommandsAssumption == Commands \subseteq [axis : Axes, step : {-1, 1}]

VARIABLES
    angle,        \* Pan and Tilt
    told,         \* the angles of the servos
    target,       \* where the target of the moment is, as it was last seen
    photo,        \* the error the last searched frame shows, or Unseen
    State,        \* AutoEngage.State
    manual,       \* the system state lets pan and tilt commands through
    StableCount,
    last,         \* LastPan and LastTilt, or Nowhere
    at, axis, value,   \* each thread's place, axis and angle in hand
    adrift,       \* history: the axes skipped since they were last told
    disturbed,    \* history: a command came since this target's first frame, or that
                  \* frame was not examined
    steady        \* history: the frames judged since the target came or moved, up
                  \* to Enough

engagement == <<State, manual, StableCount, last>>
threads == <<at, axis, value>>
history == <<adrift, disturbed, steady>>
vars == <<angle, told, target, photo, engagement, threads, history>>

Threads == {"main", "network"}
Angles == -MaxAngle .. MaxAngle
Bounded(a) == IF a < -MaxAngle THEN -MaxAngle ELSE IF a > MaxAngle THEN MaxAngle ELSE a
InReach(a) == -Limit < a /\ a < Limit
InLimits(a) == -Limit <= a /\ a <= Limit
Unseen == [a \in Axes |-> 2 * MaxAngle + 1]
Nowhere == [a \in Axes |-> -MaxAngle - 1]   \* -99999.99 in the code
StableFrames == 2
Enough == StableFrames + 1

Running == {"NEW_TARGET", "LOOKING_FOR_TARGET", "TRACKING"}
AimStates == Running \cup {"NOT_ACTIVE", "ENGAGEMENT_IN_PROGRESS", "ENGAGEMENT_COMPLETE"}

\* Places of a thread; "frame" and "look" are the main thread's outside TryToMatch,
\* and "tell" is the only one with I2C_Mutex held.
AtRest == at["main"] \in {"frame", "look"} /\ at["network"] = "idle"

TypeOK ==
    /\ angle \in [Axes -> Angles] /\ told \in [Axes -> Angles]
    /\ target \in Places
    /\ photo \in [Axes -> Int]
    /\ State \in AimStates
    /\ manual \in BOOLEAN
    /\ StableCount \in 0 .. Enough
    /\ last = Nowhere \/ last \in [Axes -> Angles]
    /\ at["main"] \in {"frame", "look", "correct", "store", "test", "tell", "judge"}
    /\ at["network"] \in {"idle", "store", "lock", "tell"}
    /\ axis \in [Threads -> Axes] /\ value \in [Threads -> Angles]
    /\ ~(at["main"] = "tell" /\ at["network"] = "tell")
    /\ adrift \subseteq Axes /\ disturbed \in BOOLEAN
    /\ steady \in 0 .. Enough

\* main() tells both servos the angle zero.
Init ==
    /\ angle = [a \in Axes |-> 0] /\ told = angle
    /\ target \in Places
    /\ photo = Unseen
    /\ State = "NOT_ACTIVE" /\ manual = TRUE
    /\ StableCount = 0 /\ last = Nowhere
    /\ at = [main |-> "frame", network |-> "idle"]
    /\ axis = [t \in Threads |-> "pan"] /\ value = [t \in Threads |-> 0]
    /\ adrift = {} /\ disturbed = FALSE /\ steady = 0

Move(t, from, to) == at[t] = from /\ at' = [at EXCEPT ![t] = to]

\* The thread is done with its angle.
Done(t, from, to) ==
    /\ Move(t, from, to)
    /\ axis' = [axis EXCEPT ![t] = "pan"]
    /\ value' = [value EXCEPT ![t] = 0]

-----------------------------------------------------------------------------
(* The assignment of an angle and ServoAngle, as either thread runs them.    *)

\* Pan = the value computed from the Pan that was read.
Store(t, next) ==
    /\ Move(t, "store", next)
    /\ angle' = [angle EXCEPT ![axis[t]] = value[t]]
    /\ UNCHANGED <<told, target, photo, engagement, axis, value, history>>

\* Mutant of Clamp: ServoAngle does not take I2C_Mutex.
ClampUnlocked(t, from) ==
    LET a == angle[axis[t]]
        clamped == IF a < -Limit THEN -Limit ELSE IF a > Limit THEN Limit ELSE a
    IN  /\ Move(t, from, "tell")
        /\ angle' = [angle EXCEPT ![axis[t]] = clamped]
        /\ value' = [value EXCEPT ![t] = clamped]
        /\ adrift' = adrift \ {axis[t]}
        /\ UNCHANGED <<told, target, photo, engagement, axis, disturbed, steady>>

\* ServoAngle takes I2C_Mutex and brings the angle itself into its limits.
Clamp(t, from) ==
    LET a == angle[axis[t]]
        clamped == IF a < -Limit THEN -Limit ELSE IF a > Limit THEN Limit ELSE a
    IN  /\ \A u \in Threads : at[u] # "tell"
        /\ Move(t, from, "tell")
        /\ angle' = [angle EXCEPT ![axis[t]] = clamped]
        /\ value' = [value EXCEPT ![t] = clamped]
        /\ adrift' = adrift \ {axis[t]}
        /\ UNCHANGED <<told, target, photo, engagement, axis, disturbed, steady>>

\* Servos->angle, with the angle just tested or as it is by now.
Tell(t) ==
    /\ at[t] = "tell"
    /\ \E a \in {value[t], angle[axis[t]]} : told' = [told EXCEPT ![axis[t]] = a]
    /\ UNCHANGED <<angle, target, photo, engagement, history>>

-----------------------------------------------------------------------------
(* The network thread.                                                       *)

\* A pan or tilt command: the read of Pan += INC.
Command(c) ==
    /\ manual
    /\ Move("network", "idle", "store")
    /\ axis' = [axis EXCEPT !["network"] = c.axis]
    /\ value' = [value EXCEPT !["network"] = Bounded(angle[c.axis] + c.step)]
    /\ disturbed' = TRUE
    /\ UNCHANGED <<angle, told, target, photo, engagement, adrift, steady>>

\* The rest of it.
ProcessCommands ==
    \/ Store("network", "lock")
    \/ Clamp("network", "lock")
    \/ Tell("network") /\ Done("network", "tell", "idle")

\* ENGAGE_AUTO with a firing order; a command in progress ends first.
Engage ==
    /\ at["network"] = "idle" /\ manual
    /\ manual' = FALSE
    /\ State' = "NEW_TARGET"
    /\ UNCHANGED <<angle, told, target, photo, StableCount, last, threads, history>>

\* PREARMED from automatic, wherever the main thread is.
Cancel ==
    /\ at["network"] = "idle" /\ ~manual
    /\ manual' = TRUE
    /\ State' = "NOT_ACTIVE"
    /\ UNCHANGED <<angle, told, target, photo, StableCount, last, threads, history>>

Network == \/ \E c \in Commands : Command(c)
           \/ ProcessCommands \/ Engage \/ Cancel

-----------------------------------------------------------------------------
(* The main thread.                                                          *)

\* What a frame shows of the target, wherever it has moved: nothing, or how far
\* off the servos are.
Search ==
    \/ photo' = Unseen /\ UNCHANGED <<target, steady>>
    \/ /\ target' \in Places
       /\ photo' = [a \in Axes |-> target'[a] - told[a]]
       /\ steady' = IF target' = target THEN steady ELSE 0

\* A frame: it is searched for targets unless an engagement is in progress, and
\* then what was found in an earlier frame stays.
Grab ==
    /\ Move("main", "frame", "look")
    /\ IF State = "ENGAGEMENT_IN_PROGRESS" THEN UNCHANGED <<target, photo, steady>> ELSE Search
    /\ disturbed' = \/ at["network"] # "idle"
                    \/ State = "ENGAGEMENT_IN_PROGRESS"
                    \/ disturbed /\ State \in {"LOOKING_FOR_TARGET", "TRACKING"}
    /\ UNCHANGED <<angle, told, engagement, axis, value, adrift>>

\* What a frame shows is used up with it, unless the next one is not searched.
Overlook == photo' = IF State' = "ENGAGEMENT_IN_PROGRESS" THEN photo ELSE Unseen

\* ProcessTargetEngagements finds nothing to do.
PassFrame ==
    /\ State \in {"NOT_ACTIVE", "ENGAGEMENT_IN_PROGRESS"}
    /\ Move("main", "look", "frame")
    /\ UNCHANGED engagement
    /\ Overlook
    /\ UNCHANGED <<angle, told, target, axis, value, history>>

\* A new target forgets the aim of the last one.
Forget ==
    IF State = "NEW_TARGET"
    THEN StableCount' = 0 /\ last' = Nowhere /\ steady' = 0
    ELSE UNCHANGED <<StableCount, last, steady>>

\* The target is in the frame.
Look ==
    /\ State \in Running /\ photo # Unseen
    /\ Move("main", "look", "correct")
    /\ Forget
    /\ UNCHANGED <<angle, told, target, photo, State, manual, axis, value,
                   adrift, disturbed>>

\* It is not, for the first frames or for too long.
NotFound ==
    /\ State \in Running /\ photo = Unseen
    /\ Move("main", "look", "frame")
    /\ State' \in {"LOOKING_FOR_TARGET", "ENGAGEMENT_COMPLETE"}
    /\ Forget
    /\ Overlook
    /\ UNCHANGED <<angle, told, target, manual, axis, value, adrift, disturbed>>

\* Mutant of Correct: the error has the wrong sign.
CorrectAway ==
    LET a == axis["main"] IN
    /\ Move("main", "correct", "store")
    /\ value' = [value EXCEPT !["main"] = Bounded(angle[a] - photo[a])]
    /\ UNCHANGED <<angle, told, target, photo, engagement, axis, history>>

\* The read of Pan = Pan - PanError / 75.
Correct ==
    LET a == axis["main"] IN
    /\ Move("main", "correct", "store")
    /\ value' = [value EXCEPT !["main"] = Bounded(angle[a] + photo[a])]
    /\ UNCHANGED <<angle, told, target, photo, engagement, axis, history>>

\* The angle passes the test; ServoAngle, which reads it anew, begins.
WithinLimits ==
    /\ \E a \in {value["main"], angle[axis["main"]]} : InReach(a)
    /\ Clamp("main", "test")

\* "Skip because of Pan Limit": the target is given up and the angle stays.
Skip ==
    /\ Done("main", "test", "frame")
    /\ \E a \in {value["main"], angle[axis["main"]]} : ~InReach(a)
    /\ State' = "ENGAGEMENT_COMPLETE"
    /\ adrift' = adrift \cup {axis["main"]}
    /\ Overlook
    /\ UNCHANGED <<angle, told, target, manual, StableCount, last, disturbed, steady>>

\* The servo is told; tilt comes after pan.
TellMain ==
    /\ Tell("main")
    /\ IF axis["main"] = "pan"
       THEN Move("main", "tell", "correct") /\ axis' = [axis EXCEPT !["main"] = "tilt"]
       ELSE Move("main", "tell", "judge") /\ UNCHANGED axis
    /\ UNCHANGED value

\* Mutant of Still: only the pan angle is compared.
StillPan == last # Nowhere /\ last["pan"] = angle["pan"]

Still == last # Nowhere /\ last = angle

\* Mutant of Judge: LastPan and LastTilt are not updated.
JudgeForgets ==
    LET count == IF Still THEN StableCount + 1 ELSE 0 IN
    /\ Done("main", "judge", "frame")
    /\ StableCount' = count
    /\ State' = IF count > StableFrames THEN "ENGAGEMENT_IN_PROGRESS" ELSE "TRACKING"
    /\ steady' = IF steady < Enough THEN steady + 1 ELSE Enough
    /\ Overlook
    /\ UNCHANGED <<last, angle, told, target, manual, adrift, disturbed>>

\* The stability test, and the state whatever became of it meanwhile.
Judge ==
    LET count == IF Still THEN StableCount + 1 ELSE 0 IN
    /\ Done("main", "judge", "frame")
    /\ StableCount' = count
    /\ last' = angle
    /\ State' = IF count > StableFrames THEN "ENGAGEMENT_IN_PROGRESS" ELSE "TRACKING"
    /\ steady' = IF steady < Enough THEN steady + 1 ELSE Enough
    /\ Overlook
    /\ UNCHANGED <<angle, told, target, manual, adrift, disturbed>>

\* The list goes on with a target somewhere, or is completed, which leaves PREARMED.
Advance ==
    /\ State = "ENGAGEMENT_COMPLETE"
    /\ Move("main", "look", "frame")
    /\ \/ State' = "NEW_TARGET" /\ target' \in Places /\ UNCHANGED manual
       \/ State' = "NOT_ACTIVE" /\ manual' = TRUE /\ UNCHANGED target
    /\ Overlook
    /\ UNCHANGED <<angle, told, StableCount, last, axis, value, history>>

TryToMatch == \/ Correct \/ Store("main", "test") \/ WithinLimits \/ Skip
              \/ TellMain \/ Judge

Main == Grab \/ PassFrame \/ Look \/ NotFound \/ TryToMatch \/ Advance

-----------------------------------------------------------------------------
\* The engagement thread reports.
Report ==
    /\ State = "ENGAGEMENT_IN_PROGRESS"
    /\ State' = "ENGAGEMENT_COMPLETE"
    /\ UNCHANGED <<angle, told, target, photo, manual, StableCount, last, threads, history>>

Next == Network \/ Main \/ Report

Spec == Init /\ [][Next]_vars

-----------------------------------------------------------------------------
(* Safety.                                                                   *)

\* When neither thread is at an angle, each servo stands where the program
\* believes and within its limits, whatever interleaving of corrections and
\* commands came before, except on an axis that was skipped since it was told:
\* that one keeps an angle it was never told.
AgreeAtRest ==
    AtRest => \A a \in Axes \ adrift : angle[a] = told[a] /\ InLimits(told[a])

\* When the aim is found stable, and no command disturbed it, the target has been
\* at one place, on both axes, in the last three frames that showed it, and the
\* servos stand there: even if an earlier skip left the angles wrong.
AimedWhenEngaged ==
    [][Judge /\ State' = "ENGAGEMENT_IN_PROGRESS" /\ ~disturbed =>
        told = target /\ steady' = Enough]_vars

\* A target is skipped for its place only if it lies at or beyond a limit,
\* unless a command disturbed the frame or an axis still drifts from an earlier
\* skip: then the aim starts from an angle the servo never had.
SkipsAreDeserved ==
    [][Skip /\ ~disturbed /\ axis["main"] \notin adrift =>
        ~InReach(target[axis["main"]])]_vars

\* Every angle a servo is told is one at which its pulse follows the angle, and so
\* is every other of the half circle: two pan or tilt commands in one direction
\* always move the servo, though Servo::angle drops the fraction twice.
PulseFollowsTheAngle ==
    /\ FaithfulAngles = -180 .. 178
    /\ \A a \in Axes : told[a] \in FaithfulAngles

-----------------------------------------------------------------------------
(* Liveness.  The main thread runs, and so does the network thread within a  *)
(* command; each gets the mutex in its turn.                                 *)

Fairness == WF_vars(Main) /\ SF_vars(WithinLimits) /\ WF_vars(ProcessCommands)

LiveSpec == Spec /\ Fairness

\* A target that stays in sight and still, with the operator's hands off the pan
\* and tilt buttons, is engaged or skipped, or the run is cancelled.
AimSettles ==
    <>[][/\ ~(Grab /\ (photo' = Unseen \/ target' # target))
         /\ ~\E c \in Commands : Command(c)]_vars =>
        (State = "NEW_TARGET" ~>
            State \in {"ENGAGEMENT_IN_PROGRESS", "ENGAGEMENT_COMPLETE", "NOT_ACTIVE"})
=============================================================================
