------------------------------- MODULE Cannon -------------------------------
(***************************************************************************)
(* The cannon server while one client is connected: the network thread     *)
(* that handles the operator's messages, the main thread that processes    *)
(* one camera frame at a time, and the engagement thread that runs the     *)
(* laser and the water pump for one target.                                *)
(*                                                                         *)
(* A message handler is one step.  A frame that can start or end a target  *)
(* takes two, because TryToMatch drives the servos over I2C and writes to  *)
(* the client between the read and the write of AutoEngage.State.  The     *)
(* engagement thread is cut at its wait and at its two sleeps.             *)
(***************************************************************************)
EXTENDS Integers, Sequences, CannonState

CONSTANTS
    Requests,         \* the state words the client may send, a set of RequestWords
    Digits,           \* the targets, single digits; 0 is what FiringOrder[] starts with
    NonDigit,         \* any other character of a firing order
    Orders,           \* the firing orders the client may send
    MaxOrder,         \* the size of AutoEngage.FiringOrder[]
    CorrectionBound,  \* bounds the calibration offset the model explores
    SpuriousBound     \* pthread_cond_wait may return without a signal while
                      \* CurrentIndex is below this bound; 0 for never

ASSUME RequestsAssumption == Requests \subseteq RequestWords
ASSUME DigitsAssumption == Digits \subseteq Nat /\ 0 \in Digits /\ NonDigit \notin Digits
ASSUME OrdersAssumption == Orders \subseteq Seq(Digits \cup {NonDigit})
ASSUME MaxOrderAssumption == MaxOrder \in Nat \ {0}
ASSUME CorrectionAssumption == CorrectionBound \in Nat
ASSUME SpuriousAssumption == SpuriousBound \in Nat

VARIABLES
    SystemState,       \* the word every thread reads and writes
    pin17, pin18,      \* the outputs of the pump and of the laser
    isLoggedIn,
    State,             \* AutoEngage.State
    HaveFiringOrder, NumberOfTargets, FiringOrder,   \* the order, from the client
    CurrentIndex, Target, StableCount,               \* the main thread's progress
    seen,              \* LastPan and LastTilt hold a position of this target
    trying,            \* TryToMatch's timer runs
    newState,          \* ProcessTargetEngagements' NewState
    CalibrateWasOn, correction, savedCorrection,     \* calibration and its file
    mpc, epc,          \* where the main and the engagement thread stand
    codeSeen,          \* history: the pre-arm code was accepted once
    interrupted,       \* history: a cancellation came while a thread was at work
    lastShot           \* history: index of the last target shot in this run, or -1

operator == <<isLoggedIn, codeSeen>>
order == <<HaveFiringOrder, NumberOfTargets, FiringOrder>>
progress == <<CurrentIndex, Target, StableCount, seen, trying, newState>>
calibration == <<CalibrateWasOn, correction, savedCorrection>>
pins == <<pin17, pin18>>
vars == <<SystemState, pins, operator, State, order, progress, calibration,
          mpc, epc, interrupted, lastShot>>

Slots == 0 .. MaxOrder - 1

StableFrames == 2

\* Places of the engagement thread between its wait and its report.
Awake == {"laser", "fire", "cease"}

MidEngagement == mpc # "frame" \/ epc \in Awake

\* Every variable keeps its range: the word never becomes UNKNOWN (or any base
\* a client made up), NumberOfTargets never exceeds the array, and the value
\* TRACKING_STABLE, which the code only holds in passing, is never left behind.
TypeOK ==
    /\ SystemState \in SystemStates
    /\ pin17 \in BOOLEAN /\ pin18 \in BOOLEAN
    /\ isLoggedIn \in BOOLEAN
    /\ State \in EngagementStates \ {"TRACKING_STABLE"}
    /\ HaveFiringOrder \in BOOLEAN
    /\ NumberOfTargets \in 0 .. MaxOrder
    /\ FiringOrder \in [Slots -> Digits]
    /\ CurrentIndex \in Nat
    /\ Target \in Digits
    /\ StableCount \in Nat
    /\ seen \in BOOLEAN /\ trying \in BOOLEAN /\ newState \in BOOLEAN
    /\ CalibrateWasOn \in BOOLEAN
    /\ correction \in Int /\ savedCorrection \in Int
    /\ mpc \in {"frame", "match", "done", "next"}
    /\ epc \in {"relock", "waiting"} \cup Awake
    /\ codeSeen \in BOOLEAN /\ interrupted \in BOOLEAN
    /\ lastShot \in Int

\* main() up to the frame loop: the word is SAFE, both pins are driven low, the
\* offsets are those of the file, the engagement thread has just been created.
Init ==
    /\ SystemState = Only("SAFE")
    /\ pin17 = FALSE /\ pin18 = FALSE
    /\ isLoggedIn = FALSE
    /\ State = "NOT_ACTIVE"
    /\ HaveFiringOrder = FALSE /\ NumberOfTargets = 0
    /\ FiringOrder = [i \in Slots |-> 0]
    /\ CurrentIndex = 0 /\ Target = 0 /\ StableCount = 0
    /\ seen = FALSE /\ trying = FALSE /\ newState = FALSE
    /\ CalibrateWasOn = FALSE /\ correction = 0 /\ savedCorrection = 0
    /\ mpc = "frame" /\ epc = "relock"
    /\ codeSeen = FALSE /\ interrupted = FALSE /\ lastShot = -1

-----------------------------------------------------------------------------
(* The network thread: one action per message, logged in or dropped.         *)

\* ProcessLogin with the outcome VerifyLogin or UpdatePassword gave.
Login(ok) ==
    /\ isLoggedIn' = ok
    /\ UNCHANGED <<SystemState, pins, codeSeen, State, order, progress,
                   calibration, mpc, epc, interrupted, lastShot>>

\* The right code, in the state that is SAFE and nothing else.  Any other code
\* or word changes nothing.
ProcessPreArm ==
    /\ isLoggedIn
    /\ SystemState = Only("SAFE")
    /\ SystemState' = Only("PREARMED")
    /\ codeSeen' = TRUE
    /\ UNCHANGED <<pins, isLoggedIn, State, order, progress, calibration,
                   mpc, epc, interrupted, lastShot>>

\* Mutant of Settle: the laser() call of the tail is missing.
SettleWithoutLaser(s) ==
    /\ SystemState' = s
    /\ CalibrateWasOn' = ("CALIB_ON" \in s.flags)
    /\ savedCorrection' = IF CalibrateWasOn /\ "CALIB_ON" \notin s.flags
                          THEN correction ELSE savedCorrection
    /\ UNCHANGED <<pin18, correction, operator, FiringOrder, progress, mpc, epc>>

\* Mutant of Settle: CalibrateWasOn is never reset.
SettleKeepsCalibrating(s) ==
    /\ SystemState' = s
    /\ pin18' = ("LASER_ON" \in s.flags)
    /\ CalibrateWasOn' = (CalibrateWasOn \/ "CALIB_ON" \in s.flags)
    /\ savedCorrection' = IF CalibrateWasOn /\ "CALIB_ON" \notin s.flags
                          THEN correction ELSE savedCorrection
    /\ UNCHANGED <<correction, operator, FiringOrder, progress, mpc, epc>>

\* The tail of every state change request: the laser follows its flag in the
\* word s, and leaving calibration saves the offsets.
Settle(s) ==
    /\ SystemState' = s
    /\ pin18' = ("LASER_ON" \in s.flags)
    /\ CalibrateWasOn' = ("CALIB_ON" \in s.flags)
    /\ savedCorrection' = IF CalibrateWasOn /\ "CALIB_ON" \notin s.flags
                          THEN correction ELSE savedCorrection
    /\ UNCHANGED <<correction, operator, FiringOrder, progress, mpc, epc>>

\* AutoEngage.State = NOT_ACTIVE and the order forgotten.
DropOrder ==
    /\ State' = "NOT_ACTIVE"
    /\ HaveFiringOrder' = FALSE
    /\ NumberOfTargets' = 0

\* Whether a cancellation now overtakes a thread that is at work.
NoteInterruption == interrupted' = (interrupted \/ MidEngagement)

\* Mutant of RequestSafe: the fire(false) call is missing.
RequestSafeKeepsPump ==
    /\ Settle(Only("SAFE"))
    /\ DropOrder
    /\ NoteInterruption
    /\ UNCHANGED <<pin17, lastShot>>

RequestSafe ==
    /\ Settle(Only("SAFE"))
    /\ pin17' = FALSE
    /\ DropOrder
    /\ NoteInterruption
    /\ UNCHANGED lastShot

\* Mutant of RequestPrearmed: the fire(false) call is missing.
RequestPrearmedKeepsPump ==
    /\ SystemState.base \in {"ENGAGE_AUTO", "ARMED_MANUAL"}
    /\ Settle(Only("PREARMED"))
    /\ IF SystemState.base = "ENGAGE_AUTO"
       THEN DropOrder /\ NoteInterruption
       ELSE UNCHANGED <<State, HaveFiringOrder, NumberOfTargets, interrupted>>
    /\ UNCHANGED <<pin17, lastShot>>

\* Accepted from the two armed states; the order is dropped only in automatic.
RequestPrearmed ==
    /\ SystemState.base \in {"ENGAGE_AUTO", "ARMED_MANUAL"}
    /\ Settle(Only("PREARMED"))
    /\ pin17' = FALSE
    /\ IF SystemState.base = "ENGAGE_AUTO"
       THEN DropOrder /\ NoteInterruption
       ELSE UNCHANGED <<State, HaveFiringOrder, NumberOfTargets, interrupted>>
    /\ UNCHANGED lastShot

RequestAuto ==
    /\ SystemState.base = "PREARMED" /\ HaveFiringOrder
    /\ Settle(Only("ENGAGE_AUTO"))
    /\ pin17' = FALSE
    /\ State' = "ACTIVATE"
    /\ lastShot' = -1
    /\ UNCHANGED <<HaveFiringOrder, NumberOfTargets, interrupted>>

\* Mutant of RequestManual: SAFE is let through to manual.
RequestManualFromSafe ==
    /\ SystemState.base \in {"SAFE", "PREARMED"}
    /\ Settle(Only("ARMED_MANUAL"))
    /\ pin17' = FALSE
    /\ UNCHANGED <<State, HaveFiringOrder, NumberOfTargets, interrupted, lastShot>>

RequestManual ==
    /\ SystemState.base = "PREARMED"
    /\ Settle(Only("ARMED_MANUAL"))
    /\ pin17' = FALSE
    /\ UNCHANGED <<State, HaveFiringOrder, NumberOfTargets, interrupted, lastShot>>

\* SystemState = state: already in manual, the client's word is taken as it is.
RequestManualFlags(r) ==
    /\ SystemState.base = "ARMED_MANUAL"
    /\ Settle(r)
    /\ UNCHANGED <<pin17, State, HaveFiringOrder, NumberOfTargets, interrupted, lastShot>>

\* A refused request still runs the tail.
RequestRefused(r) ==
    /\ \/ r.base = "OTHER"
       \/ r.base = "PREARMED" /\ SystemState.base \in {"SAFE", "PREARMED"}
       \/ r.base = "ENGAGE_AUTO" /\ ~(SystemState.base = "PREARMED" /\ HaveFiringOrder)
       \/ r.base = "ARMED_MANUAL" /\ SystemState.base \in {"SAFE", "ENGAGE_AUTO"}
    /\ Settle(SystemState)
    /\ UNCHANGED <<pin17, State, HaveFiringOrder, NumberOfTargets, interrupted, lastShot>>

ProcessStateChangeRequest(r) ==
    /\ isLoggedIn
    /\ \/ r.base = "SAFE" /\ RequestSafe
       \/ r.base = "PREARMED" /\ RequestPrearmed
       \/ r.base = "ENGAGE_AUTO" /\ RequestAuto
       \/ r.base = "ARMED_MANUAL" /\ (RequestManual \/ RequestManualFlags(r))
       \/ RequestRefused(r)

\* Digits are copied up to the first character that is not one, whatever then
\* becomes of the order; a longer text than the array is not copied at all.
CopiedOrder(o) ==
    [i \in Slots |-> IF /\ i < Len(o) /\ Len(o) <= MaxOrder
                        /\ \A j \in 1 .. i + 1 : o[j] \in Digits
                     THEN o[i + 1] ELSE FiringOrder[i]]

ProcessFiringOrder(o) ==
    LET usable == o # <<>> /\ Len(o) <= MaxOrder /\ \A j \in 1 .. Len(o) : o[j] \in Digits
    IN  /\ isLoggedIn
        /\ State' = "NOT_ACTIVE"
        /\ Target' = 0
        /\ HaveFiringOrder' = usable
        /\ NumberOfTargets' = IF usable THEN Len(o) ELSE 0
        /\ FiringOrder' = CopiedOrder(o)
        /\ NoteInterruption
        /\ UNCHANGED <<SystemState, pins, operator, CurrentIndex, StableCount, seen,
                       trying, newState, calibration, mpc, epc, lastShot>>

\* fire(true): refused, and the state forced to PREARMED, where firing is not
\* permitted; else the flag and the pin go up.
FireOn ==
    IF FirePermitted(SystemState)
    THEN /\ SystemState' = WithFlag(SystemState, "FIRING")
         /\ pin17' = TRUE
    ELSE /\ SystemState' = Only("PREARMED")
         /\ UNCHANGED pin17

\* The FIRE_START and FIRE_STOP cases of ProcessCommands.
FireCommand(start) ==
    /\ isLoggedIn
    /\ SystemState.base = "ARMED_MANUAL"
    /\ IF start
       THEN FireOn
       ELSE /\ SystemState' = WithoutFlags(SystemState, {"FIRING"})
            /\ pin17' = FALSE
    /\ UNCHANGED <<pin18, operator, State, order, progress, calibration,
                   mpc, epc, interrupted, lastShot>>

\* ProcessCalibCommands, both coordinates as one.
ProcessCalibCommands(step) ==
    /\ isLoggedIn
    /\ \/ SystemState.base \in {"PREARMED", "ARMED_MANUAL"}
       \/ "CALIB_ON" \in SystemState.flags
    /\ correction + step \in -CorrectionBound .. CorrectionBound
    /\ correction' = correction + step
    /\ UNCHANGED <<SystemState, pins, operator, State, order, progress,
                   CalibrateWasOn, savedCorrection, mpc, epc, interrupted, lastShot>>

Network ==
    \/ \E ok \in BOOLEAN : Login(ok)
    \/ ProcessPreArm
    \/ \E r \in Requests : ProcessStateChangeRequest(r)
    \/ \E o \in Orders : ProcessFiringOrder(o)
    \/ \E start \in BOOLEAN : FireCommand(start)
    \/ \E step \in {-1, 1} : ProcessCalibCommands(step)

-----------------------------------------------------------------------------
(* The main thread: one frame of its loop, which runs only while logged in.  *)

\* Mutant of FrameBegin: a new target does not reset the stability count.
FrameBeginKeepsCount ==
    LET fresh == State \in {"ACTIVATE", "NEW_TARGET"}
        index == IF State = "ACTIVATE" THEN 0 ELSE CurrentIndex
    IN  /\ mpc = "frame" /\ isLoggedIn
        /\ fresh \/ State \in {"LOOKING_FOR_TARGET", "TRACKING"}
        /\ State' = IF fresh THEN "NEW_TARGET" ELSE State
        /\ CurrentIndex' = index
        /\ IF fresh
           THEN Target' = FiringOrder[index] /\ seen' = FALSE
           ELSE UNCHANGED <<Target, seen>>
        /\ newState' = fresh
        /\ mpc' = "match"
        /\ UNCHANGED <<SystemState, pins, operator, order, StableCount, trying,
                       calibration, epc, interrupted, lastShot>>

\* A frame of a running engagement up to the call of TryToMatch.  ACTIVATE falls
\* through NEW_TARGET, which falls through LOOKING_FOR_TARGET and TRACKING.
FrameBegin ==
    LET fresh == State \in {"ACTIVATE", "NEW_TARGET"}
        index == IF State = "ACTIVATE" THEN 0 ELSE CurrentIndex
    IN  /\ mpc = "frame" /\ isLoggedIn
        /\ fresh \/ State \in {"LOOKING_FOR_TARGET", "TRACKING"}
        /\ State' = IF fresh THEN "NEW_TARGET" ELSE State
        /\ CurrentIndex' = index
        /\ IF fresh
           THEN Target' = FiringOrder[index] /\ StableCount' = 0 /\ seen' = FALSE
           ELSE UNCHANGED <<Target, StableCount, seen>>
        /\ newState' = fresh
        /\ mpc' = "match"
        /\ UNCHANGED <<SystemState, pins, operator, order, trying, calibration,
                       epc, interrupted, lastShot>>

\* What ProcessTargetEngagements does with TryToMatch's result: the write of
\* AutoEngage.State does not look at what the network thread wrote meanwhile.
Conclude(result) ==
    LET announced == newState \/ State # result
    IN  /\ State' = IF result = "TRACKING_STABLE" THEN "ENGAGEMENT_IN_PROGRESS" ELSE result
        /\ SystemState' =
              CASE announced /\ result = "LOOKING_FOR_TARGET" ->
                       WithoutFlags(SystemState, {"ARMED"})
                [] announced /\ result = "TRACKING" -> WithFlag(SystemState, "ARMED")
                [] OTHER -> SystemState
        /\ epc' = IF result = "TRACKING_STABLE" /\ epc = "waiting" THEN "laser" ELSE epc
        /\ mpc' = "frame"
        /\ UNCHANGED <<pins, operator, order, CurrentIndex, Target, newState,
                       calibration, interrupted, lastShot>>

\* The target is not in the frame.  The first such frame starts the timer.
NotFound ==
    /\ mpc = "match"
    /\ trying' = TRUE
    /\ Conclude("LOOKING_FOR_TARGET")
    /\ UNCHANGED <<StableCount, seen>>

\* Nor is it this time, and the timer, started by an earlier frame, is over.
GiveUp ==
    /\ mpc = "match" /\ trying
    /\ trying' = FALSE
    /\ Conclude("ENGAGEMENT_COMPLETE")
    /\ UNCHANGED <<StableCount, seen>>

\* It is in the frame but would need a servo angle outside the limits.
OutOfReach ==
    /\ mpc = "match"
    /\ trying' = FALSE
    /\ Conclude("ENGAGEMENT_COMPLETE")
    /\ UNCHANGED <<StableCount, seen>>

\* Mutant of FoundStill: one stable frame too few.
FoundStillEager ==
    /\ mpc = "match" /\ seen
    /\ trying' = FALSE
    /\ StableCount' = StableCount + 1
    /\ Conclude(IF StableCount + 1 >= StableFrames THEN "TRACKING_STABLE" ELSE "TRACKING")
    /\ UNCHANGED seen

\* It is in the frame and the aim is close to that of the last time it was.
FoundStill ==
    /\ mpc = "match" /\ seen
    /\ trying' = FALSE
    /\ StableCount' = StableCount + 1
    /\ Conclude(IF StableCount + 1 > StableFrames THEN "TRACKING_STABLE" ELSE "TRACKING")
    /\ UNCHANGED seen

\* It is in the frame somewhere else, or for the first time.
FoundMoved ==
    /\ mpc = "match"
    /\ trying' = FALSE
    /\ StableCount' = 0
    /\ seen' = TRUE
    /\ Conclude("TRACKING")

\* Mutant of Advance: the test for the end of the list is off by one.
AdvancePastEnd ==
    /\ mpc = "frame" /\ isLoggedIn
    /\ State = "ENGAGEMENT_COMPLETE"
    /\ CurrentIndex' = CurrentIndex + 1
    /\ mpc' = IF CurrentIndex + 1 > NumberOfTargets THEN "done" ELSE "next"
    /\ UNCHANGED <<SystemState, pins, operator, State, order, Target, StableCount,
                   seen, trying, newState, calibration, epc, interrupted, lastShot>>

\* Mutant of Advance: the index is tested but not stored.
AdvanceForgetsIndex ==
    /\ mpc = "frame" /\ isLoggedIn
    /\ State = "ENGAGEMENT_COMPLETE"
    /\ mpc' = IF CurrentIndex + 1 >= NumberOfTargets THEN "done" ELSE "next"
    /\ UNCHANGED <<SystemState, pins, operator, State, order, CurrentIndex, Target,
                   StableCount, seen, trying, newState, calibration, epc,
                   interrupted, lastShot>>

\* The frame after a target: the next index and the test for the end of the
\* list, which the network thread may empty before the outcome is written.
Advance ==
    /\ mpc = "frame" /\ isLoggedIn
    /\ State = "ENGAGEMENT_COMPLETE"
    /\ CurrentIndex' = CurrentIndex + 1
    /\ mpc' = IF CurrentIndex + 1 >= NumberOfTargets THEN "done" ELSE "next"
    /\ UNCHANGED <<SystemState, pins, operator, State, order, Target, StableCount,
                   seen, trying, newState, calibration, epc, interrupted, lastShot>>

ListCompleted ==
    /\ mpc = "done"
    /\ State' = "NOT_ACTIVE"
    /\ SystemState' = Only("PREARMED")
    /\ mpc' = "frame"
    /\ UNCHANGED <<pins, operator, order, progress, calibration, epc,
                   interrupted, lastShot>>

\* Mutant of NextTarget: the list starts again from its first entry.
NextTargetRestarts ==
    /\ mpc = "next"
    /\ State' = "ACTIVATE"
    /\ mpc' = "frame"
    /\ UNCHANGED <<SystemState, pins, operator, order, progress, calibration,
                   epc, interrupted, lastShot>>

NextTarget ==
    /\ mpc = "next"
    /\ State' = "NEW_TARGET"
    /\ mpc' = "frame"
    /\ UNCHANGED <<SystemState, pins, operator, order, progress, calibration,
                   epc, interrupted, lastShot>>

Main == \/ FrameBegin \/ NotFound \/ GiveUp \/ OutOfReach \/ FoundStill
        \/ FoundMoved \/ Advance \/ ListCompleted \/ NextTarget

-----------------------------------------------------------------------------
(* The engagement thread.                                                    *)

\* unlock, back to the top of the loop, lock, and into pthread_cond_wait.  A
\* signal sent before this step reaches nobody.
EnterWait ==
    /\ epc = "relock"
    /\ epc' = "waiting"
    /\ UNCHANGED <<SystemState, pins, operator, State, order, progress,
                   calibration, mpc, interrupted, lastShot>>

\* pthread_cond_wait returns on its own; no predicate is tested.
WakeSpuriously ==
    /\ CurrentIndex < SpuriousBound
    /\ epc = "waiting"
    /\ epc' = "laser"
    /\ UNCHANGED <<SystemState, pins, operator, State, order, progress,
                   calibration, mpc, interrupted, lastShot>>

PointLaser ==
    /\ epc = "laser"
    /\ SystemState' = WithFlag(SystemState, "LASER_ON")
    /\ pin18' = TRUE
    /\ epc' = "fire"
    /\ UNCHANGED <<pin17, operator, State, order, progress, calibration, mpc,
                   interrupted, lastShot>>

\* After the first sleep.
Fire ==
    /\ epc = "fire"
    /\ FireOn
    /\ lastShot' = IF FirePermitted(SystemState) THEN CurrentIndex ELSE lastShot
    /\ epc' = "cease"
    /\ UNCHANGED <<pin18, operator, State, order, progress, calibration, mpc,
                   interrupted>>

\* After the second sleep.  The report does not ask whether the engagement it
\* reports is still wanted.
Cease ==
    /\ epc = "cease"
    /\ SystemState' = WithoutFlags(SystemState, {"FIRING", "LASER_ON", "ARMED"})
    /\ pin17' = FALSE /\ pin18' = FALSE
    /\ State' = "ENGAGEMENT_COMPLETE"
    /\ epc' = "relock"
    /\ UNCHANGED <<operator, order, progress, calibration, mpc, interrupted, lastShot>>

Engagement == EnterWait \/ WakeSpuriously \/ PointLaser \/ Fire \/ Cease

-----------------------------------------------------------------------------
Next == Network \/ Main \/ Engagement

Spec == Init /\ [][Next]_vars

-----------------------------------------------------------------------------
(* Safety.                                                                   *)

\* Until the operator's first pre-arm code is accepted nothing leaves SAFE and
\* neither output goes up, whatever the client sends and however cancellations
\* overtake the threads.  (It takes pthread_cond_wait to return only when
\* signalled: fire() answers a refusal by forcing PREARMED.)
NoArmingWithoutCode ==
    ~codeSeen => SystemState = Only("SAFE") /\ ~pin17 /\ ~pin18

\* Until a cancellation overtakes a thread at work, the pump runs only in an
\* armed state, and in automatic only during the engagement thread's pulse.
FirePinOnlyWhenArmed ==
    ~interrupted /\ pin17 =>
        \/ SystemState.base = "ARMED_MANUAL"
        \/ SystemState.base = "ENGAGE_AUTO" /\ epc = "cease"

\* Until then the laser's output and its flag in the word agree in every state:
\* the client sees what the laser does.
LaserPinIsItsFlag == ~interrupted => (pin18 <=> "LASER_ON" \in SystemState.flags)

\* Until then an engagement thread at work serves the run it was signalled for:
\* the state is automatic, the main thread waits for it, and the target is that
\* of the order's current entry,
\* on which the aim was stable in enough frames.
EngagementServesItsRun ==
    ~interrupted /\ epc \in Awake =>
        /\ SystemState.base = "ENGAGE_AUTO"
        /\ State = "ENGAGEMENT_IN_PROGRESS" /\ mpc = "frame"
        /\ CurrentIndex < NumberOfTargets
        /\ Target = FiringOrder[CurrentIndex]
        /\ StableCount > StableFrames

\* FiringOrder[CurrentIndex] is always read inside the array, even when an
\* order is replaced or dropped between the test of the index and its use.
OrderIndexInBounds ==
    mpc = "next" \/ State = "NEW_TARGET" => CurrentIndex \in Slots

\* No stability count survives from one target to the next, even across
\* interruptions: a frame that looks for a target starts below the threshold.
NoCountSurvives ==
    /\ StableCount <= StableFrames + 1
    /\ mpc = "match" => StableCount <= StableFrames

\* Until an interruption the server's memory that calibration was on and the
\* flag in the word agree, so that leaving calibration writes the offsets file.
CalibrationRemembered ==
    ~interrupted => (CalibrateWasOn <=> "CALIB_ON" \in SystemState.flags)

\* A shot of the engagement thread is for a later entry of the order than the
\* previous shot of the run: a target is engaged once and in the order's order.
ShotsFollowTheOrder ==
    [][Fire /\ ~interrupted => CurrentIndex > lastShot /\ CurrentIndex < NumberOfTargets]_vars

\* The arming promise: the base of the word and the pump's pin are those of
\* Arming, and an interruption is what ends the promise.
ArmingPromise ==
    INSTANCE Arming WITH mode <- SystemState.base, pumping <- pin17, lapsed <- interrupted

ArmingRefined == ArmingPromise!Spec

\* fire() answers a request in an unarmed state with "Firing can't be permitted
\* in several state": the pump is meant not to run in one, interrupted or not.
FiringNotPermittedUnarmed == pin17 => FirePermitted(SystemState)

-----------------------------------------------------------------------------
(* Liveness.  The main and the engagement thread are ordinary threads that   *)
(* the scheduler runs; the skip timer, if the target stays out of sight, is  *)
(* over at some frame.  The operator need not do anything.                   *)

Fairness ==
    /\ WF_vars(Main)
    /\ SF_vars(GiveUp)
    /\ WF_vars(EnterWait \/ PointLaser \/ Fire \/ Cease)

LiveSpec == Spec /\ Fairness

\* The signal found no thread in pthread_cond_wait: the main thread waits for an
\* engagement that is not under way.
SignalLost == State = "ENGAGEMENT_IN_PROGRESS" /\ epc \in {"relock", "waiting"}

\* An accepted automatic run ends, by its last target or by a cancellation, if
\* from some time on a target in sight keeps still, unless the engagement signal
\* was lost or the operator was logged out, which halts the frames.
RunEnds ==
    <>[][~FoundMoved]_vars =>
        (State = "ACTIVATE" ~> State = "NOT_ACTIVE" \/ SignalLost \/ ~isLoggedIn)

\* If the state stays SAFE, the pump and the laser are off for good, even if the
\* SAFE request overtook an engagement.
SafeSettles == <>[](SystemState.base = "SAFE") => <>[](~pin17 /\ ~pin18)

=============================================================================
