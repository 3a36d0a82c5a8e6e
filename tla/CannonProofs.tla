---------------------------- MODULE CannonProofs ----------------------------
(* Theorems about Cannon, for every value of its constants.                  *)
EXTENDS Cannon, TLAPS

\* TypeOK alone is not inductive: the main thread reads FiringOrder at
\* CurrentIndex, so that the index must be known to be in bounds.
TypeInv == TypeOK /\ OrderIndexInBounds

LEMMA WordOperators ==
    /\ \A b \in Bases : Only(b) \in SystemStates
    /\ \A s \in SystemStates, f \in Flags : WithFlag(s, f) \in SystemStates
    /\ \A s \in SystemStates, F \in SUBSET Flags : WithoutFlags(s, F) \in SystemStates
BY DEF Only, WithFlag, WithoutFlags, SystemStates

LEMMA InitTypeInv == Init => TypeInv
<1> SUFFICES ASSUME Init PROVE TypeInv
  OBVIOUS
<1>1. SystemState \in SystemStates
  BY WordOperators DEF Init, Bases
<1>2. FiringOrder \in [Slots -> Digits] /\ Target \in Digits
  BY DigitsAssumption DEF Init
<1>3. NumberOfTargets \in 0 .. MaxOrder /\ CurrentIndex \in Nat /\ StableCount \in Nat
  BY MaxOrderAssumption DEF Init
<1>4. correction \in Int /\ savedCorrection \in Int /\ lastShot \in Int
  BY DEF Init
<1> QED
  BY <1>1, <1>2, <1>3, <1>4 DEF Init, TypeInv, TypeOK, OrderIndexInBounds, EngagementStates, Awake

\* What the common parts of the state change handlers leave well typed.
LEMMA SettleTypes ==
    ASSUME TypeInv, NEW s \in SystemStates, Settle(s)
    PROVE  /\ SystemState' \in SystemStates
           /\ pin18' \in BOOLEAN /\ CalibrateWasOn' \in BOOLEAN
           /\ correction' \in Int /\ savedCorrection' \in Int
           /\ UNCHANGED <<isLoggedIn, codeSeen, FiringOrder, CurrentIndex, Target,
                          StableCount, seen, trying, newState, mpc, epc>>
BY DEF TypeInv, TypeOK, Settle, operator, progress

LEMMA NoteTypes ==
    ASSUME TypeInv, NoteInterruption
    PROVE  interrupted' \in BOOLEAN
BY DEF NoteInterruption

LEMMA DropTypes ==
    ASSUME DropOrder
    PROVE  /\ State' \in EngagementStates \ {"TRACKING_STABLE", "NEW_TARGET"}
           /\ HaveFiringOrder' \in BOOLEAN /\ NumberOfTargets' \in 0 .. MaxOrder
<1>1. State' \in EngagementStates \ {"TRACKING_STABLE", "NEW_TARGET"}
  BY DEF DropOrder, EngagementStates
<1>2. NumberOfTargets' \in 0 .. MaxOrder
  BY MaxOrderAssumption DEF DropOrder
<1> QED BY <1>1, <1>2 DEF DropOrder

LEMMA RequestTypeInv ==
    ASSUME TypeInv, NEW r \in RequestWords, ProcessStateChangeRequest(r)
    PROVE  TypeInv'
<1> USE DEF TypeInv
<1>2. CASE RequestSafe
  <2>1. Only("SAFE") \in SystemStates
    BY WordOperators DEF Bases
  <2> QED BY <1>2, <2>1, SettleTypes, NoteTypes, DropTypes
          DEF RequestSafe, TypeOK, OrderIndexInBounds, DropOrder
<1>3. CASE RequestPrearmed
  <2>1. Only("PREARMED") \in SystemStates
    BY WordOperators DEF Bases
  <2>2. CASE SystemState.base = "ENGAGE_AUTO"
    BY <1>3, <2>1, <2>2, SettleTypes, NoteTypes, DropTypes
    DEF RequestPrearmed, TypeOK, OrderIndexInBounds, DropOrder
  <2>3. CASE SystemState.base # "ENGAGE_AUTO"
    BY <1>3, <2>1, <2>3, SettleTypes DEF RequestPrearmed, TypeOK, OrderIndexInBounds, Slots
  <2> QED BY <2>2, <2>3
<1>4. CASE RequestAuto
  <2>1. Only("ENGAGE_AUTO") \in SystemStates
    BY WordOperators DEF Bases
  <2>2. State' \in EngagementStates \ {"TRACKING_STABLE", "NEW_TARGET"} /\ lastShot' \in Int
    BY <1>4 DEF RequestAuto, EngagementStates
  <2> QED BY <1>4, <2>1, <2>2, SettleTypes DEF RequestAuto, TypeOK, OrderIndexInBounds, Slots
<1>5. CASE RequestManual
  <2>1. Only("ARMED_MANUAL") \in SystemStates
    BY WordOperators DEF Bases
  <2> QED BY <1>5, <2>1, SettleTypes DEF RequestManual, TypeOK, OrderIndexInBounds, Slots
<1>6. CASE r.base = "ARMED_MANUAL" /\ RequestManualFlags(r)
  <2>1. r \in SystemStates
    BY <1>6 DEF RequestWords, SystemStates, Bases
  <2> QED BY <1>6, <2>1, SettleTypes DEF RequestManualFlags, TypeOK, OrderIndexInBounds, Slots
<1>7. CASE RequestRefused(r)
  BY <1>7, SettleTypes DEF RequestRefused, TypeOK, OrderIndexInBounds, Slots
<1> QED BY <1>2, <1>3, <1>4, <1>5, <1>6, <1>7 DEF ProcessStateChangeRequest

LEMMA OrderTypeInv ==
    ASSUME TypeInv, NEW o \in Orders, ProcessFiringOrder(o)
    PROVE  TypeInv'
<1> USE DEF TypeInv, TypeOK, OrderIndexInBounds
<1>1. o \in Seq(Digits \cup {NonDigit}) /\ Len(o) \in Nat
  BY OrdersAssumption
<1>2. CopiedOrder(o) \in [Slots -> Digits]
  <2>1. SUFFICES ASSUME NEW i \in Slots
                 PROVE  CopiedOrder(o)[i] \in Digits
    BY DEF CopiedOrder
  <2>2. CASE /\ i < Len(o) /\ Len(o) <= MaxOrder
             /\ \A j \in 1 .. i + 1 : o[j] \in Digits
    <3>1. i + 1 \in 1 .. i + 1
      BY MaxOrderAssumption DEF Slots
    <3> QED BY <2>2, <3>1 DEF CopiedOrder
  <2> QED BY <2>2 DEF CopiedOrder
<1>3. NumberOfTargets' \in 0 .. MaxOrder /\ HaveFiringOrder' \in BOOLEAN
  BY <1>1, MaxOrderAssumption DEF ProcessFiringOrder
<1>4. interrupted' \in BOOLEAN /\ State' = "NOT_ACTIVE" /\ Target' \in Digits
  BY DigitsAssumption DEF ProcessFiringOrder, NoteInterruption, MidEngagement
<1> QED
  BY <1>2, <1>3, <1>4 DEF ProcessFiringOrder, operator, calibration, pins, EngagementStates

\* fire(true) and fire(false) leave a well-typed word and pin.
LEMMA FireTypes ==
    ASSUME TypeInv, FireOn
    PROVE  SystemState' \in SystemStates /\ pin17' \in BOOLEAN
<1>1. Only("PREARMED") \in SystemStates /\ WithFlag(SystemState, "FIRING") \in SystemStates
  BY WordOperators DEF TypeInv, TypeOK, Bases, Flags
<1>2. CASE FirePermitted(SystemState)
  BY <1>1, <1>2 DEF FireOn
<1>3. CASE ~FirePermitted(SystemState)
  BY <1>1, <1>3 DEF FireOn, TypeInv, TypeOK
<1> QED BY <1>2, <1>3

LEMMA NetworkTypeInv ==
    ASSUME TypeInv, Network
    PROVE  TypeInv'
<1> USE DEF TypeInv, TypeOK, OrderIndexInBounds, order, progress, calibration, pins, operator
<1>1. ASSUME NEW ok \in BOOLEAN, Login(ok) PROVE TypeInv'
  BY <1>1 DEF Login, Slots
<1>2. CASE ProcessPreArm
  BY <1>2, WordOperators DEF ProcessPreArm, Bases, Slots
<1>3. ASSUME NEW start \in BOOLEAN, FireCommand(start) PROVE TypeInv'
  <2>1. WithoutFlags(SystemState, {"FIRING"}) \in SystemStates
    BY WordOperators DEF Flags
  <2>2. SystemState' \in SystemStates /\ pin17' \in BOOLEAN
    BY <1>3, <2>1, FireTypes DEF FireCommand
  <2> QED BY <1>3, <2>2 DEF FireCommand, Slots
<1>4. ASSUME NEW step \in {-1, 1}, ProcessCalibCommands(step) PROVE TypeInv'
  <2>1. correction' \in Int
    BY <1>4 DEF ProcessCalibCommands
  <2> QED BY <1>4, <2>1 DEF ProcessCalibCommands, Slots
<1> QED
  BY <1>1, <1>2, <1>3, <1>4, RequestsAssumption, RequestTypeInv, OrderTypeInv DEF Network

\* The common end of a frame leaves everything it writes well typed.
LEMMA ConcludeTypes ==
    ASSUME TypeInv,
           NEW result \in {"LOOKING_FOR_TARGET", "TRACKING", "TRACKING_STABLE",
                           "ENGAGEMENT_COMPLETE"},
           Conclude(result)
    PROVE  /\ SystemState' \in SystemStates
           /\ State' \in EngagementStates \ {"TRACKING_STABLE", "NEW_TARGET"}
           /\ epc' \in {"relock", "waiting"} \cup Awake
           /\ mpc' = "frame"
           /\ UNCHANGED <<pins, operator, order, CurrentIndex, Target, newState,
                          calibration, interrupted, lastShot>>
<1>1. WithoutFlags(SystemState, {"ARMED"}) \in SystemStates
      /\ WithFlag(SystemState, "ARMED") \in SystemStates
  BY WordOperators DEF TypeInv, TypeOK, Flags
<1>2. SystemState' \in SystemStates
  BY <1>1 DEF Conclude, TypeInv, TypeOK
<1>3. State' \in EngagementStates \ {"TRACKING_STABLE", "NEW_TARGET"}
  BY DEF Conclude, EngagementStates
<1>4. epc' \in {"relock", "waiting"} \cup Awake
  BY DEF Conclude, TypeInv, TypeOK, Awake
<1> QED BY <1>2, <1>3, <1>4 DEF Conclude

LEMMA MainTypeInv ==
    ASSUME TypeInv, Main
    PROVE  TypeInv'
<1> USE DEF TypeInv, TypeOK, OrderIndexInBounds, order, progress, calibration, pins, operator
<1>1. CASE FrameBegin
  <2> DEFINE index == IF State = "ACTIVATE" THEN 0 ELSE CurrentIndex
  <2>1. State \in {"ACTIVATE", "NEW_TARGET"} => index \in Slots
    BY MaxOrderAssumption DEF Slots
  <2>2. CurrentIndex' \in Nat /\ CurrentIndex' = index
    BY <1>1 DEF FrameBegin
  <2>3. Target' \in Digits /\ StableCount' \in Nat /\ seen' \in BOOLEAN
    <3>1. CASE State \in {"ACTIVATE", "NEW_TARGET"}
      <4>1. Target' = FiringOrder[index] /\ StableCount' = 0 /\ seen' = FALSE
        BY <1>1, <3>1 DEF FrameBegin
      <4> QED BY <2>1, <3>1, <4>1
    <3>2. CASE State \notin {"ACTIVATE", "NEW_TARGET"}
      BY <1>1, <3>2 DEF FrameBegin
    <3> QED BY <3>1, <3>2
  <2>4. /\ State' \in EngagementStates \ {"TRACKING_STABLE"}
        /\ State' = "NEW_TARGET" => State \in {"ACTIVATE", "NEW_TARGET"}
    BY <1>1 DEF FrameBegin, EngagementStates
  <2>5. newState' \in BOOLEAN /\ mpc' = "match"
    BY <1>1 DEF FrameBegin
  <2> HIDE DEF index
  <2>6. OrderIndexInBounds'
    BY <2>1, <2>2, <2>4, <2>5 DEF Slots
  <2> QED BY <1>1, <2>2, <2>3, <2>4, <2>5, <2>6 DEF FrameBegin
<1>2. CASE NotFound \/ GiveUp \/ OutOfReach
  <2>1. /\ trying' \in BOOLEAN
        /\ StableCount' \in Nat /\ seen' \in BOOLEAN
    BY <1>2 DEF NotFound, GiveUp, OutOfReach
  <2>2. Conclude("LOOKING_FOR_TARGET") \/ Conclude("ENGAGEMENT_COMPLETE")
    BY <1>2 DEF NotFound, GiveUp, OutOfReach
  <2> QED BY <2>1, <2>2, ConcludeTypes
<1>3. CASE FoundStill
  <2>1. /\ trying' \in BOOLEAN
        /\ StableCount' \in Nat /\ seen' \in BOOLEAN
    <3>1. StableCount' = StableCount + 1 /\ seen' = seen
      BY <1>3 DEF FoundStill
    <3>2. trying' = FALSE
      BY <1>3 DEF FoundStill
    <3>3. StableCount' \in Nat /\ seen' \in BOOLEAN
      BY <3>1
    <3> QED BY <3>2, <3>3
  <2>2. Conclude("TRACKING_STABLE") \/ Conclude("TRACKING")
    BY <1>3 DEF FoundStill
  <2> QED BY <2>1, <2>2, ConcludeTypes
<1>4. CASE FoundMoved
  <2>1. /\ trying' \in BOOLEAN
        /\ StableCount' \in Nat /\ seen' \in BOOLEAN
    BY <1>4 DEF FoundMoved
  <2> QED BY <1>4, <2>1, ConcludeTypes DEF FoundMoved
<1>5. CASE Advance
  <2>1. CurrentIndex' \in Nat /\ (mpc' = "next" => CurrentIndex' \in Slots)
    BY <1>5, MaxOrderAssumption DEF Advance, Slots
  <2>2. mpc' \in {"done", "next"} /\ State' # "NEW_TARGET"
    BY <1>5 DEF Advance
  <2> QED BY <1>5, <2>1, <2>2 DEF Advance
<1>6. CASE ListCompleted
  BY <1>6, WordOperators DEF ListCompleted, Bases, EngagementStates
<1>7. CASE NextTarget
  BY <1>7 DEF NextTarget, EngagementStates, Slots
<1> QED BY <1>1, <1>2, <1>3, <1>4, <1>5, <1>6, <1>7 DEF Main

LEMMA EngagementTypeInv ==
    ASSUME TypeInv, Engagement
    PROVE  TypeInv'
<1> USE DEF TypeInv, TypeOK, OrderIndexInBounds, order, progress, calibration, pins, operator
<1>1. CASE EnterWait \/ WakeSpuriously
  BY <1>1 DEF EnterWait, WakeSpuriously, Awake, Slots
<1>2. CASE PointLaser
  BY <1>2, WordOperators DEF PointLaser, Awake, Flags, Slots
<1>3. CASE Fire
  <2>1. SystemState' \in SystemStates /\ pin17' \in BOOLEAN
    BY <1>3, FireTypes DEF Fire
  <2>2. lastShot' \in Int
    BY <1>3 DEF Fire
  <2> QED BY <1>3, <2>1, <2>2 DEF Fire, Awake, Slots
<1>4. CASE Cease
  <2>1. WithoutFlags(SystemState, {"FIRING", "LASER_ON", "ARMED"}) \in SystemStates
    BY WordOperators DEF Flags
  <2> QED BY <1>4, <2>1 DEF Cease, EngagementStates, Slots
<1> QED BY <1>1, <1>2, <1>3, <1>4 DEF Engagement

LEMMA NextTypeInv == TypeInv /\ [Next]_vars => TypeInv'
<1> SUFFICES ASSUME TypeInv, [Next]_vars PROVE TypeInv'
  OBVIOUS
<1>1. CASE Next
  BY <1>1, NetworkTypeInv, MainTypeInv, EngagementTypeInv DEF Next
<1>2. CASE UNCHANGED vars
  BY <1>2 DEF vars, order, progress, calibration, pins, operator, TypeInv, TypeOK,
              OrderIndexInBounds
<1> QED BY <1>1, <1>2

\* Every variable of the server keeps its range, and FiringOrder[] is never read
\* outside its bounds, for every size of the array and every order.
THEOREM TypeCorrect == Spec => []TypeOK
<1>1. TypeInv => TypeOK
  BY DEF TypeInv
<1> QED BY <1>1, InitTypeInv, NextTypeInv, PTL DEF Spec

\* FiringOrder[CurrentIndex] is read inside the array, also when the client's
\* next order or a cancellation overtakes the main thread.
THEOREM IndexInBounds == Spec => []OrderIndexInBounds
<1>1. TypeInv => OrderIndexInBounds
  BY DEF TypeInv
<1> QED BY <1>1, InitTypeInv, NextTypeInv, PTL DEF Spec

-----------------------------------------------------------------------------
(* The stability count.                                                      *)

\* A frame may end in LOOKING_FOR_TARGET or TRACKING only below the threshold.
CountInv ==
    /\ NoCountSurvives
    /\ State \in {"LOOKING_FOR_TARGET", "TRACKING"} => StableCount <= StableFrames

LEMMA NextCountInv ==
    ASSUME TypeInv, CountInv, [Next]_vars
    PROVE  CountInv'
<1> USE DEF CountInv, NoCountSurvives, StableFrames
<1>0. StableCount \in Nat
  BY DEF TypeInv, TypeOK
<1>1. ASSUME Network PROVE CountInv'
  <2>1. UNCHANGED <<StableCount, mpc>>
    BY <1>1 DEF Network, Login, ProcessPreArm, ProcessStateChangeRequest, RequestSafe,
       RequestPrearmed, RequestAuto, RequestManual, RequestManualFlags, RequestRefused,
       Settle, ProcessFiringOrder, FireCommand, ProcessCalibCommands, progress
  <2>2. State' \in {State, "NOT_ACTIVE", "ACTIVATE"}
    BY <1>1 DEF Network, Login, ProcessPreArm, ProcessStateChangeRequest, RequestSafe,
       RequestPrearmed, RequestAuto, RequestManual, RequestManualFlags, RequestRefused,
       DropOrder, ProcessFiringOrder, FireCommand, ProcessCalibCommands
  <2> QED BY <2>1, <2>2
<1>2. CASE FrameBegin
  <2>1. CASE State \in {"ACTIVATE", "NEW_TARGET"}
    <3>1. State' = "NEW_TARGET" /\ StableCount' = 0
      BY <1>2, <2>1 DEF FrameBegin
    <3> QED BY <3>1
  <2>2. CASE State \notin {"ACTIVATE", "NEW_TARGET"}
    <3>1. State \in {"LOOKING_FOR_TARGET", "TRACKING"} /\ StableCount' = StableCount
      BY <1>2, <2>2 DEF FrameBegin
    <3> QED BY <3>1
  <2> QED BY <2>1, <2>2
<1>3. CASE NotFound \/ GiveUp \/ OutOfReach
  BY <1>0, <1>3 DEF NotFound, GiveUp, OutOfReach, Conclude
<1>4. CASE FoundStill
  <2>1. /\ mpc = "match" /\ StableCount' = StableCount + 1 /\ mpc' = "frame"
        /\ State' \in {"LOOKING_FOR_TARGET", "TRACKING"} => ~(StableCount + 1 > StableFrames)
    BY <1>4 DEF FoundStill, Conclude
  <2> QED BY <1>0, <2>1
<1>5. CASE FoundMoved
  BY <1>5 DEF FoundMoved, Conclude
<1>6. CASE Advance \/ ListCompleted \/ NextTarget
  BY <1>0, <1>6 DEF Advance, ListCompleted, NextTarget, progress
<1>7. CASE Engagement
  BY <1>0, <1>7 DEF Engagement, EnterWait, WakeSpuriously, PointLaser, Fire, Cease, progress
<1>8. CASE UNCHANGED vars
  BY <1>8 DEF vars, progress
<1> QED BY <1>1, <1>2, <1>3, <1>4, <1>5, <1>6, <1>7, <1>8 DEF Next, Main

\* No stability count reaches the next target, whatever overtakes the frames.
THEOREM CountsAreFresh == Spec => []NoCountSurvives
<1>1. Init => CountInv
  BY DEF Init, CountInv, NoCountSurvives, StableFrames
<1>2. CountInv => NoCountSurvives
  BY DEF CountInv
<1> QED BY <1>1, <1>2, InitTypeInv, NextTypeInv, NextCountInv, PTL DEF Spec

-----------------------------------------------------------------------------
(* Before the first pre-arm code.                                            *)

\* Not only is the server SAFE: no engagement exists that could leave SAFE.
DormantInv ==
    ~codeSeen =>
        /\ SystemState = Only("SAFE") /\ ~pin17 /\ ~pin18
        /\ State = "NOT_ACTIVE" /\ mpc = "frame" /\ epc \notin Awake

LEMMA NextDormantInv ==
    ASSUME TypeInv, DormantInv, SpuriousBound = 0, [Next]_vars
    PROVE  DormantInv'
<1> USE DEF DormantInv
<1> SUFFICES ASSUME ~codeSeen' PROVE DormantInv'
  OBVIOUS
<1>0. ~codeSeen
  BY DEF Next, Network, Main, Engagement, Login, ProcessPreArm, ProcessStateChangeRequest,
     RequestSafe, RequestPrearmed, RequestAuto, RequestManual, RequestManualFlags,
     RequestRefused, Settle, ProcessFiringOrder, FireCommand, ProcessCalibCommands,
     FrameBegin, NotFound, GiveUp, OutOfReach, FoundStill, FoundMoved, Conclude, Advance,
     ListCompleted, NextTarget, EnterWait, WakeSpuriously, PointLaser, Fire, Cease,
     vars, operator
<1>1. /\ SystemState = Only("SAFE") /\ SystemState.base = "SAFE" /\ SystemState.flags = {}
      /\ State = "NOT_ACTIVE" /\ mpc = "frame" /\ epc \notin Awake
  BY <1>0 DEF Only
<1>2. pin17 = FALSE /\ pin18 = FALSE
  BY <1>0 DEF TypeInv, TypeOK
<1>3. ASSUME NEW r \in Requests, ProcessStateChangeRequest(r) PROVE DormantInv'
  <2>1. RequestSafe \/ RequestRefused(r)
    BY <1>1, <1>3 DEF ProcessStateChangeRequest, RequestPrearmed, RequestAuto,
       RequestManual, RequestManualFlags
  <2>2. CASE RequestSafe
    BY <1>1, <2>2 DEF RequestSafe, Settle, DropOrder, Only
  <2>3. CASE RequestRefused(r)
    BY <1>1, <1>2, <2>3 DEF RequestRefused, Settle
  <2> QED BY <2>1, <2>2, <2>3
<1>4. CASE Network
  <2>1. ASSUME NEW ok \in BOOLEAN, Login(ok) PROVE DormantInv'
    BY <1>1, <1>2, <2>1 DEF Login, pins
  <2>2. ~ProcessPreArm
    BY DEF ProcessPreArm
  <2>3. ASSUME NEW o \in Orders, ProcessFiringOrder(o) PROVE DormantInv'
    BY <1>1, <1>2, <2>3 DEF ProcessFiringOrder, pins
  <2>4. ASSUME NEW start \in BOOLEAN PROVE ~FireCommand(start)
    BY <1>1 DEF FireCommand
  <2>5. ASSUME NEW step \in {-1, 1} PROVE ~ProcessCalibCommands(step)
    BY <1>1 DEF ProcessCalibCommands
  <2> QED BY <1>3, <1>4, <2>1, <2>2, <2>3, <2>4, <2>5 DEF Network
<1>5. ~Main
  BY <1>1 DEF Main, FrameBegin, NotFound, GiveUp, OutOfReach, FoundStill, FoundMoved,
     Advance, ListCompleted, NextTarget
<1>6. CASE Engagement
  <2>1. EnterWait
    BY <1>1, <1>6 DEF Engagement, WakeSpuriously, PointLaser, Fire, Cease, Awake,
       TypeInv, TypeOK
  <2> QED BY <1>1, <1>2, <2>1 DEF EnterWait, Awake, pins
<1>7. CASE UNCHANGED vars
  BY <1>1, <1>2, <1>7 DEF vars, pins
<1> QED BY <1>4, <1>5, <1>6, <1>7 DEF Next

\* If pthread_cond_wait returns only when signalled, nothing leaves SAFE and no
\* output goes up before the operator's pre-arm code has been accepted.
THEOREM NothingBeforeTheCode ==
    ASSUME SpuriousBound = 0
    PROVE  Spec => []NoArmingWithoutCode
<1>1. Init => DormantInv
  BY DEF Init, DormantInv, Awake
<1>2. DormantInv => NoArmingWithoutCode
  BY DEF DormantInv, NoArmingWithoutCode
<1>3. TypeInv /\ DormantInv /\ [Next]_vars => DormantInv'
  BY NextDormantInv
<1> QED BY <1>1, <1>2, <1>3, InitTypeInv, NextTypeInv, PTL DEF Spec

-----------------------------------------------------------------------------
(* Until an interruption.                                                    *)

\* An engagement in any stage belongs to the automatic state.
RunsInAutomatic ==
    MidEngagement \/ State # "NOT_ACTIVE" => SystemState.base = "ENGAGE_AUTO"

\* The three places where an engagement's progress is kept agree.
PlacesAgree ==
    /\ mpc = "match" => State \in {"NEW_TARGET", "LOOKING_FOR_TARGET", "TRACKING"}
    /\ mpc \in {"done", "next"} => State = "ENGAGEMENT_COMPLETE"
    /\ epc \in Awake => State = "ENGAGEMENT_IN_PROGRESS"

\* The outputs and the word.
OutputsAgree ==
    /\ FirePinOnlyWhenArmed
    /\ LaserPinIsItsFlag
    /\ CalibrationRemembered
    /\ SystemState.base = "ENGAGE_AUTO" =>
          /\ pin18 => epc \in {"fire", "cease"}
          /\ "CALIB_ON" \notin SystemState.flags

UninterruptedInv == ~interrupted => RunsInAutomatic /\ PlacesAgree /\ OutputsAgree

LEMMA RequestUninterrupted ==
    ASSUME TypeInv, UninterruptedInv, NEW r, ProcessStateChangeRequest(r), ~interrupted'
    PROVE  UninterruptedInv'
<1> USE DEF UninterruptedInv, RunsInAutomatic, PlacesAgree, OutputsAgree, FirePinOnlyWhenArmed,
            LaserPinIsItsFlag, CalibrationRemembered, MidEngagement, Awake
<1>1. CASE RequestSafe
  BY <1>1 DEF RequestSafe, Settle, DropOrder, NoteInterruption, Only
<1>2. CASE RequestPrearmed
  <2>1. CASE SystemState.base = "ENGAGE_AUTO"
    BY <1>2, <2>1 DEF RequestPrearmed, Settle, DropOrder, NoteInterruption, Only
  <2>2. CASE SystemState.base = "ARMED_MANUAL"
    BY <1>2, <2>2 DEF RequestPrearmed, Settle, Only
  <2> QED BY <1>2, <2>1, <2>2 DEF RequestPrearmed
<1>3. CASE RequestAuto
  BY <1>3 DEF RequestAuto, Settle, Only
<1>4. CASE RequestManual
  BY <1>4 DEF RequestManual, Settle, Only
<1>5. CASE r.base = "ARMED_MANUAL" /\ RequestManualFlags(r)
  BY <1>5 DEF RequestManualFlags, Settle
<1>6. CASE RequestRefused(r)
  BY <1>6 DEF RequestRefused, Settle
<1> QED BY <1>1, <1>2, <1>3, <1>4, <1>5, <1>6 DEF ProcessStateChangeRequest

LEMMA NetworkUninterrupted ==
    ASSUME TypeInv, UninterruptedInv, Network, ~interrupted'
    PROVE  UninterruptedInv'
<1> USE DEF UninterruptedInv, RunsInAutomatic, PlacesAgree, OutputsAgree, FirePinOnlyWhenArmed,
            LaserPinIsItsFlag, CalibrationRemembered, MidEngagement, Awake
<1>1. ASSUME NEW ok \in BOOLEAN, Login(ok) PROVE UninterruptedInv'
  BY <1>1 DEF Login, pins, calibration
<1>2. CASE ProcessPreArm
  BY <1>2 DEF ProcessPreArm, Only, pins, calibration
<1>3. ASSUME NEW r \in Requests, ProcessStateChangeRequest(r) PROVE UninterruptedInv'
  BY <1>3, RequestUninterrupted
<1>4. ASSUME NEW o \in Orders, ProcessFiringOrder(o) PROVE UninterruptedInv'
  BY <1>4 DEF ProcessFiringOrder, NoteInterruption, pins, calibration
<1>5. ASSUME NEW start \in BOOLEAN, FireCommand(start) PROVE UninterruptedInv'
  <2>1. /\ SystemState.base = "ARMED_MANUAL" /\ SystemState'.base = "ARMED_MANUAL"
        /\ "LASER_ON" \in SystemState'.flags <=> "LASER_ON" \in SystemState.flags
        /\ "CALIB_ON" \in SystemState'.flags <=> "CALIB_ON" \in SystemState.flags
    BY <1>5 DEF FireCommand, FireOn, FirePermitted, WithFlag, WithoutFlags,
       TypeInv, TypeOK, SystemStates
  <2> QED BY <1>5, <2>1 DEF FireCommand, calibration
<1>6. ASSUME NEW step \in {-1, 1}, ProcessCalibCommands(step) PROVE UninterruptedInv'
  BY <1>6 DEF ProcessCalibCommands, pins
<1> QED BY <1>1, <1>2, <1>3, <1>4, <1>5, <1>6 DEF Network

LEMMA MainUninterrupted ==
    ASSUME TypeInv, UninterruptedInv, Main, ~interrupted'
    PROVE  UninterruptedInv'
<1> USE DEF UninterruptedInv, RunsInAutomatic, PlacesAgree, OutputsAgree, FirePinOnlyWhenArmed,
            LaserPinIsItsFlag, CalibrationRemembered, MidEngagement, Awake
<1>0. interrupted' = interrupted
  BY DEF Main, FrameBegin, NotFound, GiveUp, OutOfReach, FoundStill, FoundMoved, Conclude,
     Advance, ListCompleted, NextTarget
<1>1. CASE FrameBegin
  BY <1>0, <1>1 DEF FrameBegin, pins, calibration
<1>2. ASSUME NEW result \in {"LOOKING_FOR_TARGET", "TRACKING", "TRACKING_STABLE",
                             "ENGAGEMENT_COMPLETE"},
             mpc = "match", Conclude(result)
      PROVE  UninterruptedInv'
  <2>1. /\ SystemState.base = "ENGAGE_AUTO" /\ epc \notin Awake
        /\ pin18 = FALSE /\ ~pin17 /\ "LASER_ON" \notin SystemState.flags
        /\ "CALIB_ON" \notin SystemState.flags /\ ~CalibrateWasOn
    BY <1>0, <1>2 DEF Awake, TypeInv, TypeOK
  <2>2. /\ SystemState'.base = "ENGAGE_AUTO"
        /\ "LASER_ON" \notin SystemState'.flags /\ "CALIB_ON" \notin SystemState'.flags
    BY <1>2, <2>1 DEF Conclude, WithFlag, WithoutFlags, TypeInv, TypeOK, SystemStates
  <2>3. ~pin17' /\ pin18' = FALSE /\ ~CalibrateWasOn' /\ mpc' = "frame"
    BY <1>2, <2>1 DEF Conclude, pins, calibration
  <2>4. epc' \in Awake => State' = "ENGAGEMENT_IN_PROGRESS"
    BY <1>2, <2>1 DEF Conclude
  <2> QED BY <1>0, <2>2, <2>3, <2>4
<1>3. CASE NotFound \/ GiveUp \/ OutOfReach \/ FoundMoved
  BY <1>2, <1>3 DEF NotFound, GiveUp, OutOfReach, FoundMoved
<1>4. CASE FoundStill
  <2>1. Conclude("TRACKING_STABLE") \/ Conclude("TRACKING")
    BY <1>4 DEF FoundStill
  <2> QED BY <1>2, <1>4, <2>1 DEF FoundStill
<1>5. CASE Advance
  BY <1>0, <1>5 DEF Advance, Awake, pins, calibration
<1>6. CASE ListCompleted
  <2>1. epc \notin Awake /\ SystemState.base = "ENGAGE_AUTO"
    BY <1>0, <1>6 DEF ListCompleted
  <2>2. ~pin17 /\ pin18 = FALSE /\ ~CalibrateWasOn
    BY <1>0, <2>1 DEF Awake, TypeInv, TypeOK
  <2> QED BY <1>0, <1>6, <2>1, <2>2 DEF ListCompleted, Only, pins, calibration
<1>7. CASE NextTarget
  BY <1>0, <1>7 DEF NextTarget, Awake, pins, calibration
<1> QED BY <1>1, <1>3, <1>4, <1>5, <1>6, <1>7 DEF Main

LEMMA EngagementUninterrupted ==
    ASSUME TypeInv, UninterruptedInv, EnterWait \/ PointLaser \/ Fire \/ Cease,
           ~interrupted'
    PROVE  UninterruptedInv'
<1> USE DEF UninterruptedInv, RunsInAutomatic, PlacesAgree, OutputsAgree, FirePinOnlyWhenArmed,
            LaserPinIsItsFlag, CalibrationRemembered, MidEngagement, Awake
<1>0. interrupted' = interrupted
  BY DEF EnterWait, PointLaser, Fire, Cease
<1>1. CASE EnterWait
  BY <1>0, <1>1 DEF EnterWait, Awake, pins, calibration
<1>2. CASE PointLaser
  <2>1. SystemState.base = "ENGAGE_AUTO" /\ State = "ENGAGEMENT_IN_PROGRESS"
    BY <1>0, <1>2 DEF PointLaser, Awake
  <2>2. /\ SystemState'.base = "ENGAGE_AUTO" /\ "LASER_ON" \in SystemState'.flags
        /\ "CALIB_ON" \notin SystemState'.flags
    BY <1>0, <1>2, <2>1 DEF PointLaser, WithFlag, TypeInv, TypeOK, SystemStates
  <2>3. ~pin17' /\ pin18' = TRUE
    BY <1>0, <1>2, <2>1 DEF PointLaser
  <2> QED BY <1>0, <1>2, <2>1, <2>2, <2>3 DEF PointLaser, calibration
<1>3. CASE Fire
  <2>1. SystemState.base = "ENGAGE_AUTO" /\ State = "ENGAGEMENT_IN_PROGRESS"
    BY <1>0, <1>3 DEF Fire, Awake
  <2>2. /\ SystemState'.base = "ENGAGE_AUTO"
        /\ "LASER_ON" \in SystemState'.flags <=> "LASER_ON" \in SystemState.flags
        /\ "CALIB_ON" \notin SystemState'.flags
    <3>1. SystemState' = WithFlag(SystemState, "FIRING")
      BY <1>3, <2>1 DEF Fire, FireOn, FirePermitted
    <3> QED BY <1>0, <2>1, <3>1 DEF WithFlag, TypeInv, TypeOK, SystemStates
  <2> QED BY <1>0, <1>3, <2>1, <2>2 DEF Fire, calibration
<1>4. CASE Cease
  <2>1. SystemState.base = "ENGAGE_AUTO" /\ State = "ENGAGEMENT_IN_PROGRESS"
    BY <1>0, <1>4 DEF Cease
  <2>3. mpc = "frame"
    BY <1>0, <2>1 DEF TypeInv, TypeOK
  <2>2. /\ SystemState'.base = "ENGAGE_AUTO" /\ "LASER_ON" \notin SystemState'.flags
        /\ "CALIB_ON" \notin SystemState'.flags
    BY <1>0, <1>4, <2>1 DEF Cease, WithoutFlags, TypeInv, TypeOK, SystemStates
  <2> QED BY <1>0, <1>4, <2>1, <2>2, <2>3 DEF Cease, calibration
<1> QED BY <1>1, <1>2, <1>3, <1>4

LEMMA NextUninterrupted ==
    ASSUME TypeInv, UninterruptedInv, SpuriousBound = 0, [Next]_vars
    PROVE  UninterruptedInv'
<1>0. ~WakeSpuriously
  BY DEF WakeSpuriously, TypeInv, TypeOK
<1>1. CASE ~interrupted' /\ Next
  BY <1>0, <1>1, NetworkUninterrupted, MainUninterrupted, EngagementUninterrupted
  DEF Next, Engagement
<1>2. CASE interrupted'
  BY <1>2 DEF UninterruptedInv
<1>3. CASE UNCHANGED vars
  BY <1>3 DEF vars, pins, calibration, UninterruptedInv, RunsInAutomatic, PlacesAgree,
     OutputsAgree, FirePinOnlyWhenArmed, LaserPinIsItsFlag, CalibrationRemembered, MidEngagement, Awake
<1> QED BY <1>1, <1>2, <1>3

LEMMA InitUninterrupted == Init => UninterruptedInv
<1> SUFFICES ASSUME Init PROVE RunsInAutomatic /\ PlacesAgree /\ OutputsAgree
  BY DEF UninterruptedInv
<1>1. SystemState.base = "SAFE" /\ SystemState.flags = {}
  BY DEF Init, Only
<1>2. RunsInAutomatic /\ PlacesAgree
  BY DEF Init, RunsInAutomatic, PlacesAgree, MidEngagement, Awake
<1>3. FirePinOnlyWhenArmed /\ CalibrationRemembered
  BY <1>1 DEF Init, FirePinOnlyWhenArmed, CalibrationRemembered
<1>4. LaserPinIsItsFlag
  BY <1>1 DEF Init, LaserPinIsItsFlag
<1> QED BY <1>1, <1>2, <1>3, <1>4 DEF OutputsAgree

\* Until an interruption the pump runs only in an armed state and, in automatic,
\* only during the pulse of the engagement thread.
THEOREM PumpRunsOnlyArmed ==
    ASSUME SpuriousBound = 0
    PROVE  Spec => []FirePinOnlyWhenArmed
<1>1. UninterruptedInv => FirePinOnlyWhenArmed
  BY DEF UninterruptedInv, OutputsAgree, FirePinOnlyWhenArmed
<1>2. TypeInv /\ UninterruptedInv /\ [Next]_vars => UninterruptedInv'
  BY NextUninterrupted
<1> QED BY <1>1, <1>2, InitUninterrupted, InitTypeInv, NextTypeInv, PTL DEF Spec

\* Until an interruption the client sees in the word what the laser does.
THEOREM LaserIsReported ==
    ASSUME SpuriousBound = 0
    PROVE  Spec => []LaserPinIsItsFlag
<1>1. UninterruptedInv => LaserPinIsItsFlag
  BY DEF UninterruptedInv, OutputsAgree, LaserPinIsItsFlag
<1>2. TypeInv /\ UninterruptedInv /\ [Next]_vars => UninterruptedInv'
  BY NextUninterrupted
<1> QED BY <1>1, <1>2, InitUninterrupted, InitTypeInv, NextTypeInv, PTL DEF Spec

\* Until an interruption leaving calibration is never missed.
THEOREM CalibrationIsRemembered ==
    ASSUME SpuriousBound = 0
    PROVE  Spec => []CalibrationRemembered
<1>1. UninterruptedInv => CalibrationRemembered
  BY DEF UninterruptedInv, OutputsAgree, CalibrationRemembered
<1>2. TypeInv /\ UninterruptedInv /\ [Next]_vars => UninterruptedInv'
  BY NextUninterrupted
<1> QED BY <1>1, <1>2, InitUninterrupted, InitTypeInv, NextTypeInv, PTL DEF Spec

-----------------------------------------------------------------------------
(* Cannon implements Arming.                                                 *)

LEMMA InitArming == Init => ArmingPromise!Init
BY DEF Init, ArmingPromise!Init, Only

LEMMA RequestArming ==
    ASSUME TypeInv, UninterruptedInv, ~interrupted, NEW r \in Requests,
           ProcessStateChangeRequest(r)
    PROVE  [ArmingPromise!Next]_(ArmingPromise!armingVars)
<1> USE DEF ArmingPromise!Next, ArmingPromise!armingVars
<1>1. CASE RequestSafe
  <2>1. SystemState'.base = "SAFE" /\ pin17' = FALSE /\ interrupted' \in {TRUE, FALSE}
    BY <1>1, NoteTypes DEF RequestSafe, Settle, Only
  <2>2. CASE interrupted' = FALSE
    BY <2>1, <2>2 DEF ArmingPromise!Safe, TypeInv, TypeOK
  <2>3. CASE interrupted' = TRUE
    BY <2>1, <2>3 DEF ArmingPromise!Lapse, ArmingPromise!Unarmed
  <2> QED BY <2>1, <2>2, <2>3
<1>2. CASE RequestPrearmed
  <2>1. /\ SystemState.base \in ArmingPromise!ArmedModes
        /\ SystemState'.base = "PREARMED" /\ pin17' = FALSE
        /\ (interrupted' = interrupted) \/ NoteInterruption
    BY <1>2 DEF RequestPrearmed, Settle, Only, ArmingPromise!ArmedModes
  <2>2. interrupted' \in BOOLEAN /\ interrupted \in BOOLEAN
    BY <2>1, NoteTypes DEF TypeInv, TypeOK
  <2>3. CASE interrupted' = FALSE
    BY <2>1, <2>2, <2>3 DEF ArmingPromise!Disarm
  <2>4. CASE interrupted' = TRUE
    BY <2>1, <2>4 DEF ArmingPromise!Lapse, ArmingPromise!Unarmed
  <2> QED BY <2>2, <2>3, <2>4
<1>3. CASE RequestAuto \/ RequestManual
  <2>1. /\ SystemState.base = "PREARMED" /\ SystemState'.base \in ArmingPromise!ArmedModes
        /\ pin17' = FALSE /\ interrupted' = interrupted
    BY <1>3 DEF RequestAuto, RequestManual, Settle, Only, ArmingPromise!ArmedModes
  <2>2. pin17 = FALSE
    BY <2>1 DEF UninterruptedInv, OutputsAgree, FirePinOnlyWhenArmed, TypeInv, TypeOK
  <2> QED BY <2>1, <2>2 DEF ArmingPromise!Arm
<1>4. CASE r.base = "ARMED_MANUAL" /\ RequestManualFlags(r)
  <2>1. SystemState'.base = SystemState.base /\ UNCHANGED <<pin17, interrupted>>
    BY <1>4 DEF RequestManualFlags, Settle
  <2> QED BY <2>1
<1>5. CASE RequestRefused(r)
  <2>1. SystemState'.base = SystemState.base /\ UNCHANGED <<pin17, interrupted>>
    BY <1>5 DEF RequestRefused, Settle
  <2> QED BY <2>1
<1> QED BY <1>1, <1>2, <1>3, <1>4, <1>5 DEF ProcessStateChangeRequest

LEMMA NetworkArming ==
    ASSUME TypeInv, UninterruptedInv, ~interrupted, Network
    PROVE  [ArmingPromise!Next]_(ArmingPromise!armingVars)
<1> USE DEF ArmingPromise!Next, ArmingPromise!armingVars
<1>1. ASSUME NEW ok \in BOOLEAN, Login(ok)
      PROVE  [ArmingPromise!Next]_(ArmingPromise!armingVars)
  BY <1>1 DEF Login, pins
<1>2. CASE ProcessPreArm
  BY <1>2 DEF ProcessPreArm, ArmingPromise!Prearm, Only, pins
<1>3. ASSUME NEW o \in Orders, ProcessFiringOrder(o)
      PROVE  [ArmingPromise!Next]_(ArmingPromise!armingVars)
  <2>1. UNCHANGED <<SystemState, pin17>> /\ interrupted' \in BOOLEAN
    BY <1>3, NoteTypes DEF ProcessFiringOrder, pins
  <2>2. CASE interrupted' = interrupted
    BY <2>1, <2>2
  <2>3. CASE interrupted' = TRUE
    <3>1. SystemState'.base \in ArmingPromise!Unarmed \cup ArmingPromise!ArmedModes
      BY <2>1 DEF ArmingPromise!Unarmed, ArmingPromise!ArmedModes, TypeInv, TypeOK,
         SystemStates, Bases
    <3>2. pin17' \in BOOLEAN
      BY <2>1 DEF TypeInv, TypeOK
    <3> QED BY <2>3, <3>1, <3>2 DEF ArmingPromise!Lapse
  <2>4. interrupted = FALSE
    BY DEF TypeInv, TypeOK
  <2> QED BY <2>1, <2>2, <2>3, <2>4
<1>4. ASSUME NEW start \in BOOLEAN, FireCommand(start)
      PROVE  [ArmingPromise!Next]_(ArmingPromise!armingVars)
  <2>1. /\ SystemState.base = "ARMED_MANUAL" /\ SystemState'.base = SystemState.base
        /\ interrupted' = interrupted
    BY <1>4 DEF FireCommand, FireOn, FirePermitted, WithFlag, WithoutFlags, TypeInv, TypeOK,
       SystemStates
  <2>2. pin17' \in BOOLEAN
    BY <1>4, FireTypes DEF FireCommand
  <2> QED BY <2>1, <2>2 DEF ArmingPromise!Pump, ArmingPromise!ArmedModes
<1>5. ASSUME NEW step \in {-1, 1}, ProcessCalibCommands(step)
      PROVE  [ArmingPromise!Next]_(ArmingPromise!armingVars)
  BY <1>5 DEF ProcessCalibCommands, pins
<1> QED BY <1>1, <1>2, <1>3, <1>4, <1>5, RequestArming DEF Network

LEMMA MainArming ==
    ASSUME TypeInv, UninterruptedInv, ~interrupted, Main
    PROVE  [ArmingPromise!Next]_(ArmingPromise!armingVars)
<1> USE DEF ArmingPromise!Next, ArmingPromise!armingVars
<1>1. CASE FrameBegin \/ Advance \/ NextTarget
  BY <1>1 DEF FrameBegin, Advance, NextTarget, pins
<1>2. ASSUME NEW result, Conclude(result)
      PROVE  [ArmingPromise!Next]_(ArmingPromise!armingVars)
  <2>1. SystemState'.base = SystemState.base /\ UNCHANGED <<pin17, interrupted>>
    BY <1>2 DEF Conclude, WithFlag, WithoutFlags, pins, TypeInv, TypeOK, SystemStates
  <2> QED BY <2>1
<1>3. CASE NotFound \/ GiveUp \/ OutOfReach \/ FoundStill \/ FoundMoved
  BY <1>2, <1>3 DEF NotFound, GiveUp, OutOfReach, FoundStill, FoundMoved
<1>4. CASE ListCompleted
  <2>1. SystemState.base = "ENGAGE_AUTO" /\ pin17 = FALSE
    BY <1>4 DEF ListCompleted, UninterruptedInv, RunsInAutomatic, PlacesAgree, OutputsAgree,
       FirePinOnlyWhenArmed, MidEngagement, Awake, TypeInv, TypeOK
  <2> QED BY <1>4, <2>1 DEF ListCompleted, ArmingPromise!Disarm, ArmingPromise!ArmedModes,
          Only, pins
<1> QED BY <1>1, <1>3, <1>4 DEF Main

LEMMA EngagementArming ==
    ASSUME TypeInv, UninterruptedInv, ~interrupted, Engagement
    PROVE  [ArmingPromise!Next]_(ArmingPromise!armingVars)
<1> USE DEF ArmingPromise!Next, ArmingPromise!armingVars
<1>1. CASE EnterWait \/ WakeSpuriously
  BY <1>1 DEF EnterWait, WakeSpuriously, pins
<1>2. CASE PointLaser
  BY <1>2 DEF PointLaser, WithFlag, TypeInv, TypeOK, SystemStates
<1>3. CASE Fire \/ Cease
  <2>1. SystemState.base = "ENGAGE_AUTO" /\ interrupted' = interrupted
    BY <1>3 DEF Fire, Cease, UninterruptedInv, RunsInAutomatic, MidEngagement, Awake
  <2>2. SystemState'.base = SystemState.base
    BY <1>3, <2>1 DEF Fire, Cease, FireOn, FirePermitted, WithFlag, WithoutFlags,
       TypeInv, TypeOK, SystemStates
  <2>3. pin17' \in BOOLEAN
    BY <1>3, FireTypes DEF Fire, Cease
  <2> QED BY <2>1, <2>2, <2>3 DEF ArmingPromise!Pump, ArmingPromise!ArmedModes
<1> QED BY <1>1, <1>2, <1>3 DEF Engagement

LEMMA NextArming ==
    ASSUME TypeInv, TypeInv', UninterruptedInv, [Next]_vars
    PROVE  [ArmingPromise!Next]_(ArmingPromise!armingVars)
<1>1. CASE ~interrupted /\ Next
  BY <1>1, NetworkArming, MainArming, EngagementArming DEF Next
<1>2. CASE interrupted /\ Next
  <2>1. interrupted' = TRUE
    BY <1>2 DEF TypeInv, TypeOK, Next, Network, Main, Engagement, Login, ProcessPreArm,
       ProcessStateChangeRequest, RequestSafe, RequestPrearmed, RequestAuto, RequestManual,
       RequestManualFlags, RequestRefused, NoteInterruption, ProcessFiringOrder, FireCommand,
       ProcessCalibCommands, FrameBegin, NotFound, GiveUp, OutOfReach, FoundStill, FoundMoved,
       Conclude, Advance, ListCompleted, NextTarget, EnterWait, WakeSpuriously, PointLaser,
       Fire, Cease
  <2>2. SystemState'.base \in ArmingPromise!Unarmed \cup ArmingPromise!ArmedModes
    BY DEF ArmingPromise!Unarmed, ArmingPromise!ArmedModes, TypeInv, TypeOK, SystemStates, Bases
  <2>3. pin17' \in BOOLEAN
    BY DEF TypeInv, TypeOK
  <2> QED BY <2>1, <2>2, <2>3 DEF ArmingPromise!Lapse, ArmingPromise!Next
<1>3. CASE UNCHANGED vars
  BY <1>3 DEF vars, pins, ArmingPromise!armingVars
<1> QED BY <1>1, <1>2, <1>3

\* The three threads together implement Arming: the base of the word and the
\* pump's pin move only as the promise allows, until an interruption ends it.
THEOREM CannonImplementsArming ==
    ASSUME SpuriousBound = 0
    PROVE  Spec => ArmingRefined
<1>1. TypeInv /\ UninterruptedInv /\ [Next]_vars => UninterruptedInv'
  BY NextUninterrupted
<1>2. TypeInv /\ TypeInv' /\ UninterruptedInv /\ [Next]_vars
        => [ArmingPromise!Next]_(ArmingPromise!armingVars)
  BY NextArming
<1> QED BY <1>1, <1>2, InitUninterrupted, InitTypeInv, NextTypeInv, InitArming, PTL
        DEF Spec, ArmingRefined, ArmingPromise!Spec

-----------------------------------------------------------------------------
(* The run that an engagement belongs to.                                    *)

Tracking == State \in {"NEW_TARGET", "LOOKING_FOR_TARGET", "TRACKING"}

\* A usable order has a target.  The index is that of an entry until the main
\* thread has found the list at its end; the target is that entry from the frame
\* that reads it until the next index; and the entries before the index, but not
\* the index before its shot, are those shot.
RunInv ==
    /\ HaveFiringOrder => NumberOfTargets > 0
    /\ ~interrupted =>
        /\ State = "ACTIVATE" => NumberOfTargets > 0 /\ lastShot < 0
        /\ State \notin {"NOT_ACTIVE", "ACTIVATE"} =>
              /\ mpc # "done" => CurrentIndex < NumberOfTargets
              /\ lastShot <= CurrentIndex
        /\ mpc = "match" \/ State \in {"LOOKING_FOR_TARGET", "TRACKING", "ENGAGEMENT_IN_PROGRESS"} =>
              Target = FiringOrder[CurrentIndex]
        /\ Tracking \/ mpc = "next" => lastShot < CurrentIndex
        /\ State = "ENGAGEMENT_IN_PROGRESS" =>
              /\ StableCount > StableFrames
              /\ epc # "cease" => lastShot < CurrentIndex

LEMMA NetworkRun ==
    ASSUME TypeInv, UninterruptedInv, RunInv, Network
    PROVE  RunInv'
<1> USE DEF RunInv, Tracking, UninterruptedInv, RunsInAutomatic, PlacesAgree, MidEngagement
<1>1. ASSUME NEW ok \in BOOLEAN, Login(ok) PROVE RunInv'
  BY <1>1 DEF Login, order, progress
<1>2. CASE ProcessPreArm
  BY <1>2 DEF ProcessPreArm, order, progress
<1>3. ASSUME NEW r \in Requests, ProcessStateChangeRequest(r) PROVE RunInv'
  <2>1. CASE RequestSafe
    BY <2>1 DEF RequestSafe, Settle, DropOrder, NoteInterruption, progress
  <2>2. CASE RequestPrearmed
    BY <2>2 DEF RequestPrearmed, Settle, DropOrder, NoteInterruption, progress
  <2>3. CASE RequestAuto
    BY <2>3 DEF RequestAuto, Settle, progress
  <2>4. CASE RequestManual \/ RequestManualFlags(r) \/ RequestRefused(r)
    BY <2>4 DEF RequestManual, RequestManualFlags, RequestRefused, Settle, progress
  <2> QED BY <1>3, <2>1, <2>2, <2>3, <2>4 DEF ProcessStateChangeRequest
<1>4. ASSUME NEW o \in Orders, ProcessFiringOrder(o) PROVE RunInv'
  <2>1. o # <<>> => Len(o) > 0
    BY OrdersAssumption
  <2>2. HaveFiringOrder' => NumberOfTargets' > 0
    BY <1>4, <2>1 DEF ProcessFiringOrder
  <2>3. State' = "NOT_ACTIVE" /\ mpc' = mpc /\ (~interrupted' => mpc = "frame")
    BY <1>4 DEF ProcessFiringOrder, NoteInterruption
  <2> QED BY <2>2, <2>3
<1>5. ASSUME NEW start \in BOOLEAN, FireCommand(start) PROVE RunInv'
  BY <1>5 DEF FireCommand, order, progress
<1>6. ASSUME NEW step \in {-1, 1}, ProcessCalibCommands(step) PROVE RunInv'
  BY <1>6 DEF ProcessCalibCommands, order, progress
<1> QED BY <1>1, <1>2, <1>3, <1>4, <1>5, <1>6 DEF Network

LEMMA MainRun ==
    ASSUME TypeInv, UninterruptedInv, RunInv, CountInv, Main
    PROVE  RunInv'
<1> USE DEF RunInv, Tracking, UninterruptedInv, RunsInAutomatic, PlacesAgree, MidEngagement
<1>0. /\ interrupted' = interrupted /\ UNCHANGED <<order, lastShot>>
      /\ lastShot \in Int /\ CurrentIndex \in Nat /\ NumberOfTargets \in Nat
  BY DEF Main, FrameBegin, NotFound, GiveUp, OutOfReach, FoundStill, FoundMoved, Conclude,
     Advance, ListCompleted, NextTarget, TypeInv, TypeOK
<1>1. CASE FrameBegin
  <2>1. CASE State = "ACTIVATE"
    BY <1>0, <1>1, <2>1 DEF FrameBegin, order
  <2>2. CASE State = "NEW_TARGET"
    BY <1>0, <1>1, <2>2 DEF FrameBegin, order
  <2>3. CASE State \in {"LOOKING_FOR_TARGET", "TRACKING"}
    BY <1>0, <1>1, <2>3 DEF FrameBegin, order
  <2> QED BY <1>1, <2>1, <2>2, <2>3 DEF FrameBegin
<1>2. ASSUME mpc = "match",
             NEW result \in {"LOOKING_FOR_TARGET", "TRACKING", "TRACKING_STABLE",
                             "ENGAGEMENT_COMPLETE"},
             Conclude(result),
             result = "TRACKING_STABLE" => StableCount' > StableFrames
      PROVE  RunInv'
  <2>1. /\ State' \in {"LOOKING_FOR_TARGET", "TRACKING", "ENGAGEMENT_IN_PROGRESS",
                       "ENGAGEMENT_COMPLETE"}
        /\ State' = "ENGAGEMENT_IN_PROGRESS" => StableCount' > StableFrames
        /\ mpc' = "frame" /\ UNCHANGED <<CurrentIndex, Target>>
    BY <1>2 DEF Conclude
  <2>2. ~interrupted => /\ State \in {"NEW_TARGET", "LOOKING_FOR_TARGET", "TRACKING"}
                        /\ lastShot < CurrentIndex /\ CurrentIndex < NumberOfTargets
    BY <1>2
  <2> QED BY <1>0, <1>2, <2>1, <2>2 DEF order
<1>3. CASE NotFound \/ GiveUp \/ OutOfReach \/ FoundMoved
  BY <1>2, <1>3 DEF NotFound, GiveUp, OutOfReach, FoundMoved
<1>4. CASE FoundStill
  <2>1. \/ Conclude("TRACKING_STABLE") /\ StableCount' > StableFrames
        \/ Conclude("TRACKING")
    BY <1>4 DEF FoundStill
  <2>2. mpc = "match"
    BY <1>4 DEF FoundStill
  <2> QED BY <1>2, <2>1, <2>2
<1>5. CASE Advance
  BY <1>0, <1>5 DEF Advance, order
<1>6. CASE ListCompleted
  BY <1>0, <1>6 DEF ListCompleted, order
<1>7. CASE NextTarget
  BY <1>0, <1>7 DEF NextTarget, order, progress
<1> QED BY <1>1, <1>3, <1>4, <1>5, <1>6, <1>7 DEF Main

LEMMA EngagementRun ==
    ASSUME TypeInv, UninterruptedInv, RunInv, Engagement
    PROVE  RunInv'
<1> USE DEF RunInv, Tracking, UninterruptedInv, PlacesAgree, Awake
<1>0. lastShot \in Int /\ CurrentIndex \in Nat
  BY DEF TypeInv, TypeOK
<1>1. CASE EnterWait \/ WakeSpuriously \/ PointLaser
  BY <1>1 DEF EnterWait, WakeSpuriously, PointLaser, order, progress
<1>2. CASE Fire
  BY <1>0, <1>2 DEF Fire, order, progress
<1>3. CASE Cease
  BY <1>0, <1>3 DEF Cease, order, progress
<1> QED BY <1>1, <1>2, <1>3 DEF Engagement

LEMMA NextRun ==
    ASSUME TypeInv, UninterruptedInv, RunInv, CountInv, [Next]_vars
    PROVE  RunInv'
<1>1. CASE UNCHANGED vars
  BY <1>1 DEF vars, order, progress, RunInv, Tracking
<1> QED BY <1>1, NetworkRun, MainRun, EngagementRun DEF Next

LEMMA SpecRun ==
    ASSUME SpuriousBound = 0
    PROVE  Spec => [](TypeInv /\ UninterruptedInv /\ RunInv)
<1>1. Init => CountInv /\ RunInv
  BY DEF Init, CountInv, NoCountSurvives, StableFrames, RunInv, Tracking
<1>2. TypeInv /\ UninterruptedInv /\ [Next]_vars => UninterruptedInv'
  BY NextUninterrupted
<1>3. TypeInv /\ CountInv /\ [Next]_vars => CountInv'
  BY NextCountInv
<1>4. TypeInv /\ UninterruptedInv /\ RunInv /\ CountInv /\ [Next]_vars => RunInv'
  BY NextRun
<1> QED BY <1>1, <1>2, <1>3, <1>4, InitUninterrupted, InitTypeInv, NextTypeInv, PTL DEF Spec

\* Until an interruption an engagement thread at work serves the run it was
\* signalled for: automatic, with the main thread waiting, for the order's current
\* entry, after enough stable frames.
THEOREM EngagementServes ==
    ASSUME SpuriousBound = 0
    PROVE  Spec => []EngagementServesItsRun
<1>1. TypeInv /\ UninterruptedInv /\ RunInv => EngagementServesItsRun
  BY DEF TypeInv, TypeOK, UninterruptedInv, RunsInAutomatic, PlacesAgree, MidEngagement, RunInv,
     EngagementServesItsRun
<1> QED BY <1>1, SpecRun, PTL

\* Until an interruption the shots of a run are for ever later entries of its order.
THEOREM ShotsInOrder ==
    ASSUME SpuriousBound = 0
    PROVE  Spec => ShotsFollowTheOrder
<1>1. TypeInv /\ UninterruptedInv /\ RunInv
        => [Fire /\ ~interrupted => CurrentIndex > lastShot /\ CurrentIndex < NumberOfTargets]_vars
  BY DEF TypeInv, TypeOK, UninterruptedInv, RunsInAutomatic, PlacesAgree, MidEngagement, Awake, RunInv, Fire
<1> QED BY <1>1, SpecRun, PTL DEF ShotsFollowTheOrder
=============================================================================
