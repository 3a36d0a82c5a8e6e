---------------------------- MODULE ConsoleProofs ----------------------------
(* Theorems about Console, for every value of its constants.                 *)
EXTENDS Console, CannonProofs

-----------------------------------------------------------------------------
(* The invariant.                                                            *)

Threads == {"network", "main", "engagement"}

Messages == [kind : {"MT_STATE_CHANGE_REQ"}, word : SystemStates]
            \cup {PreArmCode, TargetOrder}
            \cup [kind : {"MT_COMMANDS"}, start : BOOLEAN]

LinkTypes ==
    /\ requests \in Seq(Messages)
    /\ waiting \in Seq([by : Threads, word : SystemStates])
    /\ reports \in Seq(SystemStates)

OneEach == \A i, j \in DOMAIN waiting : waiting[i].by = waiting[j].by => i = j

ConsoleTypeInv ==
    /\ TypeInv
    /\ LinkTypes /\ OneEach
    /\ copy \in SystemStates
    /\ offered \subseteq Boxes /\ ticked \subseteq Boxes
    /\ clicks \in Nat
    /\ stoodDown \in BOOLEAN /\ overtaken \in BOOLEAN /\ overruled \in BOOLEAN

\* An unarmed word has no flag.
Plain(w) == w.base \in {"SAFE", "PREARMED"} => w.flags = {}

\* Until an interruption the flag is the pump, unless a request overruled it.
WordInv ==
    ~interrupted =>
        /\ Plain(SystemState)
        /\ ~overruled => ("FIRING" \in SystemState.flags <=> pin17)

\* A state that is shown, or will be when what is on its way has arrived.
LastShown == IF reports = <<>> THEN copy ELSE reports[Len(reports)]
Newest == IF waiting = <<>> THEN LastShown ELSE waiting[Len(waiting)].word

\* A state change is asked for; whatever becomes of it, it will be reported.
Asked == \E i \in DOMAIN requests : requests[i].kind = "MT_STATE_CHANGE_REQ"

\* The newest report is of the state there is.  A copy the window has changed
\* itself is of its mode, and is asked for.
NewestInv ==
    ~overtaken =>
        /\ Newest.base = SystemState.base
        /\ Asked \/ Newest = SystemState

\* What may be reported next after the word v.
Follows(v, w) ==
    /\ Plain(w)
    /\ w.base = "ENGAGE_AUTO" => v.base \in {"PREARMED", "ENGAGE_AUTO"}
    /\ w.base = "ARMED_MANUAL" => v.base \in {"PREARMED", "ARMED_MANUAL"}

ReportsFollow ==
    /\ \A i \in 1 .. Len(reports) - 1 : Follows(reports[i], reports[i + 1])
    /\ reports # <<>> => Follows(copy, reports[1])

WaitingFollow ==
    /\ \A i \in 1 .. Len(waiting) - 1 : Follows(waiting[i].word, waiting[i + 1].word)
    /\ waiting # <<>> => Follows(LastShown, waiting[1].word)

\* The boxes are those of the copy, except that a calibration box just clicked
\* off stays ticked until the report.
BoxesAgree ==
    /\ offered = ModeBoxes(copy.base)
    /\ "manual" \in ticked <=> copy.base = "ARMED_MANUAL"
    /\ "auto" \in ticked <=> copy.base = "ENGAGE_AUTO"
    /\ "laser" \in ticked <=> "LASER_ON" \in copy.flags
    /\ \/ "calib" \in ticked <=> "CALIB_ON" \in copy.flags
       \/ Asked \/ reports # <<>> \/ waiting # <<>>

ShownInv ==
    ~overtaken /\ ~interrupted => ReportsFollow /\ WaitingFollow /\ BoxesAgree

SafeRequest == StateRequest(Only("SAFE"))

\* Every pre-arm code on its way has a SAFE request behind it.
CodesOvertaken(s) ==
    \A i \in DOMAIN s : s[i] = PreArmCode => \E j \in DOMAIN s : j > i /\ s[j] = SafeRequest

SafeInv == stoodDown => CodesOvertaken(requests)

ConsoleInv == UninterruptedInv /\ WordInv /\ NewestInv /\ ShownInv /\ SafeInv

-----------------------------------------------------------------------------
(* What the server's steps do to the word.                                   *)

\* A step of the server but a request's.
OwnStep ==
    \/ UNCHANGED vars \/ Login(TRUE)
    \/ ProcessPreArm \/ ProcessFiringOrder(EngagementOrder)
    \/ \E start \in BOOLEAN : FireCommand(start)
    \/ Main \/ EnterWait \/ PointLaser \/ Fire \/ Cease

Move == OwnStep \/ \E r \in SystemStates : ProcessStateChangeRequest(r)

LEMMA OwnStepIsNext == OwnStep => [Next]_vars
BY EngagementOrderAssumption DEF OwnStep, Next, Network, Engagement

LEMMA MoveTypeInv ==
    ASSUME TypeInv, Move
    PROVE  TypeInv'
<1>1. CASE OwnStep
  BY <1>1, OwnStepIsNext, NextTypeInv
<1>2. ASSUME NEW r \in SystemStates, ProcessStateChangeRequest(r) PROVE TypeInv'
  <2>1. r \in RequestWords
    BY DEF SystemStates, RequestWords, Bases
  <2> QED BY <1>2, <2>1, RequestTypeInv
<1> QED BY <1>1, <1>2 DEF Move

LEMMA MoveInterrupts ==
    ASSUME Move, interrupted
    PROVE  interrupted'
BY DEF Move, OwnStep, Main, Login, ProcessPreArm, ProcessStateChangeRequest, RequestSafe,
   RequestPrearmed, RequestAuto, RequestManual, RequestManualFlags, RequestRefused,
   NoteInterruption, ProcessFiringOrder, FireCommand, FrameBegin, NotFound, GiveUp, OutOfReach,
   FoundStill, FoundMoved, Conclude, Advance, ListCompleted, NextTarget, EnterWait, PointLaser,
   Fire, Cease, vars

LEMMA MoveUninterrupted ==
    ASSUME TypeInv, UninterruptedInv, Move
    PROVE  UninterruptedInv'
<1>1. CASE interrupted'
  BY <1>1 DEF UninterruptedInv
<1> SUFFICES ASSUME ~interrupted' PROVE UninterruptedInv'
  BY <1>1
<1>2. CASE UNCHANGED vars
  BY <1>2 DEF vars, pins, calibration, UninterruptedInv, RunsInAutomatic, PlacesAgree,
     OutputsAgree, FirePinOnlyWhenArmed, LaserPinIsItsFlag, CalibrationRemembered, MidEngagement, Awake
<1>3. CASE Network
  BY <1>3, NetworkUninterrupted
<1>4. ASSUME NEW r \in SystemStates, ProcessStateChangeRequest(r) PROVE UninterruptedInv'
  BY <1>4, RequestUninterrupted
<1>5. CASE Main
  BY <1>5, MainUninterrupted
<1>6. CASE EnterWait \/ PointLaser \/ Fire \/ Cease
  BY <1>6, EngagementUninterrupted
<1> QED BY <1>2, <1>3, <1>4, <1>5, <1>6, EngagementOrderAssumption DEF Move, OwnStep, Network

\* Until an interruption the word follows itself as the reports shall, whatever
\* happens; its base is that of a request only in manual.
LEMMA RequestFollows ==
    ASSUME TypeInv, Plain(SystemState), NEW r \in SystemStates, ProcessStateChangeRequest(r)
    PROVE  Follows(SystemState, SystemState')
<1> USE DEF Follows, Plain
<1>1. CASE RequestSafe
  BY <1>1 DEF RequestSafe, Settle, Only
<1>2. CASE RequestPrearmed
  BY <1>2 DEF RequestPrearmed, Settle, Only
<1>3. CASE RequestAuto
  BY <1>3 DEF RequestAuto, Settle, Only
<1>4. CASE RequestManual
  BY <1>4 DEF RequestManual, Settle, Only
<1>5. CASE r.base = "ARMED_MANUAL" /\ RequestManualFlags(r)
  BY <1>5 DEF RequestManualFlags, Settle
<1>6. CASE RequestRefused(r)
  <2>1. SystemState' = SystemState
    BY <1>6 DEF RequestRefused, Settle
  <2> QED BY <2>1 DEF TypeInv, TypeOK, SystemStates, Bases
<1> QED BY <1>1, <1>2, <1>3, <1>4, <1>5, <1>6 DEF ProcessStateChangeRequest

\* The other steps keep an armed base; ListCompleted disarms.
LEMMA OwnStepFollows ==
    ASSUME TypeInv, UninterruptedInv, ~interrupted, Plain(SystemState), OwnStep
    PROVE  Follows(SystemState, SystemState')
<1> USE DEF Follows, Plain
<1>0. SystemState' = SystemState => Follows(SystemState, SystemState')
  BY DEF TypeInv, TypeOK, SystemStates, Bases
<1>1. ASSUME SystemState.base \in {"ENGAGE_AUTO", "ARMED_MANUAL"},
             SystemState'.base = SystemState.base
      PROVE  Follows(SystemState, SystemState')
  BY <1>1
<1>2. CASE UNCHANGED vars \/ Login(TRUE) \/ ProcessFiringOrder(EngagementOrder) \/ EnterWait
  BY <1>0, <1>2 DEF vars, Login, ProcessFiringOrder, EnterWait
<1>3. CASE ProcessPreArm
  BY <1>3 DEF ProcessPreArm, Only
<1>4. ASSUME NEW start \in BOOLEAN, FireCommand(start) PROVE Follows(SystemState, SystemState')
  <2>1. SystemState'.base = SystemState.base /\ SystemState.base = "ARMED_MANUAL"
    BY <1>4 DEF FireCommand, FireOn, FirePermitted, WithFlag, WithoutFlags, TypeInv, TypeOK,
       SystemStates
  <2> QED BY <1>1, <2>1
<1>5. CASE FrameBegin \/ Advance \/ NextTarget
  BY <1>0, <1>5 DEF FrameBegin, Advance, NextTarget
<1>6. ASSUME NEW result, mpc = "match", Conclude(result)
      PROVE  Follows(SystemState, SystemState')
  <2>1. SystemState.base = "ENGAGE_AUTO"
    BY <1>6 DEF UninterruptedInv, RunsInAutomatic, MidEngagement
  <2>2. SystemState'.base = SystemState.base
    BY <1>6 DEF Conclude, WithFlag, WithoutFlags, TypeInv, TypeOK, SystemStates
  <2> QED BY <1>1, <2>1, <2>2
<1>7. CASE NotFound \/ GiveUp \/ OutOfReach \/ FoundStill \/ FoundMoved
  BY <1>6, <1>7 DEF NotFound, GiveUp, OutOfReach, FoundStill, FoundMoved
<1>8. CASE ListCompleted
  BY <1>8 DEF ListCompleted, Only
<1>9. CASE PointLaser \/ Fire \/ Cease
  <2>1. SystemState.base = "ENGAGE_AUTO"
    BY <1>9 DEF PointLaser, Fire, Cease, UninterruptedInv, RunsInAutomatic, MidEngagement, Awake
  <2>2. SystemState'.base = SystemState.base
    BY <1>9, <2>1 DEF PointLaser, Fire, Cease, FireOn, FirePermitted, WithFlag, WithoutFlags,
       TypeInv, TypeOK, SystemStates
  <2> QED BY <1>1, <2>1, <2>2
<1> QED BY <1>2, <1>3, <1>4, <1>5, <1>7, <1>8, <1>9 DEF OwnStep, Main

LEMMA MoveFollows ==
    ASSUME TypeInv, UninterruptedInv, WordInv, Move, ~interrupted'
    PROVE  ~interrupted /\ Follows(SystemState, SystemState')
<1>1. ~interrupted
  BY MoveInterrupts
<1> QED BY <1>1, RequestFollows, OwnStepFollows DEF Move, WordInv

\* SAFE is left by the pre-arm code, or late.
LEMMA SafeStays ==
    ASSUME TypeInv, UninterruptedInv, Move, ~ProcessPreArm, SystemState.base = "SAFE"
    PROVE  SystemState'.base = "SAFE" \/ LateAssignment
<1>1. ~interrupted => mpc = "frame" /\ epc \notin Awake
  BY DEF UninterruptedInv, RunsInAutomatic, MidEngagement
<1>2. \/ UNCHANGED vars \/ Login(TRUE) \/ ProcessFiringOrder(EngagementOrder)
      \/ \E start \in BOOLEAN : FireCommand(start)
      \/ FrameBegin \/ Advance \/ NextTarget \/ EnterWait
      => SystemState'.base = "SAFE"
  BY DEF vars, Login, ProcessFiringOrder, FireCommand, FrameBegin, Advance, NextTarget, EnterWait
<1>3. ASSUME NEW result, Conclude(result) PROVE SystemState'.base = "SAFE"
  BY <1>3 DEF Conclude, WithFlag, WithoutFlags, TypeInv, TypeOK, SystemStates
<1>4. NotFound \/ GiveUp \/ OutOfReach \/ FoundStill \/ FoundMoved => SystemState'.base = "SAFE"
  BY <1>3 DEF NotFound, GiveUp, OutOfReach, FoundStill, FoundMoved
<1>5. ListCompleted => LateAssignment
  BY <1>1 DEF ListCompleted, LateAssignment
<1>6. Fire => LateAssignment
  BY <1>1 DEF Fire, FireOn, FirePermitted, LateAssignment, Awake
<1>7. PointLaser \/ Cease => SystemState'.base = "SAFE"
  BY DEF PointLaser, Cease, WithFlag, WithoutFlags, TypeInv, TypeOK, SystemStates
<1>8. ASSUME NEW r \in SystemStates, ProcessStateChangeRequest(r)
      PROVE  SystemState'.base = "SAFE"
  BY <1>8 DEF ProcessStateChangeRequest, RequestSafe, RequestPrearmed, RequestAuto, RequestManual,
     RequestManualFlags, RequestRefused, Settle, Only
<1> QED BY <1>2, <1>4, <1>5, <1>6, <1>7, <1>8 DEF Move, OwnStep, Main

-----------------------------------------------------------------------------
(* The flag FIRING and the pump.                                             *)

FiringAgrees == "FIRING" \in SystemState.flags <=> pin17

LEMMA RequestFiring ==
    ASSUME TypeInv, FiringAgrees, NEW r \in SystemStates, ProcessStateChangeRequest(r),
           r.base = "ARMED_MANUAL" /\ SystemState.base = "ARMED_MANUAL" =>
               ("FIRING" \in r.flags <=> "FIRING" \in SystemState.flags)
    PROVE  FiringAgrees'
<1> USE DEF FiringAgrees
<1>1. CASE RequestSafe \/ RequestPrearmed \/ RequestAuto \/ RequestManual
  BY <1>1 DEF RequestSafe, RequestPrearmed, RequestAuto, RequestManual, Settle, Only
<1>2. CASE r.base = "ARMED_MANUAL" /\ RequestManualFlags(r)
  BY <1>2 DEF RequestManualFlags, Settle
<1>3. CASE RequestRefused(r)
  BY <1>3 DEF RequestRefused, Settle
<1> QED BY <1>1, <1>2, <1>3 DEF ProcessStateChangeRequest

LEMMA OwnStepFiring ==
    ASSUME TypeInv, UninterruptedInv, ~interrupted, FiringAgrees, OwnStep
    PROVE  FiringAgrees'
<1> USE DEF FiringAgrees
<1>1. CASE UNCHANGED vars \/ Login(TRUE) \/ ProcessFiringOrder(EngagementOrder) \/ EnterWait
           \/ FrameBegin \/ Advance \/ NextTarget
  BY <1>1 DEF vars, Login, ProcessFiringOrder, EnterWait, FrameBegin, Advance, NextTarget, pins
<1>2. CASE ProcessPreArm
  BY <1>2 DEF ProcessPreArm, Only, pins
<1>3. CASE FireOn /\ FirePermitted(SystemState)
  BY <1>3 DEF FireOn, WithFlag, TypeInv, TypeOK, SystemStates
<1>4. ASSUME NEW start \in BOOLEAN, FireCommand(start) PROVE FiringAgrees'
  BY <1>3, <1>4 DEF FireCommand, FirePermitted, WithoutFlags, TypeInv, TypeOK, SystemStates
<1>5. ASSUME NEW result, Conclude(result) PROVE FiringAgrees'
  BY <1>5 DEF Conclude, WithFlag, WithoutFlags, pins, TypeInv, TypeOK, SystemStates
<1>6. CASE NotFound \/ GiveUp \/ OutOfReach \/ FoundStill \/ FoundMoved
  BY <1>5, <1>6 DEF NotFound, GiveUp, OutOfReach, FoundStill, FoundMoved
<1>7. CASE ListCompleted
  <2>1. ~pin17
    BY <1>7 DEF ListCompleted, UninterruptedInv, RunsInAutomatic, PlacesAgree, OutputsAgree,
       FirePinOnlyWhenArmed, MidEngagement, Awake
  <2> QED BY <1>7, <2>1 DEF ListCompleted, Only, pins
<1>8. CASE PointLaser
  BY <1>8 DEF PointLaser, WithFlag, TypeInv, TypeOK, SystemStates
<1>9. CASE Fire
  <2>1. FirePermitted(SystemState)
    BY <1>9 DEF Fire, FirePermitted, UninterruptedInv, RunsInAutomatic, MidEngagement, Awake
  <2> QED BY <1>3, <1>9, <2>1 DEF Fire
<1>10. CASE Cease
  BY <1>10 DEF Cease, WithoutFlags, TypeInv, TypeOK, SystemStates
<1> QED BY <1>1, <1>2, <1>4, <1>6, <1>7, <1>8, <1>9, <1>10 DEF OwnStep, Main

-----------------------------------------------------------------------------
(* Sequences.                                                                *)

LEMMA TailOf ==
    ASSUME NEW S, NEW s \in Seq(S), s # <<>>
    PROVE  /\ Len(s) \in Nat \ {0} /\ Head(s) = s[1] /\ Head(s) \in S
           /\ Tail(s) \in Seq(S) /\ Len(Tail(s)) = Len(s) - 1
           /\ \A i \in 1 .. Len(s) - 1 : Tail(s)[i] = s[i + 1]
OBVIOUS

LEMMA AppendOf ==
    ASSUME NEW S, NEW s \in Seq(S), NEW e \in S
    PROVE  /\ Append(s, e) \in Seq(S) /\ Len(Append(s, e)) = Len(s) + 1 /\ Len(s) \in Nat
           /\ Append(s, e)[Len(s) + 1] = e
           /\ \A i \in 1 .. Len(s) : Append(s, e)[i] = s[i]
OBVIOUS

LEMMA ConcatOf ==
    ASSUME NEW S, NEW s \in Seq(S), NEW t \in Seq(S)
    PROVE  /\ s \o t \in Seq(S) /\ Len(s \o t) = Len(s) + Len(t)
           /\ \A k \in 1 .. Len(s) + Len(t) :
                 (s \o t)[k] = IF k <= Len(s) THEN s[k] ELSE t[k - Len(s)]
OBVIOUS

LEMMA RemoveAtOf ==
    ASSUME NEW S, NEW s \in Seq(S), NEW i \in DOMAIN s
    PROVE  /\ RemoveAt(s, i) \in Seq(S) /\ Len(RemoveAt(s, i)) = Len(s) - 1
           /\ \A k \in 1 .. Len(s) - 1 : RemoveAt(s, i)[k] = IF k < i THEN s[k] ELSE s[k + 1]
<1> DEFINE front == SubSeq(s, 1, i - 1)
           back == SubSeq(s, i + 1, Len(s))
<1>1. Len(s) \in Nat /\ i \in 1 .. Len(s)
  OBVIOUS
<1>2. /\ front \in Seq(S) /\ Len(front) = i - 1
      /\ \A k \in 1 .. i - 1 : front[k] = s[k]
  BY <1>1
<1>3. /\ back \in Seq(S) /\ Len(back) = Len(s) - i
      /\ \A k \in 1 .. Len(s) - i : back[k] = s[k + i]
  BY <1>1
<1>4. RemoveAt(s, i) = front \o back
  BY DEF RemoveAt
<1> HIDE DEF front, back
<1>5. /\ front \o back \in Seq(S) /\ Len(front \o back) = Len(front) + Len(back)
      /\ \A k \in 1 .. Len(front) + Len(back) :
            (front \o back)[k] = IF k <= Len(front) THEN front[k] ELSE back[k - Len(front)]
  BY <1>2, <1>3, ConcatOf, Zenon
<1>6. ASSUME NEW k \in 1 .. Len(s) - 1
      PROVE  (front \o back)[k] = IF k < i THEN s[k] ELSE s[k + 1]
  <2>1. CASE k < i
    BY <1>1, <1>2, <1>3, <1>5, <2>1
  <2>2. CASE ~(k < i)
    <3> DEFINE j == k - Len(front)
    <3>1. j \in 1 .. Len(s) - i /\ j + i = k + 1
      BY <1>1, <1>2, <2>2
    <3>2. (front \o back)[k] = back[j]
      <4>1. k \in 1 .. Len(front) + Len(back)
        BY <1>1, <1>2, <1>3
      <4>2. ~(k <= Len(front))
        BY <1>1, <1>2, <2>2
      <4> QED BY <1>5, <4>1, <4>2
    <3> HIDE DEF j
    <3>3. back[j] = s[j + i]
      BY <1>3, <3>1
    <3>4. s[j + i] = s[k + 1]
      BY <3>1
    <3> QED BY <2>2, <3>2, <3>3, <3>4
  <2> QED BY <2>1, <2>2
<1>7. Len(front \o back) = Len(s) - 1
  BY <1>1, <1>2, <1>3, <1>5
<1> QED BY <1>4, <1>5, <1>6, <1>7

\* What a click sends is behind what was sent before.
LEMMA SentBehind ==
    ASSUME NEW S, NEW s \in Seq(S), NEW t \in Seq(S)
    PROVE  /\ s \o t \in Seq(S) /\ Len(s \o t) = Len(s) + Len(t)
           /\ Len(s) \in Nat /\ Len(t) \in Nat
           /\ \A i \in 1 .. Len(s) : (s \o t)[i] = s[i]
           /\ \A i \in 1 .. Len(t) : (s \o t)[Len(s) + i] = t[i]
<1>1. s \o t \in Seq(S) /\ Len(s \o t) = Len(s) + Len(t) /\ Len(s) \in Nat /\ Len(t) \in Nat
  OBVIOUS
<1>2. \A i \in 1 .. Len(s) + Len(t) :
         (s \o t)[i] = IF i <= Len(s) THEN s[i] ELSE t[i - Len(s)]
  OBVIOUS
<1>3. \A i \in 1 .. Len(s) : (s \o t)[i] = s[i]
  BY <1>1, <1>2
<1>4. \A i \in 1 .. Len(t) : (s \o t)[Len(s) + i] = t[i]
  BY <1>1, <1>2
<1> QED BY <1>1, <1>3, <1>4

-----------------------------------------------------------------------------
(* Steps of the window and of the server.                                    *)

LEMMA MessageKinds ==
    ASSUME NEW m \in Messages
    PROVE  /\ m.kind \in {"MT_STATE_CHANGE_REQ", "MT_PREARM", "MT_TARGET_SEQUENCE", "MT_COMMANDS"}
           /\ m.kind = "MT_STATE_CHANGE_REQ" => m.word \in SystemStates
           /\ m.kind = "MT_COMMANDS" => m.start \in BOOLEAN
           /\ m.kind = "MT_PREARM" <=> m = PreArmCode
BY DEF Messages, PreArmCode, TargetOrder

LEMMA MessagesSent ==
    /\ \A w \in SystemStates : StateRequest(w) \in Messages
    /\ PreArmCode \in Messages /\ TargetOrder \in Messages
    /\ \A start \in BOOLEAN : FireCode(start) \in Messages
BY DEF Messages, StateRequest, FireCode

\* A thread's report is of the word it leaves, or it leaves the word alone.
Reported == \E t \in Threads : Free(t) /\ Report(t)
Unreported == UNCHANGED waiting /\ UNCHANGED SystemState

LEMMA PreArmBase ==
    ProcessPreArm => /\ SystemState.base = "SAFE" /\ SystemState'.base = "PREARMED"
                     /\ UNCHANGED <<mpc, epc>>
BY DEF ProcessPreArm, Only

LEMMA NetworkReports ==
    ASSUME ConsoleTypeInv, NetworkStep
    PROVE  /\ Head(requests) \in Messages
           /\ Move /\ (Reported \/ Unreported)
           /\ Head(requests).kind = "MT_STATE_CHANGE_REQ" =>
                 Reported /\ ProcessStateChangeRequest(Head(requests).word)
           /\ Head(requests).kind # "MT_STATE_CHANGE_REQ" => OwnStep
           /\ Head(requests).kind # "MT_PREARM" => UNCHANGED vars \/ ~ProcessPreArm
<1> DEFINE m == Head(requests)
<1>1. m \in Messages /\ Free("network") /\ Receive(m)
  BY TailOf DEF ConsoleTypeInv, LinkTypes, NetworkStep
<1> HIDE DEF m
<1>2. CASE m.kind = "MT_PREARM"
  <2>1. \/ ProcessPreArm /\ Report("network")
        \/ UNCHANGED vars /\ UNCHANGED waiting
    BY <1>1, <1>2 DEF Receive
  <2>2. OwnStep /\ (Reported \/ Unreported)
    BY <1>1, <2>1 DEF OwnStep, Reported, Unreported, Threads, vars
  <2> QED BY <1>1, <1>2, <2>2 DEF Move, m
<1>3. CASE m.kind = "MT_STATE_CHANGE_REQ"
  <2>1. ProcessStateChangeRequest(m.word) /\ Report("network") /\ m.word \in SystemStates
    BY <1>1, <1>3, MessageKinds DEF Receive
  <2>2. Move /\ Reported
    BY <1>1, <2>1 DEF Move, Reported, Threads
  <2>3. ~ProcessPreArm
    <3>1. SystemState.base = "SAFE" => SystemState'.base = "SAFE"
      BY <2>1 DEF ProcessStateChangeRequest, RequestSafe, RequestPrearmed, RequestAuto,
         RequestManual, RequestManualFlags, RequestRefused, Settle, Only
    <3> QED BY <3>1, PreArmBase
  <2> QED BY <1>1, <1>3, <2>1, <2>2, <2>3 DEF m
<1>4. CASE m.kind = "MT_TARGET_SEQUENCE"
  <2>1. ProcessFiringOrder(EngagementOrder) /\ UNCHANGED waiting
    BY <1>1, <1>4 DEF Receive
  <2>2. OwnStep /\ Unreported /\ ~ProcessPreArm
    BY <2>1, PreArmBase DEF OwnStep, Unreported, ProcessFiringOrder
  <2> QED BY <1>1, <1>4, <2>2 DEF Move, m
<1>5. CASE m.kind = "MT_COMMANDS"
  <2>1. \/ FireCommand(m.start) /\ Report("network")
        \/ UNCHANGED vars /\ UNCHANGED waiting
    BY <1>1, <1>5 DEF Receive
  <2>2. m.start \in BOOLEAN
    BY <1>1, <1>5, MessageKinds
  <2>3. OwnStep /\ (Reported \/ Unreported)
    BY <1>1, <2>1, <2>2 DEF OwnStep, Reported, Unreported, Threads, vars
  <2>4. UNCHANGED vars \/ ~ProcessPreArm
    BY <2>1, PreArmBase DEF FireCommand
  <2> QED BY <1>1, <1>5, <2>3, <2>4 DEF Move, m
<1> QED BY <1>1, <1>2, <1>3, <1>4, <1>5, MessageKinds

LEMMA MainReports ==
    ASSUME ConsoleTypeInv, MainStep
    PROVE  OwnStep /\ (Reported \/ Unreported)
<1>1. CASE Outcome
  <2>1. PICK result \in {"LOOKING_FOR_TARGET", "TRACKING", "TRACKING_STABLE", "ENGAGEMENT_COMPLETE"} :
           Conclude(result)
    BY <1>1 DEF Outcome, NotFound, GiveUp, OutOfReach, FoundStill, FoundMoved
  <2>2. ~(State' \in {"LOOKING_FOR_TARGET", "TRACKING"} /\ (newState \/ State' # State))
           => UNCHANGED SystemState
    BY <2>1 DEF Conclude
  <2>3. Report("main") \/ Unreported
    BY <1>1, <2>2 DEF Outcome, Unreported
  <2> QED BY <1>1, <2>3 DEF Outcome, MainStep, OwnStep, Main, Reported, Threads
<1>2. CASE ListCompleted /\ Report("main")
  BY <1>2 DEF MainStep, OwnStep, Main, Reported, Threads
<1>3. CASE (FrameBegin \/ Advance \/ NextTarget) /\ UNCHANGED waiting
  BY <1>3 DEF OwnStep, Main, Unreported, FrameBegin, Advance, NextTarget
<1> QED BY <1>1, <1>2, <1>3 DEF MainStep

LEMMA EngagementReports ==
    ASSUME EngagementStep
    PROVE  OwnStep /\ (Reported \/ Unreported)
BY DEF EngagementStep, OwnStep, EnterWait, Reported, Unreported, Threads

LEMMA ServerReports ==
    ASSUME ConsoleTypeInv, Server
    PROVE  /\ Move /\ (Reported \/ Unreported)
           /\ UNCHANGED <<copy, offered, ticked, reports, clicks, stoodDown, overtaken>>
           /\ ~NetworkStep => UNCHANGED <<requests, overruled>> /\ OwnStep /\ ~ProcessPreArm
<1>1. UNCHANGED <<copy, offered, ticked, reports, clicks, stoodDown, overtaken>>
  BY DEF Server, window
<1>2. CASE NetworkStep
  BY <1>1, <1>2, NetworkReports
<1>3. CASE MainStep
  <2>1. ~ProcessPreArm
    BY <1>3, PreArmBase DEF MainStep, Outcome, NotFound, GiveUp, OutOfReach, FoundStill,
       FoundMoved, Conclude, ListCompleted, FrameBegin, Advance, NextTarget
  <2> QED BY <1>1, <1>3, <2>1, MainReports DEF MainStep, Move
<1>4. CASE EngagementStep
  <2>1. ~ProcessPreArm
    BY <1>4, PreArmBase DEF EngagementStep, EnterWait, PointLaser, Fire, Cease
  <2> QED BY <1>1, <1>4, <2>1, EngagementReports DEF EngagementStep, Move
<1> QED BY <1>2, <1>3, <1>4 DEF Server

\* The operator uses a control.
Click ==
    \/ PreArmOrSafe \/ ArmedManualBox \/ AutoEngageBox
    \/ LaserBox \/ CalibrateBox \/ \E down \in BOOLEAN : FireKey(down)

\* A control sends messages, and may change the copy's flags and the ticks.
Clicked(ms) ==
    /\ ms \in Seq(Messages)
    /\ SendAll(ms)
    /\ \/ UNCHANGED window
       \/ \E i \in DOMAIN ms : ms[i].kind = "MT_STATE_CHANGE_REQ"
    /\ \/ stoodDown' = FALSE
       \/ stoodDown' = TRUE /\ ms = <<StateRequest(Only("SAFE"))>>
       \/ stoodDown' = stoodDown /\ \A i \in DOMAIN ms : ms[i] # PreArmCode

LEMMA ClickSends ==
    ASSUME ConsoleTypeInv, Click
    PROVE  /\ \E ms : Clicked(ms)
           /\ copy' \in SystemStates /\ copy'.base = copy.base
           /\ offered' = offered /\ ticked' \subseteq Boxes
           /\ stoodDown' \in BOOLEAN
<1>1. ASSUME NEW m \in Messages, SendAll(<<m>>),
             UNCHANGED window \/ m.kind = "MT_STATE_CHANGE_REQ",
             \/ stoodDown' = FALSE
             \/ stoodDown' = TRUE /\ m = StateRequest(Only("SAFE"))
             \/ stoodDown' = stoodDown /\ m # PreArmCode
      PROVE  \E ms : Clicked(ms)
  <2>1. <<m>> \in Seq(Messages) /\ DOMAIN <<m>> = {1} /\ <<m>>[1] = m
    OBVIOUS
  <2>2. Clicked(<<m>>)
    BY <1>1, <2>1 DEF Clicked
  <2> QED BY <2>2
<1>2. \A b \in Bases : Only(b) \in SystemStates
  BY WordOperators
<1>3. \A w : StateRequest(w).kind = "MT_STATE_CHANGE_REQ" /\ StateRequest(w) # PreArmCode
  BY DEF StateRequest, PreArmCode
<1>4. UNCHANGED window => /\ copy' \in SystemStates /\ copy'.base = copy.base
                          /\ offered' = offered /\ ticked' \subseteq Boxes
  BY DEF window, ConsoleTypeInv
<1>5. stoodDown \in BOOLEAN
  BY DEF ConsoleTypeInv
<1>6. CASE PreArmOrSafe
  <2>1. \/ SendAll(<<PreArmCode>>) /\ stoodDown' = FALSE
        \/ SendAll(<<StateRequest(Only("SAFE"))>>) /\ stoodDown' = TRUE
    BY <1>6 DEF PreArmOrSafe
  <2>2. StateRequest(Only("SAFE")) \in Messages /\ PreArmCode \in Messages
    BY <1>2, MessagesSent DEF Bases
  <2> QED BY <1>1, <1>4, <1>6, <2>1, <2>2 DEF PreArmOrSafe
<1>7. CASE ArmedManualBox
  <2> DEFINE w == Only(IF "manual" \in ticked THEN "PREARMED" ELSE "ARMED_MANUAL")
  <2>1. w \in SystemStates
    BY <1>2 DEF Bases
  <2>2. SendAll(<<StateRequest(w)>>) /\ UNCHANGED <<window, stoodDown>>
    BY <1>7 DEF ArmedManualBox
  <2> HIDE DEF w
  <2> QED BY <1>1, <1>3, <1>4, <1>5, <2>1, <2>2, MessagesSent
<1>8. CASE AutoEngageBox
  <2>1. CASE "auto" \in ticked
    <3>1. SendAll(<<StateRequest(Only("PREARMED"))>>) /\ UNCHANGED <<window, stoodDown>>
      BY <1>8, <2>1 DEF AutoEngageBox
    <3>2. StateRequest(Only("PREARMED")) \in Messages
      BY <1>2, MessagesSent DEF Bases
    <3> QED BY <1>1, <1>3, <1>4, <1>5, <3>1, <3>2
  <2>2. CASE "auto" \notin ticked
    <3> DEFINE m == StateRequest(Only("ENGAGE_AUTO"))
    <3>1. SendAll(<<TargetOrder, m>>) /\ UNCHANGED <<window, stoodDown>>
      BY <1>8, <2>2 DEF AutoEngageBox
    <3>2. m \in Messages /\ m # PreArmCode
      BY <1>2, <1>3, MessagesSent DEF Bases
    <3>3. TargetOrder \in Messages /\ TargetOrder # PreArmCode
      BY MessagesSent DEF TargetOrder, PreArmCode
    <3> HIDE DEF m
    <3>4. /\ <<TargetOrder, m>> \in Seq(Messages) /\ DOMAIN <<TargetOrder, m>> = {1, 2}
          /\ <<TargetOrder, m>>[1] = TargetOrder /\ <<TargetOrder, m>>[2] = m
      BY <3>2, <3>3
    <3>5. Clicked(<<TargetOrder, m>>)
      BY <3>1, <3>2, <3>3, <3>4 DEF Clicked
    <3> QED BY <1>4, <1>5, <3>1, <3>5
  <2> QED BY <2>1, <2>2
<1>9. ASSUME NEW w \in SystemStates, w.base = copy.base, SendAll(<<StateRequest(w)>>), copy' = w,
             ticked' \subseteq Boxes, UNCHANGED <<offered, stoodDown>>
      PROVE  /\ \E ms : Clicked(ms)
             /\ copy' \in SystemStates /\ copy'.base = copy.base
             /\ offered' = offered /\ ticked' \subseteq Boxes
             /\ stoodDown' \in BOOLEAN
  BY <1>1, <1>3, <1>5, <1>9, MessagesSent
<1>10. ASSUME NEW f \in Flags
       PROVE  /\ WithoutFlags(copy, {f}) \in SystemStates /\ WithoutFlags(copy, {f}).base = copy.base
              /\ WithFlag(copy, f) \in SystemStates /\ WithFlag(copy, f).base = copy.base
  BY WordOperators DEF ConsoleTypeInv, WithoutFlags, WithFlag, SystemStates
<1>11. CASE LaserBox
  <2> DEFINE w == IF "laser" \in ticked THEN WithoutFlags(copy, {"LASER_ON"})
                                        ELSE WithFlag(copy, "LASER_ON")
  <2>1. w \in SystemStates /\ w.base = copy.base
    BY <1>10 DEF Flags
  <2>2. /\ SendAll(<<StateRequest(w)>>) /\ copy' = w /\ UNCHANGED <<offered, stoodDown>>
        /\ ticked' \subseteq Boxes
    BY <1>11 DEF LaserBox, ConsoleTypeInv, Boxes
  <2> HIDE DEF w
  <2> QED BY <1>9, <2>1, <2>2
<1>12. CASE CalibrateBox
  <2> DEFINE w == IF "calib" \in ticked THEN WithoutFlags(copy, {"CALIB_ON"})
                                        ELSE WithFlag(copy, "CALIB_ON")
  <2>1. w \in SystemStates /\ w.base = copy.base
    BY <1>10 DEF Flags
  <2>2. /\ SendAll(<<StateRequest(w)>>) /\ copy' = w /\ UNCHANGED <<offered, stoodDown>>
        /\ ticked' \subseteq Boxes
    BY <1>12 DEF CalibrateBox, ConsoleTypeInv, Boxes
  <2> HIDE DEF w
  <2> QED BY <1>9, <2>1, <2>2
<1>13. ASSUME NEW down \in BOOLEAN, FireKey(down)
       PROVE  /\ \E ms : Clicked(ms)
              /\ UNCHANGED <<window, stoodDown>>
  <2>1. FireCode(down) \in Messages /\ FireCode(down) # PreArmCode
    BY MessagesSent DEF FireCode, PreArmCode
  <2>2. SendAll(<<FireCode(down)>>) /\ UNCHANGED <<window, stoodDown>>
    BY <1>13 DEF FireKey
  <2> QED BY <1>1, <2>1, <2>2
<1> QED BY <1>4, <1>5, <1>6, <1>7, <1>8, <1>11, <1>12, <1>13 DEF Click

LEMMA ConsoleCases ==
    ASSUME [ConsoleNext]_consoleVars
    PROVE  OnConnect \/ Click \/ ShowState \/ Server \/ WriteReport \/ UNCHANGED consoleVars
BY DEF ConsoleNext, Window, Click

LEMMA ConnectSends ==
    ASSUME OnConnect
    PROVE  /\ Move /\ OwnStep /\ ~ProcessPreArm /\ UNCHANGED SystemState
           /\ requests' = <<StateRequest(Only("SAFE"))>>
           /\ requests' \in Seq(Messages) /\ DOMAIN requests' = {1}
           /\ requests'[1] = StateRequest(Only("SAFE"))
           /\ stoodDown' = TRUE
           /\ UNCHANGED <<copy, offered, ticked, waiting, reports, clicks, overtaken, overruled>>
<1>1. Login(TRUE) /\ UNCHANGED SystemState
  BY DEF OnConnect, Login
<1>2. ~ProcessPreArm
  BY <1>1, PreArmBase
<1>3. StateRequest(Only("SAFE")) \in Messages
  BY WordOperators, MessagesSent DEF Bases
<1>4. requests' = <<StateRequest(Only("SAFE"))>> /\ stoodDown' = TRUE
  BY DEF OnConnect
<1>5. UNCHANGED <<copy, offered, ticked, waiting, reports, clicks, overtaken, overruled>>
  BY DEF OnConnect, window
<1>6. /\ requests' \in Seq(Messages) /\ DOMAIN requests' = {1}
      /\ requests'[1] = StateRequest(Only("SAFE"))
  BY <1>3, <1>4
<1> QED BY <1>1, <1>2, <1>4, <1>5, <1>6 DEF Move, OwnStep

-----------------------------------------------------------------------------
(* Types.                                                                    *)

LEMMA ReportTypes ==
    ASSUME ConsoleTypeInv, SystemState' \in SystemStates, Reported \/ Unreported
    PROVE  waiting' \in Seq([by : Threads, word : SystemStates]) /\ OneEach'
<1> DEFINE R == [by : Threads, word : SystemStates]
<1>1. waiting \in Seq(R) /\ OneEach
  BY DEF ConsoleTypeInv, LinkTypes
<1>2. CASE Unreported
  BY <1>1, <1>2 DEF Unreported, OneEach
<1>3. ASSUME NEW t \in Threads, Free(t), Report(t)
      PROVE  waiting' \in Seq(R) /\ OneEach'
  <2> DEFINE e == [by |-> t, word |-> SystemState']
  <2>1. e \in R /\ e.by = t
    OBVIOUS
  <2>2. waiting' = Append(waiting, e)
    BY <1>3 DEF Report
  <2> HIDE DEF e, R
  <2>3. /\ waiting' \in Seq(R) /\ Len(waiting') = Len(waiting) + 1 /\ Len(waiting) \in Nat
        /\ waiting'[Len(waiting) + 1] = e
        /\ \A i \in 1 .. Len(waiting) : waiting'[i] = waiting[i]
    BY <1>1, <2>1, <2>2, AppendOf
  <2>4. DOMAIN waiting = 1 .. Len(waiting) /\ DOMAIN waiting' = 1 .. Len(waiting')
    BY <1>1, <2>3
  <2>5. ASSUME NEW i \in DOMAIN waiting', NEW j \in DOMAIN waiting',
               waiting'[i].by = waiting'[j].by
        PROVE  i = j
    <3>1. \A k \in 1 .. Len(waiting) : waiting'[k].by = waiting[k].by /\ waiting[k].by # t
      BY <1>3, <2>3, <2>4 DEF Free
    <3>2. waiting'[Len(waiting) + 1].by = t
      BY <2>1, <2>3
    <3>3. i \in 1 .. Len(waiting) \/ i = Len(waiting) + 1
      BY <2>3, <2>4
    <3>4. j \in 1 .. Len(waiting) \/ j = Len(waiting) + 1
      BY <2>3, <2>4
    <3>5. CASE i \in 1 .. Len(waiting) /\ j \in 1 .. Len(waiting)
      BY <1>1, <2>4, <2>5, <3>1, <3>5 DEF OneEach
    <3> QED BY <2>5, <3>1, <3>2, <3>3, <3>4, <3>5
  <2> QED BY <2>3, <2>5 DEF OneEach
<1> QED BY <1>2, <1>3 DEF Reported

LEMMA WriteTypes ==
    ASSUME ConsoleTypeInv, WriteReport
    PROVE  ConsoleTypeInv'
<1> DEFINE R == [by : Threads, word : SystemStates]
<1>1. waiting \in Seq(R) /\ OneEach /\ reports \in Seq(SystemStates)
  BY DEF ConsoleTypeInv, LinkTypes
<1>2. PICK i \in DOMAIN waiting :
         /\ reports' = Append(reports, waiting[i].word)
         /\ waiting' = RemoveAt(waiting, i)
         /\ overtaken' = (overtaken \/ i > 1)
         /\ UNCHANGED <<vars, window, requests, clicks, stoodDown, overruled>>
  BY DEF WriteReport
<1> HIDE DEF R
<1>3. waiting[i] \in R
  BY <1>1
<1>4. waiting[i].word \in SystemStates
  BY <1>3 DEF R
<1>5. reports' \in Seq(SystemStates)
  BY <1>1, <1>2, <1>4, AppendOf
<1>6. /\ waiting' \in Seq(R) /\ Len(waiting') = Len(waiting) - 1 /\ Len(waiting) \in Nat
      /\ \A k \in 1 .. Len(waiting) - 1 : waiting'[k] = IF k < i THEN waiting[k] ELSE waiting[k + 1]
  <2>1. /\ RemoveAt(waiting, i) \in Seq(R) /\ Len(RemoveAt(waiting, i)) = Len(waiting) - 1
        /\ \A k \in 1 .. Len(waiting) - 1 :
              RemoveAt(waiting, i)[k] = IF k < i THEN waiting[k] ELSE waiting[k + 1]
    BY <1>1, RemoveAtOf, Zenon
  <2>2. waiting' = RemoveAt(waiting, i)
    BY <1>2
  <2>3. Len(waiting) \in Nat
    BY <1>1
  <2> QED BY <2>1, <2>2, <2>3, Zenon
<1>7. DOMAIN waiting = 1 .. Len(waiting) /\ DOMAIN waiting' = 1 .. Len(waiting')
  BY <1>1, <1>6
<1>8. OneEach'
  <2>1. SUFFICES ASSUME NEW a \in DOMAIN waiting', NEW b \in DOMAIN waiting',
                        waiting'[a].by = waiting'[b].by
                 PROVE  a = b
    BY DEF OneEach
  <2> DEFINE c == IF a < i THEN a ELSE a + 1
             d == IF b < i THEN b ELSE b + 1
  <2>2. c \in DOMAIN waiting /\ d \in DOMAIN waiting /\ (c = d => a = b)
    BY <1>6, <1>7
  <2>3. waiting'[a] = waiting[c] /\ waiting'[b] = waiting[d]
    BY <1>6, <1>7
  <2> HIDE DEF c, d
  <2>4. c = d
    BY <1>1, <2>1, <2>2, <2>3 DEF OneEach
  <2> QED BY <2>2, <2>4
<1>9. TypeInv'
  BY <1>2, NextTypeInv DEF ConsoleTypeInv
<1>10. overtaken' \in BOOLEAN
  BY <1>2
<1> QED BY <1>2, <1>5, <1>6, <1>8, <1>9, <1>10 DEF ConsoleTypeInv, LinkTypes, window, R

LEMMA ShowTypes ==
    ASSUME ConsoleTypeInv, ShowState
    PROVE  ConsoleTypeInv'
<1>1. /\ reports' \in Seq(SystemStates) /\ copy' \in SystemStates
      /\ offered' = OfferedBy(copy') /\ ticked' = TickedBy(copy')
      /\ UNCHANGED <<vars, requests, waiting, clicks, stoodDown, overtaken, overruled>>
  BY TailOf DEF ConsoleTypeInv, LinkTypes, ShowState
<1>2. copy'.base \in Bases /\ offered \subseteq Boxes /\ ticked \subseteq Boxes
  BY <1>1 DEF ConsoleTypeInv, SystemStates
<1>3. offered' \subseteq Boxes
  BY <1>1, <1>2 DEF OfferedBy, Bases, Boxes
<1>4. FlagBoxes(copy') \subseteq Boxes
  BY DEF FlagBoxes, Boxes
<1>5. ticked' \subseteq Boxes
  BY <1>1, <1>2, <1>4 DEF TickedBy, Bases, Boxes
<1>6. TypeInv'
  BY <1>1, NextTypeInv DEF ConsoleTypeInv
<1> QED BY <1>1, <1>3, <1>5, <1>6 DEF ConsoleTypeInv, LinkTypes, OneEach

LEMMA ClickTypes ==
    ASSUME ConsoleTypeInv, Click
    PROVE  ConsoleTypeInv'
<1>1. PICK ms : Clicked(ms)
  BY ClickSends
<1>2. /\ ms \in Seq(Messages) /\ requests' = requests \o ms /\ clicks' = clicks + 1
      /\ UNCHANGED <<vars, waiting, reports, overtaken, overruled>>
  BY <1>1 DEF Clicked, SendAll
<1>3. requests' \in Seq(Messages)
  BY <1>2, SentBehind DEF ConsoleTypeInv, LinkTypes
<1>4. TypeInv'
  BY <1>2, NextTypeInv DEF ConsoleTypeInv
<1>5. clicks' \in Nat
  BY <1>2 DEF ConsoleTypeInv
<1> QED BY <1>2, <1>3, <1>4, <1>5, ClickSends DEF ConsoleTypeInv, LinkTypes, OneEach

LEMMA ServerTypes ==
    ASSUME ConsoleTypeInv, Server
    PROVE  ConsoleTypeInv'
<1>1. TypeInv' /\ SystemState' \in SystemStates
  BY MoveTypeInv, ServerReports DEF ConsoleTypeInv, TypeInv, TypeOK
<1>2. waiting' \in Seq([by : Threads, word : SystemStates]) /\ OneEach'
  BY <1>1, ReportTypes, ServerReports
<1>3. requests' \in Seq(Messages) /\ overruled' \in BOOLEAN
  <2>1. CASE NetworkStep
    BY <2>1, TailOf DEF NetworkStep, ConsoleTypeInv, LinkTypes
  <2>2. CASE ~NetworkStep
    BY <2>2, ServerReports DEF ConsoleTypeInv, LinkTypes
  <2> QED BY <2>1, <2>2
<1> QED BY <1>1, <1>2, <1>3, ServerReports DEF ConsoleTypeInv, LinkTypes

LEMMA ConsoleNextTypes ==
    ASSUME ConsoleTypeInv, [ConsoleNext]_consoleVars
    PROVE  ConsoleTypeInv'
<1>1. CASE OnConnect
  BY <1>1, ConnectSends, MoveTypeInv DEF ConsoleTypeInv, LinkTypes, OneEach
<1>2. CASE UNCHANGED consoleVars
  <2>1. TypeInv'
    BY <1>2, NextTypeInv DEF ConsoleTypeInv, consoleVars
  <2> QED BY <1>2, <2>1 DEF ConsoleTypeInv, LinkTypes, OneEach, consoleVars, window, link
<1> QED BY <1>1, <1>2, ConsoleCases, ClickTypes, ShowTypes, ServerTypes, WriteTypes

LEMMA ConsoleInitTypes == ConsoleInit => ConsoleTypeInv
<1> SUFFICES ASSUME ConsoleInit PROVE ConsoleTypeInv
  OBVIOUS
<1>1. TypeInv /\ Only("SAFE") \in SystemStates
  BY InitTypeInv, WordOperators DEF ConsoleInit, Bases
<1>2. LinkTypes
  BY DEF ConsoleInit, LinkTypes
<1>3. OneEach
  <2>1. waiting = <<>>
    BY DEF ConsoleInit
  <2>2. DOMAIN waiting = {}
    BY <2>1
  <2> QED BY <2>2 DEF OneEach
<1> QED BY <1>1, <1>2, <1>3 DEF ConsoleInit, ConsoleTypeInv

\* Every variable keeps its range, and no thread has two reports waiting: the
\* window never shows, nor sends back, a word the server cannot be in, however
\* many clicks, requests and reports there are.
THEOREM ConsoleTypeCorrect == ConsoleSpec => []ConsoleTypeOK
<1>1. ConsoleTypeInv => ConsoleTypeOK
  <2> SUFFICES ASSUME ConsoleTypeInv PROVE ConsoleTypeOK
    OBVIOUS
  <2>1. \A i \in DOMAIN requests : requests[i] \in Messages
    BY DEF ConsoleTypeInv, LinkTypes
  <2>2. Words(requests) \subseteq SystemStates
    BY <2>1, MessageKinds DEF Words
  <2>3. \A i \in DOMAIN reports : reports[i] \in SystemStates
    BY DEF ConsoleTypeInv, LinkTypes
  <2> QED BY <2>2, <2>3 DEF ConsoleTypeInv, ConsoleTypeOK, TypeInv, OneEach
<1> QED BY <1>1, ConsoleInitTypes, ConsoleNextTypes, PTL DEF ConsoleSpec

-----------------------------------------------------------------------------
(* The word, the flag FIRING and the newest report.                          *)

LEMMA ConsoleNextWord ==
    ASSUME ConsoleTypeInv, UninterruptedInv, WordInv, [ConsoleNext]_consoleVars
    PROVE  UninterruptedInv' /\ WordInv'
<1>0. TypeInv
  BY DEF ConsoleTypeInv
<1>1. CASE OnConnect \/ Server
  <2>1. Move
    BY <1>1, ConnectSends, ServerReports
  <2>2. UninterruptedInv'
    BY <1>0, <2>1, MoveUninterrupted
  <2>3. SUFFICES ASSUME ~interrupted' PROVE WordInv'
    BY <2>2 DEF WordInv
  <2>4. ~interrupted /\ Plain(SystemState')
    BY <1>0, <2>1, <2>3, MoveFollows DEF Follows
  <2>5. ASSUME ~overruled', FiringAgrees PROVE FiringAgrees'
    <3>1. CASE NetworkStep
      <4> DEFINE m == Head(requests)
      <4>1. ~Contradicts(m)
        BY <2>5, <3>1 DEF NetworkStep
      <4>2. CASE m.kind = "MT_STATE_CHANGE_REQ"
        <5>1. ProcessStateChangeRequest(m.word) /\ m.word \in SystemStates
          BY <3>1, <4>2, NetworkReports, MessageKinds
        <5>2. m.word.base = "ARMED_MANUAL" /\ SystemState.base = "ARMED_MANUAL" =>
                 ("FIRING" \in m.word.flags <=> "FIRING" \in SystemState.flags)
          BY <4>1, <4>2 DEF Contradicts
        <5> HIDE DEF m
        <5> QED BY <1>0, <2>5, <5>1, <5>2, RequestFiring
      <4>3. CASE m.kind # "MT_STATE_CHANGE_REQ"
        BY <1>0, <2>4, <2>5, <3>1, <4>3, NetworkReports, OwnStepFiring
      <4> QED BY <4>2, <4>3
    <3>2. CASE ~NetworkStep
      <4>1. OwnStep
        BY <1>1, <3>2, ConnectSends, ServerReports
      <4> QED BY <1>0, <2>4, <2>5, <4>1, OwnStepFiring
    <3> QED BY <3>1, <3>2
  <2>6. overruled => overruled'
    BY <1>1, ConnectSends, ServerReports DEF NetworkStep
  <2> QED BY <2>3, <2>4, <2>5, <2>6 DEF WordInv, FiringAgrees
<1>2. CASE Click \/ ShowState \/ WriteReport \/ UNCHANGED consoleVars
  <2>1. UNCHANGED <<vars, overruled>>
    BY <1>2, ClickSends DEF Clicked, SendAll, ShowState, WriteReport, consoleVars
  <2>2. UninterruptedInv'
    BY <1>0, <2>1, MoveUninterrupted DEF Move, OwnStep
  <2> QED BY <2>1, <2>2 DEF WordInv, Plain, vars, pins
<1> QED BY <1>1, <1>2, ConsoleCases

\* A request stays on its way until it is reported.
LEMMA AskedStays ==
    ASSUME ConsoleTypeInv, [ConsoleNext]_consoleVars, Asked
    PROVE  Asked' \/ (Server /\ Reported)
<1>0. requests \in Seq(Messages)
  BY DEF ConsoleTypeInv, LinkTypes
<1>1. PICK i \in DOMAIN requests : requests[i].kind = "MT_STATE_CHANGE_REQ"
  BY DEF Asked
<1>2. i \in 1 .. Len(requests) /\ Len(requests) \in Nat
  BY <1>0
<1>3. CASE UNCHANGED requests
  BY <1>3 DEF Asked
<1>4. CASE OnConnect
  <2>1. requests'[1].kind = "MT_STATE_CHANGE_REQ" /\ 1 \in DOMAIN requests'
    BY <1>4, ConnectSends DEF StateRequest
  <2> QED BY <2>1 DEF Asked
<1>5. CASE Click
  <2>1. PICK ms : Clicked(ms)
    BY <1>5, ClickSends
  <2>2. ms \in Seq(Messages) /\ requests' = requests \o ms
    BY <2>1 DEF Clicked, SendAll
  <2>3. i \in DOMAIN requests' /\ requests'[i] = requests[i]
    BY <1>0, <1>2, <2>2, SentBehind
  <2> QED BY <1>1, <2>3 DEF Asked
<1>6. CASE Server /\ NetworkStep
  <2>1. CASE i = 1
    <3>1. Head(requests) = requests[1]
      BY <1>0, <1>2, TailOf
    <3> QED BY <1>1, <1>6, <2>1, <3>1, NetworkReports
  <2>2. CASE i # 1
    <3>1. /\ requests # <<>> /\ requests' = Tail(requests)
          /\ Len(requests') = Len(requests) - 1
          /\ \A k \in 1 .. Len(requests) - 1 : requests'[k] = requests[k + 1]
          /\ requests' \in Seq(Messages)
      BY <1>0, <1>6, TailOf DEF NetworkStep
    <3>2. i - 1 \in 1 .. Len(requests) - 1 /\ (i - 1) + 1 = i
      BY <1>2, <2>2
    <3>3. i - 1 \in DOMAIN requests' /\ requests'[i - 1] = requests[i]
      BY <3>1, <3>2
    <3> QED BY <1>1, <3>3 DEF Asked
  <2> QED BY <2>1, <2>2
<1>7. CASE Server /\ ~NetworkStep
  BY <1>3, <1>7, ServerReports
<1>8. CASE ShowState \/ WriteReport \/ UNCHANGED consoleVars
  BY <1>3, <1>8 DEF ShowState, WriteReport, consoleVars, link
<1> QED BY <1>4, <1>5, <1>6, <1>7, <1>8, ConsoleCases

\* What the three kinds of steps do to the newest report.
LEMMA ReportNewest ==
    ASSUME ConsoleTypeInv, ConsoleTypeInv', Reported
    PROVE  /\ waiting' # <<>> /\ Newest' = SystemState'
           /\ Len(waiting) \in Nat /\ Len(waiting') = Len(waiting) + 1
           /\ \A i \in 1 .. Len(waiting) : waiting'[i] = waiting[i]
           /\ waiting'[Len(waiting) + 1].word = SystemState'
<1>1. PICK t \in Threads : waiting' = Append(waiting, [by |-> t, word |-> SystemState'])
  BY DEF Reported, Report
<1> DEFINE R == [by : Threads, word : SystemStates]
           e == [by |-> t, word |-> SystemState']
<1>2. e \in R /\ e.word = SystemState' /\ waiting \in Seq(R)
  BY DEF ConsoleTypeInv, LinkTypes, TypeInv, TypeOK
<1>3. waiting' = Append(waiting, e)
  BY <1>1
<1> HIDE DEF R, e
<1>4. /\ waiting' \in Seq(R) /\ Len(waiting') = Len(waiting) + 1 /\ Len(waiting) \in Nat
      /\ waiting'[Len(waiting) + 1] = e
      /\ \A i \in 1 .. Len(waiting) : waiting'[i] = waiting[i]
  BY <1>2, <1>3, AppendOf
<1>5. waiting' # <<>>
  BY <1>4
<1> QED BY <1>2, <1>4, <1>5 DEF Newest

LEMMA ShowNewest ==
    ASSUME ConsoleTypeInv, ShowState
    PROVE  LastShown' = LastShown /\ Newest' = Newest
<1>1. reports \in Seq(SystemStates) /\ reports # <<>>
  BY DEF ConsoleTypeInv, LinkTypes, ShowState
<1>2. /\ copy' = reports[1] /\ reports' = Tail(reports) /\ reports' \in Seq(SystemStates)
      /\ Len(reports') = Len(reports) - 1 /\ Len(reports) \in Nat \ {0}
      /\ \A i \in 1 .. Len(reports) - 1 : reports'[i] = reports[i + 1]
  BY <1>1, TailOf DEF ShowState
<1>3. LastShown = reports[Len(reports)]
  BY <1>1 DEF LastShown
<1>4. CASE Len(reports) = 1
  <2>1. reports' = <<>>
    BY <1>2, <1>4
  <2> QED BY <1>2, <1>3, <1>4, <2>1 DEF LastShown, Newest, ShowState
<1>5. CASE Len(reports) # 1
  <2>1. reports' # <<>>
    BY <1>2, <1>5
  <2>2. Len(reports) - 1 \in 1 .. Len(reports) - 1 /\ (Len(reports) - 1) + 1 = Len(reports)
    BY <1>2, <1>5
  <2>3. reports'[Len(reports')] = reports[Len(reports)]
    BY <1>2, <2>2
  <2> QED BY <1>3, <2>1, <2>3 DEF LastShown, Newest, ShowState
<1> QED BY <1>4, <1>5

LEMMA WriteNewest ==
    ASSUME ConsoleTypeInv, WriteReport, ~overtaken'
    PROVE  /\ ~overtaken
           /\ UNCHANGED <<vars, copy, offered, ticked, requests>>
           /\ waiting # <<>> /\ Len(waiting) \in Nat \ {0}
           /\ Len(waiting') = Len(waiting) - 1
           /\ \A i \in 1 .. Len(waiting) - 1 : waiting'[i] = waiting[i + 1]
           /\ Len(reports) \in Nat /\ Len(reports') = Len(reports) + 1 /\ reports' # <<>>
           /\ \A i \in 1 .. Len(reports) : reports'[i] = reports[i]
           /\ reports'[Len(reports) + 1] = waiting[1].word
           /\ LastShown' = waiting[1].word /\ Newest' = Newest
<1> DEFINE R == [by : Threads, word : SystemStates]
<1>1. waiting \in Seq(R) /\ reports \in Seq(SystemStates)
  BY DEF ConsoleTypeInv, LinkTypes
<1>2. PICK i \in DOMAIN waiting :
         /\ reports' = Append(reports, waiting[i].word)
         /\ waiting' = RemoveAt(waiting, i)
         /\ overtaken' = (overtaken \/ i > 1)
         /\ UNCHANGED <<vars, window, requests, clicks, stoodDown, overruled>>
  BY DEF WriteReport
<1> HIDE DEF R
<1>3. i = 1 /\ ~overtaken
  <2>1. ~overtaken /\ ~(i > 1)
    BY <1>2
  <2>2. i \in 1 .. Len(waiting)
    BY <1>1, <1>2
  <2> QED BY <2>1, <2>2
<1>4. waiting[1] \in R
  BY <1>1, <1>2, <1>3
<1>5. waiting[1].word \in SystemStates
  BY <1>4 DEF R
<1>6. waiting # <<>> /\ Len(waiting) \in Nat \ {0}
  BY <1>1, <1>2
<1>7. /\ waiting' \in Seq(R) /\ Len(waiting') = Len(waiting) - 1
      /\ \A k \in 1 .. Len(waiting) - 1 : waiting'[k] = waiting[k + 1]
  <2>1. /\ waiting' \in Seq(R) /\ Len(waiting') = Len(waiting) - 1
        /\ \A k \in 1 .. Len(waiting) - 1 :
              waiting'[k] = IF k < 1 THEN waiting[k] ELSE waiting[k + 1]
    BY <1>1, <1>2, <1>3, RemoveAtOf
  <2> QED BY <1>6, <2>1
<1>8. /\ Len(reports) \in Nat /\ Len(reports') = Len(reports) + 1 /\ reports' # <<>>
      /\ \A k \in 1 .. Len(reports) : reports'[k] = reports[k]
      /\ reports'[Len(reports) + 1] = waiting[1].word
  <2>1. reports' = Append(reports, waiting[1].word)
    BY <1>2, <1>3
  <2> QED BY <1>1, <1>5, <2>1, AppendOf
<1>9. LastShown' = waiting[1].word
  BY <1>8 DEF LastShown
<1>10. Newest' = Newest
  <2>1. CASE Len(waiting) = 1
    <3>1. waiting' = <<>>
      BY <1>7, <2>1
    <3> QED BY <1>6, <1>9, <2>1, <3>1 DEF Newest
  <2>2. CASE Len(waiting) # 1
    <3>1. waiting' # <<>>
      BY <1>6, <1>7, <2>2
    <3>2. Len(waiting) - 1 \in 1 .. Len(waiting) - 1 /\ (Len(waiting) - 1) + 1 = Len(waiting)
      <4>1. Len(waiting) \in Nat \ {0}
        BY <1>6
      <4> QED BY <2>2, <4>1
    <3>3. waiting'[Len(waiting')] = waiting[Len(waiting)]
      BY <1>7, <3>2
    <3> QED BY <1>6, <3>1, <3>3 DEF Newest
  <2> QED BY <2>1, <2>2
<1> QED BY <1>2, <1>3, <1>6, <1>7, <1>8, <1>9, <1>10 DEF window

LEMMA ConsoleNextNewest ==
    ASSUME ConsoleTypeInv, ConsoleTypeInv', NewestInv, [ConsoleNext]_consoleVars
    PROVE  NewestInv'
<1> SUFFICES ASSUME ~overtaken' PROVE NewestInv'
  BY DEF NewestInv
<1>0. Asked => Asked' \/ (Server /\ Reported)
  BY AskedStays
<1>1. CASE OnConnect
  <2>1. requests'[1].kind = "MT_STATE_CHANGE_REQ" /\ 1 \in DOMAIN requests'
    BY <1>1, ConnectSends DEF StateRequest
  <2>2. Newest' = Newest /\ UNCHANGED <<SystemState, overtaken>>
    BY <1>1, ConnectSends DEF Newest, LastShown
  <2> QED BY <2>1, <2>2 DEF NewestInv, Asked
<1>2. CASE Click
  <2>1. PICK ms : Clicked(ms)
    BY <1>2, ClickSends
  <2>2. /\ UNCHANGED <<SystemState, waiting, reports, overtaken>>
        /\ ms \in Seq(Messages) /\ requests' = requests \o ms
    BY <2>1 DEF Clicked, SendAll, vars
  <2>3. CASE UNCHANGED window
    <3>1. Newest' = Newest
      BY <2>2, <2>3 DEF Newest, LastShown, window
    <3>2. ~Reported
      BY <2>2, ReportNewest DEF Newest
    <3> QED BY <1>0, <2>2, <3>1, <3>2 DEF NewestInv
  <2>4. CASE \E i \in DOMAIN ms : ms[i].kind = "MT_STATE_CHANGE_REQ"
    <3>1. PICK i \in DOMAIN ms : ms[i].kind = "MT_STATE_CHANGE_REQ"
      BY <2>4
    <3>2. /\ requests \in Seq(Messages) /\ i \in 1 .. Len(ms)
          /\ DOMAIN requests' = 1 .. Len(requests')
      BY <2>2 DEF ConsoleTypeInv, LinkTypes
    <3>3. Len(requests) + i \in DOMAIN requests' /\ requests'[Len(requests) + i] = ms[i]
      BY <2>2, <3>2, SentBehind
    <3>4. Asked'
      BY <3>1, <3>3 DEF Asked
    <3>5. Newest'.base = Newest.base
      BY <1>2, <2>2, ClickSends DEF Newest, LastShown
    <3> QED BY <2>2, <3>4, <3>5 DEF NewestInv
  <2> QED BY <2>1, <2>3, <2>4 DEF Clicked
<1>3. CASE Server
  <2>1. CASE Reported
    BY <2>1, ReportNewest DEF NewestInv
  <2>2. CASE ~Reported
    <3>1. /\ UNCHANGED <<SystemState, waiting, reports, copy, overtaken>>
      BY <1>3, <2>2, ServerReports DEF Unreported
    <3>2. Newest' = Newest
      BY <3>1 DEF Newest, LastShown
    <3> QED BY <1>0, <2>2, <3>1, <3>2 DEF NewestInv
  <2> QED BY <2>1, <2>2
<1>4. CASE ShowState \/ WriteReport \/ UNCHANGED consoleVars
  <2>1. Newest' = Newest /\ ~overtaken /\ UNCHANGED <<SystemState, requests>>
    <3>1. CASE ShowState
      BY <3>1, ShowNewest DEF ShowState, vars
    <3>2. CASE WriteReport
      BY <3>2, WriteNewest DEF vars
    <3>3. CASE UNCHANGED consoleVars
      BY <3>3 DEF consoleVars, vars, window, link, Newest, LastShown
    <3> QED BY <1>4, <3>1, <3>2, <3>3
  <2> QED BY <2>1 DEF NewestInv, Asked
<1> QED BY <1>1, <1>2, <1>3, <1>4, ConsoleCases

-----------------------------------------------------------------------------
(* What the window shows.                                                    *)

LEMMA FollowsBase ==
    ASSUME NEW u, NEW v, NEW w, u.base = v.base, Follows(u, w)
    PROVE  Follows(v, w)
BY DEF Follows

\* A report of the server's next word follows those before it.
LEMMA ServerShown ==
    ASSUME ConsoleTypeInv, ConsoleTypeInv', UninterruptedInv, WordInv, NewestInv, ShownInv,
           Server, ~overtaken', ~interrupted'
    PROVE  ReportsFollow' /\ WaitingFollow' /\ BoxesAgree'
<1>1. /\ Move /\ (Reported \/ Unreported)
      /\ UNCHANGED <<copy, offered, ticked, reports, overtaken>>
  BY ServerReports
<1>2. ~interrupted /\ Follows(SystemState, SystemState')
  BY <1>1, MoveFollows DEF ConsoleTypeInv
<1>3. /\ ReportsFollow /\ WaitingFollow /\ BoxesAgree
      /\ Newest.base = SystemState.base
  BY <1>1, <1>2 DEF ShownInv, NewestInv
<1>4. LastShown' = LastShown /\ ReportsFollow'
  BY <1>1, <1>3 DEF LastShown, ReportsFollow
<1>5. CASE Reported
  <2>1. /\ waiting' # <<>> /\ Len(waiting) \in Nat /\ Len(waiting') = Len(waiting) + 1
        /\ \A i \in 1 .. Len(waiting) : waiting'[i] = waiting[i]
        /\ waiting'[Len(waiting) + 1].word = SystemState'
    BY <1>5, ReportNewest
  <2>2. Follows(Newest, SystemState')
    BY <1>2, <1>3, FollowsBase
  <2>3. ASSUME NEW i \in 1 .. Len(waiting') - 1
        PROVE  Follows(waiting'[i].word, waiting'[i + 1].word)
    <3>1. CASE i = Len(waiting)
      <4>1. waiting # <<>> /\ i \in 1 .. Len(waiting)
        BY <2>1, <3>1
      <4>2. Newest = waiting'[i].word
        BY <2>1, <3>1, <4>1 DEF Newest
      <4> QED BY <2>1, <2>2, <3>1, <4>2
    <3>2. CASE i # Len(waiting)
      <4>1. i \in 1 .. Len(waiting) - 1 /\ i \in 1 .. Len(waiting) /\ i + 1 \in 1 .. Len(waiting)
        BY <2>1, <3>2
      <4>2. waiting'[i] = waiting[i] /\ waiting'[i + 1] = waiting[i + 1]
        BY <2>1, <4>1
      <4>3. Follows(waiting[i].word, waiting[i + 1].word)
        BY <1>3, <4>1 DEF WaitingFollow
      <4> QED BY <4>2, <4>3
    <3> QED BY <3>1, <3>2
  <2>4. Follows(LastShown', waiting'[1].word)
    <3>1. CASE waiting = <<>>
      <4>1. waiting'[1].word = SystemState' /\ Newest = LastShown
        BY <2>1, <3>1 DEF Newest
      <4> QED BY <1>4, <2>2, <4>1
    <3>2. CASE waiting # <<>>
      <4>1. Len(waiting) # 0
        BY <3>2 DEF ConsoleTypeInv, LinkTypes
      <4>2. waiting'[1] = waiting[1]
        BY <2>1, <4>1
      <4> QED BY <1>3, <1>4, <3>2, <4>2 DEF WaitingFollow
    <3> QED BY <3>1, <3>2
  <2>5. WaitingFollow'
    BY <2>3, <2>4 DEF WaitingFollow
  <2>6. BoxesAgree'
    BY <1>1, <1>3, <2>1 DEF BoxesAgree
  <2> QED BY <1>4, <2>5, <2>6
<1>6. CASE ~Reported
  <2>1. UNCHANGED waiting
    BY <1>1, <1>6 DEF Unreported
  <2>2. WaitingFollow'
    BY <1>3, <1>4, <2>1 DEF WaitingFollow
  <2>3. Asked => Asked'
    BY <1>6, AskedStays DEF ConsoleNext
  <2>4. BoxesAgree'
    BY <1>1, <1>3, <2>1, <2>3 DEF BoxesAgree
  <2> QED BY <1>4, <2>2, <2>4
<1> QED BY <1>5, <1>6

\* A click changes neither the reports nor the copy's base.
LEMMA ClickShown ==
    ASSUME ConsoleTypeInv, Click, ReportsFollow, WaitingFollow, BoxesAgree
    PROVE  ReportsFollow' /\ WaitingFollow' /\ BoxesAgree'
<1>1. PICK ms : Clicked(ms)
  BY ClickSends
<1>2. /\ UNCHANGED <<vars, waiting, reports>> /\ ms \in Seq(Messages)
      /\ requests' = requests \o ms
  BY <1>1 DEF Clicked, SendAll
<1>3. copy'.base = copy.base /\ offered' = offered
  BY ClickSends
<1>4. LastShown'.base = LastShown.base
  BY <1>2, <1>3 DEF LastShown
<1>5. ReportsFollow'
  BY <1>2, <1>3, FollowsBase DEF ReportsFollow
<1>6. WaitingFollow'
  BY <1>2, <1>4, FollowsBase DEF WaitingFollow
<1>7. requests \in Seq(Messages)
  BY DEF ConsoleTypeInv, LinkTypes
<1>8. Asked => Asked'
  BY <1>2, <1>7, SentBehind DEF Asked
<1>9. CASE PreArmOrSafe \/ ArmedManualBox \/ AutoEngageBox \/ \E down \in BOOLEAN : FireKey(down)
  <2>1. UNCHANGED <<copy, offered, ticked>>
    BY <1>9 DEF PreArmOrSafe, ArmedManualBox, AutoEngageBox, FireKey, window
  <2> QED BY <1>2, <1>5, <1>6, <1>8, <2>1 DEF BoxesAgree
<1>10. ASSUME ~(UNCHANGED window) PROVE Asked'
  <2>1. PICK i \in DOMAIN ms : ms[i].kind = "MT_STATE_CHANGE_REQ"
    BY <1>1, <1>10 DEF Clicked
  <2>2. i \in 1 .. Len(ms)
    BY <1>2
  <2>3. Len(requests) + i \in 1 .. Len(requests') /\ requests'[Len(requests) + i] = ms[i]
        /\ requests' \in Seq(Messages)
    BY <1>2, <1>7, <2>2, SentBehind
  <2>4. Len(requests) + i \in DOMAIN requests'
    BY <2>3
  <2> QED BY <2>1, <2>3, <2>4 DEF Asked
<1>11. CASE LaserBox \/ CalibrateBox
  <2>1. CASE UNCHANGED window
    BY <1>2, <1>5, <1>6, <1>8, <2>1 DEF BoxesAgree, window
  <2>2. CASE ~(UNCHANGED window)
    <3>1. "laser" \in ticked' <=> "LASER_ON" \in copy'.flags
      BY <1>11 DEF LaserBox, CalibrateBox, BoxesAgree, WithFlag, WithoutFlags, ConsoleTypeInv,
         SystemStates
    <3>2. "manual" \in ticked' <=> "manual" \in ticked
      BY <1>11 DEF LaserBox, CalibrateBox
    <3>3. "auto" \in ticked' <=> "auto" \in ticked
      BY <1>11 DEF LaserBox, CalibrateBox
    <3> QED BY <1>3, <1>5, <1>6, <1>10, <2>2, <3>1, <3>2, <3>3 DEF BoxesAgree
  <2> QED BY <2>1, <2>2
<1> QED BY <1>9, <1>11 DEF Click

\* The report shown follows the one before, so that its boxes are its mode's.
LEMMA ShowShown ==
    ASSUME ConsoleTypeInv, ShowState, ReportsFollow, WaitingFollow, BoxesAgree
    PROVE  ReportsFollow' /\ WaitingFollow' /\ BoxesAgree'
<1>1. /\ reports \in Seq(SystemStates) /\ reports # <<>>
  BY DEF ConsoleTypeInv, LinkTypes, ShowState
<1>2. /\ copy' = reports[1] /\ reports' = Tail(reports)
      /\ Len(reports') = Len(reports) - 1 /\ Len(reports) \in Nat \ {0}
      /\ \A i \in 1 .. Len(reports) - 1 : reports'[i] = reports[i + 1]
      /\ UNCHANGED waiting /\ copy' \in SystemStates
      /\ offered' = OfferedBy(copy') /\ ticked' = TickedBy(copy')
  BY <1>1, TailOf DEF ShowState
<1>3. Follows(copy, copy')
  BY <1>1, <1>2 DEF ReportsFollow
<1>4. ReportsFollow'
  <2>1. ASSUME NEW i \in 1 .. Len(reports') - 1 PROVE Follows(reports'[i], reports'[i + 1])
    <3>1. /\ i \in 1 .. Len(reports) - 1 /\ i + 1 \in 1 .. Len(reports) - 1
      BY <1>2
    <3> QED BY <1>2, <3>1 DEF ReportsFollow
  <2>2. ASSUME reports' # <<>> PROVE Follows(copy', reports'[1])
    <3>1. Len(reports') # 0
      BY <1>1, <1>2, <2>2
    <3>2. 1 \in 1 .. Len(reports) - 1
      BY <1>2, <3>1
    <3> QED BY <1>2, <3>2 DEF ReportsFollow
  <2> QED BY <2>1, <2>2 DEF ReportsFollow
<1>5. WaitingFollow'
  BY <1>2, ShowNewest DEF WaitingFollow
<1>6. copy.base \in Bases /\ copy'.base \in Bases
  BY <1>2 DEF ConsoleTypeInv, SystemStates
<1>7. offered' = ModeBoxes(copy'.base)
  <2>1. offered = ModeBoxes(copy.base)
    BY DEF BoxesAgree
  <2> QED BY <1>2, <1>3, <1>6, <2>1 DEF OfferedBy, ModeBoxes, Follows, Bases
<1>8. /\ "manual" \in ticked' <=> copy'.base = "ARMED_MANUAL"
      /\ "auto" \in ticked' <=> copy'.base = "ENGAGE_AUTO"
  BY <1>2, <1>3, <1>6 DEF TickedBy, FlagBoxes, BoxesAgree, Follows, Bases
<1>9. /\ "laser" \in ticked' <=> "LASER_ON" \in copy'.flags
      /\ "calib" \in ticked' <=> "CALIB_ON" \in copy'.flags
  BY <1>2, <1>3, <1>6 DEF TickedBy, FlagBoxes, Follows, Plain, Bases
<1> QED BY <1>4, <1>5, <1>7, <1>8, <1>9 DEF BoxesAgree

LEMMA WriteShown ==
    ASSUME ConsoleTypeInv, WriteReport, ~overtaken', ReportsFollow, WaitingFollow, BoxesAgree
    PROVE  ReportsFollow' /\ WaitingFollow' /\ BoxesAgree'
<1>1. /\ UNCHANGED <<vars, copy, offered, ticked, requests>>
      /\ waiting # <<>> /\ Len(waiting) \in Nat \ {0}
      /\ Len(waiting') = Len(waiting) - 1
      /\ \A i \in 1 .. Len(waiting) - 1 : waiting'[i] = waiting[i + 1]
      /\ Len(reports) \in Nat /\ Len(reports') = Len(reports) + 1 /\ reports' # <<>>
      /\ \A i \in 1 .. Len(reports) : reports'[i] = reports[i]
      /\ reports'[Len(reports) + 1] = waiting[1].word
      /\ LastShown' = waiting[1].word
  BY WriteNewest
<1>2. Follows(LastShown, waiting[1].word)
  BY <1>1 DEF WaitingFollow
<1>3. ReportsFollow'
  <2>1. ASSUME NEW i \in 1 .. Len(reports') - 1 PROVE Follows(reports'[i], reports'[i + 1])
    <3>1. CASE i = Len(reports)
      <4>1. reports # <<>> /\ i \in 1 .. Len(reports)
        BY <1>1, <3>1
      <4>2. reports'[i] = LastShown
        BY <1>1, <3>1, <4>1 DEF LastShown
      <4> QED BY <1>1, <1>2, <3>1, <4>2
    <3>2. CASE i # Len(reports)
      <4>1. i \in 1 .. Len(reports) - 1 /\ i \in 1 .. Len(reports) /\ i + 1 \in 1 .. Len(reports)
        BY <1>1, <3>2
      <4> QED BY <1>1, <4>1 DEF ReportsFollow
    <3> QED BY <3>1, <3>2
  <2>2. Follows(copy', reports'[1])
    <3>1. CASE reports = <<>>
      BY <1>1, <1>2, <3>1 DEF LastShown
    <3>2. CASE reports # <<>>
      <4>1. 1 \in 1 .. Len(reports)
        BY <3>2 DEF ConsoleTypeInv, LinkTypes
      <4> QED BY <1>1, <3>2, <4>1 DEF ReportsFollow
    <3> QED BY <3>1, <3>2
  <2> QED BY <2>1, <2>2 DEF ReportsFollow
<1>4. WaitingFollow'
  <2>1. ASSUME NEW i \in 1 .. Len(waiting') - 1
        PROVE  Follows(waiting'[i].word, waiting'[i + 1].word)
    <3>1. i \in 1 .. Len(waiting) - 1 /\ i + 1 \in 1 .. Len(waiting) - 1
      BY <1>1
    <3> QED BY <1>1, <3>1 DEF WaitingFollow
  <2>2. ASSUME waiting' # <<>> PROVE Follows(LastShown', waiting'[1].word)
    <3>1. waiting' \in Seq([by : Threads, word : SystemStates])
      BY WriteTypes DEF ConsoleTypeInv, LinkTypes
    <3>2. Len(waiting') # 0
      BY <2>2, <3>1
    <3>3. 1 \in 1 .. Len(waiting) - 1
      BY <1>1, <3>2
    <3> QED BY <1>1, <3>3 DEF WaitingFollow
  <2> QED BY <2>1, <2>2 DEF WaitingFollow
<1>5. BoxesAgree'
  BY <1>1 DEF BoxesAgree
<1> QED BY <1>3, <1>4, <1>5

LEMMA ConsoleNextShown ==
    ASSUME ConsoleTypeInv, ConsoleTypeInv', UninterruptedInv, WordInv, NewestInv, ShownInv,
           [ConsoleNext]_consoleVars
    PROVE  ShownInv'
<1> SUFFICES ASSUME ~overtaken', ~interrupted'
             PROVE  ReportsFollow' /\ WaitingFollow' /\ BoxesAgree'
  BY DEF ShownInv
<1>1. CASE Server
  BY <1>1, ServerShown
<1>2. CASE OnConnect
  <2>1. ~interrupted /\ UNCHANGED <<copy, offered, ticked, waiting, reports, overtaken>>
    BY <1>2, ConnectSends, MoveInterrupts
  <2>2. Asked'
    BY <1>2, ConnectSends DEF Asked, StateRequest
  <2> QED BY <2>1, <2>2 DEF ShownInv, ReportsFollow, WaitingFollow, LastShown, BoxesAgree
<1>3. CASE Click
  <2>1. PICK ms : Clicked(ms)
    BY <1>3, ClickSends
  <2>2. ~interrupted /\ ~overtaken
    BY <2>1 DEF Clicked, SendAll, vars
  <2> QED BY <1>3, <2>2, ClickShown DEF ShownInv
<1>4. CASE ShowState
  <2>1. ~interrupted /\ ~overtaken
    BY <1>4 DEF ShowState, vars
  <2> QED BY <1>4, <2>1, ShowShown DEF ShownInv
<1>5. CASE WriteReport
  <2>1. ~interrupted /\ ~overtaken
    BY <1>5, WriteNewest DEF vars
  <2> QED BY <1>5, <2>1, WriteShown DEF ShownInv
<1>6. CASE UNCHANGED consoleVars
  BY <1>6 DEF consoleVars, vars, window, link, ShownInv, ReportsFollow, WaitingFollow, LastShown,
     BoxesAgree, Asked
<1> QED BY <1>1, <1>2, <1>3, <1>4, <1>5, <1>6, ConsoleCases

-----------------------------------------------------------------------------
(* The safe button.                                                          *)

LEMMA SafeAmongWords ==
    ASSUME NEW s, NEW i \in DOMAIN s, s[i] = SafeRequest
    PROVE  Only("SAFE") \in Words(s)
BY DEF Words, SafeRequest, StateRequest

LEMMA WordsAreRequests ==
    ASSUME NEW s \in Seq(Messages), Only("SAFE") \in Words(s)
    PROVE  \E i \in DOMAIN s : s[i] = SafeRequest
<1>1. PICK i \in DOMAIN s : s[i].kind = "MT_STATE_CHANGE_REQ" /\ s[i].word = Only("SAFE")
  BY DEF Words
<1>2. s[i] \in Messages
  OBVIOUS
<1>3. s[i] = StateRequest(s[i].word)
  BY <1>1, <1>2 DEF Messages, StateRequest, PreArmCode, TargetOrder
<1> QED BY <1>1, <1>3 DEF SafeRequest

\* Clicks keep a SAFE request on its way, and put no code behind it.
LEMMA ClickSafe ==
    ASSUME ConsoleTypeInv, SafeInv, Click
    PROVE  /\ SafeInv' /\ UNCHANGED SystemState
           /\ Only("SAFE") \in Words(requests) => Only("SAFE") \in Words(requests')
<1>1. PICK ms : Clicked(ms)
  BY ClickSends
<1>2. /\ UNCHANGED SystemState /\ ms \in Seq(Messages)
      /\ requests' = requests \o ms
  BY <1>1 DEF Clicked, SendAll, vars
<1>3. /\ requests \in Seq(Messages) /\ requests' \in Seq(Messages)
      /\ Len(requests') = Len(requests) + Len(ms)
      /\ Len(requests) \in Nat /\ Len(ms) \in Nat
      /\ \A i \in 1 .. Len(requests) : requests'[i] = requests[i]
      /\ \A i \in 1 .. Len(ms) : requests'[Len(requests) + i] = ms[i]
  BY <1>2, SentBehind DEF ConsoleTypeInv, LinkTypes
<1>4. /\ DOMAIN requests = 1 .. Len(requests) /\ DOMAIN requests' = 1 .. Len(requests')
      /\ DOMAIN ms = 1 .. Len(ms)
  BY <1>2, <1>3
<1>5. ASSUME Only("SAFE") \in Words(requests) PROVE Only("SAFE") \in Words(requests')
  <2>1. PICK i \in DOMAIN requests : requests[i] = SafeRequest
    BY <1>3, <1>5, WordsAreRequests
  <2>2. i \in DOMAIN requests' /\ requests'[i] = SafeRequest
    BY <1>3, <1>4, <2>1
  <2> QED BY <2>2, SafeAmongWords
<1>6. ASSUME ms = <<SafeRequest>> PROVE SafeInv'
  <2>1. Len(ms) = 1 /\ ms[1] = SafeRequest
    BY <1>6
  <2>2. /\ Len(requests) + 1 \in DOMAIN requests'
        /\ Len(requests') = Len(requests) + 1
        /\ requests'[Len(requests) + 1] = SafeRequest
    BY <1>3, <1>4, <2>1
  <2>4. SafeRequest # PreArmCode
    BY DEF SafeRequest, StateRequest, PreArmCode
  <2>5. ASSUME NEW i \in DOMAIN requests', requests'[i] = PreArmCode
        PROVE  \E j \in DOMAIN requests' : j > i /\ requests'[j] = SafeRequest
    <3>1. Len(requests) + 1 > i
      BY <1>3, <1>4, <2>2, <2>4, <2>5
    <3> QED BY <2>2, <3>1
  <2> QED BY <2>5 DEF SafeInv, CodesOvertaken
<1>7. ASSUME stoodDown' = stoodDown, \A i \in DOMAIN ms : ms[i] # PreArmCode PROVE SafeInv'
  <2>1. stoodDown' => CodesOvertaken(requests)
    BY <1>7 DEF SafeInv
  <2>2. SUFFICES ASSUME stoodDown' PROVE CodesOvertaken(requests')
    BY DEF SafeInv
  <2>3. ASSUME NEW i \in DOMAIN requests', requests'[i] = PreArmCode
        PROVE  \E j \in DOMAIN requests' : j > i /\ requests'[j] = SafeRequest
    <3>1. CASE i \in DOMAIN requests
      <4>1. requests[i] = PreArmCode
        BY <1>3, <1>4, <2>3, <3>1
      <4>2. PICK j \in DOMAIN requests : j > i /\ requests[j] = SafeRequest
        BY <2>1, <2>2, <3>1, <4>1 DEF CodesOvertaken
      <4>3. j \in DOMAIN requests' /\ requests'[j] = SafeRequest
        BY <1>3, <1>4, <4>2
      <4> QED BY <4>2, <4>3
    <3>2. CASE i \notin DOMAIN requests
      <4> DEFINE k == i - Len(requests)
      <4>1. k \in DOMAIN ms /\ Len(requests) + k = i
        BY <1>3, <1>4, <3>2
      <4> HIDE DEF k
      <4>2. requests'[i] = ms[k]
        BY <1>3, <1>4, <4>1
      <4> QED BY <1>7, <2>3, <4>1, <4>2
    <3> QED BY <3>1, <3>2
  <2> QED BY <2>3 DEF CodesOvertaken
<1>8. ASSUME stoodDown' = FALSE PROVE SafeInv'
  BY <1>8 DEF SafeInv
<1> QED BY <1>1, <1>2, <1>5, <1>6, <1>7, <1>8 DEF Clicked, SafeRequest

\* The message received is no code without a SAFE request behind it; the last
\* SAFE request makes the server SAFE; and nothing else leaves SAFE but late.
LEMMA NetworkSafe ==
    ASSUME ConsoleTypeInv, UninterruptedInv, SafeInv, NetworkStep, stoodDown
    PROVE  /\ CodesOvertaken(requests')
           /\ /\ Only("SAFE") \notin Words(requests')
              /\ Only("SAFE") \in Words(requests) \/ SystemState.base = "SAFE"
              => SystemState'.base = "SAFE" \/ LateAssignment
<1> DEFINE m == Head(requests)
<1>1. /\ requests \in Seq(Messages) /\ requests # <<>> /\ requests' = Tail(requests)
      /\ Len(requests) \in Nat \ {0} /\ m = requests[1] /\ m \in Messages
      /\ requests' \in Seq(Messages) /\ Len(requests') = Len(requests) - 1
      /\ \A i \in 1 .. Len(requests) - 1 : requests'[i] = requests[i + 1]
  BY TailOf DEF ConsoleTypeInv, LinkTypes, NetworkStep
<1>2. DOMAIN requests = 1 .. Len(requests) /\ DOMAIN requests' = 1 .. Len(requests) - 1
  BY <1>1
<1>3. Move /\ (m.kind # "MT_PREARM" => UNCHANGED vars \/ ~ProcessPreArm)
      /\ (m.kind = "MT_STATE_CHANGE_REQ" => ProcessStateChangeRequest(m.word))
  BY NetworkReports
<1> HIDE DEF m
<1>5. CodesOvertaken(requests)
  BY DEF SafeInv
<1>6. ASSUME NEW j \in DOMAIN requests, j > 1, requests[j] = SafeRequest
      PROVE  j - 1 \in DOMAIN requests' /\ requests'[j - 1] = SafeRequest
  <2>1. j - 1 \in 1 .. Len(requests) - 1 /\ (j - 1) + 1 = j
    BY <1>1, <1>2, <1>6
  <2> QED BY <1>1, <1>2, <1>6, <2>1
<1>7. CodesOvertaken(requests')
  <2>1. SUFFICES ASSUME NEW i \in DOMAIN requests', requests'[i] = PreArmCode
                 PROVE  \E j \in DOMAIN requests' : j > i /\ requests'[j] = SafeRequest
    BY DEF CodesOvertaken
  <2>2. i + 1 \in DOMAIN requests /\ requests[i + 1] = PreArmCode /\ i \in Nat \ {0}
    BY <1>1, <1>2, <2>1
  <2>3. PICK j \in DOMAIN requests : j > i + 1 /\ requests[j] = SafeRequest
    BY <1>5, <2>2 DEF CodesOvertaken
  <2>4. j \in Nat /\ j > 1 /\ j - 1 > i
    BY <1>2, <2>2, <2>3
  <2> QED BY <1>6, <2>3, <2>4
<1>8. ASSUME Only("SAFE") \notin Words(requests'),
             Only("SAFE") \in Words(requests) \/ SystemState.base = "SAFE"
      PROVE  SystemState'.base = "SAFE" \/ LateAssignment
  <2>1. ASSUME NEW j \in DOMAIN requests, j > 1 PROVE requests[j] # SafeRequest
    BY <1>6, <1>8, <2>1, SafeAmongWords
  <2>2. CASE m = SafeRequest
    <3>1. m.kind = "MT_STATE_CHANGE_REQ" /\ m.word = Only("SAFE")
      BY <2>2 DEF SafeRequest, StateRequest
    <3>2. ProcessStateChangeRequest(Only("SAFE"))
      BY <1>3, <3>1
    <3>3. RequestSafe
      BY <3>2 DEF ProcessStateChangeRequest, RequestRefused, Only
    <3> QED BY <3>3 DEF RequestSafe, Settle, Only
  <2>3. CASE m # SafeRequest
    <3>1. \A j \in DOMAIN requests : requests[j] # SafeRequest
      BY <1>1, <1>2, <2>1, <2>3
    <3>2. SystemState.base = "SAFE"
      BY <1>1, <1>8, <3>1, WordsAreRequests
    <3>3. m.kind # "MT_PREARM"
      <4>1. 1 \in DOMAIN requests
        BY <1>1, <1>2
      <4> QED BY <1>1, <1>5, <3>1, <4>1, MessageKinds DEF CodesOvertaken
    <3>4. CASE UNCHANGED vars
      BY <3>2, <3>4 DEF vars
    <3>5. CASE ~ProcessPreArm
      BY <1>3, <3>2, <3>5, SafeStays DEF ConsoleTypeInv
    <3> QED BY <1>3, <3>3, <3>4, <3>5
  <2> QED BY <2>2, <2>3
<1> QED BY <1>7, <1>8

LEMMA ConsoleNextSafe ==
    ASSUME ConsoleTypeInv, UninterruptedInv, SafeInv, [ConsoleNext]_consoleVars
    PROVE  /\ SafeInv'
           /\ /\ stoodDown' /\ Only("SAFE") \notin Words(requests')
              /\ Only("SAFE") \in Words(requests) \/ SystemState.base = "SAFE"
              => SystemState'.base = "SAFE" \/ LateAssignment
<1>1. CASE OnConnect
  <2>1. Only("SAFE") \in Words(requests')
    BY <1>1, ConnectSends, SafeAmongWords DEF SafeRequest
  <2>2. \A i \in DOMAIN requests' : requests'[i] # PreArmCode
    BY <1>1, ConnectSends DEF StateRequest, PreArmCode
  <2> QED BY <2>1, <2>2 DEF SafeInv, CodesOvertaken
<1>2. CASE Server
  <2>1. Move /\ stoodDown' = stoodDown
    BY <1>2, ServerReports
  <2>2. CASE NetworkStep
    BY <2>1, <2>2, NetworkSafe DEF SafeInv
  <2>3. CASE ~NetworkStep
    <3>1. UNCHANGED requests /\ ~ProcessPreArm
      BY <1>2, <2>3, ServerReports
    <3>2. SafeInv'
      BY <2>1, <3>1 DEF SafeInv
    <3> QED BY <2>1, <3>1, <3>2, SafeStays DEF ConsoleTypeInv
  <2> QED BY <2>2, <2>3
<1>3. CASE ShowState \/ WriteReport \/ UNCHANGED consoleVars
  <2>1. UNCHANGED <<SystemState, requests, stoodDown>>
    BY <1>3 DEF ShowState, WriteReport, consoleVars, link, vars
  <2> QED BY <2>1 DEF SafeInv
<1> QED BY <1>1, <1>2, <1>3, ConsoleCases, ClickSafe

-----------------------------------------------------------------------------
(* The theorems.                                                             *)

LEMMA ConsoleInitInv == ConsoleInit => ConsoleInv
<1> SUFFICES ASSUME ConsoleInit PROVE ConsoleInv
  OBVIOUS
<1>1. UninterruptedInv
  BY InitUninterrupted DEF ConsoleInit
<1>2. /\ SystemState = Only("SAFE") /\ SystemState.base = "SAFE" /\ SystemState.flags = {}
      /\ pin17 = FALSE /\ copy = SystemState /\ offered = {} /\ ticked = {}
      /\ waiting = <<>> /\ reports = <<>> /\ stoodDown = FALSE
  BY DEF ConsoleInit, Init, Only
<1>3. WordInv
  BY <1>2 DEF WordInv, Plain
<1>4. NewestInv
  BY <1>2 DEF NewestInv, Newest, LastShown
<1>5. Len(waiting) = 0 /\ Len(reports) = 0
  BY <1>2
<1>6. ShownInv
  BY <1>2, <1>5 DEF ShownInv, ReportsFollow, WaitingFollow, BoxesAgree, ModeBoxes
<1>7. SafeInv
  BY <1>2 DEF SafeInv
<1> QED BY <1>1, <1>3, <1>4, <1>6, <1>7 DEF ConsoleInv

LEMMA ConsoleNextInv ==
    ConsoleTypeInv /\ ConsoleTypeInv' /\ ConsoleInv /\ [ConsoleNext]_consoleVars => ConsoleInv'
BY ConsoleNextWord, ConsoleNextNewest, ConsoleNextShown, ConsoleNextSafe DEF ConsoleInv

LEMMA ConsoleSpecInv == ConsoleSpec => [](ConsoleTypeInv /\ ConsoleInv)
<1>1. ConsoleTypeInv /\ [ConsoleNext]_consoleVars => ConsoleTypeInv'
  BY ConsoleNextTypes
<1> QED BY <1>1, ConsoleInitTypes, ConsoleInitInv, ConsoleNextInv, PTL DEF ConsoleSpec

\* However many clicks and reports there are, with nothing on its way the window
\* shows the server's state, unless a report has overtaken another.
THEOREM WindowTruthful == ConsoleSpec => []WindowIsTruthful
<1>1. ConsoleTypeInv /\ ConsoleInv => WindowIsTruthful
  <2> SUFFICES ASSUME ConsoleTypeInv, ConsoleInv, Quiet, ~overtaken
               PROVE  /\ copy = SystemState
                      /\ ~interrupted =>
                            /\ offered = ModeBoxes(SystemState.base)
                            /\ "manual" \in ticked <=> SystemState.base = "ARMED_MANUAL"
                            /\ "auto" \in ticked <=> SystemState.base = "ENGAGE_AUTO"
                            /\ "laser" \in ticked <=> pin18
                            /\ "calib" \in ticked <=> CalibrateWasOn
                            /\ ~overruled => ("FIRING" \in copy.flags <=> pin17)
    BY DEF WindowIsTruthful
  <2>1. requests = <<>> /\ waiting = <<>> /\ reports = <<>>
    BY DEF Quiet
  <2>2. ~Asked
    <3>1. DOMAIN requests = {}
      BY <2>1
    <3> QED BY <3>1 DEF Asked
  <2>3. Newest = copy
    BY <2>1 DEF Newest, LastShown
  <2>4. copy = SystemState
    BY <2>2, <2>3 DEF ConsoleInv, NewestInv
  <2>5. ASSUME ~interrupted
        PROVE  /\ BoxesAgree /\ LaserPinIsItsFlag /\ CalibrationRemembered
               /\ ~overruled => ("FIRING" \in SystemState.flags <=> pin17)
    BY <2>5 DEF ConsoleInv, ShownInv, WordInv, UninterruptedInv, OutputsAgree
  <2> QED BY <2>1, <2>2, <2>4, <2>5 DEF BoxesAgree, LaserPinIsItsFlag, CalibrationRemembered
<1> QED BY <1>1, ConsoleSpecInv, PTL

\* However many clicks and requests there are, on whatever the window then showed: when
\* the safe button's request is received the server becomes SAFE, and while that button
\* remains the last word on arming it stays so, but for a late assignment.
THEOREM SafeClickWins == ConsoleSpec => SafeClickHolds
<1>1. ConsoleTypeInv /\ ConsoleInv /\ [ConsoleNext]_consoleVars =>
        [/\ stoodDown' /\ Only("SAFE") \notin Words(requests')
         /\ Only("SAFE") \in Words(requests) \/ SystemState.base = "SAFE"
         => SystemState'.base = "SAFE" \/ LateAssignment]_consoleVars
  BY ConsoleNextSafe DEF ConsoleInv
<1> QED BY <1>1, ConsoleSpecInv, PTL DEF ConsoleSpec, SafeClickHolds
=============================================================================
