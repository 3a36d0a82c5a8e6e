---------------------------- MODULE AimingProofs ----------------------------
(* Theorems about Aiming, for every value of its constants.                  *)
EXTENDS Aiming, TLAPS

Stands == {"frame", "look", "correct", "store", "test", "tell", "judge", "idle", "lock"}

\* TypeOK is not inductive: that the stability count stays in its range needs that
\* a frame which may raise it started below the threshold.
TypeInv ==
    /\ TypeOK
    /\ at \in [Threads -> Stands]
    /\ at["main"] \in {"correct", "store", "test", "tell", "judge"}
         \/ State \in {"LOOKING_FOR_TARGET", "TRACKING"} => StableCount <= StableFrames

LEMMA BoundedRange == \A a \in Int : Bounded(a) \in Angles
BY MaxAngleAssumption DEF Bounded, Angles

LEMMA ZeroIsAnAngle == 0 \in Angles
BY MaxAngleAssumption DEF Angles

LEMMA InitTypeInv == Init => TypeInv
<1> SUFFICES ASSUME Init PROVE TypeInv
  OBVIOUS
<1>1. angle \in [Axes -> Angles] /\ told \in [Axes -> Angles] /\ value \in [Threads -> Angles]
  BY ZeroIsAnAngle DEF Init
<1>2. photo \in [Axes -> Int]
  BY MaxAngleAssumption DEF Init, Unseen
<1>3. axis \in [Threads -> Axes]
  BY DEF Init, Axes
<1>4. at \in [Threads -> Stands] /\ at["main"] = "frame" /\ at["network"] = "idle"
  BY DEF Init, Threads, Stands
<1>5. /\ target \in Places /\ State = "NOT_ACTIVE" /\ manual \in BOOLEAN
      /\ StableCount = 0 /\ last = Nowhere
      /\ adrift = {} /\ disturbed \in BOOLEAN /\ steady = 0
  BY DEF Init
<1> QED BY <1>1, <1>2, <1>3, <1>4, <1>5 DEF TypeInv, TypeOK, AimStates, Enough, StableFrames

\* The parts both threads share.
LEMMA StoreTypeInv ==
    ASSUME TypeInv, Store("main", "test") \/ Store("network", "lock")
    PROVE  TypeInv'
<1> USE DEF Store, Move, TypeInv, TypeOK, engagement, history, Threads, Stands
<1>1. angle' \in [Axes -> Angles]
  OBVIOUS
<1> QED BY <1>1

LEMMA ClampTypes ==
    ASSUME TypeInv, NEW t \in Threads, NEW from, Clamp(t, from)
    PROVE  /\ angle' \in [Axes -> Angles] /\ value' \in [Threads -> Angles]
           /\ adrift' \subseteq Axes
           /\ value'[t] = angle'[axis[t]] /\ InLimits(value'[t])
           /\ \A a \in Axes \ {axis[t]} : angle'[a] = angle[a]
           /\ \A u \in Threads \ {t} : value'[u] = value[u]
<1> DEFINE a == angle[axis[t]]
           clamped == IF a < -Limit THEN -Limit ELSE IF a > Limit THEN Limit ELSE a
<1>1. a \in Angles /\ axis[t] \in Axes
  BY DEF TypeInv, TypeOK
<1>2. clamped \in Angles /\ InLimits(clamped)
  BY <1>1, LimitAssumption, MaxAngleAssumption DEF Angles, InLimits
<1>3. angle' = [angle EXCEPT ![axis[t]] = clamped] /\ value' = [value EXCEPT ![t] = clamped]
  BY DEF Clamp
<1> HIDE DEF clamped
<1> QED BY <1>1, <1>2, <1>3 DEF Clamp, TypeInv, TypeOK

LEMMA ClampTypeInv ==
    ASSUME TypeInv, Clamp("main", "test") \/ Clamp("network", "lock")
    PROVE  TypeInv'
<1>1. "main" \in Threads /\ "network" \in Threads
  BY DEF Threads
<1>2. angle' \in [Axes -> Angles] /\ value' \in [Threads -> Angles] /\ adrift' \subseteq Axes
  BY <1>1, ClampTypes
<1> QED BY <1>1, <1>2 DEF Clamp, Move, TypeInv, TypeOK, engagement, Threads, Stands

LEMMA TellTypes ==
    ASSUME TypeInv, NEW t \in Threads, Tell(t)
    PROVE  /\ told' \in [Axes -> Angles]
           /\ told'[axis[t]] \in {value[t], angle[axis[t]]}
           /\ \A a \in Axes \ {axis[t]} : told'[a] = told[a]
           /\ UNCHANGED <<angle, target, photo, State, manual, StableCount, last, adrift,
                          disturbed, steady>>
BY DEF Tell, TypeInv, TypeOK, engagement, history

LEMMA NetworkTypeInv == ASSUME TypeInv, Network PROVE TypeInv'
<1> USE DEF TypeInv, TypeOK, Threads, Stands, Move, engagement, history, threads
<1>1. ASSUME NEW c \in Commands, Command(c) PROVE TypeInv'
  <2>1. c.axis \in Axes /\ c.step \in {-1, 1}
    BY CommandsAssumption
  <2>2. Bounded(angle[c.axis] + c.step) \in Angles
    BY <2>1, BoundedRange DEF Angles
  <2> QED BY <1>1, <2>1, <2>2 DEF Command
<1>2. CASE ProcessCommands
  <2>1. CASE Tell("network") /\ Done("network", "tell", "idle")
    BY <2>1, TellTypes, ZeroIsAnAngle DEF Done, Axes
  <2> QED BY <1>2, <2>1, StoreTypeInv, ClampTypeInv DEF ProcessCommands
<1>3. CASE Engage \/ Cancel
  BY <1>3 DEF Engage, Cancel, AimStates, Running
<1> QED BY <1>1, <1>2, <1>3 DEF Network

LEMMA MainTypeInv == ASSUME TypeInv, Main \/ Report PROVE TypeInv'
<1> USE DEF TypeInv, TypeOK, Threads, Stands, Move, engagement, history, threads, Enough, StableFrames
<1>1. CASE Grab
  <2>1. photo' \in [Axes -> Int] /\ target' \in Places /\ steady' \in 0 .. Enough
    <3>1. CASE State = "ENGAGEMENT_IN_PROGRESS"
      BY <1>1, <3>1 DEF Grab
    <3>2. CASE Search /\ photo' = Unseen
      BY <3>2, MaxAngleAssumption DEF Search, Unseen
    <3>3. CASE Search /\ photo' # Unseen
      <4>1. target' \in Places /\ photo' = [a \in Axes |-> target'[a] - told[a]]
        BY <3>3 DEF Search
      <4>2. \A a \in Axes : target'[a] - told[a] \in Int
        BY <4>1, PlacesAssumption DEF Angles
      <4> QED BY <3>3, <4>1, <4>2 DEF Search
    <3> QED BY <1>1, <3>1, <3>2, <3>3 DEF Grab
  <2>2. disturbed' \in BOOLEAN
    BY <1>1 DEF Grab
  <2> QED BY <1>1, <2>1, <2>2 DEF Grab
<1>2. ASSUME Overlook PROVE photo' \in [Axes -> Int]
  BY <1>2, MaxAngleAssumption DEF Overlook, Unseen
<1>3. CASE PassFrame
  BY <1>2, <1>3 DEF PassFrame
<1>4. CASE Look
  <2>1. Forget
    BY <1>4 DEF Look
  <2>2. StableCount' \in 0 .. StableFrames /\ (last' = Nowhere \/ last' \in [Axes -> Angles])
        /\ steady' \in 0 .. Enough
    BY <1>4, <2>1 DEF Look, Forget, Running
  <2> QED BY <1>4, <2>2 DEF Look
<1>5. CASE NotFound
  <2>1. Forget
    BY <1>5 DEF NotFound
  <2>2. StableCount' \in 0 .. StableFrames /\ (last' = Nowhere \/ last' \in [Axes -> Angles])
        /\ steady' \in 0 .. Enough
    BY <1>5, <2>1 DEF NotFound, Forget, Running
  <2> QED BY <1>2, <1>5, <2>2 DEF NotFound, AimStates, Running
<1>6. CASE Correct
  <2>1. Bounded(angle[axis["main"]] + photo[axis["main"]]) \in Angles
    BY BoundedRange DEF Angles
  <2> QED BY <1>6, <2>1 DEF Correct
<1>7. CASE WithinLimits
  BY <1>7, ClampTypeInv DEF WithinLimits
<1>8. CASE Skip
  BY <1>2, <1>8, ZeroIsAnAngle DEF Skip, Done, AimStates, Axes
<1>9. CASE TellMain
  <2>1. Tell("main") /\ "main" \in Threads
    BY <1>9 DEF TellMain
  <2>2. told' \in [Axes -> Angles] /\ UNCHANGED <<angle, target, photo, engagement, history, value>>
    BY <1>9, <2>1, TellTypes DEF TellMain
  <2>3. /\ at' \in [Threads -> Stands] /\ at'["main"] \in {"correct", "judge"}
        /\ at'["network"] = at["network"] /\ axis' \in [Threads -> Axes]
    BY <1>9 DEF TellMain, Axes
  <2>4. at["main"] = "tell"
    BY <1>9 DEF TellMain
  <2> QED BY <2>2, <2>3, <2>4
<1>10. CASE Judge
  <2>1. StableCount' \in 0 .. Enough /\ (State' = "TRACKING" => StableCount' <= StableFrames)
        /\ State' \in {"TRACKING", "ENGAGEMENT_IN_PROGRESS"}
    BY <1>10 DEF Judge, Done
  <2>2. steady' \in 0 .. Enough
    BY <1>10 DEF Judge
  <2> QED BY <1>2, <1>10, <2>1, <2>2, ZeroIsAnAngle DEF Judge, Done, AimStates, Running, Axes
<1>11. CASE Advance
  BY <1>2, <1>11 DEF Advance, AimStates, Running
<1>12. CASE Report
  BY <1>12 DEF Report, AimStates
<1> QED
  BY <1>1, <1>3, <1>4, <1>5, <1>6, <1>7, <1>8, <1>9, <1>10, <1>11, <1>12, StoreTypeInv
  DEF Main, TryToMatch

LEMMA StepTypeInv == TypeInv /\ [Next]_vars => TypeInv'
<1>1. ASSUME TypeInv, UNCHANGED vars PROVE TypeInv'
  BY <1>1 DEF vars, engagement, threads, history, TypeInv, TypeOK
<1> QED BY <1>1, NetworkTypeInv, MainTypeInv DEF Next

\* Every variable keeps its range, the stability count among them, whatever the
\* network thread writes to the engagement's state within a frame.
THEOREM TypeCorrect == Spec => []TypeOK
<1>1. TypeInv => TypeOK
  BY DEF TypeInv
<1> QED BY <1>1, InitTypeInv, StepTypeInv, PTL DEF Spec

-----------------------------------------------------------------------------
(* The angles and the servos.                                                *)

\* A thread that has assigned an angle and not yet told it.
Holds(t, a) == axis[t] = a /\ at[t] \in {"test", "lock", "tell"}

\* A thread with I2C_Mutex has an angle within the limits in hand, and it is the
\* program's unless the other thread has assigned that angle since: then that
\* thread will tell it, or leaves it adrift.
AngleInv ==
    /\ \A t \in Threads : at[t] = "tell" => InLimits(value[t])
    /\ \A t \in Threads :
         at[t] = "tell" /\ axis[t] \notin adrift /\ (\A u \in Threads \ {t} : ~Holds(u, axis[t]))
            => angle[axis[t]] = value[t]
    /\ \A a \in Axes \ adrift :
         (\A t \in Threads : ~Holds(t, a)) => angle[a] = told[a] /\ InLimits(told[a])

LEMMA InitAngles == Init => AngleInv
BY LimitAssumption DEF Init, AngleInv, Holds, InLimits, Axes, Threads

LEMMA StoreAngles ==
    ASSUME TypeInv, AngleInv, NEW t \in Threads, NEW next \in {"test", "lock"}, Store(t, next)
    PROVE  AngleInv'
<1>1. /\ at[t] = "store" /\ at'[t] = next
      /\ \A u \in Threads \ {t} : at'[u] = at[u]
  BY DEF Store, Move, TypeInv
<1>2. UNCHANGED <<told, axis, value, adrift>>
  BY DEF Store, history
<1>3. \A a \in Axes \ {axis[t]} : angle'[a] = angle[a]
  BY DEF Store, TypeInv, TypeOK
<1>4. axis \in [Threads -> Axes]
  BY DEF TypeInv, TypeOK
<1>5. \A u \in Threads, a \in Axes : Holds(u, a) => Holds(u, a)'
  BY <1>1, <1>2 DEF Holds
<1>6. Holds(t, axis[t])'
  BY <1>1, <1>2 DEF Holds
<1>7. \A a \in Axes \ adrift' :
         (\A u \in Threads : ~Holds(u, a)') => angle'[a] = told'[a] /\ InLimits(told'[a])
  BY <1>2, <1>3, <1>4, <1>5, <1>6 DEF AngleInv
<1>8. ASSUME NEW u \in Threads, at'[u] = "tell", axis'[u] \notin adrift',
             \A v \in Threads \ {u} : ~Holds(v, axis[u])'
      PROVE  angle'[axis'[u]] = value'[u]
  <2>1. u # t /\ at[u] = "tell" /\ axis[u] \in Axes /\ axis[u] # axis[t]
    BY <1>1, <1>2, <1>4, <1>8 DEF Holds
  <2>2. \A v \in Threads \ {u} : ~Holds(v, axis[u])
    BY <1>1, <1>2, <1>8 DEF Holds
  <2>3. angle[axis[u]] = value[u]
    BY <1>2, <1>8, <2>1, <2>2 DEF AngleInv
  <2> QED BY <1>2, <1>3, <2>1, <2>3
<1>9. \A u \in Threads : at'[u] = "tell" => InLimits(value'[u])
  BY <1>1, <1>2 DEF AngleInv
<1> QED BY <1>7, <1>8, <1>9 DEF AngleInv, Holds

LEMMA ClampAngles ==
    ASSUME TypeInv, AngleInv, NEW t \in Threads, NEW from \in {"test", "lock"}, Clamp(t, from)
    PROVE  AngleInv'
<1>1. /\ at[t] = from /\ at'[t] = "tell" /\ \A u \in Threads : at[u] # "tell"
      /\ \A u \in Threads \ {t} : at'[u] = at[u]
  BY DEF Clamp, Move, TypeInv
<1>2. UNCHANGED <<told, axis>> /\ adrift' = adrift \ {axis[t]}
  BY DEF Clamp
<1>3. /\ value'[t] = angle'[axis[t]] /\ InLimits(value'[t])
      /\ \A a \in Axes \ {axis[t]} : angle'[a] = angle[a]
  BY ClampTypes
<1>4. \A u \in Threads, a \in Axes : Holds(u, a)' <=> Holds(u, a)
  BY <1>1, <1>2 DEF Holds
<1>5. Holds(t, axis[t])
  BY <1>1 DEF Holds
<1>6. \A a \in Axes \ adrift' :
         (\A u \in Threads : ~Holds(u, a)') => angle'[a] = told'[a] /\ InLimits(told'[a])
  BY <1>2, <1>3, <1>4, <1>5 DEF AngleInv
<1>7. \A u \in Threads : at'[u] = "tell" => u = t
  BY <1>1
<1> QED BY <1>2, <1>3, <1>6, <1>7 DEF AngleInv, Holds

LEMMA TellAngles ==
    ASSUME TypeInv, AngleInv, NEW t \in Threads, Tell(t),
           at'[t] \notin {"test", "lock", "tell"},
           \A u \in Threads \ {t} : at'[u] = at[u] /\ axis'[u] = axis[u] /\ value'[u] = value[u]
    PROVE  AngleInv'
<1>1. /\ told'[axis[t]] \in {value[t], angle[axis[t]]}
      /\ \A a \in Axes \ {axis[t]} : told'[a] = told[a]
      /\ UNCHANGED <<angle, adrift>>
  BY TellTypes
<1>2. at[t] = "tell" /\ axis[t] \in Axes
  BY DEF Tell, TypeInv, TypeOK
<1>3. \A u \in Threads : at'[u] # "tell"
  BY <1>2 DEF TypeInv, TypeOK, Threads
<1>4. \A u \in Threads \ {t}, a \in Axes : Holds(u, a)' <=> Holds(u, a)
  BY DEF Holds
<1>5. ASSUME NEW a \in Axes \ adrift', \A u \in Threads : ~Holds(u, a)'
      PROVE  angle'[a] = told'[a] /\ InLimits(told'[a])
  <2>1. CASE a = axis[t]
    <3>1. angle[a] = value[t] /\ InLimits(value[t])
      BY <1>1, <1>2, <1>4, <1>5, <2>1 DEF AngleInv
    <3> QED BY <1>1, <2>1, <3>1
  <2>2. CASE a # axis[t]
    <3>1. \A u \in Threads : ~Holds(u, a)
      BY <1>4, <1>5, <2>2 DEF Holds
    <3> QED BY <1>1, <1>5, <2>2, <3>1 DEF AngleInv
  <2> QED BY <2>1, <2>2
<1> QED BY <1>3, <1>5 DEF AngleInv

\* A step that assigns no angle, tells none and ends no hold.
LEMMA OtherAngles ==
    ASSUME AngleInv, UNCHANGED <<angle, told, adrift>>,
           \A t \in Threads :
              \/ at'[t] = at[t] /\ axis'[t] = axis[t] /\ value'[t] = value[t]
              \/ at[t] \notin {"test", "lock", "tell"} /\ at'[t] \notin {"test", "lock", "tell"}
    PROVE  AngleInv'
<1>1. \A t \in Threads, a \in Axes : Holds(t, a)' <=> Holds(t, a)
  BY DEF Holds
<1>2. \A t \in Threads : at'[t] = "tell" => at[t] = "tell" /\ axis'[t] = axis[t] /\ value'[t] = value[t]
  OBVIOUS
<1> QED BY <1>1, <1>2 DEF AngleInv, Holds

LEMMA SkipAngles == ASSUME TypeInv, AngleInv, Skip PROVE AngleInv'
<1>1. /\ at["main"] = "test" /\ at'["main"] = "frame"
      /\ at'["network"] = at["network"] /\ axis'["network"] = axis["network"]
      /\ value'["network"] = value["network"]
  BY DEF Skip, Done, Move, TypeInv, TypeOK, Threads
<1>2. UNCHANGED <<angle, told>> /\ adrift' = adrift \cup {axis["main"]} /\ axis["main"] \in Axes
  BY DEF Skip, TypeInv, TypeOK, Threads
<1>3. \A a \in Axes : Holds("network", a)' <=> Holds("network", a)
  BY <1>1 DEF Holds
<1>4. \A a \in Axes \ {axis["main"]} : ~Holds("main", a)
  BY DEF Holds
<1>5. axis["network"] \in Axes
  BY DEF TypeInv, TypeOK, Threads
<1>6. \A a \in Axes \ adrift' :
         (\A t \in Threads : ~Holds(t, a)') => angle'[a] = told'[a] /\ InLimits(told'[a])
  BY <1>2, <1>3, <1>4 DEF AngleInv, Threads
<1>7. \A t \in Threads : at'[t] = "tell" => t = "network" /\ at["network"] = "tell"
  BY <1>1 DEF Threads
<1>8. ASSUME at["network"] = "tell", axis["network"] \notin adrift'
      PROVE  angle'[axis["network"]] = value["network"]
  <2>1. \A u \in Threads \ {"network"} : ~Holds(u, axis["network"])
    BY <1>2, <1>4, <1>5, <1>8 DEF Threads
  <2> QED BY <1>2, <1>8, <2>1 DEF AngleInv, Threads
<1> QED BY <1>1, <1>6, <1>7, <1>8 DEF AngleInv, Holds, Threads

LEMMA StepAngles == TypeInv /\ AngleInv /\ [Next]_vars => AngleInv'
<1> SUFFICES ASSUME TypeInv, AngleInv, [Next]_vars PROVE AngleInv'
  OBVIOUS
<1> USE DEF Threads
<1>a. at \in [Threads -> Stands] /\ axis \in [Threads -> Axes] /\ value \in [Threads -> Angles]
  BY DEF TypeInv, TypeOK
<1>1. CASE Store("main", "test") \/ Store("network", "lock")
  BY <1>1, StoreAngles
<1>2. CASE WithinLimits \/ Clamp("network", "lock")
  BY <1>2, ClampAngles DEF WithinLimits
<1>3. CASE TellMain
  BY <1>a, <1>3, TellAngles DEF TellMain, Move
<1>4. CASE Tell("network") /\ Done("network", "tell", "idle")
  BY <1>a, <1>4, TellAngles DEF Done, Move
<1>5. CASE Skip
  BY <1>5, SkipAngles
<1>6. CASE Grab \/ PassFrame \/ Look \/ NotFound \/ Advance
  BY <1>a, <1>6, OtherAngles DEF Grab, PassFrame, Look, NotFound, Advance, Move, history
<1>7. CASE Judge
  BY <1>a, <1>7, OtherAngles DEF Judge, Done, Move
<1>8. CASE Correct
  <2>1. at["main"] = "correct" /\ at'["main"] = "store" /\ at'["network"] = at["network"]
    BY <1>a, <1>8 DEF Correct, Move
  <2> QED BY <1>a, <1>8, <2>1, OtherAngles DEF Correct, history
<1>9. ASSUME NEW c \in Commands, Command(c) PROVE AngleInv'
  <2>1. at["network"] = "idle" /\ at'["network"] = "store" /\ at'["main"] = at["main"]
    BY <1>a, <1>9 DEF Command, Move
  <2> QED BY <1>a, <1>9, <2>1, OtherAngles DEF Command
<1>10. CASE Engage \/ Cancel \/ Report \/ UNCHANGED vars
  BY <1>10, OtherAngles DEF Engage, Cancel, Report, vars, threads, history
<1> QED
  BY <1>1, <1>2, <1>3, <1>4, <1>5, <1>6, <1>7, <1>8, <1>9, <1>10
  DEF Next, Network, ProcessCommands, Main, TryToMatch

\* Between their calls the servos stand where the program believes, and within
\* their limits, on every axis that was not skipped since it was told.
THEOREM AnglesAgree == Spec => []AgreeAtRest
<1>1. TypeInv /\ AngleInv => AgreeAtRest
  BY DEF TypeInv, TypeOK, AngleInv, Holds, AgreeAtRest, AtRest, Threads
<1> QED BY <1>1, InitTypeInv, StepTypeInv, InitAngles, StepAngles, PTL DEF Spec

-----------------------------------------------------------------------------
(* Skipped targets.                                                          *)

\* In a frame that no command disturbs, the error of an axis still to be corrected
\* is what separates its servo from the target, and the corrected angle is the
\* target's, if the angle it started from was the servo's.
FrameInv ==
    ~disturbed =>
        /\ at["network"] = "idle"
        /\ at["main"] = "look" =>
              photo = Unseen \/ \A a \in Axes : photo[a] = target[a] - told[a]
        /\ at["main"] \in {"correct", "store", "test", "tell"} /\ axis["main"] = "pan" =>
              photo["tilt"] = target["tilt"] - told["tilt"]
        /\ at["main"] = "correct" =>
              photo[axis["main"]] = target[axis["main"]] - told[axis["main"]]
        /\ at["main"] \in {"store", "test"} /\ axis["main"] \notin adrift =>
              value["main"] = target[axis["main"]]
        /\ at["main"] = "test" => angle[axis["main"]] = value["main"]

LEMMA InitFrame == Init => FrameInv
BY DEF Init, FrameInv

LEMMA MainFrame == ASSUME TypeInv, AngleInv, FrameInv, Main PROVE FrameInv'
<1> USE DEF FrameInv, Move, engagement, history
<1>a. /\ at \in [Threads -> Stands] /\ axis \in [Threads -> Axes] /\ value \in [Threads -> Angles]
      /\ angle \in [Axes -> Angles] /\ told \in [Axes -> Angles] /\ photo \in [Axes -> Int]
      /\ "main" \in Threads /\ "network" \in Threads /\ Axes = {"pan", "tilt"}
      /\ target \in [Axes -> Angles]
  BY PlacesAssumption DEF TypeInv, TypeOK, Threads, Axes, Angles
<1>1. CASE Grab
  <2>1. SUFFICES ASSUME ~disturbed'
                 PROVE  /\ at["network"] = "idle"
                        /\ photo' = Unseen \/ \A a \in Axes : photo'[a] = target'[a] - told[a]
    BY <1>a, <1>1 DEF Grab
  <2>2. at["network"] = "idle" /\ State # "ENGAGEMENT_IN_PROGRESS"
    BY <1>1, <2>1 DEF Grab
  <2>3. Search
    BY <1>1, <2>2 DEF Grab
  <2> QED BY <2>2, <2>3 DEF Search
<1>2. CASE PassFrame \/ NotFound \/ Advance
  BY <1>a, <1>2 DEF PassFrame, NotFound, Advance
<1>3. CASE Look
  BY <1>a, <1>3 DEF Look
<1>4. CASE Correct
  <2> DEFINE a == axis["main"]
  <2>1. /\ at' = [at EXCEPT !["main"] = "store"] /\ at["main"] = "correct"
        /\ value' = [value EXCEPT !["main"] = Bounded(angle[a] + photo[a])]
        /\ UNCHANGED <<angle, told, target, photo, axis, adrift, disturbed>>
    BY <1>4 DEF Correct
  <2>2. ASSUME ~disturbed, a \notin adrift PROVE value'["main"] = target[a]
    <3>1. \A t \in Threads : ~Holds(t, a)
      BY <1>a, <2>1, <2>2 DEF Holds, Threads
    <3>2. angle[a] = told[a] /\ photo[a] = target[a] - told[a]
      BY <1>a, <2>1, <2>2, <3>1 DEF AngleInv
    <3>3. Bounded(angle[a] + photo[a]) = target[a]
      BY <1>a, <3>2, MaxAngleAssumption DEF Bounded, Angles
    <3> QED BY <1>a, <2>1, <3>3
  <2> QED BY <1>a, <2>1, <2>2
<1>5. CASE Store("main", "test")
  BY <1>a, <1>5 DEF Store
<1>6. CASE WithinLimits
  <2>1. /\ at' = [at EXCEPT !["main"] = "tell"] /\ at["main"] = "test"
        /\ UNCHANGED <<told, target, photo, axis, disturbed>>
    BY <1>6 DEF WithinLimits, Clamp
  <2> QED BY <1>a, <2>1
<1>7. CASE Skip \/ Judge
  <2>1. at' = [at EXCEPT !["main"] = "frame"] /\ UNCHANGED disturbed
    BY <1>7 DEF Skip, Judge, Done
  <2> QED BY <1>a, <2>1
<1>8. CASE TellMain
  <2>1. Tell("main") /\ at["main"] = "tell"
    BY <1>8 DEF TellMain
  <2>2. /\ \A a \in Axes \ {axis["main"]} : told'[a] = told[a]
        /\ UNCHANGED <<target, photo, disturbed>>
    BY <1>a, <2>1, TellTypes
  <2>3. CASE axis["main"] = "pan"
    <3>1. /\ at'["main"] = "correct" /\ at'["network"] = at["network"]
          /\ axis'["main"] = "tilt"
      BY <1>a, <1>8, <2>3 DEF TellMain
    <3> QED BY <1>a, <2>1, <2>2, <2>3, <3>1
  <2>4. CASE axis["main"] # "pan"
    <3>1. at'["main"] = "judge" /\ at'["network"] = at["network"]
      BY <1>a, <1>8, <2>4 DEF TellMain
    <3> QED BY <2>2, <3>1
  <2> QED BY <2>3, <2>4
<1> QED BY <1>1, <1>2, <1>3, <1>4, <1>5, <1>6, <1>7, <1>8 DEF Main, TryToMatch

LEMMA StepFrame == TypeInv /\ AngleInv /\ FrameInv /\ [Next]_vars => FrameInv'
<1> SUFFICES ASSUME TypeInv, AngleInv, FrameInv, [Next]_vars PROVE FrameInv'
  OBVIOUS
<1>a. at \in [Threads -> Stands] /\ Threads = {"main", "network"}
  BY DEF TypeInv, Threads
<1>1. CASE Main
  BY <1>1, MainFrame
<1>2. ASSUME NEW c \in Commands, Command(c) PROVE FrameInv'
  BY <1>2 DEF Command, FrameInv
<1>3. CASE ProcessCommands
  <2>1. at["network"] # "idle" /\ UNCHANGED disturbed
    BY <1>3 DEF ProcessCommands, Store, Clamp, Tell, Move, history
  <2> QED BY <2>1 DEF FrameInv
<1>4. CASE Engage \/ Cancel \/ Report \/ UNCHANGED vars
  BY <1>4 DEF Engage, Cancel, Report, vars, threads, history, FrameInv
<1> QED BY <1>1, <1>2, <1>3, <1>4 DEF Next, Network

\* A target is skipped for its place only if it lies at or beyond a limit, when no
\* command disturbed the frame and the axis did not drift.
THEOREM SkipsDeserved == Spec => SkipsAreDeserved
<1> DEFINE A == Skip /\ ~disturbed /\ axis["main"] \notin adrift => ~InReach(target[axis["main"]])
<1>1. ASSUME TypeInv, FrameInv, [Next]_vars PROVE [A]_vars
  <2>1. ASSUME Skip, ~disturbed, axis["main"] \notin adrift PROVE ~InReach(target[axis["main"]])
    <3>1. at["main"] = "test" /\ \E a \in {value["main"], angle[axis["main"]]} : ~InReach(a)
      BY <2>1 DEF Skip, Done, Move
    <3> QED BY <1>1, <2>1, <3>1 DEF FrameInv
  <2> QED BY <2>1
<1> QED
  BY <1>1, InitTypeInv, StepTypeInv, InitAngles, StepAngles, InitFrame, StepFrame, PTL
  DEF Spec, SkipsAreDeserved
-----------------------------------------------------------------------------
(* Engagements.                                                              *)

InFrame == at["main"] \in {"correct", "store", "test", "tell", "judge"}

\* The main thread goes on with the target of an earlier frame.
Following == State \in {"LOOKING_FOR_TARGET", "TRACKING"} \/ InFrame

\* A frame begins with the pan axis and ends with the tilt axis.
AxisInv ==
    /\ at["main"] \in {"frame", "look"} => axis["main"] = "pan"
    /\ at["main"] = "judge" => axis["main"] = "tilt"

\* The axes the frame has told so far are no longer adrift, and after the target's
\* first frame none is.
ToldInv ==
    /\ InFrame /\ axis["main"] = "tilt" => "pan" \notin adrift
    /\ at["main"] = "tell" => axis["main"] \notin adrift
    /\ at["main"] = "judge" => adrift = {}
    /\ Following /\ last # Nowhere => adrift = {}

\* After the target's first frame, its later ones bring the servos to where it is.
ReachInv ==
    last # Nowhere =>
        /\ InFrame /\ axis["main"] = "tilt" => told["pan"] = target["pan"]
        /\ at["main"] = "tell" => value["main"] = target[axis["main"]]
        /\ at["main"] = "judge" => told = target

\* The frames the stability test has counted are frames of this place, unless the
\* frame at hand shows the target elsewhere, which the test will notice.
CountInv ==
    Following =>
        \/ StableCount = 0
        \/ StableCount <= steady /\ last = target
        \/ at["main"] # "frame" /\ photo # Unseen /\ last # target

AimInv == AxisInv /\ (~disturbed => ToldInv /\ ReachInv /\ CountInv)

LEMMA InitAim == Init => AimInv
BY DEF Init, AimInv, AxisInv, ToldInv, ReachInv, CountInv, Following, InFrame, Threads

\* A step of the network thread or a report: it cannot make the main thread follow
\* a target, and a command disturbs.
LEMMA OthersAim ==
    ASSUME TypeInv, FrameInv, AimInv, Network \/ Report \/ UNCHANGED vars
    PROVE  AimInv'
<1>a. at \in [Threads -> Stands] /\ axis \in [Threads -> Axes] /\ value \in [Threads -> Angles]
      /\ "main" \in Threads /\ "network" \in Threads
  BY DEF TypeInv, TypeOK, Threads
<1> DEFINE Aside ==
             /\ at'["main"] = at["main"] /\ axis'["main"] = axis["main"]
             /\ value'["main"] = value["main"]
             /\ ~disturbed' =>
                  /\ ~disturbed
                  /\ UNCHANGED <<told, target, photo, StableCount, last, adrift, steady>>
             /\ State' \in {"LOOKING_FOR_TARGET", "TRACKING"} => State' = State
<1>1. Aside
  <2>1. ASSUME NEW c \in Commands, Command(c) PROVE Aside
    BY <1>a, <2>1 DEF Command, Move, engagement
  <2>2. CASE ProcessCommands
    <3>1. at["network"] # "idle" /\ UNCHANGED <<disturbed, State>>
      BY <2>2 DEF ProcessCommands, Store, Clamp, Tell, Move, history, engagement
    <3>2. at'["main"] = at["main"] /\ axis'["main"] = axis["main"] /\ value'["main"] = value["main"]
      BY <1>a, <2>2 DEF ProcessCommands, Store, Clamp, Done, Move
    <3> QED BY <3>1, <3>2 DEF FrameInv
  <2>3. CASE Engage \/ Cancel \/ Report \/ UNCHANGED vars
    BY <2>3 DEF Engage, Cancel, Report, vars, threads, history, engagement
  <2> HIDE DEF Aside
  <2> QED BY <2>1, <2>2, <2>3 DEF Network
<1> QED BY <1>1 DEF AimInv, AxisInv, ToldInv, ReachInv, CountInv, Following, InFrame

\* A frame is grabbed: a target that moved is not where the last one stood.
LEMMA GrabAim == ASSUME TypeInv, AimInv, Grab PROVE AimInv'
<1>a. /\ at["main"] = "frame" /\ at'["main"] = "look" /\ axis'["main"] = axis["main"]
      /\ UNCHANGED <<told, State, StableCount, last, adrift>>
  BY DEF Grab, Move, engagement, TypeInv, Threads
<1>1. AxisInv'
  BY <1>a DEF AimInv, AxisInv
<1>2. SUFFICES ASSUME ~disturbed' PROVE ToldInv' /\ ReachInv' /\ CountInv'
  BY <1>1 DEF AimInv
<1>3. SUFFICES ASSUME State \in {"LOOKING_FOR_TARGET", "TRACKING"}
               PROVE  ToldInv' /\ ReachInv' /\ CountInv'
  BY <1>a DEF ToldInv, ReachInv, CountInv, Following, InFrame
<1>4. ~disturbed /\ Search
  BY <1>2, <1>3 DEF Grab
<1>5. ToldInv' /\ ReachInv'
  BY <1>a, <1>3, <1>4 DEF AimInv, ToldInv, ReachInv, Following, InFrame
<1>6. StableCount = 0 \/ (StableCount <= steady /\ last = target)
  BY <1>a, <1>3, <1>4 DEF AimInv, CountInv, Following
<1>7. CASE photo' = Unseen /\ UNCHANGED <<target, steady>>
  BY <1>a, <1>5, <1>6, <1>7 DEF CountInv
<1>8. CASE /\ target' \in Places /\ photo' = [a \in Axes |-> target'[a] - told[a]]
           /\ steady' = IF target' = target THEN steady ELSE 0
  <2>1. photo' # Unseen
    <3>1. target'["pan"] \in Angles /\ told["pan"] \in Angles /\ "pan" \in Axes
      BY <1>8, PlacesAssumption DEF TypeInv, TypeOK, Angles, Axes
    <3>2. photo'["pan"] # Unseen["pan"]
      BY <1>8, <3>1, MaxAngleAssumption DEF Unseen, Angles
    <3> QED BY <3>2
  <2> QED BY <1>a, <1>5, <1>6, <1>8, <2>1 DEF CountInv
<1> QED BY <1>4, <1>7, <1>8 DEF Search

\* The frame comes to an end, or begins, without the servos.
LEMMA LookAim == ASSUME TypeInv, AimInv, PassFrame \/ Look \/ NotFound \/ Advance PROVE AimInv'
<1>a. /\ at["main"] = "look" /\ UNCHANGED <<axis, told, adrift, disturbed>>
      /\ at'["main"] \in {"frame", "correct"}
  BY DEF PassFrame, Look, NotFound, Advance, Move, history, TypeInv, Threads
<1>1. AxisInv' /\ axis["main"] = "pan"
  BY <1>a DEF AimInv, AxisInv
<1>2. SUFFICES ASSUME ~disturbed, ~disturbed' PROVE ToldInv' /\ ReachInv' /\ CountInv'
  BY <1>a, <1>1 DEF AimInv
<1>3. CASE PassFrame \/ Advance
  <2>1. at'["main"] = "frame" /\ State' \notin {"LOOKING_FOR_TARGET", "TRACKING"}
    BY <1>3 DEF PassFrame, Advance, Move, engagement, TypeInv, Threads
  <2> QED BY <2>1 DEF ToldInv, ReachInv, CountInv, Following, InFrame
<1>4. CASE Look \/ NotFound
  <2>1. /\ Forget /\ UNCHANGED target /\ State \in Running
        /\ at'["main"] = "correct" => photo # Unseen /\ UNCHANGED photo
        /\ at'["main"] = "frame" => photo = Unseen
    BY <1>4 DEF Look, NotFound, Move, TypeInv, Threads
  <2>2. CASE State = "NEW_TARGET"
    <3>1. StableCount' = 0 /\ last' = Nowhere
      BY <2>1, <2>2 DEF Forget
    <3> QED BY <1>a, <1>1, <3>1 DEF ToldInv, ReachInv, CountInv, InFrame
  <2>3. CASE State # "NEW_TARGET"
    <3>1. Following /\ UNCHANGED <<StableCount, last, steady>>
      BY <2>1, <2>3 DEF Forget, Following, Running
    <3> QED BY <1>a, <1>1, <1>2, <2>1, <3>1 DEF AimInv, ToldInv, ReachInv, CountInv, InFrame
  <2> QED BY <2>2, <2>3
<1> QED BY <1>3, <1>4

\* The aim is corrected; nothing is told yet.
LEMMA CorrectAim == ASSUME TypeInv, AimInv, Correct \/ Store("main", "test") PROVE AimInv'
<1>1. /\ UNCHANGED <<axis, told, target, photo, engagement, history>>
      /\ at["main"] \in {"correct", "store"} /\ at'["main"] \in {"store", "test"}
  BY DEF Correct, Store, Move, TypeInv, Threads
<1> QED
  BY <1>1 DEF AimInv, AxisInv, ToldInv, ReachInv, CountInv, Following, InFrame, engagement, history

\* The angle under test is the target's, and the limits leave it as it is.
LEMMA WithinAim == ASSUME TypeInv, FrameInv, AimInv, WithinLimits PROVE AimInv'
<1> DEFINE a == axis["main"]
<1>a. /\ at["main"] = "test" /\ at'["main"] = "tell" /\ adrift' = adrift \ {a}
      /\ UNCHANGED <<told, target, photo, engagement, axis, disturbed, steady>>
      /\ "main" \in Threads /\ a \in Axes
  BY DEF WithinLimits, Clamp, Move, TypeInv, TypeOK, Threads
<1>1. AxisInv'
  BY <1>a DEF AxisInv
<1>2. SUFFICES ASSUME ~disturbed PROVE ToldInv' /\ ReachInv' /\ CountInv'
  BY <1>a, <1>1 DEF AimInv
<1>3. ToldInv'
  BY <1>a, <1>2 DEF AimInv, ToldInv, Following, InFrame, engagement
<1>4. CountInv'
  BY <1>a, <1>2 DEF AimInv, CountInv, Following, InFrame, engagement
<1>5. ASSUME last # Nowhere PROVE value'["main"] = target[a]
  <2>1. a \notin adrift
    BY <1>a, <1>2, <1>5 DEF AimInv, ToldInv, Following, InFrame
  <2>2. value["main"] = target[a] /\ angle[a] = value["main"]
    BY <1>a, <1>2, <2>1 DEF FrameInv
  <2>3. InReach(angle[a])
    BY <2>2 DEF WithinLimits
  <2>4. value'["main"] = IF angle[a] < -Limit THEN -Limit
                         ELSE IF angle[a] > Limit THEN Limit ELSE angle[a]
    BY <1>a DEF WithinLimits, Clamp, TypeInv, TypeOK
  <2>5. angle[a] \in Int
    BY <1>a DEF TypeInv, TypeOK, Angles
  <2> QED BY <2>2, <2>3, <2>4, <2>5, LimitAssumption DEF InReach
<1>6. ReachInv'
  BY <1>a, <1>2, <1>5 DEF AimInv, ReachInv, InFrame, engagement
<1> QED BY <1>3, <1>4, <1>6

\* A servo is told where the target is on its axis.
LEMMA TellAim == ASSUME TypeInv, AngleInv, FrameInv, AimInv, TellMain PROVE AimInv'
<1> DEFINE a == axis["main"]
<1>a. /\ at["main"] = "tell" /\ "main" \in Threads /\ a \in Axes
      /\ UNCHANGED <<angle, target, photo, State, StableCount, last, adrift, disturbed, steady>>
      /\ told'[a] \in {value["main"], angle[a]}
      /\ \A b \in Axes \ {a} : told'[b] = told[b]
  BY TellTypes DEF TellMain, Tell, TypeInv, TypeOK, Threads
<1>b. /\ a = "pan" => at'["main"] = "correct" /\ axis'["main"] = "tilt"
      /\ a # "pan" => at'["main"] = "judge" /\ axis'["main"] = a
  BY DEF TellMain, Move, TypeInv, TypeOK, Threads
<1>1. AxisInv'
  BY <1>a, <1>b DEF AxisInv, Axes
<1>2. SUFFICES ASSUME ~disturbed PROVE ToldInv' /\ ReachInv' /\ CountInv'
  BY <1>a, <1>1 DEF AimInv
<1>3. a \notin adrift /\ adrift \subseteq Axes
  BY <1>a, <1>2 DEF AimInv, ToldInv, TypeInv, TypeOK
<1>4. ToldInv'
  BY <1>a, <1>b, <1>2, <1>3 DEF AimInv, ToldInv, Following, InFrame, Axes
<1>5. CountInv'
  BY <1>a, <1>b, <1>2 DEF AimInv, CountInv, Following, InFrame
<1>6. ASSUME last # Nowhere PROVE told'[a] = target[a]
  <2>1. \A u \in Threads \ {"main"} : ~Holds(u, a)
    BY <1>2 DEF FrameInv, Holds, Threads
  <2>2. angle[a] = value["main"]
    BY <1>a, <1>3, <2>1 DEF AngleInv
  <2>3. value["main"] = target[a]
    BY <1>a, <1>2, <1>6 DEF AimInv, ReachInv
  <2> QED BY <1>a, <2>2, <2>3
<1>7. ASSUME last # Nowhere, a = "tilt" PROVE told' = target
  <2>1. told'["pan"] = target["pan"]
    BY <1>a, <1>2, <1>7 DEF AimInv, ReachInv, InFrame, Axes
  <2>2. told' \in [Axes -> Angles] /\ target \in [Axes -> Angles]
    BY TellTypes, PlacesAssumption DEF TellMain, TypeInv, TypeOK, Threads, Angles
  <2> QED BY <1>6, <1>7, <2>1, <2>2 DEF Axes
<1>8. ReachInv'
  BY <1>a, <1>b, <1>6, <1>7 DEF ReachInv, InFrame, Axes
<1> QED BY <1>4, <1>5, <1>8

\* What the judged frame has brought about.
LEMMA JudgedAim ==
    ASSUME TypeInv, AngleInv, FrameInv, AimInv, Judge, ~disturbed
    PROVE  /\ adrift = {} /\ angle = told
           /\ last # Nowhere => told = target
           /\ Still => StableCount <= steady /\ (StableCount > 0 => last = target)
<1>1. at["main"] = "judge" /\ at["network"] = "idle"
  BY DEF Judge, Done, Move, FrameInv
<1>2. adrift = {} /\ (last # Nowhere => told = target)
  BY <1>1 DEF AimInv, ToldInv, ReachInv
<1>3. \A a \in Axes : angle[a] = told[a]
  BY <1>1, <1>2 DEF AngleInv, Holds, Threads
<1>4. angle = told
  BY <1>3 DEF TypeInv, TypeOK
<1>5. StableCount = 0 \/ (StableCount <= steady /\ last = target) \/ last # target
  BY <1>1 DEF AimInv, CountInv, Following, InFrame
<1>6. Still => StableCount <= steady /\ (StableCount > 0 => last = target)
  BY <1>2, <1>4, <1>5 DEF Still, TypeInv, TypeOK, Enough, StableFrames
<1> QED BY <1>2, <1>4, <1>6

LEMMA JudgeAim == ASSUME TypeInv, AngleInv, FrameInv, AimInv, Judge PROVE AimInv'
<1>a. /\ at'["main"] = "frame" /\ axis'["main"] = "pan" /\ last' = angle
      /\ UNCHANGED <<told, target, adrift, disturbed>>
  BY DEF Judge, Done, Move, TypeInv, TypeOK, Threads
<1>1. AxisInv'
  BY <1>a DEF AxisInv
<1>2. SUFFICES ASSUME ~disturbed PROVE ToldInv' /\ ReachInv' /\ CountInv'
  BY <1>a, <1>1 DEF AimInv
<1>3. ToldInv' /\ ReachInv'
  BY <1>a, <1>2, JudgedAim DEF ToldInv, ReachInv, InFrame
<1>4. CASE ~Still
  BY <1>3, <1>4 DEF Judge, CountInv
<1>5. CASE Still
  <2>1. last' = target' /\ StableCount <= steady
    BY <1>a, <1>2, <1>5, JudgedAim DEF Still
  <2>2. StableCount' = StableCount + 1 /\ StableCount' \in 0 .. Enough
    BY <1>5, MainTypeInv DEF Judge, Main, TryToMatch, TypeInv, TypeOK
  <2>3. StableCount' <= steady'
    BY <2>1, <2>2 DEF Judge, TypeInv, TypeOK, Enough, StableFrames
  <2> QED BY <1>3, <2>1, <2>3 DEF CountInv
<1> QED BY <1>3, <1>4, <1>5

LEMMA SkipAim == ASSUME TypeInv, Skip PROVE AimInv'
<1>1. at'["main"] = "frame" /\ axis'["main"] = "pan" /\ State' = "ENGAGEMENT_COMPLETE"
  BY DEF Skip, Done, Move, TypeInv, TypeOK, Threads
<1> QED BY <1>1 DEF AimInv, AxisInv, ToldInv, ReachInv, CountInv, Following, InFrame

LEMMA StepAim == TypeInv /\ AngleInv /\ FrameInv /\ AimInv /\ [Next]_vars => AimInv'
BY OthersAim, GrabAim, LookAim, CorrectAim, WithinAim, TellAim, JudgeAim, SkipAim
DEF Next, Main, TryToMatch

\* An engagement that no command disturbed begins with the servos at the target, in
\* the third frame or a later one that showed it at this one place.
THEOREM EngagedOnTarget == Spec => AimedWhenEngaged
<1> DEFINE A == Judge /\ State' = "ENGAGEMENT_IN_PROGRESS" /\ ~disturbed =>
                   told = target /\ steady' = Enough
<1>1. ASSUME TypeInv, AngleInv, FrameInv, AimInv, [Next]_vars PROVE [A]_vars
  <2>1. SUFFICES ASSUME Judge, State' = "ENGAGEMENT_IN_PROGRESS", ~disturbed
                 PROVE  told = target /\ steady' = Enough
    OBVIOUS
  <2>2. Still /\ StableCount + 1 > StableFrames
    BY <2>1 DEF Judge, StableFrames
  <2>3. told = target /\ StableCount <= steady
    BY <1>1, <2>1, <2>2, JudgedAim DEF Still
  <2>4. steady' = Enough
    BY <1>1, <2>1, <2>2, <2>3 DEF Judge, TypeInv, TypeOK, Enough, StableFrames
  <2> QED BY <2>3, <2>4
<1> QED
  BY <1>1, InitTypeInv, StepTypeInv, InitAngles, StepAngles, InitFrame, StepFrame,
     InitAim, StepAim, PTL
  DEF Spec, AimedWhenEngaged
-----------------------------------------------------------------------------
(* The pulse.                                                                *)

\* What each of the three divisions leaves out is less than its divisor.
LEMMA PositionRange ==
    ASSUME NEW h \in -180 .. 180
    PROVE  /\ Position(h) \in Nat
           /\ 360 * Position(h) <= 4095 * (h + 180)
           /\ 4095 * (h + 180) < 360 * Position(h) + 360
BY DEF Position, Steps, HalfCircle

LEMMA PulseRange ==
    ASSUME NEW h \in -180 .. 180
    PROVE  /\ Pulse(h) \in Nat
           /\ 4095 * (Pulse(h) - 153) <= 307 * Position(h)
           /\ 307 * Position(h) < 4095 * (Pulse(h) - 153) + 4095
BY PositionRange DEF Pulse, Steps, HighPulse, LowPulse

LEMMA ExactRange ==
    ASSUME NEW h \in -180 .. 180
    PROVE  /\ ExactPulse(h) \in Nat
           /\ 360 * (ExactPulse(h) - 153) <= 307 * (h + 180)
           /\ 307 * (h + 180) < 360 * (ExactPulse(h) - 153) + 360
BY DEF ExactPulse, HalfCircle, HighPulse, LowPulse

\* The whole half circle: the driver's two divisions lose one count at most, and no
\* command of two steps is lost.
LEMMA AllAnglesFaithful == FaithfulAngles = -180 .. 178
<1> SUFFICES ASSUME NEW h \in -180 .. 178 PROVE h \in FaithfulAngles
  BY DEF FaithfulAngles
<1>a. h \in -180 .. 180 /\ h + 1 \in -180 .. 180 /\ h + 2 \in -180 .. 180
  OBVIOUS
<1>1. Pulse(h) \in {ExactPulse(h) - 1, ExactPulse(h)}
  <2> DEFINE p == Pulse(h)
             q == Position(h)
             e == ExactPulse(h)
  <2>1. p \in Int /\ q \in Int /\ e \in Int /\ h \in Int
    BY <1>a, PositionRange, PulseRange, ExactRange
  <2>2. 360 * q <= 4095 * (h + 180) /\ 4095 * (h + 180) < 360 * q + 360
    BY <1>a, PositionRange
  <2>3. 4095 * (p - 153) <= 307 * q /\ 307 * q < 4095 * (p - 153) + 4095
    BY <1>a, PulseRange
  <2>4. 360 * (e - 153) <= 307 * (h + 180) /\ 307 * (h + 180) < 360 * (e - 153) + 360
    BY <1>a, ExactRange
  <2> HIDE DEF p, q, e
  <2>5. p < e + 1 /\ e - 1 < p + 1
    BY <2>1, <2>2, <2>3, <2>4
  <2>6. p = e - 1 \/ p = e
    BY <2>1, <2>5
  <2> QED BY <2>6 DEF p, e
<1>2. Pulse(h) < 4096
  BY <1>a, PositionRange, PulseRange
<1>3. OffHigh(h) < 16 /\ 256 * OffHigh(h) + OffLow(h) = Pulse(h)
  BY <1>a, <1>2, PulseRange DEF OffHigh, OffLow
<1>4. Pulse(h + 1) \in {Pulse(h), Pulse(h) + 1}
  <2> DEFINE p == Pulse(h)
             q == Position(h)
             pp == Pulse(h + 1)
             qq == Position(h + 1)
  <2>1. p \in Int /\ q \in Int /\ pp \in Int /\ qq \in Int /\ h \in Int
    BY <1>a, PositionRange, PulseRange
  <2>2. /\ 360 * q <= 4095 * (h + 180) /\ 4095 * (h + 180) < 360 * q + 360
        /\ 360 * qq <= 4095 * (h + 181) /\ 4095 * (h + 181) < 360 * qq + 360
    BY <1>a, PositionRange
  <2>3. /\ 4095 * (p - 153) <= 307 * q /\ 307 * q < 4095 * (p - 153) + 4095
        /\ 4095 * (pp - 153) <= 307 * qq /\ 307 * qq < 4095 * (pp - 153) + 4095
    BY <1>a, PulseRange
  <2> HIDE DEF p, q, pp, qq
  <2>4. q <= qq /\ qq <= q + 12
    BY <2>1, <2>2
  <2>5. p < pp + 1 /\ pp < p + 2
    BY <2>1, <2>3, <2>4
  <2>6. pp = p \/ pp = p + 1
    BY <2>1, <2>5
  <2> QED BY <2>6 DEF p, pp
<1>5. Pulse(h + 2) > Pulse(h)
  BY <1>a, PositionRange, PulseRange
<1> QED BY <1>1, <1>3, <1>4, <1>5 DEF FaithfulAngles

\* As long as the program's angles drift less than a quarter turn, beyond which
\* Servo::angle cuts them off, every angle a servo is told is one its pulse follows.
THEOREM PulsesFollow == ASSUME MaxAngle <= 178 PROVE Spec => []PulseFollowsTheAngle
<1>1. TypeInv => PulseFollowsTheAngle
  <2> SUFFICES ASSUME TypeInv, NEW a \in Axes PROVE told[a] \in -180 .. 178
    BY AllAnglesFaithful DEF PulseFollowsTheAngle
  <2>1. told[a] \in -MaxAngle .. MaxAngle
    BY DEF TypeInv, TypeOK, Angles
  <2> QED BY <2>1, MaxAngleAssumption
<1> QED BY <1>1, InitTypeInv, StepTypeInv, PTL DEF Spec
=============================================================================
