-------------------------- MODULE InterlockProofs --------------------------
(***************************************************************************)
(* Theorems about Interlock, for every set of messages.                    *)
(***************************************************************************)
EXTENDS Interlock, SequenceTheorems, TLAPS

-----------------------------------------------------------------------------
(* What a queue can hold.  Branches nest, at most five deep: a fire command  *)
(* tests the word three times before fire(true), which tests it twice.       *)

Tests == {"safe only"} \cup Bases \cup Flags

Plain ==
    [op : {"change"}, flag : Flags, value : BOOLEAN] \cup [op : {"assign"}, base : Bases]
    \cup [op : {"engage"}, value : EngagementStates] \cup [op : {"signal"}]

Over(S) == Plain \cup [op : {"branch"}, test : Tests, yes : Seq(S), no : Seq(S)]

Ops1 == Over(Plain)
Ops2 == Over(Ops1)
Ops3 == Over(Ops2)
Ops4 == Over(Ops3)
Ops5 == Over(Ops4)

LEMMA OverGrows ==
    ASSUME NEW S, NEW T, S \subseteq T
    PROVE  Over(S) \subseteq Over(T)
<1>1. Seq(S) \subseteq Seq(T)
  BY SeqMonotonic
<1> QED BY <1>1 DEF Over

LEMMA OpsGrow ==
    /\ Plain \subseteq Ops1 /\ Ops1 \subseteq Ops2 /\ Ops2 \subseteq Ops3
    /\ Ops3 \subseteq Ops4 /\ Ops4 \subseteq Ops5
<1>1. Plain \subseteq Ops1
  BY DEF Over, Ops1
<1>2. Ops1 \subseteq Ops2
  BY <1>1, OverGrows DEF Ops1, Ops2
<1>3. Ops2 \subseteq Ops3
  BY <1>2, OverGrows DEF Ops2, Ops3
<1>4. Ops3 \subseteq Ops4
  BY <1>3, OverGrows DEF Ops3, Ops4
<1>5. Ops4 \subseteq Ops5
  BY <1>4, OverGrows DEF Ops4, Ops5
<1> QED BY <1>1, <1>2, <1>3, <1>4, <1>5

\* An operation that is no branch is as its name says.
LEMMA OpFields ==
    ASSUME NEW o \in Ops5
    PROVE  /\ o.op = "change" => o.flag \in Flags /\ o.value \in BOOLEAN
           /\ o.op = "assign" => o.base \in Bases
           /\ o.op = "engage" => o.value \in EngagementStates
           /\ o.op = "branch" => o.yes \in Seq(Ops4) /\ o.no \in Seq(Ops4)
  BY DEF Ops5, Over, Plain

-----------------------------------------------------------------------------
(* The queues the handlers, the frames and the pulse are made of.            *)

LEMMA ShortQueues ==
    ASSUME NEW S
    PROVE  /\ <<>> \in Seq(S)
           /\ \A a \in S : <<a>> \in Seq(S)
           /\ \A a, b \in S : <<a, b>> \in Seq(S)
  OBVIOUS

LEMMA PlainOps ==
    /\ \A f \in Flags, v \in BOOLEAN : Change(f, v) \in Plain
    /\ \A b \in Bases : Assign(b) \in Plain
    /\ \A v \in EngagementStates : Engage(v) \in Plain
    /\ Signal \in Plain
  BY DEF Plain, Change, Assign, Engage, Signal

LEMMA BranchOver ==
    ASSUME NEW S, NEW test \in Tests, NEW yes \in Seq(S), NEW no \in Seq(S)
    PROVE  Branch(test, yes, no) \in Over(S)
  BY DEF Branch, Over

LEMMA InEitherOver ==
    ASSUME NEW S, NEW base \in Bases, NEW other \in Bases, NEW yes \in Seq(S),
           S \subseteq Over(S)
    PROVE  InEither(base, other, yes) \in Seq(Over(Over(S)))
<1>1. base \in Tests /\ other \in Tests
  BY DEF Tests
<1>2. <<>> \in Seq(S)
  OBVIOUS
<1>3. Branch(other, yes, <<>>) \in Over(S)
  BY <1>1, <1>2, BranchOver
<1>4. <<Branch(other, yes, <<>>)>> \in Seq(Over(S))
  BY <1>3
<1>5. yes \in Seq(Over(S))
  BY SeqMonotonic
<1>6. Branch(base, yes, <<Branch(other, yes, <<>>)>>) \in Over(Over(S))
  BY <1>1, <1>4, <1>5, BranchOver
<1> QED BY <1>6 DEF InEither

LEMMA Words ==
    /\ "SAFE" \in Bases /\ "PREARMED" \in Bases /\ "ENGAGE_AUTO" \in Bases
    /\ "ARMED_MANUAL" \in Bases
    /\ "LASER_ON" \in Flags /\ "FIRING" \in Flags /\ "ARMED" \in Flags
    /\ "NOT_ACTIVE" \in EngagementStates /\ "TRACKING" \in EngagementStates
    /\ "ENGAGEMENT_IN_PROGRESS" \in EngagementStates
    /\ "ENGAGEMENT_COMPLETE" \in EngagementStates
    /\ Bases \subseteq Tests /\ Flags \subseteq Tests /\ "safe only" \in Tests
    /\ TRUE \in BOOLEAN /\ FALSE \in BOOLEAN
  BY DEF Bases, Flags, EngagementStates, Tests

LEMMA AllOffOps == AllOff \in Seq(Plain)
<1>1. Change("LASER_ON", FALSE) \in Plain /\ Change("FIRING", FALSE) \in Plain
  BY Words, PlainOps
<1> QED BY <1>1, ShortQueues DEF AllOff

LEMMA RequestTailOps == RequestTail \in Seq(Ops1)
<1>1. Change("LASER_ON", TRUE) \in Plain /\ Change("LASER_ON", FALSE) \in Plain
  BY Words, PlainOps
<1>2. <<Change("LASER_ON", TRUE)>> \in Seq(Plain) /\ <<Change("LASER_ON", FALSE)>> \in Seq(Plain)
  BY <1>1, ShortQueues
<1>3. Branch("LASER_ON", <<Change("LASER_ON", TRUE)>>, <<Change("LASER_ON", FALSE)>>) \in Ops1
  BY <1>2, Words, BranchOver DEF Ops1
<1> QED BY <1>3, ShortQueues DEF RequestTail

LEMMA FireTrueOps == FireTrue \in Ops2
<1>1. <<Assign("PREARMED")>> \in Seq(Plain) /\ <<Change("FIRING", TRUE)>> \in Seq(Plain)
  <2>1. Assign("PREARMED") \in Plain /\ Change("FIRING", TRUE) \in Plain
    BY Words, PlainOps
  <2> QED BY <2>1, ShortQueues
<1>2. Branch("PREARMED", <<Assign("PREARMED")>>, <<Change("FIRING", TRUE)>>) \in Ops1
  BY <1>1, Words, BranchOver DEF Ops1
<1>3. <<Branch("PREARMED", <<Assign("PREARMED")>>, <<Change("FIRING", TRUE)>>)>> \in Seq(Ops1)
  BY <1>2
<1>4. <<Assign("PREARMED")>> \in Seq(Ops1)
  BY <1>1, OpsGrow, SeqMonotonic
<1> QED BY <1>3, <1>4, Words, BranchOver DEF FireTrue, Ops2

LEMMA PulseOps == Pulse \in Seq(Ops5)
<1>1. Plain \subseteq Ops5 /\ Ops2 \subseteq Ops5
  BY OpsGrow
<1>2. /\ Change("LASER_ON", TRUE) \in Ops5 /\ FireTrue \in Ops5
      /\ Change("FIRING", FALSE) \in Ops5 /\ Change("LASER_ON", FALSE) \in Ops5
      /\ Change("ARMED", FALSE) \in Ops5 /\ Engage("ENGAGEMENT_COMPLETE") \in Ops5
  BY <1>1, FireTrueOps, Words, PlainOps
<1>3. \A a, b, c, d, e, f \in Ops5 : <<a, b, c, d, e, f>> \in Seq(Ops5)
  OBVIOUS
<1> QED BY <1>2, <1>3 DEF Pulse

LEMMA FrameOps ==
    ListCompleted \in Seq(Ops5) /\ \A f \in TrackingFrames : f \in Seq(Ops5)
<1>1. Plain \subseteq Ops5
  BY OpsGrow
<1>2. ListCompleted \in Seq(Plain)
  <2>1. Engage("NOT_ACTIVE") \in Plain /\ Assign("PREARMED") \in Plain
    BY Words, PlainOps
  <2> QED BY <2>1, ShortQueues DEF ListCompleted
<1>3. \A f \in TrackingFrames : f \in Seq(Plain)
  <2>1. /\ Engage("TRACKING") \in Plain /\ Engage("ENGAGEMENT_IN_PROGRESS") \in Plain
        /\ Engage("ENGAGEMENT_COMPLETE") \in Plain /\ Signal \in Plain
        /\ Change("ARMED", FALSE) \in Plain /\ Change("ARMED", TRUE) \in Plain
    BY Words, PlainOps
  <2> QED BY <2>1, ShortQueues DEF TrackingFrames
<1> QED BY <1>1, <1>2, <1>3, SeqMonotonic

LEMMA HandlerOps ==
    ASSUME NEW m \in Messages
    PROVE  Handler(m) \in Seq(Ops5)
<1>1. Seq(Plain) \subseteq Seq(Ops5) /\ Seq(Ops1) \subseteq Seq(Ops5) /\ Seq(Ops2) \subseteq Seq(Ops5)
      /\ Seq(Ops3) \subseteq Seq(Ops5) /\ Seq(Plain) \subseteq Seq(Ops1)
      /\ Seq(Ops2) \subseteq Seq(Ops3)
  BY OpsGrow, SeqMonotonic
<1>2. \A s, t \in Seq(Ops5) : s \o t \in Seq(Ops5)
  BY ConcatProperties
<1>3. AllOff \in Seq(Ops5) /\ RequestTail \in Seq(Ops5)
  BY <1>1, AllOffOps, RequestTailOps
<1>4. \A b \in Bases, e \in EngagementStates : <<Assign(b), Engage(e)>> \in Seq(Ops5)
  <2>1. \A b \in Bases, e \in EngagementStates : <<Assign(b), Engage(e)>> \in Seq(Plain)
    BY PlainOps, ShortQueues
  <2> QED BY <2>1, <1>1
<1>5. CASE m = "SAFE"
  BY <1>2, <1>3, <1>4, <1>5, Words DEF Handler
<1>6. CASE m = "PREARM_CODE"
  <2>1. <<Assign("PREARMED")>> \in Seq(Plain) /\ <<>> \in Seq(Plain)
    BY PlainOps, Words, ShortQueues
  <2>2. Branch("safe only", <<Assign("PREARMED")>>, <<>>) \in Ops1
    BY <2>1, BranchOver, Words DEF Ops1
  <2>3. <<Branch("safe only", <<Assign("PREARMED")>>, <<>>)>> \in Seq(Ops1)
    BY <2>2, ShortQueues
  <2> QED BY <1>1, <1>6, <2>3 DEF Handler
<1>7. CASE m = "PREARMED"
  <2> DEFINE stop == <<Branch("ENGAGE_AUTO", <<Engage("NOT_ACTIVE")>>, <<>>), Assign("PREARMED")>>
  <2>1. <<Engage("NOT_ACTIVE")>> \in Seq(Plain) /\ <<>> \in Seq(Plain) /\ Assign("PREARMED") \in Plain
    BY PlainOps, Words, ShortQueues
  <2>2. Branch("ENGAGE_AUTO", <<Engage("NOT_ACTIVE")>>, <<>>) \in Ops1
    BY <2>1, BranchOver, Words DEF Ops1
  <2>3. stop \in Seq(Ops1)
    BY <2>1, <2>2, OpsGrow, ShortQueues
  <2>4. AllOff \o stop \in Seq(Ops1)
    BY <2>3, <1>1, AllOffOps, ConcatProperties
  <2>5. InEither("ENGAGE_AUTO", "ARMED_MANUAL", AllOff \o stop) \in Seq(Ops3)
    BY <2>4, InEitherOver, OpsGrow, Words DEF Ops2, Ops3
  <2> HIDE DEF stop
  <2>6. Handler(m) = InEither("ENGAGE_AUTO", "ARMED_MANUAL", AllOff \o stop) \o RequestTail
    BY <1>7 DEF Handler, stop
  <2> QED BY <1>1, <1>2, <1>3, <2>5, <2>6
<1>8. CASE m = "ENGAGE_AUTO"
  <2> DEFINE go == <<Assign("ENGAGE_AUTO"), Engage("TRACKING")>>
  <2>1. go \in Seq(Plain) /\ <<>> \in Seq(Plain)
    BY PlainOps, Words, ShortQueues
  <2>2. AllOff \o go \in Seq(Plain)
    BY <2>1, AllOffOps, ConcatProperties
  <2>3. Branch("PREARMED", AllOff \o go, <<>>) \in Ops1
    BY <2>1, <2>2, BranchOver, Words DEF Ops1
  <2>4. <<Branch("PREARMED", AllOff \o go, <<>>)>> \in Seq(Ops5)
    BY <2>3, <1>1, ShortQueues
  <2> QED BY <1>2, <1>3, <1>8, <2>4 DEF Handler
<1>9. CASE m = "ARMED_MANUAL"
  <2> DEFINE go == <<Branch("PREARMED", AllOff, <<>>), Assign("ARMED_MANUAL")>>
  <2>1. <<>> \in Seq(Plain) /\ Assign("ARMED_MANUAL") \in Plain
    BY PlainOps, Words, ShortQueues
  <2>2. Branch("PREARMED", AllOff, <<>>) \in Ops1
    BY <2>1, AllOffOps, BranchOver, Words DEF Ops1
  <2>3. go \in Seq(Ops1)
    BY <2>1, <2>2, OpsGrow, ShortQueues
  <2>4. InEither("PREARMED", "ARMED_MANUAL", go) \in Seq(Ops3)
    BY <2>3, InEitherOver, OpsGrow, Words DEF Ops2, Ops3
  <2> HIDE DEF go
  <2>5. Handler(m) = InEither("PREARMED", "ARMED_MANUAL", go) \o RequestTail
    BY <1>9 DEF Handler, go
  <2> QED BY <1>1, <1>2, <1>3, <2>4, <2>5
<1>10. ASSUME NEW ops \in Seq(Ops2) PROVE FireCommand(ops) \in Seq(Ops5)
  <2>1. Branch("ARMED_MANUAL", ops, <<>>) \in Ops3
    BY BranchOver, ShortQueues, Words DEF Ops3
  <2>2. <<Branch("ARMED_MANUAL", ops, <<>>)>> \in Seq(Ops3)
    BY <2>1, ShortQueues
  <2> QED BY <2>2, InEitherOver, OpsGrow, Words DEF FireCommand, Ops4, Ops5
<1>11. CASE m = "FIRE_START"
  <2>1. <<FireTrue>> \in Seq(Ops2)
    BY FireTrueOps, ShortQueues
  <2> QED BY <2>1, <1>10, <1>11 DEF Handler
<1>12. CASE m = "FIRE_STOP"
  <2>1. <<Change("FIRING", FALSE)>> \in Seq(Plain)
    BY PlainOps, Words, ShortQueues
  <2>2. <<Change("FIRING", FALSE)>> \in Seq(Ops2)
    BY <2>1, OpsGrow, SeqMonotonic
  <2> QED BY <2>2, <1>10, <1>12 DEF Handler
<1> QED BY <1>5, <1>6, <1>7, <1>8, <1>9, <1>11, <1>12, MessagesAssumption DEF MessagesAssumption

-----------------------------------------------------------------------------
(* Types, and the mutex.                                                     *)

\* A thread inside a locked change has that change at the head of its queue.
QueuesInv ==
    /\ todo \in [Threads -> Seq(Ops5)]
    /\ \A t \in Threads : stage[t] # "out" => todo[t] # <<>> /\ Now(t).op = "change"

TypeInv == TypeOK /\ QueuesInv

\* The operation a thread is at, and what is left after it.
LEMMA AtOp ==
    ASSUME TypeInv, NEW t \in Threads, todo[t] # <<>>
    PROVE  Now(t) \in Ops5 /\ Tail(todo[t]) \in Seq(Ops5)
  BY HeadTailProperties DEF TypeInv, QueuesInv, Now

\* One access of a thread keeps the queues if what is left is a queue.
LEMMA QueuesKept ==
    ASSUME TypeInv, NEW t \in Threads, NEW q \in Seq(Ops5), stage[t] = "out",
           todo' = [todo EXCEPT ![t] = q], UNCHANGED stage
    PROVE  QueuesInv'
<1>1. todo' \in [Threads -> Seq(Ops5)]
  BY DEF TypeInv, QueuesInv
<1>2. ASSUME NEW u \in Threads, stage'[u] # "out"
      PROVE  todo'[u] # <<>> /\ Now(u)'.op = "change"
  <2>1. u # t /\ todo'[u] = todo[u] /\ stage[u] # "out"
    BY <1>2 DEF TypeInv, QueuesInv
  <2> QED BY <2>1 DEF TypeInv, QueuesInv, Now
<1> QED BY <1>1, <1>2 DEF QueuesInv

LEMMA InitTypeInv == Init => TypeInv
<1> SUFFICES ASSUME Init PROVE TypeInv
  OBVIOUS
<1>1. Only("SAFE") \in SystemStates
  BY DEF Only, SystemStates, Bases
<1>2. TypeOK
  BY <1>1 DEF Init, TypeOK, EngagementStates, Threads
<1>3. QueuesInv
  BY DEF Init, QueuesInv
<1> QED BY <1>2, <1>3 DEF TypeInv

LEMMA NextTypeInv == TypeInv /\ [Next]_vars => TypeInv'
<1> SUFFICES ASSUME TypeInv, [Next]_vars PROVE TypeInv'
  OBVIOUS
<1>1. ASSUME NEW m \in Messages, Receive(m) PROVE TypeInv'
  <2>1. TypeOK'
    BY <1>1 DEF Receive, word, pins, TypeInv, TypeOK
  <2>2. stage["network"] = "out" /\ "network" \in Threads
    BY <1>1 DEF Receive, TypeInv, TypeOK, QueuesInv, Threads
  <2>3. QueuesInv'
    BY <1>1, <2>2, HandlerOps, QueuesKept DEF Receive
  <2> QED BY <2>1, <2>3 DEF TypeInv
<1>2. ASSUME Frame PROVE TypeInv'
  <2>1. TypeOK'
    BY <1>2 DEF Frame, word, pins, TypeInv, TypeOK
  <2>2. stage["main"] = "out" /\ "main" \in Threads
    BY <1>2 DEF Frame, TypeInv, TypeOK, QueuesInv, Threads
  <2>3. QueuesInv'
    BY <1>2, <2>2, FrameOps, QueuesKept DEF Frame
  <2> QED BY <2>1, <2>3 DEF TypeInv
<1>3. ASSUME NEW t \in Threads, DoAssign(t) PROVE TypeInv'
  <2>1. Now(t) \in Ops5 /\ Now(t).op = "assign" /\ Tail(todo[t]) \in Seq(Ops5)
    BY <1>3, AtOp DEF DoAssign, At, Now
  <2>2. SystemState' \in SystemStates
    BY <1>3, <2>1, OpFields DEF DoAssign, Only, SystemStates
  <2>3. TypeOK'
    BY <1>3, <2>2 DEF DoAssign, pins, TypeInv, TypeOK
  <2>4. QueuesInv'
    BY <1>3, <2>1, QueuesKept DEF DoAssign, At, Done
  <2> QED BY <2>3, <2>4 DEF TypeInv
<1>4. ASSUME NEW t \in Threads, DoEngage(t) PROVE TypeInv'
  <2>1. Now(t) \in Ops5 /\ Now(t).op = "engage" /\ Tail(todo[t]) \in Seq(Ops5)
    BY <1>4, AtOp DEF DoEngage, At, Now
  <2>2. State' \in EngagementStates
    BY <1>4, <2>1, OpFields DEF DoEngage
  <2>3. TypeOK'
    BY <1>4, <2>2 DEF DoEngage, word, pins, TypeInv, TypeOK
  <2>4. QueuesInv'
    BY <1>4, <2>1, QueuesKept DEF DoEngage, At, Done
  <2> QED BY <2>3, <2>4 DEF TypeInv
<1>5. ASSUME NEW t \in Threads, DoBranch(t) PROVE TypeInv'
  <2>1. Now(t) \in Ops5 /\ Now(t).op = "branch" /\ Tail(todo[t]) \in Seq(Ops5)
    BY <1>5, AtOp DEF DoBranch, At, Now
  <2> DEFINE chosen == IF Passes(Now(t).test, SystemState) THEN Now(t).yes ELSE Now(t).no
  <2>2. chosen \in Seq(Ops5)
    <3>1. chosen \in Seq(Ops4)
      BY <2>1, OpFields
    <3> QED BY <3>1, OpsGrow, SeqMonotonic
  <2>3. TypeOK'
    BY <1>5 DEF DoBranch, word, pins, TypeInv, TypeOK
  <2> HIDE DEF chosen
  <2>4. chosen \o Tail(todo[t]) \in Seq(Ops5)
    BY <2>1, <2>2, ConcatProperties
  <2>5. /\ todo' = [todo EXCEPT ![t] = chosen \o Tail(todo[t])]
        /\ stage[t] = "out" /\ UNCHANGED stage
    BY <1>5 DEF DoBranch, At, chosen
  <2>6. QueuesInv'
    BY <2>4, <2>5, QueuesKept
  <2> QED BY <2>3, <2>6 DEF TypeInv
<1>6. ASSUME NEW t \in Threads, DoSignal(t) PROVE TypeInv'
  <2>1. Tail(todo[t]) \in Seq(Ops5) /\ "engagement" \in Threads /\ Pulse \in Seq(Ops5)
    BY <1>6, AtOp, PulseOps DEF DoSignal, At, Threads
  <2>2. TypeOK'
    BY <1>6 DEF DoSignal, word, pins, TypeInv, TypeOK
  <2>3. todo' \in [Threads -> Seq(Ops5)]
    BY <1>6, <2>1 DEF DoSignal, TypeInv, QueuesInv
  <2>4. ASSUME NEW u \in Threads, stage'[u] # "out"
        PROVE  todo'[u] # <<>> /\ Now(u)'.op = "change"
    <3>1. u # t /\ stage[u] # "out" /\ todo[u] # <<>> /\ Now(u).op = "change"
      BY <1>6, <2>4 DEF DoSignal, At, TypeInv, QueuesInv
    <3>2. todo'[u] = todo[u]
      BY <1>6, <2>1, <3>1 DEF DoSignal, TypeInv, QueuesInv
    <3> QED BY <3>1, <3>2 DEF Now
  <2> QED BY <2>2, <2>3, <2>4 DEF TypeInv, QueuesInv
<1>7. ASSUME NEW t \in Threads, ChangeRead(t) PROVE TypeInv'
  <2>1. TypeOK'
    BY <1>7 DEF ChangeRead, pins, TypeInv, TypeOK, Threads
  <2>2. QueuesInv'
    BY <1>7 DEF ChangeRead, At, Now, TypeInv, TypeOK, QueuesInv
  <2> QED BY <2>1, <2>2 DEF TypeInv
<1>8. ASSUME NEW t \in Threads, ChangeWrite(t) PROVE TypeInv'
  <2>1. Now(t) \in Ops5 /\ Now(t).op = "change" /\ Now(t).flag \in Flags
    BY <1>8, AtOp, OpFields DEF ChangeWrite, TypeInv, QueuesInv
  <2>2. register[t] \in SystemStates
    BY DEF TypeInv, TypeOK
  <2>3. SystemState' \in SystemStates
    BY <1>8, <2>1, <2>2 DEF ChangeWrite, WithFlag, WithoutFlags, SystemStates
  <2>4. Only("SAFE") \in SystemStates
    BY DEF Only, SystemStates, Bases
  <2>5. TypeOK'
    BY <1>8, <2>3, <2>4 DEF ChangeWrite, pins, TypeInv, TypeOK
  <2>6. QueuesInv'
    BY <1>8 DEF ChangeWrite, Now, TypeInv, TypeOK, QueuesInv
  <2> QED BY <2>5, <2>6 DEF TypeInv
<1>9. ASSUME NEW t \in Threads, ChangePin(t) PROVE TypeInv'
  <2>1. Now(t) \in Ops5 /\ Now(t).op = "change" /\ Now(t).value \in BOOLEAN
        /\ Tail(todo[t]) \in Seq(Ops5)
    BY <1>9, AtOp, OpFields DEF ChangePin, TypeInv, QueuesInv
  <2>2. pin17' \in BOOLEAN /\ operatorFires' \in BOOLEAN
    BY <1>9, <2>1 DEF ChangePin, TypeInv, TypeOK
  <2>3. \A u \in Threads : stage'[u] # "out" <=> holder' = u
    BY <1>9 DEF ChangePin, TypeInv, TypeOK, Threads
  <2>4. TypeOK'
    BY <1>9, <2>2, <2>3 DEF ChangePin, word, TypeInv, TypeOK
  <2>5. todo' \in [Threads -> Seq(Ops5)]
    BY <1>9, <2>1 DEF ChangePin, Done, TypeInv, QueuesInv
  <2>6. QueuesInv'
    BY <1>9, <2>5 DEF ChangePin, Done, Now, TypeInv, TypeOK, QueuesInv
  <2> QED BY <2>4, <2>6 DEF TypeInv
<1>10. ASSUME UNCHANGED vars PROVE TypeInv'
  BY <1>10 DEF vars, word, pins, TypeInv, TypeOK, QueuesInv, Now
<1> QED
  BY <1>1, <1>2, <1>3, <1>4, <1>5, <1>6, <1>7, <1>8, <1>9, <1>10 DEF Next, Work

LEMMA AlwaysTypeInv == Spec => []TypeInv
  BY InitTypeInv, NextTypeInv, PTL DEF Spec

\* Every variable keeps its range, and the mutex excludes: a thread inside a locked
\* change is the holder.
THEOREM TypeCorrect == Spec => []TypeOK
<1>1. TypeInv => TypeOK
  BY DEF TypeInv
<1> QED BY <1>1, AlwaysTypeInv, PTL

-----------------------------------------------------------------------------
(* The flag and the pin.  Between the read and the write of a change the     *)
(* word is what was read; between the write and the pin the word is ahead.   *)

Firing == "FIRING" \in SystemState.flags

FlagInv ==
    ~assigned =>
      /\ holder = "nobody" => (pin17 <=> Firing)
      /\ \A t \in Threads :
           /\ stage[t] = "read" =>
                /\ register[t] = SystemState
                /\ Now(t).flag # "FIRING" => (pin17 <=> Firing)
           /\ stage[t] = "written" =>
                IF Now(t).flag = "FIRING" THEN Now(t).value <=> Firing ELSE pin17 <=> Firing

\* Work outside the mutex that leaves the word and the pin alone.
LEMMA FlagKept ==
    ASSUME FlagInv, UNCHANGED <<SystemState, register, assigned, pin17, holder, stage>>,
           \A u \in Threads : stage[u] # "out" => todo'[u] = todo[u]
    PROVE  FlagInv'
  BY DEF FlagInv, Firing, Now

LEMMA NextFlagInv == TypeInv /\ FlagInv /\ [Next]_vars => FlagInv'
<1> SUFFICES ASSUME TypeInv, FlagInv, [Next]_vars PROVE FlagInv'
  OBVIOUS
<1> USE DEF Threads
<1>1. ASSUME NEW m \in Messages, Receive(m) PROVE FlagInv'
  <2>1. \A u \in Threads : stage[u] # "out" => todo'[u] = todo[u]
    BY <1>1 DEF Receive, TypeInv, QueuesInv
  <2> QED BY <1>1, <2>1, FlagKept DEF Receive, word, pins
<1>2. ASSUME Frame PROVE FlagInv'
  <2>1. \A u \in Threads : stage[u] # "out" => todo'[u] = todo[u]
    BY <1>2 DEF Frame, TypeInv, QueuesInv
  <2> QED BY <1>2, <2>1, FlagKept DEF Frame, word, pins
<1>3. ASSUME NEW t \in Threads, DoAssign(t) PROVE FlagInv'
  BY <1>3 DEF DoAssign, FlagInv
<1>4. ASSUME NEW t \in Threads, DoEngage(t) \/ DoBranch(t) PROVE FlagInv'
  <2>1. \A u \in Threads : stage[u] # "out" => todo'[u] = todo[u]
    BY <1>4 DEF DoEngage, DoBranch, At, Done, TypeInv, QueuesInv
  <2> QED BY <1>4, <2>1, FlagKept DEF DoEngage, DoBranch, word, pins
<1>5. ASSUME NEW t \in Threads, DoSignal(t) PROVE FlagInv'
  <2>1. \A u \in Threads : stage[u] # "out" => todo'[u] = todo[u]
    BY <1>5 DEF DoSignal, At, TypeInv, QueuesInv
  <2> QED BY <1>5, <2>1, FlagKept DEF DoSignal, word, pins
<1>6. ASSUME NEW t \in Threads, ChangeRead(t) PROVE FlagInv'
  <2>1. /\ \A u \in Threads : stage'[u] = IF u = t THEN "read" ELSE "out"
        /\ register'[t] = SystemState /\ holder' # "nobody" /\ holder = "nobody"
        /\ UNCHANGED <<SystemState, pin17, todo>>
        /\ assigned' = (assigned /\ Now(t).flag # "FIRING")
    BY <1>6 DEF ChangeRead, pins, TypeInv, TypeOK
  <2>2. Now(t)' = Now(t) /\ Firing' = Firing
    BY <2>1 DEF Now, Firing
  <2>3. ~assigned' /\ Now(t).flag # "FIRING" => (pin17' <=> Firing')
    BY <2>1, <2>2 DEF FlagInv
  <2> QED BY <2>1, <2>2, <2>3 DEF FlagInv
<1>7. ASSUME NEW t \in Threads, ChangeWrite(t) PROVE FlagInv'
  <2>1. /\ \A u \in Threads : stage'[u] = IF u = t THEN "written" ELSE "out"
        /\ holder' # "nobody" /\ stage[t] = "read"
        /\ UNCHANGED <<assigned, pin17, todo>>
    BY <1>7 DEF ChangeWrite, pins, TypeInv, TypeOK
  <2>2. Now(t)' = Now(t)
    BY <2>1 DEF Now
  <2>3. /\ ~assigned => register[t] = SystemState
        /\ ~assigned /\ Now(t).flag # "FIRING" => (pin17 <=> Firing)
    BY <2>1 DEF FlagInv
  <2>4. Now(t).value \in BOOLEAN /\ SystemState \in SystemStates
    BY <2>1, AtOp, OpFields DEF TypeInv, TypeOK, QueuesInv
  <2>5. ~assigned => IF Now(t).flag = "FIRING" THEN Now(t).value <=> Firing' ELSE Firing' <=> Firing
    BY <1>7, <2>3, <2>4 DEF ChangeWrite, WithFlag, WithoutFlags, Firing, SystemStates
  <2>6. ~assigned => IF Now(t).flag = "FIRING" THEN Now(t).value <=> Firing' ELSE pin17' <=> Firing'
    BY <2>1, <2>3, <2>5
  <2> QED BY <2>1, <2>2, <2>6 DEF FlagInv
<1>8. ASSUME NEW t \in Threads, ChangePin(t) PROVE FlagInv'
  <2>1. /\ \A u \in Threads : stage'[u] = "out"
        /\ stage[t] = "written"
        /\ UNCHANGED <<assigned, SystemState>>
        /\ pin17' = IF Now(t).flag = "FIRING" THEN Now(t).value ELSE pin17
    BY <1>8 DEF ChangePin, word, TypeInv, TypeOK
  <2>2. Firing' = Firing
    BY <2>1 DEF Firing
  <2>3. ~assigned => IF Now(t).flag = "FIRING" THEN Now(t).value <=> Firing ELSE pin17 <=> Firing
    BY <2>1 DEF FlagInv
  <2>4. ~assigned' => (pin17' <=> Firing')
    BY <2>1, <2>2, <2>3
  <2> QED BY <2>1, <2>4 DEF FlagInv
<1>9. ASSUME UNCHANGED vars PROVE FlagInv'
  BY <1>9, FlagKept DEF vars, word, pins
<1> QED BY <1>1, <1>2, <1>3, <1>4, <1>5, <1>6, <1>7, <1>8, <1>9 DEF Next, Work

\* Outside the mutex the FIRING flag is the pump's pin until somebody assigns the
\* word: the helpers lose none of each other's updates.
THEOREM FlagShowsThePin == Spec => []FlagIsThePin
<1>1. Init => FlagInv
  BY DEF Init, FlagInv, Firing, Only, Threads
<1>2. FlagInv => FlagIsThePin
  BY DEF FlagInv, FlagIsThePin, Firing
<1> QED BY <1>1, <1>2, InitTypeInv, NextTypeInv, NextFlagInv, PTL DEF Spec

-----------------------------------------------------------------------------
(* The end of a shot.  What can start the pump in the engagement thread's    *)
(* queue has the stop behind it, and the main thread never fires.            *)

Stop == Change("FIRING", FALSE)
Starts(o) == o.op = "branch" \/ (o.op = "change" /\ o.flag = "FIRING" /\ o.value)

StopFollows(q) ==
    \A i \in 1 .. Len(q) : Starts(q[i]) => \E j \in i + 1 .. Len(q) : q[j] = Stop

NeverFires == {o \in Plain : o.op = "change" => o.flag # "FIRING"}

StopInv ==
    /\ StopFollows(todo["engagement"])
    /\ todo["main"] \in Seq(NeverFires)
    /\ SomebodyStopsThePump

HasStop(q) == \E i \in 1 .. Len(q) : q[i] = Stop

LEMMA TailStops ==
    ASSUME NEW q \in Seq(Ops5), q # <<>>, StopFollows(q)
    PROVE  /\ StopFollows(Tail(q))
           /\ Starts(Head(q)) => HasStop(Tail(q))
           /\ HasStop(q) /\ Head(q) # Stop => HasStop(Tail(q))
<1>1. /\ Len(q) \in Nat \ {0} /\ Len(Tail(q)) = Len(q) - 1 /\ Head(q) = q[1]
      /\ \A i \in 1 .. Len(Tail(q)) : Tail(q)[i] = q[i + 1]
  BY HeadTailProperties, EmptySeq
<1>2. \A j \in 2 .. Len(q) : j - 1 \in 1 .. Len(Tail(q)) /\ Tail(q)[j - 1] = q[j]
  BY <1>1
<1>3. ASSUME NEW i \in 1 .. Len(Tail(q)), Starts(Tail(q)[i])
      PROVE  \E j \in i + 1 .. Len(Tail(q)) : Tail(q)[j] = Stop
  <2>1. PICK j \in i + 2 .. Len(q) : q[j] = Stop
    <3>1. i + 1 \in 1 .. Len(q) /\ Starts(q[i + 1])
      BY <1>1, <1>3
    <3>2. \E j \in (i + 1) + 1 .. Len(q) : q[j] = Stop
      BY <3>1 DEF StopFollows
    <3> QED BY <3>2
  <2> QED BY <1>1, <1>2, <2>1
<1>4. ASSUME Starts(Head(q)) PROVE HasStop(Tail(q))
  <2>1. PICK j \in 2 .. Len(q) : q[j] = Stop
    BY <1>1, <1>4 DEF StopFollows
  <2> QED BY <1>2, <2>1 DEF HasStop
<1>5. ASSUME HasStop(q), Head(q) # Stop PROVE HasStop(Tail(q))
  <2>1. PICK j \in 1 .. Len(q) : q[j] = Stop
    BY <1>5 DEF HasStop
  <2>2. j \in 2 .. Len(q)
    BY <1>1, <1>5, <2>1
  <2> QED BY <1>2, <2>1, <2>2 DEF HasStop
<1> QED BY <1>3, <1>4, <1>5 DEF StopFollows

\* Whatever a branch puts in front of a stop has the stop behind it.
LEMMA FrontStops ==
    ASSUME NEW s \in Seq(Ops5), NEW q \in Seq(Ops5), StopFollows(q), HasStop(q)
    PROVE  StopFollows(s \o q) /\ HasStop(s \o q)
<1>1. /\ Len(s) \in Nat /\ Len(q) \in Nat /\ Len(s \o q) = Len(s) + Len(q)
      /\ \A i \in 1 .. Len(s) + Len(q) :
            (s \o q)[i] = IF i <= Len(s) THEN s[i] ELSE q[i - Len(s)]
  BY ConcatProperties, LenProperties
<1>2. \A j \in 1 .. Len(q) : /\ j + Len(s) \in 1 .. Len(s \o q)
                             /\ (s \o q)[j + Len(s)] = q[j]
  BY <1>1
<1>3. PICK k \in 1 .. Len(q) : q[k] = Stop
  BY DEF HasStop
<1>4. ASSUME NEW i \in 1 .. Len(s \o q), Starts((s \o q)[i])
      PROVE  \E j \in i + 1 .. Len(s \o q) : (s \o q)[j] = Stop
  <2>1. CASE i <= Len(s)
    BY <1>1, <1>2, <1>3, <2>1
  <2>2. CASE ~(i <= Len(s))
    <3>1. i - Len(s) \in 1 .. Len(q) /\ Starts(q[i - Len(s)])
      BY <1>1, <1>4, <2>2
    <3>2. PICK j \in (i - Len(s)) + 1 .. Len(q) : q[j] = Stop
      BY <3>1 DEF StopFollows
    <3>3. j \in 1 .. Len(q) /\ j + Len(s) \in i + 1 .. Len(s \o q)
      BY <1>1, <3>1
    <3> QED BY <1>2, <3>2, <3>3
  <2> QED BY <2>1, <2>2
<1> QED BY <1>2, <1>3, <1>4 DEF StopFollows, HasStop

LEMMA PulseStops == StopFollows(Pulse) /\ HasStop(Pulse)
<1>1. Len(Pulse) = 6 /\ Pulse[3] = Stop
  BY DEF Pulse, Stop
<1>2. \A i \in 1 .. 6 : Starts(Pulse[i]) => i = 2
  BY DEF Pulse, Starts, Change, Engage
<1> QED BY <1>1, <1>2 DEF StopFollows, HasStop

LEMMA FramesNeverFire ==
    ListCompleted \in Seq(NeverFires) /\ \A f \in TrackingFrames : f \in Seq(NeverFires)
<1>1. /\ \A b \in Bases : Assign(b) \in NeverFires
      /\ \A v \in EngagementStates : Engage(v) \in NeverFires
      /\ Signal \in NeverFires
      /\ Change("ARMED", FALSE) \in NeverFires /\ Change("ARMED", TRUE) \in NeverFires
  <2>1. /\ \A b \in Bases : Assign(b).op = "assign"
        /\ \A v \in EngagementStates : Engage(v).op = "engage"
        /\ Signal.op = "signal"
        /\ \A v \in BOOLEAN : Change("ARMED", v).flag = "ARMED"
    BY DEF Assign, Engage, Signal, Change
  <2> QED BY <2>1, PlainOps, Words DEF NeverFires
<1>2. ListCompleted \in Seq(NeverFires)
  BY <1>1, Words, ShortQueues DEF ListCompleted
<1>3. \A f \in TrackingFrames : f \in Seq(NeverFires)
  BY <1>1, Words, ShortQueues DEF TrackingFrames
<1> QED BY <1>2, <1>3

LEMMA SomebodyIs ==
    SomebodyStopsThePump <=> (pin17 => operatorFires \/ HasStop(todo["engagement"]))
  BY DEF SomebodyStopsThePump, HasStop, Stop

\* Work that is not the stop and leaves the pins alone.
LEMMA StopKept ==
    ASSUME TypeInv, StopInv, NEW t \in Threads, todo[t] # <<>>, Now(t) # Stop,
           todo' = [todo EXCEPT ![t] = Tail(todo[t])], UNCHANGED pins
    PROVE  StopInv'
<1>1. todo[t] \in Seq(Ops5) /\ {"main", "engagement"} \subseteq Threads /\ DOMAIN todo = Threads
  BY DEF TypeInv, QueuesInv, Threads
<1>2. StopFollows(todo'["engagement"])
  BY <1>1, TailStops DEF StopInv
<1>3. todo'["main"] \in Seq(NeverFires)
  BY <1>1, HeadTailProperties DEF StopInv
<1>4. HasStop(todo["engagement"]) => HasStop(todo'["engagement"])
  BY <1>1, TailStops DEF StopInv, Now
<1>5. pin17' => operatorFires' \/ HasStop(todo'["engagement"])
  BY <1>4, SomebodyIs DEF StopInv, pins
<1>6. SomebodyStopsThePump'
  BY <1>5 DEF SomebodyStopsThePump, HasStop, Stop
<1> QED BY <1>2, <1>3, <1>6 DEF StopInv

LEMMA NextStopInv == TypeInv /\ StopInv /\ [Next]_vars => StopInv'
<1> SUFFICES ASSUME TypeInv, StopInv, [Next]_vars PROVE StopInv'
  OBVIOUS
<1>0. /\ {"main", "engagement", "network"} \subseteq Threads /\ DOMAIN todo = Threads
      /\ \A t \in Threads : todo[t] \in Seq(Ops5)
  BY DEF TypeInv, QueuesInv, Threads
<1>1. ASSUME NEW m \in Messages, Receive(m) PROVE StopInv'
  BY <1>0, <1>1 DEF Receive, pins, StopInv, SomebodyStopsThePump
<1>2. ASSUME Frame PROVE StopInv'
  <2>1. todo'["engagement"] = todo["engagement"] /\ todo'["main"] \in Seq(NeverFires)
    BY <1>0, <1>2, FramesNeverFire DEF Frame
  <2> QED BY <1>2, <2>1 DEF Frame, pins, StopInv, SomebodyStopsThePump
<1>3. ASSUME NEW t \in Threads, DoAssign(t) \/ DoEngage(t) PROVE StopInv'
  <2>1. Now(t) # Stop
    BY <1>3 DEF DoAssign, DoEngage, At, Now, Stop, Change
  <2> QED BY <1>3, <2>1, StopKept DEF DoAssign, DoEngage, At, Done
<1>4. ASSUME NEW t \in Threads, DoBranch(t) PROVE StopInv'
  <2> DEFINE chosen == IF Passes(Now(t).test, SystemState) THEN Now(t).yes ELSE Now(t).no
  <2>1. /\ Now(t) \in Ops5 /\ Now(t).op = "branch" /\ todo[t] # <<>>
        /\ Tail(todo[t]) \in Seq(Ops5)
    BY <1>4, AtOp DEF DoBranch, At, Now
  <2>2. chosen \in Seq(Ops5)
    <3>1. chosen \in Seq(Ops4)
      BY <2>1, OpFields
    <3> QED BY <3>1, OpsGrow, SeqMonotonic
  <2>3. todo' = [todo EXCEPT ![t] = chosen \o Tail(todo[t])] /\ UNCHANGED pins
    BY <1>4 DEF DoBranch
  <2> HIDE DEF chosen
  <2>4. t # "main"
    <3>1. ASSUME t = "main" PROVE FALSE
      <4>1. Now(t) \in NeverFires
        BY <2>1, <3>1, HeadTailProperties DEF StopInv, Now
      <4> QED BY <2>1, <4>1 DEF NeverFires, Plain
    <3> QED BY <3>1
  <2>5. CASE t = "network"
    BY <1>0, <2>3, <2>5 DEF pins, StopInv, SomebodyStopsThePump
  <2>6. CASE t = "engagement"
    <3>1. StopFollows(Tail(todo[t])) /\ HasStop(Tail(todo[t]))
      BY <1>0, <2>1, <2>6, TailStops DEF StopInv, Starts, Now
    <3>2. StopFollows(todo'["engagement"]) /\ HasStop(todo'["engagement"])
      BY <1>0, <2>1, <2>2, <2>3, <2>6, <3>1, FrontStops
    <3>3. todo'["main"] = todo["main"]
      BY <1>0, <2>3, <2>6
    <3> QED BY <3>2, <3>3 DEF StopInv, SomebodyStopsThePump, HasStop, Stop
  <2> QED BY <2>4, <2>5, <2>6 DEF Threads
<1>5. ASSUME NEW t \in Threads, DoSignal(t) PROVE StopInv'
  <2> DEFINE rest == IF t = "engagement" THEN Tail(todo[t]) ELSE todo["engagement"]
  <2>1. /\ Now(t).op = "signal" /\ Now(t) # Stop /\ todo[t] # <<>>
    BY <1>5 DEF DoSignal, At, Now, Stop, Change
  <2>2. todo'["engagement"] = IF rest = <<>> THEN Pulse ELSE rest
    BY <1>0, <1>5 DEF DoSignal
  <2>3. StopFollows(rest) /\ (HasStop(todo["engagement"]) => HasStop(rest))
    BY <1>0, <2>1, TailStops DEF StopInv, Now
  <2>4. /\ StopFollows(todo'["engagement"])
        /\ HasStop(todo["engagement"]) => HasStop(todo'["engagement"])
    BY <2>2, <2>3, PulseStops
  <2>5. todo'["main"] \in Seq(NeverFires)
    <3>1. CASE t = "main"
      BY <1>0, <1>5, <2>1, <3>1, HeadTailProperties DEF DoSignal, StopInv
    <3>2. CASE t # "main"
      BY <1>0, <1>5, <3>2 DEF DoSignal, StopInv
    <3> QED BY <3>1, <3>2
  <2>6. pin17' => operatorFires' \/ HasStop(todo'["engagement"])
    BY <1>5, <2>4, SomebodyIs DEF DoSignal, pins, StopInv
  <2> QED BY <2>4, <2>5, <2>6 DEF StopInv, SomebodyStopsThePump, HasStop, Stop
<1>6. ASSUME NEW t \in Threads, ChangeRead(t) \/ ChangeWrite(t) PROVE StopInv'
  <2>1. UNCHANGED <<pins, todo>>
    BY <1>6 DEF ChangeRead, ChangeWrite
  <2> QED BY <2>1 DEF pins, StopInv, SomebodyStopsThePump
<1>7. ASSUME NEW t \in Threads, ChangePin(t) PROVE StopInv'
  <2>1. /\ Now(t) \in Ops5 /\ Now(t).op = "change" /\ todo[t] # <<>>
        /\ todo' = [todo EXCEPT ![t] = Tail(todo[t])]
    BY <1>7, AtOp DEF ChangePin, Done, TypeInv, QueuesInv
  <2>2. CASE Now(t).flag # "FIRING"
    <3>1. Now(t) # Stop
      BY <2>2 DEF Stop, Change
    <3>2. UNCHANGED pins
      BY <1>7, <2>2 DEF ChangePin, pins
    <3> QED BY <2>1, <3>1, <3>2, StopKept
  <2>3. CASE Now(t).flag = "FIRING"
    <3>1. t # "main"
      <4>1. ASSUME t = "main" PROVE FALSE
        <5>1. Now(t) \in NeverFires
          BY <2>1, <4>1, HeadTailProperties DEF StopInv, Now
        <5> QED BY <2>1, <2>3, <5>1 DEF NeverFires
      <4> QED BY <4>1
    <3>2. pin17' = Now(t).value /\ (t = "network" => operatorFires' = Now(t).value)
      BY <1>7, <2>3 DEF ChangePin
    <3>3. todo'["main"] = todo["main"]
      BY <1>0, <2>1, <3>1
    <3>4. CASE t = "network"
      <4>1. todo'["engagement"] = todo["engagement"]
        BY <1>0, <2>1, <3>4
      <4> QED BY <3>2, <3>3, <3>4, <4>1 DEF StopInv, SomebodyStopsThePump
    <3>5. CASE t = "engagement"
      <4>1. todo'["engagement"] = Tail(todo[t])
        BY <1>0, <2>1, <3>5
      <4>2. StopFollows(todo'["engagement"])
        BY <1>0, <2>1, <3>5, <4>1, TailStops DEF StopInv
      <4>3. Now(t).value => HasStop(todo'["engagement"])
        BY <1>0, <2>1, <2>3, <3>5, <4>1, TailStops DEF StopInv, Starts, Now
      <4>4. pin17' => HasStop(todo'["engagement"])
        BY <3>2, <4>3
      <4> QED BY <3>3, <4>2, <4>4 DEF StopInv, SomebodyStopsThePump, HasStop, Stop
    <3> QED BY <3>1, <3>4, <3>5 DEF Threads
  <2> QED BY <2>2, <2>3
<1>8. ASSUME UNCHANGED vars PROVE StopInv'
  BY <1>8 DEF vars, pins, StopInv, SomebodyStopsThePump
<1> QED BY <1>1, <1>2, <1>3, <1>4, <1>5, <1>6, <1>7, <1>8 DEF Next, Work

\* Whenever the pump runs, the engagement thread has its fire(false) to come, or the
\* operator's own fire() started it.
THEOREM SomebodyStops == Spec => []SomebodyStopsThePump
<1>1. Init => StopInv
  BY DEF Init, StopInv, SomebodyStopsThePump, StopFollows, Threads
<1>2. StopInv => SomebodyStopsThePump
  BY DEF StopInv
<1> QED BY <1>1, <1>2, InitTypeInv, NextTypeInv, NextStopInv, PTL DEF Spec
=============================================================================
