----------------------------- MODULE Interlock -----------------------------
(***************************************************************************)
(* The fire interlock at the level of single reads and writes.             *)
(*                                                                         *)
(* fire(), laser() and armed() read, change and write back the state word  *)
(* under GPIO_Mutex, but fire() tests the word before it takes the mutex,  *)
(* and the handlers and the main thread assign the word without it.  Each  *)
(* thread has a queue of operations, put there whole by a message, a frame *)
(* or a wakeup and carried out one access at a time.                       *)
(*                                                                         *)
(* The operator is logged in, has sent an order of one target and asks for *)
(* no flags; Cannon has the logins, the orders and the stages of tracking. *)
(* calibrate(), always next to a laser() that makes the same accesses, and *)
(* the laser's pin are left to it too.                                     *)
(***************************************************************************)
EXTENDS Integers, Sequences, CannonState

CONSTANT Messages      \* the operator's messages that are explored

ASSUME MessagesAssumption ==
    Messages \subseteq {"SAFE", "PREARM_CODE", "PREARMED", "ENGAGE_AUTO", "ARMED_MANUAL",
                        "FIRE_START", "FIRE_STOP"}

Threads == {"network", "main", "engagement"}

VARIABLES
    SystemState,     \* the word
    pin17,           \* the pump
    State,           \* AutoEngage.State, tracking folded into one value
    todo,            \* what is left of each thread's current work
    holder,          \* the thread that holds GPIO_Mutex, or "nobody"
    stage,           \* where each thread stands in a locked change of the word
    register,        \* the word each thread has read for it
    assigned,        \* history: the word was assigned since fire() last finished
    operatorFires    \* history: the network thread's last fire() drove the pin high

word == <<SystemState, register, assigned>>
pins == <<pin17, operatorFires>>
vars == <<word, pins, State, todo, holder, stage>>

-----------------------------------------------------------------------------
(* Operations.                                                               *)

\* A helper's locked change of one flag, and of the pin that goes with it.
Change(flag, value) == [op |-> "change", flag |-> flag, value |-> value]

\* SystemState = base, without the mutex.
Assign(base) == [op |-> "assign", base |-> base]

\* AutoEngage.State = value.
Engage(value) == [op |-> "engage", value |-> value]

\* One read of the word, without the mutex, and what is done on either outcome.
Branch(test, yes, no) == [op |-> "branch", test |-> test, yes |-> yes, no |-> no]

\* pthread_cond_signal.
Signal == [op |-> "signal"]

Passes(test, s) ==
    CASE test = "safe only" -> s = Only("SAFE")
      [] test \in Bases -> s.base = test
      [] test \in Flags -> test \in s.flags

\* A test that the word is in one of two states reads it once or twice.
InEither(base, other, yes) == <<Branch(base, yes, <<Branch(other, yes, <<>>)>>)>>

AllOff == <<Change("LASER_ON", FALSE), Change("FIRING", FALSE)>>

\* if (SystemState & LASER_ON) laser(true); else laser(false);
RequestTail ==
    <<Branch("LASER_ON", <<Change("LASER_ON", TRUE)>>, <<Change("LASER_ON", FALSE)>>)>>

\* fire(true).
FireTrue ==
    LET refuse == <<Assign("PREARMED")>>
    IN  Branch("SAFE", refuse, <<Branch("PREARMED", refuse, <<Change("FIRING", TRUE)>>)>>)

\* ProcessCommands: pan and fire commands pass the first test, fire commands the second.
FireCommand(ops) ==
    InEither("PREARMED", "ARMED_MANUAL", <<Branch("ARMED_MANUAL", ops, <<>>)>>)

Handler(m) ==
    CASE m = "SAFE" ->
            AllOff \o <<Assign("SAFE"), Engage("NOT_ACTIVE")>> \o RequestTail
      [] m = "PREARM_CODE" ->
            <<Branch("safe only", <<Assign("PREARMED")>>, <<>>)>>
      [] m = "PREARMED" ->
            InEither("ENGAGE_AUTO", "ARMED_MANUAL",
                     AllOff \o <<Branch("ENGAGE_AUTO", <<Engage("NOT_ACTIVE")>>, <<>>),
                                 Assign("PREARMED")>>)
            \o RequestTail
      [] m = "ENGAGE_AUTO" ->
            <<Branch("PREARMED", AllOff \o <<Assign("ENGAGE_AUTO"), Engage("TRACKING")>>,
                     <<>>)>> \o RequestTail
      [] m = "ARMED_MANUAL" ->
            InEither("PREARMED", "ARMED_MANUAL",
                     <<Branch("PREARMED", AllOff, <<>>), Assign("ARMED_MANUAL")>>)
            \o RequestTail
      [] m = "FIRE_START" -> FireCommand(<<FireTrue>>)
      [] m = "FIRE_STOP" -> FireCommand(<<Change("FIRING", FALSE)>>)

\* A bug Pulse could have: it stops the pump only while the word shows it running.
PulseTrustsTheFlag ==
    <<Change("LASER_ON", TRUE), FireTrue,
      Branch("FIRING", <<Change("FIRING", FALSE)>>, <<>>),
      Change("LASER_ON", FALSE), Change("ARMED", FALSE), Engage("ENGAGEMENT_COMPLETE")>>

\* What one signalled engagement does.
Pulse ==
    <<Change("LASER_ON", TRUE), FireTrue, Change("FIRING", FALSE),
      Change("LASER_ON", FALSE), Change("ARMED", FALSE), Engage("ENGAGEMENT_COMPLETE")>>

\* The outcomes of a frame that tracks: the target out of sight, in sight, stable,
\* or skipped.  Each starts with the write of AutoEngage.State.
TrackingFrames ==
    {<<Engage("TRACKING"), Change("ARMED", FALSE)>>,
     <<Engage("TRACKING"), Change("ARMED", TRUE)>>,
     <<Engage("ENGAGEMENT_IN_PROGRESS"), Signal>>,
     <<Engage("ENGAGEMENT_COMPLETE")>>}

ListCompleted == <<Engage("NOT_ACTIVE"), Assign("PREARMED")>>

-----------------------------------------------------------------------------
Init ==
    /\ SystemState = Only("SAFE")
    /\ pin17 = FALSE /\ operatorFires = FALSE
    /\ State = "NOT_ACTIVE"
    /\ todo = [t \in Threads |-> <<>>]
    /\ holder = "nobody"
    /\ stage = [t \in Threads |-> "out"]
    /\ register = [t \in Threads |-> Only("SAFE")]
    /\ assigned = FALSE

Receive(m) ==
    /\ todo["network"] = <<>>
    /\ todo' = [todo EXCEPT !["network"] = Handler(m)]
    /\ UNCHANGED <<word, pins, State, holder, stage>>

Frame ==
    /\ todo["main"] = <<>>
    /\ \/ State = "TRACKING"
          /\ \E f \in TrackingFrames : todo' = [todo EXCEPT !["main"] = f]
       \/ State = "ENGAGEMENT_COMPLETE"
          /\ todo' = [todo EXCEPT !["main"] = ListCompleted]
    /\ UNCHANGED <<word, pins, State, holder, stage>>

\* The operation thread t is at, and what is left once it is done.
At(t, op) == todo[t] # <<>> /\ Head(todo[t]).op = op /\ stage[t] = "out"
Now(t) == Head(todo[t])
Done(t) == todo' = [todo EXCEPT ![t] = Tail(todo[t])]

DoAssign(t) ==
    /\ At(t, "assign")
    /\ SystemState' = Only(Now(t).base)
    /\ assigned' = TRUE
    /\ Done(t)
    /\ UNCHANGED <<register, pins, State, holder, stage>>

DoEngage(t) ==
    /\ At(t, "engage")
    /\ State' = Now(t).value
    /\ Done(t)
    /\ UNCHANGED <<word, pins, holder, stage>>

DoBranch(t) ==
    /\ At(t, "branch")
    /\ todo' = [todo EXCEPT ![t] =
                   (IF Passes(Now(t).test, SystemState) THEN Now(t).yes ELSE Now(t).no)
                   \o Tail(todo[t])]
    /\ UNCHANGED <<word, pins, State, holder, stage>>

\* The signal wakes the engagement thread if it waits, and is lost if it works.
DoSignal(t) ==
    /\ At(t, "signal")
    /\ todo' = [todo EXCEPT ![t] = Tail(todo[t]),
                            !["engagement"] = IF @ = <<>> THEN Pulse ELSE @]
    /\ UNCHANGED <<word, pins, State, holder, stage>>

\* A bug ChangeRead could have: it does not take the mutex first.
ChangeReadUnlocked(t) ==
    /\ At(t, "change")
    /\ holder' = t
    /\ stage' = [stage EXCEPT ![t] = "read"]
    /\ register' = [register EXCEPT ![t] = SystemState]
    /\ assigned' = (assigned /\ Now(t).flag # "FIRING")
    /\ UNCHANGED <<SystemState, pins, State, todo>>

\* A helper: lock and read, then write the word, then the pin and unlock.
ChangeRead(t) ==
    /\ At(t, "change")
    /\ holder = "nobody"
    /\ holder' = t
    /\ stage' = [stage EXCEPT ![t] = "read"]
    /\ register' = [register EXCEPT ![t] = SystemState]
    /\ assigned' = (assigned /\ Now(t).flag # "FIRING")
    /\ UNCHANGED <<SystemState, pins, State, todo>>

ChangeWrite(t) ==
    /\ stage[t] = "read"
    /\ SystemState' = IF Now(t).value THEN WithFlag(register[t], Now(t).flag)
                                      ELSE WithoutFlags(register[t], {Now(t).flag})
    /\ stage' = [stage EXCEPT ![t] = "written"]
    /\ register' = [register EXCEPT ![t] = Only("SAFE")]
    /\ UNCHANGED <<assigned, pins, State, todo, holder>>

ChangePin(t) ==
    /\ stage[t] = "written"
    /\ pin17' = IF Now(t).flag = "FIRING" THEN Now(t).value ELSE pin17
    /\ operatorFires' = IF t = "network" /\ Now(t).flag = "FIRING"
                        THEN Now(t).value ELSE operatorFires
    /\ holder' = "nobody"
    /\ stage' = [stage EXCEPT ![t] = "out"]
    /\ Done(t)
    /\ UNCHANGED <<word, State>>

Work(t) ==
    \/ DoAssign(t) \/ DoEngage(t) \/ DoBranch(t) \/ DoSignal(t)
    \/ ChangeRead(t) \/ ChangeWrite(t) \/ ChangePin(t)

Next == (\E m \in Messages : Receive(m)) \/ Frame \/ (\E t \in Threads : Work(t))

Spec == Init /\ [][Next]_vars

\* The threads run; a thread that wants the mutex gets it in the end.
LiveSpec ==
    /\ Spec
    /\ \A t \in Threads : WF_vars(Work(t)) /\ SF_vars(ChangeRead(t))

-----------------------------------------------------------------------------
\* The types, with the mutex: a thread inside a locked change is its holder.
TypeOK ==
    /\ SystemState \in SystemStates
    /\ pin17 \in BOOLEAN /\ operatorFires \in BOOLEAN
    /\ State \in EngagementStates
    /\ holder \in Threads \cup {"nobody"}
    /\ stage \in [Threads -> {"out", "read", "written"}]
    /\ \A t \in Threads : stage[t] # "out" <=> holder = t
    /\ register \in [Threads -> SystemStates]
    /\ assigned \in BOOLEAN

\* Outside the mutex the FIRING flag the operator is shown is the pump's pin, until
\* somebody assigns the word: fire(), laser() and armed() on three threads lose none
\* of each other's updates.
FlagIsThePin ==
    holder = "nobody" /\ ~assigned => (pin17 <=> "FIRING" \in SystemState.flags)

\* Whenever the pump runs, somebody is going to stop it: the engagement thread has
\* its fire(false) still to come, or the operator's own fire() started it.
SomebodyStopsThePump ==
    pin17 => \/ operatorFires
             \/ Change("FIRING", FALSE) \in {todo["engagement"][i] :
                                               i \in 1 .. Len(todo["engagement"])}

\* Unless the operator keeps firing, the pump keeps coming to rest, whatever requests
\* overtake an engagement between fire(true)'s test and fire(false).
PumpComesToRest == <>[](~operatorFires) => []<>(~pin17)
=============================================================================
