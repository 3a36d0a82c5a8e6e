------------------------------- MODULE Locks -------------------------------
(***************************************************************************)
(* The cannon's four threads and the mutexes they share.                   *)
(*                                                                         *)
(* TCP_Mutex keeps messages whole on the one connection, I2C_Mutex keeps   *)
(* the servos and the display apart on one bus, GPIO_Mutex guards the      *)
(* flags of the state word.  Two helpers nest them in opposite orders:     *)
(* ServoAngle() reports a limit (TCP) while it holds the bus, and          *)
(* SendSystemState() updates the display (I2C), where there is one, while  *)
(* it holds the connection.                                                *)
(*                                                                         *)
(* A thread works off a queue of operations, one mutex or one write at a   *)
(* time.  The mutexes are recursive in the code, and no path here locks    *)
(* one twice: such a thread would wait for itself.  The connection does    *)
(* not block, so a read returns with or without data; a write ends, as the *)
(* client is taken to read its end.  The operator has logged in, which is  *)
(* what starts the heartbeat.                                              *)
(***************************************************************************)
EXTENDS Integers, Sequences

CONSTANT HaveOLED      \* whether OLEDInit() found a display

ASSUME HaveOLEDAssumption == HaveOLED \in BOOLEAN

Threads == {"main", "network", "engagement", "heartbeat"}
Mutexes == {"TCP", "I2C", "GPIO"}
Nobody == "nobody"

VARIABLES
    owner,       \* the thread that holds each mutex, or Nobody
    todo,        \* the operations each thread has still to do
    automatic,   \* whether the state word is ENGAGE_AUTO
    wire         \* what was written to the connection last, and by whom

vars == <<owner, todo, automatic, wire>>

-----------------------------------------------------------------------------
(* Operations, and the helpers made of them.                                 *)

Lock(m) == [op |-> "lock", mutex |-> m]
Unlock(m) == [op |-> "unlock", mutex |-> m]
Write(part) == [op |-> "write", part |-> part]
Mode(on) == [op |-> "mode", on |-> on]
Signal == [op |-> "signal"]
Handle == [op |-> "handle"]

Holding(m, ops) == <<Lock(m)>> \o ops \o <<Unlock(m)>>

\* A bug PrintfSend could have: it takes the mutex for each write and not for both.
PrintfSendLocksTwice ==
    Holding("TCP", <<Write("header")>>) \o Holding("TCP", <<Write("body")>>)

\* A bug PrintfSend could have: it returns without unlocking.
PrintfSendKeepsTheLock == <<Lock("TCP"), Write("header"), Write("body")>>

PrintfSend == Holding("TCP", <<Write("header"), Write("body")>>)

OLED_UpdateStatus == IF HaveOLED THEN Holding("I2C", <<>>) ELSE <<>>

\* A bug SendSystemState could have: it takes the bus before it looks for a display.
SendSystemStateAlwaysDraws == Holding("TCP", Holding("I2C", <<>>) \o <<Write("whole")>>)

SendSystemState == Holding("TCP", OLED_UpdateStatus \o <<Write("whole")>>)

\* SendLoginState() and SendCamState().
SendReply == Holding("TCP", <<Write("whole")>>)

\* One SSL_read, which the network thread makes with the connection locked.
ReadDataTcp == Holding("TCP", <<>>)

ServoAngle(limited) == Holding("I2C", IF limited THEN PrintfSend ELSE <<>>)

\* fire(), laser(), armed() or calibrate(), past fire()'s own test; or several of
\* them in a row, with nothing held and nothing else done in between.
Change == Holding("GPIO", <<>>)

-----------------------------------------------------------------------------
(* What each thread may take on.                                             *)

\* TryToMatch() moves a servo only inside the limits, so it reports none.
TrackingFrames ==
    LET Aim == ServoAngle(FALSE) \o ServoAngle(FALSE)
    IN {PrintfSend \o PrintfSend,                               \* skipped on pan
        ServoAngle(FALSE) \o PrintfSend \o PrintfSend,          \* skipped on tilt
        Change \o SendSystemState \o PrintfSend,                \* out of sight
        Aim,                                                    \* as the frame before
        Aim \o Change \o SendSystemState \o PrintfSend,         \* in sight
        Aim \o PrintfSend \o <<Signal>>}                        \* stable

ListCompleted == <<Mode(FALSE)>> \o SendSystemState \o PrintfSend

TcpSendImageAsJpeg == Holding("TCP", <<Write("header"), Write("body")>>)

Frames ==
    LET Engaging == IF automatic THEN TrackingFrames \cup {ListCompleted} ELSE {}
    IN UNION {{work, work \o TcpSendImageAsJpeg} : work \in Engaging \cup {<<>>}} \ {<<>>}

\* A state request that is granted: off with the outputs, assign, follow the flags.
Granted(on) ==
    Change \o <<Mode(on)>> \o Change \o SendSystemState

\* What the handler of a message does; none if the message is still incomplete, or
\* asks for nothing that is sent or locked.
Messages ==
    {<<>>,
     SendReply,                                                 \* login, camera
     PrintfSend,                                                \* a code or an order refused
     PrintfSend \o Change \o SendSystemState,          \* a request refused
     Granted(FALSE), Granted(TRUE)}
    \cup (IF automatic THEN {}
          ELSE {ServoAngle(FALSE), ServoAngle(TRUE),            \* pan or tilt
                Change \o SendSystemState})                     \* fire

\* From laser(true) to the message that a target is engaged.
Pulse ==
    Change \o SendSystemState \o Change \o SendSystemState
    \o Change \o SendSystemState \o PrintfSend

HeartBeat == Holding("TCP", <<Write("whole")>>)

-----------------------------------------------------------------------------
Init ==
    /\ owner = [m \in Mutexes |-> Nobody]
    /\ todo = [t \in Threads |-> <<>>]
    /\ automatic = FALSE
    /\ wire = [by |-> "network", part |-> "whole"]

TakeOn(t, jobs) ==
    /\ todo[t] = <<>>
    /\ \E job \in jobs : todo' = [todo EXCEPT ![t] = job]
    /\ UNCHANGED <<owner, automatic, wire>>

Frame == TakeOn("main", Frames)
Receive == TakeOn("network", {ReadDataTcp \o <<Handle>>})
Beat == TakeOn("heartbeat", {HeartBeat})

At(t, op) == todo[t] # <<>> /\ Head(todo[t]).op = op
Now(t) == Head(todo[t])
Done(t) == todo' = [todo EXCEPT ![t] = Tail(todo[t])]

Acquire(t) ==
    /\ At(t, "lock")
    /\ owner[Now(t).mutex] = Nobody
    /\ owner' = [owner EXCEPT ![Now(t).mutex] = t]
    /\ Done(t)
    /\ UNCHANGED <<automatic, wire>>

Release(t) ==
    /\ At(t, "unlock")
    /\ owner' = [owner EXCEPT ![Now(t).mutex] = Nobody]
    /\ Done(t)
    /\ UNCHANGED <<automatic, wire>>

WriteDataTcp(t) ==
    /\ At(t, "write")
    /\ wire' = [by |-> t, part |-> Now(t).part]
    /\ Done(t)
    /\ UNCHANGED <<owner, automatic>>

ChangeMode(t) ==
    /\ At(t, "mode")
    /\ automatic' = Now(t).on
    /\ Done(t)
    /\ UNCHANGED <<owner, wire>>

\* The signal wakes the engagement thread if it waits, and is lost if it works.
SignalEngagement(t) ==
    /\ At(t, "signal")
    /\ todo' = [u \in Threads |-> IF u = t THEN Tail(todo[u])
                                  ELSE IF u = "engagement" /\ todo[u] = <<>> THEN Pulse
                                  ELSE todo[u]]
    /\ UNCHANGED <<owner, automatic, wire>>

HandleMessage(t) ==
    /\ At(t, "handle")
    /\ \E handler \in Messages : todo' = [todo EXCEPT ![t] = handler]
    /\ UNCHANGED <<owner, automatic, wire>>

Work(t) ==
    \/ Acquire(t) \/ Release(t) \/ WriteDataTcp(t) \/ ChangeMode(t)
    \/ SignalEngagement(t) \/ HandleMessage(t)

Next == Frame \/ Receive \/ Beat \/ (\E t \in Threads : Work(t))

Spec == Init /\ [][Next]_vars

\* The threads run, a mutex that keeps coming free is had in the end, and the
\* heartbeat's sleep ends; nothing makes the client send or the camera deliver.
LiveSpec ==
    /\ Spec
    /\ \A t \in Threads : WF_vars(Work(t)) /\ SF_vars(Acquire(t))
    /\ WF_vars(Beat)

-----------------------------------------------------------------------------
\* The types, with the rule of the helpers: a thread that has done its work holds no
\* mutex, whichever way the helpers returned.
TypeOK ==
    /\ owner \in [Mutexes -> Threads \cup {Nobody}]
    /\ automatic \in BOOLEAN
    /\ wire \in [by : Threads, part : {"header", "body", "whole"}]
    /\ \A t \in Threads : todo[t] = <<>> => \A m \in Mutexes : owner[m] # t

\* Thread t cannot go on before thread u lets go of a mutex.
WaitsFor(t, u) == At(t, "lock") /\ owner[Now(t).mutex] = u

\* In every group of threads one waits for none of the group: no cycle of threads
\* holds the mutexes that PrintfSend, SendSystemState, ServoAngle and fire() nest.
NobodyIsStuck ==
    \A S \in (SUBSET Threads) \ {{}} : \E t \in S : \A u \in S : ~WaitsFor(t, u)

\* Messages arrive whole: after a header, the next bytes on the connection are its own
\* body, so no heartbeat or state ends up inside a text or an image.
MessagesAreWhole ==
    [][wire' # wire /\ wire.part = "header" => wire' = [wire EXCEPT !.part = "body"]]_vars

\* "Sending heartbeat evey 1 seconds": heartbeats keep coming, whatever the other
\* three threads have to send.
HeartbeatsKeepComing == []<>(At("heartbeat", "write"))
=============================================================================
