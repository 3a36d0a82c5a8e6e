----------------------------- MODULE Lifecycle -----------------------------
(***************************************************************************)
(* How the server ends: the connection drops, a thread notices, and the    *)
(* main thread leaves its loop and runs CleanUp, which cancels and joins   *)
(* the others and drives the outputs low.  Control-c runs CleanUp wherever *)
(* the main thread stands; a socket error may end the process at once.     *)
(*                                                                         *)
(* pthread_cancel is deferred: a thread ends at its next call that is a    *)
(* cancellation point (a sleep, a wait, a read, a write, the audit log's   *)
(* flush), with the mutexes it holds still locked, and never while it      *)
(* waits in pthread_mutex_lock.  Control-c never returns to the code it    *)
(* interrupts, so the main thread's own mutexes stay locked too.  As in    *)
(* Locks, each thread works off a queue of operations; there is no display *)
(* here, Cannon has when firing is permitted, and the locks inside printf  *)
(* are left out.  The operator has logged in.                              *)
(***************************************************************************)
EXTENDS Integers, Sequences

CONSTANTS
    ControlC,      \* whether control-c may be pressed
    Pins           \* the outputs whose level is followed: neither depends on the other

ASSUME ControlCAssumption == ControlC \in BOOLEAN
ASSUME PinsAssumption == Pins \subseteq {"pump", "laser"}

Others == {"network", "engagement", "heartbeat"}
Threads == Others \cup {"main"}
Mutexes == {"TCP", "GPIO", "I2C"}
Nobody == "nobody"

\* The owner of what the main thread held when control-c interrupted it.  CleanUp runs
\* in that thread and may lock it again, as the mutexes are recursive, and nobody
\* unlocks it.
Interrupted == "interrupted"

VARIABLES
    owner,         \* the thread that holds each mutex, Interrupted, or Nobody
    todo,          \* the operations each thread has still to do
    gone,          \* the threads that have ended
    cancelled,     \* the threads pthread_cancel was called for
    high,          \* which of Pins, 17 for the pump and 18 for the laser, are on
    isConnected,
    connection,    \* "up", or "down" once the client is gone
    cleaning,      \* the main thread has entered CleanUp
    process        \* "running", "cleaned" by CleanUp, or "aborted" on the spot

vars == <<owner, todo, gone, cancelled, high, isConnected, connection,
          cleaning, process>>

-----------------------------------------------------------------------------
(* Operations, and the work made of them.                                    *)

Lock(m) == [op |-> "lock", mutex |-> m]
Unlock(m) == [op |-> "unlock", mutex |-> m]
IO(call) == [op |-> "io", call |-> call]
Pin(pin, on) == [op |-> "pin", pin |-> pin, on |-> on]
Signal == [op |-> "signal"]
Handle == [op |-> "handle"]
Cancel(t) == [op |-> "cancel", thread |-> t]
Join(t) == [op |-> "join", thread |-> t]
Exit == [op |-> "exit"]

Holding(m, ops) == <<Lock(m)>> \o ops \o <<Unlock(m)>>

\* fire() and laser(): switching on is written to the audit log first.
Switch(pin, on) ==
    Holding("GPIO", (IF on THEN <<IO("audit")>> ELSE <<>>) \o <<Pin(pin, on)>>)

armed == Holding("GPIO", <<>>)

Send == Holding("TCP", <<IO("write")>>)

\* The bus is written to, after a message where the angle was beyond a limit.
ServoAngle(limited) ==
    Holding("I2C", (IF limited THEN Send ELSE <<>>) \o <<IO("bus")>>)

\* What becomes of a target: listed or skipped on pan; as the frame before; skipped on
\* tilt; out of sight; in sight; stable.  Messages, or servos moved, one after the other
\* are one.  The image, sent only while isConnected, is a frame of its own.
Frames ==
    LET Servo == ServoAngle(FALSE)
    IN {Send, Servo, Servo \o Send, armed \o Send, Servo \o armed \o Send,
        Servo \o Send \o <<Signal>>}

\* A poll that found nothing is a message with nothing to do.
ReadMessage == Holding("TCP", <<IO("read")>>) \o <<Handle>>

Handlers ==
    {<<>>, Send} \cup {ServoAngle(limited) : limited \in BOOLEAN}
    \cup {Switch(pin, on) \o Send : pin \in {"pump", "laser"}, on \in BOOLEAN}

Pulse ==
    Switch("laser", TRUE) \o Send \o <<IO("sleep")>>
    \o Switch("pump", TRUE) \o Send \o <<IO("sleep")>>
    \o Switch("pump", FALSE) \o Switch("laser", FALSE) \o armed \o Send

\* One beat; the thread sleeps between two.
HeartBeat == Holding("TCP", <<IO("beat")>>)

Reap(t) == <<Cancel(t), Join(t)>>

\* A bug CleanUp could have: the outputs go low before the threads are gone.
CleanUpOutputsFirst ==
    Switch("laser", FALSE) \o Switch("pump", FALSE)
    \o Reap("network") \o Reap("engagement") \o Reap("heartbeat") \o <<Exit>>

\* A bug CleanUp could have: the heartbeat is joined but never cancelled.
CleanUpKeepsTheBeat ==
    Reap("network") \o Reap("engagement") \o <<Join("heartbeat")>>
    \o Switch("laser", FALSE) \o Switch("pump", FALSE) \o <<Exit>>

\* To the end of the process, which follows it on both ways there.
CleanUp ==
    Reap("network") \o Reap("engagement") \o Reap("heartbeat")
    \o Switch("laser", FALSE) \o Switch("pump", FALSE) \o <<Exit>>

-----------------------------------------------------------------------------
Init ==
    /\ owner = [m \in Mutexes |-> Nobody]
    /\ todo = [t \in Threads |-> <<>>]
    /\ gone = {} /\ cancelled = {}
    /\ high = {}
    /\ isConnected = TRUE
    /\ connection = "up"
    /\ cleaning = FALSE
    /\ process = "running"

TakeOn(t, jobs) ==
    /\ process = "running" /\ t \notin gone /\ todo[t] = <<>>
    /\ \E job \in jobs : todo' = [todo EXCEPT ![t] = job]
    /\ UNCHANGED <<owner, gone, cancelled, high, isConnected, connection,
                   cleaning, process>>

Frame == isConnected /\ TakeOn("main", Frames)
Read == TakeOn("network", {ReadMessage})
Beat == TakeOn("heartbeat", {HeartBeat})

\* while (isConnected) has ended.
LeaveLoop ==
    /\ process = "running" /\ ~isConnected /\ todo["main"] = <<>>
    /\ todo' = [todo EXCEPT !["main"] = CleanUp]
    /\ cleaning' = TRUE
    /\ UNCHANGED <<owner, gone, cancelled, high, isConnected, connection, process>>

\* The kernel gives the signal to the main thread, wherever that stands.  Pressed
\* during CleanUp it would join threads twice, which is undefined: left out.
Control_C_Handler ==
    /\ ControlC
    /\ process = "running" /\ ~cleaning
    /\ todo' = [todo EXCEPT !["main"] = CleanUp]
    /\ cleaning' = TRUE
    /\ owner' = [m \in Mutexes |-> IF owner[m] = "main" THEN Interrupted ELSE owner[m]]
    /\ UNCHANGED <<gone, cancelled, high, isConnected, connection, process>>

Disconnect ==
    /\ process = "running" /\ connection = "up"
    /\ connection' = "down"
    /\ UNCHANGED <<owner, todo, gone, cancelled, high, isConnected, cleaning, process>>

At(t, op) ==
    /\ process = "running" /\ t \notin gone
    /\ todo[t] # <<>> /\ Head(todo[t]).op = op
Now(t) == Head(todo[t])
Done(t) == todo' = [todo EXCEPT ![t] = Tail(todo[t])]

\* The mutexes are recursive.
Acquire(t) ==
    /\ At(t, "lock")
    /\ \/ /\ owner[Now(t).mutex] \in {Nobody, t}
          /\ owner' = [owner EXCEPT ![Now(t).mutex] = t]
       \/ t = "main" /\ owner[Now(t).mutex] = Interrupted /\ UNCHANGED owner
    /\ Done(t)
    /\ UNCHANGED <<gone, cancelled, high, isConnected, connection, cleaning, process>>

Release(t) ==
    /\ At(t, "unlock")
    /\ owner' = [owner EXCEPT ![Now(t).mutex] = IF @ = Interrupted THEN @ ELSE Nobody]
    /\ Done(t)
    /\ UNCHANGED <<gone, cancelled, high, isConnected, connection, cleaning, process>>

SetPin(t) ==
    /\ At(t, "pin")
    /\ high' = (high \ {Now(t).pin}) \cup (IF Now(t).on THEN {Now(t).pin} \cap Pins ELSE {})
    /\ Done(t)
    /\ UNCHANGED <<owner, gone, cancelled, isConnected, connection, cleaning, process>>

\* A cancelled thread ends at a cancellation point, or where it sleeps or waits
\* between two jobs.  Nothing unlocks what it holds.
ActOnCancel(t) ==
    /\ process = "running" /\ t \in cancelled \ gone
    /\ todo[t] # <<>> => Head(todo[t]).op = "io"
    /\ gone' = gone \cup {t}
    /\ UNCHANGED <<owner, todo, cancelled, high, isConnected, connection,
                   cleaning, process>>

OnSocket(t) == At(t, "io") /\ Now(t).call \in {"read", "write", "beat"}

\* A bug Fails could have: an error other than a full socket is retried too.
FailsNever(t) == FALSE

\* The call returns -1.
Fails(t) == OnSocket(t) /\ connection = "down" /\ t \notin cancelled

\* A sleep, the audit log, or a read or write of a connection that is up.
Succeed(t) ==
    /\ At(t, "io") /\ t \notin cancelled
    /\ OnSocket(t) => connection = "up"
    /\ Done(t)
    /\ UNCHANGED <<owner, gone, cancelled, high, isConnected, connection,
                   cleaning, process>>

\* Nobody looks at what SendSystemState or an image returned.
FailToWrite(t) ==
    /\ Fails(t) /\ Now(t).call = "write"
    /\ Done(t)
    /\ UNCHANGED <<owner, gone, cancelled, high, isConnected, connection,
                   cleaning, process>>

FailToBeat(t) ==
    /\ Fails(t) /\ Now(t).call = "beat"
    /\ isConnected' = FALSE
    /\ Done(t)
    /\ UNCHANGED <<owner, gone, cancelled, high, connection, cleaning, process>>

\* A bug ReadDataTcp could have: it returns -1 with the mutex locked.
FailToReadLocked(t) ==
    /\ Fails(t) /\ Now(t).call = "read"
    /\ isConnected' = FALSE
    /\ todo' = [todo EXCEPT ![t] = <<>>]
    /\ gone' = gone \cup {t}
    /\ UNCHANGED <<owner, cancelled, high, connection, cleaning, process>>

\* The reader unlocks, leaves its loop and ends.
FailToRead(t) ==
    /\ Fails(t) /\ Now(t).call = "read"
    /\ isConnected' = FALSE
    /\ owner' = [owner EXCEPT !["TCP"] = Nobody]
    /\ todo' = [todo EXCEPT ![t] = <<>>]
    /\ gone' = gone \cup {t}
    /\ UNCHANGED <<cancelled, high, connection, cleaning, process>>

\* SSL_ERROR_SYSCALL, or an unhandled SIGPIPE: the process ends inside ReadDataTcp
\* or WriteDataTcp, its threads and mutexes with it.  The outputs stay as they are.
Abort(t) ==
    /\ Fails(t)
    /\ process' = "aborted"
    /\ owner' = [m \in Mutexes |-> Nobody]
    /\ todo' = [u \in Threads |-> <<>>]
    /\ gone' = {} /\ cancelled' = {} /\ cleaning' = FALSE
    /\ UNCHANGED <<high, isConnected, connection>>

HandleMessage(t) ==
    /\ At(t, "handle")
    /\ \E handler \in Handlers : todo' = [todo EXCEPT ![t] = handler]
    /\ UNCHANGED <<owner, gone, cancelled, high, isConnected, connection,
                   cleaning, process>>

\* Wakes the engagement thread if it waits, and is lost if it works.
SignalEngagement(t) ==
    /\ At(t, "signal")
    /\ todo' = [u \in Threads |-> IF u = t THEN Tail(todo[u])
                                  ELSE IF u = "engagement" /\ todo[u] = <<>> THEN Pulse
                                  ELSE todo[u]]
    /\ UNCHANGED <<owner, gone, cancelled, high, isConnected, connection,
                   cleaning, process>>

CancelThread(t) ==
    /\ At(t, "cancel")
    /\ cancelled' = cancelled \cup {Now(t).thread}
    /\ Done(t)
    /\ UNCHANGED <<owner, gone, high, isConnected, connection, cleaning, process>>

JoinThread(t) ==
    /\ At(t, "join")
    /\ Now(t).thread \in gone
    /\ Done(t)
    /\ UNCHANGED <<owner, gone, cancelled, high, isConnected, connection,
                   cleaning, process>>

ExitProcess(t) ==
    /\ At(t, "exit")
    /\ process' = "cleaned"
    /\ UNCHANGED <<owner, todo, gone, cancelled, high, isConnected, connection, cleaning>>

Work(t) ==
    \/ Acquire(t) \/ Release(t) \/ SetPin(t) \/ ActOnCancel(t)
    \/ Succeed(t) \/ FailToWrite(t) \/ FailToBeat(t) \/ FailToRead(t) \/ Abort(t)
    \/ HandleMessage(t) \/ SignalEngagement(t)
    \/ CancelThread(t) \/ JoinThread(t) \/ ExitProcess(t)

Next ==
    \/ Frame \/ Read \/ Beat \/ LeaveLoop \/ Control_C_Handler \/ Disconnect
    \/ \E t \in Threads : Work(t)

Spec == Init /\ [][Next]_vars

\* The threads run: the reader keeps polling, the heartbeat beating, and the main thread
\* leaves its loop.  A mutex that keeps coming free is had in the end, by all but the
\* heartbeat, which nothing here waits for.
Run(t) ==
    \/ Work(t)
    \/ t = "network" /\ Read
    \/ t = "heartbeat" /\ Beat
    \/ t = "main" /\ LeaveLoop

LiveSpec ==
    /\ Spec
    /\ \A t \in Threads : WF_vars(Run(t))
    /\ \A t \in Threads \ {"heartbeat"} : SF_vars(Acquire(t))

-----------------------------------------------------------------------------
\* The types; the engagement thread in particular is somewhere in one pulse, or
\* waiting, however many signals were sent to it.
TypeOK ==
    /\ owner \in [Mutexes -> Threads \cup {Nobody, Interrupted}]
    /\ DOMAIN todo = Threads
    /\ \E i \in 1..Len(Pulse) + 1 : todo["engagement"] = SubSeq(Pulse, i, Len(Pulse))
    /\ gone \subseteq Others /\ cancelled \subseteq Others
    /\ high \subseteq Pins
    /\ isConnected \in BOOLEAN /\ cleaning \in BOOLEAN
    /\ connection \in {"up", "down"}
    /\ process \in {"running", "cleaned", "aborted"}

\* Every variable keeps its range, and each mutex is free, or its owner is alive and
\* has its unlock still to do, or was cancelled, or is the code that control-c broke
\* off: nothing else, an error of the connection in particular, leaves one locked.
OwnersAreAtWork ==
    /\ TypeOK
    /\ \A m \in Mutexes :
        \/ owner[m] \in {Nobody} \cup cancelled
        \/ owner[m] = Interrupted /\ cleaning
        \/ /\ owner[m] \in Threads \ gone
           /\ \E i \in DOMAIN todo[owner[m]] : todo[owner[m]][i] = Unlock(m)

\* When CleanUp has run to its end, both outputs are low and no thread is left that
\* could raise them again, at whatever point the threads were cancelled.
OffAfterCleanUp == process = "cleaned" => high = {} /\ gone = Others

\* The client's leaving is noticed, by the reader or by the heartbeat, however many
\* threads are busy writing to it.
LossIsNoticed == connection = "down" ~> ~isConnected \/ cleaning \/ process # "running"

\* t waits for a mutex that nobody will unlock.
Trapped(t) ==
    /\ At(t, "lock")
    /\ \/ owner[Now(t).mutex] \in gone
       \/ owner[Now(t).mutex] = Interrupted /\ t # "main"

\* Once the loop is to be left, or control-c was pressed, the process ends unless a
\* thread is trapped, behind one that has ended or behind the frame control-c broke off.
EndsUnlessTrapped ==
    ~isConnected \/ cleaning ~> process # "running" \/ \E t \in Threads : Trapped(t)

\* "Performs cleanup processing before exiting the program": CleanUp comes to its end.
CleanUpEnds == cleaning ~> process # "running"

=============================================================================
