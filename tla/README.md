# The LG cannon demo, in TLA+

This directory models the two programs of the cannon demo and what they share. The **server**
(`src/DemoCannon/DemoCannon.cpp`, with `src/Common/`, `src/Servo/`, `src/Database/`) runs on a
Raspberry Pi, takes one operator's TLS connection, shows a camera picture, aims two servos at
numbered targets and drives a laser (GPIO 18) and a pump (GPIO 17). The **client**
(`src/LgClientDisplay/LgClientDisplay/`) is the operator's window. TLC checks the modules on small
instances; TLAPS proves the safety properties those runs check for every value of the constants.

## Inventory

| Component | State | Operations | Modelled in |
|---|---|---|---|
| State word, outputs, interlock | `SystemState`, pins 17 and 18 | `fire`, `laser`, `armed`, `calibrate`, plain assignments | Cannon, Interlock, Arming |
| Automatic engagement | `AutoEngage`, `trying` | `ProcessTargetEngagements`, `TryToMatch`, `EngagementThread` | Cannon, Interlock |
| Operator messages | `isLoggedIn`, `CalibrateWasOn`, offsets and their file | `ProcessLogin`, `ProcessPreArm`, `ProcessStateChangeRequest`, `ProcessFiringOrder`, `ProcessCommands`, `ProcessCalibCommands` | Cannon, Aiming, Accounts |
| Servo aiming | `Pan`, `Tilt`, the servos' angles | `ServoAngle`, pan and tilt commands, the aim loop | Aiming |
| Servo PWM driver | PCA9685 registers | `Servo::angle`, `move`, `set_pwm` | ServoPi |
| Threads and mutexes | owners of `TCP_Mutex`, `I2C_Mutex`, `GPIO_Mutex` | `PrintfSend`, `SendSystemState`, `ServoAngle`, `ReadDataTcp`, images, `HeartBeatThread` | Locks |
| Lifecycle | `isConnected`, thread ids, sockets | disconnect, failing reads and heartbeats, `CleanUp`, control-C, `exit` | Lifecycle |
| Accounts | the `user` table, the server's connections to it | `VerifyLogin`, `UpdatePassword`, the database tool | Accounts |
| Client connection | thread and TLS handles, exit event, timer, message queue | `OnConnect`, `StopClient`, `ThreadClient`, the window procedure | Client |
| Client window | its copy of the state, the boxes | the controls, `WM_SYSTEM_STATE` | Console |

The threads of the server interact through plain global variables. The **network** thread handles
messages. The **main** thread processes a frame at a time: it looks for the current target and, after
enough stable frames, signals the **engagement** thread through a condition variable; that one points
the laser, sleeps, pumps, sleeps, stops, and writes `ENGAGEMENT_COMPLETE`, which the main thread
answers with the next target or the end of the list. The **heartbeat** thread writes to the client
every second. Any message may overtake a frame or a pulse: a cancellation writes `NOT_ACTIVE`, and
both other threads may overwrite it afterwards. The client has a **GUI** thread and a **receive**
thread, which share handles with no lock and wait for each other in two ways (`SendMessage` and
`WaitForSingleObject`). The database tool is a third program on the server's database file.

What makes the components correct: no arming before the code; the pump only in armed states and
always stopped again; the flags the operator is shown are those of the pins; a target is engaged once,
in order, on a fresh aim, where the servos stand; the order's array is read inside its bounds;
calibration is saved when it is left; messages stay whole; no thread waits for ever; a password change
is all or nothing; the loss of a connection ends that connection and no other; the window shows what
the server is.

## Modules

**CannonState** has the state word (`Common/Message.h`), as a record of a base and a set of flags,
and the engagement states. A request may carry any word: `OTHER` stands for a base that is none of
the four.

**Cannon** is the core. A variable is a global of the program, under its name; `mpc` and `epc` are
the places of the main and the engagement thread. A message handler is one action, trailing calls
included (`Settle` is the tail every state request runs). A frame that can start or end a target is
two (`FrameBegin`, then one of the five outcomes of `TryToMatch` with `Conclude`; `Advance`, then
`ListCompleted` or `NextTarget`), cut where the code does I/O or tests what the network thread may
change. The engagement thread is cut at its wait and at its two sleeps. Three history variables
(`codeSeen`, `interrupted`, `lastShot`) only serve properties. `OutOfReach` stands for both servo
limits, a match "close to the last aim" for `compare_float` on both angles, and a calibration offset
for both coordinates.

**Arming** is the abstract promise: mode, pump, and whether the promise has lapsed. Cannon implements
it with `interrupted` as the lapse: SAFE, PREARMED from automatic, or a firing order arrived while
the main thread was inside a frame or the engagement thread in its pulse. That such a cancellation can
break the promise is what `cannon_unarmed` shows; `NoArmingWithoutCode`, `OrderIndexInBounds`,
`NoCountSurvives` and `SafeSettles` hold without the exception.

**Interlock** takes the handlers of Cannon apart into single accesses: lock and read the word, write
it, drive the pin and unlock; assign without the lock; test. It leaves the logins, the stages of
tracking, the laser's pin and `calibrate` to Cannon.

**Locks** has the mutexes. A job (a message, a frame, a pulse, a heartbeat) is a sequence of lock,
unlock and write operations. The mutexes are recursive in the program; none is locked twice on any
path, so their count is left out. Several helpers in a row that take `GPIO_Mutex` are one.

**Lifecycle** is about the end: the client disconnects, the reader or the heartbeat notices, the main
thread leaves its loop and `CleanUp` cancels and joins the other three before it drives the outputs
low. It has the threads' work as queues of operations: the three mutexes, the calls at which a
cancelled thread ends, and the two pins. Cancellation is that of `pthread_cancel` with the defaults the
program leaves: deferred, acted on at blocking calls, mutexes left as they are, and not at all inside
`pthread_mutex_lock`. Control-C runs `CleanUp` on top of whatever the main thread was doing, which
never goes on: a mutex it held then has the owner `Interrupted`, which the main thread itself may lock
again, the mutexes being recursive, and nobody else. `Pins` says which of the two outputs are followed.
The locks inside `printf`, and the display, are left out.

**Aiming** has `Pan` and `Tilt` as the main and the network thread read, change, write and tell them;
`ServoAngle` alone is under `I2C_Mutex`. An angle is read again or kept in a register: where the
compiler has the choice, the model has both. The unit is half a degree, the step of a command; two
angles are close in the sense of `compare_float` when equal. The photo is the error the last searched
frame shows: a frame during an engagement is not searched, so a photo can be old.

**ServoPi** is the arithmetic from an angle to the pulse and its two registers, with each
conversion to `uint16_t` dropping the fraction, next to the exact quotient. Aiming extends it.

**Accounts** sends the statements of `VerifyLogin` and `UpdatePassword` one by one. `user` is a
function from rowids to rows. The statement `SELECT` finds the row of the smallest rowid first. A
failing statement (the file is locked by the tool, or no connection could be opened) looks like one
that found nothing. The tool inserts (a second row of a name is not refused), sets a password and
deletes, between any two statements.

**Client** has the GUI thread and the receive thread with the queue of posted messages. The network
closes in order, resets, or goes silent at any time. A `SendMessage` waits until the GUI thread is
in its message loop. Posted messages come before input, and the timer's message after both.

**Console** composes the window with Cannon: requests and reports on their way, reports evaluated
before `TCP_Mutex` is had, the copy of the word, which boxes are offered and ticked. The actions of
the server are Cannon's own; Console adds who reports when.

**MCCannon, MCAiming, MCConsole** hold the sets that the configurations substitute for constants.
**CannonProofs, InterlockProofs, AimingProofs, AccountsProofs, ClientProofs, LocksProofs,
LifecycleProofs, ConsoleProofs** hold the theorems.

## Runs

| Run | Shows |
|---|---|
| `cannon` | Arming, both outputs, calibration and the order's bookkeeping over all interleavings of automatic and manual use; Cannon implements Arming |
| `cannon_live` | SAFE settles, unsignalled wakeups included; an accepted run ends, unless its signal is lost or the operator is logged out |
| `cannon_unarmed` | *violation*: the pump runs in PREARMED after a cancelled run completes |
| `interlock` | Helpers lose no updates; somebody stops a running pump, which keeps coming to rest |
| `locks` | Without a display: no circular wait, whole messages, heartbeats recur |
| `locks_oled` | *violation*: with a display the I2C/TCP order deadlocks and the heartbeat stops |
| `lifecycle` | A lost client is noticed and the process ends, unless a thread waits for a mutex nobody will unlock, which only a cancellation or control-C can cause; after a completed `CleanUp` the pump is off for good |
| `lifecycle_stuck` | *violation*: `CleanUp` waits for ever for a thread that waits for the mutex of a cancelled one, or of the frame that control-C interrupted |
| `client` | An announcement of a loss ends no other connection; the TLS handle is freed under a click only when the loss is announced; `StopClient` returns except in three named ways; a lost connection is given up |
| `aiming` | The servos stand where the program believes except after a skip; an engagement starts on a target at rest; a still target is engaged or skipped; the driver's double truncation costs one count |
| `accounts` | A change of password is all or nothing; an expired password lets nobody in; connections are returned; only a request without a user name or interference ends the server |
| `console` | With nothing on its way the window shows the server; once the safe button's request is received SAFE is left by no click on a stale window, only by a frame or a pulse the request overtook |

Each property of a passing run has a mutant (the definitions under "Mutant" or "A bug" comments) that
the run must catch: a dropped `fire(false)`, a missing unlock, an index off by one. The type
invariants of Cannon, Interlock, Aiming, Accounts and Client are proved for all constants and not
repeated in their runs; Console's includes Cannon's, Lifecycle's is part of `OwnersAreAtWork`.

### Bounds, and why they are enough

* Cannon: `Digits = {0, 1}`, 0 being what the array starts with. `MaxOrder = 2` where the code has 10:
  orders of length 0 to 3, and one with a character that is no digit, take every path of
  `ProcessFiringOrder`; two entries make "next target" and "list completed" different.
  `CorrectionBound` is 1 where calibration is the question, else 0 (calibration commands disabled).
  `SpuriousBound`, the index below which a wakeup may be unsignalled, is 2 in `cannon_live`, else 0.
  Requests are every base plain, and in manual, the only place that keeps a client's flags, all
  combinations the window can send.
* Interlock, Locks, Lifecycle: no numeric bound; all messages, control-C included. The run of
  Lifecycle follows the pump's pin: the laser is switched by the same operations under the same mutex,
  no operation reads a pin, and the theorem is for both.
* Client: three connections (a late announcement needs a second, a stale timer a third) and two
  reports queued.
* Aiming: limits of two steps, angles held within three (the program would drift further after
  repeated skips of the same kind); places in reach, at and beyond a limit; commands on one axis, as
  the axes share only the mutex and the loop over them. ServoPi is evaluated at every half degree.
* Accounts: two users and requests that name nobody, two passwords, three rows (a second row of a user
  and one of another) and three connections: an `UpdatePassword` holds two, so the limit is met in
  each of its steps after one or two lost ones.
* Console: an order of one target, five clicks after the login, two requests and two reports under
  way. Five clicks reach manual with the laser on, or a run, and leave two to race with it.

### Fairness

Cannon: the main thread runs (`WF` of `Main`), the engagement thread runs (`WF` of its steps, the
spurious wakeup excluded), and the skip timer, being wall-clock time, is over at some frame if the
target stays out of sight (`SF` of `GiveUp`). Nothing is assumed of the operator. `RunEnds` also
supposes that a target in sight keeps still from some time on: a moving one may be tracked for ever.
Interlock and Locks: each thread runs, and a thread that wants a mutex which comes free again and
again gets it (`SF`); pthread mutexes do not promise it, but every holder here leaves the mutex for
sleeps, frames or I/O. Locks assumes further that a write ends, that is, that the client reads, and
that the heartbeat's sleep ends. Lifecycle assumes that each thread runs, the reader polling, the
heartbeat beating and the main thread leaving its loop when `isConnected` is false, and that all but
the heartbeat get a mutex that keeps coming free: the loss of the connection is noticed, and the
process ends, even if the heartbeat is always passed over; neither the disconnection nor control-C nor
a frame is assumed to happen. Aiming: the main thread runs and gets `I2C_Mutex` in its turn, a command
that began ends. Client: both threads run; a message sent to the GUI, and the timer's, get their turn
between clicks (`SF`), as Windows delivers sent messages first and an operator pauses; nothing is
assumed of the network, which may go silent.

## Proofs

Every safety property of the passing runs is a theorem, for all values of the constants and from the
named assumptions in the modules, except where a theorem names a further one: `SpuriousBound = 0`,
`HaveOLED = FALSE`, `MaxAngle <= 178`.

**CannonProofs.** `TypeCorrect`, `IndexInBounds`, `CountsAreFresh` without restriction; with
`SpuriousBound = 0` (`pthread_cond_wait` returns only when signalled) `NothingBeforeTheCode`,
`PumpRunsOnlyArmed`, `LaserIsReported`, `CalibrationIsRemembered`, `EngagementServes`, `ShotsInOrder`
and `CannonImplementsArming`, the refinement. `TypeInv` adds to the types where the index may stand at
each place of the main thread. `CountInv` adds that a count above the threshold only occurs once the
engagement is in progress or over. `DormantInv`: before the code the three threads are where they
began. `UninterruptedInv`: until an interruption the places of the threads agree with the engagement's
state, and the outputs with the word; each half needs the other, because `Cease` may drop the flags
only since nobody armed manually in between. `RunInv` follows a run: from the frame that reads the
order's entry to the next index the target is that entry, and the last shot is of an entry before it,
or of it once the pulse is over. It rests on `UninterruptedInv`: an order or a cancellation either
comes between frames and pulses, where it ends the run, or inside one, where it is an interruption.

**InterlockProofs.** `TypeCorrect` (with mutual exclusion), `FlagShowsThePin`, `SomebodyStops`. Queues
hold operations whose branches nest at most five deep, so their sets are built in five levels
(`Ops1` to `Ops5`), and every handler is shown to be made of them. `FlagInv` says what the word, the
register and the pin have to do with each other at each stage of a locked change. `StopInv`: whatever
can start the pump in the engagement thread's queue, branches included, has a stop behind it, and the
main thread's queue never touches FIRING.

**AccountsProofs.** `TypeCorrect`, `NoConnectionLeft`, `EndsExplained`, `AllOrNothing`,
`ExpiredIsKeptOut`. `PlaceInv` and `CountInv` relate the place in the handlers, nesting and open
connections; `DataInv` is what an undisturbed request knows of the table at each statement: the row
found is still there at the date, and after the `UPDATE` every row of the user is new and fresh, so
that the nested check cannot fail. `Answers` lists the ways an undisturbed request is answered.

**ClientProofs.** `TypeCorrect`, `FreedHandle`, `LossOfThisConnection`, `Leftover`, `UnknownShown`,
for any number of connections and any queue. `HandleInv` ties handle, thread and announcements
together; `UnknownLast` says that UNKNOWN is behind every report once the thread is gone.

**AimingProofs.** `TypeCorrect`, `AnglesAgree`, `SkipsDeserved`, `EngagedOnTarget`, `PulsesFollow`.
`AngleInv` says for each place of each thread what the angle in hand, the angle and the servo have to
do with each other while the other thread may be at the same axis; `FrameInv`, that in an undisturbed
frame the photo is the target's distance. An axis adrift is told a wrong angle in a target's first
frame and none after it: `AimInv` says which axes the frame has told, that from the second frame on
they are told the target's place, and that the frames the stability test has counted all showed this
place, or else the frame at hand shows another, which the test will notice. The pulse is bounds on
three divisions. `PulsesFollow` supposes that the angles drift less than a quarter turn, which the
code does not check; the limits are 15 degrees.

**LocksProofs.** `TypeCorrect` and `MessagesWhole` for both builds, `NobodyStuck` for the one without a
display; with one it is false, as `locks_oled` shows. A thread has something in its hands: the mutexes
it holds and, between a header and its body, an unfinished message. Each operation of a queue is in
place only with certain hands (a body after its header, `TCP` taken alone or inside `I2C`) and
leaves others. Every helper is shown to lead from the hands it is called with back to the same
(`Complete`), and from them every frame, pulse, message and heartbeat is put together; so `QueuesInv`,
that the rest of a thread's queue leads from its hands to empty ones, is preserved. Since the
hands nest in one order, whoever waits for `TCP` waits for a thread that waits for nobody.

**LifecycleProofs.** `TypeCorrect`, `OwnersWork`, `TrappedForGood`, `CleanUpSwitchesOff`, whether
control-C may be pressed or not. `WorkersInv` is the same argument for the other three threads with
mutexes alone: one that ended holds a mutex only if it was cancelled. So a locked mutex has an unlock in
its owner's queue, or a cancelled owner, or is the interrupted frame's (`OwnersWork`, which does not say
that the owner gets there); and a thread behind an owner that has ended, or behind that frame, stays
there as long as the process runs (`TrappedForGood`), which is why `EndsUnlessTrapped` has to except
it. `CleanUpInv` is the main thread's place in `CleanUp`,
with who is gone, what is locked and which pin is low at each; no thread is left to raise a
pin when the first is driven, which is why the joins come before.

**ConsoleProofs.** `ConsoleTypeCorrect`, `WindowTruthful`, `SafeClickWins`, for any number of clicks,
requests and reports under way (Console itself leaves out the unsignalled wakeup). It extends
CannonProofs: a step of the server changes the word as `UninterruptedInv` allows, whoever reports it.
`NewestInv`: the newest report on its way is the word, or a request is still to be answered.
`ShownInv`: reports follow one another as the modes do (manual and automatic only after PREARMED),
so a box is always offered when a report ticks it, and the boxes agree with the copy. `SafeInv`: after
the safe button every pre-arm code under way has a SAFE request behind it, so that no code is received
after the last of them. `SafeClickWins` is about steps: which of the server's could leave SAFE,
`UninterruptedInv` and the handlers say. What is left is `LateAssignment`, and the theorem does not
hold without it: the code does assign PREARMED (`DemoCannon.cpp:353,574`) when SAFE came during a pulse
or a frame.

**Only model-checked:** every liveness property (`SafeSettles`, `RunEnds`, `PumpComesToRest`,
`HeartbeatsKeepComing`, `LossIsNoticed`, `EndsUnlessTrapped`, `StopReturns`, `AimSettles`), which is
out of the prover's reach, and what the three violations are about.

## Observations

The three violations are described under "findings" in `PROJECT.json`. The models make more visible
that no document contradicts, and that the properties name as exceptions or leave open.

* Server: SAFE that arrives during a frame that ends a list, or during a pulse that has not fired,
  is overwritten with PREARMED (`DemoCannon.cpp:574,353`). SAFE that arrives between `fire(true)`'s
  test and its pin (`DemoCannon.cpp:345,359`) lets the pump start in SAFE; the pulse still ends it
  (`SomebodyStopsThePump`). An assignment of SAFE between the read and the write of `laser` or
  `armed` in another thread is undone by that write. A signal sent before the engagement thread
  waits is lost. A socket error calls `exit` without `CleanUp`, with an output possibly high
  (`NetworkTCP.cpp:423,473`). After a failed second login FIRE_STOP and SAFE are dropped, whatever
  the pump does.
* Aiming: a skip leaves the angle it computed but never told, so the next command sends the servo to
  the limit, and targets in reach get skipped (the exception `adrift`). A race of a command and a
  correction can tell a servo an angle beyond its limit, until the next one. A run that starts
  inside a frame that is not searched begins with the matches of an older one.
* Accounts: the client lets an empty ID pass (`SanityCheck.cpp:24-40`), `username.at(0)` throws
  (`DemoCannon.cpp:1547,1605`), nothing catches it in the network thread, and the server ends; with
  `front()` and `back()` of an empty string undefined (1524) before it. With several rows of a user
  the first row's date counts, whichever has the password. A statement that fails before the date is
  read makes `at(0)` throw and ends the server. A change whose `UPDATE` was done can still be
  refused when its nested check is disturbed.
* Client: `StopClient` is trapped when the receive thread is sending a text, is inside a message
  that has stopped half-way, or has not created its exit event yet. A connection that fails before
  its first heartbeat has no timer. After a refused login the next Connect takes the old TLS handle
  for a connection.
* Console: with the F key down, the laser box clicked before the FIRING report arrives makes the
  server forget FIRING while the pump runs (`overruled`). A report can overtake an older one, after
  which the window stays behind until the next report.

## Not modelled

* Nearly all of the repository's lines are vendored headers of OpenCV and TensorFlow Lite, sample
  data and stand-alone samples; the map covers the demo's own programs.
* Image processing, the JPEG codec, drawing, sound, terminal modes, the UDP port (no program of the
  demo uses it), the TensorFlow detector (compiled out).
* The picture the receive thread fills while the GUI thread paints it: the outcome of that data race
  is one frame on the screen. A write to the audit log after the network thread closed it, and control-C
  pressed while `CleanUp` runs, have no defined outcome to enumerate.
* Lengths of messages: both ends read exactly what a header says, and no program of the demo sends a
  message larger than the buffer, which the server would skip without its body.
* A client that stops reading: `WriteDataTcp` then retries for ever with `TCP_Mutex` held; Locks
  assumes that a write ends.
* The camera switch, the modal loops of the client's message boxes, a failing `WSAEventSelect`, the
  driver's calls that no program makes.

## Plan

1. Locks with a client that stops reading, and what the lifecycle then can still do.
2. An abstract account (a password that is changed in one step or refused), which Accounts implements
   when nothing disturbs it, and an abstract connection for Client, with their refinements proved.
3. Aiming without the hold on drifting angles.
