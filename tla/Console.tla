------------------------------ MODULE Console ------------------------------
(***************************************************************************)
(* The operator's window and the server together: what the controls send,  *)
(* what the server makes of it, and what the window then shows.            *)
(*                                                                         *)
(* The window keeps a copy of the state word and derives from each report  *)
(* which controls are offered and which boxes are ticked; the laser and    *)
(* calibration boxes change the copy themselves and send it back as a      *)
(* request.  The server is module Cannon.  Each of its threads evaluates   *)
(* the word, waits for TCP_Mutex and only then writes its report, so that  *)
(* reports may leave in another order than they were evaluated.            *)
(***************************************************************************)
EXTENDS Cannon, SequencesExt

CONSTANTS
    EngagementOrder,  \* the text of the firing order field
    MaxClicks,        \* bounds what the operator does
    MaxRequests,      \* bounds the messages on their way to the server
    MaxReports        \* bounds the reports on their way to the window

ASSUME EngagementOrderAssumption == EngagementOrder \in Orders
ASSUME ClicksAssumption == MaxClicks \in Nat
ASSUME TransitAssumption == MaxRequests \in Nat \ {0} /\ MaxReports \in Nat \ {0}

VARIABLES
    copy,             \* the window's SystemState
    offered, ticked,  \* the enabled and the ticked boxes
    requests,         \* sent by the window, not yet received
    waiting,          \* reports evaluated and waiting for TCP_Mutex, oldest first
    reports,          \* written by the server, not yet shown
    clicks,           \* history: how often the operator used a control
    stoodDown,        \* history: the last of SAFE and the code sent was SAFE
    overtaken,        \* history: a report left before an older one
    overruled         \* history: a request contradicted the server on FIRING

window == <<copy, offered, ticked>>
link == <<requests, waiting, reports>>
consoleVars == <<vars, window, link, clicks, stoodDown, overtaken, overruled>>

Boxes == {"manual", "auto", "laser", "calib"}

StateRequest(w) == [kind |-> "MT_STATE_CHANGE_REQ", word |-> w]
PreArmCode == [kind |-> "MT_PREARM"]
TargetOrder == [kind |-> "MT_TARGET_SEQUENCE"]
FireCode(start) == [kind |-> "MT_COMMANDS", start |-> start]

ConsoleInit ==
    /\ Init
    /\ copy = Only("SAFE") /\ offered = {} /\ ticked = {}
    /\ requests = <<>> /\ waiting = <<>> /\ reports = <<>>
    /\ clicks = 0 /\ stoodDown = FALSE
    /\ overtaken = FALSE /\ overruled = FALSE

-----------------------------------------------------------------------------
(* The window.                                                               *)

SendAll(messages) ==
    /\ isLoggedIn
    /\ clicks < MaxClicks /\ clicks' = clicks + 1
    /\ Len(requests) + Len(messages) <= MaxRequests
    /\ requests' = requests \o messages
    /\ UNCHANGED <<vars, waiting, reports, overtaken, overruled>>

\* OnConnect: the login is granted and SAFE is asked for.
OnConnect ==
    /\ ~isLoggedIn
    /\ Login(TRUE)
    /\ requests' = <<StateRequest(Only("SAFE"))>>
    /\ stoodDown' = TRUE
    /\ UNCHANGED <<window, waiting, reports, clicks, overtaken, overruled>>

\* The pre-arm button is the safe button unless the copy is SAFE.
PreArmOrSafe ==
    /\ IF copy.base = "SAFE"
       THEN SendAll(<<PreArmCode>>) /\ stoodDown' = FALSE
       ELSE SendAll(<<StateRequest(Only("SAFE"))>>) /\ stoodDown' = TRUE
    /\ UNCHANGED window

\* The boxes of the two modes wait for the report to be ticked.
ArmedManualBox ==
    /\ "manual" \in offered
    /\ SendAll(<<StateRequest(Only(IF "manual" \in ticked THEN "PREARMED" ELSE "ARMED_MANUAL"))>>)
    /\ UNCHANGED <<window, stoodDown>>

AutoEngageBox ==
    /\ "auto" \in offered
    /\ SendAll(IF "auto" \in ticked
               THEN <<StateRequest(Only("PREARMED"))>>
               ELSE <<TargetOrder, StateRequest(Only("ENGAGE_AUTO"))>>)
    /\ UNCHANGED <<window, stoodDown>>

\* The other two change the copy, and all of the copy is sent.
LaserBox ==
    LET w == IF "laser" \in ticked THEN WithoutFlags(copy, {"LASER_ON"})
                                   ELSE WithFlag(copy, "LASER_ON")
    IN  /\ "laser" \in offered
        /\ SendAll(<<StateRequest(w)>>)
        /\ copy' = w
        /\ ticked' = IF "laser" \in ticked THEN ticked \ {"laser"} ELSE ticked \cup {"laser"}
        /\ UNCHANGED <<offered, stoodDown>>

\* A calibration box that is ticked stays so until the report.
CalibrateBox ==
    LET w == IF "calib" \in ticked THEN WithoutFlags(copy, {"CALIB_ON"})
                                   ELSE WithFlag(copy, "CALIB_ON")
    IN  /\ "calib" \in offered
        /\ SendAll(<<StateRequest(w)>>)
        /\ copy' = w
        /\ ticked' = ticked \cup {"calib"}
        /\ UNCHANGED <<offered, stoodDown>>

\* The fire key: pressing it sends nothing while the calibration box is ticked.
FireKey(down) ==
    /\ ~(down /\ "calib" \in ticked)
    /\ SendAll(<<FireCode(down)>>)
    /\ UNCHANGED <<window, stoodDown>>

FlagBoxes(w) ==
    (IF "LASER_ON" \in w.flags THEN {"laser"} ELSE {})
        \cup (IF "CALIB_ON" \in w.flags THEN {"calib"} ELSE {})

\* WM_SYSTEM_STATE, for each base: the boxes it enables and those it ticks.
OfferedBy(w) ==
    CASE w.base = "SAFE" -> {}
      [] w.base = "PREARMED" -> {"manual", "auto"}
      [] w.base = "ENGAGE_AUTO" -> offered \ {"manual"}
      [] w.base = "ARMED_MANUAL" -> (offered \cup {"laser", "calib"}) \ {"auto"}

TickedBy(w) ==
    LET modes == ticked \cap {"manual", "auto"}
    IN  CASE w.base \in {"SAFE", "PREARMED"} -> {}
          [] w.base = "ENGAGE_AUTO" -> modes \cup {"auto"} \cup FlagBoxes(w)
          [] w.base = "ARMED_MANUAL" -> modes \cup {"manual"} \cup FlagBoxes(w)

ShowState ==
    /\ reports # <<>>
    /\ copy' = Head(reports)
    /\ offered' = OfferedBy(copy')
    /\ ticked' = TickedBy(copy')
    /\ reports' = Tail(reports)
    /\ UNCHANGED <<vars, requests, waiting, clicks, stoodDown, overtaken, overruled>>

Window ==
    \/ OnConnect \/ PreArmOrSafe \/ ArmedManualBox \/ AutoEngageBox
    \/ LaserBox \/ CalibrateBox \/ ShowState
    \/ \E down \in BOOLEAN : FireKey(down)

-----------------------------------------------------------------------------
(* The server: Cannon's steps, and the reports they make.                    *)

\* Mutant of Free: a report is queued, and its thread goes on.
FreeAlways(thread) == Len(waiting) < 3

\* A thread that waits for TCP_Mutex does nothing else.
Free(thread) == \A i \in DOMAIN waiting : waiting[i].by # thread

\* Mutant of Report: the word is evaluated before the step changes it.
ReportBefore(thread) == waiting' = Append(waiting, [by |-> thread, word |-> SystemState])

\* SendSystemState(SystemState): the argument is evaluated before the lock.
Report(thread) == waiting' = Append(waiting, [by |-> thread, word |-> SystemState'])

Receive(message) ==
    CASE message.kind = "MT_PREARM" ->
             IF SystemState = Only("SAFE") THEN ProcessPreArm /\ Report("network")
                                           ELSE UNCHANGED vars /\ UNCHANGED waiting
      [] message.kind = "MT_STATE_CHANGE_REQ" ->
             ProcessStateChangeRequest(message.word) /\ Report("network")
      [] message.kind = "MT_TARGET_SEQUENCE" ->
             ProcessFiringOrder(EngagementOrder) /\ UNCHANGED waiting
      [] message.kind = "MT_COMMANDS" ->
             IF SystemState.base = "ARMED_MANUAL"
             THEN FireCommand(message.start) /\ Report("network")
             ELSE UNCHANGED vars /\ UNCHANGED waiting

\* In manual the client's word replaces the server's, FIRING included.
Contradicts(message) ==
    /\ message.kind = "MT_STATE_CHANGE_REQ"
    /\ message.word.base = "ARMED_MANUAL" /\ SystemState.base = "ARMED_MANUAL"
    /\ ("FIRING" \in message.word.flags) # ("FIRING" \in SystemState.flags)

NetworkStep ==
    /\ Free("network") /\ requests # <<>>
    /\ Receive(Head(requests))
    /\ requests' = Tail(requests)
    /\ overruled' = (overruled \/ Contradicts(Head(requests)))

\* An outcome of TryToMatch is reported when it is news and the target is
\* looked for or tracked.
Outcome ==
    /\ NotFound \/ GiveUp \/ OutOfReach \/ FoundStill \/ FoundMoved
    /\ IF State' \in {"LOOKING_FOR_TARGET", "TRACKING"} /\ (newState \/ State' # State)
       THEN Report("main") ELSE UNCHANGED waiting

MainStep ==
    /\ Free("main")
    /\ \/ Outcome
       \/ ListCompleted /\ Report("main")
       \/ (FrameBegin \/ Advance \/ NextTarget) /\ UNCHANGED waiting
    /\ UNCHANGED <<requests, overruled>>

EngagementStep ==
    /\ Free("engagement")
    /\ \/ (PointLaser \/ Fire \/ Cease) /\ Report("engagement")
       \/ EnterWait /\ UNCHANGED waiting
    /\ UNCHANGED <<requests, overruled>>

\* One of the threads gets TCP_Mutex and writes its report.
WriteReport ==
    \E i \in DOMAIN waiting :
        /\ Len(reports) < MaxReports
        /\ reports' = Append(reports, waiting[i].word)
        /\ waiting' = RemoveAt(waiting, i)
        /\ overtaken' = (overtaken \/ i > 1)
        /\ UNCHANGED <<vars, window, requests, clicks, stoodDown, overruled>>

Server ==
    /\ NetworkStep \/ MainStep \/ EngagementStep
    /\ UNCHANGED <<window, reports, clicks, stoodDown, overtaken>>

ConsoleNext == Window \/ Server \/ WriteReport

ConsoleSpec == ConsoleInit /\ [][ConsoleNext]_consoleVars

-----------------------------------------------------------------------------
Words(messages) == {messages[i].word : i \in {j \in DOMAIN messages :
                                                messages[j].kind = "MT_STATE_CHANGE_REQ"}}

\* A thread has at most one report waiting, and what the window shows and sends
\* back are words the server can be in, although it makes some of them itself.
ConsoleTypeOK ==
    /\ TypeOK
    /\ copy \in SystemStates
    /\ offered \subseteq Boxes /\ ticked \subseteq Boxes
    /\ Words(requests) \subseteq SystemStates
    /\ \A i, j \in DOMAIN waiting : waiting[i].by = waiting[j].by => i = j
    /\ \A i \in DOMAIN reports : reports[i] \in SystemStates

Quiet == requests = <<>> /\ waiting = <<>> /\ reports = <<>>

\* The boxes that belong to a mode.
ModeBoxes(base) ==
    CASE base = "SAFE" -> {}
      [] base = "PREARMED" -> {"manual", "auto"}
      [] base = "ENGAGE_AUTO" -> {"auto"}
      [] base = "ARMED_MANUAL" -> {"manual", "laser", "calib"}

\* When nothing is on its way the window shows the server's state, whatever was
\* clicked on an older one, refused, or undone by another thread meanwhile: the
\* copy is the word, the boxes offered are those of its mode, the ticks are its
\* mode and the outputs, and FIRING is the pump unless a request overruled it.
\* Reports that overtook each other excuse all of it.  A cancellation that overtook a
\* frame or a pulse excuses all but the copy: boxes, ticks and FIRING.
WindowIsTruthful ==
    Quiet /\ ~overtaken =>
        /\ copy = SystemState
        /\ ~interrupted =>
              /\ offered = ModeBoxes(SystemState.base)
              /\ "manual" \in ticked <=> SystemState.base = "ARMED_MANUAL"
              /\ "auto" \in ticked <=> SystemState.base = "ENGAGE_AUTO"
              /\ "laser" \in ticked <=> pin18
              /\ "calib" \in ticked <=> CalibrateWasOn
              /\ ~overruled => ("FIRING" \in copy.flags <=> pin17)

\* A frame or a pulse that a cancellation has overtaken ends its list, or is refused
\* its shot, and assigns PREARMED whatever the state is.
LateAssignment ==
    /\ interrupted
    /\ ListCompleted \/ Fire
    /\ SystemState' = Only("PREARMED")

\* While the operator's last word on arming is the safe button, the request makes the
\* server SAFE when it is received, and from then on SAFE is left by nothing that was
\* or is clicked, on whatever the window still shows, nor by any thread, except for a
\* late assignment.
SafeClickHolds ==
    [][/\ stoodDown' /\ Only("SAFE") \notin Words(requests')
       /\ Only("SAFE") \in Words(requests) \/ SystemState.base = "SAFE"
       => SystemState'.base = "SAFE" \/ LateAssignment]_consoleVars
=============================================================================
