------------------------------- MODULE Client -------------------------------
(***************************************************************************)
(* The operator's program: the GUI thread, which runs the window procedure *)
(* and opens and closes the connection, and the receive thread, which      *)
(* reads the server's messages while an operator is logged in.             *)
(*                                                                         *)
(* They share the TLS handle, the thread handle, the exit event and the    *)
(* window's heartbeat timer, with no lock.  The receive thread reaches the *)
(* GUI in two ways: PostMessage, which queues, and SendMessage, which      *)
(* waits until the GUI thread is back in its message loop.                 *)
(***************************************************************************)
EXTENDS Naturals, Sequences

CONSTANTS
    MaxConnections,   \* bounds the connections the operator opens
    MaxQueue          \* bounds the state reports posted and not yet handled

ASSUME ConnectionsAssumption == MaxConnections \in Nat \ {0}
ASSUME QueueAssumption == MaxQueue \in Nat \ {0}

VARIABLES
    gui,              \* where the GUI thread stands
    queue,            \* the messages posted to the window
    shown,            \* the state the window shows: the client's SystemState
    connectEnabled,   \* the toolbar offers Connect; otherwise Disconnect
    login_state,      \* the last answer to a login
    hThreadClient,    \* the thread handle is valid: IsClientConnected
    hEndClientEvent,  \* the exit event: "none", "clear" or "set"
    ClientSsl,        \* the connection the TLS handle belongs to, 0 for nullptr
    timer,            \* the connection whose heartbeat set the timer, 0 when killed
    receiver,         \* where the receive thread stands
    line,             \* the newest connection, as the network has it
    opened,           \* history: the number of connections opened
    early             \* history: StopClient ran before the exit event existed

window == <<queue, shown, connectEnabled, login_state>>
vars == <<gui, window, hThreadClient, hEndClientEvent, ClientSsl, timer,
          receiver, line, opened, early>>

LoginStates == {"LOGIN_UNKNOWN", "LOGIN_OK", "LOGIN_FAIL", "DATE_EXPIRED"}

Lost == {"closed", "reset", "stalled"}

ClientLost(n) == [kind |-> "WM_CLIENT_LOST", of |-> n]
SystemState(s) == [kind |-> "WM_SYSTEM_STATE", state |-> s]

\* What was sent before an orderly close can still be read.
Arriving == line \in {"up", "closed"}

Announced == \E i \in DOMAIN queue : queue[i].kind = "WM_CLIENT_LOST"
StatesQueued == {i \in DOMAIN queue : queue[i].kind = "WM_SYSTEM_STATE"}

TypeOK ==
    /\ gui \in {"idle", "login", "send", "stop", "timeout"}
    /\ \A i \in DOMAIN queue :
         queue[i] \in {ClientLost(n) : n \in 1 .. MaxConnections}
                      \cup {SystemState(s) : s \in {"UNKNOWN", "reported"}}
    /\ shown \in {"SAFE", "UNKNOWN", "reported"}
    /\ connectEnabled \in BOOLEAN
    /\ login_state \in LoginStates
    /\ hThreadClient \in BOOLEAN
    /\ hEndClientEvent \in {"none", "clear", "set"}
    /\ ClientSsl \in 0 .. MaxConnections
    /\ timer \in 0 .. MaxConnections
    /\ receiver \in {"none", "start", "wait", "read", "text", "cleanup", "ended"}
    /\ line \in {"none", "up"} \cup Lost
    /\ opened \in 0 .. MaxConnections
    /\ early \in BOOLEAN
    /\ hThreadClient <=> receiver # "none"
    /\ ClientSsl \in {0, opened}

Init ==
    /\ gui = "idle" /\ queue = <<>>
    /\ shown = "SAFE" /\ connectEnabled = TRUE
    /\ login_state = "LOGIN_UNKNOWN"
    /\ hThreadClient = FALSE /\ hEndClientEvent = "none"
    /\ ClientSsl = 0 /\ timer = 0
    /\ receiver = "none" /\ line = "none"
    /\ opened = 0 /\ early = FALSE

-----------------------------------------------------------------------------
(* The GUI thread.  Posted messages are handled before input, and the timer  *)
(* message is made only when neither is waiting.                             *)

\* Mutant of InputTurn: announcements give way to input, as timer messages do.
InputFirst == gui = "idle"

InputTurn == gui = "idle" /\ queue = <<>>

\* OnConnect up to the login request.  A TLS handle that is still there counts
\* as a connection.  A failed attempt to open one leaves nothing behind.
Connect ==
    /\ InputTurn /\ connectEnabled /\ ~hThreadClient
    /\ \/ ClientSsl # 0 /\ UNCHANGED <<ClientSsl, line, opened>>
       \/ /\ ClientSsl = 0 /\ opened < MaxConnections
          /\ opened' = opened + 1
          /\ ClientSsl' = opened'
          /\ line' = "up"
    /\ gui' = "login"
    /\ UNCHANGED <<window, hThreadClient, hEndClientEvent, timer, receiver, early>>

\* LoginToServer's answer is LOGIN_OK: StartClient, then the request for SAFE.
LoginAccepted ==
    /\ gui = "login" /\ Arriving
    /\ login_state' = "LOGIN_OK"
    /\ hThreadClient' = TRUE /\ receiver' = "start"
    /\ connectEnabled' = FALSE
    /\ gui' = "send"
    /\ UNCHANGED <<queue, shown, hEndClientEvent, ClientSsl, timer, line, opened, early>>

\* Any other answer keeps the connection for the next attempt.
LoginRefused ==
    /\ gui = "login" /\ Arriving
    /\ login_state' \in {"LOGIN_FAIL", "DATE_EXPIRED"}
    /\ gui' = "idle"
    /\ UNCHANGED <<queue, shown, connectEnabled, hThreadClient, hEndClientEvent,
                   ClientSsl, timer, receiver, line, opened, early>>

\* No answer: SSL_ERROR_SYSCALL announces the loss, any other error does not.
\* While the line is stalled the read waits.
LoginFails ==
    /\ gui = "login" /\ line \notin {"up", "stalled"}
    /\ login_state' = "LOGIN_FAIL"
    /\ queue' \in {queue, Append(queue, ClientLost(ClientSsl))}
    /\ gui' = "idle"
    /\ UNCHANGED <<shown, connectEnabled, hThreadClient, hEndClientEvent,
                   ClientSsl, timer, receiver, line, opened, early>>

\* A control that sends a message: IsClientConnected holds, WriteData follows.
Click ==
    /\ InputTurn /\ hThreadClient
    /\ gui' = "send"
    /\ UNCHANGED <<window, hThreadClient, hEndClientEvent, ClientSsl, timer,
                   receiver, line, opened, early>>

WriteData ==
    /\ gui = "send"
    /\ \/ UNCHANGED queue
       \/ line \notin {"up", "stalled"} /\ queue' = Append(queue, ClientLost(opened))
    /\ gui' = "idle"
    /\ UNCHANGED <<shown, connectEnabled, login_state, hThreadClient, hEndClientEvent,
                   ClientSsl, timer, receiver, line, opened, early>>

\* OnDisconnect up to the wait for the receive thread: ClientSetExitEvent, if
\* there is an event to set.
OnDisconnect(wait) ==
    IF hThreadClient
    THEN /\ hEndClientEvent' = IF hEndClientEvent = "none" THEN "none" ELSE "set"
         /\ early' = (receiver = "start")
         /\ gui' = wait
    ELSE UNCHANGED <<hEndClientEvent, early, gui>>

\* IDM_DISCONNECT: the timer is killed first.
Disconnect ==
    /\ connectEnabled' = TRUE
    /\ timer' = 0
    /\ OnDisconnect("stop")
    /\ UNCHANGED <<shown, login_state, hThreadClient, ClientSsl, receiver, line, opened>>

DisconnectClick == InputTurn /\ ~connectEnabled /\ Disconnect /\ UNCHANGED queue

HandleClientLost ==
    /\ gui = "idle" /\ queue # <<>> /\ Head(queue).kind = "WM_CLIENT_LOST"
    /\ queue' = Tail(queue)
    /\ Disconnect

HandleSystemState ==
    /\ gui = "idle" /\ queue # <<>> /\ Head(queue).kind = "WM_SYSTEM_STATE"
    /\ shown' = Head(queue).state
    /\ queue' = Tail(queue)
    /\ UNCHANGED <<gui, connectEnabled, login_state, hThreadClient, hEndClientEvent,
                   ClientSsl, timer, receiver, line, opened, early>>

\* Five seconds without a heartbeat: of a lost connection, or because the timer
\* was left by an earlier one.  The timer is killed when OnDisconnect is done.
HandleTimer ==
    /\ InputTurn /\ timer # 0
    /\ timer # ClientSsl \/ line # "up"
    /\ connectEnabled' = TRUE
    /\ OnDisconnect("timeout")
    /\ timer' = IF hThreadClient THEN timer ELSE 0
    /\ UNCHANGED <<queue, shown, login_state, hThreadClient, ClientSsl, receiver,
                   line, opened>>

\* Mutant of Stopped: the wait has a limit, and the thread may still run.
StoppedAtOnce ==
    /\ gui \in {"stop", "timeout"}
    /\ hThreadClient' = FALSE
    /\ queue' = Append(queue, SystemState("UNKNOWN"))
    /\ timer' = IF gui = "timeout" THEN 0 ELSE timer
    /\ gui' = "idle"
    /\ early' = FALSE
    /\ UNCHANGED <<shown, connectEnabled, login_state, hEndClientEvent, ClientSsl,
                   receiver, line, opened>>

\* WaitForSingleObject returns, and the rest of OnDisconnect.
Stopped ==
    /\ gui \in {"stop", "timeout"} /\ receiver = "ended"
    /\ hThreadClient' = FALSE /\ receiver' = "none"
    /\ queue' = Append(queue, SystemState("UNKNOWN"))
    /\ timer' = IF gui = "timeout" THEN 0 ELSE timer
    /\ gui' = "idle"
    /\ early' = FALSE
    /\ UNCHANGED <<shown, connectEnabled, login_state, hEndClientEvent, ClientSsl,
                   line, opened>>

Gui == \/ Connect \/ LoginAccepted \/ LoginRefused \/ LoginFails \/ Click \/ WriteData
       \/ DisconnectClick \/ HandleClientLost \/ HandleSystemState \/ HandleTimer \/ Stopped

-----------------------------------------------------------------------------
(* The receive thread.                                                       *)

Receiver(from, to) == receiver = from /\ receiver' = to

\* The events are created here; WSAEventSelect may fail, which closes the
\* socket and ends the thread without ClientCleanup.
CreateEvents ==
    /\ hEndClientEvent' = "clear"
    /\ \/ Receiver("start", "wait") /\ UNCHANGED line
       \/ Receiver("start", "ended") /\ line' = "none"
    /\ UNCHANGED <<gui, window, hThreadClient, ClientSsl, timer, opened, early>>

\* WaitForMultipleObjects reports the exit event first when both are signalled.
SeeExitEvent ==
    /\ Receiver("wait", "cleanup") /\ hEndClientEvent = "set"
    /\ hEndClientEvent' = "clear"
    /\ UNCHANGED <<gui, window, hThreadClient, ClientSsl, timer, line, opened, early>>

\* FD_READ: from here on the thread reads until the message is complete.
BeginRead ==
    /\ Receiver("wait", "read") /\ hEndClientEvent # "set"
    /\ line = "up"
    /\ UNCHANGED <<gui, window, hThreadClient, hEndClientEvent, ClientSsl, timer,
                   line, opened, early>>

\* MT_IMAGE is drawn without the GUI thread.
ReceiveImage ==
    /\ Receiver("read", "wait") /\ Arriving
    /\ UNCHANGED <<gui, window, hThreadClient, hEndClientEvent, ClientSsl, timer,
                   line, opened, early>>

ReceiveHeartbeat ==
    /\ Receiver("read", "wait") /\ Arriving
    /\ timer' = ClientSsl
    /\ UNCHANGED <<gui, window, hThreadClient, hEndClientEvent, ClientSsl, line,
                   opened, early>>

ReceiveState ==
    /\ Receiver("read", "wait") /\ Arriving
    /\ Len(queue) < MaxQueue
    /\ queue' = Append(queue, SystemState("reported"))
    /\ UNCHANGED <<gui, shown, connectEnabled, login_state, hThreadClient,
                   hEndClientEvent, ClientSsl, timer, line, opened, early>>

ReceiveText ==
    /\ Receiver("read", "text") /\ Arriving
    /\ UNCHANGED <<gui, window, hThreadClient, hEndClientEvent, ClientSsl, timer,
                   line, opened, early>>

\* PRINT uses SendMessage, which returns when the GUI thread has handled it.
PrintText ==
    /\ Receiver("text", "wait") /\ gui = "idle"
    /\ UNCHANGED <<gui, window, hThreadClient, hEndClientEvent, ClientSsl, timer,
                   line, opened, early>>

\* A read that fails: the break after the announcement leaves the switch, not
\* the loop.
ReadFails ==
    /\ Receiver("read", "wait") /\ line \in {"closed", "reset"}
    /\ queue' \in {queue, Append(queue, ClientLost(ClientSsl))}
    /\ UNCHANGED <<gui, shown, connectEnabled, login_state, hThreadClient,
                   hEndClientEvent, ClientSsl, timer, line, opened, early>>

\* Mutant of SeeClose: the loss is not announced.
SeeCloseSilently ==
    /\ Receiver("wait", "cleanup") /\ hEndClientEvent # "set"
    /\ line = "closed"
    /\ UNCHANGED <<gui, window, hThreadClient, hEndClientEvent, ClientSsl, timer, line, opened,
                   early>>

\* FD_CLOSE without an error ends the thread; with one it is only printed.
SeeClose ==
    /\ Receiver("wait", "cleanup") /\ hEndClientEvent # "set"
    /\ line = "closed"
    /\ queue' = Append(queue, ClientLost(ClientSsl))
    /\ UNCHANGED <<gui, shown, connectEnabled, login_state, hThreadClient,
                   hEndClientEvent, ClientSsl, timer, line, opened, early>>

\* Mutant of ClientCleanup: the handle is freed and not reset.
ClientCleanupKeepsHandle ==
    /\ Receiver("cleanup", "ended")
    /\ line' = "none"
    /\ hEndClientEvent' = "none"
    /\ UNCHANGED <<gui, window, hThreadClient, ClientSsl, timer, opened, early>>

\* Mutant of ClientCleanup: it reports through PRINT.
ClientCleanupPrints ==
    /\ Receiver("cleanup", "ended") /\ gui = "idle"
    /\ ClientSsl' = 0 /\ line' = "none"
    /\ hEndClientEvent' = "none"
    /\ UNCHANGED <<gui, window, hThreadClient, timer, opened, early>>

ClientCleanup ==
    /\ Receiver("cleanup", "ended")
    /\ ClientSsl' = 0 /\ line' = "none"
    /\ hEndClientEvent' = "none"
    /\ UNCHANGED <<gui, window, hThreadClient, timer, opened, early>>

ThreadClient ==
    \/ CreateEvents \/ SeeExitEvent \/ BeginRead \/ ReceiveImage \/ ReceiveHeartbeat
    \/ ReceiveState \/ ReceiveText \/ PrintText \/ ReadFails \/ SeeClose \/ ClientCleanup

-----------------------------------------------------------------------------
(* The network: a connection is closed by the server, reset, or goes silent. *)

LineFails ==
    /\ \/ line = "up" /\ line' \in Lost
       \/ line = "stalled" /\ line' = "reset"
    /\ UNCHANGED <<gui, window, hThreadClient, hEndClientEvent, ClientSsl, timer,
                   receiver, opened, early>>

Next == Gui \/ ThreadClient \/ LineFails

Spec == Init /\ [][Next]_vars

-----------------------------------------------------------------------------
(* Safety.                                                                   *)

\* A loss that is still queued while a receive thread is there was announced by
\* that thread's connection: a late announcement of one connection never ends
\* the next, although IDM_DISCONNECT does not say which it means.
LossIsOfThisConnection ==
    \A i \in DOMAIN queue :
        hThreadClient /\ queue[i].kind = "WM_CLIENT_LOST" => queue[i].of = opened

\* A control may write to a TLS handle the receive thread has just freed; it
\* can only do so while that thread's announcement of the loss waits for the GUI.
FreedHandleIsAnnounced == gui = "send" /\ ClientSsl = 0 => Announced

\* Without a receive thread a TLS handle is left over only by a login that was
\* not accepted, or by a thread that failed to start and left its event open.
\* The next Connect takes such a handle for a connection, lost or not.
LeftoverHandle ==
    gui = "idle" /\ ~hThreadClient /\ ClientSsl # 0 =>
        login_state # "LOGIN_OK" \/ hEndClientEvent # "none"

\* An operator who is not connected is shown no state of the cannon, once the
\* queue holds no more reports: UNKNOWN is posted after the thread's last one.
UnknownWhenDisconnected ==
    ~hThreadClient /\ StatesQueued = {} => shown # "reported"

-----------------------------------------------------------------------------
(* Liveness.  Both threads run, and a message sent to the GUI or the timer's *)
(* message gets its turn between clicks.  Nothing is assumed of the operator *)
(* or of the network.                                                        *)

Fairness ==
    /\ WF_vars(LoginAccepted \/ LoginRefused \/ LoginFails)
    /\ WF_vars(WriteData) /\ WF_vars(Stopped)
    /\ WF_vars(HandleClientLost \/ HandleSystemState)
    /\ SF_vars(HandleTimer)
    /\ WF_vars(CreateEvents) /\ WF_vars(SeeExitEvent) /\ WF_vars(SeeClose)
    /\ WF_vars(ReceiveImage \/ ReceiveHeartbeat \/ ReceiveState \/ ReceiveText \/ ReadFails)
    /\ SF_vars(PrintText) /\ WF_vars(ClientCleanup)

LiveSpec == Spec /\ Fairness

\* What keeps StopClient, which waits without a limit on the GUI thread: the
\* receive thread waits for that GUI thread to take a text; it is in the middle
\* of a message that never ends; or its exit event was set before it existed.
Trapped ==
    /\ gui \in {"stop", "timeout"}
    /\ \/ receiver = "text"
       \/ receiver = "read" /\ line = "stalled"
       \/ early

\* StopClient returns unless it is trapped in one of these three ways.
StopReturns == gui \in {"stop", "timeout"} ~> gui = "idle" \/ Trapped

\* Nobody watches a connection that fails before its first heartbeat, unless the
\* server closed it in order, nor one whose receive thread failed to start.
Unwatched ==
    /\ timer = 0
    /\ \/ line \in {"reset", "stalled"}
       \/ receiver = "ended" /\ ClientSsl # 0

\* A lost connection is given up, unless StopClient is trapped or nobody
\* watches the connection.
LossIsNoticed ==
    hThreadClient /\ line \in Lost ~> ~hThreadClient \/ Trapped \/ Unwatched

=============================================================================
