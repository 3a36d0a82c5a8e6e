---------------------------- MODULE ClientProofs ----------------------------
(* Theorems about Client, for every value of its constants.                  *)
EXTENDS Client, TLAPS, SequenceTheorems

Messages ==
    {ClientLost(n) : n \in 1 .. MaxConnections}
        \cup {SystemState(s) : s \in {"UNKNOWN", "reported"}}

\* TypeOK but for the queue.
Ranges ==
    /\ gui \in {"idle", "login", "send", "stop", "timeout"}
    /\ shown \in {"SAFE", "UNKNOWN", "reported"}
    /\ connectEnabled \in BOOLEAN
    /\ login_state \in LoginStates
    /\ hThreadClient \in BOOLEAN
    /\ hEndClientEvent \in {"none", "clear", "set"}
    /\ ClientSsl \in 0 .. MaxConnections
    /\ timer \in 0 .. MaxConnections
    /\ receiver \in {"none", "start", "wait", "read", "text", "cleanup", "ended"}
    /\ line \in {"none", "up"} \cup Lost
    /\ opened \in 0 .. MaxConnections
    /\ early \in BOOLEAN
    /\ hThreadClient <=> receiver # "none"
    /\ ClientSsl \in {0, opened}

\* A TLS handle is not nullptr where a loss is announced, because the
\* announcement names its connection; and the GUI thread waits for a receive
\* thread, or writes a message, only while the thread's handle is valid.
TypeInv ==
    /\ queue \in Seq(Messages)
    /\ Ranges
    /\ gui = "login" => ClientSsl # 0 /\ ~hThreadClient
    /\ gui \in {"send", "stop", "timeout"} => hThreadClient
    /\ hThreadClient => opened # 0
    /\ receiver \in {"start", "wait", "read", "text", "cleanup"} => ClientSsl # 0

LEMMA MessageTypes ==
    /\ \A n \in 1 .. MaxConnections : ClientLost(n) \in Messages
    /\ \A s \in {"UNKNOWN", "reported"} : SystemState(s) \in Messages
    /\ \A m \in Messages :
         \/ m.kind = "WM_CLIENT_LOST" /\ m.of \in 1 .. MaxConnections
         \/ m.kind = "WM_SYSTEM_STATE" /\ m.state \in {"UNKNOWN", "reported"}
BY DEF Messages, ClientLost, SystemState

\* What posting a message and taking the first one leave in the queue.
LEMMA Posted ==
    ASSUME NEW q \in Seq(Messages), NEW m \in Messages
    PROVE  /\ Append(q, m) \in Seq(Messages)
           /\ \A i \in DOMAIN Append(q, m) : Append(q, m)[i] \in Messages
           /\ Len(Append(q, m)) = Len(q) + 1
           /\ DOMAIN Append(q, m) = 1 .. Len(q) + 1
           /\ Append(q, m)[Len(q) + 1] = m
           /\ \A i \in 1 .. Len(q) : Append(q, m)[i] = q[i]
BY AppendProperties

LEMMA Taken ==
    ASSUME NEW q \in Seq(Messages), q # <<>>
    PROVE  /\ Head(q) \in Messages /\ Head(q) = q[1]
           /\ Tail(q) \in Seq(Messages)
           /\ DOMAIN Tail(q) = 1 .. Len(q) - 1
           /\ \A i \in 1 .. Len(q) - 1 : Tail(q)[i] = q[i + 1]
           /\ Len(q) \in Nat \ {0}
BY HeadTailProperties, EmptySeq, LenProperties

LEMMA QueueTyped ==
    ASSUME NEW q \in Seq(Messages)
    PROVE  \A i \in DOMAIN q :
             q[i] \in {ClientLost(n) : n \in 1 .. MaxConnections}
                      \cup {SystemState(s) : s \in {"UNKNOWN", "reported"}}
BY DEF Messages

LEMMA InitTypeInv == Init => TypeInv
<1> SUFFICES ASSUME Init PROVE TypeInv
  OBVIOUS
<1>1. queue \in Seq(Messages)
  BY DEF Init
<1>2. opened \in 0 .. MaxConnections /\ ClientSsl \in 0 .. MaxConnections /\ timer \in 0 .. MaxConnections
  BY ConnectionsAssumption DEF Init
<1> QED BY <1>1, <1>2 DEF Init, TypeInv, Ranges, LoginStates

\* A posted loss names a connection there has been.
LEMMA LossTyped == ASSUME TypeInv PROVE
    /\ ClientSsl # 0 => ClientLost(ClientSsl) \in Messages
    /\ opened # 0 => ClientLost(opened) \in Messages
    /\ SystemState("UNKNOWN") \in Messages /\ SystemState("reported") \in Messages
BY MessageTypes, ConnectionsAssumption DEF TypeInv, Ranges

LEMMA GuiTypeInv == ASSUME TypeInv, Gui PROVE TypeInv'
<1> USE ConnectionsAssumption DEF TypeInv, Ranges, window
<1>1. CASE Connect
  BY <1>1 DEF Connect, InputTurn
<1>2. CASE LoginAccepted
  BY <1>2 DEF LoginAccepted, LoginStates
<1>3. CASE LoginRefused
  BY <1>3 DEF LoginRefused, LoginStates
<1>4. CASE LoginFails
  BY <1>4, LossTyped, Posted DEF LoginFails, LoginStates
<1>5. CASE Click
  BY <1>5 DEF Click, InputTurn
<1>6. CASE WriteData
  BY <1>6, LossTyped, Posted DEF WriteData
<1>7. CASE DisconnectClick
  BY <1>7 DEF DisconnectClick, Disconnect, OnDisconnect, InputTurn
<1>8. CASE HandleClientLost
  <2>1. queue' \in Seq(Messages)
    BY <1>8, Taken DEF HandleClientLost
  <2>2. early' \in BOOLEAN
    BY <1>8 DEF HandleClientLost, Disconnect, OnDisconnect
  <2> QED BY <1>8, <2>1, <2>2 DEF HandleClientLost, Disconnect, OnDisconnect
<1>9. CASE HandleSystemState
  BY <1>9, Taken, MessageTypes DEF HandleSystemState
<1>10. CASE HandleTimer
  <2>1. early' \in BOOLEAN
    BY <1>10 DEF HandleTimer, OnDisconnect
  <2>2. CASE hThreadClient
    BY <1>10, <2>1, <2>2 DEF HandleTimer, OnDisconnect, InputTurn
  <2>3. CASE ~hThreadClient
    BY <1>10, <2>1, <2>3 DEF HandleTimer, OnDisconnect, InputTurn
  <2> QED BY <2>2, <2>3
<1>11. CASE Stopped
  <2>1. queue' \in Seq(Messages)
    BY <1>11, LossTyped, Posted DEF Stopped
  <2>2. timer' \in 0 .. MaxConnections
    BY <1>11 DEF Stopped
  <2> QED BY <1>11, <2>1, <2>2 DEF Stopped
<1> QED
  BY <1>1, <1>2, <1>3, <1>4, <1>5, <1>6, <1>7, <1>8, <1>9, <1>10, <1>11 DEF Gui

LEMMA ReceiverTypeInv == ASSUME TypeInv, ThreadClient PROVE TypeInv'
<1> USE ConnectionsAssumption DEF TypeInv, Ranges, window, Receiver
<1>1. CASE CreateEvents
  BY <1>1 DEF CreateEvents
<1>2. CASE SeeExitEvent
  BY <1>2 DEF SeeExitEvent
<1>3. CASE BeginRead
  BY <1>3 DEF BeginRead
<1>4. CASE ReceiveImage
  BY <1>4 DEF ReceiveImage
<1>5. CASE ReceiveHeartbeat
  BY <1>5 DEF ReceiveHeartbeat
<1>6. CASE ReceiveState
  BY <1>6, LossTyped, Posted DEF ReceiveState
<1>7. CASE ReceiveText
  BY <1>7 DEF ReceiveText
<1>8. CASE PrintText
  BY <1>8 DEF PrintText
<1>9. CASE ReadFails
  BY <1>9, LossTyped, Posted DEF ReadFails
<1>10. CASE SeeClose
  BY <1>10, LossTyped, Posted DEF SeeClose
<1>11. CASE ClientCleanup
  BY <1>11 DEF ClientCleanup
<1> QED
  BY <1>1, <1>2, <1>3, <1>4, <1>5, <1>6, <1>7, <1>8, <1>9, <1>10, <1>11 DEF ThreadClient

LEMMA StepTypeInv == TypeInv /\ [Next]_vars => TypeInv'
<1> SUFFICES ASSUME TypeInv, [Next]_vars PROVE TypeInv'
  OBVIOUS
<1>1. CASE LineFails
  BY <1>1 DEF LineFails, TypeInv, Ranges, window, Lost
<1>2. CASE UNCHANGED vars
  BY <1>2 DEF vars, TypeInv, Ranges, window
<1> QED BY <1>1, <1>2, GuiTypeInv, ReceiverTypeInv DEF Next

\* Every variable keeps its range: the thread handle is valid exactly while there
\* is a receive thread, and the TLS handle is that of the newest connection.
THEOREM TypeCorrect == Spec => []TypeOK
<1>1. TypeInv => TypeOK
  BY QueueTyped DEF TypeInv, Ranges, TypeOK
<1> QED BY <1>1, InitTypeInv, StepTypeInv, PTL DEF Spec

-----------------------------------------------------------------------------
(* Losses, handles and the exit event.                                       *)

Stopping == gui \in {"stop", "timeout"}

\* While StopClient does not wait, a receive thread that ends announced it, and an
\* exit event that is set is left over from an earlier thread.  So a TLS handle
\* freed under the GUI thread always has its announcement queued.
HandleInv ==
    /\ gui = "login" => queue = <<>>
    /\ ~Stopping /\ hEndClientEvent = "set" => receiver \in {"none", "start"}
    /\ ~Stopping /\ receiver = "cleanup" => Announced
    /\ ~Stopping /\ hThreadClient /\ ClientSsl = 0 => Announced
    /\ receiver = "ended" => ClientSsl = 0 \/ hEndClientEvent # "none"

\* The last state queued for a window without a connection is UNKNOWN.
UnknownLast ==
    ~hThreadClient =>
        \/ StatesQueued = {} /\ shown # "reported"
        \/ \E i \in StatesQueued : queue[i].state = "UNKNOWN" /\ \A j \in StatesQueued : j <= i

LEMMA InitHandle == Init => HandleInv /\ LossIsOfThisConnection /\ LeftoverHandle /\ UnknownLast
BY DEF Init, HandleInv, LossIsOfThisConnection, LeftoverHandle, UnknownLast, Stopping, StatesQueued

\* Posting keeps what is queued, and posting a loss announces one.
LEMMA PostedLoss ==
    ASSUME TypeInv, NEW n \in 1 .. MaxConnections, queue' = Append(queue, ClientLost(n))
    PROVE  /\ Announced'
           /\ \A i \in DOMAIN queue' : \/ i \in DOMAIN queue /\ queue'[i] = queue[i]
                                       \/ queue'[i] = ClientLost(n)
           /\ StatesQueued' = StatesQueued
           /\ \A i \in StatesQueued : queue'[i] = queue[i]
<1>1. ClientLost(n) \in Messages /\ queue \in Seq(Messages) /\ DOMAIN queue = 1 .. Len(queue) /\ Len(queue) \in Nat
  BY MessageTypes DEF TypeInv
<1>2. /\ DOMAIN queue' = 1 .. Len(queue) + 1 /\ queue'[Len(queue) + 1] = ClientLost(n)
      /\ \A i \in 1 .. Len(queue) : queue'[i] = queue[i]
  BY <1>1, Posted
<1>3. ClientLost(n).kind = "WM_CLIENT_LOST"
  BY DEF ClientLost
<1>4. Announced'
  BY <1>1, <1>2, <1>3 DEF Announced
<1>5. StatesQueued' = StatesQueued /\ \A i \in StatesQueued : queue'[i] = queue[i]
  BY <1>1, <1>2, <1>3 DEF StatesQueued
<1>6. \A i \in DOMAIN queue' : (i \in DOMAIN queue /\ queue'[i] = queue[i]) \/ queue'[i] = ClientLost(n)
  BY <1>1, <1>2
<1> QED BY <1>4, <1>5, <1>6

LEMMA PostedState ==
    ASSUME TypeInv, NEW s \in {"UNKNOWN", "reported"}, queue' = Append(queue, SystemState(s))
    PROVE  /\ Announced => Announced'
           /\ \A i \in DOMAIN queue' : (i \in DOMAIN queue /\ queue'[i] = queue[i])
                                       \/ queue'[i] = SystemState(s)
           /\ Len(queue) + 1 \in StatesQueued' /\ queue'[Len(queue) + 1] = SystemState(s)
           /\ \A j \in StatesQueued' : j <= Len(queue) + 1
<1>1. SystemState(s) \in Messages /\ queue \in Seq(Messages) /\ DOMAIN queue = 1 .. Len(queue) /\ Len(queue) \in Nat
  BY MessageTypes DEF TypeInv
<1>2. /\ DOMAIN queue' = 1 .. Len(queue) + 1 /\ queue'[Len(queue) + 1] = SystemState(s)
      /\ \A i \in 1 .. Len(queue) : queue'[i] = queue[i]
  BY <1>1, Posted
<1>3. SystemState(s).kind = "WM_SYSTEM_STATE"
  BY DEF SystemState
<1>4. Announced => Announced'
  BY <1>1, <1>2 DEF Announced
<1>5. Len(queue) + 1 \in StatesQueued' /\ \A j \in StatesQueued' : j <= Len(queue) + 1
  BY <1>1, <1>2, <1>3 DEF StatesQueued
<1> QED BY <1>1, <1>2, <1>4, <1>5

\* Taking the first message shifts the others, and only removes that one.
LEMMA TakenFirst ==
    ASSUME TypeInv, queue # <<>>, queue' = Tail(queue)
    PROVE  /\ Announced => Head(queue).kind = "WM_CLIENT_LOST" \/ Announced'
           /\ \A i \in DOMAIN queue' : i + 1 \in DOMAIN queue /\ queue'[i] = queue[i + 1]
           /\ \A i : i \in StatesQueued' <=> i \in Nat \ {0} /\ i + 1 \in StatesQueued
           /\ Head(queue) = queue[1] /\ 1 \in DOMAIN queue
           /\ StatesQueued \subseteq Nat \ {0}
<1>1. queue \in Seq(Messages) /\ DOMAIN queue = 1 .. Len(queue)
  BY DEF TypeInv
<1>2. /\ Head(queue) = queue[1]
      /\ DOMAIN queue' = 1 .. Len(queue) - 1
      /\ \A i \in 1 .. Len(queue) - 1 : queue'[i] = queue[i + 1]
      /\ Len(queue) \in Nat \ {0}
  BY <1>1, Taken
<1>3. Announced => Head(queue).kind = "WM_CLIENT_LOST" \/ Announced'
  <2>1. SUFFICES ASSUME NEW i \in DOMAIN queue, queue[i].kind = "WM_CLIENT_LOST", i # 1
                 PROVE  Announced'
    BY <1>2 DEF Announced
  <2>2. i - 1 \in DOMAIN queue' /\ queue'[i - 1] = queue[i]
    BY <1>1, <1>2, <2>1
  <2> QED BY <2>1, <2>2 DEF Announced
<1>4. \A i : i \in StatesQueued' <=> i \in Nat \ {0} /\ i + 1 \in StatesQueued
  BY <1>1, <1>2 DEF StatesQueued
<1> QED BY <1>1, <1>2, <1>3, <1>4 DEF StatesQueued

LEMMA GuiHandle ==
    ASSUME TypeInv, HandleInv, Gui
    PROVE  HandleInv'
<1> USE DEF HandleInv, Stopping, TypeInv, Ranges, window
<1>1. CASE Connect
  BY <1>1 DEF Connect, InputTurn, Announced
<1>2. CASE LoginAccepted
  BY <1>2 DEF LoginAccepted
<1>3. CASE LoginRefused
  BY <1>3 DEF LoginRefused
<1>4. CASE LoginFails
  BY <1>4 DEF LoginFails
<1>5. CASE Click
  BY <1>5 DEF Click, InputTurn, Announced
<1>6. CASE WriteData
  <2>1. Announced => Announced'
    <3>1. CASE UNCHANGED queue
      BY <3>1 DEF Announced
    <3>2. CASE queue' = Append(queue, ClientLost(opened))
      BY <1>6, <3>2, PostedLoss, ConnectionsAssumption DEF WriteData
    <3> QED BY <1>6, <3>1, <3>2 DEF WriteData
  <2> QED BY <1>6, <2>1 DEF WriteData
<1>7. CASE DisconnectClick
  BY <1>7 DEF DisconnectClick, Disconnect, OnDisconnect, InputTurn, Announced
<1>8. CASE HandleClientLost
  BY <1>8 DEF HandleClientLost, Disconnect, OnDisconnect
<1>9. CASE HandleSystemState
  BY <1>9, TakenFirst DEF HandleSystemState
<1>10. CASE HandleTimer
  BY <1>10 DEF HandleTimer, OnDisconnect, InputTurn, Announced
<1>11. CASE Stopped
  BY <1>11 DEF Stopped
<1> QED
  BY <1>1, <1>2, <1>3, <1>4, <1>5, <1>6, <1>7, <1>8, <1>9, <1>10, <1>11 DEF Gui

LEMMA ReceiverHandle ==
    ASSUME TypeInv, HandleInv, ThreadClient
    PROVE  HandleInv'
<1> USE DEF HandleInv, Stopping, TypeInv, Ranges, window, Receiver
<1>1. UNCHANGED queue => Announced' = Announced
  BY DEF Announced
<1>2. CASE CreateEvents \/ SeeExitEvent \/ BeginRead \/ ReceiveImage \/ ReceiveHeartbeat
           \/ ReceiveText \/ PrintText
  BY <1>1, <1>2 DEF CreateEvents, SeeExitEvent, BeginRead, ReceiveImage, ReceiveHeartbeat,
                    ReceiveText, PrintText
<1>3. CASE ReceiveState
  BY <1>3, PostedState DEF ReceiveState
<1>4. CASE ReadFails
  <2>1. Announced => Announced'
    <3>1. CASE UNCHANGED queue
      BY <3>1 DEF Announced
    <3>2. CASE queue' = Append(queue, ClientLost(ClientSsl))
      BY <1>4, <3>2, PostedLoss, ConnectionsAssumption DEF ReadFails
    <3> QED BY <1>4, <3>1, <3>2 DEF ReadFails
  <2> QED BY <1>4, <2>1 DEF ReadFails
<1>5. CASE SeeClose
  BY <1>5, PostedLoss, ConnectionsAssumption DEF SeeClose
<1>6. CASE ClientCleanup
  BY <1>1, <1>6 DEF ClientCleanup
<1> QED BY <1>2, <1>3, <1>4, <1>5, <1>6 DEF ThreadClient

LEMMA StepHandle == TypeInv /\ HandleInv /\ [Next]_vars => HandleInv'
<1> SUFFICES ASSUME TypeInv, HandleInv, [Next]_vars PROVE HandleInv'
  OBVIOUS
<1>1. CASE LineFails \/ UNCHANGED vars
  BY <1>1 DEF LineFails, vars, HandleInv, Stopping, window, Announced
<1> QED BY <1>1, GuiHandle, ReceiverHandle DEF Next

\* A control writes to a TLS handle that the receive thread has freed only while
\* that thread's announcement waits for the GUI thread.
THEOREM FreedHandle == Spec => []FreedHandleIsAnnounced
<1>1. TypeInv /\ HandleInv => FreedHandleIsAnnounced
  BY DEF TypeInv, Ranges, HandleInv, Stopping, FreedHandleIsAnnounced
<1> QED BY <1>1, InitTypeInv, StepTypeInv, InitHandle, StepHandle, PTL DEF Spec

-----------------------------------------------------------------------------
(* Announcements of a loss belong to the connection they end.                *)

LEMMA StepLoss ==
    TypeInv /\ HandleInv /\ LossIsOfThisConnection /\ [Next]_vars => LossIsOfThisConnection'
<1> SUFFICES ASSUME TypeInv, HandleInv, LossIsOfThisConnection, [Next]_vars,
                    NEW i \in DOMAIN queue', hThreadClient', queue'[i].kind = "WM_CLIENT_LOST"
             PROVE  queue'[i].of = opened'
  BY DEF LossIsOfThisConnection
<1> USE DEF LossIsOfThisConnection, TypeInv, Ranges, window
<1>a. ASSUME NEW n \in 1 .. MaxConnections PROVE ClientLost(n).of = n
  BY DEF ClientLost
<1>b. ASSUME NEW s \in {"UNKNOWN", "reported"} PROVE SystemState(s).kind # "WM_CLIENT_LOST"
  BY DEF SystemState
<1>1. CASE UNCHANGED <<queue, opened, hThreadClient>>
  BY <1>1
<1>2. CASE Connect
  BY <1>2 DEF Connect
<1>3. CASE LoginAccepted
  BY <1>3 DEF LoginAccepted, HandleInv
<1>4. CASE LoginFails
  BY <1>4 DEF LoginFails
<1>5. CASE WriteData
  BY <1>1, <1>5, <1>a, PostedLoss, ConnectionsAssumption DEF WriteData
<1>6. CASE HandleClientLost
  BY <1>6, TakenFirst DEF HandleClientLost, Disconnect
<1>7. CASE HandleSystemState
  BY <1>7, TakenFirst DEF HandleSystemState
<1>8. CASE Stopped
  BY <1>8 DEF Stopped
<1>9. CASE ReceiveState
  BY <1>9, <1>b, PostedState DEF ReceiveState
<1>10. CASE ReadFails
  BY <1>1, <1>10, <1>a, PostedLoss, ConnectionsAssumption DEF ReadFails, Receiver
<1>11. CASE SeeClose
  BY <1>11, <1>a, PostedLoss, ConnectionsAssumption DEF SeeClose, Receiver
<1>12. CASE LoginRefused \/ Click \/ DisconnectClick \/ HandleTimer
  BY <1>1, <1>12 DEF LoginRefused, Click, DisconnectClick, Disconnect, HandleTimer
<1>13. CASE CreateEvents \/ SeeExitEvent \/ BeginRead \/ ReceiveImage \/ ReceiveHeartbeat
            \/ ReceiveText \/ PrintText \/ ClientCleanup \/ LineFails \/ UNCHANGED vars
  BY <1>1, <1>13 DEF CreateEvents, SeeExitEvent, BeginRead, ReceiveImage, ReceiveHeartbeat,
                     ReceiveText, PrintText, ClientCleanup, LineFails, vars
<1> QED
  BY <1>2, <1>3, <1>4, <1>5, <1>6, <1>7, <1>8, <1>9, <1>10, <1>11, <1>12, <1>13
  DEF Next, Gui, ThreadClient

\* The announcement of one connection's loss never ends the next connection.
THEOREM LossOfThisConnection == Spec => []LossIsOfThisConnection
BY InitTypeInv, StepTypeInv, InitHandle, StepHandle, StepLoss, PTL DEF Spec

-----------------------------------------------------------------------------
(* What is left when there is no receive thread.                             *)

LEMMA StepLeftover ==
    TypeInv /\ HandleInv /\ LeftoverHandle /\ [Next]_vars => LeftoverHandle'
<1> SUFFICES ASSUME TypeInv, HandleInv, LeftoverHandle, [Next]_vars,
                    gui' = "idle", ~hThreadClient', ClientSsl' # 0
             PROVE  login_state' # "LOGIN_OK" \/ hEndClientEvent' # "none"
  BY DEF LeftoverHandle
<1> USE DEF LeftoverHandle, TypeInv, Ranges, window
<1>1. CASE Connect \/ LoginAccepted \/ LoginRefused \/ LoginFails
  BY <1>1 DEF Connect, LoginAccepted, LoginRefused, LoginFails
<1>2. CASE Click \/ WriteData
  BY <1>2 DEF Click, InputTurn, WriteData
<1>3. CASE DisconnectClick \/ HandleClientLost
  BY <1>3 DEF DisconnectClick, HandleClientLost, Disconnect, OnDisconnect, InputTurn
<1>4. CASE HandleTimer \/ HandleSystemState
  BY <1>4 DEF HandleTimer, HandleSystemState, OnDisconnect, InputTurn
<1>5. CASE Stopped
  BY <1>5 DEF Stopped, HandleInv
<1>6. CASE ThreadClient
  BY <1>6 DEF ThreadClient, Receiver, CreateEvents, SeeExitEvent, BeginRead, ReceiveImage,
              ReceiveHeartbeat, ReceiveState, ReceiveText, PrintText, ReadFails, SeeClose,
              ClientCleanup
<1>7. CASE LineFails \/ UNCHANGED vars
  BY <1>7 DEF LineFails, vars
<1> QED BY <1>1, <1>2, <1>3, <1>4, <1>5, <1>6, <1>7 DEF Next, Gui

\* A TLS handle without a receive thread is that of a login that was not accepted
\* or of a thread that failed to start.
THEOREM Leftover == Spec => []LeftoverHandle
BY InitTypeInv, StepTypeInv, InitHandle, StepHandle, StepLeftover, PTL DEF Spec

LEMMA StepUnknown == TypeInv /\ UnknownLast /\ [Next]_vars => UnknownLast'
<1> SUFFICES ASSUME TypeInv, UnknownLast, [Next]_vars, ~hThreadClient'
             PROVE  \/ StatesQueued' = {} /\ shown' # "reported"
                    \/ \E i \in StatesQueued' : /\ queue'[i].state = "UNKNOWN"
                                                /\ \A j \in StatesQueued' : j <= i
  BY DEF UnknownLast
<1> USE DEF TypeInv, Ranges, window
<1>1. CASE UNCHANGED <<queue, shown, hThreadClient>>
  BY <1>1 DEF UnknownLast, StatesQueued
<1>2. CASE LoginFails
  <2>1. CASE UNCHANGED queue
    BY <1>1, <1>2, <2>1 DEF LoginFails
  <2>2. CASE queue' = Append(queue, ClientLost(ClientSsl))
    <3>1. ClientSsl \in 1 .. MaxConnections
      BY <1>2, ConnectionsAssumption DEF LoginFails
    <3>2. StatesQueued' = StatesQueued /\ \A i \in StatesQueued : queue'[i] = queue[i]
      BY <2>2, <3>1, PostedLoss
    <3>3. ~hThreadClient /\ UNCHANGED shown
      BY <1>2 DEF LoginFails
    <3> QED BY <3>2, <3>3 DEF UnknownLast
  <2> QED BY <1>2, <2>1, <2>2 DEF LoginFails
<1>3. CASE HandleClientLost
  <2>1. \A i : i \in StatesQueued' <=> i \in Nat \ {0} /\ i + 1 \in StatesQueued
    BY <1>3, TakenFirst DEF HandleClientLost
  <2>2. 1 \notin StatesQueued /\ StatesQueued \subseteq Nat \ {0}
    BY <1>3, TakenFirst DEF HandleClientLost, StatesQueued
  <2>3. CASE StatesQueued = {} /\ shown # "reported"
    BY <1>3, <2>1, <2>3 DEF HandleClientLost, Disconnect
  <2>4. ASSUME NEW i \in StatesQueued, queue[i].state = "UNKNOWN", \A j \in StatesQueued : j <= i
        PROVE  /\ i - 1 \in StatesQueued' /\ queue'[i - 1].state = "UNKNOWN"
               /\ \A j \in StatesQueued' : j <= i - 1
    <3>1. i - 1 \in StatesQueued' /\ \A j \in StatesQueued' : j <= i - 1
      BY <2>1, <2>2, <2>4
    <3>2. queue'[i - 1] = queue[i]
      BY <1>3, <2>2, <3>1, TakenFirst DEF HandleClientLost, StatesQueued
    <3> QED BY <2>4, <3>1, <3>2
  <2> QED BY <1>3, <2>3, <2>4 DEF UnknownLast, HandleClientLost, Disconnect
<1>4. CASE HandleSystemState
  <2>1. \A i : i \in StatesQueued' <=> i \in Nat \ {0} /\ i + 1 \in StatesQueued
    BY <1>4, TakenFirst DEF HandleSystemState
  <2>2. 1 \in StatesQueued /\ StatesQueued \subseteq Nat \ {0} /\ shown' = queue[1].state
    BY <1>4, TakenFirst DEF HandleSystemState, StatesQueued
  <2>3. PICK i \in StatesQueued : queue[i].state = "UNKNOWN" /\ \A j \in StatesQueued : j <= i
    BY <1>4, <2>2 DEF HandleSystemState, UnknownLast
  <2>4. CASE i = 1
    BY <2>1, <2>2, <2>3, <2>4
  <2>5. CASE i # 1
    <3>1. i - 1 \in StatesQueued' /\ \A j \in StatesQueued' : j <= i - 1
      BY <2>1, <2>2, <2>3, <2>5
    <3>2. queue'[i - 1] = queue[i]
      BY <1>4, <2>2, <3>1, TakenFirst DEF HandleSystemState, StatesQueued
    <3> QED BY <2>3, <3>1, <3>2
  <2> QED BY <2>4, <2>5
<1>5. CASE Stopped
  <2>1. SystemState("UNKNOWN").state = "UNKNOWN"
    BY DEF SystemState
  <2> QED BY <1>5, <2>1, PostedState DEF Stopped
<1>6. CASE Connect \/ LoginAccepted \/ LoginRefused \/ Click \/ WriteData \/ DisconnectClick
           \/ HandleTimer
  BY <1>1, <1>6 DEF Connect, LoginAccepted, LoginRefused, Click, WriteData, DisconnectClick,
                    Disconnect, HandleTimer
<1>7. CASE ThreadClient
  BY <1>7 DEF ThreadClient, Receiver, CreateEvents, SeeExitEvent, BeginRead, ReceiveImage,
              ReceiveHeartbeat, ReceiveState, ReceiveText, PrintText, ReadFails, SeeClose,
              ClientCleanup
<1>8. CASE LineFails \/ UNCHANGED vars
  BY <1>1, <1>8 DEF LineFails, vars
<1> QED BY <1>2, <1>3, <1>4, <1>5, <1>6, <1>7, <1>8 DEF Next, Gui

\* Once its queue holds no state, the window of an operator who is not connected
\* shows no state of the cannon.
THEOREM UnknownShown == Spec => []UnknownWhenDisconnected
<1>1. UnknownLast => UnknownWhenDisconnected
  BY DEF UnknownLast, UnknownWhenDisconnected
<1> QED BY <1>1, InitTypeInv, StepTypeInv, InitHandle, StepUnknown, PTL DEF Spec
=============================================================================
