----------------------------- MODULE LocksProofs -----------------------------
(***************************************************************************)
(* Theorems about Locks.                                                   *)
(*                                                                         *)
(* What a thread has in its hands, its mutexes and an unfinished message,  *)
(* is followed through the operations of a queue.  Every helper leaves the *)
(* hands as it finds them; so a thread's hands are always those from which *)
(* the rest of its queue leads to empty ones.                              *)
(***************************************************************************)
EXTENDS Locks, SequenceTheorems, TLAPS

Operations ==
    [op : {"lock", "unlock"}, mutex : Mutexes]
    \cup [op : {"write"}, part : {"header", "body", "whole"}]
    \cup [op : {"mode"}, on : BOOLEAN] \cup [op : {"signal", "handle"}]

\* The mutexes held, and whether a header was written and its body was not.
Hands == {s \in [held : SUBSET Mutexes, mid : BOOLEAN] : s.mid => "TCP" \in s.held}

With(H) == [held |-> H, mid |-> FALSE]
Empty == With({})

\* The nesting of the helpers.
Nests(H, m) ==
    \/ H = {}
    \/ H = {"I2C"} /\ m = "TCP"
    \/ HaveOLED /\ H = {"TCP"} /\ m = "I2C"

\* What an operation makes of the hands, where it is in place.
Does(op, s, e) ==
    \/ op.op = "lock" /\ Nests(s.held, op.mutex)
       /\ e = [held |-> s.held \cup {op.mutex}, mid |-> s.mid]
    \/ op.op = "unlock" /\ op.mutex \in s.held /\ ~s.mid
       /\ e = [held |-> s.held \ {op.mutex}, mid |-> s.mid]
    \/ op = Write("header") /\ "TCP" \in s.held /\ ~s.mid /\ e = [held |-> s.held, mid |-> TRUE]
    \/ op = Write("body") /\ s.mid /\ e = [held |-> s.held, mid |-> FALSE]
    \/ op = Write("whole") /\ "TCP" \in s.held /\ ~s.mid /\ e = s
    \/ op.op \in {"mode", "signal"} /\ e = s
    \/ op.op = "handle" /\ s = Empty /\ e = s

\* The operations of q lead from the hands s to the hands e.
Leads(q, s, e) ==
    /\ q \in Seq(Operations)
    /\ \E h \in [1 .. Len(q) + 1 -> Hands] :
          /\ h[1] = s /\ h[Len(q) + 1] = e
          /\ \A i \in 1 .. Len(q) : Does(q[i], h[i], h[i + 1])

LEMMA NothingLeads ==
    ASSUME NEW s \in Hands
    PROVE  /\ Leads(<<>>, s, s)
           /\ \A e : Leads(<<>>, s, e) => e = s
<1>1. Leads(<<>>, s, s)
  <2> DEFINE h == [i \in 1 .. 1 |-> s]
  <2>1. h \in [1 .. Len(<<>>) + 1 -> Hands] /\ h[1] = s /\ h[Len(<<>>) + 1] = s
    OBVIOUS
  <2>2. \A i \in 1 .. Len(<<>>) : Does(<<>>[i], h[i], h[i + 1])
    OBVIOUS
  <2> HIDE DEF h
  <2> QED BY <2>1, <2>2 DEF Leads
<1>2. ASSUME NEW e, Leads(<<>>, s, e) PROVE e = s
  BY <1>2 DEF Leads
<1> QED BY <1>1, <1>2

LEMMA OneLeads ==
    ASSUME NEW op \in Operations, NEW s \in Hands, NEW e \in Hands, Does(op, s, e)
    PROVE  Leads(<<op>>, s, e)
<1> DEFINE h == [i \in 1 .. 2 |-> IF i = 1 THEN s ELSE e]
<1>1. h \in [1 .. Len(<<op>>) + 1 -> Hands] /\ h[1] = s /\ h[2] = e /\ Len(<<op>>) + 1 = 2
  OBVIOUS
<1>2. \A i \in 1 .. Len(<<op>>) : Does(<<op>>[i], h[i], h[i + 1])
  <2>1. \A i \in 1 .. Len(<<op>>) : i = 1 /\ <<op>>[i] = op
    OBVIOUS
  <2> HIDE DEF h
  <2> QED BY <1>1, <2>1
<1> HIDE DEF h
<1> QED BY <1>1, <1>2 DEF Leads

LEMMA BothLead ==
    ASSUME NEW q, NEW r, NEW s, NEW m, NEW e, Leads(q, s, m), Leads(r, m, e)
    PROVE  Leads(q \o r, s, e)
<1>1. PICK h \in [1 .. Len(q) + 1 -> Hands] :
          /\ h[1] = s /\ h[Len(q) + 1] = m
          /\ \A i \in 1 .. Len(q) : Does(q[i], h[i], h[i + 1])
  BY DEF Leads
<1>2. PICK k \in [1 .. Len(r) + 1 -> Hands] :
          /\ k[1] = m /\ k[Len(r) + 1] = e
          /\ \A i \in 1 .. Len(r) : Does(r[i], k[i], k[i + 1])
  BY DEF Leads
<1>3. /\ q \in Seq(Operations) /\ r \in Seq(Operations) /\ q \o r \in Seq(Operations)
      /\ Len(q) \in Nat /\ Len(r) \in Nat /\ Len(q \o r) = Len(q) + Len(r)
  BY DEF Leads
<1> DEFINE j == [i \in 1 .. Len(q) + Len(r) + 1 |->
                    IF i <= Len(q) + 1 THEN h[i] ELSE k[i - Len(q)]]
<1>4. j \in [1 .. Len(q \o r) + 1 -> Hands]
  <2>1. \A i \in 1 .. Len(q) + Len(r) + 1 : j[i] \in Hands
    BY <1>3
  <2> QED BY <1>3, <2>1
<1>5. j[1] = s /\ j[Len(q \o r) + 1] = e
  BY <1>1, <1>2, <1>3
<1>6. ASSUME NEW i \in 1 .. Len(q \o r) PROVE Does((q \o r)[i], j[i], j[i + 1])
  <2>1. CASE i <= Len(q)
    <3>1. (q \o r)[i] = q[i] /\ j[i] = h[i] /\ j[i + 1] = h[i + 1] /\ i \in 1 .. Len(q)
      BY <1>3, <2>1
    <3> HIDE DEF j
    <3> QED BY <1>1, <3>1
  <2>2. CASE ~(i <= Len(q))
    <3>1. (q \o r)[i] = r[i - Len(q)] /\ i - Len(q) \in 1 .. Len(r)
      BY <1>3, <2>2
    <3>2. j[i + 1] = k[(i - Len(q)) + 1]
      BY <1>3, <2>2
    <3>3. j[i] = k[i - Len(q)]
      BY <1>1, <1>2, <1>3, <2>2
    <3> HIDE DEF j
    <3> QED BY <1>2, <3>1, <3>2, <3>3
  <2> QED BY <2>1, <2>2
<1> HIDE DEF j
<1> QED BY <1>3, <1>4, <1>5, <1>6 DEF Leads

\* A queue that is not empty leads on from its first operation.
LEMMA LeadsOn ==
    ASSUME NEW q, NEW s \in Hands, NEW e, Leads(q, s, e), q # <<>>
    PROVE  /\ Head(q) \in Operations /\ Tail(q) \in Seq(Operations)
           /\ \E m \in Hands : Does(Head(q), s, m) /\ Leads(Tail(q), m, e)
<1>1. PICK h \in [1 .. Len(q) + 1 -> Hands] :
          /\ h[1] = s /\ h[Len(q) + 1] = e
          /\ \A i \in 1 .. Len(q) : Does(q[i], h[i], h[i + 1])
  BY DEF Leads
<1>2. /\ q \in Seq(Operations) /\ Len(q) \in Nat /\ Len(q) >= 1
      /\ Tail(q) \in Seq(Operations) /\ Len(Tail(q)) = Len(q) - 1 /\ Head(q) = q[1]
      /\ q[1] \in Operations
  BY DEF Leads
<1> DEFINE k == [i \in 1 .. Len(q) |-> h[i + 1]]
<1>3. k \in [1 .. Len(Tail(q)) + 1 -> Hands] /\ k[1] = h[2] /\ k[Len(Tail(q)) + 1] = e
  BY <1>1, <1>2
<1>4. ASSUME NEW i \in 1 .. Len(Tail(q)) PROVE Does(Tail(q)[i], k[i], k[i + 1])
  <2>1. /\ Tail(q)[i] = q[i + 1] /\ k[i] = h[i + 1] /\ k[i + 1] = h[(i + 1) + 1]
        /\ i + 1 \in 1 .. Len(q)
    BY <1>2
  <2> HIDE DEF k
  <2> QED BY <1>1, <2>1
<1> HIDE DEF k
<1>5. Leads(Tail(q), h[2], e)
  BY <1>2, <1>3, <1>4 DEF Leads
<1>6. Does(Head(q), s, h[2]) /\ h[2] \in Hands
  <2>1. 1 \in 1 .. Len(q) /\ 1 + 1 = 2 /\ 2 \in 1 .. Len(q) + 1
    BY <1>2
  <2> QED BY <1>1, <1>2, <2>1
<1> QED BY <1>2, <1>5, <1>6

-----------------------------------------------------------------------------
(* The helpers, and the queues made of them.                                 *)

LEMMA HandsAre ==
    /\ \A H \in SUBSET Mutexes : With(H) \in Hands
    /\ Empty \in Hands
    /\ \A H \in SUBSET Mutexes, m \in Mutexes : H \cup {m} \in SUBSET Mutexes
BY DEF Hands, With, Empty

LEMMA HoldingLeads ==
    ASSUME NEW H \in SUBSET Mutexes, NEW m \in Mutexes \ H, Nests(H, m), NEW ops,
           Leads(ops, With(H \cup {m}), With(H \cup {m}))
    PROVE  Leads(Holding(m, ops), With(H), With(H))
<1>1. Lock(m) \in Operations /\ Unlock(m) \in Operations
  BY DEF Operations, Lock, Unlock
<1>2. With(H) \in Hands /\ With(H \cup {m}) \in Hands
  BY HandsAre
<1>3. Does(Lock(m), With(H), With(H \cup {m}))
  BY DEF Does, Lock, With
<1>4. Does(Unlock(m), With(H \cup {m}), With(H))
  <2>1. (H \cup {m}) \ {m} = H
    OBVIOUS
  <2> QED BY <2>1 DEF Does, Unlock, With
<1>5. Leads(<<Lock(m)>>, With(H), With(H \cup {m}))
  BY <1>1, <1>2, <1>3, OneLeads
<1>6. Leads(<<Unlock(m)>>, With(H \cup {m}), With(H))
  BY <1>1, <1>2, <1>4, OneLeads
<1>7. Leads(<<Lock(m)>> \o ops, With(H), With(H \cup {m}))
  BY <1>5, BothLead
<1> QED BY <1>6, <1>7, BothLead DEF Holding

\* A message in one write, or in two.
LEMMA MessageLeads ==
    ASSUME NEW H \in SUBSET Mutexes, "TCP" \in H
    PROVE  /\ Leads(<<Write("whole")>>, With(H), With(H))
           /\ Leads(<<Write("header"), Write("body")>>, With(H), With(H))
<1> DEFINE half == [held |-> H, mid |-> TRUE]
<1>1. With(H) \in Hands /\ half \in Hands
  BY DEF Hands, With
<1>2. Write("whole") \in Operations /\ Write("header") \in Operations /\ Write("body") \in Operations
  BY DEF Operations, Write
<1>3. Does(Write("whole"), With(H), With(H))
  BY DEF Does, With
<1>4. Does(Write("header"), With(H), half) /\ Does(Write("body"), half, With(H))
  BY DEF Does, With
<1> HIDE DEF half
<1>5. Leads(<<Write("header")>>, With(H), half) /\ Leads(<<Write("body")>>, half, With(H))
  BY <1>1, <1>2, <1>4, OneLeads
<1>6. ASSUME NEW a \in Operations, NEW b \in Operations PROVE <<a>> \o <<b>> = <<a, b>>
  <2>1. /\ <<a>> \o <<b>> \in Seq(Operations) /\ <<a, b>> \in Seq(Operations)
        /\ Len(<<a>> \o <<b>>) = 2 /\ Len(<<a, b>>) = 2
        /\ \A i \in 1 .. 2 : (<<a>> \o <<b>>)[i] = <<a, b>>[i]
    OBVIOUS
  <2> QED BY <2>1, SeqEqual
<1>7. Leads(<<Write("header")>> \o <<Write("body")>>, With(H), With(H))
  BY <1>5, BothLead
<1> QED BY <1>1, <1>2, <1>3, <1>6, <1>7, OneLeads

\* The work of a thread that starts and ends with empty hands.
Complete(q) == Leads(q, Empty, Empty)

LEMMA CompleteJoined ==
    /\ Complete(<<>>)
    /\ \A q, r : Complete(q) /\ Complete(r) => Complete(q \o r)
BY NothingLeads, BothLead, HandsAre DEF Complete

LEMMA FlowComplete ==
    /\ \A on \in BOOLEAN : Complete(<<Mode(on)>>)
    /\ Complete(<<Signal>>)
    /\ Complete(<<Handle>>)
<1>1. Signal \in Operations /\ Does(Signal, Empty, Empty)
  BY DEF Operations, Signal, Does
<1>2. Handle \in Operations /\ Does(Handle, Empty, Empty)
  BY DEF Operations, Handle, Does
<1>3. \A on \in BOOLEAN : Mode(on) \in Operations /\ Does(Mode(on), Empty, Empty)
  BY DEF Operations, Mode, Does
<1> QED BY <1>1, <1>2, <1>3, OneLeads, HandsAre DEF Complete

LEMMA SendsComplete ==
    /\ Complete(PrintfSend) /\ Complete(SendReply) /\ Complete(HeartBeat)
    /\ Complete(ReadDataTcp) /\ Complete(TcpSendImageAsJpeg) /\ Complete(Change)
    /\ Leads(PrintfSend, With({"I2C"}), With({"I2C"}))
<1> USE DEF Complete, Empty, Nests, Mutexes
<1>1. ASSUME NEW H \in SUBSET Mutexes, NEW m \in Mutexes \ H, Nests(H, m)
      PROVE  Leads(Holding(m, <<>>), With(H), With(H))
  <2>1. With(H \cup {m}) \in Hands
    BY HandsAre
  <2> QED BY <1>1, <2>1, NothingLeads, HoldingLeads
<1>2. \A H \in {{}, {"I2C"}} :
          /\ H \in SUBSET Mutexes /\ "TCP" \in Mutexes \ H /\ Nests(H, "TCP")
          /\ H \cup {"TCP"} \in SUBSET Mutexes /\ "TCP" \in H \cup {"TCP"}
  OBVIOUS
<1>3. \A H \in {{}, {"I2C"}} :
          /\ Leads(Holding("TCP", <<Write("whole")>>), With(H), With(H))
          /\ Leads(Holding("TCP", <<Write("header"), Write("body")>>), With(H), With(H))
  BY <1>2, MessageLeads, HoldingLeads
<1>4. {} \in SUBSET Mutexes /\ "TCP" \in Mutexes \ {} /\ "GPIO" \in Mutexes \ {}
      /\ Nests({}, "TCP") /\ Nests({}, "GPIO")
  OBVIOUS
<1> QED BY <1>1, <1>3, <1>4
        DEF PrintfSend, SendReply, HeartBeat, ReadDataTcp, TcpSendImageAsJpeg, Change

LEMMA StateComplete == Complete(SendSystemState)
<1>1. Leads(OLED_UpdateStatus, With({"TCP"}), With({"TCP"}))
  <2>1. With({"TCP"}) \in Hands /\ With({"TCP", "I2C"}) \in Hands
    BY HandsAre DEF Mutexes
  <2>2. CASE HaveOLED
    <3>1. {"TCP"} \in SUBSET Mutexes /\ "I2C" \in Mutexes \ {"TCP"} /\ Nests({"TCP"}, "I2C")
      BY <2>2 DEF Mutexes, Nests
    <3>2. Leads(<<>>, With({"TCP"} \cup {"I2C"}), With({"TCP"} \cup {"I2C"}))
      BY <3>1, HandsAre, NothingLeads
    <3> QED BY <2>2, <3>1, <3>2, HoldingLeads DEF OLED_UpdateStatus
  <2>3. CASE ~HaveOLED
    BY <2>1, <2>3, NothingLeads DEF OLED_UpdateStatus
  <2> QED BY <2>2, <2>3
<1>2. {} \in SUBSET Mutexes /\ "TCP" \in Mutexes \ {} /\ Nests({}, "TCP")
      /\ {"TCP"} \in SUBSET Mutexes /\ {} \cup {"TCP"} = {"TCP"}
  BY DEF Mutexes, Nests
<1>3. Leads(OLED_UpdateStatus \o <<Write("whole")>>, With({} \cup {"TCP"}), With({} \cup {"TCP"}))
  BY <1>1, <1>2, MessageLeads, BothLead
<1> QED BY <1>2, <1>3, HoldingLeads DEF SendSystemState, Complete, Empty

LEMMA ServoComplete == \A limited \in BOOLEAN : Complete(ServoAngle(limited))
<1>1. {} \in SUBSET Mutexes /\ "I2C" \in Mutexes \ {} /\ Nests({}, "I2C") /\ {} \cup {"I2C"} = {"I2C"}
  BY DEF Mutexes, Nests
<1>2. Leads(<<>>, With({"I2C"}), With({"I2C"}))
  BY HandsAre, NothingLeads DEF Mutexes
<1>3. \A limited \in BOOLEAN :
          Leads(IF limited THEN PrintfSend ELSE <<>>, With({} \cup {"I2C"}), With({} \cup {"I2C"}))
  BY <1>1, <1>2, SendsComplete
<1> QED BY <1>1, <1>3, HoldingLeads DEF ServoAngle, Complete, Empty

LEMMA FramesComplete == \A q \in Frames : Complete(q)
<1>1. \A q \in TrackingFrames : Complete(q)
  BY CompleteJoined, FlowComplete, SendsComplete, StateComplete, ServoComplete
     DEF TrackingFrames
<1>2. Complete(ListCompleted)
  BY CompleteJoined, FlowComplete, SendsComplete, StateComplete DEF ListCompleted
<1> SUFFICES ASSUME NEW q \in Frames PROVE Complete(q)
  OBVIOUS
<1>3. PICK work : /\ work \in TrackingFrames \cup {ListCompleted, <<>>}
                  /\ q = work \/ q = work \o TcpSendImageAsJpeg
  BY DEF Frames
<1>4. Complete(work)
  BY <1>1, <1>2, <1>3, CompleteJoined
<1> QED BY <1>3, <1>4, CompleteJoined, SendsComplete

LEMMA MessagesComplete == \A q \in Messages : Complete(q)
<1>1. \A on \in BOOLEAN : Complete(Granted(on))
  BY CompleteJoined, FlowComplete, SendsComplete, StateComplete DEF Granted
<1> QED BY <1>1, CompleteJoined, SendsComplete, StateComplete, ServoComplete DEF Messages

LEMMA OthersComplete == Complete(Pulse) /\ Complete(ReadDataTcp \o <<Handle>>)
BY CompleteJoined, FlowComplete, SendsComplete, StateComplete DEF Pulse

-----------------------------------------------------------------------------
(* The invariant.                                                            *)

HandsOf(t) ==
    [held |-> {m \in Mutexes : owner[m] = t},
     mid |-> wire.by = t /\ wire.part = "header"]

\* From what a thread has in its hands, its queue leads to empty ones.
QueuesInv ==
    /\ owner \in [Mutexes -> Threads \cup {Nobody}]
    /\ automatic \in BOOLEAN
    /\ wire \in [by : Threads, part : {"header", "body", "whole"}]
    /\ todo \in [Threads -> Seq(Operations)]
    /\ \A t \in Threads : HandsOf(t) \in Hands /\ Leads(todo[t], HandsOf(t), Empty)

LEMMA InitQueues == Init => QueuesInv
<1> SUFFICES ASSUME Init PROVE QueuesInv
  OBVIOUS
<1>1. "network" \in Threads /\ Nobody \notin Threads
  BY DEF Threads, Nobody
<1>2. \A t \in Threads : HandsOf(t) = Empty
  <2>1. ASSUME NEW t \in Threads PROVE HandsOf(t) = Empty
    <3>1. {m \in Mutexes : owner[m] = t} = {}
      BY <1>1 DEF Init
    <3>2. ~(wire.by = t /\ wire.part = "header")
      BY DEF Init
    <3> QED BY <3>1, <3>2 DEF HandsOf, Empty, With
  <2> QED BY <2>1
<1>3. \A t \in Threads : todo[t] = <<>>
  BY DEF Init
<1>4. \A t \in Threads : HandsOf(t) \in Hands /\ Leads(todo[t], HandsOf(t), Empty)
  BY <1>2, <1>3, HandsAre, NothingLeads
<1>5. todo \in [Threads -> Seq(Operations)]
  BY DEF Init
<1> QED BY <1>1, <1>4, <1>5 DEF QueuesInv, Init

\* A thread takes the next operation of its queue, and what that does to its hands
\* is what the step does to mutexes and connection.
LEMMA StepsOn ==
    ASSUME QueuesInv, NEW t \in Threads, todo[t] # <<>>, Done(t),
           HandsOf(t)' \in Hands,
           \A e \in Hands : Does(Now(t), HandsOf(t), e) => HandsOf(t)' = e,
           \A u \in Threads \ {t} : HandsOf(u)' = HandsOf(u)
    PROVE  /\ todo' \in [Threads -> Seq(Operations)]
           /\ \A u \in Threads :
                 HandsOf(u)' \in Hands /\ Leads(todo'[u], HandsOf(u)', Empty)
<1>1. PICK e \in Hands : Does(Head(todo[t]), HandsOf(t), e) /\ Leads(Tail(todo[t]), e, Empty)
  BY LeadsOn DEF QueuesInv
<1>2. HandsOf(t)' = e
  BY <1>1 DEF Now
<1>3. /\ Tail(todo[t]) \in Seq(Operations) /\ todo'[t] = Tail(todo[t])
      /\ \A u \in Threads \ {t} : todo'[u] = todo[u]
      /\ todo' = [todo EXCEPT ![t] = Tail(todo[t])]
  BY LeadsOn DEF QueuesInv, Done
<1>4. todo' \in [Threads -> Seq(Operations)]
  BY <1>3 DEF QueuesInv
<1>5. ASSUME NEW u \in Threads
      PROVE  HandsOf(u)' \in Hands /\ Leads(todo'[u], HandsOf(u)', Empty)
  <2>1. CASE u = t
    BY <1>1, <1>2, <1>3, <2>1
  <2>2. CASE u # t
    BY <1>3, <2>2 DEF QueuesInv
  <2> QED BY <2>1, <2>2
<1> QED BY <1>4, <1>5

LEMMA QueuesTypes ==
    ASSUME QueuesInv, NEW t \in Threads, NEW op, At(t, op)
    PROVE  /\ Now(t) \in Operations /\ Now(t).op = op /\ todo[t] # <<>>
           /\ op \in {"lock", "unlock"} => Now(t).mutex \in Mutexes
           /\ op = "mode" => Now(t).on \in BOOLEAN
           /\ op = "write" => /\ Now(t).part \in {"header", "body", "whole"}
                              /\ Now(t) = Write(Now(t).part)
           /\ \E e \in Hands : Does(Now(t), HandsOf(t), e)
<1>1. Now(t) \in Operations /\ \E e \in Hands : Does(Now(t), HandsOf(t), e)
  BY LeadsOn DEF QueuesInv, At, Now
<1> QED BY <1>1 DEF Operations, At, Now, Write

\* Two threads never both have a mutex, nor a message, in hand.
LEMMA HandsApart ==
    ASSUME QueuesInv, NEW t \in Threads, NEW u \in Threads \ {t}
    PROVE  /\ HandsOf(t).held \cap HandsOf(u).held = {}
           /\ HandsOf(t).mid => "TCP" \in HandsOf(t).held
BY DEF HandsOf, QueuesInv, Hands

LEMMA AcquireQueues ==
    ASSUME QueuesInv, NEW t \in Threads, Acquire(t)
    PROVE  QueuesInv'
<1> DEFINE m == Now(t).mutex
<1>1. /\ At(t, "lock") /\ m \in Mutexes /\ owner[m] = Nobody /\ Now(t).op = "lock"
      /\ todo[t] # <<>> /\ Nobody \notin Threads
  BY QueuesTypes DEF Acquire, Threads, Nobody
<1>2. owner' = [owner EXCEPT ![m] = t] /\ owner' \in [Mutexes -> Threads \cup {Nobody}]
  BY <1>1 DEF Acquire, QueuesInv
<1>3. /\ {n \in Mutexes : owner'[n] = t} = {n \in Mutexes : owner[n] = t} \cup {m}
      /\ \A u \in Threads \ {t} : {n \in Mutexes : owner'[n] = u} = {n \in Mutexes : owner[n] = u}
  BY <1>1, <1>2 DEF QueuesInv
<1>4. HandsOf(t)' = [held |-> HandsOf(t).held \cup {m}, mid |-> HandsOf(t).mid]
      /\ \A u \in Threads \ {t} : HandsOf(u)' = HandsOf(u)
  BY <1>3 DEF HandsOf, Acquire
<1>5. HandsOf(t)' \in Hands
  BY <1>1, <1>4 DEF QueuesInv, Hands
<1>6. \A e \in Hands : Does(Now(t), HandsOf(t), e) => HandsOf(t)' = e
  BY <1>1, <1>4 DEF Does, Write
<1> HIDE DEF m
<1>7. Done(t) /\ UNCHANGED <<automatic, wire>>
  BY DEF Acquire
<1> QED BY <1>1, <1>2, <1>4, <1>5, <1>6, <1>7, StepsOn DEF QueuesInv

LEMMA ReleaseQueues ==
    ASSUME QueuesInv, NEW t \in Threads, Release(t)
    PROVE  QueuesInv'
<1> DEFINE m == Now(t).mutex
<1>1. /\ At(t, "unlock") /\ m \in Mutexes /\ Now(t).op = "unlock"
      /\ todo[t] # <<>> /\ Nobody \notin Threads
      /\ m \in HandsOf(t).held /\ ~HandsOf(t).mid
  BY QueuesTypes DEF Release, Threads, Nobody, Does, Write
<1>2. owner' = [owner EXCEPT ![m] = Nobody] /\ owner' \in [Mutexes -> Threads \cup {Nobody}]
  BY <1>1 DEF Release, QueuesInv
<1>3. /\ {n \in Mutexes : owner'[n] = t} = {n \in Mutexes : owner[n] = t} \ {m}
      /\ \A u \in Threads \ {t} : {n \in Mutexes : owner'[n] = u} = {n \in Mutexes : owner[n] = u}
  BY <1>1, <1>2 DEF QueuesInv, HandsOf
<1>4. HandsOf(t)' = [held |-> HandsOf(t).held \ {m}, mid |-> HandsOf(t).mid]
      /\ \A u \in Threads \ {t} : HandsOf(u)' = HandsOf(u)
  BY <1>3 DEF HandsOf, Release
<1>5. HandsOf(t)' \in Hands
  BY <1>1, <1>4 DEF QueuesInv, Hands
<1>6. \A e \in Hands : Does(Now(t), HandsOf(t), e) => HandsOf(t)' = e
  BY <1>1, <1>4 DEF Does, Write
<1> HIDE DEF m
<1>7. Done(t) /\ UNCHANGED <<automatic, wire>>
  BY DEF Release
<1> QED BY <1>1, <1>2, <1>4, <1>5, <1>6, <1>7, StepsOn DEF QueuesInv

\* A write follows its header, and needs the connection.
LEMMA WritesInPlace ==
    ASSUME QueuesInv, NEW t \in Threads, At(t, "write")
    PROVE  /\ Now(t) = Write(Now(t).part) /\ todo[t] # <<>>
           /\ Now(t).part \in {"header", "body", "whole"}
           /\ "TCP" \in HandsOf(t).held /\ HandsOf(t).mid \in BOOLEAN
           /\ HandsOf(t).mid <=> Now(t).part = "body"
<1>1. /\ Now(t) = Write(Now(t).part) /\ todo[t] # <<>> /\ Now(t).op = "write"
      /\ Now(t).part \in {"header", "body", "whole"}
  BY QueuesTypes
<1>2. PICK e \in Hands : Does(Now(t), HandsOf(t), e)
  BY QueuesTypes
<1>3. HandsOf(t).mid \in BOOLEAN /\ (HandsOf(t).mid => "TCP" \in HandsOf(t).held)
  BY DEF QueuesInv, Hands
<1>4. \A p \in {"header", "body", "whole"} : Write(p).part = p
  BY DEF Write
<1>5. \/ Now(t).part = "header" /\ "TCP" \in HandsOf(t).held /\ ~HandsOf(t).mid
      \/ Now(t).part = "body" /\ HandsOf(t).mid
      \/ Now(t).part = "whole" /\ "TCP" \in HandsOf(t).held /\ ~HandsOf(t).mid
  BY <1>1, <1>2, <1>4 DEF Does
<1> QED BY <1>1, <1>3, <1>5

LEMMA WriteQueues ==
    ASSUME QueuesInv, NEW t \in Threads, WriteDataTcp(t)
    PROVE  QueuesInv'
<1> DEFINE part == Now(t).part
<1>1. /\ At(t, "write") /\ Now(t) = Write(part) /\ part \in {"header", "body", "whole"}
      /\ todo[t] # <<>>
  BY WritesInPlace DEF WriteDataTcp
<1>2. wire' = [by |-> t, part |-> part] /\ UNCHANGED <<owner, automatic>> /\ Done(t)
  BY DEF WriteDataTcp
<1>3. /\ "TCP" \in HandsOf(t).held /\ HandsOf(t).mid \in BOOLEAN
      /\ HandsOf(t).mid <=> part = "body"
  BY <1>1, WritesInPlace
<1>4. \A u \in Threads : HandsOf(u)'.held = HandsOf(u).held
  BY <1>2 DEF HandsOf
<1>5. HandsOf(t)' = [held |-> HandsOf(t).held, mid |-> part = "header"]
  BY <1>2 DEF HandsOf
<1>6. HandsOf(t)' \in Hands
  BY <1>3, <1>5 DEF QueuesInv, Hands
<1>7. \A u \in Threads \ {t} : HandsOf(u)' = HandsOf(u)
  <2>1. ASSUME NEW u \in Threads \ {t} PROVE HandsOf(u)' = HandsOf(u)
    <3>1. ~HandsOf(u).mid /\ HandsOf(u).mid \in BOOLEAN
      BY <1>3, HandsApart DEF QueuesInv, Hands
    <3>2. (wire.by = u /\ wire.part = "header") = FALSE
      BY <3>1 DEF HandsOf
    <3>3. (wire'.by = u /\ wire'.part = "header") = FALSE
      BY <1>2
    <3> QED BY <1>2, <3>2, <3>3 DEF HandsOf
  <2> QED BY <2>1
<1>8. \A e \in Hands : Does(Now(t), HandsOf(t), e) => HandsOf(t)' = e
  BY <1>1, <1>3, <1>5 DEF Does, Write, Hands
<1> HIDE DEF part
<1>9. wire' \in [by : Threads, part : {"header", "body", "whole"}]
  BY <1>1, <1>2
<1> QED BY <1>1, <1>2, <1>6, <1>7, <1>8, <1>9, StepsOn DEF QueuesInv

LEMMA ModeQueues ==
    ASSUME QueuesInv, NEW t \in Threads, ChangeMode(t)
    PROVE  QueuesInv'
<1>1. /\ At(t, "mode") /\ Now(t).op = "mode" /\ Now(t).on \in BOOLEAN /\ todo[t] # <<>>
  BY QueuesTypes DEF ChangeMode
<1>2. automatic' \in BOOLEAN /\ UNCHANGED <<owner, wire>> /\ Done(t)
  BY <1>1 DEF ChangeMode
<1>3. \A u \in Threads : HandsOf(u)' = HandsOf(u)
  BY <1>2 DEF HandsOf
<1>4. \A e \in Hands : Does(Now(t), HandsOf(t), e) => HandsOf(t)' = e
  BY <1>1, <1>3 DEF Does, Write
<1>5. HandsOf(t)' \in Hands
  BY <1>3 DEF QueuesInv
<1> QED BY <1>1, <1>2, <1>3, <1>4, <1>5, StepsOn DEF QueuesInv

\* New work for a thread whose hands are empty.
LEMMA WorkQueues ==
    ASSUME QueuesInv, UNCHANGED <<owner, automatic, wire>>,
           todo' \in [Threads -> Seq(Operations)],
           \A u \in Threads : Leads(todo'[u], HandsOf(u), Empty)
    PROVE  QueuesInv'
<1>1. \A u \in Threads : HandsOf(u)' = HandsOf(u)
  BY DEF HandsOf
<1> QED BY <1>1 DEF QueuesInv

LEMMA TakeOnQueues ==
    ASSUME QueuesInv, NEW t \in Threads, NEW jobs, TakeOn(t, jobs),
           \A job \in jobs : Complete(job)
    PROVE  QueuesInv'
<1>1. PICK job \in jobs : todo' = [todo EXCEPT ![t] = job]
  BY DEF TakeOn
<1>2. HandsOf(t) = Empty
  BY NothingLeads DEF QueuesInv, TakeOn
<1>3. Leads(job, Empty, Empty) /\ job \in Seq(Operations)
  BY DEF Complete, Leads
<1>4. todo' \in [Threads -> Seq(Operations)]
  BY <1>1, <1>3 DEF QueuesInv
<1>5. \A u \in Threads : Leads(todo'[u], HandsOf(u), Empty)
  BY <1>1, <1>2, <1>3 DEF QueuesInv
<1> QED BY <1>4, <1>5, WorkQueues DEF TakeOn

LEMMA SignalQueues ==
    ASSUME QueuesInv, NEW t \in Threads, SignalEngagement(t)
    PROVE  QueuesInv'
<1>1. /\ At(t, "signal") /\ Now(t).op = "signal" /\ todo[t] # <<>>
  BY QueuesTypes DEF SignalEngagement
<1>2. Leads(Tail(todo[t]), HandsOf(t), Empty) /\ Tail(todo[t]) \in Seq(Operations)
  <2>1. PICK e \in Hands : Does(Head(todo[t]), HandsOf(t), e) /\ Leads(Tail(todo[t]), e, Empty)
    BY <1>1, LeadsOn DEF QueuesInv
  <2>2. e = HandsOf(t)
    BY <1>1, <2>1 DEF Does, Write, Now
  <2> QED BY <1>1, <2>1, <2>2, LeadsOn DEF QueuesInv
<1>3. \A u \in Threads : todo[u] = <<>> => HandsOf(u) = Empty
  BY NothingLeads DEF QueuesInv
<1>4. Pulse \in Seq(Operations) /\ Leads(Pulse, Empty, Empty)
  BY OthersComplete DEF Complete, Leads
<1>5. todo' \in [Threads -> Seq(Operations)]
  BY <1>2, <1>4 DEF SignalEngagement, QueuesInv
<1>6. \A u \in Threads : Leads(todo'[u], HandsOf(u), Empty)
  BY <1>2, <1>3, <1>4 DEF SignalEngagement, QueuesInv
<1> QED BY <1>5, <1>6, WorkQueues DEF SignalEngagement

LEMMA HandleQueues ==
    ASSUME QueuesInv, NEW t \in Threads, HandleMessage(t)
    PROVE  QueuesInv'
<1>1. PICK handler \in Messages : todo' = [todo EXCEPT ![t] = handler]
  BY DEF HandleMessage
<1>2. HandsOf(t) = Empty
  BY QueuesTypes DEF HandleMessage, Does, Write
<1>3. Leads(handler, Empty, Empty) /\ handler \in Seq(Operations)
  BY MessagesComplete DEF Complete, Leads
<1>4. todo' \in [Threads -> Seq(Operations)]
  BY <1>1, <1>3 DEF QueuesInv
<1>5. \A u \in Threads : Leads(todo'[u], HandsOf(u), Empty)
  BY <1>1, <1>2, <1>3 DEF QueuesInv
<1> QED BY <1>4, <1>5, WorkQueues DEF HandleMessage

LEMMA NextQueues == QueuesInv /\ [Next]_vars => QueuesInv'
<1> SUFFICES ASSUME QueuesInv, [Next]_vars PROVE QueuesInv'
  OBVIOUS
<1>1. CASE Frame \/ Receive \/ Beat
  <2>1. "main" \in Threads /\ "network" \in Threads /\ "heartbeat" \in Threads
    BY DEF Threads
  <2> QED BY <1>1, <2>1, TakeOnQueues, FramesComplete, OthersComplete, SendsComplete
          DEF Frame, Receive, Beat
<1>2. ASSUME NEW t \in Threads, Work(t) PROVE QueuesInv'
  BY <1>2, AcquireQueues, ReleaseQueues, WriteQueues, ModeQueues, SignalQueues, HandleQueues
     DEF Work
<1>3. CASE UNCHANGED vars
  BY <1>3 DEF vars, QueuesInv, HandsOf
<1> QED BY <1>1, <1>2, <1>3 DEF Next

-----------------------------------------------------------------------------
\* A thread that has done its work holds no mutex, whichever way its helpers went.
THEOREM TypeCorrect == Spec => []TypeOK
<1>1. QueuesInv => TypeOK
  <2>1. ASSUME QueuesInv, NEW t \in Threads, todo[t] = <<>>, NEW m \in Mutexes
        PROVE  owner[m] # t
    <3>1. HandsOf(t) = Empty
      BY <2>1, NothingLeads DEF QueuesInv
    <3> QED BY <3>1 DEF HandsOf, Empty, With
  <2> QED BY <2>1 DEF QueuesInv, TypeOK
<1> QED BY <1>1, InitQueues, NextQueues, PTL DEF Spec

\* Without a display no group of threads waits for each other: a thread that holds
\* one mutex only ever waits for the connection, and its holder for nobody.
THEOREM NobodyStuck ==
    ASSUME HaveOLED = FALSE
    PROVE  Spec => []NobodyIsStuck
<1>1. ASSUME QueuesInv, NEW t \in Threads, NEW u \in Threads, WaitsFor(t, u), NEW m \in Mutexes,
             owner[m] = t
      PROVE  m = "I2C" /\ owner["TCP"] = u
  <2>1. Nests(HandsOf(t).held, Now(t).mutex)
    BY <1>1, QueuesTypes DEF WaitsFor, Does, Write
  <2>2. m \in HandsOf(t).held
    BY <1>1 DEF HandsOf
  <2> QED BY <1>1, <2>1, <2>2 DEF Nests, WaitsFor
<1>2. QueuesInv => NobodyIsStuck
  <2> SUFFICES ASSUME QueuesInv, NEW S \in (SUBSET Threads) \ {{}},
                      \A t \in S : \E u \in S : WaitsFor(t, u)
               PROVE  FALSE
    BY DEF NobodyIsStuck
  <2>1. PICK t \in S : TRUE
    OBVIOUS
  <2>2. PICK u \in S : WaitsFor(t, u)
    OBVIOUS
  <2>3. PICK v \in S : WaitsFor(u, v)
    OBVIOUS
  <2>4. PICK w \in S : WaitsFor(v, w)
    OBVIOUS
  <2>5. \A x, y \in S : WaitsFor(x, y) => Now(x).mutex \in Mutexes /\ owner[Now(x).mutex] = y
    BY QueuesTypes DEF WaitsFor
  <2>6. owner["TCP"] = v
    BY <1>1, <2>2, <2>3, <2>5
  <2>7. "TCP" \in Mutexes /\ "TCP" # "I2C"
    BY DEF Mutexes
  <2> QED BY <1>1, <2>4, <2>6, <2>7
<1> QED BY <1>2, InitQueues, NextQueues, PTL DEF Spec

\* After a header nothing but its body is written to the connection.
THEOREM MessagesWhole == Spec => MessagesAreWhole
<1>1. ASSUME QueuesInv, [Next]_vars, wire' # wire, wire.part = "header"
      PROVE  wire' = [wire EXCEPT !.part = "body"]
  <2>1. PICK t \in Threads : WriteDataTcp(t)
    BY <1>1 DEF Next, Frame, Receive, Beat, TakeOn, Work, Acquire, Release, ChangeMode,
       SignalEngagement, HandleMessage, vars
  <2>2. /\ Now(t) = Write(Now(t).part) /\ "TCP" \in HandsOf(t).held
        /\ HandsOf(t).mid <=> Now(t).part = "body"
    BY <1>1, <2>1, WritesInPlace DEF WriteDataTcp
  <2>3. wire.by \in Threads /\ HandsOf(wire.by).mid
    BY <1>1 DEF QueuesInv, HandsOf
  <2>4. wire.by = t
    BY <1>1, <2>2, <2>3, HandsApart
  <2>5. wire' = [by |-> t, part |-> "body"]
    BY <2>1, <2>2, <2>3, <2>4 DEF WriteDataTcp
  <2> QED BY <1>1, <2>4, <2>5 DEF QueuesInv
<1>2. QueuesInv /\ [Next]_vars
        => [wire' # wire /\ wire.part = "header" => wire' = [wire EXCEPT !.part = "body"]]_vars
  BY <1>1
<1> QED BY <1>2, InitQueues, NextQueues, PTL DEF Spec, MessagesAreWhole
=============================================================================
