--------------------------- MODULE LifecycleProofs ---------------------------
(***************************************************************************)
(* Theorems about Lifecycle, with or without control-c.                    *)
(*                                                                         *)
(* Two kinds of thread are followed.  A worker, which is any thread but    *)
(* the main thread in CleanUp, holds at each operation the mutexes from    *)
(* which the rest of its queue leads to none, as in LocksProofs, until it  *)
(* ends; the main thread in CleanUp, which may still hold anything, has a  *)
(* rest of CleanUp before it.                                              *)
(***************************************************************************)
EXTENDS Lifecycle, SequenceTheorems, TLAPS

-----------------------------------------------------------------------------
(* Queues and what they hold.                                                *)

Steps ==
    [op : {"lock", "unlock"}, mutex : Mutexes]
    \cup [op : {"io"}, call : {"audit", "write", "sleep", "beat", "bus"}]
    \cup [op : {"pin"}, pin : {"pump", "laser"}, on : BOOLEAN] \cup [op : {"signal"}]

NetworkSteps == Steps \cup [op : {"io"}, call : {"read"}] \cup [op : {"handle"}]

CleanSteps == Steps \cup [op : {"cancel", "join"}, thread : Others] \cup [op : {"exit"}]

\* The operations of a worker.
Own(t) == IF t = "network" THEN NetworkSteps ELSE Steps

\* What an operation makes of the mutexes held.
Does(op, s, e) ==
    CASE op.op = "lock" -> op.mutex \notin s /\ e = s \cup {op.mutex}
      [] op.op = "unlock" -> op.mutex \in s /\ e = s \ {op.mutex}
      [] op.op = "io" -> (op.call = "read" => s = {"TCP"}) /\ e = s
      [] op.op = "handle" -> s = {} /\ e = s
      [] OTHER -> e = s

\* From its i-th operation on q unlocks m, or ends, holding e, with m held.
Frees(q, i, m, e) == m \in e \/ \E j \in i .. Len(q) : q[j] = Unlock(m)

\* The operations of q, all in O, lead from holding s to holding e by way of h.
By(q, s, e, h) ==
    /\ h \in [1 .. Len(q) + 1 -> SUBSET Mutexes]
    /\ h[1] = s /\ h[Len(q) + 1] = e
    /\ \A i \in 1 .. Len(q) : Does(q[i], h[i], h[i + 1])
    /\ \A i \in 1 .. Len(q) : \A m \in h[i] : Frees(q, i, m, e)

Leads(O, q, s, e) == q \in Seq(O) /\ \E h : By(q, s, e, h)

LEMMA NothingLeads ==
    ASSUME NEW O, NEW s \in SUBSET Mutexes
    PROVE  /\ Leads(O, <<>>, s, s)
           /\ \A e : Leads(O, <<>>, s, e) => e = s
<1>1. Leads(O, <<>>, s, s)
  <2> DEFINE h == [i \in 1 .. 1 |-> s]
  <2>1. h \in [1 .. Len(<<>>) + 1 -> SUBSET Mutexes] /\ h[1] = s /\ h[Len(<<>>) + 1] = s
    OBVIOUS
  <2>2. 1 .. Len(<<>>) = {}
    OBVIOUS
  <2> HIDE DEF h
  <2> QED BY <2>1, <2>2 DEF Leads, By
<1>2. ASSUME NEW e, Leads(O, <<>>, s, e) PROVE e = s
  BY <1>2 DEF Leads, By
<1> QED BY <1>1, <1>2

LEMMA OneLeads ==
    ASSUME NEW O, NEW op \in O, NEW s \in SUBSET Mutexes, NEW e \in SUBSET Mutexes,
           Does(op, s, e), \A m \in s : m \in e \/ op = Unlock(m)
    PROVE  Leads(O, <<op>>, s, e)
<1> DEFINE h == [i \in 1 .. 2 |-> IF i = 1 THEN s ELSE e]
<1>1. /\ h \in [1 .. Len(<<op>>) + 1 -> SUBSET Mutexes] /\ h[1] = s /\ h[2] = e
      /\ Len(<<op>>) + 1 = 2
  OBVIOUS
<1>2. \A i \in 1 .. Len(<<op>>) : i = 1 /\ <<op>>[i] = op
  OBVIOUS
<1>3. 1 \in 1 .. Len(<<op>>)
  OBVIOUS
<1> HIDE DEF h
<1>4. \A i \in 1 .. Len(<<op>>) : Does(<<op>>[i], h[i], h[i + 1])
  BY <1>1, <1>2
<1>5. \A i \in 1 .. Len(<<op>>) : \A m \in h[i] : Frees(<<op>>, i, m, e)
  BY <1>1, <1>2, <1>3 DEF Frees
<1> QED BY <1>1, <1>4, <1>5 DEF Leads, By

LEMMA BothLead ==
    ASSUME NEW O, NEW q, NEW r, NEW s, NEW m, NEW e, Leads(O, q, s, m), Leads(O, r, m, e)
    PROVE  Leads(O, q \o r, s, e)
<1>1. PICK h : By(q, s, m, h)
  BY DEF Leads
<1>2. PICK k : By(r, m, e, k)
  BY DEF Leads
<1>3. /\ q \in Seq(O) /\ r \in Seq(O) /\ q \o r \in Seq(O)
      /\ Len(q) \in Nat /\ Len(r) \in Nat /\ Len(q \o r) = Len(q) + Len(r)
  BY DEF Leads
<1> DEFINE j == [i \in 1 .. Len(q) + Len(r) + 1 |->
                    IF i <= Len(q) + 1 THEN h[i] ELSE k[i - Len(q)]]
<1>4. j \in [1 .. Len(q \o r) + 1 -> SUBSET Mutexes]
  <2>1. \A i \in 1 .. Len(q) + Len(r) + 1 : j[i] \in SUBSET Mutexes
    <3>1. /\ h \in [1 .. Len(q) + 1 -> SUBSET Mutexes]
          /\ k \in [1 .. Len(r) + 1 -> SUBSET Mutexes]
      BY <1>1, <1>2 DEF By
    <3> TAKE i \in 1 .. Len(q) + Len(r) + 1
    <3>2. CASE i <= Len(q) + 1
      <4>1. i \in 1 .. Len(q) + 1
        BY <1>3, <3>2
      <4> QED BY <3>1, <3>2, <4>1
    <3>3. CASE ~(i <= Len(q) + 1)
      <4>1. i - Len(q) \in 1 .. Len(r) + 1
        BY <1>3, <3>3
      <4> QED BY <3>1, <3>3, <4>1
    <3> QED BY <3>2, <3>3
  <2> QED BY <1>3, <2>1
<1>5. j[1] = s /\ j[Len(q \o r) + 1] = e
  BY <1>1, <1>2, <1>3 DEF By
<1>6. ASSUME NEW i \in 1 .. Len(q), i \in 1 .. Len(q \o r)
      PROVE  (q \o r)[i] = q[i] /\ j[i] = h[i] /\ j[i + 1] = h[i + 1]
  BY <1>3
<1>7. ASSUME NEW i \in 1 .. Len(q \o r), ~(i <= Len(q))
      PROVE  /\ i - Len(q) \in 1 .. Len(r) /\ (q \o r)[i] = r[i - Len(q)]
             /\ j[i] = k[i - Len(q)] /\ j[i + 1] = k[(i - Len(q)) + 1]
  <2>1. (q \o r)[i] = r[i - Len(q)] /\ i - Len(q) \in 1 .. Len(r)
    BY <1>3, <1>7
  <2>2. j[i + 1] = k[(i - Len(q)) + 1]
    BY <1>3, <1>7
  <2>3. j[i] = k[i - Len(q)]
    BY <1>1, <1>2, <1>3, <1>7 DEF By
  <2> QED BY <2>1, <2>2, <2>3
<1> HIDE DEF j
<1>8. ASSUME NEW i \in 1 .. Len(r), NEW n, Frees(r, i, n, e)
      PROVE  \A p \in 1 .. Len(q) + i : Frees(q \o r, p, n, e)
  <2> SUFFICES ASSUME NEW p \in 1 .. Len(q) + i, n \notin e PROVE Frees(q \o r, p, n, e)
    BY DEF Frees
  <2>1. PICK l \in i .. Len(r) : r[l] = Unlock(n)
    BY <1>8 DEF Frees
  <2>2. Len(q) + l \in p .. Len(q \o r) /\ (q \o r)[Len(q) + l] = r[l]
    BY <1>3
  <2> QED BY <2>1, <2>2 DEF Frees
<1>9. ASSUME NEW i \in 1 .. Len(q \o r)
      PROVE  Does((q \o r)[i], j[i], j[i + 1]) /\ \A n \in j[i] : Frees(q \o r, i, n, e)
  <2>1. CASE i <= Len(q)
    <3>1. i \in 1 .. Len(q) /\ (q \o r)[i] = q[i] /\ j[i] = h[i] /\ j[i + 1] = h[i + 1]
      BY <1>3, <1>6, <2>1
    <3>2. Does(q[i], h[i], h[i + 1]) /\ \A n \in h[i] : Frees(q, i, n, m)
      BY <1>1, <3>1 DEF By
    <3>3. ASSUME NEW n \in j[i] PROVE Frees(q \o r, i, n, e)
      <4>1. Frees(q, i, n, m)
        BY <3>1, <3>2, <3>3
      <4>2. CASE n \in m /\ Len(r) = 0
        <5>1. n \in e
          BY <1>2, <4>2 DEF By
        <5> QED BY <5>1 DEF Frees
      <4>3. CASE n \in m /\ Len(r) # 0
        <5>1. 1 \in 1 .. Len(r) /\ k[1] = m
          BY <1>2, <1>3, <4>3 DEF By
        <5>2. Frees(r, 1, n, e)
          BY <1>2, <4>3, <5>1 DEF By
        <5>3. i \in 1 .. Len(q) + 1
          BY <1>3, <3>1
        <5> QED BY <1>8, <5>1, <5>2, <5>3
      <4>4. CASE n \notin m
        <5>1. PICK l \in i .. Len(q) : q[l] = Unlock(n)
          BY <4>1, <4>4 DEF Frees
        <5>2. l \in 1 .. Len(q) /\ l \in i .. Len(q \o r)
          BY <1>3, <3>1
        <5>3. (q \o r)[l] = q[l]
          BY <1>3, <5>2
        <5> QED BY <5>1, <5>2, <5>3 DEF Frees
      <4> QED BY <4>2, <4>3, <4>4
    <3> QED BY <3>1, <3>2, <3>3
  <2>2. CASE ~(i <= Len(q))
    <3>1. /\ i - Len(q) \in 1 .. Len(r) /\ (q \o r)[i] = r[i - Len(q)]
          /\ j[i] = k[i - Len(q)] /\ j[i + 1] = k[(i - Len(q)) + 1]
      BY <1>7, <2>2
    <3>2. /\ Does(r[i - Len(q)], k[i - Len(q)], k[(i - Len(q)) + 1])
          /\ \A n \in k[i - Len(q)] : Frees(r, i - Len(q), n, e)
      BY <1>2, <3>1 DEF By
    <3>3. i \in 1 .. Len(q) + (i - Len(q))
      BY <1>3
    <3> QED BY <1>8, <3>1, <3>2, <3>3
  <2> QED BY <2>1, <2>2
<1>10. By(q \o r, s, e, j)
  BY <1>4, <1>5, <1>9 DEF By
<1> QED BY <1>3, <1>10 DEF Leads

LEMMA LeadsOn ==
    ASSUME NEW O, NEW q, NEW s, NEW e, Leads(O, q, s, e), q # <<>>
    PROVE  /\ Head(q) \in O
           /\ \E m \in SUBSET Mutexes : Does(Head(q), s, m) /\ Leads(O, Tail(q), m, e)
           /\ \A m \in s : m \in e \/ \E j \in DOMAIN q : q[j] = Unlock(m)
<1>1. PICK h : By(q, s, e, h)
  BY DEF Leads
<1>2. /\ q \in Seq(O) /\ Len(q) \in Nat /\ Len(q) >= 1 /\ DOMAIN q = 1 .. Len(q)
      /\ Tail(q) \in Seq(O) /\ Len(Tail(q)) = Len(q) - 1 /\ Head(q) = q[1] /\ q[1] \in O
  BY DEF Leads
<1> DEFINE k == [i \in 1 .. Len(q) |-> h[i + 1]]
<1>3. k \in [1 .. Len(Tail(q)) + 1 -> SUBSET Mutexes] /\ k[1] = h[2] /\ k[Len(Tail(q)) + 1] = e
  BY <1>1, <1>2 DEF By
<1>4. ASSUME NEW i \in 1 .. Len(Tail(q))
      PROVE  Does(Tail(q)[i], k[i], k[i + 1]) /\ \A m \in k[i] : Frees(Tail(q), i, m, e)
  <2>1. /\ Tail(q)[i] = q[i + 1] /\ k[i] = h[i + 1] /\ k[i + 1] = h[(i + 1) + 1]
        /\ i + 1 \in 1 .. Len(q)
    BY <1>2
  <2> HIDE DEF k
  <2>2. Does(q[i + 1], h[i + 1], h[(i + 1) + 1]) /\ \A m \in h[i + 1] : Frees(q, i + 1, m, e)
    BY <1>1, <2>1 DEF By
  <2>3. ASSUME NEW m \in k[i] PROVE Frees(Tail(q), i, m, e)
    <3>1. CASE m \in e
      BY <3>1 DEF Frees
    <3>2. CASE m \notin e
      <4>1. PICK j \in i + 1 .. Len(q) : q[j] = Unlock(m)
        BY <2>1, <2>2, <2>3, <3>2 DEF Frees
      <4>2. j - 1 \in i .. Len(Tail(q)) /\ Tail(q)[j - 1] = q[j]
        BY <1>2
      <4> QED BY <4>1, <4>2 DEF Frees
    <3> QED BY <3>1, <3>2
  <2> QED BY <2>1, <2>2, <2>3
<1> HIDE DEF k
<1>5. Leads(O, Tail(q), h[2], e)
  BY <1>2, <1>3, <1>4 DEF Leads, By
<1>6. 1 \in 1 .. Len(q) /\ 1 + 1 = 2 /\ 2 \in 1 .. Len(q) + 1
  BY <1>2
<1>7. Does(Head(q), s, h[2]) /\ h[2] \in SUBSET Mutexes
  BY <1>1, <1>2, <1>6 DEF By
<1>8. \A m \in s : m \in e \/ \E j \in DOMAIN q : q[j] = Unlock(m)
  BY <1>1, <1>2, <1>6 DEF By, Frees
<1> QED BY <1>2, <1>5, <1>7, <1>8

LEMMA MoreSteps ==
    ASSUME NEW q, NEW s, NEW e, Leads(Steps, q, s, e)
    PROVE  Leads(NetworkSteps, q, s, e)
<1>1. q \in Seq(NetworkSteps)
  BY SeqMonotonic DEF Leads, NetworkSteps
<1> QED BY <1>1 DEF Leads

-----------------------------------------------------------------------------
(* The helpers, and the queues made of them.                                 *)

Complete(O, q) == Leads(O, q, {}, {})

LEMMA CompleteJoined ==
    ASSUME NEW O
    PROVE  /\ Complete(O, <<>>)
           /\ \A q, r : Complete(O, q) /\ Complete(O, r) => Complete(O, q \o r)
BY NothingLeads, BothLead DEF Complete

LEMMA HoldingLeads ==
    ASSUME NEW O, Steps \subseteq O, NEW m \in Mutexes, NEW s \in SUBSET Mutexes, m \notin s,
           NEW ops, Leads(O, ops, s \cup {m}, s \cup {m})
    PROVE  Leads(O, Holding(m, ops), s, s)
<1>1. Lock(m) \in O /\ Unlock(m) \in O
  BY DEF Steps, Lock, Unlock
<1>2. s \cup {m} \in SUBSET Mutexes /\ (s \cup {m}) \ {m} = s
  OBVIOUS
<1>3. Does(Lock(m), s, s \cup {m}) /\ Does(Unlock(m), s \cup {m}, s)
  BY <1>2 DEF Does, Lock, Unlock
<1>4. Leads(O, <<Lock(m)>>, s, s \cup {m}) /\ Leads(O, <<Unlock(m)>>, s \cup {m}, s)
  BY <1>1, <1>2, <1>3, OneLeads
<1>5. Leads(O, <<Lock(m)>> \o ops, s, s \cup {m})
  BY <1>4, BothLead
<1> QED BY <1>4, <1>5, BothLead DEF Holding

LEMMA HoldingComplete ==
    ASSUME NEW O, Steps \subseteq O, NEW m \in Mutexes, NEW ops, Leads(O, ops, {m}, {m})
    PROVE  Complete(O, Holding(m, ops))
<1>1. {} \in SUBSET Mutexes /\ m \notin {} /\ {} \cup {m} = {m}
  OBVIOUS
<1> QED BY <1>1, HoldingLeads, Zenon DEF Complete

\* One operation that changes nothing held.
LEMMA PlainLeads ==
    ASSUME NEW s \in SUBSET Mutexes
    PROVE  /\ \A call \in {"audit", "write", "sleep", "beat", "bus"} : Leads(Steps, <<IO(call)>>, s, s)
           /\ \A pin \in {"pump", "laser"}, on \in BOOLEAN : Leads(Steps, <<Pin(pin, on)>>, s, s)
           /\ Leads(Steps, <<Signal>>, s, s)
<1>1. ASSUME NEW call \in {"audit", "write", "sleep", "beat", "bus"}
      PROVE  IO(call) \in Steps /\ Does(IO(call), s, s)
  BY DEF Steps, IO, Does
<1>2. ASSUME NEW pin \in {"pump", "laser"}, NEW on \in BOOLEAN
      PROVE  Pin(pin, on) \in Steps /\ Does(Pin(pin, on), s, s)
  BY DEF Steps, Pin, Does
<1>3. Signal \in Steps /\ Does(Signal, s, s)
  BY DEF Steps, Signal, Does
<1> QED BY <1>1, <1>2, <1>3, OneLeads

LEMMA HelpersComplete ==
    /\ \A pin \in {"pump", "laser"}, on \in BOOLEAN : Complete(Steps, Switch(pin, on))
    /\ Complete(Steps, armed) /\ Complete(Steps, Send) /\ Complete(Steps, HeartBeat)
    /\ \A limited \in BOOLEAN : Complete(Steps, ServoAngle(limited))
    /\ Complete(Steps, <<IO("sleep")>>) /\ Complete(Steps, <<Signal>>)
<1>1. ASSUME NEW pin \in {"pump", "laser"}, NEW on \in BOOLEAN
      PROVE  Complete(Steps, Switch(pin, on))
  <2> DEFINE log == IF on THEN <<IO("audit")>> ELSE <<>>
  <2>1. {"GPIO"} \in SUBSET Mutexes /\ "GPIO" \in Mutexes
    BY DEF Mutexes
  <2>2. Leads(Steps, log, {"GPIO"}, {"GPIO"})
    BY <2>1, PlainLeads, NothingLeads
  <2>3. Leads(Steps, <<Pin(pin, on)>>, {"GPIO"}, {"GPIO"})
    BY <2>1, PlainLeads
  <2>4. Leads(Steps, log \o <<Pin(pin, on)>>, {"GPIO"}, {"GPIO"})
    BY <2>2, <2>3, BothLead
  <2> QED BY <2>1, <2>4, HoldingComplete DEF Switch
<1>2. Complete(Steps, armed)
  BY NothingLeads, HoldingComplete DEF armed, Mutexes
<1>3. \A call \in {"write", "beat"} : Complete(Steps, Holding("TCP", <<IO(call)>>))
  BY PlainLeads, HoldingComplete DEF Mutexes
<1>4. Complete(Steps, <<IO("sleep")>>) /\ Complete(Steps, <<Signal>>)
  BY PlainLeads DEF Complete
<1>5. ASSUME NEW limited \in BOOLEAN PROVE Complete(Steps, ServoAngle(limited))
  <2> DEFINE report == IF limited THEN Send ELSE <<>>
  <2>1. /\ "I2C" \in Mutexes /\ "TCP" \in Mutexes /\ "TCP" \notin {"I2C"}
        /\ {"I2C"} \in SUBSET Mutexes /\ {"I2C"} \cup {"TCP"} \in SUBSET Mutexes
    BY DEF Mutexes
  <2>2. Leads(Steps, <<IO("write")>>, {"I2C"} \cup {"TCP"}, {"I2C"} \cup {"TCP"})
    BY <2>1, PlainLeads
  <2>3. Leads(Steps, Send, {"I2C"}, {"I2C"})
    BY <2>1, <2>2, HoldingLeads DEF Send
  <2>4. Leads(Steps, report, {"I2C"}, {"I2C"})
    BY <2>1, <2>3, NothingLeads
  <2>5. Leads(Steps, <<IO("bus")>>, {"I2C"}, {"I2C"})
    BY <2>1, PlainLeads
  <2>6. Leads(Steps, report \o <<IO("bus")>>, {"I2C"}, {"I2C"})
    BY <2>4, <2>5, BothLead
  <2> QED BY <2>1, <2>6, HoldingComplete DEF ServoAngle
<1> QED BY <1>1, <1>2, <1>3, <1>4, <1>5, CompleteJoined DEF Send, HeartBeat

LEMMA QueuesComplete ==
    /\ \A q \in Frames : Complete(Steps, q)
    /\ \A q \in Handlers : Complete(NetworkSteps, q)
    /\ Complete(NetworkSteps, ReadMessage)
    /\ Complete(Steps, Pulse)
<1>1. \A q \in Frames : Complete(Steps, q)
  BY HelpersComplete, CompleteJoined DEF Frames
<1>2. \A q \in Handlers : Complete(Steps, q)
  <2> SUFFICES ASSUME NEW q \in Handlers PROVE Complete(Steps, q)
    OBVIOUS
  <2>1. CASE q \in {<<>>, Send}
    BY <2>1, HelpersComplete, CompleteJoined
  <2>2. CASE q \in {ServoAngle(limited) : limited \in BOOLEAN}
    BY <2>2, HelpersComplete
  <2>3. CASE q \notin {<<>>, Send} \cup {ServoAngle(limited) : limited \in BOOLEAN}
    <3>1. PICK pin \in {"pump", "laser"}, on \in BOOLEAN : q = Switch(pin, on) \o Send
      BY <2>3 DEF Handlers
    <3> QED BY <3>1, HelpersComplete, CompleteJoined
  <2> QED BY <2>1, <2>2, <2>3
<1>3. Complete(Steps, Pulse)
  BY HelpersComplete, CompleteJoined DEF Pulse
<1>4. Complete(NetworkSteps, ReadMessage)
  <2>1. Steps \subseteq NetworkSteps /\ IO("read") \in NetworkSteps /\ Handle \in NetworkSteps
    BY DEF NetworkSteps, IO, Handle
  <2>2. Does(IO("read"), {"TCP"}, {"TCP"}) /\ Does(Handle, {}, {})
    BY DEF Does, IO, Handle
  <2>3. "TCP" \in Mutexes /\ {"TCP"} \in SUBSET Mutexes /\ {} \in SUBSET Mutexes
    BY DEF Mutexes
  <2>4. Leads(NetworkSteps, <<IO("read")>>, {"TCP"}, {"TCP"}) /\ Complete(NetworkSteps, <<Handle>>)
    BY <2>1, <2>2, <2>3, OneLeads DEF Complete
  <2>5. Complete(NetworkSteps, Holding("TCP", <<IO("read")>>))
    BY <2>1, <2>3, <2>4, HoldingComplete
  <2> QED BY <2>4, <2>5, CompleteJoined DEF ReadMessage
<1> QED BY <1>1, <1>2, <1>3, <1>4, MoreSteps DEF Complete

\* s is q, which has j elements, and then r, which has k.
Joins(S, s, q, j, r, k) ==
    /\ s \in Seq(S) /\ Len(s) = j + k
    /\ \A i \in 1 .. j : s[i] = q[i]
    /\ \A i \in 1 .. k : s[j + i] = r[i]

LEMMA Joined ==
    ASSUME NEW S, NEW q \in Seq(S), NEW r \in Seq(S)
    PROVE  Joins(S, q \o r, q, Len(q), r, Len(r))
<1>1. Len(q) \in Nat /\ Len(r) \in Nat
  OBVIOUS
<1>2. q \o r \in Seq(S) /\ Len(q \o r) = Len(q) + Len(r)
  OBVIOUS
<1>3. \A i \in 1 .. Len(q) : (q \o r)[i] = q[i]
  BY <1>1
<1>4. ASSUME NEW i \in 1 .. Len(r) PROVE (q \o r)[Len(q) + i] = r[i]
  <2>1. Len(q) + i \in 1 .. Len(q) + Len(r) /\ Len(q) + i > Len(q) /\ (Len(q) + i) - Len(q) = i
    BY <1>1
  <2> QED BY <1>1, <1>2, <2>1
<1> QED BY <1>2, <1>3, <1>4 DEF Joins

LEMMA OneStep ==
    ASSUME NEW S, NEW x \in S
    PROVE  <<x>> \in Seq(S) /\ Len(<<x>>) = 1 /\ <<x>>[1] = x
OBVIOUS

Three(S, s, x, y, z) == s \in Seq(S) /\ Len(s) = 3 /\ s[1] = x /\ s[2] = y /\ s[3] = z

LEMMA ThreeJoined ==
    ASSUME NEW S, NEW x \in S, NEW y \in S, NEW z \in S
    PROVE  Three(S, (<<x>> \o <<y>>) \o <<z>>, x, y, z)
<1> DEFINE p == <<x>>
           q == <<y>>
           r == <<z>>
           two == p \o q
           three == two \o r
<1>1. three = (<<x>> \o <<y>>) \o <<z>>
  OBVIOUS
<1>2. /\ p \in Seq(S) /\ Len(p) = 1 /\ q \in Seq(S) /\ Len(q) = 1
      /\ r \in Seq(S) /\ Len(r) = 1
      /\ p[1] = x /\ q[1] = y /\ r[1] = z
  BY OneStep
<1> HIDE DEF p, q, r
<1>3. Joins(S, two, p, 1, q, 1)
  BY <1>2, Joined, Zenon
<1> HIDE DEF two
<1>4. two \in Seq(S) /\ Len(two) = 2 /\ two[1] = p[1] /\ two[1 + 1] = q[1]
  BY <1>3 DEF Joins
<1>5. Joins(S, three, two, 2, r, 1)
  BY <1>2, <1>4, Joined, Zenon
<1> HIDE DEF three
<1>6. /\ three \in Seq(S) /\ Len(three) = 3
      /\ three[1] = two[1] /\ three[2] = two[2] /\ three[2 + 1] = r[1]
  BY <1>5 DEF Joins
<1>7. three[1] = x /\ three[2] = y /\ three[3] = z
  BY <1>2, <1>4, <1>6
<1>8. Three(S, three, x, y, z)
  BY <1>6, <1>7, Zenon DEF Three
<1> QED BY <1>1, <1>8, Zenon

\* s is a, b and c, of two operations, d and e, of three, and f, of one.
Six(S, s, a, b, c, d, e, f) ==
    /\ s \in Seq(S) /\ Len(s) = 13
    /\ s[1] = a[1] /\ s[2] = a[2] /\ s[3] = b[1] /\ s[4] = b[2] /\ s[5] = c[1] /\ s[6] = c[2]
    /\ s[7] = d[1] /\ s[8] = d[2] /\ s[9] = d[3]
    /\ s[10] = e[1] /\ s[11] = e[2] /\ s[12] = e[3] /\ s[13] = f[1]

LEMMA SixJoined ==
    ASSUME NEW S,
           NEW a \in Seq(S), Len(a) = 2, NEW b \in Seq(S), Len(b) = 2,
           NEW c \in Seq(S), Len(c) = 2, NEW d \in Seq(S), Len(d) = 3,
           NEW e \in Seq(S), Len(e) = 3, NEW f \in Seq(S), Len(f) = 1
    PROVE  Six(S, ((((a \o b) \o c) \o d) \o e) \o f, a, b, c, d, e, f)
<1> DEFINE two == a \o b
           three == two \o c
           four == three \o d
           five == four \o e
           six == five \o f
<1>1. six = ((((a \o b) \o c) \o d) \o e) \o f
  OBVIOUS
<1>2. Joins(S, two, a, 2, b, 2)
  BY Joined, Zenon
<1> HIDE DEF two
<1>3. two \in Seq(S) /\ Len(two) = 4
  BY <1>2 DEF Joins
<1>4. Joins(S, three, two, 4, c, 2)
  BY <1>3, Joined, Zenon
<1> HIDE DEF three
<1>5. three \in Seq(S) /\ Len(three) = 6
  BY <1>4 DEF Joins
<1>6. Joins(S, four, three, 6, d, 3)
  BY <1>5, Joined, Zenon
<1> HIDE DEF four
<1>7. four \in Seq(S) /\ Len(four) = 9
  BY <1>6 DEF Joins
<1>8. Joins(S, five, four, 9, e, 3)
  BY <1>7, Joined, Zenon
<1> HIDE DEF five
<1>9. five \in Seq(S) /\ Len(five) = 12
  BY <1>8 DEF Joins
<1>10. Joins(S, six, five, 12, f, 1)
  BY <1>9, Joined, Zenon
<1> HIDE DEF six
<1>11. six \in Seq(S) /\ Len(six) = 13 /\ six[12 + 1] = f[1] /\ \A i \in 1 .. 12 : six[i] = five[i]
  BY <1>10 DEF Joins
<1>12. five[9 + 1] = e[1] /\ five[9 + 2] = e[2] /\ five[9 + 3] = e[3] /\ \A i \in 1 .. 9 : five[i] = four[i]
  BY <1>8 DEF Joins
<1>13. four[6 + 1] = d[1] /\ four[6 + 2] = d[2] /\ four[6 + 3] = d[3] /\ \A i \in 1 .. 6 : four[i] = three[i]
  BY <1>6 DEF Joins
<1>14. three[4 + 1] = c[1] /\ three[4 + 2] = c[2] /\ \A i \in 1 .. 4 : three[i] = two[i]
  BY <1>4 DEF Joins
<1>15. two[2 + 1] = b[1] /\ two[2 + 2] = b[2] /\ two[1] = a[1] /\ two[2] = a[2]
  BY <1>2 DEF Joins
<1>16. /\ six[1] = a[1] /\ six[2] = a[2] /\ six[3] = b[1] /\ six[4] = b[2]
       /\ six[5] = c[1] /\ six[6] = c[2] /\ six[7] = d[1] /\ six[8] = d[2] /\ six[9] = d[3]
       /\ six[10] = e[1] /\ six[11] = e[2] /\ six[12] = e[3] /\ six[13] = f[1]
  BY <1>11, <1>12, <1>13, <1>14, <1>15
<1>17. Six(S, six, a, b, c, d, e, f)
  BY <1>11, <1>16, Zenon DEF Six
<1> QED BY <1>1, <1>17, Zenon

\* CleanUp, operation by operation.
LEMMA CleanUpIs ==
    /\ CleanUp \in Seq(CleanSteps) /\ Len(CleanUp) = 13
    /\ CleanUp[1] = Cancel("network") /\ CleanUp[2] = Join("network")
    /\ CleanUp[3] = Cancel("engagement") /\ CleanUp[4] = Join("engagement")
    /\ CleanUp[5] = Cancel("heartbeat") /\ CleanUp[6] = Join("heartbeat")
    /\ CleanUp[7] = Lock("GPIO") /\ CleanUp[8] = Pin("laser", FALSE) /\ CleanUp[9] = Unlock("GPIO")
    /\ CleanUp[10] = Lock("GPIO") /\ CleanUp[11] = Pin("pump", FALSE) /\ CleanUp[12] = Unlock("GPIO")
    /\ CleanUp[13] = Exit
<1>1. ASSUME NEW t \in Others
      PROVE  /\ Reap(t) \in Seq(CleanSteps) /\ Len(Reap(t)) = 2
             /\ Reap(t)[1] = Cancel(t) /\ Reap(t)[2] = Join(t)
  <2>1. Cancel(t) \in CleanSteps /\ Join(t) \in CleanSteps
    BY DEF CleanSteps, Cancel, Join
  <2> QED BY <2>1 DEF Reap
<1>2. ASSUME NEW pin \in {"pump", "laser"}
      PROVE  /\ Switch(pin, FALSE) \in Seq(CleanSteps) /\ Len(Switch(pin, FALSE)) = 3
             /\ Switch(pin, FALSE)[1] = Lock("GPIO") /\ Switch(pin, FALSE)[2] = Pin(pin, FALSE)
             /\ Switch(pin, FALSE)[3] = Unlock("GPIO")
  <2>1. /\ Lock("GPIO") \in CleanSteps /\ Unlock("GPIO") \in CleanSteps
        /\ Pin(pin, FALSE) \in CleanSteps
    BY DEF CleanSteps, Steps, Mutexes, Lock, Unlock, Pin
  <2>2. Switch(pin, FALSE) = (<<Lock("GPIO")>> \o (<<>> \o <<Pin(pin, FALSE)>>)) \o <<Unlock("GPIO")>>
    BY DEF Switch, Holding
  <2>3. <<>> \o <<Pin(pin, FALSE)>> = <<Pin(pin, FALSE)>>
    BY <2>1, OneStep, ConcatEmptySeq, Zenon
  <2>4. Three(CleanSteps, (<<Lock("GPIO")>> \o <<Pin(pin, FALSE)>>) \o <<Unlock("GPIO")>>,
              Lock("GPIO"), Pin(pin, FALSE), Unlock("GPIO"))
    BY <2>1, ThreeJoined, Zenon
  <2>5. Three(CleanSteps, Switch(pin, FALSE), Lock("GPIO"), Pin(pin, FALSE), Unlock("GPIO"))
    BY <2>2, <2>3, <2>4, Zenon
  <2> QED BY <2>5, Zenon DEF Three
<1>3. <<Exit>> \in Seq(CleanSteps) /\ Len(<<Exit>>) = 1 /\ <<Exit>>[1] = Exit
  BY OneStep DEF CleanSteps, Exit
<1>4. "network" \in Others /\ "engagement" \in Others /\ "heartbeat" \in Others
  BY DEF Others
<1>5. CleanUp = ((((Reap("network") \o Reap("engagement")) \o Reap("heartbeat"))
                    \o Switch("laser", FALSE)) \o Switch("pump", FALSE)) \o <<Exit>>
  BY DEF CleanUp
<1>6. \A pin \in {"pump", "laser"} :
          /\ Switch(pin, FALSE) \in Seq(CleanSteps) /\ Len(Switch(pin, FALSE)) = 3
          /\ Switch(pin, FALSE)[1] = Lock("GPIO") /\ Switch(pin, FALSE)[2] = Pin(pin, FALSE)
          /\ Switch(pin, FALSE)[3] = Unlock("GPIO")
  BY <1>2
<1>7. /\ Reap("network") \in Seq(CleanSteps) /\ Len(Reap("network")) = 2
      /\ Reap("engagement") \in Seq(CleanSteps) /\ Len(Reap("engagement")) = 2
      /\ Reap("heartbeat") \in Seq(CleanSteps) /\ Len(Reap("heartbeat")) = 2
      /\ Switch("laser", FALSE) \in Seq(CleanSteps) /\ Len(Switch("laser", FALSE)) = 3
      /\ Switch("pump", FALSE) \in Seq(CleanSteps) /\ Len(Switch("pump", FALSE)) = 3
  BY <1>1, <1>4, <1>6, Zenon
<1>8. Six(CleanSteps, CleanUp, Reap("network"), Reap("engagement"), Reap("heartbeat"),
          Switch("laser", FALSE), Switch("pump", FALSE), <<Exit>>)
  BY <1>3, <1>5, <1>7, SixJoined, Zenon
<1>9. /\ Reap("network")[1] = Cancel("network") /\ Reap("network")[2] = Join("network")
      /\ Reap("engagement")[1] = Cancel("engagement") /\ Reap("engagement")[2] = Join("engagement")
      /\ Reap("heartbeat")[1] = Cancel("heartbeat") /\ Reap("heartbeat")[2] = Join("heartbeat")
  BY <1>1, <1>4, Zenon
<1>10. \A pin \in {"pump", "laser"} :
          /\ Switch(pin, FALSE)[1] = Lock("GPIO") /\ Switch(pin, FALSE)[2] = Pin(pin, FALSE)
          /\ Switch(pin, FALSE)[3] = Unlock("GPIO")
  BY <1>6, Zenon
<1> QED BY <1>3, <1>8, <1>9, <1>10, Zenon DEF Six
-----------------------------------------------------------------------------
(* The invariant.                                                            *)

\* What is left of a sequence from its i-th element on.
LEMMA Suffix ==
    ASSUME NEW S, NEW q \in Seq(S), NEW i \in 1 .. Len(q)
    PROVE  /\ SubSeq(q, i, Len(q)) # <<>>
           /\ Head(SubSeq(q, i, Len(q))) = q[i]
           /\ Tail(SubSeq(q, i, Len(q))) = SubSeq(q, i + 1, Len(q))
<1>1. Len(q) \in Nat /\ Len(q) \in i .. Len(q)
  OBVIOUS
<1>2. \A j \in i .. Len(q) : q[j] \in S
  OBVIOUS
<1>3. i \in Int /\ Len(q) \in Int /\ i <= Len(q)
  BY <1>1
<1>4. Len(SubSeq(q, i, Len(q))) = Len(q) - i + 1 /\ SubSeq(q, i, Len(q)) \in Seq(S)
  BY <1>2, <1>3, SubSeqProperties
<1>5. SubSeq(q, i, Len(q)) # <<>>
  BY <1>1, <1>4
<1> QED BY <1>1, <1>5, HeadTailOfSubSeq

LEMMA CleanUpSuffix ==
    /\ SubSeq(CleanUp, 1, 13) = CleanUp
    /\ \A i \in 1 .. 13 : /\ SubSeq(CleanUp, i, 13) # <<>>
                          /\ Head(SubSeq(CleanUp, i, 13)) = CleanUp[i]
                          /\ Tail(SubSeq(CleanUp, i, 13)) = SubSeq(CleanUp, i + 1, 13)
<1>1. \A i \in 1 .. Len(CleanUp) :
          /\ SubSeq(CleanUp, i, Len(CleanUp)) # <<>>
          /\ Head(SubSeq(CleanUp, i, Len(CleanUp))) = CleanUp[i]
          /\ Tail(SubSeq(CleanUp, i, Len(CleanUp))) = SubSeq(CleanUp, i + 1, Len(CleanUp))
  BY CleanUpIs, Suffix
<1>2. SubSeq(CleanUp, 1, Len(CleanUp)) = CleanUp
  BY CleanUpIs, SubSeqFull
<1> QED BY <1>1, <1>2, CleanUpIs, Zenon

\* The operations that are left of CleanUp, by their places in it.
LEMMA RestOfCleanUp ==
    ASSUME NEW i \in 1 .. 13, NEW j \in i .. 13
    PROVE  /\ j - i + 1 \in DOMAIN SubSeq(CleanUp, i, 13)
           /\ SubSeq(CleanUp, i, 13)[j - i + 1] = CleanUp[j]
<1>1. CleanUp \in Seq(CleanSteps) /\ Len(CleanUp) = 13
  BY CleanUpIs
<1> QED BY <1>1

HeldBy(t) == {m \in Mutexes : owner[m] = t}

Worker(t) == t # "main" \/ ~cleaning

Ranges ==
    /\ owner \in [Mutexes -> Threads \cup {Nobody, Interrupted}]
    /\ cleaning \/ (cancelled = {} /\ \A m \in Mutexes : owner[m] # Interrupted)
    /\ todo = [t \in Threads |-> todo[t]]
    /\ gone \subseteq Others /\ cancelled \subseteq Others
    /\ high \subseteq Pins
    /\ isConnected \in BOOLEAN /\ cleaning \in BOOLEAN
    /\ connection \in {"up", "down"}
    /\ process \in {"running", "cleaned", "aborted"}

PulseInv == \E i \in 1 .. Len(Pulse) + 1 : todo["engagement"] = SubSeq(Pulse, i, Len(Pulse))

\* From the mutexes a worker holds its queue leads to none; one that ended holds some
\* only if it was cancelled.
WorkersInv ==
    /\ \A t \in Threads \ gone : Worker(t) => Leads(Own(t), todo[t], HeldBy(t), {})
    /\ \A t \in gone : t \in cancelled \/ HeldBy(t) = {}

\* The main thread is at the i-th operation of CleanUp.
Stage(i) ==
    /\ todo["main"] = SubSeq(CleanUp, i, 13)
    /\ i > 2 => "network" \in gone
    /\ i > 4 => "engagement" \in gone
    /\ i > 6 => "heartbeat" \in gone
    /\ i \in {8, 9, 11, 12} => owner["GPIO"] \in {"main", Interrupted}
    /\ HeldBy("main") \subseteq IF i \in {8, 9, 11, 12} THEN {"GPIO"} ELSE {}
    /\ i > 8 => "laser" \notin high
    /\ i > 11 => "pump" \notin high

CleanUpInv ==
    /\ cleaning => \E i \in 1 .. 13 : Stage(i) /\ (process = "cleaned" => i = 13)
    /\ process = "cleaned" => cleaning

Inv == Ranges /\ PulseInv /\ WorkersInv /\ CleanUpInv

LEMMA ThreadsAre ==
    /\ Others \subseteq Threads /\ "main" \in Threads /\ "main" \notin Others
    /\ "network" \in Others /\ "engagement" \in Others /\ "heartbeat" \in Others
    /\ \A t \in Others : t \in {"network", "engagement", "heartbeat"}
    /\ \A t \in Threads : t \in Others \/ t = "main"
    /\ Nobody \notin Threads /\ Interrupted \notin Threads /\ Interrupted # Nobody
    /\ "GPIO" \in Mutexes /\ "TCP" \in Mutexes
BY DEF Others, Threads, Nobody, Interrupted, Mutexes

LEMMA InitInv == Init => Inv
<1> SUFFICES ASSUME Init PROVE Inv
  OBVIOUS
<1>1. Ranges
  BY ThreadsAre DEF Init, Ranges
<1>2. PulseInv
  <2>1. Pulse \in Seq(Steps)
    BY QueuesComplete DEF Complete, Leads
  <2>2. Len(Pulse) \in Nat
    BY <2>1
  <2>3. SubSeq(Pulse, Len(Pulse) + 1, Len(Pulse)) = <<>>
    BY <2>2, SubSeqEmpty
  <2>4. Len(Pulse) + 1 \in 1 .. Len(Pulse) + 1 /\ todo["engagement"] = <<>>
    BY <2>2, ThreadsAre DEF Init
  <2> QED BY <2>3, <2>4 DEF PulseInv
<1>3. WorkersInv
  <2>1. \A t \in Threads : HeldBy(t) = {} /\ todo[t] = <<>>
    BY ThreadsAre DEF Init, HeldBy
  <2>2. {} \in SUBSET Mutexes /\ gone = {}
    BY DEF Init
  <2>3. \A t \in Threads : Leads(Own(t), <<>>, {}, {})
    BY <2>2, NothingLeads
  <2> QED BY <2>1, <2>2, <2>3 DEF WorkersInv
<1>4. CleanUpInv
  BY DEF Init, CleanUpInv
<1> QED BY <1>1, <1>2, <1>3, <1>4 DEF Inv

-----------------------------------------------------------------------------
(* A worker's step.                                                          *)

\* The next operation of a worker, and what it makes of the mutexes it holds.
LEMMA WorkersStep ==
    ASSUME Inv, NEW t \in Threads \ gone, Worker(t), todo[t] # <<>>
    PROVE  /\ Now(t) \in Own(t) /\ HeldBy(t) \in SUBSET Mutexes
           /\ \E e \in SUBSET Mutexes :
                 Does(Now(t), HeldBy(t), e) /\ Leads(Own(t), Tail(todo[t]), e, {})
<1>1. Leads(Own(t), todo[t], HeldBy(t), {})
  BY DEF Inv, WorkersInv
<1> QED BY <1>1, LeadsOn DEF Now, HeldBy

LEMMA IdleHoldsNothing ==
    ASSUME Inv, NEW t \in Threads \ gone, Worker(t), todo[t] = <<>>
    PROVE  HeldBy(t) = {}
<1>1. HeldBy(t) \in SUBSET Mutexes /\ Leads(Own(t), <<>>, HeldBy(t), {})
  BY DEF Inv, WorkersInv, HeldBy
<1> QED BY <1>1, NothingLeads

LEMMA WorkersNow ==
    ASSUME Inv, NEW t \in Threads \ gone, Worker(t), todo[t] # <<>>
    PROVE  /\ Now(t).op \in {"lock", "unlock", "io", "pin", "signal", "handle"}
           /\ Now(t).op \in {"lock", "unlock"} => Now(t).mutex \in Mutexes
           /\ Now(t).op = "pin" => Now(t).on \in BOOLEAN
           /\ Now(t).op = "handle" \/ (Now(t).op = "io" /\ Now(t).call = "read") => t = "network"
<1>1. Now(t) \in Own(t)
  BY WorkersStep
<1> QED BY <1>1 DEF Own, NetworkSteps, Steps

\* What is left of a pulse after an operation is left of it still.
LEMMA PulseDone ==
    ASSUME Inv, NEW t \in Threads, todo[t] # <<>>, Done(t)
    PROVE  PulseInv'
<1>1. PICK i \in 1 .. Len(Pulse) + 1 : todo["engagement"] = SubSeq(Pulse, i, Len(Pulse))
  BY DEF Inv, PulseInv
<1>2. CASE t = "engagement"
  <2>1. Pulse \in Seq(Steps) /\ Len(Pulse) \in Nat
    BY QueuesComplete DEF Complete, Leads
  <2>2. i # Len(Pulse) + 1
    <3>1. SubSeq(Pulse, Len(Pulse) + 1, Len(Pulse)) = <<>>
      BY <2>1, SubSeqEmpty
    <3> QED BY <1>1, <1>2, <3>1
  <2>3. i \in 1 .. Len(Pulse) /\ i + 1 \in 1 .. Len(Pulse) + 1
    BY <2>1, <2>2
  <2>4. Tail(todo["engagement"]) = SubSeq(Pulse, i + 1, Len(Pulse))
    BY <1>1, <2>1, <2>3, Suffix
  <2>5. todo'["engagement"] = Tail(todo["engagement"])
    BY <1>2 DEF Done, Inv, Ranges
  <2> QED BY <2>3, <2>4, <2>5 DEF PulseInv
<1>3. CASE t # "engagement"
  <2>1. todo'["engagement"] = todo["engagement"]
    BY <1>3, ThreadsAre DEF Done, Inv, Ranges
  <2> QED BY <1>1, <2>1 DEF PulseInv
<1> QED BY <1>2, <1>3

\* New queues, where the mutexes held stay as they are.
LEMMA WorkersNew ==
    ASSUME Inv, UNCHANGED owner, gone \subseteq gone', cancelled \subseteq cancelled',
           cleaning => cleaning',
           \A u \in gone' \ gone : u \in cancelled',
           \A u \in Threads \ gone' : Worker(u)' => Leads(Own(u), todo'[u], HeldBy(u), {})
    PROVE  WorkersInv'
<1>1. \A u : HeldBy(u)' = HeldBy(u)
  BY DEF HeldBy
<1> QED BY <1>1 DEF Inv, WorkersInv

LEMMA WorkersDone ==
    ASSUME Inv, NEW t \in Threads \ gone, Worker(t), todo[t] # <<>>, Done(t),
           UNCHANGED <<gone, cancelled, cleaning>>,
           HeldBy(t)' \in SUBSET Mutexes,
           \A e \in SUBSET Mutexes : Does(Now(t), HeldBy(t), e) => HeldBy(t)' = e,
           \A u \in Threads \ {t} : HeldBy(u)' = HeldBy(u)
    PROVE  WorkersInv'
<1>1. PICK e \in SUBSET Mutexes :
          Does(Now(t), HeldBy(t), e) /\ Leads(Own(t), Tail(todo[t]), e, {})
  BY WorkersStep
<1>2. HeldBy(t)' = e
  BY <1>1
<1>3. todo'[t] = Tail(todo[t]) /\ \A u \in Threads \ {t} : todo'[u] = todo[u]
  BY DEF Done, Inv, Ranges
<1>4. \A u \in Threads \ gone : Worker(u) => Leads(Own(u), todo'[u], HeldBy(u)', {})
  <2> SUFFICES ASSUME NEW u \in Threads \ gone, Worker(u)
               PROVE  Leads(Own(u), todo'[u], HeldBy(u)', {})
    OBVIOUS
  <2>1. CASE u = t
    BY <1>1, <1>2, <1>3, <2>1
  <2>2. CASE u # t
    BY <1>3, <2>2 DEF Inv, WorkersInv
  <2> QED BY <2>1, <2>2
<1>5. \A u \in gone : u \in cancelled \/ HeldBy(u)' = {}
  BY ThreadsAre DEF Inv, WorkersInv, Ranges
<1> QED BY <1>4, <1>5 DEF WorkersInv, Worker

\* While another thread is left to take a step, CleanUp has not come to the outputs.
LEMMA CleanUpBeside ==
    ASSUME Inv, NEW t \in Threads \ gone, Worker(t), process = "running",
           UNCHANGED cleaning, process' # "cleaned", gone \subseteq gone',
           t # "main" => todo'["main"] = todo["main"] /\ HeldBy("main")' = HeldBy("main")
    PROVE  CleanUpInv'
<1>1. CASE ~cleaning
  BY <1>1 DEF CleanUpInv
<1>2. CASE cleaning
  <2>1. t \in Others /\ todo'["main"] = todo["main"] /\ HeldBy("main")' = HeldBy("main")
    BY <1>2, ThreadsAre DEF Worker
  <2>2. PICK i \in 1 .. 13 : Stage(i)
    BY <1>2 DEF Inv, CleanUpInv
  <2>3. ~(i > 6)
    <3>1. i > 6 => i > 4 /\ i > 2
      OBVIOUS
    <3> QED BY <2>1, <2>2, <3>1, ThreadsAre DEF Stage
  <2>4. Stage(i)'
    <3>1. ~(i > 8) /\ ~(i > 11) /\ i \notin {8, 9, 11, 12}
      BY <2>3
    <3> QED BY <2>1, <2>2, <2>3, <3>1 DEF Stage
  <2> QED BY <2>4 DEF CleanUpInv
<1> QED BY <1>1, <1>2
\* A worker's operation that touches no mutex: what is left to show of its step.
LEMMA PlainStep ==
    ASSUME Inv, NEW t \in Threads, Worker(t), NEW op, At(t, op), Done(t),
           op \in {"io", "pin"},
           UNCHANGED <<owner, gone, cancelled, connection, cleaning, process>>,
           isConnected' \in BOOLEAN, high' \subseteq Pins
    PROVE  Inv'
<1>1. t \in Threads \ gone /\ todo[t] # <<>> /\ Now(t).op = op /\ process = "running"
  BY DEF At, Now
<1>2. \A u : HeldBy(u)' = HeldBy(u)
  BY DEF HeldBy
<1>3. \A e \in SUBSET Mutexes : Does(Now(t), HeldBy(t), e) => HeldBy(t)' = e
  BY <1>1, <1>2 DEF Does
<1>4. HeldBy(t)' \in SUBSET Mutexes
  BY <1>2 DEF HeldBy
<1>5. WorkersInv'
  BY <1>1, <1>2, <1>3, <1>4, WorkersDone
<1>6. t # "main" => todo'["main"] = todo["main"]
  BY ThreadsAre DEF Done, Inv, Ranges
<1>7. CleanUpInv'
  BY <1>1, <1>2, <1>6, CleanUpBeside
<1>8. Ranges'
  BY DEF Done, Inv, Ranges
<1> QED BY <1>1, <1>5, <1>7, <1>8, PulseDone DEF Inv

LEMMA AcquireWorker ==
    ASSUME Inv, NEW t \in Threads, Worker(t), Acquire(t)
    PROVE  Inv'
<1> DEFINE m == Now(t).mutex
<1>1. /\ t \in Threads \ gone /\ todo[t] # <<>> /\ Now(t).op = "lock" /\ process = "running"
      /\ Done(t)
  BY DEF Acquire, At, Now
<1>2. m \in Mutexes /\ owner[m] \in {Nobody, t} /\ owner' = [owner EXCEPT ![m] = t]
  BY <1>1, WorkersNow DEF Acquire, Worker, Inv, Ranges
<1>3. HeldBy(t)' = HeldBy(t) \cup {m} /\ \A u \in Threads \ {t} : HeldBy(u)' = HeldBy(u)
  BY <1>2, ThreadsAre DEF HeldBy, Inv, Ranges
<1>4. \A e \in SUBSET Mutexes : Does(Now(t), HeldBy(t), e) => HeldBy(t)' = e
  BY <1>1, <1>3 DEF Does
<1>5. HeldBy(t)' \in SUBSET Mutexes
  BY DEF HeldBy
<1>6. UNCHANGED <<gone, cancelled, cleaning, process>>
  BY DEF Acquire
<1> HIDE DEF m
<1>7. WorkersInv'
  BY <1>1, <1>3, <1>4, <1>5, <1>6, WorkersDone
<1>8. t # "main" => todo'["main"] = todo["main"]
  BY <1>1, ThreadsAre DEF Done, Inv, Ranges
<1>9. CleanUpInv'
  BY <1>1, <1>3, <1>6, <1>8, ThreadsAre, CleanUpBeside
<1>10. owner' \in [Mutexes -> Threads \cup {Nobody, Interrupted}]
  BY <1>2 DEF Inv, Ranges
<1>11. Ranges'
  BY <1>2, <1>10, ThreadsAre DEF Acquire, Done, Inv, Ranges
<1> QED BY <1>1, <1>7, <1>9, <1>11, PulseDone DEF Inv

LEMMA ReleaseWorker ==
    ASSUME Inv, NEW t \in Threads, Worker(t), Release(t)
    PROVE  Inv'
<1> DEFINE m == Now(t).mutex
<1>1. /\ t \in Threads \ gone /\ todo[t] # <<>> /\ Now(t).op = "unlock" /\ process = "running"
      /\ Done(t)
  BY DEF Release, At, Now
<1>2. m \in HeldBy(t)
  BY <1>1, WorkersStep DEF Does
<1>3. m \in Mutexes /\ owner[m] = t /\ owner' = [owner EXCEPT ![m] = Nobody]
  BY <1>2, ThreadsAre DEF Release, HeldBy, Inv, Ranges
<1>4. HeldBy(t)' = HeldBy(t) \ {m} /\ \A u \in Threads \ {t} : HeldBy(u)' = HeldBy(u)
  BY <1>3, ThreadsAre DEF HeldBy, Inv, Ranges
<1>5. \A e \in SUBSET Mutexes : Does(Now(t), HeldBy(t), e) => HeldBy(t)' = e
  BY <1>1, <1>4 DEF Does
<1>6. HeldBy(t)' \in SUBSET Mutexes
  BY DEF HeldBy
<1>7. UNCHANGED <<gone, cancelled, cleaning, process>>
  BY DEF Release
<1> HIDE DEF m
<1>8. WorkersInv'
  BY <1>1, <1>4, <1>5, <1>6, <1>7, WorkersDone
<1>9. t # "main" => todo'["main"] = todo["main"]
  BY <1>1, ThreadsAre DEF Done, Inv, Ranges
<1>10. CleanUpInv'
  BY <1>1, <1>4, <1>7, <1>9, ThreadsAre, CleanUpBeside
<1>11. owner' \in [Mutexes -> Threads \cup {Nobody, Interrupted}]
  BY <1>3 DEF Inv, Ranges
<1>12. Ranges'
  BY <1>3, <1>11, ThreadsAre DEF Release, Done, Inv, Ranges
<1> QED BY <1>1, <1>8, <1>10, <1>12, PulseDone DEF Inv

LEMMA PlainWorker ==
    ASSUME Inv, NEW t \in Threads, Worker(t),
           SetPin(t) \/ Succeed(t) \/ FailToWrite(t) \/ FailToBeat(t)
    PROVE  Inv'
<1>1. CASE SetPin(t)
  <2>1. At(t, "pin") /\ Done(t)
    BY <1>1 DEF SetPin
  <2>2. high' \subseteq Pins
    BY <1>1 DEF SetPin, Inv, Ranges
  <2> QED BY <1>1, <2>1, <2>2, PlainStep DEF SetPin, Inv, Ranges
<1>2. CASE Succeed(t) \/ FailToWrite(t) \/ FailToBeat(t)
  BY <1>2, PlainStep DEF Succeed, FailToWrite, FailToBeat, Fails, OnSocket, Inv, Ranges
<1> QED BY <1>1, <1>2

LEMMA FailToReadWorker ==
    ASSUME Inv, NEW t \in Threads, Worker(t), FailToRead(t)
    PROVE  Inv'
<1>1. /\ t \in Threads \ gone /\ todo[t] # <<>> /\ Now(t).op = "io" /\ Now(t).call = "read"
      /\ process = "running"
  BY DEF FailToRead, Fails, OnSocket, At, Now
<1>2. t = "network" /\ HeldBy(t) = {"TCP"}
  BY <1>1, WorkersNow, WorkersStep DEF Does
<1>3. /\ owner' = [owner EXCEPT !["TCP"] = Nobody] /\ todo' = [todo EXCEPT !["network"] = <<>>]
      /\ gone' = gone \cup {"network"} /\ isConnected' = FALSE
      /\ UNCHANGED <<cancelled, high, connection, cleaning, process>>
  BY <1>2 DEF FailToRead
<1>4. HeldBy("network")' = {} /\ \A u \in Threads \ {"network"} : HeldBy(u)' = HeldBy(u)
  BY <1>2, <1>3, ThreadsAre DEF HeldBy, Inv, Ranges
<1>5. Ranges'
  BY <1>3, ThreadsAre DEF Inv, Ranges
<1>6. todo'["engagement"] = todo["engagement"] /\ todo'["main"] = todo["main"]
  BY <1>3, ThreadsAre DEF Inv, Ranges
<1>7. PulseInv'
  BY <1>6 DEF Inv, PulseInv
<1>8. WorkersInv'
  <2>1. \A u \in Threads \ gone' : Worker(u) => Leads(Own(u), todo'[u], HeldBy(u)', {})
    BY <1>3, <1>4 DEF Inv, WorkersInv, Ranges
  <2>2. \A u \in gone' : u \in cancelled \/ HeldBy(u)' = {}
    BY <1>3, <1>4, ThreadsAre DEF Inv, WorkersInv, Ranges
  <2> QED BY <1>3, <2>1, <2>2 DEF WorkersInv, Worker
<1>9. CleanUpInv'
  BY <1>1, <1>2, <1>3, <1>4, <1>6, ThreadsAre, CleanUpBeside
<1> QED BY <1>5, <1>7, <1>8, <1>9 DEF Inv

LEMMA HandleWorker ==
    ASSUME Inv, NEW t \in Threads, Worker(t), HandleMessage(t)
    PROVE  Inv'
<1>1. t \in Threads \ gone /\ todo[t] # <<>> /\ Now(t).op = "handle" /\ process = "running"
  BY DEF HandleMessage, At, Now
<1>2. t = "network" /\ HeldBy(t) = {}
  BY <1>1, WorkersNow, WorkersStep DEF Does
<1>3. PICK handler \in Handlers : todo' = [todo EXCEPT !["network"] = handler]
  BY <1>2 DEF HandleMessage
<1>4. /\ UNCHANGED <<owner, gone, cancelled, high, isConnected, connection, cleaning,
                     process>>
      /\ todo'["engagement"] = todo["engagement"] /\ todo'["main"] = todo["main"]
      /\ todo'["network"] = handler
      /\ \A u \in Threads \ {"network"} : todo'[u] = todo[u]
  BY <1>3, ThreadsAre DEF HandleMessage, Inv, Ranges
<1>5. Ranges'
  BY <1>3, <1>4, ThreadsAre DEF Inv, Ranges
<1>6. PulseInv'
  BY <1>4 DEF Inv, PulseInv
<1>7. Leads(Own("network"), handler, {}, {})
  BY QueuesComplete DEF Complete, Own
<1>8. WorkersInv'
  <2>1. \A u \in Threads \ gone : Worker(u) => Leads(Own(u), todo'[u], HeldBy(u), {})
    BY <1>2, <1>4, <1>7 DEF Inv, WorkersInv
  <2> QED BY <1>4, <2>1, WorkersNew DEF Worker
<1>9. CleanUpInv'
  BY <1>1, <1>4, CleanUpBeside DEF HeldBy
<1> QED BY <1>5, <1>6, <1>8, <1>9 DEF Inv

\* A waiting thread holds nothing, so that Pulse may be its work.
LEMMA SignalWorker ==
    ASSUME Inv, NEW t \in Threads, Worker(t), SignalEngagement(t)
    PROVE  Inv'
<1>1. t \in Threads \ gone /\ todo[t] # <<>> /\ Now(t).op = "signal" /\ process = "running"
  BY DEF SignalEngagement, At, Now
<1>2. UNCHANGED <<owner, gone, cancelled, high, isConnected, connection, cleaning, process>>
  BY DEF SignalEngagement
<1>3. Ranges'
  BY <1>2 DEF SignalEngagement, Inv, Ranges
<1>4. todo'[t] = Tail(todo[t]) /\ (t # "main" => todo'["main"] = todo["main"])
  BY ThreadsAre DEF SignalEngagement
<1>5. PulseInv'
  <2>1. CASE t = "engagement"
    <3>1. \A u \in Threads \ {t} : todo'[u] = todo[u]
      BY <2>1 DEF SignalEngagement
    <3>2. Done(t)
      BY <3>1, <1>3, <1>4 DEF Done, Inv, Ranges
    <3> QED BY <1>1, <3>2, PulseDone
  <2>2. CASE t # "engagement" /\ todo["engagement"] = <<>>
    <3>1. todo'["engagement"] = Pulse
      BY <2>2, ThreadsAre DEF SignalEngagement
    <3>2. Pulse \in Seq(Steps) /\ Len(Pulse) \in Nat
      BY QueuesComplete DEF Complete, Leads
    <3>3. SubSeq(Pulse, 1, Len(Pulse)) = Pulse /\ 1 \in 1 .. Len(Pulse) + 1
      BY <3>2, SubSeqFull
    <3> QED BY <3>1, <3>3 DEF PulseInv
  <2>3. CASE t # "engagement" /\ todo["engagement"] # <<>>
    <3>1. todo'["engagement"] = todo["engagement"]
      BY <2>3, ThreadsAre DEF SignalEngagement
    <3> QED BY <3>1 DEF Inv, PulseInv
  <2> QED BY <2>1, <2>2, <2>3
<1>6. WorkersInv'
  <2>1. Leads(Own(t), Tail(todo[t]), HeldBy(t), {})
    BY <1>1, WorkersStep DEF Does
  <2>2. ASSUME NEW u \in Threads \ gone, Worker(u)
        PROVE  Leads(Own(u), todo'[u], HeldBy(u), {})
    <3>1. Leads(Own(u), todo[u], HeldBy(u), {})
      BY <2>2 DEF Inv, WorkersInv
    <3>2. CASE u = t
      BY <1>4, <2>1, <3>2
    <3>3. CASE u # t /\ u = "engagement" /\ todo[u] = <<>>
      <4>1. HeldBy(u) = {}
        BY <2>2, <3>3, IdleHoldsNothing
      <4>2. todo'[u] = Pulse /\ Own(u) = Steps
        BY <3>3 DEF SignalEngagement, Own
      <4> QED BY <4>1, <4>2, QueuesComplete DEF Complete
    <3>4. CASE u # t /\ ~(u = "engagement" /\ todo[u] = <<>>)
      BY <3>1, <3>4 DEF SignalEngagement
    <3> QED BY <3>2, <3>3, <3>4
  <2> QED BY <1>2, <2>2, WorkersNew DEF Worker
<1>7. CleanUpInv'
  BY <1>1, <1>2, <1>4, CleanUpBeside DEF HeldBy
<1> QED BY <1>3, <1>5, <1>6, <1>7 DEF Inv

\* Nothing of the process is left.
LEMMA AbortWorker ==
    ASSUME Inv, NEW t \in Threads, Abort(t)
    PROVE  Inv'
<1>1. /\ process' = "aborted" /\ gone' = {} /\ cancelled' = {} /\ cleaning' = FALSE
      /\ owner' = [m \in Mutexes |-> Nobody] /\ todo' = [u \in Threads |-> <<>>]
      /\ UNCHANGED <<high, isConnected, connection>>
  BY DEF Abort
<1>2. Ranges'
  BY <1>1, ThreadsAre DEF Inv, Ranges
<1>3. PulseInv'
  <2>1. Len(Pulse) \in Nat
    BY QueuesComplete DEF Complete, Leads
  <2>2. SubSeq(Pulse, Len(Pulse) + 1, Len(Pulse)) = <<>>
    BY <2>1, SubSeqEmpty
  <2>3. Len(Pulse) + 1 \in 1 .. Len(Pulse) + 1 /\ todo'["engagement"] = <<>>
    BY <1>1, <2>1, ThreadsAre
  <2> QED BY <2>2, <2>3 DEF PulseInv
<1>4. WorkersInv'
  <2>1. \A u \in Threads : HeldBy(u)' = {} /\ todo'[u] = <<>>
    BY <1>1, ThreadsAre DEF HeldBy
  <2>2. \A u \in Threads : Leads(Own(u), <<>>, {}, {})
    BY NothingLeads
  <2> QED BY <1>1, <2>1, <2>2 DEF WorkersInv
<1>5. CleanUpInv'
  BY <1>1 DEF CleanUpInv
<1> QED BY <1>2, <1>3, <1>4, <1>5 DEF Inv

LEMMA CancelledEnds ==
    ASSUME Inv, NEW t \in Threads, ActOnCancel(t)
    PROVE  Inv'
<1>1. /\ t \in Others \ gone /\ t \in cancelled /\ process = "running" /\ gone' = gone \cup {t}
      /\ UNCHANGED <<owner, todo, cancelled, high, isConnected, connection, cleaning, process>>
  BY DEF ActOnCancel, Inv, Ranges
<1>2. Ranges' /\ PulseInv'
  BY <1>1 DEF Inv, Ranges, PulseInv
<1>3. WorkersInv'
  <2>1. \A u \in Threads \ gone : Worker(u) => Leads(Own(u), todo[u], HeldBy(u), {})
    BY DEF Inv, WorkersInv
  <2> QED BY <1>1, <2>1, WorkersNew DEF Worker
<1>4. CleanUpInv'
  BY <1>1, ThreadsAre, CleanUpBeside DEF Worker, HeldBy
<1> QED BY <1>2, <1>3, <1>4 DEF Inv
-----------------------------------------------------------------------------
(* The main thread's steps in CleanUp, and everything else.                  *)

\* The operation the main thread is at in CleanUp.
LEMMA CleanUpAt ==
    ASSUME Inv, cleaning
    PROVE  \E i \in 1 .. 13 :
              /\ Stage(i) /\ todo["main"] # <<>> /\ Now("main") = CleanUp[i]
              /\ Done("main") => todo'["main"] = SubSeq(CleanUp, i + 1, 13)
              /\ process = "cleaned" => i = 13
<1>1. PICK i \in 1 .. 13 : Stage(i) /\ (process = "cleaned" => i = 13)
  BY DEF Inv, CleanUpInv
<1>2. /\ todo["main"] # <<>> /\ Head(todo["main"]) = CleanUp[i]
      /\ Tail(todo["main"]) = SubSeq(CleanUp, i + 1, 13)
  BY <1>1, CleanUpSuffix DEF Stage
<1>3. Done("main") => todo'["main"] = Tail(todo["main"])
  BY ThreadsAre DEF Done, Inv, Ranges
<1> QED BY <1>1, <1>2, <1>3 DEF Now

\* What each operation of CleanUp is.
LEMMA CleanUpOps ==
    ASSUME NEW i \in 1 .. 13
    PROVE  /\ CleanUp[i].op \in {"cancel", "join", "lock", "pin", "unlock", "exit"}
           /\ CleanUp[i].op = "cancel" <=> i \in {1, 3, 5}
           /\ CleanUp[i].op = "join" <=> i \in {2, 4, 6}
           /\ CleanUp[i].op = "lock" <=> i \in {7, 10}
           /\ CleanUp[i].op = "pin" <=> i \in {8, 11}
           /\ CleanUp[i].op = "unlock" <=> i \in {9, 12}
           /\ CleanUp[i].op = "exit" <=> i = 13
<1>1. i \in {1, 2, 3, 4, 5, 6, 7, 8, 9, 10, 11, 12, 13}
  OBVIOUS
<1> QED BY <1>1, CleanUpIs DEF Cancel, Join, Lock, Pin, Unlock, Exit

\* Its step leaves the others, and what they hold, alone.
LEMMA CleanUpKeeps ==
    ASSUME Inv, cleaning, Done("main"), UNCHANGED <<gone, cleaning>>, cancelled \subseteq cancelled',
           \A u \in Others : HeldBy(u)' = HeldBy(u)
    PROVE  WorkersInv' /\ PulseInv'
<1>1. todo["main"] # <<>>
  BY CleanUpAt
<1>2. PulseInv'
  BY <1>1, ThreadsAre, PulseDone
<1>3. \A u \in Others : todo'[u] = todo[u]
  BY ThreadsAre DEF Done, Inv, Ranges
<1>4. \A u \in Threads : Worker(u) => u \in Others
  BY ThreadsAre DEF Worker
<1>5. gone \subseteq Others
  BY DEF Inv, Ranges
<1> QED BY <1>2, <1>3, <1>4, <1>5 DEF Inv, WorkersInv, Worker

LEMMA CancelMain ==
    ASSUME Inv, cleaning, CancelThread("main")
    PROVE  Inv'
<1>1. PICK i \in 1 .. 13 : /\ Stage(i) /\ Now("main") = CleanUp[i]
                           /\ Done("main") => todo'["main"] = SubSeq(CleanUp, i + 1, 13)
  BY CleanUpAt
<1>2. i \in {1, 3, 5}
  BY <1>1, CleanUpOps DEF CancelThread, At, Now
<1>3. Now("main").thread \in Others
  BY <1>1, <1>2, CleanUpIs, ThreadsAre DEF Cancel
<1>4. /\ cancelled' = cancelled \cup {Now("main").thread} /\ Done("main") /\ process = "running"
      /\ UNCHANGED <<owner, gone, high, isConnected, connection, cleaning, process>>
  BY DEF CancelThread, At
<1>5. \A u : HeldBy(u)' = HeldBy(u)
  BY <1>4 DEF HeldBy
<1>6. Ranges'
  BY <1>3, <1>4 DEF Done, Inv, Ranges
<1>7. WorkersInv' /\ PulseInv'
  BY <1>4, <1>5, CleanUpKeeps
<1>8. Stage(i + 1)'
  BY <1>1, <1>2, <1>4, <1>5 DEF Stage
<1>9. CleanUpInv'
  BY <1>2, <1>4, <1>8 DEF CleanUpInv
<1> QED BY <1>6, <1>7, <1>9 DEF Inv

LEMMA JoinMain ==
    ASSUME Inv, cleaning, JoinThread("main")
    PROVE  Inv'
<1>1. PICK i \in 1 .. 13 : /\ Stage(i) /\ Now("main") = CleanUp[i]
                           /\ Done("main") => todo'["main"] = SubSeq(CleanUp, i + 1, 13)
  BY CleanUpAt
<1>2. i \in {2, 4, 6}
  BY <1>1, CleanUpOps DEF JoinThread, At, Now
<1>3. /\ Now("main").thread \in gone /\ Done("main") /\ process = "running"
      /\ UNCHANGED <<owner, gone, cancelled, high, isConnected, connection, cleaning, process>>
  BY DEF JoinThread, At
<1>4. /\ i = 2 => "network" \in gone
      /\ i = 4 => "engagement" \in gone
      /\ i = 6 => "heartbeat" \in gone
  BY <1>1, <1>3, CleanUpIs DEF Join
<1>5. \A u : HeldBy(u)' = HeldBy(u)
  BY <1>3 DEF HeldBy
<1>6. Ranges'
  BY <1>3 DEF Done, Inv, Ranges
<1>7. WorkersInv' /\ PulseInv'
  BY <1>3, <1>5, CleanUpKeeps
<1>8. Stage(i + 1)'
  BY <1>1, <1>2, <1>3, <1>4, <1>5 DEF Stage
<1>9. CleanUpInv'
  BY <1>2, <1>3, <1>8 DEF CleanUpInv
<1> QED BY <1>6, <1>7, <1>9 DEF Inv

\* The main thread may hold the mutexes already, or find one that a cancelled thread
\* left locked, and wait for ever.
LEMMA AcquireMain ==
    ASSUME Inv, cleaning, Acquire("main")
    PROVE  Inv'
<1>1. PICK i \in 1 .. 13 : /\ Stage(i) /\ Now("main") = CleanUp[i]
                           /\ Done("main") => todo'["main"] = SubSeq(CleanUp, i + 1, 13)
  BY CleanUpAt
<1>2. i \in {7, 10} /\ CleanUp[i] = Lock("GPIO")
  BY <1>1, CleanUpOps, CleanUpIs DEF Acquire, At, Now
<1>3. Now("main").mutex = "GPIO"
  BY <1>1, <1>2 DEF Lock
<1>4. /\ Done("main") /\ process = "running"
      /\ UNCHANGED <<gone, cancelled, high, isConnected, connection, cleaning, process>>
      /\ \/ /\ owner["GPIO"] \in {Nobody, "main"}
            /\ owner' = [owner EXCEPT !["GPIO"] = "main"]
         \/ owner["GPIO"] = Interrupted /\ UNCHANGED owner
  BY <1>3 DEF Acquire, At
<1>5. \A u \in Others : HeldBy(u)' = HeldBy(u)
  BY <1>4, ThreadsAre DEF HeldBy, Inv, Ranges
<1>6. /\ owner' \in [Mutexes -> Threads \cup {Nobody, Interrupted}]
      /\ owner'["GPIO"] \in {"main", Interrupted}
      /\ \A m \in Mutexes \ {"GPIO"} : owner'[m] = owner[m]
  BY <1>4, ThreadsAre DEF Inv, Ranges
<1>7. Ranges'
  BY <1>4, <1>6 DEF Done, Inv, Ranges
<1>8. WorkersInv' /\ PulseInv'
  BY <1>4, <1>5, CleanUpKeeps
<1>9. HeldBy("main")' \subseteq {"GPIO"}
  <2>1. HeldBy("main") = {}
    BY <1>1, <1>2 DEF Stage
  <2> QED BY <1>6, <2>1 DEF HeldBy
<1>10. Stage(i + 1)'
  BY <1>1, <1>2, <1>4, <1>6, <1>9 DEF Stage
<1>11. CleanUpInv'
  BY <1>2, <1>4, <1>10 DEF CleanUpInv
<1> QED BY <1>7, <1>8, <1>11 DEF Inv

LEMMA ReleaseMain ==
    ASSUME Inv, cleaning, Release("main")
    PROVE  Inv'
<1>1. PICK i \in 1 .. 13 : /\ Stage(i) /\ Now("main") = CleanUp[i]
                           /\ Done("main") => todo'["main"] = SubSeq(CleanUp, i + 1, 13)
  BY CleanUpAt
<1>2. i \in {9, 12} /\ CleanUp[i] = Unlock("GPIO")
  BY <1>1, CleanUpOps, CleanUpIs DEF Release, At, Now
<1>3. Now("main").mutex = "GPIO" /\ owner["GPIO"] \in {"main", Interrupted}
  BY <1>1, <1>2 DEF Unlock, Stage
<1>4. /\ owner' = [owner EXCEPT !["GPIO"] = IF @ = Interrupted THEN @ ELSE Nobody]
      /\ Done("main") /\ process = "running"
      /\ UNCHANGED <<gone, cancelled, high, isConnected, connection, cleaning, process>>
  BY <1>3 DEF Release, At
<1>5. /\ owner' \in [Mutexes -> Threads \cup {Nobody, Interrupted}]
      /\ owner'["GPIO"] \in {Nobody, Interrupted}
      /\ \A m \in Mutexes \ {"GPIO"} : owner'[m] = owner[m]
  BY <1>3, <1>4, ThreadsAre DEF Inv, Ranges
<1>6. \A u \in Others : HeldBy(u)' = HeldBy(u)
  BY <1>3, <1>5, ThreadsAre DEF HeldBy
<1>7. Ranges'
  BY <1>4, <1>5, CleanUpAt DEF Done, Inv, Ranges
<1>8. WorkersInv' /\ PulseInv'
  BY <1>4, <1>6, CleanUpKeeps
<1>9. HeldBy("main")' = {}
  <2>1. HeldBy("main") \subseteq {"GPIO"}
    BY <1>1, <1>2 DEF Stage
  <2> QED BY <1>5, <2>1, ThreadsAre DEF HeldBy
<1>10. Stage(i + 1)'
  BY <1>1, <1>2, <1>4, <1>9 DEF Stage
<1>11. CleanUpInv'
  BY <1>2, <1>4, <1>10 DEF CleanUpInv
<1> QED BY <1>7, <1>8, <1>11 DEF Inv

LEMMA SetPinMain ==
    ASSUME Inv, cleaning, SetPin("main")
    PROVE  Inv'
<1>1. PICK i \in 1 .. 13 : /\ Stage(i) /\ Now("main") = CleanUp[i]
                           /\ Done("main") => todo'["main"] = SubSeq(CleanUp, i + 1, 13)
  BY CleanUpAt
<1>2. i \in {8, 11}
  BY <1>1, CleanUpOps DEF SetPin, At, Now
<1>3. /\ i = 8 => Now("main").pin = "laser"
      /\ i = 11 => Now("main").pin = "pump"
      /\ Now("main").on = FALSE
  BY <1>1, <1>2, CleanUpIs DEF Pin
<1>4. /\ Done("main") /\ process = "running"
      /\ UNCHANGED <<owner, gone, cancelled, isConnected, connection, cleaning, process>>
  BY DEF SetPin, At
<1>5. /\ high' \subseteq high
      /\ i = 8 => "laser" \notin high'
      /\ i = 11 => "pump" \notin high'
  BY <1>3 DEF SetPin
<1>6. \A u : HeldBy(u)' = HeldBy(u)
  BY <1>4 DEF HeldBy
<1>7. Ranges'
  BY <1>2, <1>4, <1>5 DEF Done, Inv, Ranges
<1>8. WorkersInv' /\ PulseInv'
  BY <1>4, <1>6, CleanUpKeeps
<1>9. Stage(i + 1)'
  BY <1>1, <1>2, <1>4, <1>5, <1>6 DEF Stage
<1>10. CleanUpInv'
  BY <1>2, <1>4, <1>9 DEF CleanUpInv
<1> QED BY <1>7, <1>8, <1>10 DEF Inv

LEMMA ExitMain ==
    ASSUME Inv, cleaning, ExitProcess("main")
    PROVE  Inv'
<1>1. PICK i \in 1 .. 13 : Stage(i) /\ Now("main") = CleanUp[i]
  BY CleanUpAt
<1>2. i = 13
  BY <1>1, CleanUpOps DEF ExitProcess, At, Now
<1>3. /\ process' = "cleaned"
      /\ UNCHANGED <<owner, todo, gone, cancelled, high, isConnected, connection, cleaning>>
  BY DEF ExitProcess
<1>4. \A u : HeldBy(u)' = HeldBy(u)
  BY <1>3 DEF HeldBy
<1>5. Ranges' /\ PulseInv'
  BY <1>3 DEF Inv, Ranges, PulseInv
<1>6. WorkersInv'
  BY <1>3, <1>4 DEF Inv, WorkersInv, Worker
<1>7. Stage(13)'
  BY <1>1, <1>2, <1>3, <1>4 DEF Stage
<1>8. CleanUpInv'
  BY <1>3, <1>7 DEF CleanUpInv
<1> QED BY <1>5, <1>6, <1>8 DEF Inv

LEMMA WorkInv ==
    ASSUME Inv, NEW t \in Threads, Work(t)
    PROVE  Inv'
<1>1. CASE ActOnCancel(t)
  BY <1>1, CancelledEnds
<1>2. CASE Worker(t) /\ ~ActOnCancel(t)
  <2>1. ~CancelThread(t) /\ ~JoinThread(t) /\ ~ExitProcess(t)
    <3>1. t \in Threads \ gone /\ todo[t] # <<>> => Now(t).op \notin {"cancel", "join", "exit"}
      BY <1>2, WorkersNow
    <3> QED BY <3>1 DEF CancelThread, JoinThread, ExitProcess, At, Now
  <2> QED BY <1>2, <2>1, AcquireWorker, ReleaseWorker, PlainWorker, FailToReadWorker, HandleWorker,
             SignalWorker, AbortWorker DEF Work
<1>3. CASE ~Worker(t) /\ ~ActOnCancel(t)
  <2>1. t = "main" /\ cleaning
    BY <1>3 DEF Worker
  <2>2. PICK i \in 1 .. 13 : Now("main") = CleanUp[i]
    BY <2>1, CleanUpAt
  <2>3. Head(todo["main"]).op \notin {"io", "handle", "signal"}
    BY <2>2, CleanUpOps DEF Now
  <2>4. /\ ~Succeed("main") /\ ~FailToWrite("main") /\ ~FailToBeat("main") /\ ~FailToRead("main")
        /\ ~Abort("main") /\ ~HandleMessage("main") /\ ~SignalEngagement("main")
    BY <2>3 DEF Succeed, FailToWrite, FailToBeat, FailToRead, Abort, HandleMessage,
       SignalEngagement, Fails, OnSocket, At
  <2> QED BY <1>3, <2>1, <2>4, AcquireMain, ReleaseMain, SetPinMain, CancelMain, JoinMain, ExitMain
          DEF Work
<1> QED BY <1>1, <1>2, <1>3

LEMMA TakeOnInv ==
    ASSUME Inv, NEW t \in Threads, t # "engagement", NEW jobs, TakeOn(t, jobs),
           \A job \in jobs : Leads(Own(t), job, {}, {})
    PROVE  Inv'
<1>1. PICK job \in jobs : todo' = [todo EXCEPT ![t] = job]
  BY DEF TakeOn
<1>2. /\ t \in Threads \ gone /\ todo[t] = <<>> /\ process = "running"
      /\ UNCHANGED <<owner, gone, cancelled, high, isConnected, connection, cleaning, process>>
  BY DEF TakeOn
<1>3. Worker(t)
  BY <1>2, CleanUpAt DEF Worker
<1>4. HeldBy(t) = {}
  BY <1>2, <1>3, IdleHoldsNothing
<1>5. /\ todo'[t] = job /\ \A u \in Threads \ {t} : todo'[u] = todo[u]
      /\ todo'["engagement"] = todo["engagement"]
  BY <1>1, ThreadsAre DEF Inv, Ranges
<1>6. Ranges'
  BY <1>1, <1>2 DEF Inv, Ranges
<1>7. PulseInv'
  BY <1>5 DEF Inv, PulseInv
<1>8. WorkersInv'
  <2>1. \A u \in Threads \ gone : Worker(u) => Leads(Own(u), todo'[u], HeldBy(u), {})
    BY <1>4, <1>5 DEF Inv, WorkersInv
  <2> QED BY <1>2, <2>1, WorkersNew DEF Worker
<1>9. CleanUpInv'
  BY <1>2, <1>3, <1>5, ThreadsAre, CleanUpBeside DEF HeldBy
<1> QED BY <1>6, <1>7, <1>8, <1>9 DEF Inv

\* CleanUp is entered from the loop, or by control-c from wherever the main thread stood.
LEMMA CleanUpEntered ==
    ASSUME Inv, LeaveLoop \/ Control_C_Handler
    PROVE  Inv'
<1>1. /\ process = "running" /\ todo' = [todo EXCEPT !["main"] = CleanUp] /\ cleaning' = TRUE
      /\ UNCHANGED <<gone, cancelled, high, isConnected, connection, process>>
  BY DEF LeaveLoop, Control_C_Handler
<1>2. todo'["main"] = CleanUp /\ \A u \in Others : todo'[u] = todo[u]
  BY <1>1, ThreadsAre DEF Inv, Ranges
<1>3. owner' = [m \in Mutexes |-> IF owner[m] = "main" THEN Interrupted ELSE owner[m]]
  <2>1. CASE LeaveLoop
    <3>1. "main" \in Threads \ gone /\ todo["main"] = <<>> /\ owner' = owner
      BY <2>1, ThreadsAre DEF LeaveLoop, Inv, Ranges
    <3>2. Worker("main")
      BY <3>1, CleanUpAt DEF Worker
    <3>3. HeldBy("main") = {}
      BY <3>1, <3>2, IdleHoldsNothing
    <3> QED BY <3>1, <3>3 DEF HeldBy, Inv, Ranges
  <2>2. CASE Control_C_Handler
    BY <2>2 DEF Control_C_Handler
  <2> QED BY <2>1, <2>2
<1>4. HeldBy("main")' = {} /\ \A u \in Others : HeldBy(u)' = HeldBy(u)
  BY <1>3, ThreadsAre DEF HeldBy
<1>5. Ranges'
  BY <1>1, <1>3 DEF Inv, Ranges
<1>6. PulseInv'
  BY <1>2, ThreadsAre DEF Inv, PulseInv
<1>7. WorkersInv'
  <2>1. \A u \in Threads : Worker(u)' => u \in Others /\ Worker(u)
    BY <1>1, ThreadsAre DEF Worker
  <2>2. \A u \in Threads \ gone : Worker(u)' => Leads(Own(u), todo'[u], HeldBy(u)', {})
    BY <1>2, <1>4, <2>1 DEF Inv, WorkersInv
  <2>3. \A u \in gone : u \in cancelled \/ HeldBy(u)' = {}
    BY <1>4 DEF Inv, WorkersInv, Ranges
  <2> QED BY <1>1, <2>2, <2>3 DEF WorkersInv
<1>8. Stage(1)'
  BY <1>1, <1>2, <1>4, CleanUpSuffix DEF Stage
<1>9. CleanUpInv'
  BY <1>1, <1>8 DEF CleanUpInv
<1> QED BY <1>5, <1>6, <1>7, <1>9 DEF Inv

LEMMA NextInv == Inv /\ [Next]_vars => Inv'
<1> SUFFICES ASSUME Inv, [Next]_vars PROVE Inv'
  OBVIOUS
<1>1. CASE Frame
  <2>1. \A job \in Frames : Leads(Own("main"), job, {}, {})
    BY QueuesComplete DEF Complete, Own
  <2> QED BY <1>1, <2>1, ThreadsAre, TakeOnInv DEF Frame
<1>2. CASE Read
  <2>1. \A job \in {ReadMessage} : Leads(Own("network"), job, {}, {})
    BY QueuesComplete DEF Complete, Own
  <2> QED BY <1>2, <2>1, ThreadsAre, TakeOnInv DEF Read
<1>3. CASE Beat
  <2>1. \A job \in {HeartBeat} : Leads(Own("heartbeat"), job, {}, {})
    BY HelpersComplete DEF Complete, Own
  <2> QED BY <1>3, <2>1, ThreadsAre, TakeOnInv DEF Beat
<1>4. CASE LeaveLoop \/ Control_C_Handler
  BY <1>4, CleanUpEntered
<1>5. CASE Disconnect \/ UNCHANGED vars
  <2>1. /\ UNCHANGED <<owner, todo, gone, cancelled, high, isConnected, cleaning, process>>
        /\ connection' \in {"up", "down"}
    BY <1>5 DEF Disconnect, vars, Inv, Ranges
  <2>2. \A u : HeldBy(u)' = HeldBy(u)
    BY <2>1 DEF HeldBy
  <2>3. Ranges' /\ PulseInv'
    BY <2>1 DEF Inv, Ranges, PulseInv
  <2>4. WorkersInv'
    BY <2>1, <2>2 DEF Inv, WorkersInv, Worker
  <2>5. CleanUpInv'
    <3>1. \A i \in 1 .. 13 : Stage(i)' <=> Stage(i)
      BY <2>1, <2>2 DEF Stage
    <3> QED BY <2>1, <3>1 DEF Inv, CleanUpInv
  <2> QED BY <2>3, <2>4, <2>5 DEF Inv
<1>6. ASSUME NEW t \in Threads, Work(t) PROVE Inv'
  BY <1>6, WorkInv
<1> QED BY <1>1, <1>2, <1>3, <1>4, <1>5, <1>6 DEF Next

-----------------------------------------------------------------------------
(* A trapped thread.                                                         *)

\* Before CleanUp nobody is trapped.
LEMMA TrapIs ==
    ASSUME Inv, NEW t \in Threads, Trapped(t)
    PROVE  /\ t \notin gone /\ todo[t] # <<>> /\ Head(todo[t]).op = "lock" /\ process = "running"
           /\ Now(t).mutex \in Mutexes /\ cleaning
           /\ owner[Now(t).mutex] \in gone \cup {Interrupted}
<1>1. /\ t \in Threads \ gone /\ todo[t] # <<>> /\ Head(todo[t]).op = "lock"
      /\ Now(t).op = "lock" /\ process = "running"
      /\ owner[Now(t).mutex] \in gone \cup {Interrupted}
  BY DEF Trapped, At, Now
<1>2. Now(t).mutex \in Mutexes
  <2>1. CASE Worker(t)
    BY <1>1, <2>1, WorkersNow
  <2>2. CASE ~Worker(t)
    <3>1. t = "main" /\ cleaning
      BY <2>2 DEF Worker
    <3>2. PICK i \in 1 .. 13 : Now("main") = CleanUp[i]
      BY <3>1, CleanUpAt
    <3>3. i \in {7, 10}
      BY <1>1, <3>1, <3>2, CleanUpOps
    <3> QED BY <3>1, <3>2, <3>3, CleanUpIs, ThreadsAre DEF Lock
  <2> QED BY <2>1, <2>2
<1>3. cleaning
  <2>1. CASE owner[Now(t).mutex] \in gone
    <3>1. Now(t).mutex \in HeldBy(owner[Now(t).mutex])
      BY <1>2 DEF HeldBy
    <3>2. owner[Now(t).mutex] \in cancelled
      BY <2>1, <3>1 DEF Inv, WorkersInv
    <3> QED BY <3>2 DEF Inv, Ranges
  <2>2. CASE owner[Now(t).mutex] = Interrupted
    BY <1>2, <2>2 DEF Inv, Ranges
  <2> QED BY <1>1, <2>1, <2>2
<1> QED BY <1>1, <1>2, <1>3

LEMMA TrapStays ==
    ASSUME NEW t \in Threads, Trapped(t), owner'[Now(t).mutex] = owner[Now(t).mutex],
           gone \subseteq gone', t \notin gone', todo'[t] = todo[t], process' = process
    PROVE  Trapped(t)'
BY DEF Trapped, At, Now

\* The trapped thread itself takes no step.
LEMMA TrappedWaits ==
    ASSUME Inv, NEW t \in Threads, Trapped(t)
    PROVE  ~Work(t)
<1>1. /\ todo[t] # <<>> /\ Head(todo[t]).op = "lock" /\ t \notin gone
      /\ owner[Now(t).mutex] \in gone \cup {Interrupted} /\ gone \subseteq Others
  BY TrapIs DEF Inv, Ranges
<1>2. ~Acquire(t)
  BY <1>1, ThreadsAre DEF Acquire, Trapped
<1> QED BY <1>1, <1>2 DEF Work, Release, SetPin, ActOnCancel, Succeed, FailToWrite, FailToBeat,
       FailToRead, Abort, Fails, OnSocket, HandleMessage, SignalEngagement, CancelThread,
       JoinThread, ExitProcess, At

\* Nor does the step of another one free the mutex it waits for.
LEMMA TrapHolds ==
    ASSUME Inv, NEW t \in Threads, Trapped(t), NEW u \in Threads \ {t}, Work(u), ~Abort(u)
    PROVE  Trapped(t)'
<1> DEFINE m == Now(t).mutex
<1>1. /\ t \notin gone /\ todo[t] # <<>> /\ m \in Mutexes /\ cleaning
      /\ owner[m] \in gone \cup {Interrupted} /\ process = "running"
      /\ gone \subseteq Others /\ owner[m] # Nobody
  BY TrapIs, ThreadsAre DEF Inv, Ranges
<1> HIDE DEF m
<1>2. CASE Acquire(u)
  <2>1. u \notin gone /\ u # Interrupted /\ owner[m] # u
    BY <1>1, <1>2, ThreadsAre DEF Acquire, At
  <2>2. owner'[m] = owner[m] /\ todo'[t] = todo[t] /\ UNCHANGED <<gone, process>>
    BY <1>1, <1>2, <2>1 DEF Acquire, Done, Inv, Ranges
  <2> QED BY <1>1, <2>2, TrapStays DEF m
<1>3. CASE Release(u)
  <2>1. u \in Threads \ gone /\ todo[u] # <<>> /\ Now(u).op = "unlock"
    BY <1>3 DEF Release, At, Now
  <2>2. owner'[m] = owner[m]
    <3>1. CASE Worker(u)
      <4>1. Now(u).mutex \in HeldBy(u)
        BY <2>1, <3>1, WorkersStep DEF Does
      <4>2. Now(u).mutex # m
        BY <1>1, <2>1, <4>1, ThreadsAre DEF HeldBy
      <4> QED BY <1>1, <1>3, <4>2 DEF Release, Inv, Ranges
    <3>2. CASE ~Worker(u)
      <4>1. u = "main"
        BY <3>2 DEF Worker
      <4>2. PICK i \in 1 .. 13 : Stage(i) /\ Now("main") = CleanUp[i]
        BY <1>1, CleanUpAt
      <4>3. i \in {9, 12} /\ CleanUp[i] = Unlock("GPIO")
        BY <2>1, <4>1, <4>2, CleanUpOps, CleanUpIs
      <4>4. Now(u).mutex = "GPIO" /\ owner["GPIO"] \in {"main", Interrupted}
        BY <4>1, <4>2, <4>3 DEF Unlock, Stage
      <4>5. m = "GPIO" => owner[m] = Interrupted
        BY <1>1, <4>4, ThreadsAre
      <4> QED BY <1>1, <1>3, <4>4, <4>5 DEF Release, Inv, Ranges
    <3> QED BY <3>1, <3>2
  <2>3. todo'[t] = todo[t] /\ UNCHANGED <<gone, process>>
    BY <1>3 DEF Release, Done, Inv, Ranges
  <2> QED BY <1>1, <2>2, <2>3, TrapStays DEF m
<1>4. CASE FailToRead(u)
  <2>1. /\ u \in Threads \ gone /\ todo[u] # <<>> /\ Now(u).op = "io" /\ Now(u).call = "read"
    BY <1>4 DEF FailToRead, Fails, OnSocket, At, Now
  <2>2. Worker(u)
    <3>1. \A i \in 1 .. 13 : CleanUp[i].op # "io"
      BY CleanUpOps
    <3> QED BY <1>1, <2>1, <3>1, CleanUpAt DEF Worker
  <2>3. HeldBy(u) = {"TCP"}
    BY <2>1, <2>2, WorkersStep DEF Does
  <2>4. m # "TCP"
    BY <1>1, <2>1, <2>3, ThreadsAre DEF HeldBy
  <2>5. owner'[m] = owner[m] /\ todo'[t] = todo[t] /\ gone' = gone \cup {u} /\ process' = process
    BY <1>1, <1>4, <2>4 DEF FailToRead, Inv, Ranges
  <2> QED BY <1>1, <2>5, TrapStays DEF m
<1>5. CASE ActOnCancel(u)
  BY <1>1, <1>5, TrapStays DEF ActOnCancel, m
<1>6. CASE \/ SetPin(u) \/ Succeed(u) \/ FailToWrite(u) \/ FailToBeat(u) \/ HandleMessage(u)
           \/ CancelThread(u) \/ JoinThread(u)
  <2>1. todo'[t] = todo[t] /\ UNCHANGED <<owner, gone, process>>
    BY <1>6 DEF SetPin, Succeed, FailToWrite, FailToBeat, HandleMessage, CancelThread, JoinThread,
       Done, Inv, Ranges
  <2> QED BY <1>1, <2>1, TrapStays
<1>7. CASE SignalEngagement(u)
  <2>1. todo'[t] = todo[t] /\ UNCHANGED <<owner, gone, process>>
    BY <1>1, <1>7 DEF SignalEngagement
  <2> QED BY <1>1, <2>1, TrapStays
<1>8. ~ExitProcess(u)
  <2> SUFFICES ASSUME ExitProcess(u) PROVE FALSE
    OBVIOUS
  <2>1. u \in Threads \ gone /\ todo[u] # <<>> /\ Now(u).op = "exit"
    BY DEF ExitProcess, At, Now
  <2>2. u = "main"
    BY <2>1, WorkersNow DEF Worker
  <2>3. PICK i \in 1 .. 13 : Stage(i) /\ Now("main") = CleanUp[i]
    BY <1>1, CleanUpAt
  <2>4. i = 13
    BY <2>1, <2>2, <2>3, CleanUpOps
  <2>5. "network" \in gone /\ "engagement" \in gone /\ "heartbeat" \in gone
    BY <2>3, <2>4 DEF Stage
  <2> QED BY <1>1, <2>2, <2>5, ThreadsAre
<1> QED BY <1>2, <1>3, <1>4, <1>5, <1>6, <1>7, <1>8 DEF Work

LEMMA TrapNext ==
    ASSUME Inv, [Next]_vars, NEW t \in Threads, Trapped(t)
    PROVE  Trapped(t)' \/ process' = "aborted"
<1>1. t \notin gone /\ todo[t] # <<>> /\ cleaning /\ Now(t).mutex \in Mutexes
  BY TrapIs
<1>2. ASSUME NEW u \in Threads, NEW jobs, TakeOn(u, jobs) PROVE Trapped(t)'
  <2>1. todo'[t] = todo[t] /\ UNCHANGED <<owner, gone, process>>
    BY <1>1, <1>2 DEF TakeOn, Inv, Ranges
  <2> QED BY <1>1, <2>1, TrapStays
<1>3. CASE LeaveLoop
  <2>1. todo["main"] # <<>>
    BY <1>1, CleanUpAt
  <2> QED BY <1>3, <2>1 DEF LeaveLoop
<1>4. CASE Disconnect \/ UNCHANGED vars
  <2>1. UNCHANGED <<owner, todo, gone, process>>
    BY <1>4 DEF Disconnect, vars
  <2> QED BY <1>1, <2>1, TrapStays
<1>5. ~Control_C_Handler
  BY <1>1 DEF Control_C_Handler
<1>6. ASSUME NEW u \in Threads, Work(u) PROVE Trapped(t)' \/ process' = "aborted"
  <2>1. u # t
    BY <1>6, TrappedWaits
  <2> QED BY <1>6, <2>1, TrapHolds DEF Abort
<1> QED BY <1>2, <1>3, <1>4, <1>5, <1>6, ThreadsAre DEF Next, Frame, Read, Beat

-----------------------------------------------------------------------------
LEMMA InvTypes == Inv => TypeOK
BY DEF Inv, Ranges, PulseInv, TypeOK

\* Every variable keeps its range, and the engagement thread is somewhere in one pulse.
THEOREM TypeCorrect == Spec => []TypeOK
BY InitInv, NextInv, InvTypes, PTL DEF Spec

\* A thread that ended by itself, after an error of the connection, left no mutex locked;
\* one that is alive has the unlock of each that it holds before it; and the main thread
\* loses what it holds to nobody but control-c.
THEOREM OwnersWork == Spec => []OwnersAreAtWork
<1>1. Inv => OwnersAreAtWork
  <2> SUFFICES ASSUME Inv, NEW m \in Mutexes, owner[m] \notin {Nobody} \cup cancelled,
                      owner[m] # Interrupted
               PROVE  /\ owner[m] \in Threads \ gone
                      /\ \E i \in DOMAIN todo[owner[m]] : todo[owner[m]][i] = Unlock(m)
    BY InvTypes DEF OwnersAreAtWork, Inv, Ranges
  <2> DEFINE t == owner[m]
  <2>1. t \in Threads /\ m \in HeldBy(t)
    BY DEF Inv, Ranges, HeldBy
  <2> HIDE DEF t
  <2>2. t \notin gone
    BY <2>1 DEF t, Inv, WorkersInv
  <2>3. CASE Worker(t)
    <3>1. todo[t] # <<>>
      BY <2>1, <2>2, <2>3, IdleHoldsNothing
    <3>2. Leads(Own(t), todo[t], HeldBy(t), {})
      BY <2>1, <2>2, <2>3 DEF Inv, WorkersInv
    <3>3. \E i \in DOMAIN todo[t] : todo[t][i] = Unlock(m)
      BY <2>1, <3>1, <3>2, LeadsOn
    <3> QED BY <2>1, <2>2, <3>3 DEF t
  <2>4. CASE ~Worker(t)
    <3>1. t = "main" /\ cleaning
      BY <2>4 DEF Worker
    <3>2. PICK i \in 1 .. 13 : Stage(i)
      BY <3>1 DEF Inv, CleanUpInv
    <3>3. i \in {8, 9, 11, 12} /\ m = "GPIO"
      BY <2>1, <3>1, <3>2 DEF Stage
    <3>4. CleanUp[9] = Unlock(m) /\ CleanUp[12] = Unlock(m)
      BY <3>3, CleanUpIs
    <3>5. \E j \in DOMAIN todo[t] : todo[t][j] = Unlock(m)
      <4>1. todo[t] = SubSeq(CleanUp, i, 13)
        BY <3>1, <3>2 DEF Stage
      <4>2. PICK j \in {9, 12} : j \in i .. 13
        BY <3>3
      <4>3. CleanUp[j] = Unlock(m)
        BY <3>4, <4>2
      <4>4. /\ j - i + 1 \in DOMAIN SubSeq(CleanUp, i, 13)
            /\ SubSeq(CleanUp, i, 13)[j - i + 1] = CleanUp[j]
        BY <4>2, RestOfCleanUp
      <4> QED BY <4>1, <4>3, <4>4
    <3> QED BY <2>1, <2>2, <3>5 DEF t
  <2> QED BY <2>3, <2>4
<1> QED BY <1>1, InitInv, NextInv, PTL DEF Spec

\* A thread that waits for a mutex of one that was cancelled, or of the code control-c
\* broke off, waits for ever: no step of any thread frees it and CleanUp, which joins
\* it, does not come to its end, unless an error of the connection ends the process.
THEOREM TrappedForGood ==
    Spec => [][\A t \in Threads : Trapped(t) => Trapped(t)' \/ process' = "aborted"]_vars
<1>1. Inv /\ [Next]_vars =>
        [\A t \in Threads : Trapped(t) => Trapped(t)' \/ process' = "aborted"]_vars
  BY TrapNext
<1> QED BY <1>1, InitInv, NextInv, PTL DEF Spec

\* At the end of CleanUp both outputs are low and the main thread is the only one left,
\* wherever the others stood when they were cancelled.
THEOREM CleanUpSwitchesOff == Spec => []OffAfterCleanUp
<1>1. Inv => OffAfterCleanUp
  <2> SUFFICES ASSUME Inv, process = "cleaned" PROVE high = {} /\ gone = Others
    BY DEF OffAfterCleanUp
  <2>1. Stage(13)
    BY DEF Inv, CleanUpInv
  <2>2. "laser" \notin high /\ "pump" \notin high
    BY <2>1 DEF Stage
  <2>3. "network" \in gone /\ "engagement" \in gone /\ "heartbeat" \in gone
    BY <2>1 DEF Stage
  <2> QED BY <2>2, <2>3, ThreadsAre, PinsAssumption DEF Inv, Ranges
<1> QED BY <1>1, InitInv, NextInv, PTL DEF Spec
=============================================================================
