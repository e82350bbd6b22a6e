--------------------------- MODULE BusMonitorProofs ---------------------------
(* Why the two monitors agree with the bus, for any motors, queues, frames    *)
(* and faults. The dashboard shows a command before the bus has seen it, so   *)
(* what it shows is compared with the bus only while no command of the motor  *)
(* is under way; and what a monitor will show once it has read its socket is  *)
(* the last command in there, or what it shows now.                           *)
EXTENDS BusMonitor, SequenceTheorems, FiniteSetTheorems, TLAPS

Hints == {"none", "on", "off"}

Types ==
    /\ queue \in [Monitors -> Seq(Frame)] /\ pending \in Seq(Frame)
    /\ hint \in [Monitors -> [Motors -> Hints]] /\ last \in [Motors -> Hints]
    /\ lost \in [Monitors -> BOOLEAN] /\ poll \subseteq Motors

Says(f, m) == f.id = m /\ f.kind # "mit"
Meaning(f) == IF f.kind = "enter" THEN "on" ELSE "off"

(* No command of the motor is in the sequence. *)
Free(q, m) == \A k \in 1..Len(q) : ~Says(q[k], m)

(* Read to its end, the queue leaves the hint h at v. *)
Leads(q, m, h, v) ==
    /\ Free(q, m) => h = v
    /\ \A k \in 1..Len(q) :
         (Says(q[k], m) /\ \A j \in (k+1)..Len(q) : ~Says(q[j], m))
            => v = Meaning(q[k])

(* What a monitor that missed nothing will show is on the bus already. *)
Caught ==
    \A w \in Monitors, m \in Motors :
        (~lost[w] /\ Free(pending, m)) => Leads(queue[w], m, hint[w][m], last[m])

IInv == Types /\ Caught

-------------------------------------------------------------------------------
(* Appending a frame leads to what it says. *)
LEMMA LeadsAppend ==
    ASSUME NEW q \in Seq(Frame), NEW f \in Frame, NEW m \in Motors, NEW h, NEW v,
           Says(f, m) \/ Leads(q, m, h, v)
    PROVE  Leads(Append(q, f), m, h, IF Says(f, m) THEN Meaning(f) ELSE v)
<1> DEFINE r == Append(q, f)
<1>1. Len(q) \in Nat /\ Len(r) = Len(q) + 1 /\ r[Len(q) + 1] = f
      /\ \A k \in 1..Len(q) : r[k] = q[k]
  OBVIOUS
<1> HIDE DEF r
<1>2. CASE Says(f, m)
  <2>1. ~Free(r, m)
    BY <1>1, <1>2 DEF Free
  <2>2. ASSUME NEW k \in 1..Len(r), \A j \in (k+1)..Len(r) : ~Says(r[j], m)
        PROVE  k = Len(r)
    BY <1>1, <1>2, <2>2
  <2> QED BY <1>1, <1>2, <2>1, <2>2 DEF Leads, r
<1>3. CASE ~Says(f, m)
  <2>1. Free(r, m) => Free(q, m)
    BY <1>1 DEF Free
  <2>2. ASSUME NEW k \in 1..Len(r), Says(r[k], m),
               \A j \in (k+1)..Len(r) : ~Says(r[j], m)
        PROVE  v = Meaning(r[k])
    <3>1. k \in 1..Len(q) /\ r[k] = q[k]
      BY <1>1, <1>3, <2>2
    <3>2. \A j \in (k+1)..Len(q) : ~Says(q[j], m)
      BY <1>1, <2>2
    <3> QED BY <1>3, <2>2, <3>1, <3>2 DEF Leads
  <2> QED BY <1>3, <2>1, <2>2 DEF Leads, r
<1> QED BY <1>2, <1>3

(* Reading the first frame leaves the rest leading to the same. *)
LEMMA LeadsTail ==
    ASSUME NEW q \in Seq(Frame), q # <<>>, NEW m \in Motors, NEW h, NEW v,
           Leads(q, m, h, v)
    PROVE  Leads(Tail(q), m, IF Says(Head(q), m) THEN Meaning(Head(q)) ELSE h, v)
<1> DEFINE r == Tail(q)
<1>1. Len(q) \in Nat /\ Len(q) > 0 /\ Len(r) = Len(q) - 1 /\ Head(q) = q[1]
      /\ \A k \in 1..Len(r) : r[k] = q[k+1]
  OBVIOUS
<1> HIDE DEF r
<1>2. ASSUME NEW k \in 1..Len(r), Says(r[k], m),
             \A j \in (k+1)..Len(r) : ~Says(r[j], m)
      PROVE  v = Meaning(r[k])
  <2>1. k+1 \in 1..Len(q) /\ q[k+1] = r[k]
    BY <1>1
  <2>2. ASSUME NEW j \in (k+2)..Len(q) PROVE ~Says(q[j], m)
    <3>1. j-1 \in (k+1)..Len(r) /\ q[j] = r[j-1]
      BY <1>1
    <3> QED BY <1>2, <3>1
  <2>3. \A j \in ((k+1)+1)..Len(q) : ~Says(q[j], m)
    BY <2>2
  <2> QED BY <1>2, <2>1, <2>3 DEF Leads
<1>3. ASSUME Free(r, m)
      PROVE  (IF Says(q[1], m) THEN Meaning(q[1]) ELSE h) = v
  <2>1. ASSUME NEW j \in 2..Len(q) PROVE ~Says(q[j], m)
    <3>1. j-1 \in 1..Len(r) /\ q[j] = r[j-1]
      BY <1>1
    <3> QED BY <1>3, <3>1 DEF Free
  <2>2. CASE Says(q[1], m)
    <3>1. 1 \in 1..Len(q) /\ \A j \in (1+1)..Len(q) : ~Says(q[j], m)
      BY <1>1, <2>1
    <3> QED BY <2>2, <3>1 DEF Leads
  <2>3. CASE ~Says(q[1], m)
    <3>1. Free(q, m)
      BY <1>1, <2>1, <2>3 DEF Free
    <3> QED BY <2>3, <3>1 DEF Leads
  <2> QED BY <2>2, <2>3
<1> QED BY <1>1, <1>2, <1>3 DEF Leads, r

(* A hint after a frame. *)
LEMMA HintMeans ==
    ASSUME NEW f \in Frame, NEW old \in Hints
    PROVE  /\ HintAfter(f.kind, old) = IF f.kind = "mit" THEN old ELSE Meaning(f)
           /\ HintAfter(f.kind, old) \in Hints
BY DEF Frame, Kinds, HintAfter, Meaning, Hints

(* A frame of the bus: whoever missed nothing before and hears this one is    *)
(* led to what the bus says now.                                              *)
LEMMA BusStep ==
    ASSUME Types, NEW f \in Frame, OnBus(f),
           \A w \in Monitors, m \in Motors :
               (~lost[w] /\ Free(pending', m)) =>
                   Says(f, m) \/ Leads(queue[w], m, hint[w][m], last[m]),
           UNCHANGED <<hint, poll>>, pending' \in Seq(Frame)
    PROVE  (Types /\ Caught)'
<1>1. f.id \in Motors /\ Meaning(f) \in Hints
  BY DEF Frame, Meaning, Hints
<1>2. last' = [last EXCEPT ![f.id] = IF f.kind = "mit" THEN @ ELSE Meaning(f)]
  BY DEF OnBus, Meaning
<1>3. last' \in [Motors -> Hints]
  BY <1>1, <1>2 DEF Types
<1>4. ASSUME NEW w \in Monitors
      PROVE  /\ lost'[w] \in BOOLEAN /\ (~lost'[w] => ~lost[w])
             /\ queue'[w] \in Seq(Frame)
             /\ ~lost'[w] => queue'[w] = Append(queue[w], f)
  <2>1. queue[w] \in Seq(Frame) /\ lost[w] \in BOOLEAN
    BY DEF Types
  <2>2. Append(queue[w], f) \in Seq(Frame)
    BY <2>1
  <2> DEFINE hears == (w = "tool" \/ sock = "connected") /\ Len(queue[w]) < MaxQueue
  <2>3. queue'[w] = (IF hears THEN Append(queue[w], f) ELSE queue[w])
        /\ lost'[w] = (lost[w] \/ ~hears)
    BY DEF OnBus
  <2> HIDE DEF hears
  <2>4. hears \in BOOLEAN
    BY DEF hears
  <2>5. ~lost'[w] => hears /\ ~lost[w]
    BY <2>3
  <2>6. lost'[w] \in BOOLEAN
    BY <2>1, <2>3, <2>4
  <2> QED BY <2>1, <2>2, <2>3, <2>5, <2>6
<1>5. Types'
  <2>1. queue' \in [Monitors -> Seq(Frame)] /\ lost' \in [Monitors -> BOOLEAN]
    BY <1>4 DEF OnBus
  <2> QED BY <1>3, <2>1 DEF Types
<1>6. ASSUME NEW w \in Monitors, NEW m \in Motors, ~lost'[w], Free(pending', m)
      PROVE  Leads(queue'[w], m, hint'[w][m], last'[m])
  <2>1. last'[m] = IF Says(f, m) THEN Meaning(f) ELSE last[m]
    BY <1>1, <1>2 DEF Types, Says
  <2>2. queue[w] \in Seq(Frame) /\ hint'[w][m] = hint[w][m]
    BY DEF Types
  <2>3. Says(f, m) \/ Leads(queue[w], m, hint[w][m], last[m])
    BY <1>4, <1>6
  <2> QED BY <1>4, <1>6, <2>1, <2>2, <2>3, LeadsAppend
<1> QED BY <1>5, <1>6 DEF Caught

(* A monitor reads a frame of its socket. *)
LEMMA HeardStep ==
    ASSUME Types, Caught, NEW w \in Monitors, Heard(w),
           UNCHANGED <<pending, last, lost, poll>>
    PROVE  (Types /\ Caught)'
<1> DEFINE f == Head(queue[w])
<1>1. queue[w] \in Seq(Frame) /\ queue[w] # <<>>
  BY DEF Types, Heard
<1>2. f \in Frame /\ Tail(queue[w]) \in Seq(Frame)
  BY <1>1
<1>3. f.id \in Motors /\ hint[w][f.id] \in Hints
  BY <1>2 DEF Frame, Types
<1>4. queue' = [queue EXCEPT ![w] = Tail(queue[w])]
      /\ hint' = [hint EXCEPT ![w][f.id] = HintAfter(f.kind, hint[w][f.id])]
  BY DEF Heard, Types
<1> HIDE DEF f
<1>5. HintAfter(f.kind, hint[w][f.id]) \in Hints
  BY <1>2, <1>3, HintMeans
<1>6. Types'
  BY <1>2, <1>3, <1>4, <1>5 DEF Types
<1>7. ASSUME NEW v \in Monitors, NEW m \in Motors, ~lost'[v], Free(pending', m)
      PROVE  Leads(queue'[v], m, hint'[v][m], last'[m])
  <2>1. Leads(queue[v], m, hint[v][m], last[m])
    BY <1>7 DEF Caught
  <2>2. CASE v # w
    BY <1>4, <2>1, <2>2 DEF Types
  <2>3. CASE v = w
    <3>1. hint'[w][m] = IF Says(f, m) THEN Meaning(f) ELSE hint[w][m]
      BY <1>2, <1>3, <1>4, HintMeans DEF Types, Says
    <3>2. queue'[w] = Tail(queue[w])
      BY <1>4 DEF Types
    <3> QED BY <1>1, <2>1, <2>3, <3>1, <3>2, LeadsTail DEF f
  <2> QED BY <2>2, <2>3
<1> QED BY <1>6, <1>7 DEF Caught

(* Frames the daemon accepts only take motors out of what is compared. *)
LEMMA PendingStep ==
    ASSUME Types, Caught, NEW s \in Seq(Frame), pending' = pending \o s,
           UNCHANGED <<queue, last, lost>>, poll' \subseteq Motors,
           hint' \in [Monitors -> [Motors -> Hints]],
           \A m \in Motors : Free(s, m) =>
               \A w \in Monitors : hint'[w][m] = hint[w][m]
    PROVE  (Types /\ Caught)'
<1>1. pending \in Seq(Frame) /\ pending' \in Seq(Frame)
  BY DEF Types
<1>2. Len(pending') = Len(pending) + Len(s) /\ Len(pending) \in Nat /\ Len(s) \in Nat
      /\ (\A k \in 1..Len(pending) : pending'[k] = pending[k])
      /\ (\A k \in 1..Len(s) : pending'[Len(pending) + k] = s[k])
  BY <1>1
<1>3. ASSUME NEW m \in Motors, Free(pending', m)
      PROVE  Free(pending, m) /\ Free(s, m)
  <2>1. Free(pending, m)
    BY <1>2, <1>3 DEF Free
  <2>2. ASSUME NEW k \in 1..Len(s) PROVE ~Says(s[k], m)
    <3>1. Len(pending) + k \in 1..Len(pending')
      BY <1>2
    <3> QED BY <1>2, <1>3, <3>1 DEF Free
  <2> QED BY <2>1, <2>2 DEF Free
<1>4. Types'
  BY <1>1 DEF Types
<1>5. Caught'
  BY <1>3 DEF Caught
<1> QED BY <1>4, <1>5

(* Every step keeps the invariant. *)
LEMMA Step == IInv /\ [Next]_vars => IInv'
<1> SUFFICES ASSUME Types, Caught, [Next]_vars PROVE (Types /\ Caught)'
  BY DEF IInv
<1>0. pending \in Seq(Frame) /\ queue \in [Monitors -> Seq(Frame)]
  BY DEF Types
<1>1. ASSUME UNCHANGED <<queue, pending, hint, last, lost>>, poll' \subseteq Motors
      PROVE  (Types /\ Caught)'
  BY <1>1 DEF Types, Caught
<1>2. ASSUME NEW f \in Frame, DeviceSend(f) PROVE (Types /\ Caught)'
  <2>1. OnBus(f) /\ UNCHANGED <<pending, hint, poll>>
    BY <1>2 DEF DeviceSend, server, seen, command
  <2> QED BY <1>0, <2>1, BusStep DEF Caught
<1>3. ASSUME NEW f \in Frame, ControllerSend(f) PROVE (Types /\ Caught)'
  <2>1. pending' = pending \o <<f>> /\ <<f>> \in Seq(Frame)
    BY <1>0, <1>3 DEF ControllerSend
  <2>2. UNCHANGED <<queue, last, lost, hint, poll>>
    BY <1>3 DEF ControllerSend, rxState, seen, command
  <2> QED BY <2>1, <2>2, PendingStep DEF Types
<1>4. CASE Transmit
  <2>1. pending # <<>> /\ pending' = Tail(pending) /\ UNCHANGED <<hint, poll>>
    BY <1>4 DEF Transmit, seen, command
  <2>2. Head(pending) \in Frame /\ Tail(pending) \in Seq(Frame)
    BY <1>0, <2>1
  <2>3. CASE link
    <3>1. OnBus(Head(pending))
      BY <1>4, <2>3 DEF Transmit
    <3>2. ASSUME NEW m \in Motors, Free(Tail(pending), m), ~Says(Head(pending), m)
          PROVE  Free(pending, m)
      <4>1. ASSUME NEW k \in 1..Len(pending) PROVE ~Says(pending[k], m)
        <5>1. CASE k = 1
          BY <1>0, <2>1, <3>2, <5>1
        <5>2. CASE k # 1
          <6>1. k-1 \in 1..Len(Tail(pending)) /\ Tail(pending)[k-1] = pending[k]
            BY <1>0, <2>1, <5>2
          <6> QED BY <3>2, <6>1 DEF Free
        <5> QED BY <5>1, <5>2
      <4> QED BY <4>1 DEF Free
    <3> QED BY <2>1, <2>2, <3>1, <3>2, BusStep DEF Caught
  <2>4. CASE ~link
    <3>1. lost' = [w \in Monitors |-> TRUE] /\ UNCHANGED <<queue, last>>
      BY <1>4, <2>4 DEF Transmit
    <3> QED BY <2>1, <2>2, <3>1 DEF Types, Caught
  <2> QED BY <2>3, <2>4
<1>5. CASE DaemonTurns
  <2>1. pending' = <<>> /\ UNCHANGED <<queue, last, hint, poll>>
        /\ lost' = IF pending = <<>> THEN lost ELSE [w \in Monitors |-> TRUE]
    BY <1>5 DEF DaemonTurns, bus, seen
  <2>2. CASE pending = <<>>
    BY <1>1, <2>1, <2>2 DEF Types
  <2>3. CASE pending # <<>>
    BY <2>1, <2>3 DEF Types, Caught
  <2> QED BY <2>2, <2>3
<1>6. CASE MarkRx
  <2>1. "dash" \in Monitors /\ Heard("dash") /\ UNCHANGED <<pending, last, lost, poll>>
    BY <1>6 DEF MarkRx, Monitors, bus, server, command
  <2> QED BY <2>1, HeardStep
<1>7. CASE HandleRxFrame
  <2>1. "tool" \in Monitors /\ Heard("tool") /\ UNCHANGED <<pending, last, lost, poll>>
    BY <1>7 DEF HandleRxFrame, Monitors, bus, server, command
  <2> QED BY <2>1, HeardStep
<1>8. ASSUME NEW m \in Motors, NEW kind \in {"enter", "exit"}, SendRaw(m, kind)
      PROVE  (Types /\ Caught)'
  <2>1. UNCHANGED <<queue, last, lost, poll>>
    BY <1>8 DEF SendRaw, rxState
  <2>2. CASE ~Reaches
    BY <1>1, <1>8, <2>1, <2>2 DEF SendRaw, Types
  <2>3. CASE Reaches
    <3> DEFINE f == [id |-> m, kind |-> kind]
               h == HintAfter(kind, hint["dash"][m])
    <3>1. f \in Frame /\ f.id = m /\ f.kind = kind
      BY DEF Frame, Kinds
    <3>2. h \in Hints
      <4>1. hint["dash"][m] \in Hints
        BY DEF Types, Monitors
      <4> QED BY <3>1, <4>1, HintMeans
    <3>3. pending' = Append(pending, f) /\ hint' = [hint EXCEPT !["dash"][m] = h]
      BY <1>8, <2>3 DEF SendRaw, Types, Monitors
    <3> HIDE DEF f, h
    <3>4. pending' = pending \o <<f>> /\ <<f>> \in Seq(Frame) /\ Len(<<f>>) = 1
          /\ <<f>>[1] = f
      BY <1>0, <3>1, <3>3
    <3>5. ~Free(<<f>>, m)
      BY <3>1, <3>4 DEF Free, Says
    <3>6. hint' \in [Monitors -> [Motors -> Hints]]
      BY <3>2, <3>3 DEF Types
    <3>7. ASSUME NEW n \in Motors, Free(<<f>>, n), NEW w \in Monitors
          PROVE  hint'[w][n] = hint[w][n]
      <4>1. n # m
        BY <3>5, <3>7
      <4> QED BY <3>3, <4>1 DEF Types
    <3>8. poll' \subseteq Motors
      BY <2>1 DEF Types
    <3> QED BY <2>1, <3>4, <3>6, <3>7, <3>8, PendingStep
  <2> QED BY <2>2, <2>3
<1>9. CASE PollRound
  <2>1. UNCHANGED <<queue, last, lost, hint, poll>>
    BY <1>9 DEF PollRound, rxState, bus, seen
  <2>2. CASE UNCHANGED pending
    BY <1>1, <2>1, <2>2 DEF Types
  <2>3. CASE pending' # pending
    <3>1. Cardinality(poll) \in Nat
      <4>1. IsFiniteSet(poll)
        BY MonitorAssumption, FS_Subset DEF Types
      <4> QED BY <4>1, FS_CardinalityType
    <3>2. PICK ids \in [1..Cardinality(poll) -> poll] :
            pending' = pending \o [k \in DOMAIN ids |-> [id |-> ids[k], kind |-> "mit"]]
      BY <1>9, <2>3 DEF PollRound
    <3> DEFINE s == [k \in DOMAIN ids |-> [id |-> ids[k], kind |-> "mit"]]
    <3>3. s \in [1..Cardinality(poll) -> Frame]
      BY DEF Types, Frame, Kinds
    <3>4. s \in Seq(Frame)
      BY <3>1, <3>3, SeqDef
    <3> HIDE DEF s
    <3>5. pending' = pending \o s
      BY <3>2 DEF s
    <3> QED BY <2>1, <3>4, <3>5, PendingStep DEF Types
  <2> QED BY <2>2, <2>3
<1>10. ASSUME NEW m \in Motors, FallSilent(m) \/ PollStart(m) \/ PollStop(m)
       PROVE  (Types /\ Caught)'
  <2>1. UNCHANGED <<queue, pending, hint, last, lost>>
    BY <1>10 DEF FallSilent, PollStart, PollStop, bus, server, rxState, seen
  <2>2. poll' \subseteq Motors
    BY <1>10 DEF FallSilent, PollStart, PollStop, command, Types
  <2> QED BY <1>1, <2>1, <2>2
<1>11. CASE LinkTurns \/ OpenSocket \/ SocketFails \/ Lock \/ Unlock \/ Tick
            \/ UNCHANGED vars
  <2>1. UNCHANGED <<queue, pending, hint, last, lost, poll>>
    BY <1>11 DEF LinkTurns, OpenSocket, SocketFails, Lock, Unlock, Tick, vars, bus,
                 server, rxState, seen, command
  <2> QED BY <1>1, <2>1 DEF Types
<1> QED BY <1>2, <1>3, <1>4, <1>5, <1>6, <1>7, <1>8, <1>9, <1>10, <1>11 DEF Next

(* A monitor that missed nothing shows a motor by the last command of the     *)
(* bus once no command of it is under way (mark_rx and _update_motor_tx_hint  *)
(* of the dashboard, update_spg_state of the tool), for any motors and any    *)
(* number of frames.                                                          *)
THEOREM HintsAgree == Spec => []HintIsLastOnBus
<1>1. Init => IInv
  <2> SUFFICES ASSUME Init PROVE IInv
    OBVIOUS
  <2>1. Types
    BY DEF Init, Types, Hints
  <2>2. Caught
    BY DEF Init, Caught, Leads, Free, Monitors
  <2> QED BY <2>1, <2>2 DEF IInv
<1>2. IInv => HintIsLastOnBus
  <2> SUFFICES ASSUME Types, Caught, NEW w \in Monitors, NEW m \in Motors, Settled(w, m)
               PROVE  hint[w][m] = last[m]
    BY DEF IInv, HintIsLastOnBus
  <2>1. pending \in Seq(Frame)
    BY DEF Types
  <2>2. Free(pending, m)
    BY <2>1 DEF Settled, Free, Says
  <2>3. Leads(<<>>, m, hint[w][m], last[m])
    BY <2>2 DEF Caught, Settled
  <2> QED BY <2>3 DEF Leads, Free
<1> QED BY <1>1, <1>2, Step, PTL DEF Spec
===============================================================================
