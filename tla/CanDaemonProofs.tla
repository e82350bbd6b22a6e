---------------------------- MODULE CanDaemonProofs ----------------------------
(***************************************************************************)
(* Theorems about CanDaemon, for any clients, queue size, blocking or       *)
(* refusing sends, number of frames and faults.                             *)
(***************************************************************************)
EXTENDS CanDaemon, TLAPS

-------------------------------------------------------------------------------
(* The inductive invariant *)

(* A handler that has no request in hand. *)
Resting == {"none", "loop", "read"}

(* Where the lines of a connection can be: a request is unread, in the      *)
(* handler's hands, or answered, never two of these.                        *)
Stages ==
    \A c \in Clients :
        /\ cl[c] \in {"off", "broken"} =>
             ~inbox[c] /\ rep[c] = "none" /\ hd[c] = "none"
        /\ cl[c] = "idle" =>
             ~inbox[c] /\ rep[c] = "none" /\ hd[c] \in Resting
        /\ cl[c] = "hello" =>
             /\ ~inbox[c]
             /\ \/ rep[c] = "none" /\ hd[c] \in {"none", "backlog", "hello"}
                \/ rep[c] = "hello_ack" /\ hd[c] \in Resting
        /\ cl[c] = "wait" =>
             /\ sent[c] \in 1..MaxFrames
             /\ rep[c] # "hello_ack" /\ hd[c] \notin {"backlog", "hello"}
             /\ hd[c] \in {"put", "blocked", "yes", "no"} =>
                  ~inbox[c] /\ rep[c] = "none"
             /\ rep[c] \in {"ok", "fail"} => ~inbox[c] /\ hd[c] \in Resting

(* What the TX thread holds. *)
Hand ==
    /\ tx \in {"check", "get"} => cur = NoFrame
    /\ tx = "send" => cur \in Frames

(* The frames that went into the queue, wherever they are now. *)
Placed == Elements(bus) \cup failed \cup Held

(* A request not yet put, or refused, is nowhere; an acknowledgement under  *)
(* way, or received, is of a placed frame.                                  *)
Unput(c) ==
    /\ cl[c] = "wait"
    /\ inbox[c] \/ hd[c] \in {"put", "blocked", "no"} \/ rep[c] = "fail"

Placement ==
    /\ \A c \in Clients, n \in 1..MaxFrames :
         <<c, n>> \in Placed \cup refused => n <= sent[c]
    /\ \A c \in Clients :
         /\ Unput(c) => Last(c) \notin Placed
         /\ hd[c] = "yes" \/ rep[c] = "ok" => Last(c) \in Placed
         /\ cl[c] = "wait" => Last(c) \notin refused
    /\ acked \subseteq Placed
    /\ refused \cap Placed = {}

(* NoOvertaking along the whole line: bus, hand, queue. *)
Order ==
    /\ NoOvertaking
    /\ cur # NoFrame => before[cur] \subseteq failed \cup Elements(bus)
    /\ \A i \in DOMAIN queue : \A f \in before[queue[i]] :
         \/ f \in failed \cup Elements(bus) \cup {cur}
         \/ \E j \in 1..(i - 1) : queue[j] = f
    /\ \A f \in Frames : before[f] \subseteq acked

(* SentOnce along the whole line. *)
Once ==
    /\ SentOnce
    /\ \A i, j \in DOMAIN queue : queue[i] = queue[j] => i = j
    /\ Elements(bus) \cap Elements(queue) = {}
    /\ cur \notin Elements(bus) \cup Elements(queue)

IInv == TypeOK /\ Stages /\ Hand /\ Placement /\ Order /\ Once

-------------------------------------------------------------------------------
(* Sequences *)

(* Elements of a sequence after a put. *)
LEMMA ElementsAppend ==
    ASSUME NEW S, NEW s \in Seq(S), NEW e \in S
    PROVE  /\ Append(s, e) \in Seq(S)
           /\ Elements(Append(s, e)) = Elements(s) \cup {e}
           /\ DOMAIN Append(s, e) = DOMAIN s \cup {Len(s) + 1}
           /\ \A i \in DOMAIN s : Append(s, e)[i] = s[i] /\ i \in 1..Len(s)
           /\ Append(s, e)[Len(s) + 1] = e
  BY DEF Elements

(* A get takes the first element and moves the others up by one. *)
LEMMA ElementsTail ==
    ASSUME NEW S, NEW s \in Seq(S), s # <<>>
    PROVE  /\ Head(s) \in S /\ Tail(s) \in Seq(S)
           /\ Head(s) = s[1] /\ 1 \in DOMAIN s
           /\ \A i \in DOMAIN Tail(s) :
                i \in Nat \ {0} /\ i + 1 \in DOMAIN s /\ Tail(s)[i] = s[i + 1]
           /\ Elements(s) = {Head(s)} \cup Elements(Tail(s))
<1>1. /\ Head(s) \in S /\ Tail(s) \in Seq(S)
      /\ Head(s) = s[1] /\ 1 \in DOMAIN s
      /\ \A i \in DOMAIN Tail(s) :
           i \in Nat \ {0} /\ i + 1 \in DOMAIN s /\ Tail(s)[i] = s[i + 1]
  OBVIOUS
<1>2. Elements(s) \subseteq {Head(s)} \cup Elements(Tail(s))
  <2> SUFFICES ASSUME NEW i \in DOMAIN s
               PROVE  s[i] \in {Head(s)} \cup Elements(Tail(s))
    BY DEF Elements
  <2>1. CASE i = 1
    BY <2>1
  <2>2. CASE i # 1
    <3>1. i - 1 \in DOMAIN Tail(s) /\ Tail(s)[i - 1] = s[i]
      BY <2>2
    <3> QED BY <3>1 DEF Elements
  <2> QED BY <2>1, <2>2
<1>3. {Head(s)} \cup Elements(Tail(s)) \subseteq Elements(s)
  BY <1>1 DEF Elements
<1> QED BY <1>1, <1>2, <1>3

-------------------------------------------------------------------------------
(* Type correctness *)

(* The initial state satisfies the whole invariant. *)
LEMMA InitIInv == Init => IInv
<1> SUFFICES ASSUME Init PROVE IInv
  OBVIOUS
<1>1. TypeOK
  <2>1. sent \in [Clients -> 0..MaxFrames]
    BY FramesAssumption DEF Init
  <2>2. queue \in Seq(Frames) /\ bus \in Seq(Frames)
    BY DEF Init
  <2> QED BY <2>1, <2>2 DEF Init, TypeOK
<1>2. Elements(bus) = {} /\ Elements(queue) = {}
  BY DEF Init, Elements
<1>3. Stages /\ Hand
  BY DEF Init, Stages, Hand
<1>4. Placement
  BY <1>2, FramesAssumption DEF Init, Placement, Placed, Held, Unput
<1>5. Order /\ Once
  BY <1>2 DEF Init, Order, NoOvertaking, Once, SentOnce
<1> QED BY <1>1, <1>3, <1>4, <1>5 DEF IInv

(* Every step keeps the types. *)
LEMMA TypeStep == TypeOK /\ Stages /\ Hand /\ [Next]_vars => TypeOK'
<1> SUFFICES ASSUME TypeOK, Stages, Hand, [Next]_vars PROVE TypeOK'
  OBVIOUS
<1>1. CASE UNCHANGED vars \/ Quiet
  BY <1>1 DEF TypeOK, vars, clientVars, txVars, stopVars, history, Quiet
<1>2. ASSUME NEW c \in Clients, Connect(c) \/ Client(c) PROVE TypeOK'
  <2>1. CASE Connect(c) \/ Connected(c) \/ ConnectionLost(c)
    <3>1. CASE Connect(c)
      BY <3>1 DEF Connect, TypeOK, txVars, stopVars, history
    <3>2. CASE Connected(c)
      BY <3>2 DEF Connected, TypeOK, txVars, stopVars, history
    <3>3. CASE ConnectionLost(c)
      BY <3>3 DEF ConnectionLost, TypeOK, txVars, stopVars, history
    <3> QED BY <2>1, <3>1, <3>2, <3>3
  <2>2. CASE Reply(c)
    <3>1. Last(c) \in Frames
      BY <2>2 DEF Reply, Stages, Last, Frames
    <3>2. /\ acked' \subseteq Frames /\ refused' \subseteq Frames
          /\ UNCHANGED <<sent, inbox, before, txVars, stopVars>>
      BY <2>2, <3>1 DEF Reply, TypeOK
    <3>3. /\ cl' \in [Clients -> {"off", "hello", "idle", "wait", "broken"}]
          /\ rep' \in [Clients -> {"none", "hello_ack", "ok", "fail"}]
      BY <2>2 DEF Reply, TypeOK
    <3>4. hd' \in [Clients -> {"none", "backlog", "hello", "loop", "read",
                               "put", "blocked", "yes", "no"}]
      BY <2>2 DEF Reply, TypeOK
    <3> QED BY <3>2, <3>3, <3>4 DEF TypeOK, txVars, stopVars
  <2> QED BY <1>2, <2>1, <2>2 DEF Client
<1>3. ASSUME NEW c \in Clients, Send(c) PROVE TypeOK'
  <2>1. /\ sent' \in [Clients -> 0..MaxFrames]
        /\ <<c, sent[c] + 1>> \in Frames
    BY <1>3, FramesAssumption DEF Send, TypeOK, Frames
  <2> QED BY <1>3, <2>1 DEF Send, TypeOK, txVars, stopVars
<1>4. ASSUME NEW c \in Clients, Handler(c) PROVE TypeOK'
  <2>1. CASE HandlerPut(c)
    <3>1. Last(c) \in Frames
      BY <2>1 DEF HandlerPut, Stages, TypeOK, Last, Frames, Resting
    <3>2. queue' \in Seq(Frames)
      BY <2>1, <3>1, ElementsAppend DEF HandlerPut, TypeOK
    <3> QED BY <2>1, <3>2 DEF HandlerPut, TypeOK, stopVars, history
  <2>2. CASE HandleHello(c) \/ HandlerTest(c) \/ HandlerRead(c)
             \/ HandlerBlocks(c) \/ HandlerRefuse(c) \/ HandlerReply(c)
    <3>1. hd' \in [Clients -> {"none", "backlog", "hello", "loop", "read",
                               "put", "blocked", "yes", "no"}]
      <4>1. \E x \in {"none", "loop", "read", "put", "blocked", "no"} :
              hd' = [hd EXCEPT ![c] = x]
        BY <2>2 DEF HandleHello, HandlerTest, HandlerRead, HandlerBlocks,
                    HandlerRefuse, HandlerReply
      <4> QED BY <4>1 DEF TypeOK
    <3>2. /\ rep' \in [Clients -> {"none", "hello_ack", "ok", "fail"}]
          /\ inbox' \in [Clients -> BOOLEAN]
          /\ UNCHANGED <<cl, sent, txVars, stopVars, history>>
      BY <2>2 DEF HandleHello, HandlerTest, HandlerRead, HandlerBlocks,
                  HandlerRefuse, HandlerReply, TypeOK
    <3> QED BY <3>1, <3>2 DEF TypeOK, txVars, stopVars, history
  <2> QED BY <1>4, <2>1, <2>2 DEF Handler
<1>5. CASE TxTest
  BY <1>5 DEF TxTest, TypeOK, clientVars, stopVars, history
<1>6. CASE TxGet
  <2>1. queue' \in Seq(Frames) /\ cur' \in Frames \cup {NoFrame}
    <3>1. CASE queue = <<>>
      BY <1>6, <3>1 DEF TxGet, TypeOK
    <3>2. CASE queue # <<>>
      <4>1. cur' = Head(queue) /\ queue' = Tail(queue) /\ queue \in Seq(Frames)
        BY <1>6, <3>2 DEF TxGet, TypeOK
      <4> QED BY <4>1, <3>2, ElementsTail
    <3> QED BY <3>1, <3>2
  <2>2. tx' \in {"check", "get", "send", "ended"}
    BY <1>6 DEF TxGet
  <2> QED BY <1>6, <2>1, <2>2 DEF TxGet, TypeOK, clientVars, stopVars, history
<1>7. CASE TxSend \/ TxFail
  <2>1. cur \in Frames
    BY <1>7 DEF TxSend, TxFail, Hand
  <2>2. bus' \in Seq(Frames)
    <3>1. bus' = bus \/ bus' = Append(bus, cur)
      BY <1>7 DEF TxSend, TxFail
    <3>2. bus \in Seq(Frames)
      BY DEF TypeOK
    <3> QED BY <2>1, <3>1, <3>2, ElementsAppend
  <2> QED BY <1>7, <2>1, <2>2
          DEF TxSend, TxFail, TypeOK, clientVars, stopVars, history
<1>8. CASE Signal \/ Main \/ AcceptFails \/ Kill
  <2>1. CASE Signal \/ MainTest \/ AcceptTimeout \/ AcceptFails \/ StopCan \/ JoinTx
             \/ Release
    BY <2>1 DEF Signal, MainTest, AcceptTimeout, AcceptFails, StopCan, JoinTx,
                Release, TypeOK, clientVars, txVars, history
  <2>2. CASE CloseServer \/ Exit \/ Kill
    BY <2>2 DEF CloseServer, Exit, Kill, TypeOK, clientVars, txVars, history
  <2>3. ASSUME NEW c \in Clients, Accept(c) PROVE TypeOK'
    BY <2>3 DEF Accept, TypeOK, txVars, history
  <2> QED BY <1>8, <2>1, <2>2, <2>3 DEF Main
<1> QED
  BY <1>1, <1>2, <1>3, <1>4, <1>5, <1>6, <1>7, <1>8 DEF Next, TxLoop

-------------------------------------------------------------------------------
(* The parts of the invariant *)

(* Every step keeps a connection's lines in order. *)
LEMMA StagesStep == TypeOK /\ Stages /\ [Next]_vars => Stages'
<1> SUFFICES ASSUME TypeOK, Stages, [Next]_vars PROVE Stages'
  OBVIOUS
<1> USE DEF Resting
<1>1. CASE UNCHANGED vars \/ Quiet \/ TxLoop \/ Signal
  BY <1>1 DEF Stages, vars, clientVars, Quiet, TxLoop, TxTest, TxGet, TxSend,
              TxFail, Signal
<1>2. ASSUME NEW c \in Clients, Connect(c) \/ Client(c) PROVE Stages'
  BY <1>2 DEF Connect, Client, Connected, Reply, ConnectionLost, Stages, TypeOK
<1>3. ASSUME NEW c \in Clients, Send(c) PROVE Stages'
  BY <1>3, FramesAssumption DEF Send, Stages, TypeOK
<1>4. ASSUME NEW c \in Clients, Handler(c) PROVE Stages'
  BY <1>4 DEF Handler, HandleHello, HandlerTest, HandlerRead, HandlerPut,
              HandlerBlocks, HandlerRefuse, HandlerReply, Stages, TypeOK
<1>5. CASE Main \/ AcceptFails \/ Kill
  BY <1>5 DEF Main, MainTest, Accept, AcceptTimeout, AcceptFails, CloseServer,
              StopCan, JoinTx, Release, Exit, Kill, Stages, TypeOK, clientVars
<1> QED BY <1>1, <1>2, <1>3, <1>4, <1>5 DEF Next

(* Every step keeps the TX thread's hand. *)
LEMMA HandStep == TypeOK /\ Hand /\ [Next]_vars => Hand'
<1> SUFFICES ASSUME TypeOK, Hand, [Next]_vars PROVE Hand'
  OBVIOUS
<1>1. CASE TxGet
  BY <1>1, ElementsTail DEF TxGet, Hand, TypeOK
<1>2. CASE TxTest \/ TxSend \/ TxFail \/ Kill
  BY <1>2 DEF TxTest, TxSend, TxFail, Kill, Hand
<1>3. CASE UNCHANGED <<tx, cur>>
  BY <1>3 DEF Hand
<1>4. UNCHANGED <<tx, cur>> \/ TxGet \/ TxTest \/ TxSend \/ TxFail \/ Kill
  BY DEF Next, vars, txVars, Quiet, TxLoop, Main, Client, Handler, Connect,
         Connected, Send, Reply, ConnectionLost, HandleHello, HandlerTest,
         HandlerRead, HandlerPut, HandlerBlocks, HandlerRefuse, HandlerReply,
         Signal, MainTest, Accept, AcceptTimeout, AcceptFails, CloseServer, StopCan, JoinTx,
         Release, Exit
<1> QED BY <1>1, <1>2, <1>3, <1>4

(* A step that moves no frame creates no request and no acknowledgement. *)
Idle ==
    /\ UNCHANGED <<queue, cur, bus, failed, sent, history>>
    /\ \A c \in Clients :
         /\ Unput(c)' => Unput(c)
         /\ (hd[c] = "yes" \/ rep[c] = "ok")' => hd[c] = "yes" \/ rep[c] = "ok"
         /\ (cl[c] = "wait")' => cl[c] = "wait"

(* The steps that move a frame are six. *)
LEMMA StepKinds ==
    TypeOK /\ Stages /\ [Next]_vars =>
        \/ Idle
        \/ \E c \in Clients : Send(c) \/ Reply(c) \/ HandlerPut(c)
        \/ TxGet \/ TxSend \/ TxFail
<1> SUFFICES ASSUME TypeOK, Stages, [Next]_vars,
                    ~(\E c \in Clients : Send(c) \/ Reply(c) \/ HandlerPut(c)),
                    ~(TxGet \/ TxSend \/ TxFail)
             PROVE  Idle
  OBVIOUS
<1>1. CASE UNCHANGED vars \/ Quiet \/ TxTest \/ Signal
  BY <1>1 DEF Idle, Unput, vars, clientVars, txVars, Quiet, TxTest, Signal
<1>2. ASSUME NEW c \in Clients, Connect(c) \/ Connected(c) \/ ConnectionLost(c)
      PROVE  Idle
  BY <1>2 DEF Connect, Connected, ConnectionLost, Idle, Unput, TypeOK, Stages,
              Resting, txVars
<1>3. ASSUME NEW c \in Clients,
             HandleHello(c) \/ HandlerTest(c) \/ HandlerRead(c)
             \/ HandlerBlocks(c) \/ HandlerRefuse(c) \/ HandlerReply(c)
      PROVE  Idle
  BY <1>3 DEF HandleHello, HandlerTest, HandlerRead, HandlerBlocks,
              HandlerRefuse, HandlerReply, Idle, Unput, TypeOK, Stages, Resting, txVars
<1>4. CASE Main \/ AcceptFails \/ Kill
  BY <1>4 DEF Main, MainTest, Accept, AcceptTimeout, AcceptFails, CloseServer,
              StopCan, JoinTx, Release, Exit, Kill, Idle, Unput, TypeOK,
              clientVars, txVars
<1> QED
  BY <1>1, <1>2, <1>3, <1>4 DEF Next, Client, Handler, TxLoop

(* How the three kinds of TX step move a frame along the line. *)
LEMMA TxMoves ==
    ASSUME TypeOK, Hand, TxGet \/ TxSend \/ TxFail
    PROVE  /\ Placed' \ {NoFrame} = Placed \ {NoFrame}
           /\ UNCHANGED <<clientVars, history>>
<1> USE DEF Placed, Held
<1>0. NoFrame \notin Frames
  BY FramesAssumption DEF Frames
<1>1. CASE TxGet
  <2>1. CASE queue = <<>>
    BY <1>1, <2>1 DEF TxGet
  <2>2. CASE queue # <<>>
    BY <1>1, <2>2, ElementsTail DEF TxGet, TypeOK, Hand
  <2> QED BY <1>1, <2>1, <2>2 DEF TxGet
<1>2. CASE TxSend
  BY <1>2, ElementsAppend DEF TxSend, TypeOK, Hand
<1>3. CASE TxFail
  BY <1>3 DEF TxFail, TypeOK, Hand
<1>4. UNCHANGED <<clientVars, history>>
  BY DEF TxGet, TxSend, TxFail
<1> QED BY <1>1, <1>2, <1>3, <1>4

(* Every step keeps frames where they belong. *)
LEMMA PlacementStep ==
    TypeOK /\ Stages /\ Hand /\ Placement /\ [Next]_vars => Placement'
<1> SUFFICES ASSUME TypeOK, Stages, Hand, Placement, [Next]_vars
             PROVE  Placement'
  OBVIOUS
<1>0. NoFrame \notin Frames /\ MaxFrames \in Nat
  BY FramesAssumption DEF Frames
<1>a. \A c \in Clients : sent[c] \in 0..MaxFrames
  BY DEF TypeOK
<1>1. CASE Idle
  BY <1>1 DEF Idle, history, Placement, Placed, Held, Last
<1>2. ASSUME NEW c \in Clients, Send(c) PROVE Placement'
  <2>1. /\ Placed' = Placed /\ refused' = refused /\ acked' = acked
        /\ hd' = hd /\ rep' = rep
    BY <1>2 DEF Send, txVars, Placed, Held
  <2>2. \A d \in Clients : sent[d] <= sent'[d] /\ sent'[d] \in 0..MaxFrames
    BY <1>2, <1>0, <1>a DEF Send, TypeOK
  <2>3. Last(c)' \notin Placed \cup refused
    <3>1. Last(c)' = <<c, sent[c] + 1>> /\ sent[c] + 1 \in 1..MaxFrames
      BY <1>2, <1>0, <1>a DEF Send, Last, TypeOK
    <3> QED BY <3>1, <1>a DEF Placement
  <2>4. \A d \in Clients : d # c =>
          /\ cl'[d] = cl[d] /\ inbox'[d] = inbox[d] /\ Last(d)' = Last(d)
    BY <1>2 DEF Send, TypeOK, Last
  <2>5. hd[c] # "yes" /\ rep[c] # "ok"
    BY <1>2 DEF Send, Stages, Resting
  <2>6. \A d \in Clients, n \in 1..MaxFrames :
          <<d, n>> \in Placed' \cup refused' => n <= sent'[d]
    BY <2>1, <2>2, <1>a DEF Placement
  <2>7. \A d \in Clients :
          /\ Unput(d)' => Last(d)' \notin Placed'
          /\ (hd[d] = "yes" \/ rep[d] = "ok")' => Last(d)' \in Placed'
          /\ (cl[d] = "wait")' => Last(d)' \notin refused'
    BY <2>1, <2>3, <2>4, <2>5 DEF Placement, Unput
  <2> QED BY <2>1, <2>6, <2>7 DEF Placement
<1>3. ASSUME NEW c \in Clients, Reply(c) PROVE Placement'
  <2>1. /\ Placed' = Placed /\ sent' = sent
        /\ \A d \in Clients : Last(d)' = Last(d)
    BY <1>3 DEF Reply, txVars, Placed, Held, Last
  <2>2. \A d \in Clients : d # c =>
          /\ cl'[d] = cl[d] /\ inbox'[d] = inbox[d]
          /\ hd'[d] = hd[d] /\ rep'[d] = rep[d]
    BY <1>3 DEF Reply, TypeOK
  <2>3. \A d \in Clients : d # c => Last(d) # Last(c)
    BY DEF Last
  <2>4. /\ cl'[c] # "wait" /\ rep'[c] = "none" /\ hd'[c] # "yes"
    BY <1>3 DEF Reply, TypeOK, Stages, Resting
  <2>5. CASE rep[c] = "ok"
    <3>1. refused' = refused /\ acked' = acked \cup {Last(c)}
      BY <1>3, <2>5 DEF Reply
    <3>2. Last(c) \in Placed
      BY <2>5 DEF Placement
    <3> QED BY <2>1, <2>2, <2>4, <3>1, <3>2 DEF Placement, Unput
  <2>6. CASE rep[c] = "fail"
    <3>1. refused' = refused \cup {Last(c)} /\ acked' = acked
      BY <1>3, <2>6 DEF Reply
    <3>2. Last(c) \notin Placed
      BY <1>3, <2>6 DEF Placement, Unput, Reply
    <3>3. \A d \in Clients, n \in 1..MaxFrames :
            <<d, n>> \in Placed' \cup refused' => n <= sent'[d]
      BY <2>1, <3>1, <1>a DEF Placement, Last
    <3> QED BY <2>1, <2>2, <2>3, <2>4, <3>1, <3>2, <3>3 DEF Placement, Unput
  <2> QED BY <1>3, <2>5, <2>6 DEF Reply
<1>4. ASSUME NEW c \in Clients, HandlerPut(c) PROVE Placement'
  <2>1. cl[c] = "wait" /\ ~inbox[c] /\ rep[c] = "none"
    BY <1>4 DEF HandlerPut, Stages, Resting, TypeOK
  <2>2. Last(c) \in Frames /\ Last(c) \notin refused
    BY <2>1 DEF Stages, Last, Frames, Placement
  <2>3. Placed' = Placed \cup {Last(c)}
    BY <1>4, <2>2, ElementsAppend DEF HandlerPut, TypeOK, Placed, Held
  <2>4. /\ UNCHANGED <<cl, inbox, rep, sent, acked, refused>>
        /\ hd'[c] = "yes"
        /\ \A d \in Clients : Last(d)' = Last(d) /\ (d # c => hd'[d] = hd[d])
    BY <1>4 DEF HandlerPut, history, Last, TypeOK
  <2>5. \A d \in Clients : d # c => Last(d) # Last(c)
    BY DEF Last
  <2>6. \A d \in Clients, n \in 1..MaxFrames :
          <<d, n>> \in Placed' \cup refused' => n <= sent'[d]
    BY <2>3, <2>4, <1>a DEF Placement, Last
  <2>7. ~Unput(c)'
    BY <2>1, <2>4 DEF Unput
  <2> QED BY <2>1, <2>2, <2>3, <2>4, <2>5, <2>6, <2>7 DEF Placement, Unput
<1>5. CASE TxGet \/ TxSend \/ TxFail
  <2>1. /\ Placed' \ {NoFrame} = Placed \ {NoFrame}
        /\ UNCHANGED <<clientVars, history>>
    BY <1>5, TxMoves
  <2>2. /\ acked \subseteq Frames /\ refused \subseteq Frames
        /\ \A c \in Clients : cl[c] = "wait" => Last(c) \in Frames
        /\ \A c \in Clients : hd[c] = "yes" \/ rep[c] = "ok" => cl[c] = "wait"
    BY DEF TypeOK, Stages, Last, Frames, Resting
  <2>3. NoFrame \notin refused
    BY <2>2, <1>0
  <2>4. \A f \in Frames : f \in Placed' <=> f \in Placed
    BY <2>1, <1>0
  <2>5. \A d \in Clients, n \in 1..MaxFrames : <<d, n>> \in Frames
    BY DEF Frames
  <2> QED BY <2>1, <2>2, <2>3, <2>4, <2>5
          DEF Placement, Unput, clientVars, history, Last
<1> QED BY <1>1, <1>2, <1>3, <1>4, <1>5, StepKinds

(* Every step keeps the line in order. *)
LEMMA OrderStep == IInv /\ [Next]_vars => Order'
<1> SUFFICES ASSUME IInv, [Next]_vars PROVE Order'
  OBVIOUS
<1> USE DEF IInv
<1>0. NoFrame \notin Frames
  BY FramesAssumption DEF Frames
<1>1. CASE Idle
  BY <1>1 DEF Idle, history, Order, NoOvertaking
<1>2. ASSUME NEW c \in Clients, Send(c) PROVE Order'
  <2> DEFINE g == <<c, sent[c] + 1>>
  <2>1. /\ g \in Frames /\ g \notin Placed
    BY <1>2, FramesAssumption DEF Send, TypeOK, Frames, Placement
  <2>2. /\ UNCHANGED <<queue, cur, bus, failed, acked>>
        /\ \A f \in Frames : f # g => before'[f] = before[f]
        /\ before'[g] = acked
    BY <1>2, <2>1 DEF Send, txVars, TypeOK
  <2>3. /\ \A i \in DOMAIN bus : bus[i] \in Frames \ {g}
        /\ \A i \in DOMAIN queue : queue[i] \in Frames \ {g}
        /\ cur # NoFrame => cur \in Frames \ {g}
    BY <2>1 DEF Placed, Held, Elements, TypeOK
  <2> HIDE DEF g
  <2> QED BY <2>1, <2>2, <2>3 DEF Order, NoOvertaking, Elements
<1>3. ASSUME NEW c \in Clients, Reply(c) PROVE Order'
  <2>1. UNCHANGED <<queue, cur, bus, failed, before>> /\ acked \subseteq acked'
    BY <1>3 DEF Reply, txVars
  <2> QED BY <2>1 DEF Order, NoOvertaking, Elements
<1>4. ASSUME NEW c \in Clients, HandlerPut(c) PROVE Order'
  <2>1. Last(c) \in Frames
    BY <1>4 DEF HandlerPut, Stages, Resting, TypeOK, Last, Frames
  <2>2. /\ UNCHANGED <<cur, bus, failed, before, acked>>
        /\ queue' = Append(queue, Last(c)) /\ queue \in Seq(Frames)
    BY <1>4 DEF HandlerPut, history, TypeOK
  <2>3. ASSUME NEW i \in DOMAIN queue', NEW f \in before[queue'[i]]
        PROVE  \/ f \in failed \cup Elements(bus) \cup {cur}
               \/ \E j \in 1..(i - 1) : queue'[j] = f
    <3>1. CASE i \in DOMAIN queue
      <4>1. queue'[i] = queue[i] /\ \A j \in 1..(i - 1) : queue'[j] = queue[j]
        BY <2>1, <2>2, <3>1, ElementsAppend
      <4> QED BY <4>1, <3>1, <2>3 DEF Order
    <3>2. CASE i = Len(queue) + 1
      <4>1. queue'[i] = Last(c)
        BY <2>1, <2>2, <3>2, ElementsAppend
      <4>2. f \in Elements(bus) \cup failed \cup Elements(queue) \cup {cur}
        BY <4>1, <2>1, <2>3 DEF Order, Placement, Placed, Held
      <4>3. ASSUME NEW j \in DOMAIN queue, queue[j] = f
            PROVE  j \in 1..(i - 1) /\ queue'[j] = f
        BY <4>3, <2>1, <2>2, <3>2, ElementsAppend
      <4> QED BY <4>2, <4>3 DEF Elements
    <3> QED BY <2>1, <2>2, <3>1, <3>2, ElementsAppend
  <2> QED BY <2>2, <2>3 DEF Order, NoOvertaking, Elements
<1>5. CASE TxGet
  <2>1. CASE queue = <<>>
    BY <1>5, <2>1 DEF TxGet, history, Order, NoOvertaking
  <2>2. CASE queue # <<>>
    <3>1. /\ UNCHANGED <<bus, failed, before, acked>> /\ cur = NoFrame
          /\ cur' = Head(queue) /\ queue' = Tail(queue) /\ queue \in Seq(Frames)
      BY <1>5, <2>2 DEF TxGet, history, TypeOK, Hand
    <3>2. before[cur'] \subseteq failed \cup Elements(bus)
      <4>1. cur' = queue[1] /\ 1 \in DOMAIN queue /\ cur' \in Frames
        BY <2>2, <3>1, ElementsTail
      <4>2. \A f \in before[cur'] : f \in Frames /\ f # NoFrame
        BY <4>1, <1>0 DEF TypeOK
      <4> QED BY <3>1, <4>1, <4>2 DEF Order
    <3>3. ASSUME NEW i \in DOMAIN queue', NEW f \in before[queue'[i]]
          PROVE  \/ f \in failed \cup Elements(bus) \cup {cur'}
                 \/ \E j \in 1..(i - 1) : queue'[j] = f
      <4>1. /\ i \in Nat \ {0} /\ i + 1 \in DOMAIN queue
            /\ queue'[i] = queue[i + 1]
        BY <2>2, <3>1, ElementsTail
      <4>2. f \in Frames /\ f # NoFrame
        BY <4>1, <3>1, <1>0 DEF TypeOK
      <4>3. \/ f \in failed \cup Elements(bus)
            \/ \E j \in 1..i : queue[j] = f
        BY <4>1, <4>2, <3>1 DEF Order
      <4>4. ASSUME NEW j \in 1..i, queue[j] = f
            PROVE  f = cur' \/ \E k \in 1..(i - 1) : queue'[k] = f
        <5>1. CASE j = 1
          BY <5>1, <4>4, <3>1
        <5>2. CASE j # 1
          <6>1. j - 1 \in 1..(i - 1) /\ j - 1 \in DOMAIN queue'
            BY <5>2, <4>1, <3>1
          <6>2. queue'[j - 1] = queue[j]
            BY <6>1, <2>2, <3>1, ElementsTail
          <6> QED BY <6>1, <6>2, <4>4
        <5> QED BY <5>1, <5>2
      <4> QED BY <4>3, <4>4
    <3> QED BY <3>1, <3>2, <3>3 DEF Order, NoOvertaking, Elements
  <2> QED BY <2>1, <2>2
<1>6. CASE TxSend
  <2>1. /\ UNCHANGED <<queue, failed, before, acked>>
        /\ cur \in Frames /\ cur' = NoFrame
        /\ bus' = Append(bus, cur) /\ bus \in Seq(Frames)
    BY <1>6 DEF TxSend, history, TypeOK, Hand
  <2>2. Elements(bus') = Elements(bus) \cup {cur}
    BY <2>1, ElementsAppend
  <2>3. ASSUME NEW i \in DOMAIN bus', NEW f \in before[bus'[i]]
        PROVE  f \in failed \/ \E j \in 1..(i - 1) : bus'[j] = f
    <3>1. CASE i \in DOMAIN bus
      <4>1. bus'[i] = bus[i] /\ \A j \in 1..(i - 1) : bus'[j] = bus[j]
        BY <2>1, <3>1, ElementsAppend
      <4> QED BY <4>1, <3>1, <2>3 DEF Order, NoOvertaking
    <3>2. CASE i = Len(bus) + 1
      <4>1. bus'[i] = cur
        BY <2>1, <3>2, ElementsAppend
      <4>2. f \in failed \cup Elements(bus)
        BY <4>1, <2>1, <2>3, <1>0 DEF Order
      <4>3. ASSUME NEW j \in DOMAIN bus, bus[j] = f
            PROVE  j \in 1..(i - 1) /\ bus'[j] = f
        BY <4>3, <2>1, <3>2, ElementsAppend
      <4> QED BY <4>2, <4>3 DEF Elements
    <3> QED BY <2>1, <3>1, <3>2, ElementsAppend
  <2>4. NoOvertaking'
    BY <2>1, <2>3 DEF NoOvertaking
  <2> QED BY <2>1, <2>2, <2>4 DEF Order
<1>7. CASE TxFail
  <2>1. /\ UNCHANGED <<queue, bus, before, acked>>
        /\ failed' = failed \cup {cur} /\ cur' = NoFrame
    BY <1>7 DEF TxFail, history
  <2> QED BY <2>1 DEF Order, NoOvertaking
<1> QED BY <1>1, <1>2, <1>3, <1>4, <1>5, <1>6, <1>7, StepKinds

(* Every step keeps the frames of the line distinct. *)
LEMMA OnceStep == IInv /\ [Next]_vars => Once'
<1> SUFFICES ASSUME IInv, [Next]_vars PROVE Once'
  OBVIOUS
<1> USE DEF IInv
<1>0. NoFrame \notin Frames
  BY FramesAssumption DEF Frames
<1>1. CASE UNCHANGED <<queue, cur, bus>>
  BY <1>1 DEF Once, SentOnce
<1>2. ASSUME NEW c \in Clients, HandlerPut(c) PROVE Once'
  <2>1. Last(c) \in Frames /\ Last(c) \notin Placed
    BY <1>2 DEF HandlerPut, Stages, Resting, TypeOK, Last, Frames, Placement,
                Unput
  <2>2. /\ UNCHANGED <<cur, bus>>
        /\ queue' = Append(queue, Last(c)) /\ queue \in Seq(Frames)
    BY <1>2 DEF HandlerPut, TypeOK
  <2>3. Elements(queue') = Elements(queue) \cup {Last(c)}
    BY <2>1, <2>2, ElementsAppend
  <2>4. ASSUME NEW i \in DOMAIN queue', NEW j \in DOMAIN queue',
               queue'[i] = queue'[j]
        PROVE  i = j
    <3>1. /\ DOMAIN queue' = DOMAIN queue \cup {Len(queue) + 1}
          /\ \A k \in DOMAIN queue : queue'[k] = queue[k] /\ queue[k] # Last(c)
          /\ queue'[Len(queue) + 1] = Last(c)
      BY <2>1, <2>2, ElementsAppend DEF Placed, Held, Elements
    <3> QED BY <2>4, <3>1 DEF Once
  <2> QED BY <2>1, <2>2, <2>3, <2>4 DEF Once, SentOnce, Placed, Held
<1>3. CASE TxGet /\ queue # <<>>
  <2>1. /\ UNCHANGED bus /\ cur' = Head(queue) /\ queue' = Tail(queue)
        /\ queue \in Seq(Frames)
    BY <1>3 DEF TxGet, TypeOK
  <2>2. /\ Head(queue) = queue[1] /\ 1 \in DOMAIN queue
        /\ Elements(queue) = {cur'} \cup Elements(queue')
        /\ \A i \in DOMAIN queue' :
             /\ i \in Nat \ {0} /\ i + 1 \in DOMAIN queue
             /\ queue'[i] = queue[i + 1]
    BY <1>3, <2>1, ElementsTail
  <2>3. cur' \notin Elements(queue')
    BY <2>1, <2>2 DEF Once, Elements
  <2>4. \A i, j \in DOMAIN queue' : queue'[i] = queue'[j] => i = j
    BY <2>2 DEF Once
  <2> QED BY <2>1, <2>2, <2>3, <2>4 DEF Once, SentOnce
<1>4. CASE TxSend
  <2>1. /\ UNCHANGED queue /\ cur \in Frames /\ cur' = NoFrame
        /\ bus' = Append(bus, cur) /\ bus \in Seq(Frames)
        /\ queue \in Seq(Frames)
    BY <1>4 DEF TxSend, TypeOK, Hand
  <2>2. /\ Elements(bus') = Elements(bus) \cup {cur}
        /\ DOMAIN bus' = DOMAIN bus \cup {Len(bus) + 1}
        /\ \A k \in DOMAIN bus : bus'[k] = bus[k] /\ bus[k] # cur
        /\ bus'[Len(bus) + 1] = cur
    BY <2>1, ElementsAppend DEF Once, Elements
  <2>3. SentOnce'
    BY <2>2 DEF Once, SentOnce
  <2>4. NoFrame \notin Elements(bus') \cup Elements(queue)
    BY <2>1, <2>2, <1>0 DEF Elements
  <2> QED BY <2>1, <2>2, <2>3, <2>4 DEF Once
<1>5. CASE TxFail
  <2>1. UNCHANGED <<queue, bus>> /\ cur' = NoFrame
    BY <1>5 DEF TxFail
  <2>2. NoFrame \notin Elements(bus) \cup Elements(queue)
    BY <1>0 DEF TypeOK, Elements
  <2> QED BY <2>1, <2>2 DEF Once, SentOnce
<1>6. ASSUME NEW c \in Clients, Send(c) \/ Reply(c) PROVE Once'
  BY <1>6, <1>1 DEF Send, Reply, txVars
<1>7. CASE Idle \/ (TxGet /\ queue = <<>>)
  BY <1>7, <1>1 DEF Idle, TxGet
<1> QED BY <1>2, <1>3, <1>4, <1>5, <1>6, <1>7, StepKinds

-------------------------------------------------------------------------------
(* The invariant holds in every reachable state. *)
THEOREM DaemonInvariant == Spec => []IInv
<1>1. Init => IInv
  BY InitIInv
<1>2. IInv /\ [Next]_vars => IInv'
  BY TypeStep, StagesStep, HandStep, PlacementStep, OrderStep,
     OnceStep DEF IInv
<1> QED BY <1>1, <1>2, PTL DEF Spec

(* The variables of the daemon and its clients keep their types. *)
THEOREM DaemonTypes == Spec => []TypeOK
<1>1. IInv => TypeOK
  BY DEF IInv
<1> QED BY <1>1, DaemonInvariant, PTL

(* No frame reaches the bus before one whose send had returned when it was  *)
(* asked for, over any clients and reconnections.                           *)
THEOREM NothingOvertakes == Spec => []NoOvertaking
<1>1. IInv => NoOvertaking
  BY DEF IInv, Order
<1> QED BY <1>1, DaemonInvariant, PTL

(* The daemon itself loses no acknowledged frame. *)
THEOREM AckedAccounted == Spec => []AckedIsAccounted
<1>1. IInv => AckedIsAccounted
  BY DEF IInv, Placement, Placed, AckedIsAccounted
<1> QED BY <1>1, DaemonInvariant, PTL

(* No frame is transmitted twice. *)
THEOREM NothingTwice == Spec => []SentOnce
<1>1. IInv => SentOnce
  BY DEF IInv, Once
<1> QED BY <1>1, DaemonInvariant, PTL

(* A refused frame never reaches the bus. *)
THEOREM RefusedNotSent == Spec => []RefusedIsNotSent
<1>1. IInv => RefusedIsNotSent
  BY DEF IInv, Placement, Placed, RefusedIsNotSent
<1> QED BY <1>1, DaemonInvariant, PTL
-------------------------------------------------------------------------------
(* The refinement *)

(* The clients inside send(). *)
Callers == {c \in Clients : cl[c] = "wait"}

(* What a step leaves of the abstract state. *)
SameLine == Line' = Line /\ bus' = bus /\ failed' = failed
SameCalls == sent' = sent /\ Callers' = Callers /\ acked' = acked /\ refused' = refused

(* The hand of the TX thread and the queue are one sequence. *)
LEMMA LineFacts ==
    ASSUME TypeOK
    PROVE  /\ Line \in Seq(Frames)
           /\ cur # NoFrame =>
                Line # <<>> /\ Head(Line) = cur /\ Tail(Line) = queue
           /\ Elements(Line) = Held \ {NoFrame}
<1>1. queue \in Seq(Frames) /\ NoFrame \notin Frames /\ cur \in Frames \cup {NoFrame}
  BY FramesAssumption DEF TypeOK, Frames
<1>2. CASE cur = NoFrame
  <2>1. NoFrame \notin Elements(queue)
    BY <1>1 DEF Elements
  <2> QED BY <1>1, <1>2, <2>1 DEF Line, Held
<1>3. CASE cur # NoFrame
  <2>1. <<cur>> \in Seq(Frames) /\ cur \in Frames
    BY <1>1, <1>3
  <2>2. Line = <<cur>> \o queue
    BY <1>3 DEF Line
  <2>3. Line \in Seq(Frames) /\ Line # <<>> /\ Head(Line) = cur /\ Tail(Line) = queue
    BY <1>1, <2>1, <2>2
  <2>4. Elements(Line) = {cur} \cup Elements(queue)
    BY <2>3, ElementsTail
  <2>5. NoFrame \notin Elements(queue)
    BY <1>1 DEF Elements
  <2> QED BY <1>1, <2>1, <2>3, <2>4, <2>5 DEF Held
<1> QED BY <1>2, <1>3

(* A frame has joined the abstract line exactly when it is placed. *)
LEMMA JoinedIsPlaced ==
    ASSUME TypeOK, NEW f \in Frames
    PROVE  f \in Abstract!Joined <=> f \in Placed
<1>1. Abstract!Joined = Elements(Line) \cup Elements(bus) \cup failed
  BY DEF Abstract!Joined, Elements
<1>2. f # NoFrame
  BY FramesAssumption DEF Frames
<1> QED BY <1>1, <1>2, LineFacts DEF Placed

(* The frame a client asks for is in the abstract line's terms the same. *)
LEMMA LastFrame ==
    ASSUME TypeOK, Stages, NEW c \in Callers
    PROVE  c \in Clients /\ Last(c) \in Frames /\ Abstract!Last(c) = Last(c)
BY DEF Callers, Stages, Last, Abstract!Last, Frames, TypeOK

(* send() begins: Ask. *)
LEMMA SendRefines ==
    ASSUME IInv, NEW c \in Clients, Send(c)
    PROVE  Abstract!Ask(c)
<1>1. c \notin Callers /\ cl \in [Clients -> {"off", "hello", "idle", "wait", "broken"}]
  BY DEF Send, Callers, IInv, TypeOK
<1>2. Callers' = Callers \/ Callers' = Callers \cup {c}
  BY <1>1 DEF Send, Callers
<1>3. Line' = Line
  BY DEF Send, txVars, Line
<1> QED BY <1>1, <1>2, <1>3 DEF Send, txVars, Abstract!Ask, Callers

(* The put: Join. *)
LEMMA PutRefines ==
    ASSUME IInv, NEW c \in Clients, HandlerPut(c)
    PROVE  Abstract!Join(c)
<1>1. TypeOK /\ Stages /\ Placement
  BY DEF IInv
<1>2. c \in Callers /\ hd[c] \in {"put", "blocked"}
  BY <1>1 DEF HandlerPut, Stages, Resting, Callers, TypeOK
<1>3. Last(c) \notin Placed
  BY <1>1, <1>2 DEF Placement, Unput, Callers
<1>4. Abstract!Last(c) = Last(c) /\ Last(c) \in Frames /\ Last(c) \notin Abstract!Joined
  BY <1>1, <1>2, <1>3, LastFrame, JoinedIsPlaced
<1>5. Line' = Append(Line, Last(c))
  <2>1. queue' = Append(queue, Last(c)) /\ cur' = cur /\ queue \in Seq(Frames)
    BY <1>1 DEF HandlerPut, TypeOK
  <2>2. CASE cur = NoFrame
    BY <2>1, <2>2 DEF Line
  <2>3. CASE cur # NoFrame
    <3>1. cur \in Frames
      BY <1>1, <2>3 DEF TypeOK
    <3>2. <<cur>> \o Append(queue, Last(c)) = Append(<<cur>> \o queue, Last(c))
      BY <1>4, <2>1, <3>1
    <3> QED BY <2>1, <2>3, <3>2 DEF Line
  <2> QED BY <2>2, <2>3
<1>6. SameCalls /\ bus' = bus /\ failed' = failed
  BY DEF HandlerPut, history, SameCalls, Callers
<1> QED BY <1>2, <1>4, <1>5, <1>6 DEF Abstract!Join, SameCalls, Callers

(* send() ends: Return. *)
LEMMA ReturnRefines ==
    ASSUME IInv, NEW c \in Clients, Reply(c) \/ ConnectionLost(c)
    PROVE  Abstract!Return(c)
<1>1. TypeOK /\ Stages /\ Placement
  BY DEF IInv
<1>2. c \in Callers
  BY DEF Reply, ConnectionLost, Callers
<1>3. Abstract!Last(c) = Last(c) /\ Last(c) \in Frames
  BY <1>1, <1>2, LastFrame
<1>4. Callers' = Callers \ {c}
  BY <1>1 DEF Reply, ConnectionLost, Callers, TypeOK
<1>5. SameLine /\ sent' = sent
  BY DEF Reply, ConnectionLost, txVars, SameLine, Line
<1>6. CASE Reply(c) /\ rep[c] = "ok"
  <2>1. Last(c) \in Abstract!Joined
    BY <1>1, <1>3, <1>6, JoinedIsPlaced DEF Placement
  <2> QED
    BY <1>2, <1>3, <1>4, <1>5, <1>6, <2>1
    DEF Reply, Abstract!Return, SameLine, Callers
<1>7. CASE Reply(c) /\ rep[c] # "ok"
  <2>1. Unput(c)
    BY <1>7 DEF Reply, Unput
  <2>2. Last(c) \notin Abstract!Joined
    BY <1>1, <1>3, <2>1, JoinedIsPlaced DEF Placement
  <2> QED
    BY <1>2, <1>3, <1>4, <1>5, <1>7, <2>2
    DEF Reply, Abstract!Return, SameLine, Callers
<1>8. CASE ConnectionLost(c)
  BY <1>2, <1>4, <1>5, <1>8
  DEF ConnectionLost, history, Abstract!Return, SameLine, Callers
<1> QED BY <1>6, <1>7, <1>8

(* The interface takes or refuses the frame in hand: Leave. *)
LEMMA TxRefines ==
    ASSUME IInv, TxSend \/ TxFail
    PROVE  Abstract!Leave
<1>1. TypeOK /\ cur # NoFrame
  BY FramesAssumption DEF IInv, Hand, TxSend, TxFail, Frames
<1>2. Line # <<>> /\ Head(Line) = cur /\ Tail(Line) = queue
  BY <1>1, LineFacts
<1>3. Line' = Tail(Line)
  BY <1>2 DEF TxSend, TxFail, Line
<1>4. SameCalls
  BY DEF TxSend, TxFail, clientVars, history, SameCalls, Callers
<1> QED
  BY <1>2, <1>3, <1>4 DEF TxSend, TxFail, Abstract!Leave, SameCalls, Callers

(* A get moves the head of the queue into the hand: the line is the same. *)
LEMMA GetStutters ==
    ASSUME IInv, TxGet
    PROVE  SameLine /\ SameCalls
<1>1. queue \in Seq(Frames) /\ cur = NoFrame /\ NoFrame \notin Frames
  BY FramesAssumption DEF IInv, TypeOK, Hand, TxGet, Frames
<1>2. CASE queue = <<>>
  BY <1>2 DEF TxGet, clientVars, history, SameLine, SameCalls, Line, Callers
<1>3. CASE queue # <<>>
  <2>1. Head(queue) \in Frames /\ <<Head(queue)>> \o Tail(queue) = queue
    BY <1>1, <1>3
  <2>2. Line' = queue /\ Line = queue
    BY <1>1, <1>3, <2>1 DEF TxGet, Line
  <2> QED
    BY <1>3, <2>2 DEF TxGet, clientVars, history, SameLine, SameCalls, Callers
<1> QED BY <1>2, <1>3

(* The other steps leave the line and the calls alone. *)
LEMMA OthersStutter ==
    ASSUME IInv, [Next]_vars,
           ~ \E c \in Clients : Send(c) \/ HandlerPut(c) \/ Reply(c) \/ ConnectionLost(c),
           ~ (TxSend \/ TxFail \/ TxGet)
    PROVE  SameLine /\ SameCalls
<1>1. SameLine /\ sent' = sent /\ acked' = acked /\ refused' = refused
  BY DEF Next, Client, Handler, TxLoop, Main, Connect, Connected, HandleHello,
         HandlerTest, HandlerRead, HandlerBlocks, HandlerRefuse, HandlerReply, TxTest,
         MainTest, Accept, AcceptTimeout, AcceptFails, CloseServer, StopCan, JoinTx,
         Release, Exit, Signal, Kill, Quiet, vars, clientVars, txVars, history,
         SameLine, Line
<1>2. cl' = cl \/ \E c \in Clients : Connect(c) \/ Connected(c)
  BY DEF Next, Client, Handler, TxLoop, Main, HandleHello,
         HandlerTest, HandlerRead, HandlerBlocks, HandlerRefuse, HandlerReply, TxTest,
         MainTest, Accept, AcceptTimeout, AcceptFails, CloseServer, StopCan, JoinTx,
         Release, Exit, Signal, Kill, Quiet, vars, clientVars
<1>3. Callers' = Callers
  BY <1>2 DEF Callers, Connect, Connected, IInv, TypeOK
<1> QED BY <1>1, <1>3 DEF SameCalls

(* Every step is one of the line of frames, or leaves it as it is. *)
LEMMA StepRefines == IInv /\ [Next]_vars => [Abstract!Next]_(Abstract!vars)
<1> SUFFICES ASSUME IInv, [Next]_vars PROVE [Abstract!Next]_(Abstract!vars)
  OBVIOUS
<1>1. CASE \E c \in Clients : Send(c) \/ HandlerPut(c) \/ Reply(c) \/ ConnectionLost(c)
  BY <1>1, SendRefines, PutRefines, ReturnRefines DEF Abstract!Next
<1>2. CASE TxSend \/ TxFail
  BY <1>2, TxRefines DEF Abstract!Next
<1>3. CASE SameLine /\ SameCalls
  BY <1>3 DEF SameLine, SameCalls, Callers, Abstract!vars
<1> QED BY <1>1, <1>2, <1>3, GetStutters, OthersStutter

(* Clients, handler threads, queue and TX thread implement one line of      *)
(* frames, each joining it once between the call of its send and the        *)
(* return, in spite of blocked puts, refusals, reconnections, a stop and a  *)
(* kill (CANProcessClient.send, CANDaemon.send, _tx_loop).                  *)
THEOREM DaemonIsALine == Spec => ImplementsFrameLine
<1>1. Init => Abstract!Init
  BY DEF Init, Abstract!Init, Line
<1> QED
  BY <1>1, StepRefines, DaemonInvariant, PTL
  DEF Spec, ImplementsFrameLine, Abstract!Spec
===============================================================================
