--------------------------- MODULE FeedbackPathProofs ---------------------------
(* What the receive thread never does, for any motors, commands, times and   *)
(* faults. The echo filter is sound because recent_tx_frames holds nothing   *)
(* but commands, and no command has the bytes of a status.                   *)
EXTENDS FeedbackPath, SequenceTheorems, TLAPS

Remembered == [id : Motors, kind : Commands, age : Int]

(* recent_tx_frames, and what send_frame is about to append to it. *)
OnlyCommands ==
    /\ recent \in Seq(Remembered)
    /\ ctl = "remember" => todo \subseteq Motors \X Commands

LEMMA OlderIsInt ==
    ASSUME NEW a \in Int, NEW limit \in Nat
    PROVE  Older(a, limit) \in Int
BY DEF Older

(* Time changes the age of an entry, not what it says. *)
LEMMA AgedRemembered ==
    ASSUME NEW r \in Seq(Remembered)
    PROVE  [i \in DOMAIN r |-> [r[i] EXCEPT !.age = Older(@, Window)]]
              \in Seq(Remembered)
<1> DEFINE s == [i \in DOMAIN r |-> [r[i] EXCEPT !.age = Older(@, Window)]]
<1>1. Len(r) \in Nat /\ DOMAIN r = 1..Len(r)
  OBVIOUS
<1>2. ASSUME NEW i \in 1..Len(r)
      PROVE  [r[i] EXCEPT !.age = Older(@, Window)] \in Remembered
  <2>1. r[i] \in Remembered
    BY <1>1
  <2>2. Older(r[i].age, Window) \in Int
    BY <2>1, OlderIsInt, TimesAssumption DEF Remembered
  <2> QED
    BY <2>1, <2>2 DEF Remembered
<1>3. s \in [1..Len(r) -> Remembered]
  BY <1>1, <1>2
<1> QED
  BY <1>1, <1>3

LEMMA OnlyCommandsInit == Init => OnlyCommands
BY DEF Init, OnlyCommands

LEMMA OnlyCommandsStep == OnlyCommands /\ [Next]_vars => OnlyCommands'
<1> SUFFICES ASSUME OnlyCommands, [Next]_vars PROVE OnlyCommands'
  OBVIOUS
<1> USE DEF OnlyCommands
<1>1. CASE UNCHANGED vars
  BY <1>1 DEF vars, ctlVars
<1>2. ASSUME NEW m \in Motors, Emit(m) \/ FallSilent(m) PROVE OnlyCommands'
  BY <1>2 DEF Emit, FallSilent, ctlVars
<1>3. CASE Acknowledge \/ DropSubscriber
  BY <1>3 DEF Acknowledge, DropSubscriber, ctlVars
<1>4. CASE Die
  BY <1>4 DEF Die
<1>5. ASSUME NEW m \in Motors, NEW kind \in Commands, Send(m, kind)
      PROVE  OnlyCommands'
  BY <1>5 DEF Send
<1>6. ASSUME NEW m \in Motors, NEW kind \in Commands, DashboardSend(m, kind)
      PROVE  OnlyCommands'
  BY <1>6 DEF DashboardSend
<1>7. CASE RememberControl
  <2>1. recent # <<>> => Tail(recent) \in Seq(Remembered)
    OBVIOUS
  <2> QED
    BY <1>7, <2>1 DEF RememberControl, ctlVars
<1>8. CASE Rx
  <2>1. CASE RxRead \/ RxMatch \/ RxMerge
    BY <2>1 DEF RxRead, RxMatch, RxMerge, ctlVars
  <2>2. CASE RxPrune
    <3>1. PICK k \in 1..(Len(recent) + 1) : recent' = SubSeq(recent, k, Len(recent))
      BY <2>2 DEF RxPrune
    <3>2. SubSeq(recent, k, Len(recent)) \in Seq(Remembered)
      BY <3>1, SubSeqProperties
    <3> QED
      BY <2>2, <3>1, <3>2 DEF RxPrune, ctlVars
  <2> QED
    BY <1>8, <2>1, <2>2 DEF Rx
<1>9. CASE Control
  <2>1. CASE Remember
    <3>1. PICK f \in todo :
            recent' = Append(recent, [id |-> f[1], kind |-> f[2], age |-> 0])
      BY <2>1 DEF Remember
    <3>2. f \in Motors \X Commands
      BY <2>1, <3>1 DEF Remember
    <3>3. [id |-> f[1], kind |-> f[2], age |-> 0] \in Remembered
      BY <3>2 DEF Remembered
    <3>4. recent' \in Seq(Remembered)
      BY <3>1, <3>3
    <3> QED
      BY <2>1, <3>4 DEF Remember
  <2>2. CASE BeginSnapshot \/ Publish
    BY <2>2 DEF BeginSnapshot, Publish
  <2>3. ASSUME NEW m \in Motors, SnapState(m) \/ SnapFlags(m) \/ CopyRecord(m)
        PROVE  OnlyCommands'
    BY <2>3 DEF SnapState, SnapFlags, CopyRecord
  <2> QED
    BY <1>9, <2>1, <2>2, <2>3 DEF Control
<1>10. CASE Dashboard
  BY <1>10 DEF Dashboard, DashReadHead, DashReadBody, ctlVars
<1>11. CASE Tick
  BY <1>11, AgedRemembered DEF Tick
<1> QED
  BY <1>1, <1>2, <1>3, <1>4, <1>5, <1>6, <1>7, <1>8, <1>9, <1>10, <1>11
  DEF Next

(* A status is no echo of anything the controller has sent. *)
LEMMA StatusIsNoEcho ==
    ASSUME OnlyCommands, cur.kind = "status"
    PROVE  ~IsEcho
<1>1. "status" \notin Commands
  BY TimesAssumption
<1>2. ASSUME NEW i \in DOMAIN recent PROVE recent[i].kind \in Commands
  <2>1. recent[i] \in Remembered
    BY DEF OnlyCommands
  <2> QED
    BY <2>1 DEF Remembered
<1> QED
  BY <1>1, <1>2 DEF IsEcho

LEMMA StatusStep ==
    ASSUME OnlyCommands, [Next]_vars, rx = "iterate", cur.kind = "status",
           rx' = "read"
    PROVE  raced
<1>1. CASE Rx
  BY <1>1, StatusIsNoEcho DEF Rx, RxRead, RxPrune, RxMatch, RxMerge
<1>2. CASE Control
  BY <1>2 DEF Control, Remember, BeginSnapshot, Publish, SnapState, SnapFlags,
              CopyRecord, rxVars
<1>3. CASE ~Rx /\ ~Control
  BY <1>3 DEF Next, vars, rxVars, Emit, FallSilent, Acknowledge, DropSubscriber,
              Die, Send, DashboardSend, RememberControl, Dashboard, DashReadHead,
              DashReadBody, Tick
<1> QED
  BY <1>1, <1>2, <1>3

(* No status frame of a motor is taken for an echo of the controller's own   *)
(* commands: is_recent_tx_echo drops one only when a send appended to the    *)
(* deque it iterates over.                                                   *)
THEOREM StatusIsKept == Spec => StatusOnlyLostToRace
<1>1. OnlyCommands /\ [Next]_vars
        => ((rx = "iterate" /\ cur.kind = "status" /\ rx' = "read") => raced)
  BY StatusStep
<1> QED
  BY OnlyCommandsInit, OnlyCommandsStep, <1>1, PTL DEF Spec, StatusOnlyLostToRace

(* The receive thread (CANProcessClient._rx_loop) ends with its subscription *)
(* and for no other reason: no frame and no exception of a callback ends it. *)
THEOREM DeafIsDropped == Spec => []DeafOnlyWhenDropped
<1>1. Init => DeafOnlyWhenDropped
  BY DEF Init, DeafOnlyWhenDropped
<1>2. DeafOnlyWhenDropped /\ [Next]_vars => DeafOnlyWhenDropped'
  <2> SUFFICES ASSUME DeafOnlyWhenDropped, [Next]_vars
               PROVE  DeafOnlyWhenDropped'
    OBVIOUS
  <2> USE DEF DeafOnlyWhenDropped
  <2>1. CASE Rx
    BY <2>1 DEF Rx, RxRead, RxPrune, RxMatch, RxMerge
  <2>2. CASE Control
    BY <2>2 DEF Control, Remember, BeginSnapshot, Publish, SnapState, SnapFlags,
                CopyRecord, rxVars
  <2>3. CASE ~Rx /\ ~Control
    BY <2>3 DEF Next, vars, rxVars, Emit, FallSilent, Acknowledge, DropSubscriber,
                Die, Send, DashboardSend, RememberControl, Dashboard, DashReadHead,
                DashReadBody, Tick
  <2> QED
    BY <2>1, <2>2, <2>3
<1> QED
  BY <1>1, <1>2, PTL DEF Spec
===============================================================================
