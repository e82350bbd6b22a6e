------------------------------- MODULE CanDaemon -------------------------------
(***************************************************************************)
(* The CAN daemon subprocess and its TX clients: connection and hello,      *)
(* CANProcessClient.send with its reply, one handler thread per connection, *)
(* the bounded transmit queue, the TX thread and the daemon's shutdown.     *)
(*                                                                          *)
(* A frame is <<c, n>>, the n-th that client c asks for: a client holds its *)
(* _tx_lock over request and reply, so it has one request at a time.        *)
(***************************************************************************)
EXTENDS Integers, Sequences

CONSTANTS
    Clients,       \* TX clients of the daemon's socket
    Reconnecting,  \* those that connect again after a failed send
    QueueSize,     \* max_tx_queue_size
    OnFull,        \* what put() may do on a full queue, by send_block
    MaxFrames,     \* frames a client asks for (bound)
    NoFrame,       \* the TX thread holds no frame
    Faults         \* what may fail: bus (a send), accept, join, kill

ASSUME ClientsAssumption == Reconnecting \subseteq Clients
ASSUME QueueAssumption ==
    /\ QueueSize \in Nat \ {0}
    /\ OnFull \subseteq {"wait", "refuse"} /\ OnFull # {}
ASSUME FramesAssumption ==
    MaxFrames \in Nat /\ NoFrame \notin Clients \X (1..MaxFrames)

Frames == Clients \X (1..MaxFrames)

VARIABLES
    cl,       \* client: off, hello, idle, wait (for a reply), broken
    sent,     \* frames it has asked for
    inbox,    \* a request line the handler has not read
    rep,      \* a reply line the client has not read
    hd,       \* handler thread of the client's connection; none without one
    queue,    \* _tx_queue
    tx,       \* TX thread: check, get, send, ended
    cur,      \* the frame it has taken
    canStop,  \* CANDaemon._stop_event
    bus,      \* frames the interface accepted, in order
    main,     \* main thread
    stop,     \* CANSubprocessDaemon._stop_event
    acked, refused,  \* frames whose send returned True, or raised its answer
    failed,   \* frames whose SocketCANBus.send_frame raised
    before    \* frames already acknowledged when a frame was asked for

clientVars == <<cl, sent, inbox, rep, hd>>
txVars     == <<queue, tx, cur, bus, failed>>
stopVars   == <<canStop, main, stop>>
history    == <<acked, refused, before>>
vars       == <<clientVars, txVars, stopVars, history>>

(* The frame client c asked for last. *)
Last(c) == <<c, sent[c]>>

(* The elements of a sequence. *)
Elements(s) == {s[i] : i \in DOMAIN s}

(* The daemon process is there; its server socket is bound and listening.   *)
Alive     == main # "exited"
Listening == main \in {"loop", "accept", "close"}

(* self._can_daemon is not None. *)
HasCanDaemon == main \notin {"closebus", "exit", "exited"}

(* The raw CAN socket is open. *)
BusOpen == main \notin {"exit", "exited"}

Init ==
    /\ cl = [c \in Clients |-> "off"]
    /\ sent = [c \in Clients |-> 0]
    /\ inbox = [c \in Clients |-> FALSE]
    /\ rep = [c \in Clients |-> "none"]
    /\ hd = [c \in Clients |-> "none"]
    /\ queue = <<>> /\ tx = "check" /\ cur = NoFrame /\ bus = <<>>
    /\ canStop = FALSE /\ main = "loop" /\ stop = FALSE
    /\ acked = {} /\ refused = {} /\ failed = {}
    /\ before = [f \in Frames |-> {}]

-------------------------------------------------------------------------------
(* CANProcessClient *)

(* _connect_role: the kernel queues the connection and the hello behind it. *)
(* A handler left over from an earlier connection reads its end and goes.   *)
Connect(c) ==
    /\ cl[c] = "off" /\ Listening
    /\ cl' = [cl EXCEPT ![c] = "hello"]
    /\ hd' = [hd EXCEPT ![c] = "backlog"]
    /\ UNCHANGED <<sent, inbox, rep, txVars, stopVars, history>>

(* The hello's answer, or the end of the connection: connect() closes and   *)
(* tries again until its deadline.                                          *)
Connected(c) ==
    /\ cl[c] = "hello"
    /\ \/ rep[c] = "hello_ack" /\ cl' = [cl EXCEPT ![c] = "idle"]
       \/ rep[c] = "none" /\ hd[c] = "none" /\ cl' = [cl EXCEPT ![c] = "off"]
    /\ rep' = [rep EXCEPT ![c] = "none"]
    /\ UNCHANGED <<sent, inbox, hd, txVars, stopVars, history>>

(* send() writes its request; on a closed connection that raises. *)
Send(c) ==
    /\ cl[c] = "idle" /\ sent[c] < MaxFrames
    /\ sent' = [sent EXCEPT ![c] = @ + 1]
    /\ before' = [before EXCEPT ![<<c, sent[c] + 1>>] = acked]
    /\ IF hd[c] = "none"
       THEN /\ cl' = [cl EXCEPT ![c] =
                        IF c \in Reconnecting THEN "off" ELSE "broken"]
            /\ UNCHANGED inbox
       ELSE /\ cl' = [cl EXCEPT ![c] = "wait"]
            /\ inbox' = [inbox EXCEPT ![c] = TRUE]
    /\ UNCHANGED <<rep, hd, txVars, stopVars, acked, refused>>

(* The reply: send() returns True or raises the daemon's answer, upon which *)
(* CommandService drops its connection and the controller keeps its own.    *)
Reply(c) ==
    /\ cl[c] = "wait" /\ rep[c] \in {"ok", "fail"}
    /\ rep' = [rep EXCEPT ![c] = "none"]
    /\ IF rep[c] = "ok"
       THEN /\ acked' = acked \cup {Last(c)}
            /\ cl' = [cl EXCEPT ![c] = "idle"]
            /\ UNCHANGED <<refused, hd>>
       ELSE /\ refused' = refused \cup {Last(c)}
            /\ cl' = [cl EXCEPT ![c] =
                        IF c \in Reconnecting THEN "off" ELSE "idle"]
            /\ hd' = [hd EXCEPT ![c] =
                        IF c \in Reconnecting THEN "none" ELSE @]
            /\ UNCHANGED acked
    /\ UNCHANGED <<sent, inbox, before, txVars, stopVars>>

(* The connection ends before the reply: readline returns nothing. *)
ConnectionLost(c) ==
    /\ cl[c] = "wait" /\ rep[c] = "none" /\ hd[c] = "none"
    /\ cl' = [cl EXCEPT ![c] =
                IF c \in Reconnecting THEN "off" ELSE "broken"]
    /\ inbox' = [inbox EXCEPT ![c] = FALSE]
    /\ UNCHANGED <<sent, rep, hd, txVars, stopVars, history>>

-------------------------------------------------------------------------------
(* _handle_client and _handle_tx_client, one thread per connection *)

(* The hello is read and answered. *)
HandleHello(c) ==
    /\ hd[c] = "hello"
    /\ hd' = [hd EXCEPT ![c] = "loop"]
    /\ rep' = [rep EXCEPT ![c] = "hello_ack"]
    /\ UNCHANGED <<cl, sent, inbox, txVars, stopVars, history>>

(* The loop's test of _stop_event, which closes the connection. *)
HandlerTest(c) ==
    /\ hd[c] = "loop"
    /\ hd' = [hd EXCEPT ![c] = IF stop THEN "none" ELSE "read"]
    /\ UNCHANGED <<cl, sent, inbox, rep, txVars, stopVars, history>>

(* readline returns; a thread waiting here does not notice the stop. *)
HandlerRead(c) ==
    /\ hd[c] = "read" /\ inbox[c]
    /\ hd' = [hd EXCEPT ![c] = "put"]
    /\ inbox' = [inbox EXCEPT ![c] = FALSE]
    /\ UNCHANGED <<cl, sent, rep, txVars, stopVars, history>>

(* CANDaemon.send puts the frame: into a queue nobody empties any more when *)
(* the TX thread has ended and _can_daemon is still set.                    *)
HandlerPut(c) ==
    /\ (hd[c] = "put" /\ HasCanDaemon) \/ hd[c] = "blocked"
    /\ Len(queue) < QueueSize
    /\ queue' = Append(queue, Last(c))
    /\ hd' = [hd EXCEPT ![c] = "yes"]
    /\ UNCHANGED <<cl, sent, inbox, rep, tx, cur, bus, failed, stopVars,
                   history>>

(* With send_block the thread waits inside the put for room. *)
HandlerBlocks(c) ==
    /\ hd[c] = "put" /\ HasCanDaemon /\ "wait" \in OnFull
    /\ Len(queue) = QueueSize
    /\ hd' = [hd EXCEPT ![c] = "blocked"]
    /\ UNCHANGED <<cl, sent, inbox, rep, txVars, stopVars, history>>

(* Mutant: the limit is tested after the put. *)
HandlerRefuseLate(c) ==
    /\ hd[c] = "put"
    /\ \/ ~HasCanDaemon /\ UNCHANGED queue
       \/ /\ "refuse" \in OnFull /\ Len(queue) = QueueSize
          /\ queue' = Append(queue, Last(c))
    /\ hd' = [hd EXCEPT ![c] = "no"]
    /\ UNCHANGED <<cl, sent, inbox, rep, tx, cur, bus, failed, stopVars,
                   history>>

(* queue.Full, or the failed assertion once _can_daemon is None. *)
HandlerRefuse(c) ==
    /\ hd[c] = "put"
    /\ ~HasCanDaemon \/ ("refuse" \in OnFull /\ Len(queue) = QueueSize)
    /\ hd' = [hd EXCEPT ![c] = "no"]
    /\ UNCHANGED <<cl, sent, inbox, rep, txVars, stopVars, history>>

(* Mutant: the answer of a frame that still waits for room. *)
HandlerReplyEarly(c) ==
    /\ hd[c] \in {"blocked", "yes", "no"}
    /\ rep' = [rep EXCEPT ![c] = IF hd[c] = "no" THEN "fail" ELSE "ok"]
    /\ hd' = [hd EXCEPT ![c] = "loop"]
    /\ UNCHANGED <<cl, sent, inbox, txVars, stopVars, history>>

(* The tx_result line. *)
HandlerReply(c) ==
    /\ hd[c] \in {"yes", "no"}
    /\ rep' = [rep EXCEPT ![c] = IF hd[c] = "yes" THEN "ok" ELSE "fail"]
    /\ hd' = [hd EXCEPT ![c] = "loop"]
    /\ UNCHANGED <<cl, sent, inbox, txVars, stopVars, history>>

-------------------------------------------------------------------------------
(* CANDaemon._tx_loop *)

(* The loop's test of CANDaemon._stop_event. *)
TxTest ==
    /\ tx = "check"
    /\ tx' = IF canStop THEN "ended" ELSE "get"
    /\ UNCHANGED <<clientVars, queue, cur, bus, failed, stopVars, history>>

(* Mutant: the stop is looked at between get and send. *)
TxGetThenTest ==
    /\ tx = "get"
    /\ IF queue = <<>> THEN UNCHANGED <<queue, cur>>
       ELSE queue' = Tail(queue) /\ cur' = IF stop THEN NoFrame ELSE Head(queue)
    /\ tx' = IF cur' = NoFrame THEN "check" ELSE "send"
    /\ UNCHANGED <<clientVars, bus, failed, stopVars, history>>

(* Mutant: the empty queue is not told apart. *)
TxGetNothing ==
    /\ tx = "get" /\ tx' = "send"
    /\ IF queue = <<>> THEN UNCHANGED <<queue, cur>>
       ELSE cur' = Head(queue) /\ queue' = Tail(queue)
    /\ UNCHANGED <<clientVars, bus, failed, stopVars, history>>

(* get() takes the oldest frame, or times out. *)
TxGet ==
    /\ tx = "get"
    /\ IF queue = <<>>
       THEN tx' = "check" /\ UNCHANGED <<queue, cur>>
       ELSE tx' = "send" /\ cur' = Head(queue) /\ queue' = Tail(queue)
    /\ UNCHANGED <<clientVars, bus, failed, stopVars, history>>

(* SocketCANBus.send_frame; the RX loop's settimeout applies to it as well. *)
TxSend ==
    /\ tx = "send" /\ BusOpen
    /\ bus' = Append(bus, cur)
    /\ tx' = "check" /\ cur' = NoFrame
    /\ UNCHANGED <<clientVars, queue, failed, stopVars, history>>

(* Mutant: the exception ends the thread. *)
TxFailEnds ==
    /\ tx = "send" /\ ("bus" \in Faults \/ ~BusOpen)
    /\ failed' = failed \cup {cur}
    /\ tx' = "ended" /\ cur' = NoFrame
    /\ UNCHANGED <<clientVars, queue, bus, stopVars, history>>

(* Mutant: the frame is queued again for another try. *)
TxFailRequeues ==
    /\ tx = "send" /\ ("bus" \in Faults \/ ~BusOpen)
    /\ queue' = Append(queue, cur)
    /\ tx' = "check" /\ cur' = NoFrame
    /\ UNCHANGED <<clientVars, bus, failed, stopVars, history>>

(* It raises: the frame is logged and gone. *)
TxFail ==
    /\ tx = "send" /\ ("bus" \in Faults \/ ~BusOpen)
    /\ failed' = failed \cup {cur}
    /\ tx' = "check" /\ cur' = NoFrame
    /\ UNCHANGED <<clientVars, queue, bus, stopVars, history>>

-------------------------------------------------------------------------------
(* CANSubprocessDaemon.run and shutdown *)

(* SIGINT or SIGTERM. *)
Signal ==
    /\ Alive /\ ~stop
    /\ stop' = TRUE
    /\ UNCHANGED <<clientVars, txVars, canStop, main, history>>

(* The accept loop's test. *)
MainTest ==
    /\ main = "loop"
    /\ main' = IF stop THEN "close" ELSE "accept"
    /\ UNCHANGED <<clientVars, txVars, canStop, stop, history>>

(* accept() returns a connection and its thread is started. *)
Accept(c) ==
    /\ main = "accept" /\ hd[c] = "backlog"
    /\ main' = "loop"
    /\ hd' = [hd EXCEPT ![c] = "hello"]
    /\ UNCHANGED <<cl, sent, inbox, rep, txVars, canStop, stop, history>>

(* Mutant: the server socket has no timeout. *)
AcceptForever == FALSE /\ UNCHANGED vars

(* accept() times out after 0.2 s without a connection. *)
AcceptTimeout ==
    /\ main = "accept" /\ \A c \in Clients : hd[c] # "backlog"
    /\ main' = "loop"
    /\ UNCHANGED <<clientVars, txVars, canStop, stop, history>>

(* accept() raises: the loop is left as well. *)
AcceptFails ==
    /\ main = "accept" /\ "accept" \in Faults
    /\ main' = "close"
    /\ UNCHANGED <<clientVars, txVars, canStop, stop, history>>

(* shutdown() sets the event for the handlers and closes the server socket: *)
(* what waits in its backlog is reset.                                      *)
CloseServer ==
    /\ main = "close"
    /\ main' = "stopcan" /\ stop' = TRUE
    /\ hd' = [c \in Clients |-> IF hd[c] = "backlog" THEN "none" ELSE hd[c]]
    /\ UNCHANGED <<cl, sent, inbox, rep, txVars, canStop, history>>

(* CANDaemon.stop sets its event. *)
StopCan ==
    /\ main = "stopcan"
    /\ main' = "join"
    /\ canStop' = TRUE
    /\ UNCHANGED <<clientVars, txVars, stop, history>>

(* The TX thread is joined, or join_timeout_s has passed. *)
JoinTx ==
    /\ main = "join" /\ (tx = "ended" \/ "join" \in Faults)
    /\ main' = "joined"
    /\ UNCHANGED <<clientVars, txVars, canStop, stop, history>>

(* _can_daemon = None; the raw socket is closed; the socket path unlinked.  *)
Release ==
    /\ main \in {"joined", "closebus"}
    /\ main' = IF main = "joined" THEN "closebus" ELSE "exit"
    /\ UNCHANGED <<clientVars, txVars, canStop, stop, history>>

(* Mutant: the handler threads are not daemonic and are waited for. *)
ExitJoinsHandlers ==
    /\ main = "exit"
    /\ IF tx = "ended" /\ \A c \in Clients : hd[c] = "none"
       THEN main' = "exited" ELSE UNCHANGED main
    /\ UNCHANGED <<clientVars, txVars, canStop, stop, history>>

(* The interpreter waits for the TX thread and takes the daemonic handler   *)
(* threads, with their connections, down.                                   *)
Exit ==
    /\ main = "exit" /\ tx = "ended"
    /\ main' = "exited"
    /\ hd' = [c \in Clients |-> "none"]
    /\ UNCHANGED <<cl, sent, inbox, rep, txVars, canStop, stop, history>>

(* SIGKILL, the supervisor's escalation, or a crash. *)
Kill ==
    /\ "kill" \in Faults /\ Alive
    /\ main' = "exited" /\ tx' = "ended"
    /\ hd' = [c \in Clients |-> "none"]
    /\ UNCHANGED <<cl, sent, inbox, rep, queue, cur, bus, failed, canStop,
                   stop, history>>

-------------------------------------------------------------------------------
Client(c) == Connected(c) \/ Reply(c) \/ ConnectionLost(c)

Handler(c) ==
    \/ HandleHello(c) \/ HandlerTest(c) \/ HandlerRead(c)
    \/ HandlerPut(c) \/ HandlerBlocks(c) \/ HandlerRefuse(c) \/ HandlerReply(c)

TxLoop == TxTest \/ TxGet \/ TxSend \/ TxFail

Main ==
    \/ MainTest \/ (\E c \in Clients : Accept(c)) \/ AcceptTimeout
    \/ CloseServer \/ StopCan \/ JoinTx \/ Release \/ Exit

(* The process is gone and every client has noticed. *)
Quiet ==
    /\ main = "exited" /\ \A c \in Clients : cl[c] \in {"off", "idle", "broken"}
    /\ UNCHANGED vars

Next ==
    \/ \E c \in Clients : Connect(c) \/ Send(c) \/ Client(c) \/ Handler(c)
    \/ TxLoop \/ Main \/ AcceptFails \/ Signal \/ Kill \/ Quiet

Spec == Init /\ [][Next]_vars

(* Each thread takes its next step; a signal, a send and a fault need not   *)
(* come. The accept loop serves a backlog that stays.                       *)
FairSpec ==
    /\ Spec
    /\ \A c \in Clients : WF_vars(Client(c)) /\ WF_vars(Handler(c))
    /\ \A c \in Clients : SF_vars(Accept(c))
    /\ WF_vars(TxLoop) /\ WF_vars(Main)

-------------------------------------------------------------------------------
(* Properties *)

TypeOK ==
    /\ cl \in [Clients -> {"off", "hello", "idle", "wait", "broken"}]
    /\ sent \in [Clients -> 0..MaxFrames]
    /\ inbox \in [Clients -> BOOLEAN]
    /\ rep \in [Clients -> {"none", "hello_ack", "ok", "fail"}]
    /\ hd \in [Clients -> {"none", "backlog", "hello", "loop", "read", "put",
                           "blocked", "yes", "no"}]
    /\ queue \in Seq(Frames) /\ bus \in Seq(Frames)
    /\ tx \in {"check", "get", "send", "ended"}
    /\ cur \in Frames \cup {NoFrame}
    /\ canStop \in BOOLEAN /\ stop \in BOOLEAN
    /\ main \in {"loop", "accept", "close", "stopcan", "join", "joined",
                 "closebus", "exit", "exited"}
    /\ acked \subseteq Frames /\ refused \subseteq Frames
    /\ failed \subseteq Frames
    /\ before \in [Frames -> SUBSET Frames]

(* The frames the daemon still holds. *)
Held == Elements(queue) \cup {cur}

(* A frame on the bus never overtakes: every frame whose send had returned  *)
(* when this one was asked for is on the bus before it, unless the          *)
(* interface refused it. Over clients too: a dashboard's MIT enter asked    *)
(* for after the controller's DISABLE returned comes after it.              *)
NoOvertaking ==
    \A i \in DOMAIN bus : \A f \in before[bus[i]] :
        f \in failed \/ \E j \in 1..(i - 1) : bus[j] = f

(* A send that raised the daemon's refusal put nothing on the bus and never *)
(* will: the caller may retry without sending the frame twice.              *)
RefusedIsNotSent == refused \cap (Elements(bus) \cup Held) = {}

(* No frame is transmitted twice, whatever connections came and went. *)
SentOnce ==
    \A i, j \in DOMAIN bus : bus[i] = bus[j] => i = j

(* The daemon loses no acknowledged frame of its own accord: it is on the   *)
(* bus, was refused by the interface or is still held, by a process that    *)
(* has ended too.                                                           *)
AckedIsAccounted ==
    acked \subseteq Elements(bus) \cup failed \cup Held

(* The line from the clients to the bus: what the TX thread has taken, then *)
(* the queue.                                                               *)
Line == IF cur = NoFrame THEN queue ELSE <<cur>> \o queue

Abstract == INSTANCE FrameLine WITH
    asked <- sent,
    calling <- {c \in Clients : cl[c] = "wait"},
    line <- Line,
    out <- bus,
    lost <- failed

(* Clients, handlers and TX thread together are one line of frames: a send  *)
(* takes effect at one moment between its call and its return.              *)
ImplementsFrameLine == Abstract!Spec

(* Every send and every hello returns or raises: the dashboard's event      *)
(* loop, which serves the operator's ESTOP too, and the control loop wait   *)
(* for it without a timeout.                                                *)
Waiting(c) == cl[c] \in {"hello", "wait"}

EveryCallReturns == \A c \in Clients : Waiting(c) ~> ~Waiting(c)

(* An acknowledged frame is transmitted unless the interface refuses it or  *)
(* the daemon is stopped.                                                   *)
AckedIsTransmitted ==
    \A f \in Frames :
        (f \in acked) ~> (f \in Elements(bus) \cup failed \/ stop \/ ~Alive)

(* A signal ends the process. *)
SignalEndsDaemon == stop ~> ~Alive
===============================================================================
