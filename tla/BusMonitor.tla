------------------------------- MODULE BusMonitor -------------------------------
(***************************************************************************)
(* The two programs that watch the bus through sockets of their own: the    *)
(* dashboard's MonitorState and the terminal tool. A motor answers under    *)
(* the identifier it is addressed by, and its acknowledges repeat the       *)
(* command, so neither tells a request from an answer. The dashboard also   *)
(* sends, through the daemon: enter and exit on request, and MIT hold       *)
(* frames to the motors it polls. Its handlers run to their next await.     *)
(***************************************************************************)
EXTENDS Integers, Sequences, FiniteSets

CONSTANTS
    Motors,    \* actuators: their CAN identifiers
    Timeout,   \* node_timeout_s, in ticks
    MaxQueue,  \* frames the socket of a monitor holds (bound)
    MaxPending, \* frames the daemon holds (bound)
    MaxFrames, \* frames of the controller, the motors and the endpoints (bound)
    Faults     \* what may happen: daemon (restarts), link (goes down)

Monitors == {"dash", "tool"}
Kinds == {"mit", "enter", "exit", "clear"}  \* 0xC0, C1, C2 and 9B
Frame == [id : Motors, kind : Kinds]

ASSUME MonitorAssumption ==
    /\ Motors \subseteq Nat /\ IsFiniteSet(Motors)
    /\ Timeout \in Nat /\ MaxFrames \in Nat
    /\ MaxQueue \in Nat /\ MaxPending \in Nat

VARIABLES
    mute,    \* motors that answer nothing any more
    frames,  \* frames sent so far, polling apart
    last,    \* history: the last enter, exit or clear of a motor on the bus
    daemon,  \* the CAN daemon runs
    pending, \* frames it has accepted and not transmitted
    link,    \* the interface is up
    sock,    \* socket_status of the dashboard
    queue,   \* frames in the socket of each monitor
    lost,    \* history: a frame was not heard, or never came to the bus
    hint,    \* enabled_hint
    age,     \* dashboard: ticks since last_t, Never for none
    txOn,    \* tx_enabled
    conn,    \* CommandService: off, on, or stale, on to a daemon that is gone
    poll,    \* mit_poll_can_ids
    held     \* the motors the last poll round reached

bus     == <<mute, frames, last>>
server  == <<daemon, pending, link>>
rxState == <<sock, queue, lost>>
seen    == <<hint, age>>
command == <<txOn, conn, poll, held>>
vars    == <<bus, server, rxState, seen, command>>

Never == Timeout + 2

Init ==
    /\ mute = {} /\ frames = 0 /\ last = [m \in Motors |-> "none"]
    /\ daemon = TRUE /\ pending = <<>> /\ link = TRUE
    /\ sock = "disconnected" /\ queue = [w \in Monitors |-> <<>>]
    /\ lost = [w \in Monitors |-> FALSE]
    /\ hint = [w \in Monitors |-> [m \in Motors |-> "none"]]
    /\ age = [m \in Motors |-> Never]
    /\ txOn = FALSE /\ conn = "off" /\ poll = {} /\ held = {}

(* Mutant: an error that was cleared leaves the motor shown enabled. *)
HintIgnoresClear(kind, old) ==
    CASE kind = "enter" -> "on" [] kind = "exit" -> "off" [] OTHER -> old

(* What a frame says of a motor: clearing an error disables it. *)
HintAfter(kind, old) ==
    CASE kind = "enter" -> "on" [] kind \in {"exit", "clear"} -> "off"
      [] OTHER -> old

-------------------------------------------------------------------------------
(* The bus *)

(* A frame reaches every socket that is bound and has room: the dashboard's  *)
(* misses what is sent while it is closed or full.                           *)
OnBus(f) ==
    LET hears(w) == (w = "tool" \/ sock = "connected") /\ Len(queue[w]) < MaxQueue
    IN  /\ queue' = [w \in Monitors |-> IF hears(w) THEN Append(queue[w], f)
                                         ELSE queue[w]]
        /\ lost' = [w \in Monitors |-> lost[w] \/ ~hears(w)]
        /\ last' = [last EXCEPT ![f.id] = IF f.kind = "mit" THEN @
                                          ELSE IF f.kind = "enter" THEN "on" ELSE "off"]

(* A motor's status or acknowledge. *)
DeviceSend(f) ==
    /\ link /\ f.id \notin mute /\ frames < MaxFrames
    /\ frames' = frames + 1 /\ OnBus(f)
    /\ UNCHANGED <<mute, server, sock, seen, command>>

FallSilent(m) ==
    /\ m \notin mute /\ mute' = mute \cup {m}
    /\ UNCHANGED <<frames, last, server, rxState, seen, command>>

(* The controller sends through the daemon. *)
ControllerSend(f) ==
    /\ daemon /\ Len(pending) < MaxPending /\ frames < MaxFrames
    /\ frames' = frames + 1 /\ pending' = Append(pending, f)
    /\ UNCHANGED <<mute, last, daemon, link, rxState, seen, command>>

(* The daemon's TX thread drops a frame the interface does not take. *)
Transmit ==
    /\ daemon /\ pending # <<>> /\ pending' = Tail(pending)
    /\ IF link THEN OnBus(Head(pending))
       ELSE /\ lost' = [w \in Monitors |-> TRUE]
            /\ UNCHANGED <<queue, last>>
    /\ UNCHANGED <<mute, frames, daemon, link, sock, seen, command>>

(* The daemon ends, with the frames it had accepted, or comes back. The      *)
(* dashboard still takes its connection for good.                            *)
DaemonTurns ==
    /\ "daemon" \in Faults
    /\ daemon' = ~daemon /\ pending' = <<>>
    /\ lost' = IF pending = <<>> THEN lost ELSE [w \in Monitors |-> TRUE]
    /\ conn' = IF conn = "on" THEN "stale" ELSE conn
    /\ UNCHANGED <<bus, link, sock, queue, seen, txOn, poll, held>>

LinkTurns ==
    /\ "link" \in Faults /\ link' = ~link
    /\ UNCHANGED <<bus, daemon, pending, rxState, seen, command>>

-------------------------------------------------------------------------------
(* socketcan_loop and the tool's loop *)

(* open_can_socket, tried once a second. *)
OpenSocket ==
    /\ sock = "disconnected" /\ link
    /\ sock' = "connected"
    /\ UNCHANGED <<bus, server, queue, lost, seen, command>>

(* recv raises: the socket is closed and what it held is gone. *)
SocketFails ==
    /\ sock = "connected" /\ ~link /\ queue["dash"] = <<>>
    /\ sock' = "disconnected"
    /\ UNCHANGED <<bus, server, queue, lost, seen, command>>

Heard(w) ==
    LET f == Head(queue[w]) IN
    /\ queue[w] # <<>>
    /\ queue' = [queue EXCEPT ![w] = Tail(@)]
    /\ hint' = [hint EXCEPT ![w][f.id] = HintAfter(f.kind, @)]

(* mark_rx: any frame under the identifier counts as a sign of life. *)
MarkRx ==
    /\ Heard("dash") /\ age' = [age EXCEPT ![Head(queue["dash"]).id] = 0]
    /\ UNCHANGED <<bus, server, sock, lost, command>>

(* handle_rx_frame of the terminal tool. *)
HandleRxFrame ==
    /\ Heard("tool")
    /\ UNCHANGED <<bus, server, sock, lost, age, command>>

(* Mutant: a status, once online, stays. *)
StatusEver(m) == IF age[m] = Never THEN "never" ELSE "online"

(* _motor_snapshot and NodeState.snapshot. *)
Status(m) ==
    IF age[m] = Never THEN "never"
    ELSE IF age[m] > Timeout THEN "timeout" ELSE "online"

-------------------------------------------------------------------------------
(* CommandService *)

Lock ==
    /\ txOn' = FALSE
    /\ UNCHANGED <<bus, server, rxState, seen, conn, poll, held>>

Unlock ==
    /\ txOn' = TRUE
    /\ UNCHANGED <<bus, server, rxState, seen, conn, poll, held>>

(* Mutant: a failed send leaves the service connected. *)
ConnAfterKept(ok) == IF ok THEN "on" ELSE conn

(* require_tx connects again after a send that failed. *)
ConnAfter(ok) == IF ok THEN "on" ELSE "off"

(* A send reaches the daemon over its connection or a new one. *)
Reaches == daemon /\ conn # "stale"

(* send_raw of an endpoint, and mark_tx: enter and exit are shown before any *)
(* motor has seen them. A stale connection fails at its next use.            *)
SendRaw(m, kind) ==
    /\ txOn /\ frames < MaxFrames /\ Len(pending) < MaxPending
    /\ frames' = frames + 1
    /\ conn' = ConnAfter(Reaches)
    /\ IF Reaches THEN /\ pending' = Append(pending, [id |-> m, kind |-> kind])
                       /\ hint' = [hint EXCEPT !["dash"][m] = HintAfter(kind, @)]
                       /\ age' = [age EXCEPT ![m] = 0]
       ELSE UNCHANGED <<pending, hint, age>>
    /\ UNCHANGED <<mute, last, daemon, link, rxState, txOn, poll, held>>

PollStart(m) ==
    /\ poll' = poll \cup {m}
    /\ UNCHANGED <<bus, server, rxState, seen, txOn, conn, held>>

PollStop(m) ==
    /\ poll' = poll \ {m}
    /\ UNCHANGED <<bus, server, rxState, seen, txOn, conn, held>>

(* A round of mit_poll_loop: hold frames in the order of the identifiers,    *)
(* until a CommandError ends the round.                                      *)
PollRound ==
    /\ poll # {} /\ Len(pending) + Cardinality(poll) <= MaxPending
    /\ conn' = IF txOn THEN ConnAfter(Reaches) ELSE conn
    /\ IF txOn /\ Reaches
       THEN /\ \E ids \in [1..Cardinality(poll) -> poll] :
                 /\ \A k \in DOMAIN ids : \A j \in 1..(k-1) : ids[j] < ids[k]
                 /\ pending' = pending \o
                      [k \in DOMAIN ids |-> [id |-> ids[k], kind |-> "mit"]]
            /\ held' = poll
       ELSE held' = {} /\ UNCHANGED pending
    /\ UNCHANGED <<bus, daemon, link, rxState, seen, txOn, poll>>

Tick ==
    /\ age' = [m \in Motors |-> IF age[m] <= Timeout THEN age[m] + 1 ELSE age[m]]
    /\ UNCHANGED <<bus, server, rxState, hint, command>>

-------------------------------------------------------------------------------
Next ==
    \/ \E f \in Frame : DeviceSend(f) \/ ControllerSend(f)
    \/ \E m \in Motors : FallSilent(m) \/ PollStart(m) \/ PollStop(m)
    \/ \E m \in Motors, kind \in {"enter", "exit"} : SendRaw(m, kind)
    \/ MarkRx \/ HandleRxFrame
    \/ Transmit \/ DaemonTurns \/ LinkTurns \/ OpenSocket \/ SocketFails
    \/ Lock \/ Unlock \/ PollRound \/ Tick

Spec == Init /\ [][Next]_vars

(* The daemon, the loops and time go on; requests and faults need not come.  *)
FairSpec ==
    /\ Spec /\ WF_vars(Transmit) /\ WF_vars(OpenSocket) /\ WF_vars(SocketFails)
    /\ WF_vars(MarkRx) /\ WF_vars(HandleRxFrame)
    /\ WF_vars(PollRound) /\ WF_vars(Tick)

-------------------------------------------------------------------------------
(* Properties *)

Settled(w, m) ==
    /\ queue[w] = <<>> /\ ~lost[w]
    /\ \A k \in DOMAIN pending : pending[k].id = m => pending[k].kind = "mit"

(* A monitor that missed nothing shows a motor enabled or not by the last    *)
(* command of the bus, whoever sent it, once no command is under way: the    *)
(* hints the dashboard sets when it sends are overtaken by none, and the two *)
(* monitors agree.                                                           *)
HintIsLastOnBus ==
    \A w \in Monitors, m \in Motors : Settled(w, m) => hint[w][m] = last[m]

Quiet(m) ==
    \A k \in DOMAIN pending : pending[k].id # m

(* When nobody addresses a motor any more and it sends nothing, the          *)
(* dashboard stops showing it online.                                        *)
SilenceTimesOut ==
    \A m \in Motors :
        <>[](Quiet(m) /\ m \in mute) => <>[](Status(m) # "online")

(* A motor that is polled gets its hold frames again after the daemon was    *)
(* restarted, without a request.                                             *)
PollRecovers ==
    \A m \in Motors : <>[](m \in poll /\ txOn /\ daemon) => []<>(m \in held)
===============================================================================
