------------------------------ MODULE FeedbackPath ------------------------------
(***************************************************************************)
(* Feedback from a motor to the dashboard: the daemon's subscription, the  *)
(* client's receive thread with its dispatcher and echo filter, the drivers *)
(* with their freshness, the controller's snapshot, the published state and *)
(* the status the dashboard derives from it. Time is counted in ticks, and  *)
(* every time stamp is kept as its age, up to the age that decides.         *)
(***************************************************************************)
EXTENDS Integers, Sequences, FiniteSets

CONSTANTS
    Motors,       \* actuators
    Commands,     \* commands a motor acknowledges (enter, exit, set zero)
    Timeout,      \* feedback timeout of the drivers
    StaleTimeout, \* age at which the dashboard calls the state stale
    Window,       \* TX_ECHO_REJECT_WINDOW_S
    MaxInput,     \* frames waiting on the subscription (bound)
    MaxSends,     \* commands sent (bound)
    Faults        \* what may happen: drop (the subscription), die, bad (a frame)

ASSUME TimesAssumption ==
    /\ Timeout \in Nat /\ StaleTimeout \in Nat /\ Window \in Nat
    /\ MaxInput \in Nat /\ MaxSends \in Nat
    /\ {"status", "state", "flags", "copy"} \cap Commands = {}

(* A frame by what decode_frame tells apart. An acknowledge repeats the     *)
(* bytes of its command.                                                    *)
Frame == [id : Motors, kind : {"status"} \cup Commands]
NoFrame == [id |-> "none", kind |-> "none"]

VARIABLES
    mute,    \* the device sends nothing any more
    cmds,    \* commands under way to the motors
    conn,    \* the client's receive connection is open
    input,   \* frames sent to the client, not read yet
    rx,      \* receive thread: read, filter, iterate, merge, ended
    cur,     \* the frame it handles
    raced,   \* recent_tx_frames was appended to during the iteration
    recent,  \* recent_tx_frames: id, kind and age, oldest first
    drv,     \* driver and BestEffortCommManager of a motor
    ctl,     \* control thread: tick, remember, snap, body, dead
    todo,    \* the steps it has left, as pairs of a motor and a step
    snap,    \* the snapshot
    head,    \* age of the state block's time stamp, or Zero
    body,    \* the block's actuator records
    view,    \* dashboard: the age of the time stamp it has copied
    shown,   \* the status it derived: channel and motors
    sends    \* commands sent so far

rxVars  == <<conn, input, rx, cur, raced>>
ctlVars == <<ctl, todo, snap, sends>>
pubVars == <<head, body>>
dash    == <<view, shown>>
vars    == <<mute, cmds, rxVars, recent, drv, ctlVars, pubVars, dash>>

(* An age after a tick, no longer told apart above limit. *)
Older(a, limit) == IF a <= limit THEN a + 1 ELSE a

-------------------------------------------------------------------------------
(* What a snapshot says of a motor: has it any feedback, and is it online.   *)
Report == [fed : BOOLEAN, online : BOOLEAN]
NoReports == [m \in Motors |-> [fed |-> FALSE, online |-> FALSE]]

(* The drivers before their first frame. *)
Unfed == [m \in Motors |-> [fed |-> FALSE, age |-> Timeout + 1]]

(* No time stamp was written yet; the dashboard is not reading. *)
Zero == StaleTimeout + 2
Idle == StaleTimeout + 3

Init ==
    /\ mute = [m \in Motors |-> FALSE]
    /\ cmds = <<>>
    /\ conn = TRUE /\ input = <<>> /\ rx = "read" /\ raced = FALSE
    /\ cur = NoFrame /\ recent = <<>>
    /\ drv = Unfed
    /\ ctl = "tick" /\ todo = {} /\ sends = 0
    /\ snap = NoReports
    /\ head = Zero
    /\ body = NoReports
    /\ view = Idle
    /\ shown = [chan |-> "waiting", motor |-> [m \in Motors |-> "unmerged"]]

-------------------------------------------------------------------------------
(* The devices and the daemon's subscription *)

(* A device's own frame passes RxSubscribers.publish. *)
Emit(m) ==
    /\ ~mute[m] /\ conn /\ Len(input) < MaxInput
    /\ input' = Append(input, [id |-> m, kind |-> "status"])
    /\ UNCHANGED <<mute, cmds, conn, rx, cur, raced, recent, drv, ctlVars,
                   pubVars, dash>>

(* A motor executes the oldest command and acknowledges it. *)
Acknowledge ==
    /\ cmds # <<>> /\ Len(input) < MaxInput
    /\ cmds' = Tail(cmds)
    /\ input' = IF conn /\ ~mute[Head(cmds).id]
                THEN Append(input, Head(cmds)) ELSE input
    /\ UNCHANGED <<mute, conn, rx, cur, raced, recent, drv, ctlVars, pubVars,
                   dash>>

(* The device is switched off or its cable breaks. *)
FallSilent(m) ==
    /\ ~mute[m]
    /\ mute' = [mute EXCEPT ![m] = TRUE]
    /\ UNCHANGED <<cmds, rxVars, recent, drv, ctlVars, pubVars, dash>>

(* The daemon ends, or drops a subscriber whose socket did not take a frame *)
(* for 0.2 s: CANProcessClient reads the end and never connects again.      *)
DropSubscriber ==
    /\ "drop" \in Faults /\ conn
    /\ conn' = FALSE
    /\ UNCHANGED <<mute, cmds, input, rx, cur, raced, recent, drv, ctlVars,
                   pubVars, dash>>

-------------------------------------------------------------------------------
(* CANProcessClient._rx_loop, CANDispatcher.dispatch, is_recent_tx_echo *)

(* The next line, or the end of the stream. *)
RxRead ==
    /\ rx = "read"
    /\ IF input # <<>>
       THEN cur' = Head(input) /\ input' = Tail(input) /\ rx' = "filter"
       ELSE ~conn /\ rx' = "ended" /\ UNCHANGED <<cur, input>>
    /\ UNCHANGED <<mute, cmds, conn, raced, recent, drv, ctlVars, pubVars, dash>>

(* The oldest entries are dropped while they are outside the window, and    *)
(* the iteration begins.                                                    *)
RxPrune ==
    /\ rx = "filter"
    /\ rx' = "iterate"
    /\ \E k \in 1..(Len(recent) + 1) :
          /\ \A i \in 1..(k - 1) : recent[i].age > Window
          /\ k <= Len(recent) => recent[k].age <= Window
          /\ recent' = SubSeq(recent, k, Len(recent))
    /\ UNCHANGED <<mute, cmds, conn, input, cur, raced, drv, ctlVars, pubVars, dash>>

(* Mutant: the filter compares the identifier only. *)
IsEchoById == \E i \in DOMAIN recent : recent[i].id = cur.id

IsEcho ==
    \E i \in DOMAIN recent : recent[i].id = cur.id /\ recent[i].kind = cur.kind

(* Mutant: the dispatcher lets the exception through. *)
RxMatchRaises ==
    /\ rx = "iterate"
    /\ \/ IsEcho /\ rx' = "read"
       \/ ~IsEcho /\ ~raced /\ rx' = "merge"
       \/ raced /\ rx' = "ended"
    /\ raced' = FALSE /\ cur' = IF rx' = "merge" THEN cur ELSE NoFrame
    /\ UNCHANGED <<mute, cmds, conn, input, recent, drv, ctlVars, pubVars, dash>>

(* The result of any(). An append meanwhile raises unless a match came      *)
(* first; the dispatcher logs the exception, and the frame is gone.         *)
RxMatch ==
    /\ rx = "iterate"
    /\ \/ IsEcho /\ rx' = "read"
       \/ ~IsEcho /\ ~raced /\ rx' = "merge"
       \/ raced /\ rx' = "read"
    /\ raced' = FALSE /\ cur' = IF rx' = "merge" THEN cur ELSE NoFrame
    /\ UNCHANGED <<mute, cmds, conn, input, recent, drv, ctlVars, pubVars, dash>>

(* on_frame: what decodes is merged, stamps the feedback time and makes the *)
(* motor online, an acknowledge as well; a malformed frame is only counted.  *)
RxMerge ==
    /\ rx = "merge" /\ rx' = "read"
    /\ \/ drv' = [drv EXCEPT ![cur.id] = [fed |-> TRUE, age |-> 0]]
       \/ "bad" \in Faults /\ UNCHANGED drv
    /\ cur' = NoFrame
    /\ UNCHANGED <<mute, cmds, conn, input, raced, recent, ctlVars, pubVars, dash>>

-------------------------------------------------------------------------------
(* The control thread *)

(* send_frame: the daemon has answered, the frame is not remembered yet. *)
Send(m, kind) ==
    /\ ctl = "tick" /\ sends < MaxSends
    /\ sends' = sends + 1 /\ ctl' = "remember" /\ todo' = {<<m, kind>>}
    /\ cmds' = Append(cmds, [id |-> m, kind |-> kind])
    /\ UNCHANGED <<mute, rxVars, recent, drv, snap, pubVars, dash>>

(* remember_tx_frame. *)
Remember ==
    /\ ctl = "remember" /\ ctl' = "tick" /\ todo' = {}
    /\ \E f \in todo :
        recent' = Append(recent, [id |-> f[1], kind |-> f[2], age |-> 0])
    /\ raced' = (rx = "iterate")
    /\ UNCHANGED <<mute, cmds, conn, input, rx, cur, drv, snap, sends, pubVars,
                   dash>>

(* A MIT control frame is remembered: a status has its bytes only if the    *)
(* temperature reads as the target position, which is left out; but with    *)
(* 512 entries in the deque it displaces the oldest.                        *)
RememberControl ==
    /\ ctl = "tick" /\ raced' = (rx = "iterate")
    /\ recent' = recent \/ (recent # <<>> /\ recent' = Tail(recent))
    /\ UNCHANGED <<mute, cmds, conn, input, rx, cur, drv, ctlVars, pubVars, dash>>

(* The dashboard's own command, sent through its own client. *)
DashboardSend(m, kind) ==
    /\ sends < MaxSends
    /\ sends' = sends + 1
    /\ cmds' = Append(cmds, [id |-> m, kind |-> kind])
    /\ UNCHANGED <<mute, rxVars, recent, drv, ctl, todo, snap, pubVars,
                   dash>>

(* _make_snapshot reads a driver's state and its freshness in two steps.    *)
BeginSnapshot ==
    /\ ctl = "tick" /\ ctl' = "snap"
    /\ todo' = Motors \X {"state", "flags"}
    /\ UNCHANGED <<mute, cmds, rxVars, recent, drv, snap, sends, pubVars, dash>>

SnapState(m) ==
    /\ ctl = "snap" /\ <<m, "state">> \in todo
    /\ snap' = [snap EXCEPT ![m].fed = drv[m].fed]
    /\ todo' = todo \ {<<m, "state">>}
    /\ UNCHANGED <<mute, cmds, rxVars, recent, drv, ctl, sends, pubVars, dash>>

(* Mutant: the snapshot takes get_comm_status, which judges nothing. *)
FreshUnjudged(m) == drv[m].fed

(* update_fault_flags judges a motor by the age of its last frame. *)
Fresh(m) == drv[m].fed /\ drv[m].age <= Timeout

SnapFlags(m) ==
    /\ ctl = "snap" /\ <<m, "flags">> \in todo
    /\ <<m, "state">> \notin todo
    /\ snap' = [snap EXCEPT ![m].online = Fresh(m)]
    /\ todo' = todo \ {<<m, "flags">>}
    /\ UNCHANGED <<mute, cmds, rxVars, recent, drv, ctl, sends, pubVars, dash>>

(* The snapshot is stamped and published, but not within the period (a      *)
(* tick) of the last one. The block is copied from its start: the time      *)
(* stamp, then the records.                                                 *)
Publish ==
    /\ ctl = "snap" /\ todo = {}
    /\ IF head = 0
       THEN ctl' = "tick" /\ snap' = NoReports /\ UNCHANGED <<todo, head>>
       ELSE /\ ctl' = "body" /\ todo' = Motors \X {"copy"} /\ head' = 0
            /\ UNCHANGED snap
    /\ UNCHANGED <<mute, cmds, rxVars, recent, drv, sends, body, dash>>

CopyRecord(m) ==
    /\ ctl = "body" /\ <<m, "copy">> \in todo
    /\ body' = [body EXCEPT ![m] = snap[m]]
    /\ todo' = todo \ {<<m, "copy">>}
    /\ ctl' = IF todo' = {} THEN "tick" ELSE "body"
    /\ snap' = IF todo' = {} THEN NoReports ELSE snap
    /\ UNCHANGED <<mute, cmds, rxVars, recent, drv, sends, head, dash>>

(* The controller process is killed; its receive thread goes with it. *)
Die ==
    /\ "die" \in Faults /\ ctl # "dead"
    /\ ctl' = "dead" /\ todo' = {} /\ snap' = NoReports
    /\ rx' = "ended" /\ conn' = FALSE /\ input' = <<>> /\ cur' = NoFrame
    /\ raced' = FALSE /\ recent' = <<>> /\ drv' = Unfed
    /\ UNCHANGED <<mute, cmds, sends, pubVars, dash>>

-------------------------------------------------------------------------------
(* DashboardRobotStateReader *)

(* read_relaxed copies the block while it may be written. *)
DashReadHead ==
    /\ view = Idle
    /\ view' = head
    /\ UNCHANGED <<mute, cmds, rxVars, recent, drv, ctlVars, pubVars, shown>>

(* _read_channel: nothing published yet, stale or online. *)
Channel ==
    IF view = Zero THEN "waiting"
    ELSE IF view > StaleTimeout THEN "stale" ELSE "online"

(* _control_status. A stale state is merged as well, with its old flags;    *)
(* without a state the rows are those of the dashboard's own monitor.       *)
ControlStatus(m) ==
    IF ~body[m].fed THEN "never"
    ELSE IF body[m].online THEN "online" ELSE "timeout"

DashReadBody ==
    /\ view # Idle
    /\ view' = Idle
    /\ shown' = [chan |-> Channel,
                 motor |-> [m \in Motors |-> IF Channel = "waiting"
                              THEN "unmerged" ELSE ControlStatus(m)]]
    /\ UNCHANGED <<mute, cmds, rxVars, recent, drv, ctlVars, pubVars>>

-------------------------------------------------------------------------------
Tick ==
    /\ drv' = [m \in Motors |-> [drv[m] EXCEPT !.age = Older(@, Timeout)]]
    /\ recent' = [i \in DOMAIN recent |->
                    [recent[i] EXCEPT !.age = Older(@, Window)]]
    /\ head' = Older(head, StaleTimeout) /\ view' = Older(view, StaleTimeout)
    /\ UNCHANGED <<mute, cmds, rxVars, ctl, todo, snap, sends, body, shown>>

Rx == RxRead \/ RxPrune \/ RxMatch \/ RxMerge

Control ==
    \/ Remember \/ BeginSnapshot \/ Publish
    \/ \E m \in Motors : SnapState(m) \/ SnapFlags(m) \/ CopyRecord(m)

Dashboard == DashReadHead \/ DashReadBody

Next ==
    \/ \E m \in Motors : Emit(m) \/ FallSilent(m)
    \/ Acknowledge
    \/ DropSubscriber \/ Die
    \/ \E m \in Motors, kind \in Commands :
        Send(m, kind) \/ DashboardSend(m, kind)
    \/ RememberControl
    \/ Rx \/ Control \/ Dashboard \/ Tick

Spec == Init /\ [][Next]_vars

(* The threads run and time passes; devices, commands and faults need not.  *)
FairSpec ==
    /\ Spec
    /\ WF_vars(Rx) /\ WF_vars(Control) /\ WF_vars(Dashboard)
    /\ WF_vars(Acknowledge) /\ WF_vars(Tick)

-------------------------------------------------------------------------------
(* Properties *)

(* The only status frame the controller loses is one whose filtering ran    *)
(* into a send: is_recent_tx_echo never takes feedback for an echo.         *)
StatusOnlyLostToRace ==
    [][(rx = "iterate" /\ cur.kind = "status" /\ rx' = "read") => raced]_vars

(* The controller is deaf only if its subscription is gone: no frame and no *)
(* exception of a callback ends the receive thread.                         *)
DeafOnlyWhenDropped == rx = "ended" => ~conn

ShownOnline(m) == shown.chan = "online" /\ shown.motor[m] = "online"

(* A motor that falls silent is shown so for good, whatever fails: the      *)
(* motor itself, the daemon's subscription or the controller ("Feedback     *)
(* stale ... must be visible through telemetry", FALLBACK_POLICY.md).       *)
SilenceIsShown == \A m \in Motors : mute[m] ~> []~ShownOnline(m)
===============================================================================
