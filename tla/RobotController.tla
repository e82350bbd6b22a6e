---------------------------- MODULE RobotController ----------------------------
(***************************************************************************)
(* The running robot controller and everything that shares state with it:  *)
(*   - the 500 Hz loop of RobotController (run, tick, shutdown),            *)
(*   - the dashboard process that writes OperatorCommandShm and may send    *)
(*     CAN frames of its own past a gate on the published state,            *)
(*   - the task controller that writes ControlCommandShm,                   *)
(*   - the SPG firmware of every actuator (the bus delivers at once; the    *)
(*     daemon's queue is a component of its own).                           *)
(* A behaviour starts where start() has ended: segments zeroed, state       *)
(* published once, children running, motors not in MIT mode.                *)
(***************************************************************************)
EXTENDS ControllerStateMachine, Naturals, Sequences, FiniteSets

CONSTANTS
    Actuators,        \* the CAN IDs of robot_spec.actuators
    EnableDuration,   \* enable_duration_s in units of the model's clock
    OperatorCodes,    \* the codes the operator surface publishes
    ZeroRequests,     \* the target lists a zero-set request may carry
    Blocks,           \* the fields of OperatorCommandC one copy step moves
    Stamps,           \* timestamps a publication can carry
    ZeroStamp,        \* the timestamp of the zeroed segment
    NoStamp,          \* _last_consumed_operator_timestamp_ns = None
    DirectTx,         \* the dashboard's TX lock is open
    Faults            \* what may go wrong: "send", "task", "stale"

Fields == {"ts", "code", "count", "targets"}

ASSUME ActuatorsAssumption == Actuators # {} /\ IsFiniteSet(Actuators)

ASSUME DurationAssumption == EnableDuration \in Nat

ASSUME CodesAssumption == OperatorCodes \subseteq OperatorCommandCode

ASSUME ZeroRequestsAssumption == ZeroRequests \subseteq Seq(Actuators)

ASSUME BlocksAssumption ==
    /\ Blocks \subseteq SUBSET Fields
    /\ UNION Blocks = Fields

ASSUME StampsAssumption ==
    /\ ZeroStamp \notin Stamps
    /\ NoStamp \notin Stamps \cup {ZeroStamp}

ASSUME DirectTxAssumption == DirectTx \in BOOLEAN

ASSUME FaultsAssumption == Faults \subseteq {"send", "task", "stale"}

VARIABLES
    mode,       \* state_machine.mode
    age,        \* now - mode_enter_time, counted up to EnableDuration
    lastTs,     \* _last_consumed_operator_timestamp_ns
    acted,      \* history: the latest published command was acted on
    phase,      \* "run", "stopping" (shutdown()) or "stopped"
    running,    \* _running
    pc,         \* the control thread is between ticks ("idle") or in a for-loop ("send")
    opCode,     \* the command code tick() works on
    frame,      \* _last_output_source: the output path being sent
    batch,      \* the actuators the for-loop still has to send to
    txFailed,   \* history: a DISABLE of shutdown() was not sent
    opShm,      \* OperatorCommandShm, one slot
    cmd,        \* the command the dashboard is copying into the slot
    copying,    \* the blocks of cmd not yet visible in the slot
    pub,        \* what the dashboard's gates make of control_state
    granted,    \* dashboard requests past their gate, not yet sent
    taskAlive,  \* the task controller process runs
    policy,     \* the CAN IDs visible in ControlCommandShm
    motor,      \* per actuator: the firmware's latched command
    hold        \* actuators whose firmware ignores control after set-zero

controlVars == <<mode, age, lastTs, phase, running, pc, opCode, frame, batch,
                 txFailed>>
slotVars    == <<opShm, cmd, copying, acted>>
childVars   == <<granted, taskAlive, policy>>
motorVars   == <<motor, hold>>
vars == <<controlVars, slotVars, pub, childVars, motorVars>>

-------------------------------------------------------------------------------
(* Types *)

Frames     == {"NONE", "DISABLE", "ENABLE", "ZERO_SET", "DAMPING", "POLICY"}
MotorState == {"off", "idle", "damping", "manual", "policy"}
Gated      == {"ENABLE", "ZERO_SET"}              \* send_raw tests the state
Ungated    == {"DISABLE", "DAMPING", "MANUAL"}    \* ... and does not

OperatorCommand ==
    [ts: Stamps \cup {ZeroStamp}, code: OperatorCommandCode,
     count: Nat, targets: Seq(Actuators)]

(* The zeroed segment ShmManager.create_all leaves. *)
ClearCommand ==
    [ts |-> ZeroStamp, code |-> "NONE", count |-> 0, targets |-> <<>>]

(* The program's variables stay in their types. *)
TypeOK ==
    /\ mode \in ControllerMode
    /\ age \in 0..EnableDuration
    /\ lastTs \in Stamps \cup {ZeroStamp, NoStamp}
    /\ acted \in BOOLEAN
    /\ phase \in {"run", "stopping", "stopped"}
    /\ running \in BOOLEAN
    /\ pc \in {"idle", "send"}
    /\ opCode \in OperatorCommandCode
    /\ frame \in Frames
    /\ batch \in SUBSET Actuators
    /\ txFailed \in BOOLEAN
    /\ opShm \in OperatorCommand
    /\ cmd \in OperatorCommand
    /\ copying \in SUBSET Blocks
    /\ pub \in {"normal", "armed", "blocked"}
    /\ granted \in SUBSET (Actuators \X Gated)
    /\ taskAlive \in BOOLEAN
    /\ policy \in SUBSET Actuators
    /\ motor \in [Actuators -> MotorState]
    /\ hold \in SUBSET Actuators

(* The published mode as the dashboard's gates tell it apart: zero-set      *)
(* needs NORMAL, and ENABLE_BLOCK_STATES refuses DISABLED and ESTOP as it   *)
(* does a state that is stale or missing.                                   *)
Seen(m) ==
    CASE m = "NORMAL"                                   -> "normal"
      [] m \in {"ENABLING", "DAMPING", "ZERO_SETTING"} -> "armed"
      [] m \in {"DISABLED", "ESTOP"}                   -> "blocked"

Init ==
    /\ mode = "DISABLED"  /\ age = 0
    /\ lastTs = NoStamp   /\ acted = TRUE
    /\ phase = "run"      /\ running = TRUE
    /\ pc = "idle"        /\ opCode = "NONE"
    /\ frame = "NONE"     /\ batch = {}
    /\ txFailed = FALSE
    /\ opShm = ClearCommand /\ cmd = ClearCommand /\ copying = {}
    /\ pub = Seen("DISABLED")
    /\ granted = {}  /\ taskAlive = TRUE
    /\ policy = {}
    /\ motor = [a \in Actuators |-> "off"]  /\ hold = {}

-------------------------------------------------------------------------------
(* SPG firmware: what one received frame does to the latched command.       *)
(* `held` is the window after a set-zero in which control is ignored.       *)

Control(m, held, k) == IF m = "off" \/ held THEN m ELSE k

(* Mutant: the set-zero window ignores exit frames as well. *)
OnFrameHoldsExit(m, held, f) ==
    CASE f = "DISABLE" -> IF held THEN m ELSE "off"
      [] f = "ENABLE"  -> "idle"
      [] f = "DAMPING" -> Control(m, held, "damping")
      [] f = "POLICY"  -> Control(m, held, "policy")
      [] f = "MANUAL"  -> Control(m, held, "manual")
      [] OTHER         -> m

(* SpgFirmware.on_can_frame. *)
OnFrame(m, held, f) ==
    CASE f = "DISABLE" -> "off"
      [] f = "ENABLE"  -> "idle"
      [] f = "DAMPING" -> Control(m, held, "damping")
      [] f = "POLICY"  -> Control(m, held, "policy")
      [] f = "MANUAL"  -> Control(m, held, "manual")
      [] OTHER         -> m

(* handle_set_zero_position opens the window, MIT mode or not. *)
HoldAfter(a, f) == IF f = "ZERO_SET" THEN hold \cup {a} ELSE hold

(* ignore_control_until_time_ passes for actuator a. *)
HoldExpires(a) ==
    /\ a \in hold
    /\ hold' = hold \ {a}
    /\ UNCHANGED <<controlVars, slotVars, pub, childVars, motor>>

-------------------------------------------------------------------------------
(* The dashboard.  Its handlers never await between a gate and what the     *)
(* gate guards, so it does one of these at a time.                          *)

DashIdle == phase # "stopped" /\ copying = {} /\ granted = {}

(* Mutant: the stamp of a publication may repeat the consumed one. *)
PublishRepeatsStamp(code, targets) ==
    /\ \E t \in Stamps \ {opShm.ts} :
          cmd' = [ts |-> t, code |-> code,
                  count |-> Len(targets), targets |-> targets]
    /\ copying' = Blocks
    /\ acted' = FALSE
    /\ UNCHANGED <<controlVars, opShm, pub, childVars, motorVars>>

(* _build_command: a timestamp no command still in use carries. *)
Publish(code, targets) ==
    /\ \E t \in Stamps \ {opShm.ts, lastTs} :
          cmd' = [ts |-> t, code |-> code,
                  count |-> Len(targets), targets |-> targets]
    /\ copying' = Blocks
    /\ acted' = FALSE
    /\ UNCHANGED <<controlVars, opShm, pub, childVars, motorVars>>

(* The operator endpoints arm, run, damping, fault-clear and estop. *)
PublishOperator(code) ==
    /\ DashIdle
    /\ code \in OperatorCodes \ {"ZERO_SET"}
    /\ Publish(code, <<>>)

(* publish_operator_zero_set: gated on a published NORMAL. *)
PublishZeroSet(targets) ==
    /\ DashIdle
    /\ "ZERO_SET" \in OperatorCodes
    /\ pub = "normal"
    /\ Publish("ZERO_SET", targets)

(* OperatorCommandShm.write, one indivisible block at a time: nothing       *)
(* orders the copy against the controller's read.                           *)
CopyBlock(b) ==
    /\ phase # "stopped"
    /\ b \in copying
    /\ copying' = copying \ {b}
    /\ opShm' = [ts      |-> IF "ts" \in b THEN cmd.ts ELSE opShm.ts,
                 code    |-> IF "code" \in b THEN cmd.code ELSE opShm.code,
                 count   |-> IF "count" \in b THEN cmd.count ELSE opShm.count,
                 targets |-> IF "targets" \in b THEN cmd.targets
                                                ELSE opShm.targets]
    /\ UNCHANGED <<controlVars, cmd, acted, pub, childVars, motorVars>>

(* The gates of send_raw: reject_motor_enable_when_blocked and              *)
(* reject_motor_zero_when_not_normal.                                       *)
GateOpen(f) ==
    CASE f = "ENABLE"   -> pub # "blocked"
      [] f = "ZERO_SET" -> pub = "normal"

(* motor_enter, motor_zero or the same frame by can_send: the gate passes   *)
(* on what control_state says now ...                                       *)
Grant(a, f) ==
    /\ DirectTx /\ DashIdle
    /\ GateOpen(f)
    /\ granted' = {<<a, f>>}
    /\ UNCHANGED <<controlVars, slotVars, pub, taskAlive, policy, motorVars>>

(* ... and the frame goes out later. *)
SendGranted(a, f) ==
    /\ phase # "stopped"
    /\ <<a, f>> \in granted
    /\ granted' = granted \ {<<a, f>>}
    /\ motor' = [motor EXCEPT ![a] = OnFrame(@, a \in hold, f)]
    /\ hold' = HoldAfter(a, f)
    /\ UNCHANGED <<controlVars, slotVars, pub, taskAlive, policy>>

(* No gate: motor_exit, motor_mit_hold (kp = 0, kd = 0.5), also sent by     *)
(* mit_poll_loop, and a MIT control payload given to can_send.              *)
SendDirect(a, f) ==
    /\ DirectTx /\ DashIdle
    /\ motor' = [motor EXCEPT ![a] = OnFrame(@, a \in hold, f)]
    /\ UNCHANGED <<controlVars, slotVars, pub, childVars, hold>>

(* The age of control_state passes stale_timeout_s. *)
ControlStateStale ==
    /\ "stale" \in Faults
    /\ pub # "blocked"
    /\ pub' = "blocked"
    /\ UNCHANGED <<controlVars, slotVars, childVars, motorVars>>

-------------------------------------------------------------------------------
(* The task controller writes the same CAN IDs every period; only its first *)
(* write changes which IDs are visible, and that write may be seen torn.    *)

TaskWrite(ids) ==
    /\ taskAlive
    /\ policy \subseteq ids /\ policy # ids
    /\ policy' = ids
    /\ UNCHANGED <<controlVars, slotVars, pub, granted, taskAlive, motorVars>>

TaskDies ==
    /\ "task" \in Faults
    /\ taskAlive
    /\ taskAlive' = FALSE
    /\ UNCHANGED <<controlVars, slotVars, pub, granted, policy, motorVars>>

(* /api/processes/task_controller/start. *)
TaskStarts ==
    /\ DashIdle /\ ~taskAlive
    /\ taskAlive' = TRUE
    /\ UNCHANGED <<controlVars, slotVars, pub, granted, policy, motorVars>>

-------------------------------------------------------------------------------
(* The control loop *)

(* Mutant: the timer runs one step past its bound. *)
ClockOverruns ==
    /\ mode = "ENABLING" /\ phase = "run"
    /\ age <= EnableDuration
    /\ age' = age + 1
    /\ UNCHANGED <<mode, lastTs, phase, running, pc, opCode, frame,
                   batch, txFailed, slotVars, pub, childVars, motorVars>>

(* Time passes while the enabling timer runs. *)
ClockAdvances ==
    /\ mode = "ENABLING" /\ phase = "run"
    /\ age < EnableDuration
    /\ age' = age + 1
    /\ UNCHANGED <<mode, lastTs, phase, running, pc, opCode, frame,
                   batch, txFailed, slotVars, pub, childVars, motorVars>>

(* _consume_operator_command: a stamp seen before reads as NONE. *)
AlreadyConsumed == opShm.code # "NONE" /\ opShm.ts = lastTs

ConsumedCode == IF AlreadyConsumed THEN "NONE" ELSE opShm.code

(* _zero_set_offsets_by_can_id, then every actuator when it names none.     *)
(* The zero-filled slots behind a short target list are can_id 0, skipped.  *)
ZeroSetNamed ==
    {opShm.targets[i] : i \in 1..opShm.count \cap DOMAIN opShm.targets}

ZeroSetTargets == IF ZeroSetNamed = {} THEN Actuators ELSE ZeroSetNamed

(* Mutant: frames are sent only by the tick that enters a mode. *)
TargetsOnEntry(m) ==
    CASE m = mode              -> {}
      [] m # mode /\ m = "ZERO_SETTING" -> ZeroSetTargets
      [] m # mode /\ m = "NORMAL"       -> policy
      [] OTHER                 -> Actuators

(* The actuators the output path of mode m addresses. *)
TargetsOf(m) ==
    CASE m = "ZERO_SETTING" -> ZeroSetTargets
      [] m = "NORMAL"       -> policy
      [] OTHER              -> Actuators

(* Mutant: every ENABLE restarts the enabling timer. *)
AgeRestarted(m) == IF m = mode /\ ConsumedCode # "ENABLE" THEN age ELSE 0

(* enter(): mode_enter_time is set on a change of mode only. *)
AgeIn(m) == IF m = mode THEN age ELSE 0

(* run() enters tick(): the IMU request is sent, the slot read, the mode    *)
(* updated and the output path chosen.                                      *)
TickUpdate ==
    LET next == Update(mode, ConsumedCode, age = EnableDuration) IN
    /\ phase = "run" /\ running /\ pc = "idle"
    /\ lastTs' = IF opShm.code = "NONE" THEN lastTs ELSE opShm.ts
    /\ acted' = (acted \/ (~AlreadyConsumed /\ opShm.code = cmd.code))
    /\ opCode' = ConsumedCode
    /\ mode' = next
    /\ age' = AgeIn(next)
    /\ frame' = OutputPath(next)
    /\ batch' = TargetsOf(next)
    /\ pc' = "send"
    /\ UNCHANGED <<phase, running, txFailed, opShm, cmd, copying, pub,
                   childVars, motorVars>>

(* One send_frame of the for-loop, acknowledged by the daemon. *)
SendFrame(a) ==
    /\ pc = "send" /\ a \in batch
    /\ batch' = batch \ {a}
    /\ motor' = [motor EXCEPT ![a] = OnFrame(@, a \in hold, frame)]
    /\ hold' = HoldAfter(a, frame)
    /\ UNCHANGED <<mode, age, lastTs, phase, running, pc, opCode,
                   frame, txFailed, slotVars, pub, childVars>>

(* _publish_state past ShmStatePublisher's rate limit, and below it. *)
EndTick ==
    /\ phase = "run" /\ pc = "send" /\ batch = {}
    /\ pc' = "idle"
    /\ opCode' = "NONE"
    /\ UNCHANGED <<mode, age, lastTs, phase, running, frame, batch,
                   txFailed, slotVars, childVars, motorVars>>

PublishState == EndTick /\ pub' = Seen(mode)

SkipPublish == EndTick /\ UNCHANGED pub

(* SIGINT or SIGTERM: request_stop. *)
RequestStop ==
    /\ phase = "run" /\ running
    /\ running' = FALSE
    /\ UNCHANGED <<mode, age, lastTs, phase, pc, opCode, frame,
                   batch, txFailed, slotVars, pub, childVars, motorVars>>

-------------------------------------------------------------------------------
(* shutdown(), entered from main's finally *)

(* shutdown() up to its first send. *)
BeginShutdown ==
    /\ phase' = "stopping"
    /\ running' = FALSE
    /\ pc' = "send"
    /\ opCode' = "NONE"
    /\ frame' = "DISABLE"
    /\ batch' = Actuators
    /\ UNCHANGED <<mode, age, lastTs, txFailed, slotVars, pub,
                   childVars, motorVars>>

(* Mutant: the loop is left in DISABLED only. *)
ExitLoopWaits ==
    /\ phase = "run" /\ pc = "idle" /\ ~running
    /\ mode = "DISABLED"
    /\ BeginShutdown

(* run() sees _running false between two ticks. *)
ExitLoop ==
    /\ phase = "run" /\ pc = "idle" /\ ~running
    /\ BeginShutdown

(* A send of tick() raises (daemon gone, queue full, value out of range):   *)
(* the exception leaves run() and main's finally shuts down.                *)
TickRaises ==
    /\ "send" \in Faults
    /\ phase = "run"
    /\ \/ pc = "idle" /\ running
       \/ pc = "send" /\ batch # {}
    /\ BeginShutdown

(* A send of shutdown() raises: logged, the rest of the loop is skipped.    *)
DisableRaises ==
    /\ "send" \in Faults
    /\ phase = "stopping" /\ pc = "send" /\ batch # {}
    /\ batch' = {}
    /\ txFailed' = TRUE
    /\ UNCHANGED <<mode, age, lastTs, phase, running, pc, opCode,
                   frame, slotVars, pub, childVars, motorVars>>

(* processes.stop_all, the forced publication and _close_runtime. *)
FinishShutdown ==
    /\ phase = "stopping" /\ pc = "send" /\ batch = {}
    /\ phase' = "stopped"
    /\ pc' = "idle"
    /\ pub' = Seen(mode)
    /\ taskAlive' = FALSE /\ granted' = {}
    /\ UNCHANGED <<mode, age, lastTs, running, opCode, frame, batch,
                   txFailed, slotVars, policy, motorVars>>

(* The process has ended. *)
Terminated == phase = "stopped" /\ UNCHANGED vars

-------------------------------------------------------------------------------
Controller ==
    \/ TickUpdate \/ PublishState \/ SkipPublish
    \/ ExitLoop \/ FinishShutdown
    \/ \E a \in Actuators : SendFrame(a)

Failures == TickRaises \/ DisableRaises \/ TaskDies

Dashboard ==
    \/ \E code \in OperatorCodes : PublishOperator(code)
    \/ \E targets \in ZeroRequests : PublishZeroSet(targets)
    \/ \E b \in Blocks : CopyBlock(b)
    \/ \E a \in Actuators, f \in Gated : Grant(a, f) \/ SendGranted(a, f)
    \/ \E a \in Actuators, f \in Ungated : SendDirect(a, f)
    \/ TaskStarts

Environment ==
    \/ ClockAdvances \/ RequestStop \/ ControlStateStale
    \/ \E ids \in SUBSET Actuators : TaskWrite(ids)
    \/ \E a \in Actuators : HoldExpires(a)

Next == Controller \/ Failures \/ Dashboard \/ Environment \/ Terminated

Spec == Init /\ [][Next]_vars
-------------------------------------------------------------------------------
(* Fairness.  The control thread runs at 500 Hz and takes its next step;    *)
(* the rate limit lets a publication through once its period has passed;    *)
(* clocks run; a memory copy that started ends while its process lives.     *)

Fairness ==
    /\ WF_vars(Controller)
    /\ SF_vars(PublishState)
    /\ WF_vars(ClockAdvances)
    /\ \A a \in Actuators : WF_vars(HoldExpires(a))
    /\ \A b \in Blocks : WF_vars(CopyBlock(b))

FairSpec == Spec /\ Fairness

-------------------------------------------------------------------------------
(* Safety *)

(* Once a tick in DISABLED, ESTOP or ENABLING has passed an actuator, and   *)
(* once shutdown() has sent it DISABLE, its firmware no longer latches a    *)
(* policy command, whatever the dashboard sends meanwhile.                  *)
NoPolicyInCutModes ==
    \A a \in Actuators :
        motor[a] = "policy" =>
            \/ phase = "run" /\ mode \in {"NORMAL", "DAMPING", "ZERO_SETTING"}
            \/ pc = "send" /\ a \in batch
            \/ txFailed

(* With the dashboard's TX locked, an actuator is in MIT mode in DISABLED   *)
(* or ESTOP only until the tick that entered the mode reaches it; after     *)
(* shutdown() no actuator is, unless a send of the shutdown failed.         *)
CutModesAreOff ==
    ~DirectTx =>
        \A a \in Actuators :
            motor[a] # "off" =>
                \/ phase = "run" /\ mode \notin {"DISABLED", "ESTOP"}
                \/ pc = "send" /\ a \in batch
                \/ txFailed

(* A frame in flight belongs to the mode it was chosen in: the mode never   *)
(* changes under a batch, and an ENABLE batch never survives into shutdown. *)
BatchMatchesMode ==
    pc = "send" => frame = (IF phase = "run" THEN OutputPath(mode)
                                             ELSE "DISABLE")

(* controller.py logs "Ignoring already-consumed operator command": a       *)
(* command dropped for its timestamp is one whose code was acted on.        *)
IgnoredWasConsumed ==
    [][TickUpdate /\ AlreadyConsumed /\ opShm = cmd => acted]_vars

(* The controller as an implementation of DriveAuthority. *)
LoadOf(m) ==
    CASE m = "off"               -> "off"
      [] m \in {"idle", "damping"} -> "passive"
      [] m = "manual"            -> "manual"
      [] m = "policy"            -> "driven"

Authority == INSTANCE DriveAuthority WITH
    Panel <- DirectTx,
    authority <- mode,
    load <- [a \in Actuators |-> LoadOf(motor[a])]

(* Every step of the running system is one DriveAuthority allows. *)
ImplementsDriveAuthority == Authority!Spec

-------------------------------------------------------------------------------
(* Liveness *)

(* An ESTOP that stands in the operator slot is acted on: the slot is       *)
(* overwritten, the loop ends, or the mode becomes ESTOP.                   *)
EstopHonoured ==
    (copying = {} /\ opShm.code = "ESTOP" /\ opShm.ts # lastTs /\ phase = "run")
        ~> (mode = "ESTOP" \/ opShm.code # "ESTOP" \/ phase # "run")

(* While ESTOP lasts every actuator gets out of MIT mode, the ones the      *)
(* dashboard switches on behind the controller's back included.             *)
EstopCutsMotors ==
    \A a \in Actuators :
        (mode = "ESTOP" /\ phase = "run")
            ~> (motor[a] = "off" \/ mode # "ESTOP" \/ phase # "run")

(* Once arming starts it ends: repeated ENABLE commands do not keep the     *)
(* enabling timer from reaching enable_duration_s.                          *)
EnablingEnds ==
    (mode = "ENABLING" /\ phase = "run")
        ~> (mode # "ENABLING" \/ phase # "run")

(* A damping request outlasts the firmware's set-zero window: no actuator   *)
(* keeps executing a policy command while the controller stays in DAMPING.  *)
DampingTakesEffect ==
    \A a \in Actuators :
        (mode = "DAMPING" /\ motor[a] = "policy")
            ~> (motor[a] # "policy" \/ mode # "DAMPING" \/ phase # "run")

(* A stop request ends in the stopped state, send failures included. *)
StopCompletes == ~running ~> phase = "stopped"

-------------------------------------------------------------------------------
(* What the repository's documents say and the code does not do *)

(* FALLBACK_POLICY.md, rule 7: NORMAL ends, or the task controller returns, *)
(* after the task controller has died.                                      *)
CommandNotHeldForever ==
    (mode = "NORMAL" /\ ~taskAlive /\ phase = "run")
        ~> (mode # "NORMAL" \/ taskAlive \/ phase # "run")
===============================================================================
