# QHRR0 / SPARQ control: TLA+ models, model checking and proofs

This directory is a verification development for the Python and C++ control
stack in `src/`. It models the control loop of the robot controller together
with every process that shares state with it: how that process starts, supervises
its children and ends; the path of a command from joystick and policy to a motor's
fixed-point frame; the CAN daemon all frames go through; the path of feedback from
a motor to the dashboard; the two programs that watch the bus; and the SPARQ_CAN
process with its shared-memory seqlock. TLC checks the models on small instances;
TLAPS proves the main safety results for all instances.

## 1. The system

| Part | Code | State it keeps | Operations |
| --- | --- | --- | --- |
| Mode machine | `robot_controller/state_machine.py` | `mode`, `mode_enter_time` | `update(command, now)`, `enter` |
| Control loop | `robot_controller/controller.py`, `main.py` | `_running`, last consumed timestamp, last output | `start`, `run`, `tick`, `request_stop`, `shutdown` |
| Operator slot | `robot_controller/shm/operator_command.py` | one `OperatorCommandC` | `publish`, `publish_zero_set`, `read_relaxed` |
| Control slot | `robot_controller/shm/control_command.py` | one `ControlCommandC` | `write_targets`, `read_relaxed` |
| State publication | `robot_controller/telemetry/` | last publication time, `control_state` | `publish` (rate limited, or forced) |
| Dashboard | `subprocesses/dashboard/backend/` | TX lock, CAN client, polled motors, readers, status and enabled hint of each motor | operator endpoints, actuator endpoints, raw send, MIT polling, process start/stop, bus monitoring |
| Task controller, joint initializer | `subprocesses/task_controller/`, `subprocesses/joint_initializer/` | policy state | a 50 Hz loop that reads state and aux command and writes the control slot |
| Aux reader | `subprocesses/aux_reader/` | axes and buttons of the joystick | neutral start, one event at a time, publication |
| Terminal monitor | `tools/can_monitor.py` | enabled hint of each motor | `handle_rx_frame` |
| Firmware (simulation) | `third_party/mujoco/simulate/mujoco_can/spg_firmware.cc` | `enabled_`, latched command, set-zero window | one handler per opcode |
| CAN daemon | `hal/can_bus/daemon.py`, `subprocesses/can_daemon/` | bounded TX queue, subscribers | `send`, TX loop, RX loop, `stop` |
| Transport | `hal/can_bus/process_client.py`, `process_transport.py`, `dispatcher.py` | sockets, recent TX frames, callbacks | `connect`, `send_frame`, `is_recent_tx_echo`, `dispatch` |
| Drivers, protocol | `hal/hardware/can/`, `qhrr0_hw/` | latest state, freshness | `on_frame`, `make_*_frame`, `update_fault_flags`, `snapshot` |
| Supervisor | `supervisor/process_supervisor.py` | `Popen` handles, pid files | `start_by_name`, `stop_by_name`, `is_alive` |
| Shared memory | `shm/manager.py` | five named segments | `cleanup_stale`, `create_all`, `unlink_all` |
| SPARQ CAN | `subprocesses/sparq_can/` | seqlock segment, motor objects | three threads and a signal handler |

**How they interact.** The dashboard process writes operator commands into one
slot of shared memory; the loop reads it in every tick, with neither lock nor
sequence number. The task controller writes MIT targets into a second slot,
which the loop reads in NORMAL only. The loop publishes its mode; the dashboard
reads the publication and gates MIT enter and set-zero on it. Both the loop and
the dashboard send frames to the same actuators through the CAN daemon, whose
clients wait for an acknowledgement of each frame. The firmware latches the
last command it accepted until it is told to exit.

**What is hard.** Everything shared is shared without a lock, on purpose
(`README.md`: no seqlock, no sequence counter). The slot holds one command, so
publications overwrite each other; reads can be torn; the gate of the dashboard
acts on a state that may be out of date when its frame goes out; a send may fail
in the middle of a batch and again in the shutdown that follows; the firmware
ignores control frames for a while after a set-zero; the task controller may die
or start late. The motors answer under the identifier they are addressed by, and
their acknowledges repeat the bytes of the command, so nobody on the bus can tell a
request from an answer. Two supervisors, the controller's and the dashboard's,
start and stop the same children and share nothing but pid files that a child in a
terminal window writes some time after it was launched. Signals arrive while
`start()` is still running.

**What makes it correct.** Policy torque exists only under NORMAL; DISABLED,
ESTOP and shutdown take every actuator out of MIT mode; NORMAL is entered from
DAMPING only and ESTOP left by RESET_FAULT only; an ESTOP that stays in the slot
is acted on; a command the loop ignores for its timestamp was acted on; arming
ends; a stop request ends the process. On the way to the bus, no frame overtakes
one that was acknowledged earlier, is sent twice, or is sent after its refusal;
every call of a client returns. Every motor is told the target of its own joint,
and a released stick is seen. A motor that falls silent is shown so, and no frame
ends the receive thread. A child runs once, a shutdown leaves neither children nor
segments, and both end whatever fails. In SPARQ_CAN, what a reader accepts is the latest
complete write, no motor moves before it is calibrated, and SIGINT ends the
process.

`PROJECT.json` lists the hazards at their lines, with the properties that cover
each of them.

## 2. Modules

| Module | Models |
| --- | --- |
| `ControllerStateMachine` | `update()` as the operator `Update(mode, code, expired)`, and `OutputPath(mode)`, the one frame kind `tick()` sends in a mode |
| `DriveAuthority` | the abstract specification: which authority may follow which, who may energise, drive and steer an actuator |
| `RobotController` | loop, operator slot, control slot, publication, dashboard, task controller and firmware, one action per step |
| `MCRobotController` | the constants of the runs |
| `RobotControllerProofs` | theorems about `RobotController` |
| `Lifecycle` | `start()` and `shutdown()`, the shared segments, two supervisors and their children |
| `MCLifecycle`, `LifecycleProofs` | its runs' constants; its theorems |
| `TaskPipeline`, `MCTaskPipeline` | joystick, published state, policy runner, control slot and the frames of a tick, with their values |
| `SpgProtocol` | the fixed-point fields of MIT control, set-zero and status frames, the encoder's arithmetic |
| `TaskPipelineProofs` | theorems about `SpgProtocol` and `TaskPipeline` |
| `FeedbackPath`, `FeedbackPathProofs` | a motor's frame through subscription, echo filter, driver, snapshot and publication to the dashboard's status; its theorems |
| `BusMonitor`, `BusMonitorProofs` | the dashboard's and the terminal tool's view of the bus, MIT polling and the dashboard's connection |
| `CanDaemon` | clients, handler threads, transmit queue, TX thread and main thread of the CAN daemon |
| `FrameLine` | the abstract specification of the daemon: one line of frames that each `send()` joins between its call and its return |
| `MCCanDaemon`, `CanDaemonProofs` | its runs' constants; its theorems |
| `Seqlock` | one block of `Sharemem.hpp`: writer and reader, word by word |
| `MCSeqlock`, `SeqlockProofs` | its runs' constants; its theorems |
| `SparqCan` | the threads of `sparq_can/src/main.cpp`, the motors, the upper controller |
| `MCSparqCan`, `SparqCanProofs` | its runs' constants; its theorems |

### RobotController

The control thread is a program counter with two values. `TickUpdate` is
`tick()` from its IMU request to the choice of the output path: it reads the
slot, applies the timestamp test (`ConsumedCode`), updates the mode and loads
`batch`, the actuators the for-loop is going to address. `SendFrame(a)` is one
iteration of that loop, up to what the firmware does with the frame;
`PublishState` and `SkipPublish` are the end of the tick past and below the rate
limit. The order within a batch is left open, which covers both orders the code
uses (dictionary order and sorted CAN IDs). `RequestStop` is the signal handler;
`ExitLoop`, `TickRaises`, `DisableRaises` and `FinishShutdown` are the ways
through `shutdown()`: a send of a tick raises and `main`'s `finally` shuts down; a
send of the shutdown raises, is logged, and the remaining DISABLEs are skipped.

The dashboard publishes with `Publish` and makes the command visible with
`CopyBlock`, one indivisible piece of the structure at a time. `Blocks` says what
a piece is: in the runs the whole structure or its two 16-byte halves
(`timestamp_ns`, `command`, `target_mask`; then `zero_target_count` with its magic
and the targets), in the proofs anything that covers the structure. The magic shares a word with the count, so a torn read
never sees the malformed header `_zero_set_offsets_by_can_id` raises on. `Grant` is
a gate passed by `send_raw`, `SendGranted` the frame that follows, `SendDirect` the
frames that have no gate; they exist only when the TX lock is open (`DirectTx`).
`pub` is the published mode as far as the gates tell modes apart.

Per actuator, `motor` is the firmware's latched command: `off` (not in MIT mode),
`idle` (entered, zero torque), `damping` (kp = 0), `manual` (a control payload typed
into the dashboard) or `policy`. `hold` is the window after a set-zero.

Abstractions. Numeric targets, gains, offsets and feedback are left out. Time is
the age of the enabling timer, counted to `EnableDuration`, and the window flags.
Timestamps are values that a publication draws fresh from those in use: the code
takes `time.time_ns()`. The bus delivers an acknowledged frame at once. Two
history variables serve properties only: `acted` (the latest command was acted on)
and `txFailed` (a DISABLE of the shutdown was not sent). `Init` is the end of
`start()`: segments zeroed, DISABLED published once, actuators not in MIT mode.

### CanDaemon

A frame is `<<c, n>>`, the n-th that client `c` asks for; a client holds `_tx_lock`
over request and reply, so it has one request at a time. `Connect` and `Connected`
are `_connect_role` with its hello; `Send`, `Reply` and `ConnectionLost` are
`CANProcessClient.send`, with what its caller does on an exception: the dashboard's
`CommandService` drops its client and connects again, the controller keeps its own.
`hd[c]` is the handler thread of the client's connection, `tx` the TX thread, `main`
the daemon's main thread from its accept loop through the stages of `shutdown()`;
their actions are the steps between two points at which another thread can see a
difference. `OnFull` says what `put()` may do on a full queue: `wait` with
`send_block`, `refuse` without it; a put with a timeout refuses after waiting, which
is both. `Kill` is the supervisor's escalation or a crash. `acked`, `refused` and
`before` are history variables.

`FrameLine` is what `send()` promises without the threads: a frame joins one line at
one moment between the call and the return, the line empties onto the bus in its
order, and a refused frame never joins. The queue's limit, the connections and the
daemon's stop do not appear in it; they only decide which of its steps are taken.

Abstractions. Payloads are left out. A handler thread whose client has dropped the
connection reads its end and does nothing else, so it is not kept. The receive
side (`RxSubscribers`, `_rx_loop`) shares no variable with the transmit side and is
part of `FeedbackPath`.

### Lifecycle

`main` is the stage the controller process has reached: segments, daemon, connect,
IMU, children, the end of `start()`, the loop, `shutdown()`. Every stage may fail as
the code can fail there (a `Popen`, the connection's timeout, a send, an unknown
name), and each failure goes through `shutdown()` once. `left` is what remains of
`start_order` or its reverse. `Signal` is `request_stop()`; `Kill` is SIGKILL, after
which a new start finds the children and segments of the old one.

A supervisor call is a thread's `op`: test liveness, unlink the pid file, spawn; or
signal, wait, kill, unlink. The controller has one thread, the dashboard one per
request; `handle` is each supervisor's own `processes`, `pidfile` the shared files. A
launch goes from its terminal client (`launch`) over the shell in its window (`boot`)
to the program (`up`, then `live` once it has mapped the segments, whose generation it
keeps). A process without a window is the supervisor's own subprocess and has no
file.

Abstractions. The five segments come and go together. A pid names one launch: reuse
of pids by the system is left out. `early`, `disturbed` and `killed` are history
variables: the properties about instances exempt a name in two calls' hands at once,
a call that meets a launch not registered yet, and a controller that was killed,
for the supervisors promise nothing there (section 6).

One assumption is about the configuration: every name that is not protected has a
window (`WindowAssumption`), as `processes.yaml` sets `new_terminal` for each. A child
without a window has no pid file, so the dashboard's supervisor would start it a
second time; `config.py` does not refuse such an entry.

### TaskPipeline

Each of the three segments is its present content and the copy under way, if any; a
reader takes each word from either. `Publish`/`Published` and `SkipPublish` are the end
of a tick, `SendPolicyCommand` is the NORMAL tick that encodes the targets it finds
with `SpgProtocol` and stops the controller at a target that is out of range.
`AuxStart`, `AuxEvent` and `AuxWritten` are the aux reader, `TaskWaits`, `TaskState`,
`TaskCompute` and `TaskWritten` the loop of the task controller or of the joint
initializer (`runner`): wait for a first timestamp, copy the state, look up each
joint, convert to policy order, apply the network, clip, scale, convert back, write.

Abstractions. The network is an external operator, `Net`, that gives the outputs it
may have. Positions are hundredths of a radian. One axis and one button stand for
the others, and of the rest of the observation only what makes the code raise
(attitude, ids) is kept. The controller stays in NORMAL: the modes are
`RobotController`'s.

### SpgProtocol

Quantities are integers in a fixed unit, so that `float_to_uint` and its inverse in
the firmware are exact up to their rounding; frames are their eight bytes. Python's
rounding of exact halves to even is taken as away from zero: the theorems bound the
error by half a step, which both satisfy.

### FeedbackPath

The receive thread reads a frame, runs `is_recent_tx_echo` over the deque the control
thread appends to, and merges what is not an echo into the driver; `raced` is the
`RuntimeError` of an iteration over a deque that was changed, which `dispatch` swallows
with the frame. The control thread remembers a command and then sends it, takes the
snapshot (state, then flags) and publishes head and body of the state block. The
dashboard copies the time stamp, then the records, and derives the status it shows.
All times are ages in ticks, kept up to the age that decides.

Abstraction. A status never has the bytes of a command. The echo filter compares
only frames of the same identifier and bytes; the status opcode differs from those
of enter, exit and set-zero, but equals the one of MIT control, so a status whose
seven other bytes repeat a control frame of the last 0.25 s would be dropped. For
that the motor's temperature, current, speed and position would have to spell the
fields of the command.

### BusMonitor

`OnBus` puts a frame into the socket of every monitor that is bound and has room.
`DeviceSend`, `ControllerSend` and `SendRaw` are the three senders under one identifier,
the last two through the daemon. `MarkRx` is the dashboard's `mark_rx`,
`HandleRxFrame` the terminal tool's. `conn` is what the dashboard believes of its
connection; `stale` is a connection to a daemon that is gone, which fails at its next
use. `lost` is a history variable: a monitor that missed a frame is asked nothing.

### Seqlock

`Control_Struct` holds two blocks, `ctrl` and `fb`, each a counter and data; the
module is one of them. The fences order counter and data, and inside one `memcpy`
the words move in any order (`WriteWord`, `ReadWord`), between which the other side
may take any number of steps. The counter wraps modulo `SeqMod`. `WriterDies` is a
kill inside a write: the segment outlives the process because its reference count
was not given back, and from then on the parity of the counter is inverted.
`version`, `moved` and `died` are history variables.

### SparqCan

Three threads, each with its position. The CAN thread drains its sockets, sends a
zero frame to every motor, waits 10 ms, reads the first answers, calibrates, and
then loops: test `running`, receive, send. The update thread loops: test `running`,
spin on `try_read_ctrl`, store the fields, publish feedback. A command is the
number of the write it comes from; `Seqlock` is why a read of the block is one step
that takes a whole write. The stores of one field for all motors, and the loads of
one operation frame, are one step each: the code's stores of different motors are
independent, and the property about a frame compares field by field. Frames are
received from all sockets until none is left; a frame that arrives at a socket
already passed is, to every property, one that arrives after the loop.

`running` is a plain `bool` the signal handler clears; the threads are taken to see
it. A failed `write` on the CAN socket is only reported by `perror` and behaves like
a motor that does not answer. Left out: the encodings, the routing of motors to
sockets, the failures of `main`'s initialisation before the threads exist. Of the
command, `vel` and `ffTorque` are never forwarded by the code; `Fields` stands for
the ones that are. No motor is disabled when the process ends.

## 3. Runs

| Run | Instance | Shows |
| --- | --- | --- |
| `tick_safety` | 2 actuators, all dashboard codes in 16-byte copies, zero-sets of all or one actuator, TX locked, sends fail | `TypeOK`, `NoPolicyInCutModes`, `CutModesAreOff`, `IgnoredWasConsumed`, `ImplementsDriveAuthority` |
| `estop_liveness` | 1 actuator, ENABLE/RUN/ESTOP, TX open, stale publication, sends fail, fairness | `EstopHonoured`, `EstopCutsMotors`, `StopCompletes` |
| `damping_liveness` | 1 actuator, ENABLE/RUN/DAMPING/ZERO_SET, task controller dies, fairness | `EnablingEnds`, `DampingTakesEffect` |
| `daemon` | controller and dashboard, queue of 1, a put that waits or refuses, interface errors, join timeout, kill, fairness | `TypeOK`, `NoOvertaking`, `RefusedIsNotSent`, `AckedIsAccounted`, `ImplementsFrameLine`, `EveryCallReturns`, `AckedIsTransmitted`, `SignalEndsDaemon` |
| `lifecycle` | 2 starts, 3 launches told apart, both configurations, 1 request of the dashboard, every failure, kill, fairness | `OneInstance`, `ShutdownLeavesNothing`, `ChildUsesCurrentSlots`, `StopEndsManaged`, `StopRequestEnds` |
| `pipeline` | 3 joints in three different orders, torn copies, an output beyond the clip or a NaN, fairness | `BatchComplete`, `EachJointItsOwn`, `RaisesOnlyOnFirstState`, `ReleaseIsSeen` |
| `feedback` | 1 motor, 1 command, subscription dropped, malformed frame, controller dies, fairness | `DeafOnlyWhenDropped`, `StatusOnlyLostToRace`, `SilenceIsShown` |
| `monitor` | 1 motor, 2 frames besides polling, daemon restarts, interface down, fairness | `HintIsLastOnBus`, `SilenceTimesOut`, `PollRecovers` |
| `seqlock` | 3 words, counter modulo 4, 5 writes, writers die | `AcceptedIsLatest` |
| `sparq_can` | 1 motor, 2 fields, 2 writes, all faults, fairness | `TypeOK`, `NoCommandBeforeCalibration`, `FramesArePublished`, `CommandReachesMotor`, `FeedbackIsCalibrated`, `StopEnds` |
| `v_held_command` | 1 actuator, fairness | violated: after the task controller's death its last command is replayed forever |
| `v_early_signal` | 1 start, nothing fails, fairness | violated: a stop signal that arrives during `start()` is announced and forgotten |

The two violations are statements of `FALLBACK_POLICY.md` and of the code's own
message that the code does not keep; the `findings` of `PROJECT.json` quote them.

**Bounds.** `EnableDuration = 1` in the safety runs: the timer is running or has run
out, which is all `update()` tells apart; 2 in `damping_liveness`, so that a command
arrives while it runs and a timer some command restarted would never run out. Three
stamps: one in the slot, one consumed last, one for the next publication. Two
actuators show a batch sent in part; the liveness properties are per actuator and
need one. The code DISABLE is published by no endpoint; the runs leave it out and
the theorems include it. The daemon's queue of 1 is the tightest: with one frame of
each of two clients it fills up, blocks and refuses while the TX thread holds the
other frame; the theorems cover every queue size and number of frames.

In `lifecycle` two starts give a second generation of segments beside children of
the first; three launches are the daemon, a child and a child started beside it by
the other supervisor, and numbers are used again once nobody refers to them; one
request at any moment meets every stage of the controller's own calls. In `pipeline`
three joints under a cyclic conversion, with identifiers in yet another order, tell
a conversion from its inverse, which two joints would not. In `feedback` the times
are 0, so that one tick makes a stamp old: an age is either within its limit or
past it; one waiting frame and one command race the filter in every position. In
`monitor` two frames are a command and an answer, or two commands of two senders.

Three words tear in more than one way; 5 writes move a counter modulo 4 more than
twice round. One motor with two fields shows a frame with fields of two writes and a
stale segment followed by two more commands; motors do not interact except through
the loops over all of them. Symmetry (actuators and stamps, words) is used in runs
without liveness properties only. Deadlock is checked except in `lifecycle`,
`v_early_signal` and `pipeline`, where the system may stop for good: the last start
allowed has ended, the runner or the controller has raised. Elsewhere a stopped
state has a stuttering step of its own (`Terminated`, `Quiet`, `Ended`).

**Fairness** (`FairSpec`). In `RobotController` the control thread takes its next step
(weak fairness of `Controller`): it is one Python thread whose loop sleeps at most
one period; this assumes that a send returns, which `EveryCallReturns` shows of the
daemon. `PublishState` is strongly fair: the rate limit lets a publication through
once its period has passed. The enabling timer and the set-zero window run out
because clocks advance. A copy that has begun ends. In `CanDaemon` each client,
handler, TX and main thread is weakly fair; `Accept(c)` is strongly fair because the
kernel's backlog is first in, first out and the accept loop comes back to it. In
`SparqCan` the threads and `main`'s joins are weakly fair, a write that has begun ends
while its process lives, and a motor answers or is silent. In `Lifecycle` the
controller's thread and each request's thread go on (every wait in them has a
timeout), a launched child gets through its terminal and attaches, and a child that
was sent SIGTERM ends; `StopRequestEnds` also holds with children too slow to obey,
because the wait times out. In `TaskPipeline` the three processes go on while they
can and a publication falls due again and again (strong fairness of `Publish`). In
`FeedbackPath` the receive thread, the control thread, the dashboard's reader, the
motor's acknowledges and the clock go on; in `BusMonitor` the daemon's TX thread, the
socket loop, both receivers, the polling loop and the clock. No fairness is assumed
of operators, of signals, of devices' own frames, of new writes, or of failures:
the failing alternatives (`AcceptFails`, `Kill`, `DropSubscriber`...) stand outside the fair
actions.

## 4. Proofs

All theorems hold for every value of the constants that satisfies the `ASSUME`s of
the modules. Liveness under fairness is model-checked only.

**`RobotControllerProofs`**, for every set of actuators, command codes, copy pieces
and faults, TX locked or open:

* `TypeCorrect`: `Spec => []TypeOK`;
* `PolicyIsCut`: `Spec => []NoPolicyInCutModes`;
* `CutModesDisable`: `Spec => []CutModesAreOff`;
* `Refinement`: `Spec => ImplementsDriveAuthority`;
* `SlotIsSound`: `Spec => IgnoredWasConsumed`, assuming `StampWithCode`: every piece
  of the copy that moves the timestamp moves the code. With pieces of 8 bytes it
  would fail: a tick could consume the new timestamp with the old code.

The safety theorems share the inductive invariant `IInv`. Neither safety property
is inductive: whether a frame of `batch` switches an actuator off depends on what
the frame is, so `BatchMatchesMode` says that a batch in flight is the output path
of the current mode, or DISABLE during shutdown; and an MIT enter granted earlier
would switch an actuator on in ESTOP, so `GrantsNeedTx` says that grants exist only
with the lock open. The refinement uses the same invariant: a frame refines
`Energise`, `Drive`, `Steer`, `Relax` or `Cut` according to its kind
(`FrameRefines`), and `update()` moves along `Follows` (`UpdateFollows`).
`SlotIsSound` rests on `SlotInv`: a slot that shows the latest stamp shows the
latest code, and a consumed latest stamp was acted on.

**`CanDaemonProofs`**, for any clients, queue size, blocking behaviour, number of
frames and faults: `DaemonTypes`, `NothingOvertakes`, `NothingTwice`, `AckedAccounted`,
`RefusedNotSent`, and `DaemonIsALine`, `Spec => ImplementsFrameLine`. The invariant follows a frame along its whole way. `Stages`: a
request is unread, in the handler's hands or answered, never two of these. `Hand`:
what the TX thread holds. `Placement`: a request not yet put is nowhere, a positive
answer is of a frame that was put, a refused one is nowhere. `Order` and `Once`:
`NoOvertaking` and `SentOnce` over bus, hand and queue together, which is what makes
them inductive. The refinement maps the TX thread's hand and the queue behind it to
one `line` and the clients inside `send()` to `calling`. A put is `Join`, a bus send or
its failure `Leave`, the reply or the end of a connection `Return`; a get only moves a
frame from the queue into the hand and stutters, as do hello, accept, stop and kill
(`OthersStutter`). `Placement` is what decides that a reply is the one `FrameLine`
allows: a positive one of a frame in the line, a refusal of a frame that never joins.

**`SeqlockProofs`**, for any words, any even counter range and any number of writes:
`SeqlockTypes` and `ReadsAreWhole`. `Parity`: odd exactly while a write is in progress.
`Content`: the words a write has passed are of its version. `Around`: less than once
round, the counter is `s1` advanced by the increments since. `Clean`: while there
were none, what was read so far is current. Equal counters then mean no increment,
hence a whole and current read. The theorem exempts a writer that died inside a
write and a reader slower than 2^31 writes.

**`SparqCanProofs`**, for any motors, fields, number of writes and faults: `SparqTypes`,
`CalibrationFirst`, `PublishedFrames`. `Uncalibrated` adds where the CAN thread can be
while a motor has no offset; `Aged` orders the versions along the path of a command,
frame, `control_param`, `ctrl_buf`, shared block; `Bounded` keeps the number of a
write in range.

**`FeedbackPathProofs`**, for any motors, commands, times and faults: `DeafIsDropped`
(the receive thread ends with its subscription and for no other reason) and
`StatusIsKept` (a status is lost only to a send that ran into the filter). The second
needs the invariant `OnlyCommands`: `recent_tx_frames`, and what `send_frame` is about to
append to it, hold nothing but commands, through appends, expiry from the left and
the ageing of every entry.

**`BusMonitorProofs`**, for any motors, queue sizes, numbers of frames and faults:
`HintsAgree`, `Spec => []HintIsLastOnBus`. The property speaks of an empty socket and
is not inductive. The invariant `Caught` says where a socket that is not empty
leads: to the last command in it, or to what the monitor shows now (`Leads`), and
that this is what the bus has seen, for the motors none of whose commands is still
with the daemon. The exception is what lets the dashboard show a command it has
only just handed over.

**`LifecycleProofs`**, for any configurations, launches, requests, starts and faults:

* `ManagedStopEnds`: `Spec => StopEndsManaged`;
* `ChildrenRunOnce`: `Spec => []OneInstance`;
* `NothingIsLeft`: `Spec => []ShutdownLeavesNothing`;
* `SlotsAreCurrent`: `Spec => []ChildUsesCurrentSlots`.

The first: a stop kills what is alive; what is not alive must have ended rather than
never have run, which is the invariant `PidsAreLaunched`: pid files and calls refer
to launches that took place, while launch numbers are used again and the other
supervisor unlinks and writes the same files.

The others share `Inv`. `OneInstance` alone is not inductive: a second spawn is kept
out only because the liveness test would have seen the first child. So
`AllRegistered` says where a child that runs is to be found: through the handle of
who launched it until its shell has written the pid file, through the pid file
afterwards, and always through the controller's handle if it has no window.
`OneCaller` says that one thread at a time is past the liveness test of a name,
`StartsFindNone` that a start past it still finds no child, `StopsWaitForIt` that a
stop waits for the child there is; `HandlesMatch`, `ChildrenNamed` and `CallsNamed` keep
names and numbers together while numbers are used again. All of it is for names no
call has disturbed. `WindowAssumption` enters here: without a pid file the two
supervisors do not see each other's child.

For the controller, `Stages` ties the stage of `start()` or `shutdown()` to the call it
is in, `Stopping` says that during `shutdown()` a child of the controller that runs is
still on the list or is the one being stopped, and that there is none before `start()`
and after `shutdown()`; hence nothing is left, however far a failed start had come.
`Slots` adds that such a child, once attached, has the present generation. `Inv` was
checked with TLC on the instance of `lifecycle` before it was proved.

**`TaskPipelineProofs`**, first about `SpgProtocol`, for all values in the fields'
ranges: `FieldsSurvive`, `FieldResolves`, `ZeroOffsetSurvives`, `PositionFits`,
`StatusSurvives`, `OffsetShowsDesired`, `DeltaIsShortest`. They are statements of
arithmetic, with no behaviour; the lemmas reduce rounding to two linear bounds and a
byte pair to its quotient and remainder.

Then about `TaskPipeline`, for any number of joints, identifiers, conversions, default
and real postures and network outputs: `BatchesAreComplete` (`Spec => []BatchComplete`),
`JointsGetTheirOwn` (`Spec => []EachJointItsOwn`) and `RaisesAreEarly`
(`Spec => RaisesOnlyOnFirstState`). `JointAssumption` says that identifiers are positive
and distinct and that the input conversion undoes the output conversion, `NetAssumption`
that the network gives an integer per joint, one of which stands for NaN.
The invariant says what the two segments can hold: `StateSegment`, empty or a whole
published state, and the copy under way one such state; `CommandSegment` the same of
target blocks, each with the configured gain and targets that are a joint's own;
`PositionsSeen`, that the positions the runner computes with are, joint by joint, of
published postures. A torn copy is then a mixture of these (`MixedElements`), and the
rest is about one joint at a time: a mixture of complete target blocks names every
motor (`CopiesAreComplete`), its targets survive the conversions (`QTargetIsOwn`) and
the frame (`FrameResolves`, from `FieldResolves` and `FieldsSurvive`).

Every invariant and action property that a passing run checks is stated by a theorem.
Only model-checked: the liveness properties, which need fairness.

## 5. What could follow

1. The segment's life cycle of `Control_Shm`: creation, reference count, removal.
2. A composition of `CanDaemon` with the controller's shutdown (which DISABLEs reach
   the bus when both are stopped), over `FrameLine` in place of the daemon.
3. The joint initializer and the task controller running at once: both write the
   control slot.

## 6. Divergences met while modelling

What the code does where a reader might expect something else. The models contain
it, and the properties are stated so that they hold of the code as it is.

* ZERO_SETTING lasts until a tick reads NONE. Another code that is read first, and
  that the mode does not accept, carries no targets, so the set-zero is sent again,
  to all actuators (`controller.py:302`).
* `shutdown()` never publishes SHUTTING_DOWN or STOPPED, so the dashboard's gate still
  sees the last mode, and with TX open an MIT enter may go out after the DISABLE of
  the same actuator. `CutModesAreOff` is therefore stated with TX locked.
* The daemon drops the frames left in its queue when it stops, acknowledged ones
  included. `AckedIsTransmitted` ends with the stop.
* An incomplete policy batch is sent as it is, though rule 6 of `FALLBACK_POLICY.md`
  calls it invalid. `BatchComplete` begins with the first complete write.
* The first publication of the state can be copied half: the runner then raises
  and ends (`RaisesOnlyOnFirstState` says that no later one does this).
* The IMU's `projected_gravity_b` as published has x and y exchanged
  (`_projected_gravity_from_xyzw` of `e2box_protocol.py`, as a correction of the
  sensor's convention); `policy_runner` recomputes it from the quaternion without the
  exchange.
* A motor that is polled and silent is shown online by the dashboard, because the
  hold frames it is sent come back under its identifier. `SilenceTimesOut` asks only
  about motors nobody addresses.
* A controller that was killed leaves its children mapped to segments that the next
  start unlinks and creates anew; they are taken for alive by their pid files and go
  on with the old ones. `ChildUsesCurrentSlots` exempts this.
* With a window, the supervisor that launched a child waits for the terminal client
  only, which has ended long ago: a child too slow to obey SIGTERM is not killed by
  it, while the other supervisor, which has no handle, does kill it
  (`StopEndsManaged`).
* In SPARQ_CAN the table of `Rx_handler` has no entry for identifier 0x33, so a motor
  there is calibrated from no answer; an error code of one motor ends the CAN thread
  and leaves the update thread running.

## 7. Not modelled

* The MuJoCo bridge apart from the firmware it hosts, the launch scripts, the web
  client and every rendering: I/O and physics, no decision the control stack takes.
* The IMU driver and protocol: floating-point decoding, and a freshness record like
  the motors'.
* Parameter frames of the actuator protocol and `TransactionManager`: no caller.
* Configuration parsing: dataclasses from YAML, without behaviour. `_validate_config`
  is not called by the loader.
* The numerics of the policy network, bus load, decoded numbers on the displays.
* `resource_tracker`, which may unlink a segment of a process that ends, pid reuse, a
  second controller instance, and the joint initializer beside the task controller.
