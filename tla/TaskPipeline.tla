----------------------------- MODULE TaskPipeline -----------------------------
(***************************************************************************)
(* From the joystick and the feedback to the motors while the controller is *)
(* in NORMAL: aux_reader publishes what the operator holds, the task        *)
(* controller (or the joint initializer, which runs in its place) computes  *)
(* one target per joint from the published state, and each tick of the      *)
(* controller sends the targets it finds in the slot. The three shared      *)
(* segments are copied with no lock in either direction. The network is     *)
(* external: Net gives the outputs it may have for an observation.          *)
(***************************************************************************)
EXTENDS SpgProtocol, FiniteSets

CONSTANTS
    Ids,         \* can_ids: the motor of each joint, in joint order
    Input,       \* joint_idx_conversion: policy index -> joint index
    Output,      \* joint index -> policy index
    Default,     \* default_joint_angle, hundredths of a radian, joint order
    Postures,    \* positions the controller may publish, joint order
    Pads,        \* what the operator may hold: stick of axis 1 and button A
    Net(_)       \* external: the possible outputs for an observation

Joints == DOMAIN Ids
Motors == {Ids[j] : j \in Joints}

ASSUME JointAssumption ==
    /\ Ids \in Seq(Nat \ {0})
    /\ \A i, j \in Joints : Ids[i] = Ids[j] => i = j
    /\ Input \in [Joints -> Joints] /\ Output \in [Joints -> Joints]
    /\ \A j \in Joints : Input[Output[j]] = j
    /\ Default \in [Joints -> Int] /\ Postures \subseteq [Joints -> Int]

(* action_clip, action_scale = 1/ScaleDiv, the gain of pd_config.yaml, the  *)
(* ranges of SPGMITConfig (hundredths of a radian, whole kp), and the       *)
(* joystick's full scale and deadband.                                      *)
ActionClip == 500
ScaleDiv   == 4
Gain       == 20
PMax       == 1250
KpMax      == 500
FullScale  == 32767
Deadband   == 1639

(* Stands for a NaN of the network: outside every range. *)
NaN == 1000000

VARIABLES
    runner,    \* the program that writes targets
    state,     \* control_state segment
    aux,       \* aux_command segment
    cmd,       \* mit_command segment
    pad,       \* external: what the operator holds
    axes,      \* aux_reader: what it has read of the joystick
    auxPc,     \* aux_reader: "start", "idle", "write", "dead"
    pc,        \* runner: "wait", "loop", "compute", "write", "done", "dead"
    pos,       \* runner: the positions of this round, joint order
    obs,       \* runner: the operator's command in the last observation
    ctl,       \* controller: "publish", "written", "tick", "stopped"
    sent,      \* the batch of this tick: motor -> frame
    whole      \* ghost: the last batch was copied after a complete write

taskVars == <<pc, pos, obs>>
auxVars  == <<axes, auxPc>>
ctlVars  == <<ctl, sent, whole>>
vars == <<runner, state, aux, cmd, pad, auxVars, taskVars, ctlVars>>

-------------------------------------------------------------------------------
(* A segment: what it holds and the copy a writer is putting in, if any. A  *)
(* reader's copy is one step: each 32-bit word of it is that word of either *)
(* (a read begun before a write and ended after it is one taken within).    *)

Segment(b) == [cur |-> b, new |-> {}]

Begin(s, b) == [s EXCEPT !.new = {b}]
End(s)      == [cur |-> CHOOSE b \in s.new : TRUE, new |-> {}]
Met(s)      == {s.cur} \cup s.new

(* The copies of an array: each element is that of some array of A.         *)
Mixed(A) == {[i \in Joints |-> from[i][i]] : from \in [Joints -> A]}

-------------------------------------------------------------------------------
(* The controller's publication *)

(* No frame sent in this tick. *)
NoFrames == [m \in {} |-> <<>>]

(* The state block: records sorted by motor id, a zeroed segment at first.  *)
(* A record is torn from the others, not within itself.                     *)
Zeroed == [i \in Joints |-> 0]

EmptyState == [ts |-> 0, count |-> 0, quat |-> 0,
               rec |-> [i \in Joints |-> [id |-> 0, pos |-> 0]]]

(* The i-th of the motors, in the order of their ids. *)
Rank(m) == Cardinality({k \in Motors : k <= m})

SortedIds == [i \in Joints |-> CHOOSE m \in Motors : Rank(m) = i]

JointOf(id) == CHOOSE j \in Joints : Ids[j] = id

(* Mutant: the count leaves the last record out. *)
RobotStateShort(p) ==
    [ts |-> 1, count |-> Len(Ids) - 1, quat |-> 1,
     rec |-> [i \in Joints |-> [id |-> SortedIds[i], pos |-> p[JointOf(SortedIds[i])]]]]

RobotState(p) ==
    [ts |-> 1, count |-> Len(Ids), quat |-> 1,
     rec |-> [i \in Joints |-> [id |-> SortedIds[i], pos |-> p[JointOf(SortedIds[i])]]]]

StateCopies(S) ==
    [ts : {b.ts : b \in S}, count : {b.count : b \in S},
     quat : {b.quat : b \in S}, rec : Mixed({b.rec : b \in S})]

(* start() forces one publication; a tick's may fall within the period.     *)
Publish ==
    /\ ctl = "publish"
    /\ \E p \in Postures : state' = Begin(state, RobotState(p))
    /\ ctl' = "written"
    /\ sent' = NoFrames
    /\ whole' = FALSE
    /\ UNCHANGED <<runner, aux, cmd, pad, auxVars, taskVars>>

Published ==
    /\ ctl = "written"
    /\ state' = End(state)
    /\ ctl' = "tick"
    /\ UNCHANGED <<runner, aux, cmd, pad, auxVars, taskVars, sent, whole>>

SkipPublish ==
    /\ ctl = "publish"
    /\ state.cur.ts # 0
    /\ ctl' = "tick"
    /\ sent' = NoFrames
    /\ whole' = FALSE
    /\ UNCHANGED <<runner, state, aux, cmd, pad, auxVars, taskVars>>

-------------------------------------------------------------------------------
(* aux_reader *)

(* Mutant: no deadband. *)
AxisTargetRaw(v) == IF v < -FullScale THEN FullScale ELSE -v

AxisTarget(v) ==
    LET value == IF v < -FullScale THEN -FullScale ELSE v
    IN  IF value < Deadband /\ -value < Deadband THEN 0 ELSE -value

AuxCommand(a) == [x |-> AxisTarget(a.x), a |-> a.a]

NeutralAxes == [x |-> 0, a |-> FALSE]

AuxStart ==
    /\ auxPc = "start"
    /\ aux' = Begin(aux, AuxCommand(axes))
    /\ auxPc' = "write"
    /\ UNCHANGED <<runner, state, cmd, pad, axes, taskVars, ctlVars>>

(* One event of the device: an axis or a button that changed. *)
AuxEvent ==
    /\ auxPc = "idle"
    /\ \E number \in {"x", "a"} :
          /\ pad[number] # axes[number]
          /\ axes' = [axes EXCEPT ![number] = pad[number]]
    /\ aux' = Begin(aux, AuxCommand(axes'))
    /\ auxPc' = "write"
    /\ UNCHANGED <<runner, state, cmd, pad, taskVars, ctlVars>>

AuxWritten ==
    /\ auxPc = "write"
    /\ aux' = End(aux)
    /\ auxPc' = "idle"
    /\ UNCHANGED <<runner, state, cmd, pad, axes, taskVars, ctlVars>>

(* The device goes away or a signal arrives: the last command stays.        *)
AuxEnds ==
    /\ auxPc = "idle"
    /\ auxPc' = "dead"
    /\ UNCHANGED <<runner, state, aux, cmd, pad, axes, taskVars, ctlVars>>

(* External: the operator's hand. *)
Hold ==
    /\ pad' \in Pads
    /\ UNCHANGED <<runner, state, aux, cmd, auxVars, taskVars, ctlVars>>

-------------------------------------------------------------------------------
(* The task controller and the joint initializer *)

(* Every loop begins with a look at the stop flag. *)
TaskEnds ==
    /\ pc \in {"wait", "loop"}
    /\ pc' = "done"
    /\ UNCHANGED <<runner, state, aux, cmd, pad, auxVars, pos, obs, ctlVars>>

(* Waiting for control_state. *)
TaskWaits ==
    /\ pc = "wait"
    /\ \E b \in Met(state) : pc' = IF b.ts # 0 THEN "loop" ELSE "wait"
    /\ UNCHANGED <<runner, state, aux, cmd, pad, auxVars, pos, obs, ctlVars>>

Listed(b) == {i \in Joints : i <= b.count}

(* The actuator lookup raises KeyError, the projected gravity of a zero     *)
(* quaternion ZeroDivisionError.                                            *)
Unusable(b) == b.quat = 0 \/ Motors \ {b.rec[i].id : i \in Listed(b)} # {}

DofPos(b) ==
    [j \in Joints |-> b.rec[CHOOSE i \in Listed(b) : b.rec[i].id = Ids[j]].pos]

(* What a round makes of its copy of the state. *)
TaskState ==
    /\ pc = "loop"
    /\ LET copies == StateCopies(Met(state))
           due    == {b \in copies : b.ts # 0}
       IN  \/ /\ copies # due
              /\ UNCHANGED <<pc, pos>>
           \/ /\ \E b \in due : Unusable(b)
              /\ pc' = "dead"
              /\ UNCHANGED pos
           \/ /\ pos' \in {DofPos(b) : b \in {b \in due : ~Unusable(b)}}
              /\ pc' = "compute"
    /\ UNCHANGED <<runner, state, aux, cmd, pad, auxVars, obs, ctlVars>>

(* set_state: the observation in policy order. *)
DeltaDofPos(p) == [k \in Joints |-> p[Input[k]] - Default[Input[k]]]

(* The positions a round may see, each that of one publication or another.  *)
Seen == Mixed(Postures)

(* External: what the network puts out for them are numbers.                *)
ASSUME NetAssumption == \A p \in Seen : Net(DeltaDofPos(p)) \subseteq [Joints -> Int]

ClipAction(a) ==
    IF a = NaN THEN NaN
    ELSE IF a > ActionClip THEN ActionClip
    ELSE IF a < -ActionClip THEN -ActionClip ELSE a

(* Mutant: the conversion of the inputs taken for that of the outputs.      *)
ScaledActionsByInput(raw) ==
    [j \in Joints |-> LET a == ClipAction(raw[Input[j]])
                      IN  IF a = NaN THEN NaN ELSE a \div ScaleDiv]

(* compute_action: clipped, scaled and back in joint order. *)
ScaledActions(raw) ==
    [j \in Joints |-> LET a == ClipAction(raw[Output[j]])
                      IN  IF a = NaN THEN NaN ELSE a \div ScaleDiv]

(* The initializer leaves the button out. *)
ModeFactor(mode) == IF mode \/ runner = "joint_initializer" THEN 1 ELSE 0

QTarget(raw, mode) ==
    [j \in Joints |-> LET s == ScaledActions(raw)[j]
                      IN  IF s = NaN THEN NaN ELSE s * ModeFactor(mode) + Default[j]]

EmptyTargets == [num |-> 0, id |-> Zeroed,
                 target |-> [i \in Joints |-> [q |-> 0, kp |-> 0]]]

WriteTargets(q) ==
    Begin(cmd, [num |-> Len(Ids), id |-> Ids,
                target |-> [i \in Joints |-> [q |-> q[i], kp |-> Gain]]])

TaskCompute ==
    /\ pc = "compute"
    /\ \E x \in {b.x : b \in Met(aux)}, a \in {b.a : b \in Met(aux)} :
          /\ obs' = [x |-> x, a |-> a]
          /\ \E raw \in Net(DeltaDofPos(pos)) : cmd' = WriteTargets(QTarget(raw, a))
    /\ pos' = Zeroed
    /\ pc' = "write"
    /\ UNCHANGED <<runner, state, aux, pad, auxVars, ctlVars>>

TaskWritten ==
    /\ pc = "write"
    /\ cmd' = End(cmd)
    /\ pc' = "loop"
    /\ UNCHANGED <<runner, state, aux, pad, auxVars, pos, obs, ctlVars>>

-------------------------------------------------------------------------------
(* The controller's tick in NORMAL *)

TargetCopies(S) ==
    [num : {b.num : b \in S}, id : Mixed({b.id : b \in S}),
     target : Mixed({b.target : b \in S})]

(* make_impedance_command_frame raises on this target. *)
Rejected(t) == t.q > PMax \/ t.q < -PMax

Frame(t) == PackMit(FloatToUint(t.q, -PMax, PMax, 65535), FloatToUint(0, -450, 450, 4095),
                    FloatToUint(t.kp, 0, KpMax, 4095), 0, FloatToUint(0, -330, 330, 255))

(* Mutant: the last record is not sent. *)
SendableShort(c) == {i \in Joints : i < c.num /\ c.id[i] \in Motors}

(* The records a batch sends: known motors, up to the first one rejected.   *)
Sendable(c) == {i \in Joints : i <= c.num /\ c.id[i] \in Motors}

SentRecords(c) ==
    {i \in Sendable(c) : \A k \in Sendable(c) : k <= i => ~Rejected(c.target[k])}

Batch(c) == [m \in {c.id[i] : i \in SentRecords(c)} |->
                LET i == CHOOSE i \in SentRecords(c) : c.id[i] = m
                IN  Frame(c.target[i])]

SendPolicyCommand ==
    /\ ctl = "tick"
    /\ LET copies == TargetCopies(Met(cmd))
           good   == {c \in copies : SentRecords(c) = Sendable(c)}
       IN  \/ /\ sent' \in {Batch(c) : c \in good}
              /\ ctl' = "publish"
           \/ /\ sent' \in {Batch(c) : c \in copies \ good}
              /\ ctl' = "stopped"
    /\ whole' = (cmd.cur # EmptyTargets)
    /\ UNCHANGED <<runner, state, aux, cmd, pad, auxVars, taskVars>>

-------------------------------------------------------------------------------
Init ==
    /\ runner \in {"task_controller", "joint_initializer"}
    /\ state = Segment(EmptyState)
    /\ aux = Segment([x |-> 0, a |-> FALSE])
    /\ cmd = Segment(EmptyTargets)
    /\ pad \in Pads
    /\ axes = NeutralAxes
    /\ auxPc = "start"
    /\ pc = "wait"
    /\ pos = Zeroed
    /\ obs = [x |-> 0, a |-> FALSE]
    /\ ctl = "publish"
    /\ sent = NoFrames
    /\ whole = FALSE

Controller == Publish \/ Published \/ SkipPublish \/ SendPolicyCommand
AuxReader  == AuxStart \/ AuxEvent \/ AuxWritten
Runner     == TaskWaits \/ TaskState \/ TaskCompute \/ TaskWritten

Next == Controller \/ AuxReader \/ AuxEnds \/ Hold \/ Runner \/ TaskEnds

(* Three processes with their own schedules, each of which goes on while it *)
(* can; a publication falls due again and again.                            *)
Fairness == /\ WF_vars(Controller) /\ SF_vars(Publish)
            /\ WF_vars(AuxReader) /\ WF_vars(Runner)

Spec == Init /\ [][Next]_vars /\ Fairness

-------------------------------------------------------------------------------
(* Once the runner has written its targets completely, every batch names    *)
(* every motor with the configured gain, whatever writes it is copied       *)
(* across; only a rejected target cuts one short, and then the controller   *)
(* has stopped (_send_policy_command).                                      *)
BatchComplete ==
    whole /\ ctl # "stopped" =>
        /\ DOMAIN sent = Motors
        /\ \A m \in Motors :
              Resolves(UnpackMit(sent[m]).kp, Gain, 0, KpMax, 4095)

(* What joint j may be told: its default plus the clipped, scaled output of *)
(* the slot in which the network saw its own deviation, or, unless the      *)
(* initializer runs, its default alone.                                     *)
OwnFactors == IF runner = "joint_initializer" THEN {1} ELSE {0, 1}

Outputs == UNION {Net(DeltaDofPos(p)) : p \in Seen}

OwnActions(j) == {raw[k] : raw \in Outputs, k \in {k \in Joints : Input[k] = j}} \ {NaN}

OwnTargets(j) ==
    {Default[j] + (ClipAction(a) \div ScaleDiv) * f : a \in OwnActions(j), f \in OwnFactors}

(* Across both index conversions, the slot and the frame's fixed-point      *)
(* fields, a motor is told the target of its own joint to half a step       *)
(* (compute_action, _pack_mit_payload).                                     *)
EachJointItsOwn ==
    whole => \A m \in DOMAIN sent : \E q \in OwnTargets(JointOf(m)) :
                Resolves(UnpackMit(sent[m]).p, q, -PMax, PMax, 65535)

(* The runner raises only on a state block copied across the very first     *)
(* publication, which the wait for a timestamp does not exclude; a later    *)
(* publication never tears the ids or the attitude it needs (main loop).    *)
RaisesOnlyOnFirstState ==
    [][pc # "dead" /\ pc' = "dead" => state.cur = EmptyState]_vars

(* Let go for good, the pad is seen as let go, dead zone included: the      *)
(* observation holds no command and the task controller sends every motor   *)
(* its default, unless a process of the chain has ended (aux_reader, main). *)
AtRest == pad.a = FALSE /\ pad.x < Deadband /\ -pad.x < Deadband

Neutral ==
    /\ obs = [x |-> 0, a |-> FALSE]
    /\ runner = "task_controller" /\ ctl = "publish" =>
         /\ DOMAIN sent = Motors
         /\ \A m \in Motors :
               sent[m] = Frame([q |-> Default[JointOf(m)], kp |-> Gain])

ReleaseIsSeen ==
    <>[]AtRest => <>[](Neutral \/ pc \in {"dead", "done"} \/ auxPc = "dead" \/ ctl = "stopped")
===============================================================================
