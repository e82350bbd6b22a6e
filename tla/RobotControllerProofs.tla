------------------------- MODULE RobotControllerProofs -------------------------
(***************************************************************************)
(* Theorems about RobotController, for every set of actuators, operator     *)
(* surface, copy granularity and set of faults.                             *)
(***************************************************************************)
EXTENDS RobotController, TLAPS

-------------------------------------------------------------------------------
(* The operators *)

(* update() returns a mode, and output paths are frames. *)
LEMMA UpdateType ==
    ASSUME NEW m \in ControllerMode, NEW c \in OperatorCommandCode,
           NEW e \in BOOLEAN
    PROVE  Update(m, c, e) \in ControllerMode
  BY DEF Update, UpdateEstop, UpdateTail, ControllerMode, OperatorCommandCode

(* Every mode has exactly one output path. *)
LEMMA OutputPathType ==
    ASSUME NEW m \in ControllerMode
    PROVE  /\ OutputPath(m) \in Frames \ {"NONE"}
           /\ OutputPath(m) = "DISABLE"  <=> m \in {"DISABLED", "ESTOP"}
           /\ OutputPath(m) = "ENABLE"   <=> m = "ENABLING"
           /\ OutputPath(m) = "ZERO_SET" <=> m = "ZERO_SETTING"
           /\ OutputPath(m) = "DAMPING"  <=> m = "DAMPING"
           /\ OutputPath(m) = "POLICY"   <=> m = "NORMAL"
  BY DEF OutputPath, ControllerMode, Frames

(* The firmware's latched command stays one of the four. *)
LEMMA OnFrameType ==
    ASSUME NEW m \in MotorState, NEW h, NEW f \in Frames \cup Ungated
    PROVE  OnFrame(m, h, f) \in MotorState
  BY DEF OnFrame, Control, MotorState, Frames, Ungated

(* The output path of a mode addresses configured actuators only. *)
LEMMA TargetsType ==
    ASSUME TypeOK, NEW m \in ControllerMode
    PROVE  TargetsOf(m) \in SUBSET Actuators
<1>1. ZeroSetNamed \subseteq Actuators
  <2>1. opShm.targets \in Seq(Actuators)
    BY DEF TypeOK, OperatorCommand
  <2> QED BY <2>1 DEF ZeroSetNamed
<1>2. ZeroSetTargets \subseteq Actuators
  BY <1>1 DEF ZeroSetTargets
<1> QED BY <1>2 DEF TargetsOf, TypeOK

(* What the published mode is turned into. *)
LEMMA SeenType ==
    ASSUME NEW m \in ControllerMode
    PROVE  Seen(m) \in {"normal", "armed", "blocked"}
  BY DEF Seen, ControllerMode

-------------------------------------------------------------------------------
(* Type correctness *)

(* The initial state is well typed. *)
LEMMA InitType == Init => TypeOK
  <1> SUFFICES ASSUME Init PROVE TypeOK
    OBVIOUS
  <1>1. ClearCommand \in OperatorCommand
    BY DEF ClearCommand, OperatorCommand, OperatorCommandCode
  <1>2. age \in 0..EnableDuration
    BY DurationAssumption DEF Init
  <1>3. mode \in ControllerMode /\ opCode \in OperatorCommandCode
    BY DEF Init, ControllerMode, OperatorCommandCode
  <1>4. pub \in {"normal", "armed", "blocked"}
    BY SeenType DEF Init, ControllerMode
  <1>5. motor \in [Actuators -> MotorState]
    BY DEF Init, MotorState
  <1> QED
    BY <1>1, <1>2, <1>3, <1>4, <1>5 DEF Init, TypeOK, Frames

(* A step of the control thread keeps the types. *)
LEMMA ControllerType == TypeOK /\ (Controller \/ Failures) => TypeOK'
<1> SUFFICES ASSUME TypeOK, Controller \/ Failures PROVE TypeOK'
  OBVIOUS
<1>1. CASE TickUpdate
  <2>1. ConsumedCode \in OperatorCommandCode
    BY DEF TypeOK, OperatorCommand, ConsumedCode, OperatorCommandCode
  <2> DEFINE next == Update(mode, ConsumedCode, age = EnableDuration)
  <2>2. next \in ControllerMode
    BY <2>1, UpdateType DEF TypeOK
  <2>3. /\ OutputPath(next) \in Frames
        /\ TargetsOf(next) \in SUBSET Actuators
    BY <2>2, OutputPathType, TargetsType
  <2>4. mode' = next /\ frame' = OutputPath(next) /\ batch' = TargetsOf(next)
    BY <1>1 DEF TickUpdate
  <2>5. age' \in 0..EnableDuration
    BY <1>1, DurationAssumption DEF TickUpdate, TypeOK, AgeIn
  <2>6. lastTs' \in Stamps \cup {ZeroStamp, NoStamp}
    BY <1>1 DEF TickUpdate, TypeOK, OperatorCommand
  <2>7. acted' \in BOOLEAN
    BY <1>1 DEF TickUpdate, TypeOK
  <2> HIDE DEF next
  <2> QED
    BY <1>1, <2>1, <2>2, <2>3, <2>4, <2>5, <2>6, <2>7
    DEF TickUpdate, TypeOK, childVars, motorVars
<1>2. CASE \E a \in Actuators : SendFrame(a)
  <2>1. PICK a \in Actuators : SendFrame(a)
    BY <1>2
  <2>2. OnFrame(motor[a], a \in hold, frame) \in MotorState
    BY OnFrameType DEF TypeOK
  <2>3. motor' \in [Actuators -> MotorState]
    BY <2>1, <2>2 DEF SendFrame, TypeOK
  <2> QED
    BY <2>1, <2>3 DEF SendFrame, HoldAfter, TypeOK, slotVars, childVars
<1>3. CASE PublishState \/ SkipPublish
  BY <1>3, SeenType
  DEF PublishState, SkipPublish, EndTick, TypeOK, OperatorCommandCode,
      slotVars, childVars, motorVars
<1>4. CASE ExitLoop \/ TickRaises
  BY <1>4
  DEF ExitLoop, TickRaises, BeginShutdown, TypeOK, OperatorCommandCode, Frames,
      slotVars, childVars, motorVars
<1>5. CASE DisableRaises
  BY <1>5 DEF DisableRaises, TypeOK, slotVars, childVars, motorVars
<1>6. CASE FinishShutdown
  BY <1>6, SeenType DEF FinishShutdown, TypeOK, slotVars, motorVars
<1>7. CASE TaskDies
  BY <1>7 DEF TaskDies, TypeOK, controlVars, slotVars, motorVars
<1> QED
  BY <1>1, <1>2, <1>3, <1>4, <1>5, <1>6, <1>7 DEF Controller, Failures

(* A step of the dashboard keeps the types. *)
LEMMA DashboardType == TypeOK /\ Dashboard => TypeOK'
<1> SUFFICES ASSUME TypeOK, Dashboard PROVE TypeOK'
  OBVIOUS
<1>1. ASSUME NEW code \in OperatorCommandCode, NEW targets \in Seq(Actuators),
             Publish(code, targets)
      PROVE  TypeOK'
  <2>1. PICK t \in Stamps \ {opShm.ts, lastTs} :
           cmd' = [ts |-> t, code |-> code,
                   count |-> Len(targets), targets |-> targets]
    BY <1>1 DEF Publish
  <2>2. cmd' \in OperatorCommand
    BY <2>1 DEF OperatorCommand
  <2> QED
    BY <1>1, <2>2 DEF Publish, TypeOK, controlVars, childVars, motorVars
<1>2. CASE \E code \in OperatorCodes : PublishOperator(code)
  <2>1. PICK code \in OperatorCodes : Publish(code, <<>>)
    BY <1>2 DEF PublishOperator
  <2>2. <<>> \in Seq(Actuators)
    OBVIOUS
  <2> QED BY <1>1, <2>1, <2>2, CodesAssumption
<1>3. CASE \E targets \in ZeroRequests : PublishZeroSet(targets)
  BY <1>1, <1>3, ZeroRequestsAssumption DEF PublishZeroSet, OperatorCommandCode
<1>4. CASE \E b \in Blocks : CopyBlock(b)
  <2>1. PICK b \in Blocks : CopyBlock(b)
    BY <1>4
  <2>2. opShm' \in OperatorCommand
    BY <2>1 DEF CopyBlock, TypeOK, OperatorCommand
  <2> QED
    BY <2>1, <2>2 DEF CopyBlock, TypeOK, controlVars, childVars, motorVars
<1>5. ASSUME NEW a \in Actuators, NEW f \in Gated, Grant(a, f) PROVE TypeOK'
  BY <1>5 DEF Grant, TypeOK, controlVars, slotVars, motorVars
<1>6. ASSUME NEW a \in Actuators, NEW f \in Gated \cup Ungated,
             motor' = [motor EXCEPT ![a] = OnFrame(@, a \in hold, f)]
      PROVE  motor' \in [Actuators -> MotorState]
  <2>1. OnFrame(motor[a], a \in hold, f) \in MotorState
    BY OnFrameType DEF TypeOK, Frames, Gated
  <2> QED BY <1>6, <2>1 DEF TypeOK
<1>7. ASSUME NEW a \in Actuators, NEW f \in Gated, SendGranted(a, f)
      PROVE  TypeOK'
  BY <1>6, <1>7 DEF SendGranted, HoldAfter, TypeOK, controlVars, slotVars
<1>8. ASSUME NEW a \in Actuators, NEW f \in Ungated, SendDirect(a, f)
      PROVE  TypeOK'
  BY <1>6, <1>8 DEF SendDirect, TypeOK, controlVars, slotVars, childVars
<1>9. CASE TaskStarts
  BY <1>9 DEF TaskStarts, TypeOK, controlVars, slotVars, motorVars
<1> QED
  BY <1>2, <1>3, <1>4, <1>5, <1>7, <1>8, <1>9 DEF Dashboard

(* A step of the environment keeps the types. *)
LEMMA EnvironmentType == TypeOK /\ Environment => TypeOK'
<1> SUFFICES ASSUME TypeOK, Environment PROVE TypeOK'
  OBVIOUS
<1>1. CASE ClockAdvances
  BY <1>1, DurationAssumption
  DEF ClockAdvances, TypeOK, slotVars, childVars, motorVars
<1>2. CASE RequestStop
  BY <1>2 DEF RequestStop, TypeOK, slotVars, childVars, motorVars
<1>3. CASE ControlStateStale
  BY <1>3
  DEF ControlStateStale, TypeOK, controlVars, slotVars, childVars, motorVars
<1>4. CASE \E ids \in SUBSET Actuators : TaskWrite(ids)
  BY <1>4 DEF TaskWrite, TypeOK, controlVars, slotVars, motorVars
<1>5. CASE \E a \in Actuators : HoldExpires(a)
  BY <1>5 DEF HoldExpires, TypeOK, controlVars, slotVars, childVars
<1> QED
  BY <1>1, <1>2, <1>3, <1>4, <1>5 DEF Environment

(* Every step of the system keeps the types. *)
LEMMA NextType == TypeOK /\ [Next]_vars => TypeOK'
<1>1. ASSUME TypeOK, UNCHANGED vars PROVE TypeOK'
  BY <1>1 DEF TypeOK, vars, controlVars, slotVars, childVars, motorVars
<1> QED
  BY <1>1, ControllerType, DashboardType, EnvironmentType DEF Next, Terminated

(* The program's variables keep their types in every behaviour. *)
THEOREM TypeCorrect == Spec => []TypeOK
  BY InitType, NextType, PTL DEF Spec

-------------------------------------------------------------------------------
(* The inductive invariant.  NoPolicyInCutModes and CutModesAreOff are not  *)
(* inductive alone: what a frame of the batch does to an actuator is known  *)
(* only when the batch belongs to the current mode (BatchMatchesMode), and  *)
(* a locked dashboard must hold no grant from earlier (GrantsNeedTx).       *)

GrantsNeedTx == granted # {} => DirectTx

IInv ==
    /\ TypeOK
    /\ BatchMatchesMode
    /\ GrantsNeedTx
    /\ NoPolicyInCutModes
    /\ CutModesAreOff

(* The invariant holds where start() ends. *)
LEMMA InitIInv == Init => IInv
<1> SUFFICES ASSUME Init PROVE IInv
  OBVIOUS
<1>1. TypeOK
  BY InitType
<1>2. \A a \in Actuators : motor[a] = "off"
  BY DEF Init
<1> QED
  BY <1>1, <1>2
  DEF Init, IInv, BatchMatchesMode, GrantsNeedTx, NoPolicyInCutModes,
      CutModesAreOff

(* A step that leaves the control thread and the motors alone. *)
LEMMA SideStep ==
    ASSUME IInv, TypeOK', GrantsNeedTx',
           UNCHANGED <<mode, phase, pc, frame, batch, txFailed, motor>>
    PROVE  IInv'
  BY DEF IInv, BatchMatchesMode, NoPolicyInCutModes, CutModesAreOff

(* tick() up to its first send: the new mode's whole path is still to send. *)
LEMMA TickIInv == IInv /\ TypeOK' /\ TickUpdate => IInv'
<1> SUFFICES ASSUME IInv, TypeOK', TickUpdate PROVE IInv'
  OBVIOUS
<1>1. /\ frame' = OutputPath(mode')
      /\ batch' = TargetsOf(mode')
      /\ pc = "idle" /\ pc' = "send"
      /\ phase = "run" /\ phase' = "run"
      /\ UNCHANGED <<txFailed, motor, granted>>
  BY DEF TickUpdate, motorVars, childVars
<1>2. mode' \in ControllerMode
  BY DEF TypeOK
<1>3. mode' \in {"DISABLED", "ESTOP", "ENABLING"} => batch' = Actuators
  BY <1>1 DEF TargetsOf
<1>4. NoPolicyInCutModes'
  BY <1>1, <1>2, <1>3 DEF IInv, NoPolicyInCutModes, ControllerMode
<1>5. CutModesAreOff'
  BY <1>1, <1>2, <1>3 DEF IInv, CutModesAreOff, ControllerMode
<1> QED
  BY <1>1, <1>4, <1>5 DEF IInv, BatchMatchesMode, GrantsNeedTx

(* One frame: it is of the current mode's path, and DISABLE in shutdown.    *)
LEMMA SendIInv ==
    ASSUME IInv, TypeOK', NEW a \in Actuators, SendFrame(a)
    PROVE  IInv'
<1>1. /\ pc = "send" /\ a \in batch
      /\ motor[a] \in MotorState
      /\ motor' = [motor EXCEPT ![a] = OnFrame(motor[a], a \in hold, frame)]
      /\ batch' = batch \ {a}
      /\ UNCHANGED <<mode, phase, pc, frame, txFailed, granted>>
  BY DEF SendFrame, childVars, IInv, TypeOK
<1>2. \A b \in Actuators \ {a} : motor'[b] = motor[b]
  BY <1>1 DEF IInv, TypeOK
<1>3. motor'[a] = OnFrame(motor[a], a \in hold, frame)
  BY <1>1 DEF IInv, TypeOK
<1>4. mode \in ControllerMode /\ frame \in Frames
  BY DEF IInv, TypeOK
<1>5. phase = "run" => frame = OutputPath(mode)
  BY <1>1 DEF IInv, BatchMatchesMode
<1>6. phase # "run" => frame = "DISABLE"
  BY <1>1 DEF IInv, BatchMatchesMode
<1>7. frame = "DISABLE" => motor'[a] = "off"
  BY <1>3 DEF OnFrame
<1>8. frame = "ENABLE" => motor'[a] = "idle"
  BY <1>3 DEF OnFrame
<1>9. motor'[a] = "policy" =>
         phase = "run" /\ mode \in {"NORMAL", "DAMPING", "ZERO_SETTING"}
  BY <1>4, <1>5, <1>6, <1>7, <1>8, OutputPathType DEF ControllerMode
<1>10. motor'[a] # "off" =>
          phase = "run" /\ mode \notin {"DISABLED", "ESTOP"}
  BY <1>4, <1>5, <1>6, <1>7, OutputPathType DEF ControllerMode
<1>11. NoPolicyInCutModes'
  BY <1>1, <1>2, <1>9 DEF IInv, NoPolicyInCutModes
<1>12. CutModesAreOff'
  BY <1>1, <1>2, <1>10 DEF IInv, CutModesAreOff
<1> QED
  BY <1>1, <1>11, <1>12 DEF IInv, BatchMatchesMode, GrantsNeedTx

(* The end of a tick: the batch has reached every actuator it addresses.    *)
LEMMA EndTickIInv == IInv /\ TypeOK' /\ EndTick => IInv'
  BY DEF EndTick, IInv, BatchMatchesMode, GrantsNeedTx, NoPolicyInCutModes,
         CutModesAreOff, slotVars, childVars, motorVars

(* shutdown() starts over with a DISABLE for every actuator. *)
LEMMA ShutdownIInv == IInv /\ TypeOK' /\ BeginShutdown => IInv'
  BY DEF BeginShutdown, IInv, BatchMatchesMode, GrantsNeedTx,
         NoPolicyInCutModes, CutModesAreOff, slotVars, childVars, motorVars

(* A failed DISABLE is on record; a shutdown that ends has sent them all.   *)
LEMMA StopIInv == IInv /\ TypeOK' /\ (DisableRaises \/ FinishShutdown) => IInv'
<1>1. CASE DisableRaises
  BY <1>1
  DEF DisableRaises, IInv, BatchMatchesMode, GrantsNeedTx, NoPolicyInCutModes,
      CutModesAreOff, slotVars, childVars, motorVars
<1>2. CASE FinishShutdown
  BY <1>2
  DEF FinishShutdown, IInv, BatchMatchesMode, GrantsNeedTx, NoPolicyInCutModes,
      CutModesAreOff, slotVars, motorVars
<1> QED BY <1>1, <1>2

(* What the dashboard sends itself: never a policy command, and only with   *)
(* its TX lock open.                                                        *)
LEMMA DirectIInv ==
    ASSUME IInv, TypeOK', NEW a \in Actuators,
           NEW f \in Gated \cup Ungated, DirectTx,
           motor' = [motor EXCEPT ![a] = OnFrame(@, a \in hold, f)],
           UNCHANGED <<mode, phase, pc, frame, batch, txFailed>>
    PROVE  IInv'
<1>1. \A b \in Actuators \ {a} : motor'[b] = motor[b]
  BY DEF IInv, TypeOK
<1>2. motor'[a] = OnFrame(motor[a], a \in hold, f)
  BY DEF IInv, TypeOK
<1>3. motor'[a] = "policy" => motor[a] = "policy"
  BY <1>2 DEF OnFrame, Control, Gated, Ungated
<1>4. NoPolicyInCutModes'
  BY <1>1, <1>3 DEF IInv, NoPolicyInCutModes
<1> QED
  BY <1>4 DEF IInv, BatchMatchesMode, GrantsNeedTx, CutModesAreOff

(* Every step preserves the invariant. *)
LEMMA NextIInv == IInv /\ [Next]_vars => IInv'
<1> SUFFICES ASSUME IInv, [Next]_vars PROVE IInv'
  OBVIOUS
<1>0. TypeOK'
  BY NextType DEF IInv
<1>1. CASE TickUpdate
  BY <1>0, <1>1, TickIInv
<1>2. ASSUME NEW a \in Actuators, SendFrame(a) PROVE IInv'
  BY <1>0, <1>2, SendIInv
<1>3. CASE PublishState \/ SkipPublish
  BY <1>0, <1>3, EndTickIInv DEF PublishState, SkipPublish
<1>4. CASE ExitLoop \/ TickRaises
  BY <1>0, <1>4, ShutdownIInv DEF ExitLoop, TickRaises
<1>5. CASE DisableRaises \/ FinishShutdown
  BY <1>0, <1>5, StopIInv
<1>6. CASE TaskDies \/ TaskStarts \/ RequestStop \/ ControlStateStale
            \/ ClockAdvances
  <2>1. UNCHANGED <<mode, phase, pc, frame, batch, txFailed, motor, granted>>
    BY <1>6 DEF TaskDies, TaskStarts, RequestStop, ControlStateStale,
                ClockAdvances, controlVars, childVars, motorVars
  <2> QED BY <1>0, <2>1, SideStep DEF GrantsNeedTx, IInv
<1>7. ASSUME NEW ids \in SUBSET Actuators, TaskWrite(ids) PROVE IInv'
  BY <1>0, <1>7, SideStep
  DEF TaskWrite, GrantsNeedTx, IInv, controlVars, motorVars
<1>8. ASSUME NEW a \in Actuators, HoldExpires(a) PROVE IInv'
  BY <1>0, <1>8, SideStep
  DEF HoldExpires, GrantsNeedTx, IInv, controlVars, childVars
<1>9. ASSUME NEW code, NEW targets, Publish(code, targets) PROVE IInv'
  BY <1>0, <1>9, SideStep
  DEF Publish, GrantsNeedTx, IInv, controlVars, childVars, motorVars
<1>10. ASSUME NEW b \in Blocks, CopyBlock(b) PROVE IInv'
  BY <1>0, <1>10, SideStep
  DEF CopyBlock, GrantsNeedTx, IInv, controlVars, childVars, motorVars
<1>11. ASSUME NEW a \in Actuators, NEW f \in Gated, Grant(a, f) PROVE IInv'
  BY <1>0, <1>11, SideStep
  DEF Grant, GrantsNeedTx, IInv, controlVars, motorVars
<1>12. ASSUME NEW a \in Actuators, NEW f \in Gated, SendGranted(a, f)
       PROVE  IInv'
  BY <1>0, <1>12, DirectIInv DEF SendGranted, GrantsNeedTx, IInv, controlVars
<1>13. ASSUME NEW a \in Actuators, NEW f \in Ungated, SendDirect(a, f)
       PROVE  IInv'
  BY <1>0, <1>13, DirectIInv DEF SendDirect, controlVars
<1>14. CASE UNCHANGED vars
  BY <1>0, <1>14, SideStep
  DEF GrantsNeedTx, IInv, vars, controlVars, childVars, motorVars
<1> QED
  BY <1>1, <1>2, <1>3, <1>4, <1>5, <1>6, <1>7, <1>8, <1>9, <1>10, <1>11,
     <1>12, <1>13, <1>14
  DEF Next, Controller, Failures, Dashboard, Environment, Terminated,
      PublishOperator, PublishZeroSet

(* The inductive invariant holds in every behaviour. *)
THEOREM InductiveInvariant == Spec => []IInv
  BY InitIInv, NextIInv, PTL DEF Spec

(* Outside NORMAL, DAMPING and ZERO_SETTING, and after shutdown(), no       *)
(* firmware latches a policy command, whatever the dashboard sends.         *)
THEOREM PolicyIsCut == Spec => []NoPolicyInCutModes
<1>1. IInv => NoPolicyInCutModes
  BY DEF IInv
<1> QED BY <1>1, InductiveInvariant, PTL

(* With the dashboard's TX locked, DISABLED, ESTOP and shutdown() leave no  *)
(* actuator in MIT mode once their frames are sent.                         *)
THEOREM CutModesDisable == Spec => []CutModesAreOff
<1>1. IInv => CutModesAreOff
  BY DEF IInv
<1> QED BY <1>1, InductiveInvariant, PTL

-------------------------------------------------------------------------------
(* Refinement of DriveAuthority *)

Load == [a \in Actuators |-> LoadOf(motor[a])]

(* update() moves along DriveAuthority's transitions. *)
LEMMA UpdateFollows ==
    ASSUME NEW m \in ControllerMode, NEW c \in OperatorCommandCode,
           NEW e \in BOOLEAN, Update(m, c, e) # m
    PROVE  Update(m, c, e) \in Authority!Follows(m)
<1> USE DEF Update, UpdateEstop, UpdateTail, Authority!Follows, ControllerMode,
            OperatorCommandCode
<1>1. CASE m = "ESTOP"
  BY <1>1
<1>2. CASE m = "DISABLED"
  BY <1>2
<1>3. CASE m = "ENABLING"
  BY <1>3
<1>4. CASE m = "DAMPING"
  BY <1>4
<1>5. CASE m = "NORMAL"
  BY <1>5
<1>6. CASE m = "ZERO_SETTING"
  BY <1>6
<1> QED BY <1>1, <1>2, <1>3, <1>4, <1>5, <1>6

(* A frame for one actuator is a step of DriveAuthority: ENABLE only where  *)
(* energising is allowed, POLICY only under NORMAL.                         *)
LEMMA FrameRefines ==
    ASSUME TypeOK, NEW a \in Actuators, NEW f \in Frames \cup Ungated,
           f = "ENABLE" => mode = "ENABLING" \/ DirectTx,
           f = "POLICY" => mode = "NORMAL",
           f = "MANUAL" => DirectTx,
           motor' = [motor EXCEPT ![a] = OnFrame(@, a \in hold, f)],
           mode' = mode
    PROVE  Authority!Next \/ Load' = Load
<1> DEFINE m == motor[a]
           n == OnFrame(m, a \in hold, f)
<1>1. m \in MotorState /\ n \in MotorState
  BY OnFrameType DEF TypeOK
<1>2. Load' = [Load EXCEPT ![a] = LoadOf(n)]
  BY DEF TypeOK, Load
<1>3. Load[a] = LoadOf(m)
  BY DEF Load
<1>4. CASE LoadOf(n) = "off"
  BY <1>2, <1>4
  DEF Authority!Next, Authority!Cut, Authority!SetLoad, Load
<1>5. CASE LoadOf(n) = LoadOf(m)
  BY <1>2, <1>3, <1>5 DEF Load
<1>6. CASE LoadOf(n) = "passive" /\ LoadOf(m) \in {"manual", "driven"}
  BY <1>2, <1>3, <1>6
  DEF Authority!Next, Authority!Relax, Authority!SetLoad, Load
<1>7. CASE LoadOf(n) = "passive" /\ LoadOf(m) = "off"
  <2>1. m = "off" /\ n # "off"
    BY <1>1, <1>7 DEF LoadOf, MotorState
  <2>2. f = "ENABLE"
    BY <2>1 DEF OnFrame, Control, Frames, Ungated
  <2> QED
    BY <1>2, <1>3, <1>7, <2>2
    DEF Authority!Next, Authority!Energise, Authority!SetLoad, Load
<1>8. CASE LoadOf(n) = "driven" /\ LoadOf(m) # "driven"
  <2>1. n = "policy" /\ m # "policy"
    BY <1>1, <1>8 DEF LoadOf, MotorState
  <2>2. f = "POLICY" /\ m # "off"
    BY <2>1 DEF OnFrame, Control, Frames, Ungated
  <2>3. LoadOf(m) # "off"
    BY <1>1, <2>2 DEF LoadOf, MotorState
  <2> QED
    BY <1>2, <1>3, <1>8, <2>2, <2>3
    DEF Authority!Next, Authority!Drive, Authority!SetLoad, Load
<1>9. CASE LoadOf(n) = "manual" /\ LoadOf(m) # "manual"
  <2>1. n = "manual" /\ m # "manual"
    BY <1>1, <1>9 DEF LoadOf, MotorState
  <2>2. f = "MANUAL" /\ m # "off"
    BY <2>1 DEF OnFrame, Control, Frames, Ungated
  <2>3. LoadOf(m) # "off"
    BY <1>1, <2>2 DEF LoadOf, MotorState
  <2> QED
    BY <1>2, <1>3, <1>9, <2>2, <2>3
    DEF Authority!Next, Authority!Steer, Authority!SetLoad, Load
<1>10. /\ LoadOf(n) \in {"off", "passive", "manual", "driven"}
       /\ LoadOf(m) \in {"off", "passive", "manual", "driven"}
  BY <1>1 DEF LoadOf, MotorState
<1> QED BY <1>4, <1>5, <1>6, <1>7, <1>8, <1>9, <1>10

(* Every step of the system is a step of DriveAuthority or leaves it alone. *)
LEMMA NextRefines == IInv /\ [Next]_vars => [Authority!Next]_(Authority!vars)
<1> SUFFICES ASSUME IInv, [Next]_vars
             PROVE  Authority!Next \/ (mode' = mode /\ Load' = Load)
  BY DEF Authority!vars, Load
<1>0. TypeOK
  BY DEF IInv
<1>1. CASE TickUpdate
  <2>1. /\ mode' = Update(mode, ConsumedCode, age = EnableDuration)
        /\ motor' = motor
    BY <1>1 DEF TickUpdate, motorVars
  <2>2. ConsumedCode \in OperatorCommandCode
    BY <1>0 DEF TypeOK, OperatorCommand, ConsumedCode, OperatorCommandCode
  <2>3. mode' # mode => mode' \in Authority!Follows(mode)
    BY <1>0, <2>1, <2>2, UpdateFollows DEF TypeOK
  <2> QED BY <2>1, <2>3 DEF Authority!Next, Authority!Move, Load
<1>2. ASSUME NEW a \in Actuators, SendFrame(a)
      PROVE  Authority!Next \/ (mode' = mode /\ Load' = Load)
  <2>1. /\ pc = "send" /\ mode' = mode
        /\ motor' = [motor EXCEPT ![a] = OnFrame(@, a \in hold, frame)]
    BY <1>2 DEF SendFrame
  <2>2. frame \in Frames /\ mode \in ControllerMode
    BY <1>0 DEF TypeOK
  <2>3. frame = OutputPath(mode) \/ frame = "DISABLE"
    BY <2>1 DEF IInv, BatchMatchesMode
  <2>4. /\ frame = "ENABLE" => mode = "ENABLING"
        /\ frame = "POLICY" => mode = "NORMAL"
    BY <2>2, <2>3, OutputPathType
  <2>5. frame # "MANUAL"
    BY <2>2 DEF Frames
  <2> QED BY <1>0, <2>1, <2>2, <2>4, <2>5, FrameRefines
<1>3. ASSUME NEW a \in Actuators, NEW f \in Gated, SendGranted(a, f)
      PROVE  Authority!Next \/ (mode' = mode /\ Load' = Load)
  <2>1. /\ DirectTx /\ mode' = mode
        /\ motor' = [motor EXCEPT ![a] = OnFrame(@, a \in hold, f)]
    BY <1>3 DEF SendGranted, IInv, GrantsNeedTx, controlVars
  <2>2. f \in Frames \cup Ungated /\ f \notin {"POLICY", "MANUAL"}
    BY DEF Frames, Gated
  <2>3. Authority!Next \/ Load' = Load
    BY <1>0, <2>1, <2>2, FrameRefines
  <2> QED BY <2>1, <2>3
<1>4. ASSUME NEW a \in Actuators, NEW f \in Ungated, SendDirect(a, f)
      PROVE  Authority!Next \/ (mode' = mode /\ Load' = Load)
  BY <1>0, <1>4, FrameRefines DEF SendDirect, controlVars, Ungated
<1>5. ASSUME UNCHANGED <<mode, motor>> PROVE mode' = mode /\ Load' = Load
  BY <1>5 DEF Load
<1>6. CASE PublishState \/ SkipPublish \/ ExitLoop \/ TickRaises
            \/ DisableRaises \/ FinishShutdown \/ TaskDies \/ Environment
            \/ TaskStarts \/ UNCHANGED vars
  BY <1>5, <1>6
  DEF PublishState, SkipPublish, EndTick, ExitLoop, TickRaises, BeginShutdown,
      DisableRaises, FinishShutdown, TaskDies, Environment, ClockAdvances,
      RequestStop, ControlStateStale, TaskWrite, HoldExpires, TaskStarts, vars,
      controlVars, motorVars
<1>7. CASE \/ \E code \in OperatorCodes : PublishOperator(code)
           \/ \E targets \in ZeroRequests : PublishZeroSet(targets)
           \/ \E b \in Blocks : CopyBlock(b)
           \/ \E a \in Actuators, f \in Gated : Grant(a, f)
  BY <1>5, <1>7
  DEF PublishOperator, PublishZeroSet, Publish, CopyBlock, Grant,
      controlVars, motorVars
<1> QED
  BY <1>1, <1>2, <1>3, <1>4, <1>6, <1>7
  DEF Next, Controller, Failures, Dashboard, Terminated

(* The controller, its dashboard and its firmware implement DriveAuthority: *)
(* policy torque under NORMAL only, NORMAL from DAMPING only, a latched     *)
(* ESTOP, and arming as the only way on with the dashboard's TX locked.     *)
THEOREM Refinement == Spec => ImplementsDriveAuthority
<1>1. Init => Authority!Init
  BY DEF Init, Authority!Init, LoadOf
<1> QED
  BY <1>1, NextRefines, InductiveInvariant, PTL
  DEF Spec, ImplementsDriveAuthority, Authority!Spec

-------------------------------------------------------------------------------
(* The operator slot.  It has no lock and no sequence number; what keeps    *)
(* the timestamp test of _consume_operator_command sound is that a copy     *)
(* moves timestamp and code together.                                       *)

StampWithCode == \A b \in Blocks : "ts" \in b <=> "code" \in b

SlotInv ==
    /\ opShm.ts = cmd.ts => opShm.code = cmd.code
    /\ lastTs = cmd.ts => acted

(* The zeroed slot has the invariant: nothing is consumed yet. *)
LEMMA InitSlot == Init => SlotInv
  BY StampsAssumption DEF Init, SlotInv, ClearCommand

(* Publications, copies and ticks keep it. *)
LEMMA NextSlot ==
    ASSUME StampWithCode, SlotInv, [Next]_vars PROVE SlotInv'
<1>1. ASSUME NEW code, NEW targets, Publish(code, targets) PROVE SlotInv'
  BY <1>1 DEF Publish, SlotInv, controlVars
<1>2. ASSUME NEW b \in Blocks, CopyBlock(b) PROVE SlotInv'
  <2>1. CASE "ts" \in b
    BY <1>2, <2>1 DEF StampWithCode, CopyBlock, SlotInv, controlVars
  <2>2. CASE "ts" \notin b
    BY <1>2, <2>2 DEF StampWithCode, CopyBlock, SlotInv, controlVars
  <2> QED BY <2>1, <2>2
<1>3. CASE TickUpdate
  BY <1>3 DEF TickUpdate, AlreadyConsumed, SlotInv
<1>4. ASSUME UNCHANGED <<lastTs, slotVars>> PROVE SlotInv'
  BY <1>4 DEF SlotInv, slotVars
<1>5. CASE (Controller /\ ~TickUpdate) \/ Failures \/ Environment
            \/ TaskStarts \/ UNCHANGED vars
  BY <1>4, <1>5
  DEF Controller, Failures, Environment, PublishState, SkipPublish, EndTick,
      ExitLoop, TickRaises, BeginShutdown, DisableRaises, FinishShutdown,
      SendFrame, TaskDies, ClockAdvances, RequestStop, ControlStateStale,
      TaskWrite, HoldExpires, TaskStarts, vars, controlVars
<1>6. CASE \E a \in Actuators, f \in Gated : Grant(a, f) \/ SendGranted(a, f)
  BY <1>4, <1>6 DEF Grant, SendGranted, controlVars
<1>7. CASE \E a \in Actuators, f \in Ungated : SendDirect(a, f)
  BY <1>4, <1>7 DEF SendDirect, controlVars
<1> QED
  BY <1>1, <1>2, <1>3, <1>5, <1>6, <1>7
  DEF Next, Dashboard, PublishOperator, PublishZeroSet, Terminated

(* Where the copy of a command moves timestamp and code together, a command *)
(* ignored for its timestamp was acted on, whatever the interleaving of     *)
(* copies and ticks and wherever the other fields tear.                     *)
THEOREM SlotIsSound == ASSUME StampWithCode PROVE Spec => IgnoredWasConsumed
<1>1. SlotInv /\ [Next]_vars => SlotInv'
  BY NextSlot
<1>2. SlotInv /\ [Next]_vars =>
         [TickUpdate /\ AlreadyConsumed /\ opShm = cmd => acted]_vars
  BY DEF SlotInv, AlreadyConsumed
<1> QED
  BY <1>1, <1>2, InitSlot, PTL DEF Spec, IgnoredWasConsumed
===============================================================================
