------------------------ MODULE ControllerStateMachine ------------------------
(***************************************************************************)
(* The mode machine of the robot controller                                 *)
(* (robot_controller/state_machine.py) as operators over the current mode,  *)
(* and the mode's one actuator output path (RobotController.tick).          *)
(***************************************************************************)

ControllerMode ==
    {"DISABLED", "ENABLING", "NORMAL", "DAMPING", "ZERO_SETTING", "ESTOP"}

OperatorCommandCode ==
    {"NONE", "ENABLE", "DISABLE", "DAMPING", "ZERO_SET", "ESTOP",
     "RESET_FAULT", "RUN"}

(* What a latched emergency stop answers: only RESET_FAULT leaves it. *)
UpdateEstop(code) ==
    IF code = "RESET_FAULT" THEN "DISABLED" ELSE "ESTOP"

(* The tail of update(), reached by the codes no earlier test returned for: *)
(* NONE, RUN outside DAMPING and NORMAL, and ENABLE inside ENABLING.        *)
UpdateTail(mode, code, expired) ==
    CASE mode = "ZERO_SETTING" /\ code = "NONE" -> "DISABLED"
      [] mode = "ENABLING" /\ expired           -> "DAMPING"
      [] OTHER                                  -> mode

(* Mutant: RUN accepted while the actuators are still being enabled. *)
UpdateRunsEarly(mode, code, expired) ==
    CASE code = "ESTOP"                       -> "ESTOP"
      [] mode = "ESTOP" /\ code # "ESTOP"     -> UpdateEstop(code)
      [] mode # "ESTOP" /\ code \in {"DISABLE", "RESET_FAULT"} -> "DISABLED"
      [] mode # "ESTOP" /\ code = "DAMPING"   -> "DAMPING"
      [] mode # "ESTOP" /\ code = "ZERO_SET"  -> "ZERO_SETTING"
      [] mode \in {"DISABLED", "ZERO_SETTING"} /\ code = "ENABLE" -> "ENABLING"
      [] mode \in {"ENABLING", "DAMPING"} /\ code = "RUN" -> "NORMAL"
      [] OTHER                                -> UpdateTail(mode, code, expired)

(* Mutant: the enabling timer is tested before the command. *)
UpdateTimerFirst(mode, code, expired) ==
    CASE mode = "ENABLING" /\ expired         -> "DAMPING"
      [] code = "ESTOP" /\ ~(mode = "ENABLING" /\ expired) -> "ESTOP"
      [] mode = "DISABLED" /\ code = "ENABLE" -> "ENABLING"
      [] mode = "DAMPING" /\ code = "RUN"     -> "NORMAL"
      [] OTHER                                -> mode

(* ControllerStateMachine.update: the mode after one command.  `expired` is *)
(* the test now - mode_enter_time >= enable_duration_s.                     *)
Update(mode, code, expired) ==
    CASE code = "ESTOP"                       -> "ESTOP"
      [] mode = "ESTOP" /\ code # "ESTOP"     -> UpdateEstop(code)
      [] mode # "ESTOP" /\ code \in {"DISABLE", "RESET_FAULT"} -> "DISABLED"
      [] mode # "ESTOP" /\ code = "DAMPING"   -> "DAMPING"
      [] mode # "ESTOP" /\ code = "ZERO_SET"  -> "ZERO_SETTING"
      [] mode \in {"DISABLED", "ZERO_SETTING"} /\ code = "ENABLE" -> "ENABLING"
      [] mode = "DAMPING" /\ code = "RUN"     -> "NORMAL"
      [] OTHER                                -> UpdateTail(mode, code, expired)

(* Mutant: an emergency stop that only damps. *)
OutputPathDampsEstop(mode) ==
    CASE mode = "DISABLED"              -> "DISABLE"
      [] mode = "ENABLING"              -> "ENABLE"
      [] mode = "ZERO_SETTING"          -> "ZERO_SET"
      [] mode \in {"DAMPING", "ESTOP"}  -> "DAMPING"
      [] mode = "NORMAL"                -> "POLICY"

(* The frame kind tick() sends in a mode, one path per mode. *)
OutputPath(mode) ==
    CASE mode \in {"DISABLED", "ESTOP"} -> "DISABLE"
      [] mode = "ENABLING"              -> "ENABLE"
      [] mode = "ZERO_SETTING"          -> "ZERO_SET"
      [] mode = "DAMPING"               -> "DAMPING"
      [] mode = "NORMAL"                -> "POLICY"
===============================================================================
