---------------------------- MODULE DriveAuthority ----------------------------
(***************************************************************************)
(* What the robot controller promises about its actuators, without ticks,   *)
(* shared memory or CAN frames: who may be energised and who may be driven. *)
(*   - policy torque (a driven load) exists only under NORMAL authority;    *)
(*   - NORMAL is reached from DAMPING and from nowhere else;                *)
(*   - arming (ENABLING) starts from DISABLED or ZERO_SETTING;              *)
(*   - ESTOP is left for DISABLED and for nothing else;                     *)
(*   - an actuator is switched on by arming, and moved by the policy; by    *)
(*     the dashboard's own transmissions only where those are allowed       *)
(*     (Panel).                                                             *)
(***************************************************************************)
CONSTANTS Actuators, Panel

VARIABLES authority, load

vars == <<authority, load>>

Authorities ==
    {"DISABLED", "ENABLING", "NORMAL", "DAMPING", "ZERO_SETTING", "ESTOP"}

(* The authorities that may follow x. *)
Follows(x) ==
    CASE x = "ESTOP"        -> {"DISABLED"}
      [] x = "DISABLED"     -> {"ENABLING", "DAMPING", "ZERO_SETTING", "ESTOP"}
      [] x = "ENABLING"     -> {"DISABLED", "DAMPING", "ZERO_SETTING", "ESTOP"}
      [] x = "DAMPING"      -> {"DISABLED", "NORMAL", "ZERO_SETTING", "ESTOP"}
      [] x = "NORMAL"       -> {"DISABLED", "DAMPING", "ZERO_SETTING", "ESTOP"}
      [] x = "ZERO_SETTING" -> {"DISABLED", "ENABLING", "DAMPING", "ESTOP"}

Init ==
    /\ authority = "DISABLED"
    /\ load = [a \in Actuators |-> "off"]

Move ==
    /\ authority' \in Follows(authority)
    /\ UNCHANGED load

SetLoad(a, x) ==
    /\ load' = [load EXCEPT ![a] = x]
    /\ UNCHANGED authority

Energise(a) ==
    /\ load[a] = "off"
    /\ authority = "ENABLING" \/ Panel
    /\ SetLoad(a, "passive")

Drive(a) ==
    /\ load[a] # "off"
    /\ authority = "NORMAL"
    /\ SetLoad(a, "driven")

Steer(a) ==
    /\ load[a] # "off"
    /\ Panel
    /\ SetLoad(a, "manual")

Relax(a) ==
    /\ load[a] # "off"
    /\ SetLoad(a, "passive")

Cut(a) == SetLoad(a, "off")

Next ==
    \/ Move
    \/ \E a \in Actuators : \/ Energise(a) \/ Drive(a) \/ Steer(a)
                           \/ Relax(a) \/ Cut(a)

Spec == Init /\ [][Next]_vars
===============================================================================
