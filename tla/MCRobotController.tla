--------------------------- MODULE MCRobotController ---------------------------
(* Small instances of RobotController for TLC. *)
EXTENDS RobotController, TLC

CONSTANTS a1, a2, s1, s2, s3

MCActuators == {a1, a2}
OneActuator == {a1}
MCStamps    == {s1, s2, s3}

(* What one store moves of OperatorCommandC: a 16-byte vector, or all of it. *)
Vectors  == {{"ts", "code"}, {"count", "targets"}}
OneStore == {Fields}

(* The six commands of the dashboard's endpoints. *)
DashboardCodes == {"ENABLE", "RUN", "DAMPING", "ZERO_SET", "ESTOP",
                   "RESET_FAULT"}

ArmRunStop == {"ENABLE", "RUN", "ESTOP"}
ZeroCodes  == {"ENABLE", "RUN", "DAMPING", "ZERO_SET"}

(* Zero every actuator (a request without a body), or one of them. *)
ZeroAll      == {<<>>}
ZeroAllOrOne == {<<>>} \cup {<<a>> : a \in Actuators}

ActuatorSymmetry == Permutations(MCActuators) \cup Permutations(MCStamps)
===============================================================================
