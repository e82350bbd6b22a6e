------------------------------ MODULE MCSparqCan -------------------------------
(* Small instances of SparqCan for TLC: the first hip and the last knee. *)
EXTENDS SparqCan, TLC

CONSTANTS leftFrontHipRoll, rightRearKneePitch

OneMotor == {leftFrontHipRoll}

(* CAN_ID_LEFT_FRONT_HIP_ROLL = 0x01, CAN_ID_RIGHT_REAR_KNEE_PITCH = 0x33. *)
MCCanId == [m \in Motors |-> IF m = rightRearKneePitch THEN 51 ELSE 1]
===============================================================================
