---------------------------- MODULE SparqCanProofs -----------------------------
(***************************************************************************)
(* SparqCan keeps its types, sends no command before calibration and sends  *)
(* only published commands, each field never older than the one before, for *)
(* any motors, fields and faults.                                           *)
(***************************************************************************)
EXTENDS SparqCan, TLAPS

(* A motor without an offset is one the CAN thread has only zeroed. *)
Uncalibrated ==
    \A m \in Motors : offset[m] = "none" =>
        comm \in {"drain", "zero", "first", "ended"} /\ frame[m] = Zero

(* Down the path of a command the writes get older. *)
Aged ==
    /\ buf <= ctrl
    /\ \A m \in Motors, f \in Fields :
        frame[m][f] <= param[m][f] /\ param[m][f] <= buf

(* A write that has begun is one of the MaxVersion. *)
Bounded == writing => ctrl < MaxVersion

IInv == TypeOK /\ Bounded /\ Uncalibrated /\ Aged

USE DEF commVars, updVars, shmVars, busVars, motorVars, vars

LEMMA ZeroType == Zero \in [Fields -> 0..MaxVersion]
BY VersionAssumption DEF Zero

LEMMA InitInv == Init => IInv
<1> SUFFICES ASSUME Init PROVE IInv
    OBVIOUS
<1>1. rx \in SUBSET (Motors \X BOOLEAN)
  <2>1. Motors \X {FALSE} \subseteq Motors \X BOOLEAN
      BY Zenon
  <2> QED BY <2>1 DEF Init
<1>2. fb \in [Motors -> BOOLEAN \X {"none", "measured", "blind"}]
  <2>1. <<FALSE, "none">> \in BOOLEAN \X {"none", "measured", "blind"}
      BY Zenon
  <2> QED BY <2>1 DEF Init
<1>3. TypeOK
  <2>1. buf \in 0..MaxVersion /\ ctrl \in 0..MaxVersion
      BY VersionAssumption DEF Init
  <2>2. /\ param \in [Motors -> [Fields -> 0..MaxVersion]]
        /\ frame \in [Motors -> [Fields -> 0..MaxVersion]]
      BY ZeroType DEF Init
  <2>3. /\ running \in BOOLEAN /\ alive \in BOOLEAN
        /\ writing \in BOOLEAN /\ writer \in BOOLEAN
      BY DEF Init
  <2> QED BY <1>1, <1>2, <2>1, <2>2, <2>3 DEF Init, TypeOK
<1>4. Bounded /\ Uncalibrated /\ Aged
    BY VersionAssumption DEF Init, Bounded, Uncalibrated, Aged, Zero
<1> QED BY <1>3, <1>4 DEF IInv

LEMMA TypeStep == TypeOK /\ Bounded /\ [Next]_vars => TypeOK'
<1> SUFFICES ASSUME TypeOK, Bounded, [Next]_vars PROVE TypeOK'
    OBVIOUS
<1> USE VersionAssumption, ZeroType DEF TypeOK
<1>1. CASE UNCHANGED vars
    BY <1>1
<1>2. CASE WriteBegin
    BY <1>2 DEF WriteBegin
<1>3. CASE WriteEnd
  <2>1. ctrl < MaxVersion
      BY <1>3 DEF WriteEnd, Bounded
  <2>2. ctrl' \in 0..MaxVersion
      BY <1>3, <2>1 DEF WriteEnd
  <2>3. writing' \in BOOLEAN
      BY <1>3 DEF WriteEnd
  <2> QED BY <1>3, <2>2, <2>3 DEF WriteEnd
<1>4. CASE WriterDies
    BY <1>4 DEF WriterDies
<1>5. ASSUME NEW m \in Motors, NEW err \in BOOLEAN, MotorAnswers(m, err)
      PROVE TypeOK'
    BY <1>5 DEF MotorAnswers
<1>6. ASSUME NEW m \in Motors, MotorSilent(m) PROVE TypeOK'
    BY <1>6 DEF MotorSilent
<1>7. CASE CommDrain
    BY <1>7 DEF CommDrain
<1>8. ASSUME NEW m \in Motors, CommZero(m) PROVE TypeOK'
    BY <1>8 DEF CommZero
<1>9. CASE CommWakes
    BY <1>9 DEF CommWakes
<1>10. ASSUME NEW m \in Motors, NEW err \in BOOLEAN, CommFirst(m, err)
       PROVE TypeOK'
    BY <1>10 DEF CommFirst, HeardAfter
<1>11. CASE CommCalibrate
    BY <1>11 DEF CommCalibrate
<1>12. CASE CommTest
    BY <1>12 DEF CommTest
<1>13. ASSUME NEW m \in Motors, NEW err \in BOOLEAN, CommReceive(m, err)
       PROVE TypeOK'
    BY <1>13 DEF CommReceive, HeardAfter
<1>14. CASE CommReceived
    BY <1>14 DEF CommReceived
<1>15. ASSUME NEW m \in Motors, CommSend(m) PROVE TypeOK'
    BY <1>15 DEF CommSend
<1>16. CASE UpdTest
    BY <1>16 DEF UpdTest
<1>17. CASE UpdRead
    BY <1>17 DEF UpdRead
<1>18. ASSUME NEW f \in Fields, UpdStore(f) PROVE TypeOK'
    BY <1>18 DEF UpdStore
<1>19. CASE UpdFeedback
  <2>1. fb' \in [Motors -> BOOLEAN \X {"none", "measured", "blind"}]
    <3>1. \A m \in Motors : offset[m] \in {"none", "measured", "blind"}
        OBVIOUS
    <3>2. ASSUME NEW b \in BOOLEAN, NEW x \in {"none", "measured", "blind"}
          PROVE <<b, x>> \in BOOLEAN \X {"none", "measured", "blind"}
        BY Zenon
    <3>3. ASSUME NEW m \in Motors
          PROVE <<m \in heard, offset[m]>> \in
                    BOOLEAN \X {"none", "measured", "blind"}
      <4>1. (m \in heard) \in BOOLEAN
          OBVIOUS
      <4> QED BY <3>1, <3>2, <4>1, Zenon
    <3> QED BY <1>19, <3>3, Zenon DEF UpdFeedback
  <2> QED BY <1>19, <2>1 DEF UpdFeedback
<1>20. CASE PrintTest
    BY <1>20 DEF PrintTest
<1>21. CASE SignalHandler
    BY <1>21 DEF SignalHandler
<1>22. CASE MainJoins
    BY <1>22 DEF MainJoins
<1>23. CASE Terminate
    BY <1>23 DEF Terminate
<1> QED
    BY <1>1, <1>2, <1>3, <1>4, <1>5, <1>6, <1>7, <1>8, <1>9, <1>10, <1>11,
       <1>12, <1>13, <1>14, <1>15, <1>16, <1>17, <1>18, <1>19, <1>20, <1>21,
       <1>22, <1>23 DEF Next, Comm, Upd, Upper, Bus, Motor, Ended

(* Only WriteBegin and WriteEnd touch what Bounded speaks of. *)
LEMMA BoundedStep == Bounded /\ [Next]_vars => Bounded'
BY DEF Bounded, Next, Comm, Upd, Upper, Bus, Motor, Ended, WriteBegin,
       WriteEnd, WriterDies, MotorAnswers, MotorSilent, CommDrain, CommZero,
       CommWakes, CommFirst, CommCalibrate, CommTest, CommReceive,
       CommReceived, CommSend, UpdTest, UpdRead, UpdStore, UpdFeedback,
       PrintTest, SignalHandler, MainJoins, Terminate

(* Only the CAN thread and Terminate touch what Uncalibrated speaks of. *)
LEMMA UncalibratedStep ==
    TypeOK /\ Uncalibrated /\ [Next]_vars => Uncalibrated'
<1> SUFFICES ASSUME TypeOK, Uncalibrated, [Next]_vars PROVE Uncalibrated'
    OBVIOUS
<1> USE DEF Uncalibrated
<1>1. CASE UNCHANGED <<comm, offset, frame>>
    BY <1>1
<1>2. CASE CommDrain \/ CommWakes \/ CommTest \/ CommReceived \/ Terminate
    BY <1>2 DEF CommDrain, CommWakes, CommTest, CommReceived, Terminate
<1>3. ASSUME NEW m \in Motors, CommZero(m) PROVE Uncalibrated'
    BY <1>3 DEF CommZero, TypeOK
<1>4. CASE CommCalibrate
    BY <1>4 DEF CommCalibrate
<1>5. ASSUME NEW m \in Motors, NEW err \in BOOLEAN,
             CommFirst(m, err) \/ CommReceive(m, err)
      PROVE Uncalibrated'
    BY <1>5 DEF CommFirst, CommReceive
<1>6. ASSUME NEW m \in Motors, CommSend(m) PROVE Uncalibrated'
    BY <1>6 DEF CommSend
<1>7. ASSUME NEW m \in Motors, Motor(m) PROVE UNCHANGED <<comm, offset, frame>>
    BY <1>7 DEF Motor, MotorAnswers, MotorSilent
<1>8. CASE Upd \/ PrintTest \/ SignalHandler \/ MainJoins \/ Upper
    BY <1>1, <1>8 DEF Upd, UpdTest, UpdRead, UpdStore, UpdFeedback, PrintTest,
       SignalHandler, MainJoins, Upper, WriteBegin, WriteEnd, WriterDies
<1> QED
    BY <1>1, <1>2, <1>3, <1>4, <1>5, <1>6, <1>7, <1>8
       DEF Next, Comm, Bus, Ended

(* The steps that move a version along its path. *)
LEMMA AgedStep == TypeOK /\ Aged /\ [Next]_vars => Aged'
<1> SUFFICES ASSUME TypeOK, Aged, [Next]_vars PROVE Aged'
    OBVIOUS
<1> USE VersionAssumption DEF Aged
<1>1. CASE UNCHANGED <<buf, ctrl, frame, param>>
    BY <1>1
<1>2. CASE WriteEnd
    BY <1>2 DEF WriteEnd, TypeOK
<1>3. CASE UpdRead
  <2>1. buf' = ctrl /\ ctrl' = ctrl /\ frame' = frame /\ param' = param
      BY <1>3 DEF UpdRead
  <2> QED BY <2>1 DEF TypeOK
<1>4. ASSUME NEW f \in Fields, UpdStore(f) PROVE Aged'
  <2>1. /\ buf' = buf /\ ctrl' = ctrl /\ frame' = frame
        /\ param' = [m \in Motors |-> [param[m] EXCEPT ![f] = buf]]
      BY <1>4 DEF UpdStore
  <2>2. ASSUME NEW m \in Motors, NEW g \in Fields
        PROVE frame'[m][g] <= param'[m][g] /\ param'[m][g] <= buf'
    <3>1. param'[m][g] = IF g = f THEN buf ELSE param[m][g]
        BY <2>1 DEF TypeOK
    <3>2. /\ frame[m][g] \in 0..MaxVersion /\ param[m][g] \in 0..MaxVersion
          /\ buf \in 0..MaxVersion
        BY DEF TypeOK
    <3> QED BY <2>1, <3>1, <3>2
  <2> QED BY <2>1, <2>2
<1>5. ASSUME NEW m \in Motors, CommZero(m) PROVE Aged'
    BY <1>5 DEF CommZero, Zero, TypeOK
<1>6. ASSUME NEW m \in Motors, CommSend(m) PROVE Aged'
    BY <1>6 DEF CommSend, TypeOK
<1>7. CASE CommDrain \/ CommWakes \/ CommCalibrate \/ CommTest \/ CommReceived
    BY <1>1, <1>7 DEF CommDrain, CommWakes, CommCalibrate, CommTest, CommReceived
<1>8. ASSUME NEW m \in Motors, NEW err \in BOOLEAN,
             CommFirst(m, err) \/ CommReceive(m, err)
      PROVE UNCHANGED <<buf, ctrl, frame, param>>
    BY <1>8 DEF CommFirst, CommReceive
<1>9. ASSUME NEW m \in Motors, Motor(m)
      PROVE UNCHANGED <<buf, ctrl, frame, param>>
    BY <1>9 DEF Motor, MotorAnswers, MotorSilent
<1>10. CASE \/ UpdTest \/ UpdFeedback \/ WriteBegin \/ WriterDies \/ PrintTest
            \/ SignalHandler \/ MainJoins \/ Terminate
    BY <1>1, <1>10 DEF UpdTest, UpdFeedback, WriteBegin, WriterDies, PrintTest,
       SignalHandler, MainJoins, Terminate
<1> QED
    BY <1>1, <1>2, <1>3, <1>4, <1>5, <1>6, <1>7, <1>8, <1>9, <1>10
       DEF Next, Comm, Upd, Upper, Bus, Ended

LEMMA Inductive == Spec => []IInv
<1>1. IInv /\ [Next]_vars => IInv'
    BY TypeStep, BoundedStep, UncalibratedStep, AgedStep DEF IInv
<1> QED BY InitInv, <1>1, PTL DEF Spec

(* TypeOK holds of SPARQ_CAN's threads for any motors, fields and faults. *)
THEOREM SparqTypes == Spec => []TypeOK
<1>1. IInv => TypeOK
    BY DEF IInv
<1> QED BY Inductive, <1>1, PTL

(* No motor is sent a command before CAN_Comm_thread has calibrated it,     *)
(* whatever the shared segment held when the process started.               *)
THEOREM CalibrationFirst == Spec => []NoCommandBeforeCalibration
<1>1. IInv => NoCommandBeforeCalibration
    BY DEF IInv, Uncalibrated, NoCommandBeforeCalibration
<1> QED BY Inductive, <1>1, PTL

(* Every field of every frame comes from a complete write of the upper      *)
(* controller and is not newer than what the update thread has stored.      *)
THEOREM PublishedFrames == Spec => []FramesArePublished
<1>1. IInv => FramesArePublished
    BY VersionAssumption DEF IInv, TypeOK, Aged, FramesArePublished
<1> QED BY Inductive, <1>1, PTL
===============================================================================
