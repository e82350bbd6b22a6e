------------------------------- MODULE SparqCan --------------------------------
(***************************************************************************)
(* The SPARQ_CAN process: the real-time CAN thread, the shared-memory       *)
(* thread, the print thread and main, with the motors on the bus and the    *)
(* upper controller behind the shared segment.                              *)
(*                                                                          *)
(* Commands are the numbers of the writes that made them; 0 is the zeroed   *)
(* block, and a read of the control block is whole (Seqlock). The stores of *)
(* one field and the loads of one frame are one step each.                  *)
(***************************************************************************)
EXTENDS Naturals

CONSTANTS
    Motors,       \* the objects of SparQ
    CanId,        \* their CAN IDs
    MaxID,        \* the size of Rx_handler's tables
    Fields,       \* the parts of a command the update thread forwards
    MaxVersion,   \* bound: writes of the upper controller
    Faults        \* "error", "silent", "late", "writer", "kill"

ASSUME MotorsAssumption == CanId \in [Motors -> Nat] /\ MaxID \in Nat

ASSUME VersionAssumption == MaxVersion \in Nat

VARIABLES
    running,   \* the flag signal_handler clears
    comm,      \* CAN_Comm_thread
    left,      \* the motors its for-loop still has to send to
    upd,       \* update_Control_params
    buf,       \* ctrl_buf
    stores,    \* the fields still to be stored from it
    print,     \* print_thread_func
    alive,     \* the process exists
    ctrl,      \* the complete write in the control block
    writing,   \* a write is in progress: seq is odd
    writer,    \* the upper controller runs
    param,     \* per motor, control_param
    frame,     \* per motor, the last operation frame on the bus
    owing,     \* the motors that have a frame to answer
    rx,        \* feedback in the sockets: motor and error code
    heard,     \* the motors whose Feedback_param was written
    offset,    \* per motor, what pos_offset was computed from
    fb         \* per motor, the feedback block: was heard, offset

commVars  == <<comm, left>>
updVars   == <<upd, buf, stores>>
shmVars   == <<ctrl, writing, writer>>
busVars   == <<frame, owing, rx>>
motorVars == <<heard, offset>>
vars == <<running, commVars, updVars, print, alive, shmVars, param, busVars,
          motorVars, fb>>

Zero == [f \in Fields |-> 0]

(* main has initialised the motors and created the threads. A segment that  *)
(* a killed process left behind still holds its last command.               *)
Init ==
    /\ running = TRUE /\ alive = TRUE
    /\ comm = "drain" /\ left = {}
    /\ upd = "test" /\ buf = 0 /\ stores = {}
    /\ print = "test"
    /\ ctrl \in 0..(IF MaxVersion = 0 THEN 0 ELSE 1)
    /\ writing = FALSE /\ writer = TRUE
    /\ param = [m \in Motors |-> Zero] /\ frame = [m \in Motors |-> Zero]
    /\ owing = {} /\ rx \in SUBSET (Motors \X {FALSE})
    /\ heard = {} /\ offset = [m \in Motors |-> "none"]
    /\ fb = [m \in Motors |-> <<FALSE, "none">>]

-------------------------------------------------------------------------------
(* External: the upper controller's write_ctrl, and the motors. *)

WriteBegin ==
    /\ writer /\ ~writing /\ ctrl < MaxVersion
    /\ writing' = TRUE
    /\ UNCHANGED <<running, commVars, updVars, print, alive, ctrl, writer,
                   param, busVars, motorVars, fb>>

WriteEnd ==
    /\ writer /\ writing
    /\ writing' = FALSE /\ ctrl' = ctrl + 1
    /\ UNCHANGED <<running, commVars, updVars, print, alive, writer, param,
                   busVars, motorVars, fb>>

(* The upper controller is killed, inside a write or between two. *)
WriterDies ==
    /\ "writer" \in Faults /\ writer
    /\ writer' = FALSE
    /\ UNCHANGED <<running, commVars, updVars, print, alive, ctrl, writing,
                   param, busVars, motorVars, fb>>

(* A motor answers an operation frame, with an error code or without. *)
MotorAnswers(m, err) ==
    /\ m \in owing /\ (err => "error" \in Faults)
    /\ owing' = owing \ {m}
    /\ rx' = rx \cup {<<m, err>>}
    /\ UNCHANGED <<running, commVars, updVars, print, alive, shmVars, param,
                   frame, motorVars, fb>>

(* The motor is unplugged, or its answer is lost. *)
MotorSilent(m) ==
    /\ "silent" \in Faults /\ m \in owing
    /\ owing' = owing \ {m}
    /\ UNCHANGED <<running, commVars, updVars, print, alive, shmVars, param,
                   frame, rx, motorVars, fb>>

-------------------------------------------------------------------------------
(* CAN_Comm_thread *)

(* Old frames are read and thrown away. *)
CommDrain ==
    /\ comm = "drain"
    /\ rx' = {} /\ comm' = "zero" /\ left' = Motors
    /\ UNCHANGED <<running, updVars, print, alive, shmVars, param, frame,
                   owing, motorVars, fb>>

(* write_operation_frame(0, 0, 0), one motor at a time. *)
CommZero(m) ==
    /\ comm = "zero" /\ m \in left
    /\ left' = left \ {m}
    /\ frame' = [frame EXCEPT ![m] = Zero]
    /\ owing' = owing \cup {m}
    /\ UNCHANGED <<running, comm, updVars, print, alive, shmVars, param, rx,
                   motorVars, fb>>

(* The 10 ms are over; the answers are in unless they come late. *)
CommWakes ==
    /\ comm = "zero" /\ left = {}
    /\ owing = {} \/ "late" \in Faults
    /\ comm' = "first"
    /\ UNCHANGED <<running, left, updVars, print, alive, shmVars, param,
                   busVars, motorVars, fb>>

(* register_vector and Write_Fb test id < MaxID. *)
Registered(m) == CanId[m] < MaxID

(* Mutant: the table is filled under the CAN ID. *)
HeardAfterById(m) == IF Registered(m) THEN heard \cup {CanId[m]} ELSE heard

HeardAfter(m) == IF Registered(m) THEN heard \cup {m} ELSE heard

(* The first cycle skips frames with an error code. *)
CommFirst(m, err) ==
    /\ comm = "first" /\ <<m, err>> \in rx
    /\ rx' = rx \ {<<m, err>>}
    /\ heard' = IF err THEN heard ELSE HeardAfter(m)
    /\ UNCHANGED <<running, commVars, updVars, print, alive, shmVars, param,
                   frame, owing, offset, fb>>

(* Mutant: the loop is entered with the offsets still zero. *)
CommSkipsCalibration ==
    /\ comm = "first" /\ rx = {}
    /\ comm' = "test"
    /\ UNCHANGED <<running, left, updVars, print, alive, shmVars, param,
                   busVars, motorVars, fb>>

(* calibrate(): the offset is computed from Feedback_param, which is zero   *)
(* for a motor that was not heard.                                          *)
CommCalibrate ==
    /\ comm = "first" /\ rx = {}
    /\ offset' = [m \in Motors |-> IF m \in heard THEN "measured" ELSE "blind"]
    /\ comm' = "test"
    /\ UNCHANGED <<running, left, updVars, print, alive, shmVars, param,
                   busVars, heard, fb>>

(* Mutant: the loop does not look at the flag. *)
CommTestForever ==
    /\ comm = "test"
    /\ comm' = "receive"
    /\ UNCHANGED <<running, left, updVars, print, alive, shmVars, param,
                   busVars, motorVars, fb>>

(* while (running), then the wait for the next period. *)
CommTest ==
    /\ comm = "test"
    /\ comm' = IF running THEN "receive" ELSE "ended"
    /\ UNCHANGED <<running, left, updVars, print, alive, shmVars, param,
                   busVars, motorVars, fb>>

(* One frame of the receive loop. An error code ends the thread, and        *)
(* nothing else.                                                            *)
CommReceive(m, err) ==
    /\ comm = "receive" /\ <<m, err>> \in rx
    /\ rx' = rx \ {<<m, err>>}
    /\ IF err THEN comm' = "ended" /\ UNCHANGED heard
              ELSE heard' = HeardAfter(m) /\ UNCHANGED comm
    /\ UNCHANGED <<running, left, updVars, print, alive, shmVars, param,
                   frame, owing, offset, fb>>

(* The sockets are empty. *)
CommReceived ==
    /\ comm = "receive" /\ rx = {}
    /\ comm' = "send" /\ left' = Motors
    /\ UNCHANGED <<running, updVars, print, alive, shmVars, param, busVars,
                   motorVars, fb>>

(* write_updated_operation_frame, one motor at a time. *)
CommSend(m) ==
    /\ comm = "send" /\ m \in left
    /\ left' = left \ {m}
    /\ comm' = IF left' = {} THEN "test" ELSE "send"
    /\ frame' = [frame EXCEPT ![m] = param[m]]
    /\ owing' = owing \cup {m}
    /\ UNCHANGED <<running, updVars, print, alive, shmVars, param, rx,
                   motorVars, fb>>

-------------------------------------------------------------------------------
(* update_Control_params *)

(* while (running); what follows is a loop of its own. *)
UpdTest ==
    /\ upd = "test"
    /\ upd' = IF running THEN "read" ELSE "ended"
    /\ UNCHANGED <<running, commVars, buf, stores, print, alive, shmVars,
                   param, busVars, motorVars, fb>>

(* Mutant: the result of try_read_ctrl is ignored. *)
UpdReadTorn ==
    /\ upd = "read"
    /\ buf' = (IF writing THEN ctrl + 1 ELSE ctrl)
    /\ upd' = "store" /\ stores' = Fields
    /\ UNCHANGED <<running, commVars, print, alive, shmVars, param, busVars,
                   motorVars, fb>>

(* while (!try_read_ctrl): no way out but a block nobody is writing. *)
UpdRead ==
    /\ upd = "read" /\ ~writing
    /\ buf' = ctrl /\ upd' = "store" /\ stores' = Fields
    /\ UNCHANGED <<running, commVars, print, alive, shmVars, param, busVars,
                   motorVars, fb>>

(* Mutant: one motor's line of this field is missing. *)
UpdStoreSkips(f) ==
    /\ upd = "store" /\ f \in stores
    /\ stores' = stores \ {f}
    /\ LET skipped == CHOOSE m \in Motors : TRUE IN
       param' = [m \in Motors |->
                   IF m = skipped /\ f = "Kd" THEN param[m]
                   ELSE [param[m] EXCEPT ![f] = buf]]
    /\ UNCHANGED <<running, commVars, upd, buf, print, alive, shmVars, busVars,
                   motorVars, fb>>

(* The relaxed stores of one field, in any order of the fields. *)
UpdStore(f) ==
    /\ upd = "store" /\ f \in stores
    /\ stores' = stores \ {f}
    /\ param' = [m \in Motors |-> [param[m] EXCEPT ![f] = buf]]
    /\ UNCHANGED <<running, commVars, upd, buf, print, alive, shmVars, busVars,
                   motorVars, fb>>

(* Mutant: the offset is not added to the position. *)
UpdFeedbackRaw ==
    /\ upd = "store" /\ stores = {}
    /\ fb' = [m \in Motors |-> <<m \in heard, "none">>]
    /\ upd' = "test"
    /\ UNCHANGED <<running, commVars, buf, stores, print, alive, shmVars,
                   param, busVars, motorVars>>

(* Feedback and pos_offset as they are now, published with write_fb. *)
UpdFeedback ==
    /\ upd = "store" /\ stores = {}
    /\ fb' = [m \in Motors |-> <<m \in heard, offset[m]>>]
    /\ upd' = "test"
    /\ UNCHANGED <<running, commVars, buf, stores, print, alive, shmVars,
                   param, busVars, motorVars>>

-------------------------------------------------------------------------------
(* print_thread_func, the signal, main and the supervisor *)

PrintTest ==
    /\ print = "test" /\ ~running
    /\ print' = "ended"
    /\ UNCHANGED <<running, commVars, updVars, alive, shmVars, param, busVars,
                   motorVars, fb>>

(* SIGINT. *)
SignalHandler ==
    /\ alive /\ running
    /\ running' = FALSE
    /\ UNCHANGED <<commVars, updVars, print, alive, shmVars, param, busVars,
                   motorVars, fb>>

(* The three joins of main. *)
MainJoins ==
    /\ alive /\ comm = "ended" /\ print = "ended" /\ upd = "ended"
    /\ alive' = FALSE
    /\ UNCHANGED <<running, commVars, updVars, print, shmVars, param, busVars,
                   motorVars, fb>>

(* SIGTERM has no handler: the supervisor's stop ends every thread at once. *)
Terminate ==
    /\ "kill" \in Faults /\ alive
    /\ alive' = FALSE
    /\ comm' = "ended" /\ upd' = "ended" /\ print' = "ended"
    /\ UNCHANGED <<running, left, buf, stores, shmVars, param, busVars,
                   motorVars, fb>>

-------------------------------------------------------------------------------
Comm ==
    \/ CommDrain \/ CommWakes \/ CommCalibrate \/ CommTest \/ CommReceived
    \/ \E m \in Motors : CommZero(m) \/ CommSend(m)
    \/ \E m \in Motors, err \in BOOLEAN : CommFirst(m, err) \/ CommReceive(m, err)

Upd == UpdTest \/ UpdRead \/ UpdFeedback \/ \E f \in Fields : UpdStore(f)

(* What happens around the process, while there is one. *)
Upper == alive /\ (WriteBegin \/ WriteEnd \/ WriterDies)

Motor(m) == MotorSilent(m) \/ \E err \in BOOLEAN : MotorAnswers(m, err)

Bus == alive /\ \E m \in Motors : Motor(m)

Ended == ~alive /\ UNCHANGED vars

Next ==
    \/ Comm \/ Upd \/ PrintTest \/ SignalHandler \/ MainJoins \/ Terminate
    \/ Upper \/ Bus \/ Ended

Spec == Init /\ [][Next]_vars

(* Each thread takes its next step, a write that has begun ends while its   *)
(* process lives, and a motor answers or is silent.                         *)
FairSpec ==
    /\ Spec
    /\ WF_vars(Comm) /\ WF_vars(Upd) /\ WF_vars(PrintTest)
    /\ WF_vars(MainJoins) /\ WF_vars(alive /\ WriteEnd)
    /\ \A m \in Motors : WF_vars(alive /\ Motor(m))

-------------------------------------------------------------------------------
(* Properties *)

TypeOK ==
    /\ running \in BOOLEAN /\ alive \in BOOLEAN
    /\ comm \in {"drain", "zero", "first", "test", "receive", "send", "ended"}
    /\ left \in SUBSET Motors
    /\ upd \in {"test", "read", "store", "ended"}
    /\ buf \in 0..MaxVersion /\ stores \in SUBSET Fields
    /\ print \in {"test", "ended"}
    /\ ctrl \in 0..MaxVersion /\ writing \in BOOLEAN /\ writer \in BOOLEAN
    /\ param \in [Motors -> [Fields -> 0..MaxVersion]]
    /\ frame \in [Motors -> [Fields -> 0..MaxVersion]]
    /\ owing \in SUBSET Motors /\ rx \in SUBSET (Motors \X BOOLEAN)
    /\ heard \in SUBSET Motors
    /\ offset \in [Motors -> {"none", "measured", "blind"}]
    /\ fb \in [Motors -> BOOLEAN \X {"none", "measured", "blind"}]

(* No motor gets a command before it was calibrated, though the update      *)
(* thread forwards one, perhaps a dead process's, from its first cycle on:  *)
(* an offset of zero would turn the joint by its mounting angle.            *)
NoCommandBeforeCalibration ==
    \A m \in Motors : offset[m] = "none" => frame[m] = Zero

(* A frame may mix fields of different writes, but each of them is one the  *)
(* upper controller has completed, and none is newer than the field the     *)
(* update thread holds: no field goes back in time.                         *)
FramesArePublished ==
    \A m \in Motors, f \in Fields :
        frame[m][f] <= param[m][f] /\ param[m][f] <= ctrl

(* What ends the flow: a stop, or an upper controller that died inside a    *)
(* write, upon which the update thread spins on the odd counter for good.   *)
Stuck == writing /\ ~writer

Stopped == ~running \/ ~alive \/ Stuck

(* A command reaches every motor with every field, through both threads,    *)
(* unless the flow is stopped or an error code has ended the CAN thread.    *)
CommandReachesMotor ==
    \A m \in Motors, v \in 1..MaxVersion :
        (ctrl >= v) ~> ((\A f \in Fields : frame[m][f] >= v)
                            \/ comm = "ended" \/ Stopped)

(* The position of a calibrated motor that answers reaches the feedback     *)
(* block with its offset, under the same conditions.                        *)
FeedbackIsCalibrated ==
    \A m \in Motors :
        (m \in heard /\ offset[m] = "measured")
            ~> (fb[m] = <<TRUE, "measured">> \/ Stopped)

(* SIGINT ends the process, unless the update thread is stuck: the loop     *)
(* around try_read_ctrl does not look at the flag.                          *)
StopEnds == ~running ~> (~alive \/ Stuck)
===============================================================================
