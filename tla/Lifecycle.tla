------------------------------- MODULE Lifecycle -------------------------------
(***************************************************************************)
(* The controller process from start() to shutdown(), the shared memory it  *)
(* creates, and the children it starts. The dashboard starts and stops the  *)
(* same children through a supervisor of its own, one thread per request;   *)
(* the two supervisors share nothing but the pid files. A child runs in a   *)
(* terminal window and writes its pid file itself, or is the supervisor's   *)
(* own subprocess and has none.                                             *)
(***************************************************************************)
EXTENDS Integers, Sequences, FiniteSets

CONSTANTS
    Configs,     \* the process lists processes.yaml may hold, in start order
    Windowed,    \* processes with new_terminal
    Requests,    \* request threads of the dashboard
    MaxLaunches, \* launches of a child told apart at a time (bound)
    MaxRequests, \* requests to the dashboard (bound)
    MaxBoots,    \* starts of the controller (bound)
    Faults       \* what may happen: spawn, connect, send, exit, slow, kill, early

Daemon == "can_daemon"
Protected == {Daemon, "dashboard"}
Launches == 1..MaxLaunches
Threads == {"ctl"} \cup Requests
AllNames == {Daemon} \cup UNION {{c[k] : k \in DOMAIN c} : c \in Configs}

ASSUME LifecycleAssumption ==
    /\ MaxLaunches \in Nat /\ MaxRequests \in Nat /\ MaxBoots \in Nat
    /\ Configs \subseteq Seq(STRING) /\ "ctl" \notin Requests

(* processes.yaml gives new_terminal to every process the dashboard manages:  *)
(* without a pid file the two supervisors would not see each other's child.   *)
ASSUME WindowAssumption == AllNames \ Protected \subseteq Windowed

VARIABLES
    order,     \* configured processes in start order
    main,      \* controller: off, shm, daemon, connect, imu, children, go,
               \* run, stopping, exited
    left,      \* processes it still has to start or stop
    running,   \* _running
    early,     \* history: a stop signal came before the loop
    boots,     \* starts of the controller, and the generation of its segments
    seg,       \* generation of the segments that exist, 0 for none
    child,     \* what each launch became
    handle,    \* ProcessSupervisor.processes: the launch, 0 for none
    pidfile,   \* the launch whose pid the file holds, 0 for none
    op,        \* the supervisor call of each thread
    requests,  \* requests made so far
    disturbed, \* history: names a call found starting, or in another's hands
    killed     \* history: the controller was killed

control == <<order, main, left, running, boots, seg>>
family  == <<child, handle, pidfile>>
history == <<early, requests, disturbed, killed>>
vars    == <<control, family, op, history>>

Names == {order[k] : k \in DOMAIN order}
Sup(t) == IF t = "ctl" THEN "ctl" ELSE "dash"

NoChild == [name |-> "none", by |-> "none", st |-> "none", term |-> FALSE,
            sig |-> FALSE, gen |-> 0]
NoCall == [pc |-> "idle", name |-> "none", pid |-> 0]
Alive(i) == child[i].st \notin {"none", "ended"}
Up(i) == i # 0 /\ Alive(i)
Gone == [NoChild EXCEPT !.st = "ended"]

(* No supervisor, pid file or call refers to the launch: its number is free.  *)
Free(i) ==
    /\ ~Alive(i)
    /\ \A s \in {"ctl", "dash"}, n \in AllNames : handle[s][n] # i /\ pidfile[n] # i
    /\ \A t \in Threads : op[t].pid # i

Init ==
    /\ order \in Configs
    /\ main = "off" /\ left = <<>> /\ running = FALSE /\ boots = 0 /\ seg = 0
    /\ child = [i \in Launches |-> NoChild]
    /\ handle = [s \in {"ctl", "dash"} |-> [n \in AllNames |-> 0]]
    /\ pidfile = [n \in AllNames |-> 0]
    /\ op = [t \in Threads |-> NoCall]
    /\ early = FALSE /\ requests = 0 /\ disturbed = {} /\ killed = FALSE

-------------------------------------------------------------------------------
(* RobotController.start, run and shutdown *)

(* stop_order is the reverse of start_order in processes.yaml. *)
StopOrder == [k \in DOMAIN order |-> order[Len(order) + 1 - k]]

(* Mutant: a start that fails does not stop the children. *)
FailKeepsChildren ==
    /\ main' = "stopping" /\ running' = FALSE /\ left' = <<>>

(* An exception in start() or a tick ends in shutdown(), once: the second    *)
(* call, of main's finally, finds STOPPED.                                   *)
Fail ==
    /\ main' = "stopping" /\ running' = FALSE /\ left' = StopOrder

(* The configuration is loaded and the controller constructed: no handle.    *)
Boot ==
    /\ main \in {"off", "exited"} /\ boots < MaxBoots
    /\ main' = "shm" /\ boots' = boots + 1 /\ running' = FALSE /\ left' = <<>>
    /\ handle' = [handle EXCEPT !["ctl"] = [n \in AllNames |-> 0]]
    /\ early' = FALSE
    /\ UNCHANGED <<order, seg, child, pidfile, op, requests, disturbed, killed>>

(* cleanup_stale unlinks what an earlier controller left, create_all makes   *)
(* the five segments; they come and go together.                             *)
InitShm ==
    /\ main = "shm"
    /\ main' = "daemon" /\ left' = <<Daemon>> /\ seg' = boots
    /\ UNCHANGED <<order, running, boots, family, op, history>>

(* The call start_by_name or stop_by_name for the next name of the list. A   *)
(* name that is not configured raises KeyError when started.                 *)
CallChild ==
    /\ main \in {"daemon", "children", "stopping"} /\ left # <<>>
    /\ op["ctl"].pc = "idle"
    /\ IF main # "stopping" /\ Head(left) \notin Names
       THEN Fail /\ UNCHANGED op
       ELSE /\ op' = [op EXCEPT !["ctl"] = [pid |-> 0, name |-> Head(left),
                        pc |-> IF main = "stopping" THEN "signal" ELSE "check"]]
            /\ left' = Tail(left) /\ UNCHANGED <<main, running>>
    /\ UNCHANGED <<order, boots, seg, family, history>>

(* The list is done; start_all starts with the daemon again. *)
NextStage ==
    /\ main \in {"daemon", "children"} /\ left = <<>> /\ op["ctl"].pc = "idle"
    /\ main' = IF main = "daemon" THEN "connect" ELSE "go"
    /\ UNCHANGED <<order, left, running, boots, seg, family, op, history>>

(* connect retries until the daemon answers or connect_timeout_s is over. *)
Connect ==
    /\ main = "connect"
    /\ \/ /\ \E i \in Launches : child[i].name = Daemon /\ child[i].st = "live"
          /\ main' = "imu" /\ UNCHANGED <<left, running>>
       \/ "connect" \in Faults /\ Fail
    /\ UNCHANGED <<order, boots, seg, family, op, history>>

BringupImu ==
    /\ main = "imu"
    /\ \/ main' = "children" /\ left' = order /\ UNCHANGED running
       \/ "send" \in Faults /\ Fail
    /\ UNCHANGED <<order, boots, seg, family, op, history>>

(* The end of start(): _running is set whatever came before. *)
Go ==
    /\ main = "go"
    /\ main' = "run" /\ running' = TRUE
    /\ UNCHANGED <<order, left, boots, seg, family, op, history>>

(* Mutant: the loop runs until a tick raises. *)
RunForever ==
    /\ main = "run" /\ "crash" \in Faults
    /\ Fail
    /\ UNCHANGED <<order, boots, seg, family, op, history>>

(* run(): left when _running is cleared or a tick raises. *)
Run ==
    /\ main = "run" /\ (~running \/ "send" \in Faults)
    /\ Fail
    /\ UNCHANGED <<order, boots, seg, family, op, history>>

(* SIGINT or SIGTERM: request_stop(). Before the loop it changes nothing.     *)
Signal ==
    /\ main \notin {"off", "stopping", "exited"}
    /\ running \/ "early" \in Faults
    /\ running' = FALSE /\ early' = (early \/ ~running)
    /\ UNCHANGED <<order, main, left, boots, seg, family, op, requests, disturbed,
                   killed>>

(* Mutant: the segments are left to the next start's cleanup_stale. *)
FinishShutdownKeeps ==
    /\ main = "stopping" /\ left = <<>> /\ op["ctl"].pc = "idle"
    /\ main' = "exited"
    /\ UNCHANGED <<order, left, running, boots, seg, family, op, history>>

(* After stop_all: the last publication, _close_runtime and unlink_all. *)
FinishShutdown ==
    /\ main = "stopping" /\ left = <<>> /\ op["ctl"].pc = "idle"
    /\ main' = "exited" /\ seg' = 0
    /\ UNCHANGED <<order, left, running, boots, family, op, history>>

(* SIGKILL or a power cut of the process: children, which have sessions of   *)
(* their own, and segments stay.                                             *)
Kill ==
    /\ "kill" \in Faults /\ main \notin {"off", "exited"}
    /\ main' = "off" /\ running' = FALSE /\ left' = <<>> /\ killed' = TRUE
    /\ op' = [op EXCEPT !["ctl"] = NoCall]
    /\ UNCHANGED <<order, boots, seg, family, early, requests, disturbed>>

-------------------------------------------------------------------------------
(* ProcessSupervisor, by the thread t *)

(* /api/processes/{name}/start and stop. *)
Request(t, n, pc) ==
    /\ t \in Requests /\ op[t].pc = "idle" /\ n \in Names \ Protected
    /\ requests < MaxRequests /\ requests' = requests + 1
    /\ op' = [op EXCEPT ![t] = [pc |-> pc, name |-> n, pid |-> 0]]
    /\ UNCHANGED <<control, family, early, disturbed, killed>>

(* Mutant: is_alive asks the own handle only. *)
IsAliveByHandle(s, n) ==
    handle[s][n] # 0 /\ child[handle[s][n]].term

(* is_alive: the own subprocess, or the process of the pid file. *)
IsAlive(s, n) ==
    \/ handle[s][n] # 0 /\ child[handle[s][n]].term
    \/ Up(pidfile[n])

(* Is the name in another thread's hands, or a launch of it not registered   *)
(* yet and unknown to this supervisor? (history only)                        *)
Disturbs(t) ==
    LET n == op[t].name IN
    IF \/ \E u \in Threads \ {t} : op[u].name = n
       \/ \E i \in Launches :
            /\ child[i].name = n /\ child[i].st \in {"launch", "boot"}
            /\ ~(child[i].term /\ handle[Sup(t)][n] = i
                               /\ (child[i].st = "launch" \/ op[t].pc = "check"))
    THEN disturbed \cup {n} ELSE disturbed

CheckAlive(t) ==
    /\ op[t].pc = "check"
    /\ op' = [op EXCEPT ![t] = IF IsAlive(Sup(t), op[t].name) THEN NoCall
                               ELSE [@ EXCEPT !.pc = "unlink"]]
    /\ disturbed' = Disturbs(t)
    /\ UNCHANGED <<control, family, early, requests, killed>>

UnlinkPidfile(t) ==
    /\ op[t].pc = "unlink"
    /\ pidfile' = [pidfile EXCEPT ![op[t].name] = 0]
    /\ op' = [op EXCEPT ![t].pc = "spawn"]
    /\ UNCHANGED <<control, child, handle, history>>

(* Popen of the terminal or of the program itself, or OSError: start() fails *)
(* and a request answers 400.                                                *)
Spawn(t) ==
    /\ op[t].pc = "spawn" /\ op' = [op EXCEPT ![t] = NoCall]
    /\ \/ \E i \in Launches :
            /\ Free(i) /\ \A j \in 1..(i-1) : ~Free(j)
            /\ child' = [child EXCEPT ![i] =
                 [NoChild EXCEPT !.name = op[t].name, !.by = Sup(t), !.term = TRUE,
                    !.st = IF op[t].name \in Windowed THEN "launch" ELSE "up"]]
            /\ handle' = [handle EXCEPT ![Sup(t)][op[t].name] = i]
            /\ UNCHANGED <<main, left, running>>
       \/ /\ "spawn" \in Faults
          /\ IF t = "ctl" THEN Fail ELSE UNCHANGED <<main, left, running>>
          /\ UNCHANGED <<child, handle>>
    /\ UNCHANGED <<order, boots, seg, pidfile, history>>

(* stop_by_name: SIGTERM to the pid of the file and to the own subprocess's  *)
(* group. A terminal client dies of it and leaves its window's shell alone.  *)
SignalChild(t) ==
    LET n == op[t].name
        p == handle[Sup(t)][n]
        m == pidfile[n]
    IN
    /\ op[t].pc = "signal"
    /\ op' = [op EXCEPT ![t] = IF p = 0 /\ m = 0 THEN NoCall
                               ELSE [@ EXCEPT !.pc = "wait", !.pid = m]]
    /\ child' = [i \in Launches |->
         LET hit  == i = p /\ child[i].term
             gone == hit /\ child[i].st = "launch"
         IN  IF gone THEN Gone
             ELSE [child[i] EXCEPT
                     !.term = @ /\ ~(hit /\ n \in Windowed),
                     !.sig = @ \/ (i = m /\ Alive(i))
                               \/ (hit /\ n \notin Windowed)]]
    /\ disturbed' = Disturbs(t)
    /\ UNCHANGED <<control, handle, pidfile, early, requests, killed>>

(* Mutant: stop_by_name without the second signal. *)
KillsNever(p, m) == {}

(* SIGKILL after the timeout. With a subprocess of its own the supervisor    *)
(* waits for that one only, and kills neither once it has ended.             *)
Kills(p, m) ==
    IF p = 0 THEN {m}
    ELSE IF child[p].term THEN {m, p} ELSE {}

(* The wait for the pid and the subprocess is over, or its time is; the pid  *)
(* file is removed whatever it holds by now.                                 *)
WaitChild(t) ==
    LET n == op[t].name
        p == handle[Sup(t)][n]
        m == op[t].pid
        escaped == Up(m) /\ m \notin Kills(p, m)
    IN
    /\ op[t].pc = "wait" /\ op' = [op EXCEPT ![t] = NoCall]
    /\ \/ "slow" \in Faults
       \/ ~Up(m) /\ ~(p # 0 /\ child[p].term)
    /\ child' = [i \in Launches |->
                   IF i \in Kills(p, m) /\ Alive(i) THEN Gone ELSE child[i]]
    /\ pidfile' = [pidfile EXCEPT ![n] = 0]
    /\ disturbed' = IF escaped THEN disturbed \cup {n} ELSE disturbed
    /\ UNCHANGED <<control, handle, early, requests, killed>>

-------------------------------------------------------------------------------
(* The children *)

(* The terminal has a window and starts the shell; the shell writes its pid. *)
OpenWindow(i) ==
    /\ child[i].st = "launch"
    /\ child' = [child EXCEPT ![i].st = "boot"]
    /\ UNCHANGED <<control, handle, pidfile, op, history>>

WritePid(i) ==
    /\ child[i].st = "boot"
    /\ child' = [child EXCEPT ![i].st = "up"]
    /\ pidfile' = [pidfile EXCEPT ![child[i].name] = i]
    /\ UNCHANGED <<control, handle, op, history>>

(* The program maps the segments for good, and ends if there are none; the   *)
(* daemon uses none.                                                         *)
Attach(i) ==
    /\ child[i].st = "up"
    /\ child' = [child EXCEPT ![i] =
         IF child[i].name # Daemon /\ seg = 0 THEN Gone
         ELSE [@ EXCEPT !.st = "live", !.gen = seg]]
    /\ UNCHANGED <<control, handle, pidfile, op, history>>

(* It obeys SIGTERM, or ends by itself; its window closes, its pid file stays. *)
EndChild(i) ==
    /\ child[i].st \in {"up", "live"} /\ (child[i].sig \/ "exit" \in Faults)
    /\ child' = [child EXCEPT ![i] = Gone]
    /\ UNCHANGED <<control, handle, pidfile, op, history>>

-------------------------------------------------------------------------------
Controller ==
    \/ InitShm \/ CallChild \/ NextStage \/ Connect \/ BringupImu \/ Go \/ Run
    \/ FinishShutdown

Supervise(t) ==
    \/ CheckAlive(t) \/ UnlinkPidfile(t) \/ Spawn(t) \/ SignalChild(t)
    \/ WaitChild(t)

Next ==
    \/ Boot \/ Signal \/ Kill \/ Controller
    \/ \E t \in Threads : Supervise(t)
    \/ \E t \in Requests, n \in AllNames :
        Request(t, n, "check") \/ Request(t, n, "signal")
    \/ \E i \in Launches :
        OpenWindow(i) \/ WritePid(i) \/ Attach(i) \/ EndChild(i)

Spec == Init /\ [][Next]_vars

(* Threads and children run; a child that got SIGTERM ends.                  *)
FairSpec ==
    /\ Spec /\ WF_vars(Controller)
    /\ \A t \in Threads : WF_vars(Supervise(t))
    /\ \A i \in Launches : /\ WF_vars(OpenWindow(i)) /\ WF_vars(WritePid(i))
                           /\ WF_vars(Attach(i))
                           /\ WF_vars(child[i].sig /\ EndChild(i))

-------------------------------------------------------------------------------
(* Properties *)

Undisturbed(n) == n \notin disturbed /\ ~killed

(* A child runs once, whoever starts and stops it, in whatever order, as     *)
(* long as no call meets a launch that is not registered yet, or another     *)
(* call on the same name.                                                    *)
OneInstance ==
    \A i, j \in Launches :
        (i # j /\ Alive(i) /\ Alive(j) /\ child[i].name = child[j].name)
            => ~Undisturbed(child[i].name)

(* When the controller has ended, after a start that failed at any point or  *)
(* after a run, its segments are gone and so are the children it started.    *)
ShutdownLeavesNothing ==
    main = "exited" =>
        /\ seg = 0
        /\ \A i \in Launches : (child[i].by = "ctl" /\ Alive(i))
                                    => ~Undisturbed(child[i].name)

(* A child the controller started uses the slots of the running controller,  *)
(* after a restart as well.                                                  *)
ChildUsesCurrentSlots ==
    \A i \in Launches :
        (main = "run" /\ child[i].by = "ctl" /\ child[i].st = "live"
           /\ child[i].name # Daemon /\ Undisturbed(child[i].name))
            => child[i].gen = seg

(* A stop that could see the child's pid, and had no subprocess of its own   *)
(* to wait for, has ended the child, however slow it is to obey.             *)
StopEndsManaged ==
    [][\A t \in Threads :
        (op[t].pc = "wait" /\ op'[t].pc = "idle" /\ main' # "off"
           /\ op[t].pid # 0 /\ handle[Sup(t)][op[t].name] = 0)
            => child'[op[t].pid].st = "ended"]_vars

(* A stop requested while the loop runs ends the controller, whichever       *)
(* children are slow to end.                                                 *)
StopRequestEnds == (main = "run" /\ ~running) ~> main \in {"exited", "off"}

(* Every signal main() answers with "shutting down" ends the controller, the  *)
(* ones that arrive during start() as well.                                  *)
SignalEndsController == early ~> main \in {"exited", "off"}
===============================================================================
