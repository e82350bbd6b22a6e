---------------------------- MODULE LifecycleProofs ----------------------------
(***************************************************************************)
(* What the two supervisors and the controller's start and shutdown achieve, *)
(* for any configurations, launches, requests, starts and faults: a stop     *)
(* ends the child of the pid file, a child runs once, shutdown leaves        *)
(* nothing, and children use the segments of this start.                     *)
(***************************************************************************)
EXTENDS Lifecycle, SequenceTheorems, TLAPS

Child == [name : AllNames \cup {"none"}, by : {"ctl", "dash", "none"},
          st : {"none", "launch", "boot", "up", "live", "ended"},
          term : BOOLEAN, sig : BOOLEAN, gen : Nat]
Call == [pc : {"idle", "check", "unlink", "spawn", "signal", "wait"},
         name : AllNames \cup {"none"}, pid : Launches \cup {0}]

(* The lists of names, the generations, the children and the calls. *)
ListTypes == order \in Configs /\ left \in Seq(AllNames)
ChildTypes == boots \in Nat /\ seg \in Nat /\ child \in [Launches -> Child]
CallTypes ==
    /\ pidfile \in [AllNames -> Launches \cup {0}]
    /\ op \in [Threads -> Call]
    /\ \A t \in Threads : op[t].pc = "signal" => op[t].name \in AllNames

(* Only a launch that has taken place has a pid. *)
PidsAreLaunched ==
    /\ \A n \in AllNames : pidfile[n] # 0 => child[pidfile[n]].st # "none"
    /\ \A t \in Threads : op[t].pid # 0 => child[op[t].pid].st # "none"

IInv == ListTypes /\ ChildTypes /\ CallTypes /\ PidsAreLaunched

(* What the supervisors know of the children. A name a call has disturbed is  *)
(* left out; the names of calls and children are configured ones.             *)
HandleTypes == handle \in [{"ctl", "dash"} -> [AllNames -> Launches \cup {0}]]

ChildrenNamed ==
    \A i \in Launches : Alive(i) =>
        /\ child[i].name \in AllNames /\ child[i].by \in {"ctl", "dash"}
        /\ child[i].by = "ctl" => child[i].name \in Names

(* Only the controller calls for a process without a window. *)
CallsNamed ==
    \A t \in Threads : op[t].pc # "idle" =>
        /\ op[t].name \in AllNames
        /\ op[t].name \notin Windowed => t = "ctl"
        /\ t = "ctl" /\ op[t].pc \notin {"signal", "wait"} => op[t].name \in Names

(* A subprocess a handle stands for is one of that name. *)
HandlesMatch ==
    \A s \in {"ctl", "dash"}, n \in AllNames :
        handle[s][n] # 0 /\ child[handle[s][n]].term => child[handle[s][n]].name = n

(* A child in a window is found through the handle of who launched it until   *)
(* its shell has written the pid file, and through that file afterwards; one  *)
(* without a window always through the controller's handle.                   *)
Registered(i) ==
    LET c == child[i] IN
    IF c.name \in Windowed
    THEN \/ c.st \in {"launch", "boot"} /\ c.term /\ handle[c.by][c.name] = i
         \/ c.st \in {"up", "live"} /\ pidfile[c.name] = i
    ELSE /\ c.by = "ctl" /\ c.st \in {"up", "live"} /\ c.term
         /\ handle["ctl"][c.name] = i

AllRegistered ==
    \A i \in Launches : Alive(i) /\ Undisturbed(child[i].name) => Registered(i)

(* One thread at a time acts on a name. *)
Acting(t) == op[t].pc \in {"unlink", "spawn", "wait"}

OneCaller ==
    \A t, u \in Threads :
        Acting(t) /\ Acting(u) /\ op[t].name = op[u].name /\ Undisturbed(op[t].name)
            => t = u

(* A start that found no child goes on with none; a stop waits for the child  *)
(* there is.                                                                  *)
StartsFindNone ==
    \A t \in Threads, i \in Launches :
        op[t].pc \in {"unlink", "spawn"} /\ Alive(i) /\ child[i].name = op[t].name
            => ~Undisturbed(op[t].name)

StopsWaitForIt ==
    \A t \in Threads, i \in Launches :
        (op[t].pc = "wait" /\ Alive(i) /\ child[i].name = op[t].name
           /\ Undisturbed(op[t].name) /\ op[t].name \in Windowed)
            => child[i].st \in {"up", "live"} /\ op[t].pid = i

(* The stage of the controller and the call it is in. *)
CtlIdle == op["ctl"].pc = "idle"
CtlChild(i) == Alive(i) /\ child[i].by = "ctl" /\ Undisturbed(child[i].name)

Stages ==
    killed \/
      /\ main \notin {"daemon", "children", "stopping"} => CtlIdle
      /\ main \in {"daemon", "children"} => op["ctl"].pc \notin {"signal", "wait"}
      /\ main = "stopping" => op["ctl"].pc \in {"idle", "signal", "wait"}

(* Shutdown has stopped a child or has still to; before start() and after     *)
(* shutdown() there is none.                                                  *)
StillToStop(n) == (\E k \in DOMAIN left : left[k] = n) \/ (~CtlIdle /\ op["ctl"].name = n)

Stopping ==
    \A i \in Launches : CtlChild(i) =>
        /\ main \notin {"off", "shm", "exited"}
        /\ main = "stopping" => StillToStop(child[i].name)

Slots ==
    /\ main = "exited" => seg = 0
    /\ \A i \in Launches : CtlChild(i) /\ child[i].st = "live" => child[i].gen = seg

SupInv ==
    /\ HandleTypes /\ ChildrenNamed /\ CallsNamed /\ HandlesMatch /\ AllRegistered
    /\ OneInstance /\ OneCaller /\ StartsFindNone /\ StopsWaitForIt

CtlInv == Stages /\ Stopping /\ Slots

-------------------------------------------------------------------------------
(* The names of a configuration are names. *)
LEMMA OrderNames ==
    ASSUME ListTypes
    PROVE  order \in Seq(AllNames) /\ StopOrder \in Seq(AllNames)
<1>1. order \in Seq(STRING) /\ Len(order) \in Nat /\ DOMAIN order = 1..Len(order)
  BY LifecycleAssumption DEF ListTypes
<1>2. \A k \in 1..Len(order) : order[k] \in AllNames
  BY <1>1 DEF ListTypes, AllNames
<1>3. order \in Seq(AllNames)
  BY <1>1, <1>2, SeqDef
<1>4. StopOrder \in [1..Len(order) -> AllNames]
  BY <1>1, <1>2 DEF StopOrder
<1>5. StopOrder \in Seq(AllNames)
  BY <1>1, <1>4, SeqDef
<1> QED BY <1>3, <1>5

(* Every step keeps the lists. *)
LEMMA ListsStep == ListTypes /\ [Next]_vars => ListTypes'
<1> SUFFICES ASSUME ListTypes, [Next]_vars PROVE ListTypes'
  OBVIOUS
<1>1. Daemon \in AllNames /\ <<Daemon>> \in Seq(AllNames) /\ <<>> \in Seq(AllNames)
  BY DEF AllNames
<1>2. CASE Fail /\ UNCHANGED order
  BY <1>2, OrderNames DEF Fail, ListTypes
<1>3. CASE UNCHANGED <<order, left>>
  BY <1>3 DEF ListTypes
<1>4. CASE UNCHANGED order /\ left' = <<>>
  BY <1>1, <1>4 DEF ListTypes
<1>5. CASE InitShm
  BY <1>1, <1>5 DEF InitShm, ListTypes
<1>6. CASE BringupImu
  BY <1>2, <1>6, OrderNames DEF BringupImu, ListTypes
<1>7. CASE CallChild
  <2>1. left \in Seq(AllNames) /\ left # <<>>
    BY <1>7 DEF CallChild, ListTypes
  <2>2. Tail(left) \in Seq(AllNames)
    BY <2>1
  <2> QED BY <1>2, <1>7, <2>2 DEF CallChild, ListTypes
<1>8. \/ UNCHANGED order /\ (Fail \/ left' = <<>> \/ left' = left)
      \/ InitShm \/ BringupImu \/ CallChild
  BY DEF Next, vars, control, Controller, Supervise, Boot, Signal, Kill, NextStage,
         Connect, Go, Run, FinishShutdown, CheckAlive, UnlinkPidfile, Spawn,
         SignalChild, WaitChild, Request, OpenWindow, WritePid, Attach, EndChild
<1> QED BY <1>2, <1>3, <1>4, <1>5, <1>6, <1>7, <1>8

(* A child keeps its type, and a launch that has taken place stays one. *)
LEMMA ChildrenStep ==
    ChildTypes /\ CallTypes /\ [Next]_vars =>
        ChildTypes' /\ \A i \in Launches : child[i].st # "none" => child'[i].st # "none"
<1> SUFFICES ASSUME ChildTypes, CallTypes, [Next]_vars
             PROVE  ChildTypes' /\ \A i \in Launches :
                                     child[i].st # "none" => child'[i].st # "none"
  OBVIOUS
<1>0. NoChild \in Child /\ Gone \in Child /\ Gone.st = "ended"
  BY DEF NoChild, Gone, Child
<1>1. CASE child' = child
  <2>1. UNCHANGED <<boots, seg>> \/ Boot \/ InitShm \/ FinishShutdown
    BY DEF Next, vars, control, Controller, Supervise, Signal, Kill, CallChild,
       NextStage, Connect, BringupImu, Go, Run, CheckAlive, UnlinkPidfile, Spawn,
       SignalChild, WaitChild, Request, OpenWindow, WritePid, Attach, EndChild
  <2>2. boots' \in Nat /\ seg' \in Nat
    BY <2>1 DEF Boot, InitShm, FinishShutdown, ChildTypes
  <2> QED BY <1>1, <2>2 DEF ChildTypes
<1>2. ASSUME NEW t \in Threads, Spawn(t), child' # child
      PROVE  ChildTypes' /\ \A i \in Launches :
                              child[i].st # "none" => child'[i].st # "none"
  <2>1. op[t].name \in AllNames \cup {"none"}
    BY DEF CallTypes, Call
  <2>2. Sup(t) \in {"ctl", "dash"}
    BY DEF Sup
  <2> DEFINE new == [NoChild EXCEPT !.name = op[t].name, !.by = Sup(t), !.term = TRUE,
                       !.st = IF op[t].name \in Windowed THEN "launch" ELSE "up"]
  <2>3. new \in Child /\ new.st # "none"
    BY <2>1, <2>2 DEF NoChild, Child
  <2>4. PICK i \in Launches : child' = [child EXCEPT ![i] = new]
    BY <1>2 DEF Spawn
  <2>5. boots' = boots /\ seg' = seg
    BY <1>2 DEF Spawn
  <2> HIDE DEF new
  <2> QED BY <2>3, <2>4, <2>5 DEF ChildTypes
<1>3. ASSUME NEW t \in Threads, SignalChild(t)
      PROVE  ChildTypes' /\ \A i \in Launches :
                              child[i].st # "none" => child'[i].st # "none"
  <2>1. \A i \in Launches :
          /\ child'[i] \in Child
          /\ child[i].st # "none" => child'[i].st # "none"
    <3> SUFFICES ASSUME NEW i \in Launches
                 PROVE  /\ child'[i] \in Child
                        /\ child[i].st # "none" => child'[i].st # "none"
      OBVIOUS
    <3>1. child[i] \in Child
      BY DEF ChildTypes
    <3>2. child'[i] = Gone \/ \E x, y \in BOOLEAN :
            child'[i] = [child[i] EXCEPT !.term = x, !.sig = y]
      BY <1>3, <3>1 DEF SignalChild, Child
    <3>3. \A x, y \in BOOLEAN :
            /\ [child[i] EXCEPT !.term = x, !.sig = y] \in Child
            /\ [child[i] EXCEPT !.term = x, !.sig = y].st = child[i].st
      BY <3>1 DEF Child
    <3> QED
      BY <1>0, <3>2, <3>3
  <2>2. child' \in [Launches -> Child]
    BY <1>3, <2>1 DEF SignalChild
  <2> QED BY <1>3, <2>1, <2>2 DEF SignalChild, control, ChildTypes
<1>4. ASSUME NEW t \in Threads, WaitChild(t)
      PROVE  ChildTypes' /\ \A i \in Launches :
                              child[i].st # "none" => child'[i].st # "none"
  BY <1>0, <1>4 DEF WaitChild, control, ChildTypes
<1>5. ASSUME NEW i \in Launches, OpenWindow(i) \/ WritePid(i) \/ Attach(i) \/ EndChild(i)
      PROVE  ChildTypes' /\ \A j \in Launches :
                              child[j].st # "none" => child'[j].st # "none"
  <2>1. child'[i] \in Child /\ child'[i].st # "none"
    <3>1. child[i] \in Child /\ seg \in Nat
      BY DEF ChildTypes
    <3>2. CASE OpenWindow(i) \/ WritePid(i)
      BY <3>1, <3>2 DEF OpenWindow, WritePid, ChildTypes, Child
    <3>3. CASE Attach(i) /\ child'[i] = Gone
      BY <1>0, <3>3
    <3>4. CASE Attach(i) /\ child'[i] # Gone
      <4>1. child'[i] = [child[i] EXCEPT !.st = "live", !.gen = seg]
        BY <3>4 DEF Attach, ChildTypes
      <4> QED BY <3>1, <4>1 DEF Child
    <3>5. CASE EndChild(i)
      BY <1>0, <3>5 DEF EndChild, ChildTypes
    <3> QED BY <1>5, <3>2, <3>3, <3>4, <3>5
  <2>2. child' = [child EXCEPT ![i] = child'[i]]
    BY <1>5 DEF OpenWindow, WritePid, Attach, EndChild, ChildTypes
  <2> QED BY <1>5, <2>1, <2>2
          DEF OpenWindow, WritePid, Attach, EndChild, control, ChildTypes
<1>6. \/ child' = child
      \/ \E t \in Threads : Spawn(t) \/ SignalChild(t) \/ WaitChild(t)
      \/ \E i \in Launches : OpenWindow(i) \/ WritePid(i) \/ Attach(i) \/ EndChild(i)
  BY DEF Next, vars, family, Controller, Supervise, Boot, Signal, Kill, InitShm,
         CallChild, NextStage, Connect, BringupImu, Go, Run, FinishShutdown,
         CheckAlive, UnlinkPidfile, Request
<1> QED BY <1>1, <1>2, <1>3, <1>4, <1>5, <1>6

(* Every step keeps the pid files and the calls, and gives neither a pid of   *)
(* a launch that has not taken place.                                         *)
LEMMA CallsStep == IInv /\ [Next]_vars => (CallTypes /\ PidsAreLaunched)'
<1> SUFFICES ASSUME IInv, [Next]_vars PROVE (CallTypes /\ PidsAreLaunched)'
  OBVIOUS
<1> USE DEF IInv
<1>0. \A i \in Launches : child[i].st # "none" => child'[i].st # "none"
  BY ChildrenStep
<1>1. NoCall \in Call /\ NoCall.pid = 0 /\ NoCall.pc # "signal"
  BY DEF NoCall, Call
<1>2. CASE UNCHANGED <<op, pidfile>>
  BY <1>0, <1>2 DEF CallTypes, PidsAreLaunched, Call
<1>3. ASSUME NEW t \in Threads, NEW c \in Call, op' = [op EXCEPT ![t] = c],
             c.pc = "signal" => c.name \in AllNames,
             c.pid = 0 \/ child[c.pid].st # "none",
             pidfile' = pidfile \/ \E n : pidfile' = [pidfile EXCEPT ![n] = 0]
      PROVE  (CallTypes /\ PidsAreLaunched)'
  <2>1. CallTypes'
    BY <1>3 DEF CallTypes
  <2>2. \A u \in Threads : op'[u].pid # 0 => child'[op'[u].pid].st # "none"
    BY <1>0, <1>3 DEF CallTypes, PidsAreLaunched, Call
  <2>3. \A n \in AllNames : pidfile'[n] # 0 => child'[pidfile'[n]].st # "none"
    BY <1>0, <1>3 DEF CallTypes, PidsAreLaunched
  <2> QED BY <2>1, <2>2, <2>3 DEF PidsAreLaunched
<1>4. "ctl" \in Threads
  BY DEF Threads
<1>5. CASE CallChild /\ op' # op
  <2>1. left \in Seq(AllNames) /\ left # <<>>
    BY <1>5 DEF CallChild, ListTypes
  <2>2. Head(left) \in AllNames
    BY <2>1
  <2> DEFINE c == [pid |-> 0, name |-> Head(left),
                   pc |-> IF main = "stopping" THEN "signal" ELSE "check"]
  <2>3. c \in Call /\ c.name \in AllNames /\ c.pid = 0
    BY <2>2 DEF Call
  <2>4. op' = [op EXCEPT !["ctl"] = c] /\ pidfile' = pidfile
    BY <1>5 DEF CallChild, family
  <2> HIDE DEF c
  <2> QED BY <1>3, <1>4, <2>3, <2>4
<1>6. CASE Kill
  BY <1>1, <1>3, <1>4, <1>6 DEF Kill, family
<1>7. ASSUME NEW t \in Requests, NEW n \in AllNames,
             Request(t, n, "check") \/ Request(t, n, "signal")
      PROVE  (CallTypes /\ PidsAreLaunched)'
  <2>1. PICK c : /\ c \in {[pc |-> "check", name |-> n, pid |-> 0],
                           [pc |-> "signal", name |-> n, pid |-> 0]}
                 /\ op' = [op EXCEPT ![t] = c] /\ pidfile' = pidfile
    BY <1>7 DEF Request, family
  <2>2. c \in Call /\ c.name \in AllNames /\ c.pid = 0 /\ t \in Threads
    BY <2>1 DEF Call, Threads
  <2> QED BY <1>3, <2>1, <2>2
<1>8. ASSUME NEW t \in Threads, Supervise(t) PROVE (CallTypes /\ PidsAreLaunched)'
  <2>1. op[t] \in Call
    BY DEF CallTypes
  <2>2. CASE CheckAlive(t)
    <3>1. [op[t] EXCEPT !.pc = "unlink"] \in Call
      BY <2>1 DEF Call
    <3> DEFINE c == IF IsAlive(Sup(t), op[t].name) THEN NoCall
                    ELSE [op[t] EXCEPT !.pc = "unlink"]
    <3>2. c \in Call /\ c.pc # "signal" /\ (c.pid = 0 \/ c.pid = op[t].pid)
      BY <1>1, <2>1, <3>1 DEF Call
    <3>3. op' = [op EXCEPT ![t] = c] /\ pidfile' = pidfile
      BY <2>2 DEF CheckAlive, family
    <3> HIDE DEF c
    <3> QED BY <1>3, <3>2, <3>3 DEF PidsAreLaunched
  <2>3. CASE UnlinkPidfile(t)
    <3> DEFINE c == [op[t] EXCEPT !.pc = "spawn"]
    <3>1. c \in Call /\ c.pc # "signal" /\ c.pid = op[t].pid
      BY <2>1 DEF Call
    <3>2. op' = [op EXCEPT ![t] = c]
      BY <2>3 DEF UnlinkPidfile, CallTypes
    <3>3. \E n : pidfile' = [pidfile EXCEPT ![n] = 0]
      BY <2>3 DEF UnlinkPidfile
    <3>4. c.pid = 0 \/ child[c.pid].st # "none"
      BY <3>1 DEF PidsAreLaunched
    <3> HIDE DEF c
    <3> QED BY <1>3, <3>1, <3>2, <3>3, <3>4
  <2>4. CASE Spawn(t) \/ WaitChild(t)
    BY <1>1, <1>3, <2>4 DEF Spawn, WaitChild
  <2>5. CASE SignalChild(t)
    <3>1. op[t].name \in AllNames
      BY <2>5 DEF SignalChild, CallTypes
    <3> DEFINE m == pidfile[op[t].name]
               w == [op[t] EXCEPT !.pc = "wait", !.pid = m]
    <3>2. m \in Launches \cup {0} /\ (m = 0 \/ child[m].st # "none")
      BY <3>1 DEF CallTypes, PidsAreLaunched
    <3>3. w \in Call /\ w.pc # "signal" /\ w.pid = m
      BY <2>1, <3>2 DEF Call
    <3>4. PICK c : c \in {NoCall, w} /\ op' = [op EXCEPT ![t] = c] /\ pidfile' = pidfile
      BY <2>5 DEF SignalChild
    <3> HIDE DEF w, m
    <3> QED BY <1>1, <1>3, <3>2, <3>3, <3>4
  <2> QED BY <1>8, <2>2, <2>3, <2>4, <2>5 DEF Supervise
<1>9. ASSUME NEW i \in Launches, WritePid(i) PROVE (CallTypes /\ PidsAreLaunched)'
  <2>1. child[i].st # "none" /\ op' = op
    BY <1>9 DEF WritePid
  <2>2. pidfile' = [pidfile EXCEPT ![child[i].name] = i]
    BY <1>9 DEF WritePid
  <2>3. CallTypes'
    BY <2>1, <2>2 DEF CallTypes
  <2> QED BY <1>0, <2>1, <2>2, <2>3 DEF CallTypes, PidsAreLaunched, Call
<1>10. \/ UNCHANGED <<op, pidfile>> \/ (CallChild /\ op' # op) \/ Kill
       \/ \E t \in Requests, n \in AllNames :
            Request(t, n, "check") \/ Request(t, n, "signal")
       \/ \E t \in Threads : Supervise(t)
       \/ \E i \in Launches : WritePid(i)
  BY DEF Next, vars, family, Controller, Boot, Signal, InitShm, CallChild, NextStage,
         Connect, BringupImu, Go, Run, FinishShutdown, OpenWindow, Attach, EndChild
<1> QED BY <1>2, <1>5, <1>6, <1>7, <1>8, <1>9, <1>10

(* The invariant holds at the start and is kept. *)
LEMMA Inductive == Spec => []IInv
<1>1. Init => IInv
  <2> SUFFICES ASSUME Init PROVE IInv
    OBVIOUS
  <2>1. NoChild \in Child /\ NoCall \in Call
    BY DEF NoChild, Child, NoCall, Call
  <2>2. ListTypes /\ ChildTypes
    BY <2>1 DEF Init, ListTypes, ChildTypes
  <2>3. CallTypes /\ PidsAreLaunched
    BY <2>1 DEF Init, CallTypes, PidsAreLaunched, NoCall
  <2> QED BY <2>2, <2>3 DEF IInv
<1>2. IInv /\ [Next]_vars => IInv'
  BY ListsStep, ChildrenStep, CallsStep DEF IInv
<1> QED BY <1>1, <1>2, PTL DEF Spec

(* stop_by_name, by a supervisor that did not launch the child itself, has    *)
(* ended the process of the pid file when it returns, however slow to obey,   *)
(* whatever the other supervisor does meanwhile.                              *)
THEOREM ManagedStopEnds == Spec => StopEndsManaged
<1> DEFINE A == \A t \in Threads :
        (op[t].pc = "wait" /\ op'[t].pc = "idle" /\ main' # "off"
           /\ op[t].pid # 0 /\ handle[Sup(t)][op[t].name] = 0)
            => child'[op[t].pid].st = "ended"
<1>1. IInv /\ [Next]_vars => A
  <2> SUFFICES ASSUME IInv, [Next]_vars, NEW t \in Threads,
                      op[t].pc = "wait", op'[t].pc = "idle", main' # "off",
                      op[t].pid # 0, handle[Sup(t)][op[t].name] = 0
               PROVE  child'[op[t].pid].st = "ended"
    OBVIOUS
  <2>1. op \in [Threads -> Call] /\ child \in [Launches -> Child]
    BY DEF IInv, CallTypes, ChildTypes
  <2>2. op[t].pid \in Launches /\ child[op[t].pid].st # "none"
    BY <2>1 DEF IInv, PidsAreLaunched, Call
  <2>3. op' # op
    OBVIOUS
  <2>4. \/ CallChild \/ \E u \in Threads : Supervise(u)
        \/ \E u \in Requests, n \in AllNames :
             Request(u, n, "check") \/ Request(u, n, "signal")
    BY <2>3 DEF Next, vars, Controller, Boot, Signal, Kill, InitShm, NextStage,
         Connect, BringupImu, Go, Run, FinishShutdown, OpenWindow, WritePid, Attach,
         EndChild
  <2>5. ~CallChild
    <3> SUFFICES ASSUME CallChild PROVE FALSE
      OBVIOUS
    <3>1. op["ctl"].pc = "idle" /\ \A u \in Threads \ {"ctl"} : op'[u] = op[u]
      BY <2>1 DEF CallChild
    <3> QED BY <3>1
  <2>6. ASSUME NEW u \in Requests, NEW n \in AllNames,
               Request(u, n, "check") \/ Request(u, n, "signal")
        PROVE  FALSE
    <3>1. op[u].pc = "idle" /\ \A v \in Threads \ {u} : op'[v] = op[v]
      BY <2>1, <2>6 DEF Request
    <3> QED BY <3>1
  <2>7. PICK u \in Threads : Supervise(u)
    BY <2>4, <2>5, <2>6
  <2>8. \A v \in Threads \ {u} : op'[v] = op[v]
    BY <2>1, <2>7 DEF Supervise, CheckAlive, UnlinkPidfile, Spawn, SignalChild,
                      WaitChild
  <2>9. WaitChild(t)
    BY <2>7, <2>8 DEF Supervise, CheckAlive, UnlinkPidfile, Spawn, SignalChild
  <2>10. Kills(handle[Sup(t)][op[t].name], op[t].pid) = {op[t].pid}
    BY DEF Kills
  <2>11. child'[op[t].pid] = IF Alive(op[t].pid) THEN Gone ELSE child[op[t].pid]
    BY <2>2, <2>9, <2>10 DEF WaitChild
  <2>12. CASE Alive(op[t].pid)
    BY <2>11, <2>12 DEF Gone, NoChild
  <2>13. CASE ~Alive(op[t].pid)
    BY <2>2, <2>11, <2>13 DEF Alive
  <2> QED BY <2>12, <2>13
<1>2. IInv /\ [Next]_vars => [A]_vars
  BY <1>1
<1> QED BY <1>2, Inductive, PTL DEF Spec, StopEndsManaged

-------------------------------------------------------------------------------
(* The two supervisors *)

Inv == IInv /\ SupInv /\ CtlInv

(* The histories only grow and the configuration stays. *)
LEMMA Monotone ==
    ASSUME [Next]_vars
    PROVE  disturbed \subseteq disturbed' /\ (killed => killed') /\ order' = order
<1>1. ASSUME NEW t \in Threads, Supervise(t)
      PROVE  disturbed \subseteq disturbed' /\ killed' = killed /\ order' = order
  <2>1. disturbed \subseteq Disturbs(t)
    BY DEF Disturbs
  <2> QED
    BY <1>1, <2>1 DEF Supervise, CheckAlive, UnlinkPidfile, Spawn, SignalChild, WaitChild,
       control, history
<1>2. CASE Kill
  BY <1>2 DEF Kill
<1>3. ASSUME ~Kill, \A t \in Threads : ~Supervise(t)
      PROVE  UNCHANGED <<disturbed, killed, order>>
  BY <1>3 DEF Next, vars, control, history, Controller, Boot, Signal, InitShm, CallChild,
     NextStage, Connect, BringupImu, Go, Run, FinishShutdown, Request, OpenWindow,
     WritePid, Attach, EndChild
<1> QED
  BY <1>1, <1>2, <1>3

(* The types the steps below use. *)
LEMMA SupTypes ==
    ASSUME Inv
    PROVE  /\ child \in [Launches -> Child] /\ op \in [Threads -> Call]
           /\ pidfile \in [AllNames -> Launches \cup {0}]
           /\ handle \in [{"ctl", "dash"} -> [AllNames -> Launches \cup {0}]]
           /\ "ctl" \in Threads /\ 0 \notin Launches /\ "none" \notin {"ctl", "dash"}
           /\ \A t \in Threads : Sup(t) \in {"ctl", "dash"}
BY DEF Inv, IInv, SupInv, ChildTypes, CallTypes, HandleTypes, Threads, Sup, Launches

(* A step that leaves children, handles, pid files and calls alone. *)
LEMMA QuietSup ==
    ASSUME SupInv, UNCHANGED <<child, handle, pidfile, op>>,
           disturbed \subseteq disturbed', killed => killed', order' = order
    PROVE  SupInv'
<1>1. HandleTypes' /\ ChildrenNamed' /\ CallsNamed' /\ HandlesMatch'
  BY DEF SupInv, HandleTypes, ChildrenNamed, CallsNamed, HandlesMatch, Alive, Names
<1>2. AllRegistered' /\ OneInstance'
  BY DEF SupInv, AllRegistered, Registered, OneInstance, Undisturbed, Alive
<1>3. OneCaller' /\ StartsFindNone' /\ StopsWaitForIt'
  BY DEF SupInv, OneCaller, Acting, StartsFindNone, StopsWaitForIt, Undisturbed, Alive
<1> QED
  BY <1>1, <1>2, <1>3 DEF SupInv

(* A new controller has no handle; no child of the last one needs it. *)
LEMMA BootSup ==
    ASSUME Inv, Boot, disturbed \subseteq disturbed', killed => killed', order' = order
    PROVE  SupInv'
<1>1. /\ UNCHANGED <<child, pidfile, op>>
      /\ handle' = [handle EXCEPT !["ctl"] = [n \in AllNames |-> 0]]
      /\ main \in {"off", "exited"}
  BY DEF Boot
<1>2. HandleTypes' /\ handle'["dash"] = handle["dash"]
      /\ \A n \in AllNames : handle'["ctl"][n] = 0
  BY <1>1, SupTypes DEF HandleTypes
<1>3. ChildrenNamed' /\ CallsNamed'
  BY <1>1 DEF Inv, SupInv, ChildrenNamed, CallsNamed, Alive, Names
<1>4. HandlesMatch'
  BY <1>1, <1>2 DEF Inv, SupInv, HandlesMatch
<1>5. AllRegistered'
  <2> SUFFICES ASSUME NEW i \in Launches, Alive(i), Undisturbed(child[i].name)
               PROVE  Registered(i)'
    BY <1>1 DEF AllRegistered, Alive, Undisturbed
  <2>1. child[i].by = "dash" /\ Registered(i) /\ child[i].name \in AllNames
    BY <1>1 DEF Inv, SupInv, CtlInv, AllRegistered, ChildrenNamed, Stopping, CtlChild
  <2> QED
    BY <1>1, <1>2, <2>1 DEF Registered
<1>6. OneInstance'
  BY <1>1 DEF Inv, SupInv, OneInstance, Undisturbed, Alive
<1>7. OneCaller' /\ StartsFindNone' /\ StopsWaitForIt'
  BY <1>1 DEF Inv, SupInv, OneCaller, Acting, StartsFindNone, StopsWaitForIt, Undisturbed, Alive
<1> QED
  BY <1>2, <1>3, <1>4, <1>5, <1>6, <1>7 DEF SupInv

(* After a kill nothing is claimed but names. *)
LEMMA KillSup ==
    ASSUME Inv, Kill, order' = order
    PROVE  SupInv'
<1>1. /\ UNCHANGED <<child, handle, pidfile>> /\ op' = [op EXCEPT !["ctl"] = NoCall]
      /\ killed' = TRUE
  BY DEF Kill, family
<1>2. HandleTypes' /\ ChildrenNamed' /\ HandlesMatch'
  BY <1>1 DEF Inv, SupInv, HandleTypes, ChildrenNamed, HandlesMatch, Alive, Names
<1>3. CallsNamed'
  BY <1>1, SupTypes DEF Inv, SupInv, CallsNamed, NoCall, Names
<1>4. AllRegistered' /\ OneInstance' /\ OneCaller' /\ StartsFindNone' /\ StopsWaitForIt'
  BY <1>1 DEF AllRegistered, OneInstance, OneCaller, StartsFindNone, StopsWaitForIt, Undisturbed
<1> QED
  BY <1>2, <1>3, <1>4 DEF SupInv

(* A call that begins acts on nothing yet. *)
LEMMA CallSup ==
    ASSUME Inv, NEW t \in Threads, NEW n \in AllNames, NEW x \in {"check", "signal"},
           op' = [op EXCEPT ![t] = [pid |-> 0, name |-> n, pc |-> x]],
           n \notin Windowed => t = "ctl",
           t = "ctl" /\ x = "check" => n \in Names,
           UNCHANGED <<child, handle, pidfile>>,
           disturbed \subseteq disturbed', killed => killed', order' = order
    PROVE  SupInv'
<1>1. HandleTypes' /\ ChildrenNamed' /\ HandlesMatch'
  BY DEF Inv, SupInv, HandleTypes, ChildrenNamed, HandlesMatch, Alive, Names
<1>2. /\ op'[t].pc = x /\ op'[t].name = n /\ ~Acting(t)'
      /\ \A u \in Threads \ {t} : op'[u] = op[u]
  BY SupTypes DEF Acting
<1>3. CallsNamed'
  BY <1>2 DEF Inv, SupInv, CallsNamed, Names
<1>4. AllRegistered' /\ OneInstance'
  BY DEF Inv, SupInv, AllRegistered, Registered, OneInstance, Undisturbed, Alive
<1>5. OneCaller'
  BY <1>2 DEF Inv, SupInv, OneCaller, Acting, Undisturbed
<1>6. StartsFindNone' /\ StopsWaitForIt'
  BY <1>2 DEF Inv, SupInv, StartsFindNone, StopsWaitForIt, Undisturbed, Alive
<1> QED
  BY <1>1, <1>3, <1>4, <1>5, <1>6 DEF SupInv

(* What a call that disturbs nothing has seen: no other call on its name, and *)
(* no launch of it but its own supervisor's.                                  *)
LEMMA NothingDisturbed ==
    ASSUME NEW t \in Threads, op[t].name \notin Disturbs(t)
    PROVE  /\ \A u \in Threads \ {t} : op[u].name # op[t].name
           /\ \A i \in Launches :
                 child[i].name = op[t].name /\ child[i].st \in {"launch", "boot"} =>
                   /\ child[i].term /\ handle[Sup(t)][op[t].name] = i
                   /\ child[i].st = "launch" \/ op[t].pc = "check"
BY DEF Disturbs

(* A call that returns without having changed anything. *)
LEMMA ReturnSup ==
    ASSUME Inv, NEW t \in Threads, op' = [op EXCEPT ![t] = NoCall],
           UNCHANGED <<child, handle, pidfile>>,
           disturbed \subseteq disturbed', killed => killed', order' = order
    PROVE  SupInv'
<1>1. HandleTypes' /\ ChildrenNamed' /\ HandlesMatch'
  BY DEF Inv, SupInv, HandleTypes, ChildrenNamed, HandlesMatch, Alive, Names
<1>2. op'[t].pc = "idle" /\ \A u \in Threads \ {t} : op'[u] = op[u]
  BY SupTypes DEF NoCall
<1>3. CallsNamed'
  BY <1>2 DEF Inv, SupInv, CallsNamed, Names
<1>4. AllRegistered' /\ OneInstance'
  BY DEF Inv, SupInv, AllRegistered, Registered, OneInstance, Undisturbed, Alive
<1>5. OneCaller'
  BY <1>2 DEF Inv, SupInv, OneCaller, Acting, Undisturbed
<1>6. StartsFindNone' /\ StopsWaitForIt'
  BY <1>2 DEF Inv, SupInv, StartsFindNone, StopsWaitForIt, Undisturbed, Alive
<1> QED
  BY <1>1, <1>3, <1>4, <1>5, <1>6 DEF SupInv

(* is_alive misses no child of a name that is not disturbed. *)
LEMMA CheckSup ==
    ASSUME Inv, NEW t \in Threads, CheckAlive(t),
           disturbed \subseteq disturbed', killed => killed', order' = order
    PROVE  SupInv'
<1> DEFINE n == op[t].name
<1>1. UNCHANGED <<child, handle, pidfile>> /\ disturbed' = Disturbs(t) /\ op[t].pc = "check"
  BY DEF CheckAlive, family
<1>2. CASE IsAlive(Sup(t), n)
  BY <1>1, <1>2, ReturnSup DEF CheckAlive
<1>3. CASE ~IsAlive(Sup(t), n)
  <2>1. /\ op'[t].pc = "unlink" /\ op'[t].name = n
        /\ \A u \in Threads \ {t} : op'[u] = op[u]
    BY <1>3, SupTypes DEF CheckAlive, Call
  <2>2. HandleTypes' /\ ChildrenNamed' /\ HandlesMatch'
    BY <1>1 DEF Inv, SupInv, HandleTypes, ChildrenNamed, HandlesMatch, Alive, Names
  <2>3. CallsNamed'
    BY <1>1, <2>1 DEF Inv, SupInv, CallsNamed, Names
  <2>4. AllRegistered' /\ OneInstance'
    BY <1>1 DEF Inv, SupInv, AllRegistered, Registered, OneInstance, Undisturbed, Alive
  <2>5. OneCaller'
    <3>1. n \notin disturbed' => \A u \in Threads \ {t} : op[u].name # n
      BY <1>1, NothingDisturbed
    <3> QED
      BY <2>1, <3>1 DEF Inv, SupInv, OneCaller, Acting, Undisturbed
  <2>6. ASSUME NEW i \in Launches, Alive(i), child[i].name = n, n \notin disturbed', ~killed'
        PROVE  FALSE
    <3>1. Registered(i) /\ n \in AllNames
      BY <1>1, <2>6 DEF Inv, SupInv, AllRegistered, Undisturbed, CallsNamed
    <3>2. CASE n \in Windowed /\ child[i].st \in {"launch", "boot"}
      <4>1. child[i].term /\ handle[Sup(t)][n] = i
        BY <1>1, <2>6, <3>2, NothingDisturbed
      <4> QED
        BY <1>3, <4>1, SupTypes DEF IsAlive
    <3>3. CASE n \in Windowed /\ child[i].st \notin {"launch", "boot"}
      <4>1. pidfile[n] = i
        BY <2>6, <3>1, <3>3 DEF Registered
      <4> QED
        BY <1>3, <2>6, <4>1, SupTypes DEF IsAlive, Up
    <3>4. CASE n \notin Windowed
      <4>1. t = "ctl" /\ Sup(t) = "ctl"
        BY <1>1, <3>4 DEF Inv, SupInv, CallsNamed, Sup
      <4>2. child[i].term /\ handle["ctl"][n] = i
        BY <2>6, <3>1, <3>4 DEF Registered
      <4> QED
        BY <1>3, <4>1, <4>2, SupTypes DEF IsAlive
    <3> QED
      BY <3>2, <3>3, <3>4
  <2>7. StartsFindNone'
    BY <1>1, <2>1, <2>6 DEF Inv, SupInv, StartsFindNone, Undisturbed, Alive
  <2>8. StopsWaitForIt'
    BY <1>1, <2>1 DEF Inv, SupInv, StopsWaitForIt, Undisturbed, Alive
  <2> QED
    BY <2>2, <2>3, <2>4, <2>5, <2>7, <2>8 DEF SupInv
<1> QED
  BY <1>2, <1>3

(* The pid file a start removes is no living child's. *)
LEMMA UnlinkSup ==
    ASSUME Inv, NEW t \in Threads, UnlinkPidfile(t),
           disturbed \subseteq disturbed', killed => killed', order' = order
    PROVE  SupInv'
<1> DEFINE n == op[t].name
<1>1. /\ UNCHANGED <<child, handle, disturbed, killed>> /\ op[t].pc = "unlink"
      /\ pidfile' = [pidfile EXCEPT ![n] = 0]
  BY DEF UnlinkPidfile, history
<1>2. /\ op'[t].pc = "spawn" /\ op'[t].name = n
      /\ \A u \in Threads \ {t} : op'[u] = op[u]
  BY SupTypes DEF UnlinkPidfile, Call
<1>3. HandleTypes' /\ ChildrenNamed' /\ HandlesMatch' /\ OneInstance'
  BY <1>1 DEF Inv, SupInv, HandleTypes, ChildrenNamed, HandlesMatch, OneInstance, Undisturbed,
     Alive, Names
<1>4. CallsNamed'
  BY <1>1, <1>2 DEF Inv, SupInv, CallsNamed, Names
<1>5. OneCaller'
  BY <1>1, <1>2 DEF Inv, SupInv, OneCaller, Acting, Undisturbed
<1>6. StartsFindNone' /\ StopsWaitForIt'
  BY <1>1, <1>2 DEF Inv, SupInv, StartsFindNone, StopsWaitForIt, Undisturbed, Alive
<1>7. AllRegistered'
  <2> SUFFICES ASSUME NEW i \in Launches, Alive(i), Undisturbed(child[i].name)
               PROVE  Registered(i)'
    BY <1>1 DEF AllRegistered, Alive, Undisturbed
  <2>1. child[i].name # n /\ child[i].name \in AllNames /\ Registered(i)
    BY <1>1 DEF Inv, SupInv, StartsFindNone, AllRegistered, ChildrenNamed
  <2>2. pidfile'[child[i].name] = pidfile[child[i].name]
    BY <1>1, <2>1, SupTypes
  <2> QED
    BY <1>1, <2>1, <2>2 DEF Registered
<1> QED
  BY <1>3, <1>4, <1>5, <1>6, <1>7 DEF SupInv

(* Who launches a child is the only one to act on its name, and there is none *)
(* of it.                                                                     *)
LEMMA SpawnSup ==
    ASSUME Inv, NEW t \in Threads, Spawn(t),
           disturbed \subseteq disturbed', killed => killed', order' = order
    PROVE  SupInv'
<1> DEFINE n == op[t].name
           s == Sup(t)
           new == [NoChild EXCEPT !.name = n, !.by = s, !.term = TRUE,
                     !.st = IF n \in Windowed THEN "launch" ELSE "up"]
<1>1. /\ op[t].pc = "spawn" /\ op' = [op EXCEPT ![t] = NoCall]
      /\ UNCHANGED <<pidfile, disturbed, killed>>
  BY DEF Spawn, history
<1>2. CASE UNCHANGED <<child, handle>>
  BY <1>1, <1>2, ReturnSup
<1>3. ASSUME NEW i \in Launches, Free(i), child' = [child EXCEPT ![i] = new],
             handle' = [handle EXCEPT ![s][n] = i]
      PROVE  SupInv'
  <2>1. /\ s \in {"ctl", "dash"} /\ n \in AllNames /\ (n \notin Windowed => t = "ctl")
        /\ t = "ctl" => n \in Names
        /\ s = "ctl" => t = "ctl"
    BY <1>1, SupTypes DEF Inv, SupInv, CallsNamed, Sup
  <2>2. /\ new.name = n /\ new.by = s /\ new.term = TRUE
        /\ new.st = IF n \in Windowed THEN "launch" ELSE "up"
    BY DEF NoChild
  <2> HIDE DEF new
  <2>3. child'[i] = new /\ \A j \in Launches \ {i} : child'[j] = child[j]
    BY <1>3, SupTypes
  <2>4. /\ HandleTypes' /\ handle'[s][n] = i
        /\ \A x \in {"ctl", "dash"}, m \in AllNames :
              (x # s \/ m # n) => handle'[x][m] = handle[x][m]
    BY <1>3, <2>1, SupTypes DEF HandleTypes
  <2>5. op'[t].pc = "idle" /\ \A u \in Threads \ {t} : op'[u] = op[u]
    BY <1>1, SupTypes DEF NoCall
  <2>6. ChildrenNamed'
    BY <2>1, <2>2, <2>3 DEF Inv, SupInv, ChildrenNamed, Alive, Names
  <2>7. CallsNamed'
    BY <2>5 DEF Inv, SupInv, CallsNamed, Names
  <2>8. HandlesMatch'
    <3>1. \A x \in {"ctl", "dash"}, m \in AllNames : handle[x][m] # i
      BY <1>3 DEF Free
    <3> SUFFICES ASSUME NEW x \in {"ctl", "dash"}, NEW m \in AllNames,
                        handle'[x][m] # 0, child'[handle'[x][m]].term
                 PROVE  child'[handle'[x][m]].name = m
      BY DEF HandlesMatch
    <3>2. CASE x = s /\ m = n
      BY <2>2, <2>3, <2>4, <3>2
    <3>3. CASE x # s \/ m # n
      <4>1. handle'[x][m] = handle[x][m] /\ handle[x][m] \in Launches \ {i}
        BY <2>4, <3>1, <3>3, SupTypes
      <4> QED
        BY <2>3, <4>1 DEF Inv, SupInv, HandlesMatch
    <3> QED
      BY <3>2, <3>3
  <2>9. ASSUME NEW j \in Launches, Alive(j), child[j].name = n PROVE ~Undisturbed(n)
    BY <1>1, <2>9 DEF Inv, SupInv, StartsFindNone
  <2>10. AllRegistered'
    <3> SUFFICES ASSUME NEW j \in Launches, Alive(j)', Undisturbed(child[j].name)'
                 PROVE  Registered(j)'
      BY DEF AllRegistered
    <3>1. CASE j = i
      <4>1. s = "ctl" \/ n \in Windowed
        BY <2>1 DEF Sup
      <4> QED
        BY <2>1, <2>2, <2>3, <2>4, <3>1, <4>1 DEF Registered
    <3>2. CASE j # i
      <4>1. child'[j] = child[j] /\ Alive(j) /\ Undisturbed(child[j].name)
        BY <1>1, <2>3, <3>2 DEF Alive, Undisturbed
      <4>2. child[j].name # n /\ child[j].name \in AllNames /\ child[j].by \in {"ctl", "dash"}
        BY <2>9, <4>1 DEF Inv, SupInv, ChildrenNamed
      <4>3. Registered(j)
        BY <4>1 DEF Inv, SupInv, AllRegistered
      <4> QED
        BY <1>1, <2>4, <4>1, <4>2, <4>3 DEF Registered
    <3> QED
      BY <3>1, <3>2
  <2>11. OneInstance'
    BY <1>1, <2>2, <2>3, <2>9 DEF Inv, SupInv, OneInstance, Alive, Undisturbed
  <2>12. OneCaller'
    BY <1>1, <2>5 DEF Inv, SupInv, OneCaller, Acting, Undisturbed
  <2>13. ASSUME NEW u \in Threads, u # t, Acting(u), op[u].name = n PROVE ~Undisturbed(n)
    BY <1>1, <2>13 DEF Inv, SupInv, OneCaller, Acting
  <2>14. StartsFindNone'
    BY <1>1, <2>2, <2>3, <2>5, <2>13 DEF Inv, SupInv, StartsFindNone, Acting, Alive, Undisturbed
  <2>15. StopsWaitForIt'
    BY <1>1, <2>2, <2>3, <2>5, <2>13 DEF Inv, SupInv, StopsWaitForIt, Acting, Alive, Undisturbed
  <2> QED
    BY <2>4, <2>6, <2>7, <2>8, <2>10, <2>11, <2>12, <2>14, <2>15 DEF SupInv
<1> QED
  BY <1>2, <1>3 DEF Spawn

(* SIGTERM to the pid of the file and to the own subprocess reaches the child *)
(* of a name that is not disturbed: it ends with its launch, or is waited for. *)
LEMMA SignalSup ==
    ASSUME Inv, NEW t \in Threads, SignalChild(t),
           disturbed \subseteq disturbed', killed => killed', order' = order
    PROVE  SupInv'
<1> DEFINE n == op[t].name
           p == handle[Sup(t)][n]
           m == pidfile[n]
<1>1. /\ UNCHANGED <<handle, pidfile, killed>> /\ op[t].pc = "signal"
      /\ disturbed' = Disturbs(t) /\ n \in AllNames
  BY DEF SignalChild, Inv, SupInv, CallsNamed
<1>2. /\ op'[t].pc \in {"idle", "wait"}
      /\ op'[t].pc = "wait" => op'[t].name = n /\ op'[t].pid = m
      /\ \A u \in Threads \ {t} : op'[u] = op[u]
  BY SupTypes DEF SignalChild, Call, NoCall
<1>3. ASSUME NEW i \in Launches, i = p, child[i].term PROVE child[i].name = n
  BY <1>1, <1>3, SupTypes DEF Inv, SupInv, HandlesMatch
<1>4. ASSUME NEW i \in Launches, i = p, child[i].term, child[i].st = "launch"
      PROVE  child'[i] = Gone
  BY <1>4 DEF SignalChild
<1>5. ASSUME NEW i \in Launches, ~(i = p /\ child[i].term /\ child[i].st = "launch")
      PROVE  /\ child'[i].name = child[i].name /\ child'[i].by = child[i].by
             /\ child'[i].st = child[i].st
             /\ child'[i].term = (child[i].term /\ ~(i = p /\ child[i].term /\ n \in Windowed))
  <2>1. PICK x, y : child'[i] = [child[i] EXCEPT
            !.term = @ /\ ~((i = p /\ child[i].term) /\ n \in Windowed), !.sig = @ \/ x \/ y]
    BY <1>5 DEF SignalChild
  <2> QED
    BY <2>1, SupTypes DEF Child
<1>6. \A i \in Launches : Alive(i)' =>
        /\ Alive(i) /\ child'[i].name = child[i].name /\ child'[i].by = child[i].by
        /\ child'[i].st = child[i].st
  BY <1>4, <1>5 DEF Alive, Gone, NoChild
<1>7. HandleTypes' /\ ChildrenNamed'
  BY <1>1, <1>6 DEF Inv, SupInv, HandleTypes, ChildrenNamed, Names
<1>8. CallsNamed'
  BY <1>1, <1>2 DEF Inv, SupInv, CallsNamed, Names
<1>9. HandlesMatch'
  <2>1. \A i \in Launches : child'[i].term => child[i].term /\ child'[i].name = child[i].name
    BY <1>4, <1>5, SupTypes DEF Gone, NoChild, Child
  <2> QED
    BY <1>1, <2>1, SupTypes DEF Inv, SupInv, HandlesMatch
<1>10. n \notin disturbed' => \A u \in Threads \ {t} : op[u].name # n
  BY <1>1, NothingDisturbed
<1>11. ASSUME NEW i \in Launches, n \notin disturbed', child[i].name = n,
              child[i].st \in {"launch", "boot"}
       PROVE  i = p /\ child[i].term /\ child[i].st = "launch"
  BY <1>1, <1>11, NothingDisturbed
<1>12. AllRegistered'
  <2> SUFFICES ASSUME NEW i \in Launches, Alive(i)', Undisturbed(child[i].name)'
               PROVE  Registered(i)'
    BY DEF AllRegistered
  <2>1. /\ Alive(i) /\ child'[i].name = child[i].name /\ child'[i].by = child[i].by
        /\ child'[i].st = child[i].st /\ Registered(i)
        /\ child[i].name \notin disturbed'
    BY <1>6 DEF Inv, SupInv, AllRegistered, Undisturbed
  <2>2. ~(i = p /\ child[i].term /\ child[i].st = "launch")
    BY <1>4 DEF Alive, Gone, NoChild
  <2>3. CASE child[i].name \in Windowed /\ child[i].st \in {"launch", "boot"}
    <3>1. ~(i = p /\ child[i].term)
      BY <1>3, <1>11, <2>1, <2>2, <2>3
    <3> QED
      BY <1>1, <1>5, <2>1, <2>2, <2>3, <3>1 DEF Registered
  <2>4. CASE child[i].name \in Windowed /\ child[i].st \notin {"launch", "boot"}
    BY <1>1, <2>1, <2>4 DEF Registered
  <2>5. CASE child[i].name \notin Windowed
    <3>1. ~(i = p /\ child[i].term /\ n \in Windowed)
      BY <1>3, <2>5
    <3> QED
      BY <1>1, <1>5, <2>1, <2>2, <2>5, <3>1 DEF Registered
  <2> QED
    BY <2>3, <2>4, <2>5
<1>13. OneInstance'
  BY <1>1, <1>6 DEF Inv, SupInv, OneInstance, Undisturbed
<1>14. OneCaller'
  BY <1>2, <1>10 DEF Inv, SupInv, OneCaller, Acting, Undisturbed
<1>15. StartsFindNone'
  BY <1>2, <1>6 DEF Inv, SupInv, StartsFindNone, Undisturbed
<1>16. StopsWaitForIt'
  <2> SUFFICES ASSUME NEW u \in Threads, NEW i \in Launches, op'[u].pc = "wait",
                      Alive(i)', child'[i].name = op'[u].name, Undisturbed(op[u].name)',
                      op'[u].name \in Windowed
               PROVE  child'[i].st \in {"up", "live"} /\ op'[u].pid = i
    BY DEF StopsWaitForIt
  <2>1. Alive(i) /\ child'[i].name = child[i].name /\ child'[i].st = child[i].st
    BY <1>6
  <2>2. CASE u # t
    <3>1. op'[u] = op[u] /\ Undisturbed(op[u].name) /\ child[i].name = op[u].name
      BY <1>2, <2>1, <2>2 DEF Undisturbed
    <3>2. child[i].st \in {"up", "live"} /\ op[u].pid = i
      BY <2>1, <3>1 DEF Inv, SupInv, StopsWaitForIt
    <3> QED
      BY <2>1, <3>1, <3>2
  <2>3. CASE u = t
    <3>1. child[i].name = n /\ n \notin disturbed' /\ ~killed' /\ op'[t].pid = m
          /\ n \in Windowed
      BY <1>2, <2>1, <2>3 DEF Undisturbed
    <3>2. Registered(i)
      BY <2>1, <3>1 DEF Inv, SupInv, AllRegistered, Undisturbed
    <3>3. child[i].st \notin {"launch", "boot"}
      <4>1. ~(i = p /\ child[i].term /\ child[i].st = "launch")
        BY <1>4 DEF Alive, Gone, NoChild
      <4> QED
        BY <1>11, <3>1, <4>1
    <3> QED
      BY <2>1, <2>3, <3>1, <3>2, <3>3 DEF Registered
  <2> QED
    BY <2>2, <2>3
<1> QED
  BY <1>7, <1>8, <1>9, <1>12, <1>13, <1>14, <1>15, <1>16 DEF SupInv

(* When a stop returns there is no child of its name left, or it has seen one *)
(* escape.                                                                    *)
LEMMA WaitClears ==
    ASSUME Inv, NEW t \in Threads, WaitChild(t), disturbed \subseteq disturbed',
           NEW i \in Launches, Alive(i)', child[i].name = op[t].name
    PROVE  op[t].name \in disturbed' \/ killed'
<1> DEFINE n == op[t].name
           p == handle[Sup(t)][n]
           m == op[t].pid
<1>1. /\ op[t].pc = "wait" /\ killed' = killed /\ n \in AllNames
      /\ child' = [j \in Launches |->
                     IF j \in Kills(p, m) /\ Alive(j) THEN Gone ELSE child[j]]
      /\ Up(m) /\ m \notin Kills(p, m) => n \in disturbed'
  BY DEF WaitChild, Inv, SupInv, CallsNamed
<1>2. Alive(i) /\ i \notin Kills(p, m)
  BY <1>1 DEF Alive, Gone, NoChild
<1>3. SUFFICES ASSUME Undisturbed(n), n \notin disturbed' PROVE FALSE
  BY <1>1 DEF Undisturbed
<1>4. CASE n \in Windowed
  <2>1. m = i
    BY <1>1, <1>2, <1>3, <1>4 DEF Inv, SupInv, StopsWaitForIt
  <2> QED
    BY <1>1, <1>2, <1>3, <2>1, SupTypes DEF Up
<1>5. CASE n \notin Windowed
  <2>1. t = "ctl" /\ Sup(t) = "ctl"
    BY <1>1, <1>5 DEF Inv, SupInv, CallsNamed, Sup
  <2>2. handle["ctl"][n] = i /\ child[i].term
    BY <1>2, <1>3, <1>5 DEF Inv, SupInv, AllRegistered, Registered
  <2> QED
    BY <1>2, <2>1, <2>2, SupTypes DEF Kills
<1> QED
  BY <1>4, <1>5

LEMMA WaitSup ==
    ASSUME Inv, NEW t \in Threads, WaitChild(t),
           disturbed \subseteq disturbed', killed => killed', order' = order
    PROVE  SupInv'
<1> DEFINE n == op[t].name
<1>1. /\ UNCHANGED <<handle, killed>> /\ op[t].pc = "wait" /\ n \in AllNames
      /\ op' = [op EXCEPT ![t] = NoCall] /\ pidfile' = [pidfile EXCEPT ![n] = 0]
  BY DEF WaitChild, Inv, SupInv, CallsNamed
<1>2. op'[t].pc = "idle" /\ \A u \in Threads \ {t} : op'[u] = op[u]
  BY <1>1, SupTypes DEF NoCall
<1>3. \A i \in Launches : child'[i] \in {Gone, child[i]}
  BY DEF WaitChild
<1>4. \A i \in Launches : Alive(i)' => Alive(i) /\ child'[i] = child[i]
  BY <1>3 DEF Alive, Gone, NoChild
<1>5. HandleTypes' /\ ChildrenNamed'
  BY <1>1, <1>4 DEF Inv, SupInv, HandleTypes, ChildrenNamed, Names
<1>6. CallsNamed'
  BY <1>2 DEF Inv, SupInv, CallsNamed, Names
<1>7. HandlesMatch'
  <2>1. \A i \in Launches : child'[i].term => child'[i] = child[i]
    BY <1>3 DEF Gone, NoChild
  <2> QED
    BY <1>1, <2>1, SupTypes DEF Inv, SupInv, HandlesMatch
<1>8. AllRegistered'
  <2> SUFFICES ASSUME NEW i \in Launches, Alive(i)', Undisturbed(child[i].name)'
               PROVE  Registered(i)'
    BY DEF AllRegistered
  <2>1. child'[i] = child[i] /\ Alive(i) /\ Undisturbed(child[i].name)
    BY <1>4 DEF Undisturbed
  <2>2. child[i].name # n /\ child[i].name \in AllNames
    <3>1. child[i].name \notin disturbed' /\ ~killed'
      BY <2>1 DEF Undisturbed
    <3>2. child[i].name # n
      BY <3>1, WaitClears
    <3> QED
      BY <2>1, <3>2 DEF Inv, SupInv, ChildrenNamed
  <2>3. pidfile'[child[i].name] = pidfile[child[i].name] /\ Registered(i)
    BY <1>1, <2>1, <2>2, SupTypes DEF Inv, SupInv, AllRegistered
  <2> QED
    BY <1>1, <2>1, <2>3 DEF Registered
<1>9. OneInstance'
  BY <1>1, <1>4 DEF Inv, SupInv, OneInstance, Undisturbed
<1>10. OneCaller'
  BY <1>2 DEF Inv, SupInv, OneCaller, Acting, Undisturbed
<1>11. StartsFindNone' /\ StopsWaitForIt'
  BY <1>2, <1>4 DEF Inv, SupInv, StartsFindNone, StopsWaitForIt, Undisturbed
<1> QED
  BY <1>5, <1>6, <1>7, <1>8, <1>9, <1>10, <1>11 DEF SupInv

(* A child that goes on or ends stays where its supervisor looks for it. *)
LEMMA ChildSup ==
    ASSUME Inv, NEW i \in Launches, Alive(i),
           OpenWindow(i) \/ WritePid(i) \/ Attach(i) \/ EndChild(i),
           disturbed \subseteq disturbed', killed => killed', order' = order
    PROVE  SupInv'
<1>1. UNCHANGED <<handle, op, disturbed, killed>>
  BY DEF OpenWindow, WritePid, Attach, EndChild, history
<1>2. \A j \in Launches \ {i} : child'[j] = child[j]
  BY SupTypes DEF OpenWindow, WritePid, Attach, EndChild
<1>3. child[i].name \in AllNames
  BY DEF Inv, SupInv, ChildrenNamed
<1>4. \/ child'[i] = Gone
      \/ /\ child'[i].name = child[i].name /\ child'[i].by = child[i].by
         /\ child'[i].term = child[i].term /\ Alive(i)'
         /\ \/ child[i].st = "launch" /\ child'[i].st = "boot" /\ pidfile' = pidfile
            \/ /\ child[i].st = "boot" /\ child'[i].st = "up"
               /\ pidfile' = [pidfile EXCEPT ![child[i].name] = i]
            \/ child[i].st = "up" /\ child'[i].st = "live" /\ pidfile' = pidfile
  <2>1. child[i] \in Child /\ Alive(i)
    BY SupTypes
  <2>2. CASE OpenWindow(i)
    BY <2>1, <2>2, SupTypes DEF OpenWindow, Alive, Child
  <2>3. CASE WritePid(i)
    BY <2>1, <2>3, SupTypes DEF WritePid, Alive, Child
  <2>4. CASE Attach(i)
    BY <2>1, <2>4, SupTypes DEF Attach, Alive, Child
  <2>5. CASE EndChild(i)
    BY <2>5, SupTypes DEF EndChild
  <2> QED
    BY <2>2, <2>3, <2>4, <2>5
<1>5. child'[i] = Gone => pidfile' = pidfile
  BY SupTypes DEF OpenWindow, WritePid, Attach, EndChild, Gone, NoChild, Child
<1>6. \A j \in Launches : Alive(j)' =>
        /\ Alive(j) /\ child'[j].name = child[j].name /\ child'[j].by = child[j].by
        /\ child[j].st \in {"up", "live"} => child'[j].st \in {"up", "live"}
  BY <1>2, <1>4 DEF Alive, Gone, NoChild
<1>7. HandleTypes' /\ ChildrenNamed'
  BY <1>1, <1>6 DEF Inv, SupInv, HandleTypes, ChildrenNamed, Names
<1>8. CallsNamed' /\ OneCaller'
  BY <1>1 DEF Inv, SupInv, CallsNamed, OneCaller, Acting, Undisturbed, Names
<1>9. HandlesMatch'
  <2>1. \A j \in Launches : child'[j].term => child[j].term /\ child'[j].name = child[j].name
    BY <1>2, <1>4 DEF Gone, NoChild
  <2> QED
    BY <1>1, <2>1, SupTypes DEF Inv, SupInv, HandlesMatch
<1>10. AllRegistered'
  <2> SUFFICES ASSUME NEW j \in Launches, Alive(j)', Undisturbed(child[j].name)'
               PROVE  Registered(j)'
    BY DEF AllRegistered
  <2>1. /\ Alive(j) /\ child'[j].name = child[j].name /\ child'[j].by = child[j].by
        /\ Undisturbed(child[j].name) /\ Registered(j) /\ child[j].name \in AllNames
    BY <1>1, <1>6 DEF Inv, SupInv, AllRegistered, Undisturbed, ChildrenNamed
  <2>2. CASE j = i
    <3>1. child'[i] # Gone
      BY <2>2 DEF Alive, Gone, NoChild
    <3> QED
      BY <1>1, <1>3, <1>4, <2>1, <2>2, <3>1, SupTypes DEF Registered
  <2>3. CASE j # i
    <3>1. child[j].name # child[i].name
      BY <2>1, <2>3 DEF Inv, SupInv, OneInstance
    <3>2. child'[j] = child[j] /\ pidfile'[child[j].name] = pidfile[child[j].name]
      BY <1>2, <1>3, <1>4, <1>5, <2>1, <2>3, <3>1, SupTypes
    <3> QED
      BY <1>1, <2>1, <3>2 DEF Registered
  <2> QED
    BY <2>2, <2>3
<1>11. OneInstance' /\ StartsFindNone'
  BY <1>1, <1>6 DEF Inv, SupInv, OneInstance, StartsFindNone, Undisturbed
<1>12. StopsWaitForIt'
  BY <1>1, <1>6 DEF Inv, SupInv, StopsWaitForIt, Undisturbed
<1> QED
  BY <1>7, <1>8, <1>9, <1>10, <1>11, <1>12 DEF SupInv

(* Every step of the supervisors' part. *)
LEMMA SupStep ==
    ASSUME Inv, [Next]_vars
    PROVE  SupInv'
<1>1. disturbed \subseteq disturbed' /\ (killed => killed') /\ order' = order
  BY Monotone
<1>2. CASE Boot
  BY <1>1, <1>2, BootSup
<1>3. CASE Kill
  BY <1>1, <1>3, KillSup
<1>4. CASE CallChild /\ op' # op
  <2>1. left \in Seq(AllNames) /\ left # <<>>
    BY <1>4 DEF CallChild, Inv, IInv, ListTypes
  <2>2. Head(left) \in AllNames
    BY <2>1
  <2>3. PICK x \in {"check", "signal"} :
          /\ op' = [op EXCEPT !["ctl"] = [pid |-> 0, name |-> Head(left), pc |-> x]]
          /\ x = "check" => Head(left) \in Names
    BY <1>4 DEF CallChild
  <2>4. UNCHANGED <<child, handle, pidfile>>
    BY <1>4 DEF CallChild, family
  <2> QED
    BY <1>1, <2>2, <2>3, <2>4, SupTypes, CallSup
<1>5. ASSUME NEW t \in Requests, NEW n \in AllNames, NEW x \in {"check", "signal"},
             Request(t, n, x)
      PROVE  SupInv'
  <2>1. /\ op' = [op EXCEPT ![t] = [pid |-> 0, name |-> n, pc |-> x]]
        /\ UNCHANGED <<child, handle, pidfile>> /\ n \notin Protected
    BY <1>5 DEF Request, family
  <2>2. n \in Windowed /\ t \in Threads /\ t # "ctl"
    BY <2>1, WindowAssumption, LifecycleAssumption DEF Threads
  <2> QED
    BY <1>1, <2>1, <2>2, CallSup
<1>6. ASSUME NEW t \in Threads, Supervise(t) PROVE SupInv'
  BY <1>1, <1>6, CheckSup, UnlinkSup, SpawnSup, SignalSup, WaitSup DEF Supervise
<1>7. ASSUME NEW i \in Launches, OpenWindow(i) \/ WritePid(i) \/ Attach(i) \/ EndChild(i)
      PROVE  SupInv'
  <2>1. Alive(i)
    BY <1>7 DEF OpenWindow, WritePid, Attach, EndChild, Alive
  <2> QED
    BY <1>1, <1>7, <2>1, ChildSup
<1>8. CASE UNCHANGED <<child, handle, pidfile, op>>
  BY <1>1, <1>8, QuietSup DEF Inv
<1>9. \/ UNCHANGED <<child, handle, pidfile, op>> \/ (CallChild /\ op' # op) \/ Boot \/ Kill
      \/ \E t \in Requests, n \in AllNames :
           Request(t, n, "check") \/ Request(t, n, "signal")
      \/ \E t \in Threads : Supervise(t)
      \/ \E i \in Launches : OpenWindow(i) \/ WritePid(i) \/ Attach(i) \/ EndChild(i)
  BY DEF Next, vars, family, Controller, Signal, InitShm, CallChild, NextStage, Connect,
     BringupImu, Go, Run, FinishShutdown
<1> QED
  BY <1>2, <1>3, <1>4, <1>5, <1>6, <1>7, <1>8, <1>9

-------------------------------------------------------------------------------
(* The controller's stages *)

(* Shutdown comes to every configured process. *)
LEMMA StopOrderCovers ==
    ASSUME ListTypes, NEW n \in Names
    PROVE  \E k \in DOMAIN StopOrder : StopOrder[k] = n
<1>1. order \in Seq(AllNames) /\ Len(order) \in Nat /\ DOMAIN order = 1..Len(order)
  BY OrderNames
<1>2. PICK k \in 1..Len(order) : order[k] = n
  BY <1>1 DEF Names
<1>3. Len(order) + 1 - k \in 1..Len(order) /\ Len(order) + 1 - (Len(order) + 1 - k) = k
  BY <1>1
<1>4. StopOrder[Len(order) + 1 - k] = n
  BY <1>1, <1>2, <1>3 DEF StopOrder
<1> QED
  BY <1>1, <1>3, <1>4 DEF StopOrder

(* A step that leaves the controller and its call alone and launches no child *)
(* of it.                                                                     *)
LEMMA OthersCtl ==
    ASSUME CtlInv, UNCHANGED <<main, left, seg>>, op'["ctl"] = op["ctl"], killed => killed',
           \A i \in Launches : CtlChild(i)' =>
              /\ CtlChild(i) /\ child'[i].name = child[i].name
              /\ child'[i].st = "live" => child'[i].gen = seg
    PROVE  CtlInv'
<1>1. Stages'
  BY DEF CtlInv, Stages, CtlIdle
<1>2. Stopping'
  BY DEF CtlInv, Stopping, StillToStop, CtlIdle
<1>3. Slots'
  BY DEF CtlInv, Slots
<1> QED
  BY <1>1, <1>2, <1>3 DEF CtlInv

(* A failure of start() or run() sends the controller through all its stops. *)
LEMMA FailCtl ==
    ASSUME Inv, Fail, UNCHANGED seg, op'["ctl"].pc = "idle",
           \A i \in Launches : CtlChild(i)' => CtlChild(i) /\ child'[i] = child[i]
    PROVE  CtlInv'
<1>1. Stages'
  BY DEF Fail, Stages, CtlIdle
<1>2. Stopping'
  <2> SUFFICES ASSUME NEW i \in Launches, CtlChild(i)' PROVE StillToStop(child[i].name)'
    BY DEF Stopping, Fail
  <2>1. child'[i].name \in Names
    BY DEF CtlChild, Inv, SupInv, ChildrenNamed
  <2> QED
    BY <2>1, StopOrderCovers DEF Fail, StillToStop, Inv, IInv
<1>3. Slots'
  BY DEF Inv, CtlInv, Slots, Fail
<1> QED
  BY <1>1, <1>2, <1>3 DEF CtlInv

(* The controller's own steps. *)
LEMMA StagesStep ==
    ASSUME Inv, Boot \/ Signal \/ Kill \/ Controller,
           disturbed \subseteq disturbed', killed => killed'
    PROVE  CtlInv'
<1>1. child' = child
  BY DEF Boot, Signal, Kill, Controller, InitShm, CallChild, NextStage, Connect, BringupImu,
     Go, Run, FinishShutdown, family
<1>2. \A i \in Launches : CtlChild(i)' => CtlChild(i) /\ child'[i] = child[i]
  BY <1>1 DEF CtlChild, Alive, Undisturbed
<1>3. \A i \in Launches : CtlChild(i) /\ child[i].st = "live" => child[i].gen = seg
  BY DEF Inv, CtlInv, Slots
<1>4. CASE Boot
  <2>1. \A i \in Launches : ~CtlChild(i)
    BY <1>4 DEF Boot, Inv, CtlInv, Stopping
  <2> QED
    BY <1>2, <1>4, <2>1 DEF Boot, Inv, CtlInv, Stages, Stopping, Slots, CtlIdle
<1>5. CASE Signal
  BY <1>2, <1>3, <1>5, OthersCtl DEF Signal, Inv
<1>6. CASE Kill
  BY <1>6 DEF Kill, CtlInv, Stages, Stopping, Slots, CtlChild, Undisturbed
<1>7. CASE InitShm
  <2>1. \A i \in Launches : ~CtlChild(i)
    BY <1>7 DEF InitShm, Inv, CtlInv, Stopping
  <2> QED
    BY <1>2, <1>7, <2>1 DEF InitShm, Inv, CtlInv, Stages, Stopping, Slots, CtlIdle
<1>8. CASE CallChild
  <2>1. CASE UNCHANGED op
    BY <1>2, <1>8, <2>1, FailCtl, SupTypes DEF CallChild
  <2>2. CASE op' # op
    <3> DEFINE c == [pid |-> 0, name |-> Head(left),
                     pc |-> IF main = "stopping" THEN "signal" ELSE "check"]
    <3>1. /\ op' = [op EXCEPT !["ctl"] = c] /\ left' = Tail(left) /\ left # <<>>
          /\ UNCHANGED <<main, seg, killed>> /\ main \in {"daemon", "children", "stopping"}
      BY <1>8, <2>2 DEF CallChild, history
    <3>2. op'["ctl"].name = Head(left)
          /\ op'["ctl"].pc = IF main = "stopping" THEN "signal" ELSE "check"
      BY <3>1, SupTypes
    <3>3. Stages' /\ Slots'
      BY <1>2, <3>1, <3>2 DEF Inv, CtlInv, Stages, Slots, CtlIdle
    <3>4. ASSUME NEW k \in DOMAIN left
          PROVE  left[k] = Head(left) \/ \E j \in DOMAIN Tail(left) : Tail(left)[j] = left[k]
      <4>1. left \in Seq(AllNames) /\ left # <<>> /\ k \in 1..Len(left) /\ Len(left) \in Nat
        BY <3>1, <3>4 DEF Inv, IInv, ListTypes
      <4>2. CASE k = 1
        BY <4>1, <4>2
      <4>3. CASE k # 1
        <5>1. k - 1 \in DOMAIN Tail(left) /\ Tail(left)[k - 1] = left[k]
          BY <4>1, <4>3
        <5> QED
          BY <5>1
      <4> QED
        BY <4>2, <4>3
    <3>5. Stopping'
      <4> SUFFICES ASSUME NEW i \in Launches, CtlChild(i)', main = "stopping"
                   PROVE  StillToStop(child[i].name)'
        BY <3>1 DEF Stopping
      <4>1. \E k \in DOMAIN left : left[k] = child[i].name
        BY <1>2, <1>8 DEF Inv, CtlInv, Stopping, StillToStop, CtlIdle, CallChild
      <4> QED
        BY <1>1, <3>1, <3>2, <3>4, <4>1 DEF StillToStop, CtlIdle
    <3> QED
      BY <3>3, <3>5 DEF CtlInv
  <2> QED
    BY <2>1, <2>2
<1>9. CASE NextStage
  BY <1>2, <1>9 DEF NextStage, history, Inv, CtlInv, Stages, Stopping, Slots, CtlIdle
<1>10. CASE Connect \/ BringupImu \/ Run
  <2>1. op' = op /\ (op["ctl"].pc = "idle" \/ killed) /\ seg' = seg
    BY <1>10 DEF Connect, BringupImu, Run, Inv, CtlInv, Stages, CtlIdle
  <2>2. CASE Fail /\ op["ctl"].pc = "idle"
    BY <1>2, <2>1, <2>2, FailCtl
  <2>3. CASE ~Fail
    <3>1. main' \in {"imu", "children"} /\ (op["ctl"].pc = "idle" \/ killed')
      BY <1>10, <2>1, <2>3 DEF Connect, BringupImu, Run, history
    <3> QED
      BY <1>2, <2>1, <3>1 DEF Inv, CtlInv, Stages, Stopping, Slots, CtlIdle
  <2>4. CASE Fail /\ killed
    BY <2>1, <2>4 DEF Fail, CtlInv, Stages, Stopping, Slots, CtlChild, Undisturbed
  <2> QED
    BY <2>1, <2>2, <2>3, <2>4
<1>11. CASE Go
  BY <1>2, <1>11 DEF Go, history, Inv, CtlInv, Stages, Stopping, Slots, CtlIdle
<1>12. CASE FinishShutdown
  <2>1. left = <<>> /\ CtlIdle /\ main = "stopping" /\ op' = op /\ main' = "exited" /\ seg' = 0
    BY <1>12 DEF FinishShutdown, CtlIdle
  <2>2. \A i \in Launches : ~CtlChild(i)
    BY <2>1 DEF Inv, CtlInv, Stopping, StillToStop
  <2> QED
    BY <1>2, <2>1, <2>2 DEF CtlInv, Stages, Stopping, Slots, CtlIdle
<1> QED
  BY <1>4, <1>5, <1>6, <1>7, <1>8, <1>9, <1>10, <1>11, <1>12 DEF Controller

(* The supervisors' calls: one of the controller's own moves its stage on. *)
LEMMA CallsCtl ==
    ASSUME Inv, NEW t \in Threads, Supervise(t), disturbed \subseteq disturbed'
    PROVE  CtlInv'
<1>1. killed' = killed
  BY DEF Supervise, CheckAlive, UnlinkPidfile, Spawn, SignalChild, WaitChild, history
<1>2. \A i \in Launches : CtlChild(i) /\ child[i].st = "live" => child[i].gen = seg
  BY DEF Inv, CtlInv, Slots
<1>3. CASE CheckAlive(t) \/ UnlinkPidfile(t)
  <2>1. UNCHANGED <<child, main, left, seg>>
    BY <1>3 DEF CheckAlive, UnlinkPidfile, family, control
  <2>2. \A i \in Launches : CtlChild(i)' => CtlChild(i) /\ child'[i] = child[i]
    BY <1>1, <2>1 DEF CtlChild, Alive, Undisturbed
  <2>3. CASE t # "ctl"
    <3>1. op'["ctl"] = op["ctl"]
      BY <1>3, <2>3, SupTypes DEF CheckAlive, UnlinkPidfile
    <3> QED
      BY <1>1, <1>2, <2>1, <2>2, <3>1, OthersCtl DEF Inv
  <2>4. CASE t = "ctl"
    <3>1. op["ctl"].pc \in {"check", "unlink"} /\ op'["ctl"].pc \in {"idle", "unlink", "spawn"}
      BY <1>3, <2>4, SupTypes DEF CheckAlive, UnlinkPidfile, NoCall, Call
    <3>2. killed \/ main \in {"daemon", "children"}
      BY <3>1 DEF Inv, CtlInv, Stages, CtlIdle
    <3>3. Stages'
      BY <1>1, <2>1, <3>1, <3>2 DEF Stages, CtlIdle
    <3>4. Stopping' /\ Slots'
      BY <1>1, <2>1, <2>2, <3>2 DEF Inv, CtlInv, Stopping, Slots, CtlChild, Undisturbed
    <3> QED
      BY <3>3, <3>4 DEF CtlInv
  <2> QED
    BY <2>3, <2>4
<1>4. CASE Spawn(t)
  <2>1. op[t].pc = "spawn" /\ op' = [op EXCEPT ![t] = NoCall] /\ seg' = seg
        /\ disturbed' = disturbed
    BY <1>4 DEF Spawn, history
  <2>2. CASE UNCHANGED <<child, handle>>
    <3>1. \A i \in Launches : CtlChild(i)' => CtlChild(i) /\ child'[i] = child[i]
      BY <1>1, <2>2 DEF CtlChild, Alive, Undisturbed
    <3>2. CASE t = "ctl" /\ Fail
      BY <2>1, <3>1, <3>2, FailCtl, SupTypes DEF NoCall
    <3>3. CASE t # "ctl"
      <4>1. UNCHANGED <<main, left>> /\ op'["ctl"] = op["ctl"]
        BY <1>4, <2>1, <3>3, SupTypes DEF Spawn
      <4> QED
        BY <1>1, <1>2, <2>1, <3>1, <4>1, OthersCtl DEF Inv
    <3>4. (t = "ctl" /\ Fail) \/ t # "ctl"
      <4>1. ASSUME NEW i \in Launches, handle' = [handle EXCEPT ![Sup(t)][op[t].name] = i],
                   Free(i)
            PROVE  FALSE
        <5>1. op[t].name \in AllNames /\ Sup(t) \in {"ctl", "dash"}
          BY <2>1, SupTypes DEF Inv, SupInv, CallsNamed
        <5>2. handle'[Sup(t)][op[t].name] = i
          BY <4>1, <5>1, SupTypes
        <5> QED
          BY <2>2, <4>1, <5>1, <5>2 DEF Free
      <4> QED
        BY <1>4, <4>1 DEF Spawn
    <3> QED
      BY <3>2, <3>3, <3>4
  <2>3. ASSUME NEW i \in Launches, UNCHANGED <<main, left>>,
               child' = [child EXCEPT ![i] =
                 [NoChild EXCEPT !.name = op[t].name, !.by = Sup(t), !.term = TRUE,
                    !.st = IF op[t].name \in Windowed THEN "launch" ELSE "up"]]
        PROVE  CtlInv'
    <3>1. /\ child'[i].by = Sup(t) /\ child'[i].st # "live"
          /\ \A j \in Launches \ {i} : child'[j] = child[j]
      BY <2>3, SupTypes DEF NoChild
    <3>2. CASE t # "ctl"
      <4>1. op'["ctl"] = op["ctl"] /\ Sup(t) = "dash"
        BY <2>1, <3>2, SupTypes DEF Sup
      <4>2. \A j \in Launches : CtlChild(j)' =>
              /\ CtlChild(j) /\ child'[j].name = child[j].name
              /\ child'[j].st = "live" => child'[j].gen = seg
        BY <1>1, <1>2, <2>1, <3>1, <4>1 DEF CtlChild, Alive, Undisturbed
      <4> QED
        BY <1>1, <2>1, <2>3, <4>1, <4>2, OthersCtl DEF Inv
    <3>3. CASE t = "ctl"
      <4>1. op'["ctl"].pc = "idle" /\ (killed \/ main \in {"daemon", "children"})
        BY <2>1, <3>3, SupTypes DEF NoCall, Inv, CtlInv, Stages, CtlIdle
      <4>2. Stages'
        BY <1>1, <2>3, <4>1 DEF Stages, CtlIdle
      <4>3. Stopping'
        BY <1>1, <2>3, <4>1 DEF Stopping, CtlChild, Undisturbed
      <4>4. Slots'
        BY <1>1, <1>2, <2>1, <2>3, <3>1 DEF Inv, CtlInv, Slots, CtlChild, Alive, Undisturbed
      <4> QED
        BY <4>2, <4>3, <4>4 DEF CtlInv
    <3> QED
      BY <3>2, <3>3
  <2> QED
    BY <1>4, <2>2, <2>3 DEF Spawn
<1>5. CASE SignalChild(t)
  <2> DEFINE n == op[t].name
  <2>1. UNCHANGED <<main, left, seg, handle, pidfile>> /\ op[t].pc = "signal" /\ n \in AllNames
    BY <1>5 DEF SignalChild, control, Inv, SupInv, CallsNamed
  <2>2. \A i \in Launches : child'[i].st # "ended" =>
          /\ child'[i].st = child[i].st /\ child'[i].name = child[i].name
          /\ child'[i].by = child[i].by /\ child'[i].gen = child[i].gen
    <3> SUFFICES ASSUME NEW i \in Launches, child'[i].st # "ended"
                 PROVE  /\ child'[i].st = child[i].st /\ child'[i].name = child[i].name
                        /\ child'[i].by = child[i].by /\ child'[i].gen = child[i].gen
      OBVIOUS
    <3>1. child[i] \in Child
      BY SupTypes
    <3>2. child'[i] = Gone \/ \E x, y \in BOOLEAN :
            child'[i] = [child[i] EXCEPT !.term = x, !.sig = y]
      BY <1>5, <3>1 DEF SignalChild, Child
    <3>3. Gone.st = "ended"
      BY DEF Gone, NoChild
    <3> QED
      BY <3>1, <3>2, <3>3 DEF Child
  <2>3. \A i \in Launches : CtlChild(i)' =>
          /\ CtlChild(i) /\ child'[i].name = child[i].name
          /\ child'[i].st = "live" => child'[i].gen = seg
    BY <1>1, <1>2, <2>2 DEF CtlChild, Alive, Undisturbed
  <2>4. CASE t # "ctl"
    <3>1. op'["ctl"] = op["ctl"]
      BY <1>5, <2>4, SupTypes DEF SignalChild
    <3> QED
      BY <1>1, <2>1, <2>3, <3>1, OthersCtl DEF Inv
  <2>5. CASE t = "ctl"
    <3>1. killed \/ main = "stopping"
      BY <2>1, <2>5 DEF Inv, CtlInv, Stages, CtlIdle
    <3>2. /\ op'["ctl"].pc \in {"idle", "wait"}
          /\ op'["ctl"].pc = "wait" => op'["ctl"].name = n
          /\ op'["ctl"].pc = "idle" => handle["ctl"][n] = 0 /\ pidfile[n] = 0
      BY <1>5, <2>5, SupTypes DEF SignalChild, NoCall, Call, Sup
    <3>3. Stages' /\ Slots'
      BY <1>1, <2>1, <2>3, <3>1, <3>2 DEF Inv, CtlInv, Stages, Slots, CtlIdle, CtlChild,
         Undisturbed
    <3>4. Stopping'
      <4> SUFFICES ASSUME NEW i \in Launches, CtlChild(i)', main = "stopping"
                   PROVE  StillToStop(child[i].name)'
        BY <1>1, <2>1, <3>1 DEF Stopping, CtlChild, Undisturbed
      <4>1. CtlChild(i) /\ child'[i].name = child[i].name /\ StillToStop(child[i].name)
        BY <2>3 DEF Inv, CtlInv, Stopping
      <4>2. CASE \E k \in DOMAIN left : left[k] = child[i].name
        BY <2>1, <4>1, <4>2 DEF StillToStop
      <4>3. CASE child[i].name = n
        <5>1. Registered(i) /\ child[i].by = "ctl"
          BY <4>1 DEF CtlChild, Inv, SupInv, AllRegistered
        <5>2. handle["ctl"][n] = i \/ pidfile[n] = i
          BY <4>3, <5>1 DEF Registered
        <5>3. op'["ctl"].pc = "wait"
          BY <3>2, <5>2, SupTypes
        <5> QED
          BY <3>2, <4>1, <4>3, <5>3 DEF StillToStop, CtlIdle
      <4> QED
        BY <2>5, <4>1, <4>2, <4>3 DEF StillToStop
    <3> QED
      BY <3>3, <3>4 DEF CtlInv
  <2> QED
    BY <2>4, <2>5
<1>6. CASE WaitChild(t)
  <2> DEFINE n == op[t].name
  <2>1. UNCHANGED <<main, left, seg>> /\ op[t].pc = "wait" /\ op' = [op EXCEPT ![t] = NoCall]
    BY <1>6 DEF WaitChild, control
  <2>2. \A i \in Launches : child'[i] \in {Gone, child[i]}
    BY <1>6 DEF WaitChild
  <2>3. \A i \in Launches : CtlChild(i)' => CtlChild(i) /\ child'[i] = child[i]
    BY <1>1, <2>2 DEF CtlChild, Alive, Undisturbed, Gone, NoChild
  <2>4. CASE t # "ctl"
    <3>1. op'["ctl"] = op["ctl"]
      BY <2>1, <2>4, SupTypes
    <3> QED
      BY <1>1, <1>2, <2>1, <2>3, <3>1, OthersCtl DEF Inv
  <2>5. CASE t = "ctl"
    <3>1. op'["ctl"].pc = "idle" /\ (killed \/ main = "stopping")
      BY <2>1, <2>5, SupTypes DEF NoCall, Inv, CtlInv, Stages, CtlIdle
    <3>2. Stages' /\ Slots'
      BY <1>1, <1>2, <2>1, <2>3, <3>1 DEF Inv, CtlInv, Stages, Slots, CtlIdle, CtlChild,
         Undisturbed
    <3>3. Stopping'
      <4> SUFFICES ASSUME NEW i \in Launches, CtlChild(i)', main = "stopping"
                   PROVE  StillToStop(child[i].name)'
        BY <1>1, <2>1, <3>1 DEF Stopping, CtlChild, Undisturbed
      <4>1. CtlChild(i) /\ child'[i] = child[i] /\ StillToStop(child[i].name)
        BY <2>3 DEF Inv, CtlInv, Stopping
      <4>2. child[i].name # n
        <5>1. Alive(i)' /\ child[i].name \notin disturbed' /\ ~killed'
          BY <4>1 DEF CtlChild, Undisturbed
        <5> QED
          BY <1>6, <5>1, WaitClears
      <4> QED
        BY <2>1, <2>5, <4>1, <4>2 DEF StillToStop
    <3> QED
      BY <3>2, <3>3 DEF CtlInv
  <2> QED
    BY <2>4, <2>5
<1> QED
  BY <1>3, <1>4, <1>5, <1>6 DEF Supervise

(* Every step of the controller's part. *)
LEMMA CtlStep ==
    ASSUME Inv, [Next]_vars
    PROVE  CtlInv'
<1>1. disturbed \subseteq disturbed' /\ (killed => killed')
  BY Monotone
<1>2. CASE Boot \/ Signal \/ Kill \/ Controller
  BY <1>1, <1>2, StagesStep
<1>3. ASSUME NEW t \in Threads, Supervise(t) PROVE CtlInv'
  BY <1>1, <1>3, CallsCtl
<1>4. \A i \in Launches : CtlChild(i) /\ child[i].st = "live" => child[i].gen = seg
  BY DEF Inv, CtlInv, Slots
<1>5. ASSUME NEW t \in Requests, NEW n \in AllNames, NEW x, Request(t, n, x) PROVE CtlInv'
  <2>1. UNCHANGED <<child, main, left, seg>> /\ op'["ctl"] = op["ctl"]
    BY <1>5, LifecycleAssumption, SupTypes DEF Request, control, family
  <2>2. \A i \in Launches : CtlChild(i)' => CtlChild(i) /\ child'[i] = child[i]
    BY <1>1, <2>1 DEF CtlChild, Alive, Undisturbed
  <2> QED
    BY <1>1, <1>4, <2>1, <2>2, OthersCtl DEF Inv
<1>6. ASSUME NEW i \in Launches, OpenWindow(i) \/ WritePid(i) \/ Attach(i) \/ EndChild(i)
      PROVE  CtlInv'
  <2>1. UNCHANGED <<main, left, seg, op>>
    BY <1>6 DEF OpenWindow, WritePid, Attach, EndChild, control
  <2>2. \A j \in Launches \ {i} : child'[j] = child[j]
    BY <1>6, SupTypes DEF OpenWindow, WritePid, Attach, EndChild
  <2>3. /\ child[i].st \notin {"none", "ended"}
        /\ child'[i].st # "ended" =>
             /\ child'[i].name = child[i].name /\ child'[i].by = child[i].by
             /\ child'[i].st = "live" => child'[i].gen = seg
    <3>1. child[i] \in Child
      BY SupTypes
    <3>2. CASE OpenWindow(i)
      BY <3>1, <3>2, SupTypes DEF OpenWindow, Child
    <3>3. CASE WritePid(i)
      BY <3>1, <3>3, SupTypes DEF WritePid, Child
    <3>4. CASE Attach(i)
      BY <3>1, <3>4, SupTypes DEF Attach, Child, Gone, NoChild
    <3>5. CASE EndChild(i)
      BY <3>1, <3>5, SupTypes DEF EndChild, Alive, Gone, NoChild
    <3> QED
      BY <1>6, <3>2, <3>3, <3>4, <3>5
  <2>4. \A j \in Launches : CtlChild(j)' =>
          /\ CtlChild(j) /\ child'[j].name = child[j].name
          /\ child'[j].st = "live" => child'[j].gen = seg
    BY <1>1, <1>4, <2>2, <2>3 DEF CtlChild, Alive, Undisturbed
  <2> QED
    BY <1>1, <2>1, <2>4, OthersCtl DEF Inv
<1>7. CASE UNCHANGED vars
  <2>1. \A i \in Launches : CtlChild(i)' => CtlChild(i) /\ child'[i] = child[i]
    BY <1>7 DEF vars, family, history, CtlChild, Alive, Undisturbed
  <2> QED
    BY <1>1, <1>4, <1>7, <2>1, OthersCtl DEF vars, control, Inv
<1> QED
  BY <1>2, <1>3, <1>5, <1>6, <1>7 DEF Next

(* The invariant of both holds at the start and is kept. *)
LEMMA Supervised == Spec => []Inv
<1>1. Init => SupInv /\ CtlInv
  <2> SUFFICES ASSUME Init PROVE SupInv /\ CtlInv
    OBVIOUS
  <2>1. \A i \in Launches : ~Alive(i)
    BY DEF Init, Alive, NoChild
  <2>2. \A t \in Threads : op[t].pc = "idle"
    BY DEF Init, NoCall
  <2>3. SupInv
    BY <2>1, <2>2 DEF Init, SupInv, HandleTypes, ChildrenNamed, CallsNamed, HandlesMatch,
       AllRegistered, OneInstance, OneCaller, Acting, StartsFindNone, StopsWaitForIt
  <2>4. CtlInv
    <3>1. "ctl" \in Threads
      BY DEF Threads
    <3> QED
      BY <2>1, <2>2, <3>1 DEF Init, CtlInv, Stages, Stopping, Slots, CtlChild, CtlIdle
  <2> QED
    BY <2>3, <2>4
<1>2. IInv /\ (SupInv /\ CtlInv) /\ [Next]_vars => (SupInv /\ CtlInv)'
  BY SupStep, CtlStep DEF Inv
<1>3. IInv /\ (SupInv /\ CtlInv) => Inv
  BY DEF Inv
<1> QED
  BY <1>1, <1>2, <1>3, Inductive, PTL DEF Spec

(* A child of a name whose calls were undisturbed runs once, whoever starts   *)
(* and stops it (start_by_name, stop_by_name over the pid files).             *)
THEOREM ChildrenRunOnce == Spec => []OneInstance
BY Supervised, PTL DEF Inv, SupInv

(* A controller that has ended, at whatever stage it failed, has left neither *)
(* segments nor a child it started (start, run, shutdown).                    *)
THEOREM NothingIsLeft == Spec => []ShutdownLeavesNothing
<1>1. Inv => ShutdownLeavesNothing
  BY DEF Inv, CtlInv, Stopping, Slots, CtlChild, ShutdownLeavesNothing
<1> QED
  BY <1>1, Supervised, PTL

(* A child the controller started uses the segments of this start, not those  *)
(* of an earlier one (create_all, unlink_all).                                *)
THEOREM SlotsAreCurrent == Spec => []ChildUsesCurrentSlots
<1>1. Inv => ChildUsesCurrentSlots
  BY DEF Inv, CtlInv, Slots, CtlChild, Alive, ChildUsesCurrentSlots
<1> QED
  BY <1>1, Supervised, PTL
===============================================================================
