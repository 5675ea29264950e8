----------------------- MODULE ServerLifecycleProofs -----------------------
(***************************************************************************)
(* Proofs about ServerLifecycle, for any servers, names, commands, faults  *)
(* and Docker errors.  The inductive invariant LifeInv follows a command   *)
(* on its way:                                                             *)
(*   - until it is dispatched it has no goroutine, and until its goroutine *)
(*     has created a container there is none of its name: so commands come *)
(*     to a fresh container each;                                          *)
(*   - a report "running", from the goroutine that will make it to the row *)
(*     it ends in, has a container behind it that was once started.        *)
(* The second part is about commands that do not overlap.  There CalmInv   *)
(* follows a server: whoever will write its row next (a handler, a report  *)
(* or nobody) and what its one command has come to.  A step of one server  *)
(* leaves alone what the invariant says of the others (Apart).             *)
(* The last part, RestInv, is about commands in any overlap: while no      *)
(* connection is lost, every command given to the agent is answered.       *)
(***************************************************************************)
EXTENDS ServerLifecycle, TLAPS

BeforeCreate == {"none", "volume", "pull", "clear", "clearstop", "clearremove",
                 "create"}

(* A container the command made was started, or is gone by now.            *)
WasStarted(c) == box[c] \in {"running", "exited", "removed"}

StartedFor(s) == \E c \in Cmds : srv[c] = s /\ WasStarted(c)

(* A command's stages in the master, in the agent and in Docker agree.     *)
Staged ==
    \A c \in Cmds :
        /\ api[c] # "new" => srv[c] \in Servers
        /\ api[c] \in {"new", "send"} => task[c] = "none"
        /\ task[c] \in BeforeCreate => box[c] = "none"
        /\ task[c] = "started" => WasStarted(c)

(* What is on its way to the agent was sent, once, and is not dispatched.  *)
SentOnce ==
    /\ \A i \in 1 .. Len(toAgent) :
        api[toAgent[i]] \in {"mark", "done"} /\ task[toAgent[i]] = "none"
    /\ \A i, j \in 1 .. Len(toAgent) : toAgent[i] = toAgent[j] => i = j

(* What is reported as running was started.                                *)
ReportsTrue ==
    \A i \in 1 .. Len(toMaster) :
        toMaster[i].status = "running" => StartedFor(toMaster[i].srv)

LifeInv ==
    Staged /\ SentOnce /\ ReportsTrue /\ RunningWasStarted
    /\ VolumeUnderContainer

(* No container is made, none that was started is forgotten, and none      *)
(* comes back.                                                             *)
BoxKept ==
    \A d \in Cmds : /\ box[d] = "none" => box'[d] = "none"
                    /\ WasStarted(d) => WasStarted(d)'
                    /\ d \in Present' => d \in Present

-----------------------------------------------------------------------------
(* Helpers: what the operators the actions are built from keep             *)

LEMMA ReportsTyped ==
  ASSUME TypeOK, NEW i \in 1 .. Len(toMaster)
  PROVE  toMaster[i] \in Reports
  BY DEF TypeOK

LEMMA SameBox == box' = box => BoxKept
  BY DEF BoxKept, WasStarted, Present

LEMMA BoxStopped ==
  ASSUME TypeOK, NEW d, StopBox(d) PROVE BoxKept
  BY DEF TypeOK, StopBox, BoxKept, WasStarted, Present

LEMMA BoxRemoved ==
  ASSUME TypeOK, NEW d, NEW force \in BOOLEAN, RemoveBox(d, force) PROVE BoxKept
  BY DEF TypeOK, RemoveBox, BoxKept, WasStarted, Present

(* A goroutine ends with a report.                                         *)
LEMMA ReportTyped ==
  ASSUME TypeOK, Staged, NEW c \in Cmds, task[c] # "none",
         NEW status \in {"running", "stopped", "error", "deleted"},
         Report(c, status),
         UNCHANGED <<target, volumes>>,
         box' \in [Cmds -> {"none", "created", "running", "exited", "removed"}],
         errors' \in 0 .. MaxErrors
  PROVE  TypeOK'
<1> USE DEF TypeOK, Staged, Report
<1>1. srv[c] \in Servers
  OBVIOUS
<1>2. [srv |-> srv[c], status |-> status] \in Reports
  BY <1>1 DEF Reports
<1>3. toMaster' \in Seq(Reports)
  BY <1>2
<1>4. task' \in [Cmds -> Stages]
  BY DEF Stages
<1>5. QED
  BY <1>3, <1>4 DEF apiVars

(* What a dispatched command does next is no matter to those on their way. *)
LEMMA SentKept ==
  ASSUME TypeOK, SentOnce, NEW c \in Cmds, NEW to, task[c] # "none",
         task' = [task EXCEPT ![c] = to], UNCHANGED <<api, toAgent>>
  PROVE  SentOnce'
<1>1. task \in [Cmds -> Stages] /\ toAgent \in Seq(Cmds)
  BY DEF TypeOK
<1>2. \A i \in 1 .. Len(toAgent) : toAgent[i] \in Cmds /\ toAgent[i] # c
  BY <1>1 DEF SentOnce
<1>3. \A i \in 1 .. Len(toAgent) : task'[toAgent[i]] = task[toAgent[i]]
  BY <1>1, <1>2
<1>4. QED
  BY <1>3 DEF SentOnce

(* A goroutine goes on to a stage that is neither before the creation of   *)
(* its container, if it was not so already, nor the end of a start.        *)
LEMMA TaskMoves ==
  ASSUME TypeOK, LifeInv, NEW c \in Cmds, NEW to \in Stages,
         task[c] # "none", to \notin {"none", "started"},
         to \in BeforeCreate => task[c] \in BeforeCreate,
         task' = [task EXCEPT ![c] = to],
         UNCHANGED <<apiVars, toAgent, volumes>>, BoxKept
  PROVE  /\ Staged' /\ SentOnce' /\ RunningWasStarted' /\ VolumeUnderContainer'
         /\ \A s \in Servers : StartedFor(s) => StartedFor(s)'
<1> USE DEF TypeOK, LifeInv, apiVars, BoxKept
<1>1. Staged'
  BY DEF Staged, BeforeCreate, WasStarted
<1>2. SentOnce'
  BY SentKept
<1>3. \A s \in Servers : StartedFor(s) => StartedFor(s)'
  BY DEF StartedFor
<1>4. RunningWasStarted'
  <2>1. RunningWasStarted <=>
            \A s \in Servers : row[s] = "running" => StartedFor(s)
    BY DEF RunningWasStarted, StartedFor, WasStarted
  <2>2. RunningWasStarted' <=>
            \A s \in Servers : row'[s] = "running" => StartedFor(s)'
    BY DEF RunningWasStarted, StartedFor, WasStarted
  <2>3. QED
    BY <1>3, <2>1, <2>2
<1>5. VolumeUnderContainer'
  <2>1. \A d \in Present' : d \in Cmds
    BY DEF Present
  <2>2. QED
    BY <2>1 DEF VolumeUnderContainer, CmdName
<1>6. QED
  BY <1>1, <1>2, <1>3, <1>4, <1>5

LEMMA StepKeeps ==
  ASSUME TypeOK, LifeInv, NEW c \in Cmds,
         NEW from \in Stages \ {"none"},
         NEW to \in Stages \ {"none", "started"},
         to \in BeforeCreate => from \in BeforeCreate,
         Step(c, from, to), BoxKept, volumes' = volumes
  PROVE  LifeInv'
<1>1. /\ Staged' /\ SentOnce' /\ RunningWasStarted' /\ VolumeUnderContainer'
      /\ \A s \in Servers : StartedFor(s) => StartedFor(s)'
  BY TaskMoves DEF Step, linkVars
<1>2. ReportsTrue'
  BY <1>1, ReportsTyped DEF Step, linkVars, LifeInv, ReportsTrue, Reports
<1>3. QED
  BY <1>1, <1>2 DEF LifeInv

LEMMA ReportKeeps ==
  ASSUME TypeOK, LifeInv, NEW c \in Cmds, task[c] # "none",
         NEW status \in {"running", "stopped", "error", "deleted"},
         status = "running" => task[c] = "started",
         Report(c, status), UNCHANGED <<box, volumes>>
  PROVE  LifeInv'
<1>1. BoxKept
  BY SameBox
<1>2. "done" \in Stages /\ "done" \notin BeforeCreate
  BY DEF Stages, BeforeCreate
<1>3. /\ Staged' /\ SentOnce' /\ RunningWasStarted' /\ VolumeUnderContainer'
      /\ \A s \in Servers : StartedFor(s) => StartedFor(s)'
  BY <1>1, <1>2, TaskMoves DEF Report
<1>4. ReportsTrue'
  <2>1. status = "running" => srv[c] \in Servers /\ StartedFor(srv[c])
    BY DEF LifeInv, Staged, StartedFor
  <2>2. srv[c] \in Servers
    BY DEF LifeInv, Staged, TypeOK
  <2>3. CASE toMaster' = toMaster
    BY <1>3, <2>3, ReportsTyped DEF LifeInv, ReportsTrue, Reports
  <2>4. CASE toMaster' = Append(toMaster, [srv |-> srv[c], status |-> status])
    <3>1. toMaster \in Seq(Reports)
      BY DEF TypeOK
    <3>2. ASSUME NEW i \in 1 .. Len(toMaster'), toMaster'[i].status = "running"
          PROVE  \E d \in Cmds : srv'[d] = toMaster'[i].srv /\ WasStarted(d)'
      <4>1. CASE i = Len(toMaster) + 1
        <5>1. toMaster'[i] = [srv |-> srv[c], status |-> status]
          BY <2>4, <3>1, <4>1
        <5>2. \E d \in Cmds : srv'[d] = srv[c] /\ WasStarted(d)'
          BY <1>3, <2>1, <3>2, <5>1 DEF StartedFor
        <5>3. QED
          BY <5>1, <5>2
      <4>2. CASE i # Len(toMaster) + 1
        <5>1. i \in 1 .. Len(toMaster) /\ toMaster'[i] = toMaster[i]
          BY <2>4, <3>1, <4>2
        <5>2. toMaster[i] \in Reports
          BY <5>1, ReportsTyped
        <5>3. QED
          <6>1. toMaster[i].srv \in Servers /\ StartedFor(toMaster[i].srv)
            BY <3>2, <5>1, <5>2 DEF LifeInv, ReportsTrue, Reports
          <6>2. QED
            BY <1>3, <5>1, <6>1 DEF StartedFor
      <4>3. QED
        BY <4>1, <4>2
    <3>3. QED
      BY <3>2 DEF ReportsTrue, StartedFor
  <2>5. QED
    BY <2>3, <2>4 DEF Report
<1>5. QED
  BY <1>3, <1>4 DEF LifeInv

(* A row that is written says what was meant or what it said.              *)
LEMMA RowWritten ==
  ASSUME TypeOK, NEW s \in Servers, NEW status \in Rows, WriteRow(s, status)
  PROVE  /\ row' \in [Servers -> Rows] /\ unwritten' \subseteq Servers
         /\ \A t \in Servers : t # s =>
               row'[t] = row[t] /\ (t \in unwritten' <=> t \in unwritten)
         /\ \/ row'[s] = row[s] /\ s \in unwritten'
            \/ row'[s] = row[s] /\ ~Exists(s)
            \/ row'[s] = status /\ Exists(s)
  BY DEF TypeOK, WriteRow, Exists

-----------------------------------------------------------------------------
(* Every step keeps every variable in its range.                           *)
LEMMA TypeStep == TypeOK /\ Staged /\ [Next]_vars => TypeOK'
<1> SUFFICES ASSUME TypeOK, Staged, [Next]_vars PROVE TypeOK'
  OBVIOUS
<1> USE LifecycleAssumption DEF LifecycleAssumption, TypeOK, Staged, Rows,
        Stages, apiVars, linkVars, docker, CmdName
<1>1. ASSUME NEW s \in Servers, Create(s) PROVE TypeOK'
  BY <1>1 DEF Create
<1>2. ASSUME NEW c \in Cmds, NEW k \in {"start", "stop", "delete"},
             NEW s \in Servers, Issue(c, k, s)
      PROVE  TypeOK'
  BY <1>2 DEF Issue, Exists
<1>3. ASSUME NEW c \in Cmds, Send(c) PROVE TypeOK'
  BY <1>3 DEF Send
<1>4. ASSUME NEW c \in Cmds, Mark(c) PROVE TypeOK'
  <2>1. Announced[kind[c]] \in Rows /\ srv[c] \in Servers
    BY <1>4 DEF Mark, Announced
  <2>2. row' \in [Servers -> Rows] /\ unwritten' \subseteq Servers
    BY <1>4, <2>1, RowWritten DEF Mark
  <2>3. QED
    BY <1>4, <2>2 DEF Mark
<1>5. CASE ReadReport
  <2>1. Head(toMaster) \in Reports /\ Tail(toMaster) \in Seq(Reports)
    BY <1>5 DEF ReadReport
  <2>2. Head(toMaster).srv \in Servers /\ Head(toMaster).status \in Rows
    BY <2>1 DEF Reports
  <2>3. row' \in [Servers -> Rows] /\ unwritten' \subseteq Servers
    BY <1>5, <2>2, RowWritten DEF ReadReport
  <2>4. QED
    BY <1>5, <2>1, <2>2, <2>3 DEF ReadReport, Reports
<1>6. CASE Disconnect
  <2>1. orphaned' \subseteq Cmds /\ faults' \in 0 .. MaxFaults
    BY <1>6 DEF Disconnect
  <2>2. toAgent' \in Seq(Cmds) /\ toMaster' \in Seq(Reports)
    BY <1>6 DEF Disconnect
  <2>3. QED
    BY <1>6, <2>1, <2>2 DEF Disconnect, Reports
<1>7. CASE AgentRestart
  <2>1. task' \in [Cmds -> Stages] /\ faults' \in 0 .. MaxFaults
    BY <1>7 DEF AgentRestart, Stages
  <2>2. toAgent' \in Seq(Cmds) /\ toMaster' \in Seq(Reports)
    BY <1>7 DEF AgentRestart
  <2>3. QED
    BY <1>7, <2>1, <2>2 DEF AgentRestart, Reports, Stages
<1>8. CASE Reconnect
  BY <1>8 DEF Reconnect
<1>9. CASE Dispatch
  BY <1>9 DEF Dispatch
<1>10. ASSUME NEW c \in Cmds, VolumeCreate(c) PROVE TypeOK'
  BY <1>10 DEF VolumeCreate, Step
<1>11. ASSUME NEW c \in Cmds, ImagePull(c) PROVE TypeOK'
  BY <1>11 DEF ImagePull, Step
<1>12. ASSUME NEW c \in Cmds, ClearList(c) PROVE TypeOK'
  <2>1. CASE Step(c, "clear", "create") /\ UNCHANGED target
    BY <1>12, <2>1 DEF ClearList, Step
  <2>2. ASSUME NEW d \in Found(CmdName(c), Present),
               Step(c, "clear", "clearstop"), target' = [target EXCEPT ![c] = d]
        PROVE  TypeOK'
    <3>1. d \in Cmds
      BY DEF Found, Present
    <3>2. QED
      BY <1>12, <2>2, <3>1 DEF ClearList, Step
  <2>3. QED
    BY <1>12, <2>1, <2>2 DEF ClearList
<1>13. ASSUME NEW c \in Cmds, ClearStop(c) PROVE TypeOK'
  BY <1>13 DEF ClearStop, Step, StopBox
<1>14. ASSUME NEW c \in Cmds, ClearRemove(c) PROVE TypeOK'
  BY <1>14 DEF ClearRemove, Step, RemoveBox
<1>15. ASSUME NEW c \in Cmds, ContainerCreate(c) PROVE TypeOK'
  BY <1>15 DEF ContainerCreate, Step
<1>16. ASSUME NEW c \in Cmds, ContainerStart(c) PROVE TypeOK'
  BY <1>16 DEF ContainerStart, Step
<1>17. ASSUME NEW c \in Cmds, StartFails(c) PROVE TypeOK'
  <2>1. UNCHANGED <<target, docker>> /\ task[c] # "none" /\ Report(c, "error")
    BY <1>17 DEF StartFails
  <2>2. QED
    BY <2>1, ReportTyped DEF Report
<1>18. ASSUME NEW c \in Cmds, StartReport(c) PROVE TypeOK'
  <2>1. UNCHANGED <<target, docker>> /\ task[c] # "none" /\ Report(c, "running")
    BY <1>18 DEF StartReport
  <2>2. QED
    BY <2>1, ReportTyped DEF Report
<1>19. ASSUME NEW c \in Cmds, List(c) PROVE TypeOK'
  <2>1. ASSUME NEW d \in Listed(c), Step(c, "list", "stop"),
               target' = [target EXCEPT ![c] = d]
        PROVE  TypeOK'
    <3>1. d \in Cmds
      BY DEF Listed, Found, Up, Present
    <3>2. QED
      BY <1>19, <2>1, <3>1 DEF List, Step
  <2>2. CASE Step(c, "list", "volrm") /\ UNCHANGED target
    BY <1>19, <2>2 DEF List, Step
  <2>3. CASE Report(c, "error") /\ UNCHANGED target
    <3>1. UNCHANGED docker /\ task[c] # "none"
      BY <1>19 DEF List
    <3>2. QED
      BY <2>3, <3>1, ReportTyped DEF Report
  <2>4. QED
    BY <1>19, <2>1, <2>2, <2>3 DEF List
<1>20. ASSUME NEW c \in Cmds, StopContainer(c) PROVE TypeOK'
  <2>1. box' \in [Cmds -> {"none", "created", "running", "exited", "removed"}]
    BY <1>20 DEF StopContainer, StopBox
  <2>2. CASE Step(c, "stop", "remove") \/ Step(c, "stop", "stopped")
    <3>1. UNCHANGED <<apiVars, linkVars, target, volumes, errors>>
      BY <1>20, <2>2 DEF StopContainer, Step
    <3>2. QED
      BY <2>1, <2>2, <3>1 DEF Step
  <2>3. CASE Report(c, "error")
    <3>1. UNCHANGED <<target, volumes, errors>> /\ task[c] # "none"
      BY <1>20 DEF StopContainer
    <3>2. QED
      BY <2>1, <2>3, <3>1, ReportTyped DEF Report
  <2>4. QED
    BY <1>20, <2>2, <2>3 DEF StopContainer
<1>21. ASSUME NEW c \in Cmds, StopReport(c) PROVE TypeOK'
  <2>1. UNCHANGED <<target, docker>> /\ task[c] # "none" /\ Report(c, "stopped")
    BY <1>21 DEF StopReport
  <2>2. QED
    BY <2>1, ReportTyped DEF Report
<1>22. ASSUME NEW c \in Cmds, RemoveContainer(c) PROVE TypeOK'
  BY <1>22 DEF RemoveContainer, Step, RemoveBox
<1>23. ASSUME NEW c \in Cmds, VolumeRemove(c) PROVE TypeOK'
  BY <1>23 DEF VolumeRemove, Step
<1>24. ASSUME NEW c \in Cmds, DeleteReport(c) PROVE TypeOK'
  <2>1. UNCHANGED <<target, docker>> /\ task[c] # "none" /\ Report(c, "deleted")
    BY <1>24 DEF DeleteReport
  <2>2. QED
    BY <2>1, ReportTyped DEF Report
<1>25. ASSUME NEW c \in Cmds, DockerError(c) PROVE TypeOK'
  <2>1. errors' \in 0 .. MaxErrors /\ UNCHANGED <<target, box, volumes>>
    BY <1>25 DEF DockerError
  <2>2. ASSUME NEW from \in Stages, NEW to \in Stages, Step(c, from, to)
        PROVE  TypeOK'
    BY <2>1, <2>2 DEF Step, Stages
  <2>3. CASE task[c] \in {"list", "stop"} /\ Report(c, "error")
    BY <2>1, <2>3, ReportTyped DEF Report
  <2>4. QED
    BY <1>25, <2>2, <2>3 DEF DockerError, Stages
<1>26. CASE UNCHANGED vars
  BY <1>26 DEF vars
<1>27. CASE MasterRestart
  <2>1. /\ api' \in [Cmds -> {"new", "send", "mark", "done", "refused"}]
        /\ orphaned' \subseteq Cmds /\ unwritten' \subseteq Servers
    BY <1>27 DEF MasterRestart
  <2>2. toAgent' \in Seq(Cmds) /\ toMaster' \in Seq(Reports)
    BY <1>27 DEF MasterRestart
  <2>3. faults' \in 0 .. MaxFaults
    BY <1>27 DEF MasterRestart
  <2>4. QED
    BY <1>27, <2>1, <2>2, <2>3 DEF MasterRestart, Reports
<1>28. QED
  BY <1>1, <1>2, <1>3, <1>4, <1>5, <1>6, <1>7, <1>8, <1>9, <1>10, <1>11,
     <1>12, <1>13, <1>14, <1>15, <1>16, <1>17, <1>18, <1>19, <1>20, <1>21,
     <1>22, <1>23, <1>24, <1>25, <1>26, <1>27
  DEF Next, Api, Task, Network

LEMMA ReportsKept ==
  ASSUME TypeOK, ReportsTrue, UNCHANGED toMaster,
         \A s \in Servers : StartedFor(s) => StartedFor(s)'
  PROVE  ReportsTrue'
  BY ReportsTyped DEF ReportsTrue, Reports

(* A goroutine goes on without making or starting a container and without  *)
(* removing a volume, or it ends with a report.                            *)
LEMMA TaskKeeps ==
  ASSUME TypeOK, LifeInv, NEW c \in Cmds
  PROVE  /\ ImagePull(c) \/ ClearList(c) \/ ClearStop(c) \/ ClearRemove(c)
                => LifeInv'
         /\ StartFails(c) \/ StartReport(c) \/ StopReport(c) \/ DeleteReport(c)
                => LifeInv'
         /\ List(c) \/ StopContainer(c) \/ RemoveContainer(c) => LifeInv'
         /\ DockerError(c) => LifeInv'
<1> USE DEF Stages, BeforeCreate
<1>1. CASE ImagePull(c)
  BY <1>1, SameBox, StepKeeps DEF ImagePull, docker
<1>2. CASE ClearList(c)
  <2>1. UNCHANGED <<box, volumes>>
    BY <1>2 DEF ClearList, docker
  <2>2. CASE Step(c, "clear", "create")
    BY <2>1, <2>2, SameBox, StepKeeps
  <2>3. CASE Step(c, "clear", "clearstop")
    BY <2>1, <2>3, SameBox, StepKeeps
  <2>4. QED
    BY <1>2, <2>2, <2>3 DEF ClearList
<1>3. CASE ClearStop(c)
  <2>1. BoxKept /\ volumes' = volumes /\ Step(c, "clearstop", "clearremove")
    BY <1>3, BoxStopped DEF ClearStop
  <2>2. QED
    BY <2>1, StepKeeps
<1>4. CASE ClearRemove(c)
  <2>1. BoxKept /\ volumes' = volumes /\ Step(c, "clearremove", "create")
    BY <1>4, BoxRemoved DEF ClearRemove
  <2>2. QED
    BY <2>1, StepKeeps
<1>5. CASE StartFails(c)
  BY <1>5, ReportKeeps DEF StartFails, docker
<1>6. CASE StartReport(c)
  BY <1>6, ReportKeeps DEF StartReport, docker
<1>7. CASE StopReport(c)
  BY <1>7, ReportKeeps DEF StopReport, docker
<1>8. CASE DeleteReport(c)
  BY <1>8, ReportKeeps DEF DeleteReport, docker
<1>9. CASE List(c)
  <2>1. UNCHANGED <<box, volumes>> /\ task[c] = "list"
    BY <1>9 DEF List, docker
  <2>2. CASE Step(c, "list", "stop")
    BY <2>1, <2>2, SameBox, StepKeeps
  <2>3. CASE Step(c, "list", "volrm")
    BY <2>1, <2>3, SameBox, StepKeeps
  <2>4. CASE Report(c, "error")
    BY <2>1, <2>4, ReportKeeps
  <2>5. QED
    BY <1>9, <2>2, <2>3, <2>4 DEF List
<1>10. CASE StopContainer(c)
  <2>1. BoxKept /\ volumes' = volumes /\ task[c] = "stop"
    BY <1>10, BoxStopped DEF StopContainer
  <2>2. CASE Step(c, "stop", "remove")
    BY <2>1, <2>2, StepKeeps
  <2>3. CASE Step(c, "stop", "stopped")
    BY <2>1, <2>3, StepKeeps
  <2>4. CASE box[target[c]] = "removed" /\ Report(c, "error")
    <3>1. box' = box
      BY <1>10, <2>4 DEF StopContainer, StopBox, TypeOK
    <3>2. QED
      BY <2>1, <2>4, <3>1, ReportKeeps
  <2>5. QED
    BY <1>10, <2>2, <2>3, <2>4 DEF StopContainer
<1>11. CASE RemoveContainer(c)
  <2>1. BoxKept /\ volumes' = volumes /\ Step(c, "remove", "volrm")
    BY <1>11, BoxRemoved DEF RemoveContainer
  <2>2. QED
    BY <2>1, StepKeeps
<1>12. CASE DockerError(c)
  <2>1. UNCHANGED <<box, volumes>>
    BY <1>12 DEF DockerError
  <2>2. ASSUME NEW from \in Stages \ {"none"},
               NEW to \in Stages \ {"none", "started"},
               to \in BeforeCreate => from \in BeforeCreate, Step(c, from, to)
        PROVE  LifeInv'
    BY <2>1, <2>2, SameBox, StepKeeps
  <2>3. CASE task[c] \in {"list", "stop"} /\ Report(c, "error")
    BY <2>1, <2>3, ReportKeeps
  <2>4. QED
    BY <1>12, <2>2, <2>3 DEF DockerError
<1>13. QED
  BY <1>1, <1>2, <1>3, <1>4, <1>5, <1>6, <1>7, <1>8, <1>9, <1>10, <1>11, <1>12

(* A queue without repetitions that is given a new element has none still. *)
LEMMA QueueGrows ==
  ASSUME NEW S, NEW q \in Seq(S), NEW e \in S,
         \A i \in 1 .. Len(q) : q[i] # e,
         \A i, j \in 1 .. Len(q) : q[i] = q[j] => i = j,
         NEW p, p = Append(q, e)
  PROVE  /\ \A i \in 1 .. Len(p) : p[i] = e \/ \E j \in 1 .. Len(q) : p[i] = q[j]
         /\ \A i, j \in 1 .. Len(p) : p[i] = p[j] => i = j
<1>1. /\ Len(q) \in Nat /\ Len(p) = Len(q) + 1 /\ p[Len(q) + 1] = e
      /\ \A i \in 1 .. Len(q) : p[i] = q[i]
  OBVIOUS
<1>2. \A i \in 1 .. Len(p) : i \in 1 .. Len(q) \/ i = Len(q) + 1
  BY <1>1
<1>3. ASSUME NEW i \in 1 .. Len(p), NEW j \in 1 .. Len(p), p[i] = p[j]
      PROVE  i = j
  <2>1. CASE i \in 1 .. Len(q) /\ j \in 1 .. Len(q)
    BY <1>1, <1>3, <2>1
  <2>2. CASE i = Len(q) + 1 /\ j \in 1 .. Len(q)
    BY <1>1, <1>3, <2>2
  <2>3. CASE i \in 1 .. Len(q) /\ j = Len(q) + 1
    BY <1>1, <1>3, <2>3
  <2>4. CASE i = Len(q) + 1 /\ j = Len(q) + 1
    BY <2>4
  <2>5. QED
    BY <1>2, <2>1, <2>2, <2>3, <2>4
<1>4. ASSUME NEW i \in 1 .. Len(p)
      PROVE  p[i] = e \/ \E j \in 1 .. Len(q) : p[i] = q[j]
  BY <1>1, <1>2
<1>5. QED
  BY <1>3, <1>4

(* Every step keeps the inductive invariant.                               *)
LEMMA InvStep == TypeOK /\ LifeInv /\ [Next]_vars => LifeInv'
<1> SUFFICES ASSUME TypeOK, LifeInv, [Next]_vars PROVE LifeInv'
  OBVIOUS
<1> USE LifecycleAssumption DEF LifecycleAssumption, Rows, Stages,
        TypeOK, LifeInv, Staged, SentOnce, ReportsTrue, RunningWasStarted,
        VolumeUnderContainer, StartedFor, WasStarted, BeforeCreate, Present,
        apiVars, linkVars, docker, CmdName
<1>1. ASSUME NEW s \in Servers, Create(s) PROVE LifeInv'
  BY <1>1 DEF Create
<1>2. ASSUME NEW c \in Cmds, NEW k \in {"start", "stop", "delete"},
             NEW s \in Servers, Issue(c, k, s)
      PROVE  LifeInv'
  <2>1. /\ api[c] = "new" /\ api'[c] # "new" /\ srv' = [srv EXCEPT ![c] = s]
        /\ \A d \in Cmds \ {c} : api'[d] = api[d]
        /\ UNCHANGED <<row, task, box, volumes, toAgent, toMaster>>
    BY <1>2 DEF Issue
  <2>2. task[c] = "none" /\ box[c] = "none"
    BY <2>1
  <2>3. Staged'
    BY <2>1, <2>2
  <2>4. SentOnce'
    BY <2>1
  <2>5. \A t \in Servers : StartedFor(t) => StartedFor(t)'
    BY <2>1, <2>2
  <2>6. ReportsTrue'
    BY <2>1, <2>5, ReportsKept
  <2>7. RunningWasStarted'
    <3>1. ASSUME NEW t \in Servers, row'[t] = "running" PROVE StartedFor(t)'
      <4>1. StartedFor(t)
        BY <2>1, <3>1
      <4>2. QED
        BY <4>1, <2>5
    <3>2. QED
      BY <3>1
  <2>8. VolumeUnderContainer'
    <3>1. ASSUME NEW d \in Present' PROVE CmdName(d)' \in volumes'
      <4>1. d \in Present /\ d # c
        BY <2>1, <2>2
      <4>2. srv'[d] = srv[d]
        BY <2>1, <4>1
      <4>3. QED
        BY <2>1, <4>1, <4>2
    <3>2. QED
      BY <3>1
  <2>9. QED
    BY <2>3, <2>4, <2>6, <2>7, <2>8
<1>3. ASSUME NEW c \in Cmds, Send(c) PROVE LifeInv'
  <2>1. /\ api[c] = "send" /\ api'[c] \in {"mark", "refused"}
        /\ \A d \in Cmds \ {c} : api'[d] = api[d]
        /\ UNCHANGED <<row, kind, srv, toMaster, task, box, volumes>>
    BY <1>3 DEF Send
  <2>2. \/ toAgent' = toAgent
        \/ toAgent' = Append(toAgent, c) /\ api'[c] = "mark"
    BY <1>3 DEF Send
  <2>3. Staged'
    BY <2>1
  <2>4. SentOnce'
    <3>1. ASSUME NEW i \in 1 .. Len(toAgent)
          PROVE  /\ toAgent[i] \in Cmds /\ toAgent[i] # c
                 /\ api'[toAgent[i]] \in {"mark", "done"}
                 /\ task'[toAgent[i]] = "none"
      <4>1. toAgent[i] \in Cmds /\ api[toAgent[i]] \in {"mark", "done"}
        OBVIOUS
      <4>2. toAgent[i] # c
        BY <2>1, <4>1
      <4>3. QED
        BY <2>1, <4>1, <4>2
    <3>2. CASE toAgent' = toAgent
      BY <2>1, <3>1, <3>2
    <3>3. CASE toAgent' = Append(toAgent, c) /\ api'[c] = "mark"
      <4>1. task'[c] = "none"
        BY <2>1
      <4>2. \A i, j \in 1 .. Len(toAgent) : toAgent[i] = toAgent[j] => i = j
        OBVIOUS
      <4>3. /\ \A i \in 1 .. Len(toAgent') : toAgent'[i] = c \/
                   \E j \in 1 .. Len(toAgent) : toAgent'[i] = toAgent[j]
            /\ \A i, j \in 1 .. Len(toAgent') :
                   toAgent'[i] = toAgent'[j] => i = j
        BY <3>1, <3>3, <4>2, QueueGrows
      <4>4. ASSUME NEW i \in 1 .. Len(toAgent')
            PROVE  /\ api'[toAgent'[i]] \in {"mark", "done"}
                   /\ task'[toAgent'[i]] = "none"
        <5>1. CASE toAgent'[i] = c
          BY <3>3, <4>1, <5>1
        <5>2. CASE \E j \in 1 .. Len(toAgent) : toAgent'[i] = toAgent[j]
          BY <3>1, <5>2
        <5>3. QED
          BY <4>3, <5>1, <5>2
      <4>5. QED
        BY <4>3, <4>4
    <3>4. QED
      BY <2>2, <3>2, <3>3
  <2>5. ReportsTrue'
    BY <2>1
  <2>6. RunningWasStarted' /\ VolumeUnderContainer'
    BY <2>1
  <2>7. QED
    BY <2>3, <2>4, <2>5, <2>6
<1>4. ASSUME NEW c \in Cmds, Mark(c) PROVE LifeInv'
  <2>1. /\ srv[c] \in Servers /\ Announced[kind[c]] \in Rows
        /\ Announced[kind[c]] # "running" /\ WriteRow(srv[c], Announced[kind[c]])
    BY <1>4 DEF Mark, Announced
  <2>2. \A s \in Servers : row'[s] = "running" => row[s] = "running"
    BY <2>1, RowWritten
  <2>3. RunningWasStarted'
    BY <1>4, <2>2 DEF Mark
  <2>4. Staged' /\ SentOnce' /\ ReportsTrue' /\ VolumeUnderContainer'
    BY <1>4 DEF Mark
  <2>5. QED
    BY <2>3, <2>4
<1>5. CASE ReadReport
  <2>1. /\ Len(toMaster) >= 1 /\ Head(toMaster) = toMaster[1]
        /\ toMaster[1] \in Reports /\ Len(toMaster') = Len(toMaster) - 1
        /\ \A i \in 1 .. Len(toMaster') : toMaster'[i] = toMaster[i + 1]
    BY <1>5 DEF ReadReport
  <2>2. ReportsTrue'
    BY <1>5, <2>1 DEF ReadReport
  <2>3. RunningWasStarted'
    <3>1. /\ Head(toMaster).srv \in Servers /\ Head(toMaster).status \in Rows
          /\ WriteRow(Head(toMaster).srv, Head(toMaster).status)
      BY <1>5, <2>1 DEF ReadReport, Reports
    <3>2. \A s \in Servers :
             \/ row'[s] = row[s]
             \/ s = Head(toMaster).srv /\ row'[s] = Head(toMaster).status
      BY <3>1, RowWritten
    <3>3. Head(toMaster).status = "running" => StartedFor(Head(toMaster).srv)
      <4>1. 1 \in 1 .. Len(toMaster)
        BY <2>1
      <4>2. toMaster[1].status = "running" => StartedFor(toMaster[1].srv)
        BY <4>1
      <4>3. QED
        BY <2>1, <4>2
    <3>4. QED
      BY <1>5, <3>2, <3>3 DEF ReadReport
  <2>4. Staged' /\ SentOnce' /\ VolumeUnderContainer'
    BY <1>5 DEF ReadReport
  <2>5. QED
    BY <2>2, <2>3, <2>4
<1>6. CASE Disconnect
  BY <1>6 DEF Disconnect, Active
<1>7. CASE AgentRestart
  BY <1>7 DEF AgentRestart, Active
<1>8. CASE Reconnect
  BY <1>8 DEF Reconnect
<1>9. CASE Dispatch
  <2>1. /\ Len(toAgent) >= 1 /\ Head(toAgent) = toAgent[1]
        /\ Head(toAgent) \in Cmds /\ Len(toAgent') = Len(toAgent) - 1
        /\ \A i \in 1 .. Len(toAgent') : toAgent'[i] = toAgent[i + 1]
    BY <1>9 DEF Dispatch
  <2>2. \A i \in 1 .. Len(toAgent') :
            i + 1 \in 1 .. Len(toAgent) /\ toAgent'[i] # Head(toAgent)
    <3>1. Len(toAgent) \in Nat
      OBVIOUS
    <3>2. \A i \in 1 .. Len(toAgent') :
             i + 1 \in 1 .. Len(toAgent) /\ i + 1 # 1 /\ 1 \in 1 .. Len(toAgent)
      BY <2>1, <3>1
    <3>3. \A i, j \in 1 .. Len(toAgent) : toAgent[i] = toAgent[j] => i = j
      OBVIOUS
    <3>4. QED
      BY <2>1, <3>2, <3>3
  <2>3. SentOnce'
    <3>1. UNCHANGED api /\ \A d \in Cmds \ {Head(toAgent)} : task'[d] = task[d]
      BY <1>9, <2>1 DEF Dispatch
    <3>2. ASSUME NEW i \in 1 .. Len(toAgent')
          PROVE  /\ api'[toAgent'[i]] \in {"mark", "done"}
                 /\ task'[toAgent'[i]] = "none"
      <4>1. /\ i + 1 \in 1 .. Len(toAgent) /\ toAgent'[i] = toAgent[i + 1]
            /\ toAgent'[i] # Head(toAgent)
        BY <2>1, <2>2, <3>2
      <4>2. /\ toAgent[i + 1] \in Cmds /\ task[toAgent[i + 1]] = "none"
            /\ api[toAgent[i + 1]] \in {"mark", "done"}
        BY <4>1
      <4>3. QED
        BY <3>1, <4>1, <4>2
    <3>3. ASSUME NEW i \in 1 .. Len(toAgent'), NEW j \in 1 .. Len(toAgent'),
                 toAgent'[i] = toAgent'[j]
          PROVE  i = j
      <4>1. /\ i + 1 \in 1 .. Len(toAgent) /\ j + 1 \in 1 .. Len(toAgent)
            /\ toAgent[i + 1] = toAgent[j + 1]
        BY <2>1, <2>2, <3>3
      <4>2. i + 1 = j + 1
        BY <4>1
      <4>3. QED
        BY <4>2
    <3>4. QED
      BY <3>2, <3>3
  <2>4. Staged' /\ RunningWasStarted' /\ VolumeUnderContainer'
    <3>1. /\ Head(toAgent) \in Cmds /\ task[Head(toAgent)] = "none"
          /\ api[Head(toAgent)] \in {"mark", "done"}
      BY <2>1
    <3>2. /\ task' = [task EXCEPT ![Head(toAgent)] =
                          IF kind[Head(toAgent)] = "start" THEN "volume"
                                                          ELSE "list"]
          /\ UNCHANGED <<row, api, kind, srv, box, volumes>>
      BY <1>9 DEF Dispatch
    <3>3. Staged'
      BY <3>1, <3>2
    <3>4. RunningWasStarted'
      BY <3>2
    <3>5. VolumeUnderContainer'
      BY <3>2
    <3>6. QED
      BY <3>3, <3>4, <3>5
  <2>5. ReportsTrue'
    BY <1>9 DEF Dispatch
  <2>6. QED
    BY <2>3, <2>4, <2>5
<1>10. ASSUME NEW c \in Cmds, VolumeCreate(c) PROVE LifeInv'
  BY <1>10 DEF VolumeCreate, Step
<1>11. ASSUME NEW c \in Cmds, ImagePull(c) PROVE LifeInv'
  BY <1>11, TaskKeeps
<1>12. ASSUME NEW c \in Cmds, ClearList(c) PROVE LifeInv'
  BY <1>12, TaskKeeps
<1>13. ASSUME NEW c \in Cmds, ClearStop(c) PROVE LifeInv'
  BY <1>13, TaskKeeps
<1>14. ASSUME NEW c \in Cmds, ClearRemove(c) PROVE LifeInv'
  BY <1>14, TaskKeeps
<1>15. ASSUME NEW c \in Cmds, ContainerCreate(c) PROVE LifeInv'
  <2>1. box[c] = "none" /\ box' = [box EXCEPT ![c] = "created"]
    BY <1>15 DEF ContainerCreate, Step
  <2>2. \A s \in Servers : StartedFor(s) => StartedFor(s)'
    BY <1>15, <2>1 DEF ContainerCreate, Step
  <2>3. ReportsTrue'
    BY <1>15, <2>2, ReportsKept DEF ContainerCreate, Step
  <2>4. RunningWasStarted'
    BY <1>15, <2>1 DEF ContainerCreate, Step
  <2>5. Staged' /\ SentOnce'
    BY <1>15, <2>1 DEF ContainerCreate, Step
  <2>6. VolumeUnderContainer'
    BY <1>15, <2>1 DEF ContainerCreate, Step
  <2>7. QED
    BY <2>3, <2>4, <2>5, <2>6
<1>16. ASSUME NEW c \in Cmds, ContainerStart(c) PROVE LifeInv'
  <2>1. box' = [box EXCEPT ![c] = "running"] /\ box[c] = "created"
    BY <1>16 DEF ContainerStart
  <2>2. \A s \in Servers : StartedFor(s) => StartedFor(s)'
    BY <1>16, <2>1 DEF ContainerStart, Step
  <2>3. ReportsTrue'
    BY <1>16, <2>2, ReportsKept DEF ContainerStart, Step
  <2>4. RunningWasStarted'
    BY <1>16, <2>1 DEF ContainerStart, Step
  <2>5. Staged' /\ SentOnce'
    <3>1. /\ task' = [task EXCEPT ![c] = "started"] /\ task[c] = "start"
          /\ UNCHANGED <<api, srv, toAgent>>
      BY <1>16 DEF ContainerStart, Step
    <3>2. Staged'
      BY <2>1, <3>1
    <3>3. SentOnce'
      BY <3>1
    <3>4. QED
      BY <3>2, <3>3
  <2>6. VolumeUnderContainer'
    BY <1>16, <2>1 DEF ContainerStart, Step
  <2>7. QED
    BY <2>3, <2>4, <2>5, <2>6
<1>17. ASSUME NEW c \in Cmds, StartFails(c) PROVE LifeInv'
  BY <1>17, TaskKeeps
<1>18. ASSUME NEW c \in Cmds, StartReport(c) PROVE LifeInv'
  BY <1>18, TaskKeeps
<1>19. ASSUME NEW c \in Cmds, List(c) PROVE LifeInv'
  BY <1>19, TaskKeeps
<1>20. ASSUME NEW c \in Cmds, StopContainer(c) PROVE LifeInv'
  BY <1>20, TaskKeeps
<1>21. ASSUME NEW c \in Cmds, StopReport(c) PROVE LifeInv'
  BY <1>21, TaskKeeps
<1>22. ASSUME NEW c \in Cmds, RemoveContainer(c) PROVE LifeInv'
  BY <1>22, TaskKeeps
<1>23. ASSUME NEW c \in Cmds, VolumeRemove(c) PROVE LifeInv'
  <2>1. Staged' /\ SentOnce' /\ ReportsTrue' /\ RunningWasStarted'
    BY <1>23 DEF VolumeRemove, Step
  <2>2. VolumeUnderContainer'
    BY <1>23 DEF VolumeRemove, Step
  <2>3. QED
    BY <2>1, <2>2
<1>24. ASSUME NEW c \in Cmds, DeleteReport(c) PROVE LifeInv'
  BY <1>24, TaskKeeps
<1>25. ASSUME NEW c \in Cmds, DockerError(c) PROVE LifeInv'
  BY <1>25, TaskKeeps
<1>26. CASE UNCHANGED vars
  BY <1>26 DEF vars
<1>27. CASE MasterRestart
  BY <1>27 DEF MasterRestart, Active
<1> HIDE LifecycleAssumption DEF LifecycleAssumption, Rows, Stages,
        TypeOK, LifeInv, Staged, SentOnce, ReportsTrue, RunningWasStarted,
        VolumeUnderContainer, StartedFor, WasStarted, BeforeCreate, Present,
        apiVars, linkVars, docker, CmdName
<1>28. QED
  BY <1>1, <1>2, <1>3, <1>4, <1>5, <1>6, <1>7, <1>8, <1>9, <1>10, <1>11,
     <1>12, <1>13, <1>14, <1>15, <1>16, <1>17, <1>18, <1>19, <1>20, <1>21,
     <1>22, <1>23, <1>24, <1>25, <1>26, <1>27
  DEF Next, Api, Task, Network

-----------------------------------------------------------------------------

LEMMA InvInit == Init => TypeOK /\ LifeInv
<1> SUFFICES ASSUME Init PROVE TypeOK /\ LifeInv
  OBVIOUS
<1> USE LifecycleAssumption DEF LifecycleAssumption, Init
<1>1. TypeOK
  <2>1. toAgent \in Seq(Cmds) /\ toMaster \in Seq(Reports)
    OBVIOUS
  <2>2. faults \in 0 .. MaxFaults /\ errors \in 0 .. MaxErrors
    OBVIOUS
  <2>3. row \in [Servers -> Rows] /\ task \in [Cmds -> Stages]
    BY DEF Rows, Stages
  <2>4. QED
    BY <2>1, <2>2, <2>3 DEF TypeOK
<1>2. Staged /\ SentOnce /\ ReportsTrue
  BY DEF Staged, SentOnce, ReportsTrue
<1>3. RunningWasStarted /\ VolumeUnderContainer
  BY DEF RunningWasStarted, VolumeUnderContainer, Present
<1>4. QED
  BY <1>1, <1>2, <1>3 DEF LifeInv

LEMMA Invariance == Spec => [](TypeOK /\ LifeInv)
<1>1. TypeOK /\ LifeInv /\ [Next]_vars => (TypeOK /\ LifeInv)'
  BY TypeStep, InvStep DEF LifeInv
<1>2. QED
  BY InvInit, <1>1, PTL DEF Spec

(* Every variable keeps its range, whatever overlaps, fails or gets lost   *)
(* (api_servers.go, agent.go, docker.go).                                  *)
THEOREM TypeCorrect == Spec => []TypeOK
  BY Invariance, PTL

(* A container that can run has its data volume: a delete never takes the  *)
(* volume from under one, whichever start overlaps it (docker.go).         *)
THEOREM VolumesKept == Spec => []VolumeUnderContainer
<1>1. LifeInv => VolumeUnderContainer
  BY DEF LifeInv
<1>2. QED
  BY Invariance, <1>1, PTL

(* A row says running only if a container was started for that server: no  *)
(* report is made up, misaddressed or doubled into that (websocket.go,     *)
(* agent.go).                                                              *)
THEOREM RunningIsEarned == Spec => []RunningWasStarted
<1>1. LifeInv => RunningWasStarted
  BY DEF LifeInv
<1>2. QED
  BY Invariance, <1>1, PTL

-----------------------------------------------------------------------------
(* Commands that do not overlap.  From here on a server's container is not *)
(* found under the name of another, which nothing in the code ensures      *)
(* (docker.go takes the first match of a substring filter).                *)

OwnNames ==
    \A s, t \in Servers :
        ContainerName[t] \in Matches[ContainerName[s]] => s = t

Queued(c) == \E i \in 1 .. Len(toAgent) : toAgent[i] = c
Busy(c) == Queued(c) \/ Active(c)
Ongoing(c) == api[c] \in {"send", "mark"} \/ Busy(c)

Working(s) == \E c \in Of(s) : Busy(c)
Awaited(s) == \E i \in 1 .. Len(toMaster) : toMaster[i].srv = s
Says(s, status) ==
    \E i \in 1 .. Len(toMaster) :
        toMaster[i].srv = s /\ toMaster[i].status = status

OneReport(s) ==
    \A i, j \in 1 .. Len(toMaster) :
        toMaster[i].srv = s /\ toMaster[j].srv = s => i = j

(* A container of the server runs, or exists.                              *)
On(s) == \E d \in Of(s) : box[d] = "running"
Has(s, d) == d \in Of(s) /\ box[d] \in {"created", "running", "exited"}
Clean(s) == (\A d \in Cmds : ~Has(s, d)) /\ ContainerName[s] \notin volumes

(* What holds whatever overlaps: the stages of a command are those of its  *)
(* kind, it aims at a container of its own server, which has one at most.  *)
Ways(c) ==
    /\ task[c] \in {"volume", "pull", "clear", "clearstop", "clearremove",
                    "create", "start", "started"} => kind[c] = "start"
    /\ task[c] = "list" => kind[c] # "start"
    /\ task[c] = "stop" => kind[c] # "start"
    /\ task[c] = "stopped" => kind[c] = "stop"
    /\ task[c] \in {"remove", "volrm", "deleted"} => kind[c] = "delete"
    /\ task[c] \in {"clearstop", "clearremove", "stop", "remove"} =>
          target[c] \in Of(srv[c])
    /\ api[c] = "new" => srv[c] = NoServer

Sorted ==
    /\ \A c \in Cmds : Ways(c)
    /\ \A s \in Servers, d, e \in Cmds : Has(s, d) /\ Has(s, e) => d = e
    /\ \A s \in Servers : row[s] = "absent" => Of(s) = {} /\ ~Awaited(s)
    /\ faults = 0 => link /\ orphaned = {}

(* A goroutine is right about the container it has dealt with.             *)
Fits(c) ==
    /\ task[c] = "started" => box[c] = "running"
    /\ task[c] = "stop" /\ kind[c] = "stop" => box[target[c]] = "running"
    /\ task[c] = "stopped" => ~On(srv[c])

(* One command of a server is under way at most; its row is decided by the *)
(* handler's write or by the report that comes after it, unless the last   *)
(* of them never came about.                                               *)
Calm(s) ==
    /\ \A c, d \in Of(s) : Ongoing(c) /\ Ongoing(d) => c = d
    /\ Awaited(s) => ~Working(s) /\ \A c \in Of(s) : api[c] # "send"
    /\ OneReport(s)
    /\ \/ Marking(s) \/ s \in unwritten
       \/ IF Working(s) \/ Awaited(s) THEN row[s] \notin {"running", "stopped"}
          ELSE /\ row[s] = "running" => On(s)
               /\ row[s] = "stopped" => ~On(s)
    /\ Says(s, "running") => On(s)
    /\ Says(s, "stopped") => ~On(s)
    /\ \A c \in Of(s) : Fits(c)

(* A delete on its way has left nothing behind where it has been.          *)
Clears(c) ==
    kind[c] = "delete" =>
        /\ task[c] \in {"stop", "remove"} =>
              \A d \in Cmds : Has(srv[c], d) => d = target[c]
        /\ task[c] \in {"volrm", "deleted"} => \A d \in Cmds : ~Has(srv[c], d)
        /\ task[c] = "deleted" => ContainerName[srv[c]] \notin volumes

Gone(s) ==
    /\ row[s] = "gone" =>
        /\ \A c \in Of(s) : Ongoing(c) => kind[c] = "delete" /\ api[c] # "send"
        /\ Clean(s) \/ Working(s)
    /\ \A c \in Of(s) :
        /\ Clears(c)
        /\ kind[c] = "delete" /\ api[c] = "mark" /\ ~Busy(c) => Clean(s)

(* The inductive invariant of RowIsTrue and NoOrphan.                      *)
CalmInv ==
    /\ Sorted
    /\ ~overlapped => \A s \in Servers : Calm(s)
    /\ ~overlapped /\ faults = 0 /\ errors = 0 => \A s \in Servers : Gone(s)

-----------------------------------------------------------------------------
(* Queues and reports                                                      *)

LEMMA SeqEnds ==
  ASSUME NEW S, NEW q \in Seq(S)
  PROVE  /\ q # <<>> => /\ Head(q) = q[1] /\ 1 \in 1 .. Len(q)
                        /\ Len(Tail(q)) = Len(q) - 1
                        /\ \A i \in 1 .. Len(Tail(q)) :
                              i + 1 \in 1 .. Len(q) /\ Tail(q)[i] = q[i + 1]
         /\ \A e \in S : /\ Len(Append(q, e)) = Len(q) + 1
                         /\ Append(q, e)[Len(q) + 1] = e
                         /\ \A i \in 1 .. Len(q) : Append(q, e)[i] = q[i]
  OBVIOUS

LEMMA ReportsGrow ==
  ASSUME TypeOK, NEW t \in Servers,
         NEW status \in {"running", "stopped", "error", "deleted"},
         toMaster' = Append(toMaster, [srv |-> t, status |-> status]),
         NEW s
  PROVE  /\ Awaited(s)' <=> Awaited(s) \/ s = t
         /\ \A x : Says(s, x)' <=> Says(s, x) \/ (s = t /\ x = status)
         /\ s # t => (OneReport(s) => OneReport(s)')
         /\ ~Awaited(s) => OneReport(s)'
<1> DEFINE e == [srv |-> t, status |-> status]
           n == Len(toMaster)
<1>1. e \in Reports /\ toMaster \in Seq(Reports) /\ n \in Nat
  BY DEF Reports, TypeOK
<1>2. /\ Len(toMaster') = n + 1 /\ toMaster'[n + 1] = e
      /\ \A i \in 1 .. n : toMaster'[i] = toMaster[i]
  BY <1>1, SeqEnds
<1>3. e.srv = t /\ e.status = status
  OBVIOUS
<1> HIDE DEF e, n
<1>4. \A i \in 1 .. n + 1 : i \in 1 .. n \/ i = n + 1
  BY <1>1
<1>5. \A i \in 1 .. n : i \in 1 .. n + 1
  BY <1>1
<1>6. n + 1 \in 1 .. n + 1
  BY <1>1
<1>7. Awaited(s)' <=> Awaited(s) \/ s = t
  BY <1>2, <1>3, <1>4, <1>5, <1>6 DEF Awaited, n
<1>8. \A x : Says(s, x)' <=> Says(s, x) \/ (s = t /\ x = status)
  BY <1>2, <1>3, <1>4, <1>5, <1>6 DEF Says, n
<1>9. s # t => (OneReport(s) => OneReport(s)')
  BY <1>2, <1>3, <1>4 DEF OneReport, n
<1>10. ~Awaited(s) => OneReport(s)'
  BY <1>2, <1>4 DEF OneReport, Awaited, n
<1>11. QED
  BY <1>7, <1>8, <1>9, <1>10

LEMMA ReportsShrink ==
  ASSUME TypeOK, toMaster # <<>>, toMaster' = Tail(toMaster), NEW s
  PROVE  /\ Awaited(s)' => Awaited(s)
         /\ \A x : Says(s, x)' => Says(s, x)
         /\ OneReport(s) => OneReport(s)'
         /\ Head(toMaster).srv = s => (OneReport(s) => ~Awaited(s)')
         /\ Head(toMaster).srv # s => (Awaited(s) => Awaited(s)')
         /\ Awaited(Head(toMaster).srv)
         /\ Says(Head(toMaster).srv, Head(toMaster).status)
<1> DEFINE n == Len(toMaster)
           m == Len(toMaster')
<1>1. /\ Head(toMaster) = toMaster[1] /\ 1 \in 1 .. n /\ m = n - 1 /\ n \in Nat
      /\ \A i \in 1 .. m : i + 1 \in 1 .. n /\ toMaster'[i] = toMaster[i + 1]
  BY SeqEnds DEF TypeOK
<1> HIDE DEF n, m
<1>2. \A i \in 1 .. n :
         i = 1 \/ (i - 1 \in 1 .. m /\ toMaster'[i - 1] = toMaster[i])
  <2>1. \A i \in 1 .. n : i = 1 \/ (i - 1 \in 1 .. m /\ (i - 1) + 1 = i)
    BY <1>1
  <2>2. QED
    BY <1>1, <2>1
<1>3. \A i \in 1 .. m : i + 1 # 1
  BY <1>1
<1>4. \A i, j \in 1 .. m : i + 1 = j + 1 => i = j
  BY <1>1
<1>5. Awaited(s)' => Awaited(s)
  BY <1>1 DEF Awaited, n, m
<1>6. \A x : Says(s, x)' => Says(s, x)
  BY <1>1 DEF Says, n, m
<1>7. OneReport(s) => OneReport(s)'
  BY <1>1, <1>4 DEF OneReport, n, m
<1>8. Head(toMaster).srv = s => (OneReport(s) => ~Awaited(s)')
  BY <1>1, <1>3 DEF OneReport, Awaited, n, m
<1>9. Head(toMaster).srv # s => (Awaited(s) => Awaited(s)')
  BY <1>1, <1>2 DEF Awaited, n, m
<1>10. /\ Awaited(Head(toMaster).srv)
       /\ Says(Head(toMaster).srv, Head(toMaster).status)
  BY <1>1 DEF Awaited, Says, n
<1>11. QED
  BY <1>5, <1>6, <1>7, <1>8, <1>9, <1>10

-----------------------------------------------------------------------------
(* Containers and names                                                    *)

(* A container is of a command that was given.                             *)
LEMMA BoxKnown ==
  ASSUME TypeOK, LifeInv, NEW d \in Cmds, box[d] # "none"
  PROVE  srv[d] \in Servers
<1>1. task[d] \notin BeforeCreate
  BY DEF LifeInv, Staged
<1>2. api[d] # "new"
  BY <1>1 DEF LifeInv, Staged, BeforeCreate
<1>3. QED
  BY <1>2 DEF LifeInv, Staged

LEMMA ActiveKnown ==
  ASSUME LifeInv, NEW c \in Cmds, task[c] # "none"
  PROVE  srv[c] \in Servers /\ api[c] \notin {"new", "send"}
  BY DEF LifeInv, Staged

(* A container of the same name, or found under it, is of the same server. *)
LEMMA SameName ==
  ASSUME TypeOK, LifeInv, OwnNames, NEW c \in Cmds, srv[c] \in Servers,
         NEW d \in Cmds, box[d] # "none"
  PROVE  /\ CmdName(d) \in Matches[CmdName(c)] => d \in Of(srv[c])
         /\ CmdName(d) = ContainerName[srv[c]] <=> d \in Of(srv[c])
<1>1. srv[d] \in Servers
  BY BoxKnown
<1>2. ContainerName[srv[c]] \in Matches[ContainerName[srv[c]]]
  BY LifecycleAssumption DEF LifecycleAssumption
<1>3. QED
  BY <1>1, <1>2 DEF OwnNames, CmdName, Of

LEMMA FoundOwn ==
  ASSUME TypeOK, LifeInv, OwnNames, NEW c \in Cmds, srv[c] \in Servers
  PROVE  /\ \A d \in Found(CmdName(c), Present) : Has(srv[c], d)
         /\ \A d \in Found(CmdName(c), Up) : Has(srv[c], d) /\ box[d] = "running"
         /\ \A d \in Cmds : Has(srv[c], d) => d \in Found(CmdName(c), Present)
<1>1. \A d \in Cmds : box[d] # "none" =>
         /\ CmdName(d) \in Matches[CmdName(c)] => d \in Of(srv[c])
         /\ CmdName(d) = ContainerName[srv[c]] <=> d \in Of(srv[c])
  BY SameName
<1>2. CmdName(c) \in Matches[CmdName(c)]
  BY LifecycleAssumption DEF LifecycleAssumption, CmdName
<1>3. \A d \in Found(CmdName(c), Present) : Has(srv[c], d)
  BY <1>1 DEF Found, Present, Has
<1>4. \A d \in Found(CmdName(c), Up) : Has(srv[c], d) /\ box[d] = "running"
  BY <1>1 DEF Found, Up, Has
<1>5. \A d \in Cmds : Has(srv[c], d) => d \in Found(CmdName(c), Present)
  BY <1>1, <1>2 DEF Found, Present, Has, CmdName
<1>6. QED
  BY <1>3, <1>4, <1>5

-----------------------------------------------------------------------------
(* Servers do not disturb each other                                       *)

(* A step leaves alone what the invariant says of a server.                *)
Apart(s) ==
    /\ row'[s] = row[s] /\ Of(s)' = Of(s)
    /\ s \in unwritten' <=> s \in unwritten
    /\ \A c \in Of(s) :
        /\ api'[c] = api[c] /\ kind'[c] = kind[c] /\ task'[c] = task[c]
        /\ target'[c] = target[c] /\ box'[c] = box[c]
        /\ Queued(c)' <=> Queued(c)
    /\ Awaited(s)' <=> Awaited(s)
    /\ \A x : Says(s, x)' <=> Says(s, x)
    /\ OneReport(s) => OneReport(s)'
    /\ ContainerName[s] \in volumes' <=> ContainerName[s] \in volumes

LEMMA ApartKeeps ==
  ASSUME Sorted, NEW s \in Servers, Apart(s)
  PROVE  (Calm(s) => Calm(s)') /\ (Gone(s) => Gone(s)')
<1>1. /\ row'[s] = row[s] /\ Of(s)' = Of(s)
      /\ s \in unwritten' <=> s \in unwritten
      /\ \A c \in Of(s) :
            /\ api'[c] = api[c] /\ kind'[c] = kind[c] /\ task'[c] = task[c]
            /\ target'[c] = target[c] /\ box'[c] = box[c]
            /\ Queued(c)' <=> Queued(c)
      /\ Awaited(s)' <=> Awaited(s)
      /\ \A x : Says(s, x)' <=> Says(s, x)
      /\ OneReport(s) => OneReport(s)'
      /\ ContainerName[s] \in volumes' <=> ContainerName[s] \in volumes
  BY DEF Apart
<1>2. \A c \in Of(s) : c \in Cmds /\ srv[c] = s /\ srv'[c] = s
  BY <1>1 DEF Of
<1>3. \A c \in Of(s) : (Busy(c)' <=> Busy(c)) /\ (Ongoing(c)' <=> Ongoing(c))
  BY <1>1 DEF Busy, Ongoing, Active
<1>4. (Marking(s)' <=> Marking(s)) /\ (Working(s)' <=> Working(s))
  BY <1>1, <1>3 DEF Marking, Working
<1>5. On(s)' <=> On(s)
  BY <1>1 DEF On
<1>6. \A d : Has(s, d)' <=> Has(s, d)
  BY <1>1 DEF Has
<1>7. Clean(s)' <=> Clean(s)
  BY <1>1, <1>6 DEF Clean
<1>8. ASSUME NEW c \in Of(s), Fits(c) PROVE Fits(c)'
  <2>1. task[c] = "stop" => target[c] \in Of(s)
    BY <1>2 DEF Sorted, Ways
  <2>2. QED
    BY <1>1, <1>2, <1>5, <1>8, <2>1 DEF Fits
<1>9. ASSUME NEW c \in Of(s), Clears(c) PROVE Clears(c)'
  BY <1>1, <1>2, <1>6, <1>9 DEF Clears
<1>10. Calm(s) => Calm(s)'
  BY <1>1, <1>3, <1>4, <1>5, <1>8 DEF Calm
<1>11. Gone(s) => Gone(s)'
  BY <1>1, <1>3, <1>4, <1>7, <1>9 DEF Gone
<1>12. QED
  BY <1>10, <1>11

(* What a goroutine's step may touch: its own target, the containers and   *)
(* the volume of its server.                                               *)
Own(c) ==
    /\ \A d \in Cmds \ {c} : target'[d] = target[d]
    /\ \A d \in Cmds \ Of(srv[c]) : box'[d] = box[d]
    /\ \A n : n # CmdName(c) => (n \in volumes' <=> n \in volumes)
    /\ errors' = 0 => errors = 0

LEMMA OthersApart ==
  ASSUME TypeOK, LifeInv, OwnNames, NEW c \in Cmds, srv[c] \in Servers,
         NEW to, task' = [task EXCEPT ![c] = to],
         UNCHANGED <<apiVars, toAgent>>, Own(c),
         \/ toMaster' = toMaster
         \/ \E status \in {"running", "stopped", "error", "deleted"} :
              toMaster' = Append(toMaster, [srv |-> srv[c], status |-> status]),
         NEW s \in Servers, s # srv[c]
  PROVE  Apart(s)
<1>1. Of(s)' = Of(s) /\ row'[s] = row[s] /\ (s \in unwritten' <=> s \in unwritten)
  BY DEF Of, apiVars
<1>2. ASSUME NEW d \in Of(s)
      PROVE  /\ api'[d] = api[d] /\ kind'[d] = kind[d] /\ task'[d] = task[d]
             /\ target'[d] = target[d] /\ box'[d] = box[d]
             /\ Queued(d)' <=> Queued(d)
  <2>1. d \in Cmds /\ d # c /\ d \notin Of(srv[c])
    BY DEF Of
  <2>2. task'[d] = task[d]
    BY <2>1 DEF TypeOK
  <2>3. target'[d] = target[d] /\ box'[d] = box[d]
    BY <2>1 DEF Own
  <2>4. QED
    BY <2>2, <2>3 DEF apiVars, Queued
<1>3. /\ Awaited(s)' <=> Awaited(s)
      /\ \A x : Says(s, x)' <=> Says(s, x)
      /\ OneReport(s) => OneReport(s)'
  <2>1. CASE toMaster' = toMaster
    BY <2>1 DEF Awaited, Says, OneReport
  <2>2. ASSUME NEW status \in {"running", "stopped", "error", "deleted"},
               toMaster' = Append(toMaster, [srv |-> srv[c], status |-> status])
        PROVE  /\ Awaited(s)' <=> Awaited(s)
               /\ \A x : Says(s, x)' <=> Says(s, x)
               /\ OneReport(s) => OneReport(s)'
    BY <2>2, ReportsGrow
  <2>3. QED
    BY <2>1, <2>2
<1>4. ContainerName[s] # CmdName(c)
  BY LifecycleAssumption DEF LifecycleAssumption, OwnNames, CmdName
<1>5. ContainerName[s] \in volumes' <=> ContainerName[s] \in volumes
  BY <1>4 DEF Own
<1>6. QED
  BY <1>1, <1>2, <1>3, <1>5 DEF Apart

-----------------------------------------------------------------------------
(* A goroutine's step                                                      *)

LEMMA SortedTask ==
  ASSUME TypeOK, Sorted, NEW c \in Cmds, srv[c] \in Servers,
         NEW to, task' = [task EXCEPT ![c] = to],
         UNCHANGED <<apiVars, link, orphaned, faults>>, Own(c), Ways(c)',
         \A s \in Servers, d, e \in Cmds :
            s = srv[c] /\ Has(s, d)' /\ Has(s, e)' => d = e,
         \A s : Awaited(s)' => Awaited(s) \/ s = srv[c]
  PROVE  Sorted'
<1>1. \A s : Of(s)' = Of(s)
  BY DEF Of, apiVars
<1>2. ASSUME NEW d \in Cmds PROVE Ways(d)'
  <2>1. CASE d = c
    BY <2>1
  <2>2. CASE d # c
    <3>1. task'[d] = task[d] /\ target'[d] = target[d]
      BY <2>2 DEF TypeOK, Own
    <3>2. kind'[d] = kind[d] /\ srv'[d] = srv[d] /\ api'[d] = api[d]
      BY DEF apiVars
    <3>3. Ways(d)
      BY DEF Sorted
    <3>4. QED
      BY <1>1, <3>1, <3>2, <3>3 DEF Ways
  <2>3. QED
    BY <2>1, <2>2
<1>3. ASSUME NEW s \in Servers, NEW d \in Cmds, NEW e \in Cmds,
             Has(s, d)', Has(s, e)'
      PROVE  d = e
  <2>1. CASE s = srv[c]
    BY <1>3, <2>1
  <2>2. CASE s # srv[c]
    <3>1. Has(s, d) /\ Has(s, e)
      BY <1>1, <1>3, <2>2 DEF Has, Of, Own, apiVars
    <3>2. QED
      BY <3>1 DEF Sorted
  <2>3. QED
    BY <2>1, <2>2
<1>4. ASSUME NEW s \in Servers, row'[s] = "absent"
      PROVE  Of(s)' = {} /\ ~Awaited(s)'
  <2>1. Of(s) = {} /\ ~Awaited(s)
    BY <1>4 DEF Sorted, apiVars
  <2>2. s # srv[c]
    BY <2>1 DEF Of
  <2>3. QED
    BY <1>1, <2>1, <2>2
<1>5. faults' = 0 => link' /\ orphaned' = {}
  BY DEF Sorted
<1>6. QED
  BY <1>2, <1>3, <1>4, <1>5 DEF Sorted

(* The command stays the one under way: what has to be shown is that its   *)
(* goroutine is still right about its container.                           *)
LEMMA GoesOn ==
  ASSUME TypeOK, LifeInv, CalmInv, OwnNames, NEW c \in Cmds,
         NEW from, NEW to \in Stages,
         {from, to} \cap {"none", "done", "dead"} = {},
         Step(c, from, to), Own(c), Ways(c)',
         \A s \in Servers, d, e \in Cmds :
            s = srv[c] /\ Has(s, d)' /\ Has(s, e)' => d = e,
         ~overlapped /\ Fits(c) => Fits(c)',
         errors' = 0 /\ Clears(c) => Clears(c)'
  PROVE  CalmInv'
<1>1. /\ Active(c) /\ Active(c)' /\ task' = [task EXCEPT ![c] = to]
      /\ UNCHANGED <<row, api, kind, srv, overlapped, unwritten, overtaken>>
      /\ UNCHANGED <<link, toAgent, toMaster, orphaned, faults>>
  BY DEF Step, Active, TypeOK, apiVars, linkVars
<1>2. srv[c] \in Servers /\ api[c] \notin {"new", "send"}
  BY <1>1, ActiveKnown DEF Active
<1>3. Sorted'
  <2>1. \A s : Awaited(s)' <=> Awaited(s)
    BY <1>1 DEF Awaited
  <2>2. QED
    BY <1>1, <1>2, <2>1, SortedTask DEF CalmInv, apiVars
<1>4. \A s : Of(s)' = Of(s)
  BY <1>1 DEF Of
<1>5. \A d \in Cmds \ {c} : task'[d] = task[d]
  BY <1>1 DEF TypeOK
<1>6. ASSUME NEW d \in Cmds
      PROVE  (Busy(d)' <=> Busy(d)) /\ (Ongoing(d)' <=> Ongoing(d))
  <2>1. Queued(d)' <=> Queued(d)
    BY <1>1 DEF Queued
  <2>2. Active(d)' <=> Active(d)
    BY <1>1, <1>5 DEF Active
  <2>3. QED
    BY <1>1, <2>1, <2>2 DEF Busy, Ongoing
<1>7. c \in Of(srv[c]) /\ Busy(c) /\ Ongoing(c)
  BY <1>1 DEF Of, Busy, Ongoing
<1>8. ASSUME NEW s \in Servers, s # srv[c]
      PROVE  (Calm(s) => Calm(s)') /\ (Gone(s) => Gone(s)')
  BY <1>1, <1>2, <1>8, OthersApart, ApartKeeps DEF CalmInv, apiVars
<1>9. ASSUME NEW s \in Servers, s = srv[c], Calm(s)
      PROVE  /\ Working(s) /\ ~Awaited(s)
             /\ \A d \in Of(s) : d # c => ~Ongoing(d) /\ ~Active(d)
  <2>1. Working(s)
    BY <1>7, <1>9 DEF Working
  <2>2. ~Awaited(s)
    BY <1>9, <2>1 DEF Calm
  <2>3. \A d \in Of(s) : Ongoing(d) => d = c
    BY <1>7, <1>9 DEF Calm
  <2>4. QED
    BY <2>1, <2>2, <2>3 DEF Ongoing, Busy
<1>10. ASSUME NEW s \in Servers, s = srv[c], ~overlapped, Calm(s)
       PROVE Calm(s)'
  <2>1. srv'[c] = s /\ srv[c] = s
    BY <1>1, <1>10
  <2>2. /\ Working(s) /\ ~Awaited(s) /\ Calm(s)
        /\ \A d \in Of(s) : d # c => ~Ongoing(d) /\ ~Active(d)
    BY <1>9, <1>10, <2>1
  <2>3. \A d \in Of(s) : d \in Cmds
    BY DEF Of
  <2>4. ~Awaited(s)' /\ (\A x : ~Says(s, x)') /\ OneReport(s)'
    BY <1>1, <2>2 DEF Awaited, Says, OneReport
  <2>5. Working(s)' /\ (Marking(s)' <=> Marking(s))
    BY <1>1, <1>4, <1>6, <2>2, <2>3 DEF Working, Marking
  <2>6. \A d, e \in Of(s)' : Ongoing(d)' /\ Ongoing(e)' => d = e
    BY <1>4, <1>6, <2>2, <2>3
  <2>7. \A d \in Of(s)' : Fits(d)'
    <3>1. Fits(c)'
      BY <1>7, <1>10 DEF Calm
    <3>2. ASSUME NEW d \in Of(s), d # c PROVE Fits(d)'
      BY <1>5, <2>2, <2>3, <3>2 DEF Fits, Active
    <3>3. QED
      BY <1>4, <3>1, <3>2
  <2>8. Marking(s) \/ s \in unwritten \/ row[s] \notin {"running", "stopped"}
    BY <2>2 DEF Calm
  <2>9. QED
    BY <1>1, <2>4, <2>5, <2>6, <2>7, <2>8 DEF Calm
<1>11. ASSUME NEW s \in Servers, s = srv[c], errors' = 0, Calm(s), Gone(s)
       PROVE  Gone(s)'
  <2>1. srv'[c] = s /\ srv[c] = s
    BY <1>1, <1>11
  <2>2. /\ Working(s) /\ Gone(s)
        /\ \A d \in Of(s) : d # c => ~Ongoing(d) /\ ~Active(d)
    BY <1>9, <1>11, <2>1
  <2>3. \A d \in Of(s) : d \in Cmds
    BY DEF Of
  <2>4. Working(s)'
    BY <1>4, <1>6, <2>2, <2>3 DEF Working
  <2>5. \A d \in Of(s)' : Clears(d)'
    <3>1. Clears(c)'
      BY <1>7, <1>11, <2>1 DEF Gone
    <3>2. ASSUME NEW d \in Of(s), d # c PROVE Clears(d)'
      BY <1>5, <2>2, <2>3, <3>2 DEF Clears, Active
    <3>3. QED
      BY <1>4, <3>1, <3>2
  <2>6. ASSUME NEW d \in Of(s), api'[d] = "mark" PROVE Busy(d)'
    BY <1>1, <1>6, <1>7, <2>2, <2>3, <2>6 DEF Ongoing
  <2>7. QED
    BY <1>1, <1>4, <1>6, <2>2, <2>3, <2>4, <2>5, <2>6 DEF Gone
<1>12. errors' = 0 => errors = 0
  BY DEF Own
<1>13. \A s \in Servers : ~overlapped /\ Calm(s) => Calm(s)'
  BY <1>8, <1>10
<1>14. \A s \in Servers : errors' = 0 /\ Calm(s) /\ Gone(s) => Gone(s)'
  BY <1>8, <1>11
<1>15. QED
  BY <1>1, <1>3, <1>12, <1>13, <1>14 DEF CalmInv

(* The command is over, and the report, if it gets through, is right.      *)
LEMMA ComesToEnd ==
  ASSUME TypeOK, LifeInv, CalmInv, OwnNames, NEW c \in Cmds, Active(c),
         NEW status \in {"running", "stopped", "error", "deleted"},
         Report(c, status), UNCHANGED <<target, box, volumes>>,
         errors' = 0 => errors = 0,
         ~overlapped /\ Fits(c) =>
            /\ status = "running" => On(srv[c])
            /\ status = "stopped" => ~On(srv[c]),
         errors' = 0 /\ Clears(c) /\ kind[c] = "delete" => Clean(srv[c])
  PROVE  CalmInv'
<1>1. /\ ~Active(c)' /\ task' = [task EXCEPT ![c] = "done"]
      /\ UNCHANGED <<row, api, kind, srv, overlapped, unwritten, overtaken>>
      /\ UNCHANGED <<link, toAgent, orphaned, faults>>
  BY DEF Report, Active, TypeOK, apiVars
<1>2. srv[c] \in Servers /\ api[c] \notin {"new", "send"}
  BY ActiveKnown DEF Active
<1>3. \/ toMaster' = toMaster
      \/ toMaster' = Append(toMaster, [srv |-> srv[c], status |-> status])
  BY DEF Report
<1>4. ASSUME NEW s
      PROVE  /\ Awaited(s)' => Awaited(s) \/ s = srv[c]
             /\ \A x : Says(s, x)' => Says(s, x) \/ (s = srv[c] /\ x = status)
             /\ ~Awaited(s) => OneReport(s)'
  <2>1. CASE toMaster' = toMaster
    BY <2>1 DEF Awaited, Says, OneReport
  <2>2. CASE toMaster' = Append(toMaster, [srv |-> srv[c], status |-> status])
    BY <1>2, <2>2, ReportsGrow
  <2>3. QED
    BY <1>3, <2>1, <2>2
<1>5. Own(c)
  BY DEF Own
<1>6. \A s : (Of(s)' = Of(s)) /\ (On(s)' <=> On(s))
  BY <1>1 DEF Of, On
<1>7. \A s, d : Has(s, d)' <=> Has(s, d)
  BY <1>6 DEF Has
<1>8. Sorted'
  <2>1. Ways(c)'
    <3>1. task'[c] = "done" /\ api'[c] # "new"
      BY <1>1, <1>2 DEF TypeOK
    <3>2. QED
      BY <3>1 DEF Ways
  <2>2. \A s \in Servers, d, e \in Cmds : Has(s, d)' /\ Has(s, e)' => d = e
    BY <1>7 DEF CalmInv, Sorted
  <2>3. \A s : Awaited(s)' => Awaited(s) \/ s = srv[c]
    BY <1>4
  <2>4. QED
    BY <1>1, <1>2, <1>5, <2>1, <2>2, <2>3, SortedTask DEF CalmInv, apiVars
<1>9. ASSUME NEW d \in Cmds
      PROVE  (Busy(d)' => Busy(d)) /\ (Ongoing(d)' => Ongoing(d))
  <2>1. Queued(d)' <=> Queued(d)
    BY <1>1 DEF Queued
  <2>2. Active(d)' => Active(d)
    BY <1>1 DEF Active, TypeOK
  <2>3. QED
    BY <1>1, <2>1, <2>2 DEF Busy, Ongoing
<1>10. c \in Of(srv[c]) /\ Busy(c) /\ Ongoing(c)
  BY DEF Of, Busy, Ongoing
<1>11. ASSUME NEW s \in Servers, s # srv[c]
       PROVE  (Calm(s) => Calm(s)') /\ (Gone(s) => Gone(s)')
  <2>1. \/ toMaster' = toMaster
        \/ \E x \in {"running", "stopped", "error", "deleted"} :
             toMaster' = Append(toMaster, [srv |-> srv[c], status |-> x])
    BY <1>3
  <2>2. QED
    BY <1>1, <1>2, <1>5, <1>11, <2>1, OthersApart, ApartKeeps
      DEF CalmInv, apiVars
<1>12. ~Queued(c)
  BY DEF Active, Queued, LifeInv, SentOnce
<1>13. ~Busy(c)'
  BY <1>1, <1>12 DEF Busy, Queued
<1>14. ASSUME NEW s \in Servers, s = srv[c], Calm(s)
       PROVE  /\ ~Awaited(s)
              /\ Marking(s) \/ s \in unwritten
                    \/ row[s] \notin {"running", "stopped"}
              /\ \A d \in Of(s) : d # c => ~Ongoing(d)
              /\ \A d \in Of(s) : ~Busy(d)' /\ ~Active(d)'
  <2>1. Working(s) /\ ~Awaited(s)
    BY <1>10, <1>14 DEF Working, Calm
  <2>2. Marking(s) \/ s \in unwritten \/ row[s] \notin {"running", "stopped"}
    BY <1>14, <2>1 DEF Calm
  <2>3. \A d \in Of(s) : d \in Cmds /\ (d # c => ~Ongoing(d))
    BY <1>10, <1>14 DEF Calm, Of
  <2>4. \A d \in Of(s) : ~Busy(d)'
    BY <1>9, <1>13, <2>3 DEF Ongoing
  <2>5. QED
    BY <2>1, <2>2, <2>3, <2>4 DEF Busy
<1>15. ASSUME NEW s \in Servers, s = srv[c], ~overlapped, Calm(s)
       PROVE Calm(s)'
  <2>1. /\ ~Awaited(s) /\ Calm(s)
        /\ Marking(s) \/ s \in unwritten \/ row[s] \notin {"running", "stopped"}
        /\ \A d \in Of(s) : d \in Cmds /\ (d # c => ~Ongoing(d))
        /\ \A d \in Of(s) : ~Busy(d)' /\ ~Active(d)'
    BY <1>14, <1>15 DEF Of
  <2>2. OneReport(s)' /\ \A x : Says(s, x)' => x = status
    <3>1. \A x : ~Says(s, x)
      BY <2>1 DEF Awaited, Says
    <3>2. QED
      BY <1>4, <2>1, <3>1
  <2>3. (Marking(s)' <=> Marking(s)) /\ ~Working(s)'
    BY <1>1, <1>6, <2>1 DEF Marking, Working
  <2>4. \A d, e \in Of(s)' : Ongoing(d)' /\ Ongoing(e)' => d = e
    BY <1>6, <1>9, <2>1
  <2>5. \A d \in Of(s)' : Fits(d)'
    BY <1>6, <2>1 DEF Fits, Active
  <2>6. \A d \in Of(s)' : api'[d] # "send"
    BY <1>1, <1>2, <1>6, <2>1 DEF Ongoing
  <2>7. (Says(s, "running")' => On(s)') /\ (Says(s, "stopped")' => ~On(s)')
    <3>1. Fits(c)
      BY <1>10, <1>15 DEF Calm
    <3>2. QED
      BY <1>6, <1>15, <2>2, <3>1
  <2>8. QED
    BY <1>1, <2>1, <2>2, <2>3, <2>4, <2>5, <2>6, <2>7 DEF Calm
<1>16. ASSUME NEW s \in Servers, s = srv[c], errors' = 0, Calm(s), Gone(s)
       PROVE  Gone(s)'
  <2>1. /\ Gone(s)
        /\ \A d \in Of(s) : d \in Cmds /\ (d # c => ~Ongoing(d))
        /\ \A d \in Of(s) : ~Busy(d)' /\ ~Active(d)'
    BY <1>14, <1>16 DEF Of
  <2>2. kind[c] = "delete" => Clean(s)
    BY <1>10, <1>16 DEF Gone
  <2>3. Clean(s)' <=> Clean(s)
    BY <1>7 DEF Clean
  <2>4. \A d \in Of(s)' : Clears(d)'
    BY <1>6, <2>1 DEF Clears, Active
  <2>5. row'[s] = "gone" => Clean(s)'
    BY <1>1, <1>10, <1>16, <2>1, <2>2, <2>3 DEF Gone
  <2>6. ASSUME NEW d \in Of(s), kind[d] = "delete", api[d] = "mark" PROVE Clean(s)'
    <3>1. d = c
      BY <2>1, <2>6 DEF Ongoing
    <3>2. QED
      BY <2>2, <2>3, <2>6, <3>1
  <2>7. QED
    BY <1>1, <1>6, <1>9, <2>1, <2>4, <2>5, <2>6 DEF Gone
<1>17. \A s \in Servers : ~overlapped /\ Calm(s) => Calm(s)'
  BY <1>11, <1>15
<1>18. \A s \in Servers : errors' = 0 /\ Calm(s) /\ Gone(s) => Gone(s)'
  BY <1>11, <1>16
<1>19. QED
  BY <1>1, <1>8, <1>17, <1>18 DEF CalmInv

LEMMA NoNewBox ==
  ASSUME Sorted, srv' = srv, BoxKept
  PROVE  /\ \A s, d : Has(s, d)' => Has(s, d)
         /\ \A s \in Servers, d, e \in Cmds : Has(s, d)' /\ Has(s, e)' => d = e
<1>1. \A s, d : Has(s, d)' => Has(s, d)
  BY DEF Has, Of, BoxKept, Present
<1>2. QED
  BY <1>1 DEF Sorted

(* Docker is asked about the goroutine's own container only.               *)
LEMMA OwnBox ==
  ASSUME TypeOK, NEW c \in Cmds, target[c] \in Of(srv[c]),
         UNCHANGED <<target, volumes, errors>>,
         StopBox(target[c]) \/ \E force \in BOOLEAN : RemoveBox(target[c], force)
  PROVE  Own(c) /\ BoxKept
<1>1. BoxKept
  BY BoxStopped, BoxRemoved
<1>2. \A d \in Cmds \ Of(srv[c]) : box'[d] = box[d]
  BY DEF TypeOK, StopBox, RemoveBox, Of
<1>3. QED
  BY <1>1, <1>2 DEF Own

LEMMA StartCalm ==
  ASSUME TypeOK, LifeInv, CalmInv, OwnNames, NEW c \in Cmds,
         \/ VolumeCreate(c) \/ ImagePull(c) \/ ClearList(c) \/ ClearStop(c)
         \/ ClearRemove(c) \/ ContainerCreate(c) \/ ContainerStart(c)
         \/ StartFails(c) \/ StartReport(c)
  PROVE  CalmInv'
<1> USE DEF Stages
<1>1. task[c] \in {"volume", "pull", "clear", "clearstop", "clearremove",
                   "create", "start", "started"}
  BY DEF VolumeCreate, ImagePull, ClearList, ClearStop, ClearRemove,
         ContainerCreate, ContainerStart, StartFails, StartReport, Step
<1>2. /\ Active(c) /\ kind[c] = "start" /\ srv[c] \in Servers
      /\ api[c] \notin {"new", "send"} /\ c \in Of(srv[c])
  BY <1>1, ActiveKnown DEF Active, CalmInv, Sorted, Ways, Of
<1>3. \A s, d : d \in Of(s) <=> d \in Cmds /\ srv[d] = s
  BY DEF Of
<1>4. ASSUME NEW from, NEW to \in {"pull", "clear", "clearstop", "clearremove",
                                   "create", "start", "started"},
             Step(c, from, to), Own(c),
             \A s \in Servers, d, e \in Cmds :
                s = srv[c] /\ Has(s, d)' /\ Has(s, e)' => d = e,
             to \in {"clearstop", "clearremove"} => target'[c] \in Of(srv[c]),
             to = "started" => box'[c] = "running"
      PROVE  CalmInv'
  <2>1. /\ task'[c] = to /\ kind'[c] = "start" /\ srv'[c] = srv[c] /\ srv' = srv
        /\ api'[c] # "new" /\ from = task[c]
    BY <1>2, <1>4 DEF Step, TypeOK, apiVars
  <2>2. Ways(c)'
    BY <1>3, <1>4, <2>1 DEF Ways, Of
  <2>3. Fits(c)' /\ Clears(c)'
    BY <1>4, <2>1 DEF Fits, Clears
  <2>4. {from, to} \cap {"none", "done", "dead"} = {}
    BY <1>1, <1>4, <2>1
  <2>5. to \in Stages
    BY <1>4
  <2>6. QED
    BY <1>4, <2>2, <2>3, <2>4, <2>5, GoesOn
<1>5. ASSUME BoxKept, UNCHANGED srv
      PROVE  \A s \in Servers, d, e \in Cmds :
                s = srv[c] /\ Has(s, d)' /\ Has(s, e)' => d = e
  BY <1>5, NoNewBox DEF CalmInv
<1>6. CASE VolumeCreate(c)
  <2>1. Own(c) /\ BoxKept /\ srv' = srv /\ Step(c, "volume", "pull")
    BY <1>6, SameBox DEF VolumeCreate, Own, Step, apiVars
  <2>2. QED
    BY <1>4, <1>5, <2>1
<1>7. CASE ImagePull(c)
  <2>1. Own(c) /\ BoxKept /\ srv' = srv /\ Step(c, "pull", "clear")
    BY <1>7, SameBox DEF ImagePull, Own, Step, apiVars, docker
  <2>2. QED
    BY <1>4, <1>5, <2>1
<1>8. CASE ClearList(c)
  <2>1. BoxKept /\ UNCHANGED <<box, volumes, errors>>
    BY <1>8, SameBox DEF ClearList, docker
  <2>2. CASE Step(c, "clear", "create") /\ target' = target
    <3>1. Own(c) /\ srv' = srv
      BY <2>1, <2>2 DEF Own, Step, apiVars
    <3>2. QED
      BY <1>4, <1>5, <2>1, <2>2, <3>1
  <2>3. ASSUME NEW d \in Found(CmdName(c), Present),
               Step(c, "clear", "clearstop"), target' = [target EXCEPT ![c] = d]
        PROVE  CalmInv'
    <3>1. d \in Of(srv[c])
      BY <1>2, FoundOwn DEF Has
    <3>2. Own(c) /\ srv' = srv /\ target'[c] = d
      BY <2>1, <2>3 DEF Own, Step, apiVars, TypeOK
    <3>3. QED
      BY <1>4, <1>5, <2>1, <2>3, <3>1, <3>2
  <2>4. QED
    BY <1>8, <2>2, <2>3 DEF ClearList
<1>9. CASE ClearStop(c)
  <2>1. target[c] \in Of(srv[c]) /\ Step(c, "clearstop", "clearremove")
    BY <1>9 DEF ClearStop, Step, CalmInv, Sorted, Ways
  <2>2. Own(c) /\ BoxKept /\ srv' = srv /\ target' = target
    BY <1>9, <2>1, OwnBox DEF ClearStop, Step, apiVars
  <2>3. QED
    BY <1>4, <1>5, <2>1, <2>2
<1>10. CASE ClearRemove(c)
  <2>1. target[c] \in Of(srv[c]) /\ Step(c, "clearremove", "create")
    BY <1>10 DEF ClearRemove, Step, CalmInv, Sorted, Ways
  <2>2. Own(c) /\ BoxKept /\ srv' = srv
    BY <1>10, <2>1, OwnBox DEF ClearRemove, Step, apiVars
  <2>3. QED
    BY <1>4, <1>5, <2>1, <2>2
<1>11. CASE ContainerCreate(c)
  <2>1. /\ Step(c, "create", "start") /\ srv' = srv /\ target' = target
        /\ box' = [box EXCEPT ![c] = "created"]
    BY <1>11 DEF ContainerCreate, Step, apiVars
  <2>2. Own(c)
    BY <1>2, <1>11 DEF ContainerCreate, Own, TypeOK
  <2>3. ASSUME NEW s \in Servers, s = srv[c], NEW d \in Cmds, Has(s, d)'
        PROVE  d = c
    <3>1. SUFFICES ASSUME d # c PROVE FALSE
      OBVIOUS
    <3>2. box'[d] = box[d]
      BY <2>1, <3>1 DEF TypeOK
    <3>3. d \in Present /\ srv[d] = srv[c]
      BY <2>1, <2>3, <3>2 DEF Has, Of, Present
    <3>4. QED
      BY <1>11, <3>3 DEF ContainerCreate, CmdName
  <2>4. QED
    BY <1>4, <2>1, <2>2, <2>3
<1>12. CASE ContainerStart(c)
  <2>1. /\ Step(c, "start", "started") /\ srv' = srv /\ target' = target
        /\ box[c] = "created" /\ box' = [box EXCEPT ![c] = "running"]
    BY <1>12 DEF ContainerStart, Step, apiVars
  <2>2. Own(c) /\ box'[c] = "running"
    BY <1>2, <1>12 DEF ContainerStart, Own, TypeOK
  <2>3. BoxKept
    BY <2>1 DEF BoxKept, TypeOK, WasStarted, Present
  <2>4. QED
    BY <1>4, <1>5, <2>1, <2>2, <2>3
<1>13. CASE StartFails(c)
  <2>1. Report(c, "error") /\ UNCHANGED <<target, box, volumes, errors>>
    BY <1>13 DEF StartFails, docker
  <2>2. QED
    BY <1>2, <2>1, ComesToEnd
<1>14. CASE StartReport(c)
  <2>1. /\ Report(c, "running") /\ UNCHANGED <<target, box, volumes, errors>>
        /\ task[c] = "started"
    BY <1>14 DEF StartReport, docker
  <2>2. Fits(c) => On(srv[c])
    BY <1>2, <2>1 DEF Fits, On
  <2>3. QED
    BY <1>2, <2>1, <2>2, ComesToEnd
<1>15. QED
  BY <1>6, <1>7, <1>8, <1>9, <1>10, <1>11, <1>12, <1>13, <1>14

LEMMA StopCalm ==
  ASSUME TypeOK, LifeInv, CalmInv, OwnNames, NEW c \in Cmds,
         \/ List(c) \/ StopContainer(c) \/ StopReport(c)
         \/ RemoveContainer(c) \/ VolumeRemove(c) \/ DeleteReport(c)
  PROVE  CalmInv'
<1> USE DEF Stages
<1>1. task[c] \in {"list", "stop", "stopped", "remove", "volrm", "deleted"}
  BY DEF List, StopContainer, StopReport, RemoveContainer, VolumeRemove,
         DeleteReport, Step
<1>2. /\ Active(c) /\ kind[c] \in {"stop", "delete"} /\ srv[c] \in Servers
      /\ api[c] \notin {"new", "send"} /\ c \in Of(srv[c])
  BY <1>1, ActiveKnown DEF Active, CalmInv, Sorted, Ways, Of, TypeOK
<1>3. \A s, d : d \in Of(s) <=> d \in Cmds /\ srv[d] = s
  BY DEF Of
<1>4. ASSUME NEW from, NEW to \in {"stop", "stopped", "remove", "volrm", "deleted"},
             Step(c, from, to), Own(c), BoxKept,
             to \in {"stop", "remove"} => target'[c] \in Of(srv[c]),
             to = "stopped" => kind[c] = "stop",
             to \in {"remove", "volrm", "deleted"} => kind[c] = "delete",
             ~overlapped /\ Fits(c) => Fits(c)',
             errors' = 0 /\ Clears(c) => Clears(c)'
      PROVE  CalmInv'
  <2>1. /\ task'[c] = to /\ kind'[c] = kind[c] /\ srv' = srv
        /\ api'[c] # "new" /\ from = task[c]
    BY <1>2, <1>4 DEF Step, TypeOK, apiVars
  <2>2. Ways(c)'
    BY <1>2, <1>3, <1>4, <2>1 DEF Ways, Of
  <2>3. \A s \in Servers, d, e \in Cmds :
           s = srv[c] /\ Has(s, d)' /\ Has(s, e)' => d = e
    BY <1>4, <2>1, NoNewBox DEF CalmInv
  <2>4. {from, to} \cap {"none", "done", "dead"} = {} /\ to \in Stages
    BY <1>1, <1>4, <2>1
  <2>5. QED
    BY <1>4, <2>2, <2>3, <2>4, GoesOn
<1>5. \A d : Has(srv[c], d) => d \in Of(srv[c]) /\ d \in Cmds
  BY DEF Has, Of
<1>6. task[c] \in {"stop", "remove"} => target[c] \in Of(srv[c])
  BY <1>2 DEF CalmInv, Sorted, Ways
<1>7. CASE List(c)
  <2>1. BoxKept /\ UNCHANGED <<box, volumes, errors>> /\ task[c] = "list"
    BY <1>7, SameBox DEF List, docker
  <2>2. ASSUME NEW d \in Listed(c), Step(c, "list", "stop"),
               target' = [target EXCEPT ![c] = d]
        PROVE  CalmInv'
    <3>1. Has(srv[c], d) /\ (kind[c] = "stop" => box[d] = "running")
      BY <1>2, <2>2, FoundOwn DEF Listed
    <3>2. /\ Own(c) /\ target'[c] = d /\ task'[c] = "stop"
          /\ srv' = srv /\ kind' = kind
      BY <2>1, <2>2 DEF Own, Step, apiVars, TypeOK
    <3>3. Fits(c)'
      BY <2>1, <3>1, <3>2 DEF Fits
    <3>4. \A e \in Cmds : Has(srv[c], e) => e = d
      BY <1>2, <1>5, <3>1 DEF CalmInv, Sorted
    <3>5. \A e : Has(srv[c], e)' => Has(srv[c], e)
      BY <2>1, <3>2 DEF Has, Of
    <3>6. Clears(c)'
      BY <3>2, <3>4, <3>5 DEF Clears
    <3>7. QED
      BY <1>4, <1>5, <2>1, <2>2, <3>1, <3>2, <3>3, <3>6
  <2>3. CASE Listed(c) = {} /\ kind[c] = "delete" /\ Step(c, "list", "volrm")
             /\ target' = target
    <3>1. \A e \in Cmds : ~Has(srv[c], e)
      BY <1>2, <2>3, FoundOwn DEF Listed
    <3>2. Own(c) /\ task'[c] = "volrm" /\ srv' = srv
      BY <2>1, <2>3 DEF Own, Step, apiVars, TypeOK
    <3>3. \A e : Has(srv[c], e)' => Has(srv[c], e)
      BY <2>1, <3>2 DEF Has, Of
    <3>4. Fits(c)' /\ Clears(c)'
      BY <3>1, <3>2, <3>3 DEF Fits, Clears
    <3>5. QED
      BY <1>4, <2>1, <2>3, <3>2, <3>4
  <2>4. CASE kind[c] = "stop" /\ Report(c, "error") /\ target' = target
    BY <1>2, <2>1, <2>4, ComesToEnd
  <2>5. QED
    BY <1>7, <2>2, <2>3, <2>4 DEF List
<1>8. CASE StopContainer(c)
  <2>1. /\ Own(c) /\ BoxKept /\ target' = target /\ task[c] = "stop"
        /\ UNCHANGED <<volumes, errors>> /\ StopBox(target[c])
        /\ target[c] \in Of(srv[c])
    BY <1>6, <1>8, OwnBox DEF StopContainer
  <2>2. CASE kind[c] = "delete" /\ Step(c, "stop", "remove")
    <3>1. task'[c] = "remove" /\ srv' = srv /\ kind' = kind
      BY <2>2 DEF Step, apiVars, TypeOK
    <3>2. \A e : Has(srv[c], e)' => Has(srv[c], e)
      BY <2>1, <3>1, NoNewBox DEF CalmInv, Has, Of, BoxKept, Present
    <3>3. Fits(c)' /\ (Clears(c) => Clears(c)')
      BY <2>1, <2>2, <3>1, <3>2 DEF Fits, Clears
    <3>4. QED
      BY <1>4, <2>1, <2>2, <3>1, <3>3
  <2>3. CASE kind[c] = "stop" /\ Step(c, "stop", "stopped")
    <3>1. task'[c] = "stopped" /\ srv' = srv /\ kind' = kind
      BY <2>3 DEF Step, apiVars, TypeOK
    <3>2. ASSUME Fits(c), NEW d \in Of(srv[c]), box'[d] = "running" PROVE FALSE
      <4>1. box[target[c]] = "running" /\ target[c] \in Cmds /\ d \in Cmds
        BY <2>1, <2>3, <3>2 DEF Fits, Of
      <4>2. box'[target[c]] = "exited"
        BY <2>1, <4>1 DEF StopBox, TypeOK
      <4>3. d # target[c] /\ box[d] = "running"
        BY <2>1, <3>2, <4>1, <4>2 DEF StopBox, TypeOK
      <4>4. Has(srv[c], d) /\ Has(srv[c], target[c])
        BY <2>1, <4>1, <4>3 DEF Has, Of
      <4>5. QED
        BY <1>2, <4>1, <4>3, <4>4 DEF CalmInv, Sorted
    <3>3. Fits(c) => Fits(c)'
      BY <3>1, <3>2 DEF Fits, On, Of
    <3>4. Clears(c)'
      BY <2>3, <3>1 DEF Clears
    <3>5. QED
      BY <1>4, <2>1, <2>3, <3>3, <3>4
  <2>4. CASE /\ kind[c] = "stop" /\ box[target[c]] = "removed"
             /\ Report(c, "error")
    <3>1. box' = box
      BY <2>1, <2>4 DEF StopBox, TypeOK
    <3>2. QED
      BY <1>2, <2>1, <2>4, <3>1, ComesToEnd
  <2>5. QED
    BY <1>8, <2>2, <2>3, <2>4 DEF StopContainer
<1>9. CASE StopReport(c)
  <2>1. /\ Report(c, "stopped") /\ UNCHANGED <<target, box, volumes, errors>>
        /\ task[c] = "stopped" /\ kind[c] = "stop"
    BY <1>9 DEF StopReport, docker, CalmInv, Sorted, Ways
  <2>2. Fits(c) => ~On(srv[c])
    BY <2>1 DEF Fits
  <2>3. QED
    BY <1>2, <2>1, <2>2, ComesToEnd
<1>10. CASE RemoveContainer(c)
  <2>1. /\ task[c] = "remove" /\ Step(c, "remove", "volrm")
        /\ target[c] \in Of(srv[c]) /\ target[c] \in Cmds
        /\ kind[c] = "delete" /\ RemoveBox(target[c], TRUE)
    BY <1>2, <1>6, <1>10 DEF RemoveContainer, Step, CalmInv, Sorted, Ways, Of
  <2>2. Own(c) /\ BoxKept
    BY <1>10, <2>1, OwnBox DEF RemoveContainer
  <2>3. task'[c] = "volrm" /\ srv' = srv
    BY <2>1 DEF Step, apiVars, TypeOK
  <2>4. \A e : Has(srv[c], e)' => Has(srv[c], e) /\ e # target[c]
    BY <2>1, <2>2, <2>3 DEF Has, Of, BoxKept, Present, RemoveBox, TypeOK
  <2>5. Fits(c)' /\ (Clears(c) => Clears(c)')
    BY <2>1, <2>3, <2>4 DEF Fits, Clears
  <2>6. QED
    BY <1>4, <2>1, <2>2, <2>5
<1>11. CASE VolumeRemove(c)
  <2>1. /\ task[c] = "volrm" /\ Step(c, "volrm", "deleted")
        /\ kind[c] = "delete" /\ UNCHANGED <<target, box, errors>>
    BY <1>11 DEF VolumeRemove, Step, CalmInv, Sorted, Ways
  <2>2. Own(c) /\ BoxKept
    BY <1>11, <2>1, SameBox DEF VolumeRemove, Own
  <2>3. task'[c] = "deleted" /\ srv' = srv
    BY <2>1 DEF Step, apiVars, TypeOK
  <2>4. \A e : Has(srv[c], e)' <=> Has(srv[c], e)
    BY <2>1, <2>3 DEF Has, Of
  <2>5. (\A e \in Cmds : ~Has(srv[c], e)) => CmdName(c) \notin volumes'
    <3>1. SUFFICES ASSUME \A e \in Cmds : ~Has(srv[c], e)
                   PROVE  \A d \in Present : CmdName(d) # CmdName(c)
      BY <1>11 DEF VolumeRemove
    <3>2. \A d \in Present : d \in Cmds /\ box[d] # "none" /\ d \notin Of(srv[c])
      BY <3>1 DEF Present, Has
    <3>3. QED
      BY <1>2, <3>2, SameName DEF CmdName
  <2>6. Fits(c)' /\ (Clears(c) => Clears(c)')
    BY <2>1, <2>3, <2>4, <2>5 DEF Fits, Clears, CmdName
  <2>7. QED
    BY <1>4, <2>1, <2>2, <2>6
<1>12. CASE DeleteReport(c)
  <2>1. /\ Report(c, "deleted") /\ UNCHANGED <<target, box, volumes, errors>>
        /\ task[c] = "deleted"
    BY <1>12 DEF DeleteReport, docker
  <2>2. Clears(c) /\ kind[c] = "delete" => Clean(srv[c])
    BY <2>1 DEF Clears, Clean
  <2>3. QED
    BY <1>2, <2>1, <2>2, ComesToEnd
<1>13. QED
  BY <1>7, <1>8, <1>9, <1>10, <1>11, <1>12

(* A step of a goroutine whose Docker call failed says nothing any more.   *)
LEMMA ErrorCalm ==
  ASSUME TypeOK, LifeInv, CalmInv, OwnNames, NEW c \in Cmds, DockerError(c)
  PROVE  CalmInv'
<1> USE DEF Stages
<1>1. errors' # 0 /\ UNCHANGED <<target, box, volumes>>
  BY DEF DockerError, TypeOK
<1>2. Own(c) /\ BoxKept
  BY <1>1, SameBox DEF Own
<1>3. task[c] # "none" => srv[c] \in Servers /\ api[c] # "new" /\ Ways(c)
  BY ActiveKnown DEF CalmInv, Sorted
<1>4. ASSUME NEW from \in Stages \ {"none", "done", "dead"},
             NEW to \in {"pull", "create", "clearremove", "volrm", "remove",
                         "deleted"},
             Step(c, from, to),
             to \in {"pull", "create", "clearremove"} => kind[c] = "start",
             to \in {"volrm", "remove", "deleted"} => kind[c] = "delete",
             to \in {"clearremove", "remove"} => target[c] \in Of(srv[c])
      PROVE  CalmInv'
  <2>1. /\ task'[c] = to /\ task[c] = from /\ UNCHANGED <<kind, srv, api>>
    BY <1>4 DEF Step, apiVars, TypeOK
  <2>2. Ways(c)'
    BY <1>1, <1>3, <1>4, <2>1 DEF Ways, Of
  <2>3. Fits(c)'
    BY <1>4, <2>1 DEF Fits
  <2>4. \A s \in Servers, d, e \in Cmds :
           s = srv[c] /\ Has(s, d)' /\ Has(s, e)' => d = e
    BY <1>2, <2>1, NoNewBox DEF CalmInv
  <2>5. {from, to} \cap {"none", "done", "dead"} = {} /\ to \in Stages
    BY <1>4
  <2>6. QED
    BY <1>1, <1>2, <1>4, <2>2, <2>3, <2>4, <2>5, GoesOn
<1>5. CASE \/ Step(c, "volume", "pull") \/ Step(c, "clear", "create")
           \/ Step(c, "clearstop", "clearremove")
           \/ Step(c, "clearremove", "create")
  BY <1>3, <1>4, <1>5 DEF Step, Ways
<1>6. CASE \/ kind[c] = "delete" /\ Step(c, "list", "volrm")
           \/ kind[c] = "delete" /\ Step(c, "stop", "remove")
           \/ Step(c, "remove", "volrm") \/ Step(c, "volrm", "deleted")
  BY <1>3, <1>4, <1>6 DEF Step, Ways
<1>7. CASE kind[c] = "stop" /\ task[c] \in {"list", "stop"} /\ Report(c, "error")
  BY <1>1, <1>7, ComesToEnd DEF Active
<1>8. QED
  BY <1>5, <1>6, <1>7 DEF DockerError

-----------------------------------------------------------------------------
(* The steps of the master and of the connection                           *)

LEMMA SortedElse ==
  ASSUME Sorted, UNCHANGED <<kind, srv, target, box>>,
         \A c \in Cmds : \/ task'[c] \in {task[c], "dead"}
                         \/ task'[c] = "volume" /\ kind[c] = "start"
                         \/ task'[c] = "list" /\ kind[c] # "start",
         \A c \in Cmds : api'[c] = "new" => api[c] = "new",
         \A s \in Servers : row'[s] = "absent" => row[s] = "absent",
         \A s : Awaited(s)' => Awaited(s),
         faults' = 0 => faults = 0 /\ (link => link') /\ orphaned' = orphaned
  PROVE  Sorted'
<1>1. \A s : Of(s)' = Of(s)
  BY DEF Of
<1>2. \A s, d : Has(s, d)' <=> Has(s, d)
  BY <1>1 DEF Has
<1>3. ASSUME NEW c \in Cmds PROVE Ways(c)'
  <2>1. Ways(c)
    BY DEF Sorted
  <2>2. QED
    BY <1>1, <2>1 DEF Ways
<1>4. QED
  BY <1>1, <1>2, <1>3 DEF Sorted

LEMMA CreateCalm ==
  ASSUME TypeOK, LifeInv, CalmInv, NEW s \in Servers, Create(s)
  PROVE  CalmInv'
<1>1. /\ row[s] = "absent" /\ row' = [row EXCEPT ![s] = "stopped"]
      /\ UNCHANGED <<api, kind, srv, overlapped, unwritten, link, toAgent,
                     toMaster, orphaned, faults, task, target, box, volumes,
                     errors>>
  BY DEF Create, linkVars, docker
<1>2. \A t : (Of(t)' = Of(t)) /\ (Awaited(t)' <=> Awaited(t))
  BY <1>1 DEF Of, Awaited
<1>3. Sorted'
  BY <1>1, <1>2, SortedElse DEF CalmInv, TypeOK
<1>4. ASSUME NEW t \in Servers, t # s PROVE Apart(t)
  BY <1>1, <1>4 DEF Apart, Of, Awaited, Says, OneReport, Queued, TypeOK
<1>5. Of(s)' = {} /\ ~Awaited(s)' /\ row'[s] = "stopped"
  BY <1>1, <1>2 DEF CalmInv, Sorted, TypeOK
<1>6. Calm(s)'
  BY <1>5 DEF Calm, Awaited, Says, OneReport, Marking, Working, On
<1>7. Gone(s)'
  BY <1>5 DEF Gone
<1>8. QED
  BY <1>1, <1>3, <1>4, <1>6, <1>7, ApartKeeps DEF CalmInv

(* What Settled tells of a server.                                         *)
LEMMA SettledQuiet ==
  ASSUME TypeOK, NEW s \in Servers, Settled(s)
  PROVE  /\ \A c \in Of(s) : ~Ongoing(c) /\ ~Busy(c) /\ ~Active(c)
         /\ ~Marking(s) /\ ~Working(s) /\ ~Awaited(s)
<1>1. \A c \in Of(s) : api[c] \in {"done", "refused"} /\ ~Active(c) /\ ~Queued(c)
  BY DEF Settled, Of, Queued, Contains
<1>2. \A c \in Of(s) : ~Ongoing(c) /\ ~Busy(c) /\ ~Active(c)
  BY <1>1 DEF Ongoing, Busy
<1>3. ~Marking(s) /\ ~Working(s)
  BY <1>1, <1>2 DEF Marking, Working
<1>4. ~Awaited(s)
  BY DEF Settled, Awaited, TypeOK
<1>5. QED
  BY <1>2, <1>3, <1>4

LEMMA IssueCalm ==
  ASSUME TypeOK, LifeInv, CalmInv, NEW c \in Cmds,
         NEW k \in {"start", "stop", "delete"}, NEW s \in Servers, Issue(c, k, s)
  PROVE  CalmInv'
<1>1. /\ api[c] = "new" /\ row[s] # "absent"
      /\ UNCHANGED <<row, unwritten, link, toAgent, toMaster, orphaned, faults,
                     task, target, box, volumes, errors>>
      /\ overlapped' = (overlapped \/ ~Settled(s))
      /\ kind' = [kind EXCEPT ![c] = k] /\ srv' = [srv EXCEPT ![c] = s]
  BY DEF Issue, linkVars, docker
<1>2. /\ api'[c] \in {"send", "mark", "refused"}
      /\ row[s] = "gone" /\ api'[c] \in {"send", "mark"}
            => api'[c] = "mark" /\ k = "delete"
      /\ k = "delete" /\ api'[c] = "mark" => row[s] = "gone"
      /\ \A d \in Cmds \ {c} : api'[d] = api[d]
  BY <1>1 DEF Issue, Exists, TypeOK
<1>3. \A d \in Cmds \ {c} : kind'[d] = kind[d] /\ srv'[d] = srv[d]
  BY <1>1 DEF TypeOK
<1>4. kind'[c] = k /\ srv'[c] = s /\ srv[c] = NoServer
  BY <1>1 DEF TypeOK, CalmInv, Sorted, Ways
<1>5. NoServer \notin Servers
  BY LifecycleAssumption DEF LifecycleAssumption
<1>6. /\ \A t \in Servers : t # s => Of(t)' = Of(t)
      /\ Of(s)' = Of(s) \cup {c} /\ \A t \in Servers : c \notin Of(t)
  BY <1>3, <1>4, <1>5 DEF Of
<1>7. task[c] = "none" /\ box[c] = "none" /\ ~Queued(c)
  BY <1>1 DEF LifeInv, Staged, SentOnce, Queued, BeforeCreate
<1>8. /\ \A t \in Servers, d \in Cmds : Has(t, d)' <=> Has(t, d)
      /\ \A t \in Servers : On(t)' <=> On(t)
  BY <1>1, <1>6, <1>7 DEF Has, On
<1>9. \A t : /\ Awaited(t)' <=> Awaited(t)
             /\ \A x : Says(t, x)' <=> Says(t, x)
             /\ OneReport(t)' <=> OneReport(t)
  BY <1>1 DEF Awaited, Says, OneReport
<1>10. \A d \in Cmds : (Busy(d)' <=> Busy(d)) /\ (Active(d)' <=> Active(d))
  BY <1>1 DEF Busy, Active, Queued
<1>11. Sorted'
  <2>1. ASSUME NEW d \in Cmds PROVE Ways(d)'
    <3>1. CASE d = c
      BY <1>1, <1>2, <1>7, <3>1 DEF Ways
    <3>2. CASE d # c
      <4>1. Ways(d) /\ kind'[d] = kind[d] /\ srv'[d] = srv[d] /\ api'[d] = api[d]
        BY <1>2, <1>3, <3>2 DEF CalmInv, Sorted
      <4>2. task[d] # "none" => srv[d] \in Servers
        BY ActiveKnown
      <4>3. \A e : e \in Of(srv[d]) /\ srv[d] \in Servers => e \in Of(srv[d])'
        BY <1>3, <1>6, <3>2 DEF Of
      <4>4. QED
        BY <1>1, <4>1, <4>2, <4>3 DEF Ways, Of
    <3>3. QED
      BY <3>1, <3>2
  <2>2. \A t \in Servers, d, e \in Cmds : Has(t, d)' /\ Has(t, e)' => d = e
    BY <1>8 DEF CalmInv, Sorted
  <2>3. \A t \in Servers : row'[t] = "absent" => Of(t)' = {} /\ ~Awaited(t)'
    BY <1>1, <1>6, <1>9 DEF CalmInv, Sorted
  <2>4. faults' = 0 => link' /\ orphaned' = {}
    BY <1>1 DEF CalmInv, Sorted
  <2>5. QED
    BY <2>1, <2>2, <2>3, <2>4 DEF Sorted
<1>12. ASSUME NEW t \in Servers, t # s PROVE Apart(t)
  <2>1. \A d \in Of(t) : d \in Cmds \ {c}
    BY <1>6 DEF Of
  <2>2. QED
    BY <1>1, <1>2, <1>3, <1>6, <1>9, <1>12, <2>1 DEF Apart, Queued
<1>13. ASSUME Settled(s), Calm(s) PROVE Calm(s)'
  <2>1. /\ \A d \in Of(s) : ~Ongoing(d) /\ ~Busy(d) /\ ~Active(d)
        /\ ~Marking(s) /\ ~Working(s) /\ ~Awaited(s)
    BY <1>13, SettledQuiet
  <2>2. \A d \in Of(s) : d \in Cmds \ {c}
    BY <1>6 DEF Of
  <2>3. \A d \in Of(s) : ~Ongoing(d)' /\ ~Busy(d)' /\ ~Active(d)'
    BY <1>2, <1>10, <2>1, <2>2 DEF Ongoing
  <2>4. ~Busy(c)' /\ ~Active(c)'
    BY <1>7, <1>10 DEF Busy, Active
  <2>5. ~Working(s)' /\ ~Awaited(s)' /\ \A x : ~Says(s, x)'
    BY <1>6, <1>9, <2>1, <2>3, <2>4 DEF Working, Awaited, Says
  <2>6. \A d \in Of(s)' : Fits(d)'
    BY <1>6, <2>3, <2>4 DEF Fits, Active
  <2>7. /\ s \notin unwritten /\ row[s] = "running" => On(s)
        /\ s \notin unwritten /\ row[s] = "stopped" => ~On(s)
        /\ OneReport(s)
    BY <1>13, <2>1 DEF Calm
  <2>8. \A d, e \in Of(s)' : Ongoing(d)' /\ Ongoing(e)' => d = e
    BY <1>6, <2>3
  <2>9. QED
    BY <1>1, <1>8, <1>9, <2>5, <2>6, <2>7, <2>8 DEF Calm
<1>14. ASSUME Settled(s), Gone(s) PROVE Gone(s)'
  <2>1. \A d \in Of(s) : ~Ongoing(d) /\ ~Busy(d) /\ ~Active(d) /\ ~Working(s)
    BY <1>14, SettledQuiet
  <2>2. \A d \in Of(s) : d \in Cmds \ {c}
    BY <1>6 DEF Of
  <2>3. \A d \in Of(s) : ~Ongoing(d)' /\ ~Active(d)'
    BY <1>2, <1>10, <2>1, <2>2 DEF Ongoing
  <2>4. ~Busy(c)' /\ ~Active(c)'
    BY <1>7, <1>10 DEF Busy, Active
  <2>5. Clean(s)' <=> Clean(s)
    BY <1>1, <1>8 DEF Clean
  <2>6. row[s] = "gone" => Clean(s)'
    BY <1>14, <2>5, SettledQuiet DEF Gone
  <2>7. \A d \in Of(s)' : Clears(d)'
    BY <1>6, <2>3, <2>4 DEF Clears, Active
  <2>8. ASSUME NEW d \in Of(s)', row'[s] = "gone", Ongoing(d)'
        PROVE  kind'[d] = "delete" /\ api'[d] # "send"
    <3>1. d = c
      BY <1>6, <2>3, <2>8
    <3>2. QED
      BY <1>1, <1>2, <1>4, <2>4, <2>8, <3>1 DEF Ongoing
  <2>9. ASSUME NEW d \in Of(s)', kind'[d] = "delete", api'[d] = "mark"
        PROVE  Clean(s)'
    <3>1. d = c
      BY <1>6, <2>3, <2>9 DEF Ongoing
    <3>2. QED
      BY <1>2, <1>4, <2>6, <2>9, <3>1
  <2>10. QED
    BY <1>1, <2>6, <2>7, <2>8, <2>9 DEF Gone
<1>15. QED
  BY <1>1, <1>11, <1>12, <1>13, <1>14, ApartKeeps DEF CalmInv

LEMMA SameBoxes ==
  ASSUME UNCHANGED <<srv, box, volumes>>
  PROVE  \A s : /\ Of(s)' = Of(s) /\ (On(s)' <=> On(s))
                /\ \A d : Has(s, d)' <=> Has(s, d)
                /\ Clean(s)' <=> Clean(s)
<1>1. \A s : Of(s)' = Of(s)
  BY DEF Of
<1>2. \A s, d : Has(s, d)' <=> Has(s, d)
  BY <1>1 DEF Has
<1>3. QED
  BY <1>1, <1>2 DEF On, Clean

LEMMA SendCalm ==
  ASSUME TypeOK, LifeInv, CalmInv, NEW c \in Cmds, Send(c)
  PROVE  CalmInv'
<1>1. /\ api[c] = "send" /\ api'[c] \in {"mark", "refused"}
      /\ kind[c] = "delete" => api'[c] = "mark"
      /\ api' = [api EXCEPT ![c] = api'[c]]
      /\ toAgent' = IF link THEN Append(toAgent, c) ELSE toAgent
      /\ UNCHANGED <<row, kind, srv, overlapped, unwritten, link, toMaster,
                     orphaned, faults, task, target, box, volumes, errors>>
  BY DEF Send, docker, TypeOK
<1>2. srv[c] \in Servers /\ task[c] = "none" /\ ~Queued(c)
  BY <1>1 DEF LifeInv, Staged, SentOnce, Queued
<1>3. \A d \in Cmds \ {c} : api'[d] = api[d]
  BY <1>1 DEF TypeOK
<1>4. /\ \A d : d # c => (Queued(d)' <=> Queued(d))
      /\ link => Queued(c)'
  <2>1. toAgent \in Seq(Cmds) /\ Len(toAgent) \in Nat
    BY DEF TypeOK
  <2>2. CASE ~link
    BY <1>1, <2>2 DEF Queued
  <2>3. CASE link
    <3>1. /\ Len(toAgent') = Len(toAgent) + 1 /\ toAgent'[Len(toAgent) + 1] = c
          /\ \A i \in 1 .. Len(toAgent) : toAgent'[i] = toAgent[i]
      BY <1>1, <2>1, <2>3, SeqEnds
    <3>2. \A i \in 1 .. Len(toAgent') :
             i \in 1 .. Len(toAgent) \/ i = Len(toAgent) + 1
      BY <2>1, <3>1
    <3>3. \A i \in 1 .. Len(toAgent) : i \in 1 .. Len(toAgent')
      BY <2>1, <3>1
    <3>4. Len(toAgent) + 1 \in 1 .. Len(toAgent')
      BY <2>1, <3>1
    <3>5. QED
      BY <3>1, <3>2, <3>3, <3>4 DEF Queued
  <2>4. QED
    BY <2>2, <2>3
<1>5. \A s : /\ Of(s)' = Of(s) /\ (On(s)' <=> On(s))
             /\ \A d : Has(s, d)' <=> Has(s, d)
             /\ Clean(s)' <=> Clean(s)
  BY <1>1, SameBoxes
<1>6. \A s : /\ Awaited(s)' <=> Awaited(s)
             /\ \A x : Says(s, x)' <=> Says(s, x)
             /\ OneReport(s)' <=> OneReport(s)
  BY <1>1 DEF Awaited, Says, OneReport
<1>7. Sorted'
  <2>1. \A d \in Cmds : api'[d] = "new" => api[d] = "new"
    BY <1>1, <1>3
  <2>2. QED
    BY <1>1, <1>6, <2>1, SortedElse DEF CalmInv
<1>8. ASSUME NEW s \in Servers, s # srv[c] PROVE Apart(s)
  <2>1. \A d \in Of(s) : d \in Cmds \ {c}
    BY <1>8 DEF Of
  <2>2. QED
    BY <1>1, <1>3, <1>4, <1>5, <1>6, <2>1 DEF Apart
<1>9. ASSUME NEW s \in Servers, s = srv[c], Calm(s)
      PROVE  /\ ~Awaited(s) /\ ~Working(s) /\ ~Marking(s)
             /\ \A d \in Of(s) : d # c => ~Ongoing(d) /\ ~Ongoing(d)'
             /\ \A d \in Of(s) : ~Active(d)'
  <2>1. c \in Of(s) /\ Ongoing(c) /\ ~Busy(c)
    BY <1>1, <1>2, <1>9 DEF Of, Ongoing, Busy, Active
  <2>2. \A d \in Of(s) : d \in Cmds /\ (d # c => ~Ongoing(d))
    BY <1>9, <2>1 DEF Calm, Of
  <2>3. ~Awaited(s)
    BY <1>1, <1>9, <2>1 DEF Calm
  <2>4. ~Working(s) /\ ~Marking(s)
    BY <1>1, <2>1, <2>2 DEF Working, Marking, Ongoing
  <2>5. \A d \in Of(s) : d # c => ~Ongoing(d)'
    BY <1>1, <1>3, <1>4, <2>2 DEF Ongoing, Busy, Active
  <2>6. \A d \in Of(s) : ~Active(d)'
    BY <1>1, <2>1, <2>2 DEF Ongoing, Busy, Active
  <2>7. QED
    BY <2>2, <2>3, <2>4, <2>5, <2>6
<1>10. ASSUME NEW s \in Servers, s = srv[c], Calm(s) PROVE Calm(s)'
  <2>1. /\ ~Awaited(s) /\ ~Working(s) /\ ~Marking(s)
        /\ \A d \in Of(s) : d # c => ~Ongoing(d) /\ ~Ongoing(d)'
        /\ \A d \in Of(s) : ~Active(d)'
    BY <1>9, <1>10
  <2>2. ~Awaited(s)' /\ (\A x : ~Says(s, x)')
    BY <1>6, <2>1 DEF Awaited, Says
  <2>3. \A d \in Of(s)' : Fits(d)'
    BY <1>5, <2>1 DEF Fits, Active
  <2>4. /\ s \notin unwritten /\ row[s] = "running" => On(s)
        /\ s \notin unwritten /\ row[s] = "stopped" => ~On(s)
        /\ OneReport(s)
    BY <1>10, <2>1 DEF Calm
  <2>5. Marking(s)' \/ ~Working(s)'
    <3>1. CASE api'[c] = "mark"
      BY <1>5, <1>10, <3>1 DEF Marking, Of
    <3>2. CASE api'[c] = "refused"
      <4>1. ~link
        BY <1>1, <3>2 DEF Send, TypeOK
      <4>2. ~Queued(c)' /\ c \in Cmds
        BY <1>1, <1>2, <4>1 DEF Queued
      <4>3. \A d \in Of(s) : ~Busy(d)'
        BY <1>2, <2>1, <4>2 DEF Busy, Ongoing
      <4>4. QED
        BY <1>5, <4>3 DEF Working
    <3>3. QED
      BY <1>1, <3>1, <3>2
  <2>6. \A d, e \in Of(s)' : Ongoing(d)' /\ Ongoing(e)' => d = e
    BY <1>5, <2>1
  <2>7. QED
    BY <1>1, <1>5, <1>6, <2>2, <2>3, <2>4, <2>5, <2>6 DEF Calm
<1>11. ASSUME NEW s \in Servers, s = srv[c], link, Calm(s), Gone(s)
       PROVE Gone(s)'
  <2>1. /\ \A d \in Of(s) : d # c => ~Ongoing(d) /\ ~Ongoing(d)'
        /\ \A d \in Of(s) : ~Active(d)'
    BY <1>9, <1>11
  <2>2. row[s] # "gone"
    BY <1>1, <1>11 DEF Gone, Of, Ongoing
  <2>3. \A d \in Of(s)' : Clears(d)'
    BY <1>5, <2>1 DEF Clears, Active
  <2>4. ASSUME NEW d \in Of(s), api'[d] = "mark" PROVE Busy(d)'
    <3>1. d = c
      BY <2>1, <2>4 DEF Ongoing
    <3>2. QED
      BY <1>4, <1>11, <3>1 DEF Busy
  <2>5. QED
    BY <1>1, <1>5, <2>2, <2>3, <2>4 DEF Gone
<1>12. faults = 0 => link
  BY DEF CalmInv, Sorted
<1>13. QED
  BY <1>1, <1>7, <1>8, <1>10, <1>11, <1>12, ApartKeeps DEF CalmInv

LEMMA MarkCalm ==
  ASSUME TypeOK, LifeInv, CalmInv, NEW c \in Cmds, Mark(c)
  PROVE  CalmInv'
<1>1. /\ api[c] = "mark" /\ api' = [api EXCEPT ![c] = "done"]
      /\ UNCHANGED <<kind, srv, overlapped, link, toAgent, toMaster, orphaned,
                     faults, task, target, box, volumes, errors>>
  BY DEF Mark, linkVars, docker
<1>2. srv[c] \in Servers
  BY <1>1 DEF LifeInv, Staged
<1>3. api'[c] = "done" /\ \A d \in Cmds \ {c} : api'[d] = api[d]
  BY <1>1 DEF TypeOK
<1>4. /\ \A s \in Servers : s # srv[c] =>
            row'[s] = row[s] /\ (s \in unwritten' <=> s \in unwritten)
      /\ srv[c] \in unwritten' \/ row'[srv[c]] \notin {"running", "stopped"}
      /\ row'[srv[c]] = "absent" => row[srv[c]] = "absent"
      /\ row'[srv[c]] = "gone" => row[srv[c]] = "gone" \/ kind[c] = "delete"
  <2>1. WriteRow(srv[c], Announced[kind[c]])
    BY DEF Mark
  <2>2. /\ Announced[kind[c]] \in Rows \ {"absent", "running", "stopped"}
        /\ Announced[kind[c]] = "gone" => kind[c] = "delete"
    BY DEF Announced, Rows, TypeOK
  <2>3. QED
    BY <1>2, <2>1, <2>2, RowWritten DEF Exists
<1>5. \A s : /\ Of(s)' = Of(s) /\ (On(s)' <=> On(s))
             /\ \A d : Has(s, d)' <=> Has(s, d)
             /\ Clean(s)' <=> Clean(s)
  BY <1>1, SameBoxes
<1>6. \A s : /\ Awaited(s)' <=> Awaited(s)
             /\ \A x : Says(s, x)' <=> Says(s, x)
             /\ OneReport(s)' <=> OneReport(s)
  BY <1>1 DEF Awaited, Says, OneReport
<1>7. \A d \in Cmds : /\ Busy(d)' <=> Busy(d)
                      /\ Ongoing(d)' => Ongoing(d)
                      /\ Fits(d)' <=> Fits(d)
                      /\ Clears(d)' <=> Clears(d)
  <2>1. \A d \in Cmds : Busy(d)' <=> Busy(d)
    BY <1>1 DEF Busy, Queued, Active
  <2>2. \A d \in Cmds : Fits(d)' <=> Fits(d)
    BY <1>1, <1>5 DEF Fits
  <2>3. \A d \in Cmds : Clears(d)' <=> Clears(d)
    BY <1>1, <1>5 DEF Clears
  <2>4. \A d \in Cmds : Ongoing(d)' => Ongoing(d)
    BY <1>1, <1>3, <2>1 DEF Ongoing
  <2>5. QED
    BY <2>1, <2>2, <2>3, <2>4
<1>8. Sorted'
  <2>1. \A d \in Cmds : api'[d] = "new" => api[d] = "new"
    BY <1>3
  <2>2. \A s \in Servers : row'[s] = "absent" => row[s] = "absent"
    BY <1>4
  <2>3. QED
    BY <1>1, <1>6, <2>1, <2>2, SortedElse DEF CalmInv
<1>9. ASSUME NEW s \in Servers, s # srv[c] PROVE Apart(s)
  <2>1. \A d \in Of(s) : d \in Cmds \ {c}
    BY <1>9 DEF Of
  <2>2. \A d : Queued(d)' <=> Queued(d)
    BY <1>1 DEF Queued
  <2>3. QED
    BY <1>1, <1>3, <1>4, <1>5, <1>6, <1>9, <2>1, <2>2 DEF Apart
<1>10. ASSUME NEW s \in Servers, s = srv[c], Calm(s)
       PROVE  /\ c \in Of(s) /\ Ongoing(c)
              /\ \A d \in Of(s) : d \in Cmds /\ (d # c => ~Ongoing(d) /\ ~Ongoing(d)')
  BY <1>1, <1>7, <1>10 DEF Of, Ongoing, Calm
<1>11. ASSUME NEW s \in Servers, s = srv[c], Calm(s) PROVE Calm(s)'
  <2>1. \A d, e \in Of(s)' : Ongoing(d)' /\ Ongoing(e)' => d = e
    BY <1>5, <1>10, <1>11
  <2>2. (Working(s)' <=> Working(s)) /\ \A d \in Of(s)' : Fits(d)'
    BY <1>5, <1>7, <1>10, <1>11 DEF Working, Calm
  <2>3. Awaited(s) => \A d \in Of(s)' : api'[d] # "send"
    BY <1>3, <1>5, <1>10, <1>11 DEF Calm
  <2>4. s \in unwritten' \/ row'[s] \notin {"running", "stopped"}
    BY <1>4, <1>11
  <2>5. QED
    BY <1>5, <1>6, <1>11, <2>1, <2>2, <2>3, <2>4 DEF Calm
<1>12. ASSUME NEW s \in Servers, s = srv[c], Calm(s), Gone(s) PROVE Gone(s)'
  <2>1. (Working(s)' <=> Working(s)) /\ \A d \in Of(s)' : Clears(d)'
    BY <1>5, <1>7, <1>10, <1>12 DEF Working, Gone
  <2>2. \A d \in Of(s)' : api'[d] # "mark"
    BY <1>3, <1>5, <1>10, <1>12 DEF Ongoing
  <2>3. ASSUME row'[s] = "gone" PROVE Clean(s) \/ Working(s)
    <3>1. CASE row[s] = "gone"
      BY <1>12, <3>1 DEF Gone
    <3>2. CASE kind[c] = "delete"
      BY <1>1, <1>10, <1>12, <3>2 DEF Gone, Working
    <3>3. QED
      BY <1>4, <1>12, <2>3, <3>1, <3>2
  <2>4. ASSUME row'[s] = "gone", NEW d \in Of(s)', Ongoing(d)'
        PROVE  kind'[d] = "delete" /\ api'[d] # "send"
    <3>1. d = c /\ c \in Of(s)
      BY <1>5, <1>10, <1>12, <2>4
    <3>2. kind[c] = "delete"
      BY <1>4, <1>10, <1>12, <2>4 DEF Gone
    <3>3. QED
      BY <1>1, <1>3, <3>1, <3>2
  <2>5. QED
    BY <1>5, <2>1, <2>2, <2>3, <2>4 DEF Gone
<1>13. QED
  BY <1>1, <1>8, <1>9, <1>11, <1>12, ApartKeeps DEF CalmInv

LEMMA ReadCalm == TypeOK /\ LifeInv /\ CalmInv /\ ReadReport => CalmInv'
<1> SUFFICES ASSUME TypeOK, LifeInv, CalmInv, ReadReport PROVE CalmInv'
  OBVIOUS
<1>1. /\ toMaster # <<>> /\ toMaster' = Tail(toMaster)
      /\ UNCHANGED <<api, kind, srv, overlapped, link, toAgent, orphaned,
                     faults, task, target, box, volumes, errors>>
  BY DEF ReadReport, docker
<1> DEFINE m == Head(toMaster)
<1>2. m \in Reports
  BY <1>1 DEF TypeOK
<1>3. m.srv \in Servers /\ m.status \in {"running", "stopped", "error", "deleted"}
  BY <1>2 DEF Reports
<1>4. /\ \A s \in Servers : s # m.srv =>
            row'[s] = row[s] /\ (s \in unwritten' <=> s \in unwritten)
      /\ \/ row'[m.srv] = m.status
         \/ row'[m.srv] = row[m.srv] /\ row[m.srv] \in {"absent", "gone"}
         \/ row'[m.srv] = row[m.srv] /\ m.srv \in unwritten'
  <2>1. WriteRow(m.srv, m.status) /\ m.status \in Rows
    BY <1>3 DEF ReadReport, Rows
  <2>2. QED
    BY <1>3, <2>1, RowWritten DEF Exists
<1>5. ASSUME NEW s
      PROVE  /\ Awaited(s)' => Awaited(s)
             /\ \A x : Says(s, x)' => Says(s, x)
             /\ OneReport(s) => OneReport(s)'
             /\ m.srv = s => (OneReport(s) => ~Awaited(s)')
             /\ m.srv # s => (Awaited(s) => Awaited(s)')
             /\ Awaited(m.srv) /\ Says(m.srv, m.status)
  BY <1>1, ReportsShrink
<1>6. ASSUME NEW s, m.srv # s PROVE \A x : Says(s, x) => Says(s, x)'
  <2>1. \A i \in 1 .. Len(toMaster) :
           i = 1 \/ (i - 1 \in 1 .. Len(toMaster') /\ toMaster'[i - 1] = toMaster[i])
    <3>1. /\ Len(toMaster') = Len(toMaster) - 1 /\ Len(toMaster) \in Nat
          /\ \A i \in 1 .. Len(toMaster') : toMaster'[i] = toMaster[i + 1]
      BY <1>1, SeqEnds DEF TypeOK
    <3>2. \A i \in 1 .. Len(toMaster) :
             i = 1 \/ (i - 1 \in 1 .. Len(toMaster') /\ (i - 1) + 1 = i)
      BY <3>1
    <3>3. QED
      BY <3>1, <3>2
  <2>2. toMaster[1] = m
    BY <1>1, SeqEnds DEF TypeOK
  <2>3. QED
    BY <1>6, <2>1, <2>2 DEF Says
<1> HIDE DEF m
<1>7. \A s : /\ Of(s)' = Of(s) /\ (On(s)' <=> On(s))
             /\ \A d : Has(s, d)' <=> Has(s, d)
             /\ Clean(s)' <=> Clean(s)
  BY <1>1, SameBoxes
<1>8. \A d \in Cmds : /\ (Busy(d)' <=> Busy(d)) /\ (Ongoing(d)' <=> Ongoing(d))
                      /\ (Fits(d)' <=> Fits(d)) /\ (Clears(d)' <=> Clears(d))
  <2>1. \A d : (Busy(d)' <=> Busy(d)) /\ (Ongoing(d)' <=> Ongoing(d))
    BY <1>1 DEF Busy, Queued, Active, Ongoing
  <2>2. \A d \in Cmds : (Fits(d)' <=> Fits(d)) /\ (Clears(d)' <=> Clears(d))
    BY <1>1, <1>7 DEF Fits, Clears
  <2>3. QED
    BY <2>1, <2>2
<1>9. Sorted'
  <2>1. \A s \in Servers : row'[s] = "absent" => row[s] = "absent"
    BY <1>3, <1>4
  <2>2. QED
    BY <1>1, <1>5, <2>1, SortedElse DEF CalmInv
<1>10. ASSUME NEW s \in Servers, s # m.srv PROVE Apart(s)
  <2>1. \A d : Queued(d)' <=> Queued(d)
    BY <1>1 DEF Queued
  <2>2. QED
    BY <1>1, <1>4, <1>5, <1>6, <1>7, <1>10, <2>1 DEF Apart
<1>11. \A s : Of(s) \subseteq Cmds
  BY DEF Of
<1>12. \A s : (Working(s)' <=> Working(s)) /\ (Marking(s)' <=> Marking(s))
  BY <1>1, <1>7, <1>8, <1>11 DEF Working, Marking
<1>13. ASSUME NEW s \in Servers, s = m.srv, Calm(s) PROVE Calm(s)'
  <2>1. /\ Awaited(s) /\ Says(s, m.status)
        /\ OneReport(s) => OneReport(s)' /\ ~Awaited(s)'
    BY <1>5, <1>13
  <2>2. OneReport(s) /\ ~Working(s)
    BY <1>13, <2>1 DEF Calm
  <2>3. ~Awaited(s)' /\ (\A x : ~Says(s, x)') /\ OneReport(s)'
    BY <2>1, <2>2 DEF Awaited, Says
  <2>4. \/ s \in unwritten'
        \/ (row'[s] = "running" => On(s)) /\ (row'[s] = "stopped" => ~On(s))
    BY <1>4, <1>13, <2>1 DEF Calm
  <2>5. \A d, e \in Of(s)' : Ongoing(d)' /\ Ongoing(e)' => d = e
    BY <1>7, <1>8, <1>11, <1>13 DEF Calm
  <2>6. \A d \in Of(s)' : Fits(d)'
    BY <1>7, <1>8, <1>11, <1>13 DEF Calm
  <2>7. QED
    BY <1>7, <1>12, <2>2, <2>3, <2>4, <2>5, <2>6 DEF Calm
<1>14. ASSUME NEW s \in Servers, s = m.srv, Gone(s) PROVE Gone(s)'
  <2>1. row'[s] = "gone" => row[s] = "gone"
    BY <1>3, <1>4, <1>14
  <2>2. QED
    BY <1>1, <1>7, <1>8, <1>11, <1>12, <1>14, <2>1 DEF Gone
<1>15. QED
  BY <1>1, <1>9, <1>10, <1>13, <1>14, ApartKeeps DEF CalmInv

(* A connection that is lost, with or without the agent or the master,     *)
(* takes commands and reports with it: less is under way, no row changes,  *)
(* and one that a handler was to write is known to have missed it.         *)
LEMMA LossCalm ==
  TypeOK /\ LifeInv /\ CalmInv /\ (Disconnect \/ AgentRestart \/ MasterRestart)
    => CalmInv'
<1> SUFFICES ASSUME TypeOK, LifeInv, CalmInv,
                    Disconnect \/ AgentRestart \/ MasterRestart
             PROVE  CalmInv'
  OBVIOUS
<1>1. /\ toAgent' = <<>> /\ toMaster' = <<>> /\ faults' = faults + 1
      /\ UNCHANGED <<row, kind, srv, overlapped, target, box, volumes>>
      /\ \A c \in Cmds : task'[c] = task[c] \/ task'[c] = "dead"
  BY DEF Disconnect, AgentRestart, MasterRestart, apiVars, docker, TypeOK
<1>2. /\ \A c \in Cmds : api'[c] = api[c] \/ api'[c] = "done"
      /\ unwritten \subseteq unwritten'
  BY DEF Disconnect, AgentRestart, MasterRestart, apiVars, TypeOK
<1>3. ASSUME NEW s \in Servers, Marking(s) PROVE Marking(s)' \/ s \in unwritten'
  <2>1. CASE Disconnect \/ AgentRestart
    BY <1>3, <2>1 DEF Disconnect, AgentRestart, apiVars, Marking, Of
  <2>2. CASE MasterRestart
    BY <1>3, <2>2 DEF MasterRestart
  <2>3. QED
    BY <2>1, <2>2
<1>4. faults' # 0
  BY <1>1 DEF TypeOK
<1>5. ASSUME NEW s
      PROVE  ~Awaited(s)' /\ (\A x : ~Says(s, x)') /\ OneReport(s)'
  <2>1. Len(toMaster') = 0
    BY <1>1
  <2>2. QED
    BY <2>1 DEF Awaited, Says, OneReport
<1>6. \A c : ~Queued(c)'
  <2>1. Len(toAgent') = 0
    BY <1>1
  <2>2. QED
    BY <2>1 DEF Queued
<1>7. \A s : /\ Of(s)' = Of(s) /\ (On(s)' <=> On(s)) /\ Of(s) \subseteq Cmds
  BY <1>1, SameBoxes DEF Of
<1>8. \A c \in Cmds : /\ (Busy(c)' => Busy(c)) /\ (Ongoing(c)' => Ongoing(c))
                      /\ Fits(c) => Fits(c)'
  <2>1. \A c \in Cmds : Active(c)' => Active(c)
    BY <1>1 DEF Active
  <2>2. \A c \in Cmds : (Busy(c)' => Busy(c)) /\ (Ongoing(c)' => Ongoing(c))
    BY <1>1, <1>6, <1>2, <2>1 DEF Busy, Ongoing
  <2>3. \A c \in Cmds : Fits(c) => Fits(c)'
    BY <1>1, <1>7 DEF Fits
  <2>4. QED
    BY <2>2, <2>3
<1>9. Sorted'
  BY <1>1, <1>4, <1>5, <1>2, SortedElse DEF CalmInv
<1>10. ASSUME NEW s \in Servers, Calm(s) PROVE Calm(s)'
  <2>1. Working(s)' => Working(s)
    BY <1>7, <1>8 DEF Working
  <2>2. \A c, d \in Of(s)' : Ongoing(c)' /\ Ongoing(d)' => c = d
    BY <1>7, <1>8, <1>10 DEF Calm
  <2>3. \A c \in Of(s)' : Fits(c)'
    BY <1>7, <1>8, <1>10 DEF Calm
  <2>4. \/ Marking(s)' \/ s \in unwritten'
        \/ IF Working(s)' THEN row[s] \notin {"running", "stopped"}
           ELSE /\ row[s] = "running" => On(s)
                /\ row[s] = "stopped" => ~On(s)
    <3>1. CASE Marking(s) \/ s \in unwritten
      BY <1>2, <1>3, <3>1
    <3>2. CASE ~(Marking(s) \/ s \in unwritten)
      BY <1>10, <2>1, <3>2 DEF Calm
    <3>3. QED
      BY <3>1, <3>2
  <2>5. QED
    BY <1>1, <1>5, <1>7, <2>1, <2>2, <2>3, <2>4 DEF Calm
<1>11. QED
  BY <1>1, <1>4, <1>9, <1>10 DEF CalmInv

LEMMA LinkCalm ==
  TypeOK /\ LifeInv /\ CalmInv /\ (Reconnect \/ Dispatch) => CalmInv'
<1> SUFFICES ASSUME TypeOK, LifeInv, CalmInv PROVE (Reconnect \/ Dispatch) => CalmInv'
  OBVIOUS
<1>1. CASE Reconnect
  <2>1. /\ ~link /\ link'
        /\ UNCHANGED <<row, api, kind, srv, overlapped, unwritten, toAgent,
                       toMaster, orphaned, faults, task, target, box, volumes, errors>>
    BY <1>1 DEF Reconnect, apiVars, docker
  <2>2. \A s : Apart(s)
    BY <2>1, SameBoxes DEF Apart, Queued, Awaited, Says, OneReport
  <2>3. Sorted'
    BY <2>1, <2>2, SortedElse DEF CalmInv, Apart
  <2>4. QED
    BY <2>1, <2>2, <2>3, ApartKeeps DEF CalmInv
<1>2. CASE Dispatch
  <2> DEFINE c == Head(toAgent)
  <2>1. /\ toAgent # <<>> /\ toAgent' = Tail(toAgent)
        /\ task' = [task EXCEPT ![c] = IF kind[c] = "start" THEN "volume" ELSE "list"]
        /\ UNCHANGED <<row, api, kind, srv, overlapped, unwritten, link,
                       toMaster, orphaned, faults, target, box, volumes, errors>>
    BY <1>2 DEF Dispatch, apiVars, docker
  <2>2. /\ c = toAgent[1] /\ 1 \in 1 .. Len(toAgent) /\ c \in Cmds
        /\ Len(toAgent') = Len(toAgent) - 1 /\ Len(toAgent) \in Nat
        /\ \A i \in 1 .. Len(toAgent') :
              i + 1 \in 1 .. Len(toAgent) /\ toAgent'[i] = toAgent[i + 1]
    BY <2>1, SeqEnds DEF TypeOK
  <2> HIDE DEF c
  <2>3. Queued(c) /\ task[c] = "none" /\ api[c] \in {"mark", "done"}
    BY <2>2 DEF Queued, LifeInv, SentOnce
  <2>4. \A d : d # c => (Queued(d)' <=> Queued(d))
    <3>1. \A i \in 1 .. Len(toAgent) :
             i = 1 \/ (i - 1 \in 1 .. Len(toAgent') /\ toAgent'[i - 1] = toAgent[i])
      <4>1. \A i \in 1 .. Len(toAgent) :
               i = 1 \/ (i - 1 \in 1 .. Len(toAgent') /\ (i - 1) + 1 = i)
        BY <2>2
      <4>2. QED
        BY <2>2, <4>1
    <3>2. QED
      BY <2>2, <3>1 DEF Queued
  <2>5. /\ task'[c] \in {"volume", "list"}
        /\ task'[c] = "volume" <=> kind[c] = "start"
        /\ \A d \in Cmds \ {c} : task'[d] = task[d]
    BY <2>1, <2>2 DEF TypeOK
  <2>6. \A s : /\ Of(s)' = Of(s) /\ (On(s)' <=> On(s)) /\ Of(s) \subseteq Cmds
               /\ \A d : Has(s, d)' <=> Has(s, d)
               /\ Clean(s)' <=> Clean(s)
    BY <2>1, SameBoxes DEF Of
  <2>7. \A s : /\ Awaited(s)' <=> Awaited(s)
               /\ \A x : Says(s, x)' <=> Says(s, x)
               /\ OneReport(s)' <=> OneReport(s)
    BY <2>1 DEF Awaited, Says, OneReport
  <2>8. ASSUME NEW d \in Cmds
        PROVE  /\ (Busy(d)' <=> Busy(d)) /\ (Ongoing(d)' <=> Ongoing(d))
               /\ (Fits(d) => Fits(d)') /\ (Clears(d) => Clears(d)')
    <3>1. CASE d = c
      <4>1. Busy(d) /\ Busy(d)'
        BY <2>3, <2>5, <3>1 DEF Busy, Active
      <4>2. Fits(d)' /\ Clears(d)'
        BY <2>5, <3>1 DEF Fits, Clears
      <4>3. QED
        BY <4>1, <4>2 DEF Ongoing
    <3>2. CASE d # c
      <4>1. (Busy(d)' <=> Busy(d)) /\ task'[d] = task[d]
        BY <2>4, <2>5, <3>2 DEF Busy, Active
      <4>2. QED
        BY <2>1, <2>6, <4>1 DEF Ongoing, Fits, Clears
    <3>3. QED
      BY <3>1, <3>2
  <2>9. Sorted'
    <3>1. \A d \in Cmds : \/ task'[d] \in {task[d], "dead"}
                          \/ task'[d] = "volume" /\ kind[d] = "start"
                          \/ task'[d] = "list" /\ kind[d] # "start"
      BY <2>5
    <3>2. QED
      BY <2>1, <2>7, <3>1, SortedElse DEF CalmInv
  <2>10. \A s : (Working(s)' <=> Working(s)) /\ (Marking(s)' <=> Marking(s))
    BY <2>1, <2>6, <2>8 DEF Working, Marking
  <2>11. ASSUME NEW s \in Servers, Calm(s) PROVE Calm(s)'
    <3>1. \A d, e \in Of(s)' : Ongoing(d)' /\ Ongoing(e)' => d = e
      BY <2>6, <2>8, <2>11 DEF Calm
    <3>2. \A d \in Of(s)' : Fits(d)'
      BY <2>6, <2>8, <2>11 DEF Calm
    <3>3. QED
      BY <2>1, <2>6, <2>7, <2>10, <2>11, <3>1, <3>2 DEF Calm
  <2>12. ASSUME NEW s \in Servers, Gone(s) PROVE Gone(s)'
    BY <2>1, <2>6, <2>8, <2>10, <2>12 DEF Gone
  <2>13. QED
    BY <2>1, <2>9, <2>11, <2>12 DEF CalmInv
<1>3. QED
  BY <1>1, <1>2

-----------------------------------------------------------------------------

LEMMA CalmInit == Init => CalmInv
<1> SUFFICES ASSUME Init PROVE CalmInv
  OBVIOUS
<1> USE DEF Init
<1>1. \A s : ~Awaited(s) /\ (\A x : ~Says(s, x)) /\ OneReport(s)
  BY DEF Awaited, Says, OneReport
<1>2. \A s \in Servers : Of(s) = {}
  BY LifecycleAssumption DEF LifecycleAssumption, Of
<1>3. \A s \in Servers : row[s] = "absent"
  OBVIOUS
<1>4. Sorted
  BY <1>1, <1>2 DEF Sorted, Ways, Has
<1>5. \A s \in Servers : Calm(s)
  BY <1>1, <1>2, <1>3 DEF Calm
<1>6. \A s \in Servers : Gone(s)
  BY <1>2, <1>3 DEF Gone
<1>7. QED
  BY <1>4, <1>5, <1>6 DEF CalmInv

(* Every step keeps the inductive invariant.                               *)
LEMMA CalmStep ==
  ASSUME OwnNames
  PROVE  TypeOK /\ LifeInv /\ CalmInv /\ [Next]_vars => CalmInv'
<1> SUFFICES ASSUME TypeOK, LifeInv, CalmInv, [Next]_vars PROVE CalmInv'
  OBVIOUS
<1>1. ASSUME NEW s \in Servers, Create(s) PROVE CalmInv'
  BY <1>1, CreateCalm
<1>2. ASSUME NEW c \in Cmds, Api(c) PROVE CalmInv'
  BY <1>2, IssueCalm, SendCalm, MarkCalm DEF Api
<1>3. ASSUME NEW c \in Cmds, Task(c) PROVE CalmInv'
  BY <1>3, StartCalm, StopCalm, ErrorCalm DEF Task
<1>4. CASE Network
  BY <1>4, ReadCalm, LossCalm, LinkCalm DEF Network
<1>5. CASE UNCHANGED vars
  <2>1. UNCHANGED <<row, api, kind, srv, overlapped, unwritten, link, toAgent,
                    toMaster, orphaned, faults, task, target, box, volumes,
                    errors>>
    BY <1>5 DEF vars, apiVars, linkVars, docker
  <2>2. \A s : Apart(s)
    BY <2>1, SameBoxes DEF Apart, Queued, Awaited, Says, OneReport
  <2>3. Sorted'
    BY <2>1, <2>2, SortedElse DEF CalmInv, Apart
  <2>4. QED
    BY <2>1, <2>2, <2>3, ApartKeeps DEF CalmInv
<1>6. QED
  BY <1>1, <1>2, <1>3, <1>4, <1>5 DEF Next

LEMMA CalmHolds ==
  ASSUME OwnNames PROVE Spec => [](TypeOK /\ LifeInv /\ CalmInv)
<1>1. Init => TypeOK /\ LifeInv /\ CalmInv
  BY InvInit, CalmInit
<1>2. TypeOK /\ LifeInv /\ CalmInv /\ [Next]_vars
        => (TypeOK /\ LifeInv /\ CalmInv)'
  BY TypeStep, InvStep, CalmStep DEF LifeInv
<1>3. QED
  BY <1>1, <1>2, PTL DEF Spec

(* A server's name finds its own containers.                               *)
LEMMA OwnUp ==
  ASSUME OwnNames, TypeOK, LifeInv, NEW s \in Servers
  PROVE  /\ IsUp(s) <=> On(s)
         /\ \A d \in Present : CmdName(d) = ContainerName[s] => Has(s, d)
<1>1. ASSUME NEW d \in Cmds, box[d] # "none"
      PROVE  CmdName(d) = ContainerName[s] <=> d \in Of(s)
  <2>1. srv[d] \in Servers
    BY <1>1, BoxKnown
  <2>2. ContainerName[s] \in Matches[ContainerName[s]]
    BY LifecycleAssumption DEF LifecycleAssumption
  <2>3. QED
    BY <2>1, <2>2 DEF OwnNames, CmdName, Of
<1>2. \A d \in Present : CmdName(d) = ContainerName[s] => Has(s, d)
  BY <1>1 DEF Present, Has
<1>3. IsUp(s) <=> On(s)
  BY <1>1 DEF IsUp, Up, On, Of
<1>4. QED
  BY <1>2, <1>3

(* If no server's container is found under another's name and every        *)
(* command was given when the last one of its server was over, a server    *)
(* shown as running runs and one shown as stopped does not, once           *)
(* everything has come to its end, unless the last write to its row never  *)
(* came about: whichever other statements, calls of Docker, connections    *)
(* and processes failed (api_servers.go, agent.go, docker.go,              *)
(* websocket.go).                                                          *)
THEOREM RowsTellTruth == ASSUME OwnNames PROVE Spec => []RowIsTrue
<1>1. TypeOK /\ LifeInv /\ CalmInv => RowIsTrue
  <2> SUFFICES ASSUME TypeOK, LifeInv, CalmInv, NEW s \in Servers,
                      ~overlapped, Settled(s), s \notin unwritten
               PROVE  /\ row[s] = "running" => IsUp(s)
                      /\ row[s] = "stopped" => ~IsUp(s)
    BY DEF RowIsTrue
  <2>1. ~Marking(s) /\ ~Working(s) /\ ~Awaited(s) /\ Calm(s)
    BY SettledQuiet DEF CalmInv
  <2>2. (row[s] = "running" => On(s)) /\ (row[s] = "stopped" => ~On(s))
    BY <2>1 DEF Calm
  <2>3. QED
    BY <2>2, OwnUp
<1>2. QED
  BY CalmHolds, <1>1, PTL

(* With such names, and if no connection was lost and no call of Docker    *)
(* failed, a delete that has come to its end leaves neither a container    *)
(* nor a volume (docker.go's DeleteContainer).                             *)
THEOREM DeletesClean == ASSUME OwnNames PROVE Spec => []NoOrphan
<1>1. TypeOK /\ LifeInv /\ CalmInv => NoOrphan
  <2> SUFFICES ASSUME TypeOK, LifeInv, CalmInv, NEW s \in Servers,
                      ~overlapped, faults = 0, errors = 0,
                      Settled(s), row[s] = "gone"
               PROVE  /\ \A d \in Present : CmdName(d) # ContainerName[s]
                      /\ ContainerName[s] \notin volumes
    BY DEF NoOrphan
  <2>1. ~Working(s) /\ Gone(s)
    BY SettledQuiet DEF CalmInv
  <2>2. Clean(s)
    BY <2>1 DEF Gone
  <2>3. \A d \in Present : d \in Cmds
    BY DEF Present
  <2>4. QED
    BY <2>2, <2>3, OwnUp DEF Clean
<1>2. QED
  BY CalmHolds, <1>1, PTL

-----------------------------------------------------------------------------
(* Every command is answered, whatever overlaps and whatever the servers   *)
(* are called.  RestInv follows what a row that says starting or stopping  *)
(* waits for: a command of its server that is under way or a report, or it *)
(* is one of the two cases that RowComesToRest names.                      *)

Waited(s) == Working(s) \/ Awaited(s)

RestInv ==
    faults = 0 =>
        /\ link /\ orphaned = {}
        /\ \A c \in Cmds : api[c] = "mark" /\ kind[c] # "delete" =>
              Waited(srv[c]) \/ srv[c] \in overtaken
        /\ \A s \in Servers : row[s] \in {"starting", "stopping"} =>
              Waited(s) \/ s \in unwritten \cup overtaken

(* A goroutine goes on, or it ends and its server has a report on its way. *)
LEMMA TaskShape ==
  ASSUME TypeOK, NEW c \in Cmds, Task(c)
  PROVE  /\ UNCHANGED <<apiVars, link, toAgent, orphaned, faults>>
         /\ Active(c) /\ \A d \in Cmds \ {c} : task'[d] = task[d]
         /\ \/ Active(c)' /\ toMaster' = toMaster
            \/ \E status \in {"running", "stopped", "error", "deleted"} :
                  Report(c, status)
<1>1. ASSUME NEW from \in Stages \ {"none", "done", "dead"},
             NEW to \in Stages \ {"none", "done", "dead"}, Step(c, from, to)
      PROVE  /\ UNCHANGED <<apiVars, link, toAgent, orphaned, faults>>
             /\ Active(c) /\ \A d \in Cmds \ {c} : task'[d] = task[d]
             /\ Active(c)' /\ toMaster' = toMaster
  BY <1>1 DEF Step, Active, TypeOK, linkVars
<1>2. ASSUME NEW status \in {"running", "stopped", "error", "deleted"},
             Report(c, status)
      PROVE  /\ UNCHANGED <<apiVars, link, toAgent, orphaned, faults>>
             /\ \A d \in Cmds \ {c} : task'[d] = task[d]
  BY <1>2 DEF Report, TypeOK
<1> USE DEF Stages
<1>3. CASE \/ VolumeCreate(c) \/ ImagePull(c) \/ ClearList(c) \/ ClearStop(c)
           \/ ClearRemove(c) \/ ContainerCreate(c) \/ ContainerStart(c)
  BY <1>1, <1>3 DEF VolumeCreate, ImagePull, ClearList, ClearStop, ClearRemove,
                    ContainerCreate, ContainerStart
<1>4. CASE StartFails(c) \/ StartReport(c) \/ StopReport(c) \/ DeleteReport(c)
  BY <1>2, <1>4 DEF StartFails, StartReport, StopReport, DeleteReport, Active
<1>5. CASE RemoveContainer(c) \/ VolumeRemove(c)
  BY <1>1, <1>5 DEF RemoveContainer, VolumeRemove
<1>6. CASE List(c)
  <2>1. CASE Step(c, "list", "stop") \/ Step(c, "list", "volrm")
    BY <1>1, <2>1
  <2>2. CASE Report(c, "error")
    BY <1>2, <1>6, <2>2 DEF List, Active
  <2>3. QED
    BY <1>6, <2>1, <2>2 DEF List
<1>7. CASE StopContainer(c)
  <2>1. CASE Step(c, "stop", "remove") \/ Step(c, "stop", "stopped")
    BY <1>1, <2>1
  <2>2. CASE Report(c, "error")
    BY <1>2, <1>7, <2>2 DEF StopContainer, Active
  <2>3. QED
    BY <1>7, <2>1, <2>2 DEF StopContainer
<1>8. CASE DockerError(c)
  <2>1. CASE task[c] \in {"list", "stop"} /\ Report(c, "error")
    BY <1>2, <2>1 DEF Active
  <2>2. CASE ~(task[c] \in {"list", "stop"} /\ Report(c, "error"))
    BY <1>1, <1>8, <2>2 DEF DockerError
  <2>3. QED
    BY <2>1, <2>2
<1>9. QED
  BY <1>3, <1>4, <1>5, <1>6, <1>7, <1>8 DEF Task

(* What was waited for is waited for still.                                *)
LEMMA WaitedKept ==
  ASSUME UNCHANGED <<row, api, kind, srv, unwritten, overtaken>>,
         UNCHANGED <<link, orphaned, faults>>, RestInv,
         faults = 0 => \A s : Waited(s) => Waited(s)'
  PROVE  RestInv'
  BY DEF RestInv

LEMMA RestStep == TypeOK /\ LifeInv /\ RestInv /\ [Next]_vars => RestInv'
<1> SUFFICES ASSUME TypeOK, LifeInv, RestInv, [Next]_vars PROVE RestInv'
  OBVIOUS
<1>1. ASSUME UNCHANGED <<srv, toAgent, toMaster, task>>
      PROVE  \A s : Waited(s)' <=> Waited(s)
  BY <1>1 DEF Waited, Working, Awaited, Of, Busy, Queued, Active
<1>2. ASSUME NEW s \in Servers, Create(s) PROVE RestInv'
  <2>1. /\ row' = [row EXCEPT ![s] = "stopped"]
        /\ UNCHANGED <<api, kind, srv, unwritten, overtaken, link, orphaned,
                       faults, toAgent, toMaster, task>>
    BY <1>2 DEF Create, linkVars
  <2>2. \A t \in Servers : row'[t] \in {"starting", "stopping"} => row'[t] = row[t]
    BY <2>1 DEF TypeOK
  <2>3. QED
    BY <1>1, <2>1, <2>2 DEF RestInv
<1>3. ASSUME NEW c \in Cmds, NEW k \in {"start", "stop", "delete"},
             NEW s \in Servers, Issue(c, k, s)
      PROVE  RestInv'
  <2>1. /\ api[c] = "new"
        /\ api'[c] = "mark" => k = "delete"
        /\ kind' = [kind EXCEPT ![c] = k] /\ srv' = [srv EXCEPT ![c] = s]
        /\ \A d \in Cmds \ {c} : api'[d] = api[d]
        /\ UNCHANGED <<row, unwritten, overtaken, link, orphaned, faults,
                       toAgent, toMaster, task>>
    BY <1>3 DEF Issue, linkVars, TypeOK
  <2>2. /\ kind'[c] = k
        /\ \A d \in Cmds \ {c} : kind'[d] = kind[d] /\ srv'[d] = srv[d]
    BY <2>1 DEF TypeOK
  <2>3. ~Busy(c)
    BY <2>1 DEF LifeInv, Staged, SentOnce, Busy, Queued, Active
  <2>4. \A d \in Cmds : Busy(d)' <=> Busy(d)
    BY <2>1 DEF Busy, Queued, Active
  <2>5. \A t : Working(t) => Working(t)'
    BY <2>2, <2>3, <2>4 DEF Working, Of
  <2>6. \A t : Waited(t) => Waited(t)'
    BY <2>1, <2>5 DEF Waited, Awaited
  <2>7. QED
    BY <2>1, <2>2, <2>6 DEF RestInv
<1>4. ASSUME NEW c \in Cmds, Send(c) PROVE RestInv'
  <2>1. /\ UNCHANGED <<row, kind, srv, unwritten, overtaken, link, orphaned,
                       faults, toMaster, task>>
        /\ \A d \in Cmds \ {c} : api'[d] = api[d]
        /\ toAgent' = IF link THEN Append(toAgent, c) ELSE toAgent
    BY <1>4 DEF Send, TypeOK
  <2>2. toAgent \in Seq(Cmds) /\ Len(toAgent) \in Nat
    BY DEF TypeOK
  <2>3. ASSUME link
        PROVE  /\ Queued(c)'
               /\ \A d : Queued(d) => Queued(d)'
    <3>1. /\ Len(toAgent') = Len(toAgent) + 1 /\ toAgent'[Len(toAgent) + 1] = c
          /\ \A i \in 1 .. Len(toAgent) : toAgent'[i] = toAgent[i]
      BY <2>1, <2>2, <2>3, SeqEnds
    <3>2. /\ \A i \in 1 .. Len(toAgent) : i \in 1 .. Len(toAgent')
          /\ Len(toAgent) + 1 \in 1 .. Len(toAgent')
      BY <2>2, <3>1
    <3>3. QED
      BY <3>1, <3>2 DEF Queued
  <2>4. ASSUME link
        PROVE  Waited(srv[c])' /\ \A s : Waited(s) => Waited(s)'
    <3>1. \A s : (Of(s)' = Of(s)) /\ (Awaited(s)' <=> Awaited(s)) /\ Of(s) \subseteq Cmds
      BY <2>1 DEF Of, Awaited
    <3>2. Busy(c)' /\ \A d : Busy(d) => Busy(d)'
      BY <2>1, <2>3, <2>4 DEF Busy, Active
    <3>3. c \in Of(srv[c])
      BY DEF Of
    <3>4. Working(srv[c])' /\ \A s : Working(s) => Working(s)'
      BY <2>1, <3>1, <3>2, <3>3 DEF Working
    <3>5. QED
      BY <2>1, <3>1, <3>4 DEF Waited
  <2>5. QED
    BY <2>1, <2>4 DEF RestInv
<1>5. ASSUME NEW c \in Cmds, Mark(c) PROVE RestInv'
  <2>1. /\ api[c] = "mark" /\ \A d \in Cmds : api'[d] = "mark" => api[d] = "mark"
        /\ WriteRow(srv[c], Announced[kind[c]])
        /\ UNCHANGED <<kind, srv, overtaken, link, orphaned, faults, toAgent,
                       toMaster, task>>
    BY <1>5 DEF Mark, linkVars, TypeOK
  <2>2. /\ srv[c] \in Servers /\ Announced[kind[c]] \in Rows
        /\ kind[c] = "delete" => Announced[kind[c]] = "gone"
    BY <2>1 DEF LifeInv, Staged, TypeOK, Announced, Rows
  <2>3. \A s \in Servers : s # srv[c] =>
           row'[s] = row[s] /\ (s \in unwritten' <=> s \in unwritten)
    BY <2>1, <2>2, RowWritten
  <2>4. ASSUME faults = 0, row'[srv[c]] \in {"starting", "stopping"}
        PROVE  Waited(srv[c]) \/ srv[c] \in unwritten' \cup overtaken
    <3>1. \/ srv[c] \in unwritten'
          \/ row'[srv[c]] = row[srv[c]] /\ ~Exists(srv[c])
          \/ row'[srv[c]] = Announced[kind[c]]
      BY <2>1, <2>2, RowWritten
    <3>2. CASE row'[srv[c]] = Announced[kind[c]]
      <4>1. kind[c] # "delete"
        BY <2>2, <2>4, <3>2
      <4>2. QED
        BY <2>1, <2>4, <4>1 DEF RestInv
    <3>3. QED
      BY <2>4, <3>1, <3>2 DEF Exists
  <2>5. QED
    BY <1>1, <2>1, <2>3, <2>4 DEF RestInv
<1>6. ASSUME NEW c \in Cmds, Task(c) PROVE RestInv'
  <2>1. /\ UNCHANGED <<apiVars, link, toAgent, orphaned, faults>>
        /\ Active(c) /\ \A d \in Cmds \ {c} : task'[d] = task[d]
        /\ \/ Active(c)' /\ toMaster' = toMaster
           \/ \E status \in {"running", "stopped", "error", "deleted"} :
                 Report(c, status)
    BY <1>6, TaskShape
  <2>2. srv[c] \in Servers /\ toMaster \in Seq(Reports)
    BY <2>1, ActiveKnown DEF Active, TypeOK
  <2>3. \A s : Of(s)' = Of(s) /\ Of(s) \subseteq Cmds
    BY <2>1 DEF Of, apiVars
  <2>4. \A d \in Cmds \ {c} : Busy(d) => Busy(d)'
    BY <2>1 DEF Busy, Queued, Active
  <2>5. ASSUME orphaned = {}, NEW s, Waited(s) PROVE Waited(s)'
    <3>1. CASE Active(c)' /\ toMaster' = toMaster
      <4>1. Busy(c)' /\ (Awaited(s)' <=> Awaited(s))
        BY <3>1 DEF Busy, Awaited
      <4>2. QED
        BY <2>3, <2>4, <2>5, <4>1 DEF Waited, Working
    <3>2. ASSUME NEW status \in {"running", "stopped", "error", "deleted"},
                 Report(c, status)
          PROVE  Waited(s)'
      <4>1. toMaster' = Append(toMaster, [srv |-> srv[c], status |-> status])
        BY <2>5, <3>2 DEF Report
      <4>2. Awaited(s)' <=> Awaited(s) \/ s = srv[c]
        BY <2>2, <4>1, ReportsGrow
      <4>3. \A d \in Of(s) : Busy(d) => Busy(d)' \/ s = srv[c]
        BY <2>3, <2>4 DEF Of
      <4>4. QED
        BY <2>3, <2>5, <4>2, <4>3 DEF Waited, Working
    <3>3. QED
      BY <2>1, <3>1, <3>2
  <2>6. QED
    BY <2>1, <2>5, WaitedKept DEF apiVars, RestInv
<1>7. CASE ReadReport
  <2>1. /\ toMaster # <<>> /\ toMaster' = Tail(toMaster)
        /\ WriteRow(Head(toMaster).srv, Head(toMaster).status)
        /\ overtaken' = IF Marking(Head(toMaster).srv)
                        THEN overtaken \cup {Head(toMaster).srv}
                        ELSE overtaken \ {Head(toMaster).srv}
        /\ UNCHANGED <<api, kind, srv, link, toAgent, orphaned, faults, task>>
    BY <1>7 DEF ReadReport
  <2> DEFINE m == Head(toMaster)
  <2>2. m \in Reports
    BY <2>1 DEF TypeOK
  <2>3. m.srv \in Servers /\ m.status \in {"running", "stopped", "error", "deleted"}
    BY <2>2 DEF Reports
  <2>4. /\ \A s \in Servers : s # m.srv =>
              row'[s] = row[s] /\ (s \in unwritten' <=> s \in unwritten)
        /\ row'[m.srv] \in {"starting", "stopping"} => m.srv \in unwritten'
    <3>1. m.status \in Rows
      BY <2>3 DEF Rows
    <3>2. QED
      BY <2>1, <2>3, <3>1, RowWritten DEF Exists
  <2>5. \A s : s # m.srv => (Waited(s) => Waited(s)')
    <3>1. \A s : s # m.srv => (Awaited(s) => Awaited(s)')
      BY <2>1, ReportsShrink
    <3>2. \A s : Working(s)' <=> Working(s)
      BY <2>1 DEF Working, Of, Busy, Queued, Active
    <3>3. QED
      BY <3>1, <3>2 DEF Waited
  <2> HIDE DEF m
  <2>6. \A s : s # m.srv => (s \in overtaken' <=> s \in overtaken)
    BY <2>1 DEF m
  <2>7. \A c \in Cmds : srv[c] = m.srv /\ api[c] = "mark" => m.srv \in overtaken'
    BY <2>1 DEF m, Marking, Of
  <2>8. ASSUME faults = 0, NEW c \in Cmds, api[c] = "mark", kind[c] # "delete"
        PROVE  Waited(srv[c])' \/ srv[c] \in overtaken'
    <3>1. CASE srv[c] = m.srv
      BY <2>7, <2>8, <3>1
    <3>2. CASE srv[c] # m.srv
      <4>1. Waited(srv[c]) \/ srv[c] \in overtaken
        BY <2>8 DEF RestInv
      <4>2. srv'[c] = srv[c]
        BY <2>1
      <4>3. QED
        BY <2>5, <2>6, <3>2, <4>1, <4>2
    <3>3. QED
      BY <3>1, <3>2
  <2>9. ASSUME faults = 0, NEW s \in Servers, row'[s] \in {"starting", "stopping"}
        PROVE  Waited(s)' \/ s \in unwritten' \cup overtaken'
    <3>1. CASE s = m.srv
      BY <2>4, <2>9, <3>1
    <3>2. CASE s # m.srv
      BY <2>4, <2>5, <2>6, <2>9, <3>2 DEF RestInv
    <3>3. QED
      BY <3>1, <3>2
  <2>10. QED
    BY <2>1, <2>8, <2>9 DEF RestInv
<1>8. CASE Disconnect \/ AgentRestart \/ MasterRestart
  <2>1. faults' # 0
    BY <1>8 DEF Disconnect, AgentRestart, MasterRestart, TypeOK
  <2>2. QED
    BY <2>1 DEF RestInv
<1>9. CASE Reconnect
  BY <1>1, <1>9 DEF Reconnect, RestInv, apiVars
<1>10. CASE Dispatch
  <2> DEFINE c == Head(toAgent)
  <2>1. /\ toAgent # <<>> /\ toAgent' = Tail(toAgent)
        /\ task' = [task EXCEPT ![c] = IF kind[c] = "start" THEN "volume" ELSE "list"]
        /\ UNCHANGED <<apiVars, link, toMaster, orphaned, faults>>
    BY <1>10 DEF Dispatch
  <2>2. /\ c = toAgent[1] /\ c \in Cmds
        /\ Len(toAgent') = Len(toAgent) - 1 /\ Len(toAgent) \in Nat
        /\ \A i \in 1 .. Len(toAgent') : toAgent'[i] = toAgent[i + 1]
    BY <2>1, SeqEnds DEF TypeOK
  <2> HIDE DEF c
  <2>3. \A i \in 1 .. Len(toAgent) :
           i = 1 \/ (i - 1 \in 1 .. Len(toAgent') /\ toAgent'[i - 1] = toAgent[i])
    <3>1. \A i \in 1 .. Len(toAgent) :
             i = 1 \/ (i - 1 \in 1 .. Len(toAgent') /\ (i - 1) + 1 = i)
      BY <2>2
    <3>2. QED
      BY <2>2, <3>1
  <2>4. \A d : Queued(d) => Queued(d)' \/ d = c
    BY <2>2, <2>3 DEF Queued
  <2>5. task'[c] \in {"volume", "list"} /\ \A d \in Cmds \ {c} : task'[d] = task[d]
    BY <2>1, <2>2 DEF TypeOK
  <2>6. \A d \in Cmds : Busy(d) => Busy(d)'
    BY <2>4, <2>5 DEF Busy, Active
  <2>7. \A s : Of(s)' = Of(s) /\ (Awaited(s)' <=> Awaited(s)) /\ Of(s) \subseteq Cmds
    BY <2>1 DEF Of, Awaited, apiVars
  <2>8. \A s : Waited(s) => Waited(s)'
    BY <2>6, <2>7 DEF Waited, Working
  <2>9. QED
    BY <2>1, <2>8, WaitedKept DEF apiVars
<1>11. CASE UNCHANGED vars
  <2>1. UNCHANGED <<row, api, kind, srv, unwritten, overtaken, link, orphaned,
                    faults, toAgent, toMaster, task>>
    BY <1>11 DEF vars, apiVars, linkVars
  <2>2. QED
    BY <1>1, <2>1, WaitedKept
<1>12. QED
  BY <1>2, <1>3, <1>4, <1>5, <1>6, <1>7, <1>8, <1>9, <1>10, <1>11
  DEF Next, Api, Network

(* If no connection was lost and nothing restarted, every command is       *)
(* answered and its answer is the last word on the row: it stays on        *)
(* "starting" or "stopping" only if its last write failed, or the handler  *)
(* wrote that when a report had already been read (api_servers.go,         *)
(* agent.go, websocket.go).                                                *)
THEOREM RowsComeToRest == Spec => []RowComesToRest
<1>1. Init => RestInv
  BY DEF Init, RestInv
<1>2. TypeOK /\ LifeInv /\ RestInv /\ [Next]_vars
        => (TypeOK /\ LifeInv /\ RestInv)'
  BY TypeStep, InvStep, RestStep DEF LifeInv
<1>3. TypeOK /\ RestInv => RowComesToRest
  BY SettledQuiet DEF RestInv, Waited, RowComesToRest
<1>4. QED
  BY InvInit, <1>1, <1>2, <1>3, PTL DEF Spec
=============================================================================
