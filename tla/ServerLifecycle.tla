-------------------------- MODULE ServerLifecycle --------------------------
(***************************************************************************)
(* A game server from the admin's click to Docker and back: the REST       *)
(* handlers that create, start, stop and delete a server                   *)
(* (master/api_servers.go), the commands on their way to the agent, the    *)
(* agent's handlers, each a goroutine of its own (agent/agent.go), the     *)
(* Docker calls they make one after the other (agent/docker.go), and the   *)
(* status reports that update the server's row (master/websocket.go).      *)
(*                                                                         *)
(* The connection is a pair of FIFO queues that a disconnect empties, as   *)
(* Relay allows; Hub is the detail of it.  A container is named by the     *)
(* start command that created it: Docker never reuses an id.  A definition *)
(* whose comment starts with "Slip" is the next one with a mistake in it.  *)
(***************************************************************************)
EXTENDS Naturals, Sequences, SequencesExt, FiniteSets

CONSTANTS
    Servers,        \* server ids, each created at most once (SERIAL)
    Names,          \* container names
    ContainerName,  \* ContainerName[s]: createServer's sanitised name
    Matches,        \* Matches[n]: the names Docker's name filter finds for n
    Cmds,           \* HTTP requests that start, stop or delete a server
    MaxFaults,      \* bound of the model: disconnects, restarts of agent or master
    MaxErrors,      \* bound: failures of Docker that the code passes over
    NoCmd, NoServer

ASSUME LifecycleAssumption ==
    /\ ContainerName \in [Servers -> Names]
    /\ Matches \in [Names -> SUBSET Names]
    /\ \A n \in Names : n \in Matches[n]
    /\ MaxFaults \in Nat /\ MaxErrors \in Nat
    /\ NoCmd \notin Cmds /\ NoServer \notin Servers

VARIABLES
    row,        \* game_servers.status, or "absent" before and "gone" after
    api,        \* where the HTTP handler of a command is
    kind, srv,  \* what the command asks for, and of which server
    overlapped, \* a command was given before its server's last was over
    unwritten,  \* servers whose row missed the last write that was meant for it
    overtaken,  \* servers whose last report came before a handler's write
    link,       \* the agent is registered with the hub
    toAgent,    \* commands accepted for the agent and not yet read by it
    toMaster,   \* status reports sent and not yet read by the master
    task,       \* where the agent's goroutine for a command is
    target,     \* the container id the goroutine has looked up
    orphaned,   \* tasks whose Agent object belongs to a lost connection
    box,        \* Docker: the state of the container a start command made
    volumes,    \* Docker: the container names whose data volume exists
    faults,     \* disconnects and restarts so far
    errors      \* Docker calls that failed although they could be served

apiVars == <<row, api, kind, srv, overlapped, unwritten, overtaken>>
linkVars == <<link, toAgent, toMaster, orphaned, faults>>
docker == <<box, volumes, errors>>
vars == <<apiVars, linkVars, task, target, docker>>

Init ==
    /\ row = [s \in Servers |-> "absent"]
    /\ api = [c \in Cmds |-> "new"]
    /\ kind = [c \in Cmds |-> "start"]
    /\ srv = [c \in Cmds |-> NoServer]
    /\ overlapped = FALSE /\ unwritten = {} /\ overtaken = {}
    /\ link = TRUE /\ toAgent = <<>> /\ toMaster = <<>>
    /\ task = [c \in Cmds |-> "none"]
    /\ target = [c \in Cmds |-> NoCmd]
    /\ orphaned = {}
    /\ box = [c \in Cmds |-> "none"]
    /\ volumes = {}
    /\ faults = 0 /\ errors = 0

Exists(s) == row[s] \notin {"absent", "gone"}

CmdName(c) == ContainerName[srv[c]]

Of(s) == {c \in Cmds : srv[c] = s}

(* A handler has sent its command and is still to write the row.           *)
Marking(s) == \E c \in Of(s) : api[c] = "mark"

(* A goroutine of the agent that still runs.                               *)
Active(c) == task[c] \notin {"none", "done", "dead"}

(* Nothing a command of s started is still going on anywhere.              *)
Settled(s) ==
    /\ \A c \in Cmds : srv[c] = s =>
        /\ api[c] \in {"done", "refused"}
        /\ ~Active(c)
        /\ ~Contains(toAgent, c)
    /\ \A i \in DOMAIN toMaster : toMaster[i].srv # s

-----------------------------------------------------------------------------
(* The master's REST handlers                                              *)

Create(s) ==
    /\ row[s] = "absent"
    /\ row' = [row EXCEPT ![s] = "stopped"]
    /\ UNCHANGED <<api, kind, srv, overlapped, unwritten, overtaken, linkVars,
                   task, target, docker>>

(* The SELECT of the handler: start and stop answer 404 without a row,     *)
(* delete goes on to its DELETE; if it fails, all of them answer 500.      *)
Issue(c, k, s) ==
    /\ api[c] = "new" /\ row[s] # "absent"
    /\ overlapped' = (overlapped \/ ~Settled(s))
    /\ kind' = [kind EXCEPT ![c] = k]
    /\ srv' = [srv EXCEPT ![c] = s]
    /\ \/ api' = [api EXCEPT ![c] = "refused"]
       \/ Exists(s) /\ api' = [api EXCEPT ![c] = "send"]
       \/ ~Exists(s) /\ k = "delete" /\ api' = [api EXCEPT ![c] = "mark"]
    /\ UNCHANGED <<row, unwritten, overtaken, linkVars, task, target, docker>>

(* SendToAgent: deleteServer ignores what it returns.                      *)
Send(c) ==
    /\ api[c] = "send"
    /\ toAgent' = IF link THEN Append(toAgent, c) ELSE toAgent
    /\ api' = [api EXCEPT ![c] =
                  IF link \/ kind[c] = "delete" THEN "mark" ELSE "refused"]
    /\ UNCHANGED <<row, kind, srv, overlapped, unwritten, overtaken, link,
                   toMaster, orphaned, faults, task, target, docker>>

(* An UPDATE or DELETE of a server's row, whose error nobody looks at; one *)
(* that finds no row is no error.                                          *)
WriteRow(s, status) ==
    \/ /\ row' = IF Exists(s) THEN [row EXCEPT ![s] = status] ELSE row
       /\ unwritten' = unwritten \ {s}
    \/ row' = row /\ unwritten' = unwritten \cup {s}

Announced == [start |-> "starting", stop |-> "stopping", delete |-> "gone"]

(* The UPDATE or DELETE that follows the send.                             *)
Mark(c) ==
    /\ api[c] = "mark"
    /\ WriteRow(srv[c], Announced[kind[c]])
    /\ api' = [api EXCEPT ![c] = "done"]
    /\ UNCHANGED <<kind, srv, overlapped, overtaken, linkVars, task, target,
                   docker>>

(* agentReader on a server_status.                                         *)
ReadReport ==
    /\ toMaster # <<>>
    /\ LET m == Head(toMaster) IN
        /\ WriteRow(m.srv, m.status)
        /\ overtaken' = IF Marking(m.srv) THEN overtaken \cup {m.srv}
                        ELSE overtaken \ {m.srv}
    /\ toMaster' = Tail(toMaster)
    /\ UNCHANGED <<api, kind, srv, overlapped, link, toAgent, orphaned, faults,
                   task, target, docker>>

-----------------------------------------------------------------------------
(* The connection                                                          *)

(* The connection is lost with what is under way on it.  Goroutines the    *)
(* agent runs go on, but they report to the Agent object of the lost       *)
(* connection, whose send channel nobody reads any more.                   *)
Disconnect ==
    /\ link /\ faults < MaxFaults
    /\ link' = FALSE
    /\ toAgent' = <<>> /\ toMaster' = <<>>
    /\ orphaned' = {c \in Cmds : Active(c)}
    /\ faults' = faults + 1
    /\ UNCHANGED <<apiVars, task, target, docker>>

(* The agent process is restarted; containers and volumes stay.            *)
AgentRestart ==
    /\ faults < MaxFaults
    /\ link' = FALSE
    /\ toAgent' = <<>> /\ toMaster' = <<>>
    /\ task' = [c \in Cmds |-> IF Active(c) THEN "dead" ELSE task[c]]
    /\ orphaned' = {}
    /\ faults' = faults + 1
    /\ UNCHANGED <<apiVars, target, docker>>

(* The master process ends and is started again: handlers stop where they  *)
(* are, before or after their send, and the connection is lost.            *)
MasterRestart ==
    /\ faults < MaxFaults
    /\ api' = [c \in Cmds |-> IF api[c] \in {"send", "mark"} THEN "done" ELSE api[c]]
    /\ unwritten' = unwritten \cup {s \in Servers : Marking(s)}
    /\ link' = FALSE
    /\ toAgent' = <<>> /\ toMaster' = <<>>
    /\ orphaned' = {c \in Cmds : Active(c)}
    /\ faults' = faults + 1
    /\ UNCHANGED <<row, kind, srv, overlapped, overtaken, task, target, docker>>

Reconnect ==
    /\ ~link
    /\ link' = TRUE
    /\ UNCHANGED <<apiVars, toAgent, toMaster, orphaned, faults, task, target,
                   docker>>

(* Agent.reader hands every message to a goroutine of its own.             *)
Dispatch ==
    /\ toAgent # <<>>
    /\ LET c == Head(toAgent) IN
        task' = [task EXCEPT ![c] =
                    IF kind[c] = "start" THEN "volume" ELSE "list"]
    /\ toAgent' = Tail(toAgent)
    /\ UNCHANGED <<apiVars, link, toMaster, orphaned, faults, target, docker>>

(* sendMessage, at the end of a handler.                                   *)
Report(c, status) ==
    /\ task' = [task EXCEPT ![c] = "done"]
    /\ toMaster' = IF c \in orphaned THEN toMaster
                   ELSE Append(toMaster, [srv |-> srv[c], status |-> status])
    /\ UNCHANGED <<apiVars, link, toAgent, orphaned, faults>>

Step(c, from, to) ==
    /\ task[c] = from
    /\ task' = [task EXCEPT ![c] = to]
    /\ UNCHANGED <<apiVars, linkVars>>

-----------------------------------------------------------------------------
(* Docker, as the code uses it                                             *)

Present == {d \in Cmds : box[d] \in {"created", "running", "exited"}}
Up      == {d \in Cmds : box[d] = "running"}

(* ContainerList with a name filter, which matches substrings.             *)
Found(n, among) == {d \in among : CmdName(d) \in Matches[n]}

(* ContainerStop and ContainerRemove of an id that is gone are errors.     *)
StopBox(d) ==
    box' = [box EXCEPT ![d] = IF @ = "running" THEN "exited" ELSE @]

RemoveBox(d, force) ==
    box' = [box EXCEPT ![d] =
               IF @ = "none" \/ (@ = "running" /\ ~force) THEN @ ELSE "removed"]

-----------------------------------------------------------------------------
(* StartContainer, one Docker call per step                                *)

VolumeCreate(c) ==
    /\ Step(c, "volume", "pull")
    /\ volumes' = volumes \cup {CmdName(c)}
    /\ UNCHANGED <<target, box, errors>>

ImagePull(c) ==
    /\ Step(c, "pull", "clear")
    /\ UNCHANGED <<target, docker>>

(* removeContainerByName: the first container the filter finds.            *)
ClearList(c) ==
    /\ task[c] = "clear"
    /\ \/ /\ Found(CmdName(c), Present) = {}
          /\ Step(c, "clear", "create")
          /\ UNCHANGED target
       \/ \E d \in Found(CmdName(c), Present) :
            /\ Step(c, "clear", "clearstop")
            /\ target' = [target EXCEPT ![c] = d]
    /\ UNCHANGED docker

ClearStop(c) ==
    /\ Step(c, "clearstop", "clearremove")
    /\ StopBox(target[c])
    /\ UNCHANGED <<target, volumes, errors>>

ClearRemove(c) ==
    /\ Step(c, "clearremove", "create")
    /\ RemoveBox(target[c], FALSE)
    /\ UNCHANGED <<target, volumes, errors>>

(* Slip: the data volume is not bound to the container.                    *)
ContainerCreateUnbound(c) ==
    /\ Step(c, "create", "start")
    /\ \A d \in Present : CmdName(d) # CmdName(c)
    /\ box' = [box EXCEPT ![c] = "created"]
    /\ UNCHANGED <<target, volumes, errors>>

(* A name is free for one container; a bound volume is made if it is gone. *)
ContainerCreate(c) ==
    /\ Step(c, "create", "start")
    /\ \A d \in Present : CmdName(d) # CmdName(c)
    /\ box' = [box EXCEPT ![c] = "created"]
    /\ volumes' = volumes \cup {CmdName(c)}
    /\ UNCHANGED <<target, errors>>

ContainerStart(c) ==
    /\ box[c] = "created"
    /\ Step(c, "start", "started")
    /\ box' = [box EXCEPT ![c] = "running"]
    /\ UNCHANGED <<target, volumes, errors>>

(* Slip: the error is logged and the start reported as done.               *)
StartFailsIgnored(c) ==
    /\ task[c] \in {"pull", "create", "start"}
    /\ Report(c, "running")
    /\ UNCHANGED <<target, docker>>

(* Slip: the error is logged and nothing is reported.                      *)
StartFailsSilent(c) ==
    /\ \/ Step(c, "pull", "done") \/ Step(c, "create", "done")
       \/ Step(c, "start", "done")
    /\ UNCHANGED <<target, docker>>

(* The pull, the create (for one, the name is taken) or the start (the     *)
(* container is gone, its port is taken) fails.                            *)
StartFails(c) ==
    /\ task[c] \in {"pull", "create", "start"}
    /\ Report(c, "error")
    /\ UNCHANGED <<target, docker>>

StartReport(c) ==
    /\ task[c] = "started"
    /\ Report(c, "running")
    /\ UNCHANGED <<target, docker>>

-----------------------------------------------------------------------------
(* StopContainer and DeleteContainer                                       *)

(* Slip: delete, too, lists running containers only.                       *)
ListedRunning(c) == Found(CmdName(c), Up)

(* Stop lists running containers only, delete all of them.                 *)
Listed(c) == Found(CmdName(c), IF kind[c] = "stop" THEN Up ELSE Present)

List(c) ==
    /\ task[c] = "list"
    /\ \/ \E d \in Listed(c) :
            /\ Step(c, "list", "stop")
            /\ target' = [target EXCEPT ![c] = d]
       \/ /\ Listed(c) = {} /\ kind[c] = "delete"
          /\ Step(c, "list", "volrm")
          /\ UNCHANGED target
       \/ /\ Listed(c) = {} /\ kind[c] = "stop"
          /\ Report(c, "error")
          /\ UNCHANGED target
    /\ UNCHANGED docker

StopContainer(c) ==
    /\ task[c] = "stop"
    /\ \/ kind[c] = "delete" /\ Step(c, "stop", "remove")
       \/ /\ kind[c] = "stop" /\ box[target[c]] # "removed"
          /\ Step(c, "stop", "stopped")
       \/ /\ kind[c] = "stop" /\ box[target[c]] = "removed"
          /\ Report(c, "error")
    /\ StopBox(target[c])
    /\ UNCHANGED <<target, volumes, errors>>

StopReport(c) ==
    /\ task[c] = "stopped"
    /\ Report(c, "stopped")
    /\ UNCHANGED <<target, docker>>

RemoveContainer(c) ==
    /\ Step(c, "remove", "volrm")
    /\ RemoveBox(target[c], TRUE)
    /\ UNCHANGED <<target, volumes, errors>>

(* A volume a container uses is not removed; the error is only logged.     *)
VolumeRemove(c) ==
    /\ Step(c, "volrm", "deleted")
    /\ volumes' = IF \E d \in Present : CmdName(d) = CmdName(c)
                  THEN volumes ELSE volumes \ {CmdName(c)}
    /\ UNCHANGED <<target, box, errors>>

DeleteReport(c) ==
    /\ task[c] = "deleted"
    /\ Report(c, "deleted")
    /\ UNCHANGED <<target, docker>>

-----------------------------------------------------------------------------
(* A Docker call fails and changes nothing.  StartContainer only warns     *)
(* about its volume, removeContainerByName gives up when it cannot list    *)
(* and does not look at its other errors, DeleteContainer looks at none;   *)
(* StopContainer reports both of its own.                                  *)
DockerError(c) ==
    /\ errors < MaxErrors
    /\ errors' = errors + 1
    /\ \/ Step(c, "volume", "pull")
       \/ Step(c, "clear", "create")
       \/ Step(c, "clearstop", "clearremove")
       \/ Step(c, "clearremove", "create")
       \/ kind[c] = "delete" /\ Step(c, "list", "volrm")
       \/ kind[c] = "delete" /\ Step(c, "stop", "remove")
       \/ Step(c, "remove", "volrm")
       \/ Step(c, "volrm", "deleted")
       \/ /\ kind[c] = "stop" /\ task[c] \in {"list", "stop"}
          /\ Report(c, "error")
    /\ UNCHANGED <<target, box, volumes>>

-----------------------------------------------------------------------------

Api(c) ==
    \/ \E k \in {"start", "stop", "delete"}, s \in Servers : Issue(c, k, s)
    \/ Send(c) \/ Mark(c)

Task(c) ==
    \/ VolumeCreate(c) \/ ImagePull(c) \/ ClearList(c) \/ ClearStop(c)
    \/ ClearRemove(c) \/ ContainerCreate(c) \/ ContainerStart(c)
    \/ StartFails(c) \/ StartReport(c)
    \/ List(c) \/ StopContainer(c) \/ StopReport(c)
    \/ RemoveContainer(c) \/ VolumeRemove(c) \/ DeleteReport(c)
    \/ DockerError(c)

Network ==
    \/ Disconnect \/ AgentRestart \/ MasterRestart \/ Reconnect
    \/ Dispatch \/ ReadReport

Next ==
    \/ \E s \in Servers : Create(s)
    \/ \E c \in Cmds : Api(c) \/ Task(c)
    \/ Network

Spec == Init /\ [][Next]_vars

-----------------------------------------------------------------------------
(* Properties                                                              *)

Rows == {"absent", "stopped", "starting", "running", "stopping", "error",
         "deleted", "gone"}

Stages == {"none", "volume", "pull", "clear", "clearstop", "clearremove",
           "create", "start", "started", "list", "stop", "stopped", "remove",
           "volrm", "deleted", "done", "dead"}

Reports == [srv : Servers, status : {"running", "stopped", "error", "deleted"}]

(* The values every variable ranges over.                                  *)
TypeOK ==
    /\ row \in [Servers -> Rows]
    /\ api \in [Cmds -> {"new", "send", "mark", "done", "refused"}]
    /\ kind \in [Cmds -> {"start", "stop", "delete"}]
    /\ srv \in [Cmds -> Servers \cup {NoServer}]
    /\ overlapped \in BOOLEAN /\ link \in BOOLEAN
    /\ unwritten \subseteq Servers /\ overtaken \subseteq Servers
    /\ toAgent \in Seq(Cmds)
    /\ toMaster \in Seq(Reports)
    /\ task \in [Cmds -> Stages]
    /\ target \in [Cmds -> Cmds \cup {NoCmd}]
    /\ orphaned \subseteq Cmds
    /\ box \in [Cmds -> {"none", "created", "running", "exited", "removed"}]
    /\ volumes \subseteq Names
    /\ faults \in 0 .. MaxFaults /\ errors \in 0 .. MaxErrors

IsUp(s) == \E d \in Up : CmdName(d) = ContainerName[s]

(* If every command was given when the last one of its server was over,    *)
(* then, whichever connections were lost, processes restarted and calls of *)
(* Docker failed, once everything has come to its end a server shown as    *)
(* running runs and one shown as stopped does not: unless the last write   *)
(* to its row never came about.  (That it failed goes unnoticed:           *)
(* api_servers.go 342, 368, 402, websocket.go 164-174; or the master ended *)
(* between the send and the write.)  The next write that lands makes up    *)
(* for it.                                                                 *)
RowIsTrue ==
    \A s \in Servers : ~overlapped /\ Settled(s) /\ s \notin unwritten =>
        /\ row[s] = "running" => IsUp(s)
        /\ row[s] = "stopped" => ~IsUp(s)

(* Every command the agent was given is answered, whatever overlaps and    *)
(* whatever Docker does, and the answer is the last word: if no connection *)
(* was lost and nothing restarted, a row rests on "starting" or "stopping" *)
(* only if its last write failed or the handler wrote that (api_servers.go *)
(* 368, 402) when a report had already been read.                          *)
RowComesToRest ==
    \A s \in Servers :
        /\ faults = 0 /\ Settled(s) /\ s \notin unwritten \cup overtaken
        => row[s] \notin {"starting", "stopping"}

(* When a delete has come to its end, no connection was lost, nothing was  *)
(* restarted and Docker did as told, neither a container nor a volume of   *)
(* the server is left: a row goes only when the DELETE has succeeded.      *)
NoOrphan ==
    \A s \in Servers :
        /\ ~overlapped /\ faults = 0 /\ errors = 0
        /\ Settled(s) /\ row[s] = "gone"
        => /\ \A d \in Present : CmdName(d) # ContainerName[s]
           /\ ContainerName[s] \notin volumes

(* Whatever overlaps, a container that can run has its data volume.        *)
VolumeUnderContainer == \A d \in Present : CmdName(d) \in volumes

(* A row that says running goes back to a container that was started for   *)
(* that very server.                                                       *)
RunningWasStarted ==
    \A s \in Servers : row[s] = "running" =>
        \E c \in Cmds : /\ srv[c] = s
                        /\ box[c] \in {"running", "exited", "removed"}
=============================================================================
