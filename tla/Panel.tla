------------------------------- MODULE Panel -------------------------------
(***************************************************************************)
(* One browser's view of the servers and its Save & Restart (ui/js/app.js, *)
(* ui/js/server.js): a poll every five seconds whose answer replaces every *)
(* status, live messages that change one, and pendingRestart, which turns  *)
(* the next "stopped" of a server into a start.  Other browsers send       *)
(* commands too.                                                           *)
(*                                                                         *)
(* The master's handlers are two steps (the command is sent, the row is    *)
(* marked), as in ServerLifecycle; of the agent only what a command does   *)
(* to a container that is or is not up.  Equal things under way need no    *)
(* names: they are counted.  A definition whose comment starts with "Slip" *)
(* is the next one with a mistake in it.                                   *)
(***************************************************************************)
EXTENDS Browser, Naturals, Sequences, SequencesExt

CONSTANTS
    MaxEvents,  \* bound of the model: clicks, here or in other browsers, and
                \* lost connections, reloads, failing requests and calls
    MaxPolls    \* bound: answers of the poll under way at once

ASSUME PanelAssumption == MaxEvents \in Nat /\ MaxPolls \in Nat \ {0}

VARIABLES
    row,        \* game_servers.status
    up,         \* Docker: the server's container runs
    send,       \* send[k, s]: requests whose handler has not sent the command yet
    mark,       \* mark[k, s]: handlers that have yet to write the status
    tasks,      \* tasks[k, s]: commands the agent has not carried out yet
    relay,      \* reports stored by the master, on their way to the browser
    live,       \* the browser's websocket is open
    shown,      \* the statuses of state.servers, or of the servers it held before
    listed,     \* state.servers is a list of servers
    pend,       \* state.pendingRestart
    saving,     \* saving[s]: saveAndRestart calls that await the save of s
    polls,      \* answers to loadData on their way, oldest first: past rows
    events,
    owed,       \* history: restarts clicked, with no start carried out since
    hurried,    \* history: something overlapped a restart, or failed
    misled      \* history: a restart was decided on a status that was not so

master == <<row, up, send, mark, tasks>>
view == <<live, shown, listed, relay, polls>>
flow == <<pend, saving>>
history == <<owed, hurried, misled>>
panelVars == <<master, view, flow, events, history>>

Commands == {"start", "stop"} \X Servers
Statuses == {"stopped", "starting", "running", "stopping", "error"}
None == [k \in Commands |-> 0]

PanelInit ==
    /\ up \in [Servers -> BOOLEAN]
    /\ row = [s \in Servers |-> IF up[s] THEN "running" ELSE "stopped"]
    /\ send = None /\ mark = None /\ tasks = None
    /\ relay = <<>> /\ live = TRUE
    /\ shown = row /\ listed = TRUE
    /\ pend = NoServer
    /\ saving = [s \in Servers |-> 0]
    /\ polls = <<>>
    /\ events = 0
    /\ owed = {} /\ hurried = FALSE /\ misled = FALSE

(* Something a click on the server began is not over yet, as far as the    *)
(* user can tell.                                                          *)
Busy(s) ==
    \/ \E k \in {"start", "stop"} : send[<<k, s>>] + mark[<<k, s>>] + tasks[<<k, s>>] > 0
    \/ \E j \in DOMAIN relay : relay[j].srv = s
    \/ saving[s] > 0 \/ pend = s \/ s \in owed

Plus(f, k) == [f EXCEPT ![k] = @ + 1]
Minus(f, k) == [f EXCEPT ![k] = @ - 1]
Under(f) == {k \in DOMAIN f : f[k] > 0}

Event(overlaps) ==
    /\ events < MaxEvents /\ events' = events + 1
    /\ hurried' = (hurried \/ overlaps)

Fault == Event(TRUE)

-----------------------------------------------------------------------------
(* The user.  What is selected (state.selectedServer) matters only when a  *)
(* function reads it, and the user may have selected anything by then.     *)

(* startServer, stopServer, of this browser or another.                    *)
Command(k, s) ==
    /\ send' = Plus(send, <<k, s>>)
    /\ Event(Busy(s))
    /\ UNCHANGED <<row, up, mark, tasks, view, flow, owed, misled>>

(* saveAndRestart up to the answer to the PUT of saveServerConfig.  There  *)
(* is one pendingRestart: a patient user restarts one server at a time.    *)
SaveAndRestart(s) ==
    /\ shown[s] # "unknown"
    /\ saving' = Plus(saving, s)
    /\ owed' = owed \cup {s}
    /\ Event(Busy(s) \/ owed # {} \/ pend # NoServer)
    /\ UNCHANGED <<master, view, pend, misled>>

On == {"running", "starting"}

(* Slip: pendingRestart is set only when the stop has been answered.       *)
ResumeUnset(s, t) ==
    /\ saving[s] > 0
    /\ saving' = Minus(saving, s)
    /\ hurried' = (hurried \/ t # s)
    /\ send' = IF t = NoServer THEN send
               ELSE Plus(send, <<IF shown[t] \in On THEN "stop" ELSE "start", t>>)
    /\ UNCHANGED <<row, up, mark, tasks, view, pend, events, owed, misled>>

(* The rest of it: the selection t and its status are read again.  Without *)
(* a selection the function throws.                                        *)
Resume(s, t) ==
    /\ saving[s] > 0
    /\ saving' = Minus(saving, s)
    /\ hurried' = (hurried \/ t # s)
    /\ IF t = NoServer THEN UNCHANGED <<send, pend, misled>>
       ELSE LET on == shown[t] \in On IN
            /\ pend' = IF on THEN t ELSE pend
            /\ send' = Plus(send, <<IF on THEN "stop" ELSE "start", t>>)
            /\ misled' = (misled \/ on # up[t])
    /\ UNCHANGED <<row, up, mark, tasks, view, events, owed>>

(* The PUT fails on the way: the promise is rejected and nothing follows.  *)
SaveThrows(s) ==
    /\ saving[s] > 0 /\ Fault
    /\ saving' = Minus(saving, s)
    /\ UNCHANGED <<master, view, pend, owed, misled>>

-----------------------------------------------------------------------------
(* Master and agent                                                        *)

(* startServer and stopServer of the master: SendToAgent, then the UPDATE. *)
HandlerSends(k) ==
    /\ send[k] > 0
    /\ send' = Minus(send, k) /\ mark' = Plus(mark, k) /\ tasks' = Plus(tasks, k)
    /\ UNCHANGED <<row, up, view, flow, events, history>>

(* 503, agent not connected; or the request does not get through.          *)
HandlerRefuses(k) ==
    /\ send[k] > 0 /\ Fault
    /\ send' = Minus(send, k)
    /\ UNCHANGED <<row, up, mark, tasks, view, flow, owed, misled>>

(* The UPDATE of a row, whose error nobody looks at.                       *)
WriteRow(s, status) == row' \in {row, [row EXCEPT ![s] = status]}

HandlerMarks(k) ==
    /\ mark[k] > 0
    /\ mark' = Minus(mark, k)
    /\ WriteRow(k[2], IF k[1] = "start" THEN "starting" ELSE "stopping")
    /\ UNCHANGED <<up, send, tasks, view, flow, events, history>>

(* agentReader stores a report and passes it to the hub.                   *)
Report(s, status) ==
    /\ WriteRow(s, status)
    /\ relay' = Append(relay, [srv |-> s, status |-> status])

(* handleStartServer, handleStopServer: a start replaces a container that  *)
(* runs, a stop of one that does not run is an error.                      *)
StopReport(s) == IF up[s] THEN "stopped" ELSE "error"

AgentActs(k) ==
    LET s == k[2] IN
    /\ tasks[k] > 0
    /\ tasks' = Minus(tasks, k)
    /\ Report(s, IF k[1] = "start" THEN "running" ELSE StopReport(s))
    /\ up' = [up EXCEPT ![s] = (k[1] = "start")]
    /\ owed' = IF k[1] = "start" THEN owed \ {s} ELSE owed
    /\ UNCHANGED <<send, mark, live, shown, listed, polls, flow, events, hurried, misled>>

(* A Docker call fails, or the agent ends, at any point of the command.    *)
AgentFails(k) ==
    /\ tasks[k] > 0 /\ Fault
    /\ tasks' = Minus(tasks, k)
    /\ \E b \in BOOLEAN : up' = [up EXCEPT ![k[2]] = b]
    /\ \/ Report(k[2], "error")
       \/ UNCHANGED <<row, relay>>
    /\ UNCHANGED <<send, mark, live, shown, listed, polls, flow, owed, misled>>

-----------------------------------------------------------------------------
(* What reaches the browser                                                *)

(* Slip: pendingRestart is kept when the start is sent.                    *)
MessageKeepsPending ==
    /\ live /\ relay # <<>>
    /\ relay' = Tail(relay)
    /\ LET m == Head(relay) IN
        IF ~listed THEN UNCHANGED <<shown, pend, send>>
        ELSE /\ shown' = [shown EXCEPT ![m.srv] = m.status]
             /\ pend' = pend
             /\ send' = IF m.status = "stopped" /\ pend = m.srv
                        THEN Plus(send, <<"start", m.srv>>) ELSE send
    /\ UNCHANGED <<row, up, mark, tasks, live, listed, polls, saving, events, history>>

(* handleWsMessage, server_status.  Without a list it throws, or finds     *)
(* nothing.                                                                *)
Message ==
    /\ live /\ relay # <<>>
    /\ relay' = Tail(relay)
    /\ LET m == Head(relay)
           due == m.status = "stopped" /\ pend = m.srv
       IN  IF ~listed THEN UNCHANGED <<shown, pend, send>>
           ELSE /\ shown' = [shown EXCEPT ![m.srv] = m.status]
                /\ pend' = IF due THEN NoServer ELSE pend
                /\ send' = IF due THEN Plus(send, <<"start", m.srv>>) ELSE send
    /\ UNCHANGED <<row, up, mark, tasks, live, listed, polls, saving, events, history>>

(* Hub.Run has no connection to write it to.                               *)
MessageLost ==
    /\ ~live /\ relay # <<>>
    /\ relay' = Tail(relay)
    /\ UNCHANGED <<master, live, shown, listed, polls, flow, events, history>>

(* The websocket closes with a part of what was under way.                 *)
SocketLost ==
    /\ live /\ Fault
    /\ live' = FALSE
    /\ \E n \in 0 .. Len(relay) : relay' = SubSeq(relay, n + 1, Len(relay))
    /\ UNCHANGED <<master, shown, listed, polls, flow, owed, misled>>

(* connectWebSocket, three seconds after a close: nothing is sent again.   *)
SocketBack ==
    /\ ~live
    /\ live' = TRUE
    /\ UNCHANGED <<master, shown, listed, relay, polls, flow, events, history>>

(* The page is loaded anew: the requests it awaits and its state are gone. *)
Reload ==
    /\ Fault
    /\ live' = FALSE
    /\ shown' = [s \in Servers |-> "unknown"] /\ listed' = FALSE
    /\ pend' = NoServer
    /\ saving' = [s \in Servers |-> 0]
    /\ polls' = <<>>
    /\ UNCHANGED <<master, relay, owed, misled>>

(* loadData: listServers reads the rows, and its answer arrives later.     *)
PollAnswered ==
    /\ Len(polls) < MaxPolls
    /\ polls' = Append(polls, row)
    /\ UNCHANGED <<master, live, shown, listed, relay, flow, events, history>>

(* Slip: only the statuses not known yet are taken over.                   *)
PollFills(j) ==
    /\ j \in DOMAIN polls
    /\ polls' = RemoveAt(polls, j)
    /\ shown' = [s \in Servers |-> IF shown[s] = "unknown" THEN polls[j][s]
                                                           ELSE shown[s]]
    /\ listed' = TRUE
    /\ UNCHANGED <<master, live, relay, flow, events, history>>

PollArrives(j) ==
    /\ j \in DOMAIN polls
    /\ polls' = RemoveAt(polls, j)
    /\ shown' = polls[j] /\ listed' = TRUE
    /\ UNCHANGED <<master, live, relay, flow, events, history>>

(* The answer is an error, which loadData takes for the list.              *)
PollSpoilt(j) ==
    /\ j \in DOMAIN polls /\ Fault
    /\ polls' = RemoveAt(polls, j)
    /\ listed' = FALSE
    /\ UNCHANGED <<master, live, shown, relay, flow, owed, misled>>

-----------------------------------------------------------------------------
Machine ==
    \/ \E s \in Under(saving), t \in Servers \cup {NoServer} : Resume(s, t)
    \/ \E k \in Under(send) : HandlerSends(k)
    \/ \E k \in Under(mark) : HandlerMarks(k)
    \/ \E k \in Under(tasks) : AgentActs(k)
    \/ Message \/ MessageLost \/ SocketBack

PanelNext ==
    \/ \E k \in {"start", "stop"}, s \in Servers : Command(k, s)
    \/ \E s \in Servers : SaveAndRestart(s)
    \/ Machine
    \/ PollAnswered
    \/ \E j \in 1 .. MaxPolls : PollArrives(j) \/ PollSpoilt(j)
    \/ \E s \in Under(saving) : SaveThrows(s)
    \/ \E k \in Under(send) : HandlerRefuses(k)
    \/ \E k \in Under(tasks) : AgentFails(k)
    \/ SocketLost \/ Reload

PanelSpec == PanelInit /\ [][PanelNext]_panelVars

(* What has begun goes on, and the poll comes round every five seconds;    *)
(* nobody has to click, and nothing has to fail.                           *)
PanelFairSpec ==
    /\ PanelSpec
    /\ WF_panelVars(Machine)
    /\ WF_panelVars(PollAnswered)
    /\ WF_panelVars(PollArrives(1))

-----------------------------------------------------------------------------
PanelTypeOK ==
    /\ row \in [Servers -> Statuses] /\ up \in [Servers -> BOOLEAN]
    /\ {send, mark, tasks} \subseteq [Commands -> Nat]
    /\ relay \in Seq([srv : Servers, status : {"running", "stopped", "error"}])
    /\ {live, listed} \subseteq BOOLEAN
    /\ listed => \A s \in Servers : shown[s] # "unknown"
    /\ shown \in [Servers -> Statuses \cup {"unknown"}]
    /\ pend \in Servers \cup {NoServer}
    /\ saving \in [Servers -> Nat]
    /\ polls \in Seq([Servers -> Statuses])
    /\ owed \subseteq Servers /\ {hurried, misled} \subseteq BOOLEAN

(* For a user who lets a restart finish, the browser holds a restart back  *)
(* only for a server whose restart was clicked and that has not started    *)
(* since: no later stop of it is turned into a start (app.js:70).          *)
PendingIsOwed == ~hurried => (pend = NoServer \/ pend \in owed)

(* Save & Restart ends in a start, whatever the order of the answer to the *)
(* stop, the handler's "stopping", the report and the polls (server.js 222,*)
(* app.js 70): unless commands overlapped, something failed, or the status *)
(* on which it chose between stop and start was not the server's.          *)
RestartComes ==
    \A s \in Servers : s \in owed ~> (s \notin owed \/ hurried \/ misled)

(* The browser comes to show what the master has stored, although messages *)
(* are lost with the websocket, a poll answers with rows older than the    *)
(* messages it overwrites, or with an error (app.js 18, loadData).         *)
ViewConverges == []<>(shown = row)
=============================================================================
