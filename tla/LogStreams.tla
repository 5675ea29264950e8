----------------------------- MODULE LogStreams -----------------------------
(***************************************************************************)
(* Live logs: the browser opens and closes a server's panel                *)
(* (ui/js/server.js, ui/js/app.js), its requests reach the agent in order, *)
(* and the agent runs one goroutine per request, which meet in             *)
(* DockerManager.logStreams, the map from a server to the cancel function  *)
(* of its stream (agent/agent.go, agent/docker.go).                        *)
(*                                                                         *)
(* A request and the stream it starts have one name, a member of Reqs.  A  *)
(* definition whose comment starts with "Slip" is the next one with a      *)
(* mistake in it.                                                          *)
(***************************************************************************)
EXTENDS Browser, Naturals, Sequences

CONSTANTS
    Reqs,           \* bound of the model: the requests the browser makes
    MaxDrops,       \* bound: requests lost while the browser's socket is down
    MaxReconnects,  \* bound: times the agent reconnects
    NoReq

ASSUME LogStreamsAssumption ==
    /\ NoReq \notin Reqs
    /\ MaxDrops \in Nat /\ MaxReconnects \in Nat

VARIABLES
    selected,   \* state.selectedServer in the browser
    hasty,      \* a panel was left otherwise than by closing it, or the
                \* next click came before the last had taken effect
    at,         \* where a request, and then its goroutine, is
    kind, srv,  \* start or stop, and the server_id it carries
    wire,       \* requests on their way to the agent
    entry,      \* logStreams, one per server
    cancelled,  \* streams whose context is cancelled
    old,        \* streams of a DockerManager the agent has replaced
    drops, reconnects

ui == <<selected, hasty, kind, srv, drops>>
vars == <<ui, at, wire, entry, cancelled, old, reconnects>>

Init ==
    /\ selected = NoServer /\ hasty = FALSE
    /\ at = [r \in Reqs |-> "new"]
    /\ kind = [r \in Reqs |-> "start"]
    /\ srv = [r \in Reqs |-> NoServer]
    /\ wire = <<>>
    /\ entry = [s \in Servers |-> NoReq]
    /\ cancelled = {} /\ old = {}
    /\ drops = 0 /\ reconnects = 0

(* Only streams that nobody has cancelled are still under way.             *)
Settled ==
    \A r \in Reqs : \/ at[r] \in {"new", "done", "dropped"}
                    \/ at[r] = "stream" /\ r \notin cancelled

-----------------------------------------------------------------------------
(* The browser                                                             *)

(* openServer up to its await: the panel shows s, old log lines are        *)
(* fetched.  Whatever was open before is not told to stop.                 *)
OpenServer(r, s) ==
    /\ at[r] = "new"
    /\ hasty' = (hasty \/ ~Settled \/ selected # NoServer)
    /\ selected' = s
    /\ at' = [at EXCEPT ![r] = "fetch"]
    /\ kind' = [kind EXCEPT ![r] = "start"]
    /\ srv' = [srv EXCEPT ![r] = s]
    /\ UNCHANGED <<wire, entry, cancelled, old, drops, reconnects>>

(* wsSend: dropped without a word while the socket is not open.            *)
WsSend(r) ==
    \/ /\ wire' = Append(wire, r)
       /\ at' = [at EXCEPT ![r] = "wire"]
       /\ UNCHANGED drops
    \/ /\ drops < MaxDrops
       /\ drops' = drops + 1
       /\ at' = [at EXCEPT ![r] = "dropped"]
       /\ UNCHANGED wire

(* openServer after its await: server_id is the argument it was called     *)
(* with, container_name that of the server selected by now (the model does *)
(* not tell containers apart); with none selected it throws.               *)
SendStart(r) ==
    /\ at[r] = "fetch"
    /\ IF selected = NoServer
       THEN at' = [at EXCEPT ![r] = "dropped"] /\ UNCHANGED <<wire, drops>>
       ELSE WsSend(r)
    /\ UNCHANGED <<selected, hasty, kind, srv, entry, cancelled, old,
                   reconnects>>

CloseServer(r) ==
    /\ at[r] = "new" /\ selected # NoServer
    /\ hasty' = (hasty \/ ~Settled)
    /\ kind' = [kind EXCEPT ![r] = "stop"]
    /\ srv' = [srv EXCEPT ![r] = selected]
    /\ selected' = NoServer
    /\ WsSend(r)
    /\ UNCHANGED <<entry, cancelled, old, reconnects>>

(* switchMainView and openAgent leave the panel without a stop.            *)
LeaveServer ==
    /\ selected # NoServer
    /\ selected' = NoServer /\ hasty' = TRUE
    /\ UNCHANGED <<at, kind, srv, wire, entry, cancelled, old, drops,
                   reconnects>>

-----------------------------------------------------------------------------
(* The agent                                                               *)

(* Agent.reader: go handleMessage.                                         *)
Dispatch ==
    /\ wire # <<>>
    /\ at' = [at EXCEPT ![Head(wire)] = "spawned"]
    /\ wire' = Tail(wire)
    /\ UNCHANGED <<ui, entry, cancelled, old, reconnects>>

(* StreamLogs takes the server's place in the map from the stream that has *)
(* it, and cancels that one.                                               *)
Register(r) ==
    /\ at[r] = "spawned" /\ kind[r] = "start"
    /\ at' = [at EXCEPT ![r] = "list"]
    /\ IF r \in old
       THEN UNCHANGED <<entry, cancelled>>
       ELSE /\ cancelled' = cancelled \cup ({entry[srv[r]]} \ {NoReq})
            /\ entry' = [entry EXCEPT ![srv[r]] = r]
    /\ UNCHANGED <<ui, wire, old, reconnects>>

(* The container is found and its log followed.                            *)
Attach(r) ==
    /\ at[r] = "list" /\ r \notin cancelled
    /\ at' = [at EXCEPT ![r] = "stream"]
    /\ UNCHANGED <<ui, wire, entry, cancelled, old, reconnects>>

(* Slip: a cancelled context is only looked at before the log is followed. *)
StreamEndsLate(r) ==
    /\ at[r] = "list"
    /\ at' = [at EXCEPT ![r] = "end"]
    /\ UNCHANGED <<ui, wire, entry, cancelled, old, reconnects>>

(* The container is not there, its log ends, or the context is cancelled.  *)
StreamEnds(r) ==
    /\ at[r] \in {"list", "stream"}
    /\ at' = [at EXCEPT ![r] = "end"]
    /\ UNCHANGED <<ui, wire, entry, cancelled, old, reconnects>>

(* Slip: the place in the map is left to a stream that is over.            *)
DeregisterNot(r) ==
    /\ at[r] = "end"
    /\ at' = [at EXCEPT ![r] = "done"]
    /\ cancelled' = cancelled \cup {r}
    /\ UNCHANGED <<ui, wire, old, reconnects, entry>>

(* The defer of StreamLogs deletes the server's entry, whosever it is.     *)
Deregister(r) ==
    /\ at[r] = "end"
    /\ at' = [at EXCEPT ![r] = "done"]
    /\ cancelled' = cancelled \cup {r}
    /\ entry' = IF r \in old THEN entry
                ELSE [entry EXCEPT ![srv[r]] = NoReq]
    /\ UNCHANGED <<ui, wire, old, reconnects>>

(* Slip: the entry goes, its stream is not cancelled.                      *)
StopLogStreamOnlyForgets(r) ==
    /\ at[r] = "spawned" /\ kind[r] = "stop"
    /\ at' = [at EXCEPT ![r] = "done"]
    /\ entry' = IF r \in old THEN entry
                ELSE [entry EXCEPT ![srv[r]] = NoReq]
    /\ UNCHANGED <<ui, wire, old, reconnects, cancelled>>

StopLogStream(r) ==
    /\ at[r] = "spawned" /\ kind[r] = "stop"
    /\ at' = [at EXCEPT ![r] = "done"]
    /\ IF r \in old
       THEN UNCHANGED <<entry, cancelled>>
       ELSE /\ cancelled' = cancelled \cup ({entry[srv[r]]} \ {NoReq})
            /\ entry' = [entry EXCEPT ![srv[r]] = NoReq]
    /\ UNCHANGED <<ui, wire, old, reconnects>>

(* A new Agent has a new DockerManager with an empty map; goroutines of    *)
(* the old one go on, and what they send is read by nobody.                *)
Reconnect ==
    /\ reconnects < MaxReconnects
    /\ reconnects' = reconnects + 1
    /\ old' = {r \in Reqs : at[r] \in {"spawned", "list", "stream", "end"}}
    /\ entry' = [s \in Servers |-> NoReq]
    /\ wire' = <<>>
    /\ at' = [r \in Reqs |-> IF at[r] = "wire" THEN "dropped" ELSE at[r]]
    /\ UNCHANGED <<ui, cancelled>>

-----------------------------------------------------------------------------

AgentStep(r) ==
    \/ Register(r) \/ Attach(r) \/ StreamEnds(r) \/ Deregister(r)
    \/ StopLogStream(r)

BrowserStep(r) ==
    \/ \E s \in Servers : OpenServer(r, s)
    \/ SendStart(r) \/ CloseServer(r)

Next ==
    \/ \E r \in Reqs : BrowserStep(r) \/ AgentStep(r)
    \/ LeaveServer \/ Dispatch \/ Reconnect

Spec == Init /\ [][Next]_vars

(* Goroutines run; a log of a container that stays up ends only when its   *)
(* context is cancelled.                                                   *)
Fairness ==
    /\ WF_vars(Dispatch)
    /\ \A r \in Reqs :
        /\ WF_vars(Register(r) \/ Deregister(r) \/ StopLogStream(r))
        /\ WF_vars(Attach(r))
        /\ WF_vars(r \in cancelled /\ StreamEnds(r))

FairSpec == Spec /\ Fairness

-----------------------------------------------------------------------------
(* Properties                                                              *)

Stages == {"new", "fetch", "wire", "dropped", "spawned", "list", "stream",
           "end", "done"}

(* The values every variable ranges over; a request under way names a      *)
(* server.                                                                 *)
TypeOK ==
    /\ selected \in Servers \cup {NoServer} /\ hasty \in BOOLEAN
    /\ at \in [Reqs -> Stages]
    /\ kind \in [Reqs -> {"start", "stop"}]
    /\ srv \in [Reqs -> Servers \cup {NoServer}]
    /\ wire \in Seq(Reqs)
    /\ \A r \in Reqs : at[r] # "new" => srv[r] \in Servers
    /\ entry \in [Servers -> Reqs \cup {NoReq}]
    /\ cancelled \subseteq Reqs /\ old \subseteq Reqs
    /\ drops \in 0 .. MaxDrops /\ reconnects \in 0 .. MaxReconnects

(* The map only ever holds streams that still run and can be cancelled:    *)
(* a stop, or a newer stream, never calls a dead cancel function.          *)
EntryLive ==
    \A s \in Servers :
        LET r == entry[s] IN
        r # NoReq => /\ srv[r] = s /\ kind[r] = "start"
                     /\ at[r] \in {"list", "stream", "end"}
                     /\ r \notin cancelled \cup old

(* The streams whose lines reach the browsers as the log of s.             *)
Flowing(s) ==
    {r \in Reqs : /\ at[r] = "stream" /\ srv[r] = s
                  /\ r \notin cancelled \cup old}

(* No panel is left without a stop, none opened or closed before the last  *)
(* request has taken effect, and no request is lost on its way.            *)
Orderly == ~hasty /\ drops = 0

(* Then what is streamed is in the map, so that it can be stopped, and so  *)
(* one stream at most feeds a panel, across reconnections, ...             *)
StreamInMap ==
    Orderly => \A s \in Servers : \A r \in Flowing(s) : entry[s] = r

(* ... and when all is settled and no panel is open, nothing is streamed.  *)
ClosedMeansQuiet ==
    Orderly /\ Settled /\ selected = NoServer =>
        \A s \in Servers : Flowing(s) = {}

(* A cancelled stream comes to its end.                                    *)
CancelledEnds == \A r \in Reqs : r \in cancelled ~> at[r] = "done"
=============================================================================
