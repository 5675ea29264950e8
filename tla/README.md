# game-server-manager: a TLA+ model of the master and its agents

The system runs game servers in Docker on several hosts. A **master** (Go) keeps
every row in Postgres and routes messages; an **agent** (Go) on each game host
opens one websocket to the master and drives Docker; a **browser UI**
(JavaScript) talks to the master over REST and one websocket. This directory
holds TLA+ modules that model the parts of it where order, overlap and failure
matter, the TLC configurations that check them, and proofs checked with TLAPS.

- [The system](#the-system): the parts, their state, how they interact
- [Modules](#modules): what models what, the runs and the bounds
- [Proofs](#proofs): what holds for every value of the constants
- [Where the code falls short](#where-the-code-falls-short): the findings
- [Not modelled](#not-modelled) and [Plan](#plan)

Line numbers refer to `src/`.

## The system

| Part | Source | State it keeps | Operations |
|---|---|---|---|
| Hub | `master/main.go`, `master/websocket.go` | `Agents`, `UIClients`, the channels `RegisterAgent`, `UnregisterAgent`, `RegisterUI`, `UnregisterUI`, `AgentMessages`, `UIMessages`, one `Send` per agent, `mu` | register and unregister agents and browsers, relay agent messages to browsers, fan browser messages out to agents, `SendToAgent` |
| Admission | `master/websocket.go`, `master/main.go`, `master/api_agents.go`, `master/db.go`, `agent/main.go`, `agent/agent.go` | the `agents` row (status, token), `PendingAgents`, the agent's `AGENT_TOKEN`, token file and `cfg` | register, wait for approval, approve, delete, reconnect, save the token |
| Server life cycle | `master/api_servers.go`, `agent/agent.go`, `agent/docker.go` | `game_servers.status`, Docker's containers and volumes | create, start, stop, delete, the agent's status reports |
| Live logs | `ui/js/server.js`, `ui/js/app.js`, `agent/agent.go`, `agent/docker.go` | `state.selectedServer`, `DockerManager.logStreams` | open and close a panel, start and stop a stream |
| Configuration | `master/api_servers.go`, `ui/js/server.js`, `ui/js/admin.js` | `game_servers` settings, `server_configs`, the Config tab's inputs | edit, save, create, build the start payload |
| Browser | `ui/js/app.js`, `ui/js/server.js`, `ui/js/ws.js`, `ui/js/state.js` | `state`, `pendingRestart` | poll, live updates, save and restart, reconnect, reload |
| Boot | `master/db.go`, `master/gamedefs.go`, `master/games_cs2.go` | the schema, `game_definitions`, `game_modes` | migrate, seed the games |
| Metrics | `agent/metrics.go`, `master/main.go`, `ui/js/agent.js` | 30-point windows in master and browser | collect, store, relay, draw |
| RCON | `ui/js/server.js`, `ui/js/app.js`, `master/api_servers.go`, `agent/agent.go`, `agent/rcon.go` | one TCP connection per command, `rcon_history`, the console | send a command, record it, relay its answer |
| REST reads, protocol types, presentation | the rest | none of their own | |

**How they interact.** A browser's click is an HTTP request. Its handler reads
and writes rows and, for a command, calls `Hub.SendToAgent`, which puts the
message into the agent's `Send` channel; the connection's writer goroutine
writes it to the socket. The agent hands every message to a goroutine of its
own, which makes one Docker call after the other and sends a report. The
master's reader goroutine stores the report and passes it to `Hub.Run`, which
writes it to every browser. Log requests go from a browser through `Hub.Run` to
every agent. Nothing is acknowledged, nothing is sent again, and after a
reconnect nothing is compared.

**What is hard.**

* *Concurrency in the master*: three goroutines per connection, one per request
  and `Hub.Run` share a lock and bounded channels; a send blocks while the lock
  is held.
* *Overlapping connections*: an agent that lost its connection is back after
  five seconds; the master notices the loss up to 120 s later (`pongWait`), and
  much is looked up by agent name.
* *Concurrency in the agent*: commands for the same server run side by side.
* *Loss*: a message or report under way when a connection ends is gone; the
  agent may be restarted between two Docker calls.
* *Order of writes*: a handler sends a command first and writes the status that
  announces it second.
* *Awaits in the browser*: what was selected before an `await` need not be
  selected after it.

**What makes each part correct.**

* Hub: the registry names live connections only; no channel panics; a command
  accepted for an agent is written once, in order, or lost with the connection;
  nobody waits for ever.
* Admission: an approval admits the agent that asked and is never undone by the
  agent's own registration; no two approvals take the same connection.
* Life cycle: at rest, rows tell the truth; a delete leaves nothing behind; a
  container never runs without its volume; a command touches its own server.
* Logs: a line is shown once, a closed panel streams nothing, a cancelled stream
  ends.
* Configuration: what was saved is what the next start uses.
* Browser: a Save & Restart ends in a start and starts nothing else; what is shown
  comes to be what is stored.
* Boot: wherever a start of the master is cut short, no setting is lost and the
  next start serves, with the games of its own release.
* Metrics: the windows are the latest points, and a history handed out does not
  change under its reader.
* RCON: an answer is one whole packet, a silent game server keeps nothing waiting,
  the console and the history tell what happened.

`PROJECT.json` lists every hazard with its line and the property that covers it.

## Modules

`Hub` is composed with what it promises (`Relay`) by refinement: `Hub` implements
`Relay`, and `ServerLifecycle` uses the promise (its connection is a pair of
FIFO queues that a disconnect empties) in place of the hub. `Boot` implements
`Settings`, in which there are no migrations. `Panel` puts the browser on top of
the same handlers and reports, with of the agent only what its commands come to. The other modules share no state with one another.

In each module a definition whose comment starts with **Slip** is no part of the
specification. It is the definition that follows it with one plausible mistake
in it (a missing guard, a forgotten reset, a swapped order), kept so that it can
be put in the definition's place to see that a property notices. `PROJECT.json`
names the property for each of them under `mutants`.

Every module but the abstract two states its type invariant as `TypeOK`
(`PanelTypeOK` in Panel) and has it proved (`TypeCorrect`, `PanelTypeCorrect`).
Rcon's, which says that no buffer has an illegal length, is a property of its run
too. A module's proofs are in
`<module>Proofs`; those of LogStreams and Panel are together in `BrowserProofs`,
which is why Panel's specification is called `PanelSpec` and its parts likewise.
`Browser` declares what these two share, the servers and the value that names
none.

### Hub

The goroutines and where they are: `reader[c]` (`handleAgentWS` and then
`agentReader`), `writer[c]` (`agentWriter`), `ui[u]` (`handleUIWS`), `hpc`
(`Hub.Run`), `call[r]` (one `SendToAgent`). A connection's `Send` channel is
`queue[c]` with `closed[c]`. Every action is what a goroutine does up to its next
blocking operation.

* *Unbuffered channels* (`RegisterAgent` and the like): the rendezvous is one
  action of the receiver, `TakeRegister` and so on; what `Run` does next, which
  needs the lock, is another.
* *The lock.* Its read side is held exactly at program counters where a
  goroutine blocks under it (`ReadLocked`); its write side is held only over
  steps that cannot block, which are single actions. A goroutine about to `Lock`
  keeps new readers out (`LockWaiting`), as Go's `RWMutex` does.
* *Range loops* visit keys in any order (`Visit`) and block on the key they have
  come to.
* A connection value is used again once both goroutines are through with it:
  its channel and socket are new (`Connect`).
* Left out: heartbeats (they only touch `last_seen_at`), message contents, ping
  messages (a dead peer is a read or write that fails at any moment),
  `BroadcastToUI`, which nobody calls, and the read-only handlers.

`Relay` is the abstract specification: per connection a bounded FIFO pipe that
delivers in order and at most once, and loses what it holds when it dies. The
mapping: a pipe is alive while the writer goroutine runs, and what it holds is
the message in the writer's hand followed by the channel.

| Run | Shows | Bounds |
|---|---|---|
| `hub_commands` | `RegistryLive`, `NoChannelPanic`, `DeliveredOnce`, `NobodyHangs`, `ImplementsRelay` while an agent keeps reconnecting over two overlapping connections, a browser sends, stalls and leaves, and one command is sent (1.4 million states) | 2 connections of one agent, 1 request, 1 browser with 1 message, channels of one slot |
| `hub_live` | `CallsReturn`, `AgentsServed`, `WritersEnd` under fairness | the same without a browser |
| `hub_wedge` | violates `CallsReturn` | 2 requests, channels of one slot |

`NobodyHangs` is about the circles the hub's goroutines can stand in: a request
that waits for the lock, for `Run`, which waits for the lock or for a channel,
which waits for its writer. While one waits, somebody it can be waiting for can
go on (`CanMove`, the guards of those steps written out), but for two operations
without a deadline: a send to a full channel whose writer has ended
(`BehindDeadWriter`) and a write to a browser that does not read
(`BehindStalledUI`). The run reaches both.

*Why this is enough.* Every hazard of the hub needs two connections with the
same name, one of them stale; a third would repeat the second. Channels of one
slot are the hardest case: 256 in the code fill up in the same way, later. Two
agents with different names share only `Hub.Run` and the lock, which one agent
and a browser already contend for. The proofs remove all bounds for the safety
properties and the refinement. `hub_commands` allows a wedge (that is what
`hub_wedge` shows), so a deadlock is not an error there; liveness is checked where
every send fits and no browser stalls, the only condition under which it holds.

*Fairness.* `Finish` (what `Run` does with a case it took), each reader, each
writer and each call: strong for those that compete for the lock or a channel,
because Go's `select` picks among ready cases at random, waiters on a channel are
served first come first served and `RWMutex` starves nobody; weak for the
writer, whose steps nobody else disables. `ReadFails` and `WriterFails` are fair
only once the master has closed the socket itself. Nothing makes a peer
connect, speak or leave.

### Admission

One agent: the `agents` row (`row`, `token`), `pending` (its entry of
`PendingAgents`), `hub` (its entry of `Agents`), the goroutine that serves each
connection (`serve`), the waiter beside it (`waiter`: after an approval
`waitForApproval` is still running), approve requests (`ap`), and the agent's
three copies of its token. `Select`, `Insert`, `AddPending`, `Admit`, `Enter` are
the steps of `handleAgentWS` with the database round trips between them;
`UpdateToken` to `ApprovedEnters` are `approveAgentHandler` and
`ApprovePendingAgent`. An error of `updateAgentStatus` goes unnoticed (`SetStatus`).
Names do not meet, so one agent is enough; a token is
identified with the approval that drew it.

| Run | Shows | Bounds |
|---|---|---|
| `admission_storm` | `PendingIsWatched`, `ApprovalOwns`, `ApprovalStays` (5.8 million states) | 2 connections, 2 approvals, one lost connection, one delete, one agent crash |
| `admission_live` | `ApprovalAdmits` under fairness, `PendingUntilApproved` | 1 approval, one loss, one crash, no delete |

*Bounds.* Two connections are the stale one and its successor; two approvals are
the double click, or the approval after a delete. *Fairness.* Goroutines run,
read deadlines pass (ten minutes for a pending connection, `WaiterEnds`), the
agent dials again (its endless loop in `agent/main.go`), and the admin follows
SETUP.md: pastes the token into `AGENT_TOKEN` and restarts the agent. Approving
itself is not fair, nor is any loss. `PendingUntilApproved` and `ApprovalAdmits`
are stated for an agent that nobody deletes: a late "offline"
(`master/websocket.go:128`, by name) can reach the row of an agent deleted and
registered anew, and a token file from before the delete is preferred to the new
`AGENT_TOKEN` (`agent/main.go:13`) and keeps the agent out.

### ServerLifecycle

`row[s]` is the server's status; `api[c]` the HTTP handler of command `c`, whose
SELECT, `SendToAgent` and UPDATE are three steps; `toAgent` and `toMaster` the two
directions of the connection; `task[c]` the agent's goroutine, one step per Docker
call; `box` and `volumes` what Docker has. A container is named by the start
command that made it. Docker is external and modelled from how the code uses
it: a name is free for one container, the name filter matches substrings
(`Matches`), stopping or removing an id that is gone is an error, a volume in use
is not removed, a bound volume that is missing is made. A container that exits
by itself is started again by Docker (`unless-stopped`), so there is no such step.

The handlers look at no error of the statements that write a status (`db.Exec` in
`master/api_servers.go:342`, 368, 402 and `master/websocket.go:164-174`), so every
such write may fail and leave the row as it is (`WriteRow`), any number of times;
and the master may end between a handler's send and its write (`MasterRestart`).

History variables record what the admin or the world did: `overlapped` (a command
was given while one of its server was still under way), `unwritten` (servers whose
row missed the last write meant for it), `overtaken` (servers whose last report was
read before the handler wrote the row), and the counters `faults` (lost
connections, restarts of agent or master) and `errors` (Docker calls that failed
though they could be served).

| Run | Shows | Bounds |
|---|---|---|
| `server_storm` | `VolumeUnderContainer`, `RunningWasStarted` always; `RowIsTrue` when commands did not overlap and the row's last write landed; `RowComesToRest`, for commands in any overlap, when no connection was lost; `NoOrphan` when commands did not overlap, no connection was lost and Docker did as told (5.7 million states) | 1 server, 3 commands of any kind in any overlap, 1 fault, 1 Docker error, any number of failed row writes |

*Bounds.* Three commands are a start, one that overlaps it and a later one that
meets what they left. One fault and one error hit any single step; the
properties with a condition on them say so. *Conditions that are needed.* With
overlapping commands a row may lie (`agent/agent.go:120`: a stop overtakes a
start). So it may when its last write failed unnoticed or never came: a stop that
was carried out, whose UPDATE failed and whose report was lost, leaves "running"
over a stopped container (`unwritten`). A row rests on "starting" or "stopping"
if the report was faster than the handler (`overtaken`). After a loss a delete leaves container and volume behind, because
`deleteServer` removes the row whether or not the agent was told
(`master/api_servers.go:339`), and so does a Docker error, which `DeleteContainer`
swallows (`agent/docker.go:189`).

The runs have one server and one name. What several servers do to one another is
in the model: the name filter (`Matches`), and that two servers can sanitise to one `container_name`
(`master/api_servers.go:206`) is representable (`ContainerName` need not be
injective). With either a command may act on another server's container:
`VolumeUnderContainer` and `RunningWasStarted` hold all the same, for any filter
and any names, `RowIsTrue` and `NoOrphan` only for names that find no other
server's container (`OwnNames` in the proofs).

### LogStreams

`selected` is the open panel; a request and the stream it starts have one name.
`at[r]` follows it from the click over the wire into the agent's goroutine;
`entry[s]` is the `logStreams` map and `cancelled` the contexts cancelled. After a
reconnect the agent has a new `DockerManager`; `old` are streams of the former.
`hasty` records that a panel was left without a stop or that a click came before
the last had taken effect. Which container a stream is attached to is left out:
`openServer` reads it from the selection after an `await`
(`ui/js/server.js:33`), and nothing else depends on it.

| Run | Shows | Bounds |
|---|---|---|
| `logs_map` | `EntryLive` and `CancelledEnds` always; `StreamInMap`, `ClosedMeansQuiet` for a patient user (718 thousand states) | 1 server, 4 requests, 1 lost, 1 reconnect |

*Bounds.* Servers meet only in the one selection; four requests are
two starts that replace one another, the end of the first, and one more start or
stop, the shortest way to a doubled stream. *Fairness.* A goroutine that can run
does; a cancelled stream ends, because every call in it takes the context.
A stream that nobody cancels need not end.

### ServerConfig

One browser's Config tab (`form`, with `touched` the fields edited since it was
filled), the requests it makes (`fetch`, `save`, `start`, each with the server it
was made for), and the database (`stored`). Every SQL statement of `getServer`,
`updateServer`, `createServer` and `buildServerStartPayload` is a step, in the
code's order; the keys of `custom_config` are written in any order, as a Go map
is ranged over. A field is the port, the password or a key; `Env` lays settings
over the mode's values over the game's. Two history variables serve the
properties: `asked`, what the user wants, field by field, and `hurries`, the
times he did not wait (edited or saved before the form was filled, looked at or
started a server whose save was under way). A failure that nobody is told of
(`FetchError`, `WriteKeyFails`, `StartKeysFail`) counts in `errors`; one the user
sees (`SaveRefused`, `StartOver`) may happen at any time.

| Run | Shows | Bounds |
|---|---|---|
| `config_save` | `FormIsOwn`, `SaveLands`, `SavedIsApplied` for a patient user when nothing fails unnoticed (3.5 million states) | 2 servers, 1 key that game and mode both set, 1 value to type per field, 1 request of each kind at a time, 1 unnoticed failure |

*Bounds.* Two servers are enough to show one's settings under the other; a key
that the game and the mode set as well has all four layers. One value to type,
besides the empty field, tells set from unset, which is what the statements
distinguish. `MaxHurries` is 0: all three properties are about a user who
waits; for one who does not they fail as described under
[Where the code falls short](#where-the-code-falls-short).

### Panel

One browser and the servers it shows. `shown` are the statuses of
`state.servers`, `listed` says that it is a list at all, `pend` is
`pendingRestart`, `saving[s]` counts calls of `saveAndRestart` that await the PUT
for `s`, `polls` are answers of `listServers` on their way. Commands of this
browser or another are counted at each stage: sent by the browser (`send`), given
to the agent and the row not marked yet (`mark`), not carried out yet (`tasks`).
`Resume` is `saveAndRestart` after the PUT: it reads the selection again, so the
server it goes on with is any. `Message` is `handleWsMessage`. A poll's answer is
the rows as they were; it arrives later, may be an error (`PollSpoilt`), and its
place in the order of messages is free. A row's UPDATE may fail unnoticed here too
(`WriteRow`); the message to the browser goes out all the same.

| Run | Shows | Bounds |
|---|---|---|
| `panel_restart` | `PendingIsOwed`; `RestartComes` and `ViewConverges` under fairness (689 thousand states) | 2 servers, 2 clicks or faults in any mixture, 1 poll answered and not arrived |

*Bounds.* Everything that goes wrong here is a restart with one other thing: a
second click, a lost websocket, a reload, a failed request or Docker call, a
poll (polls are not counted among the two). Two servers are enough for the one
`pendingRestart` slot. *Conditions.* `hurried`: something overlapped or failed,
and then a restart may be given up or left over (`ui/js/server.js:227`). `misled`:
see the [exceptions](#where-the-code-falls-short). *Fairness.* Handlers, the agent
and a message under way go on, the websocket reconnects (`ui/js/ws.js:8`), the
five-second poll comes round and is answered.

### Boot

The process is at `stage`, in the `game`-th game and the `i`-th element of the
list the stage ranges over; `release` is the version that runs. `has` and `old` are
the old columns of `game_servers`, `config` the rows of `server_configs` for them,
`def`, `ports`, `modes` the game tables. Each statement is an action and commits on
its own, as in the code, which opens no transaction; `End` ends the process
between any two, for a crash, an upgrade or the `log.Fatalf` after a failed
migration; `SeedFails` is a seed statement whose error is logged and passed over.
`wanted` is a history variable: what the user last made of a setting.

`Settings` is the abstract specification: each setting has a value, which a user
may change while a master serves, and a master that serves goes by these values.
The mapping: a setting's value is its row of `server_configs` or, where there is
none, the old column (`Value`); what is served is `server_configs` alone
(`Served`), which is all the handlers read. So every copy, drop and crash in
between must be a stutter.

A row of `game_definitions` or `game_modes` remembers two releases: the one whose
INSERT made it and gave it its name, and the one that last wrote the rest
(`Upserted`). The two differ because `ON CONFLICT DO UPDATE` leaves `name` alone
(`master/gamedefs.go:76-83` and 118).

| Run | Shows | Bounds |
|---|---|---|
| `boot_restarts` | `SettingsKept`, `GamesAsRegistered`, `ImplementsSettings`; `RebootsServe` under fairness (683 thousand states) | 2 columns, 2 values, 1 server, 2 games, 2 releases, 2 ends or failed statements, 1 edit |

*Bounds.* The columns do not meet, and neither do servers; two columns show a
copy or drop cut short in the middle. The second release drops a mode, moves a
port and changes orders. `GamesAsRegistered` is about what the running release
registers: a mode it has dropped stays in the table with the older configuration,
and is still served. *Fairness.* Compose starts the process again
(`restart: unless-stopped`), and a process that runs goes on.

### Metrics

Go's slices as they are: `hist[a]` is a range of one of the arrays in `heap[a]`,
`Store` appends in place while there is room and otherwise copies into an array
of some larger capacity, which the language leaves open (`Capacities`). A fetch (`fetch`) takes
the slice under the lock (`TakeHistory`), encodes it without (`Encode`) and arrives
when the user has perhaps gone on (`Answer`). `stored` and `heard` are histories:
what the agent sent, and what was relayed since the view was replaced.

| Run | Shows | Bounds |
|---|---|---|
| `metrics_windows` | `HeldIsStable`, `WindowIsLatest`, `ViewRecovers` (3.5 million states) | 2 agents, windows of 2, 4 points in all, 2 fetches, arrays of 1 or 3 |

*Bounds.* With windows of two, four points fill a window, move it and leave its
first array; arrays are full at once (1) or have room to append in place and to
move the window in (3). 30 would do the same later; the proofs cover every
set of capacities. Agents and fetches are interchangeable (symmetry), and no
property is a liveness property.

### Rcon

A command from the console to the game server and back: `cmd[c]` is the master's
handler, `task[c]` the agent's goroutine, in `turn[c]` 1 (password) or 2 (command),
filling `buf[c]` up to `want[c]` units from `wire[c]`. `Read` is one `Read` of
`readFull`: any part of what has come. The game server (external) answers a
request with one packet or a part of it, of any size, or not; the network may
end the connection at any time. Bytes are coarser than in the code, a size being
two units, so that a read can still cut it.

| Run | Shows | Bounds |
|---|---|---|
| `rcon_console` | `WholeAnswer`, `HistoryIsTrue` always, `ConsoleIsDialogue` for a patient user, `CommandEnds` under fairness (517 thousand states) | 2 commands, sizes below the least and at the most allowed, 1 failing request or INSERT |

*Bounds.* Commands share nothing but console and relay, so two are enough. The
sizes are one that must be refused and the longest allowed, which has a body to
be cut. *Fairness.* The goroutine runs and its deadline comes (`SetDeadline`, ten
seconds for everything on the connection); the server owes nothing. *Assumed.*
A game server that answers the password with two packets, an empty one first, is
not in the model: `sendRconCommand` takes the first packet it gets for the verdict
and the second for the answer, so with such a server every answer is the packet
before.

## Proofs

All proofs are checked by `tlapm` with Z3, Zenon and LS4, without an unproved
step. They hold for every value of the constants that satisfies the named
assumption in the module (`HubAssumption`, `AdmissionAssumption` and so on). Those
say that names are disjoint, functions are total on the sets they are used on,
a release's lists are sequences, a container's name matches itself, bounds are
natural numbers, channel capacities and windows are positive, some array `append` may give holds more than a window, and a packet is at
least 2 units long (10 bytes in the agent); nothing more. TLC evaluates them in
every run. Three theorems have a hypothesis besides, which is part of what they
state: `RowsTellTruth` and `DeletesClean` assume `OwnNames`, `OnlyApproved`
assumes `MaxDeletes = 0`, both below. Each inductive invariant was checked by TLC
on an instance of its module before it was proved.

**HubProofs.** `TypeCorrect`, `RegistrySound` (`[]RegistryLive`), `NoPanic`
(`[]NoChannelPanic`), `CommandsOnce` (`[]DeliveredOnce`), `HubImplementsRelay`
(`Spec => ImplementsRelay`), `NoHang` (`[]NobodyHangs`), `WedgeIsForGood`,
`HubOutOfService`.
`RegistryLive` is not inductive: that the entry of a name has an open channel
depends on nobody else closing it, and that a sender is safe depends on the
lock. The invariant `HubInv` adds what is missing: `HubBusy` (what `Run` works on
fits its program counter, and a connection at `unregister` still has its
channel open: it is closed there and nowhere else), `ChannelOpen` (a connection
whose reader has not ended has an open channel, and one not yet registered an
empty one), `SendersLocked` (whoever is at a send holds the read lock and the
entry it found is still in the map). `DeliveredOnce` counts copies; its invariant
`OneCopy` says instead where a command can be: in one slot of one channel
(`QueuedOnce`), or in one writer's hand (`HeldOnce`), or written once
(`WrittenOnce`), never in two of these, and only with a connection of the name it
was sent to (`Addressed`); `DeliveredOnce` follows because a set without two
different elements has at most one. The refinement has one lemma per kind of
step (`RelayPush`, `RelayTake`, `RelayWrite`, `RelayReturn`, `RelayOpen`,
`RelayConnect`); every other step stutters.

`NoHang` follows from `HubInv` alone: whoever holds the read lock at a blocking
operation is at a send to a channel or to a browser, and a channel that is full
has a writer with a step to take. The two exceptions of `NobodyHangs` are real.
`WedgeIsForGood` says of the first that a call which is at a full channel without
a writer (`Wedged`) stays there in every behaviour: the connection is registered,
so its writer does not start again, and what would unregister it needs the lock
that the call holds. `HubOutOfService` says what follows once `Run` has asked for
the write lock (`Hung`): the registry never changes again, and no `SendToAgent`,
registration or unregistration that waits ever goes on. So what `hub_wedge` shows
of two requests is not a delay.

**AdmissionProofs.** `TypeCorrect`, `PendingSound` (`[]PendingIsWatched`),
`ApprovalExclusive` (`[]ApprovalOwns`), `ApprovalIsKept` (`Spec => ApprovalStays`),
`OnlyApproved`. `PendingIsWatched` and `ApprovalOwns` hold together or not at all:
an approval may take a connection out of `PendingAgents` because its waiter
still watches it, and the waiter may give a connection up because no approval
holds it. `AdmissionInv` is their conjunction with `HubIsServed`: the registry
names no connection without an `agentReader`. `OnlyApproved` is `PendingUntilApproved`
for an agent that nobody deletes (`MaxDeletes = 0`); its invariant
`NobodyAdmitted` says that as long as the row is pending, or there is none, no
approval is past its UPDATE and no connection's goroutine is on a path that
would write "online" or "offline" into it.

**ServerLifecycleProofs.** `TypeCorrect`, `VolumesKept`
(`[]VolumeUnderContainer`), `RunningIsEarned` (`[]RunningWasStarted`),
`RowsTellTruth` (`[]RowIsTrue`), `RowsComeToRest` (`[]RowComesToRest`),
`DeletesClean` (`[]NoOrphan`). A row that
says "running" goes back through the report in the queue to the goroutine that
sent it: `LifeInv` carries the fact along (`Staged`: stages of a command in
master, agent and Docker agree; `SentOnce`: a command is on its way once and then
has no goroutine yet; `ReportsTrue`: a report "running" in the queue has a started
container behind it). `BoxKept` says that no step but a start makes a container
and none is forgotten. `VolumeUnderContainer` survives a concurrent delete
because a volume in use is not removed and a created container brings its own.

`RowsComeToRest` holds for overlapping commands and any names. Its invariant
`RestInv` says that, while no connection is lost, a server whose row says "starting"
or "stopping", or is about to, is waited for (`Waited`: a command of it is on its way
to the agent or at work there, or a report of it is in the queue), unless the row
missed its last write or the report was read first. `TaskShape` is why it stays so:
a goroutine that takes a step is still at work or has just sent a report.

`RowsTellTruth` and `DeletesClean` assume `OwnNames`: no server's container is
found under the name of another. Nothing in the code ensures it (two names may
sanitise to one, `master/api_servers.go:206`, and one may contain the other), and
without it both fail. Their invariant `CalmInv` has a part for every behaviour
(`Sorted`: the stages of a goroutine are those of its command's kind, it aims at a
container of its own server, a server has one container at most) and one for
commands that do not overlap (`Calm`): one command of a server is under way, its
row is decided by the handler that is still to write it (`Marking`), by the report
that is still to be read, or is true by now unless it missed its last write; and the goroutine is right about
the container it deals with (`Fits`). `Gone` adds, for runs without loss or error,
what a delete has already cleared (`Clears`) and that a row that is gone leaves
the rest to a delete still at work. Every step concerns one server; that it
leaves the others alone is `Apart` and proved once (`ApartKeeps`), so that
`GoesOn` (a goroutine's step), `ComesToEnd` (its last) and one lemma per handler and
network step remain.

**BrowserProofs.** *LogStreams*: `TypeCorrect`, `MapLive` (`[]EntryLive`),
`StreamCanBeStopped` (`[]StreamInMap`),
`ClosedPanelIsQuiet` (`[]ClosedMeansQuiet`). `MapInv` is inductive for every
behaviour. `OrderInv` says what a patient user brings about: at most one request
under way and one registered stream at a time (`OneAtATime`), and a stream that
was not cancelled is in the map and either on show or about to be stopped
(`StreamKept`). Without patience both fail (see
the exceptions below).

*Panel*: `PanelTypeCorrect`, `RestartsHeldAreOwed` (`[]PendingIsOwed`),
`RestartsGoOn`, for any servers, clicks and polls. `PendingIsOwed` speaks of
`pendingRestart` only; that a "stopped" report does not come for a restart that is
over rests on where the restart is. `RestartInv` follows it, for a user who lets
it finish: one restart at a time (`OneRestart`), which waits for the answer to its
save (`Saved`), is held back until a stop is reported (`Pended`), has one command
on its way at most (`InTurn`), and is never without one of these (`GoesOn`), unless
the status it went by was not so (`misled`). The last is `RestartsGoOn`
(`NoRestartStuck`), the safety half of `RestartComes`.

**BootProofs.** `NoSettingLost` (`[]SettingsKept`), `ServesOnlyMigrated`
(`[]ServesMigrated`: a master that serves has every setting where its handlers
look), `TypeCorrect`, `SeedsAsRegistered` (`[]GamesAsRegistered`),
`BootImplementsSettings` (`Spec => ImplementsSettings`), `StartGoesForward`, for
any columns, servers, games and releases and any number of crashes and edits.
`SettingsKept` is not inductive: that `Drop`
loses nothing rests on the loop before it having copied every column in this
very boot, and that an edit, which may delete a row, brings no old value back
rests on all columns being gone once anyone can edit. `MoveInv` says both, the
first for the columns the loop has passed (`Copied`); one lemma per step that
touches a setting or a loop (`MoveCopy`, `MoveDrop`, `MoveLoop`, `MoveEdit`), and
`MoveAside` for all the others.

The refinement rests on the first two: `Value` is always what the user wants
(`ValueIsWanted`), so no step but his own can change it, and `Served` is that as
soon as the master serves (`ServedIsWanted`).

`SeedsAsRegistered` rests on `SeedInv`: the games before the
one at work that had no failed statement are as registered (`Seeded`), the one at
work is so as far as its loops have come (`InHand`). A game that is listed twice
is open again during its second turn.

`StartGoesForward` is why a start that nothing ends comes to serve: every step of
it, a failing seed statement too, leads to a later place (`Later`: a later game, a
later stage, a later element of the list), and the places are finitely many
(`Place`). That a process takes its steps at all, and so `RebootsServe`, is TLC's.

**ServerConfigProofs.** `TypeCorrect`, `FormShowsItsServer` (`[]FormIsOwn`),
`SavesLand` (`[]SaveLands`), `SavesAreApplied` (`[]SavedIsApplied`), for any servers,
keys, values and number of requests. None of the three is inductive. `FormInv`
holds for any user (where a password and custom fields in the form come from);
`Calm` holds as long as he waits and nothing fails: one save of a server at a time
and none while its settings are read (`OneAtATime`), what a read has collected is
what is stored (`ReadIsStored`), what is stored and what a save has still to write
make what was asked for (`SaveOnItsWay`), and the form, a save's body and what is
stored agree where the user has not edited (`BodyIsForm`, `FormIsStored`,
`StoredIsAsked`). `ConfigInv` is the type invariant, `FormInv`, and `Calm` for the
patient. One lemma per action.

**RconProofs.** `TypeCorrect` (`[]TypeOK`), `HistoryTrue` (`[]HistoryIsTrue`),
`AnswerIsWhole` (`[]WholeAnswer`), `ConsoleReads` (`[]ConsoleIsDialogue`),
`CommandGoesForward`, for any number of commands and any packet sizes. `TypeInv`
ties the master's handler, the hub's acceptance and the agent's goroutine to each other, which is all that
`HistoryIsTrue` needs. For `WholeAnswer`, `StreamInv` says that what was read
followed by what is on the wire is always an end of what the server sent (`Stream`),
so that a read that has got the number of bytes it wanted has got these and no
others, however the stream was cut. `TalkInv` says that for a user who waits only the
latest command can still have an answer under way. `CommandGoesForward` is the
safety half of `CommandEnds`: a step of a command's goroutine leads to a later one
of ten places (`Progress`) or to more bytes of a packet of at most `MaxSize`
(`Fuller`), whatever the game server sends and however the network cuts it.

**MetricsProofs.** `TypeCorrect`, `HandedOutStays` (`[]HeldIsStable`), `WindowKept`
(`[]WindowIsLatest`), `ViewCatchesUp` (`[]ViewRecovers`), for any agents, window,
fetches and numbers of points. Slices share arrays, so `HeldInv` says where a
slice that was handed out ends: not behind the end of the present one if it lies
in the same array (`Behind`); `append` writes behind that end or into a new array.
`WindowIsLatest` is inductive given the types; `ViewInv` says that the points the browser
heard since the view was replaced are an end of what the view shows (`IsEnd`). That
is not what the master has stored: a point may be lost on the way to the browser,
and the view then lacks it.

**Only model-checked.** Liveness (`CallsReturn`, `AgentsServed`, `WritersEnd`,
`ApprovalAdmits`, `CancelledEnds`, `RestartComes`, `ViewConverges`, `RebootsServe`,
`CommandEnds`): TLAPS does not prove temporal properties under fairness, nor does
it reason about `ENABLED`, which is why `CanMove` writes the guards out. Of
`RestartComes`, `RebootsServe` and `CommandEnds` the half that is a safety property
is proved, as said above. Every safety property and refinement that a run checks
has a theorem.

## Where the code falls short

One run, `hub_wedge`, finds a property violated that the documentation implies;
`PROJECT.json` quotes the lines.

* **The hub wedges** (`master/main.go:161`). `SendToAgent` sends under the read
  lock on a bounded channel. If the writer has ended and the channel is full,
  `Run` waits for the write lock that would unregister the connection, and nothing
  is routed any more, for as long as the master runs (`HubOutOfService`).

Exceptions that the models contain and the properties are stated around:

* *Admission.* The late "offline" (`master/websocket.go:128`); the approval
  between the SELECT and `AddPending` (`master/websocket.go:60-78`: nobody is told,
  the pasted token still admits the agent); the stale token file
  (`agent/main.go:13`); on a freshly approved connection two goroutines read, and
  `waitForApproval` throws away what it gets (`master/websocket.go:117`).
* *Hub.* Unregister deletes by name, so when a half-open connection is given up
  after the agent has come back, the entry of the new connection goes and every
  command is answered "agent not connected" (`master/main.go:83`); a browser that
  stops reading holds up `Run` (`master/main.go:108`).
* *Life cycle.* An error of a status write is not looked at
  (`master/api_servers.go:342`, 368, 402, `master/websocket.go:164-174`), and the
  master may end between a send and the write: until the next write the row says
  what it said before, though the container has been started or stopped. "starting" and "stopping" are written after the command was sent and
  overwrite a fast report (`master/api_servers.go:368` and 402): the row stays so;
  the delete of an unreachable agent's server (`master/api_servers.go:339`);
  swallowed Docker errors (`agent/docker.go:189`); overlapping commands
  (`agent/agent.go:120`); Docker's name filter, which matches substrings and of
  whose hits the first is used, so that a command for one server may act on
  another's container (`agent/docker.go:167`, also lines 187 and 270).
* *Logs.* A replaced stream deletes its successor's entry when it ends; the next
  start then cancels nothing and every line comes twice (`agent/docker.go:219`).
* *Configuration.* The answers of two fetches of settings arrive in the other
  order (`ui/js/server.js:164`: the Config tab then shows, and Save writes, another
  server's settings); a query of the keys fails unnoticed
  (`master/api_servers.go:169`: the next save deletes them).
* *Browser.* Save & Restart chooses between stop and start by the status shown
  when the save is answered (`ui/js/server.js:225`). A poll answered before and
  arriving after a live message brings an old status back (`ui/js/app.js:24`): the
  stop then goes to a server that is stopped, the agent answers "error", and the
  start never comes, while `pendingRestart` is kept and turns the next stop into a
  start (`misled` of Panel).
* *Boot.* The name of a game or a mode is never updated (`master/gamedefs.go:76-83`,
  118), and modes that a release has dropped stay in the table and are served with
  the configuration of the release before.
* *Metrics.* The history is filed under the agent selected when it arrives
  (`ui/js/agent.js:22`).

## Not modelled

* *Host ports and their overlap* (`agent/docker.go:80`): sums and comparisons
  without a step; Docker refuses the second container, which is a failing start.
* *Collecting metrics* (`agent/metrics.go`): reads of `/proc` and of Docker's stats.
  The windows per container work as those per agent.
* *The loops of a lost connection* (`agent/agent.go:157`): heartbeat and metrics
  loops go on until the process ends, each sending to an `Agent` object whose
  connection is gone. They change nothing anyone reads.
* *The rest of the browser*: forms for agents and new servers beyond what
  ServerConfig needs, the agents' online marks, drawing.
* *REST reads, routing, protocol types*: they change no state.
* *Presentation, images, proxies*: no behaviour.
* *Message payloads, log lines, figures*: nothing in the properties so far
  depends on them.
* *The agent's own full send channel* (`agent/agent.go:201`): it takes 256
  messages behind a blocked write; what follows, a dropped report, is in
  ServerLifecycle as the report of an orphaned goroutine.

## Plan

The components are modelled as far as the sections above say. What is left, in
the order of what matters most:

1. **Several servers in one life-cycle run**, with a name filter that hits more
   than one of them.
