------------------------------- MODULE Rcon -------------------------------
(***************************************************************************)
(* A console command: the browser's console (ui/js/server.js, app.js), the *)
(* master's handler (sendRcon in master/api_servers.go), the agent's       *)
(* goroutine (handleRcon) and its TCP connection to the game server        *)
(* (agent/rcon.go), where a packet is a size and then so many bytes, and a *)
(* read may return any part of what has arrived.                           *)
(*                                                                         *)
(* Bytes are coarser than in the code: a size takes 2 units, the ids 1,    *)
(* the terminators 1, so MinSize is 2 where the code has 10.  A unit is    *)
(* <<turn, k>>, the k-th of the packet that answers the turn's request:    *)
(* 1 the password, 2 the command.  A definition whose comment starts with  *)
(* "Slip" is the next one with a mistake in it.                            *)
(***************************************************************************)
EXTENDS Naturals, Sequences

CONSTANTS
    Cmds,       \* commands typed, each once
    Sizes,      \* sizes a server may put before a packet
    MinSize, MaxSize,
    MaxFaults   \* bound of the model: requests and INSERTs that fail

ASSUME RconAssumption ==
    /\ Sizes \subseteq Nat /\ MinSize \in Nat /\ MaxSize \in Nat
    /\ MaxFaults \in Nat
    /\ 2 <= MinSize /\ MinSize <= MaxSize

VARIABLES
    cmd,        \* cmd[c]: where the master's handler is
    recorded,   \* rcon_history
    unrecorded, \* history: commands whose INSERT failed
    faults,
    task,       \* task[c]: where the agent's goroutine is
    turn,       \* turn[c]: the request it sends or reads the answer of
    want,       \* want[c]: length of the buffer it fills
    buf,        \* buf[c]: the units it has read into it
    result,     \* result[c]: what it reports
    due,        \* due[c]: the request that waits for the server, or 0
    wire,       \* wire[c]: units that have arrived and are not read yet
    packet,     \* packet[c]: the server's answer of this turn, as it meant it
    accepted,   \* history: commands under way whose password the server took
    ran,        \* history: commands the game server carried out
    relay,      \* rcon_response messages on their way to the browser
    console,    \* what the RCON tab shows
    hurried     \* history: a command was typed before the last one was over

handler == <<cmd, recorded, unrecorded, faults>>
goroutine == <<task, turn, want, buf, result>>
server == <<due, wire, packet, accepted, ran>>
browser == <<relay, console, hurried>>
vars == <<handler, goroutine, server, browser>>

Unsent == [ok |-> FALSE, size |-> 0]
NoResult == [kind |-> "none", body |-> <<>>]
Error == [kind |-> "error", body |-> <<>>]
Response(b) == [kind |-> "response", body |-> b]

Init ==
    /\ cmd = [c \in Cmds |-> "none"] /\ recorded = {} /\ unrecorded = {}
    /\ faults = 0
    /\ task = cmd
    /\ turn = [c \in Cmds |-> 0] /\ want = turn /\ due = turn
    /\ buf = [c \in Cmds |-> <<>>] /\ wire = buf
    /\ result = [c \in Cmds |-> NoResult]
    /\ packet = [c \in Cmds |-> Unsent]
    /\ accepted = {} /\ ran = {}
    /\ relay = <<>> /\ console = <<>> /\ hurried = FALSE

-----------------------------------------------------------------------------
(* The browser                                                             *)

Shown(kind, c) == Append(console, [kind |-> kind, cmd |-> c])

(* The two timeouts give a waiting user the time after which it is over.   *)
Over(c) ==
    /\ cmd[c] \in {"none", "over"} /\ task[c] \in {"none", "over"}
    /\ \A j \in DOMAIN relay : relay[j] # c

Type(c) ==
    /\ cmd[c] = "none"
    /\ cmd' = [cmd EXCEPT ![c] = "select"]
    /\ console' = Shown("command", c)
    /\ hurried' = (hurried \/ \E d \in Cmds : ~Over(d))
    /\ UNCHANGED <<recorded, unrecorded, faults, goroutine, server, relay>>

(* The fetch throws, before or after the master has had the request; the   *)
(* console says so at once.                                                *)
RequestFails(c) ==
    /\ cmd[c] = "select"
    /\ faults < MaxFaults /\ faults' = faults + 1
    /\ \/ cmd' = [cmd EXCEPT ![c] = "over"]
       \/ cmd' = [cmd EXCEPT ![c] = "send"]
    /\ console' = Shown("failed", c)
    /\ UNCHANGED <<recorded, unrecorded, goroutine, server, relay, hurried>>

(* handleWsMessage, rcon_response, while the server is selected.           *)
Show ==
    /\ relay # <<>>
    /\ console' = Shown("reply", Head(relay))
    /\ relay' = Tail(relay)
    /\ UNCHANGED <<handler, goroutine, server, hurried>>

(* Another server is selected, or there is no websocket.                   *)
NotShown ==
    /\ relay # <<>>
    /\ relay' = Tail(relay)
    /\ UNCHANGED <<handler, goroutine, server, console, hurried>>

-----------------------------------------------------------------------------
(* The master's handler                                                    *)

(* The SELECT.  Of its errors only "no rows" is looked at; after another   *)
(* the agent's name is empty, and no agent has that.                       *)
Select(c) ==
    /\ cmd[c] = "select"
    /\ \/ cmd' = [cmd EXCEPT ![c] = "send"]
       \/ cmd' = [cmd EXCEPT ![c] = "over"]
    /\ UNCHANGED <<recorded, unrecorded, faults, goroutine, server, browser>>

(* Slip: the command is recorded first, also one that nobody gets.         *)
SendRecorded(c) ==
    /\ cmd[c] = "send"
    /\ recorded' = recorded \cup {c}
    /\ \/ /\ cmd' = [cmd EXCEPT ![c] = "over"]
          /\ task' = [task EXCEPT ![c] = "dial"]
       \/ cmd' = [cmd EXCEPT ![c] = "over"] /\ UNCHANGED task
    /\ UNCHANGED <<unrecorded, faults, turn, want, buf, result, server, browser>>

(* SendToAgent: to the agent, or 503, which the browser does not look at.  *)
SendToAgent(c) ==
    /\ cmd[c] = "send"
    /\ \/ /\ cmd' = [cmd EXCEPT ![c] = "insert"]
          /\ task' = [task EXCEPT ![c] = "dial"]
       \/ cmd' = [cmd EXCEPT ![c] = "over"] /\ UNCHANGED task
    /\ UNCHANGED <<recorded, unrecorded, faults, turn, want, buf, result, server, browser>>

(* The INSERT, whose error is not looked at.                               *)
Insert(c) ==
    /\ cmd[c] = "insert"
    /\ cmd' = [cmd EXCEPT ![c] = "over"]
    /\ \/ recorded' = recorded \cup {c} /\ UNCHANGED <<unrecorded, faults>>
       \/ /\ faults < MaxFaults /\ faults' = faults + 1
          /\ unrecorded' = unrecorded \cup {c} /\ UNCHANGED recorded
    /\ UNCHANGED <<goroutine, server, browser>>

-----------------------------------------------------------------------------
(* The agent's goroutine: sendRconCommand under handleRcon                 *)

(* The function returns r, and its connection is closed.                   *)
Return(c, r) ==
    /\ task' = [task EXCEPT ![c] = "report"]
    /\ result' = [result EXCEPT ![c] = r]
    /\ turn' = [turn EXCEPT ![c] = 0] /\ want' = [want EXCEPT ![c] = 0]
    /\ buf' = [buf EXCEPT ![c] = <<>>]

Fails(c) ==
    /\ Return(c, Error)
    /\ wire' = [wire EXCEPT ![c] = <<>>]
    /\ packet' = [packet EXCEPT ![c] = Unsent]
    /\ UNCHANGED <<handler, due, accepted, ran, browser>>

(* net.DialTimeout.                                                        *)
Dial(c) ==
    /\ task[c] = "dial"
    /\ task' = [task EXCEPT ![c] = "write"] /\ turn' = [turn EXCEPT ![c] = 1]
    /\ UNCHANGED <<handler, want, buf, result, server, browser>>

DialFails(c) == task[c] = "dial" /\ Fails(c)

(* rconSend: one Write; then rconRead asks for the size.                   *)
Write(c) ==
    /\ task[c] = "write"
    /\ due' = [due EXCEPT ![c] = turn[c]]
    /\ task' = [task EXCEPT ![c] = "size"] /\ want' = [want EXCEPT ![c] = 2]
    /\ packet' = [packet EXCEPT ![c] = Unsent]
    /\ UNCHANGED <<handler, turn, buf, result, wire, accepted, ran, browser>>

(* What four bytes are as a size, or an id: the packet's own, if they are  *)
(* those; nobody knows, if they are not.                                   *)
SizeOf(c, b) == IF b = <<<<turn[c], 1>>, <<turn[c], 2>>>>
                THEN {packet[c].size} ELSE Sizes
AcceptedBy(c, b) == IF Len(b) > 0 /\ b[1] = <<turn[c], 3>>
                    THEN {packet[c].ok} ELSE BOOLEAN

(* Slip: the size is not checked.                                          *)
GotSizeUnchecked(c, b) == \E z \in SizeOf(c, b) :
    /\ task' = [task EXCEPT ![c] = "rest"]
    /\ want' = [want EXCEPT ![c] = z]
    /\ buf' = [buf EXCEPT ![c] = <<>>]
    /\ UNCHANGED <<turn, result>>

(* rconRead after the first readFull.                                      *)
GotSize(c, b) == \E z \in SizeOf(c, b) :
    IF z \in MinSize .. MaxSize
    THEN /\ task' = [task EXCEPT ![c] = "rest"]
         /\ want' = [want EXCEPT ![c] = z]
         /\ buf' = [buf EXCEPT ![c] = <<>>]
         /\ UNCHANGED <<turn, result>>
    ELSE Return(c, Error)

(* rest[8:len(rest)-2].                                                    *)
Body(rest) == SubSeq(rest, 2, Len(rest) - 1)

(* rconRead after the second readFull, and sendRconCommand with the packet.*)
GotRest(c, b) ==
    IF turn[c] = 1
    THEN \E ok \in AcceptedBy(c, b) :
        IF ok
        THEN /\ task' = [task EXCEPT ![c] = "write"]
             /\ turn' = [turn EXCEPT ![c] = 2]
             /\ want' = [want EXCEPT ![c] = 0] /\ buf' = [buf EXCEPT ![c] = <<>>]
             /\ UNCHANGED result
        ELSE Return(c, Error)
    ELSE Return(c, Response(Body(b)))

Got(c, b) == IF task[c] = "size" THEN GotSize(c, b) ELSE GotRest(c, b)

Taken(c, n) ==
    wire' = [wire EXCEPT ![c] = IF task'[c] = "report" THEN <<>>
                                ELSE SubSeq(@, n + 1, Len(@))]

(* Slip: readFull returns after one Read.                                  *)
ReadOnce(c, n) ==
    LET b == SubSeq(wire[c], 1, n) IN
    /\ task[c] \in {"size", "rest"} /\ n \in 1 .. want[c] /\ n <= Len(wire[c])
    /\ Got(c, b) /\ Taken(c, n)
    /\ UNCHANGED <<handler, due, packet, accepted, ran, browser>>

(* One Read of readFull: any part of what is there and wanted.             *)
Read(c, n) ==
    LET b == buf[c] \o SubSeq(wire[c], 1, n) IN
    /\ task[c] \in {"size", "rest"}
    /\ n \in 1 .. want[c] - Len(buf[c]) /\ n <= Len(wire[c])
    /\ IF Len(b) < want[c]
       THEN buf' = [buf EXCEPT ![c] = b] /\ UNCHANGED <<task, turn, want, result>>
       ELSE Got(c, b)
    /\ Taken(c, n)
    /\ UNCHANGED <<handler, due, packet, accepted, ran, browser>>

Connected(c) == task[c] \in {"write", "size", "rest"}

(* Slip: the deadline is one for writing.                                  *)
WriteExpires(c) == task[c] = "write" /\ Fails(c)

(* The deadline of ten seconds, for every write and read together.         *)
Expires(c) == Connected(c) /\ Fails(c)

(* The server, or the network, ends the connection: a write or read fails, *)
(* whatever bytes are left.                                                *)
Breaks(c) == Connected(c) /\ Fails(c)

Forget(c) ==
    /\ task' = [task EXCEPT ![c] = "over"]
    /\ turn' = [turn EXCEPT ![c] = 0] /\ want' = [want EXCEPT ![c] = 0]
    /\ buf' = [buf EXCEPT ![c] = <<>>] /\ wire' = [wire EXCEPT ![c] = <<>>]
    /\ result' = [result EXCEPT ![c] = NoResult]
    /\ packet' = [packet EXCEPT ![c] = Unsent]
    /\ accepted' = accepted \ {c}
    /\ UNCHANGED <<handler, due, ran, console, hurried>>

(* Slip: handleRcon does not return after reporting an error.              *)
ReportTwice(c) ==
    /\ task[c] = "report"
    /\ relay' = relay \o (IF result[c] = Error THEN <<c, c>> ELSE <<c>>)
    /\ Forget(c)

(* sendMessage, and the hub passes it to every browser.                    *)
Report(c) ==
    /\ task[c] = "report"
    /\ relay' = Append(relay, c)
    /\ Forget(c)

(* The command, or its answer, is lost with the agent's connection, with   *)
(* its process, or because its channel is full.                            *)
Lost(c) ==
    /\ task[c] \in {"dial", "write", "size", "rest", "report"}
    /\ Forget(c) /\ UNCHANGED relay

-----------------------------------------------------------------------------
(* The game server.  It may be silent, stop in the middle of a packet, or  *)
(* send one of a size that is not legal, and it may get to a command when  *)
(* nobody waits for it any more.                                           *)

Answer(c) ==
    LET t == due[c] IN
    /\ t # 0
    /\ due' = [due EXCEPT ![c] = 0]
    /\ ran' = IF t = 2 THEN ran \cup {c} ELSE ran
    /\ IF Connected(c)
       THEN \E ok \in IF t = 1 THEN BOOLEAN ELSE {TRUE}, z \in Sizes :
              /\ packet' = [packet EXCEPT ![c] = [ok |-> ok, size |-> z]]
              /\ accepted' = IF t = 1 /\ ok THEN accepted \cup {c} ELSE accepted
              /\ \E n \in 0 .. z + 2 :
                    wire' = [wire EXCEPT ![c] = @ \o [k \in 1 .. n |-> <<t, k>>]]
       ELSE UNCHANGED <<wire, packet, accepted>>
    /\ UNCHANGED <<handler, goroutine, browser>>

-----------------------------------------------------------------------------
Handler(c) == Select(c) \/ SendToAgent(c) \/ Insert(c)

Goroutine(c) ==
    \/ Dial(c) \/ DialFails(c) \/ Write(c)
    \/ \E n \in 1 .. MaxSize : Read(c, n)
    \/ Expires(c) \/ Report(c)

Next ==
    \/ \E c \in Cmds :
        \/ Type(c) \/ RequestFails(c) \/ Handler(c)
        \/ Goroutine(c) \/ Breaks(c) \/ Lost(c) \/ Answer(c)
    \/ Show \/ NotShown

Spec == Init /\ [][Next]_vars

(* The agent's goroutine is scheduled, and its two deadlines come.  The    *)
(* game server owes nothing.                                               *)
FairSpec == Spec /\ WF_vars(\E c \in Cmds : Goroutine(c))

-----------------------------------------------------------------------------
(* The ranges of the variables.  A buffer never has a length for which     *)
(* rconRead would index outside it, or more than 4096 bytes (rcon.go 74).  *)
TypeOK ==
    /\ cmd \in [Cmds -> {"none", "select", "send", "insert", "over"}]
    /\ task \in [Cmds -> {"none", "dial", "write", "size", "rest", "report", "over"}]
    /\ {turn, due} \subseteq [Cmds -> 0 .. 2]
    /\ want \in [Cmds -> {0, 2} \cup MinSize .. MaxSize]
    /\ \A c \in Cmds :
        /\ task[c] \in {"size", "rest"} => Len(buf[c]) < want[c]
        /\ task[c] = "rest" => want[c] \in MinSize .. MaxSize
        /\ result[c].kind \in {"none", "error", "response"}
        /\ task[c] = "report" <=> result[c].kind # "none"
    /\ recorded \subseteq Cmds /\ unrecorded \subseteq Cmds
    /\ accepted \subseteq Cmds /\ ran \subseteq Cmds
    /\ faults \in 0 .. MaxFaults /\ hurried \in BOOLEAN
    /\ relay \in Seq(Cmds)
    /\ console \in Seq([kind : {"command", "failed", "reply"}, cmd : Cmds])

(* Wherever reads cut the stream, a response that is reported is the body  *)
(* of the one packet the server sent to the command, all of it, after it   *)
(* accepted the password (rcon.go 29-47, 93-103).                          *)
WholeAnswer ==
    \A c \in Cmds : task[c] = "report" /\ result[c].kind = "response" =>
        /\ c \in accepted
        /\ result[c].body = [k \in 1 .. packet[c].size - 2 |-> <<2, k + 3>>]

(* A game server that accepts a connection and then says nothing, or half  *)
(* of something, does not keep the command: its goroutine ends, with a     *)
(* report unless the agent was lost (rcon.go 12-18).                       *)
CommandEnds == \A c \in Cmds : task[c] = "dial" ~> task[c] = "over"

(* The console reads as a dialogue for a user who waits out the deadlines  *)
(* before the next command: an answer stands under its own command, and a  *)
(* command has one (server.js 115, app.js 82, agent.go 335): messages      *)
(* carry an id that nothing looks at.                                      *)
ConsoleIsDialogue ==
    ~hurried => \A j \in DOMAIN console : console[j].kind = "reply" =>
        /\ j > 1 /\ console[j - 1].cmd = console[j].cmd
        /\ console[j - 1].kind # "reply"

(* rcon_history names no command that no agent was given, and misses none  *)
(* the game server carried out, except between the two and when the INSERT *)
(* failed (api_servers.go 454-459).                                        *)
HistoryIsTrue ==
    /\ \A c \in recorded : task[c] # "none"
    /\ \A c \in ran : c \in recorded \cup unrecorded \/ cmd[c] = "insert"
=============================================================================
