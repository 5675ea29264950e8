-------------------------------- MODULE Hub --------------------------------
(***************************************************************************)
(* The master's hub (master/main.go, master/websocket.go): the goroutine   *)
(* Hub.Run, the reader and the writer goroutine of every agent connection, *)
(* one goroutine per browser socket, and the HTTP handlers that call       *)
(* SendToAgent.  They meet on unbuffered channels (register, unregister),  *)
(* on bounded channels (AgentMessages, UIMessages, each Send) and on the   *)
(* hub's RWMutex.                                                          *)
(*                                                                         *)
(* The mutex is not a variable: who holds its read side is visible in the  *)
(* program counters, and its write side only guards steps without a        *)
(* blocking operation inside, which are single actions here.               *)
(*                                                                         *)
(* A definition whose comment starts with "Slip" is no part of the model:  *)
(* it is the definition after it with a plausible mistake made in it, kept *)
(* to see that the properties notice.                                      *)
(***************************************************************************)
EXTENDS Naturals, Sequences, FiniteSets

CONSTANTS
    Conns,      \* *AgentConnection values; recycled when nothing uses them
    Names,      \* agent names, the keys of Hub.Agents
    NameOf,     \* NameOf[c]: the name the agent on c registers with
    Requests,   \* HTTP handlers, each calling SendToAgent once
    Target,     \* Target[r]: the agent name r sends to
    UIs,        \* browser sockets
    MayStall,   \* the browsers that may stop reading their socket
    SendCap,    \* capacity of AgentConnection.Send (256 in the code)
    RelayCap,   \* capacity of Hub.AgentMessages and Hub.UIMessages (256)
    MaxUIMsgs,  \* bound of the model: messages the browsers send in all
    NoConn, NoMsg

ASSUME HubAssumption ==
    /\ NameOf \in [Conns -> Names]
    /\ Target \in [Requests -> Names]
    /\ MayStall \subseteq UIs
    /\ SendCap \in Nat \ {0}
    /\ RelayCap \in Nat \ {0}
    /\ MaxUIMsgs \in Nat
    /\ NoConn \notin Conns \cup UIs
    /\ Conns \cap UIs = {}
    /\ NoMsg \notin Requests \cup UIs
    /\ Requests \cap UIs = {}

(* A command is named by the request that sent it, a browser's message by  *)
(* the browser: nothing here depends on more of a payload than that.       *)
Msgs == Requests \cup UIs

VARIABLES
    agents,     \* Hub.Agents
    uiClients,  \* Hub.UIClients, as the set of its keys
    status,     \* agents.status in the database
    queue, closed,     \* AgentConnection.Send: its buffer, and whether closed
    open,       \* the master has not closed this websocket
    held,       \* the message the writer has taken from Send
    wire,       \* the last message written to the agent's websocket
    reader,     \* where handleAgentWS and agentReader are
    writer,     \* where agentWriter is
    agentMsgs,  \* Hub.AgentMessages: how many messages it buffers
    uiMsgs,     \* Hub.UIMessages: the browsers whose messages it buffers
    uiBudget,   \* what is left of MaxUIMsgs
    ui,         \* where handleUIWS is
    stalled,    \* the browser's receive buffer is full and it does not read
    hpc,        \* where Hub.Run is
    harg,       \* the connection or browser Hub.Run is working on
    htodo,      \* the map keys its range loop has still to visit
    hmsg,       \* the browser message Hub.Run is passing on
    call,       \* where SendToAgent is, for each request
    dst         \* the map entry SendToAgent found

connVars == <<queue, closed, open, held, wire, reader, writer>>
uiVars   == <<ui, stalled, uiBudget>>
hubVars  == <<hpc, harg, htodo, hmsg>>
callVars == <<call, dst>>
vars == <<agents, uiClients, status, connVars, agentMsgs, uiMsgs, uiVars,
          hubVars, callVars>>

Init ==
    /\ agents = [n \in Names |-> NoConn]
    /\ uiClients = {}
    /\ status = [n \in Names |-> "offline"]
    /\ queue = [c \in Conns |-> <<>>]
    /\ closed = [c \in Conns |-> FALSE]
    /\ open = [c \in Conns |-> FALSE]
    /\ held = [c \in Conns |-> NoMsg]
    /\ wire = [c \in Conns |-> NoMsg]
    /\ reader = [c \in Conns |-> "idle"]
    /\ writer = [c \in Conns |-> "idle"]
    /\ agentMsgs = 0
    /\ uiMsgs = <<>>
    /\ uiBudget = MaxUIMsgs
    /\ ui = [u \in UIs |-> "idle"]
    /\ stalled = [u \in UIs |-> FALSE]
    /\ hpc = "select" /\ harg = NoConn /\ htodo = {} /\ hmsg = NoMsg
    /\ call = [r \in Requests |-> "new"]
    /\ dst = [r \in Requests |-> NoConn]

-----------------------------------------------------------------------------
(* Hub.mu.  Run holds the read side through its range loops, SendToAgent   *)
(* while it sends.  A goroutine about to Lock keeps new readers out, as    *)
(* sync.RWMutex does.                                                      *)

(* Slip: the lookup of an unregister keeps its read lock while Lock waits. *)
ReadLockedUpgrade ==
    \/ hpc \in {"toUI", "toAgents", "unregister"}
    \/ \E r \in Requests : call[r] = "send"

ReadLocked ==
    \/ hpc \in {"toUI", "toAgents"}
    \/ \E r \in Requests : call[r] = "send"

LockWaiting ==
    \/ hpc \in {"register", "unregister", "registerUI", "unregisterUI"}
    \/ \E c \in Conns : reader[c] = "store"

-----------------------------------------------------------------------------
(* An agent connection: handleAgentWS, then agentReader beside agentWriter *)

(* Slip: the Send channel of an earlier connection is used again.          *)
ConnectOldChannel(c) ==
    /\ reader[c] = "idle" /\ writer[c] = "idle" /\ harg # c
    /\ status' = [status EXCEPT ![NameOf[c]] = "online"]
    /\ reader' = [reader EXCEPT ![c] = "register"]
    /\ open' = [open EXCEPT ![c] = TRUE]
    /\ UNCHANGED <<agents, uiClients, queue, closed, held, wire, writer, agentMsgs, uiMsgs,
                   uiVars, hubVars, callVars>>

(* handleAgentWS once the agent's row and token are accepted: the status   *)
(* is written, the connection and its Send channel are made, and the       *)
(* goroutine offers them on RegisterAgent.                                 *)
Connect(c) ==
    /\ reader[c] = "idle" /\ writer[c] = "idle" /\ harg # c
    /\ status' = [status EXCEPT ![NameOf[c]] = "online"]
    /\ reader' = [reader EXCEPT ![c] = "register"]
    /\ queue' = [queue EXCEPT ![c] = <<>>]
    /\ closed' = [closed EXCEPT ![c] = FALSE]
    /\ open' = [open EXCEPT ![c] = TRUE]
    /\ UNCHANGED <<agents, uiClients, held, wire, writer, agentMsgs, uiMsgs,
                   uiVars, hubVars, callVars>>

(* ReadMessage returns a heartbeat, which only touches last_seen_at (no    *)
(* step here), metrics, stored under Lock and then relayed, or any other   *)
(* message, relayed.                                                       *)
ReaderReceive(c) ==
    /\ reader[c] = "read" /\ open[c]
    /\ \E next \in {"store", "relay"} : reader' = [reader EXCEPT ![c] = next]
    /\ UNCHANGED <<agents, uiClients, status, queue, closed, open, held, wire,
                   writer, agentMsgs, uiMsgs, uiVars, hubVars, callVars>>

ReaderStore(c) ==
    /\ reader[c] = "store" /\ ~ReadLocked
    /\ reader' = [reader EXCEPT ![c] = "relay"]
    /\ UNCHANGED <<agents, uiClients, status, queue, closed, open, held, wire,
                   writer, agentMsgs, uiMsgs, uiVars, hubVars, callVars>>

ReaderRelay(c) ==
    /\ reader[c] = "relay" /\ agentMsgs < RelayCap
    /\ agentMsgs' = agentMsgs + 1
    /\ reader' = [reader EXCEPT ![c] = "read"]
    /\ UNCHANGED <<agents, uiClients, status, queue, closed, open, held, wire,
                   writer, uiMsgs, uiVars, hubVars, callVars>>

(* Slip: the reader ends without telling the hub.                          *)
ReadFailsUnreported(c) ==
    /\ reader[c] = "read"
    /\ reader' = [reader EXCEPT ![c] = "offline"]
    /\ UNCHANGED <<agents, uiClients, status, queue, closed, open, held, wire,
                   writer, agentMsgs, uiMsgs, uiVars, hubVars, callVars>>

(* ReadMessage fails: the agent went away, the read deadline passed, or    *)
(* the writer closed the socket.  Until then nothing tells the master.     *)
ReadFails(c) ==
    /\ reader[c] = "read"
    /\ reader' = [reader EXCEPT ![c] = "unregister"]
    /\ UNCHANGED <<agents, uiClients, status, queue, closed, open, held, wire,
                   writer, agentMsgs, uiMsgs, uiVars, hubVars, callVars>>

(* Slip: the defer does not close the websocket.                           *)
ReaderExitOpen(c) ==
    /\ reader[c] = "offline"
    /\ status' = [status EXCEPT ![NameOf[c]] = "offline"]
    /\ reader' = [reader EXCEPT ![c] = "idle"]
    /\ UNCHANGED <<agents, uiClients, queue, closed, open, held, wire, writer,
                   agentMsgs, uiMsgs, uiVars, hubVars, callVars>>

(* The rest of agentReader's defer, after UnregisterAgent was received.    *)
ReaderExit(c) ==
    /\ reader[c] = "offline"
    /\ status' = [status EXCEPT ![NameOf[c]] = "offline"]
    /\ open' = [open EXCEPT ![c] = FALSE]
    /\ reader' = [reader EXCEPT ![c] = "idle"]
    /\ UNCHANGED <<agents, uiClients, queue, closed, held, wire, writer,
                   agentMsgs, uiMsgs, uiVars, hubVars, callVars>>

(* Slip: the message stays in the channel while it is written.             *)
WriterPeek(c) ==
    /\ writer[c] = "select" /\ queue[c] # <<>>
    /\ held' = [held EXCEPT ![c] = Head(queue[c])]
    /\ writer' = [writer EXCEPT ![c] = "write"]
    /\ UNCHANGED <<agents, uiClients, status, queue, closed, open, wire, reader,
                   agentMsgs, uiMsgs, uiVars, hubVars, callVars>>

WriterTake(c) ==
    /\ writer[c] = "select" /\ queue[c] # <<>>
    /\ held' = [held EXCEPT ![c] = Head(queue[c])]
    /\ queue' = [queue EXCEPT ![c] = Tail(@)]
    /\ writer' = [writer EXCEPT ![c] = "write"]
    /\ UNCHANGED <<agents, uiClients, status, closed, open, wire, reader,
                   agentMsgs, uiMsgs, uiVars, hubVars, callVars>>

WriterWrite(c) ==
    /\ writer[c] = "write" /\ open[c]
    /\ wire' = [wire EXCEPT ![c] = held[c]]
    /\ held' = [held EXCEPT ![c] = NoMsg]
    /\ writer' = [writer EXCEPT ![c] = "select"]
    /\ UNCHANGED <<agents, uiClients, status, queue, closed, open, reader,
                   agentMsgs, uiMsgs, uiVars, hubVars, callVars>>

(* agentWriter returns and its defer closes the websocket.                 *)
WriterReturn(c) ==
    /\ writer' = [writer EXCEPT ![c] = "idle"]
    /\ held' = [held EXCEPT ![c] = NoMsg]
    /\ open' = [open EXCEPT ![c] = FALSE]
    /\ UNCHANGED <<agents, uiClients, status, queue, closed, wire, reader,
                   agentMsgs, uiMsgs, uiVars, hubVars, callVars>>

(* A write of a message, or of the periodic ping, fails or runs into       *)
(* writeWait.                                                              *)
WriterFails(c) == writer[c] # "idle" /\ WriterReturn(c)

(* A closed channel still yields what it buffers, and only then ok = FALSE. *)
WriterClosed(c) ==
    writer[c] = "select" /\ closed[c] /\ queue[c] = <<>> /\ WriterReturn(c)

-----------------------------------------------------------------------------
(* SendToAgent, called by an HTTP handler                                  *)

CallStart(r) ==
    /\ call[r] = "new"
    /\ call' = [call EXCEPT ![r] = "rlock"]
    /\ UNCHANGED <<agents, uiClients, status, connVars, agentMsgs, uiMsgs,
                   uiVars, hubVars, dst>>

(* RLock, and the lookup under it: "refused" is the return of false.       *)
CallLookup(r) ==
    /\ call[r] = "rlock" /\ ~LockWaiting
    /\ LET c == agents[Target[r]] IN
         /\ dst' = [dst EXCEPT ![r] = c]
         /\ call' = [call EXCEPT ![r] =
                        IF c = NoConn THEN "refused" ELSE "send"]
    /\ UNCHANGED <<agents, uiClients, status, connVars, agentMsgs, uiMsgs,
                   uiVars, hubVars>>

Push(c, m) ==
    /\ Len(queue[c]) < SendCap
    /\ queue' = [queue EXCEPT ![c] = Append(@, m)]

CallSend(r) ==
    /\ call[r] = "send"
    /\ Push(dst[r], r)
    /\ call' = [call EXCEPT ![r] = "sent"]
    /\ UNCHANGED <<agents, uiClients, status, closed, open, held, wire,
                   reader, writer, agentMsgs, uiMsgs, uiVars, hubVars, dst>>

-----------------------------------------------------------------------------
(* A browser socket: handleUIWS                                            *)

UIConnect(u) ==
    /\ ui[u] = "idle"
    /\ ui' = [ui EXCEPT ![u] = "register"]
    /\ stalled' = [stalled EXCEPT ![u] = FALSE]
    /\ UNCHANGED <<agents, uiClients, status, connVars, agentMsgs, uiMsgs,
                   uiBudget, hubVars, callVars>>

UIReceive(u) ==
    /\ ui[u] = "read" /\ uiBudget > 0
    /\ ui' = [ui EXCEPT ![u] = "relay"]
    /\ uiBudget' = uiBudget - 1
    /\ UNCHANGED <<agents, uiClients, status, connVars, agentMsgs, uiMsgs,
                   stalled, hubVars, callVars>>

UIRelay(u) ==
    /\ ui[u] = "relay" /\ Len(uiMsgs) < RelayCap
    /\ uiMsgs' = Append(uiMsgs, u)
    /\ ui' = [ui EXCEPT ![u] = "read"]
    /\ UNCHANGED <<agents, uiClients, status, connVars, agentMsgs, stalled,
                   uiBudget, hubVars, callVars>>

(* ReadMessage fails, at the latest when the read deadline set on connect  *)
(* passes: no ping refreshes it.                                           *)
UIReadFails(u) ==
    /\ ui[u] = "read"
    /\ ui' = [ui EXCEPT ![u] = "unregister"]
    /\ UNCHANGED <<agents, uiClients, status, connVars, agentMsgs, uiMsgs,
                   stalled, uiBudget, hubVars, callVars>>

Stall(u) ==
    /\ u \in MayStall /\ ui[u] # "idle"
    /\ stalled' = [stalled EXCEPT ![u] = ~@]
    /\ UNCHANGED <<agents, uiClients, status, connVars, agentMsgs, uiMsgs, ui,
                   uiBudget, hubVars, callVars>>

-----------------------------------------------------------------------------
(* Hub.Run: take one case of the select, finish it, come back              *)

TakeRegister(c) ==
    /\ hpc = "select" /\ reader[c] = "register"
    /\ hpc' = "register" /\ harg' = c
    /\ reader' = [reader EXCEPT ![c] = "read"]
    /\ writer' = [writer EXCEPT ![c] = "select"]
    /\ wire' = [wire EXCEPT ![c] = NoMsg]
    /\ UNCHANGED <<agents, uiClients, status, queue, closed, open, held,
                   agentMsgs, uiMsgs, uiVars, htodo, hmsg, callVars>>

Register ==
    /\ hpc = "register" /\ ~ReadLocked
    /\ agents' = [agents EXCEPT ![NameOf[harg]] = harg]
    /\ hpc' = "select" /\ harg' = NoConn
    /\ UNCHANGED <<uiClients, status, connVars, agentMsgs, uiMsgs, uiVars,
                   htodo, hmsg, callVars>>

TakeUnregister(c) ==
    /\ hpc = "select" /\ reader[c] = "unregister"
    /\ hpc' = "unregister" /\ harg' = c
    /\ reader' = [reader EXCEPT ![c] = "offline"]
    /\ UNCHANGED <<agents, uiClients, status, queue, closed, open, held, wire,
                   writer, agentMsgs, uiMsgs, uiVars, htodo, hmsg, callVars>>

(* Slip: the registry is changed without the lock.                         *)
UnregisterUnlocked ==
    /\ hpc = "unregister"
    /\ IF agents[NameOf[harg]] # NoConn
       THEN /\ agents' = [agents EXCEPT ![NameOf[harg]] = NoConn]
            /\ closed' = [closed EXCEPT ![harg] = TRUE]
       ELSE UNCHANGED <<agents, closed>>
    /\ hpc' = "select" /\ harg' = NoConn
    /\ UNCHANGED <<uiClients, status, queue, open, held, wire, reader, writer,
                   agentMsgs, uiMsgs, uiVars, htodo, hmsg, callVars>>

(* Slip: Unlock is only reached when an entry was found.                   *)
UnregisterLeavesLock ==
    /\ hpc = "unregister" /\ ~ReadLocked
    /\ agents[NameOf[harg]] # NoConn
    /\ agents' = [agents EXCEPT ![NameOf[harg]] = NoConn]
    /\ closed' = [closed EXCEPT ![harg] = TRUE]
    /\ hpc' = "select" /\ harg' = NoConn
    /\ UNCHANGED <<uiClients, status, queue, open, held, wire, reader, writer,
                   agentMsgs, uiMsgs, uiVars, htodo, hmsg, callVars>>

(* The entry is looked up and deleted by NAME; the channel closed is that  *)
(* of the connection that unregisters.                                     *)
Unregister ==
    /\ hpc = "unregister" /\ ~ReadLocked
    /\ IF agents[NameOf[harg]] # NoConn
       THEN /\ agents' = [agents EXCEPT ![NameOf[harg]] = NoConn]
            /\ closed' = [closed EXCEPT ![harg] = TRUE]
       ELSE UNCHANGED <<agents, closed>>
    /\ hpc' = "select" /\ harg' = NoConn
    /\ UNCHANGED <<uiClients, status, queue, open, held, wire, reader, writer,
                   agentMsgs, uiMsgs, uiVars, htodo, hmsg, callVars>>

TakeRegisterUI(u) ==
    /\ hpc = "select" /\ ui[u] = "register"
    /\ hpc' = "registerUI" /\ harg' = u
    /\ ui' = [ui EXCEPT ![u] = "read"]
    /\ UNCHANGED <<agents, uiClients, status, connVars, agentMsgs, uiMsgs,
                   stalled, uiBudget, htodo, hmsg, callVars>>

RegisterUI ==
    /\ hpc = "registerUI" /\ ~ReadLocked
    /\ uiClients' = uiClients \cup {harg}
    /\ hpc' = "select" /\ harg' = NoConn
    /\ UNCHANGED <<agents, status, connVars, agentMsgs, uiMsgs, uiVars, htodo,
                   hmsg, callVars>>

TakeUnregisterUI(u) ==
    /\ hpc = "select" /\ ui[u] = "unregister"
    /\ hpc' = "unregisterUI" /\ harg' = u
    /\ ui' = [ui EXCEPT ![u] = "closing"]
    /\ UNCHANGED <<agents, uiClients, status, connVars, agentMsgs, uiMsgs,
                   stalled, uiBudget, htodo, hmsg, callVars>>

(* handleUIWS has returned; conn.Close ends the socket.                    *)
UnregisterUI ==
    /\ hpc = "unregisterUI" /\ ~ReadLocked
    /\ uiClients' = uiClients \ {harg}
    /\ ui' = [ui EXCEPT ![harg] = "idle"]
    /\ hpc' = "select" /\ harg' = NoConn
    /\ UNCHANGED <<agents, status, connVars, agentMsgs, uiMsgs, stalled,
                   uiBudget, htodo, hmsg, callVars>>

(* A range loop over a map visits its keys in any order and blocks on the  *)
(* key it has come to.  Visit starts on one of S, or ends the loop and     *)
(* with it the read lock.                                                  *)
Visit(S, pc) ==
    IF S = {}
    THEN hpc' = "select" /\ harg' = NoConn /\ htodo' = {} /\ hmsg' = NoMsg
    ELSE \E x \in S :
            hpc' = pc /\ harg' = x /\ htodo' = S \ {x} /\ UNCHANGED hmsg

TakeAgentMsg ==
    /\ hpc = "select" /\ agentMsgs > 0
    /\ agentMsgs' = agentMsgs - 1
    /\ hpc' = "rlockUI"
    /\ UNCHANGED <<agents, uiClients, status, connVars, uiMsgs, uiVars, harg,
                   htodo, hmsg, callVars>>

RangeUI ==
    /\ hpc = "rlockUI" /\ ~LockWaiting
    /\ Visit(uiClients, "toUI")
    /\ UNCHANGED <<agents, uiClients, status, connVars, agentMsgs, uiMsgs,
                   uiVars, callVars>>

(* WriteMessage to a browser has no deadline: it waits for one that does   *)
(* not read.  An error is only logged.                                     *)
WriteUI ==
    /\ hpc = "toUI" /\ ~stalled[harg]
    /\ Visit(htodo, "toUI")
    /\ UNCHANGED <<agents, uiClients, status, connVars, agentMsgs, uiMsgs,
                   uiVars, callVars>>

TakeUIMsg ==
    /\ hpc = "select" /\ uiMsgs # <<>>
    /\ hmsg' = Head(uiMsgs) /\ uiMsgs' = Tail(uiMsgs)
    /\ hpc' = "rlockAgents"
    /\ UNCHANGED <<agents, uiClients, status, connVars, agentMsgs, uiVars,
                   harg, htodo, callVars>>

RangeAgents ==
    /\ hpc = "rlockAgents" /\ ~LockWaiting
    /\ Visit({agents[n] : n \in Names} \ {NoConn}, "toAgents")
    /\ UNCHANGED <<agents, uiClients, status, connVars, agentMsgs, uiMsgs,
                   uiVars, callVars>>

SendAll ==
    /\ hpc = "toAgents"
    /\ Push(harg, hmsg)
    /\ Visit(htodo, "toAgents")
    /\ UNCHANGED <<agents, uiClients, status, closed, open, held, wire,
                   reader, writer, agentMsgs, uiMsgs, uiVars, callVars>>

-----------------------------------------------------------------------------

AgentStep(c) ==
    \/ Connect(c) \/ ReaderReceive(c) \/ ReaderStore(c) \/ ReaderRelay(c)
    \/ ReadFails(c) \/ ReaderExit(c)
    \/ WriterTake(c) \/ WriterWrite(c) \/ WriterFails(c) \/ WriterClosed(c)

CallStep(r) == CallStart(r) \/ CallLookup(r) \/ CallSend(r)

BrowserStep(u) ==
    UIConnect(u) \/ UIReceive(u) \/ UIRelay(u) \/ UIReadFails(u) \/ Stall(u)

(* The cases of the select: which one is taken is the runtime's choice.    *)
Select ==
    \/ \E c \in Conns : TakeRegister(c) \/ TakeUnregister(c)
    \/ \E u \in UIs : TakeRegisterUI(u) \/ TakeUnregisterUI(u)
    \/ TakeAgentMsg \/ TakeUIMsg

(* What Run does with the case it took.                                    *)
Finish ==
    \/ Register \/ Unregister \/ RegisterUI \/ UnregisterUI
    \/ RangeUI \/ WriteUI \/ RangeAgents \/ SendAll

Next ==
    \/ \E c \in Conns : AgentStep(c)
    \/ \E r \in Requests : CallStep(r)
    \/ \E u \in UIs : BrowserStep(u)
    \/ Select
    \/ Finish

Spec == Init /\ [][Next]_vars

(* What a goroutine does without its peer's doing.  A socket this side has *)
(* closed fails the reader at once and the writer at the next ping.        *)
ReaderProgress(c) ==
    \/ TakeRegister(c) \/ TakeUnregister(c)
    \/ ReaderStore(c) \/ ReaderRelay(c) \/ ReaderExit(c)
    \/ ~open[c] /\ ReadFails(c)

WriterProgress(c) ==
    \/ WriterTake(c) \/ WriterWrite(c) \/ WriterClosed(c)
    \/ ~open[c] /\ WriterFails(c)

(* Every goroutine that can run does, and none that waits for a lock or a  *)
(* channel is passed over for ever: the select picks among its ready cases *)
(* at random, goroutines blocked on a channel queue first-in-first-out,    *)
(* and sync.RWMutex starves nobody.  Nothing makes an agent or a browser   *)
(* connect, speak, stop stalling or leave.                                 *)
Fairness ==
    /\ SF_vars(Finish)
    /\ SF_vars(TakeAgentMsg) /\ SF_vars(TakeUIMsg)
    /\ \A c \in Conns : SF_vars(ReaderProgress(c)) /\ WF_vars(WriterProgress(c))
    /\ \A r \in Requests : SF_vars(CallLookup(r) \/ CallSend(r))
    /\ \A u \in UIs :
        SF_vars(TakeRegisterUI(u) \/ TakeUnregisterUI(u) \/ UIRelay(u))

FairSpec == Spec /\ Fairness

-----------------------------------------------------------------------------
(* Properties                                                              *)

(* The values every variable ranges over.                                  *)
TypeOK ==
    /\ agents \in [Names -> Conns \cup {NoConn}]
    /\ uiClients \subseteq UIs
    /\ status \in [Names -> {"online", "offline"}]
    /\ queue \in [Conns -> Seq(Msgs)]
    /\ closed \in [Conns -> BOOLEAN]
    /\ open \in [Conns -> BOOLEAN]
    /\ held \in [Conns -> Msgs \cup {NoMsg}]
    /\ wire \in [Conns -> Msgs \cup {NoMsg}]
    /\ reader \in [Conns -> {"idle", "register", "read", "store", "relay",
                             "unregister", "offline"}]
    /\ writer \in [Conns -> {"idle", "select", "write"}]
    /\ agentMsgs \in 0 .. RelayCap
    /\ uiMsgs \in Seq(UIs)
    /\ uiBudget \in 0 .. MaxUIMsgs
    /\ ui \in [UIs -> {"idle", "register", "read", "relay", "unregister",
                       "closing"}]
    /\ stalled \in [UIs -> BOOLEAN]
    /\ hpc \in {"select", "register", "unregister", "registerUI",
                "unregisterUI", "rlockUI", "toUI", "rlockAgents", "toAgents"}
    /\ harg \in Conns \cup UIs \cup {NoConn}
    /\ htodo \subseteq Conns \cup UIs
    /\ hmsg \in UIs \cup {NoMsg}
    /\ call \in [Requests -> {"new", "rlock", "send", "sent", "refused"}]
    /\ dst \in [Requests -> Conns \cup {NoConn}]

Running == {"read", "store", "relay", "unregister"}

(* Hub.Agents never holds a dead connection: an entry is filed under its   *)
(* agent's own name, its channel is open, and its reader still has the     *)
(* unregister ahead of it, the only thing that would take the entry away.  *)
RegistryLive ==
    \A n \in Names :
        LET c == agents[n] IN
        c # NoConn =>
            /\ NameOf[c] = n
            /\ ~closed[c]
            /\ reader[c] \in Running \/ (hpc = "unregister" /\ harg = c)

(* Neither panic of a Go channel can happen: no goroutine is at a send on  *)
(* a channel that is closed or can be closed before the send is done, and  *)
(* no channel is about to be closed a second time.                         *)
NoChannelPanic ==
    /\ \A r \in Requests :
        call[r] = "send" => /\ agents[Target[r]] = dst[r]
                            /\ dst[r] # NoConn /\ ~closed[dst[r]]
    /\ hpc = "toAgents" =>
        \A c \in htodo \cup {harg} : agents[NameOf[c]] = c /\ ~closed[c]
    /\ hpc = "unregister" => ~closed[harg]

(* A goroutine waits for a lock, or for room in a channel or a receiver.   *)
Waiting ==
    \/ hpc # "select"
    \/ \E r \in Requests : call[r] \in {"rlock", "send"}
    \/ \E c \in Conns : \/ reader[c] \in {"register", "store", "unregister"}
                        \/ reader[c] = "relay" /\ agentMsgs >= RelayCap
    \/ \E u \in UIs : \/ ui[u] \in {"register", "unregister"}
                      \/ ui[u] = "relay" /\ Len(uiMsgs) >= RelayCap

(* The connections whose Send channel a goroutine is sending to.           *)
Awaited ==
    {dst[r] : r \in {q \in Requests : call[q] = "send"}}
    \cup {c \in Conns : hpc = "toAgents" /\ harg = c}

(* Somebody a goroutine can be waiting for has a step to take: Run, a      *)
(* caller, a reader that stores metrics, or a writer that is sent to.      *)
CanMove ==
    \/ /\ hpc = "select"
       /\ \/ agentMsgs > 0 \/ uiMsgs # <<>>
          \/ \E c \in Conns : reader[c] \in {"register", "unregister"}
          \/ \E u \in UIs : ui[u] \in {"register", "unregister"}
    \/ hpc \in {"register", "unregister", "registerUI", "unregisterUI"} /\ ~ReadLocked
    \/ hpc \in {"rlockUI", "rlockAgents"} /\ ~LockWaiting
    \/ hpc = "toUI" /\ ~stalled[harg]
    \/ \E r \in Requests : call[r] = "rlock" /\ ~LockWaiting
    \/ \E c \in Conns : reader[c] = "store" /\ ~ReadLocked
    \/ \E c \in Awaited : \/ Len(queue[c]) < SendCap
                          \/ writer[c] = "select" /\ queue[c] # <<>>
                          \/ writer[c] = "write"

BehindDeadWriter ==
    \E c \in Awaited : writer[c] = "idle" /\ Len(queue[c]) >= SendCap

BehindStalledUI == hpc = "toUI" /\ stalled[harg]

(* The hub's goroutines never all wait for each other, in whatever circle  *)
(* of lock, channels and select: while one waits, one of the others can go *)
(* on, but for the two operations without a deadline: a send to a full     *)
(* channel whose writer has ended, a write to a browser that does not read.*)
NobodyHangs == Waiting => CanMove \/ BehindDeadWriter \/ BehindStalledUI

(* Where a command is on its way: in a channel, in a writer's hand, or     *)
(* last on a wire.                                                         *)
Copies(r) ==
    {p \in Conns \X (1 .. SendCap) :
        p[2] <= Len(queue[p[1]]) /\ queue[p[1]][p[2]] = r}
    \cup {<<c, 0>> : c \in {d \in Conns : held[d] = r}}
    \cup {<<c, SendCap + 1>> : c \in {d \in Conns : wire[d] = r}}

(* A command is on its way at most once, only to an agent of the name it   *)
(* was meant for, and only if SendToAgent has returned true for it: no     *)
(* reconnect hands it to a second connection.                              *)
DeliveredOnce ==
    \A r \in Requests :
        /\ Cardinality(Copies(r)) <= 1
        /\ \A p \in Copies(r) : NameOf[p[1]] = Target[r] /\ call[r] = "sent"

(* Hub implements Relay: the pipe of a connection is its writer goroutine, *)
(* with the message in its hand in front of the channel.                   *)
Live == [c \in Conns |-> writer[c] # "idle"]

Pending ==
    [c \in Conns |-> CASE writer[c] = "select" -> queue[c]
                       [] writer[c] = "write" -> <<held[c]>> \o queue[c]
                       [] OTHER -> <<>>]

Pipes == INSTANCE Relay WITH
    Capacity <- SendCap + 1, live <- Live, pending <- Pending

(* What the hub accepts for an agent it writes in order and at most once,  *)
(* and loses only with the connection.                                     *)
ImplementsRelay == Pipes!Spec

(* Every SendToAgent returns.                                              *)
CallsReturn ==
    \A r \in Requests : call[r] = "rlock" ~> call[r] \in {"sent", "refused"}

(* An agent that has connected gets into Hub.Agents, and one whose reader  *)
(* has ended gets out and is set offline: Hub.Run always comes back to it. *)
AgentsServed ==
    \A c \in Conns :
        /\ reader[c] = "register" ~> agents[NameOf[c]] = c
        /\ reader[c] = "unregister" ~> reader[c] = "idle"

(* A writer goroutine does not outlive its connection: whether or not its  *)
(* channel was closed on unregister, it ends.                              *)
WritersEnd ==
    \A c \in Conns : (reader[c] = "idle") ~> (writer[c] = "idle")
=============================================================================
