----------------------------- MODULE Admission -----------------------------
(***************************************************************************)
(* How one agent gets in: the first message of a connection and what the   *)
(* master answers (master/websocket.go), the pending map and the approval  *)
(* (master/main.go, master/api_agents.go), the agents row (master/db.go),  *)
(* and the agent's token and reconnect loop (agent/main.go,                *)
(* agent/agent.go).                                                        *)
(*                                                                         *)
(* Names do not meet, so there is one.  A token has the name of the        *)
(* approval that drew it: 32 random bytes never repeat.  A connection is   *)
(* used again once both sides are through with it.  A definition whose     *)
(* comment starts with "Slip" is the next one with a mistake in it.        *)
(***************************************************************************)
EXTENDS Naturals, FiniteSets

CONSTANTS
    Conns,          \* connections at a time (a bound of the model)
    Approvals,      \* approve requests of the admin
    NoConn, NoToken,
    MaxLosses,      \* bound: connections lost while in use
    MaxDeletes,     \* bound: times the admin deletes the agent
    MaxRestarts     \* bound: restarts of the agent the admin did not plan

ASSUME AdmissionAssumption ==
    /\ NoConn \notin Conns /\ NoToken \notin Approvals
    /\ MaxLosses \in Nat /\ MaxDeletes \in Nat /\ MaxRestarts \in Nat

VARIABLES
    row, token,     \* the agent's row: status ("absent" without) and token
    pending,        \* Hub.PendingAgents[name]
    hub,            \* Hub.Agents[name]
    serve,          \* where the goroutine that serves a connection is
    waiter,         \* waitForApproval runs on the connection
    open,           \* neither side has closed the connection, nor lost it
    shown,          \* the token its register message carries
    reply,          \* the token of an approved message on its way
    message,        \* one message of the agent on its way, and its fate
    ap, held,       \* an approve handler and the connection it has taken
    cur,            \* the connection the agent is on
    cfg, env, file, \* the agent's tokens: main's cfg, AGENT_TOKEN, the file
    edited,         \* AGENT_TOKEN was edited, the agent not yet restarted
    losses, deletes, restarts

rowVars == <<row, token>>
masterVars == <<pending, hub>>
connVars == <<serve, waiter, open, shown, reply, message>>
apVars == <<ap, held>>
agentVars == <<cur, cfg, env, file, edited>>
counts == <<losses, deletes, restarts>>
vars == <<rowVars, masterVars, connVars, apVars, agentVars, counts>>

Tokens == Approvals \cup {NoToken}

Init ==
    /\ row = "absent" /\ token = NoToken
    /\ pending = NoConn /\ hub = NoConn
    /\ serve = [c \in Conns |-> "idle"]
    /\ waiter = [c \in Conns |-> FALSE]
    /\ open = [c \in Conns |-> FALSE]
    /\ shown = [c \in Conns |-> NoToken]
    /\ reply = [c \in Conns |-> NoToken]
    /\ message = [c \in Conns |-> "none"]
    /\ ap = [p \in Approvals |-> "new"]
    /\ held = [p \in Approvals |-> NoConn]
    /\ cur = NoConn
    /\ cfg = NoToken /\ env = NoToken /\ file = NoToken /\ edited = FALSE
    /\ losses = 0 /\ deletes = 0 /\ restarts = 0

-----------------------------------------------------------------------------
(* The agent                                                               *)

(* Nobody on the master's side has this connection in hand.                *)
Free(c) ==
    /\ serve[c] \in {"idle", "pend"} /\ ~waiter[c]
    /\ \A p \in Approvals : held[p] # c

(* main: a new Agent with main's cfg, Connect, register.                   *)
Dial(c) ==
    /\ cur = NoConn /\ Free(c)
    /\ cur' = c
    /\ serve' = [serve EXCEPT ![c] = "select"]
    /\ open' = [open EXCEPT ![c] = TRUE]
    /\ shown' = [shown EXCEPT ![c] = cfg]
    /\ reply' = [reply EXCEPT ![c] = NoToken]
    /\ message' = [message EXCEPT ![c] = "none"]
    /\ UNCHANGED <<rowVars, masterVars, waiter, apVars,
                   cfg, env, file, edited, counts>>

(* The reader fails; after five seconds main dials again.                  *)
HangUp ==
    /\ cur # NoConn /\ ~open[cur]
    /\ cur' = NoConn
    /\ UNCHANGED <<rowVars, masterVars, connVars, apVars,
                   cfg, env, file, edited, counts>>

(* A heartbeat, a metrics point or a status report.                        *)
Speak ==
    /\ cur # NoConn /\ open[cur] /\ message[cur] # "sent"
    /\ message' = [message EXCEPT ![cur] = "sent"]
    /\ UNCHANGED <<rowVars, masterVars, serve, waiter, open, shown, reply,
                   apVars, agentVars, counts>>

(* The approved message is saved for the next start of the process.  The   *)
(* Agent's own copy of the token is never used again.                      *)
SaveToken ==
    /\ cur # NoConn /\ open[cur] /\ reply[cur] # NoToken
    /\ file' = reply[cur]
    /\ reply' = [reply EXCEPT ![cur] = NoToken]
    /\ UNCHANGED <<rowVars, masterVars, serve, waiter, open, shown, message,
                   apVars, cur, cfg, env, edited, counts>>

(* Slip: AGENT_TOKEN is not looked at.                                     *)
RestartFileOnly ==
    /\ cfg' = file
    /\ cur' = NoConn
    /\ open' = [c \in Conns |-> open[c] /\ c # cur]
    /\ UNCHANGED <<rowVars, masterVars, serve, waiter, shown, reply, message,
                   apVars, env, file, losses, deletes>>

(* The process starts again; a saved token wins over AGENT_TOKEN.          *)
Restart ==
    /\ cfg' = IF file # NoToken THEN file ELSE env
    /\ cur' = NoConn
    /\ open' = [c \in Conns |-> open[c] /\ c # cur]
    /\ UNCHANGED <<rowVars, masterVars, serve, waiter, shown, reply, message,
                   apVars, env, file, losses, deletes>>

AdminRestart ==
    /\ edited
    /\ edited' = FALSE
    /\ Restart /\ UNCHANGED restarts

Crash ==
    /\ restarts < MaxRestarts
    /\ restarts' = restarts + 1
    /\ Restart /\ UNCHANGED edited

Lose(c) ==
    /\ open[c] /\ losses < MaxLosses
    /\ open' = [open EXCEPT ![c] = FALSE]
    /\ losses' = losses + 1
    /\ UNCHANGED <<rowVars, masterVars, serve, waiter, shown, reply, message,
                   apVars, agentVars, deletes, restarts>>

-----------------------------------------------------------------------------
(* handleAgentWS                                                           *)

(* Slip: a pending agent is not told from an approved one.                 *)
SelectAdmits(c) ==
    /\ serve[c] = "select"
    /\ serve' = [serve EXCEPT ![c] =
           CASE row = "absent" -> "insert"
             [] row = "approved" /\ token # shown[c] -> "idle"
             [] OTHER -> "admit"]
    /\ open' = [open EXCEPT ![c] =
           @ /\ ~(row = "approved" /\ token # shown[c])]
    /\ UNCHANGED <<rowVars, masterVars, waiter, shown, reply, message, apVars,
                   agentVars, counts>>

(* The SELECT, and the branch taken on what it returned.                   *)
Select(c) ==
    /\ serve[c] = "select"
    /\ serve' = [serve EXCEPT ![c] =
           CASE row = "absent" -> "insert"
             [] row = "pending" -> "add"
             [] row = "approved" /\ token # shown[c] -> "idle"
             [] OTHER -> "admit"]
    /\ open' = [open EXCEPT ![c] =
           @ /\ ~(row = "approved" /\ token # shown[c])]
    /\ UNCHANGED <<rowVars, masterVars, waiter, shown, reply, message, apVars,
                   agentVars, counts>>

(* Slip: on a conflict the row is pending again.                           *)
InsertResets(c) ==
    /\ serve[c] = "insert"
    /\ serve' = [serve EXCEPT ![c] = "add"]
    /\ row' = "pending"
    /\ UNCHANGED <<token, masterVars, waiter, open, shown, reply, message,
                   apVars, agentVars, counts>>

(* upsertPendingAgent leaves the status of a row that is there by now.     *)
Insert(c) ==
    /\ serve[c] = "insert"
    /\ serve' = [serve EXCEPT ![c] = "add"]
    /\ row' = IF row = "absent" THEN "pending" ELSE row
    /\ token' = IF row = "absent" THEN NoToken ELSE token
    /\ UNCHANGED <<masterVars, waiter, open, shown, reply, message, apVars,
                   agentVars, counts>>

AddPending(c) ==
    /\ serve[c] = "add"
    /\ serve' = [serve EXCEPT ![c] = "pend"]
    /\ waiter' = [waiter EXCEPT ![c] = TRUE]
    /\ pending' = c
    /\ UNCHANGED <<rowVars, hub, open, shown, reply, message, apVars, agentVars,
                   counts>>

(* updateAgentStatus, whose error nobody looks at.                         *)
SetStatus(status) == row' \in IF row = "absent" THEN {row} ELSE {row, status}

SetOnline == SetStatus("online")

Admit(c) ==
    /\ serve[c] = "admit"
    /\ serve' = [serve EXCEPT ![c] = "enter"]
    /\ SetOnline
    /\ UNCHANGED <<token, masterVars, waiter, open, shown, reply, message,
                   apVars, agentVars, counts>>

Enter(c) ==
    /\ serve[c] = "enter"
    /\ serve' = [serve EXCEPT ![c] = "read"]
    /\ hub' = c
    /\ UNCHANGED <<rowVars, pending, waiter, open, shown, reply, message,
                   apVars, agentVars, counts>>

(* waitForApproval reads and drops, as long as it runs: the connection     *)
(* may have an agentReader by then, and either may get a message.          *)
WaiterReads(c) ==
    /\ waiter[c] /\ open[c] /\ message[c] = "sent"
    /\ message' = [message EXCEPT ![c] = "dropped"]
    /\ UNCHANGED <<rowVars, masterVars, serve, waiter, open, shown, reply,
                   apVars, agentVars, counts>>

(* waitForApproval and agentReader are in ReadMessage at once, which the   *)
(* websocket library forbids: they may tear a frame apart between them,    *)
(* and then both fail.                                                     *)
ReadsCollide(c) ==
    /\ waiter[c] /\ serve[c] = "read" /\ open[c] /\ message[c] = "sent"
    /\ message' = [message EXCEPT ![c] = "none"]
    /\ open' = [open EXCEPT ![c] = FALSE]
    /\ UNCHANGED <<rowVars, masterVars, serve, waiter, shown, reply, apVars,
                   agentVars, counts>>

(* Slip: the entry of the map is left to a connection that is gone.        *)
WaiterEndsKeeps(c) ==
    /\ waiter[c]
    /\ ~open[c] \/ serve[c] = "pend"
    /\ waiter' = [waiter EXCEPT ![c] = FALSE]
    /\ open' = [open EXCEPT ![c] = FALSE]
    /\ UNCHANGED <<rowVars, pending, hub, serve, shown, reply, message, apVars,
                   agentVars, counts>>

(* The read fails, or the ten minutes are over and no agentReader has set  *)
(* a deadline of its own.  RemovePending goes by the name.                 *)
WaiterEnds(c) ==
    /\ waiter[c]
    /\ ~open[c] \/ serve[c] = "pend"
    /\ waiter' = [waiter EXCEPT ![c] = FALSE]
    /\ pending' = NoConn
    /\ open' = [open EXCEPT ![c] = FALSE]
    /\ UNCHANGED <<rowVars, hub, serve, shown, reply, message, apVars,
                   agentVars, counts>>

ReaderReads(c) ==
    /\ serve[c] = "read" /\ open[c] /\ message[c] = "sent"
    /\ message' = [message EXCEPT ![c] = "none"]
    /\ UNCHANGED <<rowVars, masterVars, serve, waiter, open, shown, reply,
                   apVars, agentVars, counts>>

(* The deferred unregister, by name, and then the status, by name.         *)
ReaderFails(c) ==
    /\ serve[c] = "read" /\ ~open[c]
    /\ serve' = [serve EXCEPT ![c] = "offline"]
    /\ hub' = NoConn
    /\ UNCHANGED <<rowVars, pending, waiter, open, shown, reply, message,
                   apVars, agentVars, counts>>

SetOffline(c) ==
    /\ serve[c] = "offline"
    /\ serve' = [serve EXCEPT ![c] = "idle"]
    /\ SetStatus("offline")
    /\ UNCHANGED <<token, masterVars, waiter, open, shown, reply, message,
                   apVars, agentVars, counts>>

-----------------------------------------------------------------------------
(* The admin                                                               *)

(* The row was listed as pending when the page was drawn; the handler      *)
(* only looks whether it is there.                                         *)
Approve(p) ==
    /\ ap[p] = "new" /\ row # "absent"
    /\ ap' = [ap EXCEPT ![p] = "update"]
    /\ UNCHANGED <<rowVars, masterVars, connVars, held, agentVars, counts>>

UpdateToken(p) ==
    /\ ap[p] = "update"
    /\ ap' = [ap EXCEPT ![p] = "take"]
    /\ row' = IF row = "absent" THEN row ELSE "approved"
    /\ token' = IF row = "absent" THEN token ELSE p
    /\ UNCHANGED <<masterVars, connVars, held, agentVars, counts>>

(* Slip: the connection stays in the map.                                  *)
TakePendingKeeps(p) ==
    /\ ap[p] = "take"
    /\ ap' = [ap EXCEPT ![p] = IF pending = NoConn THEN "done" ELSE "write"]
    /\ held' = [held EXCEPT ![p] = pending]
    /\ UNCHANGED <<rowVars, masterVars, connVars, agentVars, counts>>

(* ApprovePendingAgent: the connection is taken out of the map.            *)
TakePending(p) ==
    /\ ap[p] = "take"
    /\ ap' = [ap EXCEPT ![p] = IF pending = NoConn THEN "done" ELSE "write"]
    /\ held' = [held EXCEPT ![p] = pending]
    /\ pending' = NoConn
    /\ UNCHANGED <<rowVars, hub, connVars, agentVars, counts>>

WriteApproved(p) ==
    /\ ap[p] = "write"
    /\ ap' = [ap EXCEPT ![p] = "online"]
    /\ reply' = IF open[held[p]] THEN [reply EXCEPT ![held[p]] = p] ELSE reply
    /\ UNCHANGED <<rowVars, masterVars, serve, waiter, open, shown, message,
                   held, agentVars, counts>>

ApprovedOnline(p) ==
    /\ ap[p] = "online"
    /\ ap' = [ap EXCEPT ![p] = "enter"]
    /\ SetOnline
    /\ UNCHANGED <<token, masterVars, connVars, held, agentVars, counts>>

(* The connection gets an agentReader beside the waiter it still has.      *)
ApprovedEnters(p) ==
    /\ ap[p] = "enter"
    /\ ap' = [ap EXCEPT ![p] = "done"]
    /\ held' = [held EXCEPT ![p] = NoConn]
    /\ hub' = held[p]
    /\ serve' = [serve EXCEPT ![held[p]] = "read"]
    /\ UNCHANGED <<rowVars, pending, waiter, open, shown, reply, message,
                   agentVars, counts>>

Delete ==
    /\ row # "absent" /\ deletes < MaxDeletes
    /\ deletes' = deletes + 1
    /\ row' = "absent" /\ token' = NoToken
    /\ UNCHANGED <<masterVars, connVars, apVars, agentVars, losses, restarts>>

(* The token of the dialog is pasted into AGENT_TOKEN.                     *)
PasteToken(p) ==
    /\ ap[p] = "done" /\ token = p /\ env # p
    /\ env' = p /\ edited' = TRUE
    /\ UNCHANGED <<rowVars, masterVars, connVars, apVars, cur, cfg, file, counts>>

-----------------------------------------------------------------------------

AgentStep ==
    \/ \E c \in Conns : Dial(c)
    \/ HangUp \/ Speak \/ SaveToken \/ Crash

ServeStep(c) ==
    \/ Select(c) \/ Insert(c) \/ AddPending(c) \/ Admit(c) \/ Enter(c)
    \/ ReaderFails(c) \/ SetOffline(c)

ReadStep(c) == WaiterReads(c) \/ ReaderReads(c) \/ ReadsCollide(c)

ApproveStep(p) ==
    \/ UpdateToken(p) \/ TakePending(p) \/ WriteApproved(p)
    \/ ApprovedOnline(p) \/ ApprovedEnters(p)

Next ==
    \/ AgentStep \/ AdminRestart \/ Delete
    \/ \E c \in Conns : ServeStep(c) \/ ReadStep(c) \/ WaiterEnds(c) \/ Lose(c)
    \/ \E p \in Approvals : Approve(p) \/ ApproveStep(p) \/ PasteToken(p)

Spec == Init /\ [][Next]_vars

(* Goroutines run, deadlines pass, the agent keeps dialling, and the admin *)
(* does what the set-up guide says: paste the token, restart the agent.    *)
Fairness ==
    /\ WF_vars(\E c \in Conns : Dial(c))
    /\ WF_vars(HangUp) /\ WF_vars(SaveToken) /\ WF_vars(AdminRestart)
    /\ \A c \in Conns : WF_vars(ServeStep(c)) /\ WF_vars(WaiterEnds(c))
    /\ \A p \in Approvals : WF_vars(ApproveStep(p)) /\ WF_vars(PasteToken(p))

FairSpec == Spec /\ Fairness

-----------------------------------------------------------------------------
(* Properties                                                              *)

(* The values every variable ranges over; an approval that has a           *)
(* connection goes on with it.                                             *)
TypeOK ==
    /\ row \in {"absent", "pending", "approved", "online", "offline"}
    /\ token \in Tokens
    /\ pending \in Conns \cup {NoConn} /\ hub \in Conns \cup {NoConn}
    /\ serve \in [Conns -> {"idle", "select", "insert", "add", "pend", "admit",
                            "enter", "read", "offline"}]
    /\ waiter \in [Conns -> BOOLEAN] /\ open \in [Conns -> BOOLEAN]
    /\ shown \in [Conns -> Tokens] /\ reply \in [Conns -> Tokens]
    /\ message \in [Conns -> {"none", "sent", "dropped"}]
    /\ ap \in [Approvals -> {"new", "update", "take", "write", "online",
                             "enter", "done"}]
    /\ held \in [Approvals -> Conns \cup {NoConn}]
    /\ \A p \in Approvals :
           ap[p] \in {"write", "online", "enter"} <=> held[p] # NoConn
    /\ cur \in Conns \cup {NoConn}
    /\ cfg \in Tokens /\ env \in Tokens /\ file \in Tokens
    /\ edited \in BOOLEAN
    /\ losses \in 0 .. MaxLosses /\ deletes \in 0 .. MaxDeletes
    /\ restarts \in 0 .. MaxRestarts

(* The pending map only holds a connection that a waiter still watches and *)
(* no approval has taken: an approval never revives a connection that was  *)
(* given up, nor does it take one twice.                                   *)
PendingIsWatched ==
    pending # NoConn => /\ waiter[pending] /\ serve[pending] = "pend"
                        /\ \A p \in Approvals : held[p] # pending

(* Nobody but one approval has a connection that is being approved, and it *)
(* has no reader yet.                                                      *)
ApprovalOwns ==
    \A p \in Approvals : held[p] # NoConn =>
        /\ serve[held[p]] = "pend" /\ hub # held[p]
        /\ \A q \in Approvals \ {p} : held[q] # held[p]

(* An approval is never undone by an agent that registers: only a deleted  *)
(* agent has to be approved again.                                         *)
ApprovalStays ==
    [][(row \in {"approved", "online", "offline"}) => row' # "pending"]_vars

(* A pending agent becomes another kind of agent only by an approval.      *)
PendingUntilApproved ==
    [][row = "pending" /\ row' # "pending" =>
        row' = "absent" \/ \E p \in Approvals : ap[p] = "update"
                                                /\ ap'[p] = "take"]_vars

Connected == cur # NoConn /\ open[cur] /\ hub = cur

(* Once its approval is stored an agent gets in: at once, or when the      *)
(* admin has given it the token, unless it is deleted.  (Not for good: the *)
(* end of an older connection may throw it out again, main.go 83.)         *)
ApprovalAdmits ==
    \A p \in Approvals : ap[p] = "take" ~> Connected \/ row = "absent"
=============================================================================
