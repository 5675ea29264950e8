------------------------------- MODULE Relay -------------------------------
(***************************************************************************)
(* What the master's hub promises about the messages it accepts for an     *)
(* agent.  Each agent connection is a bounded FIFO pipe: a message         *)
(* accepted while the pipe is alive is written to the agent's socket in    *)
(* the order of acceptance, never twice, unless the pipe itself dies, and  *)
(* a pipe that dies loses everything it still holds.  Hub implements it.   *)
(***************************************************************************)
EXTENDS Naturals, Sequences

CONSTANTS Conns,     \* the connections an agent may open to the master
          Msgs,      \* what may be sent to an agent
          Capacity,  \* what a pipe holds: the channel and the message in hand
          NoMsg      \* nothing has been written yet

VARIABLES live,      \* live[c]: the pipe of c still writes to its socket
          pending,   \* pending[c]: accepted on c and not yet written
          wire       \* wire[c]: the last message written to c's socket

relayVars == <<live, pending, wire>>

Init ==
    /\ live = [c \in Conns |-> FALSE]
    /\ pending = [c \in Conns |-> <<>>]
    /\ wire = [c \in Conns |-> NoMsg]

Open(c) ==
    /\ ~live[c]
    /\ live' = [live EXCEPT ![c] = TRUE]
    /\ wire' = [wire EXCEPT ![c] = NoMsg]
    /\ UNCHANGED pending

Accept(c, m) ==
    /\ live[c]
    /\ Len(pending[c]) < Capacity
    /\ pending' = [pending EXCEPT ![c] = Append(@, m)]
    /\ UNCHANGED <<live, wire>>

Deliver(c) ==
    /\ live[c]
    /\ pending[c] # <<>>
    /\ wire' = [wire EXCEPT ![c] = Head(pending[c])]
    /\ pending' = [pending EXCEPT ![c] = Tail(@)]
    /\ UNCHANGED live

Lose(c) ==
    /\ live[c]
    /\ live' = [live EXCEPT ![c] = FALSE]
    /\ pending' = [pending EXCEPT ![c] = <<>>]
    /\ UNCHANGED wire

Next ==
    \E c \in Conns :
        \/ Open(c)
        \/ Deliver(c)
        \/ Lose(c)
        \/ \E m \in Msgs : Accept(c, m)

Spec == Init /\ [][Next]_relayVars
=============================================================================
