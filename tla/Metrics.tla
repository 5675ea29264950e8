------------------------------ MODULE Metrics ------------------------------
(***************************************************************************)
(* The windows of metrics points: the master's, one slice per agent that   *)
(* StoreMetrics appends to and GetMetricsHistory hands out                 *)
(* (master/main.go), and the browser's, fed by relayed points and by the   *)
(* history it fetches when an agent is opened (ui/js/app.js, agent.js).    *)
(*                                                                         *)
(* GetMetricsHistory returns the slice, not a copy, and its caller encodes *)
(* it after the lock is given back.  So a slice is modelled as Go has it:  *)
(* a range of an array that others share.  A point is a number: points of  *)
(* all agents are counted together.  A definition whose comment starts     *)
(* with "Slip" is the next one with a mistake in it.                       *)
(***************************************************************************)
EXTENDS Naturals, Sequences

CONSTANTS
    Agents, NoAgent,
    Fetches,    \* requests for a history
    Window,     \* the points kept, 30 in the code
    MaxPoints,  \* bound of the model: points of all agents
    Capacities  \* the capacities append may give an array

ASSUME MetricsAssumption ==
    /\ NoAgent \notin Agents
    /\ Window \in Nat \ {0} /\ MaxPoints \in Nat
    /\ Capacities \subseteq Nat /\ \E cap \in Capacities : cap > Window

VARIABLES
    points,     \* points taken so far
    heap,       \* heap[a]: the arrays allocated for the agent's history
    hist,       \* hist[a]: MetricsHistory[a], a slice of the last of them
    stored,     \* history: the points StoreMetrics was given
    relay,      \* points on their way to the browser
    sel,        \* state.selectedAgent
    view,       \* view[a]: state.agentMetricsHistory[a]
    heard,      \* history: points relayed since view[a] was last replaced: the
                \* latest Window of them
    fetch       \* fetch[f]: where it is, for which agent, with which slice

master == <<heap, hist, stored>>
browser == <<sel, view, heard>>
vars == <<points, master, relay, browser, fetch>>

Slice(n, off, len) == [array |-> n, off |-> off, len |-> len]
Read(a, s) ==
    IF s.len = 0 THEN <<>> ELSE SubSeq(heap[a][s.array], s.off + 1, s.off + s.len)
LastOf(s, n) == SubSeq(s, IF Len(s) > n THEN Len(s) - n + 1 ELSE 1, Len(s))

Idle == [at |-> "none", agent |-> NoAgent, slice |-> Slice(0, 0, 0), data |-> <<>>]

Init ==
    /\ points = 0
    /\ heap = [a \in Agents |-> <<>>]
    /\ hist = [a \in Agents |-> Slice(0, 0, 0)]
    /\ stored = [a \in Agents |-> <<>>]
    /\ relay = <<>> /\ sel = NoAgent
    /\ view = [a \in Agents |-> <<>>] /\ heard = view
    /\ fetch = [f \in Fetches |-> Idle]

-----------------------------------------------------------------------------
(* The master                                                              *)

(* Slip: the window keeps its oldest points.                               *)
TrimNewest(s) == IF s.len > Window THEN [s EXCEPT !.len = Window] ELSE s

(* history[len(history)-30:] once there are more.                          *)
Trim(s) == IF s.len > Window
           THEN Slice(s.array, s.off + s.len - Window, Window) ELSE s

(* append: in place while the array has room behind the slice, otherwise   *)
(* into a new array of some larger capacity.                               *)
Store(a, p, cap) ==
    LET s == hist[a]
        room == s.len > 0 /\ s.off + s.len < Len(heap[a][s.array])
        longer == [j \in 1 .. cap |-> IF j <= s.len THEN Read(a, s)[j]
                                      ELSE IF j = s.len + 1 THEN p ELSE 0]
    IN  /\ room \/ cap > s.len
        /\ IF room
           THEN /\ heap' = [heap EXCEPT ![a][s.array][s.off + s.len + 1] = p]
                /\ hist' = [hist EXCEPT ![a] = Trim([s EXCEPT !.len = @ + 1])]
           ELSE /\ heap' = [heap EXCEPT ![a] = Append(@, longer)]
                /\ hist' = [hist EXCEPT ![a] =
                               Trim(Slice(Len(heap[a]) + 1, 0, s.len + 1))]
        /\ stored' = [stored EXCEPT ![a] = Append(@, p)]

Relay(a, p) == relay' = Append(relay, [agent |-> a, point |-> p])

(* Slip: a full window is moved down in its array.                         *)
PointShifts(a, cap) ==
    LET s == hist[a] IN
    /\ points < MaxPoints /\ points' = points + 1
    /\ IF s.len < Window THEN Store(a, points', cap)
       ELSE /\ heap' = [heap EXCEPT ![a][s.array] = [j \in DOMAIN @ |->
                           IF j \in s.off + 1 .. s.off + s.len - 1 THEN @[j + 1]
                           ELSE IF j = s.off + s.len THEN points' ELSE @[j]]]
            /\ stored' = [stored EXCEPT ![a] = Append(@, points')]
            /\ UNCHANGED hist
    /\ Relay(a, points')
    /\ UNCHANGED <<browser, fetch>>

(* agentReader on a metrics message: StoreMetrics, then to the browsers.   *)
Point(a, cap) ==
    /\ points < MaxPoints /\ points' = points + 1
    /\ Store(a, points', cap)
    /\ Relay(a, points')
    /\ UNCHANGED <<browser, fetch>>

(* GetMetricsHistory: the slice is read under the lock.                    *)
TakeHistory(f) ==
    LET a == fetch[f].agent IN
    /\ fetch[f].at = "asked"
    /\ fetch' = [fetch EXCEPT ![f] = [@ EXCEPT !.at = "held", !.slice = hist[a],
                                               !.data = Read(a, hist[a])]]
    /\ UNCHANGED <<points, master, relay, browser>>

(* handleMetrics of the master encodes it: what the array holds by now.    *)
Encode(f) ==
    /\ fetch[f].at = "held"
    /\ fetch' = [fetch EXCEPT ![f] =
                     [@ EXCEPT !.at = "answered", !.slice = Idle.slice,
                               !.data = Read(fetch[f].agent, fetch[f].slice)]]
    /\ UNCHANGED <<points, master, relay, browser>>

-----------------------------------------------------------------------------
(* The browser                                                             *)

(* openAgent: selects and fetches.                                         *)
OpenAgent(f, a) ==
    /\ fetch[f].at = "none"
    /\ sel' = a
    /\ fetch' = [fetch EXCEPT ![f] = [Idle EXCEPT !.at = "asked", !.agent = a]]
    /\ UNCHANGED <<points, master, relay, view, heard>>

(* Another panel: the answer then finds no selected agent and is dropped.  *)
LeaveAgent ==
    /\ sel # NoAgent /\ sel' = NoAgent
    /\ UNCHANGED <<points, master, relay, view, heard, fetch>>

(* The answer replaces the points of the agent selected when it arrives;   *)
(* an empty history replaces nothing.  Or the request fails.               *)
Answer(f) ==
    /\ fetch[f].at = "answered"
    /\ IF sel = NoAgent \/ fetch[f].data = <<>> THEN UNCHANGED <<view, heard>>
       ELSE /\ view' = [view EXCEPT ![sel] = fetch[f].data]
            /\ heard' = [heard EXCEPT ![sel] = <<>>]
    /\ fetch' = [fetch EXCEPT ![f] = Idle]
    /\ UNCHANGED <<points, master, relay, sel>>

FetchFails(f) ==
    /\ fetch[f].at # "none"
    /\ fetch' = [fetch EXCEPT ![f] = Idle]
    /\ UNCHANGED <<points, master, relay, browser>>

(* Slip: a full window is not cut.                                         *)
HeardUncut ==
    /\ relay # <<>>
    /\ relay' = Tail(relay)
    /\ LET a == Head(relay).agent
           p == Head(relay).point
       IN  /\ view' = [view EXCEPT ![a] = LastOf(Append(@, p), Window + 1)]
           /\ heard' = [heard EXCEPT ![a] = LastOf(Append(@, p), Window)]
    /\ UNCHANGED <<points, master, sel, fetch>>

(* handleMetrics of the browser.                                           *)
Heard ==
    /\ relay # <<>>
    /\ relay' = Tail(relay)
    /\ LET a == Head(relay).agent
           p == Head(relay).point
       IN  /\ view' = [view EXCEPT ![a] = LastOf(Append(@, p), Window)]
           /\ heard' = [heard EXCEPT ![a] = LastOf(Append(@, p), Window)]
    /\ UNCHANGED <<points, master, sel, fetch>>

(* The websocket was not open.                                             *)
NotHeard ==
    /\ relay # <<>>
    /\ relay' = Tail(relay)
    /\ UNCHANGED <<points, master, browser, fetch>>

Next ==
    \/ \E a \in Agents, cap \in Capacities : Point(a, cap)
    \/ \E f \in Fetches : TakeHistory(f) \/ Encode(f) \/ Answer(f) \/ FetchFails(f)
    \/ \E f \in Fetches, a \in Agents : OpenAgent(f, a)
    \/ LeaveAgent \/ Heard \/ NotHeard

Spec == Init /\ [][Next]_vars

-----------------------------------------------------------------------------
(* The ranges of the variables; a slice lies inside its array, and nobody  *)
(* keeps more points than a window.                                        *)
TypeOK ==
    /\ points \in 0 .. MaxPoints /\ sel \in Agents \cup {NoAgent}
    /\ \A a \in Agents :
        /\ hist[a].len \in 0 .. Window
        /\ hist[a].len > 0 =>
              hist[a].off + hist[a].len <= Len(heap[a][hist[a].array])
        /\ Len(view[a]) <= Window /\ Len(heard[a]) <= Window
    /\ \A f \in Fetches :
        /\ fetch[f].at \in {"none", "asked", "held", "answered"}
        /\ fetch[f].agent = NoAgent <=> fetch[f].at = "none"
        /\ Len(fetch[f].data) <= Window

(* A history that was handed out does not change under the handler that    *)
(* encodes it without the lock (main.go 140-144, api_games.go 103): later  *)
(* points go behind it in the array, or into another array.                *)
HeldIsStable ==
    \A f \in Fetches : fetch[f].at = "held" =>
        Read(fetch[f].agent, fetch[f].slice) = fetch[f].data

(* The window is always the latest points the agent sent, in order,        *)
(* wherever in which array they lie (main.go 131-136).                     *)
WindowIsLatest == \A a \in Agents : Read(a, hist[a]) = LastOf(stored[a], Window)

(* Whatever a late answer left in a view (points twice, missing or of      *)
(* another agent), a window of relayed points later it is exactly these    *)
(* (app.js 95-99).                                                         *)
ViewRecovers ==
    \A a \in Agents : Len(heard[a]) = Window => view[a] = heard[a]
=============================================================================
