-------------------------- MODULE BrowserProofs --------------------------
(***************************************************************************)
(* Proofs about the browser, LogStreams and Panel, for any servers and     *)
(* requests and any number of losses, reconnections, clicks and polls.     *)
(*                                                                         *)
(* LogStreams: MapInv is inductive for every behaviour and gives           *)
(* EntryLive; OrderInv says what a user who waits for one click before the *)
(* next brings about: one request under way and one registered stream at a *)
(* time, so that no stream finds another's entry in its place.             *)
(*                                                                         *)
(* Panel: RestartInv says, for a user who lets a restart finish, how far   *)
(* it is and what it waits for.                                            *)
(***************************************************************************)
EXTENDS LogStreams, Panel, TLAPS

-----------------------------------------------------------------------------
(* LogStreams                                                              *)

(* A request whose goroutine has not yet looked at the map.                *)
Moving(r) == at[r] \in {"fetch", "wire", "spawned"}

(* A stream that was put into the map the agent has now.                   *)
Alive(r) == at[r] \in {"list", "stream", "end"} /\ r \notin old

(* Nothing has happened to a request before the agent acts on it, and only *)
(* a start makes a stream.                                                 *)
Fresh ==
    \A r \in Reqs :
        /\ at[r] \in {"new", "fetch", "wire", "dropped", "spawned"} =>
               r \notin cancelled
        /\ at[r] \in {"new", "fetch", "wire"} => r \notin old
        /\ at[r] \in {"fetch", "list", "stream", "end"} => kind[r] = "start"

OnWire ==
    /\ \A i \in 1 .. Len(wire) : at[wire[i]] = "wire"
    /\ \A i, j \in 1 .. Len(wire) : wire[i] = wire[j] => i = j

MapInv == Fresh /\ OnWire /\ EntryLive

(* One request at a time; a start finds no stream in the map ...           *)
OneAtATime ==
    /\ \A r, q \in Reqs : Moving(r) /\ Moving(q) => r = q
    /\ \A r, q \in Reqs : Alive(r) /\ Alive(q) => r = q
    /\ \A r \in Reqs : Moving(r) /\ kind[r] = "start" =>
           selected = srv[r] /\ \A q \in Reqs : ~Alive(q)
    /\ \A r \in Reqs : Moving(r) /\ kind[r] = "stop" => selected = NoServer

(* A stop for the server of r that will be heeded is under way.            *)
StopComing(r) ==
    \E q \in Reqs : /\ Moving(q) /\ kind[q] = "stop"
                    /\ srv[q] = srv[r] /\ q \notin old

(* ... and a stream nobody has cancelled is in the map, and on show or     *)
(* about to be stopped.                                                    *)
StreamKept ==
    \A r \in Reqs : Alive(r) /\ r \notin cancelled =>
        /\ entry[srv[r]] = r
        /\ selected = srv[r] \/ (selected = NoServer /\ StopComing(r))

OrderInv == Orderly => OneAtATime /\ StreamKept

-----------------------------------------------------------------------------
(* A request that is sent ends up on the wire or is dropped.               *)
LEMMA SendTyped ==
  ASSUME TypeOK, NEW r \in Reqs, WsSend(r)
  PROVE  /\ wire' \in Seq(Reqs) /\ drops' \in 0 .. MaxDrops
         /\ at' \in [Reqs -> Stages] /\ \A q \in Reqs : q # r => at'[q] = at[q]
<1>1. wire' \in Seq(Reqs)
  <2>1. wire \in Seq(Reqs)
    BY DEF TypeOK
  <2>2. Append(wire, r) \in Seq(Reqs)
    BY <2>1
  <2>3. QED
    BY <2>1, <2>2 DEF WsSend
<1>2. drops' \in 0 .. MaxDrops
  BY LogStreamsAssumption DEF LogStreamsAssumption, WsSend, TypeOK
<1>3. at' \in [Reqs -> Stages] /\ \A q \in Reqs : q # r => at'[q] = at[q]
  BY DEF WsSend, TypeOK, Stages
<1>4. QED
  BY <1>1, <1>2, <1>3

(* Every step keeps every variable in its range.                           *)
LEMMA TypeStep == TypeOK /\ OnWire /\ [Next]_vars => TypeOK'
<1> SUFFICES ASSUME TypeOK, OnWire, [Next]_vars PROVE TypeOK'
  OBVIOUS
<1> USE LogStreamsAssumption DEF LogStreamsAssumption, TypeOK, Stages, ui
<1>1. ASSUME NEW r \in Reqs, NEW s \in Servers, OpenServer(r, s) PROVE TypeOK'
  BY <1>1 DEF OpenServer, WsSend
<1>2. ASSUME NEW r \in Reqs, SendStart(r) PROVE TypeOK'
  <2>1. CASE selected = NoServer
    BY <1>2, <2>1 DEF SendStart
  <2>2. CASE selected # NoServer
    BY <1>2, <2>2, SendTyped DEF SendStart
  <2>3. QED
    BY <2>1, <2>2
<1>3. ASSUME NEW r \in Reqs, CloseServer(r) PROVE TypeOK'
  <2>1. selected \in Servers /\ WsSend(r)
    BY <1>3 DEF CloseServer
  <2>2. QED
    BY <1>3, <2>1, SendTyped DEF CloseServer
<1>4. ASSUME NEW r \in Reqs, Register(r) PROVE TypeOK'
  <2>1. /\ at' \in [Reqs -> Stages] /\ cancelled' \subseteq Reqs
        /\ entry' \in [Servers -> Reqs \cup {NoReq}]
    BY <1>4 DEF Register
  <2>2. QED
    BY <1>4, <2>1 DEF Register
<1>5. ASSUME NEW r \in Reqs, Attach(r) PROVE TypeOK'
  BY <1>5 DEF Attach
<1>6. ASSUME NEW r \in Reqs, StreamEnds(r) PROVE TypeOK'
  BY <1>6 DEF StreamEnds
<1>7. ASSUME NEW r \in Reqs, Deregister(r) PROVE TypeOK'
  BY <1>7 DEF Deregister
<1>8. ASSUME NEW r \in Reqs, StopLogStream(r) PROVE TypeOK'
  BY <1>8 DEF StopLogStream
<1>9. CASE LeaveServer
  BY <1>9 DEF LeaveServer
<1>10. CASE Dispatch
  <2>1. Head(wire) = wire[1] /\ wire[1] \in Reqs /\ 1 \in 1 .. Len(wire)
    BY <1>10 DEF Dispatch
  <2>2. at[wire[1]] = "wire"
    BY <2>1 DEF OnWire
  <2>3. wire' \in Seq(Reqs)
    BY <1>10 DEF Dispatch
  <2>4. QED
    BY <1>10, <2>1, <2>2, <2>3 DEF Dispatch
<1>11. CASE Reconnect
  BY <1>11 DEF Reconnect
<1>12. CASE UNCHANGED vars
  BY <1>12 DEF vars
<1>13. QED
  BY <1>1, <1>2, <1>3, <1>4, <1>5, <1>6, <1>7, <1>8,
     <1>9, <1>10, <1>11, <1>12
  DEF Next, BrowserStep, AgentStep

(* A request is put on the wire once.                                      *)
LEMMA SendKeepsWire ==
  ASSUME TypeOK, OnWire, NEW r \in Reqs, at[r] \in {"new", "fetch"}, WsSend(r)
  PROVE  OnWire'
<1> USE DEF TypeOK, OnWire
<1>1. \A i \in 1 .. Len(wire) : wire[i] \in Reqs /\ wire[i] # r
  OBVIOUS
<1>2. CASE wire' = Append(wire, r) /\ at' = [at EXCEPT ![r] = "wire"]
  <2>1. /\ Len(wire') = Len(wire) + 1 /\ wire'[Len(wire) + 1] = r
        /\ \A i \in 1 .. Len(wire) : wire'[i] = wire[i]
    BY <1>2
  <2>2. \A i \in 1 .. Len(wire') : i \in 1 .. Len(wire) \/ i = Len(wire) + 1
    BY <2>1
  <2>3. /\ \A i \in 1 .. Len(wire) : at'[wire[i]] = "wire"
        /\ at'[r] = "wire"
    BY <1>1, <1>2
  <2>4. \A i \in 1 .. Len(wire') : at'[wire'[i]] = "wire"
    BY <2>1, <2>2, <2>3
  <2>5. \A i, j \in 1 .. Len(wire') : wire'[i] = wire'[j] => i = j
    <3> SUFFICES ASSUME NEW i \in 1 .. Len(wire'), NEW j \in 1 .. Len(wire'),
                        wire'[i] = wire'[j]
                 PROVE  i = j
      OBVIOUS
    <3>1. CASE i \in 1 .. Len(wire) /\ j \in 1 .. Len(wire)
      <4>1. wire[i] = wire[j]
        BY <2>1, <3>1
      <4>2. QED
        BY <3>1, <4>1
    <3>2. CASE i \in 1 .. Len(wire) /\ j = Len(wire) + 1
      BY <1>1, <2>1, <3>2
    <3>3. CASE i = Len(wire) + 1 /\ j \in 1 .. Len(wire)
      BY <1>1, <2>1, <3>3
    <3>4. QED
      BY <2>2, <3>1, <3>2, <3>3
  <2>6. QED
    BY <2>4, <2>5
<1>3. CASE UNCHANGED wire /\ at' = [at EXCEPT ![r] = "dropped"]
  BY <1>1, <1>3
<1>4. QED
  BY <1>2, <1>3 DEF WsSend

(* Every step keeps the map's invariant.                                   *)
LEMMA MapStep == TypeOK /\ MapInv /\ [Next]_vars => MapInv'
<1> SUFFICES ASSUME TypeOK, MapInv, [Next]_vars PROVE MapInv'
  OBVIOUS
<1> USE LogStreamsAssumption DEF LogStreamsAssumption, TypeOK, Stages, ui,
        MapInv, Fresh, OnWire, EntryLive
<1>1. ASSUME NEW r \in Reqs, NEW s \in Servers, OpenServer(r, s) PROVE MapInv'
  BY <1>1 DEF OpenServer, WsSend
<1>2. ASSUME NEW r \in Reqs, SendStart(r) PROVE MapInv'
  <2>1. CASE selected = NoServer
    <3>1. /\ at[r] = "fetch" /\ at' = [at EXCEPT ![r] = "dropped"]
          /\ UNCHANGED <<wire, kind, srv, entry, cancelled, old>>
      BY <1>2, <2>1 DEF SendStart
    <3>2. Fresh'
      BY <3>1
    <3>3. OnWire'
      BY <3>1
    <3>4. EntryLive'
      BY <3>1
    <3>5. QED
      BY <3>2, <3>3, <3>4
  <2>2. CASE selected # NoServer
    <3>1. WsSend(r) /\ at[r] = "fetch"
      BY <1>2, <2>2 DEF SendStart
    <3>2. OnWire'
      BY <3>1, SendKeepsWire
    <3>3. Fresh'
      <4>1. UNCHANGED <<kind, cancelled, old>>
        BY <1>2 DEF SendStart
      <4>2. at'[r] \in {"wire", "dropped"}
        BY <3>1 DEF WsSend
      <4>3. \A q \in Reqs : q # r => at'[q] = at[q]
        BY <3>1, SendTyped
      <4>4. QED
        BY <3>1, <4>1, <4>2, <4>3
    <3>4. EntryLive'
      <4>1. \A q \in Reqs : at[q] \in {"list", "stream", "end"} => at'[q] = at[q]
        BY <3>1, SendTyped
      <4>2. UNCHANGED <<entry, srv, kind, cancelled, old>>
        BY <1>2 DEF SendStart
      <4>3. ASSUME NEW s \in Servers, entry[s] # NoReq
            PROVE  /\ srv[entry[s]] = s /\ kind[entry[s]] = "start"
                   /\ at'[entry[s]] \in {"list", "stream", "end"}
                   /\ entry[s] \notin cancelled \cup old
        BY <4>1, <4>3
      <4>4. QED
        BY <4>2, <4>3
    <3>5. QED
      BY <3>2, <3>3, <3>4
  <2>3. QED
    BY <2>1, <2>2
<1>3. ASSUME NEW r \in Reqs, CloseServer(r) PROVE MapInv'
  <2>1. WsSend(r) /\ at[r] = "new"
    BY <1>3 DEF CloseServer
  <2>2. OnWire'
    BY <2>1, SendKeepsWire
  <2>3. /\ UNCHANGED <<entry, cancelled, old>> /\ at'[r] \in {"wire", "dropped"}
        /\ \A q \in Reqs : q # r => at'[q] = at[q]
    BY <1>3, <2>1, SendTyped DEF CloseServer, WsSend
  <2>4. \A q \in Reqs : q # r => kind'[q] = kind[q] /\ srv'[q] = srv[q]
    BY <1>3 DEF CloseServer
  <2>5. Fresh'
    BY <2>1, <2>3, <2>4
  <2>6. EntryLive'
    <3>1. ASSUME NEW s \in Servers, entry[s] # NoReq
          PROVE  entry[s] \in Reqs \ {r}
      BY <2>1, <3>1
    <3>2. QED
      BY <2>3, <2>4, <3>1
  <2>7. QED
    BY <2>2, <2>5, <2>6
<1>4. ASSUME NEW r \in Reqs, Register(r) PROVE MapInv'
  BY <1>4 DEF Register
<1>5. ASSUME NEW r \in Reqs, Attach(r) PROVE MapInv'
  BY <1>5 DEF Attach
<1>6. ASSUME NEW r \in Reqs, StreamEnds(r) PROVE MapInv'
  BY <1>6 DEF StreamEnds
<1>7. ASSUME NEW r \in Reqs, Deregister(r) PROVE MapInv'
  BY <1>7 DEF Deregister
<1>8. ASSUME NEW r \in Reqs, StopLogStream(r) PROVE MapInv'
  BY <1>8 DEF StopLogStream
<1>9. CASE LeaveServer
  BY <1>9 DEF LeaveServer
<1>10. CASE Dispatch
  BY <1>10 DEF Dispatch
<1>11. CASE Reconnect
  BY <1>11 DEF Reconnect
<1>12. CASE UNCHANGED vars
  BY <1>12 DEF vars
<1>13. QED
  BY <1>1, <1>2, <1>3, <1>4, <1>5, <1>6, <1>7, <1>8,
     <1>9, <1>10, <1>11, <1>12
  DEF Next, BrowserStep, AgentStep

(* Every step of an orderly user keeps the order.                          *)
LEMMA OrderStep == TypeOK /\ MapInv /\ OrderInv /\ [Next]_vars => OrderInv'
<1> SUFFICES ASSUME TypeOK, MapInv, OrderInv, [Next]_vars, Orderly'
             PROVE  (OneAtATime /\ StreamKept)'
  BY DEF OrderInv
<1> DEFINE Goal == OneAtATime /\ StreamKept
<1>now. Orderly
  BY DEF Orderly, Next, BrowserStep, AgentStep, OpenServer, SendStart, WsSend, CloseServer,
     Register, Attach, StreamEnds, Deregister, StopLogStream, LeaveServer, Dispatch,
     Reconnect, ui, vars, TypeOK
<1>inv. OneAtATime /\ StreamKept
  BY <1>now DEF OrderInv
<1> USE <1>now, <1>inv, LogStreamsAssumption DEF LogStreamsAssumption, TypeOK, Stages, ui,
        MapInv, Fresh, OnWire, OneAtATime, StreamKept, StopComing, Moving, Alive, Orderly
<1>1. ASSUME NEW r \in Reqs, NEW s \in Servers, OpenServer(r, s) PROVE Goal'
  <2>1. Settled /\ selected = NoServer
    BY <1>1 DEF OpenServer
  <2>2. \A q \in Reqs : ~Moving(q)
    BY <2>1 DEF Settled
  <2>3. \A q \in Reqs : ~Alive(q)
    <3> SUFFICES ASSUME NEW q \in Reqs, Alive(q) PROVE FALSE
      OBVIOUS
    <3>1. at[q] = "stream" /\ q \notin cancelled
      BY <2>1 DEF Settled
    <3>2. selected = srv[q] \/ StopComing(q)
      BY <3>1
    <3>3. QED
      BY <2>1, <2>2, <3>1, <3>2, BrowserAssumption DEF BrowserAssumption
  <2>4. QED
    BY <1>1, <2>1, <2>2, <2>3 DEF OpenServer
<1>2. ASSUME NEW r \in Reqs, SendStart(r) PROVE Goal'
  BY <1>2 DEF SendStart, WsSend
<1>3. ASSUME NEW r \in Reqs, CloseServer(r) PROVE Goal'
  <2>1. Settled /\ selected # NoServer /\ at[r] = "new"
    BY <1>3 DEF CloseServer
  <2>2. at' = [at EXCEPT ![r] = "wire"]
    BY <1>3 DEF CloseServer, WsSend
  <2>3. \A q \in Reqs : ~Moving(q)
    BY <2>1 DEF Settled
  <2>4. OneAtATime'
    BY <1>3, <2>1, <2>2, <2>3 DEF CloseServer
  <2>5. ASSUME NEW q \in Reqs, Alive(q)', q \notin cancelled'
        PROVE  (entry[srv[q]] = q /\ selected = NoServer /\ StopComing(q))'
    <3>1. q # r /\ Alive(q) /\ q \notin cancelled
      BY <1>3, <2>2, <2>5 DEF CloseServer
    <3>2. entry[srv[q]] = q /\ selected = srv[q]
      BY <2>1, <3>1
    <3>3. Moving(r)' /\ kind'[r] = "stop" /\ srv'[r] = srv'[q] /\ r \notin old'
      BY <1>3, <2>1, <2>2, <3>1, <3>2 DEF CloseServer
    <3>4. QED
      BY <1>3, <3>1, <3>2, <3>3 DEF CloseServer
  <2>6. StreamKept'
    BY <2>5
  <2>7. QED
    BY <2>4, <2>6
<1>4. ASSUME NEW r \in Reqs, Register(r) PROVE Goal'
  BY <1>4 DEF Register
<1>5. ASSUME NEW r \in Reqs, Attach(r) PROVE Goal'
  BY <1>5 DEF Attach
<1>6. ASSUME NEW r \in Reqs, StreamEnds(r) PROVE Goal'
  BY <1>6 DEF StreamEnds
<1>7. ASSUME NEW r \in Reqs, Deregister(r) PROVE Goal'
  BY <1>7 DEF Deregister
<1>8. ASSUME NEW r \in Reqs, StopLogStream(r) PROVE Goal'
  BY <1>8 DEF StopLogStream
<1>9. CASE LeaveServer
  BY <1>9 DEF LeaveServer
<1>10. CASE Dispatch
  BY <1>10 DEF Dispatch
<1>11. CASE Reconnect
  BY <1>11 DEF Reconnect
<1>12. CASE UNCHANGED vars
  BY <1>12 DEF vars
<1>13. QED
  BY <1>1, <1>2, <1>3, <1>4, <1>5, <1>6, <1>7, <1>8,
     <1>9, <1>10, <1>11, <1>12
  DEF Next, BrowserStep, AgentStep

-----------------------------------------------------------------------------

LEMMA InvInit == Init => TypeOK /\ MapInv /\ OrderInv
<1> SUFFICES ASSUME Init PROVE TypeOK /\ MapInv /\ OrderInv
  OBVIOUS
<1> USE LogStreamsAssumption DEF LogStreamsAssumption, Init
<1>1. TypeOK
  <2>1. wire \in Seq(Reqs) /\ drops \in 0 .. MaxDrops /\ reconnects \in 0 .. MaxReconnects
    OBVIOUS
  <2>2. QED
    BY <2>1 DEF TypeOK, Stages
<1>2. MapInv
  BY DEF MapInv, Fresh, OnWire, EntryLive
<1>3. OrderInv
  BY DEF OrderInv, OneAtATime, StreamKept, Moving, Alive
<1>4. QED
  BY <1>1, <1>2, <1>3

LEMMA Invariance == Spec => [](TypeOK /\ MapInv /\ OrderInv)
<1>1. TypeOK /\ MapInv /\ OrderInv /\ [Next]_vars => (TypeOK /\ MapInv /\ OrderInv)'
  BY TypeStep, MapStep, OrderStep DEF MapInv
<1>2. QED
  BY InvInit, <1>1, PTL DEF Spec

(* Every variable keeps its range (server.js, agent.go, docker.go).        *)
THEOREM TypeCorrect == Spec => []TypeOK
  BY Invariance, PTL

(* Whatever the clicks, the map never holds a dead cancel function: a      *)
(* start or stop that finds an entry ends a stream that still runs         *)
(* (StreamLogs, StopLogStream in docker.go).                               *)
THEOREM MapLive == Spec => []EntryLive
<1>1. MapInv => EntryLive
  BY DEF MapInv
<1>2. QED
  BY Invariance, <1>1, PTL

(* For a user who waits for a click to take effect, what is streamed is in *)
(* the map, so that closing the panel finds it, and a log line reaches him *)
(* once (docker.go, server.js).                                            *)
THEOREM StreamCanBeStopped == Spec => []StreamInMap
<1>1. TypeOK /\ OrderInv => StreamInMap
  BY DEF OrderInv, StreamKept, StreamInMap, Flowing, Alive
<1>2. QED
  BY Invariance, <1>1, PTL

(* And when he has closed the panel and all is settled, nothing is         *)
(* streamed any more (closeServer in server.js, StopLogStream).            *)
THEOREM ClosedPanelIsQuiet == Spec => []ClosedMeansQuiet
<1>1. TypeOK /\ OrderInv => ClosedMeansQuiet
  <2> SUFFICES ASSUME TypeOK, OrderInv, Orderly, Settled, selected = NoServer,
                      NEW s \in Servers, NEW r \in Flowing(s)
               PROVE  FALSE
    BY DEF ClosedMeansQuiet
  <2>1. r \in Reqs /\ Alive(r) /\ r \notin cancelled /\ srv[r] = s
    BY DEF Flowing, Alive
  <2>2. StopComing(r)
    BY <2>1, BrowserAssumption DEF BrowserAssumption, OrderInv, StreamKept
  <2>3. QED
    BY <2>2 DEF StopComing, Moving, Settled
<1>2. QED
  BY Invariance, <1>1, PTL
-----------------------------------------------------------------------------
(* Panel                                                                   *)

(* Requests and tasks that start, or stop, the server.                     *)
Starting(s) == send[<<"start", s>>] + tasks[<<"start", s>>]
Stopping(s) == send[<<"stop", s>>] + tasks[<<"stop", s>>]

(* The browser has still to hear that the server stopped.                  *)
StoppedIn(s) ==
    \E j \in 1 .. Len(relay) : relay[j].srv = s /\ relay[j].status = "stopped"

(* While the settings are saved nothing else is under way, ...             *)
Saved(s) ==
    saving[s] > 0 => /\ saving[s] = 1 /\ pend = NoServer /\ s \in owed
                     /\ Starting(s) = 0 /\ Stopping(s) = 0

(* ... and while the start is held back it has not been sent.              *)
Pended(s) == pend = s => s \in owed /\ saving[s] = 0 /\ Starting(s) = 0

(* One command at a time, and its report before the next.                  *)
InTurn(s) ==
    s \in owed =>
        /\ Starting(s) + Stopping(s) <= 1
        /\ saving[s] > 0 \/ Stopping(s) > 0 =>
              \A j \in 1 .. Len(relay) : relay[j].srv # s

(* What a restart waits for is under way.                                  *)
UnderWay(s) ==
    \/ saving[s] > 0 \/ Starting(s) > 0
    \/ pend = s /\ ((Stopping(s) > 0 /\ up[s]) \/ StoppedIn(s))

GoesOn(s) == s \in owed /\ ~misled => UnderWay(s)

Kept(s) == Saved(s) /\ Pended(s) /\ InTurn(s) /\ GoesOn(s)

(* One restart at a time, and the messages arrive.                         *)
OneRestart == live /\ listed /\ \A s, t \in owed : s = t

RestartInv == ~hurried => OneRestart /\ \A s \in Servers : Kept(s)

-----------------------------------------------------------------------------
LEMMA PlusIs ==
  ASSUME NEW D, NEW f \in [D -> Nat], NEW k \in D
  PROVE  /\ Plus(f, k) \in [D -> Nat] /\ Plus(f, k)[k] = f[k] + 1
         /\ \A q \in D : q # k => Plus(f, k)[q] = f[q]
  BY DEF Plus

LEMMA MinusIs ==
  ASSUME NEW D, NEW f \in [D -> Nat], NEW k \in D, f[k] > 0
  PROVE  /\ Minus(f, k) \in [D -> Nat] /\ Minus(f, k)[k] = f[k] - 1
         /\ \A q \in D : q # k => Minus(f, k)[q] = f[q]
  BY DEF Minus

LEMMA RemoveTyped ==
  ASSUME NEW S, NEW q \in Seq(S), NEW j \in DOMAIN q
  PROVE  RemoveAt(q, j) \in Seq(S) /\ q[j] \in S
<1>1. q[j] \in S /\ j \in 1 .. Len(q)
  OBVIOUS
<1>2. SubSeq(q, 1, j - 1) \in Seq(S)
  BY <1>1
<1>3. SubSeq(q, j + 1, Len(q)) \in Seq(S)
  BY <1>1
<1>4. QED
  BY <1>1, <1>2, <1>3 DEF RemoveAt

Reports == [srv : Servers, status : {"running", "stopped", "error"}]

(* TypeOK, a conjunct for each variable.                                   *)
PanelType ==
    /\ row \in [Servers -> Statuses] /\ up \in [Servers -> BOOLEAN]
    /\ send \in [Commands -> Nat] /\ mark \in [Commands -> Nat]
    /\ tasks \in [Commands -> Nat]
    /\ relay \in Seq(Reports) /\ live \in BOOLEAN /\ listed \in BOOLEAN
    /\ listed => \A s \in Servers : shown[s] # "unknown"
    /\ shown \in [Servers -> Statuses \cup {"unknown"}]
    /\ pend \in Servers \cup {NoServer}
    /\ saving \in [Servers -> Nat]
    /\ polls \in Seq([Servers -> Statuses])
    /\ owed \subseteq Servers /\ hurried \in BOOLEAN /\ misled \in BOOLEAN

LEMMA CommandIs ==
  ASSUME NEW k \in Commands
  PROVE  k[1] \in {"start", "stop"} /\ k[2] \in Servers /\ k = <<k[1], k[2]>>
  BY DEF Commands

(* A report is one of a server, and goes behind the others.                *)
LEMMA ReportTyped ==
  ASSUME PanelType, NEW s \in Servers, NEW r \in {"running", "stopped", "error"},
         Report(s, r)
  PROVE  row' \in [Servers -> Statuses] /\ relay' \in Seq(Reports)
<1>1. [srv |-> s, status |-> r] \in Reports /\ relay \in Seq(Reports)
  BY DEF PanelType, Reports
<1>2. Append(relay, [srv |-> s, status |-> r]) \in Seq(Reports)
  BY <1>1
<1>3. row \in [Servers -> Statuses] /\ r \in Statuses
  BY DEF PanelType, Statuses
<1>4. QED
  BY <1>2, <1>3 DEF Report, WriteRow

LEMMA PanelTypeStep == PanelType /\ [PanelNext]_panelVars => PanelType'
<1> SUFFICES ASSUME PanelType, [PanelNext]_panelVars PROVE PanelType'
  OBVIOUS
<1> USE DEF PanelType, master, view, flow, history, Fault, Event
<1>1. ASSUME NEW k \in {"start", "stop"}, NEW s \in Servers, Command(k, s)
      PROVE  PanelType'
  <2>1. <<k, s>> \in Commands
    BY DEF Commands
  <2>2. send' \in [Commands -> Nat]
    BY <1>1, <2>1, PlusIs DEF Command
  <2>3. hurried' \in BOOLEAN
    BY <1>1 DEF Command, Busy
  <2>4. QED
    BY <1>1, <2>2, <2>3 DEF Command
<1>2. ASSUME NEW s \in Servers, SaveAndRestart(s)
      PROVE  PanelType'
  <2>1. saving' \in [Servers -> Nat]
    BY <1>2, PlusIs DEF SaveAndRestart
  <2>2. hurried' \in BOOLEAN
    BY <1>2 DEF SaveAndRestart, Busy
  <2>3. QED
    BY <1>2, <2>1, <2>2 DEF SaveAndRestart
<1>3. ASSUME NEW s \in Servers, NEW t \in Servers \cup {NoServer}, Resume(s, t)
      PROVE  PanelType'
  <2>1. saving' \in [Servers -> Nat]
    BY <1>3, MinusIs DEF Resume
  <2>2. hurried' \in BOOLEAN
    BY <1>3 DEF Resume
  <2>3. CASE t = NoServer
    BY <1>3, <2>1, <2>2, <2>3 DEF Resume
  <2>4. CASE t # NoServer
    <3> DEFINE k == IF shown[t] \in On THEN "stop" ELSE "start"
    <3>1. <<k, t>> \in Commands
      BY <2>4 DEF Commands
    <3>2. send' = Plus(send, <<k, t>>)
      BY <1>3, <2>4 DEF Resume
    <3> HIDE DEF k
    <3>3. send' \in [Commands -> Nat]
      BY <3>1, <3>2, PlusIs
    <3>4. pend' \in Servers \cup {NoServer} /\ misled' \in BOOLEAN
      BY <1>3, <2>4 DEF Resume
    <3>5. QED
      BY <1>3, <2>1, <2>2, <3>3, <3>4 DEF Resume
  <2>5. QED
    BY <2>3, <2>4
<1>4. ASSUME NEW s \in Servers, SaveThrows(s)
      PROVE  PanelType'
  <2>1. saving' \in [Servers -> Nat]
    BY <1>4, MinusIs DEF SaveThrows
  <2>2. QED
    BY <1>4, <2>1 DEF SaveThrows
<1>5. ASSUME NEW k \in Commands, HandlerSends(k)
      PROVE  PanelType'
  <2>1. /\ send' \in [Commands -> Nat] /\ mark' \in [Commands -> Nat]
        /\ tasks' \in [Commands -> Nat]
    BY <1>5, PlusIs, MinusIs DEF HandlerSends
  <2>2. QED
    BY <1>5, <2>1 DEF HandlerSends
<1>6. ASSUME NEW k \in Commands, HandlerRefuses(k)
      PROVE  PanelType'
  <2>1. send' \in [Commands -> Nat]
    BY <1>6, MinusIs DEF HandlerRefuses
  <2>2. QED
    BY <1>6, <2>1 DEF HandlerRefuses
<1>7. ASSUME NEW k \in Commands, HandlerMarks(k)
      PROVE  PanelType'
  <2>1. mark' \in [Commands -> Nat]
    BY <1>7, MinusIs DEF HandlerMarks
  <2>2. row' \in [Servers -> Statuses]
    BY <1>7 DEF HandlerMarks, WriteRow, Statuses
  <2>3. QED
    BY <1>7, <2>1, <2>2 DEF HandlerMarks
<1>8. ASSUME NEW k \in Commands, AgentActs(k)
      PROVE  PanelType'
  <2>1. tasks' \in [Commands -> Nat]
    BY <1>8, MinusIs DEF AgentActs
  <2>2. row' \in [Servers -> Statuses] /\ relay' \in Seq(Reports)
    BY <1>8, CommandIs, ReportTyped DEF AgentActs, StopReport
  <2>3. up' \in [Servers -> BOOLEAN] /\ owed' \subseteq Servers
    BY <1>8 DEF AgentActs
  <2>4. QED
    BY <1>8, <2>1, <2>2, <2>3 DEF AgentActs
<1>9. ASSUME NEW k \in Commands, AgentFails(k)
      PROVE  PanelType'
  <2>1. tasks' \in [Commands -> Nat]
    BY <1>9, MinusIs DEF AgentFails
  <2>2. row' \in [Servers -> Statuses] /\ relay' \in Seq(Reports)
    BY <1>9, CommandIs, ReportTyped DEF AgentFails
  <2>3. up' \in [Servers -> BOOLEAN]
    BY <1>9 DEF AgentFails
  <2>4. QED
    BY <1>9, <2>1, <2>2, <2>3 DEF AgentFails
<1>10. CASE Message
  <2>1. Head(relay) \in Reports /\ relay' \in Seq(Reports)
    BY <1>10 DEF Message
  <2>2. /\ Head(relay).srv \in Servers
        /\ Head(relay).status \in Statuses \ {"unknown"}
    BY <2>1 DEF Reports, Statuses
  <2>3. CASE ~listed
    BY <1>10, <2>1, <2>3 DEF Message
  <2>4. CASE listed
    <3>1. /\ shown' \in [Servers -> Statuses \cup {"unknown"}]
          /\ \A s \in Servers : shown'[s] # "unknown"
      BY <1>10, <2>2, <2>4 DEF Message
    <3>2. pend' \in Servers \cup {NoServer}
      BY <1>10, <2>4 DEF Message
    <3>3. send' \in [Commands -> Nat]
      <4>1. <<"start", Head(relay).srv>> \in Commands
        BY <2>2 DEF Commands
      <4>2. Plus(send, <<"start", Head(relay).srv>>) \in [Commands -> Nat]
        BY <4>1, PlusIs
      <4>3. QED
        BY <1>10, <2>4, <4>2 DEF Message
    <3>4. QED
      BY <1>10, <2>1, <3>1, <3>2, <3>3 DEF Message
  <2>5. QED
    BY <2>3, <2>4
<1>11. CASE MessageLost
  <2>1. relay' \in Seq(Reports)
    BY <1>11 DEF MessageLost
  <2>2. QED
    BY <1>11, <2>1 DEF MessageLost
<1>12. CASE SocketLost
  <2>1. relay' \in Seq(Reports)
    <3>1. PICK n \in 0 .. Len(relay) : relay' = SubSeq(relay, n + 1, Len(relay))
      BY <1>12 DEF SocketLost
    <3>2. relay \in Seq(Reports)
      OBVIOUS
    <3>3. SubSeq(relay, n + 1, Len(relay)) \in Seq(Reports)
      BY <3>2
    <3>4. QED
      BY <3>1, <3>3
  <2>2. QED
    BY <1>12, <2>1 DEF SocketLost
<1>13. CASE SocketBack
  BY <1>13 DEF SocketBack
<1>14. CASE Reload
  <2>1. polls' \in Seq([Servers -> Statuses])
    BY <1>14 DEF Reload
  <2>2. QED
    BY <1>14, <2>1 DEF Reload
<1>15. CASE PollAnswered
  <2>1. polls' \in Seq([Servers -> Statuses])
    BY <1>15 DEF PollAnswered
  <2>2. QED
    BY <1>15, <2>1 DEF PollAnswered
<1>16. ASSUME NEW j \in 1 .. MaxPolls, PollArrives(j)
       PROVE  PanelType'
  <2>1. polls' \in Seq([Servers -> Statuses]) /\ polls[j] \in [Servers -> Statuses]
    BY <1>16, RemoveTyped DEF PollArrives
  <2>2. \A s \in Servers : polls[j][s] # "unknown"
    BY <2>1 DEF Statuses
  <2>3. QED
    BY <1>16, <2>1, <2>2 DEF PollArrives
<1>17. ASSUME NEW j \in 1 .. MaxPolls, PollSpoilt(j)
       PROVE  PanelType'
  <2>1. polls' \in Seq([Servers -> Statuses])
    BY <1>17, RemoveTyped DEF PollSpoilt
  <2>2. QED
    BY <1>17, <2>1 DEF PollSpoilt
<1>18. CASE UNCHANGED panelVars
  BY <1>18 DEF panelVars
<1>19. QED
  BY <1>1, <1>2, <1>3, <1>4, <1>5, <1>6, <1>7, <1>8, <1>9, <1>10,
     <1>11, <1>12, <1>13, <1>14, <1>15, <1>16, <1>17, <1>18
  DEF PanelNext, Machine, Under

-----------------------------------------------------------------------------
(* Counts are numbers.                                                     *)
LEMMA CountsAre ==
  ASSUME PanelType, NEW s \in Servers
  PROVE  /\ <<"start", s>> \in Commands /\ <<"stop", s>> \in Commands
         /\ send[<<"start", s>>] \in Nat /\ send[<<"stop", s>>] \in Nat
         /\ tasks[<<"start", s>>] \in Nat /\ tasks[<<"stop", s>>] \in Nat
         /\ saving[s] \in Nat
<1>1. <<"start", s>> \in Commands /\ <<"stop", s>> \in Commands
  BY DEF Commands
<1>2. QED
  BY <1>1 DEF PanelType

(* A server that a step leaves alone keeps what it has.                    *)
LEMMA LeftAlone ==
  ASSUME NEW s \in Servers, Kept(s),
         saving'[s] = saving[s], up'[s] = up[s],
         Starting(s)' = Starting(s), Stopping(s)' = Stopping(s),
         pend' = pend \/ (pend # s /\ pend' # s /\ saving[s] = 0),
         s \in owed' <=> s \in owed, misled \in BOOLEAN,
         misled' \in BOOLEAN, misled => misled',
         (\A j \in 1 .. Len(relay) : relay[j].srv # s) =>
             \A j \in 1 .. Len(relay') : relay'[j].srv # s,
         StoppedIn(s) => StoppedIn(s)'
  PROVE  Kept(s)'
  BY DEF Kept, Saved, Pended, InTurn, GoesOn, UnderWay

LEMMA PlusElse ==
  ASSUME NEW f \in [Commands -> Nat], NEW c \in Commands
  PROVE  \A d \in Commands : d # c => Plus(f, c)[d] = f[d]
  BY DEF Plus

LEMMA MinusElse ==
  ASSUME NEW f \in [Commands -> Nat], NEW c \in Commands
  PROVE  \A d \in Commands : d # c => Minus(f, c)[d] = f[d]
  BY DEF Minus

(* What a patient user does not run into.                                  *)
LEMMA NoHurry ==
  ASSUME PanelType, [PanelNext]_panelVars, ~hurried'
  PROVE  ~hurried
  BY DEF PanelType, PanelNext, Machine, panelVars, history, Event, Fault,
     Command, SaveAndRestart, Resume, HandlerSends, HandlerMarks,
     AgentActs, Message, MessageLost, SocketBack, PollAnswered,
     PollArrives, PollSpoilt, SaveThrows, HandlerRefuses, AgentFails,
     SocketLost, Reload

LEMMA CommandStep ==
  ASSUME PanelType, RestartInv, ~hurried, ~hurried',
         NEW k \in {"start", "stop"}, NEW t \in Servers, Command(k, t)
  PROVE  RestartInv'
<1>1. t \notin owed /\ pend # t /\ saving[t] = 0
  <2>1. ~Busy(t)
    BY DEF Command, Event
  <2>2. saving[t] \in Nat
    BY DEF PanelType
  <2>3. QED
    BY <2>1, <2>2 DEF Busy
<1>2. ASSUME NEW s \in Servers PROVE Kept(s)'
  <2>1. CASE s = t
    BY <1>1, <2>1, CountsAre
    DEF Command, view, flow, Kept, Saved, Pended, InTurn, GoesOn
  <2>2. CASE s # t
    <3>1. /\ <<k, t>> \in Commands /\ <<"start", s>> # <<k, t>>
          /\ <<"stop", s>> # <<k, t>>
      BY <2>2 DEF Commands
    <3>2. /\ send'[<<"start", s>>] = send[<<"start", s>>]
          /\ send'[<<"stop", s>>] = send[<<"stop", s>>]
      <4>1. send \in [Commands -> Nat] /\ send' = Plus(send, <<k, t>>)
        BY DEF Command, PanelType
      <4>2. QED
        BY <3>1, <4>1, CountsAre, PlusElse
    <3>3. Starting(s)' = Starting(s) /\ Stopping(s)' = Stopping(s)
      BY <3>2 DEF Command, Starting, Stopping
    <3>4. UNCHANGED <<saving, up, pend, owed, misled, relay>>
      BY DEF Command, view, flow
    <3>5. Kept(s)
      BY DEF RestartInv
    <3>6. QED
      BY <3>3, <3>4, <3>5, LeftAlone DEF StoppedIn, PanelType
  <2>3. QED
    BY <2>1, <2>2
<1>3. OneRestart'
  BY DEF Command, view, RestartInv, OneRestart
<1>4. QED
  BY <1>2, <1>3 DEF RestartInv
LEMMA NoneOfThree ==
  ASSUME NEW a \in Nat, NEW b \in Nat, NEW c \in Nat, ~(a + b + c > 0)
  PROVE  a + c = 0
  OBVIOUS

LEMMA SaveStep ==
  ASSUME PanelType, RestartInv, ~hurried, ~hurried',
         NEW t \in Servers, SaveAndRestart(t)
  PROVE  RestartInv'
<1>1. ~Busy(t) /\ owed = {} /\ pend = NoServer
  BY DEF SaveAndRestart, Event
<1>2. /\ saving[t] = 0 /\ \A j \in 1 .. Len(relay) : relay[j].srv # t
      /\ Starting(t) = 0 /\ Stopping(t) = 0
  <2>1. saving[t] = 0
    BY <1>1, CountsAre DEF Busy
  <2>2. \A j \in 1 .. Len(relay) : relay[j].srv # t
    <3>1. DOMAIN relay = 1 .. Len(relay)
      BY DEF PanelType
    <3>2. QED
      BY <1>1, <3>1 DEF Busy
  <2>3. /\ ~(send[<<"start", t>>] + mark[<<"start", t>>] + tasks[<<"start", t>>] > 0)
        /\ ~(send[<<"stop", t>>] + mark[<<"stop", t>>] + tasks[<<"stop", t>>] > 0)
    BY <1>1 DEF Busy
  <2>4. mark[<<"start", t>>] \in Nat /\ mark[<<"stop", t>>] \in Nat
    BY CountsAre DEF PanelType
  <2>5. Starting(t) = 0 /\ Stopping(t) = 0
    <3>1. /\ send[<<"start", t>>] \in Nat /\ tasks[<<"start", t>>] \in Nat
          /\ send[<<"stop", t>>] \in Nat /\ tasks[<<"stop", t>>] \in Nat
      BY CountsAre
    <3>2. send[<<"start", t>>] + tasks[<<"start", t>>] = 0
      BY <2>3, <2>4, <3>1, NoneOfThree
    <3>3. send[<<"stop", t>>] + tasks[<<"stop", t>>] = 0
      BY <2>3, <2>4, <3>1, NoneOfThree
    <3>4. QED
      BY <3>2, <3>3 DEF Starting, Stopping
  <2>6. QED
    BY <2>1, <2>2, <2>5
<1>3. /\ saving' = Plus(saving, t) /\ owed' = {t}
      /\ UNCHANGED <<row, up, send, mark, tasks, relay, live, listed, pend, misled>>
  BY <1>1 DEF SaveAndRestart, master, view
<1>4. saving'[t] = 1 /\ \A s \in Servers : s # t => saving'[s] = saving[s]
  BY <1>2, <1>3 DEF PanelType, Plus
<1>5. \A s \in Servers : Starting(s)' = Starting(s) /\ Stopping(s)' = Stopping(s)
  BY <1>3 DEF Starting, Stopping
<1>6. ASSUME NEW s \in Servers PROVE Kept(s)'
  <2>1. CASE s = t
    <3>1. pend # t
      BY <1>1, BrowserAssumption DEF BrowserAssumption
    <3>2. QED
      BY <1>1, <1>2, <1>3, <1>4, <1>5, <2>1, <3>1
      DEF Kept, Saved, Pended, InTurn, GoesOn, UnderWay
  <2>2. CASE s # t
    BY <1>1, <1>3, <1>4, <1>5, <2>2, LeftAlone DEF StoppedIn, PanelType, RestartInv
  <2>3. QED
    BY <2>1, <2>2
<1>7. OneRestart'
  BY <1>3 DEF RestartInv, OneRestart
<1>8. QED
  BY <1>6, <1>7 DEF RestartInv

(* The selection did not change, and the command goes to t.                *)
LEMMA ResumeStep ==
  ASSUME PanelType, RestartInv, ~hurried, ~hurried',
         NEW t \in Servers, NEW u \in Servers \cup {NoServer}, Resume(t, u)
  PROVE  RestartInv'
<1> DEFINE on == shown[t] \in On
           c == <<IF on THEN "stop" ELSE "start", t>>
<1>1. u = t /\ saving[t] > 0 /\ t # NoServer
  BY BrowserAssumption DEF Resume, BrowserAssumption
<1>2. /\ saving[t] = 1 /\ pend = NoServer /\ t \in owed
      /\ Starting(t) = 0 /\ Stopping(t) = 0
      /\ \A j \in 1 .. Len(relay) : relay[j].srv # t
  BY <1>1 DEF RestartInv, Kept, Saved, InTurn
<1>3. /\ saving' = Minus(saving, t) /\ send' = Plus(send, c)
      /\ pend' = IF on THEN t ELSE pend
      /\ misled' = (misled \/ on # up[t])
      /\ UNCHANGED <<row, up, mark, tasks, relay, live, listed, owed>>
  BY <1>1 DEF Resume, view
<1>4. saving'[t] = 0 /\ \A s \in Servers : s # t => saving'[s] = saving[s]
  BY <1>2, <1>3 DEF PanelType, Minus
<1>5. c \in Commands /\ send \in [Commands -> Nat]
  BY DEF Commands, PanelType
<1>6. /\ on => Starting(t)' = 0 /\ Stopping(t)' = 1
      /\ ~on => Starting(t)' = 1 /\ Stopping(t)' = 0
  <2>1. send'[c] = send[c] + 1
    BY <1>3, <1>5, PlusIs
  <2>2. \A d \in Commands : d # c => send'[d] = send[d]
    BY <1>3, <1>5, PlusElse
  <2>3. CASE on
    <3>1. c = <<"stop", t>> /\ <<"start", t>> # c
      BY <2>3
    <3>2. /\ send'[<<"stop", t>>] = send[<<"stop", t>>] + 1
          /\ send'[<<"start", t>>] = send[<<"start", t>>]
      BY <2>1, <2>2, <3>1, CountsAre
    <3> HIDE DEF on, c
    <3>3. QED
      BY <1>2, <1>3, <2>3, <3>2, CountsAre DEF Starting, Stopping
  <2>4. CASE ~on
    <3>1. c = <<"start", t>> /\ <<"stop", t>> # c
      BY <2>4
    <3>2. /\ send'[<<"start", t>>] = send[<<"start", t>>] + 1
          /\ send'[<<"stop", t>>] = send[<<"stop", t>>]
      BY <2>1, <2>2, <3>1, CountsAre
    <3> HIDE DEF on, c
    <3>3. QED
      BY <1>2, <1>3, <2>4, <3>2, CountsAre DEF Starting, Stopping
  <2>5. QED
    BY <2>3, <2>4
<1>7. on /\ ~misled' => up'[t]
  BY <1>3 DEF PanelType
<1>8. \A s \in Servers : s # t => Starting(s)' = Starting(s) /\ Stopping(s)' = Stopping(s)
  <2> SUFFICES ASSUME NEW s \in Servers, s # t
               PROVE  Starting(s)' = Starting(s) /\ Stopping(s)' = Stopping(s)
    OBVIOUS
  <2>1. <<"start", s>> # c /\ <<"stop", s>> # c
    OBVIOUS
  <2>2. /\ send'[<<"start", s>>] = send[<<"start", s>>]
        /\ send'[<<"stop", s>>] = send[<<"stop", s>>]
    BY <1>3, <1>5, <2>1, CountsAre, PlusElse
  <2>3. QED
    BY <1>3, <2>2 DEF Starting, Stopping
<1>9. misled \in BOOLEAN /\ misled' \in BOOLEAN /\ (misled => misled')
  BY <1>3 DEF PanelType
<1> HIDE DEF on, c
<1>10. ASSUME NEW s \in Servers PROVE Kept(s)'
  <2>1. CASE s = t
    BY <1>1, <1>2, <1>3, <1>4, <1>6, <1>7, <2>1
    DEF Kept, Saved, Pended, InTurn, GoesOn, UnderWay
  <2>2. CASE s # t
    <3>1. Kept(s) /\ OneRestart
      BY DEF RestartInv
    <3>2. saving[s] = 0
      <4>1. s \notin owed
        BY <1>2, <2>2, <3>1 DEF OneRestart
      <4>2. ~(saving[s] > 0) /\ saving[s] \in Nat
        BY <3>1, <4>1, CountsAre DEF Kept, Saved
      <4>3. QED
        BY <4>2
    <3>3. pend # s /\ pend' # s
      BY <1>2, <1>3, <2>2, BrowserAssumption DEF BrowserAssumption
    <3>4. QED
      BY <1>3, <1>4, <1>8, <1>9, <2>2, <3>1, <3>2, <3>3, LeftAlone DEF StoppedIn
  <2>3. QED
    BY <2>1, <2>2
<1>11. OneRestart'
  BY <1>3 DEF RestartInv, OneRestart
<1>12. QED
  BY <1>10, <1>11 DEF RestartInv

(* The command is passed on: it counts as before.                          *)
LEMMA SendsStep ==
  ASSUME PanelType, RestartInv, ~hurried, NEW k \in Commands, HandlerSends(k)
  PROVE  RestartInv'
<1>1. /\ send[k] > 0 /\ send' = Minus(send, k) /\ tasks' = Plus(tasks, k)
      /\ UNCHANGED <<row, up, relay, live, listed, pend, saving, owed, misled, hurried>>
  BY DEF HandlerSends, view, flow, history
<1>2. \A d \in Commands : send'[d] + tasks'[d] = send[d] + tasks[d]
  BY <1>1 DEF PanelType, Minus, Plus
<1>3. ASSUME NEW s \in Servers PROVE Kept(s)'
  <2>1. Starting(s)' = Starting(s) /\ Stopping(s)' = Stopping(s)
    BY <1>2, CountsAre DEF Starting, Stopping
  <2>2. QED
    BY <1>1, <2>1, LeftAlone DEF StoppedIn, PanelType, RestartInv
<1>4. OneRestart'
  BY <1>1 DEF RestartInv, OneRestart
<1>5. QED
  BY <1>3, <1>4 DEF RestartInv

(* A report goes behind the others.                                        *)
LEMMA ReportIs ==
  ASSUME PanelType, NEW s, NEW r, Report(s, r)
  PROVE  /\ Len(relay') = Len(relay) + 1 /\ Len(relay) \in Nat
         /\ \A j \in 1 .. Len(relay) : relay'[j] = relay[j]
         /\ relay'[Len(relay) + 1] = [srv |-> s, status |-> r]
<1>1. relay \in Seq(Reports) /\ relay' = Append(relay, [srv |-> s, status |-> r])
  BY DEF PanelType, Report
<1>2. QED
  BY <1>1

LEMMA ActsStep ==
  ASSUME PanelType, RestartInv, ~hurried, NEW k \in Commands, AgentActs(k)
  PROVE  RestartInv'
<1> DEFINE t == k[2]
           r == IF k[1] = "start" THEN "running" ELSE StopReport(t)
<1>1. /\ tasks[k] > 0 /\ tasks' = Minus(tasks, k) /\ Report(t, r)
      /\ up' = [up EXCEPT ![t] = (k[1] = "start")]
      /\ owed' = IF k[1] = "start" THEN owed \ {t} ELSE owed
      /\ UNCHANGED <<send, live, listed, pend, saving, misled, hurried>>
  BY DEF AgentActs, flow
<1>2. t \in Servers /\ k[1] \in {"start", "stop"} /\ k = <<k[1], t>>
  BY CommandIs
<1>3. /\ Len(relay') = Len(relay) + 1 /\ Len(relay) \in Nat
      /\ \A j \in 1 .. Len(relay) : relay'[j] = relay[j]
      /\ relay'[Len(relay) + 1].srv = t /\ relay'[Len(relay) + 1].status = r
  <2> HIDE DEF t, r
  <2>1. /\ Len(relay') = Len(relay) + 1 /\ Len(relay) \in Nat
        /\ \A j \in 1 .. Len(relay) : relay'[j] = relay[j]
        /\ relay'[Len(relay) + 1] = [srv |-> t, status |-> r]
    BY <1>1, ReportIs
  <2>2. QED
    BY <2>1
<1>4. /\ tasks'[k] = tasks[k] - 1
      /\ \A d \in Commands : d # k => tasks'[d] = tasks[d]
  BY <1>1 DEF PanelType, Minus
<1>r. up[t] /\ k[1] = "stop" => r = "stopped"
  BY DEF StopReport
<1> HIDE DEF t, r
<1>5. ASSUME NEW s \in Servers, s # t PROVE Kept(s)'
  <2>1. Starting(s)' = Starting(s) /\ Stopping(s)' = Stopping(s)
    <3>1. k # <<"start", s>> /\ k # <<"stop", s>>
      BY <1>2, <1>5
    <3>2. QED
      BY <1>1, <1>4, <3>1, CountsAre DEF Starting, Stopping
  <2>2. up'[s] = up[s] /\ (s \in owed' <=> s \in owed)
    BY <1>1, <1>5 DEF PanelType
  <2>3. (\A j \in 1 .. Len(relay) : relay[j].srv # s) =>
            \A j \in 1 .. Len(relay') : relay'[j].srv # s
    BY <1>3, <1>5
  <2>4. StoppedIn(s) => StoppedIn(s)'
    BY <1>3 DEF StoppedIn
  <2>5. Kept(s) /\ misled \in BOOLEAN
    BY DEF RestartInv, PanelType
  <2>6. QED
    BY <1>1, <2>1, <2>2, <2>3, <2>4, <2>5, LeftAlone
<1>6. Kept(t)
  BY <1>2 DEF RestartInv
<1>7. CASE k[1] = "start"
  <2>1. k = <<"start", t>>
    BY <1>2, <1>7
  <2>2. Starting(t) > 0
    <3>1. tasks[<<"start", t>>] > 0
      BY <1>1, <2>1
    <3>2. send[<<"start", t>>] \in Nat /\ tasks[<<"start", t>>] \in Nat
      BY <1>2, CountsAre
    <3>3. QED
      BY <3>1, <3>2 DEF Starting
  <2>3. ~(saving[t] > 0) /\ pend # t
    BY <1>6, <2>2 DEF Kept, Saved, Pended
  <2>4. t \notin owed'
    BY <1>1, <1>7
  <2>5. Kept(t)'
    BY <1>1, <2>3, <2>4 DEF Kept, Saved, Pended, InTurn, GoesOn
  <2>6. QED
    BY <1>1, <1>5, <2>5 DEF RestartInv, OneRestart
<1>8. CASE k[1] = "stop"
  <2>1. k = <<"stop", t>> /\ k # <<"start", t>>
    BY <1>2, <1>8
  <2>2. /\ Stopping(t) > 0 /\ Stopping(t)' = Stopping(t) - 1
        /\ Starting(t)' = Starting(t) /\ Stopping(t) \in Nat /\ Starting(t) \in Nat
    BY <1>1, <1>2, <1>4, <2>1, CountsAre DEF Starting, Stopping
  <2>3. saving'[t] = saving[t] /\ ~(saving[t] > 0) /\ (t \in owed' <=> t \in owed)
    BY <1>1, <1>6, <1>8, <2>2 DEF Kept, Saved
  <2>4. up[t] => r = "stopped"
    BY <1>8, <1>r
  <2>5. up[t] => StoppedIn(t)'
    BY <1>3, <2>4 DEF StoppedIn
  <2>6. Saved(t)' /\ Pended(t)'
    BY <1>1, <1>6, <2>2, <2>3 DEF Kept, Saved, Pended
  <2>7. InTurn(t)'
    BY <1>6, <2>2, <2>3 DEF Kept, InTurn
  <2>8. GoesOn(t)'
    <3> SUFFICES ASSUME t \in owed, ~misled PROVE UnderWay(t)'
      BY <1>1, <2>3 DEF GoesOn
    <3>1. ~(Starting(t) > 0) /\ ~StoppedIn(t)
      BY <1>6, <2>2 DEF Kept, InTurn, StoppedIn
    <3>2. pend = t /\ up[t]
      BY <1>6, <2>3, <3>1 DEF Kept, GoesOn, UnderWay
    <3>3. QED
      BY <1>1, <2>5, <3>2 DEF UnderWay
  <2>9. QED
    BY <1>1, <1>5, <1>8, <2>6, <2>7, <2>8 DEF RestartInv, OneRestart, Kept
<1>9. QED
  BY <1>2, <1>7, <1>8
(* The first message is taken.                                             *)
LEMMA TailIs ==
  ASSUME PanelType, relay # <<>>, relay' = Tail(relay)
  PROVE  /\ Len(relay) \in Nat /\ Len(relay') = Len(relay) - 1 /\ Len(relay) > 0
         /\ Head(relay) = relay[1] /\ relay[1] \in Reports
         /\ \A j \in 1 .. Len(relay') : relay'[j] = relay[j + 1]
<1>1. relay \in Seq(Reports)
  BY DEF PanelType
<1>2. QED
  BY <1>1

LEMMA MessageStep ==
  ASSUME PanelType, RestartInv, ~hurried, Message
  PROVE  RestartInv'
<1>0. PICK t \in Servers : relay[1].srv = t
  BY TailIs DEF Message, Reports
<1> DEFINE due == relay[1].status = "stopped" /\ pend = t
           c == <<"start", t>>
<1>1. /\ Len(relay) \in Nat /\ Len(relay') = Len(relay) - 1 /\ Len(relay) > 0
      /\ Head(relay) = relay[1] /\ relay[1] \in Reports
      /\ \A j \in 1 .. Len(relay') : relay'[j] = relay[j + 1]
  BY TailIs DEF Message
<1>2. /\ pend' = IF due THEN NoServer ELSE pend
      /\ send' = IF due THEN Plus(send, c) ELSE send
      /\ UNCHANGED <<up, tasks, live, listed, saving, owed, misled, hurried>>
  BY <1>0, <1>1 DEF Message, history, RestartInv, OneRestart
<1>3. t \in Servers /\ c \in Commands /\ t # NoServer
  BY BrowserAssumption DEF Commands, BrowserAssumption
<1>4. \A j \in 1 .. Len(relay) : j = 1 \/ (j - 1 \in 1 .. Len(relay') /\ relay[j] = relay'[j - 1])
  BY <1>1
<1>5. ASSUME NEW s \in Servers, \A j \in 1 .. Len(relay) : relay[j].srv # s
      PROVE  \A j \in 1 .. Len(relay') : relay'[j].srv # s
  BY <1>1, <1>5
<1>6. ASSUME NEW s \in Servers, StoppedIn(s), ~(relay[1].srv = s /\ relay[1].status = "stopped")
      PROVE  StoppedIn(s)'
  BY <1>4, <1>6 DEF StoppedIn
<1>7. ~due => \A s \in Servers : Starting(s)' = Starting(s) /\ Stopping(s)' = Stopping(s)
  BY <1>2 DEF Starting, Stopping
<1>8. due => /\ Starting(t)' = Starting(t) + 1 /\ Stopping(t)' = Stopping(t)
             /\ \A s \in Servers : s # t =>
                    Starting(s)' = Starting(s) /\ Stopping(s)' = Stopping(s)
  <2> SUFFICES ASSUME due
               PROVE  /\ Starting(t)' = Starting(t) + 1 /\ Stopping(t)' = Stopping(t)
                      /\ \A s \in Servers : s # t =>
                             Starting(s)' = Starting(s) /\ Stopping(s)' = Stopping(s)
    OBVIOUS
  <2>1. send \in [Commands -> Nat] /\ send' = Plus(send, c) /\ tasks' = tasks
    BY <1>2 DEF PanelType
  <2>2. send'[c] = send[c] + 1
    BY <1>3, <2>1, PlusIs
  <2>3. \A s \in Servers :
            /\ send'[<<"stop", s>>] = send[<<"stop", s>>]
            /\ s # t => send'[<<"start", s>>] = send[<<"start", s>>]
    BY <1>3, <2>1, CountsAre, PlusElse
  <2>4. Starting(t)' = Starting(t) + 1
    <3>1. send[<<"start", t>>] \in Nat /\ tasks[<<"start", t>>] \in Nat
      BY <1>3, CountsAre
    <3>2. QED
      BY <2>1, <2>2, <3>1 DEF Starting
  <2>5. QED
    BY <1>3, <2>1, <2>3, <2>4 DEF Starting, Stopping
<1>9. misled \in BOOLEAN /\ Kept(t)
  BY <1>3 DEF PanelType, RestartInv
<1> HIDE DEF c
<1>10. ASSUME NEW s \in Servers, s # t PROVE Kept(s)'
  <2>1. Kept(s) /\ relay[1].srv # s
    BY <1>0, <1>10 DEF RestartInv
  <2>2. pend' = pend \/ (pend # s /\ pend' # s /\ saving[s] = 0)
    <3> SUFFICES ASSUME due PROVE pend # s /\ pend' # s /\ saving[s] = 0
      BY <1>2
    <3>1. pend = t /\ pend' = NoServer /\ pend # NoServer
      BY <1>2, <1>3
    <3>2. ~(saving[s] > 0) /\ saving[s] \in Nat
      BY <2>1, <3>1, CountsAre DEF Kept, Saved
    <3>3. QED
      BY <1>10, <3>1, <3>2, BrowserAssumption DEF BrowserAssumption
  <2>3. Starting(s)' = Starting(s) /\ Stopping(s)' = Stopping(s)
    BY <1>7, <1>8, <1>10
  <2>4. StoppedIn(s) => StoppedIn(s)'
    BY <1>6, <2>1
  <2>5. (\A j \in 1 .. Len(relay) : relay[j].srv # s) =>
            \A j \in 1 .. Len(relay') : relay'[j].srv # s
    BY <1>5
  <2> HIDE DEF due
  <2>6. QED
    BY <1>2, <1>9, <2>1, <2>2, <2>3, <2>4, <2>5, LeftAlone
<1>11. CASE due
  <2>1. pend = t /\ pend' = NoServer /\ pend' # t
    BY <1>2, <1>3, <1>11
  <2>2. t \in owed /\ saving[t] = 0 /\ Starting(t) = 0
    BY <1>9, <2>1 DEF Kept, Pended
  <2>3. ~(Stopping(t) > 0) /\ Stopping(t) \in Nat
    <3>1. 1 \in 1 .. Len(relay) /\ relay[1].srv = t
      BY <1>0, <1>1
    <3>2. Stopping(t) \in Nat
      <4>1. send[<<"stop", t>>] \in Nat /\ tasks[<<"stop", t>>] \in Nat
        BY CountsAre
      <4>2. QED
        BY <4>1 DEF Stopping
    <3>3. QED
      BY <1>9, <2>2, <3>1, <3>2 DEF Kept, InTurn
  <2>4. Starting(t)' = 1 /\ Stopping(t)' = 0 /\ saving'[t] = 0
    BY <1>2, <1>8, <1>11, <2>2, <2>3
  <2>5. Kept(t)'
    BY <2>1, <2>4 DEF Kept, Saved, Pended, InTurn, GoesOn, UnderWay
  <2> HIDE DEF due
  <2>6. QED
    BY <1>2, <1>3, <1>10, <2>5 DEF RestartInv, OneRestart
<1>12. CASE ~due
  <2>1. pend' = pend /\ Starting(t)' = Starting(t) /\ Stopping(t)' = Stopping(t)
    BY <1>2, <1>3, <1>7, <1>12
  <2>2. Saved(t)' /\ Pended(t)'
    BY <1>2, <1>9, <2>1 DEF Kept, Saved, Pended
  <2>3. InTurn(t)'
    BY <1>2, <1>3, <1>5, <1>9, <2>1 DEF Kept, InTurn
  <2>4. GoesOn(t)'
    <3>1. pend = t /\ StoppedIn(t) => StoppedIn(t)'
      BY <1>0, <1>6, <1>12
    <3> HIDE DEF due
    <3>2. QED
      BY <1>2, <1>9, <2>1, <3>1 DEF Kept, GoesOn, UnderWay
  <2> HIDE DEF due
  <2>5. QED
    BY <1>2, <1>3, <1>10, <2>2, <2>3, <2>4 DEF RestartInv, OneRestart, Kept
<1>13. QED
  BY <1>11, <1>12

LEMMA RestartStep == PanelType /\ RestartInv /\ [PanelNext]_panelVars => RestartInv'
<1> SUFFICES ASSUME PanelType, RestartInv, [PanelNext]_panelVars, ~hurried'
             PROVE  RestartInv'
  BY DEF RestartInv
<1>now. ~hurried
  BY NoHurry
<1> USE <1>now
<1>kept. OneRestart /\ \A s \in Servers : Kept(s)
  BY DEF RestartInv
<1>1. ASSUME NEW k \in {"start", "stop"}, NEW s \in Servers, Command(k, s)
      PROVE  RestartInv'
  BY <1>1, CommandStep
<1>2. ASSUME NEW s \in Servers, SaveAndRestart(s) PROVE RestartInv'
  BY <1>2, SaveStep
<1>3. ASSUME NEW s \in Servers, NEW t \in Servers \cup {NoServer}, Resume(s, t)
      PROVE  RestartInv'
  BY <1>3, ResumeStep
<1>4. ASSUME NEW k \in Commands, HandlerSends(k) PROVE RestartInv'
  BY <1>4, SendsStep
<1>5. ASSUME NEW k \in Commands, AgentActs(k) PROVE RestartInv'
  BY <1>5, ActsStep
<1>6. CASE Message
  BY <1>6, MessageStep
<1>7. ASSUME UNCHANGED <<up, send, tasks, relay, pend, saving, owed, misled, live>>, listed'
      PROVE  RestartInv'
  BY <1>7, <1>kept DEF RestartInv, OneRestart, Kept, Saved, Pended, InTurn, GoesOn,
     UnderWay, Starting, Stopping, StoppedIn
<1>8. ASSUME NEW k \in Commands, HandlerMarks(k) PROVE RestartInv'
  BY <1>7, <1>8, <1>kept DEF HandlerMarks, view, flow, history, OneRestart
<1>9. CASE PollAnswered
  BY <1>7, <1>9, <1>kept DEF PollAnswered, master, flow, history, OneRestart
<1>10. ASSUME NEW j \in 1 .. MaxPolls, PollArrives(j) PROVE RestartInv'
  BY <1>7, <1>10 DEF PollArrives, master, flow, history
<1>11. CASE UNCHANGED panelVars
  BY <1>7, <1>11, <1>kept DEF panelVars, master, view, flow, history, OneRestart
<1>12. CASE MessageLost \/ SocketBack
  BY <1>12, <1>kept DEF MessageLost, SocketBack, OneRestart
<1>13. ASSUME Fault PROVE FALSE
  BY <1>13 DEF Fault, Event
<1>14. ASSUME NEW s \in Servers, SaveThrows(s) PROVE FALSE
  BY <1>13, <1>14 DEF SaveThrows
<1>15. ASSUME NEW k \in Commands, HandlerRefuses(k) \/ AgentFails(k) PROVE FALSE
  BY <1>13, <1>15 DEF HandlerRefuses, AgentFails
<1>16. ASSUME NEW j \in 1 .. MaxPolls, PollSpoilt(j) PROVE FALSE
  BY <1>13, <1>16 DEF PollSpoilt
<1>17. CASE SocketLost \/ Reload
  BY <1>13, <1>17 DEF SocketLost, Reload
<1>18. QED
  BY <1>1, <1>2, <1>3, <1>4, <1>5, <1>6, <1>8, <1>9, <1>10, <1>11,
     <1>12, <1>14, <1>15, <1>16, <1>17
  DEF PanelNext, Machine, Under, PanelType

LEMMA RestartInit == PanelInit => PanelType /\ RestartInv
<1> SUFFICES ASSUME PanelInit PROVE PanelType /\ RestartInv
  OBVIOUS
<1> USE DEF PanelInit
<1>1. PanelType
  <2>1. relay \in Seq(Reports) /\ polls \in Seq([Servers -> Statuses])
    OBVIOUS
  <2>2. None \in [Commands -> Nat]
    BY DEF None
  <2>3. row \in [Servers -> Statuses] /\ \A s \in Servers : row[s] # "unknown"
    BY DEF Statuses
  <2>4. QED
    BY <2>1, <2>2, <2>3 DEF PanelType
<1>2. RestartInv
  <2>1. ASSUME NEW s \in Servers PROVE pend # s /\ ~(saving[s] > 0)
    <3>1. pend = NoServer /\ saving[s] = 0
      OBVIOUS
    <3>2. QED
      BY <3>1, BrowserAssumption DEF BrowserAssumption
  <2>2. QED
    BY <2>1 DEF RestartInv, OneRestart, Kept, Saved, Pended, InTurn, GoesOn
<1>3. QED
  BY <1>1, <1>2

LEMMA PanelInvariance == PanelSpec => [](PanelType /\ RestartInv)
<1>1. PanelType /\ RestartInv /\ [PanelNext]_panelVars => (PanelType /\ RestartInv)'
  BY PanelTypeStep, RestartStep
<1>2. QED
  BY RestartInit, <1>1, PTL DEF PanelSpec

(* Every variable of the panel keeps its range (app.js, server.js).        *)
THEOREM PanelTypeCorrect == PanelSpec => []PanelTypeOK
<1>1. PanelType => PanelTypeOK
  BY DEF PanelType, PanelTypeOK, Reports
<1>2. QED
  BY PanelInvariance, <1>1, PTL

(* For a user who lets a restart finish, the browser holds a restart back  *)
(* only for a server whose restart was clicked and that has not started    *)
(* since (app.js:70, server.js 222).                                       *)
THEOREM RestartsHeldAreOwed == PanelSpec => []PendingIsOwed
<1>1. PanelType /\ RestartInv => PendingIsOwed
  BY DEF PanelType, RestartInv, Kept, Pended, PendingIsOwed
<1>2. QED
  BY PanelInvariance, <1>1, PTL

(* What a restart that is owed waits for is on its way: the answer to its  *)
(* save, its start, its stop, which will be reported as "stopped", or this *)
(* report, with the start held back until then; and its commands come one  *)
(* at a time.                                                              *)
NoRestartStuck ==
    ~hurried => \A s \in owed : /\ Starting(s) + Stopping(s) <= 1
                                /\ misled \/ UnderWay(s)

(* And no such restart is ever stuck, unless the status on which it chose  *)
(* between stop and start was not so (server.js 222, app.js 70, docker.go  *)
(* 163).                                                                   *)
THEOREM RestartsGoOn == PanelSpec => []NoRestartStuck
<1>1. PanelType /\ RestartInv => NoRestartStuck
  BY DEF PanelType, RestartInv, Kept, InTurn, GoesOn, NoRestartStuck
<1>2. QED
  BY PanelInvariance, <1>1, PTL
=============================================================================
