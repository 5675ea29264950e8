----------------------------- MODULE HubProofs -----------------------------
(***************************************************************************)
(* Proofs about Hub, for any number of connections, names, requests and    *)
(* browsers and any channel capacities.  The inductive invariant HubInv    *)
(* says what the registry, the lock and the hub's program counter have to  *)
(* do with each other:                                                     *)
(*   - a connection that has yet to end its unregister has an open channel *)
(*     (the channel is closed at its unregister and nowhere else);         *)
(*   - the registry holds only such connections;                           *)
(*   - whoever is at a send holds the read lock, so the entry it found is  *)
(*     still there.                                                        *)
(* OneCopy adds where the commands are: no two places hold the same one.   *)
(* Wedged and Hung describe the state the hub does not come back from.     *)
(***************************************************************************)
EXTENDS Hub, TLAPS, FiniteSetTheorems

(* What Hub.Run is working on fits its program counter.                    *)
HubBusy ==
    /\ hpc = "register" => harg \in Conns /\ reader[harg] \in Running
    /\ hpc = "unregister" => /\ harg \in Conns
                             /\ reader[harg] \in {"offline", "idle"}
                             /\ ~closed[harg]
    /\ hpc \in {"registerUI", "unregisterUI", "toUI"} => harg \in UIs
    /\ hpc = "toUI" => htodo \subseteq UIs
    /\ hpc \in {"rlockAgents", "toAgents"} => hmsg \in UIs

(* The channel of a connection whose reader has not ended is open, and a   *)
(* connection not yet offered to the hub is untouched.                     *)
ChannelOpen ==
    \A c \in Conns :
        /\ reader[c] \in Running \cup {"register"} => ~closed[c]
        /\ reader[c] = "register" => queue[c] = <<>> /\ writer[c] = "idle"

(* Whoever sends holds the read lock and sends to a registered connection. *)
SendersLocked ==
    /\ \A r \in Requests :
        call[r] = "send" => dst[r] # NoConn /\ agents[Target[r]] = dst[r]
    /\ hpc = "toAgents" =>
        \A c \in htodo \cup {harg} : c \in Conns /\ agents[NameOf[c]] = c

HubInv == HubBusy /\ RegistryLive /\ ChannelOpen /\ SendersLocked

-----------------------------------------------------------------------------
(* Every step keeps every variable in its range.                           *)
LEMMA TypeStep == TypeOK /\ HubBusy /\ SendersLocked /\ [Next]_vars => TypeOK'
<1> SUFFICES ASSUME TypeOK, HubBusy, SendersLocked, [Next]_vars PROVE TypeOK'
  OBVIOUS
<1> USE HubAssumption DEF HubAssumption, TypeOK, HubBusy, SendersLocked, Msgs,
          connVars, uiVars, hubVars, callVars
<1>1. ASSUME NEW c \in Conns, Connect(c) PROVE TypeOK'
  BY <1>1 DEF Connect
<1>2. ASSUME NEW c \in Conns, ReaderReceive(c) PROVE TypeOK'
  BY <1>2 DEF ReaderReceive
<1>3. ASSUME NEW c \in Conns, ReaderStore(c) PROVE TypeOK'
  BY <1>3 DEF ReaderStore
<1>4. ASSUME NEW c \in Conns, ReaderRelay(c) PROVE TypeOK'
  BY <1>4 DEF ReaderRelay
<1>5. ASSUME NEW c \in Conns, ReadFails(c) PROVE TypeOK'
  BY <1>5 DEF ReadFails
<1>6. ASSUME NEW c \in Conns, ReaderExit(c) PROVE TypeOK'
  BY <1>6 DEF ReaderExit
<1>7. ASSUME NEW c \in Conns, WriterTake(c) PROVE TypeOK'
  BY <1>7 DEF WriterTake
<1>8. ASSUME NEW c \in Conns, WriterWrite(c) PROVE TypeOK'
  BY <1>8 DEF WriterWrite
<1>9. ASSUME NEW c \in Conns, WriterFails(c) PROVE TypeOK'
  BY <1>9 DEF WriterFails, WriterReturn
<1>10. ASSUME NEW c \in Conns, WriterClosed(c) PROVE TypeOK'
  BY <1>10 DEF WriterClosed, WriterReturn
<1>11. ASSUME NEW r \in Requests, CallStart(r) PROVE TypeOK'
  BY <1>11 DEF CallStart
<1>12. ASSUME NEW r \in Requests, CallLookup(r) PROVE TypeOK'
  BY <1>12 DEF CallLookup
<1>13. ASSUME NEW r \in Requests, CallSend(r) PROVE TypeOK'
  BY <1>13 DEF CallSend, Push
<1>14. ASSUME NEW u \in UIs, UIConnect(u) PROVE TypeOK'
  BY <1>14 DEF UIConnect
<1>15. ASSUME NEW u \in UIs, UIReceive(u) PROVE TypeOK'
  BY <1>15 DEF UIReceive
<1>16. ASSUME NEW u \in UIs, UIRelay(u) PROVE TypeOK'
  BY <1>16 DEF UIRelay
<1>17. ASSUME NEW u \in UIs, UIReadFails(u) PROVE TypeOK'
  BY <1>17 DEF UIReadFails
<1>18. ASSUME NEW u \in UIs, Stall(u) PROVE TypeOK'
  BY <1>18 DEF Stall
<1>19. ASSUME NEW c \in Conns, TakeRegister(c) PROVE TypeOK'
  BY <1>19 DEF TakeRegister
<1>20. ASSUME NEW c \in Conns, TakeUnregister(c) PROVE TypeOK'
  BY <1>20 DEF TakeUnregister
<1>21. ASSUME NEW u \in UIs, TakeRegisterUI(u) PROVE TypeOK'
  BY <1>21 DEF TakeRegisterUI
<1>22. ASSUME NEW u \in UIs, TakeUnregisterUI(u) PROVE TypeOK'
  BY <1>22 DEF TakeUnregisterUI
<1>23. CASE TakeAgentMsg
  BY <1>23 DEF TakeAgentMsg
<1>24. CASE TakeUIMsg
  BY <1>24 DEF TakeUIMsg
<1>25. CASE Register
  BY <1>25 DEF Register
<1>26. CASE Unregister
  <2>1. harg \in Conns /\ NameOf[harg] \in Names
    BY <1>26 DEF Unregister
  <2>2. agents' \in [Names -> Conns \cup {NoConn}] /\ closed' \in [Conns -> BOOLEAN]
    <3>1. CASE agents[NameOf[harg]] # NoConn
      <4>1. /\ agents' = [agents EXCEPT ![NameOf[harg]] = NoConn]
            /\ closed' = [closed EXCEPT ![harg] = TRUE]
        BY <1>26, <3>1 DEF Unregister
      <4>2. QED
        BY <4>1, <2>1
    <3>2. CASE agents[NameOf[harg]] = NoConn
      BY <1>26, <3>2 DEF Unregister
    <3>3. QED
      BY <3>1, <3>2
  <2>3. QED
    BY <1>26, <2>2 DEF Unregister
<1>27. CASE RegisterUI
  BY <1>27 DEF RegisterUI
<1>28. CASE UnregisterUI
  BY <1>28 DEF UnregisterUI
<1>29. CASE RangeUI
  BY <1>29 DEF RangeUI, Visit
<1>30. CASE WriteUI
  BY <1>30 DEF WriteUI, Visit
<1>31. CASE RangeAgents
  <2> DEFINE S == {agents[n] : n \in Names} \ {NoConn}
  <2>1. S \subseteq Conns
    OBVIOUS
  <2>2. Visit(S, "toAgents")
    BY <1>31 DEF RangeAgents
  <2> HIDE DEF S
  <2>3. QED
    BY <1>31, <2>1, <2>2 DEF RangeAgents, Visit
<1>32. CASE SendAll
  BY <1>32 DEF SendAll, Push, Visit
<1>33. CASE UNCHANGED vars
  BY <1>33 DEF vars
<1>34. QED
    BY <1>1, <1>2, <1>3, <1>4, <1>5, <1>6, <1>7, <1>8, <1>9, <1>10, <1>11,
     <1>12, <1>13, <1>14, <1>15, <1>16, <1>17, <1>18, <1>19, <1>20, <1>21,
     <1>22, <1>23, <1>24, <1>25, <1>26, <1>27, <1>28, <1>29, <1>30, <1>31,
     <1>32, <1>33
  DEF Next, AgentStep, CallStep, BrowserStep, Select, Finish

(* Every step keeps the inductive invariant.                               *)
LEMMA InvStep == TypeOK /\ HubInv /\ [Next]_vars => HubInv'
<1> SUFFICES ASSUME TypeOK, HubInv, [Next]_vars PROVE HubInv'
  OBVIOUS
<1> USE HubAssumption DEF HubAssumption, TypeOK, HubInv, HubBusy, RegistryLive, Running,
          ChannelOpen, SendersLocked, ReadLocked, Msgs,
          connVars, uiVars, hubVars, callVars
<1>1. ASSUME NEW c \in Conns, Connect(c) PROVE HubInv'
  BY <1>1 DEF Connect
<1>2. ASSUME NEW c \in Conns, ReaderReceive(c) PROVE HubInv'
  BY <1>2 DEF ReaderReceive
<1>3. ASSUME NEW c \in Conns, ReaderStore(c) PROVE HubInv'
  BY <1>3 DEF ReaderStore
<1>4. ASSUME NEW c \in Conns, ReaderRelay(c) PROVE HubInv'
  BY <1>4 DEF ReaderRelay
<1>5. ASSUME NEW c \in Conns, ReadFails(c) PROVE HubInv'
  BY <1>5 DEF ReadFails
<1>6. ASSUME NEW c \in Conns, ReaderExit(c) PROVE HubInv'
  BY <1>6 DEF ReaderExit
<1>7. ASSUME NEW c \in Conns, WriterTake(c) PROVE HubInv'
  BY <1>7 DEF WriterTake
<1>8. ASSUME NEW c \in Conns, WriterWrite(c) PROVE HubInv'
  BY <1>8 DEF WriterWrite
<1>9. ASSUME NEW c \in Conns, WriterFails(c) PROVE HubInv'
  BY <1>9 DEF WriterFails, WriterReturn
<1>10. ASSUME NEW c \in Conns, WriterClosed(c) PROVE HubInv'
  BY <1>10 DEF WriterClosed, WriterReturn
<1>11. ASSUME NEW r \in Requests, CallStart(r) PROVE HubInv'
  BY <1>11 DEF CallStart
<1>12. ASSUME NEW r \in Requests, CallLookup(r) PROVE HubInv'
  BY <1>12 DEF CallLookup
<1>13. ASSUME NEW r \in Requests, CallSend(r) PROVE HubInv'
  <2>1. dst[r] \in Conns /\ reader[dst[r]] # "register"
    <3>1. dst[r] \in Conns /\ Target[r] \in Names /\ agents[Target[r]] = dst[r]
      BY <1>13 DEF CallSend
    <3>2. \/ reader[dst[r]] \in Running
          \/ hpc = "unregister" /\ harg = dst[r]
      BY <3>1
    <3>3. QED
      BY <3>1, <3>2
  <2>2. QED
    BY <1>13, <2>1 DEF CallSend, Push
<1>14. ASSUME NEW u \in UIs, UIConnect(u) PROVE HubInv'
  BY <1>14 DEF UIConnect
<1>15. ASSUME NEW u \in UIs, UIReceive(u) PROVE HubInv'
  BY <1>15 DEF UIReceive
<1>16. ASSUME NEW u \in UIs, UIRelay(u) PROVE HubInv'
  BY <1>16 DEF UIRelay
<1>17. ASSUME NEW u \in UIs, UIReadFails(u) PROVE HubInv'
  BY <1>17 DEF UIReadFails
<1>18. ASSUME NEW u \in UIs, Stall(u) PROVE HubInv'
  BY <1>18 DEF Stall
<1>19. ASSUME NEW c \in Conns, TakeRegister(c) PROVE HubInv'
  BY <1>19 DEF TakeRegister
<1>20. ASSUME NEW c \in Conns, TakeUnregister(c) PROVE HubInv'
  BY <1>20 DEF TakeUnregister
<1>21. ASSUME NEW u \in UIs, TakeRegisterUI(u) PROVE HubInv'
  BY <1>21 DEF TakeRegisterUI
<1>22. ASSUME NEW u \in UIs, TakeUnregisterUI(u) PROVE HubInv'
  BY <1>22 DEF TakeUnregisterUI
<1>23. CASE TakeAgentMsg
  BY <1>23 DEF TakeAgentMsg
<1>24. CASE TakeUIMsg
  BY <1>24 DEF TakeUIMsg
<1>25. CASE Register
  BY <1>25 DEF Register
<1>26. CASE Unregister
  <2>1. harg \in Conns /\ reader[harg] \in {"offline", "idle"}
    BY <1>26 DEF Unregister
  <2>2. HubBusy' /\ SendersLocked'
    BY <1>26 DEF Unregister
  <2>3. /\ \A n \in Names :
              agents'[n] = IF n = NameOf[harg] THEN NoConn ELSE agents[n]
        /\ \A c \in Conns : c # harg => closed'[c] = closed[c]
    <3>1. CASE agents[NameOf[harg]] # NoConn
      <4>1. /\ agents' = [agents EXCEPT ![NameOf[harg]] = NoConn]
            /\ closed' = [closed EXCEPT ![harg] = TRUE]
        BY <1>26, <3>1 DEF Unregister
      <4>2. QED
        BY <4>1, <2>1
    <3>2. CASE agents[NameOf[harg]] = NoConn
      <4>1. agents' = agents /\ closed' = closed
        BY <1>26, <3>2 DEF Unregister
      <4>2. QED
        BY <4>1, <3>2
    <3>3. QED
      BY <3>1, <3>2
  <2>4. ChannelOpen'
    BY <1>26, <2>1, <2>3 DEF Unregister
  <2>5. RegistryLive'
    <3> SUFFICES ASSUME NEW n \in Names, agents'[n] # NoConn
                 PROVE  /\ NameOf[agents'[n]] = n /\ ~closed'[agents'[n]]
                        /\ reader'[agents'[n]] \in Running
      OBVIOUS
    <3>1. n # NameOf[harg] /\ agents'[n] = agents[n]
      BY <2>3
    <3>2. agents[n] \in Conns /\ agents[n] # harg
      BY <3>1
    <3>3. QED
      BY <1>26, <2>3, <3>1, <3>2 DEF Unregister
  <2>6. QED
    BY <2>2, <2>4, <2>5
<1>27. CASE RegisterUI
  BY <1>27 DEF RegisterUI
<1>28. CASE UnregisterUI
  BY <1>28 DEF UnregisterUI
<1>29. CASE RangeUI
  BY <1>29 DEF RangeUI, Visit
<1>30. CASE WriteUI
  BY <1>30 DEF WriteUI, Visit
<1>31. CASE RangeAgents
  <2> DEFINE S == {agents[n] : n \in Names} \ {NoConn}
  <2>1. \A c \in S : c \in Conns /\ agents[NameOf[c]] = c
    OBVIOUS
  <2>2. Visit(S, "toAgents")
    BY <1>31 DEF RangeAgents
  <2> HIDE DEF S
  <2>3. QED
    BY <1>31, <2>1, <2>2 DEF RangeAgents, Visit
<1>32. CASE SendAll
  <2>1. harg \in Conns /\ agents[NameOf[harg]] = harg /\ hpc = "toAgents"
    BY <1>32 DEF SendAll
  <2>2. reader[harg] # "register"
    <3>1. NameOf[harg] \in Names /\ harg # NoConn
      BY <2>1
    <3>2. QED
      BY <2>1, <3>1
  <2>3. ChannelOpen'
    BY <1>32, <2>1, <2>2 DEF SendAll, Push
  <2>4. HubBusy' /\ SendersLocked' /\ RegistryLive'
    BY <1>32, <2>1 DEF SendAll, Visit
  <2>5. QED
    BY <2>3, <2>4
<1>33. CASE UNCHANGED vars
  BY <1>33 DEF vars
<1>34. QED
    BY <1>1, <1>2, <1>3, <1>4, <1>5, <1>6, <1>7, <1>8, <1>9, <1>10, <1>11,
     <1>12, <1>13, <1>14, <1>15, <1>16, <1>17, <1>18, <1>19, <1>20, <1>21,
     <1>22, <1>23, <1>24, <1>25, <1>26, <1>27, <1>28, <1>29, <1>30, <1>31,
     <1>32, <1>33
  DEF Next, AgentStep, CallStep, BrowserStep, Select, Finish

-----------------------------------------------------------------------------
(* The inductive invariant holds, and gives the two safety properties.     *)

LEMMA InvInit == Init => TypeOK /\ HubInv
  BY HubAssumption DEF HubAssumption, Init, TypeOK, HubInv, HubBusy,
     RegistryLive, Running, ChannelOpen, SendersLocked

LEMMA InvImpliesNoPanic == TypeOK /\ HubInv => NoChannelPanic
<1> SUFFICES ASSUME TypeOK, HubInv PROVE NoChannelPanic
  OBVIOUS
<1> USE HubAssumption DEF HubAssumption, TypeOK, HubInv
<1>1. ASSUME NEW r \in Requests, call[r] = "send"
      PROVE  agents[Target[r]] = dst[r] /\ dst[r] # NoConn /\ ~closed[dst[r]]
  <2>1. Target[r] \in Names /\ agents[Target[r]] = dst[r] /\ dst[r] # NoConn
    BY <1>1 DEF SendersLocked
  <2>2. QED
    BY <2>1 DEF RegistryLive
<1>2. ASSUME hpc = "toAgents", NEW c \in htodo \cup {harg}
      PROVE  agents[NameOf[c]] = c /\ ~closed[c]
  <2>1. c \in Conns /\ agents[NameOf[c]] = c
    BY <1>2 DEF SendersLocked
  <2>2. NameOf[c] \in Names /\ c # NoConn
    BY <2>1
  <2>3. QED
    BY <2>1, <2>2 DEF RegistryLive
<1>3. hpc = "unregister" => ~closed[harg]
  BY DEF HubBusy
<1>4. QED
  BY <1>1, <1>2, <1>3 DEF NoChannelPanic

LEMMA Invariance == Spec => [](TypeOK /\ HubInv)
<1>1. TypeOK /\ HubInv /\ [Next]_vars => (TypeOK /\ HubInv)'
  BY TypeStep, InvStep DEF HubInv
<1>2. QED
  BY InvInit, <1>1, PTL DEF Spec

(* Every variable of the hub keeps its range, whatever order its           *)
(* goroutines run in (main.go, websocket.go).                              *)
THEOREM TypeCorrect == Spec => []TypeOK
  BY Invariance, PTL

(* Hub.Agents holds only connections whose reader has yet to end its       *)
(* unregister, filed under their own name, with an open Send channel.      *)
THEOREM RegistrySound == Spec => []RegistryLive
<1>1. TypeOK /\ HubInv => RegistryLive
  BY DEF HubInv
<1>2. QED
  BY Invariance, <1>1, PTL

(* No goroutine of the hub sends on a closed channel or closes one twice.  *)
THEOREM NoPanic == Spec => []NoChannelPanic
  BY Invariance, InvImpliesNoPanic, PTL

-----------------------------------------------------------------------------
(* Who waits for whom.                                                     *)

LEMMA InvImpliesNoHang == TypeOK /\ HubInv => NobodyHangs
<1> SUFFICES ASSUME TypeOK, HubInv, Waiting, ~BehindDeadWriter, ~BehindStalledUI
             PROVE  CanMove
  BY DEF NobodyHangs
<1> USE HubAssumption DEF HubAssumption
<1>1. ASSUME NEW c \in Awaited PROVE CanMove
  <2>1. c \in Conns
    BY <1>1 DEF Awaited, TypeOK, HubInv, SendersLocked
  <2>2. writer[c] \in {"idle", "select", "write"} /\ Len(queue[c]) \in Nat
    BY <2>1 DEF TypeOK
  <2>3. writer[c] = "idle" => Len(queue[c]) < SendCap
    BY <1>1, <2>2 DEF BehindDeadWriter
  <2>4. queue[c] = <<>> => Len(queue[c]) < SendCap
    OBVIOUS
  <2>5. \/ Len(queue[c]) < SendCap
        \/ writer[c] = "select" /\ queue[c] # <<>>
        \/ writer[c] = "write"
    BY <2>2, <2>3, <2>4
  <2>6. QED
    BY <1>1, <2>5 DEF CanMove
<1>2. CASE ReadLocked
  <2>1. ASSUME NEW r \in Requests, call[r] = "send" PROVE CanMove
    BY <1>1, <2>1 DEF Awaited
  <2>2. CASE hpc = "toUI"
    BY <2>2 DEF BehindStalledUI, CanMove
  <2>3. CASE hpc = "toAgents"
    <3>1. harg \in Conns
      BY <2>3 DEF HubInv, SendersLocked
    <3>2. QED
      BY <1>1, <2>3, <3>1 DEF Awaited
  <2>4. QED
    BY <1>2, <2>1, <2>2, <2>3 DEF ReadLocked
<1>3. CASE ~ReadLocked /\ LockWaiting
  BY <1>3 DEF LockWaiting, CanMove
<1>4. CASE ~ReadLocked /\ ~LockWaiting
  <2>1. hpc \in {"select", "rlockUI", "rlockAgents"}
    BY <1>4 DEF ReadLocked, LockWaiting, TypeOK
  <2>2. CASE hpc # "select"
    BY <1>4, <2>1, <2>2 DEF CanMove
  <2>3. CASE hpc = "select"
    <3>1. ASSUME NEW r \in Requests, call[r] \in {"rlock", "send"} PROVE CanMove
      BY <1>4, <3>1 DEF ReadLocked, CanMove
    <3>2. ASSUME NEW c \in Conns, reader[c] \in {"register", "store", "unregister"}
          PROVE  CanMove
      BY <1>4, <2>3, <3>2 DEF LockWaiting, CanMove
    <3>3. ASSUME agentMsgs >= RelayCap PROVE CanMove
      <4>1. agentMsgs > 0
        BY <3>3 DEF TypeOK
      <4>2. QED
        BY <4>1, <2>3 DEF CanMove
    <3>4. ASSUME NEW u \in UIs, ui[u] \in {"register", "unregister"} PROVE CanMove
      BY <2>3, <3>4 DEF CanMove
    <3>5. ASSUME Len(uiMsgs) >= RelayCap PROVE CanMove
      <4>1. uiMsgs # <<>>
        BY <3>5
      <4>2. QED
        BY <4>1, <2>3 DEF CanMove
    <3>6. QED
      BY <2>3, <3>1, <3>2, <3>3, <3>4, <3>5 DEF Waiting
  <2>4. QED
    BY <2>2, <2>3
<1>5. QED
  BY <1>2, <1>3, <1>4

(* The hub's goroutines never all wait for each other: whatever circle of  *)
(* lock, channels and select they stand in, one of them can go on, unless  *)
(* it is at a full channel whose writer has ended (main.go:120, :161) or   *)
(* at a browser that has stopped reading (main.go:108).                    *)
THEOREM NoHang == Spec => []NobodyHangs
  BY Invariance, InvImpliesNoHang, PTL

(* SendToAgent is at a full channel that no writer empties.                *)
Wedged(r) ==
    /\ call[r] = "send"
    /\ writer[dst[r]] = "idle" /\ Len(queue[dst[r]]) >= SendCap

(* And Hub.Run waits for the write lock behind it.                         *)
Hung(r) ==
    /\ Wedged(r)
    /\ hpc \in {"register", "unregister", "registerUI", "unregisterUI"}

(* The connection a wedged request sends to cannot be replaced, and its    *)
(* channel neither filled further nor emptied.                             *)
LEMMA WedgeStep ==
  ASSUME TypeOK, HubInv, [Next]_vars, NEW r \in Requests, Wedged(r)
  PROVE  Wedged(r)'
<1> DEFINE d == dst[r]
<1> USE HubAssumption DEF HubAssumption, Wedged, connVars, uiVars, hubVars, callVars
<1>1. d \in Conns /\ agents[Target[r]] = d /\ Target[r] \in Names /\ d # NoConn
  BY DEF TypeOK, HubInv, SendersLocked
<1>2. reader[d] \in Running \/ (hpc = "unregister" /\ harg = d)
  BY <1>1 DEF HubInv, RegistryLive
<1>3. reader[d] # "register"
  BY <1>1, <1>2 DEF Running, HubInv, HubBusy
<1>4. ASSUME NEW c \in Conns, NEW m, Push(c, m)
      PROVE  queue'[d] = queue[d]
  <2>1. c # d
    BY <1>1, <1>4 DEF Push, TypeOK
  <2>2. QED
    BY <1>1, <1>4, <2>1 DEF Push, TypeOK
<1>5. ASSUME UNCHANGED <<call, dst>>, writer'[d] = writer[d], queue'[d] = queue[d]
      PROVE  Wedged(r)'
  BY <1>5
<1>6. ASSUME NEW c \in Conns, AgentStep(c) PROVE Wedged(r)'
  <2>1. CASE Connect(c)
    <3>1. c # d
      BY <1>2, <2>1 DEF Connect, Running
    <3>2. QED
      BY <1>1, <1>5, <2>1, <3>1 DEF Connect, TypeOK
  <2>2. CASE WriterTake(c)
    BY <1>1, <1>5, <2>2 DEF WriterTake, TypeOK
  <2>3. CASE WriterWrite(c)
    BY <1>1, <1>5, <2>3 DEF WriterWrite, TypeOK
  <2>4. CASE WriterFails(c) \/ WriterClosed(c)
    BY <1>1, <1>5, <2>4 DEF WriterFails, WriterClosed, WriterReturn, TypeOK
  <2>5. CASE \/ ReaderReceive(c) \/ ReaderStore(c) \/ ReaderRelay(c)
             \/ ReadFails(c) \/ ReaderExit(c)
    BY <1>5, <2>5 DEF ReaderReceive, ReaderStore, ReaderRelay, ReadFails, ReaderExit
  <2>6. QED
    BY <1>6, <2>1, <2>2, <2>3, <2>4, <2>5 DEF AgentStep
<1>7. ASSUME NEW q \in Requests, CallStep(q) PROVE Wedged(r)'
  <2>1. CASE CallStart(q) \/ CallLookup(q)
    <3>1. q # r /\ UNCHANGED <<writer, queue>>
      BY <2>1 DEF CallStart, CallLookup
    <3>2. call'[r] = call[r] /\ dst'[r] = dst[r]
      BY <2>1, <3>1 DEF CallStart, CallLookup, TypeOK
    <3>3. QED
      BY <3>1, <3>2
  <2>2. CASE CallSend(q)
    <3>1. dst[q] \in Conns /\ Push(dst[q], q) /\ UNCHANGED <<dst, writer>>
      BY <2>2 DEF CallSend, TypeOK, HubInv, SendersLocked
    <3>2. q # r
      BY <1>1, <3>1 DEF Push, TypeOK
    <3>3. call'[r] = call[r]
      BY <2>2, <3>2 DEF CallSend, TypeOK
    <3>4. QED
      BY <1>4, <3>1, <3>3
  <2>3. QED
    BY <1>7, <2>1, <2>2 DEF CallStep
<1>8. ASSUME NEW u \in UIs, BrowserStep(u) PROVE Wedged(r)'
  BY <1>5, <1>8
  DEF BrowserStep, UIConnect, UIReceive, UIRelay, UIReadFails, Stall
<1>9. CASE Select
  <2>1. ASSUME NEW c \in Conns, TakeRegister(c) PROVE Wedged(r)'
    <3>1. c # d
      BY <1>3, <2>1 DEF TakeRegister
    <3>2. QED
      BY <1>1, <1>5, <2>1, <3>1 DEF TakeRegister, TypeOK
  <2>2. ASSUME NEW c \in Conns, TakeUnregister(c) PROVE Wedged(r)'
    BY <1>5, <2>2 DEF TakeUnregister
  <2>3. ASSUME NEW u \in UIs, TakeRegisterUI(u) \/ TakeUnregisterUI(u)
        PROVE  Wedged(r)'
    BY <1>5, <2>3 DEF TakeRegisterUI, TakeUnregisterUI
  <2>4. CASE TakeAgentMsg \/ TakeUIMsg
    BY <1>5, <2>4 DEF TakeAgentMsg, TakeUIMsg
  <2>5. QED
    BY <1>9, <2>1, <2>2, <2>3, <2>4 DEF Select
<1>10. CASE Finish
  <2>1. CASE SendAll
    <3>1. harg \in Conns /\ Push(harg, hmsg) /\ UNCHANGED <<call, dst, writer>>
      BY <2>1 DEF SendAll, HubInv, SendersLocked
    <3>2. QED
      BY <1>4, <1>5, <3>1
  <2>2. CASE Unregister
    BY <1>5, <2>2 DEF Unregister
  <2>3. CASE Register \/ RegisterUI \/ UnregisterUI
    BY <1>5, <2>3 DEF Register, RegisterUI, UnregisterUI
  <2>4. CASE RangeUI \/ WriteUI \/ RangeAgents
    BY <1>5, <2>4 DEF RangeUI, WriteUI, RangeAgents
  <2>5. QED
    BY <1>10, <2>1, <2>2, <2>3, <2>4 DEF Finish
<1>11. CASE UNCHANGED vars
  BY <1>5, <1>11 DEF vars
<1>12. QED
  BY <1>6, <1>7, <1>8, <1>9, <1>10, <1>11 DEF Next

(* Behind a wedged request neither Hub.Run nor anybody at the lock or at a *)
(* channel of Run's gets further.                                          *)
LEMMA HungStep ==
  ASSUME TypeOK, HubInv, [Next]_vars, NEW r \in Requests, Hung(r)
  PROVE  /\ Hung(r)' /\ UNCHANGED <<agents, uiClients, hubVars>>
         /\ \A q \in Requests : call[q] = "rlock" => call'[q] = "rlock"
         /\ \A c \in Conns :
              reader[c] \in {"register", "store", "unregister"} => reader'[c] = reader[c]
         /\ \A u \in UIs : ui[u] \in {"register", "unregister"} => ui'[u] = ui[u]
<1> DEFINE Stuck ==
      /\ UNCHANGED <<agents, uiClients, hpc, harg, htodo, hmsg>>
      /\ \A q \in Requests : call[q] = "rlock" => call'[q] = "rlock"
      /\ \A c \in Conns :
           reader[c] \in {"register", "store", "unregister"} => reader'[c] = reader[c]
      /\ \A u \in UIs : ui[u] \in {"register", "unregister"} => ui'[u] = ui[u]
<1>1. /\ hpc \in {"register", "unregister", "registerUI", "unregisterUI"}
      /\ ReadLocked /\ LockWaiting
  BY DEF Hung, Wedged, ReadLocked, LockWaiting
<1>2. Stuck
  <2> USE <1>1 DEF hubVars, callVars, connVars, uiVars
  <2>1. ASSUME NEW c \in Conns, AgentStep(c) PROVE Stuck
    <3>1. CASE Connect(c)
      BY <3>1 DEF Connect, TypeOK
    <3>2. CASE ReaderReceive(c)
      BY <3>2 DEF ReaderReceive, TypeOK
    <3>3. CASE ReaderStore(c)
      BY <3>3 DEF ReaderStore
    <3>4. CASE ReaderRelay(c) \/ ReadFails(c) \/ ReaderExit(c)
      BY <3>4 DEF ReaderRelay, ReadFails, ReaderExit, TypeOK
    <3>5. CASE \/ WriterTake(c) \/ WriterWrite(c) \/ WriterFails(c) \/ WriterClosed(c)
      BY <3>5 DEF WriterTake, WriterWrite, WriterFails, WriterClosed, WriterReturn
    <3>6. QED
      BY <2>1, <3>1, <3>2, <3>3, <3>4, <3>5 DEF AgentStep
  <2>2. ASSUME NEW q \in Requests, CallStep(q) PROVE Stuck
    BY <2>2 DEF CallStep, CallStart, CallLookup, CallSend, TypeOK
  <2>3. ASSUME NEW u \in UIs, BrowserStep(u) PROVE Stuck
    BY <2>3 DEF BrowserStep, UIConnect, UIReceive, UIRelay, UIReadFails, Stall, TypeOK
  <2>4. ~Select
    BY DEF Select, TakeRegister, TakeUnregister, TakeRegisterUI,
       TakeUnregisterUI, TakeAgentMsg, TakeUIMsg
  <2>5. ~Finish
    BY DEF Finish, Register, Unregister, RegisterUI, UnregisterUI, RangeUI,
       WriteUI, RangeAgents, SendAll
  <2>6. CASE UNCHANGED vars
    BY <2>6 DEF vars
  <2>7. QED
    BY <2>1, <2>2, <2>3, <2>4, <2>5, <2>6 DEF Next
<1>3. Wedged(r)'
  BY WedgeStep DEF Hung
<1>4. Hung(r)'
  BY <1>1, <1>2, <1>3 DEF Hung
<1>5. QED
  BY <1>2, <1>4 DEF hubVars

(* A SendToAgent that has come to a full channel without a writer stays    *)
(* there, and with it the hub's read lock (main.go:155-161): no reconnect  *)
(* of the agent frees it.                                                  *)
THEOREM WedgeIsForGood ==
  ASSUME NEW r \in Requests
  PROVE  Spec => [](Wedged(r) => []Wedged(r))
<1>1. TypeOK /\ HubInv /\ [Next]_vars /\ Wedged(r) => Wedged(r)'
  BY WedgeStep
<1>2. QED
  BY Invariance, <1>1, PTL DEF Spec

(* Once Hub.Run has asked for the write lock behind such a call, the hub   *)
(* is out of service for good (main.go:74-103): no later SendToAgent       *)
(* returns, and no agent or browser is registered or unregistered again.   *)
THEOREM HubOutOfService ==
  ASSUME NEW r \in Requests, NEW q \in Requests, NEW c \in Conns, NEW u \in UIs
  PROVE  Spec =>
           /\ [](Hung(r) => []Hung(r))
           /\ [][Hung(r) => UNCHANGED <<agents, uiClients>>]_vars
           /\ [](Hung(r) /\ call[q] = "rlock" => [](call[q] = "rlock"))
           /\ [](Hung(r) /\ reader[c] = "register" => [](reader[c] = "register"))
           /\ [](Hung(r) /\ reader[c] = "unregister" => [](reader[c] = "unregister"))
           /\ [](Hung(r) /\ ui[u] = "register" => [](ui[u] = "register"))
<1>1. TypeOK /\ HubInv /\ [Next]_vars /\ Hung(r) =>
        /\ Hung(r)' /\ UNCHANGED <<agents, uiClients>>
        /\ call[q] = "rlock" => (call[q] = "rlock")'
        /\ reader[c] = "register" => (reader[c] = "register")'
        /\ reader[c] = "unregister" => (reader[c] = "unregister")'
        /\ ui[u] = "register" => (ui[u] = "register")'
  BY HungStep
<1>2. TypeOK /\ HubInv /\ [Next]_vars => [Hung(r) => UNCHANGED <<agents, uiClients>>]_vars
  BY <1>1
<1>3. QED
  BY Invariance, <1>1, <1>2, PTL DEF Spec

-----------------------------------------------------------------------------
(* A command is on its way at most once.  The queues count with all they   *)
(* hold, so the capacity of a channel plays no part.                       *)

(* What travels is a command that SendToAgent has accepted, and it travels *)
(* to an agent of its name.                                                *)
Addressed ==
    \A c \in Conns, r \in Requests :
        \/ \E k \in 1 .. Len(queue[c]) : queue[c][k] = r
        \/ held[c] = r
        \/ wire[c] = r
        => NameOf[c] = Target[r] /\ call[r] = "sent"

(* No two places hold the same command.                                    *)
QueuedOnce ==
    \A c, d \in Conns : \A i \in 1 .. Len(queue[c]), j \in 1 .. Len(queue[d]) :
        queue[c][i] = queue[d][j] /\ queue[c][i] \in Requests => c = d /\ i = j

HeldOnce ==
    \A c, d \in Conns :
        held[c] \in Requests =>
            /\ held[d] = held[c] => d = c
            /\ wire[d] # held[c]
            /\ \A j \in 1 .. Len(queue[d]) : queue[d][j] # held[c]

WrittenOnce ==
    \A c, d \in Conns :
        wire[c] \in Requests =>
            /\ wire[d] = wire[c] => d = c
            /\ \A j \in 1 .. Len(queue[d]) : queue[d][j] # wire[c]

OneCopy == Addressed /\ QueuedOnce /\ HeldOnce /\ WrittenOnce

(* The ends of a sequence, by index.                                       *)
LEMMA TailIndex ==
  ASSUME NEW S, NEW s \in Seq(S), s # <<>>
  PROVE  /\ 1 \in 1 .. Len(s) /\ Head(s) = s[1]
         /\ Len(Tail(s)) = Len(s) - 1
         /\ \A k \in 1 .. Len(Tail(s)) :
              Tail(s)[k] = s[k + 1] /\ k + 1 \in 2 .. Len(s)
  OBVIOUS

LEMMA AppendIndex ==
  ASSUME NEW S, NEW s \in Seq(S), NEW x \in S
  PROVE  /\ Len(Append(s, x)) = Len(s) + 1
         /\ \A k \in 1 .. Len(Append(s, x)) :
              \/ k \in 1 .. Len(s) /\ Append(s, x)[k] = s[k]
              \/ k = Len(s) + 1 /\ Append(s, x)[k] = x
  OBVIOUS

(* A step that leaves the queues, hands and wires alone, and takes back no *)
(* acceptance.                                                             *)
LEMMA CopyAside ==
  ASSUME OneCopy, UNCHANGED <<queue, held, wire>>,
         \A r \in Requests : call[r] = "sent" => call'[r] = "sent"
  PROVE  OneCopy'
  BY DEF OneCopy, Addressed, QueuedOnce, HeldOnce, WrittenOnce

(* A channel gains a message that is a browser's, or a command that was    *)
(* nowhere before and is now accepted.                                     *)
LEMMA CopyPush ==
  ASSUME TypeOK, OneCopy, NEW c \in Conns, NEW m \in Msgs, Push(c, m),
         UNCHANGED <<held, wire>>,
         m \in Requests => /\ NameOf[c] = Target[m]
                           /\ call[m] = "send" /\ call'[m] = "sent",
         \A r \in Requests : call[r] = "sent" => call'[r] = "sent"
  PROVE  OneCopy'
<1> USE HubAssumption DEF HubAssumption, TypeOK
<1>1. queue' = [queue EXCEPT ![c] = Append(queue[c], m)]
  BY DEF Push
<1>2. \A d \in Conns : d # c => queue'[d] = queue[d]
  BY <1>1
<1>3. /\ Len(queue'[c]) = Len(queue[c]) + 1
      /\ \A k \in 1 .. Len(queue'[c]) :
           \/ k \in 1 .. Len(queue[c]) /\ queue'[c][k] = queue[c][k]
           \/ k = Len(queue[c]) + 1 /\ queue'[c][k] = m
  BY <1>1, AppendIndex
<1>4. m \in Requests =>
        \A d \in Conns : /\ held[d] # m /\ wire[d] # m
                         /\ \A k \in 1 .. Len(queue[d]) : queue[d][k] # m
  BY DEF OneCopy, Addressed
<1>5. ASSUME NEW d \in Conns, NEW k \in 1 .. Len(queue'[d])
      PROVE  \/ k \in 1 .. Len(queue[d]) /\ queue'[d][k] = queue[d][k]
             \/ d = c /\ k = Len(queue[c]) + 1 /\ queue'[d][k] = m
  BY <1>2, <1>3, <1>5
<1> HIDE HubAssumption DEF HubAssumption, TypeOK
<1>6. Addressed'
  BY <1>4, <1>5 DEF OneCopy, Addressed
<1>7. QueuedOnce'
  <2> SUFFICES ASSUME NEW d \in Conns, NEW e \in Conns,
                      NEW i \in 1 .. Len(queue'[d]),
                      NEW j \in 1 .. Len(queue'[e]),
                      queue'[d][i] = queue'[e][j], queue'[d][i] \in Requests
               PROVE  d = e /\ i = j
    BY DEF QueuedOnce
  <2>1. CASE queue'[d][i] = m
    <3>1. d = c /\ i = Len(queue[c]) + 1
      BY <1>4, <1>5, <2>1
    <3>2. e = c /\ j = Len(queue[c]) + 1
      <4>1. queue'[e][j] = m /\ m \in Requests
        BY <2>1
      <4>2. QED
        BY <1>4, <1>5, <4>1
    <3>3. QED
      BY <3>1, <3>2
  <2>2. CASE queue'[d][i] # m
    <3>1. i \in 1 .. Len(queue[d]) /\ queue'[d][i] = queue[d][i]
      BY <1>5, <2>2
    <3>2. j \in 1 .. Len(queue[e]) /\ queue'[e][j] = queue[e][j]
      BY <1>5, <2>2
    <3>3. queue[d][i] = queue[e][j] /\ queue[d][i] \in Requests
      BY <3>1, <3>2
    <3>4. QED
      BY <3>1, <3>2, <3>3 DEF OneCopy, QueuedOnce
  <2>3. QED
    BY <2>1, <2>2
<1>8. HeldOnce' /\ WrittenOnce'
  BY <1>4, <1>5 DEF OneCopy, HeldOnce, WrittenOnce
<1>9. QED
  BY <1>6, <1>7, <1>8 DEF OneCopy

(* The writer takes the head of its channel in hand.                       *)
LEMMA CopyTake ==
  ASSUME TypeOK, OneCopy, NEW c \in Conns, WriterTake(c)
  PROVE  OneCopy'
<1> USE HubAssumption DEF HubAssumption, TypeOK
<1>1. /\ queue[c] # <<>> /\ wire' = wire /\ call' = call
      /\ held' = [held EXCEPT ![c] = Head(queue[c])]
      /\ queue' = [queue EXCEPT ![c] = Tail(queue[c])]
  BY DEF WriterTake, callVars
<1>2. \A d \in Conns : d # c => queue'[d] = queue[d] /\ held'[d] = held[d]
  BY <1>1
<1>3. /\ 1 \in 1 .. Len(queue[c]) /\ held'[c] = queue[c][1]
      /\ \A k \in 1 .. Len(queue'[c]) :
           queue'[c][k] = queue[c][k + 1] /\ k + 1 \in 2 .. Len(queue[c])
  BY <1>1, TailIndex
<1>4. Addressed'
  BY <1>1, <1>2, <1>3 DEF OneCopy, Addressed
<1>5. QueuedOnce'
  <2> SUFFICES ASSUME NEW d \in Conns, NEW e \in Conns,
                      NEW i \in 1 .. Len(queue'[d]),
                      NEW j \in 1 .. Len(queue'[e]),
                      queue'[d][i] = queue'[e][j], queue'[d][i] \in Requests
               PROVE  d = e /\ i = j
    BY DEF QueuedOnce
  <2>1. PICK k \in 1 .. Len(queue[d]) :
          queue'[d][i] = queue[d][k] /\ k = (IF d = c THEN i + 1 ELSE i)
    BY <1>2, <1>3
  <2>2. PICK l \in 1 .. Len(queue[e]) :
          queue'[e][j] = queue[e][l] /\ l = (IF e = c THEN j + 1 ELSE j)
    BY <1>2, <1>3
  <2>3. queue[d][k] = queue[e][l] /\ queue[d][k] \in Requests
    BY <2>1, <2>2
  <2>4. d = e /\ k = l
    BY <2>3 DEF OneCopy, QueuedOnce
  <2>5. QED
    BY <2>1, <2>2, <2>4
<1>6. HeldOnce' /\ WrittenOnce'
  BY <1>1, <1>2, <1>3 DEF OneCopy, QueuedOnce, HeldOnce, WrittenOnce
<1>7. QED
  BY <1>4, <1>5, <1>6 DEF OneCopy

LEMMA CopyStep == TypeOK /\ HubInv /\ OneCopy /\ [Next]_vars => OneCopy'
<1> SUFFICES ASSUME TypeOK, HubInv, OneCopy, [Next]_vars PROVE OneCopy'
  OBVIOUS
<1> USE DEF connVars, callVars
<1>1. ASSUME NEW c \in Conns, AgentStep(c) PROVE OneCopy'
  <2>1. CASE Connect(c)
    <3>1. /\ queue' = [queue EXCEPT ![c] = <<>>]
          /\ held' = held /\ wire' = wire /\ call' = call
      BY <2>1 DEF Connect
    <3>2. QED
      BY <3>1 DEF OneCopy, Addressed, QueuedOnce, HeldOnce, WrittenOnce, TypeOK
  <2>2. CASE \/ ReaderReceive(c) \/ ReaderStore(c) \/ ReaderRelay(c)
             \/ ReadFails(c) \/ ReaderExit(c)
    BY <2>2, CopyAside
    DEF ReaderReceive, ReaderStore, ReaderRelay, ReadFails, ReaderExit
  <2>3. CASE WriterTake(c)
    BY <2>3, CopyTake
  <2>4. CASE WriterWrite(c)
    <3>1. /\ wire' = [wire EXCEPT ![c] = held[c]]
          /\ held' = [held EXCEPT ![c] = NoMsg]
          /\ queue' = queue /\ call' = call
      BY <2>4 DEF WriterWrite
    <3>2. QED
      BY <3>1, HubAssumption
      DEF HubAssumption, OneCopy, Addressed, QueuedOnce, HeldOnce, WrittenOnce,
          TypeOK
  <2>5. CASE WriterFails(c) \/ WriterClosed(c)
    <3>1. /\ held' = [held EXCEPT ![c] = NoMsg]
          /\ queue' = queue /\ wire' = wire /\ call' = call
      BY <2>5 DEF WriterFails, WriterClosed, WriterReturn
    <3>2. QED
      BY <3>1, HubAssumption
      DEF HubAssumption, OneCopy, Addressed, QueuedOnce, HeldOnce, WrittenOnce,
          TypeOK
  <2>6. QED
    BY <1>1, <2>1, <2>2, <2>3, <2>4, <2>5 DEF AgentStep
<1>2. ASSUME NEW r \in Requests, CallStep(r) PROVE OneCopy'
  <2>1. CASE CallStart(r) \/ CallLookup(r)
    <3>1. \A q \in Requests : call[q] = "sent" => call'[q] = "sent"
      BY <2>1 DEF CallStart, CallLookup, TypeOK
    <3>2. QED
      BY <2>1, <3>1, CopyAside DEF CallStart, CallLookup
  <2>2. CASE CallSend(r)
    <3>1. /\ call[r] = "send" /\ Push(dst[r], r)
          /\ call' = [call EXCEPT ![r] = "sent"]
          /\ held' = held /\ wire' = wire
      BY <2>2 DEF CallSend
    <3>2. dst[r] \in Conns /\ NameOf[dst[r]] = Target[r] /\ r \in Msgs
      <4>1. Target[r] \in Names /\ dst[r] # NoConn /\ agents[Target[r]] = dst[r]
        BY <3>1, HubAssumption DEF HubAssumption, HubInv, SendersLocked
      <4>2. dst[r] \in Conns /\ NameOf[dst[r]] = Target[r]
        BY <4>1 DEF HubInv, RegistryLive, TypeOK
      <4>3. QED
        BY <4>2 DEF Msgs
    <3>3. /\ call'[r] = "sent"
          /\ \A q \in Requests : call[q] = "sent" => call'[q] = "sent"
      BY <3>1 DEF TypeOK
    <3>4. QED
      BY <3>1, <3>2, <3>3, CopyPush
  <2>3. QED
    BY <1>2, <2>1, <2>2 DEF CallStep
<1>3. ASSUME NEW u \in UIs, BrowserStep(u) PROVE OneCopy'
  BY <1>3, CopyAside
  DEF BrowserStep, UIConnect, UIReceive, UIRelay, UIReadFails, Stall
<1>4. CASE Select
  <2>1. ASSUME NEW c \in Conns, TakeRegister(c) PROVE OneCopy'
    <3>1. /\ wire' = [wire EXCEPT ![c] = NoMsg]
          /\ queue' = queue /\ held' = held /\ call' = call
      BY <2>1 DEF TakeRegister
    <3>2. QED
      BY <3>1, HubAssumption
      DEF HubAssumption, OneCopy, Addressed, QueuedOnce, HeldOnce, WrittenOnce,
          TypeOK
  <2>2. ASSUME NEW c \in Conns, TakeUnregister(c) PROVE OneCopy'
    BY <2>2, CopyAside DEF TakeUnregister
  <2>3. ASSUME NEW u \in UIs, TakeRegisterUI(u) \/ TakeUnregisterUI(u)
        PROVE  OneCopy'
    BY <2>3, CopyAside DEF TakeRegisterUI, TakeUnregisterUI
  <2>4. CASE TakeAgentMsg \/ TakeUIMsg
    BY <2>4, CopyAside DEF TakeAgentMsg, TakeUIMsg
  <2>5. QED
    BY <1>4, <2>1, <2>2, <2>3, <2>4 DEF Select
<1>5. CASE Finish
  <2>1. CASE SendAll
    <3>1. harg \in Conns /\ hmsg \in Msgs /\ hmsg \notin Requests
      BY <2>1, HubAssumption
      DEF HubAssumption, SendAll, HubInv, SendersLocked, HubBusy, Msgs
    <3>2. QED
      BY <2>1, <3>1, CopyPush DEF SendAll
  <2>2. CASE \/ Register \/ Unregister \/ RegisterUI \/ UnregisterUI
             \/ RangeUI \/ WriteUI \/ RangeAgents
    BY <2>2, CopyAside
    DEF Register, Unregister, RegisterUI, UnregisterUI, RangeUI, WriteUI,
        RangeAgents
  <2>3. QED
    BY <1>5, <2>1, <2>2 DEF Finish
<1>6. CASE UNCHANGED vars
  BY <1>6, CopyAside DEF vars
<1>7. QED
  BY <1>1, <1>2, <1>3, <1>4, <1>5, <1>6 DEF Next

LEMMA CopyInit == Init => OneCopy
  BY HubAssumption
  DEF HubAssumption, Init, OneCopy, Addressed, QueuedOnce, HeldOnce, WrittenOnce

(* A set whose elements are all the same has at most one.                  *)
LEMMA AtMostOne ==
  ASSUME NEW S, \A x, y \in S : x = y
  PROVE  Cardinality(S) <= 1
<1>1. CASE S = {}
  BY <1>1, FS_EmptySet
<1>2. CASE S # {}
  <2>1. PICK x \in S : TRUE
    BY <1>2
  <2>2. S = {x}
    BY <2>1
  <2>3. Cardinality({x}) = 1
    BY FS_Singleton
  <2>4. QED
    BY <2>2, <2>3
<1>3. QED
  BY <1>1, <1>2

LEMMA CopyImplies == TypeOK /\ OneCopy => DeliveredOnce
<1> SUFFICES ASSUME TypeOK, OneCopy, NEW r \in Requests
             PROVE  /\ Cardinality(Copies(r)) <= 1
                    /\ \A p \in Copies(r) :
                         NameOf[p[1]] = Target[r] /\ call[r] = "sent"
  BY DEF DeliveredOnce
<1> USE HubAssumption DEF HubAssumption, TypeOK
<1>1. ASSUME NEW p \in Copies(r)
      PROVE  /\ p[1] \in Conns /\ p = <<p[1], p[2]>>
             /\ \/ /\ p[2] \in 1 .. Len(queue[p[1]]) /\ p[2] <= SendCap
                   /\ queue[p[1]][p[2]] = r
                \/ p[2] = 0 /\ held[p[1]] = r
                \/ p[2] = SendCap + 1 /\ wire[p[1]] = r
  BY <1>1 DEF Copies
<1>2. ASSUME NEW p \in Copies(r)
      PROVE  NameOf[p[1]] = Target[r] /\ call[r] = "sent"
  <2>1. \/ \E k \in 1 .. Len(queue[p[1]]) : queue[p[1]][k] = r
        \/ held[p[1]] = r
        \/ wire[p[1]] = r
    BY <1>1, <1>2
  <2>2. p[1] \in Conns
    BY <1>1, <1>2
  <2> HIDE HubAssumption DEF HubAssumption, TypeOK
  <2>3. QED
    BY <2>1, <2>2 DEF OneCopy, Addressed
<1>3. ASSUME NEW p \in Copies(r), NEW q \in Copies(r) PROVE p = q
  <2> DEFINE c == p[1]
             i == p[2]
             d == q[1]
             j == q[2]
             At(x, k) == \/ /\ k \in 1 .. Len(queue[x]) /\ k <= SendCap
                            /\ queue[x][k] = r
                         \/ k = 0 /\ held[x] = r
                         \/ k = SendCap + 1 /\ wire[x] = r
  <2>1. c \in Conns /\ d \in Conns /\ At(c, i) /\ At(d, j) /\ p = <<c, i>> /\ q = <<d, j>>
    BY <1>1, <1>3
  <2> HIDE DEF c, d, i, j
  <2>2. c = d /\ i = j
    BY <2>1 DEF OneCopy, QueuedOnce, HeldOnce, WrittenOnce
  <2>3. QED
    BY <2>1, <2>2
<1>4. QED
  BY <1>2, <1>3, AtMostOne

(* A command for which SendToAgent returned true is in one place only, on  *)
(* the way to an agent of the name it was meant for: neither a reconnect   *)
(* nor the loss of a connection gives it to a second one (main.go,         *)
(* websocket.go).                                                          *)
THEOREM CommandsOnce == Spec => []DeliveredOnce
<1>1. TypeOK /\ HubInv /\ OneCopy /\ [Next]_vars => OneCopy'
  BY CopyStep
<1>2. QED
  BY Invariance, CopyInit, CopyStep, CopyImplies, PTL DEF Spec

-----------------------------------------------------------------------------
(* Hub implements Relay.                                                   *)

LEMMA HeadTail ==
  ASSUME NEW S, NEW s \in Seq(S), s # <<>>
  PROVE  <<Head(s)>> \o Tail(s) = s
  OBVIOUS

LEMMA AppendConcat ==
  ASSUME NEW S, NEW x \in S, NEW s \in Seq(S), NEW y \in S
  PROVE  Append(<<x>> \o s, y) = <<x>> \o Append(s, y)
  OBVIOUS

LEMMA ConsFacts ==
  ASSUME NEW S, NEW s \in Seq(S), NEW x \in S
  PROVE  /\ <<x>> \o s # <<>>
         /\ Head(<<x>> \o s) = x
         /\ Tail(<<x>> \o s) = s
         /\ Len(<<x>> \o s) = Len(s) + 1
  OBVIOUS

(* A function changed at one point.                                        *)
LEMMA ChangedAt ==
  ASSUME NEW S, NEW c \in S, NEW v, NEW f, NEW g,
         f = [x \in S |-> f[x]], g = [x \in S |-> g[x]],
         g[c] = v, \A x \in S : x # c => g[x] = f[x]
  PROVE  g = [f EXCEPT ![c] = v]
  OBVIOUS

LEMMA PendingFunction ==
  /\ Pending = [x \in Conns |-> Pending[x]]
  /\ Pending' = [x \in Conns |-> Pending'[x]]
  BY DEF Pending

(* A step that leaves a writer's side of every connection alone.           *)
LEMMA RelayStutter ==
  ASSUME UNCHANGED <<queue, held, wire, writer>>
  PROVE  UNCHANGED Pipes!relayVars
  BY DEF Pipes!relayVars, Live, Pending

(* A send is accepted by the pipe, or lost with a pipe already dead.       *)
LEMMA RelayPush ==
  ASSUME TypeOK, NEW c \in Conns, NEW m \in Msgs, Push(c, m),
         UNCHANGED <<held, wire, writer>>
  PROVE  [Pipes!Next]_(Pipes!relayVars)
<1> USE HubAssumption DEF HubAssumption, TypeOK
<1>1. /\ queue' = [queue EXCEPT ![c] = Append(queue[c], m)]
      /\ Len(queue[c]) < SendCap
  BY DEF Push
<1>2. Live' = Live
  BY DEF Live
<1>3. CASE writer[c] = "idle"
  <2>1. Pending' = Pending
    BY <1>1, <1>3 DEF Pending
  <2>2. QED
    BY <1>2, <2>1 DEF Pipes!relayVars
<1>4. CASE writer[c] # "idle"
  <2>1. Live[c]
    BY <1>4 DEF Live
  <2>2. Len(Pending[c]) < SendCap + 1 /\ Append(Pending[c], m) = Pending'[c]
    <3>1. CASE writer[c] = "select"
      BY <1>1, <3>1 DEF Pending
    <3>2. CASE writer[c] = "write"
      <4>1. /\ Pending[c] = <<held[c]>> \o queue[c]
            /\ Pending'[c] = <<held[c]>> \o Append(queue[c], m)
        BY <1>1, <3>2 DEF Pending
      <4> DEFINE M == Msgs \cup {NoMsg}
      <4>2. queue[c] \in Seq(M) /\ held[c] \in M /\ m \in M
        OBVIOUS
      <4> HIDE DEF M
      <4>3. Len(Pending[c]) = Len(queue[c]) + 1
        BY <4>1, <4>2, ConsFacts
      <4>4. Append(Pending[c], m) = Pending'[c]
        <5> DEFINE s == queue[c]
                   x == held[c]
        <5>1. s \in Seq(M) /\ x \in M /\ m \in M
          BY <4>2
        <5> HIDE HubAssumption DEF HubAssumption, TypeOK, s, x
        <5>2. Append(<<x>> \o s, m) = <<x>> \o Append(s, m)
          BY <5>1, AppendConcat
        <5>3. QED
          BY <4>1, <5>2 DEF s, x
      <4>5. Len(queue[c]) \in Nat
        OBVIOUS
      <4>6. QED
        BY <1>1, <4>3, <4>4, <4>5
    <3>3. QED
      BY <1>4, <3>1, <3>2
  <2>3. Pending' = [Pending EXCEPT ![c] = Append(Pending[c], m)]
    <3>1. \A d \in Conns : d # c => Pending'[d] = Pending[d]
      BY <1>1 DEF Pending
    <3> HIDE HubAssumption DEF HubAssumption, TypeOK
    <3>2. QED
      BY <2>2, <3>1, PendingFunction, ChangedAt
  <2>4. Pipes!Accept(c, m)
    BY <1>2, <2>1, <2>2, <2>3 DEF Pipes!Accept
  <2>5. QED
    BY <2>4 DEF Pipes!Next
<1>5. QED
  BY <1>3, <1>4

(* The writer takes a message in hand: the pipe still holds it.            *)
LEMMA RelayTake ==
  ASSUME TypeOK, NEW c \in Conns, WriterTake(c)
  PROVE  UNCHANGED Pipes!relayVars
<1> USE DEF TypeOK
<1>1. /\ writer[c] = "select" /\ queue[c] # <<>>
      /\ held' = [held EXCEPT ![c] = Head(queue[c])]
      /\ queue' = [queue EXCEPT ![c] = Tail(queue[c])]
      /\ writer' = [writer EXCEPT ![c] = "write"]
      /\ wire' = wire
  BY DEF WriterTake
<1>2. Live' = Live
  BY <1>1 DEF Live
<1>3. Pending' = Pending
  <2>1. <<Head(queue[c])>> \o Tail(queue[c]) = queue[c]
    BY <1>1, HeadTail
  <2>2. Pending'[c] = Pending[c]
    BY <1>1, <2>1 DEF Pending
  <2>3. \A d \in Conns : d # c => Pending'[d] = Pending[d]
    BY <1>1 DEF Pending
  <2>4. QED
    BY <2>2, <2>3 DEF Pending
<1>4. QED
  BY <1>1, <1>2, <1>3 DEF Pipes!relayVars

LEMMA RelayWrite ==
  ASSUME TypeOK, NEW c \in Conns, WriterWrite(c)
  PROVE  Pipes!Deliver(c)
<1> USE DEF TypeOK
<1>1. /\ writer[c] = "write"
      /\ wire' = [wire EXCEPT ![c] = held[c]]
      /\ writer' = [writer EXCEPT ![c] = "select"]
      /\ queue' = queue
      /\ held' = [held EXCEPT ![c] = NoMsg]
  BY DEF WriterWrite
<1>2. Live[c] /\ Live' = Live
  BY <1>1 DEF Live
<1>3. Pending[c] = <<held[c]>> \o queue[c] /\ Pending'[c] = queue[c]
  BY <1>1 DEF Pending
<1>4. /\ Pending[c] # <<>> /\ Head(Pending[c]) = held[c]
      /\ Tail(Pending[c]) = queue[c]
  <2> DEFINE M == Msgs \cup {NoMsg}
  <2>1. queue[c] \in Seq(M) /\ held[c] \in M
    OBVIOUS
  <2> HIDE DEF M
  <2>2. QED
    BY <1>3, <2>1, ConsFacts
<1>5. Pending' = [Pending EXCEPT ![c] = Tail(Pending[c])]
  <2>1. \A d \in Conns : d # c => Pending'[d] = Pending[d]
    BY <1>1 DEF Pending
  <2> HIDE DEF TypeOK
  <2>2. QED
    BY <1>3, <1>4, <2>1, PendingFunction, ChangedAt
<1>6. QED
  BY <1>1, <1>2, <1>4, <1>5 DEF Pipes!Deliver

LEMMA RelayReturn ==
  ASSUME TypeOK, NEW c \in Conns, writer[c] # "idle", WriterReturn(c)
  PROVE  Pipes!Lose(c)
<1> USE DEF TypeOK
<1>1. /\ writer' = [writer EXCEPT ![c] = "idle"]
      /\ held' = [held EXCEPT ![c] = NoMsg]
      /\ queue' = queue /\ wire' = wire
  BY DEF WriterReturn
<1>2. Live[c] /\ Live' = [Live EXCEPT ![c] = FALSE]
  BY <1>1 DEF Live
<1>3. Pending' = [Pending EXCEPT ![c] = <<>>]
  BY <1>1 DEF Pending
<1>4. QED
  BY <1>1, <1>2, <1>3 DEF Pipes!Lose

(* A registered connection gets a writer: its pipe opens, empty.           *)
LEMMA RelayOpen ==
  ASSUME TypeOK, ChannelOpen, NEW c \in Conns, TakeRegister(c)
  PROVE  Pipes!Open(c)
<1> USE DEF TypeOK
<1>1. /\ writer[c] = "idle" /\ queue[c] = <<>>
      /\ writer' = [writer EXCEPT ![c] = "select"]
      /\ wire' = [wire EXCEPT ![c] = NoMsg]
      /\ queue' = queue /\ held' = held
  BY DEF TakeRegister, ChannelOpen
<1>2. ~Live[c] /\ Live' = [Live EXCEPT ![c] = TRUE]
  BY <1>1 DEF Live
<1>3. Pending' = Pending
  BY <1>1 DEF Pending
<1>4. QED
  BY <1>1, <1>2, <1>3 DEF Pipes!Open

(* A new channel for a connection that has no writer is not yet a pipe.    *)
LEMMA RelayConnect ==
  ASSUME TypeOK, NEW c \in Conns, Connect(c)
  PROVE  UNCHANGED Pipes!relayVars
<1> USE DEF TypeOK
<1>1. /\ writer[c] = "idle" /\ writer' = writer
      /\ queue' = [queue EXCEPT ![c] = <<>>]
      /\ held' = held /\ wire' = wire
  BY DEF Connect
<1>2. Live' = Live /\ Pending' = Pending
  BY <1>1 DEF Live, Pending
<1>3. QED
  BY <1>1, <1>2 DEF Pipes!relayVars

LEMMA RelayStep == TypeOK /\ HubInv /\ [Next]_vars => [Pipes!Next]_(Pipes!relayVars)
<1> SUFFICES ASSUME TypeOK, HubInv, [Next]_vars
             PROVE  [Pipes!Next]_(Pipes!relayVars)
  OBVIOUS
<1> USE DEF connVars
<1>1. ASSUME NEW c \in Conns, AgentStep(c) PROVE [Pipes!Next]_(Pipes!relayVars)
  <2>1. CASE Connect(c)
    BY <2>1, RelayConnect
  <2>2. CASE \/ ReaderReceive(c) \/ ReaderStore(c) \/ ReaderRelay(c)
             \/ ReadFails(c) \/ ReaderExit(c)
    BY <2>2, RelayStutter
    DEF ReaderReceive, ReaderStore, ReaderRelay, ReadFails, ReaderExit
  <2>3. CASE WriterTake(c)
    BY <2>3, RelayTake
  <2>4. CASE WriterWrite(c)
    BY <2>4, RelayWrite DEF Pipes!Next
  <2>5. CASE WriterFails(c) \/ WriterClosed(c)
    BY <2>5, RelayReturn DEF WriterFails, WriterClosed, Pipes!Next
  <2>6. QED
    BY <1>1, <2>1, <2>2, <2>3, <2>4, <2>5 DEF AgentStep
<1>2. ASSUME NEW r \in Requests, CallStep(r)
      PROVE [Pipes!Next]_(Pipes!relayVars)
  <2>1. CASE CallStart(r) \/ CallLookup(r)
    BY <2>1, RelayStutter DEF CallStart, CallLookup
  <2>2. CASE CallSend(r)
    <3>1. dst[r] \in Conns /\ r \in Msgs
      BY <2>2 DEF CallSend, HubInv, SendersLocked, TypeOK, Msgs
    <3>2. QED
      BY <2>2, <3>1, RelayPush DEF CallSend
  <2>3. QED
    BY <1>2, <2>1, <2>2 DEF CallStep
<1>3. ASSUME NEW u \in UIs, BrowserStep(u) PROVE [Pipes!Next]_(Pipes!relayVars)
  BY <1>3, RelayStutter
  DEF BrowserStep, UIConnect, UIReceive, UIRelay, UIReadFails, Stall
<1>4. CASE Select
  <2>1. ASSUME NEW c \in Conns, TakeRegister(c)
        PROVE  [Pipes!Next]_(Pipes!relayVars)
    BY <2>1, RelayOpen DEF HubInv, Pipes!Next
  <2>2. ASSUME NEW c \in Conns, TakeUnregister(c)
        PROVE  [Pipes!Next]_(Pipes!relayVars)
    BY <2>2, RelayStutter DEF TakeUnregister
  <2>3. ASSUME NEW u \in UIs, TakeRegisterUI(u) \/ TakeUnregisterUI(u)
        PROVE  [Pipes!Next]_(Pipes!relayVars)
    BY <2>3, RelayStutter DEF TakeRegisterUI, TakeUnregisterUI
  <2>4. CASE TakeAgentMsg \/ TakeUIMsg
    BY <2>4, RelayStutter DEF TakeAgentMsg, TakeUIMsg
  <2>5. QED
    BY <1>4, <2>1, <2>2, <2>3, <2>4 DEF Select
<1>5. CASE Finish
  <2>1. CASE SendAll
    <3>1. harg \in Conns /\ hmsg \in Msgs
      BY <2>1 DEF SendAll, HubInv, SendersLocked, HubBusy, Msgs
    <3>2. QED
      BY <2>1, <3>1, RelayPush DEF SendAll
  <2>2. CASE \/ Register \/ Unregister \/ RegisterUI \/ UnregisterUI
             \/ RangeUI \/ WriteUI \/ RangeAgents
    BY <2>2, RelayStutter
    DEF Register, Unregister, RegisterUI, UnregisterUI, RangeUI, WriteUI,
        RangeAgents
  <2>3. QED
    BY <1>5, <2>1, <2>2 DEF Finish
<1>6. CASE UNCHANGED vars
  BY <1>6, RelayStutter DEF vars
<1>7. QED
  BY <1>1, <1>2, <1>3, <1>4, <1>5, <1>6 DEF Next

LEMMA RelayInit == Init => Pipes!Init
<1> SUFFICES ASSUME Init PROVE Pipes!Init
  OBVIOUS
<1>1. Live = [c \in Conns |-> FALSE]
  BY DEF Init, Live
<1>2. Pending = [c \in Conns |-> <<>>]
  BY DEF Init, Pending
<1>3. wire = [c \in Conns |-> NoMsg]
  BY DEF Init
<1>4. QED
  BY <1>1, <1>2, <1>3 DEF Pipes!Init

(* The hub keeps what Relay promises, whatever the number of agents,       *)
(* browsers and requests and the size of the channels.                     *)
THEOREM HubImplementsRelay == Spec => ImplementsRelay
<1>1. Spec => Pipes!Init /\ [][Pipes!Next]_(Pipes!relayVars)
  BY Invariance, RelayStep, RelayInit, PTL DEF Spec
<1>2. QED
  BY <1>1 DEF ImplementsRelay, Pipes!Spec
=============================================================================
