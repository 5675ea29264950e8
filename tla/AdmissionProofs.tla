-------------------------- MODULE AdmissionProofs --------------------------
(***************************************************************************)
(* Proofs about Admission, for any number of connections and approvals     *)
(* and any bounds.  AdmissionInv says who has a connection in hand: its    *)
(* waiter while it is pending, one approval once it was taken out of the   *)
(* map, an agentReader while the registry names it.                        *)
(***************************************************************************)
EXTENDS Admission, TLAPS

(* The registry names a connection that an agentReader serves.             *)
HubIsServed == hub # NoConn => serve[hub] = "read"

(* ApprovalOwns needs the other two: what an approval takes out of the     *)
(* pending map is in nobody's hand, and what has a reader is in nobody's.  *)
AdmissionInv == PendingIsWatched /\ ApprovalOwns /\ HubIsServed

-----------------------------------------------------------------------------
LEMMA TypeInit == Init => TypeOK
<1> SUFFICES ASSUME Init PROVE TypeOK
  OBVIOUS
<1>1. \A p \in Approvals :
         ap[p] \in {"write", "online", "enter"} <=> held[p] # NoConn
  BY DEF Init
<1>2. losses \in 0 .. MaxLosses /\ deletes \in 0 .. MaxDeletes /\ restarts \in 0 .. MaxRestarts
  BY AdmissionAssumption DEF AdmissionAssumption, Init
<1> QED
  BY <1>1, <1>2 DEF Init, TypeOK, Tokens

LEMMA TypeStep == TypeOK /\ [Next]_vars => TypeOK'
<1> SUFFICES ASSUME TypeOK, [Next]_vars PROVE TypeOK'
  OBVIOUS
<1> USE AdmissionAssumption DEF AdmissionAssumption, TypeOK, Tokens, rowVars, masterVars, connVars,
          apVars, agentVars, counts
<1>1. ASSUME NEW c \in Conns, Dial(c) PROVE TypeOK'
  BY <1>1 DEF Dial
<1>2. CASE HangUp BY <1>2 DEF HangUp
<1>3. CASE Speak BY <1>3 DEF Speak
<1>4. CASE SaveToken BY <1>4 DEF SaveToken
<1>5. CASE Crash BY <1>5 DEF Crash, Restart
<1>6. CASE AdminRestart BY <1>6 DEF AdminRestart, Restart
<1>7. CASE Delete BY <1>7 DEF Delete
<1>8. ASSUME NEW c \in Conns, Select(c) PROVE TypeOK'
  BY <1>8 DEF Select
<1>9. ASSUME NEW c \in Conns, Insert(c) PROVE TypeOK'
  BY <1>9 DEF Insert
<1>10. ASSUME NEW c \in Conns, AddPending(c) PROVE TypeOK'
  BY <1>10 DEF AddPending
<1>11. ASSUME NEW c \in Conns, Admit(c) PROVE TypeOK'
  BY <1>11 DEF Admit, SetOnline, SetStatus
<1>12. ASSUME NEW c \in Conns, Enter(c) PROVE TypeOK'
  BY <1>12 DEF Enter
<1>13. ASSUME NEW c \in Conns, ReaderFails(c) PROVE TypeOK'
  BY <1>13 DEF ReaderFails
<1>14. ASSUME NEW c \in Conns, SetOffline(c) PROVE TypeOK'
  BY <1>14 DEF SetOffline, SetStatus
<1>15. ASSUME NEW c \in Conns, ReadStep(c) PROVE TypeOK'
  <2>1. CASE WaiterReads(c) BY <2>1 DEF WaiterReads
  <2>2. CASE ReaderReads(c) BY <2>2 DEF ReaderReads
  <2>3. CASE ReadsCollide(c) BY <2>3 DEF ReadsCollide
  <2>4. QED BY <1>15, <2>1, <2>2, <2>3 DEF ReadStep
<1>16. ASSUME NEW c \in Conns, WaiterEnds(c) PROVE TypeOK'
  BY <1>16 DEF WaiterEnds
<1>17. ASSUME NEW c \in Conns, Lose(c) PROVE TypeOK'
  BY <1>17 DEF Lose
<1>18. ASSUME NEW p \in Approvals, Approve(p) PROVE TypeOK'
  BY <1>18 DEF Approve
<1>19. ASSUME NEW p \in Approvals, UpdateToken(p) PROVE TypeOK'
  BY <1>19 DEF UpdateToken
<1>20. ASSUME NEW p \in Approvals, TakePending(p) PROVE TypeOK'
  BY <1>20 DEF TakePending
<1>21. ASSUME NEW p \in Approvals, WriteApproved(p) PROVE TypeOK'
  BY <1>21 DEF WriteApproved
<1>22. ASSUME NEW p \in Approvals, ApprovedOnline(p) PROVE TypeOK'
  BY <1>22 DEF ApprovedOnline, SetOnline, SetStatus
<1>23. ASSUME NEW p \in Approvals, ApprovedEnters(p) PROVE TypeOK'
  BY <1>23 DEF ApprovedEnters
<1>24. ASSUME NEW p \in Approvals, PasteToken(p) PROVE TypeOK'
  BY <1>24 DEF PasteToken
<1>25. CASE UNCHANGED vars
  BY <1>25 DEF vars
<1> QED
  BY <1>1, <1>2, <1>3, <1>4, <1>5, <1>6, <1>7, <1>8, <1>9, <1>10, <1>11, <1>12,
     <1>13, <1>14, <1>15, <1>16, <1>17, <1>18, <1>19, <1>20, <1>21, <1>22, <1>23,
     <1>24, <1>25
  DEF Next, AgentStep, ServeStep, ApproveStep

(* Every variable keeps its range, and an approval that goes on has a      *)
(* connection (main.go ApprovePendingAgent).                               *)
THEOREM TypeCorrect == Spec => []TypeOK
BY TypeInit, TypeStep, PTL DEF Spec

-----------------------------------------------------------------------------
(* A step that changes neither who has a connection in hand nor where its  *)
(* goroutine is keeps the invariant.                                       *)
LEMMA AdmissionAside ==
    ASSUME AdmissionInv, UNCHANGED <<pending, hub, serve, waiter, held>>
    PROVE  AdmissionInv'
BY DEF AdmissionInv, PendingIsWatched, ApprovalOwns, HubIsServed

LEMMA AdmissionStep == TypeOK /\ AdmissionInv /\ [Next]_vars => AdmissionInv'
<1> SUFFICES ASSUME TypeOK, AdmissionInv, [Next]_vars PROVE AdmissionInv'
  OBVIOUS
<1> USE AdmissionAssumption DEF AdmissionAssumption, TypeOK, AdmissionInv,
          PendingIsWatched, ApprovalOwns, HubIsServed
<1>1. ASSUME NEW c \in Conns, Dial(c) PROVE AdmissionInv'
  BY <1>1 DEF Dial, Free, masterVars, apVars
<1>2. ASSUME NEW c \in Conns, ServeStep(c) PROVE AdmissionInv'
  <2>1. CASE Select(c) BY <2>1 DEF Select, masterVars, apVars
  <2>2. CASE Insert(c) BY <2>2 DEF Insert, masterVars, apVars
  <2>3. CASE AddPending(c) BY <2>3 DEF AddPending, apVars
  <2>4. CASE Admit(c) BY <2>4 DEF Admit, masterVars, apVars
  <2>5. CASE Enter(c) BY <2>5 DEF Enter, apVars
  <2>6. CASE ReaderFails(c) BY <2>6 DEF ReaderFails, apVars
  <2>7. CASE SetOffline(c) BY <2>7 DEF SetOffline, SetStatus, masterVars, apVars
  <2> QED BY <1>2, <2>1, <2>2, <2>3, <2>4, <2>5, <2>6, <2>7 DEF ServeStep
<1>3. ASSUME NEW c \in Conns, WaiterEnds(c) PROVE AdmissionInv'
  BY <1>3 DEF WaiterEnds, apVars
<1>4. ASSUME NEW p \in Approvals, TakePending(p) PROVE AdmissionInv'
  BY <1>4 DEF TakePending, connVars
<1>5. ASSUME NEW p \in Approvals, ApprovedEnters(p) PROVE AdmissionInv'
  BY <1>5 DEF ApprovedEnters
<1>6. ASSUME \/ HangUp \/ Speak \/ SaveToken \/ Crash \/ AdminRestart \/ Delete
             \/ \E c \in Conns : ReadStep(c) \/ Lose(c)
             \/ \E p \in Approvals : \/ Approve(p) \/ UpdateToken(p)
                                     \/ WriteApproved(p) \/ ApprovedOnline(p)
                                     \/ PasteToken(p)
             \/ UNCHANGED vars
      PROVE  AdmissionInv'
  <2>1. UNCHANGED <<pending, hub, serve, waiter, held>>
    BY <1>6 DEF HangUp, Speak, SaveToken, Crash, AdminRestart, Restart, Delete,
          ReadStep, WaiterReads, ReaderReads, ReadsCollide, Lose, Approve,
          UpdateToken, WriteApproved, ApprovedOnline, PasteToken, vars,
          rowVars, masterVars, connVars, apVars, agentVars
  <2> QED BY <2>1, AdmissionAside
<1> QED
  BY <1>1, <1>2, <1>3, <1>4, <1>5, <1>6 DEF Next, AgentStep, ApproveStep

LEMMA AdmissionAlways == Spec => []AdmissionInv
<1>1. Init => AdmissionInv
  BY DEF Init, AdmissionInv, PendingIsWatched, ApprovalOwns, HubIsServed
<1> QED BY <1>1, AdmissionStep, TypeCorrect, PTL DEF Spec

(* The pending map never holds a connection that was given up or that an   *)
(* approval has taken: RemovePending goes by name, ApprovePendingAgent     *)
(* takes out what it finds (main.go 181-199, websocket.go 105-120).        *)
THEOREM PendingSound == Spec => []PendingIsWatched
BY AdmissionAlways, PTL DEF AdmissionInv

(* Two approvals, or an approval and a registration, never start two       *)
(* readers on one connection or enter it twice (main.go 181-199).          *)
THEOREM ApprovalExclusive == Spec => []ApprovalOwns
BY AdmissionAlways, PTL DEF AdmissionInv

-----------------------------------------------------------------------------
(* A registration leaves the status of a row that is there (db.go 207), so *)
(* whatever races it, only an absent row becomes a pending one.            *)
THEOREM ApprovalIsKept == Spec => ApprovalStays
<1>1. ASSUME [Next]_vars, row \in {"approved", "online", "offline"}
      PROVE  row' # "pending"
  <2>1. CASE \E c \in Conns : Insert(c) BY <1>1, <2>1 DEF Insert
  <2>2. CASE Delete BY <1>1, <2>2 DEF Delete
  <2>3. CASE \E c \in Conns : Admit(c) \/ SetOffline(c)
    BY <1>1, <2>3 DEF Admit, SetOnline, SetOffline, SetStatus
  <2>4. CASE \E p \in Approvals : UpdateToken(p) \/ ApprovedOnline(p)
    BY <1>1, <2>4 DEF UpdateToken, ApprovedOnline, SetOnline, SetStatus
  <2>5. CASE \/ \E c \in Conns : Dial(c)
             \/ HangUp \/ Speak \/ SaveToken \/ Crash \/ AdminRestart
             \/ \E c \in Conns : \/ Select(c) \/ AddPending(c) \/ Enter(c)
                                 \/ ReaderFails(c) \/ ReadStep(c)
                                 \/ WaiterEnds(c) \/ Lose(c)
             \/ \E p \in Approvals : \/ Approve(p) \/ TakePending(p)
                                     \/ WriteApproved(p) \/ ApprovedEnters(p)
                                     \/ PasteToken(p)
             \/ UNCHANGED vars
    <3>1. row' = row
      BY <2>5 DEF Dial, HangUp, Speak, SaveToken, Crash, AdminRestart, Restart,
            Select, AddPending, Enter, ReaderFails, ReadStep, WaiterReads,
            ReaderReads, ReadsCollide, WaiterEnds, Lose, Approve, TakePending,
            WriteApproved, ApprovedEnters, PasteToken, vars, rowVars
    <3> QED BY <1>1, <3>1
  <2> QED
    BY <1>1, <2>1, <2>2, <2>3, <2>4, <2>5
    DEF Next, AgentStep, ServeStep, ApproveStep
<1> QED BY <1>1, PTL DEF Spec, ApprovalStays

-----------------------------------------------------------------------------
(* While the row is not approved, nobody is past the check of it: no       *)
(* goroutine is about to write "online" or "offline", and no approval has  *)
(* got further than its UPDATE.                                            *)
NobodyAdmitted ==
    /\ row \in {"absent", "pending"} =>
        /\ \A c \in Conns : serve[c] \notin {"admit", "enter", "read", "offline"}
        /\ \A p \in Approvals : ap[p] \in {"new", "update"}
    /\ row = "absent" => \A p \in Approvals : ap[p] = "new"

LEMMA NobodyStep ==
    ASSUME MaxDeletes = 0, TypeOK, NobodyAdmitted, [Next]_vars
    PROVE  /\ NobodyAdmitted'
           /\ row = "pending" /\ row' # "pending" =>
                \E p \in Approvals : ap[p] = "update" /\ ap'[p] = "take"
<1> DEFINE Goal == /\ NobodyAdmitted'
                   /\ row = "pending" /\ row' # "pending" =>
                        \E p \in Approvals : ap[p] = "update" /\ ap'[p] = "take"
<1> USE DEF TypeOK, NobodyAdmitted
<1>1. ASSUME NEW c \in Conns, Dial(c) PROVE Goal
  BY <1>1 DEF Dial, rowVars, apVars
<1>2. ASSUME NEW c \in Conns, ServeStep(c) PROVE Goal
  <2>1. CASE Select(c) BY <2>1 DEF Select, rowVars, apVars
  <2>2. CASE Insert(c) BY <2>2 DEF Insert, apVars
  <2>3. CASE AddPending(c) BY <2>3 DEF AddPending, rowVars, apVars
  <2>4. CASE Admit(c) BY <2>4 DEF Admit, SetOnline, SetStatus, apVars
  <2>5. CASE Enter(c) BY <2>5 DEF Enter, rowVars, apVars
  <2>6. CASE ReaderFails(c) BY <2>6 DEF ReaderFails, rowVars, apVars
  <2>7. CASE SetOffline(c) BY <2>7 DEF SetOffline, SetStatus, apVars
  <2> QED BY <1>2, <2>1, <2>2, <2>3, <2>4, <2>5, <2>6, <2>7 DEF ServeStep
<1>3. ASSUME NEW p \in Approvals, Approve(p) PROVE Goal
  BY <1>3 DEF Approve, rowVars, connVars
<1>4. ASSUME NEW p \in Approvals, ApproveStep(p) PROVE Goal
  <2>1. CASE UpdateToken(p) BY <2>1 DEF UpdateToken, connVars
  <2>2. CASE TakePending(p) BY <2>2 DEF TakePending, rowVars, connVars
  <2>3. CASE WriteApproved(p) BY <2>3 DEF WriteApproved, rowVars
  <2>4. CASE ApprovedOnline(p) BY <2>4 DEF ApprovedOnline, SetOnline, SetStatus, connVars
  <2>5. CASE ApprovedEnters(p) BY <2>5 DEF ApprovedEnters, rowVars
  <2> QED BY <1>4, <2>1, <2>2, <2>3, <2>4, <2>5 DEF ApproveStep
<1>5. ~Delete
  BY DEF Delete
<1>6. ASSUME \/ HangUp \/ Speak \/ SaveToken \/ Crash \/ AdminRestart
             \/ \E c \in Conns : ReadStep(c) \/ WaiterEnds(c) \/ Lose(c)
             \/ \E p \in Approvals : PasteToken(p)
             \/ UNCHANGED vars
      PROVE  Goal
  <2>1. UNCHANGED <<row, serve, ap>>
    BY <1>6 DEF HangUp, Speak, SaveToken, Crash, AdminRestart, Restart,
          ReadStep, WaiterReads, ReaderReads, ReadsCollide, WaiterEnds, Lose,
          PasteToken, vars, rowVars, connVars, apVars
  <2> QED BY <2>1
<1> QED
  BY <1>1, <1>2, <1>3, <1>4, <1>5, <1>6 DEF Next, AgentStep

(* An agent that nobody deletes leaves "pending" only by an approval: no   *)
(* late "online" or "offline", both written by name, gets it past the      *)
(* admin (websocket.go 88, 128; api_agents.go).                            *)
THEOREM OnlyApproved ==
    ASSUME MaxDeletes = 0
    PROVE  Spec => PendingUntilApproved
<1>1. Init => NobodyAdmitted
  BY DEF Init, NobodyAdmitted
<1>2. TypeOK /\ NobodyAdmitted /\ [Next]_vars => NobodyAdmitted'
  BY NobodyStep
<1>3. TypeOK /\ NobodyAdmitted /\ [Next]_vars =>
        [row = "pending" /\ row' # "pending" =>
            row' = "absent" \/ \E p \in Approvals : ap[p] = "update"
                                                    /\ ap'[p] = "take"]_vars
  BY NobodyStep
<1> QED BY <1>1, <1>2, <1>3, TypeCorrect, PTL DEF Spec, PendingUntilApproved
=============================================================================
