----------------------------- MODULE RconProofs -----------------------------
(***************************************************************************)
(* Proofs about a console command, for any commands, any sizes a game      *)
(* server may send, any way the network cuts the stream and any bounds.    *)
(***************************************************************************)
EXTENDS Rcon, TLAPS

Unit == (1 .. 2) \X Nat
Result == [kind : {"none", "error", "response"}, body : Seq(Unit)]
Packet == [ok : BOOLEAN, size : Nat]
Entry == [kind : {"command", "failed", "reply"}, cmd : Cmds]

(* TypeOK in two parts, with what it leaves open: what a stream, a result  *)
(* and a packet are, and how far the reading of a packet has come.         *)
OutsideType ==
    /\ cmd \in [Cmds -> {"none", "select", "send", "insert", "over"}]
    /\ recorded \subseteq Cmds /\ unrecorded \subseteq Cmds
    /\ accepted \subseteq Cmds /\ ran \subseteq Cmds
    /\ faults \in 0 .. MaxFaults /\ hurried \in BOOLEAN
    /\ relay \in Seq(Cmds) /\ console \in Seq(Entry)

TaskType ==
    /\ task \in [Cmds -> {"none", "dial", "write", "size", "rest", "report",
                          "over"}]
    /\ turn \in [Cmds -> 0 .. 2] /\ due \in [Cmds -> 0 .. 2]
    /\ want \in [Cmds -> {0, 2} \cup MinSize .. MaxSize]
    /\ buf \in [Cmds -> Seq(Unit)] /\ wire \in [Cmds -> Seq(Unit)]
    /\ result \in [Cmds -> Result] /\ packet \in [Cmds -> Packet]

Stage(c) ==
    /\ task[c] = "size" => want[c] = 2
    /\ task[c] = "rest" => want[c] \in MinSize .. MaxSize
    /\ IF task[c] \in {"size", "rest"} THEN Len(buf[c]) < want[c]
       ELSE buf[c] = <<>>
    /\ Connected(c) => turn[c] \in 1 .. 2
    /\ task[c] = "report" => result[c].kind # "none"
    /\ task[c] # "report" => result[c].kind = "none"

(* The agent is given a command once, and the handler then records it.     *)
Begun(c) ==
    /\ cmd[c] \in {"none", "select", "send"} => task[c] = "none"
    /\ cmd[c] = "insert" => task[c] # "none"
    /\ task[c] # "none" => cmd[c] = "insert" \/ c \in recorded \cup unrecorded
    /\ c \in recorded \cup ran \/ due[c] # 0 => task[c] # "none"

TypeInv == OutsideType /\ TaskType /\ \A c \in Cmds : Stage(c) /\ Begun(c)

-----------------------------------------------------------------------------
(* The outcomes of one Read                                                *)

(* What readFull has after it.                                             *)
Filled(c, n) == buf[c] \o SubSeq(wire[c], 1, n)

(* What is left on the wire.                                               *)
Left(c, n) == SubSeq(wire[c], n + 1, Len(wire[c]))

LEMMA Cut ==
  ASSUME NEW S, NEW s \in Seq(S), NEW w \in Seq(S), NEW n \in Nat, n <= Len(w)
  PROVE  LET b == s \o SubSeq(w, 1, n)
             l == SubSeq(w, n + 1, Len(w)) IN
         /\ b \in Seq(S) /\ Len(b) = Len(s) + n
         /\ \A k \in 1 .. Len(s) : b[k] = s[k]
         /\ \A k \in 1 .. n : b[Len(s) + k] = w[k]
         /\ l \in Seq(S) /\ Len(l) = Len(w) - n
         /\ \A k \in 1 .. Len(l) : l[k] = w[n + k]
  OBVIOUS

(* readFull goes on.                                                       *)
ReadsMore(c, n) ==
    /\ Len(Filled(c, n)) < want[c]
    /\ buf' = [buf EXCEPT ![c] = Filled(c, n)]
    /\ wire' = [wire EXCEPT ![c] = Left(c, n)]
    /\ UNCHANGED <<task, turn, want, result>>

(* A legal size has been read: a buffer of that size comes next.           *)
ReadsSize(c, n) ==
    /\ task[c] = "size"
    /\ \E z \in SizeOf(c, Filled(c, n)) \cap (MinSize .. MaxSize) :
        want' = [want EXCEPT ![c] = z]
    /\ task' = [task EXCEPT ![c] = "rest"]
    /\ buf' = [buf EXCEPT ![c] = <<>>]
    /\ wire' = [wire EXCEPT ![c] = Left(c, n)]
    /\ UNCHANGED <<turn, result>>

(* The password was accepted: the command comes next.                      *)
ReadsAccept(c, n) ==
    /\ task[c] = "rest" /\ turn[c] = 1
    /\ TRUE \in AcceptedBy(c, Filled(c, n))
    /\ task' = [task EXCEPT ![c] = "write"] /\ turn' = [turn EXCEPT ![c] = 2]
    /\ want' = [want EXCEPT ![c] = 0] /\ buf' = [buf EXCEPT ![c] = <<>>]
    /\ wire' = [wire EXCEPT ![c] = Left(c, n)]
    /\ UNCHANGED result

(* The packet is refused, or is the answer to the command.                 *)
ReadsEnd(c, n) ==
    /\ \/ Return(c, Error)
       \/ /\ task[c] = "rest" /\ turn[c] = 2
          /\ Return(c, Response(Body(Filled(c, n))))
    /\ wire' = [wire EXCEPT ![c] = <<>>]

LEMMA ReadOutcomes ==
  ASSUME TypeInv, NEW c \in Cmds, NEW n \in 1 .. MaxSize, Read(c, n)
  PROVE  /\ n \in Nat \ {0} /\ n <= Len(wire[c])
         /\ n <= want[c] - Len(buf[c])
         /\ task[c] \in {"size", "rest"}
         /\ UNCHANGED <<handler, due, packet, accepted, ran, browser>>
         /\ \/ ReadsMore(c, n)
            \/ /\ Len(Filled(c, n)) = want[c]
               /\ ReadsSize(c, n) \/ ReadsAccept(c, n) \/ ReadsEnd(c, n)
<1> USE RconAssumption DEF RconAssumption, TypeInv, TaskType
<1> DEFINE b == Filled(c, n)
<1>1. /\ task[c] \in {"size", "rest"} /\ n \in Nat \ {0}
      /\ n \in 1 .. want[c] - Len(buf[c]) /\ n <= Len(wire[c])
      /\ UNCHANGED <<handler, due, packet, accepted, ran, browser>>
      /\ Taken(c, n)
  BY DEF Read
<1>2. Len(b) = Len(buf[c]) + n
  BY <1>1, Cut DEF Filled
<1>3. want[c] \in Nat /\ Len(buf[c]) \in Nat
  <2>1. want[c] \in {0, 2} \cup MinSize .. MaxSize
    OBVIOUS
  <2>2. want[c] \in Nat
    BY <2>1
  <2>3. QED
    BY <2>2
<1>4. n <= want[c] - Len(buf[c]) /\ Len(b) <= want[c] /\ Len(b) \in Nat
  BY <1>1, <1>2, <1>3
<1>5. CASE Len(b) < want[c]
  <2>1. /\ buf' = [buf EXCEPT ![c] = b]
        /\ UNCHANGED <<task, turn, want, result>>
    BY <1>5 DEF Read, Filled
  <2>2. wire' = [wire EXCEPT ![c] = Left(c, n)]
    BY <1>1, <2>1 DEF Taken, Left
  <2>3. QED
    BY <1>1, <1>4, <1>5, <2>1, <2>2 DEF ReadsMore
<1>6. CASE ~(Len(b) < want[c])
  <2>1. Got(c, b) /\ Len(b) = want[c]
    <3>1. Len(b) = want[c]
      BY <1>3, <1>4, <1>6
    <3>2. IF Len(b) < want[c]
          THEN buf' = [buf EXCEPT ![c] = b] /\ UNCHANGED <<task, turn, want, result>>
          ELSE Got(c, b)
      BY DEF Read, Filled
    <3>3. QED
      BY <1>6, <3>1, <3>2
  <2>2. CASE task[c] = "size"
    <3>1. PICK z \in SizeOf(c, b) :
            IF z \in MinSize .. MaxSize
            THEN /\ task' = [task EXCEPT ![c] = "rest"]
                 /\ want' = [want EXCEPT ![c] = z]
                 /\ buf' = [buf EXCEPT ![c] = <<>>]
                 /\ UNCHANGED <<turn, result>>
            ELSE Return(c, Error)
      BY <2>1, <2>2 DEF Got, GotSize
    <3>2. CASE z \in MinSize .. MaxSize
      <4>1. wire' = [wire EXCEPT ![c] = Left(c, n)]
        BY <1>1, <3>1, <3>2 DEF Taken, Left
      <4>2. ReadsSize(c, n)
        BY <2>2, <3>1, <3>2, <4>1 DEF ReadsSize
      <4>3. QED
        BY <1>1, <1>4, <2>1, <4>2
    <3>3. CASE z \notin MinSize .. MaxSize
      <4>0. Return(c, Error)
        BY <3>1, <3>3
      <4>1. wire' = [wire EXCEPT ![c] = <<>>]
        BY <1>1, <4>0 DEF Taken, Return
      <4>2. QED
        BY <1>1, <1>4, <2>1, <4>0, <4>1 DEF ReadsEnd
    <3>4. QED
      BY <3>2, <3>3
  <2>3. CASE task[c] = "rest" /\ turn[c] = 1
    <3>1. PICK ok \in AcceptedBy(c, b) :
            IF ok
            THEN /\ task' = [task EXCEPT ![c] = "write"]
                 /\ turn' = [turn EXCEPT ![c] = 2]
                 /\ want' = [want EXCEPT ![c] = 0]
                 /\ buf' = [buf EXCEPT ![c] = <<>>]
                 /\ UNCHANGED result
            ELSE Return(c, Error)
      BY <2>1, <2>3 DEF Got, GotRest
    <3>2. ok \in BOOLEAN
      BY DEF AcceptedBy, Packet
    <3>3. CASE ok = TRUE
      <4>1. wire' = [wire EXCEPT ![c] = Left(c, n)]
        BY <1>1, <3>1, <3>3 DEF Taken, Left
      <4>2. ReadsAccept(c, n)
        BY <2>3, <3>1, <3>3, <4>1 DEF ReadsAccept
      <4>3. QED
        BY <1>1, <1>4, <2>1, <4>2
    <3>4. CASE ok = FALSE
      <4>1. Return(c, Error) /\ wire' = [wire EXCEPT ![c] = <<>>]
        BY <1>1, <3>1, <3>4 DEF Taken, Return
      <4>2. QED
        BY <1>1, <1>4, <2>1, <4>1 DEF ReadsEnd
    <3>5. QED
      BY <3>2, <3>3, <3>4
  <2>4. CASE task[c] = "rest" /\ turn[c] # 1
    <3>1. turn[c] = 2
      BY <2>4 DEF Stage, Connected
    <3>2. Return(c, Response(Body(b)))
      BY <2>1, <2>4 DEF Got, GotRest
    <3>3. wire' = [wire EXCEPT ![c] = <<>>]
      BY <1>1, <3>2 DEF Taken, Return
    <3>4. QED
      BY <1>1, <1>4, <2>1, <2>4, <3>1, <3>2, <3>3 DEF ReadsEnd
  <2>5. QED
    BY <1>1, <2>2, <2>3, <2>4
<1>7. QED
  BY <1>5, <1>6

-----------------------------------------------------------------------------
(* Types                                                                   *)

LEMMA TypeInit == Init => TypeInv
<1> SUFFICES ASSUME Init PROVE TypeInv
  OBVIOUS
<1> USE RconAssumption DEF RconAssumption, Init
<1>0. faults \in 0 .. MaxFaults
  OBVIOUS
<1>1. OutsideType
  <2>1. cmd \in [Cmds -> {"none", "select", "send", "insert", "over"}]
    OBVIOUS
  <2>2. relay \in Seq(Cmds) /\ console \in Seq(Entry)
    OBVIOUS
  <2>3. QED
    BY <1>0, <2>1, <2>2 DEF OutsideType
<1>2. NoResult \in Result /\ Unsent \in Packet
  BY DEF NoResult, Result, Unsent, Packet
<1>3. TaskType
  BY <1>2 DEF TaskType
<1>4. \A c \in Cmds : Stage(c) /\ Begun(c)
  BY DEF Stage, Begun, Connected, NoResult
<1>5. QED
  BY <1>1, <1>3, <1>4 DEF TypeInv

LEMMA OutsideStep == TypeInv /\ [Next]_vars => OutsideType'
<1> SUFFICES ASSUME TypeInv, [Next]_vars PROVE OutsideType'
  OBVIOUS
<1> USE DEF TypeInv, OutsideType, handler, server, browser
<1>1. ASSUME NEW c \in Cmds, Type(c)
      PROVE  OutsideType'
  <2>1. [kind |-> "command", cmd |-> c] \in Entry
    BY DEF Entry
  <2>2. QED
    BY <1>1, <2>1 DEF Type, Shown
<1>2. ASSUME NEW c \in Cmds, RequestFails(c)
      PROVE  OutsideType'
  <2>1. [kind |-> "failed", cmd |-> c] \in Entry
    BY DEF Entry
  <2>2. faults' \in 0 .. MaxFaults
    BY <1>2, RconAssumption DEF RequestFails, RconAssumption
  <2>3. cmd' \in [Cmds -> {"none", "select", "send", "insert", "over"}]
    BY <1>2 DEF RequestFails
  <2>4. QED
    BY <1>2, <2>1, <2>2, <2>3 DEF RequestFails, Shown
<1>3. ASSUME NEW c \in Cmds, Select(c)
      PROVE  OutsideType'
  BY <1>3 DEF Select
<1>4. ASSUME NEW c \in Cmds, SendToAgent(c)
      PROVE  OutsideType'
  <2>1. cmd' \in [Cmds -> {"none", "select", "send", "insert", "over"}]
    BY <1>4 DEF SendToAgent
  <2>2. QED
    BY <1>4, <2>1 DEF SendToAgent
<1>5. ASSUME NEW c \in Cmds, Insert(c)
      PROVE  OutsideType'
  <2>1. faults' \in 0 .. MaxFaults
    BY <1>5, RconAssumption DEF Insert, RconAssumption
  <2>2. QED
    BY <1>5, <2>1 DEF Insert
<1>6. ASSUME NEW c \in Cmds, Dial(c)
      PROVE  OutsideType'
  BY <1>6 DEF Dial
<1>7. ASSUME NEW c \in Cmds, (task[c] = "dial" \/ Connected(c)), Fails(c)
      PROVE  OutsideType'
  BY <1>7 DEF Fails, Return, Connected
<1>8. ASSUME NEW c \in Cmds, Write(c)
      PROVE  OutsideType'
  BY <1>8 DEF Write
<1>9. ASSUME NEW c \in Cmds, NEW n \in 1 .. MaxSize, Read(c, n)
      PROVE  OutsideType'
  BY <1>9, ReadOutcomes
<1>10. ASSUME NEW c \in Cmds, Report(c)
      PROVE  OutsideType'
  BY <1>10 DEF Report, Forget
<1>11. ASSUME NEW c \in Cmds, Lost(c)
      PROVE  OutsideType'
  BY <1>11 DEF Lost, Forget
<1>12. ASSUME NEW c \in Cmds, Answer(c)
      PROVE  OutsideType'
  BY <1>12 DEF Answer
<1>13. CASE Show
  <2>1. Head(relay) \in Cmds /\ Tail(relay) \in Seq(Cmds)
    BY <1>13 DEF Show
  <2>2. [kind |-> "reply", cmd |-> Head(relay)] \in Entry
    BY <2>1 DEF Entry
  <2>3. QED
    BY <1>13, <2>1, <2>2 DEF Show, Shown
<1>14. CASE NotShown
  BY <1>14 DEF NotShown
<1>15. CASE UNCHANGED vars
  BY <1>15 DEF vars
<1>16. QED
  BY <1>1, <1>2, <1>3, <1>4, <1>5, <1>6, <1>7, <1>8,
     <1>9, <1>10, <1>11, <1>12, <1>13, <1>14, <1>15
  DEF Next, Handler, Goroutine, DialFails, Expires, Breaks

LEMMA BegunStep == TypeInv /\ [Next]_vars => \A d \in Cmds : Begun(d)'
<1> SUFFICES ASSUME TypeInv, [Next]_vars PROVE \A d \in Cmds : Begun(d)'
  OBVIOUS
<1> USE DEF TypeInv, OutsideType, TaskType, Begun, handler, goroutine, server,
            Connected
<1>1. ASSUME NEW c \in Cmds, Type(c)
      PROVE  \A d \in Cmds : Begun(d)'
  BY <1>1 DEF Type, Shown
<1>2. ASSUME NEW c \in Cmds, RequestFails(c)
      PROVE  \A d \in Cmds : Begun(d)'
  BY <1>2 DEF RequestFails, Shown
<1>3. ASSUME NEW c \in Cmds, Select(c)
      PROVE  \A d \in Cmds : Begun(d)'
  BY <1>3 DEF Select
<1>4. ASSUME NEW c \in Cmds, SendToAgent(c)
      PROVE  \A d \in Cmds : Begun(d)'
  BY <1>4 DEF SendToAgent
<1>5. ASSUME NEW c \in Cmds, Insert(c)
      PROVE  \A d \in Cmds : Begun(d)'
  <2>1. c \in recorded' \cup unrecorded' /\ recorded \subseteq recorded'
    BY <1>5 DEF Insert
  <2>2. unrecorded \subseteq unrecorded' /\ recorded' \subseteq recorded \cup {c}
    BY <1>5 DEF Insert
  <2>3. task[c] # "none" /\ cmd'[c] = "over"
    BY <1>5 DEF Insert
  <2>4. QED
    BY <1>5, <2>1, <2>2, <2>3 DEF Insert
<1>6. ASSUME NEW c \in Cmds, Dial(c)
      PROVE  \A d \in Cmds : Begun(d)'
  BY <1>6 DEF Dial
<1>7. ASSUME NEW c \in Cmds, (task[c] = "dial" \/ Connected(c)), Fails(c)
      PROVE  \A d \in Cmds : Begun(d)'
  BY <1>7 DEF Fails, Return, Connected
<1>8. ASSUME NEW c \in Cmds, Write(c)
      PROVE  \A d \in Cmds : Begun(d)'
  BY <1>8 DEF Write
<1>9. ASSUME NEW c \in Cmds, NEW n \in 1 .. MaxSize, Read(c, n)
      PROVE  \A d \in Cmds : Begun(d)'
  <2>1. /\ task[c] \in {"size", "rest"}
        /\ UNCHANGED <<handler, due, ran>>
        /\ \/ ReadsMore(c, n) \/ ReadsSize(c, n) \/ ReadsAccept(c, n)
           \/ ReadsEnd(c, n)
    BY <1>9, ReadOutcomes
  <2>2. /\ task'[c] # "none" /\ \A d \in Cmds : d # c => task'[d] = task[d]
    BY <2>1 DEF ReadsMore, ReadsSize, ReadsAccept, ReadsEnd, Return
  <2>3. QED
    BY <2>1, <2>2
<1>10. ASSUME NEW c \in Cmds, Report(c)
      PROVE  \A d \in Cmds : Begun(d)'
  BY <1>10 DEF Report, Forget
<1>11. ASSUME NEW c \in Cmds, Lost(c)
      PROVE  \A d \in Cmds : Begun(d)'
  BY <1>11 DEF Lost, Forget
<1>12. ASSUME NEW c \in Cmds, Answer(c)
      PROVE  \A d \in Cmds : Begun(d)'
  BY <1>12 DEF Answer
<1>13. CASE Show
  BY <1>13 DEF Show, Shown
<1>14. CASE NotShown
  BY <1>14 DEF NotShown
<1>15. CASE UNCHANGED vars
  BY <1>15 DEF vars
<1>16. QED
  BY <1>1, <1>2, <1>3, <1>4, <1>5, <1>6, <1>7, <1>8,
     <1>9, <1>10, <1>11, <1>12, <1>13, <1>14, <1>15
  DEF Next, Handler, Goroutine, DialFails, Expires, Breaks

LEMMA TaskForget ==
  ASSUME TypeInv, NEW c \in Cmds, Forget(c)
  PROVE  TaskType' /\ \A d \in Cmds : Stage(d)'
<1> USE DEF TypeInv, TaskType, Stage, Connected
<1>1. NoResult \in Result /\ Unsent \in Packet
  BY DEF NoResult, Result, Unsent, Packet
<1>2. TaskType'
  BY <1>1 DEF Forget
<1>3. ASSUME NEW d \in Cmds PROVE Stage(d)'
  BY DEF Forget, NoResult
<1>4. QED
  BY <1>2, <1>3

LEMMA TaskStep ==
  TypeInv /\ [Next]_vars => TaskType' /\ \A d \in Cmds : Stage(d)'
<1> SUFFICES ASSUME TypeInv, [Next]_vars
             PROVE  TaskType' /\ \A d \in Cmds : Stage(d)'
  OBVIOUS
<1> USE DEF TypeInv, TaskType, Stage, Connected, goroutine, server
<1>1. ASSUME NEW c \in Cmds, Type(c)
      PROVE  TaskType' /\ \A d \in Cmds : Stage(d)'
  BY <1>1 DEF Type, Shown
<1>2. ASSUME NEW c \in Cmds, RequestFails(c)
      PROVE  TaskType' /\ \A d \in Cmds : Stage(d)'
  BY <1>2 DEF RequestFails, Shown
<1>3. ASSUME NEW c \in Cmds, Select(c)
      PROVE  TaskType' /\ \A d \in Cmds : Stage(d)'
  BY <1>3 DEF Select
<1>4. ASSUME NEW c \in Cmds, SendToAgent(c)
      PROVE  TaskType' /\ \A d \in Cmds : Stage(d)'
  <2>1. task' = [task EXCEPT ![c] = "dial"] \/ task' = task
    BY <1>4 DEF SendToAgent
  <2>2. UNCHANGED <<turn, want, buf, result, due, wire, packet>>
    BY <1>4 DEF SendToAgent
  <2>3. task[c] = "none"
    BY <1>4 DEF SendToAgent, Begun
  <2>4. QED
    BY <2>1, <2>2, <2>3
<1>5. ASSUME NEW c \in Cmds, Insert(c)
      PROVE  TaskType' /\ \A d \in Cmds : Stage(d)'
  BY <1>5 DEF Insert
<1>6. ASSUME NEW c \in Cmds, Dial(c)
      PROVE  TaskType' /\ \A d \in Cmds : Stage(d)'
  BY <1>6 DEF Dial
<1>7. ASSUME NEW c \in Cmds, (task[c] = "dial" \/ Connected(c)), Fails(c)
      PROVE  TaskType' /\ \A d \in Cmds : Stage(d)'
  <2>1. Error \in Result /\ Unsent \in Packet
    BY DEF Error, Result, Unsent, Packet
  <2>2. TaskType'
    BY <1>7, <2>1 DEF Fails, Return
  <2>3. ASSUME NEW d \in Cmds PROVE Stage(d)'
    BY <1>7 DEF Fails, Return, Error
  <2>4. QED
    BY <2>2, <2>3
<1>8. ASSUME NEW c \in Cmds, Write(c)
      PROVE  TaskType' /\ \A d \in Cmds : Stage(d)'
  <2>1. Unsent \in Packet
    BY DEF Unsent, Packet
  <2>2. TaskType'
    BY <1>8, <2>1 DEF Write
  <2>3. ASSUME NEW d \in Cmds PROVE Stage(d)'
    BY <1>8 DEF Write
  <2>4. QED
    BY <2>2, <2>3
<1>9. ASSUME NEW c \in Cmds, NEW n \in 1 .. MaxSize, Read(c, n)
      PROVE  TaskType' /\ \A d \in Cmds : Stage(d)'
  <2> DEFINE b == Filled(c, n)
  <2>1. /\ task[c] \in {"size", "rest"} /\ n \in Nat \ {0} /\ n <= Len(wire[c])
        /\ UNCHANGED <<due, packet>>
        /\ \/ ReadsMore(c, n) \/ ReadsSize(c, n) \/ ReadsAccept(c, n)
           \/ ReadsEnd(c, n)
    BY <1>9, ReadOutcomes
  <2>2. b \in Seq(Unit) /\ Len(b) = Len(buf[c]) + n /\ Left(c, n) \in Seq(Unit)
    BY <2>1, Cut DEF Filled, Left
  <2>3. CASE ReadsMore(c, n)
    <3>1. TaskType'
      BY <2>1, <2>2, <2>3 DEF ReadsMore
    <3>2. ASSUME NEW d \in Cmds PROVE Stage(d)'
      BY <2>1, <2>3 DEF ReadsMore
    <3>3. QED
      BY <3>1, <3>2
  <2>4. CASE ReadsSize(c, n)
    <3>1. PICK z \in MinSize .. MaxSize : want' = [want EXCEPT ![c] = z]
      BY <2>4 DEF ReadsSize
    <3>2. TaskType'
      BY <2>1, <2>2, <2>4, <3>1 DEF ReadsSize
    <3>3. ASSUME NEW d \in Cmds PROVE Stage(d)'
      BY <2>4, <3>1, RconAssumption DEF ReadsSize, RconAssumption
    <3>4. QED
      BY <3>2, <3>3
  <2>5. CASE ReadsAccept(c, n)
    <3>1. TaskType'
      BY <2>1, <2>2, <2>5 DEF ReadsAccept
    <3>2. ASSUME NEW d \in Cmds PROVE Stage(d)'
      BY <2>5 DEF ReadsAccept
    <3>3. QED
      BY <3>1, <3>2
  <2>6. CASE ReadsEnd(c, n)
    <3>1. PICK r \in Result : r.kind # "none" /\ Return(c, r)
      <4>1. Error \in Result /\ Error.kind # "none"
        BY DEF Error, Result
      <4>2. CASE Return(c, Response(Body(b)))
        <5>1. Body(b) \in Seq(Unit)
          BY <2>2 DEF Body
        <5>2. Response(Body(b)) \in Result /\ Response(Body(b)).kind # "none"
          BY <5>1 DEF Response, Result
        <5>3. QED
          BY <4>2, <5>2
      <4>3. QED
        BY <2>6, <4>1, <4>2 DEF ReadsEnd
    <3>2. TaskType'
      BY <2>1, <2>6, <3>1 DEF ReadsEnd, Return
    <3>3. ASSUME NEW d \in Cmds PROVE Stage(d)'
      BY <3>1 DEF Return
    <3>4. QED
      BY <3>2, <3>3
  <2>7. QED
    BY <2>1, <2>3, <2>4, <2>5, <2>6
<1>10. ASSUME NEW c \in Cmds, Report(c)
      PROVE  TaskType' /\ \A d \in Cmds : Stage(d)'
  BY <1>10, TaskForget DEF Report
<1>11. ASSUME NEW c \in Cmds, Lost(c)
      PROVE  TaskType' /\ \A d \in Cmds : Stage(d)'
  BY <1>11, TaskForget DEF Lost
<1>12. ASSUME NEW c \in Cmds, Answer(c)
      PROVE  TaskType' /\ \A d \in Cmds : Stage(d)'
  <2>1. wire' \in [Cmds -> Seq(Unit)] /\ packet' \in [Cmds -> Packet]
    <3>1. CASE Connected(c)
      <4>0. PICK ok \in BOOLEAN, z \in Sizes :
              /\ packet' = [packet EXCEPT ![c] = [ok |-> ok, size |-> z]]
              /\ \E n \in 0 .. z + 2 :
                    wire' = [wire EXCEPT ![c] = wire[c] \o
                                    [k \in 1 .. n |-> <<due[c], k>>]]
        BY <1>12, <3>1 DEF Answer
      <4>1. PICK n \in 0 .. z + 2 :
              wire' = [wire EXCEPT ![c] = wire[c] \o
                                    [k \in 1 .. n |-> <<due[c], k>>]]
        BY <4>0
      <4>2. [ok |-> ok, size |-> z] \in Packet /\ n \in Nat
        BY RconAssumption DEF RconAssumption, Packet
      <4>3. [k \in 1 .. n |-> <<due[c], k>>] \in Seq(Unit)
        BY <1>12, <4>2 DEF Answer, Unit
      <4>4. wire[c] \o [k \in 1 .. n |-> <<due[c], k>>] \in Seq(Unit)
        BY <4>3
      <4>5. QED
        BY <4>0, <4>1, <4>2, <4>4
    <3>2. CASE ~Connected(c)
      BY <1>12, <3>2 DEF Answer
    <3>3. QED
      BY <3>1, <3>2
  <2>2. due' \in [Cmds -> 0 .. 2] /\ UNCHANGED goroutine
    BY <1>12 DEF Answer
  <2>3. QED
    BY <2>1, <2>2
<1>13. CASE Show
  BY <1>13 DEF Show, Shown
<1>14. CASE NotShown
  BY <1>14 DEF NotShown
<1>15. CASE UNCHANGED vars
  BY <1>15 DEF vars
<1>16. QED
  BY <1>1, <1>2, <1>3, <1>4, <1>5, <1>6, <1>7, <1>8,
     <1>9, <1>10, <1>11, <1>12, <1>13, <1>14, <1>15
  DEF Next, Handler, Goroutine, DialFails, Expires, Breaks

LEMMA TypeAlways == Spec => []TypeInv
<1>1. TypeInv /\ [Next]_vars => TypeInv'
  BY OutsideStep, TaskStep, BegunStep DEF TypeInv
<1>2. QED
  BY TypeInit, <1>1, PTL DEF Spec

(* Every variable keeps to its values, and no packet makes the agent index *)
(* outside a buffer or take more than 4096 bytes (rcon.go 74).             *)
THEOREM TypeCorrect == Spec => []TypeOK
<1>1. TypeInv => TypeOK
  <2> SUFFICES ASSUME TypeInv PROVE TypeOK
    OBVIOUS
  <2> USE DEF TypeInv
  <2>1. ASSUME NEW c \in Cmds
        PROVE  /\ task[c] \in {"size", "rest"} => Len(buf[c]) < want[c]
               /\ task[c] = "rest" => want[c] \in MinSize .. MaxSize
               /\ result[c].kind \in {"none", "error", "response"}
               /\ task[c] = "report" <=> result[c].kind # "none"
    <3>1. /\ task[c] \in {"size", "rest"} => Len(buf[c]) < want[c]
          /\ task[c] = "rest" => want[c] \in MinSize .. MaxSize
      BY DEF Stage
    <3>2. result[c].kind \in {"none", "error", "response"}
      BY DEF TaskType, Result
    <3>3. task[c] = "report" <=> result[c].kind # "none"
      BY DEF Stage
    <3>4. QED
      BY <3>1, <3>2, <3>3
  <2>2. console \in Seq([kind : {"command", "failed", "reply"}, cmd : Cmds])
    BY DEF OutsideType, Entry
  <2>3. QED
    BY <2>1, <2>2 DEF TypeOK, OutsideType, TaskType
<1>2. QED
  BY <1>1, TypeAlways, PTL

(* rcon_history names no command that no agent was given and misses none   *)
(* the game server carried out, but for a moment or a failed INSERT        *)
(* (api_servers.go 454-459).                                               *)
THEOREM HistoryTrue == Spec => []HistoryIsTrue
<1>1. TypeInv => HistoryIsTrue
  BY DEF TypeInv, OutsideType, Begun, HistoryIsTrue
<1>2. QED
  BY <1>1, TypeAlways, PTL

-----------------------------------------------------------------------------
(* A command goes forward                                                  *)

(* How far the goroutine has come: it writes and reads twice over, the     *)
(* password (turn 1) and the command (turn 2).                             *)
Progress(c) ==
    CASE task[c] = "none" -> 0
      [] task[c] = "dial" -> 1
      [] task[c] = "write" -> 3 * turn[c] - 1
      [] task[c] = "size" -> 3 * turn[c]
      [] task[c] = "rest" -> 3 * turn[c] + 1
      [] task[c] = "report" -> 8
      [] task[c] = "over" -> 9

(* A Read that readFull goes on after: more of the same buffer.            *)
Fuller(c) ==
    /\ UNCHANGED <<task[c], turn[c], want[c], result[c]>>
    /\ Len(buf'[c]) > Len(buf[c])

Onward(c) ==
    \/ Progress(c)' > Progress(c)
    \/ Fuller(c)
    \/ UNCHANGED <<task[c], turn[c], want[c], buf[c], result[c]>>

Bounded(c) == Progress(c) \in 0 .. 9 /\ Len(buf[c]) \in 0 .. MaxSize

LEMMA Bounds == TypeInv => \A c \in Cmds : Bounded(c)
<1> SUFFICES ASSUME TypeInv, NEW c \in Cmds PROVE Bounded(c)
  OBVIOUS
<1> USE RconAssumption DEF RconAssumption, TypeInv, TaskType, Stage, Connected
<1>1. Progress(c) \in 0 .. 9
  <2>1. task[c] \in {"none", "dial", "write", "size", "rest", "report", "over"}
    OBVIOUS
  <2>2. task[c] \in {"write", "size", "rest"} => turn[c] \in 1 .. 2
    OBVIOUS
  <2>3. QED
    BY <2>1, <2>2 DEF Progress
<1>2. Len(buf[c]) \in 0 .. MaxSize
  <2>1. Len(buf[c]) \in Nat /\ MaxSize \in Nat /\ 2 <= MaxSize
    OBVIOUS
  <2>2. CASE task[c] = "size"
    <3>1. want[c] = 2 /\ Len(buf[c]) < want[c]
      BY <2>2
    <3>2. QED
      BY <2>1, <3>1
  <2>3. CASE task[c] = "rest"
    <3>1. want[c] \in MinSize .. MaxSize /\ Len(buf[c]) < want[c]
      BY <2>3
    <3>2. QED
      BY <2>1, <3>1
  <2>4. CASE task[c] \notin {"size", "rest"}
    <3>1. Len(buf[c]) = 0
      BY <2>4
    <3>2. QED
      BY <2>1, <3>1
  <2>5. QED
    BY <2>2, <2>3, <2>4
<1>3. QED
  BY <1>1, <1>2 DEF Bounded

(* What a step of c leaves of another command's goroutine.                 *)
Stays(d) == UNCHANGED <<task[d], turn[d], want[d], buf[d], result[d]>>

LEMMA OnwardRead ==
  ASSUME TypeInv, NEW c \in Cmds, NEW n \in 1 .. MaxSize, Read(c, n)
  PROVE  (\A d \in Cmds \ {c} : Stays(d)) /\ Onward(c)
<1> USE DEF TypeInv, TaskType, Onward, Stays
<1>1. /\ task[c] \in {"size", "rest"} /\ n \in Nat \ {0} /\ n <= Len(wire[c])
      /\ \/ ReadsMore(c, n) \/ ReadsSize(c, n) \/ ReadsAccept(c, n)
         \/ ReadsEnd(c, n)
  BY ReadOutcomes
<1>2. turn[c] \in 1 .. 2
  BY <1>1 DEF Stage, Connected
<1>3. Len(Filled(c, n)) = Len(buf[c]) + n
  BY <1>1, Cut DEF Filled
<1>4. CASE ReadsMore(c, n)
  <2>1. Fuller(c)
    <3>1. UNCHANGED <<task[c], turn[c], want[c], result[c]>>
      BY <1>4 DEF ReadsMore
    <3>2. buf'[c] = Filled(c, n) /\ Len(buf[c]) \in Nat
      BY <1>4 DEF ReadsMore
    <3>3. Len(buf'[c]) > Len(buf[c])
      BY <1>1, <1>3, <3>2
    <3>4. QED
      BY <3>1, <3>3 DEF Fuller
  <2>2. \A d \in Cmds \ {c} : Stays(d)
    BY <1>4 DEF ReadsMore
  <2>3. QED
    BY <2>1, <2>2
<1>5. CASE ReadsSize(c, n)
  <2>0. PICK z : want' = [want EXCEPT ![c] = z]
    BY <1>5 DEF ReadsSize
  <2>1. /\ task[c] = "size" /\ task'[c] = "rest" /\ turn'[c] = turn[c]
        /\ \A d \in Cmds \ {c} : Stays(d)
    BY <1>5, <2>0 DEF ReadsSize
  <2>2. QED
    BY <1>2, <2>1 DEF Progress
<1>6. CASE ReadsAccept(c, n)
  <2>1. /\ task[c] = "rest" /\ turn[c] = 1 /\ task'[c] = "write" /\ turn'[c] = 2
        /\ \A d \in Cmds \ {c} : Stays(d)
    BY <1>6 DEF ReadsAccept
  <2>2. QED
    BY <2>1 DEF Progress
<1>7. CASE ReadsEnd(c, n)
  <2>1. PICK r : Return(c, r)
    BY <1>7 DEF ReadsEnd
  <2>2. task'[c] = "report" /\ \A d \in Cmds \ {c} : Stays(d)
    BY <2>1 DEF Return
  <2>3. QED
    BY <1>1, <1>2, <2>2 DEF Progress
<1>8. QED
  BY <1>1, <1>4, <1>5, <1>6, <1>7

LEMMA OnwardForget ==
  ASSUME TypeInv, NEW c \in Cmds, task[c] \notin {"none", "over"}, Forget(c)
  PROVE  (\A d \in Cmds \ {c} : Stays(d)) /\ Onward(c)
<1> USE DEF TypeInv, TaskType
<1>1. task'[c] = "over" /\ \A d \in Cmds \ {c} : Stays(d)
  BY DEF Forget, Stays
<1>2. task[c] \in {"write", "size", "rest"} => turn[c] \in 1 .. 2
  BY DEF Stage, Connected
<1>3. QED
  BY <1>1, <1>2 DEF Progress, Onward

LEMMA OnwardStep == TypeInv /\ [Next]_vars => \A d \in Cmds : Onward(d)
<1> SUFFICES ASSUME TypeInv, [Next]_vars PROVE \A d \in Cmds : Onward(d)
  OBVIOUS
<1>0. ASSUME UNCHANGED goroutine PROVE \A d \in Cmds : Onward(d)
  BY <1>0 DEF goroutine, Onward
<1>a. ASSUME NEW c \in Cmds, Onward(c), \A d \in Cmds \ {c} : Stays(d)
      PROVE  \A d \in Cmds : Onward(d)
  <2>1. \A d \in Cmds \ {c} : Onward(d)
    BY <1>a DEF Stays, Onward
  <2>2. QED
    BY <1>a, <2>1
<1> USE DEF TypeInv, TaskType, Stays
<1>1. ASSUME NEW c \in Cmds, Type(c)
      PROVE  \A d \in Cmds : Onward(d)
  BY <1>0, <1>1 DEF Type
<1>2. ASSUME NEW c \in Cmds, RequestFails(c)
      PROVE  \A d \in Cmds : Onward(d)
  BY <1>0, <1>2 DEF RequestFails
<1>3. ASSUME NEW c \in Cmds, Select(c)
      PROVE  \A d \in Cmds : Onward(d)
  BY <1>0, <1>3 DEF Select
<1>4. ASSUME NEW c \in Cmds, SendToAgent(c)
      PROVE  \A d \in Cmds : Onward(d)
  <2>1. CASE UNCHANGED task
    BY <1>0, <1>4, <2>1 DEF SendToAgent, goroutine
  <2>2. CASE task' = [task EXCEPT ![c] = "dial"]
    <3>1. task[c] = "none" /\ task'[c] = "dial"
      BY <1>4, <2>2 DEF SendToAgent, Begun
    <3>2. Onward(c)
      BY <3>1 DEF Progress, Onward
    <3>3. QED
      BY <1>4, <1>a, <2>2, <3>2 DEF SendToAgent
  <2>3. QED
    BY <1>4, <2>1, <2>2 DEF SendToAgent
<1>5. ASSUME NEW c \in Cmds, Insert(c)
      PROVE  \A d \in Cmds : Onward(d)
  BY <1>0, <1>5 DEF Insert
<1>6. ASSUME NEW c \in Cmds, Dial(c)
      PROVE  \A d \in Cmds : Onward(d)
  <2>1. task[c] = "dial" /\ task'[c] = "write" /\ turn'[c] = 1
    BY <1>6 DEF Dial
  <2>2. Onward(c)
    BY <2>1 DEF Progress, Onward
  <2>3. QED
    BY <1>6, <1>a, <2>2 DEF Dial
<1>7. ASSUME NEW c \in Cmds, (task[c] = "dial" \/ Connected(c)), Fails(c)
      PROVE  \A d \in Cmds : Onward(d)
  <2>1. task'[c] = "report" /\ \A d \in Cmds \ {c} : Stays(d)
    BY <1>7 DEF Fails, Return
  <2>2. task[c] \in {"dial", "write", "size", "rest"}
    BY <1>7 DEF Connected
  <2>3. task[c] # "dial" => turn[c] \in 1 .. 2
    BY <2>2 DEF Stage, Connected
  <2>4. Onward(c)
    BY <2>1, <2>2, <2>3 DEF Progress, Onward
  <2>5. QED
    BY <1>a, <2>1, <2>4
<1>8. ASSUME NEW c \in Cmds, Write(c)
      PROVE  \A d \in Cmds : Onward(d)
  <2>1. /\ task[c] = "write" /\ task'[c] = "size" /\ turn'[c] = turn[c]
        /\ \A d \in Cmds \ {c} : Stays(d)
    BY <1>8 DEF Write
  <2>2. turn[c] \in 1 .. 2
    BY <2>1 DEF Stage, Connected
  <2>3. Onward(c)
    BY <2>1, <2>2 DEF Progress, Onward
  <2>4. QED
    BY <1>a, <2>1, <2>3
<1>9. ASSUME NEW c \in Cmds, NEW n \in 1 .. MaxSize, Read(c, n)
      PROVE  \A d \in Cmds : Onward(d)
  BY <1>9, <1>a, OnwardRead
<1>10. ASSUME NEW c \in Cmds, Report(c)
      PROVE  \A d \in Cmds : Onward(d)
  BY <1>10, <1>a, OnwardForget DEF Report
<1>11. ASSUME NEW c \in Cmds, Lost(c)
      PROVE  \A d \in Cmds : Onward(d)
  BY <1>11, <1>a, OnwardForget DEF Lost
<1>12. ASSUME NEW c \in Cmds, Answer(c)
      PROVE  \A d \in Cmds : Onward(d)
  BY <1>0, <1>12 DEF Answer
<1>13. CASE Show
  BY <1>0, <1>13 DEF Show
<1>14. CASE NotShown
  BY <1>0, <1>14 DEF NotShown
<1>15. CASE UNCHANGED vars
  BY <1>0, <1>15 DEF vars
<1>16. QED
  BY <1>1, <1>2, <1>3, <1>4, <1>5, <1>6, <1>7, <1>8,
     <1>9, <1>10, <1>11, <1>12, <1>13, <1>14, <1>15
  DEF Next, Handler, Goroutine, DialFails, Expires, Breaks

(* The goroutine of a command never goes back: every step it takes brings  *)
(* it to a later place or more bytes of the packet it reads, and there are *)
(* ten places and at most MaxSize bytes.  With a deadline that comes, it   *)
(* ends, whatever the game server sends (rcon.go 12-18).                   *)
THEOREM CommandGoesForward ==
  Spec => [][\A c \in Cmds : Onward(c)]_vars /\ [](\A c \in Cmds : Bounded(c))
<1>1. TypeInv /\ [Next]_vars => [\A c \in Cmds : Onward(c)]_vars
  BY OnwardStep
<1>2. QED
  BY <1>1, Bounds, TypeAlways, PTL DEF Spec

-----------------------------------------------------------------------------
(* The stream: whatever has been read or has arrived belongs to the packet *)
(* that answers the request under way, and is in its place.                *)

IsPart(s, t, o) == \A k \in 1 .. Len(s) : s[k] = <<t, o + k>>

(* How much of the packet was read before the buffer.                      *)
Offset(c) == IF task[c] = "rest" THEN 2 ELSE 0

Answered(c) ==
    /\ IsPart(buf[c], turn[c], Offset(c))
    /\ IsPart(wire[c], turn[c], Offset(c) + Len(buf[c]))
    /\ Offset(c) + Len(buf[c]) + Len(wire[c]) <= packet[c].size + 2
    /\ task[c] = "rest" => want[c] = packet[c].size
    /\ turn[c] = 1 /\ packet[c].ok => c \in accepted

Stream(c) ==
    /\ task[c] \in {"none", "dial", "write"} => wire[c] = <<>> /\ due[c] = 0
    /\ task[c] \in {"size", "rest"} =>
        \/ /\ due[c] = turn[c] /\ task[c] = "size"
           /\ buf[c] = <<>> /\ wire[c] = <<>>
        \/ due[c] = 0 /\ Answered(c)
    /\ turn[c] = 2 => c \in accepted
    /\ task[c] = "report" /\ result[c].kind = "response" =>
        /\ c \in accepted
        /\ result[c].body = [k \in 1 .. packet[c].size - 2 |-> <<2, k + 3>>]

LEMMA StreamElsewhere ==
  ASSUME NEW d \in Cmds, Stream(d),
         task'[d] = task[d], turn'[d] = turn[d], want'[d] = want[d],
         buf'[d] = buf[d], result'[d] = result[d], due'[d] = due[d],
         wire'[d] = wire[d], packet'[d] = packet[d],
         d \in accepted => d \in accepted'
  PROVE  Stream(d)'
  BY DEF Stream, Answered, IsPart, Offset

(* A part is cut where one Read ends.                                      *)
LEMMA CutPart ==
  ASSUME NEW s \in Seq(Unit), NEW w \in Seq(Unit), NEW n \in Nat, n <= Len(w),
         NEW t \in 1 .. 2, NEW o \in Nat,
         IsPart(s, t, o), IsPart(w, t, o + Len(s))
  PROVE  LET b == s \o SubSeq(w, 1, n)
             l == SubSeq(w, n + 1, Len(w)) IN
         IsPart(b, t, o) /\ IsPart(l, t, o + Len(b))
<1> DEFINE b == s \o SubSeq(w, 1, n)
           l == SubSeq(w, n + 1, Len(w))
<1>1. /\ b \in Seq(Unit) /\ Len(b) = Len(s) + n
      /\ \A k \in 1 .. Len(s) : b[k] = s[k]
      /\ \A k \in 1 .. n : b[Len(s) + k] = w[k]
      /\ l \in Seq(Unit) /\ Len(l) = Len(w) - n
      /\ \A k \in 1 .. Len(l) : l[k] = w[n + k]
  <2>1. b \in Seq(Unit) /\ Len(b) = Len(s) + n
    OBVIOUS
  <2>2. ASSUME NEW k \in 1 .. Len(s) PROVE b[k] = s[k]
    OBVIOUS
  <2>3. ASSUME NEW k \in 1 .. n PROVE b[Len(s) + k] = w[k]
    OBVIOUS
  <2>4. l \in Seq(Unit) /\ Len(l) = Len(w) - n
    OBVIOUS
  <2>5. ASSUME NEW k \in 1 .. Len(l) PROVE l[k] = w[n + k]
    OBVIOUS
  <2>6. QED
    BY <2>1, <2>2, <2>3, <2>4, <2>5
<1> HIDE DEF b, l
<1>2. Len(s) \in Nat /\ Len(w) \in Nat
  OBVIOUS
<1>3. ASSUME NEW k \in 1 .. Len(b) PROVE b[k] = <<t, o + k>>
  <2>1. CASE k \in 1 .. Len(s)
    BY <1>1, <2>1 DEF IsPart
  <2>2. CASE k \notin 1 .. Len(s)
    <3> DEFINE j == k - Len(s)
    <3>1. j \in 1 .. n /\ k = Len(s) + j
      BY <1>1, <1>2, <1>3, <2>2
    <3>2. b[k] = w[j] /\ w[j] = <<t, o + Len(s) + j>>
      <4> HIDE DEF j
      <4>1. b[Len(s) + j] = w[j]
        BY <1>1, <3>1
      <4>2. j \in 1 .. Len(w)
        BY <1>1, <1>2, <3>1
      <4>3. w[j] = <<t, o + Len(s) + j>>
        BY <4>2 DEF IsPart
      <4>4. QED
        BY <3>1, <4>1, <4>3
    <3>3. o + Len(s) + j = o + k
      BY <1>2, <3>1
    <3>4. QED
      BY <3>2, <3>3
  <2>3. QED
    BY <2>1, <2>2
<1>4. ASSUME NEW k \in 1 .. Len(l) PROVE l[k] = <<t, o + Len(b) + k>>
  <2>1. n + k \in 1 .. Len(w) /\ l[k] = w[n + k]
    BY <1>1, <1>2, <1>4
  <2>2. w[n + k] = <<t, o + Len(s) + (n + k)>>
    BY <2>1 DEF IsPart
  <2>3. o + Len(s) + (n + k) = o + Len(b) + k
    BY <1>1, <1>2, <1>4
  <2>4. QED
    BY <2>1, <2>2, <2>3
<1>5. IsPart(b, t, o) /\ IsPart(l, t, o + Len(b))
  BY <1>3, <1>4 DEF IsPart
<1>6. QED
  BY <1>5 DEF b, l

(* The first two units of a packet are its size.                           *)
LEMMA SizePart ==
  ASSUME NEW b \in Seq(Unit), NEW t \in 1 .. 2, IsPart(b, t, 0), Len(b) = 2
  PROVE  b = <<<<t, 1>>, <<t, 2>>>>
<1>1. b[1] = <<t, 1>> /\ b[2] = <<t, 2>>
  BY DEF IsPart
<1>2. QED
  BY <1>1

(* The body of a whole packet.                                             *)
LEMMA BodyPart ==
  ASSUME NEW b \in Seq(Unit), IsPart(b, 2, 2), NEW z \in Nat, Len(b) = z,
         2 <= z
  PROVE  Body(b) = [k \in 1 .. z - 2 |-> <<2, k + 3>>]
<1> DEFINE s == Body(b)
<1>1. s \in Seq(Unit) /\ Len(s) = z - 2 /\ \A k \in 1 .. z - 2 : s[k] = b[k + 1]
  BY DEF Body
<1>2. ASSUME NEW k \in 1 .. z - 2 PROVE s[k] = <<2, k + 3>>
  <2>1. k + 1 \in 1 .. Len(b)
    OBVIOUS
  <2>2. b[k + 1] = <<2, 2 + (k + 1)>>
    BY <2>1 DEF IsPart
  <2>3. 2 + (k + 1) = k + 3
    OBVIOUS
  <2>4. QED
    BY <1>1, <2>2, <2>3
<1>3. s = [k \in 1 .. Len(s) |-> s[k]]
  BY <1>1
<1> HIDE DEF s
<1>4. s = [k \in 1 .. z - 2 |-> <<2, k + 3>>]
  BY <1>1, <1>2, <1>3
<1>5. QED
  BY <1>4 DEF s

StreamInv == \A d \in Cmds : Stream(d)

LEMMA StreamRead ==
  ASSUME TypeInv, \A d \in Cmds : Stream(d),
         NEW c \in Cmds, NEW n \in 1 .. MaxSize, Read(c, n)
  PROVE  \A d \in Cmds : Stream(d)'
<1> USE DEF TypeInv, TaskType
<1> DEFINE b == Filled(c, n)
           l == Left(c, n)
<1>1. /\ n \in Nat \ {0} /\ n <= Len(wire[c]) /\ n <= want[c] - Len(buf[c])
      /\ task[c] \in {"size", "rest"}
      /\ UNCHANGED <<due, packet, accepted>>
      /\ \/ ReadsMore(c, n)
         \/ /\ Len(b) = want[c]
            /\ ReadsSize(c, n) \/ ReadsAccept(c, n) \/ ReadsEnd(c, n)
  BY ReadOutcomes
<1>2. ASSUME NEW d \in Cmds, d # c PROVE Stream(d)'
  <2>1. /\ task'[d] = task[d] /\ turn'[d] = turn[d] /\ want'[d] = want[d]
        /\ buf'[d] = buf[d] /\ result'[d] = result[d] /\ wire'[d] = wire[d]
    BY <1>1, <1>2 DEF ReadsMore, ReadsSize, ReadsAccept, ReadsEnd, Return
  <2>2. QED
    BY <1>1, <2>1, StreamElsewhere
<1>3. turn[c] \in 1 .. 2 /\ Stream(c)
  BY <1>1 DEF Stage, Connected
<1>4. due[c] = 0 /\ Answered(c)
  BY <1>1, <1>3 DEF Stream
<1>5. /\ b \in Seq(Unit) /\ Len(b) = Len(buf[c]) + n
      /\ l \in Seq(Unit) /\ Len(l) = Len(wire[c]) - n
  <2>1. /\ buf[c] \in Seq(Unit) /\ wire[c] \in Seq(Unit)
        /\ n \in Nat /\ n <= Len(wire[c])
    BY <1>1
  <2>2. QED
    BY <2>1, Cut DEF Filled, Left
<1>6. Offset(c) \in Nat /\ Len(buf[c]) \in Nat /\ packet[c].size \in Nat
  BY DEF Offset, Packet
<1>7. IsPart(b, turn[c], Offset(c)) /\ IsPart(l, turn[c], Offset(c) + Len(b))
  BY <1>1, <1>3, <1>4, <1>6, CutPart DEF Answered, Filled, Left
<1>8. Offset(c) + Len(b) + Len(l) <= packet[c].size + 2
  BY <1>4, <1>5, <1>6 DEF Answered
<1> HIDE DEF b, l
<1>9. CASE ReadsMore(c, n)
  <2>1. /\ buf'[c] = b /\ wire'[c] = l
        /\ UNCHANGED <<task, turn, want, result>>
    BY <1>9 DEF ReadsMore, b, l
  <2>2. Offset(c)' = Offset(c)
    BY <2>1 DEF Offset
  <2>3. Answered(c)'
    BY <1>1, <1>4, <1>7, <1>8, <2>1, <2>2 DEF Answered, IsPart
  <2>4. Stream(c)'
    BY <1>1, <1>3, <1>4, <2>1, <2>3 DEF Stream
  <2>5. QED
    BY <1>2, <2>4
<1>10. CASE Len(b) = want[c] /\ ReadsSize(c, n)
  <2>1. task[c] = "size" /\ Offset(c) = 0 /\ Len(b) = 2
    BY <1>10 DEF ReadsSize, Offset, Stage
  <2>2. b = <<<<turn[c], 1>>, <<turn[c], 2>>>>
    BY <1>3, <1>5, <1>7, <2>1, SizePart
  <2>3. want'[c] = packet[c].size
    <3>1. SizeOf(c, b) = {packet[c].size}
      BY <2>2 DEF SizeOf
    <3>2. PICK z \in SizeOf(c, b) : want' = [want EXCEPT ![c] = z]
      BY <1>10 DEF ReadsSize, b
    <3>3. QED
      BY <3>1, <3>2
  <2>4. /\ task'[c] = "rest" /\ buf'[c] = <<>> /\ wire'[c] = l
        /\ turn' = turn /\ result' = result
    BY <1>10 DEF ReadsSize, l
  <2>5. Offset(c)' = 2
    BY <2>4 DEF Offset
  <2>6. IsPart(wire[c], turn[c], Offset(c) + Len(buf[c]))' /\ IsPart(<<>>, turn[c], 2)
    BY <1>7, <2>1, <2>4, <2>5 DEF IsPart
  <2>7. Answered(c)'
    <3>1. Len(buf[c])' = 0 /\ 2 + Len(l) <= packet[c].size + 2
      BY <1>6, <1>8, <2>1, <2>4
    <3>2. (turn[c] = 1 /\ packet[c].ok => c \in accepted)'
      BY <1>1, <1>4, <2>4 DEF Answered
    <3>3. IsPart(buf[c], turn[c], Offset(c))'
      BY <2>4, <2>5, <2>6
    <3>4. (Offset(c) + Len(buf[c]) + Len(wire[c]) <= packet[c].size + 2)'
      BY <1>1, <1>5, <1>6, <2>4, <2>5, <3>1
    <3>5. QED
      BY <1>1, <2>3, <2>6, <3>2, <3>3, <3>4 DEF Answered
  <2>8. Stream(c)'
    BY <1>1, <1>3, <1>4, <2>4, <2>7 DEF Stream
  <2>9. QED
    BY <1>2, <2>8
<1>11. CASE Len(b) = want[c] /\ ReadsAccept(c, n)
  <2>1. task[c] = "rest" /\ turn[c] = 1 /\ Offset(c) = 2
    BY <1>11 DEF ReadsAccept, Offset
  <2>2. Len(b) = packet[c].size /\ 2 <= Len(b)
    BY <1>4, <1>11, <2>1, RconAssumption DEF Answered, Stage, RconAssumption
  <2>3. l = <<>>
    BY <1>5, <1>6, <1>8, <2>1, <2>2
  <2>4. c \in accepted
    <3>1. b[1] = <<turn[c], 3>>
      <4>1. 1 \in 1 .. Len(b)
        BY <1>5, <2>2
      <4>2. b[1] = <<turn[c], 2 + 1>>
        BY <1>7, <2>1, <4>1 DEF IsPart
      <4>3. QED
        BY <4>2
    <3>2. packet[c].ok
      <4>1. TRUE \in AcceptedBy(c, b)
        BY <1>11 DEF ReadsAccept, b
      <4>2. Len(b) > 0
        BY <1>5, <2>2
      <4>3. AcceptedBy(c, b) = {packet[c].ok}
        BY <3>1, <4>2 DEF AcceptedBy
      <4>4. QED
        BY <4>1, <4>3
    <3>3. QED
      BY <1>4, <2>1, <3>2 DEF Answered
  <2>5. task'[c] = "write" /\ wire'[c] = <<>> /\ result' = result
    BY <1>11, <2>3 DEF ReadsAccept, l
  <2>6. Stream(c)'
    BY <1>1, <1>4, <2>4, <2>5 DEF Stream
  <2>7. QED
    BY <1>2, <2>6
<1>12. CASE Len(b) = want[c] /\ ReadsEnd(c, n)
  <2>1. CASE Return(c, Error)
    <3>1. task'[c] = "report" /\ result'[c].kind = "error" /\ turn'[c] = 0
      BY <2>1 DEF Return, Error
    <3>2. Stream(c)'
      BY <1>1, <1>4, <3>1 DEF Stream
    <3>3. QED
      BY <1>2, <3>2
  <2>2. CASE task[c] = "rest" /\ turn[c] = 2 /\ Return(c, Response(Body(b)))
    <3>1. /\ task'[c] = "report" /\ result'[c].body = Body(b) /\ turn'[c] = 0
      BY <2>2 DEF Return, Response
    <3>2. Offset(c) = 2 /\ Len(b) = packet[c].size /\ 2 <= Len(b)
      BY <1>4, <1>12, <2>2, RconAssumption
        DEF Answered, Stage, Offset, RconAssumption
    <3>3. Body(b) = [k \in 1 .. packet[c].size - 2 |-> <<2, k + 3>>]
      BY <1>5, <1>6, <1>7, <2>2, <3>2, BodyPart
    <3>4. c \in accepted
      BY <1>3, <2>2 DEF Stream
    <3>5. Stream(c)'
      BY <1>1, <3>1, <3>3, <3>4 DEF Stream
    <3>6. QED
      BY <1>2, <3>5
  <2>3. QED
    BY <1>12, <2>1, <2>2 DEF ReadsEnd, b
<1>13. QED
  BY <1>1, <1>9, <1>10, <1>11, <1>12

LEMMA StreamAnswer ==
  ASSUME TypeInv, \A d \in Cmds : Stream(d), NEW c \in Cmds, Answer(c)
  PROVE  \A d \in Cmds : Stream(d)'
<1> USE DEF TypeInv, TaskType
<1>1. /\ due[c] \in 1 .. 2 /\ due' = [due EXCEPT ![c] = 0]
      /\ UNCHANGED <<task, turn, want, buf, result>>
  BY DEF Answer, goroutine
<1>2. CASE ~Connected(c)
  <2>1. UNCHANGED <<wire, packet, accepted>>
    BY <1>2 DEF Answer
  <2>2. ASSUME NEW d \in Cmds, d # c PROVE Stream(d)'
    BY <1>1, <2>1, <2>2, StreamElsewhere
  <2>3. Stream(c)'
    BY <1>1, <1>2, <2>1 DEF Stream, Connected
  <2>4. QED
    BY <2>2, <2>3
<1>3. CASE Connected(c)
  <2>1. /\ due[c] = turn[c] /\ task[c] = "size"
        /\ buf[c] = <<>> /\ wire[c] = <<>>
    <3>1. Stream(c) /\ due[c] # 0
      BY <1>1
    <3>2. QED
      BY <1>3, <3>1 DEF Connected, Stream
  <2>2. PICK ok \in BOOLEAN, z \in Sizes :
          /\ packet' = [packet EXCEPT ![c] = [ok |-> ok, size |-> z]]
          /\ accepted' = IF due[c] = 1 /\ ok THEN accepted \cup {c} ELSE accepted
          /\ \E n \in 0 .. z + 2 :
                wire' = [wire EXCEPT ![c] = wire[c] \o
                                [k \in 1 .. n |-> <<due[c], k>>]]
    BY <1>3 DEF Answer
  <2>3. PICK n \in 0 .. z + 2 :
          wire' = [wire EXCEPT ![c] = wire[c] \o [k \in 1 .. n |-> <<due[c], k>>]]
    BY <2>2
  <2>4. z \in Nat /\ n \in Nat /\ n <= z + 2
    BY RconAssumption DEF RconAssumption
  <2> DEFINE s == [k \in 1 .. n |-> <<due[c], k>>]
  <2>5. s \in Seq(Unit) /\ Len(s) = n
    BY <1>1, <2>4 DEF Unit
  <2>6. wire'[c] = s
    BY <2>1, <2>3, <2>5
  <2>7. IsPart(s, turn[c], 0)
    BY <2>1, <2>4, <2>5 DEF IsPart
  <2>8. IsPart(<<>>, turn[c], 0)
    BY DEF IsPart
  <2> HIDE DEF s
  <2>9. Offset(c)' = 0 /\ buf'[c] = <<>> /\ turn'[c] = turn[c] /\ task'[c] = "size"
    BY <1>1, <2>1 DEF Offset
  <2>10. packet'[c] = [ok |-> ok, size |-> z] /\ (turn[c] = 1 /\ ok => c \in accepted')
    BY <2>1, <2>2
  <2>11. IsPart(wire[c], turn[c], Offset(c) + Len(buf[c]))'
    BY <2>6, <2>7, <2>9 DEF IsPart
  <2>12. Answered(c)'
    BY <2>4, <2>5, <2>6, <2>8, <2>9, <2>10, <2>11 DEF Answered
  <2>13. due'[c] = 0 /\ accepted \subseteq accepted'
    BY <1>1, <2>2
  <2>14. Stream(c)'
    BY <2>9, <2>12, <2>13 DEF Stream
  <2>15. ASSUME NEW d \in Cmds, d # c PROVE Stream(d)'
    BY <1>1, <2>2, <2>3, <2>13, <2>15, StreamElsewhere
  <2>16. QED
    BY <2>14, <2>15
<1>4. QED
  BY <1>2, <1>3

LEMMA StreamStep ==
  TypeInv /\ StreamInv /\ [Next]_vars => StreamInv'
<1> SUFFICES ASSUME TypeInv, \A d \in Cmds : Stream(d), [Next]_vars
             PROVE  \A d \in Cmds : Stream(d)'
  BY DEF StreamInv
<1> USE DEF TypeInv, TaskType
<1>1. ASSUME NEW c \in Cmds, Type(c)
      PROVE  \A d \in Cmds : Stream(d)'
  BY <1>1, StreamElsewhere DEF Type, goroutine, server
<1>2. ASSUME NEW c \in Cmds, RequestFails(c)
      PROVE  \A d \in Cmds : Stream(d)'
  BY <1>2, StreamElsewhere DEF RequestFails, goroutine, server
<1>3. ASSUME NEW c \in Cmds, Select(c)
      PROVE  \A d \in Cmds : Stream(d)'
  BY <1>3, StreamElsewhere DEF Select, goroutine, server
<1>4. ASSUME NEW c \in Cmds, SendToAgent(c)
      PROVE  \A d \in Cmds : Stream(d)'
  <2>1. ASSUME NEW d \in Cmds PROVE Stream(d)'
    <3>1. UNCHANGED <<turn, want, buf, result, server>>
      BY <1>4 DEF SendToAgent
    <3>2. task'[d] = task[d] \/ (task[d] = "none" /\ task'[d] = "dial")
      <4>1. task[c] = "none"
        BY <1>4 DEF SendToAgent, Begun
      <4>2. task' = [task EXCEPT ![c] = "dial"] \/ task' = task
        BY <1>4 DEF SendToAgent
      <4>3. QED
        BY <4>1, <4>2
    <3>3. CASE task'[d] = task[d]
      BY <3>1, <3>3, StreamElsewhere DEF server
    <3>4. CASE task[d] = "none" /\ task'[d] = "dial"
      BY <3>1, <3>4 DEF Stream, server
    <3>5. QED
      BY <3>2, <3>3, <3>4
  <2>2. QED
    BY <2>1
<1>5. ASSUME NEW c \in Cmds, Insert(c)
      PROVE  \A d \in Cmds : Stream(d)'
  BY <1>5, StreamElsewhere DEF Insert, goroutine, server
<1>6. ASSUME NEW c \in Cmds, Dial(c)
      PROVE  \A d \in Cmds : Stream(d)'
  <2>1. ASSUME NEW d \in Cmds, d # c PROVE Stream(d)'
    BY <1>6, <2>1, StreamElsewhere DEF Dial, goroutine, server, browser
  <2>2. Stream(c)'
    <3>1. Stream(c) /\ task[c] = "dial" /\ task'[c] = "write" /\ turn'[c] = 1
      BY <1>6 DEF Dial
    <3>2. UNCHANGED <<due, wire, packet, accepted>>
      BY <1>6 DEF Dial, server
    <3>3. QED
      BY <3>1, <3>2 DEF Stream
  <2>3. QED
    BY <2>1, <2>2
<1>7. ASSUME NEW c \in Cmds, (task[c] = "dial" \/ Connected(c)), Fails(c)
      PROVE  \A d \in Cmds : Stream(d)'
  <2>1. ASSUME NEW d \in Cmds, d # c PROVE Stream(d)'
    BY <1>7, <2>1, StreamElsewhere DEF Fails, Return
  <2>2. Stream(c)'
    BY <1>7 DEF Fails, Return, Error, Stream
  <2>3. QED
    BY <2>1, <2>2
<1>8. ASSUME NEW c \in Cmds, Write(c)
      PROVE  \A d \in Cmds : Stream(d)'
  <2>1. ASSUME NEW d \in Cmds, d # c PROVE Stream(d)'
    BY <1>8, <2>1, StreamElsewhere DEF Write
  <2>2. Stream(c)'
    BY <1>8 DEF Write, Stream, Stage, Connected
  <2>3. QED
    BY <2>1, <2>2
<1>9. ASSUME NEW c \in Cmds, NEW n \in 1 .. MaxSize, Read(c, n)
      PROVE  \A d \in Cmds : Stream(d)'
  BY <1>9, StreamRead
<1>10. ASSUME NEW c \in Cmds, Report(c)
      PROVE  \A d \in Cmds : Stream(d)'
  <2>1. ASSUME NEW d \in Cmds, d # c PROVE Stream(d)'
    BY <1>10, <2>1, StreamElsewhere DEF Report, Forget
  <2>2. Stream(c)'
    BY <1>10 DEF Report, Forget, Stream, NoResult
  <2>3. QED
    BY <2>1, <2>2
<1>11. ASSUME NEW c \in Cmds, Lost(c)
      PROVE  \A d \in Cmds : Stream(d)'
  <2>1. ASSUME NEW d \in Cmds, d # c PROVE Stream(d)'
    BY <1>11, <2>1, StreamElsewhere DEF Lost, Forget
  <2>2. Stream(c)'
    BY <1>11 DEF Lost, Forget, Stream, NoResult
  <2>3. QED
    BY <2>1, <2>2
<1>12. ASSUME NEW c \in Cmds, Answer(c)
      PROVE  \A d \in Cmds : Stream(d)'
  BY <1>12, StreamAnswer
<1>13. CASE Show
  BY <1>13, StreamElsewhere DEF Show, goroutine, server
<1>14. CASE NotShown
  BY <1>14, StreamElsewhere DEF NotShown, goroutine, server
<1>15. CASE UNCHANGED vars
  BY <1>15, StreamElsewhere DEF vars, goroutine, server
<1>16. QED
  BY <1>1, <1>2, <1>3, <1>4, <1>5, <1>6, <1>7, <1>8,
     <1>9, <1>10, <1>11, <1>12, <1>13, <1>14, <1>15
  DEF Next, Handler, Goroutine, DialFails, Expires, Breaks

(* Wherever reads cut the stream, a response that is reported is the body  *)
(* of the one packet the server sent to the command, all of it, after it   *)
(* accepted the password (rcon.go 29-47, 93-103).                          *)
THEOREM AnswerIsWhole == Spec => []WholeAnswer
<1>1. Init => StreamInv
  BY DEF Init, StreamInv, Stream, NoResult
<1>2. StreamInv => WholeAnswer
  BY DEF StreamInv, Stream, WholeAnswer
<1>3. Spec => []StreamInv
  BY <1>1, TypeAlways, StreamStep, PTL DEF Spec
<1>4. QED
  BY <1>2, <1>3, PTL

-----------------------------------------------------------------------------
(* The console                                                             *)

(* The console ends with the command c, which has no answer below it while *)
(* one can still come.                                                     *)
Latest(c) ==
    LET last == console[Len(console)] IN
    /\ console # <<>> /\ last.cmd = c
    /\ task[c] # "over" \/ relay # <<>> => last.kind # "reply"

(* While nobody was in a hurry, a command that is not over is the console's*)
(* last, so there is one at most, and one answer at most is on its way.    *)
TalkInv ==
    ~hurried =>
        /\ \A c \in Cmds : ~Over(c) => Latest(c)
        /\ Len(relay) <= 1
        /\ \A j \in DOMAIN relay : task[relay[j]] = "over"
        /\ ConsoleIsDialogue

LEMMA TalkKept ==
  ASSUME TypeInv, TalkInv, UNCHANGED browser,
         \A d \in Cmds : Over(d) => cmd'[d] = cmd[d] /\ task'[d] = task[d],
         \A d \in Cmds : task[d] = "over" => task'[d] = "over"
  PROVE  TalkInv'
<1>1. console' = console /\ relay' = relay /\ hurried' = hurried
  BY DEF browser
<1>2. ASSUME ~hurried, NEW d \in Cmds, ~Over(d)' PROVE Latest(d)'
  <2>1. ~Over(d)
    BY <1>1, <1>2 DEF Over
  <2>2. QED
    BY <1>1, <1>2, <2>1 DEF TalkInv, Latest
<1>3. ASSUME ~hurried, NEW j \in DOMAIN relay PROVE task'[relay[j]] = "over"
  BY <1>3 DEF TalkInv, TypeInv, OutsideType
<1>4. QED
  BY <1>1, <1>2, <1>3 DEF TalkInv, ConsoleIsDialogue

(* One more entry on the console.                                          *)
LEMMA DialogueGrows ==
  ASSUME TypeInv, ConsoleIsDialogue, ~hurried, NEW e \in Entry,
         console' = Append(console, e),
         e.kind = "reply" =>
            /\ console # <<>> /\ console[Len(console)].cmd = e.cmd
            /\ console[Len(console)].kind # "reply"
  PROVE  /\ ConsoleIsDialogue'
         /\ console' # <<>> /\ console'[Len(console')] = e
<1> DEFINE m == Len(console)
<1>1. /\ console \in Seq(Entry) /\ m \in Nat /\ Len(console') = m + 1
      /\ console'[m + 1] = e /\ \A k \in 1 .. m : console'[k] = console[k]
  BY DEF TypeInv, OutsideType
<1>2. ASSUME NEW j \in 1 .. m + 1, console'[j].kind = "reply"
      PROVE  /\ j > 1 /\ console'[j - 1].cmd = console'[j].cmd
             /\ console'[j - 1].kind # "reply"
  <2>1. CASE j \in 1 .. m
    <3>1. /\ j > 1 /\ console[j - 1].cmd = console[j].cmd
          /\ console[j - 1].kind # "reply"
      BY <1>1, <1>2, <2>1 DEF ConsoleIsDialogue
    <3>2. j - 1 \in 1 .. m
      BY <1>1, <2>1, <3>1
    <3>3. QED
      BY <1>1, <2>1, <3>1, <3>2
  <2>2. CASE j = m + 1
    <3>1. e.kind = "reply" /\ m \in 1 .. m
      BY <1>1, <1>2, <2>2
    <3>2. j - 1 = m /\ console'[m] = console[m] /\ j > 1
      BY <1>1, <2>2, <3>1
    <3>3. QED
      BY <1>1, <2>2, <3>1, <3>2
  <2>3. QED
    BY <1>1, <2>1, <2>2
<1>3. DOMAIN console' = 1 .. m + 1
  BY <1>1 DEF TypeInv, OutsideType
<1>4. QED
  BY <1>1, <1>2, <1>3 DEF ConsoleIsDialogue

LEMMA TalkStep == TypeInv /\ TalkInv /\ [Next]_vars => TalkInv'
<1> SUFFICES ASSUME TypeInv, TalkInv, [Next]_vars PROVE TalkInv'
  OBVIOUS
<1> USE DEF TypeInv, TaskType, OutsideType
<1>1. ASSUME NEW c \in Cmds, Type(c)
      PROVE  TalkInv'
  <2> SUFFICES ASSUME ~hurried' PROVE TalkInv'
    BY DEF TalkInv
  <2> DEFINE e == [kind |-> "command", cmd |-> c]
  <2>1. /\ cmd[c] = "none" /\ cmd' = [cmd EXCEPT ![c] = "select"]
        /\ console' = Append(console, e)
        /\ ~hurried /\ \A d \in Cmds : Over(d)
        /\ UNCHANGED <<task, relay>>
    BY <1>1 DEF Type, Shown, goroutine
  <2>2. relay = <<>> /\ task[c] = "none"
    <3>1. ASSUME relay # <<>> PROVE FALSE
      <4>1. 1 \in DOMAIN relay /\ relay[1] \in Cmds
        BY <3>1
      <4>2. QED
        BY <2>1, <4>1 DEF Over
    <3>2. QED
      BY <2>1, <3>1 DEF Begun
  <2>3. e \in Entry /\ e.kind = "command" /\ e.cmd = c
    BY DEF Entry
  <2>4. ConsoleIsDialogue
    BY <2>1 DEF TalkInv
  <2> HIDE DEF e
  <2>5. ConsoleIsDialogue' /\ console' # <<>> /\ console'[Len(console')] = e
    BY <2>1, <2>3, <2>4, DialogueGrows
  <2>6. ASSUME NEW d \in Cmds, ~Over(d)' PROVE Latest(d)'
    <3>1. d = c
      BY <2>1, <2>6 DEF Over
    <3>2. QED
      BY <2>3, <2>5, <3>1 DEF Latest
  <2>7. QED
    BY <2>1, <2>2, <2>5, <2>6 DEF TalkInv
<1>2. ASSUME NEW c \in Cmds, RequestFails(c)
      PROVE  TalkInv'
  <2> SUFFICES ASSUME ~hurried' PROVE TalkInv'
    BY DEF TalkInv
  <2> DEFINE e == [kind |-> "failed", cmd |-> c]
  <2>1. /\ cmd[c] = "select" /\ \A d \in Cmds : d # c => cmd'[d] = cmd[d]
        /\ console' = Append(console, e) /\ ~hurried
        /\ UNCHANGED <<task, relay>>
    BY <1>2 DEF RequestFails, Shown, goroutine
  <2>2. ~Over(c) /\ task[c] = "none"
    BY <2>1 DEF Over, Begun
  <2>3. e \in Entry /\ e.kind = "failed" /\ e.cmd = c
    BY DEF Entry
  <2>4. ConsoleIsDialogue
    BY <2>1 DEF TalkInv
  <2> HIDE DEF e
  <2>5. ConsoleIsDialogue' /\ console' # <<>> /\ console'[Len(console')] = e
    BY <2>1, <2>3, <2>4, DialogueGrows
  <2>6. ASSUME NEW d \in Cmds, ~Over(d)' PROVE Latest(d)'
    <3>1. ~Over(d)
      BY <2>1, <2>2, <2>6 DEF Over
    <3>2. d = c
      BY <2>1, <2>2, <3>1 DEF TalkInv, Latest
    <3>3. QED
      BY <2>3, <2>5, <3>2 DEF Latest
  <2>7. QED
    BY <2>1, <2>5, <2>6 DEF TalkInv
<1>3. ASSUME NEW c \in Cmds, Select(c)
      PROVE  TalkInv'
  <2>1. UNCHANGED browser
    BY <1>3 DEF Select, goroutine, browser
  <2>2. ~Over(c) /\ \A d \in Cmds : d # c => cmd'[d] = cmd[d] /\ task'[d] = task[d]
    BY <1>3 DEF Select, goroutine, Over
  <2>3. \A d \in Cmds : task[d] = "over" => task'[d] = "over"
    BY <1>3 DEF Select, goroutine
  <2>4. QED
    BY <2>1, <2>2, <2>3, TalkKept
<1>4. ASSUME NEW c \in Cmds, SendToAgent(c)
      PROVE  TalkInv'
  <2>1. UNCHANGED browser /\ cmd[c] = "send" /\ task[c] = "none"
    BY <1>4 DEF SendToAgent, Begun
  <2>2. \A d \in Cmds : d # c => cmd'[d] = cmd[d] /\ task'[d] = task[d]
    BY <1>4 DEF SendToAgent
  <2>3. \A d \in Cmds : Over(d) => cmd'[d] = cmd[d] /\ task'[d] = task[d]
    BY <2>1, <2>2 DEF Over, browser
  <2>4. \A d \in Cmds : task[d] = "over" => task'[d] = "over"
    BY <2>1, <2>2
  <2>5. QED
    BY <2>1, <2>3, <2>4, TalkKept
<1>5. ASSUME NEW c \in Cmds, Insert(c)
      PROVE  TalkInv'
  <2>1. UNCHANGED browser
    BY <1>5 DEF Insert, goroutine, browser
  <2>2. ~Over(c) /\ \A d \in Cmds : d # c => cmd'[d] = cmd[d] /\ task'[d] = task[d]
    BY <1>5 DEF Insert, goroutine, Over
  <2>3. \A d \in Cmds : task[d] = "over" => task'[d] = "over"
    BY <1>5 DEF Insert, goroutine
  <2>4. QED
    BY <2>1, <2>2, <2>3, TalkKept
<1>6. ASSUME NEW c \in Cmds, Dial(c)
      PROVE  TalkInv'
  <2>1. UNCHANGED browser
    BY <1>6 DEF Dial, handler, browser
  <2>2. ~Over(c) /\ \A d \in Cmds : d # c => cmd'[d] = cmd[d] /\ task'[d] = task[d]
    BY <1>6 DEF Dial, handler, Over
  <2>3. \A d \in Cmds : task[d] = "over" => task'[d] = "over"
    BY <1>6 DEF Dial, handler
  <2>4. QED
    BY <2>1, <2>2, <2>3, TalkKept
<1>7. ASSUME NEW c \in Cmds, (task[c] = "dial" \/ Connected(c)), Fails(c)
      PROVE  TalkInv'
  <2>1. UNCHANGED browser
    BY <1>7 DEF Fails, Return, handler, Connected, browser
  <2>2. ~Over(c) /\ \A d \in Cmds : d # c => cmd'[d] = cmd[d] /\ task'[d] = task[d]
    BY <1>7 DEF Fails, Return, handler, Connected, Over
  <2>3. \A d \in Cmds : task[d] = "over" => task'[d] = "over"
    BY <1>7 DEF Fails, Return, handler, Connected
  <2>4. QED
    BY <2>1, <2>2, <2>3, TalkKept
<1>8. ASSUME NEW c \in Cmds, Write(c)
      PROVE  TalkInv'
  <2>1. UNCHANGED browser
    BY <1>8 DEF Write, handler, browser
  <2>2. ~Over(c) /\ \A d \in Cmds : d # c => cmd'[d] = cmd[d] /\ task'[d] = task[d]
    BY <1>8 DEF Write, handler, Over
  <2>3. \A d \in Cmds : task[d] = "over" => task'[d] = "over"
    BY <1>8 DEF Write, handler
  <2>4. QED
    BY <2>1, <2>2, <2>3, TalkKept
<1>9. ASSUME NEW c \in Cmds, NEW n \in 1 .. MaxSize, Read(c, n)
      PROVE  TalkInv'
  <2>1. /\ task[c] \in {"size", "rest"}
        /\ UNCHANGED <<handler, browser>>
        /\ \/ ReadsMore(c, n) \/ ReadsSize(c, n) \/ ReadsAccept(c, n)
           \/ ReadsEnd(c, n)
    BY <1>9, ReadOutcomes
  <2>2. \A d \in Cmds : d # c => task'[d] = task[d]
    BY <2>1 DEF ReadsMore, ReadsSize, ReadsAccept, ReadsEnd, Return
  <2>3. \A d \in Cmds : Over(d) => cmd'[d] = cmd[d] /\ task'[d] = task[d]
    BY <2>1, <2>2 DEF Over, handler
  <2>4. QED
    BY <2>1, <2>2, <2>3, TalkKept
<1>10. ASSUME NEW c \in Cmds, Report(c)
      PROVE  TalkInv'
  <2> SUFFICES ASSUME ~hurried' PROVE TalkInv'
    BY DEF TalkInv
  <2>1. /\ task[c] = "report" /\ task' = [task EXCEPT ![c] = "over"]
        /\ relay' = Append(relay, c) /\ ~hurried /\ UNCHANGED <<handler, console>>
    BY <1>10 DEF Report, Forget
  <2>2. ~Over(c) /\ Latest(c)
    BY <2>1 DEF Over, TalkInv
  <2>3. relay = <<>>
    <3>1. ASSUME relay # <<>> PROVE FALSE
      <4>1. 1 \in DOMAIN relay /\ relay[1] \in Cmds
        BY <3>1
      <4>2. ~Over(relay[1]) /\ task[relay[1]] = "over"
        BY <2>1, <4>1 DEF Over, TalkInv
      <4>3. Latest(relay[1])
        BY <2>1, <4>1, <4>2 DEF TalkInv
      <4>4. QED
        BY <2>1, <2>2, <4>2, <4>3 DEF Latest
    <3>2. QED
      BY <3>1
  <2>4. relay' = <<c>>
    BY <2>1, <2>3
  <2>5. ASSUME NEW d \in Cmds, ~Over(d)' PROVE Latest(d)'
    <3>1. ~Over(d)
      BY <2>1, <2>2, <2>4, <2>5 DEF Over, handler
    <3>2. d = c
      BY <2>1, <2>2, <3>1 DEF TalkInv, Latest
    <3>3. QED
      BY <2>1, <2>2, <3>2 DEF Latest
  <2>6. QED
    BY <2>1, <2>4, <2>5 DEF TalkInv, ConsoleIsDialogue
<1>11. ASSUME NEW c \in Cmds, Lost(c)
      PROVE  TalkInv'
  <2>1. UNCHANGED browser
    BY <1>11 DEF Lost, Forget, browser
  <2>2. ~Over(c) /\ cmd' = cmd /\ \A d \in Cmds : d # c => task'[d] = task[d]
    <3>1. task[c] \notin {"none", "over"}
      BY <1>11 DEF Lost
    <3>2. QED
      BY <1>11, <3>1 DEF Lost, Forget, handler, Over
  <2>3. \A d \in Cmds : task[d] = "over" => task'[d] = "over"
    BY <1>11 DEF Lost, Forget
  <2>4. QED
    BY <2>1, <2>2, <2>3, TalkKept
<1>12. ASSUME NEW c \in Cmds, Answer(c)
      PROVE  TalkInv'
  <2>1. UNCHANGED browser
    BY <1>12 DEF Answer, handler, goroutine, browser
  <2>2. UNCHANGED <<cmd, task>>
    BY <1>12 DEF Answer, handler, goroutine
  <2>3. \A d \in Cmds : task[d] = "over" => task'[d] = "over"
    BY <1>12 DEF Answer, handler, goroutine
  <2>4. QED
    BY <2>1, <2>2, <2>3, TalkKept
<1>13. CASE Show
  <2> SUFFICES ASSUME ~hurried' PROVE TalkInv'
    BY DEF TalkInv
  <2> DEFINE c == Head(relay)
             e == [kind |-> "reply", cmd |-> c]
  <2>1. /\ relay # <<>> /\ relay' = Tail(relay) /\ Len(relay) <= 1 /\ ~hurried
        /\ console' = Append(console, e)
        /\ UNCHANGED <<handler, goroutine, hurried>>
    BY <1>13 DEF Show, Shown, TalkInv
  <2>2. relay' = <<>> /\ c = relay[1] /\ 1 \in DOMAIN relay /\ c \in Cmds
    BY <2>1
  <2>3. ~Over(c) /\ task[c] = "over"
    BY <2>1, <2>2 DEF Over, TalkInv
  <2>4. Latest(c)
    BY <2>1, <2>2, <2>3 DEF TalkInv
  <2>5. e \in Entry
    BY <2>2 DEF Entry
  <2>6. ConsoleIsDialogue /\ e.cmd = c
    BY <2>1 DEF TalkInv
  <2> HIDE DEF c, e
  <2>7. /\ console # <<>> /\ console[Len(console)].cmd = e.cmd
        /\ console[Len(console)].kind # "reply"
    BY <2>1, <2>4, <2>6 DEF Latest
  <2>8. ConsoleIsDialogue' /\ console' # <<>> /\ console'[Len(console')] = e
    BY <2>1, <2>5, <2>6, <2>7, DialogueGrows
  <2>9. ASSUME NEW d \in Cmds, ~Over(d)' PROVE Latest(d)'
    <3>1. ~Over(d)
      BY <2>1, <2>2, <2>9 DEF Over, handler, goroutine
    <3>2. d = c
      BY <2>1, <2>4, <3>1 DEF TalkInv, Latest
    <3>3. task'[d] = "over"
      BY <2>1, <2>3, <3>2 DEF goroutine
    <3>4. QED
      BY <2>2, <2>6, <2>8, <3>2, <3>3 DEF Latest
  <2>10. QED
    BY <2>2, <2>8, <2>9 DEF TalkInv
<1>14. CASE NotShown
  <2> SUFFICES ASSUME ~hurried' PROVE TalkInv'
    BY DEF TalkInv
  <2>1. /\ relay # <<>> /\ relay' = Tail(relay) /\ Len(relay) <= 1 /\ ~hurried
        /\ UNCHANGED <<handler, goroutine, console, hurried>>
    BY <1>14 DEF NotShown, TalkInv
  <2>2. relay' = <<>>
    BY <2>1
  <2>3. ASSUME NEW d \in Cmds, ~Over(d)' PROVE Latest(d)'
    <3>1. ~Over(d)
      BY <2>1, <2>2, <2>3 DEF Over, handler, goroutine
    <3>2. QED
      BY <2>1, <2>2, <3>1 DEF TalkInv, Latest, goroutine
  <2>4. QED
    BY <2>1, <2>2, <2>3 DEF TalkInv, ConsoleIsDialogue
<1>15. CASE UNCHANGED vars
  <2>1. UNCHANGED browser /\ \A d \in Cmds : Over(d) => cmd'[d] = cmd[d] /\ task'[d] = task[d]
    BY <1>15 DEF vars, handler, goroutine, browser, Over
  <2>2. QED
    BY <1>15, <2>1, TalkKept DEF vars, goroutine
<1>16. QED
  BY <1>1, <1>2, <1>3, <1>4, <1>5, <1>6, <1>7, <1>8,
     <1>9, <1>10, <1>11, <1>12, <1>13, <1>14, <1>15
  DEF Next, Handler, Goroutine, DialFails, Expires, Breaks

(* An answer stands under its own command and a command has one, for a     *)
(* user who waits out the deadlines, though messages carry an id nobody    *)
(* looks at (server.js 115, app.js 82, agent.go 335).                      *)
THEOREM ConsoleReads == Spec => []ConsoleIsDialogue
<1>1. Init => TalkInv
  BY DEF Init, TalkInv, Over, ConsoleIsDialogue
<1>2. ASSUME TalkInv, TypeInv PROVE ConsoleIsDialogue
  BY <1>2 DEF TalkInv, ConsoleIsDialogue
<1>3. Spec => []TalkInv
  BY <1>1, TypeAlways, TalkStep, PTL DEF Spec
<1>4. QED
  BY <1>2, <1>3, TypeAlways, PTL
=============================================================================
