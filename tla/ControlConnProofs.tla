------------------------- MODULE ControlConnProofs -------------------------
(***************************************************************************)
(* Proofs about ControlConn, for any number of goroutines, any choice of   *)
(* operations and any bound on the commands.                               *)
(***************************************************************************)
EXTENDS ControlConn, TLAPS

(* Every operation makes at least one round trip, and Close is none of     *)
(* them: the table Script.                                                 *)
LEMMA ScriptFacts ==
  /\ \A o \in Ops : Script[o].trips \in Nat /\ Script[o].trips >= 1
  /\ "Close" \notin Ops
BY OpsAssumption DEF Script, SendCommand, SendCommandWithContext, SetType, Site, Rename,
  AuthTLS, Login

(* The session that Open returns satisfies the inductive invariant. *)
LEMMA InitIInv == Init => IInv
<1> SUFFICES ASSUME Init PROVE IInv
  OBVIOUS
<1>1. TypeOK
  <2>1. \A g \in Goroutines : op[g] \in Ops => step[g] \in 1..Script[op[g]].trips
    BY ScriptFacts DEF Init
  <2>2. toServer \in Seq(Nat) /\ toClient \in Seq(Reply)
    BY DEF Init
  <2> QED
    BY <2>1, <2>2 DEF Init, TypeOK
<1>2. Locked
  BY GoroutinesAssumption DEF Init, Locked
<1>3. Stream /\ DeadlineOwned
  BY DEF Init, Stream, DeadlineOwned
<1> QED
  BY <1>1, <1>2, <1>3 DEF IInv

(* A step of the code, of the server or of the clock keeps every variable  *)
(* in its type.                                                            *)
LEMMA TypeStep == IInv /\ [Next]_vars => TypeOK'
<1> SUFFICES ASSUME IInv, [Next]_vars PROVE TypeOK'
  OBVIOUS
<1> USE ScriptFacts DEF IInv, TypeOK, Locked, Reply, conn
<1>1. ASSUME NEW g \in Goroutines, NEW o \in Ops, Call(g, o) PROVE TypeOK'
  BY <1>1 DEF Call
<1>2. ASSUME NEW g \in Goroutines, CallClose(g) PROVE TypeOK'
  BY <1>2 DEF CallClose
<1>3. ASSUME NEW g \in Goroutines, Expire(g) PROVE TypeOK'
  BY <1>3 DEF Expire
<1>4. ASSUME NEW g \in Goroutines, Cancel(g) PROVE TypeOK'
  BY <1>4 DEF Cancel
<1>5. ASSUME NEW g \in Goroutines, Lock(g) PROVE TypeOK'
  BY <1>5 DEF Lock
<1>6. ASSUME NEW g \in Goroutines, Reject(g) PROVE TypeOK'
  BY <1>6 DEF Reject
<1>7. ASSUME NEW g \in Goroutines, Enter(g) PROVE TypeOK'
  BY <1>7 DEF Enter
<1>8. ASSUME NEW g \in Goroutines, Write(g) PROVE TypeOK'
  BY <1>8 DEF Write
<1>9. ASSUME NEW g \in Goroutines, IOFail(g) PROVE TypeOK'
  BY <1>9 DEF IOFail, closeLocked
<1>10. ASSUME NEW g \in Goroutines, Read(g) PROVE TypeOK'
  BY <1>10 DEF Read
<1>11. ASSUME NEW g \in Goroutines, Continue(g) PROVE TypeOK'
  BY <1>11 DEF Continue, clearDeadline
<1>12. ASSUME NEW g \in Goroutines, Return(g) PROVE TypeOK'
  BY <1>12 DEF Return, clearDeadline
<1>13. ASSUME NEW g \in Goroutines, Poke(g) PROVE TypeOK'
  BY <1>13 DEF Poke
<1>14. ASSUME NEW g \in Goroutines, Close(g) PROVE TypeOK'
  BY <1>14 DEF Close, closeLocked
<1>15. ASSUME ServerReply PROVE TypeOK'
  BY <1>15 DEF ServerReply
<1>16. ASSUME ServerWithhold PROVE TypeOK'
  BY <1>16 DEF ServerWithhold
<1>17. ASSUME ServerHangup PROVE TypeOK'
  BY <1>17 DEF ServerHangup
<1>18. ASSUME UNCHANGED vars PROVE TypeOK'
  BY <1>18 DEF vars
<1> QED
  BY <1>1, <1>2, <1>3, <1>4, <1>5, <1>6, <1>7, <1>8, <1>9, <1>10, <1>11, <1>12,
     <1>13, <1>14, <1>15, <1>16, <1>17, <1>18 DEF Next, Run, Server

(* Mutual exclusion: every step keeps the mutex where the code holds it.   *)
LEMMA LockedStep == IInv /\ [Next]_vars => Locked'
<1> SUFFICES ASSUME IInv, [Next]_vars PROVE Locked'
  OBVIOUS
<1> USE ScriptFacts, GoroutinesAssumption DEF IInv, TypeOK, Locked, conn
<1>1. ASSUME NEW g \in Goroutines, NEW o \in Ops, Call(g, o) PROVE Locked'
  BY <1>1 DEF Call
<1>2. ASSUME NEW g \in Goroutines, CallClose(g) PROVE Locked'
  BY <1>2 DEF CallClose
<1>3. ASSUME NEW g \in Goroutines, Expire(g) PROVE Locked'
  BY <1>3 DEF Expire
<1>4. ASSUME NEW g \in Goroutines, Cancel(g) PROVE Locked'
  BY <1>4 DEF Cancel
<1>5. ASSUME NEW g \in Goroutines, Lock(g) PROVE Locked'
  BY <1>5 DEF Lock
<1>6. ASSUME NEW g \in Goroutines, Reject(g) PROVE Locked'
  BY <1>6 DEF Reject
<1>7. ASSUME NEW g \in Goroutines, Enter(g) PROVE Locked'
  BY <1>7 DEF Enter
<1>8. ASSUME NEW g \in Goroutines, Write(g) PROVE Locked'
  BY <1>8 DEF Write
<1>9. ASSUME NEW g \in Goroutines, IOFail(g) PROVE Locked'
  BY <1>9 DEF IOFail, closeLocked
<1>10. ASSUME NEW g \in Goroutines, Read(g) PROVE Locked'
  BY <1>10 DEF Read
<1>11. ASSUME NEW g \in Goroutines, Continue(g) PROVE Locked'
  BY <1>11 DEF Continue, clearDeadline
<1>12. ASSUME NEW g \in Goroutines, Return(g) PROVE Locked'
  BY <1>12 DEF Return, clearDeadline
<1>13. ASSUME NEW g \in Goroutines, Poke(g) PROVE Locked'
  BY <1>13 DEF Poke
<1>14. ASSUME NEW g \in Goroutines, Close(g) PROVE Locked'
  BY <1>14 DEF Close, closeLocked
<1>15. ASSUME ServerReply PROVE Locked'
  BY <1>15 DEF ServerReply
<1>16. ASSUME ServerWithhold PROVE Locked'
  BY <1>16 DEF ServerWithhold
<1>17. ASSUME ServerHangup PROVE Locked'
  BY <1>17 DEF ServerHangup
<1>18. ASSUME UNCHANGED vars PROVE Locked'
  BY <1>18 DEF vars
<1> QED
  BY <1>1, <1>2, <1>3, <1>4, <1>5, <1>6, <1>7, <1>8, <1>9, <1>10, <1>11, <1>12,
     <1>13, <1>14, <1>15, <1>16, <1>17, <1>18 DEF Next, Run, Server

(* No step leaves a command or a reply behind on an open session.          *)
LEMMA StreamStep == IInv /\ [Next]_vars => Stream'
<1> SUFFICES ASSUME IInv, [Next]_vars PROVE Stream'
  OBVIOUS
<1> USE GoroutinesAssumption DEF IInv, TypeOK, Locked, Stream, conn, Reply
<1>1. ASSUME NEW g \in Goroutines, NEW o \in Ops, Call(g, o) PROVE Stream'
  BY <1>1 DEF Call
<1>2. ASSUME NEW g \in Goroutines, CallClose(g) PROVE Stream'
  BY <1>2 DEF CallClose
<1>3. ASSUME NEW g \in Goroutines, Expire(g) PROVE Stream'
  BY <1>3 DEF Expire
<1>4. ASSUME NEW g \in Goroutines, Cancel(g) PROVE Stream'
  BY <1>4 DEF Cancel
<1>5. ASSUME NEW g \in Goroutines, Lock(g) PROVE Stream'
  BY <1>5 DEF Lock
<1>6. ASSUME NEW g \in Goroutines, Reject(g) PROVE Stream'
  BY <1>6 DEF Reject
<1>7. ASSUME NEW g \in Goroutines, Enter(g) PROVE Stream'
  BY <1>7 DEF Enter
<1>8. ASSUME NEW g \in Goroutines, Write(g) PROVE Stream'
  <2>1. mu = g /\ toServer = <<>> /\ toClient = <<>>
    BY <1>8 DEF Write
  <2>2. toServer' = <<sent'>> /\ toClient' = <<>>
    BY <1>8, <2>1 DEF Write
  <2>3. mu' # NoOne /\ pc'[mu'] = "read"
    BY <1>8, <2>1 DEF Write
  <2> QED
    BY <2>2, <2>3
<1>9. ASSUME NEW g \in Goroutines, IOFail(g) PROVE Stream'
  BY <1>9 DEF IOFail, closeLocked
<1>10. ASSUME NEW g \in Goroutines, Read(g) PROVE Stream'
  <2>1. ~isClosed /\ mu = g
    BY <1>10 DEF Read
  <2>2. PICK r \in Reply : toServer = <<>> /\ toClient = <<r>>
    BY <1>10, <2>1 DEF Read
  <2>3. toServer' = <<>> /\ toClient' = <<>>
    BY <1>10, <2>2 DEF Read
  <2> QED
    BY <2>3
<1>11. ASSUME NEW g \in Goroutines, Continue(g) PROVE Stream'
  BY <1>11 DEF Continue, clearDeadline
<1>12. ASSUME NEW g \in Goroutines, Return(g) PROVE Stream'
  BY <1>12 DEF Return, clearDeadline
<1>13. ASSUME NEW g \in Goroutines, Poke(g) PROVE Stream'
  BY <1>13 DEF Poke
<1>14. ASSUME NEW g \in Goroutines, Close(g) PROVE Stream'
  BY <1>14 DEF Close, closeLocked
<1>15. ASSUME ServerReply PROVE Stream'
  <2> SUFFICES ASSUME ~isClosed PROVE Stream'
    BY <1>15 DEF ServerReply
  <2>1. mu # NoOne /\ pc[mu] = "read" /\ toServer = <<sent>> /\ toClient = <<>>
    BY <1>15 DEF ServerReply
  <2>2. PICK c \in {"expected", "other"} :
          toClient' = Append(toClient, [tag |-> Head(toServer), code |-> c])
    BY <1>15 DEF ServerReply
  <2> DEFINE r == [tag |-> sent, code |-> c]
  <2>3. r \in Reply /\ r.tag = sent
    OBVIOUS
  <2>4. toClient' = <<r>>
    BY <2>1, <2>2
  <2>5. toServer' = <<>>
    BY <1>15, <2>1 DEF ServerReply
  <2>6. mu' = mu /\ pc' = pc /\ sent' = sent
    BY <1>15 DEF ServerReply
  <2> HIDE DEF r
  <2> QED
    BY <2>1, <2>3, <2>4, <2>5, <2>6
<1>16. ASSUME ServerWithhold PROVE Stream'
  <2>1. ~isClosed => toServer = <<sent>> /\ toClient = <<>>
    BY <1>16 DEF ServerWithhold
  <2>2. toServer = <<sent>> => Tail(toServer) = <<>>
    OBVIOUS
  <2>3. toServer' = Tail(toServer) /\ toClient' = toClient /\ isClosed' = isClosed
    BY <1>16 DEF ServerWithhold
  <2> QED
    BY <2>1, <2>2, <2>3
<1>17. ASSUME ServerHangup PROVE Stream'
  BY <1>17 DEF ServerHangup
<1>18. ASSUME UNCHANGED vars PROVE Stream'
  BY <1>18 DEF vars
<1> QED
  BY <1>1, <1>2, <1>3, <1>4, <1>5, <1>6, <1>7, <1>8, <1>9, <1>10, <1>11, <1>12,
     <1>13, <1>14, <1>15, <1>16, <1>17, <1>18 DEF Next, Run, Server

(* No step lets a deadline outlive the command or the Close that set it.   *)
LEMMA DeadlineStep == IInv /\ [Next]_vars => DeadlineOwned'
<1> SUFFICES ASSUME IInv, [Next]_vars PROVE DeadlineOwned'
  OBVIOUS
<1> USE GoroutinesAssumption DEF IInv, TypeOK, Locked, DeadlineOwned, Kind, conn
<1>1. ASSUME NEW g \in Goroutines, NEW o \in Ops, Call(g, o) PROVE DeadlineOwned'
  BY <1>1 DEF Call
<1>2. ASSUME NEW g \in Goroutines, CallClose(g) PROVE DeadlineOwned'
  BY <1>2 DEF CallClose
<1>3. ASSUME NEW g \in Goroutines, Expire(g) PROVE DeadlineOwned'
  BY <1>3 DEF Expire
<1>4. ASSUME NEW g \in Goroutines, Cancel(g) PROVE DeadlineOwned'
  BY <1>4 DEF Cancel
<1>5. ASSUME NEW g \in Goroutines, Lock(g) PROVE DeadlineOwned'
  BY <1>5 DEF Lock
<1>6. ASSUME NEW g \in Goroutines, Reject(g) PROVE DeadlineOwned'
  BY <1>6 DEF Reject
<1>7. ASSUME NEW g \in Goroutines, Enter(g) PROVE DeadlineOwned'
  BY <1>7 DEF Enter
<1>8. ASSUME NEW g \in Goroutines, Write(g) PROVE DeadlineOwned'
  BY <1>8 DEF Write
<1>9. ASSUME NEW g \in Goroutines, IOFail(g) PROVE DeadlineOwned'
  BY <1>9 DEF IOFail, closeLocked
<1>10. ASSUME NEW g \in Goroutines, Read(g) PROVE DeadlineOwned'
  BY <1>10 DEF Read
<1>11. ASSUME NEW g \in Goroutines, Continue(g) PROVE DeadlineOwned'
  BY <1>11 DEF Continue, clearDeadline
<1>12. ASSUME NEW g \in Goroutines, Return(g) PROVE DeadlineOwned'
  BY <1>12 DEF Return, clearDeadline
<1>13. ASSUME NEW g \in Goroutines, Poke(g) PROVE DeadlineOwned'
  BY <1>13 DEF Poke
<1>14. ASSUME NEW g \in Goroutines, Close(g) PROVE DeadlineOwned'
  BY <1>14 DEF Close, closeLocked
<1>15. ASSUME ServerReply PROVE DeadlineOwned'
  BY <1>15 DEF ServerReply
<1>16. ASSUME ServerWithhold PROVE DeadlineOwned'
  BY <1>16 DEF ServerWithhold
<1>17. ASSUME ServerHangup PROVE DeadlineOwned'
  BY <1>17 DEF ServerHangup
<1>18. ASSUME UNCHANGED vars PROVE DeadlineOwned'
  BY <1>18 DEF vars
<1> QED
  BY <1>1, <1>2, <1>3, <1>4, <1>5, <1>6, <1>7, <1>8, <1>9, <1>10, <1>11, <1>12,
     <1>13, <1>14, <1>15, <1>16, <1>17, <1>18 DEF Next, Run, Server

(* The inductive invariant holds in every reachable state: the mutex is    *)
(* where the code holds it, an open session carries no stale reply and no  *)
(* stray deadline.                                                         *)
THEOREM SessionInvariant == Spec => []IInv
<1>1. IInv /\ [Next]_vars => IInv'
  BY TypeStep, LockedStep, StreamStep, DeadlineStep DEF IInv
<1> QED
  BY InitIInv, <1>1, PTL DEF Spec

(* TypeOK for any number of goroutines. *)
THEOREM TypeCorrect == Spec => []TypeOK
<1>1. IInv => TypeOK
  BY DEF IInv
<1> QED
  BY SessionInvariant, <1>1, PTL

(* A goroutine waiting for a reply can only read the reply to its own      *)
(* command, and an idle open session has nothing left in the stream.       *)
THEOREM RepliesInSync == Spec => []InSync
<1>1. IInv => InSync
  <2> SUFFICES ASSUME IInv, ~isClosed PROVE InSync
    BY DEF InSync
  <2>1. \A g \in Goroutines : pc[g] = "read" => mu = g
    BY DEF IInv, Locked
  <2>2. mu = NoOne \/ pc[mu] # "read" => toServer = <<>> /\ toClient = <<>>
    BY DEF IInv, Stream
  <2>3. CASE toServer = <<>> /\ toClient = <<>>
    BY <2>3 DEF InSync
  <2>4. CASE toServer = <<sent>> /\ toClient = <<>>
    BY <2>4, <2>2 DEF InSync
  <2>5. ASSUME NEW r \in Reply, r.tag = sent, toServer = <<>>, toClient = <<r>>
        PROVE InSync
    BY <2>5, <2>2 DEF InSync
  <2> QED
    BY <2>3, <2>4, <2>5 DEF IInv, Stream
<1> QED
  BY SessionInvariant, <1>1, PTL

(* A deadline on an open session's socket has a live owner. *)
THEOREM DeadlinesOwned == Spec => []DeadlineOwned
<1>1. IInv => DeadlineOwned
  BY DEF IInv
<1> QED
  BY SessionInvariant, <1>1, PTL

(* A closed session is never reopened and nothing more is written on it. *)
THEOREM ClosedFinal == Spec => ClosedIsFinal
<1>1. IInv /\ [Next]_vars => [isClosed => isClosed' /\ sent' = sent]_vars
  <2> SUFFICES ASSUME IInv, [Next]_vars, isClosed PROVE isClosed' /\ sent' = sent
    OBVIOUS
  <2> USE DEF IInv, Locked, conn, closeLocked
  <2>1. CASE UNCHANGED vars
    BY <2>1 DEF vars
  <2>2. CASE Server
    BY <2>2 DEF Server, ServerReply, ServerWithhold, ServerHangup
  <2>3. ASSUME NEW g \in Goroutines, NEW o \in Ops, Call(g, o)
        PROVE isClosed' /\ sent' = sent
    BY <2>3 DEF Call
  <2>4. ASSUME NEW g \in Goroutines,
               CallClose(g) \/ Expire(g) \/ Cancel(g) \/ Lock(g) \/ Close(g)
        PROVE isClosed' /\ sent' = sent
    BY <2>4 DEF CallClose, Expire, Cancel, Lock, Close
  <2>5. ASSUME NEW g \in Goroutines, Run(g) PROVE isClosed' /\ sent' = sent
    BY <2>5 DEF Run, Reject, Enter, Write, IOFail, Read, Continue, Return, Poke
  <2> QED
    BY <2>1, <2>2, <2>3, <2>4, <2>5 DEF Next
<1> QED
  BY SessionInvariant, <1>1, PTL DEF Spec, ClosedIsFinal
---------------------------------------------------------------------------
(* ControlConn implements SerialSession. *)

(* A step keeps the count of own replies and the result of a call true. *)
LEMMA ProgressStep == IInv /\ Progress /\ [Next]_vars => Progress'
<1> SUFFICES ASSUME IInv, Progress, [Next]_vars PROVE Progress'
  OBVIOUS
<1> USE ScriptFacts, GoroutinesAssumption DEF IInv, TypeOK, Locked, Progress, conn
<1>1. ASSUME NEW g \in Goroutines, NEW o \in Ops, Call(g, o) PROVE Progress'
  BY <1>1 DEF Call
<1>2. ASSUME NEW g \in Goroutines, CallClose(g) PROVE Progress'
  BY <1>2 DEF CallClose
<1>3. ASSUME NEW g \in Goroutines, Expire(g) PROVE Progress'
  BY <1>3 DEF Expire
<1>4. ASSUME NEW g \in Goroutines, Cancel(g) PROVE Progress'
  BY <1>4 DEF Cancel
<1>5. ASSUME NEW g \in Goroutines, Lock(g) PROVE Progress'
  BY <1>5 DEF Lock
<1>6. ASSUME NEW g \in Goroutines, Reject(g) PROVE Progress'
  BY <1>6 DEF Reject
<1>7. ASSUME NEW g \in Goroutines, Enter(g) PROVE Progress'
  BY <1>7 DEF Enter
<1>8. ASSUME NEW g \in Goroutines, Write(g) PROVE Progress'
  BY <1>8 DEF Write
<1>9. ASSUME NEW g \in Goroutines, IOFail(g) PROVE Progress'
  BY <1>9 DEF IOFail, closeLocked
<1>10. ASSUME NEW g \in Goroutines, Read(g) PROVE Progress'
  <2>1. /\ ~isClosed /\ mu = g /\ op[g] \in Ops
    BY <1>10 DEF Read
  <2>2. PICK r \in Reply : r.tag = sent /\ toServer = <<>> /\ toClient = <<r>>
    BY <1>10, <2>1 DEF Read, Stream
  <2>3. Head(toClient).tag = sent
    BY <2>2
  <2> QED
    BY <1>10, <2>1, <2>3 DEF Read
<1>11. ASSUME NEW g \in Goroutines, Continue(g) PROVE Progress'
  BY <1>11 DEF Continue, clearDeadline
<1>12. ASSUME NEW g \in Goroutines, Return(g) PROVE Progress'
  BY <1>12 DEF Return, clearDeadline
<1>13. ASSUME NEW g \in Goroutines, Poke(g) PROVE Progress'
  BY <1>13 DEF Poke
<1>14. ASSUME NEW g \in Goroutines, Close(g) PROVE Progress'
  BY <1>14 DEF Close, closeLocked
<1>15. ASSUME ServerReply PROVE Progress'
  BY <1>15 DEF ServerReply
<1>16. ASSUME ServerWithhold PROVE Progress'
  BY <1>16 DEF ServerWithhold
<1>17. ASSUME ServerHangup PROVE Progress'
  BY <1>17 DEF ServerHangup
<1>18. ASSUME UNCHANGED vars PROVE Progress'
  BY <1>18 DEF vars
<1> QED
  BY <1>1, <1>2, <1>3, <1>4, <1>5, <1>6, <1>7, <1>8, <1>9, <1>10, <1>11, <1>12, <1>13,
     <1>14, <1>15, <1>16, <1>17, <1>18
  DEF Next, Run, Server

LEMMA InitProgress == Init => Progress
BY DEF Init, Progress

(* The mapped first state is the abstract first state. *)
LEMMA InitSerial == Init => Serial!Init
BY DEF Init, Serial!Init

(* A step of the code takes an abstract step or none: Lock begins a turn,   *)
(* Read answers, IOFail breaks the session, Reject and Return end the turn *)
(* and Close shuts the session; all other steps are invisible.             *)
LEMMA SerialStep == IInv /\ Progress /\ [Next]_vars => [Serial!Next]_Serial!vars
<1> SUFFICES ASSUME IInv, Progress, [Next]_vars PROVE [Serial!Next]_Serial!vars
  OBVIOUS
<1> USE ScriptFacts, GoroutinesAssumption DEF IInv, TypeOK, Locked, Progress, conn, Serial!vars
<1>1. ASSUME NEW g \in Goroutines, NEW o \in Ops, Call(g, o) PROVE [Serial!Next]_Serial!vars
  <2>1. Serial!Invoke(g, o)
    BY <1>1 DEF Call, Serial!Invoke
  <2> QED
    BY <2>1 DEF Serial!Next
<1>2. ASSUME NEW g \in Goroutines, CallClose(g) PROVE [Serial!Next]_Serial!vars
  <2>1. Serial!Invoke(g, "Close")
    BY <1>2 DEF CallClose, Serial!Invoke
  <2> QED
    BY <2>1 DEF Serial!Next
<1>3. ASSUME NEW g \in Goroutines, Expire(g) PROVE [Serial!Next]_Serial!vars
  BY <1>3 DEF Expire
<1>4. ASSUME NEW g \in Goroutines, Cancel(g) PROVE [Serial!Next]_Serial!vars
  BY <1>4 DEF Cancel
<1>5. ASSUME NEW g \in Goroutines, Lock(g) PROVE [Serial!Next]_Serial!vars
  <2>1. Serial!Begin(g)
    BY <1>5 DEF Lock, Serial!Begin
  <2> QED
    BY <2>1 DEF Serial!Next
<1>6. ASSUME NEW g \in Goroutines, Reject(g) PROVE [Serial!Next]_Serial!vars
  <2>1. PICK outcome \in {"failed", "ctx"} : outcome = IF isClosed THEN "failed" ELSE "ctx"
    OBVIOUS
  <2>2. Serial!End(g, outcome)
    BY <1>6, <2>1 DEF Reject, Serial!End
  <2>3. outcome \in Serial!Outcomes \ {"shut"}
    BY DEF Serial!Outcomes
  <2> QED
    BY <2>2, <2>3 DEF Serial!Next
<1>7. ASSUME NEW g \in Goroutines, Enter(g) PROVE [Serial!Next]_Serial!vars
  BY <1>7 DEF Enter
<1>8. ASSUME NEW g \in Goroutines, Write(g) PROVE [Serial!Next]_Serial!vars
  BY <1>8 DEF Write
<1>9. ASSUME NEW g \in Goroutines, IOFail(g) PROVE [Serial!Next]_Serial!vars
  <2>1. Serial!Break(g)
    BY <1>9 DEF IOFail, closeLocked, Serial!Break
  <2> QED
    BY <2>1 DEF Serial!Next
<1>10. ASSUME NEW g \in Goroutines, Read(g) PROVE [Serial!Next]_Serial!vars
  <2>1. /\ ~isClosed /\ mu = g /\ op[g] \in Ops
    BY <1>10 DEF Read
  <2>2. PICK r \in Reply : r.tag = sent /\ toServer = <<>> /\ toClient = <<r>>
    BY <1>10, <2>1 DEF Read, Stream
  <2>3. Head(toClient).tag = sent
    BY <2>2
  <2>4. got[g] < Script[op[g]].trips
    BY <1>10, <2>1 DEF Read
  <2>5. Serial!Answer(g)
    BY <1>10, <2>1, <2>3, <2>4 DEF Read, Serial!Answer
  <2> QED
    BY <2>5 DEF Serial!Next
<1>11. ASSUME NEW g \in Goroutines, Continue(g) PROVE [Serial!Next]_Serial!vars
  BY <1>11 DEF Continue, clearDeadline
<1>12. ASSUME NEW g \in Goroutines, Return(g) PROVE [Serial!Next]_Serial!vars
  <2>1. mu = g /\ op[g] \in Ops /\ pc'[g] = "idle"
    BY <1>12 DEF Return
  <2>2. PICK outcome : outcome = res[g]
    OBVIOUS
  <2>3. Serial!End(g, outcome)
    BY <1>12, <2>1, <2>2 DEF Return, clearDeadline, Serial!End
  <2>4. outcome \in Serial!Outcomes \ {"shut"}
    BY <1>12, <2>2 DEF Return, Serial!Outcomes
  <2> QED
    BY <2>3, <2>4 DEF Serial!Next
<1>13. ASSUME NEW g \in Goroutines, Poke(g) PROVE [Serial!Next]_Serial!vars
  BY <1>13 DEF Poke
<1>14. ASSUME NEW g \in Goroutines, Close(g) PROVE [Serial!Next]_Serial!vars
  <2>1. Serial!Shut(g)
    BY <1>14 DEF Close, closeLocked, Serial!Shut
  <2> QED
    BY <2>1 DEF Serial!Next
<1>15. ASSUME ServerReply PROVE [Serial!Next]_Serial!vars
  BY <1>15 DEF ServerReply
<1>16. ASSUME ServerWithhold PROVE [Serial!Next]_Serial!vars
  BY <1>16 DEF ServerWithhold
<1>17. ASSUME ServerHangup PROVE [Serial!Next]_Serial!vars
  BY <1>17 DEF ServerHangup
<1>18. ASSUME UNCHANGED vars PROVE [Serial!Next]_Serial!vars
  BY <1>18 DEF vars
<1> QED
  BY <1>1, <1>2, <1>3, <1>4, <1>5, <1>6, <1>7, <1>8, <1>9, <1>10, <1>11, <1>12, <1>13,
     <1>14, <1>15, <1>16, <1>17, <1>18
  DEF Next, Run, Server

(* The goroutines that share a session see calls that take turns: a call   *)
(* succeeds only in its own turn, on an open session, after each of its    *)
(* commands got its own reply, and a closed session stays closed.          *)
THEOREM ImplementsSerialSession == Spec => Serialized
<1>1. IInv /\ Progress /\ [Next]_vars => (IInv /\ Progress)'
  BY TypeStep, LockedStep, StreamStep, DeadlineStep, ProgressStep DEF IInv
<1>2. Init => IInv /\ Progress
  BY InitIInv, InitProgress
<1> QED
  BY <1>1, <1>2, InitSerial, SerialStep, PTL DEF Spec, Serialized, Serial!Spec
=============================================================================
