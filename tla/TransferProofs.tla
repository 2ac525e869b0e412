--------------------------- MODULE TransferProofs ---------------------------
(***************************************************************************)
(* Proofs about Transfer.  Types, the ownership of the mutex and the fate  *)
(* of the data connections are proved for any number of goroutines and any *)
(* server; that replies, types and results agree, for one goroutine beside *)
(* any number that close, a server that announces with 125, and data       *)
(* connections that close: the runs transfer_150 and transfer_shared show  *)
(* that it fails without.                                                  *)
(***************************************************************************)
EXTENDS Transfer, SequenceTheorems, TLAPS

(* What the two directions of the control stream hold. *)
Kinds == {"Store", "Retrieve", "List", "Delete", "SetType"}
Orders == {o \in [by : Users, at : Trips, arg : Types \cup Kinds] :
             o.at \in {"type", "restore", "set"} => o.arg \in Types}
Replies == [by : Users, at : Trips \cup {"check"}, port : Ports \cup {NoPort},
            code : {"5xx", "200", "227", "350", "250", "226", "426"} \cup Prelim]
Jobs == [on : {TRUE}, by : Users, kind : Types \cup Kinds, conn : Users, type : Types,
         rest : BOOLEAN, ok : BOOLEAN, stage : {"data", "term"}]

Messages ==
  /\ inbox \in Seq(Orders)
  /\ replies \in Seq(Replies)
  /\ job \in Jobs \cup {NoJob}

(* Only an open session is waited on, and a restore only where it is due.  *)
HeldOpen == mu # NoOne => ~isClosed /\ (pc[mu] = "restore" => NeedsRestore(mu))

(* An open data connection belongs to a call between its dial and its      *)
(* cleanup, and a registered one is open, under the port of its call.      *)
Living == {"rest", "xfer", "data", "abort", "confirm", "check", "cleanup"}
Children ==
  \A u \in Users :
    /\ child[u] = "open" => pc[u] \in Living
    /\ \A p \in Ports : registry[p] = u => child[u] = "open" /\ port[u] = p

AnyInv == TypeOK /\ Messages /\ HeldOpen /\ Children

---------------------------------------------------------------------------
(* The invariant of a session with one goroutine. *)
Moving == {"data", "confirm", "check", "abort"}

(* Replies that end a transfer: none, one, or an error and one more.  A    *)
(* completion is true, unless the download was reset.                      *)
Terminated(t, u) ==
  /\ Len(t) <= 2
  /\ Len(t) = 2 => t[1].code = "426"
  /\ \A j \in 1..Len(t) : t[j].at = "check"
  /\ t # <<>> /\ t[1].code \in {"250", "226"} =>
       served[u] \/ (call[u].kind # "Store" /\ peer[u] = "rst")

(* The transfer that u asked for is running, or has ended with t. *)
InTransfer(t, u) == IF job.on THEN t = <<>> ELSE Terminated(t, u)

Stream ==
  ~isClosed => \A u \in Users :
    /\ inbox # <<>> => /\ mu = u /\ pc[u] \in Trips
                       /\ Tail(inbox) = <<>> /\ Head(inbox).at = pc[u]
                       /\ Head(inbox).arg = Arg(u)
                       /\ replies = <<>> /\ ~job.on
    /\ mu = NoOne /\ pc[u] \notin Moving => inbox = <<>> /\ replies = <<>> /\ ~job.on
    /\ mu = u /\ pc[u] \in Trips /\ inbox = <<>> =>
         /\ replies # <<>> /\ Head(replies).at = pc[u]
         /\ IF pc[u] = "xfer" /\ Head(replies).code = "125"
            THEN InTransfer(Tail(replies), u) ELSE Tail(replies) = <<>> /\ ~job.on
    /\ pc[u] \in Moving => inbox = <<>> /\ InTransfer(replies, u)

(* The server has not yet taken the data connection that u dialled. *)
Waiting(u) == pc[u] = "rest" \/ (pc[u] = "xfer" /\ (mu = NoOne \/ inbox # <<>>))

Connected ==
  ~isClosed => \A u \in Users :
    /\ Waiting(u) => queued = u /\ peer[u] = "open"
    /\ job.on => /\ job.kind = call[u].kind /\ job.type = call[u].t /\ job.rest = call[u].off
                 /\ job.stage = "data" => peer[u] = "open"
    /\ pc[u] \in {"rest", "xfer", "data"} => child[u] = "open"
    /\ pc[u] \in {"confirm", "check"} /\ call[u].kind # "Store" => peer[u] = "eof"

(* REST holds from its 350 to the transfer; one that no transfer followed  *)
(* is gone by the answer to the next PASV.                                 *)
Restarted ==
  ~isClosed => \A u \in Users :
    /\ pc[u] = "rest" => call[u].off
    /\ Waiting(u) => (srvRest <=> /\ call[u].off
                                  /\ pc[u] = "rest" =>
                                       replies # <<>> /\ Head(replies).code = "350")
    /\ pc[u] = "dial" \/ (pc[u] = "pasv" /\ mu = u /\ inbox = <<>>) => ~srvRest

(* The type is in doubt only while the reply to TYPE is on its way. *)
Typed ==
  ~isClosed => \A u \in Users :
    /\ srvType = IF /\ mu = u /\ pc[u] \in {"type", "set", "restore"}
                    /\ inbox = <<>> /\ Head(replies).code = "200"
                 THEN Arg(u) ELSE currType
    /\ pc[u] \in Living \cup {"pasv", "dial", "restore"} => currType = call[u].t
    /\ ~unrestored =>
         /\ pc[u] # "idle" => saved[u] = wanted
         /\ pc[u] \in {"idle", "site", "type", "delete", "set"} => currType = wanted

(* A result is known only at the end of the call. *)
Reported ==
  \A u \in Users :
    /\ res[u] = "ok" => served[u] /\ pc[u] \in {"cleanup", "restore", "idle"}
    /\ ~isClosed /\ mu = u /\ pc[u] \in {"set", "delete"} /\ inbox = <<>>
         /\ Head(replies).code = Expect[pc[u]] => served[u]

OneInv == Stream /\ Connected /\ Restarted /\ Typed /\ Reported


---------------------------------------------------------------------------
(* The round trips, and what follows them. *)
LEMMA TripFacts ==
  /\ Trips = {"site", "type", "pasv", "rest", "xfer", "restore", "set", "delete"}
  /\ DOMAIN NextOK = Trips \cup {"check"}
  /\ DOMAIN NextErr = Trips \cup {"check", "dial"}
BY DEF Trips, Expect, NextOK, NextErr

LEMMA ExpectFacts ==
  /\ Expect["site"] = "200" /\ Expect["type"] = "200" /\ Expect["pasv"] = "227"
  /\ Expect["rest"] = "350" /\ Expect["xfer"] = "125" /\ Expect["restore"] = "200"
  /\ Expect["set"] = "200" /\ Expect["delete"] = "250"
BY DEF Expect

LEMMA NextOKFacts ==
  /\ NextOK["site"] = "type" /\ NextOK["type"] = "pasv" /\ NextOK["pasv"] = "dial"
  /\ NextOK["rest"] = "xfer" /\ NextOK["xfer"] = "data" /\ NextOK["restore"] = "idle"
  /\ NextOK["set"] = "idle" /\ NextOK["delete"] = "idle"
BY DEF NextOK

LEMMA NextErrFacts ==
  /\ NextErr["site"] = "idle" /\ NextErr["type"] = "idle" /\ NextErr["pasv"] = "restore"
  /\ NextErr["dial"] = "restore" /\ NextErr["rest"] = "cleanup" /\ NextErr["xfer"] = "cleanup"
  /\ NextErr["check"] = "cleanup" /\ NextErr["restore"] = "idle"
  /\ NextErr["set"] = "idle" /\ NextErr["delete"] = "idle"
BY DEF NextErr

LEMMA CallFacts ==
  ASSUME NEW c \in Calls
  PROVE  /\ c.kind \in Kinds /\ c.t \in Types /\ c.off \in BOOLEAN
         /\ c.kind = "List" => c.t = "A" /\ c.off = FALSE
BY DEF Calls, Kinds, Types


(* What the server takes and answers stays well formed. *)
LEMMA AnswerFacts ==
  ASSUME TypeOK, Messages, Ready, NEW code, NEW p \in Ports \cup {NoPort}, Answer(code, p),
         code \in {"5xx", "200", "227", "350", "250", "226", "426"} \cup Prelim,
         inbox' = Tail(inbox)
  PROVE  /\ Command \in Orders
         /\ inbox' \in Seq(Orders)
         /\ replies' \in Seq(Replies)
<1>1. Command \in Orders /\ Tail(inbox) \in Seq(Orders)
  BY HeadTailProperties DEF Messages, Ready, Command
<1>2. [by |-> Command.by, at |-> Command.at, code |-> code, port |-> p] \in Replies
  BY <1>1, TripFacts DEF Orders, Replies
<1> QED
  BY <1>1, <1>2 DEF Answer, Messages

(* The replies that end a transfer. *)
Endings == {<<>>, <<"250">>, <<"226">>, <<"426">>, <<"426", "226">>}
Ends(codes) == [i \in DOMAIN codes |->
                  [by |-> job.by, at |-> "check", code |-> codes[i], port |-> NoPort]]

LEMMA EndingFacts ==
  ASSUME Messages, job.on, NEW codes \in Terminal
  PROVE  /\ Ends(codes) \in Seq(Replies)
         /\ Len(Ends(codes)) = Len(codes) /\ codes \in Endings
         /\ Len(codes) <= 2 /\ (Len(codes) = 2 => codes[1] = "426")
         /\ \A j \in 1..Len(codes) : Ends(codes)[j].at = "check"
                                   /\ Ends(codes)[j].code = codes[j]
<1>1. codes \in Endings
  BY DEF Terminal, Endings
<1>2. job.by \in Users
  <2>1. job # NoJob
    BY DEF NoJob
  <2> QED
    BY <2>1 DEF Messages, Jobs
<1>3. /\ codes \in Seq({"250", "226", "426"})
      /\ Len(codes) <= 2 /\ (Len(codes) = 2 => codes[1] = "426")
  <2>1. CASE codes = <<>>
    BY <2>1, EmptySeq
  <2>2. CASE codes = <<"250">>
    BY <2>2
  <2>3. CASE codes = <<"226">>
    BY <2>3
  <2>4. CASE codes = <<"426">>
    BY <2>4
  <2>5. CASE codes = <<"426", "226">>
    BY <2>5
  <2> QED
    BY <1>1, <2>1, <2>2, <2>3, <2>4, <2>5 DEF Endings
<1>4. Len(codes) \in Nat /\ DOMAIN codes = 1..Len(codes)
  BY <1>3, LenProperties
<1>5. \A j \in 1..Len(codes) : codes[j] \in {"250", "226", "426"}
  BY <1>3, ElementOfSeq
<1>6. Ends(codes) \in [1..Len(codes) -> Replies]
  BY <1>2, <1>4, <1>5 DEF Ends, Replies
<1>7. Ends(codes) \in Seq(Replies)
  BY <1>4, <1>6, SeqDef
<1>8. Len(Ends(codes)) = Len(codes)
  BY <1>4, <1>6, <1>7, LenProperties
<1> QED
  BY <1>1, <1>3, <1>4, <1>7, <1>8 DEF Ends

(* A step keeps every variable in its type. *)
LEMMA TypeStep == AnyInv /\ [Next]_vars => TypeOK'
<1> SUFFICES ASSUME TypeOK, Messages, HeldOpen, Children, [Next]_vars PROVE TypeOK'
  BY DEF AnyInv
<1> USE TripFacts, NextOKFacts, NextErrFacts, UsersAssumption DEF TypeOK, session, user, data,
    stream, server, ghost
<1>1. ASSUME NEW u \in Users, NEW c \in Calls, Start(u, c) PROVE TypeOK'
  <2>1. Callers'
    BY <1>1 DEF Callers, Start, guardResume, First
  <2>2. Sockets'
    BY <1>1 DEF Sockets, Start, guardResume, First
  <2>3. Flags'
    BY <1>1, Zenon DEF Flags, Start, guardResume, First
  <2> QED
    BY <2>1, <2>2, <2>3
<1>2. ASSUME NEW u \in Users, RecvOK(u) PROVE TypeOK'
  <2>1. Callers'
    <3>1. call[u].t \in Types /\ saved[u] \in Types
      BY CallFacts DEF Callers
    <3>2. currType' \in Types /\ wanted' \in Types
      BY <1>2, <3>1 DEF Callers, RecvOK
    <3> QED
      BY <1>2, <3>2 DEF Callers, RecvOK
  <2>2. Sockets'
    <3>1. Head(replies).port \in Ports \cup {NoPort}
      <4>1. Head(replies) \in Replies
        BY <1>2, HeadTailProperties DEF Messages, RecvOK
      <4> QED
        BY <4>1 DEF Replies
    <3> QED
      BY <1>2, <3>1 DEF Sockets, RecvOK
  <2>3. Flags'
    BY <1>2, Zenon DEF Flags, RecvOK
  <2> QED
    BY <2>1, <2>2, <2>3
<1>3. ASSUME NEW u \in Users, RecvOther(u) PROVE TypeOK'
  <2>1. Callers'
    BY <1>3 DEF Callers, RecvOther, Fail
  <2>2. Sockets'
    BY <1>3 DEF Sockets, RecvOther, Fail
  <2>3. Flags'
    BY <1>3, Zenon DEF Flags, RecvOther, Fail
  <2> QED
    BY <2>1, <2>2, <2>3
<1>4. ASSUME NEW u \in Users, CheckLast(u) PROVE TypeOK'
  <2>1. Callers'
    BY <1>4 DEF Callers, CheckLast, closeLocked
  <2>2. Sockets'
    BY <1>4 DEF Sockets, CheckLast, closeLocked
  <2>3. Flags'
    BY <1>4, Zenon DEF Flags, CheckLast, closeLocked
  <2> QED
    BY <2>1, <2>2, <2>3
<1>5. ASSUME NEW u \in Users, RecvFail(u) PROVE TypeOK'
  <2>1. Callers'
    BY <1>5 DEF Callers, RecvFail, Fail, closeLocked
  <2>2. Sockets'
    BY <1>5 DEF Sockets, RecvFail, Fail, closeLocked
  <2>3. Flags'
    BY <1>5, Zenon DEF Flags, RecvFail, Fail, closeLocked
  <2> QED
    BY <2>1, <2>2, <2>3
<1>6. ASSUME NEW u \in Users, Send(u) PROVE TypeOK'
  <2>1. Callers'
    BY <1>6 DEF Callers, Send
  <2>2. Sockets'
    BY <1>6 DEF Sockets, Send
  <2>3. Flags'
    BY <1>6, Zenon DEF Flags, Send
  <2> QED
    BY <2>1, <2>2, <2>3
<1>7. ASSUME NEW u \in Users, SendClosed(u) PROVE TypeOK'
  <2>1. Callers'
    BY <1>7 DEF Callers, SendClosed, Fail
  <2>2. Sockets'
    BY <1>7 DEF Sockets, SendClosed, Fail
  <2>3. Flags'
    BY <1>7, Zenon DEF Flags, SendClosed, Fail
  <2> QED
    BY <2>1, <2>2, <2>3
<1>8. ASSUME NEW u \in Users, SkipRestore(u) PROVE TypeOK'
  <2>1. Callers'
    BY <1>8 DEF Callers, HeldOpen, SkipRestore
  <2>2. Sockets'
    BY <1>8 DEF Sockets, SkipRestore
  <2>3. Flags'
    BY <1>8, Zenon DEF Flags, SkipRestore
  <2> QED
    BY <2>1, <2>2, <2>3
<1>9. ASSUME NEW u \in Users, Dial(u) PROVE TypeOK'
  <2>1. Callers'
    BY <1>9 DEF Callers, Dial
  <2>2. Sockets'
    BY <1>9 DEF Sockets, Dial
  <2>3. Flags'
    BY <1>9, Zenon DEF Flags, Dial
  <2> QED
    BY <2>1, <2>2, <2>3
<1>10. ASSUME NEW u \in Users, DialFail(u) PROVE TypeOK'
  <2>1. Callers'
    BY <1>10 DEF Callers, DialFail, Fail
  <2>2. Sockets'
    BY <1>10 DEF Sockets, DialFail, Fail
  <2>3. Flags'
    BY <1>10, Zenon DEF Flags, DialFail, Fail
  <2> QED
    BY <2>1, <2>2, <2>3
<1>11. ASSUME NEW u \in Users, DataDone(u) PROVE TypeOK'
  <2>1. Callers'
    BY <1>11 DEF Callers, DataDone
  <2>2. Sockets'
    BY <1>11 DEF Sockets, DataDone
  <2>3. Flags'
    BY <1>11, Zenon DEF Flags, DataDone
  <2> QED
    BY <2>1, <2>2, <2>3
<1>12. ASSUME NEW u \in Users, DataAborted(u) PROVE TypeOK'
  <2>1. Callers'
    BY <1>12 DEF Callers, DataAborted, DataFail
  <2>2. Sockets'
    BY <1>12 DEF Sockets, DataAborted, DataFail
  <2>3. Flags'
    BY <1>12, Zenon DEF Flags, DataAborted, DataFail
  <2> QED
    BY <2>1, <2>2, <2>3
<1>13. ASSUME NEW u \in Users, Abort(u) PROVE TypeOK'
  <2>1. Callers'
    BY <1>13 DEF Callers, Abort, closeLocked
  <2>2. Sockets'
    BY <1>13 DEF Sockets, Abort, closeLocked
  <2>3. Flags'
    BY <1>13, Zenon DEF Flags, Abort, closeLocked
  <2> QED
    BY <2>1, <2>2, <2>3
<1>14. ASSUME NEW u \in Users, ConfirmClose(u) PROVE TypeOK'
  <2>1. Callers'
    BY <1>14 DEF Callers, ConfirmClose, childClose
  <2>2. Sockets'
    BY <1>14 DEF Sockets, ConfirmClose, childClose
  <2>3. Flags'
    BY <1>14, Zenon DEF Flags, ConfirmClose, childClose
  <2> QED
    BY <2>1, <2>2, <2>3
<1>15. ASSUME NEW u \in Users, ConfirmCloseFail(u) PROVE TypeOK'
  <2>1. Callers'
    BY <1>15 DEF Callers, ConfirmCloseFail, childClose
  <2>2. Sockets'
    BY <1>15 DEF Sockets, ConfirmCloseFail, childClose
  <2>3. Flags'
    BY <1>15, Zenon DEF Flags, ConfirmCloseFail, childClose
  <2> QED
    BY <2>1, <2>2, <2>3
<1>16. ASSUME NEW u \in Users, Cleanup(u) PROVE TypeOK'
  <2>1. Callers'
    BY <1>16 DEF Callers, Cleanup, childClose
  <2>2. Sockets'
    BY <1>16 DEF Sockets, Cleanup, childClose
  <2>3. Flags'
    BY <1>16, Zenon DEF Flags, Cleanup, childClose
  <2> QED
    BY <2>1, <2>2, <2>3
<1>17. ASSUME NEW u \in Users, LocalFail(u) PROVE TypeOK'
  <2>1. Callers'
    BY <1>17 DEF Callers, LocalFail, DataFail
  <2>2. Sockets'
    BY <1>17 DEF Sockets, LocalFail, DataFail
  <2>3. Flags'
    BY <1>17, Zenon DEF Flags, LocalFail, DataFail
  <2> QED
    BY <2>1, <2>2, <2>3
<1>18. ASSUME NEW c \in Closers, Close(c) PROVE TypeOK'
  <2>1. Callers'
    BY <1>18 DEF Callers, Close, closeLocked
  <2>2. Sockets'
    BY <1>18 DEF Sockets, Close, closeLocked
  <2>3. Flags'
    BY <1>18, Zenon DEF Flags, Close, closeLocked
  <2> QED
    BY <2>1, <2>2, <2>3
<1>19. ASSUME ServerRefuse PROVE TypeOK'
  <2>1. Callers'
    BY <1>19 DEF Callers, ServerRefuse, Ready, Command, Answer
  <2>2. Sockets'
    BY <1>19 DEF Sockets, ServerRefuse, Ready, Command, Answer
  <2>3. Flags'
    BY <1>19, Zenon DEF Flags, PendingRest, ServerRefuse, Ready, Command, Answer
  <2> QED
    BY <2>1, <2>2, <2>3
<1>20. ASSUME ServerType PROVE TypeOK'
  <2>1. Callers'
    <3>1. srvType' \in Types
      BY <1>20, AnswerFacts DEF ServerType, Orders
    <3> QED
      BY <1>20, <3>1 DEF Callers, ServerType
  <2>2. Sockets'
    BY <1>20 DEF Sockets, ServerType, Ready, Command, Answer
  <2>3. Flags'
    BY <1>20, Zenon DEF Flags, PendingRest, ServerType, Ready, Command, Answer
  <2> QED
    BY <2>1, <2>2, <2>3
<1>21. ASSUME ServerSimple PROVE TypeOK'
  <2>1. Callers'
    BY <1>21 DEF Callers, ServerSimple, Ready, Command, Answer
  <2>2. Sockets'
    BY <1>21 DEF Sockets, ServerSimple, Ready, Command, Answer
  <2>3. Flags'
    BY <1>21, Zenon DEF Flags, PendingRest, ServerSimple, Ready, Command, Answer
  <2> QED
    BY <2>1, <2>2, <2>3
<1>22. ASSUME ServerPasv PROVE TypeOK'
  <2>1. Callers'
    BY <1>22 DEF Callers, ServerPasv, Ready, Command, Answer
  <2>2. Sockets'
    BY <1>22 DEF Sockets, ServerPasv, Ready, Command, Answer
  <2>3. Flags'
    BY <1>22, Zenon DEF Flags, PendingRest, ServerPasv, Ready, Command, Answer
  <2> QED
    BY <2>1, <2>2, <2>3
<1>23. ASSUME ServerStart PROVE TypeOK'
  <2>1. Callers'
    BY <1>23 DEF Callers, ServerStart, Ready, Command, Answer
  <2>2. Sockets'
    BY <1>23 DEF Sockets, ServerStart, Ready, Command, Answer
  <2>3. Flags'
    BY <1>23, Zenon DEF Flags, ServerStart, Ready, Command, Answer
  <2> QED
    BY <2>1, <2>2, <2>3
<1>24. ASSUME ServerSend PROVE TypeOK'
  <2>1. Callers'
    BY <1>24 DEF Callers, ServerSend
  <2>2. Sockets'
    <3>1. PICK end \in {"eof", "rst"} : peer' = [peer EXCEPT ![job.conn] = end]
      BY <1>24 DEF ServerSend
    <3> QED
      BY <1>24, <3>1 DEF Sockets, ServerSend
  <2>3. Flags'
    BY <1>24, Zenon DEF Flags, ServerSend
  <2> QED
    BY <2>1, <2>2, <2>3
<1>25. ASSUME ServerReceive PROVE TypeOK'
  <2>1. Callers'
    BY <1>25 DEF Callers, ServerReceive
  <2>2. Sockets'
    BY <1>25 DEF Sockets, ServerReceive
  <2>3. Flags'
    BY <1>25, Zenon DEF Flags, ServerReceive
  <2> QED
    BY <2>1, <2>2, <2>3
<1>26. ASSUME ServerTerminal PROVE TypeOK'
  <2>1. Callers'
    BY <1>26 DEF Callers, ServerTerminal, Terminal
  <2>2. Sockets'
    BY <1>26 DEF Sockets, ServerTerminal, Terminal
  <2>3. Flags'
    BY <1>26, Zenon DEF Flags, ServerTerminal, Terminal
  <2> QED
    BY <2>1, <2>2, <2>3
<1>27. ASSUME NEW u \in Users, SendExpired(u) PROVE TypeOK'
  <2>1. Callers'
    BY <1>27 DEF Callers, SendExpired, Fail
  <2>2. Sockets'
    BY <1>27 DEF Sockets, SendExpired, Fail
  <2>3. Flags'
    BY <1>27, Zenon DEF Flags, SendExpired, Fail
  <2> QED
    BY <2>1, <2>2, <2>3
<1>28. ASSUME UNCHANGED vars PROVE TypeOK'
  <2>1. Callers'
    BY <1>28 DEF Callers, vars
  <2>2. Sockets'
    BY <1>28 DEF Sockets, vars
  <2>3. Flags'
    BY <1>28, Zenon DEF Flags, vars
  <2> QED
    BY <2>1, <2>2, <2>3
<1> QED
  BY <1>1, <1>2, <1>3, <1>4, <1>5, <1>6, <1>7, <1>8, <1>9, <1>10, <1>11, <1>12, <1>13,
     <1>14, <1>15, <1>16, <1>17, <1>18, <1>19, <1>20, <1>21, <1>22, <1>23, <1>24, <1>25,
     <1>26, <1>27, <1>28
  DEF Next, Await, Proceed, ServerStep

(* Messages stay well formed. *)
LEMMA MessagesStep == AnyInv /\ [Next]_vars => Messages'
<1> SUFFICES ASSUME TypeOK, Messages, HeldOpen, Children, [Next]_vars PROVE Messages'
  BY DEF AnyInv
<1> USE TripFacts DEF TypeOK, Messages, session, user, data, stream, server, ghost
<1>1. ASSUME NEW u \in Users, NEW c \in Calls, Start(u, c) PROVE Messages'
  BY <1>1 DEF Start, guardResume, First
<1>2. ASSUME NEW u \in Users, RecvOK(u) PROVE Messages'
  BY <1>2 DEF RecvOK
<1>3. ASSUME NEW u \in Users, RecvOther(u) PROVE Messages'
  BY <1>3 DEF RecvOther, Fail
<1>4. ASSUME NEW u \in Users, CheckLast(u) PROVE Messages'
  BY <1>4 DEF CheckLast, closeLocked
<1>5. ASSUME NEW u \in Users, RecvFail(u) PROVE Messages'
  BY <1>5 DEF RecvFail, Fail, closeLocked
<1>6. ASSUME NEW u \in Users, Send(u) PROVE Messages'
  <2>1. pc[u] # "check" => [by |-> u, at |-> pc[u], arg |-> Arg(u)] \in Orders
    BY <1>6, CallFacts DEF Callers, Send, Arg, Orders, Types, Kinds
  <2> QED
    BY <1>6, <2>1 DEF Send
<1>7. ASSUME NEW u \in Users, SendClosed(u) PROVE Messages'
  BY <1>7 DEF SendClosed, Fail
<1>8. ASSUME NEW u \in Users, SkipRestore(u) PROVE Messages'
  BY <1>8 DEF SkipRestore
<1>9. ASSUME NEW u \in Users, Dial(u) PROVE Messages'
  BY <1>9 DEF Dial
<1>10. ASSUME NEW u \in Users, DialFail(u) PROVE Messages'
  BY <1>10 DEF DialFail, Fail
<1>11. ASSUME NEW u \in Users, DataDone(u) PROVE Messages'
  BY <1>11 DEF DataDone
<1>12. ASSUME NEW u \in Users, DataAborted(u) PROVE Messages'
  BY <1>12 DEF DataAborted, DataFail
<1>13. ASSUME NEW u \in Users, Abort(u) PROVE Messages'
  BY <1>13 DEF Abort, closeLocked
<1>14. ASSUME NEW u \in Users, ConfirmClose(u) PROVE Messages'
  BY <1>14 DEF ConfirmClose, childClose
<1>15. ASSUME NEW u \in Users, ConfirmCloseFail(u) PROVE Messages'
  BY <1>15 DEF ConfirmCloseFail, childClose
<1>16. ASSUME NEW u \in Users, Cleanup(u) PROVE Messages'
  BY <1>16 DEF Cleanup, childClose
<1>17. ASSUME NEW u \in Users, LocalFail(u) PROVE Messages'
  BY <1>17 DEF LocalFail, DataFail
<1>18. ASSUME NEW c \in Closers, Close(c) PROVE Messages'
  BY <1>18 DEF Close, closeLocked
<1>19. ASSUME ServerRefuse PROVE Messages'
  <2>1. inbox' \in Seq(Orders) /\ replies' \in Seq(Replies)
    BY <1>19, AnswerFacts DEF ServerRefuse
  <2> QED
    BY <1>19, <2>1 DEF ServerRefuse
<1>20. ASSUME ServerType PROVE Messages'
  <2>1. inbox' \in Seq(Orders) /\ replies' \in Seq(Replies)
    BY <1>20, AnswerFacts DEF ServerType
  <2> QED
    BY <1>20, <2>1 DEF ServerType
<1>21. ASSUME ServerSimple PROVE Messages'
  <2>1. inbox' \in Seq(Orders) /\ replies' \in Seq(Replies)
    BY <1>21, AnswerFacts, TripFacts, ExpectFacts DEF ServerSimple
  <2> QED
    BY <1>21, <2>1 DEF ServerSimple
<1>22. ASSUME ServerPasv PROVE Messages'
  <2>1. inbox' \in Seq(Orders) /\ replies' \in Seq(Replies)
    BY <1>22, AnswerFacts DEF ServerPasv
  <2> QED
    BY <1>22, <2>1 DEF ServerPasv
<1>23. ASSUME ServerStart PROVE Messages'
  <2>1. PICK code \in Prelim : Answer(code, NoPort)
    BY <1>23 DEF ServerStart
  <2>2. Ready /\ inbox' = Tail(inbox)
    BY <1>23 DEF ServerStart
  <2>3. Command \in Orders /\ inbox' \in Seq(Orders) /\ replies' \in Seq(Replies)
    BY <2>1, <2>2, AnswerFacts
  <2>4. job' \in Jobs
    BY <1>23, <2>3 DEF ServerStart, Jobs, Orders, Callers, Sockets, Flags, Types, Kinds
  <2> QED
    BY <2>3, <2>4
<1>24. ASSUME ServerSend PROVE Messages'
  <2>1. job \in Jobs
    BY <1>24 DEF ServerSend, NoJob
  <2>2. PICK ok \in BOOLEAN : job' = [job EXCEPT !.ok = ok, !.stage = "term"]
    BY <1>24 DEF ServerSend
  <2>3. job' \in Jobs
    BY <2>1, <2>2 DEF Jobs
  <2> QED
    BY <1>24, <2>3 DEF ServerSend
<1>25. ASSUME ServerReceive PROVE Messages'
  <2>1. job \in Jobs
    BY <1>25 DEF ServerReceive, NoJob
  <2>2. written[job.conn] \in BOOLEAN
    BY <2>1 DEF Jobs, Flags
  <2>3. \/ job' = [job EXCEPT !.ok = written[job.conn], !.stage = "term"]
        \/ job' = [job EXCEPT !.stage = "term"]
    BY <1>25 DEF ServerReceive
  <2>4. job' \in Jobs
    <3>1. ASSUME NEW b \in BOOLEAN PROVE [job EXCEPT !.ok = b, !.stage = "term"] \in Jobs
      BY <2>1 DEF Jobs
    <3>2. [job EXCEPT !.stage = "term"] \in Jobs
      BY <2>1 DEF Jobs
    <3> QED
      BY <2>2, <2>3, <3>1, <3>2
  <2> QED
    BY <1>25, <2>4 DEF ServerReceive
<1>26. ASSUME ServerTerminal PROVE Messages'
  <2>1. PICK codes \in Terminal : replies' = replies \o Ends(codes)
    BY <1>26 DEF ServerTerminal, Ends
  <2>2. Ends(codes) \in Seq(Replies)
    BY <1>26, <2>1, EndingFacts DEF ServerTerminal
  <2>3. replies' \in Seq(Replies)
    BY <2>1, <2>2, ConcatProperties
  <2> QED
    BY <1>26, <2>3 DEF ServerTerminal
<1>27. ASSUME NEW u \in Users, SendExpired(u) PROVE Messages'
  BY <1>27 DEF SendExpired, Fail
<1>28. ASSUME UNCHANGED vars PROVE Messages'
  BY <1>28 DEF vars
<1> QED
  BY <1>1, <1>2, <1>3, <1>4, <1>5, <1>6, <1>7, <1>8, <1>9, <1>10, <1>11, <1>12, <1>13,
     <1>14, <1>15, <1>16, <1>17, <1>18, <1>19, <1>20, <1>21, <1>22, <1>23, <1>24, <1>25,
     <1>26, <1>27, <1>28
  DEF Next, Await, Proceed, ServerStep

(* The session is closed by the holder of the mutex as it releases it. *)
LEMMA HeldStep == AnyInv /\ [Next]_vars => HeldOpen'
<1> SUFFICES ASSUME TypeOK, Messages, HeldOpen, Children, [Next]_vars PROVE HeldOpen'
  BY DEF AnyInv
<1> USE TripFacts, NextOKFacts, NextErrFacts, UsersAssumption DEF TypeOK, Callers, HeldOpen,
    NeedsRestore, session, user, data, stream, server, ghost
<1>1. ASSUME NEW u \in Users, NEW c \in Calls, Start(u, c) PROVE HeldOpen'
  BY <1>1 DEF Start, guardResume, First
<1>2. ASSUME NEW u \in Users, RecvOK(u) PROVE HeldOpen'
  BY <1>2 DEF RecvOK
<1>3. ASSUME NEW u \in Users, RecvOther(u) PROVE HeldOpen'
  BY <1>3 DEF RecvOther, Fail
<1>4. ASSUME NEW u \in Users, CheckLast(u) PROVE HeldOpen'
  BY <1>4 DEF CheckLast, closeLocked
<1>5. ASSUME NEW u \in Users, RecvFail(u) PROVE HeldOpen'
  BY <1>5 DEF RecvFail, Fail, closeLocked
<1>6. ASSUME NEW u \in Users, Send(u) PROVE HeldOpen'
  BY <1>6 DEF Send
<1>7. ASSUME NEW u \in Users, SendClosed(u) PROVE HeldOpen'
  BY <1>7 DEF SendClosed, Fail
<1>8. ASSUME NEW u \in Users, SkipRestore(u) PROVE HeldOpen'
  BY <1>8 DEF SkipRestore
<1>9. ASSUME NEW u \in Users, Dial(u) PROVE HeldOpen'
  BY <1>9 DEF Dial
<1>10. ASSUME NEW u \in Users, DialFail(u) PROVE HeldOpen'
  BY <1>10 DEF DialFail, Fail
<1>11. ASSUME NEW u \in Users, DataDone(u) PROVE HeldOpen'
  BY <1>11 DEF DataDone
<1>12. ASSUME NEW u \in Users, DataAborted(u) PROVE HeldOpen'
  BY <1>12 DEF DataAborted, DataFail
<1>13. ASSUME NEW u \in Users, Abort(u) PROVE HeldOpen'
  BY <1>13 DEF Abort, closeLocked
<1>14. ASSUME NEW u \in Users, ConfirmClose(u) PROVE HeldOpen'
  BY <1>14 DEF ConfirmClose, childClose
<1>15. ASSUME NEW u \in Users, ConfirmCloseFail(u) PROVE HeldOpen'
  BY <1>15 DEF ConfirmCloseFail, childClose
<1>16. ASSUME NEW u \in Users, Cleanup(u) PROVE HeldOpen'
  BY <1>16 DEF Cleanup, childClose
<1>17. ASSUME NEW u \in Users, LocalFail(u) PROVE HeldOpen'
  BY <1>17 DEF LocalFail, DataFail
<1>18. ASSUME NEW c \in Closers, Close(c) PROVE HeldOpen'
  BY <1>18 DEF Close, closeLocked
<1>19. ASSUME ServerRefuse PROVE HeldOpen'
  BY <1>19 DEF ServerRefuse, Ready, Command, Answer
<1>20. ASSUME ServerType PROVE HeldOpen'
  BY <1>20 DEF ServerType, Ready, Command, Answer
<1>21. ASSUME ServerSimple PROVE HeldOpen'
  BY <1>21 DEF ServerSimple, Ready, Command, Answer
<1>22. ASSUME ServerPasv PROVE HeldOpen'
  BY <1>22 DEF ServerPasv, Ready, Command, Answer
<1>23. ASSUME ServerStart PROVE HeldOpen'
  BY <1>23 DEF ServerStart, Ready, Command, Answer
<1>24. ASSUME ServerSend PROVE HeldOpen'
  BY <1>24 DEF ServerSend
<1>25. ASSUME ServerReceive PROVE HeldOpen'
  BY <1>25 DEF ServerReceive
<1>26. ASSUME ServerTerminal PROVE HeldOpen'
  BY <1>26 DEF ServerTerminal, Terminal
<1>27. ASSUME NEW u \in Users, SendExpired(u) PROVE HeldOpen'
  BY <1>27 DEF SendExpired, Fail
<1>28. ASSUME UNCHANGED vars PROVE HeldOpen'
  BY <1>28 DEF vars
<1> QED
  BY <1>1, <1>2, <1>3, <1>4, <1>5, <1>6, <1>7, <1>8, <1>9, <1>10, <1>11, <1>12, <1>13,
     <1>14, <1>15, <1>16, <1>17, <1>18, <1>19, <1>20, <1>21, <1>22, <1>23, <1>24, <1>25,
     <1>26, <1>27, <1>28
  DEF Next, Await, Proceed, ServerStep

(* Data connections stay with their calls. *)
LEMMA ChildrenStep == AnyInv /\ [Next]_vars => Children'
<1> SUFFICES ASSUME TypeOK, Messages, HeldOpen, Children, [Next]_vars PROVE Children'
  BY DEF AnyInv
<1> USE TripFacts, NextOKFacts, NextErrFacts, UsersAssumption DEF TypeOK, Callers, Sockets,
    Children, Living, session, user, data, stream, server, ghost
<1>1. ASSUME NEW u \in Users, NEW c \in Calls, Start(u, c) PROVE Children'
  BY <1>1 DEF Start, guardResume, First
<1>2. ASSUME NEW u \in Users, RecvOK(u) PROVE Children'
  BY <1>2 DEF RecvOK
<1>3. ASSUME NEW u \in Users, RecvOther(u) PROVE Children'
  BY <1>3 DEF RecvOther, Fail
<1>4. ASSUME NEW u \in Users, CheckLast(u) PROVE Children'
  BY <1>4 DEF CheckLast, closeLocked
<1>5. ASSUME NEW u \in Users, RecvFail(u) PROVE Children'
  BY <1>5 DEF RecvFail, Fail, closeLocked
<1>6. ASSUME NEW u \in Users, Send(u) PROVE Children'
  BY <1>6 DEF Send
<1>7. ASSUME NEW u \in Users, SendClosed(u) PROVE Children'
  BY <1>7 DEF SendClosed, Fail
<1>8. ASSUME NEW u \in Users, SkipRestore(u) PROVE Children'
  BY <1>8 DEF SkipRestore
<1>9. ASSUME NEW u \in Users, Dial(u) PROVE Children'
  BY <1>9 DEF Dial
<1>10. ASSUME NEW u \in Users, DialFail(u) PROVE Children'
  BY <1>10 DEF DialFail, Fail
<1>11. ASSUME NEW u \in Users, DataDone(u) PROVE Children'
  BY <1>11 DEF DataDone
<1>12. ASSUME NEW u \in Users, DataAborted(u) PROVE Children'
  BY <1>12 DEF DataAborted, DataFail
<1>13. ASSUME NEW u \in Users, Abort(u) PROVE Children'
  BY <1>13 DEF Abort, closeLocked
<1>14. ASSUME NEW u \in Users, ConfirmClose(u) PROVE Children'
  BY <1>14 DEF ConfirmClose, childClose
<1>15. ASSUME NEW u \in Users, ConfirmCloseFail(u) PROVE Children'
  BY <1>15 DEF ConfirmCloseFail, childClose
<1>16. ASSUME NEW u \in Users, Cleanup(u) PROVE Children'
  BY <1>16 DEF Cleanup, childClose
<1>17. ASSUME NEW u \in Users, LocalFail(u) PROVE Children'
  BY <1>17 DEF LocalFail, DataFail
<1>18. ASSUME NEW c \in Closers, Close(c) PROVE Children'
  BY <1>18 DEF Close, closeLocked
<1>19. ASSUME ServerRefuse PROVE Children'
  BY <1>19 DEF ServerRefuse, Ready, Command, Answer
<1>20. ASSUME ServerType PROVE Children'
  BY <1>20 DEF ServerType, Ready, Command, Answer
<1>21. ASSUME ServerSimple PROVE Children'
  BY <1>21 DEF ServerSimple, Ready, Command, Answer
<1>22. ASSUME ServerPasv PROVE Children'
  BY <1>22 DEF ServerPasv, Ready, Command, Answer
<1>23. ASSUME ServerStart PROVE Children'
  BY <1>23 DEF ServerStart, Ready, Command, Answer
<1>24. ASSUME ServerSend PROVE Children'
  BY <1>24 DEF ServerSend
<1>25. ASSUME ServerReceive PROVE Children'
  BY <1>25 DEF ServerReceive
<1>26. ASSUME ServerTerminal PROVE Children'
  BY <1>26 DEF ServerTerminal, Terminal
<1>27. ASSUME NEW u \in Users, SendExpired(u) PROVE Children'
  BY <1>27 DEF SendExpired, Fail
<1>28. ASSUME UNCHANGED vars PROVE Children'
  BY <1>28 DEF vars
<1> QED
  BY <1>1, <1>2, <1>3, <1>4, <1>5, <1>6, <1>7, <1>8, <1>9, <1>10, <1>11, <1>12, <1>13,
     <1>14, <1>15, <1>16, <1>17, <1>18, <1>19, <1>20, <1>21, <1>22, <1>23, <1>24, <1>25,
     <1>26, <1>27, <1>28
  DEF Next, Await, Proceed, ServerStep


(* A session as Login leaves it. *)
LEMMA InitAny == Init => AnyInv
<1> SUFFICES ASSUME Init PROVE TypeOK /\ Messages /\ HeldOpen /\ Children
  BY DEF AnyInv
<1>1. TypeOK
  BY UsersAssumption DEF Init, TypeOK, Callers, Sockets, Flags, Types, Calls
<1>2. Messages
  BY EmptySeq DEF Init, Messages
<1>3. HeldOpen /\ Children
  BY UsersAssumption DEF Init, HeldOpen, Children
<1> QED
  BY <1>1, <1>2, <1>3

(* What holds for any number of goroutines, of every reachable state. *)
THEOREM SharedInvariant == Spec => []AnyInv
<1>1. AnyInv /\ [Next]_vars => AnyInv'
  BY TypeStep, MessagesStep, HeldStep, ChildrenStep DEF AnyInv
<1> QED
  BY <1>1, InitAny, PTL DEF Spec

(* Every variable keeps its type, and whoever holds the mutex waits for a  *)
(* reply, whatever the interleaving.                                       *)
THEOREM TypeCorrect == Spec => []TypeOK
<1>1. AnyInv => TypeOK
  BY DEF AnyInv
<1> QED
  BY <1>1, SharedInvariant, PTL

(* No data connection outlives its call, for any number of goroutines, any *)
(* announcements and also when closing one fails (childConnection.Close,   *)
(* closeLocked).                                                           *)
THEOREM ChildrenClosed == Spec => []NoChildLeak
<1>1. AnyInv => NoChildLeak
  BY DEF AnyInv, Children, Living, NoChildLeak
<1> QED
  BY <1>1, SharedInvariant, PTL


---------------------------------------------------------------------------
(* One goroutine calls, the server announces with 125 and drops a REST     *)
(* that no transfer follows, and closing a data connection succeeds.       *)
Alone ==
  /\ Users # {} /\ \A u, v \in Users : u = v
  /\ Prelim = {"125"}
  /\ ~CloseMayFail
  /\ ~RestLingers


(* A stream of one message. *)
LEMMA OneMessage ==
  ASSUME NEW e
  PROVE  /\ Append(<<>>, e) = <<e>> /\ <<e>> # <<>>
         /\ Head(<<e>>) = e /\ Tail(<<e>>) = <<>>
OBVIOUS

(* The first reply, and what is left after it. *)
LEMMA FirstReply ==
  ASSUME Messages, replies # <<>>
  PROVE  /\ Len(replies) \in Nat \ {0} /\ Head(replies) = replies[1]
         /\ Len(replies) = 1 => Tail(replies) = <<>>
         /\ Tail(replies) = <<>> => Len(replies) = 1
<1>1. replies \in Seq(Replies)
  BY DEF Messages
<1>2. Len(Tail(replies)) = Len(replies) - 1 /\ Tail(replies) \in Seq(Replies)
  BY <1>1, HeadTailProperties
<1>3. Len(replies) \in Nat \ {0}
  BY <1>1, EmptySeq
<1>4. Tail(replies) = <<>> <=> Len(Tail(replies)) = 0
  BY <1>2, EmptySeq
<1> QED
  BY <1>1, <1>2, <1>3, <1>4

(* A running transfer is described in full. *)
LEMMA JobFacts ==
  ASSUME Messages, job.on
  PROVE  job \in Jobs
BY DEF Messages, NoJob

(* The replies that end a transfer, after the announcement or on their own. *)
LEMMA EndingAppended ==
  ASSUME Messages, job.on, NEW codes \in Terminal, replies' = replies \o Ends(codes)
  PROVE  /\ replies = <<>> => replies' = Ends(codes)
         /\ replies # <<>> /\ Tail(replies) = <<>> =>
              replies' # <<>> /\ Head(replies') = Head(replies) /\ Tail(replies') = Ends(codes)
<1> DEFINE t == Ends(codes)
<1>1. replies \in Seq(Replies) /\ t \in Seq(Replies)
  BY EndingFacts DEF Messages
<1>2. ASSUME replies = <<>> PROVE replies' = t
  BY <1>1, <1>2, ConcatEmptySeq
<1>3. ASSUME replies # <<>>, Tail(replies) = <<>>
      PROVE  replies' # <<>> /\ Head(replies') = Head(replies) /\ Tail(replies') = t
  <2>1. Len(replies) = 1 /\ Head(replies) = replies[1]
    BY <1>3, FirstReply
  <2>2. /\ replies' \in Seq(Replies) /\ Len(replies') = 1 + Len(t)
        /\ \A k \in 1..1 + Len(t) : replies'[k] = IF k <= 1 THEN replies[k] ELSE t[k - 1]
    <3>1. /\ replies' \in Seq(Replies) /\ Len(replies') = Len(replies) + Len(t)
          /\ \A k \in 1..Len(replies) + Len(t) :
               replies'[k] = IF k <= Len(replies) THEN replies[k] ELSE t[k - Len(replies)]
      BY <1>1, ConcatProperties
    <3> QED
      BY <2>1, <3>1
  <2>3. Len(t) \in Nat
    BY <1>1, LenProperties
  <2>4. replies' # <<>> /\ replies'[1] = replies[1]
    BY <2>2, <2>3, EmptySeq
  <2>5. /\ Tail(replies') \in Seq(Replies) /\ Len(Tail(replies')) = Len(t)
        /\ \A k \in 1..Len(t) : Tail(replies')[k] = replies'[k + 1]
    BY <2>2, <2>3, <2>4, HeadTailProperties
  <2>6. \A k \in 1..Len(t) : Tail(replies')[k] = t[k]
    BY <2>2, <2>3, <2>5
  <2>7. Tail(replies') = t
    BY <1>1, <2>5, <2>6, SeqEqual
  <2>8. Head(replies') = Head(replies)
    BY <2>1, <2>2, <2>4
  <2> QED
    BY <2>4, <2>7, <2>8
<1> QED
  BY <1>2, <1>3


(* The command the server takes is the one being waited for. *)
LEMMA AloneCommand ==
  ASSUME Alone, TypeOK, Messages, OneInv, Ready
  PROVE  /\ Command.by \in Users /\ mu = Command.by /\ pc[mu] = Command.at
         /\ Tail(inbox) = <<>> /\ replies = <<>> /\ Command.arg = Arg(mu)
<1>1. Command \in Orders
  BY HeadTailProperties DEF Ready, Command, Messages
<1>2. Command.by \in Users
  BY <1>1 DEF Orders
<1> QED
  BY <1>2 DEF Ready, Command, OneInv, Stream, Alone

(* What the server says of the end of a transfer is true. *)
LEMMA EndingTrue ==
  ASSUME Alone, TypeOK, Messages, HeldOpen, OneInv, ServerTerminal,
         NEW u \in Users, NEW codes \in Terminal, NEW t, t = Ends(codes)
  PROVE  Terminated(t, u)'
<1>1. job \in Jobs /\ ~isClosed /\ job.by = u /\ job.conn = u
  BY JobFacts DEF ServerTerminal, Jobs, Alone
<1>2. served'[u] = job.ok /\ UNCHANGED <<call, peer>>
  BY <1>1 DEF ServerTerminal, user, data, OneInv, Connected, TypeOK, Flags, Jobs
<1>3. Len(codes) <= 2 /\ (Len(codes) = 2 => codes[1] = "426")
  BY EndingFacts DEF ServerTerminal
<1>4. codes # <<>> /\ codes[1] \in {"250", "226"} =>
        job.ok \/ (call[u].kind # "Store" /\ peer[u] = "rst")
  BY <1>1 DEF Terminal, OneInv, Connected, ServerTerminal
<1>5. codes = <<>> \/ (1 \in 1..Len(codes))
  BY EndingFacts DEF ServerTerminal, Endings
<1>6. codes = <<>> => t = <<>>
  BY EndingFacts, EmptySeq DEF ServerTerminal
<1>7. /\ Len(t) <= 2 /\ (Len(t) = 2 => t[1].code = "426")
      /\ \A k \in 1..Len(t) : t[k].at = "check"
      /\ t # <<>> => t[1].code = codes[1]
  BY <1>3, <1>5, <1>6, EndingFacts DEF ServerTerminal
<1>8. t # <<>> /\ t[1].code \in {"250", "226"} =>
        served'[u] \/ (call'[u].kind # "Store" /\ peer'[u] = "rst")
  BY <1>2, <1>4, <1>6, <1>7
<1> QED
  BY <1>7, <1>8 DEF Terminated

(* The steps after which it takes an argument to see that the stream is in *)
(* step: the end of the wait for a reply, and the end of the transfer.     *)
LEMMA StreamRecvOK ==
  ASSUME Alone, TypeOK, Messages, HeldOpen, OneInv, NEW u \in Users, RecvOK(u)
  PROVE  Stream'
<1>1. /\ Users = {u} /\ ~isClosed /\ inbox = <<>> /\ replies # <<>> /\ pc[u] \in Trips
      /\ IF pc[u] = "xfer" THEN InTransfer(Tail(replies), u)
         ELSE Tail(replies) = <<>> /\ ~job.on
  BY UsersAssumption, ExpectFacts DEF Alone, OneInv, Stream, HeldOpen, RecvOK
<1>2. /\ UNCHANGED <<isClosed, inbox, job, served, call, peer>>
      /\ mu' = NoOne /\ replies' = Tail(replies) /\ pc'[u] = NextOK[pc[u]]
  BY <1>1 DEF RecvOK, data, server, TypeOK, Callers
<1>3. pc'[u] \in Moving <=> pc[u] = "xfer"
  BY <1>1, <1>2, NextOKFacts, TripFacts DEF Moving
<1>4. PICK t : t = Tail(replies)
  OBVIOUS
<1>5. ASSUME pc[u] = "xfer" PROVE InTransfer(replies, u)'
  <2>1. InTransfer(t, u)'
    BY <1>1, <1>2, <1>4, <1>5 DEF InTransfer, Terminated
  <2> QED
    BY <1>2, <1>4, <2>1 DEF InTransfer, Terminated
<1> QED
  BY <1>1, <1>2, <1>3, <1>5, UsersAssumption DEF Stream

LEMMA StreamCheckLast ==
  ASSUME Alone, TypeOK, Messages, HeldOpen, OneInv, NEW u \in Users, CheckLast(u)
  PROVE  Stream'
<1>1. Users = {u} /\ ~isClosed /\ inbox = <<>> /\ InTransfer(replies, u) /\ replies # <<>>
  BY UsersAssumption DEF Alone, OneInv, Stream, HeldOpen, CheckLast, Moving
<1>2. Terminated(replies, u) /\ ~job.on
  BY <1>1 DEF InTransfer
<1>3. CASE Head(replies).code \in {"250", "226"}
  <2>1. replies[1].code # "426"
    BY <1>1, <1>3, FirstReply
  <2>2. Len(replies) # 2 /\ Len(replies) <= 2
    BY <1>2, <2>1 DEF Terminated
  <2>3. Tail(replies) = <<>>
    <3>1. PICK n \in Nat \ {0} : n = Len(replies)
      BY <1>1, FirstReply
    <3>2. Len(replies) = 1
      BY <2>2, <3>1
    <3> QED
      BY <1>1, <3>2, FirstReply
  <2>4. mu' = NoOne /\ pc'[u] = "cleanup" /\ inbox' = <<>> /\ replies' = <<>> /\ ~job'.on
    BY <1>1, <1>2, <2>3 DEF CheckLast, server, TypeOK, Callers
  <2> QED
    BY <1>1, <2>4, UsersAssumption DEF Stream, Moving
<1>4. CASE Head(replies).code \notin {"250", "226"}
  <2>1. isClosed'
    BY <1>1, <1>4 DEF CheckLast, closeLocked
  <2> QED
    BY <2>1 DEF Stream
<1> QED
  BY <1>3, <1>4

LEMMA StreamReceive ==
  ASSUME Alone, TypeOK, Messages, HeldOpen, OneInv, ServerReceive
  PROVE  Stream'
<1>1. job.on /\ job'.on
  BY JobFacts DEF ServerReceive, Jobs
<1>2. UNCHANGED <<mu, isClosed, pc, call, saved, inbox, replies>>
  BY DEF ServerReceive, session, user, stream
<1> QED
  BY <1>1, <1>2 DEF OneInv, Stream, InTransfer, Arg

LEMMA StreamTerminal ==
  ASSUME Alone, TypeOK, Messages, HeldOpen, OneInv, ServerTerminal
  PROVE  Stream'
<1>1. PICK codes \in Terminal : replies' = replies \o Ends(codes)
  BY DEF ServerTerminal, Ends
<1>2. ~isClosed /\ job.on /\ ~job'.on /\ UNCHANGED <<mu, pc, inbox, isClosed>>
  BY DEF ServerTerminal, NoJob, session, user
<1>3. PICK u \in Users : u = job.by
  BY <1>2, JobFacts DEF Jobs
<1>4. PICK t : t = Ends(codes)
  OBVIOUS
<1>5. Users = {u} /\ Terminated(t, u)'
  BY <1>4, EndingTrue DEF Alone
<1>6. /\ replies = <<>> => replies' = t
      /\ replies # <<>> /\ Tail(replies) = <<>> =>
           replies' # <<>> /\ Head(replies') = Head(replies) /\ Tail(replies') = t
  BY <1>1, <1>2, <1>4, EndingAppended
<1>7. inbox = <<>>
  BY <1>2, <1>5 DEF OneInv, Stream
<1>8. CASE pc[u] \in Moving
  <2>1. replies' = t
    BY <1>2, <1>5, <1>6, <1>8 DEF OneInv, Stream, InTransfer
  <2>2. InTransfer(replies, u)'
    BY <1>2, <1>5, <2>1 DEF InTransfer, Terminated
  <2>3. pc[u] \notin Trips
    BY <1>8, TripFacts DEF Moving
  <2> QED
    BY <1>2, <1>5, <1>7, <1>8, <2>2, <2>3 DEF Stream
<1>9. CASE pc[u] \notin Moving
  <2>1. /\ mu = u /\ pc[u] = "xfer" /\ replies # <<>> /\ Head(replies).at = "xfer"
        /\ Head(replies).code = "125" /\ Tail(replies) = <<>>
    BY <1>2, <1>5, <1>7, <1>9, TripFacts DEF OneInv, Stream, InTransfer, TypeOK, Callers, Moving
  <2>2. replies' # <<>> /\ Head(replies') = Head(replies) /\ Tail(replies') = t
    BY <1>6, <2>1
  <2>3. InTransfer(Tail(replies), u)'
    BY <1>2, <1>5, <2>2 DEF InTransfer, Terminated
  <2> QED
    BY <1>2, <1>5, <1>7, <1>9, <2>1, <2>2, <2>3, UsersAssumption DEF Stream
<1> QED
  BY <1>8, <1>9

(* The transfer that starts is the one that was asked for. *)
LEMMA ConnectedStart ==
  ASSUME Alone, TypeOK, Messages, HeldOpen, OneInv, ServerStart
  PROVE  Connected'
<1>1. Ready
  BY DEF ServerStart
<1>2. PICK u \in Users : u = Command.by
  BY <1>1, AloneCommand
<1>3. /\ Users = {u} /\ mu = u /\ pc[u] = "xfer" /\ Command.arg = call[u].kind
      /\ inbox # <<>> /\ ~isClosed /\ inbox' = <<>>
  BY <1>1, <1>2, AloneCommand, UsersAssumption DEF Alone, ServerStart, Ready, Arg
<1>4. srvType = call[u].t
  BY <1>3 DEF OneInv, Typed, Living
<1>5. srvRest = call[u].off
  <2>1. call[u].off \in BOOLEAN /\ srvRest \in BOOLEAN
    BY CallFacts DEF TypeOK, Callers, Flags
  <2> QED
    BY <1>3, <2>1 DEF OneInv, Restarted, Waiting
<1>6. peer[u] = "open" /\ child[u] = "open"
  BY <1>3 DEF OneInv, Connected, Waiting
<1>7. /\ job'.kind = call[u].kind /\ job'.type = call[u].t /\ job'.rest = call[u].off
      /\ UNCHANGED <<mu, isClosed, pc, call, child, peer>>
  BY <1>3, <1>4, <1>5 DEF ServerStart, session, user, data
<1> QED
  BY <1>3, <1>6, <1>7, UsersAssumption DEF Connected, Waiting

LEMMA ConnectedReceive ==
  ASSUME Alone, TypeOK, Messages, HeldOpen, OneInv, ServerReceive
  PROVE  Connected'
<1>1. job \in Jobs /\ job.on /\ ~isClosed /\ job.kind = "Store"
  BY JobFacts DEF ServerReceive
<1>2. /\ job'.stage = "term" /\ job'.kind = "Store"
      /\ job'.type = job.type /\ job'.rest = job.rest
      /\ UNCHANGED <<mu, isClosed, pc, call, child, inbox>>
  <2>1. ASSUME NEW b \in BOOLEAN, job' = [job EXCEPT !.ok = b, !.stage = "term"]
        PROVE  /\ job'.stage = "term" /\ job'.kind = "Store"
                /\ job'.type = job.type /\ job'.rest = job.rest
    BY <1>1, <2>1 DEF Jobs
  <2>2. ASSUME job' = [job EXCEPT !.stage = "term"]
        PROVE  /\ job'.stage = "term" /\ job'.kind = "Store"
                /\ job'.type = job.type /\ job'.rest = job.rest
    BY <1>1, <2>2 DEF Jobs
  <2>3. written[job.conn] \in BOOLEAN
    BY <1>1 DEF Jobs, TypeOK, Flags
  <2> QED
    BY <2>1, <2>2, <2>3 DEF ServerReceive, session, user, stream
<1>3. \A u \in Users : ~Waiting(u)
  BY <1>1, TripFacts DEF OneInv, Stream, Waiting, Alone, TypeOK, Callers, Moving
<1> QED
  BY <1>1, <1>2, <1>3 DEF OneInv, Connected, Waiting

(* A command in between makes the server forget its REST. *)
LEMMA RestDropped == Alone => ~PendingRest
BY DEF Alone, PendingRest

LEMMA RestartedSimple ==
  ASSUME Alone, TypeOK, Messages, HeldOpen, OneInv, ServerSimple
  PROVE  Restarted'
<1>1. Ready
  BY DEF ServerSimple
<1>2. PICK u \in Users : u = Command.by
  BY <1>1, AloneCommand
<1>3. /\ Users = {u} /\ mu = u /\ pc[u] = Command.at /\ pc[u] \in {"site", "rest", "delete"}
      /\ inbox # <<>> /\ ~isClosed /\ inbox' = <<>> /\ replies = <<>>
  BY <1>1, <1>2, AloneCommand DEF Alone, ServerSimple, Ready
<1>4. replies' # <<>> /\ Head(replies').code = Expect[pc[u]]
  BY <1>3, OneMessage DEF ServerSimple, Answer
<1>5. UNCHANGED <<mu, isClosed, pc, call>> /\ srvRest' = (pc[u] = "rest")
  BY <1>3, RestDropped DEF ServerSimple, session, user
<1>6. pc[u] = "rest" => call[u].off
  BY <1>3 DEF OneInv, Restarted, Waiting
<1> QED
  BY <1>3, <1>4, <1>5, <1>6, ExpectFacts, UsersAssumption DEF Restarted, Waiting

(* The type at the ends of a call. *)
LEMMA TypedStart ==
  ASSUME Alone, TypeOK, Messages, HeldOpen, OneInv, NEW u \in Users, NEW c \in Calls,
         Start(u, c)
  PROVE  Typed'
<1>1. /\ Users = {u} /\ pc[u] = "idle" /\ mu = NoOne
      /\ UNCHANGED <<mu, isClosed, currType, srvType, wanted, unrestored>>
  BY TripFacts DEF Alone, Start, TypeOK, Callers, session, server
<1>2. call'[u] = c /\ saved'[u] = currType
  BY DEF Start, TypeOK, Callers
<1>3. /\ pc'[u] \in {"idle", "delete", "set", "site", "pasv", "type"}
      /\ pc'[u] = "pasv" => c.t = currType
  <2>1. First(c) \in {"delete", "set", "site", "pasv", "type"}
    BY DEF First
  <2>2. First(c) = "pasv" => c.kind = "List" /\ currType = "A"
    BY DEF First
  <2> QED
    BY <1>1, <2>1, <2>2, CallFacts DEF Start, TypeOK, Callers
<1>4. ~isClosed => srvType = currType /\ (~unrestored => currType = wanted)
  BY <1>1, UsersAssumption DEF OneInv, Typed
<1> QED
  BY <1>1, <1>2, <1>3, <1>4, UsersAssumption DEF Typed, Living

LEMMA TypedRecvOther ==
  ASSUME Alone, TypeOK, Messages, HeldOpen, OneInv, NEW u \in Users, RecvOther(u)
  PROVE  Typed'
<1>1. /\ Users = {u} /\ mu = u /\ pc[u] \in Trips /\ Head(replies).code # Expect[pc[u]]
      /\ ~isClosed /\ mu' = NoOne
      /\ UNCHANGED <<currType, srvType, wanted, saved, call>>
  BY UsersAssumption DEF Alone, RecvOther, HeldOpen, server
<1>2. pc'[u] = NextErr[pc[u]] /\ unrestored' = (unrestored \/ pc[u] = "restore")
  BY DEF RecvOther, Fail, TypeOK, Callers
<1>3. srvType = currType
  BY <1>1, ExpectFacts DEF OneInv, Typed
<1>4. pc'[u] \in Living \cup {"pasv", "dial", "restore"} => currType = call[u].t
  BY <1>1, <1>2, TripFacts, NextErrFacts DEF OneInv, Typed, Living
<1>5. ~unrestored' => saved[u] = wanted /\ (pc'[u] \in {"idle", "site", "type", "delete", "set"}
                                          => currType = wanted)
  BY <1>1, <1>2, TripFacts, NextErrFacts DEF OneInv, Typed
<1> QED
  BY <1>1, <1>3, <1>4, <1>5, UsersAssumption DEF Typed

LEMMA TypedSkip ==
  ASSUME Alone, TypeOK, Messages, HeldOpen, OneInv, NEW u \in Users, SkipRestore(u)
  PROVE  Typed'
<1>1. /\ Users = {u} /\ pc[u] = "restore" /\ ~NeedsRestore(u) /\ pc'[u] = "idle"
      /\ UNCHANGED <<mu, isClosed, currType, srvType, wanted, saved, call, unrestored>>
  BY DEF Alone, SkipRestore, TypeOK, Callers, session, server, ghost
<1>2. mu = NoOne
  BY <1>1 DEF HeldOpen, TypeOK, Callers
<1>3. ASSUME ~isClosed PROVE call[u].kind = "List" /\ saved[u] = "A" /\ currType = call[u].t
  BY <1>1, <1>3 DEF NeedsRestore, OneInv, Typed
<1>4. ASSUME ~isClosed PROVE currType = saved[u]
  BY <1>3, <1>4, CallFacts DEF TypeOK, Callers
<1>5. ASSUME ~isClosed PROVE srvType = currType /\ (~unrestored => saved[u] = wanted)
  BY <1>1, <1>2, <1>5, UsersAssumption DEF OneInv, Typed
<1> QED
  BY <1>1, <1>2, <1>4, <1>5, UsersAssumption DEF Typed, Living

(* The server has done what it confirms. *)
LEMMA ReportedServe ==
  ASSUME Alone, TypeOK, Messages, HeldOpen, OneInv, ServerType \/ ServerSimple
  PROVE  Reported'
<1>1. Ready
  BY DEF ServerType, ServerSimple
<1>2. PICK u \in Users : u = Command.by
  BY <1>1, AloneCommand
<1>3. Users = {u} /\ mu = u /\ pc[u] = Command.at /\ ~isClosed
  BY <1>1, <1>2, AloneCommand DEF Alone, Ready
<1>4. /\ UNCHANGED <<mu, isClosed, pc, res>>
      /\ served[u] => served'[u]
      /\ pc[u] \in {"set", "delete"} => served'[u]
  BY <1>2, <1>3 DEF ServerType, ServerSimple, session, user, TypeOK, Flags
<1> QED
  BY <1>3, <1>4 DEF OneInv, Reported

(* The control stream stays in step with the call. *)
LEMMA StreamStep == Alone /\ AnyInv /\ OneInv /\ [Next]_vars => Stream'
<1> SUFFICES ASSUME Alone, TypeOK, Messages, HeldOpen, Children, OneInv, [Next]_vars
                PROVE  Stream'
  BY DEF AnyInv
<1> USE TripFacts, NextOKFacts, NextErrFacts, ExpectFacts, UsersAssumption DEF Alone, TypeOK,
    Callers, HeldOpen, OneInv, Stream, Connected, Moving, InTransfer, Terminated, Arg, session,
    user, data, stream, server, ghost
<1>1. ASSUME NEW u \in Users, NEW c \in Calls, Start(u, c) PROVE Stream'
  BY <1>1 DEF Start, guardResume, First
<1>2. ASSUME NEW u \in Users, RecvOK(u) PROVE Stream'
  BY <1>2, StreamRecvOK
<1>3. ASSUME NEW u \in Users, RecvOther(u) PROVE Stream'
  BY <1>3 DEF RecvOther, Fail
<1>4. ASSUME NEW u \in Users, CheckLast(u) PROVE Stream'
  BY <1>4, StreamCheckLast
<1>5. ASSUME NEW u \in Users, RecvFail(u) PROVE Stream'
  BY <1>5 DEF RecvFail, Fail, closeLocked
<1>6. ASSUME NEW u \in Users, Send(u) PROVE Stream'
  <2>1. Users = {u} /\ mu' = u /\ UNCHANGED <<pc, job, replies, call, saved, served, peer>>
    BY <1>6 DEF Send
  <2>2. CASE pc[u] = "check"
    BY <1>6, <2>1, <2>2 DEF Send
  <2>3. CASE pc[u] # "check"
    <3>1. pc[u] \in Trips /\ replies = <<>> /\ ~job.on /\ inbox = <<>>
      BY <1>6, <2>3 DEF Send
    <3>2. inbox' = <<[by |-> u, at |-> pc[u], arg |-> Arg(u)]>>
      BY <1>6, <2>3, <3>1, OneMessage DEF Send
    <3>3. /\ inbox' # <<>> /\ Tail(inbox') = <<>> /\ Head(inbox').at = pc[u]
         /\ Head(inbox').arg = Arg(u)
      BY <3>2, OneMessage
    <3> QED
      BY <2>1, <3>1, <3>3
  <2> QED
    BY <2>2, <2>3
<1>7. ASSUME NEW u \in Users, SendClosed(u) PROVE Stream'
  BY <1>7 DEF SendClosed, Fail
<1>8. ASSUME NEW u \in Users, SkipRestore(u) PROVE Stream'
  BY <1>8 DEF SkipRestore
<1>9. ASSUME NEW u \in Users, Dial(u) PROVE Stream'
  BY <1>9 DEF Dial
<1>10. ASSUME NEW u \in Users, DialFail(u) PROVE Stream'
  BY <1>10 DEF DialFail, Fail
<1>11. ASSUME NEW u \in Users, DataDone(u) PROVE Stream'
  BY <1>11 DEF DataDone
<1>12. ASSUME NEW u \in Users, DataAborted(u) PROVE Stream'
  BY <1>12 DEF DataAborted, DataFail
<1>13. ASSUME NEW u \in Users, Abort(u) PROVE Stream'
  BY <1>13 DEF Abort, closeLocked
<1>14. ASSUME NEW u \in Users, ConfirmClose(u) PROVE Stream'
  BY <1>14 DEF ConfirmClose, childClose
<1>15. ASSUME NEW u \in Users, ConfirmCloseFail(u) PROVE Stream'
  BY <1>15 DEF ConfirmCloseFail, childClose
<1>16. ASSUME NEW u \in Users, Cleanup(u) PROVE Stream'
  BY <1>16 DEF Cleanup, childClose
<1>17. ASSUME NEW u \in Users, LocalFail(u) PROVE Stream'
  BY <1>17 DEF LocalFail, DataFail
<1>18. ASSUME NEW c \in Closers, Close(c) PROVE Stream'
  BY <1>18 DEF Close, closeLocked
<1>19. ASSUME ServerRefuse PROVE Stream'
  BY <1>19 DEF ServerRefuse, Ready, Command, Answer
<1>20. ASSUME ServerType PROVE Stream'
  BY <1>20 DEF ServerType, Ready, Command, Answer
<1>21. ASSUME ServerSimple PROVE Stream'
  BY <1>21 DEF ServerSimple, Ready, Command, Answer
<1>22. ASSUME ServerPasv PROVE Stream'
  BY <1>22 DEF ServerPasv, Ready, Command, Answer
<1>23. ASSUME ServerStart PROVE Stream'
  BY <1>23 DEF ServerStart, Ready, Command, Answer
<1>24. ASSUME ServerSend PROVE Stream'
  BY <1>24 DEF ServerSend
<1>25. ASSUME ServerReceive PROVE Stream'
  BY <1>25, StreamReceive
<1>26. ASSUME ServerTerminal PROVE Stream'
  BY <1>26, StreamTerminal
<1>27. ASSUME NEW u \in Users, SendExpired(u) PROVE Stream'
  BY <1>27 DEF SendExpired, Fail
<1>28. ASSUME UNCHANGED vars PROVE Stream'
  <2>1. UNCHANGED <<mu, isClosed, pc, call, saved, peer, served, inbox, replies, job>>
    BY <1>28 DEF vars
  <2>2. Stream
    BY DEF OneInv
  <2>3. \A t, u : Terminated(t, u)' <=> Terminated(t, u)
    BY <2>1
  <2>4. \A t, u : InTransfer(t, u)' <=> InTransfer(t, u)
    BY <2>1, <2>3
  <2>5. \A u : Arg(u)' = Arg(u)
    BY <2>1
  <2> HIDE DEF OneInv, TypeOK, Callers, HeldOpen, Connected, Arg, InTransfer, Terminated
  <2> QED
    BY <2>1, <2>2, <2>4, <2>5
<1> HIDE DEF OneInv, Stream, Connected, TypeOK, Callers, HeldOpen
<1> QED
  BY <1>1, <1>2, <1>3, <1>4, <1>5, <1>6, <1>7, <1>8, <1>9, <1>10, <1>11, <1>12, <1>13,
     <1>14, <1>15, <1>16, <1>17, <1>18, <1>19, <1>20, <1>21, <1>22, <1>23, <1>24, <1>25,
     <1>26, <1>27, <1>28
  DEF Next, Await, Proceed, ServerStep

(* The data connection stays in step with the call. *)
LEMMA ConnectedStep == Alone /\ AnyInv /\ OneInv /\ [Next]_vars => Connected'
<1> SUFFICES ASSUME Alone, TypeOK, Messages, HeldOpen, Children, OneInv, [Next]_vars
                PROVE  Connected'
  BY DEF AnyInv
<1> USE TripFacts, NextOKFacts, NextErrFacts, ExpectFacts, UsersAssumption, JobFacts DEF Alone,
    TypeOK, Callers, Sockets, HeldOpen, OneInv, Stream, Connected, Moving, Waiting, session,
    user, data, stream, server, ghost
<1>1. ASSUME NEW u \in Users, NEW c \in Calls, Start(u, c) PROVE Connected'
  BY <1>1 DEF Start, guardResume, First
<1>2. ASSUME NEW u \in Users, RecvOK(u) PROVE Connected'
  BY <1>2 DEF RecvOK
<1>3. ASSUME NEW u \in Users, RecvOther(u) PROVE Connected'
  BY <1>3 DEF RecvOther, Fail
<1>4. ASSUME NEW u \in Users, CheckLast(u) PROVE Connected'
  BY <1>4 DEF CheckLast, closeLocked
<1>5. ASSUME NEW u \in Users, RecvFail(u) PROVE Connected'
  BY <1>5 DEF RecvFail, Fail, closeLocked
<1>6. ASSUME NEW u \in Users, Send(u) PROVE Connected'
  BY <1>6 DEF Send
<1>7. ASSUME NEW u \in Users, SendClosed(u) PROVE Connected'
  BY <1>7 DEF SendClosed, Fail
<1>8. ASSUME NEW u \in Users, SkipRestore(u) PROVE Connected'
  BY <1>8 DEF SkipRestore
<1>9. ASSUME NEW u \in Users, Dial(u) PROVE Connected'
  BY <1>9 DEF Dial
<1>10. ASSUME NEW u \in Users, DialFail(u) PROVE Connected'
  BY <1>10 DEF DialFail, Fail
<1>11. ASSUME NEW u \in Users, DataDone(u) PROVE Connected'
  BY <1>11 DEF DataDone
<1>12. ASSUME NEW u \in Users, DataAborted(u) PROVE Connected'
  BY <1>12 DEF DataAborted, DataFail
<1>13. ASSUME NEW u \in Users, Abort(u) PROVE Connected'
  BY <1>13 DEF Abort, closeLocked
<1>14. ASSUME NEW u \in Users, ConfirmClose(u) PROVE Connected'
  BY <1>14 DEF ConfirmClose, childClose
<1>15. ASSUME NEW u \in Users, ConfirmCloseFail(u) PROVE Connected'
  BY <1>15 DEF ConfirmCloseFail, childClose
<1>16. ASSUME NEW u \in Users, Cleanup(u) PROVE Connected'
  BY <1>16 DEF Cleanup, childClose
<1>17. ASSUME NEW u \in Users, LocalFail(u) PROVE Connected'
  BY <1>17 DEF LocalFail, DataFail
<1>18. ASSUME NEW c \in Closers, Close(c) PROVE Connected'
  BY <1>18 DEF Close, closeLocked
<1>19. ASSUME ServerRefuse PROVE Connected'
  BY <1>19 DEF ServerRefuse, Ready, Command, Answer
<1>20. ASSUME ServerType PROVE Connected'
  BY <1>20 DEF ServerType, Ready, Command, Answer
<1>21. ASSUME ServerSimple PROVE Connected'
  BY <1>21 DEF ServerSimple, Ready, Command, Answer
<1>22. ASSUME ServerPasv PROVE Connected'
  BY <1>22 DEF ServerPasv, Ready, Command, Answer
<1>23. ASSUME ServerStart PROVE Connected'
  BY <1>23, ConnectedStart
<1>24. ASSUME ServerSend PROVE Connected'
  BY <1>24 DEF ServerSend
<1>25. ASSUME ServerReceive PROVE Connected'
  BY <1>25, ConnectedReceive
<1>26. ASSUME ServerTerminal PROVE Connected'
  BY <1>26 DEF ServerTerminal, NoJob
<1>27. ASSUME NEW u \in Users, SendExpired(u) PROVE Connected'
  BY <1>27 DEF SendExpired, Fail
<1>28. ASSUME UNCHANGED vars PROVE Connected'
  BY <1>28 DEF vars
<1> QED
  BY <1>1, <1>2, <1>3, <1>4, <1>5, <1>6, <1>7, <1>8, <1>9, <1>10, <1>11, <1>12, <1>13,
     <1>14, <1>15, <1>16, <1>17, <1>18, <1>19, <1>20, <1>21, <1>22, <1>23, <1>24, <1>25,
     <1>26, <1>27, <1>28
  DEF Next, Await, Proceed, ServerStep

(* The server's restart marker is the one of the transfer to come. *)
LEMMA RestartedStep == Alone /\ AnyInv /\ OneInv /\ [Next]_vars => Restarted'
<1> SUFFICES ASSUME Alone, TypeOK, Messages, HeldOpen, Children, OneInv, [Next]_vars
                PROVE  Restarted'
  BY DEF AnyInv
<1> USE TripFacts, NextOKFacts, NextErrFacts, ExpectFacts, UsersAssumption, OneMessage DEF
    Alone, TypeOK, Callers, Flags, HeldOpen, OneInv, Stream, Moving, Restarted, Waiting,
    session, user, data, stream, server, ghost
<1>1. ASSUME NEW u \in Users, NEW c \in Calls, Start(u, c) PROVE Restarted'
  BY <1>1 DEF Start, guardResume, First
<1>2. ASSUME NEW u \in Users, RecvOK(u) PROVE Restarted'
  BY <1>2 DEF RecvOK
<1>3. ASSUME NEW u \in Users, RecvOther(u) PROVE Restarted'
  BY <1>3 DEF RecvOther, Fail
<1>4. ASSUME NEW u \in Users, CheckLast(u) PROVE Restarted'
  BY <1>4 DEF CheckLast, closeLocked
<1>5. ASSUME NEW u \in Users, RecvFail(u) PROVE Restarted'
  BY <1>5 DEF RecvFail, Fail, closeLocked
<1>6. ASSUME NEW u \in Users, Send(u) PROVE Restarted'
  BY <1>6 DEF Send
<1>7. ASSUME NEW u \in Users, SendClosed(u) PROVE Restarted'
  BY <1>7 DEF SendClosed, Fail
<1>8. ASSUME NEW u \in Users, SkipRestore(u) PROVE Restarted'
  BY <1>8 DEF SkipRestore
<1>9. ASSUME NEW u \in Users, Dial(u) PROVE Restarted'
  BY <1>9 DEF Dial
<1>10. ASSUME NEW u \in Users, DialFail(u) PROVE Restarted'
  BY <1>10 DEF DialFail, Fail
<1>11. ASSUME NEW u \in Users, DataDone(u) PROVE Restarted'
  BY <1>11 DEF DataDone
<1>12. ASSUME NEW u \in Users, DataAborted(u) PROVE Restarted'
  BY <1>12 DEF DataAborted, DataFail
<1>13. ASSUME NEW u \in Users, Abort(u) PROVE Restarted'
  BY <1>13 DEF Abort, closeLocked
<1>14. ASSUME NEW u \in Users, ConfirmClose(u) PROVE Restarted'
  BY <1>14 DEF ConfirmClose, childClose
<1>15. ASSUME NEW u \in Users, ConfirmCloseFail(u) PROVE Restarted'
  BY <1>15 DEF ConfirmCloseFail, childClose
<1>16. ASSUME NEW u \in Users, Cleanup(u) PROVE Restarted'
  BY <1>16 DEF Cleanup, childClose
<1>17. ASSUME NEW u \in Users, LocalFail(u) PROVE Restarted'
  BY <1>17 DEF LocalFail, DataFail
<1>18. ASSUME NEW c \in Closers, Close(c) PROVE Restarted'
  BY <1>18 DEF Close, closeLocked
<1>19. ASSUME ServerRefuse PROVE Restarted'
  BY <1>19, AloneCommand, RestDropped DEF ServerRefuse, Ready, Command, Answer
<1>20. ASSUME ServerType PROVE Restarted'
  BY <1>20, AloneCommand, RestDropped DEF ServerType, Ready, Command, Answer
<1>21. ASSUME ServerSimple PROVE Restarted'
  BY <1>21, RestartedSimple
<1>22. ASSUME ServerPasv PROVE Restarted'
  BY <1>22, AloneCommand, RestDropped DEF ServerPasv, Ready, Command, Answer
<1>23. ASSUME ServerStart PROVE Restarted'
  BY <1>23 DEF ServerStart, Ready, Command, Answer
<1>24. ASSUME ServerSend PROVE Restarted'
  BY <1>24 DEF ServerSend
<1>25. ASSUME ServerReceive PROVE Restarted'
  BY <1>25 DEF ServerReceive
<1>26. ASSUME ServerTerminal PROVE Restarted'
  BY <1>26 DEF ServerTerminal, Terminal
<1>27. ASSUME NEW u \in Users, SendExpired(u) PROVE Restarted'
  BY <1>27 DEF SendExpired, Fail
<1>28. ASSUME UNCHANGED vars PROVE Restarted'
  BY <1>28 DEF vars
<1> QED
  BY <1>1, <1>2, <1>3, <1>4, <1>5, <1>6, <1>7, <1>8, <1>9, <1>10, <1>11, <1>12, <1>13,
     <1>14, <1>15, <1>16, <1>17, <1>18, <1>19, <1>20, <1>21, <1>22, <1>23, <1>24, <1>25,
     <1>26, <1>27, <1>28
  DEF Next, Await, Proceed, ServerStep

(* Both sides have the same type, and the one that the call needs. *)
LEMMA TypedStep == Alone /\ AnyInv /\ OneInv /\ [Next]_vars => Typed'
<1> SUFFICES ASSUME Alone, TypeOK, Messages, HeldOpen, Children, OneInv, [Next]_vars
                PROVE  Typed'
  BY DEF AnyInv
<1> USE TripFacts, NextOKFacts, NextErrFacts, ExpectFacts, UsersAssumption, CallFacts,
    OneMessage DEF Alone, TypeOK, Callers, Flags, HeldOpen, OneInv, Stream, Typed, Arg,
    NeedsRestore, Moving, Living, session, user, data, stream, server, ghost
<1>1. ASSUME NEW u \in Users, NEW c \in Calls, Start(u, c) PROVE Typed'
  BY <1>1, TypedStart
<1>2. ASSUME NEW u \in Users, RecvOK(u) PROVE Typed'
  BY <1>2 DEF RecvOK
<1>3. ASSUME NEW u \in Users, RecvOther(u) PROVE Typed'
  BY <1>3, TypedRecvOther
<1>4. ASSUME NEW u \in Users, CheckLast(u) PROVE Typed'
  BY <1>4 DEF CheckLast, closeLocked
<1>5. ASSUME NEW u \in Users, RecvFail(u) PROVE Typed'
  BY <1>5 DEF RecvFail, Fail, closeLocked
<1>6. ASSUME NEW u \in Users, Send(u) PROVE Typed'
  BY <1>6 DEF Send
<1>7. ASSUME NEW u \in Users, SendClosed(u) PROVE Typed'
  BY <1>7 DEF SendClosed, Fail
<1>8. ASSUME NEW u \in Users, SkipRestore(u) PROVE Typed'
  BY <1>8, TypedSkip
<1>9. ASSUME NEW u \in Users, Dial(u) PROVE Typed'
  BY <1>9 DEF Dial
<1>10. ASSUME NEW u \in Users, DialFail(u) PROVE Typed'
  BY <1>10 DEF DialFail, Fail
<1>11. ASSUME NEW u \in Users, DataDone(u) PROVE Typed'
  BY <1>11 DEF DataDone
<1>12. ASSUME NEW u \in Users, DataAborted(u) PROVE Typed'
  BY <1>12 DEF DataAborted, DataFail
<1>13. ASSUME NEW u \in Users, Abort(u) PROVE Typed'
  BY <1>13 DEF Abort, closeLocked
<1>14. ASSUME NEW u \in Users, ConfirmClose(u) PROVE Typed'
  BY <1>14 DEF ConfirmClose, childClose
<1>15. ASSUME NEW u \in Users, ConfirmCloseFail(u) PROVE Typed'
  BY <1>15 DEF ConfirmCloseFail, childClose
<1>16. ASSUME NEW u \in Users, Cleanup(u) PROVE Typed'
  BY <1>16 DEF Cleanup, childClose
<1>17. ASSUME NEW u \in Users, LocalFail(u) PROVE Typed'
  BY <1>17 DEF LocalFail, DataFail
<1>18. ASSUME NEW c \in Closers, Close(c) PROVE Typed'
  BY <1>18 DEF Close, closeLocked
<1>19. ASSUME ServerRefuse PROVE Typed'
  BY <1>19 DEF ServerRefuse, Ready, Command, Answer
<1>20. ASSUME ServerType PROVE Typed'
  BY <1>20 DEF ServerType, Ready, Command, Answer
<1>21. ASSUME ServerSimple PROVE Typed'
  BY <1>21 DEF ServerSimple, Ready, Command, Answer
<1>22. ASSUME ServerPasv PROVE Typed'
  BY <1>22 DEF ServerPasv, Ready, Command, Answer
<1>23. ASSUME ServerStart PROVE Typed'
  BY <1>23 DEF ServerStart, Ready, Command, Answer
<1>24. ASSUME ServerSend PROVE Typed'
  BY <1>24 DEF ServerSend
<1>25. ASSUME ServerReceive PROVE Typed'
  BY <1>25 DEF ServerReceive
<1>26. ASSUME ServerTerminal PROVE Typed'
  BY <1>26 DEF ServerTerminal, Terminal
<1>27. ASSUME NEW u \in Users, SendExpired(u) PROVE Typed'
  BY <1>27 DEF SendExpired, Fail
<1>28. ASSUME UNCHANGED vars PROVE Typed'
  BY <1>28 DEF vars
<1> QED
  BY <1>1, <1>2, <1>3, <1>4, <1>5, <1>6, <1>7, <1>8, <1>9, <1>10, <1>11, <1>12, <1>13,
     <1>14, <1>15, <1>16, <1>17, <1>18, <1>19, <1>20, <1>21, <1>22, <1>23, <1>24, <1>25,
     <1>26, <1>27, <1>28
  DEF Next, Await, Proceed, ServerStep

(* A success is reported after the server has done what was asked. *)
LEMMA ReportedStep == Alone /\ AnyInv /\ OneInv /\ [Next]_vars => Reported'
<1> SUFFICES ASSUME Alone, TypeOK, Messages, HeldOpen, Children, OneInv, [Next]_vars
                PROVE  Reported'
  BY DEF AnyInv
<1> USE TripFacts, NextOKFacts, NextErrFacts, ExpectFacts, UsersAssumption, OneMessage DEF
    Alone, TypeOK, Callers, Flags, HeldOpen, OneInv, Stream, Connected, Moving, InTransfer,
    Terminated, Reported, session, user, data, stream, server, ghost
<1>1. ASSUME NEW u \in Users, NEW c \in Calls, Start(u, c) PROVE Reported'
  BY <1>1 DEF Start, guardResume, First
<1>2. ASSUME NEW u \in Users, RecvOK(u) PROVE Reported'
  BY <1>2 DEF RecvOK
<1>3. ASSUME NEW u \in Users, RecvOther(u) PROVE Reported'
  BY <1>3 DEF RecvOther, Fail
<1>4. ASSUME NEW u \in Users, CheckLast(u) PROVE Reported'
  BY <1>4, FirstReply DEF CheckLast, closeLocked
<1>5. ASSUME NEW u \in Users, RecvFail(u) PROVE Reported'
  BY <1>5 DEF RecvFail, Fail, closeLocked
<1>6. ASSUME NEW u \in Users, Send(u) PROVE Reported'
  BY <1>6 DEF Send
<1>7. ASSUME NEW u \in Users, SendClosed(u) PROVE Reported'
  BY <1>7 DEF SendClosed, Fail
<1>8. ASSUME NEW u \in Users, SkipRestore(u) PROVE Reported'
  BY <1>8 DEF SkipRestore
<1>9. ASSUME NEW u \in Users, Dial(u) PROVE Reported'
  BY <1>9 DEF Dial
<1>10. ASSUME NEW u \in Users, DialFail(u) PROVE Reported'
  BY <1>10 DEF DialFail, Fail
<1>11. ASSUME NEW u \in Users, DataDone(u) PROVE Reported'
  BY <1>11 DEF DataDone
<1>12. ASSUME NEW u \in Users, DataAborted(u) PROVE Reported'
  BY <1>12 DEF DataAborted, DataFail
<1>13. ASSUME NEW u \in Users, Abort(u) PROVE Reported'
  BY <1>13 DEF Abort, closeLocked
<1>14. ASSUME NEW u \in Users, ConfirmClose(u) PROVE Reported'
  BY <1>14 DEF ConfirmClose, childClose
<1>15. ASSUME NEW u \in Users, ConfirmCloseFail(u) PROVE Reported'
  BY <1>15 DEF ConfirmCloseFail, childClose
<1>16. ASSUME NEW u \in Users, Cleanup(u) PROVE Reported'
  BY <1>16 DEF Cleanup, childClose
<1>17. ASSUME NEW u \in Users, LocalFail(u) PROVE Reported'
  BY <1>17 DEF LocalFail, DataFail
<1>18. ASSUME NEW c \in Closers, Close(c) PROVE Reported'
  BY <1>18 DEF Close, closeLocked
<1>19. ASSUME ServerRefuse PROVE Reported'
  BY <1>19 DEF ServerRefuse, Ready, Command, Answer
<1>20. ASSUME ServerType PROVE Reported'
  BY <1>20, ReportedServe
<1>21. ASSUME ServerSimple PROVE Reported'
  BY <1>21, ReportedServe
<1>22. ASSUME ServerPasv PROVE Reported'
  BY <1>22 DEF ServerPasv, Ready, Command, Answer
<1>23. ASSUME ServerStart PROVE Reported'
  BY <1>23 DEF ServerStart, Ready, Command, Answer
<1>24. ASSUME ServerSend PROVE Reported'
  BY <1>24 DEF ServerSend
<1>25. ASSUME ServerReceive PROVE Reported'
  BY <1>25 DEF ServerReceive
<1>26. ASSUME ServerTerminal PROVE Reported'
  BY <1>26 DEF ServerTerminal, Terminal
<1>27. ASSUME NEW u \in Users, SendExpired(u) PROVE Reported'
  BY <1>27 DEF SendExpired, Fail
<1>28. ASSUME UNCHANGED vars PROVE Reported'
  BY <1>28 DEF vars
<1> QED
  BY <1>1, <1>2, <1>3, <1>4, <1>5, <1>6, <1>7, <1>8, <1>9, <1>10, <1>11, <1>12, <1>13,
     <1>14, <1>15, <1>16, <1>17, <1>18, <1>19, <1>20, <1>21, <1>22, <1>23, <1>24, <1>25,
     <1>26, <1>27, <1>28
  DEF Next, Await, Proceed, ServerStep

LEMMA InitOne == Init => OneInv
<1> SUFFICES ASSUME Init PROVE OneInv
  OBVIOUS
<1> USE TripFacts DEF Init, Moving, Living, Waiting
<1>1. Stream /\ Connected
  BY DEF Stream, Connected, NoJob
<1>2. Restarted /\ Typed /\ Reported
  BY DEF Restarted, Typed, Reported
<1> QED
  BY <1>1, <1>2 DEF OneInv

(* Every reachable state of a session with one goroutine, which any number *)
(* of others may close.                                                    *)
THEOREM OneInvariant ==
  ASSUME Alone
  PROVE  Spec => [](AnyInv /\ OneInv)
<1>1. Init => AnyInv /\ OneInv
  BY InitAny, InitOne
<1>2. AnyInv /\ OneInv /\ [Next]_vars => (AnyInv /\ OneInv)'
  BY TypeStep, MessagesStep, HeldStep, ChildrenStep,
     StreamStep, ConnectedStep, RestartedStep, TypedStep, ReportedStep DEF AnyInv, OneInv
<1> QED
  BY <1>1, <1>2, PTL DEF Spec

(* A session is never reused one reply out of phase: whoever waits finds   *)
(* the reply to what it asked, and between calls nothing is unread.        *)
THEOREM RepliesInSync ==
  ASSUME Alone
  PROVE  Spec => []InSync
<1>1. AnyInv /\ OneInv => InSync
  <2> SUFFICES ASSUME TypeOK, Messages, HeldOpen, OneInv PROVE InSync
    BY DEF AnyInv
  <2>1. ASSUME mu # NoOne, replies # <<>>
        PROVE  Head(replies).by = mu /\ Head(replies).at = pc[mu]
    <3>1. mu \in Users /\ ~isClosed /\ pc[mu] \in Trips \cup {"check"}
      BY <2>1 DEF TypeOK, Callers, HeldOpen
    <3>2. Head(replies) \in Replies
      BY <2>1, HeadTailProperties DEF Messages
    <3>3. Head(replies).by = mu
      BY <3>1, <3>2 DEF Replies, Alone
    <3>4. CASE pc[mu] \in Trips
      <4>1. inbox = <<>>
        BY <2>1, <3>1 DEF OneInv, Stream
      <4> QED
        BY <3>1, <3>3, <3>4, <4>1 DEF OneInv, Stream
    <3>5. CASE pc[mu] = "check"
      <4>1. InTransfer(replies, mu)
        BY <3>1, <3>5 DEF OneInv, Stream, Moving
      <4>2. Terminated(replies, mu)
        BY <2>1, <4>1 DEF InTransfer
      <4>3. PICK n \in Nat \ {0} : n = Len(replies)
        BY <2>1, FirstReply
      <4>4. replies[1].at = "check"
        BY <4>2, <4>3 DEF Terminated
      <4>5. Head(replies) = replies[1]
        BY <2>1, FirstReply
      <4> QED
        BY <3>3, <3>5, <4>4, <4>5
    <3> QED
      BY <3>1, <3>3, <3>4, <3>5
  <2>2. ASSUME ~isClosed, \A u \in Users : pc[u] = "idle"
        PROVE  inbox = <<>> /\ replies = <<>> /\ ~job.on
    BY <2>2, TripFacts DEF TypeOK, Callers, OneInv, Stream, Moving, Alone
  <2> QED
    BY <2>1, <2>2 DEF InSync
<1> QED
  BY <1>1, OneInvariant, PTL

(* What a call reports as done, the server has done: over this call's own  *)
(* data connection, in full, in the requested type and from the requested  *)
(* offset.                                                                 *)
THEOREM SuccessServed ==
  ASSUME Alone
  PROVE  Spec => []SuccessIsServed
<1>1. AnyInv /\ OneInv => SuccessIsServed
  BY DEF OneInv, Reported, SuccessIsServed
<1> QED
  BY <1>1, OneInvariant, PTL

(* The session never believes in a type that the server does not have.     *)
THEOREM TypesAgree ==
  ASSUME Alone
  PROVE  Spec => []TypeAgrees
<1>1. AnyInv /\ OneInv => TypeAgrees
  BY UsersAssumption DEF OneInv, Typed, TypeAgrees, Alone
<1> QED
  BY <1>1, OneInvariant, PTL

(* A transfer leaves the type that the application selected, whatever step *)
(* of it failed, unless the server refused the restore itself.             *)
THEOREM TypeIsRestored ==
  ASSUME Alone
  PROVE  Spec => []TypeRestored
<1>1. AnyInv /\ OneInv => TypeRestored
  BY DEF OneInv, Typed, TypeRestored, Alone
<1> QED
  BY <1>1, OneInvariant, PTL
=============================================================================
