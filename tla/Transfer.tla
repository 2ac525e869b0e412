------------------------------ MODULE Transfer ------------------------------
(***************************************************************************)
(* Whole operations of an FTPSession (transfer.go, lists.go, passive.go,   *)
(* mutations.go): transfers and listings made of several round trips, a    *)
(* data connection and a terminal reply that the server sends on its own   *)
(* time, beside Close.  A round trip is two steps, Send (take the mutex,   *)
(* write) and Recv (read one reply, release): ControlConn shows that the   *)
(* mutex makes that sound and that a wait ends.  The server is modelled    *)
(* from internal/mockzos and its scripted faults.                          *)
(***************************************************************************)
EXTENDS Naturals, Sequences

CONSTANTS Users,          \* goroutines that call operations
          Closers,        \* goroutines that only call Close
          NoOne,
          Ports,          \* ports the server listens on for data connections
          Prelim,         \* codes with which the server announces a transfer
          CloseMayFail,   \* closing a data connection may return an error
          RestLingers,    \* the server keeps a REST that no transfer followed
          MaxUnread       \* bound: no call starts on an open session that
                          \* has more replies still to read

ASSUME UsersAssumption == NoOne \notin Users \cup Closers /\ Users \cap Closers = {}
ASSUME PrelimAssumption == Prelim \subseteq {"125", "150"} /\ "125" \in Prelim
ASSUME CloseMayFailAssumption == CloseMayFail \in BOOLEAN
ASSUME RestLingersAssumption == RestLingers \in BOOLEAN
ASSUME MaxUnreadAssumption == MaxUnread \in Nat

VARIABLES
  mu, isClosed, currType, registry,   \* FTPSession: mu, isClosed, currType, dataConns
  pc, call, saved, port, res,         \* per user: position, call, current, port, result
  child, peer, written,               \* per user: its data connection, both ends
  inbox, replies,                     \* the control stream, both directions
  srvType, srvRest, listener, queued, job,   \* the server's session
  served,                             \* per user: the server did what the call asked
  wanted, unrestored                  \* type set by SetType; a restore was refused

session == <<mu, isClosed, currType, registry>>
user == <<pc, call, saved, port, res>>
data == <<child, peer, written>>
stream == <<inbox, replies>>
server == <<srvType, srvRest, listener, queued, job>>
ghost == <<served, wanted, unrestored>>
vars == <<session, user, data, stream, server, ghost>>

Types == {"A", "I"}
NoPort == "noport"
NoJob == [on |-> FALSE]

(* The calls a user makes.  off: a positive byte offset (the ...At methods). *)
Calls ==
  [kind : {"Store", "Retrieve"}, t : Types, off : BOOLEAN]
    \cup [kind : {"List"}, t : {"A"}, off : {FALSE}]
    \cup [kind : {"Delete"}, t : {"I"}, off : {FALSE}]
    \cup [kind : {"SetType"}, t : Types, off : {FALSE}]

(* The positions at which a call is inside a round trip, and the code each *)
(* one expects.                                                            *)
Expect == [site |-> "200", type |-> "200", pasv |-> "227", rest |-> "350",
           xfer |-> "125", restore |-> "200", set |-> "200", delete |-> "250"]
Trips == DOMAIN Expect

(* A session as Login leaves it: TYPE I, and a PASV listener nobody used.  *)
Init ==
  /\ mu = NoOne
  /\ isClosed = FALSE
  /\ currType = "I"
  /\ registry = [p \in Ports |-> NoOne]
  /\ pc = [u \in Users |-> "idle"]
  /\ call = [u \in Users |-> [kind |-> "Delete", t |-> "I", off |-> FALSE]]
  /\ saved = [u \in Users |-> "I"]
  /\ port = [u \in Users |-> NoPort]
  /\ res = [u \in Users |-> "none"]
  /\ child = [u \in Users |-> "none"]
  /\ peer = [u \in Users |-> "none"]
  /\ written = [u \in Users |-> FALSE]
  /\ inbox = <<>>
  /\ replies = <<>>
  /\ srvType = "I"
  /\ srvRest = FALSE
  /\ listener \in Ports
  /\ queued = NoOne
  /\ job = NoJob
  /\ served = [u \in Users |-> FALSE]
  /\ wanted = "I"
  /\ unrestored = FALSE

---------------------------------------------------------------------------
(* Steps shared by the operations. *)

(* childConnection.Close: idempotent; deregisters by the remote address.   *)
childClose(u) ==
  IF child[u] = "open"
  THEN /\ child' = [child EXCEPT ![u] = "closed"]
       /\ registry' = [registry EXCEPT ![port[u]] = NoOne]
  ELSE UNCHANGED <<child, registry>>

(* Mutant of closeLocked: the data connections stay open. *)
closeLockedKeepsChildren ==
  isClosed' = TRUE /\ UNCHANGED <<child, registry>>

(* FTPSession.closeLocked: the first call closes every registered child.   *)
closeLocked ==
  IF isClosed
  THEN UNCHANGED <<isClosed, child, registry>>
  ELSE /\ isClosed' = TRUE
       /\ child' = [u \in Users |-> IF \E p \in Ports : registry[p] = u
                                    THEN "closed" ELSE child[u]]
       /\ registry' = [p \in Ports |-> NoOne]

(* Mutant of NextErr: the restore is not deferred but follows a success. *)
NextErrNoRestore == [site |-> "idle", type |-> "idle", pasv |-> "idle", dial |-> "restore",
                     rest |-> "cleanup", xfer |-> "cleanup", check |-> "cleanup",
                     restore |-> "idle", set |-> "idle", delete |-> "idle"]

(* Where a call goes when the round trip it is in succeeds, and when it    *)
(* fails; the deferred cleanup of the child and the deferred restore of    *)
(* the transfer type are on every way out that the code defers them on.    *)
NextOK == [site |-> "type", type |-> "pasv", pasv |-> "dial", rest |-> "xfer",
           xfer |-> "data", check |-> "cleanup", restore |-> "idle",
           set |-> "idle", delete |-> "idle"]
NextErr == [site |-> "idle", type |-> "idle", pasv |-> "restore", dial |-> "restore",
            rest |-> "cleanup", xfer |-> "cleanup", check |-> "cleanup",
            restore |-> "idle", set |-> "idle", delete |-> "idle"]

(* The round trip of u failed.  anyList only logs a failed restore. *)
Fail(u) ==
  /\ pc' = [pc EXCEPT ![u] = NextErr[pc[u]]]
  /\ res' = IF pc[u] = "restore" /\ call[u].kind = "List"
            THEN res ELSE [res EXCEPT ![u] = "err"]
  /\ unrestored' = (unrestored \/ pc[u] = "restore")

---------------------------------------------------------------------------
(* A user calls an operation: guardResume first, then the transfer type is *)
(* read without the mutex.                                                 *)
First(c) ==
  CASE c.kind = "Delete" -> "delete"
    [] c.kind = "SetType" -> "set"
    [] c.kind = "Retrieve" /\ c.t = "A" -> "site"
    [] c.kind = "List" /\ currType = "A" -> "pasv"
    [] OTHER -> "type"

guardResume(c) == ~(c.off /\ c.t = "A")

Start(u, c) ==
  /\ pc[u] = "idle"
  /\ isClosed \/ Len(replies) + (IF job.on THEN 1 ELSE 0) <= MaxUnread
  /\ call' = [call EXCEPT ![u] = c]
  /\ saved' = [saved EXCEPT ![u] = currType]
  /\ served' = [served EXCEPT ![u] = FALSE]
  /\ written' = [written EXCEPT ![u] = FALSE]
  /\ IF guardResume(c)
     THEN pc' = [pc EXCEPT ![u] = First(c)] /\ res' = [res EXCEPT ![u] = "none"]
     ELSE res' = [res EXCEPT ![u] = "err"] /\ UNCHANGED pc
  /\ UNCHANGED <<session, port, child, peer, stream, server, wanted, unrestored>>

(* sendLocked up to the write; checkLast up to the read, which writes      *)
(* nothing.                                                                *)
Arg(u) ==
  CASE pc[u] = "restore" -> saved[u]
    [] pc[u] = "xfer" -> call[u].kind
    [] OTHER -> call[u].t

(* Whether the deferred restore has anything to do.  restoreType looks at  *)
(* isClosed without the mutex, so SetType may still find the session       *)
(* closed: only RestoreDue guards the refusal of a closed session.         *)
NeedsRestore(u) == IF call[u].kind = "List" THEN saved[u] # "A" ELSE ~isClosed
RestoreDue(u) == call[u].kind = "List" => saved[u] # "A"

Send(u) ==
  /\ pc[u] \in Trips \cup {"check"}
  /\ pc[u] = "restore" => NeedsRestore(u)
  /\ mu = NoOne
  /\ ~isClosed
  /\ mu' = u
  /\ inbox' = IF pc[u] = "check" THEN inbox
              ELSE Append(inbox, [by |-> u, at |-> pc[u], arg |-> Arg(u)])
  /\ UNCHANGED <<isClosed, currType, registry, user, data, replies, server, ghost>>

(* Mutant of SendClosed: checkLast on a closed session reports no error. *)
SendClosedSucceeds(u) ==
  /\ pc[u] \in Trips \cup {"check"}
  /\ pc[u] = "restore" => RestoreDue(u)
  /\ mu = NoOne
  /\ isClosed
  /\ pc' = [pc EXCEPT ![u] = NextErr[pc[u]]]
  /\ res' = [res EXCEPT ![u] = IF pc[u] = "check" THEN "ok" ELSE "err"]
  /\ UNCHANGED <<session, call, saved, port, data, stream, server, ghost>>

SendClosed(u) ==
  /\ pc[u] \in Trips \cup {"check"}
  /\ pc[u] = "restore" => RestoreDue(u)
  /\ mu = NoOne
  /\ isClosed
  /\ Fail(u)
  /\ UNCHANGED <<session, call, saved, port, data, stream, server, served, wanted>>

(* SendCommand's context, or the ten seconds of SetPassiveMode, ran out    *)
(* before the mutex was free: nothing is written and the session stays.    *)
(* TYPE and SITE have no deadline; checkLast reads, and fails, past its own. *)
SendExpired(u) ==
  /\ pc[u] \in {"pasv", "rest", "xfer", "delete"}
  /\ mu = NoOne
  /\ ~isClosed
  /\ Fail(u)
  /\ UNCHANGED <<session, call, saved, port, data, stream, server, served, wanted>>

SkipRestore(u) ==
  /\ pc[u] = "restore"
  /\ ~NeedsRestore(u)
  /\ pc' = [pc EXCEPT ![u] = "idle"]
  /\ UNCHANGED <<session, call, saved, port, res, data, stream, server, ghost>>

(* A reply with the expected code; setTypeLocked then records the type,    *)
(* SetPassiveMode returns the port.                                        *)
RecvOK(u) ==
  /\ mu = u
  /\ pc[u] \in Trips
  /\ replies # <<>>
  /\ Head(replies).code = Expect[pc[u]]
  /\ mu' = NoOne
  /\ replies' = Tail(replies)
  /\ currType' = CASE pc[u] \in {"type", "set"} -> call[u].t
                   [] pc[u] = "restore" -> saved[u]
                   [] OTHER -> currType
  /\ port' = IF pc[u] = "pasv" THEN [port EXCEPT ![u] = Head(replies).port] ELSE port
  /\ res' = IF pc[u] \in {"set", "delete"} THEN [res EXCEPT ![u] = "ok"] ELSE res
  /\ pc' = [pc EXCEPT ![u] = NextOK[pc[u]]]
  /\ wanted' = IF pc[u] = "set" THEN call[u].t ELSE wanted
  /\ unrestored' = (unrestored /\ pc[u] # "set")
  /\ UNCHANGED <<isClosed, registry, call, saved, data, inbox, server, served>>

(* Mutant of RecvOther: the type is recorded though TYPE was refused. *)
RecvOtherRecordsType(u) ==
  /\ mu = u
  /\ pc[u] \in Trips
  /\ replies # <<>>
  /\ Head(replies).code # Expect[pc[u]]
  /\ mu' = NoOne
  /\ replies' = Tail(replies)
  /\ currType' = IF pc[u] = "type" THEN call[u].t ELSE currType
  /\ Fail(u)
  /\ UNCHANGED <<isClosed, registry, call, saved, port, data, inbox, server, served, wanted>>

(* A complete reply with another code: sendLocked keeps the session. *)
RecvOther(u) ==
  /\ mu = u
  /\ pc[u] \in Trips
  /\ replies # <<>>
  /\ Head(replies).code # Expect[pc[u]]
  /\ mu' = NoOne
  /\ replies' = Tail(replies)
  /\ Fail(u)
  /\ UNCHANGED <<isClosed, currType, registry, call, saved, port, data, inbox, server,
                 served, wanted>>

(* Mutant of CheckLast: the session is kept after a 426. *)
CheckLastKeepsSession(u) ==
  /\ mu = u
  /\ pc[u] = "check"
  /\ replies # <<>>
  /\ mu' = NoOne
  /\ replies' = Tail(replies)
  /\ pc' = [pc EXCEPT ![u] = "cleanup"]
  /\ res' = [res EXCEPT ![u] = IF Head(replies).code \in {"250", "226"} THEN "ok" ELSE "err"]
  /\ UNCHANGED <<isClosed, currType, registry, call, saved, port, data, inbox, server, ghost>>

(* checkLast: 250 or 226 completes the transfer, anything else closes the  *)
(* session.                                                                *)
CheckLast(u) ==
  /\ mu = u
  /\ pc[u] = "check"
  /\ replies # <<>>
  /\ mu' = NoOne
  /\ replies' = Tail(replies)
  /\ pc' = [pc EXCEPT ![u] = "cleanup"]
  /\ IF Head(replies).code \in {"250", "226"}
     THEN res' = [res EXCEPT ![u] = "ok"] /\ UNCHANGED <<isClosed, child, registry>>
     ELSE res' = [res EXCEPT ![u] = "err"] /\ closeLocked
  /\ UNCHANGED <<currType, call, saved, port, peer, written, inbox, server, ghost>>

(* Mutant of RecvFail: the mutex is not released. *)
RecvFailLocked(u) ==
  /\ mu = u
  /\ closeLocked
  /\ Fail(u)
  /\ UNCHANGED <<mu, currType, call, saved, port, peer, written, stream, server, served, wanted>>

(* A timeout, EOF, reset or Close's interrupt ends the wait. *)
RecvFail(u) ==
  /\ mu = u
  /\ closeLocked
  /\ mu' = NoOne
  /\ Fail(u)
  /\ UNCHANGED <<currType, call, saved, port, peer, written, stream, server, served, wanted>>

---------------------------------------------------------------------------
(* The data connection. *)

(* newChildConnection: dials under the mutex and does not look at isClosed. *)
Dial(u) ==
  /\ pc[u] = "dial"
  /\ mu = NoOne
  /\ listener = port[u]
  /\ child' = [child EXCEPT ![u] = "open"]
  /\ peer' = [peer EXCEPT ![u] = "open"]
  /\ registry' = [registry EXCEPT ![port[u]] = u]
  /\ queued' = u
  /\ pc' = [pc EXCEPT ![u] = IF call[u].off THEN "rest" ELSE "xfer"]
  /\ UNCHANGED <<mu, isClosed, currType, call, saved, port, res, written, stream,
                 srvType, srvRest, listener, job, ghost>>

DialFail(u) ==
  /\ pc[u] = "dial"
  /\ mu = NoOne
  /\ Fail(u)
  /\ UNCHANGED <<session, call, saved, port, data, stream, server, served, wanted>>

(* Transfer or the scan loop ran to its end: EOF was read, or everything   *)
(* was written and flushed.                                                *)
DataDone(u) ==
  /\ pc[u] = "data"
  /\ child[u] = "open"
  /\ IF call[u].kind = "Store" THEN peer[u] # "none" ELSE peer[u] = "eof"
  /\ written' = [written EXCEPT ![u] = TRUE]
  /\ pc' = [pc EXCEPT ![u] = "confirm"]
  /\ UNCHANGED <<session, call, saved, port, res, child, peer, stream, server, ghost>>

(* It failed.  anyList returns without closing the session when it was the *)
(* session that closed the child.                                          *)
DataFail(u) ==
  /\ pc' = [pc EXCEPT ![u] = IF call[u].kind = "List" /\ child[u] = "closed"
                             THEN "cleanup" ELSE "abort"]
  /\ res' = [res EXCEPT ![u] = "err"]
  /\ UNCHANGED <<session, call, saved, port, data, stream, server, ghost>>

DataAborted(u) ==
  /\ pc[u] = "data"
  /\ child[u] = "closed" \/ peer[u] = "rst"
  /\ DataFail(u)

(* The caller's reader or writer fails, or a line exceeds the scanner. *)
LocalFail(u) ==
  /\ pc[u] = "data"
  /\ DataFail(u)

(* s.Close() after a data failure. *)
Abort(u) ==
  /\ pc[u] = "abort"
  /\ mu = NoOne
  /\ closeLocked
  /\ pc' = [pc EXCEPT ![u] = "cleanup"]
  /\ UNCHANGED <<mu, currType, call, saved, port, res, peer, written, stream, server, ghost>>

(* confirmData: child.Close, then checkLast. *)
ConfirmClose(u) ==
  /\ pc[u] = "confirm"
  /\ childClose(u)
  /\ pc' = [pc EXCEPT ![u] = "check"]
  /\ UNCHANGED <<mu, isClosed, currType, call, saved, port, res, peer, written, stream,
                 server, ghost>>

ConfirmCloseFail(u) ==
  /\ pc[u] = "confirm"
  /\ CloseMayFail
  /\ child[u] = "open"
  /\ childClose(u)
  /\ res' = [res EXCEPT ![u] = "err"]
  /\ pc' = [pc EXCEPT ![u] = "cleanup"]
  /\ UNCHANGED <<mu, isClosed, currType, call, saved, port, peer, written, stream,
                 server, ghost>>

(* Mutant of Cleanup: the deferred child.Close is missing. *)
CleanupNot(u) ==
  /\ pc[u] = "cleanup"
  /\ pc' = [pc EXCEPT ![u] = "restore"]
  /\ UNCHANGED <<session, call, saved, port, res, data, stream, server, ghost>>

(* The deferred child.Close, then the deferred restore. *)
Cleanup(u) ==
  /\ pc[u] = "cleanup"
  /\ childClose(u)
  /\ pc' = [pc EXCEPT ![u] = "restore"]
  /\ UNCHANGED <<mu, isClosed, currType, call, saved, port, res, peer, written, stream,
                 server, ghost>>

(* FTPSession.Close by another goroutine (or the signal handler). *)
Close(c) ==
  /\ c \in Closers
  /\ mu = NoOne
  /\ closeLocked
  /\ UNCHANGED <<mu, currType, user, peer, written, stream, server, ghost>>

---------------------------------------------------------------------------
(* The server (internal/mockzos): it takes one command at a time, and none *)
(* while a transfer is in progress.  After the client closed, what it does *)
(* cannot be observed.                                                     *)
Ready == ~isClosed /\ inbox # <<>> /\ ~job.on
Command == Head(inbox)
Answer(code, p) ==
  replies' = Append(replies, [by |-> Command.by, at |-> Command.at, code |-> code, port |-> p])

(* REST is to be followed at once by the transfer it is for (RFC 959): a   *)
(* server may drop it, or keep it, when another command comes in between.  *)
PendingRest == srvRest /\ RestLingers

ServerRefuse ==
  /\ Ready
  /\ Answer("5xx", NoPort)
  /\ inbox' = Tail(inbox)
  /\ srvRest' = (PendingRest /\ Command.at # "xfer")
  /\ UNCHANGED <<session, user, data, srvType, listener, queued, job, ghost>>

ServerType ==
  /\ Ready
  /\ Command.at \in {"type", "restore", "set"}
  /\ srvType' = Command.arg
  /\ Answer("200", NoPort)
  /\ inbox' = Tail(inbox)
  /\ srvRest' = PendingRest
  /\ served' = [served EXCEPT ![Command.by] = @ \/ Command.at = "set"]
  /\ UNCHANGED <<session, user, data, listener, queued, job, wanted, unrestored>>

(* SITE, REST and DELE. *)
ServerSimple ==
  /\ Ready
  /\ Command.at \in {"site", "rest", "delete"}
  /\ Answer(Expect[Command.at], NoPort)
  /\ inbox' = Tail(inbox)
  /\ srvRest' = (PendingRest \/ Command.at = "rest")
  /\ served' = [served EXCEPT ![Command.by] = @ \/ Command.at = "delete"]
  /\ UNCHANGED <<session, user, data, srvType, listener, queued, job, wanted, unrestored>>

(* handlePasv: a new listener replaces the old one, whose connection that  *)
(* was not accepted is reset.                                              *)
ServerPasv ==
  /\ Ready
  /\ Command.at = "pasv"
  /\ \E p \in Ports : listener' = p /\ Answer("227", p)
  /\ inbox' = Tail(inbox)
  /\ queued' = NoOne
  /\ srvRest' = PendingRest
  /\ peer' = [u \in Users |-> IF u = queued THEN "rst" ELSE peer[u]]
  /\ UNCHANGED <<session, user, child, written, srvType, job, ghost>>

(* handleDownload, handleUpload: accept the data connection, announce.     *)
ServerStart ==
  /\ Ready
  /\ Command.at = "xfer"
  /\ queued # NoOne
  /\ \E code \in Prelim : Answer(code, NoPort)
  /\ inbox' = Tail(inbox)
  /\ job' = [on |-> TRUE, by |-> Command.by, kind |-> Command.arg, conn |-> queued,
             type |-> srvType, rest |-> srvRest, ok |-> FALSE, stage |-> "data"]
  /\ srvRest' = FALSE
  /\ listener' = NoPort
  /\ queued' = NoOne
  /\ UNCHANGED <<session, user, data, srvType, ghost>>

(* The data is sent in full, or cut short by a FIN or a RST.               *)
ServerSend ==
  /\ ~isClosed
  /\ job.on /\ job.stage = "data" /\ job.kind # "Store"
  /\ \E end \in {"eof", "rst"}, ok \in BOOLEAN :
       /\ ok => end = "eof" /\ child[job.conn] = "open"
       /\ peer' = [peer EXCEPT ![job.conn] = end]
       /\ job' = [job EXCEPT !.ok = ok, !.stage = "term"]
  /\ UNCHANGED <<session, user, child, written, stream, srvType, srvRest, listener, queued, ghost>>

(* The data is received up to the client's FIN, or the server gives up.    *)
ServerReceive ==
  /\ ~isClosed
  /\ job.on /\ job.stage = "data" /\ job.kind = "Store"
  /\ \/ /\ child[job.conn] = "closed"
        /\ job' = [job EXCEPT !.ok = written[job.conn], !.stage = "term"]
        /\ UNCHANGED peer
     \/ /\ peer' = [peer EXCEPT ![job.conn] = "rst"]
        /\ job' = [job EXCEPT !.stage = "term"]
  /\ UNCHANGED <<session, user, child, written, stream, srvType, srvRest, listener, queued, ghost>>

(* The terminal reply: 226 or 250 after a complete transfer (and also      *)
(* after a reset download), otherwise an error that a 226 may follow; or   *)
(* it is lost.                                                             *)
Terminal ==
  {<<>>} \cup
  IF job.ok THEN {<<"250">>, <<"226">>}
  ELSE {<<"426">>, <<"426", "226">>} \cup
       (IF job.kind # "Store" /\ peer[job.conn] = "rst" THEN {<<"250">>} ELSE {})

ServerTerminal ==
  /\ ~isClosed
  /\ job.on /\ job.stage = "term"
  /\ \E codes \in Terminal :
       replies' = replies \o [i \in DOMAIN codes |->
         [by |-> job.by, at |-> "check", code |-> codes[i], port |-> NoPort]]
  /\ served' = [served EXCEPT ![job.by] =
       /\ job.ok
       /\ job.conn = job.by
       /\ job.type = call[job.by].t
       /\ job.rest = call[job.by].off]
  /\ job' = NoJob
  /\ UNCHANGED <<session, user, data, inbox, srvType, srvRest, listener, queued, wanted, unrestored>>

---------------------------------------------------------------------------
Await(u) == RecvOK(u) \/ RecvOther(u) \/ CheckLast(u) \/ RecvFail(u)

Proceed(u) ==
  \/ Send(u) \/ SendClosed(u) \/ SkipRestore(u)
  \/ Dial(u) \/ DialFail(u)
  \/ DataDone(u) \/ DataAborted(u) \/ Abort(u)
  \/ ConfirmClose(u) \/ ConfirmCloseFail(u) \/ Cleanup(u)

ServerStep ==
  \/ ServerRefuse \/ ServerType \/ ServerSimple \/ ServerPasv \/ ServerStart
  \/ ServerSend \/ ServerReceive \/ ServerTerminal

Next ==
  \/ \E u \in Users : (\E c \in Calls : Start(u, c)) \/ Await(u) \/ Proceed(u)
                   \/ LocalFail(u) \/ SendExpired(u)
  \/ \E c \in Closers : Close(c)
  \/ ServerStep

(* Goroutines run and the mutex does not starve them.  Nothing is assumed  *)
(* of a wait for a reply; a data phase ends only if the peer or a Close    *)
(* ends it.                                                                *)
Fairness == \A u \in Users : SF_vars(Proceed(u))

Spec == Init /\ [][Next]_vars
FairSpec == Spec /\ Fairness

---------------------------------------------------------------------------
(* The positions of the calls, their types and results. *)
Callers ==
  /\ mu \in Users \cup {NoOne}
  /\ mu # NoOne => pc[mu] \in Trips \cup {"check"}
  /\ pc \in [Users -> Trips \cup {"idle", "dial", "data", "abort", "confirm", "check", "cleanup"}]
  /\ call \in [Users -> Calls]
  /\ saved \in [Users -> Types]
  /\ res \in [Users -> {"none", "ok", "err"}]
  /\ currType \in Types /\ srvType \in Types /\ wanted \in Types

(* Both ends of the data connections. *)
Sockets ==
  /\ registry \in [Ports -> Users \cup {NoOne}]
  /\ port \in [Users -> Ports \cup {NoPort}]
  /\ child \in [Users -> {"none", "open", "closed"}]
  /\ peer \in [Users -> {"none", "open", "eof", "rst"}]
  /\ listener \in Ports \cup {NoPort}
  /\ queued \in Users \cup {NoOne}

Flags ==
  /\ isClosed \in BOOLEAN /\ srvRest \in BOOLEAN /\ unrestored \in BOOLEAN
  /\ written \in [Users -> BOOLEAN]
  /\ served \in [Users -> BOOLEAN]

(* Every variable has its type, and the mutex is held exactly while a      *)
(* reply is awaited.                                                       *)
TypeOK == Callers /\ Sockets /\ Flags

(* A goroutine that waits for a reply finds only the replies to what it    *)
(* asked, and an open session that nobody uses has nothing unread: the     *)
(* comments in sendLocked and transfer say a session is never reused one   *)
(* reply out of phase.                                                     *)
InSync ==
  /\ mu # NoOne /\ replies # <<>> => Head(replies).by = mu /\ Head(replies).at = pc[mu]
  /\ ~isClosed /\ (\A u \in Users : pc[u] = "idle") =>
       inbox = <<>> /\ replies = <<>> /\ ~job.on

(* A call that reports success was carried out by the server: the file was *)
(* deleted, or the data went over this call's own data connection, in      *)
(* full, in the requested type and from the requested offset.              *)
SuccessIsServed == \A u \in Users : res[u] = "ok" => served[u]

(* Whenever no command is in flight, the type the session believes in is   *)
(* the server's (currType in setTypeLocked).                               *)
TypeAgrees == ~isClosed /\ mu = NoOne => currType = srvType

(* Between calls the type is the one the caller selected, unless a restore *)
(* was refused (restoreType, the deferred SetType of anyList).             *)
TypeRestored ==
  ~isClosed /\ ~unrestored /\ (\A u \in Users : pc[u] = "idle") => currType = wanted

(* No data connection outlives its call, also when the session was closed  *)
(* before it was dialled.                                                  *)
NoChildLeak ==
  \A u \in Users : pc[u] \in {"restore", "idle"} =>
    child[u] # "open" /\ \A p \in Ports : registry[p] # u

(* Once the session is closed, every call that is in progress returns,     *)
(* also one whose data connection is stalled (Close, closeLocked).         *)
CloseUnblocks == \A u \in Users : isClosed /\ pc[u] # "idle" ~> pc[u] = "idle"
=============================================================================
