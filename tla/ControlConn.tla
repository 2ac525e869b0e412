---------------------------- MODULE ControlConn ----------------------------
(***************************************************************************)
(* The control connection of an FTPSession (ftp.go, cmd.go): goroutines    *)
(* that share one session call operations made of one or more command /    *)
(* reply round trips under the session mutex, and Close.  The socket       *)
(* deadline is shared state: a command with a context deadline sets it and *)
(* clears it, and Close sets it to "now" without the mutex to interrupt a  *)
(* read that is blocked on a silent peer.                                  *)
(***************************************************************************)
EXTENDS Naturals, Sequences

CONSTANTS Goroutines,    \* the goroutines that share the session
          NoOne,         \* the mutex is free
          Ops,           \* the operations they call, a subset of DOMAIN Script
          MaxCommands    \* bound: no call is made after this many commands

VARIABLES mu,            \* s.mu: its holder
          isClosed,      \* s.isClosed
          deadline,      \* the deadline of s.rawConn
          pc, op, step,  \* per goroutine: where it is, in which call and trip
          ctx,           \* per goroutine: its context
          res,           \* per goroutine: the result of its latest call
          sent,          \* number of commands written; the tag of the latest
          toServer,      \* tags of the commands the server has not read
          toClient,      \* replies not read: [tag, code]
          peerClosed,    \* the server closed the connection
          got            \* per goroutine: own replies read in this call

conn == <<deadline, sent, toServer, toClient, peerClosed>>
vars == <<mu, isClosed, deadline, pc, op, step, ctx, res,
          sent, toServer, toClient, peerClosed, got>>

(* The operations, by the number of round trips they make under one hold   *)
(* of s.mu and the context they make them with: a timeout (a deadline on   *)
(* the socket), a cancellable context without deadline, or Background.     *)
SendCommand == [trips |-> 1, ctx |-> "timeout"]
SendCommandWithContext == [trips |-> 1, ctx |-> "cancel"]
SetType == [trips |-> 1, ctx |-> "background"]
Site == [trips |-> 1, ctx |-> "background"]
Rename == [trips |-> 2, ctx |-> "background"]
AuthTLS == [trips |-> 3, ctx |-> "background"]
Login == [trips |-> 7, ctx |-> "background"]

Script ==
  [SendCommand |-> SendCommand, SendCommandWithContext |-> SendCommandWithContext,
   SetType |-> SetType, Site |-> Site, Rename |-> Rename, AuthTLS |-> AuthTLS,
   Login |-> Login]

ASSUME GoroutinesAssumption == NoOne \notin Goroutines
ASSUME OpsAssumption == Ops \subseteq DOMAIN Script
ASSUME MaxCommandsAssumption == MaxCommands \in Nat

Kind(g) == Script[op[g]].ctx
Reply == [tag : Nat, code : {"expected", "other"}]

(* Every variable has its type, and an operation never makes more round    *)
(* trips than the source has calls of sendLocked in it.                    *)
TypeOK ==
  /\ mu \in Goroutines \cup {NoOne}
  /\ isClosed \in BOOLEAN
  /\ deadline \in {"none", "armed", "past"}
  /\ pc \in [Goroutines -> {"idle", "lock", "enter", "write", "read", "return",
                            "poke", "closing"}]
  /\ op \in [Goroutines -> Ops \cup {"Close"}]
  /\ step \in [Goroutines -> Nat]
  /\ \A g \in Goroutines : op[g] \in Ops => step[g] \in 1..Script[op[g]].trips
  /\ ctx \in [Goroutines -> {"none", "live", "done"}]
  /\ res \in [Goroutines -> {"new", "pending", "ok", "refused", "ctx", "failed", "shut"}]
  /\ sent \in Nat
  /\ toServer \in Seq(Nat)
  /\ toClient \in Seq(Reply)
  /\ peerClosed \in BOOLEAN
  /\ got \in [Goroutines -> Nat]

(* A session as Open returns it. *)
Init ==
  /\ mu = NoOne
  /\ isClosed = FALSE
  /\ deadline = "none"
  /\ pc = [g \in Goroutines |-> "idle"]
  /\ op = [g \in Goroutines |-> "Close"]
  /\ step = [g \in Goroutines |-> 1]
  /\ ctx = [g \in Goroutines |-> "none"]
  /\ res = [g \in Goroutines |-> "new"]
  /\ sent = 0
  /\ toServer = <<>>
  /\ toClient = <<>>
  /\ peerClosed = FALSE
  /\ got = [g \in Goroutines |-> 0]

---------------------------------------------------------------------------
(* A goroutine calls an operation.  SendCommand makes its timeout context  *)
(* before it waits for the mutex.                                          *)
Call(g, o) ==
  /\ pc[g] = "idle"
  /\ sent < MaxCommands
  /\ pc' = [pc EXCEPT ![g] = "lock"]
  /\ op' = [op EXCEPT ![g] = o]
  /\ step' = [step EXCEPT ![g] = 1]
  /\ ctx' = [ctx EXCEPT ![g] = IF Script[o].ctx = "background" THEN "none" ELSE "live"]
  /\ res' = [res EXCEPT ![g] = "pending"]
  /\ got' = [got EXCEPT ![g] = 0]
  /\ UNCHANGED <<mu, isClosed, conn>>

(* The timeout of g's context expires.  A deadline taken from it onto the  *)
(* socket passes at the same moment.                                       *)
Expire(g) ==
  /\ pc[g] \in {"lock", "enter", "write", "read", "return"}
  /\ ctx[g] = "live"
  /\ Kind(g) = "timeout"
  /\ ctx' = [ctx EXCEPT ![g] = "done"]
  /\ deadline' = IF mu = g /\ deadline = "armed" THEN "past" ELSE deadline
  /\ UNCHANGED <<mu, isClosed, pc, op, step, res, sent, toServer, toClient, peerClosed, got>>

(* The caller cancels a context that has no deadline: the socket is not    *)
(* told, only the check at the start of sendLocked sees it.                *)
Cancel(g) ==
  /\ pc[g] \in {"lock", "enter", "write", "read", "return"}
  /\ ctx[g] = "live"
  /\ Kind(g) = "cancel"
  /\ ctx' = [ctx EXCEPT ![g] = "done"]
  /\ UNCHANGED <<mu, isClosed, pc, op, step, res, conn, got>>

Lock(g) ==
  /\ pc[g] = "lock"
  /\ mu = NoOne
  /\ mu' = g
  /\ pc' = [pc EXCEPT ![g] = "enter"]
  /\ UNCHANGED <<isClosed, op, step, ctx, res, conn, got>>

(* sendLocked returns before it touches the connection: closed session, or *)
(* a context that is already done.                                         *)
Reject(g) ==
  /\ pc[g] = "enter"
  /\ isClosed \/ ctx[g] = "done"
  /\ res' = [res EXCEPT ![g] = IF isClosed THEN "failed" ELSE "ctx"]
  /\ pc' = [pc EXCEPT ![g] = "idle"]
  /\ mu' = NoOne
  /\ UNCHANGED <<isClosed, op, step, ctx, conn, got>>

(* Mutants of Enter: no test of isClosed; no deadline pushed. *)
EnterNoClosedTest(g) ==
  /\ pc[g] = "enter"
  /\ ctx[g] # "done"
  /\ deadline' = IF Kind(g) = "timeout" THEN "armed" ELSE deadline
  /\ pc' = [pc EXCEPT ![g] = "write"]
  /\ UNCHANGED <<mu, isClosed, op, step, ctx, res, sent, toServer, toClient, peerClosed, got>>

EnterNoDeadline(g) ==
  /\ pc[g] = "enter"
  /\ ~isClosed
  /\ ctx[g] # "done"
  /\ pc' = [pc EXCEPT ![g] = "write"]
  /\ UNCHANGED <<mu, isClosed, op, step, ctx, res, conn, got>>

(* sendLocked pushes the context's deadline, if it has one, onto the socket. *)
Enter(g) ==
  /\ pc[g] = "enter"
  /\ ~isClosed
  /\ ctx[g] # "done"
  /\ deadline' = IF Kind(g) = "timeout" THEN "armed" ELSE deadline
  /\ pc' = [pc EXCEPT ![g] = "write"]
  /\ UNCHANGED <<mu, isClosed, op, step, ctx, res, sent, toServer, toClient, peerClosed, got>>

Write(g) ==
  /\ pc[g] = "write"
  /\ deadline # "past"
  /\ sent' = sent + 1
  /\ toServer' = Append(toServer, sent + 1)
  /\ pc' = [pc EXCEPT ![g] = "read"]
  /\ UNCHANGED <<mu, isClosed, deadline, op, step, ctx, res, toClient, peerClosed, got>>

(* closeLocked, called by the holder of the mutex.  (The data connections  *)
(* it closes are modelled in Transfer.)                                    *)
closeLocked == isClosed' = TRUE

(* Mutant of IOFail: the session survives the failure. *)
IOFailKeepsSession(g) ==
  /\ \/ pc[g] = "write" /\ (deadline = "past" \/ peerClosed)
     \/ pc[g] = "read" /\ (deadline = "past" \/ (peerClosed /\ toClient = <<>>))
  /\ res' = [res EXCEPT ![g] = "failed"]
  /\ pc' = [pc EXCEPT ![g] = "return"]
  /\ UNCHANGED <<mu, isClosed, op, step, ctx, conn, got>>

(* An I/O failure: a deadline that passed, EOF or a reset.  The session is *)
(* closed because the stream cannot be resynchronised.                     *)
IOFail(g) ==
  /\ \/ pc[g] = "write" /\ (deadline = "past" \/ peerClosed)
     \/ pc[g] = "read" /\ (deadline = "past" \/ (peerClosed /\ toClient = <<>>))
  /\ closeLocked
  /\ res' = [res EXCEPT ![g] = "failed"]
  /\ pc' = [pc EXCEPT ![g] = "return"]
  /\ UNCHANGED <<mu, op, step, ctx, conn, got>>

(* check reads one complete reply.  Any code but the expected one is a     *)
(* *ReturnError; the session is kept.  A read after the deadline fails     *)
(* even if the reply has arrived: nothing of it is in s.reader yet.        *)
Read(g) ==
  /\ pc[g] = "read"
  /\ deadline # "past"
  /\ toClient # <<>>
  /\ res' = [res EXCEPT ![g] = IF Head(toClient).code = "expected" THEN "ok" ELSE "refused"]
  /\ got' = [got EXCEPT ![g] = IF Head(toClient).tag = sent THEN @ + 1 ELSE @]
  /\ toClient' = Tail(toClient)
  /\ pc' = [pc EXCEPT ![g] = "return"]
  /\ UNCHANGED <<mu, isClosed, deadline, op, step, ctx, sent, toServer, peerClosed>>

(* Mutant of clearDeadline: the deferred SetDeadline is missing. *)
clearDeadlineNot(g) == UNCHANGED deadline

(* The deferred SetDeadline(time.Time{}) of a command that had set one,    *)
(* then the next round trip of the operation or the unlock.                *)
clearDeadline(g) == deadline' = IF Kind(g) = "timeout" THEN "none" ELSE deadline

(* Mutants of Continue: one round trip too many; the mutex is released     *)
(* between the round trips of one operation.                               *)
ContinueOnce(g) ==
  /\ pc[g] = "return"
  /\ res[g] = "ok"
  /\ step[g] <= Script[op[g]].trips
  /\ clearDeadline(g)
  /\ step' = [step EXCEPT ![g] = @ + 1]
  /\ pc' = [pc EXCEPT ![g] = "enter"]
  /\ UNCHANGED <<mu, isClosed, op, ctx, res, sent, toServer, toClient, peerClosed, got>>

ContinueUnlocked(g) ==
  /\ pc[g] = "return"
  /\ res[g] = "ok"
  /\ step[g] < Script[op[g]].trips
  /\ clearDeadline(g)
  /\ step' = [step EXCEPT ![g] = @ + 1]
  /\ pc' = [pc EXCEPT ![g] = "lock"]
  /\ mu' = NoOne
  /\ UNCHANGED <<isClosed, op, ctx, res, sent, toServer, toClient, peerClosed, got>>

Continue(g) ==
  /\ pc[g] = "return"
  /\ res[g] = "ok"
  /\ step[g] < Script[op[g]].trips
  /\ clearDeadline(g)
  /\ step' = [step EXCEPT ![g] = @ + 1]
  /\ pc' = [pc EXCEPT ![g] = "enter"]
  /\ UNCHANGED <<mu, isClosed, op, ctx, res, sent, toServer, toClient, peerClosed, got>>

Return(g) ==
  /\ pc[g] = "return"
  /\ res[g] = "ok" => step[g] = Script[op[g]].trips
  /\ clearDeadline(g)
  /\ pc' = [pc EXCEPT ![g] = "idle"]
  /\ mu' = NoOne
  /\ UNCHANGED <<isClosed, op, step, ctx, res, sent, toServer, toClient, peerClosed, got>>

---------------------------------------------------------------------------
(* Close: interrupt a blocked read without the mutex, then take the mutex. *)
CallClose(g) ==
  /\ pc[g] = "idle"
  /\ pc' = [pc EXCEPT ![g] = "poke"]
  /\ op' = [op EXCEPT ![g] = "Close"]
  /\ res' = [res EXCEPT ![g] = "pending"]
  /\ got' = [got EXCEPT ![g] = 0]
  /\ UNCHANGED <<mu, isClosed, step, ctx, conn>>

(* Mutant of Poke: Close waits for the mutex without the interrupt. *)
PokeNot(g) ==
  /\ pc[g] = "poke"
  /\ pc' = [pc EXCEPT ![g] = "closing"]
  /\ UNCHANGED <<mu, isClosed, op, step, ctx, res, conn, got>>

Poke(g) ==
  /\ pc[g] = "poke"
  /\ deadline' = "past"
  /\ pc' = [pc EXCEPT ![g] = "closing"]
  /\ UNCHANGED <<mu, isClosed, op, step, ctx, res, sent, toServer, toClient, peerClosed, got>>

Close(g) ==
  /\ pc[g] = "closing"
  /\ mu = NoOne
  /\ closeLocked
  /\ res' = [res EXCEPT ![g] = "shut"]
  /\ pc' = [pc EXCEPT ![g] = "idle"]
  /\ UNCHANGED <<mu, op, step, ctx, conn, got>>

---------------------------------------------------------------------------
(* The server: answers a command, swallows it without a reply, or hangs    *)
(* up.                                                                     *)
ServerReply ==
  /\ toServer # <<>>
  /\ ~peerClosed
  /\ \E c \in {"expected", "other"} :
       toClient' = Append(toClient, [tag |-> Head(toServer), code |-> c])
  /\ toServer' = Tail(toServer)
  /\ UNCHANGED <<mu, isClosed, deadline, pc, op, step, ctx, res, sent, peerClosed, got>>

ServerWithhold ==
  /\ toServer # <<>>
  /\ toServer' = Tail(toServer)
  /\ UNCHANGED <<mu, isClosed, deadline, pc, op, step, ctx, res, sent, toClient, peerClosed, got>>

ServerHangup ==
  /\ ~peerClosed
  /\ peerClosed' = TRUE
  /\ UNCHANGED <<mu, isClosed, deadline, pc, op, step, ctx, res, sent, toServer, toClient, got>>

Server == ServerReply \/ ServerWithhold \/ ServerHangup

(* The steps a goroutine takes once it has made its call. *)
Run(g) ==
  \/ Reject(g) \/ Enter(g) \/ Write(g) \/ IOFail(g) \/ Read(g)
  \/ Continue(g) \/ Return(g) \/ Poke(g)

Next ==
  \/ \E g \in Goroutines :
       \/ \E o \in Ops : Call(g, o)
       \/ CallClose(g)
       \/ Expire(g)
       \/ Cancel(g)
       \/ Lock(g)
       \/ Run(g)
       \/ Close(g)
  \/ Server

(* The scheduler runs every goroutine that can run; sync.Mutex does not    *)
(* starve a waiter; timeouts expire.  Nothing is assumed of the server,    *)
(* nor of a caller's decision to cancel.                                   *)
Fairness ==
  \A g \in Goroutines :
    /\ WF_vars(Run(g))
    /\ SF_vars(Lock(g))
    /\ SF_vars(Close(g))
    /\ WF_vars(Expire(g))

Spec == Init /\ [][Next]_vars
FairSpec == Spec /\ Fairness
---------------------------------------------------------------------------
(* At most one reply is ever outstanding, it answers the command that is   *)
(* being waited for, and an open session that nobody is using has no       *)
(* command or reply left in the stream: the comment above sendLocked says  *)
(* later commands never read a stale reply.                                *)
InSync ==
  /\ \A g \in Goroutines :
       pc[g] = "read" /\ ~isClosed =>
         /\ Len(toServer) + Len(toClient) <= 1
         /\ toClient # <<>> => Head(toClient).tag = sent
  /\ ~isClosed /\ (mu = NoOne \/ pc[mu] # "read") => toServer = <<>> /\ toClient = <<>>

(* A deadline on the socket of an open session belongs to the command in   *)
(* progress or to a Close that has not got the mutex yet: it never leaks   *)
(* from one command into a later one (the deferred SetDeadline of          *)
(* sendLocked).                                                            *)
DeadlineOwned ==
  ~isClosed /\ deadline # "none" =>
    \/ deadline = "past" /\ \E g \in Goroutines : pc[g] = "closing"
    \/ /\ mu # NoOne
       /\ pc[mu] \in {"write", "read", "return"}
       /\ Kind(mu) = "timeout"
       /\ deadline = "past" => ctx[mu] = "done"

(* Nothing is written on a closed session and it is never reopened.        *)
ClosedIsFinal == [][isClosed => isClosed' /\ sent' = sent]_vars

(* Who holds the mutex is where the code holds it, and a goroutine that is *)
(* about to write or waits for a reply does so on an open session.         *)
Locked ==
  \A g \in Goroutines :
    /\ mu = g <=> pc[g] \in {"enter", "write", "read", "return"}
    /\ pc[g] \in {"lock", "enter", "write", "read", "return"} => op[g] \in Ops
    /\ pc[g] \in {"write", "read"} => ~isClosed

(* What may be in the stream of an open session: nothing, or the command   *)
(* being waited for, or its reply.                                         *)
Stream ==
  ~isClosed =>
    \/ toServer = <<>> /\ toClient = <<>>
    \/ /\ mu # NoOne
       /\ pc[mu] = "read"
       /\ \/ toServer = <<sent>> /\ toClient = <<>>
          \/ \E r \in Reply : r.tag = sent /\ toServer = <<>> /\ toClient = <<r>>

(* The inductive invariant of the session: TypeOK, Locked, Stream and      *)
(* DeadlineOwned imply InSync and are preserved by every step.             *)
IInv == TypeOK /\ Locked /\ Stream /\ DeadlineOwned

(* How far a call is: how many own replies it has read, and that a result  *)
(* it is about to return goes with the state of the session.               *)
Progress ==
  \A g \in Goroutines :
    /\ pc[g] = "idle" => res[g] # "pending"
    /\ pc[g] \in {"poke", "closing"} => op[g] = "Close"
    /\ pc[g] = "lock" => step[g] = 1
    /\ pc[g] \in {"lock", "enter", "write", "read"} => got[g] + 1 = step[g]
    /\ pc[g] = "return" =>
         \/ res[g] \in {"ok", "refused"} /\ got[g] = step[g] /\ ~isClosed
         \/ res[g] = "failed" /\ isClosed

(* The calls take turns and succeed only as SerialSession says.            *)
Serial == INSTANCE SerialSession WITH
  open <- ~isClosed,
  turn <- mu,
  st <- [g \in Goroutines |-> IF pc[g] = "idle" THEN res[g] ELSE "pending"],
  call <- op,
  answered <- got,
  Trips <- [o \in Ops |-> Script[o].trips]
Serialized == Serial!Spec

(* Close returns, whatever the server does: the comment in Close says it   *)
(* does not block behind a command stalled on a silent peer.               *)
CloseReturns == \A g \in Goroutines : pc[g] = "poke" ~> pc[g] = "idle"

(* Close interrupts the call that holds the mutex and returns, whatever    *)
(* the server does and whichever calls are in progress, unless it waits    *)
(* for ever behind one of them that has replaced or cleared the deadline   *)
(* it set: the exact extent to which CloseReturns fails.                   *)
CloseReturnsUnlessErased ==
  \A g \in Goroutines :
    /\ pc[g] = "poke" ~> (pc[g] = "idle" \/ (pc[g] = "closing" /\ deadline = "past"))
    /\ pc[g] = "poke" ~> (pc[g] = "idle" \/ [](pc[g] = "closing" /\ deadline # "past"))

(* SendCommand returns, whatever the server does: its comment says that a  *)
(* server that accepts a command but never replies cannot hang the caller. *)
(* Only a call without a deadline (SetType, Site, Rename, Login, AuthTLS)  *)
(* that holds the mutex can make it wait for ever.                         *)
SendCommandReturnsUnlessBehind ==
  \A g \in Goroutines :
    (pc[g] = "lock" /\ op[g] = "SendCommand")
      ~> (pc[g] = "idle" \/ [](mu # NoOne /\ Kind(mu) = "background"))
=============================================================================
