-------------------------------- MODULE Setup --------------------------------
(***************************************************************************)
(* How a session comes to be (ftp.go: Open, newSession, AuthTLS, Login,    *)
(* Close; passive.go: newChildConnection; the CLI's realConnect): the      *)
(* greeting, the switch of both ends to TLS, the login dialogue, and the   *)
(* protection of the data connections that follow.  AuthTLS and Login hold *)
(* the mutex from their first command to their last reply, so a call is a  *)
(* walk through its commands.  The server follows mockzos (handle,         *)
(* handleAuth), and may refuse, fall silent or hang up at any time.        *)
(***************************************************************************)
EXTENDS Naturals

CONSTANTS Names,     \* user names
          Callers,   \* who uses the session, see below
          MaxTLS     \* bound: times AuthTLS is called with success

(* A library program may call AuthTLS and Login in any order, again after  *)
(* an error too.  The CLI follows realConnect, with or without --tls.      *)
ASSUME CallersAssumption == Callers \subseteq {"library", "cli", "cliTLS"}
ASSUME MaxTLSAssumption == MaxTLS \in Nat

NoName == "nobody"
NoMsg == [cmd |-> "none", code |-> "none", layer |-> 0]
ASSUME NamesAssumption == NoName \notin Names

VARIABLES
  caller, pc, arg, call, res,         \* the calling goroutine: position, name, call, result
  socket, isClosed, conn, reader,     \* FTPSession: rawConn; isClosed; TLS layers of
  shaken, tlsConfig,                  \*   conn and of reader; handshake done; tlsConfig
  user, system, currType, poked,      \*   user, system, currType; Close set the deadline
  request, reply,                     \* on the wire
  up, mute, layers, ready,            \* server: alive, silent, TLS layers, awaits handshake
  prot, named, login, srvType,        \*   PROT level, name given, logged in, TYPE
  secured, data, accepted             \* 234 received; last data connection; names PASS accepted

callerVars == <<caller, pc, arg, call, res>>
session == <<socket, isClosed, conn, reader, shaken, tlsConfig, user, system, currType>>
wire == <<request, reply>>
server == <<up, mute, layers, ready, prot, named, login, srvType>>
ghost == <<secured, data, accepted>>
vars == <<callerVars, session, poked, wire, server, ghost>>

(* The commands of a call, in order; "idle" ends it. *)
NextStep == [AUTH |-> "PBSZ", PBSZ |-> "PROT", PROT |-> "idle",
             USER |-> "PASS", PASS |-> "PASV", PASV |-> "TYPE", TYPE |-> "SBSENDEOL",
             SBSENDEOL |-> "MBSENDEOL", MBSENDEOL |-> "SYST", SYST |-> "idle"]
Steps == DOMAIN NextStep

(* Mutant of Init: newSession does not seed the transfer type. *)
InitNoType ==
  /\ caller \in Callers
  /\ pc = "new" /\ arg = NoName /\ call = "none" /\ res = "none"
  /\ socket = "none" /\ isClosed = FALSE /\ conn = 0 /\ reader = 0
  /\ shaken = TRUE /\ tlsConfig = FALSE
  /\ user = NoName /\ system = "" /\ currType = "NUL" /\ poked = FALSE
  /\ request = NoMsg /\ reply = NoMsg
  /\ up = TRUE /\ mute = FALSE /\ layers = 0 /\ ready = FALSE
  /\ prot = "C" /\ named = NoName /\ login = NoName /\ srvType = "A"
  /\ secured = FALSE /\ data = "none" /\ accepted = {}

(* newSession: the representation type of a fresh session is ASCII. *)
Init ==
  /\ caller \in Callers
  /\ pc = "new" /\ arg = NoName /\ call = "none" /\ res = "none"
  /\ socket = "none" /\ isClosed = FALSE /\ conn = 0 /\ reader = 0
  /\ shaken = TRUE /\ tlsConfig = FALSE
  /\ user = NoName /\ system = "" /\ currType = "A" /\ poked = FALSE
  /\ request = NoMsg /\ reply = NoMsg
  /\ up = TRUE /\ mute = FALSE /\ layers = 0 /\ ready = FALSE
  /\ prot = "C" /\ named = NoName /\ login = NoName /\ srvType = "A"
  /\ secured = FALSE /\ data = "none" /\ accepted = {}

---------------------------------------------------------------------------
(* dialControl, then the greeting, which is read before a session exists   *)
(* and without a deadline.                                                 *)
dialControl ==
  /\ pc = "new"
  /\ \/ socket' = "open" /\ pc' = "greeting" /\ UNCHANGED res
     \/ socket' = "none" /\ pc' = "failed" /\ res' = "err"
  /\ UNCHANGED <<caller, arg, call, isClosed, conn, reader, shaken, tlsConfig, user, system,
                 currType, poked, wire, server, ghost>>

Open ==
  /\ pc = "greeting"
  /\ reply.code = "ok"
  /\ pc' = "idle"
  /\ reply' = NoMsg
  /\ UNCHANGED <<caller, arg, call, res, session, poked, request, server, ghost>>

(* Mutant of OpenFails: the connection is left open. *)
OpenFailsKeepsConn ==
  /\ pc = "greeting"
  /\ reply.code = "other" \/ (reply = NoMsg /\ ~up)
  /\ pc' = "failed"
  /\ res' = "err"
  /\ UNCHANGED <<caller, arg, call, session, poked, wire, server, ghost>>

(* Mutant of OpenFails: the end of the stream is not noticed. *)
OpenFailsNoEOF ==
  /\ pc = "greeting"
  /\ reply.code = "other"
  /\ pc' = "failed"
  /\ res' = "err"
  /\ socket' = "closed"
  /\ UNCHANGED <<caller, arg, call, isClosed, conn, reader, shaken, tlsConfig, user, system,
                 currType, poked, wire, server, ghost>>

(* Another code, or the end of the stream: the connection is closed. *)
OpenFails ==
  /\ pc = "greeting"
  /\ reply.code = "other" \/ (reply = NoMsg /\ ~up)
  /\ pc' = "failed"
  /\ res' = "err"
  /\ socket' = "closed"
  /\ UNCHANGED <<caller, arg, call, isClosed, conn, reader, shaken, tlsConfig, user, system,
                 currType, poked, wire, server, ghost>>

---------------------------------------------------------------------------
(* The calls.  realConnect: AuthTLS first if --tls was given, Login only   *)
(* if that succeeded, and Close as soon as one of them fails.              *)
MayAuthTLS == \/ caller = "library"
              \/ caller = "cliTLS" /\ call = "none"

(* Mutant of MayLogin: realConnect ignores the error of AuthTLS. *)
MayLoginAnyway == \/ caller = "library"
                  \/ caller = "cli" /\ call = "none"
                  \/ caller = "cliTLS" /\ call = "AuthTLS"

MayLogin == \/ caller = "library"
            \/ caller = "cli" /\ call = "none"
            \/ caller = "cliTLS" /\ call = "AuthTLS" /\ res = "ok"

AuthTLS ==
  /\ pc = "idle" /\ MayAuthTLS
  /\ conn < MaxTLS
  /\ pc' = "AUTH"
  /\ call' = "AuthTLS" /\ res' = "none"
  /\ data' = "none"
  /\ UNCHANGED <<caller, arg, session, poked, wire, server, secured, accepted>>

Login(n) ==
  /\ pc = "idle" /\ MayLogin
  /\ pc' = "USER"
  /\ arg' = n
  /\ call' = "Login" /\ res' = "none"
  /\ UNCHANGED <<caller, session, poked, wire, server, ghost>>

closeLocked == isClosed' = TRUE /\ socket' = "closed"

(* sendLocked: a closed session, the handshake that the first write on a   *)
(* new tls.Client makes, and the write.                                    *)
Reject ==
  /\ pc \in Steps
  /\ isClosed
  /\ pc' = "idle"
  /\ res' = "err"
  /\ UNCHANGED <<caller, arg, call, session, poked, wire, server, ghost>>

Handshake ==
  /\ pc \in Steps /\ ~isClosed /\ ~shaken /\ ~poked
  /\ ready /\ up /\ ~mute
  /\ shaken' = TRUE
  /\ ready' = FALSE
  /\ layers' = layers + 1
  /\ UNCHANGED <<callerVars, socket, isClosed, conn, reader, tlsConfig, user, system, currType,
                 poked, wire, up, mute, prot, named, login, srvType, ghost>>

(* The certificate is not accepted, the server hung up, or Close was       *)
(* called; a silent server alone makes no handshake fail.                  *)
HandshakeFails ==
  /\ pc \in Steps /\ ~isClosed /\ ~shaken
  /\ poked \/ ~up \/ ~mute
  /\ pc' = "idle"
  /\ res' = "err"
  /\ closeLocked
  /\ up' = FALSE
  /\ UNCHANGED <<caller, arg, call, conn, reader, shaken, tlsConfig, user, system, currType,
                 poked, wire, mute, layers, ready, prot, named, login, srvType, ghost>>

Write ==
  /\ pc \in Steps /\ ~isClosed /\ shaken
  /\ request = NoMsg /\ reply = NoMsg
  /\ request' = [cmd |-> pc, code |-> "none", layer |-> conn]
  /\ UNCHANGED <<callerVars, session, poked, reply, server, ghost>>

(* Mutant of Swap: the reader still reads the bare connection. *)
SwapKeepsReader ==
  IF pc = "AUTH"
  THEN conn' = conn + 1 /\ shaken' = FALSE /\ tlsConfig' = TRUE /\ UNCHANGED reader
  ELSE UNCHANGED <<conn, reader, shaken, tlsConfig>>

(* Mutant of Swap: tlsConfig is set once the whole of AuthTLS succeeded. *)
SwapLateConfig ==
  /\ IF pc = "AUTH"
     THEN conn' = conn + 1 /\ reader' = reader + 1 /\ shaken' = FALSE
     ELSE UNCHANGED <<conn, reader, shaken>>
  /\ tlsConfig' = (tlsConfig \/ pc = "PROT")

(* After 234: tlsConfig, conn and reader are replaced before anything else *)
(* is sent.                                                                *)
Swap ==
  IF pc = "AUTH"
  THEN conn' = conn + 1 /\ reader' = reader + 1 /\ shaken' = FALSE /\ tlsConfig' = TRUE
  ELSE UNCHANGED <<conn, reader, shaken, tlsConfig>>

(* Mutant of Record: the name is recorded when USER is accepted. *)
RecordEarly ==
  /\ user' = IF pc = "USER" THEN arg ELSE user
  /\ currType' = IF pc = "TYPE" THEN "I" ELSE currType
  /\ system' = IF pc = "SYST" THEN "MVS" ELSE system

(* Mutant of Record: the transfer type is taken for set from the start. *)
RecordTypeEarly ==
  /\ user' = IF pc = "PASS" THEN arg ELSE user
  /\ currType' = IF pc = "PASV" THEN "I" ELSE currType
  /\ system' = IF pc = "SYST" THEN "MVS" ELSE system

(* What Login keeps: the name after PASS, the type after TYPE, the system. *)
Record ==
  /\ user' = IF pc = "PASS" THEN arg ELSE user
  /\ currType' = IF pc = "TYPE" THEN "I" ELSE currType
  /\ system' = IF pc = "SYST" THEN "MVS" ELSE system

RecvOK ==
  /\ pc \in Steps /\ reply.code = "ok"
  /\ reply' = NoMsg
  /\ pc' = NextStep[pc]
  /\ res' = IF NextStep[pc] = "idle" THEN "ok" ELSE res
  /\ Swap
  /\ Record
  /\ secured' = (secured \/ pc = "AUTH")
  /\ UNCHANGED <<caller, arg, call, socket, isClosed, poked, request, server, data, accepted>>

(* Another code, or a SYST reply without MVS: the call ends, the session   *)
(* is kept as it is.                                                       *)
RecvOther ==
  /\ pc \in Steps /\ reply.code = "other"
  /\ reply' = NoMsg
  /\ pc' = "idle"
  /\ res' = "err"
  /\ UNCHANGED <<caller, arg, call, session, poked, request, server, ghost>>

(* Mutant of IOFail: Close sets the deadline on a connection that the      *)
(* upgrade to TLS has replaced.                                            *)
IOFailBareOnly ==
  /\ pc \in Steps /\ ~isClosed /\ shaken
  /\ (poked /\ conn = 0) \/ (~up /\ reply = NoMsg)
  /\ request' = NoMsg /\ reply' = NoMsg
  /\ pc' = "idle"
  /\ res' = "err"
  /\ closeLocked
  /\ UNCHANGED <<caller, arg, call, conn, reader, shaken, tlsConfig, user, system, currType,
                 poked, server, ghost>>

(* A write or a read fails: the server hung up, or Close moved the         *)
(* deadline of the socket under whatever layers there are.                 *)
IOFail ==
  /\ pc \in Steps /\ ~isClosed /\ shaken
  /\ poked \/ (~up /\ reply = NoMsg)
  /\ request' = NoMsg /\ reply' = NoMsg
  /\ pc' = "idle"
  /\ res' = "err"
  /\ closeLocked
  /\ UNCHANGED <<caller, arg, call, conn, reader, shaken, tlsConfig, user, system, currType,
                 poked, server, ghost>>

(* Close: the deadline without the mutex, then closeLocked with it.  The   *)
(* CLI calls it when a step of realConnect failed, the signal handler at   *)
(* any time once Open has returned.                                        *)
Poke ==
  /\ pc \in Steps \cup {"idle"}
  /\ ~poked /\ ~isClosed
  /\ poked' = TRUE
  /\ UNCHANGED <<callerVars, session, wire, server, ghost>>

Close ==
  /\ pc = "idle" /\ poked
  /\ poked' = FALSE
  /\ closeLocked
  /\ pc' = IF caller # "library" /\ res = "err" THEN "failed" ELSE pc
  /\ UNCHANGED <<caller, arg, call, res, conn, reader, shaken, tlsConfig, user, system,
                 currType, wire, server, ghost>>

(* A data connection of a logged-in session: newChildConnection makes a    *)
(* TLS handshake exactly if tlsConfig is set, which fails, within a bound, *)
(* if the server's end is in clear, and the other way round.               *)
newChildConnection ==
  /\ pc = "idle" /\ ~isClosed /\ ~poked
  /\ up /\ login # NoName /\ (caller # "library" => call = "Login" /\ res = "ok")
  /\ data' = CASE tlsConfig /\ prot = "P" -> "tls"
               [] ~tlsConfig /\ prot = "C" -> "clear"
               [] OTHER -> "failed"
  /\ UNCHANGED <<callerVars, session, poked, wire, server, secured, accepted>>

---------------------------------------------------------------------------
(* The server.  Once the client has closed the socket its steps are left   *)
(* out: nobody can observe them.                                           *)
Listening == up /\ ~mute /\ socket = "open"

Greet(code) ==
  /\ Listening
  /\ pc = "greeting" /\ reply = NoMsg
  /\ reply' = [cmd |-> "none", code |-> code, layer |-> layers]
  /\ UNCHANGED <<callerVars, session, poked, request, server, ghost>>

(* The reply to a command, and what the server does if it accepts it.      *)
(* handleAuth waits for the handshake after its 234.  AUTH puts PROT back  *)
(* to C and USER logs the last user out (RFC 4217, RFC 959).               *)
Serve(code) ==
  /\ Listening
  /\ request # NoMsg
  /\ request' = NoMsg
  /\ reply' = [cmd |-> request.cmd, code |-> code, layer |-> layers]
  /\ LET ok(c) == request.cmd = c /\ code = "ok"
     IN /\ ready' = ok("AUTH")
        /\ prot' = CASE ok("AUTH") -> "C" [] ok("PROT") -> "P" [] OTHER -> prot
        /\ named' = IF ok("USER") THEN arg ELSE named
        /\ login' = CASE ok("USER") -> NoName [] ok("PASS") -> named [] OTHER -> login
        /\ accepted' = IF ok("PASS") THEN accepted \cup {named} ELSE accepted
        /\ srvType' = IF ok("TYPE") THEN "I" ELSE srvType
  /\ UNCHANGED <<callerVars, session, poked, up, mute, layers, secured, data>>

FallSilent ==
  /\ Listening
  /\ mute' = TRUE
  /\ UNCHANGED <<callerVars, session, poked, wire, up, layers, ready, prot, named, login,
                 srvType, ghost>>

HangUp ==
  /\ Listening
  /\ up' = FALSE
  /\ request' = NoMsg
  /\ UNCHANGED <<callerVars, session, poked, reply, mute, layers, ready, prot, named, login,
                 srvType, ghost>>

---------------------------------------------------------------------------
ClientStep == \/ dialControl \/ Open \/ OpenFails \/ Reject \/ Handshake \/ HandshakeFails
              \/ Write \/ RecvOK \/ RecvOther \/ IOFail \/ Close
ServerStep == \E code \in {"ok", "other"} : Greet(code) \/ Serve(code)

Next == \/ ClientStep \/ ServerStep \/ Poke \/ newChildConnection
        \/ AuthTLS \/ \E n \in Names : Login(n)
        \/ FallSilent \/ HangUp

Spec == Init /\ [][Next]_vars

(* The calling goroutine runs; a server that has not fallen silent answers *)
(* what it was sent.                                                       *)
FairSpec == Spec /\ WF_vars(ClientStep) /\ WF_vars(ServerStep)

---------------------------------------------------------------------------
Position ==
  /\ caller \in Callers
  /\ pc \in Steps \cup {"new", "greeting", "idle", "failed"}
  /\ arg \in Names \cup {NoName}
  /\ call \in {"none", "AuthTLS", "Login"} /\ res \in {"none", "ok", "err"}

Records ==
  /\ user \in Names \cup {NoName} /\ accepted \subseteq Names
  /\ named \in Names \cup {NoName} /\ login \in Names \cup {NoName}
  /\ system \in {"", "MVS"} /\ currType \in {"A", "I"} /\ srvType \in {"A", "I"}

Connection ==
  /\ conn \in Nat /\ reader \in Nat /\ layers \in Nat
  /\ socket \in {"none", "open", "closed"} /\ prot \in {"C", "P"}
  /\ data \in {"none", "tls", "clear", "failed"}

Flags ==
  /\ isClosed \in BOOLEAN /\ shaken \in BOOLEAN /\ tlsConfig \in BOOLEAN /\ poked \in BOOLEAN
  /\ up \in BOOLEAN /\ mute \in BOOLEAN /\ ready \in BOOLEAN /\ secured \in BOOLEAN

Messages ==
  /\ request \in [cmd : Steps \cup {"none"}, code : {"none"}, layer : Nat]
  /\ reply \in [cmd : Steps \cup {"none"}, code : {"none", "ok", "other"}, layer : Nat]

(* Type invariant. *)
TypeOK == Position /\ Records /\ Connection /\ Flags /\ Messages

(* Across the switch to TLS, and a second one on top of it, no command is  *)
(* written in a layer the server does not read, and no reply is parsed in  *)
(* a layer it was not sent in: AuthTLS swaps conn and reader together,     *)
(* between the 234 and the next command.                                   *)
LayersAgree ==
  /\ request # NoMsg => request.layer = layers
  /\ pc \in Steps /\ reply # NoMsg => reply.layer = reader
  /\ pc = "idle" /\ ~isClosed /\ shaken => conn = layers /\ reader = layers

(* Once the server accepted AUTH, nothing goes out in clear any more: no   *)
(* command, and no data connection either, also if AuthTLS then failed on  *)
(* PBSZ or PROT and the caller went on regardless.                         *)
NoClearAfterAuth ==
  secured => /\ data # "clear"
             /\ request # NoMsg => request.layer > 0

(* With --tls the CLI never sends a name or a password in clear, whatever  *)
(* step of AuthTLS the server refuses (realConnect).                       *)
CredentialsProtected ==
  caller = "cliTLS" /\ request.cmd \in {"USER", "PASS"} => request.layer > 0

(* User() never names somebody whose password the server did not accept,   *)
(* after a failed or repeated Login too.                                   *)
UserWasAccepted == user # NoName => user \in accepted

(* On an open session the recorded transfer type is the server's, from the *)
(* seed of newSession to the end of a Login that failed anywhere.          *)
TypeAgrees == pc = "idle" /\ ~isClosed => currType = srvType

(* A caller who was refused a session holds no connection: Open closes it  *)
(* on a bad greeting, realConnect on a failed AuthTLS or Login.            *)
NoOrphan == pc = "failed" => socket # "open"

(* What is on the wire belongs to the command in progress, of an open      *)
(* session, in the layer the client writes in.                             *)
Wire ==
  /\ pc \notin Steps => request = NoMsg
  /\ pc \notin Steps \cup {"greeting", "failed"} => reply = NoMsg
  /\ request # NoMsg => /\ ~isClosed /\ shaken /\ reply = NoMsg
                        /\ request.cmd = pc /\ request.layer = conn
  /\ pc \in Steps /\ reply # NoMsg => /\ ~isClosed /\ shaken
                                      /\ reply.cmd = pc /\ reply.layer = conn

(* The two ends are in the same layer but for a handshake that is due, and *)
(* an accepted AUTH leaves its traces at once.                             *)
Upgrade ==
  /\ reader = conn
  /\ shaken => conn = layers
  /\ ~shaken => conn = layers + 1
  /\ secured => conn > 0 /\ tlsConfig /\ data # "clear"
  /\ pc = "AUTH" => data = "none"

AuthSteps == {"AUTH", "PBSZ", "PROT"}
LoginSteps == Steps \ AuthSteps

(* How far the dialogue is, on both ends. *)
Dialogue ==
  /\ pc \in AuthSteps => call = "AuthTLS"
  /\ pc \in LoginSteps => call = "Login" /\ arg \in Names
  /\ pc \in {"PBSZ", "PROT"} => secured
  /\ call = "AuthTLS" /\ res = "ok" => secured
  /\ caller = "cliTLS" /\ pc \in LoginSteps => secured
  /\ pc = "PASS" \/ (pc = "USER" /\ reply.code = "ok") => named = arg
  /\ pc = "PASS" /\ reply.code = "ok" => arg \in accepted
  /\ UserWasAccepted
  /\ ~isClosed => IF pc = "TYPE" /\ reply.code = "ok" THEN srvType = "I" ELSE currType = srvType

(* The inductive invariant: none of the safety properties above is         *)
(* inductive on its own.                                                   *)
IInv == TypeOK /\ Wire /\ Upgrade /\ Dialogue /\ NoOrphan

(* Only a server that accepts the connection and then says nothing keeps   *)
(* Open waiting: its read of the greeting has no deadline.                 *)
OpenReturns == pc = "greeting" ~> (pc # "greeting" \/ mute)

(* Close ends an AuthTLS or a Login that waits for a silent server, in     *)
(* clear or inside TLS.                                                    *)
CloseEndsSetup == (mute /\ poked) ~> isClosed
=============================================================================
