--------------------------------- MODULE Cli ---------------------------------
(***************************************************************************)
(* Processes that use the library, one after the other on the same disk:   *)
(* the command-line client zftp (cli/main.go, cli/internal/cmd), one       *)
(* command each, and programs that make any calls of LocalFile on one      *)
(* session.  A process may be killed at any step; zftp also has the signal *)
(* handler of ftp.go, a goroutine that closes the session and exits.       *)
(***************************************************************************)
EXTENDS LocalFile, SpoolListing, DatasetListing

VARIABLES proc,    \* state of the process
          prog,    \* which program it is
          cmd,     \* zftp's command and flags
          err,     \* what RunE returned
          sig,     \* the handler: not installed, installed, woken, session closed
          exit     \* the status of the last process

cliVars == <<proc, prog, cmd, err, sig, exit>>
vars == <<fileVars, walkVars, listVars, cliVars>>

(* The flags; a negative --offset is as good as none. *)
Command(name) == [name |-> name, ascii |-> FALSE, gzip |-> FALSE, off |-> 0]
Commands ==
  [name : {"get"}, ascii : BOOLEAN, gzip : BOOLEAN, off : 0..MaxLen]
    \cup [name : {"put"}, ascii : BOOLEAN, gzip : {FALSE}, off : 0..MaxLen]
    \cup {Command(name) : name \in {"submit", "job", "ls", "simple"}}

Init ==
  /\ FileInit /\ WalkInit /\ ListInit
  /\ proc = "exited" /\ prog = "library" /\ cmd = Command("simple")
  /\ err = "none" /\ sig = "none" /\ exit = "1"

(* The listing commands do not touch the disk: they are explored from the  *)
(* empty one only.                                                         *)
EmptyDisk == ~exists /\ archive.bytes = 0 /\ ~archive.footer

---------------------------------------------------------------------------
(* A new process starts with fresh memory and the disk as it is. *)
Boot ==
  /\ proc = "exited"
  /\ sig' = "none"
  /\ call' = [kind |-> "Get", ascii |-> FALSE, off |-> 0, specs |-> "default"]
  /\ attrs' = "default"
  /\ before' = [exists |-> exists, file |-> file, attrs |-> "default"]
  /\ res' = "none" /\ n' = 0 /\ stored' = Nothing /\ lost' = FALSE /\ warned' = FALSE
  /\ records' = <<>> /\ i' = 1 /\ section' = "done" /\ dt' = 0
  /\ result' = [out |-> "none", detail |-> 0]
  /\ listing' = [format |-> "modern", rows |-> <<>>] /\ row' = 0
  /\ datasets' = <<>> /\ listRes' = "none"
  /\ UNCHANGED <<exit, disk, handles, at>>

(* main: cobra parses the flags.  get and put refuse --ascii --offset      *)
(* before they dial.                                                       *)
Execute(c) ==
  /\ Boot
  /\ c.name \in {"job", "ls", "simple"} => EmptyDisk
  /\ prog' = "zftp" /\ cmd' = c
  /\ IF c.ascii /\ c.off > 0
     THEN proc' = "returned" /\ err' = "err"
     ELSE proc' = "dial" /\ err' = "none"

Library ==
  /\ Boot
  /\ prog' = "library" /\ cmd' = Command("simple")
  /\ proc' = "dial" /\ err' = "none"

Returned(e) == proc' = "returned" /\ err' = e

(* realConnect: Open, which installs the handler, then AuthTLS and Login.  *)
(* Module Setup has the details.                                           *)
Open ==
  /\ proc = "dial"
  /\ proc' = "login"
  /\ sig' = IF prog = "zftp" THEN "armed" ELSE "none"
  /\ UNCHANGED <<prog, cmd, err, exit, fileVars, walkVars, listVars>>

Login ==
  /\ proc = "login"
  /\ sig # "closed"
  /\ proc' = "ready" /\ UNCHANGED err
  /\ UNCHANGED <<prog, cmd, sig, exit, fileVars, walkVars, listVars>>

ConnectFails ==
  /\ proc \in {"dial", "login"}
  /\ Returned("err")
  /\ UNCHANGED <<prog, cmd, sig, exit, fileVars, walkVars, listVars>>

---------------------------------------------------------------------------
(* The call that a command makes: --gzip wins over --offset. *)
CallOf(c) ==
  [kind |-> CASE c.name = "submit" -> "SubmitJCLFile"
              [] c.name = "get" /\ c.gzip -> "GetAndGzip"
              [] c.name = "get" /\ ~c.gzip /\ c.off > 0 -> "GetAt"
              [] c.name = "put" /\ c.off > 0 -> "PutAt"
              [] c.name = "put" /\ c.off = 0 -> "Put"
              [] OTHER -> "Get",
   ascii |-> c.ascii \/ c.name = "submit",
   off |-> IF c.gzip THEN 0 ELSE c.off,
   specs |-> "default"]

(* RunE: a transfer; job and ls, whose LIST succeeds and is parsed; every  *)
(* other command is one call.  On a closed session each call fails.        *)
RunE ==
  /\ proc = "ready"
  /\ prog = "zftp"
  /\ \/ /\ cmd.name \in {"get", "put", "submit"}
        /\ Start(CallOf(cmd))
        /\ proc' = "working" /\ UNCHANGED <<err, walkVars, listVars>>
     \/ /\ cmd.name = "job" /\ sig # "closed"
        /\ \E r \in Records : StartWalk(r)
        /\ proc' = "working" /\ UNCHANGED <<err, fileVars, listVars>>
     \/ /\ cmd.name = "ls" /\ sig # "closed"
        /\ \E l \in Listed : StartList(l)
        /\ proc' = "working" /\ UNCHANGED <<err, fileVars, walkVars>>
     \/ /\ cmd.name = "simple" /\ sig # "closed"
        /\ Returned("ok") /\ UNCHANGED <<fileVars, walkVars, listVars>>
     \/ /\ cmd.name \in {"job", "ls", "simple"}
        /\ Returned("err") /\ UNCHANGED <<fileVars, walkVars, listVars>>
  /\ UNCHANGED <<prog, cmd, sig, exit>>

Invoke(c) ==
  /\ proc = "ready"
  /\ prog = "library"
  /\ Start(c)
  /\ proc' = "working"
  /\ UNCHANGED <<prog, cmd, err, sig, exit, walkVars, listVars>>

(* The call proceeds; once the handler has closed the session no transfer  *)
(* completes.                                                              *)
Work ==
  /\ proc = "working"
  /\ \/ /\ FileNext
        /\ at = "transfer" /\ sig = "closed" => res' = "err"
        /\ UNCHANGED <<walkVars, listVars>>
     \/ WalkNext /\ UNCHANGED <<fileVars, listVars>>
     \/ ListNext /\ UNCHANGED <<fileVars, walkVars>>
  /\ UNCHANGED cliVars

Outcome ==
  CASE cmd.name = "job" -> IF result.out = "ok" THEN "ok" ELSE "err"
    [] cmd.name = "ls" -> listRes
    [] OTHER -> IF res = "ok" THEN "ok" ELSE "err"

(* The call returns to RunE or to the program. *)
CallReturns ==
  /\ proc = "working"
  /\ at = "idle" /\ section = "done" /\ listRes # "pending"
  /\ IF prog = "zftp" THEN Returned(Outcome) ELSE proc' = "ready" /\ UNCHANGED err
  /\ UNCHANGED <<prog, cmd, sig, exit, fileVars, walkVars, listVars>>

(* The process is gone; the parsers' results stay for inspection. *)
Gone(status) ==
  /\ exit' = status
  /\ proc' = "exited"
  /\ \E k \in 0..MaxLen : dies(k)
  /\ UNCHANGED <<prog, cmd, err, sig, walkVars, listVars>>

(* Mutant of main: the error of RunE is printed but not mapped. *)
mainZero == proc = "returned" /\ Gone("0")

(* The deferred Close, whose error is dropped, then main's exit status. *)
main == proc = "returned" /\ Gone(IF err = "ok" THEN "0" ELSE "1")

Quit == proc = "ready" /\ prog = "library" /\ Gone("0")

(* The handler's goroutine runs beside main from Open on. *)
Signal ==
  /\ sig = "armed" /\ proc # "exited"
  /\ sig' = "raised"
  /\ UNCHANGED <<proc, prog, cmd, err, exit, fileVars, walkVars, listVars>>

HandlerClose ==
  /\ sig = "raised" /\ proc # "exited"
  /\ sig' = "closed"
  /\ UNCHANGED <<proc, prog, cmd, err, exit, fileVars, walkVars, listVars>>

HandlerExit ==
  /\ sig = "closed" /\ proc # "exited"
  /\ Gone("0") \/ Gone("1")

Kill == proc # "exited" /\ Gone("killed")

Next ==
  \/ \E c \in Commands : Execute(c)
  \/ Library \/ Open \/ Login \/ ConnectFails
  \/ RunE
  \/ \E c \in Calls : Invoke(c)
  \/ Work \/ CallReturns \/ main \/ Quit
  \/ Signal \/ HandlerClose \/ HandlerExit \/ Kill

Spec == Init /\ [][Next]_vars
---------------------------------------------------------------------------
(* Type invariant, LocalFile's included. *)
TypeOK ==
  /\ FileTypeOK
  /\ proc \in {"dial", "login", "ready", "working", "returned", "exited"}
  /\ prog \in {"zftp", "library"} /\ cmd \in Commands
  /\ err \in {"none", "ok", "err"} /\ sig \in {"none", "armed", "raised", "closed"}
  /\ exit \in {"0", "1", "killed"}
  /\ i \in 1..Len(records) + 1 /\ dt <= Len(records)
  /\ row \in 0..Len(listing.rows) + 1 /\ Len(datasets) <= Len(listing.rows)

(* zftp exits with 0 only if its command was carried out: the download is  *)
(* whole on disk, the upload or the JCL was sent to its end, the listing   *)
(* parsed in full (cmd.go: main maps an error to a non-zero exit).  Two    *)
(* ways out that the code leaves open are excepted: a signal, whose        *)
(* handler exits with 0 whatever main is doing, and a failed close of the  *)
(* local file.                                                             *)
ExitZeroMeansDone ==
  proc = "exited" /\ prog = "zftp" /\ exit = "0" /\ sig \notin {"raised", "closed"} /\ ~lost =>
    CASE cmd.name = "get" /\ cmd.gzip -> archive = [bytes |-> Size, footer |-> TRUE]
      [] cmd.name = "get" /\ ~cmd.gzip ->
           \A j \in cmd.off + 1..Size :
             j <= Len(file) /\ file[j] = (IF cmd.ascii THEN "a" ELSE "r")
      [] cmd.name = "put" -> cmd.off < Len(file) => stored.from = cmd.off /\ stored.to = Len(file)
      [] cmd.name = "submit" -> stored.from = 0 /\ stored.to = Len(file)
      [] cmd.name = "job" -> Says(records, "ok", result.detail)
      [] cmd.name = "ls" -> Len(datasets) = Len(listing.rows)
      [] OTHER -> TRUE
=============================================================================
