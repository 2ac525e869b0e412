------------------------------- MODULE CliProofs -------------------------------
(***************************************************************************)
(* Proofs about Cli, for any remote file, any listings and any bounds:     *)
(* what processes that use the library one after the other leave on the    *)
(* disk, and what zftp's exit status says.                                 *)
(***************************************************************************)
EXTENDS Cli, LocalFileProofs, ListingProofs

(* A process is between calls unless it is working. *)
Processes ==
  /\ proc \in {"dial", "login", "ready", "working", "returned", "exited"}
  /\ prog \in {"zftp", "library"} /\ cmd \in Commands
  /\ err \in {"none", "ok", "err"} /\ sig \in {"none", "armed", "raised", "closed"}
  /\ exit \in {"0", "1", "killed"}
  /\ proc # "working" => at = "idle"

(* zftp makes the call of its command, and has done it before it may say   *)
(* so: RunE returned no error, or the process has exited with 0 without a  *)
(* signal.                                                                 *)
Transfers == {"get", "put", "submit"}
Claims ==
  \/ proc = "returned" /\ err = "ok"
  \/ proc = "exited" /\ exit = "0" /\ sig \notin {"raised", "closed"}
Making ==
  prog = "zftp" /\ cmd.name \in Transfers =>
    /\ proc = "working" => call = CallOf(cmd)
    /\ Claims => call = CallOf(cmd) /\ res = "ok"
Parsing ==
  prog = "zftp" /\ Claims =>
    /\ cmd.name = "job" => section = "done" /\ result.out = "ok"
    /\ cmd.name = "ls" => listRes = "ok"

CliInv == FileInv /\ WalkInv /\ ListInv /\ Processes /\ Making /\ Parsing

---------------------------------------------------------------------------
(* The flags of the commands. *)
LEMMA CommandFacts ==
  ASSUME NEW c \in Commands
  PROVE  /\ c.name \in {"get", "put"} => c.off \in Nat
         /\ c.name = "put" => ~c.gzip
<1>1. ASSUME NEW name \in {"submit", "job", "ls", "simple"}, c = Command(name)
      PROVE  c.name \notin {"get", "put"}
  BY <1>1 DEF Command
<1>2. CASE c \in [name : {"get"}, ascii : BOOLEAN, gzip : BOOLEAN, off : 0..MaxLen]
  BY <1>2, SizeFacts
<1>3. CASE c \in [name : {"put"}, ascii : BOOLEAN, gzip : {FALSE}, off : 0..MaxLen]
  <2>1. c.off \in Nat /\ c.name = "put"
    BY <1>3, SizeFacts
  <2>2. ~c.gzip
    BY <1>3
  <2> QED
    BY <2>1, <2>2
<1> QED
  BY <1>1, <1>2, <1>3 DEF Commands

(* The call of a transfer command is one of LocalFile's. *)
LEMMA CallOfFacts ==
  ASSUME NEW c \in Commands, c.name \in Transfers
  PROVE  CallOf(c) \in Calls
<1>1. CASE c \in [name : {"get"}, ascii : BOOLEAN, gzip : BOOLEAN, off : 0..MaxLen]
  <2>1. CASE c.gzip
    <3>1. CallOf(c) = [kind |-> "GetAndGzip", ascii |-> c.ascii, off |-> 0, specs |-> "default"]
      BY <1>1, <2>1 DEF CallOf
    <3> QED
      BY <1>1, <3>1 DEF Calls
  <2>2. CASE ~c.gzip /\ c.off > 0
    <3>1. CallOf(c) = [kind |-> "GetAt", ascii |-> c.ascii, off |-> c.off, specs |-> "default"]
      BY <1>1, <2>2 DEF CallOf
    <3> QED
      BY <1>1, <3>1 DEF Calls
  <2>3. CASE ~c.gzip /\ c.off = 0
    <3>1. CallOf(c) = [kind |-> "Get", ascii |-> c.ascii, off |-> 0, specs |-> "default"]
      BY <1>1, <2>3 DEF CallOf
    <3> QED
      BY <1>1, <3>1 DEF Calls
  <2> QED
    BY <1>1, <2>1, <2>2, <2>3, SizeFacts
<1>2. CASE c \in [name : {"put"}, ascii : BOOLEAN, gzip : {FALSE}, off : 0..MaxLen]
  <2>1. CASE c.off > 0
    <3>1. CallOf(c) = [kind |-> "PutAt", ascii |-> c.ascii, off |-> c.off, specs |-> "default"]
      <4>1. c.name = "put" /\ ~c.gzip /\ c.ascii \in BOOLEAN
        BY <1>2
      <4> QED
        BY <2>1, <4>1 DEF CallOf
    <3> QED
      BY <1>2, <3>1 DEF Calls, Specs
  <2>2. CASE c.off = 0
    <3>1. CallOf(c) = [kind |-> "Put", ascii |-> c.ascii, off |-> 0, specs |-> "default"]
      BY <1>2, <2>2 DEF CallOf
    <3> QED
      BY <1>2, <3>1 DEF Calls, Specs
  <2> QED
    BY <1>2, <2>1, <2>2, SizeFacts
<1>3. CASE c = Command("submit")
  <2>1. CallOf(c) = [kind |-> "SubmitJCLFile", ascii |-> TRUE, off |-> 0, specs |-> "default"]
    BY <1>3 DEF CallOf, Command
  <2> QED
    BY <2>1 DEF Calls
<1>4. c \in [name : {"get"}, ascii : BOOLEAN, gzip : BOOLEAN, off : 0..MaxLen]
      \/ c \in [name : {"put"}, ascii : BOOLEAN, gzip : {FALSE}, off : 0..MaxLen]
      \/ c = Command("submit")
  <2>1. ASSUME NEW name \in {"submit", "job", "ls", "simple"}, c = Command(name)
        PROVE  c = Command("submit")
    BY <2>1 DEF Transfers, Command
  <2> QED
    BY <2>1 DEF Commands
<1> QED
  BY <1>1, <1>2, <1>3, <1>4

(* Every step of a process is one of the steps of the parts. *)
LEMMA PartSteps ==
  ASSUME CliInv, [Next]_vars
  PROVE  FileStep /\ WalkStep /\ ListStep
<1> USE DEF CliInv, Processes
<1>1. ASSUME UNCHANGED <<fileVars, walkVars, listVars>> PROVE FileStep /\ WalkStep /\ ListStep
  BY <1>1 DEF FileStep, WalkStep, ListStep
<1>2. ASSUME Boot PROVE FileStep /\ WalkStep /\ ListStep
  BY <1>2 DEF Boot, FileStep, WalkStep, ListStep, Fresh, WalkFresh, ListFresh
<1>3. ASSUME NEW k \in 0..MaxLen, dies(k), UNCHANGED <<walkVars, listVars>>
      PROVE  FileStep /\ WalkStep /\ ListStep
  BY <1>3 DEF FileStep, WalkStep, ListStep
<1>4. ASSUME NEW c \in Calls, Start(c), UNCHANGED <<walkVars, listVars>>
      PROVE  FileStep /\ WalkStep /\ ListStep
  BY <1>4 DEF FileStep, WalkStep, ListStep
<1>5. ASSUME RunE PROVE FileStep /\ WalkStep /\ ListStep
  <2>1. ASSUME cmd.name \in Transfers, Start(CallOf(cmd)), UNCHANGED <<walkVars, listVars>>
        PROVE  FileStep /\ WalkStep /\ ListStep
    BY <1>4, <2>1, CallOfFacts
  <2>2. ASSUME NEW r \in Records, StartWalk(r), UNCHANGED <<fileVars, listVars>>
        PROVE  FileStep /\ WalkStep /\ ListStep
    BY <2>2 DEF FileStep, WalkStep, ListStep
  <2>3. ASSUME NEW l \in Listed, StartList(l), UNCHANGED <<fileVars, walkVars>>
        PROVE  FileStep /\ WalkStep /\ ListStep
    BY <2>3 DEF FileStep, WalkStep, ListStep
  <2> QED
    BY <1>1, <1>5, <2>1, <2>2, <2>3 DEF RunE, Transfers
<1>6. ASSUME Work PROVE FileStep /\ WalkStep /\ ListStep
  BY <1>6 DEF Work, FileStep, WalkStep, ListStep
<1>7. ASSUME NEW status, Gone(status) PROVE FileStep /\ WalkStep /\ ListStep
  BY <1>3, <1>7 DEF Gone
<1>8. CASE UNCHANGED vars
  BY <1>1, <1>8 DEF vars
<1>9. CASE Next
  <2>1. CASE (\E c \in Commands : Execute(c)) \/ Library
    BY <1>2, <2>1 DEF Execute, Library
  <2>2. CASE Open \/ Login \/ ConnectFails \/ CallReturns \/ Signal \/ HandlerClose
    BY <1>1, <2>2 DEF Open, Login, ConnectFails, CallReturns, Signal, HandlerClose
  <2>3. CASE \E c \in Calls : Invoke(c)
    BY <1>4, <2>3 DEF Invoke
  <2>4. CASE main \/ Quit \/ HandlerExit \/ Kill
    BY <1>7, <2>4 DEF main, Quit, HandlerExit, Kill
  <2> QED
    BY <1>5, <1>6, <1>9, <2>1, <2>2, <2>3, <2>4 DEF Next
<1> QED
  BY <1>8, <1>9

(* A step of a call keeps the call. *)
LEMMA SameCall == FileNext => call' = call
BY DEF FileNext, SetDataSpecs, OpenFile, OpenFileFails, Prepare, PrepareFails, transfer,
       gzClose, VerifyGzSize, closeFile, closeFileFails

(* A process is between calls unless it is working. *)
LEMMA ProcessesStep ==
  ASSUME CliInv, [Next]_vars
  PROVE  Processes'
<1> USE DEF CliInv, Processes
<1>1. CASE UNCHANGED vars
  BY <1>1 DEF vars, cliVars, fileVars
<1>2. ASSUME NEW c \in Commands, Execute(c) PROVE Processes'
  BY <1>2 DEF Execute, Boot
<1>3. ASSUME Library PROVE Processes'
  BY <1>3 DEF Library, Boot, Commands, Command
<1>4. ASSUME Open PROVE Processes'
  BY <1>4 DEF Open, fileVars
<1>5. ASSUME Login PROVE Processes'
  BY <1>5 DEF Login, fileVars
<1>6. ASSUME ConnectFails PROVE Processes'
  BY <1>6 DEF ConnectFails, Returned, fileVars
<1>7. ASSUME RunE PROVE Processes'
  BY <1>7 DEF RunE, Returned, fileVars
<1>8. ASSUME NEW c \in Calls, Invoke(c) PROVE Processes'
  BY <1>8 DEF Invoke
<1>9. ASSUME Work PROVE Processes'
  BY <1>9 DEF Work, cliVars
<1>10. ASSUME CallReturns PROVE Processes'
  <2>1. err' \in {"none", "ok", "err"}
    <3>1. Outcome \in {"none", "pending", "ok", "err"}
      BY DEF Outcome, ListInv
    <3>2. PICK o : o = Outcome
      OBVIOUS
    <3>3. o # "pending"
      BY <1>10, <3>2 DEF CallReturns, Outcome
    <3> QED
      BY <1>10, <3>1, <3>2, <3>3 DEF CallReturns, Returned
  <2> QED
    BY <1>10, <2>1 DEF CallReturns, Returned, fileVars
<1>11. ASSUME NEW status \in {"0", "1", "killed"}, Gone(status) PROVE Processes'
  BY <1>11 DEF Gone, dies, Return
<1>12. ASSUME main \/ Quit \/ HandlerExit \/ Kill PROVE Processes'
  BY <1>11, <1>12 DEF main, Quit, HandlerExit, Kill
<1>13. ASSUME Signal \/ HandlerClose PROVE Processes'
  BY <1>13 DEF Signal, HandlerClose, fileVars
<1> QED
  BY <1>1, <1>2, <1>3, <1>4, <1>5, <1>6, <1>7, <1>8, <1>9, <1>10, <1>12, <1>13 DEF Next

(* zftp has done its command before it says so. *)
LEMMA ClaimsStep ==
  ASSUME CliInv, [Next]_vars
  PROVE  (Making /\ Parsing)'
<1> USE DEF CliInv, Making, Parsing, Claims
<1>1. CASE UNCHANGED vars
  BY <1>1 DEF vars, cliVars, fileVars, walkVars, listVars
<1>2. ASSUME NEW c \in Commands, Execute(c) PROVE (Making /\ Parsing)'
  BY <1>2 DEF Execute, Boot
<1>3. ASSUME Library PROVE (Making /\ Parsing)'
  BY <1>3 DEF Library, Boot
<1>4. ASSUME Open PROVE (Making /\ Parsing)'
  BY <1>4 DEF Open, fileVars, walkVars, listVars
<1>5. ASSUME Login PROVE (Making /\ Parsing)'
  BY <1>5 DEF Login, fileVars, walkVars, listVars
<1>6. ASSUME ConnectFails PROVE (Making /\ Parsing)'
  BY <1>6 DEF ConnectFails, Returned, fileVars, walkVars, listVars
<1>7. ASSUME RunE PROVE (Making /\ Parsing)'
  <2>1. CASE cmd.name \in Transfers /\ Start(CallOf(cmd)) /\ proc' = "working"
    <3>1. PICK c : c = CallOf(cmd)
      OBVIOUS
    <3>2. call' = c /\ cmd' = cmd
      BY <1>7, <2>1, <3>1 DEF RunE, Start
    <3>3. CallOf(cmd') = c
      BY <3>1, <3>2
    <3> QED
      BY <2>1, <3>2, <3>3 DEF Transfers
  <2>2. CASE cmd.name \notin Transfers /\ proc' = "working"
    BY <1>7, <2>2 DEF RunE
  <2>3. CASE cmd.name \in {"simple"} /\ Returned("ok")
    BY <1>7, <2>3 DEF RunE, Returned, Transfers
  <2>4. CASE cmd.name \in {"job", "ls", "simple"} /\ Returned("err")
    BY <1>7, <2>4 DEF RunE, Returned, Transfers
  <2> QED
    BY <1>7, <2>1, <2>2, <2>3, <2>4 DEF RunE, Transfers
<1>8. ASSUME NEW c \in Calls, Invoke(c) PROVE (Making /\ Parsing)'
  BY <1>8 DEF Invoke
<1>9. ASSUME Work PROVE (Making /\ Parsing)'
  <2>1. call' = call
    BY <1>9, SameCall DEF Work, fileVars
  <2>2. proc = "working" /\ UNCHANGED cliVars
    BY <1>9 DEF Work
  <2> QED
    BY <2>1, <2>2 DEF cliVars
<1>10. ASSUME CallReturns PROVE (Making /\ Parsing)'
  <2>1. /\ proc = "working" /\ section = "done" /\ UNCHANGED <<prog, cmd, call, res>>
        /\ UNCHANGED <<section, result, listRes>> /\ proc' \in {"returned", "ready"}
        /\ prog = "zftp" => err' = Outcome
    BY <1>10 DEF CallReturns, Returned, fileVars, walkVars, listVars
  <2>2. PICK o : o = Outcome
    OBVIOUS
  <2>3. o = "ok" => /\ cmd.name \in Transfers => res = "ok"
                    /\ cmd.name = "job" => result.out = "ok"
                    /\ cmd.name = "ls" => listRes = "ok"
    BY <2>2 DEF Outcome, Transfers
  <2> QED
    BY <2>1, <2>2, <2>3
<1>11. ASSUME NEW status, Gone(status),
              prog = "zftp" /\ status = "0" /\ sig \notin {"raised", "closed"} =>
                proc = "returned" /\ err = "ok"
       PROVE  (Making /\ Parsing)'
  <2>1. /\ proc' = "exited" /\ exit' = status
        /\ UNCHANGED <<prog, cmd, sig, section, result, listRes>>
        /\ call' = call /\ (at = "idle" => res' = res)
    BY <1>11 DEF Gone, dies, Return, walkVars, listVars
  <2>2. proc = "returned" => at = "idle"
    BY DEF Processes
  <2> QED
    BY <1>11, <2>1, <2>2
<1>12. ASSUME main PROVE (Making /\ Parsing)'
  BY <1>11, <1>12 DEF main
<1>13. ASSUME Quit PROVE (Making /\ Parsing)'
  BY <1>11, <1>13 DEF Quit
<1>14. ASSUME HandlerExit PROVE (Making /\ Parsing)'
  BY <1>11, <1>14 DEF HandlerExit
<1>15. ASSUME Kill PROVE (Making /\ Parsing)'
  BY <1>11, <1>15 DEF Kill
<1>16. ASSUME Signal \/ HandlerClose PROVE (Making /\ Parsing)'
  BY <1>16 DEF Signal, HandlerClose, fileVars, walkVars, listVars
<1> QED
  BY <1>1, <1>2, <1>3, <1>4, <1>5, <1>6, <1>7, <1>8, <1>9, <1>10, <1>12, <1>13, <1>14, <1>15,
     <1>16 DEF Next

(* Before the first process. *)
LEMMA InitCli == Init => CliInv
<1> SUFFICES ASSUME Init PROVE CliInv
  OBVIOUS
<1>1. FileInv /\ WalkInv /\ ListInv
  BY InitFile, InitWalk, InitList DEF Init
<1>2. Processes
  BY DEF Init, Processes, FileInit, Commands
<1>3. Making /\ Parsing
  BY DEF Init, Making, Parsing
<1> QED
  BY <1>1, <1>2, <1>3 DEF CliInv

---------------------------------------------------------------------------
(* The invariant holds of every run. *)
THEOREM Invariant == Spec => []CliInv
<1>1. CliInv /\ [Next]_vars => CliInv'
  <2> SUFFICES ASSUME CliInv, [Next]_vars PROVE CliInv'
    OBVIOUS
  <2>1. FileInv' /\ WalkInv' /\ ListInv'
    BY PartSteps, FileInvStep, WalkInvStep, ListInvStep DEF CliInv
  <2>2. Processes' /\ Making' /\ Parsing'
    BY ProcessesStep, ClaimsStep
  <2> QED
    BY <2>1, <2>2 DEF CliInv
<1> QED
  BY InitCli, <1>1, PTL DEF Spec

(* Every variable of the processes, the disk, and both parsers keeps its   *)
(* type; the parsers stay within their listings.                           *)
THEOREM TypeCorrect == Spec => []TypeOK
<1>1. CliInv => TypeOK
  <2> SUFFICES ASSUME CliInv PROVE TypeOK
    OBVIOUS
  <2>1. FileTypeOK
    BY DEF CliInv, FileInv, Shaped
  <2>2. i \in 1..Len(records) + 1 /\ dt <= Len(records)
    BY DEF CliInv, WalkInv
  <2>3. row \in 0..Len(listing.rows) + 1 /\ Len(datasets) <= Len(listing.rows)
    BY DEF CliInv, ListInv
  <2> QED
    BY <2>1, <2>2, <2>3 DEF CliInv, Processes, TypeOK
<1> QED
  BY Invariant, <1>1, PTL

(* A download reported as successful is on disk in full, however often it  *)
(* was attempted and whatever was there before.                            *)
THEOREM DownloadsOnDisk == Spec => []SuccessIsOnDisk
<1>1. CliInv => SuccessIsOnDisk
  BY OnDisk DEF CliInv
<1> QED
  BY Invariant, <1>1, PTL

(* What a failed or killed binary download leaves can be resumed, and the  *)
(* resume that succeeds makes the remote file of it.                       *)
THEOREM DownloadsResume == Spec => []ResumeCompletes
<1>1. CliInv => ResumeCompletes
  BY Resumes DEF CliInv
<1> QED
  BY Invariant, <1>1, PTL

(* GetAt never changes the bytes below its offset.                         *)
THEOREM OffsetRespected == Spec => []BelowOffsetKept
<1>1. CliInv => BelowOffsetKept
  BY DEF CliInv, FileInv
<1> QED
  BY Invariant, <1>1, PTL

(* A refused resume has touched neither the disk nor the server.           *)
THEOREM RejectionIsClean == Spec => []RejectedTouchesNothing
<1>1. CliInv => RejectedTouchesNothing
  BY DEF CliInv, FileInv, Untouched, RejectedTouchesNothing
<1> QED
  BY Invariant, <1>1, PTL

(* No call that returns leaves a handle of Get, GetAt, GetAndGzip, Put or  *)
(* PutAt open.                                                             *)
THEOREM NoHandleLeak == Spec => []HandlesClosed
<1>1. CliInv => HandlesClosed
  BY DEF CliInv, FileInv, Positions, HandlesClosed
<1> QED
  BY Invariant, <1>1, PTL

(* An upload that succeeds has sent its file from the offset to the end,   *)
(* under the attributes the caller gave.                                   *)
THEOREM UploadsAsAsked == Spec => []StoredAsAsked
<1>1. CliInv => StoredAsAsked
  BY DEF CliInv, FileInv, Upload, Downloads, StoredAsAsked
<1> QED
  BY Invariant, <1>1, PTL

(* A job's detail is accepted exactly when its listing is well formed, and *)
(* then has every spool file of it.                                        *)
THEOREM DetailsAreListed == Spec => []DetailAsListed
<1>1. CliInv => DetailAsListed
  BY DEF CliInv, WalkInv
<1> QED
  BY Invariant, <1>1, PTL

(* A dataset listing that succeeds has every row, each with the text of    *)
(* its own columns; no phrase, "?" or overflow marker makes it fail.       *)
THEOREM RowsAreListed == Spec => []RowsAsListed
<1>1. CliInv => RowsAsListed
  BY RowsRead DEF CliInv
<1> QED
  BY Invariant, <1>1, PTL

(* zftp exits with 0 only if its command was carried out.                  *)
THEOREM ExitStatus == Spec => []ExitZeroMeansDone
<1>1. CliInv => ExitZeroMeansDone
  <2> SUFFICES ASSUME CliInv, proc = "exited", prog = "zftp", exit = "0",
                      sig \notin {"raised", "closed"}, ~lost
               PROVE  ExitZeroMeansDone
    BY DEF ExitZeroMeansDone
  <2>1. at = "idle" /\ cmd \in Commands
    BY DEF CliInv, Processes
  <2>2. cmd.name \in Transfers => call = CallOf(cmd) /\ res = "ok"
    BY DEF CliInv, Making, Claims
  <2>3. ASSUME cmd.name = "get", cmd.gzip PROVE archive = [bytes |-> Size, footer |-> TRUE]
    <3>1. Done("GetAndGzip")
      BY <2>1, <2>2, <2>3 DEF CallOf, Done, Transfers
    <3> QED
      BY <3>1, OnDisk DEF CliInv, SuccessIsOnDisk
  <2>4. ASSUME cmd.name = "get", ~cmd.gzip, NEW j \in cmd.off + 1..Size
        PROVE  j <= Len(file) /\ file[j] = (IF cmd.ascii THEN "a" ELSE "r")
    <3>1. cmd.off \in Nat
      BY <2>1, <2>4, CommandFacts
    <3>2. /\ call.kind \in {"Get", "GetAt"} /\ res = "ok" /\ call.off = cmd.off
          /\ CellOf(call) = (IF cmd.ascii THEN "a" ELSE "r")
      <4>1. call = CallOf(cmd) /\ res = "ok"
        BY <2>2, <2>4 DEF Transfers
      <4>2. call.kind \in {"Get", "GetAt"} /\ call.off = cmd.off
        BY <2>4, <3>1, <4>1 DEF CallOf
      <4>3. call.ascii <=> cmd.ascii
        BY <2>4, <4>1 DEF CallOf
      <4> QED
        BY <4>1, <4>2, <4>3 DEF CellOf
    <3>3. FileInv
      BY DEF CliInv
    <3>4. j \in 1..Size /\ call.off < j
      BY <2>4, <3>1, <3>2, SizeFacts
    <3>5. j <= Len(file) /\ file[j] = CellOf(call)
      BY <2>1, <3>2, <3>3, <3>4, DoneIsMoved
    <3> QED
      BY <3>2, <3>5
  <2>5. ASSUME cmd.name = "put", cmd.off < Len(file)
        PROVE  stored.from = cmd.off /\ stored.to = Len(file)
    <3>1. call.kind \in {"Put", "PutAt"} /\ call.off = cmd.off /\ res = "ok"
      <4>1. cmd.off \in Nat /\ ~cmd.gzip
        BY <2>1, <2>5, CommandFacts
      <4> QED
        BY <2>2, <2>5, <4>1 DEF CallOf, Transfers
    <3> QED
      BY <2>1, <2>5, <3>1 DEF CliInv, FileInv, Upload, Downloads
  <2>6. ASSUME cmd.name = "submit" PROVE stored.from = 0 /\ stored.to = Len(file)
    <3>1. call.kind = "SubmitJCLFile" /\ call.off = 0 /\ res = "ok"
      <4>1. call = CallOf(cmd) /\ call \in Calls /\ res = "ok"
        BY <2>2, <2>6 DEF Transfers, CliInv, FileInv, Shaped, FileTypeOK
      <4>2. call.kind = "SubmitJCLFile"
        BY <2>6, <4>1 DEF CallOf
      <4> QED
        BY <4>1, <4>2, CallFacts
    <3>2. Len(file) \in Nat
      BY DEF CliInv, FileInv, Shaped, FileTypeOK
    <3> QED
      BY <2>1, <3>1, <3>2 DEF CliInv, FileInv, Upload, Downloads
  <2>7. ASSUME cmd.name = "job" PROVE Says(records, "ok", result.detail)
    <3>1. section = "done" /\ result.out = "ok"
      BY <2>7 DEF CliInv, Parsing, Claims
    <3> QED
      BY <3>1 DEF CliInv, WalkInv, DetailAsListed
  <2>8. ASSUME cmd.name = "ls" PROVE Len(datasets) = Len(listing.rows)
    <3>1. listRes = "ok"
      BY <2>8 DEF CliInv, Parsing, Claims
    <3> QED
      BY <3>1 DEF CliInv, ListInv
  <2> QED
    BY <2>3, <2>4, <2>5, <2>6, <2>7, <2>8 DEF ExitZeroMeansDone
<1> QED
  BY Invariant, <1>1, PTL
=============================================================================
