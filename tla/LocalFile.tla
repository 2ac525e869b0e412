------------------------------ MODULE LocalFile ------------------------------
(***************************************************************************)
(* Calls that move a local file (get.go, put.go, jes.go: SubmitJCLFile,    *)
(* internal/utils: VerifyGzSize): what is on disk after the steps open,    *)
(* truncate, seek, transfer and close, of which each may fail, against     *)
(* what the caller is told.  The transfer itself is one step: module       *)
(* Transfer shows that its success means that all data went through.       *)
(*                                                                         *)
(* A file is a sequence of cells: "r" is the remote byte of that position, *)
(* "a" the same after end-of-line and code page translation (TYPE A), "0"  *)
(* a hole, "x" any other byte.                                             *)
(***************************************************************************)
EXTENDS Integers, Sequences

CONSTANTS Size,          \* length of the remote file
          MaxLen,        \* bound on the length of the local file and on offsets
          GzModulus,     \* stands for 2^32, the range of the gzip length field
          CloseMayFail   \* closing a local file may report an error

ASSUME SizeAssumption == Size \in Nat /\ MaxLen \in Nat /\ Size <= MaxLen
ASSUME GzModulusAssumption == GzModulus \in Nat \ {0}
ASSUME CloseMayFailFileAssumption == CloseMayFail \in BOOLEAN

VARIABLES
  exists, file,        \* the local file
  archive,             \* the local .gz file: bytes compressed, footer written
  handles,             \* open file handles of the process, by who opened them
  at, call, res, n,    \* position in the call, the call, its result, bytes transferred
  attrs,               \* the server's dataset attributes (SITE)
  stored,              \* what this upload left on the server
  before,              \* file, existence and attributes when the call began
  lost, warned         \* a close error was dropped; SITE's warning was only logged

disk == <<exists, file, archive>>
fileVars == <<disk, handles, at, call, res, n, attrs, stored, before, lost, warned>>

Cells == {"r", "a", "0", "x"}
Files == UNION {[1..k -> Cells] : k \in 0..MaxLen}
Specs == {"default", "FB80", "invalid"}

(* The offset of GetAt and PutAt is an int64: -1 stands for a negative one. *)
Calls ==
  [kind : {"Get", "GetAndGzip"}, ascii : BOOLEAN, off : {0}, specs : {"default"}]
    \cup [kind : {"SubmitJCLFile"}, ascii : {TRUE}, off : {0}, specs : {"default"}]
    \cup [kind : {"GetAt"}, ascii : BOOLEAN, off : -1..MaxLen, specs : {"default"}]
    \cup [kind : {"Put"}, ascii : BOOLEAN, off : {0}, specs : Specs]
    \cup [kind : {"PutAt"}, ascii : BOOLEAN, off : -1..MaxLen, specs : Specs]
Downloads == {"Get", "GetAt", "GetAndGzip"}
Nothing == [from |-> 0, to |-> 0, attrs |-> "default"]

(* A file is missing, of other origin, or what an earlier call left. *)
FileInit ==
  /\ \/ exists = FALSE /\ file = <<>>
     \/ exists = TRUE /\ \E k \in 0..MaxLen : file = [i \in 1..k |-> "x"]
  /\ archive = [bytes |-> 0, footer |-> FALSE]
  /\ handles = {}
  /\ at = "idle"
  /\ call = [kind |-> "Get", ascii |-> FALSE, off |-> 0, specs |-> "default"]
  /\ res = "none"
  /\ n = 0
  /\ attrs = "default"
  /\ stored = Nothing
  /\ before = [exists |-> exists, file |-> file, attrs |-> attrs]
  /\ lost = FALSE /\ warned = FALSE

Return(r) == at' = "idle" /\ res' = r

---------------------------------------------------------------------------
(* guardResume, and where a call starts. *)
guardResume(c) == ~(c.ascii /\ c.off > 0)

(* Mutant of Start: the guard is left to RetrieveIOAt and StoreIOAt. *)
StartUnguarded(c) ==
  /\ at = "idle"
  /\ call' = c
  /\ before' = [exists |-> exists, file |-> file, attrs |-> attrs]
  /\ at' = (IF c.specs # "default" THEN "specs" ELSE "open")
  /\ res' = "none"
  /\ n' = 0 /\ lost' = FALSE /\ warned' = FALSE /\ stored' = Nothing
  /\ UNCHANGED <<disk, handles, attrs>>

(* Resume at an offset in ASCII is refused before anything else. *)
Start(c) ==
  /\ at = "idle"
  /\ call' = c
  /\ before' = [exists |-> exists, file |-> file, attrs |-> attrs]
  /\ IF guardResume(c)
     THEN at' = (IF c.specs # "default" THEN "specs" ELSE "open") /\ res' = "none"
     ELSE Return("rejected")
  /\ n' = 0 /\ lost' = FALSE /\ warned' = FALSE /\ stored' = Nothing
  /\ UNCHANGED <<disk, handles, attrs>>

(* Mutant of SetDataSpecs: Put goes on although SITE was refused. *)
SetDataSpecsUnchecked ==
  /\ at = "specs"
  /\ at' = "open"
  /\ attrs' \in {attrs, call.specs} \ {"invalid"}
  /\ UNCHANGED <<disk, handles, call, res, n, stored, before, lost, warned>>

(* SetDataSpecs: every attribute is rendered before SITE is sent, so an    *)
(* invalid one sends nothing.  A SITE of several attributes that the       *)
(* server refuses, or whose reply is lost, may have set some of them.  A   *)
(* 200 whose text is not the plain acceptance is logged as a warning and   *)
(* the call goes on.                                                       *)
SetDataSpecs ==
  /\ at = "specs"
  /\ \/ call.specs = "invalid" /\ Return("err") /\ UNCHANGED <<attrs, warned>>
     \/ /\ call.specs # "invalid" /\ Return("err")
        /\ attrs' \in {attrs, call.specs} /\ UNCHANGED warned
     \/ /\ call.specs # "invalid"
        /\ at' = "open" /\ res' = res
        /\ \/ attrs' = call.specs /\ UNCHANGED warned
           \/ warned' = TRUE /\ attrs' \in {attrs, call.specs}
  /\ UNCHANGED <<disk, handles, call, n, stored, before, lost>>

(* Mutant of OpenFile: Get opens without O_TRUNC. *)
OpenFileKeeps ==
  /\ at = "open"
  /\ call.kind \in {"Put", "PutAt", "SubmitJCLFile"} => exists
  /\ handles' = handles \cup {IF call.kind = "SubmitJCLFile" THEN "jcl" ELSE "file"}
  /\ at' = (IF call.kind \in {"Get", "GetAndGzip", "SubmitJCLFile"} THEN "transfer" ELSE "prepare")
  /\ exists' = (exists \/ call.kind \in {"Get", "GetAt"})
  /\ archive' = IF call.kind = "GetAndGzip" THEN [bytes |-> 0, footer |-> FALSE] ELSE archive
  /\ UNCHANGED <<file, call, res, n, attrs, stored, before, lost, warned>>

(* os.Create empties the file, os.OpenFile(O_CREATE) only creates it,      *)
(* os.Open needs it.                                                       *)
OpenFile ==
  /\ at = "open"
  /\ call.kind \in {"Put", "PutAt", "SubmitJCLFile"} => exists
  /\ handles' = handles \cup {IF call.kind = "SubmitJCLFile" THEN "jcl" ELSE "file"}
  /\ at' = (IF call.kind \in {"Get", "GetAndGzip", "SubmitJCLFile"} THEN "transfer" ELSE "prepare")
  /\ exists' = (exists \/ call.kind \in {"Get", "GetAt"})
  /\ file' = IF call.kind = "Get" THEN <<>> ELSE file
  /\ archive' = IF call.kind = "GetAndGzip" THEN [bytes |-> 0, footer |-> FALSE] ELSE archive
  /\ UNCHANGED <<call, res, n, attrs, stored, before, lost, warned>>

OpenFileFails ==
  /\ at = "open"
  /\ Return("err")
  /\ UNCHANGED <<disk, handles, call, n, attrs, stored, before, lost, warned>>

(* Mutant of Prepare: GetAt at offset 0 keeps what is there. *)
PrepareNoTruncate ==
  /\ at = "prepare"
  /\ call.off >= 0
  /\ at' = "transfer"
  /\ UNCHANGED <<disk, handles, call, res, n, attrs, stored, before, lost, warned>>

(* GetAt: Truncate at offset 0, Seek.  Put: Stat.  PutAt: Seek, Stat.      *)
(* There is no position before the first byte to seek to.                  *)
Prepare ==
  /\ at = "prepare"
  /\ call.off >= 0
  /\ at' = "transfer"
  /\ file' = IF call.kind = "GetAt" /\ call.off = 0 THEN <<>> ELSE file
  /\ UNCHANGED <<exists, archive, handles, call, res, n, attrs, stored, before, lost, warned>>

(* Mutant of PrepareFails: the error path forgets to close. *)
PrepareFailsLeaks ==
  /\ at = "prepare"
  /\ Return("err")
  /\ file' \in {file} \cup IF call.kind = "GetAt" /\ call.off = 0 THEN {<<>>} ELSE {}
  /\ UNCHANGED <<exists, archive, handles, call, n, attrs, stored, before, lost, warned>>

PrepareFails ==
  /\ at = "prepare"
  /\ Return("err")
  /\ handles' = handles \ {"file"}
  /\ file' \in {file} \cup IF call.kind = "GetAt" /\ call.off = 0 THEN {<<>>} ELSE {}
  /\ UNCHANGED <<exists, archive, call, n, attrs, stored, before, lost, warned>>

---------------------------------------------------------------------------
(* f after k cells were written from offset off on; a gap is a hole. *)
Written(f, off, k) ==
  LET cell == IF call.ascii THEN "a" ELSE "r"
      len == IF k > 0 /\ off + k > Len(f) THEN off + k ELSE Len(f)
  IN [i \in 1..len |-> IF i > off /\ i <= off + k THEN cell
                       ELSE IF i <= Len(f) THEN f[i] ELSE "0"]

(* What the transfer of a download begins to write over. *)
WrittenOver == IF call.off = 0 THEN <<>> ELSE before.file

(* Mutant of Avail: the offset is not subtracted. *)
AvailWhole == IF call.kind \in Downloads THEN Size ELSE Len(file)

(* How much there is to move. *)
Avail == LET all == IF call.kind \in Downloads THEN Size ELSE Len(file)
         IN IF call.off < all THEN all - call.off ELSE 0

(* Mutant of Offset: the file position is not moved. *)
OffsetZero == 0

(* Where Seek put the file position. *)
Offset == call.off

(* Next position after a transfer: what follows it, or the deferred close. *)
AfterTransfer(ok) ==
  CASE call.kind = "SubmitJCLFile" -> "idle"
    [] call.kind = "GetAndGzip" /\ ok -> "gzclose"
    [] OTHER -> "close"

(* RetrieveIO, RetrieveIOAt, StoreIO, StoreIOAt: k bytes are moved; the    *)
(* call succeeds only if that is all of them, and may fail even then (a    *)
(* lost terminal reply).                                                   *)
transfer(k, ok) ==
  /\ at = "transfer"
  /\ k <= Avail
  /\ ok => k = Avail
  /\ n' = k
  /\ at' = AfterTransfer(ok)
  /\ res' = IF ok THEN "ok" ELSE "err"
  /\ file' = IF call.kind \in {"Get", "GetAt"} THEN Written(file, Offset, k) ELSE file
  /\ archive' = IF call.kind = "GetAndGzip" THEN [archive EXCEPT !.bytes = k] ELSE archive
  /\ stored' = IF call.kind \in Downloads THEN stored
               ELSE [from |-> Offset, to |-> Offset + k, attrs |-> attrs]
  /\ UNCHANGED <<exists, handles, call, attrs, before, lost, warned>>

(* Mutant of gzClose: the error of gzWriter.Close is dropped. *)
gzCloseUnchecked ==
  /\ at = "gzclose"
  /\ at' = "verify"
  /\ archive' \in {archive, [archive EXCEPT !.footer = TRUE]}
  /\ UNCHANGED <<exists, file, handles, call, res, n, attrs, stored, before, lost, warned>>

(* gzWriter.Close writes what is buffered and the footer. *)
gzClose ==
  /\ at = "gzclose"
  /\ \/ at' = "verify" /\ archive' = [archive EXCEPT !.footer = TRUE] /\ UNCHANGED res
     \/ at' = "close" /\ res' = "err" /\ UNCHANGED archive
  /\ UNCHANGED <<exists, file, handles, call, n, attrs, stored, before, lost, warned>>

(* VerifyGzSize compares lengths modulo the range of the footer; reading   *)
(* it may fail.                                                            *)
VerifyGzSize ==
  /\ at = "verify"
  /\ at' = "close"
  /\ \/ archive.bytes % GzModulus = n % GzModulus /\ UNCHANGED res
     \/ res' = "err"
  /\ UNCHANGED <<disk, handles, call, n, attrs, stored, before, lost, warned>>

(* The deferred close.  closeGzHandler first closes the gzip writer, which *)
(* completes a stream that failed half-way.  An error of file.Close is     *)
(* assigned to a variable that is no longer the result (Get, GetAt,        *)
(* GetAndGzip) or only logged (Put, PutAt): the caller does not learn of   *)
(* it, and the end of what this call wrote, or all of it, may be gone.     *)
closeFile ==
  /\ at = "close"
  /\ at' = "idle"
  /\ handles' = handles \ {"file"}
  /\ archive' = IF call.kind = "GetAndGzip" /\ res = "err"
                THEN [archive EXCEPT !.footer = TRUE] ELSE archive
  /\ UNCHANGED <<exists, file, call, res, n, attrs, stored, before, lost, warned>>

closeFileFails ==
  /\ CloseMayFail
  /\ at = "close"
  /\ at' = "idle"
  /\ handles' = handles \ {"file"}
  /\ lost' = TRUE
  /\ IF call.kind \in {"Get", "GetAt"}
     THEN \E k \in 0..n : file' = Written(WrittenOver, Offset, k)
     ELSE UNCHANGED file
  /\ \/ UNCHANGED archive
     \/ /\ call.kind = "GetAndGzip"
        /\ archive' \in [bytes : 0..n, footer : {FALSE}]
  /\ UNCHANGED <<exists, call, res, n, attrs, stored, before, warned>>

(* The process dies, in a transfer after k bytes; no deferred call runs. *)
dies(k) ==
  /\ k <= IF at = "transfer" THEN Avail ELSE 0
  /\ Return(IF at = "idle" THEN res ELSE "none")
  /\ handles' = {}
  /\ file' = IF at = "transfer" /\ call.kind \in {"Get", "GetAt"}
             THEN Written(file, Offset, k) ELSE file
  /\ archive' = IF at = "transfer" /\ call.kind = "GetAndGzip"
                THEN [archive EXCEPT !.bytes = k] ELSE archive
  /\ UNCHANGED <<exists, call, n, attrs, stored, before, lost, warned>>

FileNext ==
  \/ SetDataSpecs \/ OpenFile \/ OpenFileFails \/ Prepare \/ PrepareFails
  \/ \E k \in 0..MaxLen, ok \in BOOLEAN : transfer(k, ok)
  \/ gzClose \/ VerifyGzSize \/ closeFile \/ closeFileFails

---------------------------------------------------------------------------
(* Type invariant. *)
FileTypeOK ==
  /\ exists \in BOOLEAN
  /\ file \in Seq(Cells) /\ Len(file) <= MaxLen
  /\ archive \in [bytes : 0..MaxLen, footer : BOOLEAN]
  /\ handles \subseteq {"file", "jcl"}
  /\ at \in {"idle", "specs", "open", "prepare", "transfer", "gzclose", "verify", "close"}
  /\ call \in Calls /\ res \in {"none", "ok", "err", "rejected"} /\ n \in 0..MaxLen
  /\ attrs \in Specs \ {"invalid"} /\ lost \in BOOLEAN /\ warned \in BOOLEAN

Done(kind) == at = "idle" /\ call.kind = kind /\ res = "ok"
Whole(cell) == [i \in 1..Size |-> cell]
IsPrefix(f) == \A i \in 1..Len(f) : f[i] = "r"

(* A download reported as successful is on disk in full, however often it  *)
(* was attempted and whatever was there before, unless the error of the    *)
(* last close was dropped.                                                 *)
SuccessIsOnDisk ==
  ~lost =>
    /\ Done("Get") => exists /\ file = Whole(IF call.ascii THEN "a" ELSE "r")
    /\ Done("GetAndGzip") => archive = [bytes |-> Size, footer |-> TRUE]
    /\ Done("GetAt") /\ call.off = 0 => file = Whole(IF call.ascii THEN "a" ELSE "r")
    /\ Done("GetAt") => \A i \in call.off + 1..Size : file[i] = (IF call.ascii THEN "a" ELSE "r")

(* What a binary download leaves behind when it fails, or its process is   *)
(* killed, at any step, is a prefix of the remote file: GetAt can resume   *)
(* it, and when that succeeds the file is the remote file, with no rest of *)
(* an earlier attempt.                                                     *)
ResumeCompletes ==
  /\ call.kind = "Get" /\ ~call.ascii => file = before.file \/ IsPrefix(file)
  /\ (call.kind = "GetAt" /\ ~call.ascii /\ IsPrefix(before.file) /\ call.off <= Len(before.file))
       => /\ IsPrefix(file)
          /\ Done("GetAt") /\ ~lost => file = Whole("r")

(* GetAt never changes the bytes below its offset, not on failure either.  *)
BelowOffsetKept ==
  call.kind = "GetAt" =>
    \A i \in 1..Len(before.file) :
      i <= call.off => i <= Len(file) /\ file[i] = before.file[i]

(* A resume refused with ErrAsciiResumeUnsupported has neither touched the *)
(* local file nor sent SITE (the promise of GetAt and PutAt); an ASCII     *)
(* transfer never starts at an offset.                                     *)
RejectedTouchesNothing ==
  call.ascii /\ call.off > 0 =>
    before = [exists |-> exists, file |-> file, attrs |-> attrs] /\ res # "ok"

(* Every handle that Get, GetAt, GetAndGzip, Put or PutAt opened is closed *)
(* when the call returns, whichever step failed.  SubmitJCLFile leaves its *)
(* handle to the garbage collector.                                        *)
HandlesClosed == at = "idle" => "file" \notin handles

(* An upload that succeeds has sent the source from the offset to its end, *)
(* under the attributes the caller gave, unless the server's warning about *)
(* them was only logged.                                                   *)
StoredAsAsked ==
  at = "idle" /\ call.kind \in {"Put", "PutAt"} /\ res = "ok" =>
    /\ stored.from = call.off
    /\ stored.to = (IF call.off < Len(file) THEN Len(file) ELSE call.off)
    /\ call.specs # "default" /\ ~warned => stored.attrs = call.specs
=============================================================================
