--------------------------- MODULE LocalFileProofs ---------------------------
(***************************************************************************)
(* Proofs about LocalFile, for any sizes and any bounds.  The properties   *)
(* are stated of module Cli, whose processes make the calls; here are the  *)
(* invariant of the disk and of the call in progress and the steps that    *)
(* keep it.                                                                *)
(***************************************************************************)
EXTENDS LocalFile, SequenceTheorems, TLAPS

(* The files have their types; a byte that came from the remote file is at *)
(* a position that the remote file has.                                    *)
Remote(cell) == cell \in {"r", "a"}
Bounded(f) == \A j \in 1..Len(f) : Remote(f[j]) => j <= Size
Shaped ==
  /\ FileTypeOK
  /\ before \in [exists : BOOLEAN, file : Seq(Cells), attrs : Specs \ {"invalid"}]
  /\ Len(before.file) <= MaxLen
  /\ Bounded(file) /\ Bounded(before.file)

(* Which calls are where, and how they got there. *)
Positions ==
  /\ at \notin {"idle", "specs"} => call.specs # "invalid"
  /\ at = "specs" => call.specs # "default"
  /\ at # "idle" => guardResume(call)
  /\ at \in {"idle", "specs", "open"} \/ call.kind = "SubmitJCLFile" => "file" \notin handles
  /\ at \in {"gzclose", "verify"} => call.kind = "GetAndGzip"
  /\ at \in {"prepare", "transfer", "close"} /\ call.kind \in {"Get", "GetAt"} => exists
  /\ at = "prepare" => call.kind \in {"GetAt", "Put", "PutAt"}
  /\ at \in {"specs", "open", "prepare", "transfer"} => res = "none"
  /\ at = "gzclose" => res = "ok"
  /\ at \in {"transfer", "close"} \/ res = "ok" => call.off >= 0
  /\ at = "close" /\ call.kind \in {"Get", "GetAt"} => n <= Avail

(* A download starts from an empty file or at its offset, and one that has *)
(* succeeded has moved everything.                                         *)
CellOf(c) == IF c.ascii THEN "a" ELSE "r"
Moved(f, c) ==
  /\ \A j \in 1..Size : c.off < j => j <= Len(f) /\ f[j] = CellOf(c)
  /\ c.off = 0 => Len(f) = Size
Succeeded == res = "ok" /\ (at = "close" \/ (at = "idle" /\ ~lost))
Content ==
  /\ at = "transfer" /\ call.kind \in {"Get", "GetAt"} /\ call.off = 0 => file = <<>>
  /\ Succeeded /\ call.kind \in {"Get", "GetAt"} => exists /\ Moved(file, call)
  /\ Succeeded /\ call.kind = "GetAndGzip" => archive.bytes = Size /\ archive.footer
  /\ at = "gzclose" => archive.bytes = Size
  /\ at = "verify" => archive.bytes = Size /\ archive.footer

(* An upload has the attributes it asked for before it starts.             *)
Upload ==
  call.kind \notin Downloads =>
    /\ at \in {"open", "prepare", "transfer"} /\ call.specs # "default" /\ ~warned
         => attrs = call.specs
    /\ at \in {"idle", "close"} /\ res = "ok" =>
         /\ stored.from = call.off
         /\ stored.to = (IF call.off < Len(file) THEN Len(file) ELSE call.off)
         /\ call.specs # "default" /\ ~warned => stored.attrs = call.specs

(* A resume that is refused has only got as far as its guard.              *)
Untouched ==
  call.ascii /\ call.off > 0 =>
    at = "idle" /\ res # "ok" /\ before = [exists |-> exists, file |-> file, attrs |-> attrs]

(* A binary download leaves a prefix of the remote file. *)
Prefixes ==
  /\ call.kind = "Get" /\ ~call.ascii => file = before.file \/ IsPrefix(file)
  /\ call.kind = "GetAt" /\ ~call.ascii /\ IsPrefix(before.file)
       /\ call.off <= Len(before.file) => IsPrefix(file)

FileInv ==
  /\ Shaped /\ Positions /\ Content /\ Upload /\ Untouched
  /\ BelowOffsetKept /\ Prefixes

(* What processes do to the variables of LocalFile: start, advance or end  *)
(* a call, or begin with fresh memory on the disk as it is.                *)
Fresh ==
  /\ at = "idle"
  /\ call' = [kind |-> "Get", ascii |-> FALSE, off |-> 0, specs |-> "default"]
  /\ attrs' = "default"
  /\ before' = [exists |-> exists, file |-> file, attrs |-> "default"]
  /\ res' = "none" /\ n' = 0 /\ stored' = Nothing /\ lost' = FALSE /\ warned' = FALSE
  /\ UNCHANGED <<disk, handles, at>>

FileStep ==
  \/ Fresh
  \/ \E c \in Calls : Start(c)
  \/ FileNext
  \/ \E k \in 0..MaxLen : dies(k)
  \/ UNCHANGED fileVars

---------------------------------------------------------------------------
(* The sizes are numbers. *)
LEMMA SizeFacts ==
  Size \in Nat /\ MaxLen \in Nat /\ Size <= MaxLen /\ GzModulus \in Nat /\ GzModulus > 0
BY SizeAssumption, GzModulusAssumption

(* The fields of a call. *)
LEMMA CallFacts ==
  ASSUME NEW c \in Calls
  PROVE  /\ c.kind \in {"Get", "GetAt", "GetAndGzip", "SubmitJCLFile", "Put", "PutAt"}
         /\ c.off \in -1..MaxLen /\ c.off \in Int /\ c.specs \in Specs
         /\ c.kind \notin {"GetAt", "PutAt"} => c.off = 0
         /\ c.kind \notin {"Put", "PutAt"} => c.specs = "default"
<1> USE SizeFacts DEF Specs
<1>1. CASE c \in [kind : {"Get", "GetAndGzip"}, ascii : BOOLEAN, off : {0}, specs : {"default"}]
  BY <1>1
<1>2. CASE c \in [kind : {"SubmitJCLFile"}, ascii : {TRUE}, off : {0}, specs : {"default"}]
  BY <1>2
<1>3. CASE c \in [kind : {"GetAt"}, ascii : BOOLEAN, off : -1..MaxLen, specs : {"default"}]
  BY <1>3
<1>4. CASE c \in [kind : {"Put"}, ascii : BOOLEAN, off : {0}, specs : Specs]
  BY <1>4
<1>5. CASE c \in [kind : {"PutAt"}, ascii : BOOLEAN, off : -1..MaxLen, specs : Specs]
  BY <1>5
<1> QED
  BY <1>1, <1>2, <1>3, <1>4, <1>5 DEF Calls

(* What call holds before a process has made one. *)
LEMMA FirstCall ==
  [kind |-> "Get", ascii |-> FALSE, off |-> 0, specs |-> "default"] \in Calls
BY DEF Calls

(* The empty file has every shape. *)
LEMMA EmptyFile ==
  /\ <<>> \in Seq(Cells) /\ Len(<<>>) = 0 /\ Bounded(<<>>) /\ IsPrefix(<<>>)
BY DEF Bounded, IsPrefix

(* What k written cells do to a file. *)
LEMMA WrittenFacts ==
  ASSUME NEW f \in Seq(Cells), NEW off \in Nat, NEW k \in Nat, NEW w, w = Written(f, off, k)
  PROVE  /\ w \in Seq(Cells) /\ Len(f) <= Len(w)
         /\ Len(w) = Len(f) \/ (k > 0 /\ Len(w) = off + k)
         /\ k > 0 => off + k <= Len(w)
         /\ \A j \in 1..Len(w) :
              w[j] = IF j > off /\ j <= off + k THEN CellOf(call)
                     ELSE IF j <= Len(f) THEN f[j] ELSE "0"
<1> DEFINE len == IF k > 0 /\ off + k > Len(f) THEN off + k ELSE Len(f)
           cellAt(j) == IF j > off /\ j <= off + k THEN CellOf(call)
                    ELSE IF j <= Len(f) THEN f[j] ELSE "0"
<1>1. len \in Nat /\ Len(f) \in Nat /\ len >= Len(f)
  OBVIOUS
<1>2. w = [j \in 1..len |-> cellAt(j)]
  BY DEF Written, CellOf
<1>3. \A j \in 1..len : cellAt(j) \in Cells
  BY <1>1, ElementOfSeq DEF Cells, CellOf
<1> HIDE DEF cellAt
<1>4. w \in Seq(Cells) /\ Len(w) = len
  BY <1>1, <1>2, <1>3
<1>5. \A j \in 1..Len(w) : w[j] = cellAt(j)
  BY <1>2, <1>4
<1> QED
  BY <1>1, <1>4, <1>5 DEF cellAt

(* A transfer to a local file f, complete or not, which makes it w. *)
OverWritten(f, k, w) ==
  /\ w \in Seq(Cells) /\ Len(w) <= MaxLen /\ Len(f) <= Len(w) /\ Bounded(w)
  /\ Len(w) = Len(f) \/ (k > 0 /\ Len(w) = call.off + k)
  /\ k > 0 => call.off + k <= Len(w) /\ call.off + k <= Size
  /\ \A j \in 1..Len(w) :
       w[j] = IF j > call.off /\ j <= call.off + k THEN CellOf(call)
              ELSE IF j <= Len(f) THEN f[j] ELSE "0"

LEMMA Moving ==
  ASSUME call \in Calls, call.off >= 0, call.kind \in {"Get", "GetAt"},
         NEW f \in Seq(Cells), Len(f) <= MaxLen, Bounded(f),
         NEW k \in 0..MaxLen, k <= Avail, NEW w, w = Written(f, Offset, k)
  PROVE  OverWritten(f, k, w)
<1>1. Len(f) \in Nat
  OBVIOUS
<1>2. call.off \in Nat /\ k \in Nat
  BY CallFacts, SizeFacts
<1>3. k > 0 => call.off + k <= Size
  BY <1>2, SizeFacts DEF Avail, Downloads
<1>4. PICK off \in Nat : off = call.off
  BY <1>2
<1>5. w = Written(f, off, k)
  BY <1>4 DEF Offset
<1>6. /\ w \in Seq(Cells) /\ Len(f) <= Len(w)
      /\ Len(w) = Len(f) \/ (k > 0 /\ Len(w) = off + k)
      /\ k > 0 => off + k <= Len(w)
      /\ \A j \in 1..Len(w) :
           w[j] = IF j > off /\ j <= off + k THEN CellOf(call)
                  ELSE IF j <= Len(f) THEN f[j] ELSE "0"
  BY <1>2, <1>5, WrittenFacts
<1>7. Bounded(w)
  <2> SUFFICES ASSUME NEW j \in 1..Len(w), Remote(w[j]) PROVE j <= Size
    BY DEF Bounded
  <2>1. CASE j > off /\ j <= off + k
    BY <1>2, <1>3, <1>4, <2>1, SizeFacts
  <2>2. CASE ~(j > off /\ j <= off + k)
    <3>1. j <= Len(f) /\ w[j] = f[j]
      BY <1>6, <2>2 DEF Remote
    <3>2. Len(f) \in Nat /\ j \in 1..Len(f)
      BY <1>4, <3>1
    <3> QED
      BY <3>1, <3>2 DEF Bounded
  <2> QED
    BY <2>1, <2>2
<1> QED
  BY <1>1, <1>2, <1>3, <1>4, <1>6, <1>7, SizeFacts DEF OverWritten

(* What is left of a download whose last close failed. *)
LEMMA Rest ==
  ASSUME FileInv, closeFileFails, call.kind \in {"Get", "GetAt"}
  PROVE  /\ file' \in Seq(Cells) /\ Len(file') <= MaxLen /\ Bounded(file')
         /\ \A j \in 1..Len(before.file) :
              j <= call.off => j <= Len(file') /\ file'[j] = before.file[j]
         /\ ~call.ascii /\ (call.off > 0 =>
                IsPrefix(before.file) /\ call.off <= Len(before.file)) => IsPrefix(file')
<1>1. /\ call \in Calls /\ call.off >= 0 /\ n \in 0..MaxLen /\ n <= Avail
      /\ before.file \in Seq(Cells) /\ Len(before.file) <= MaxLen /\ Bounded(before.file)
  BY DEF closeFileFails, FileInv, Shaped, FileTypeOK, Positions
<1>2. call.off \in Nat /\ Avail \in Nat
  BY <1>1, CallFacts, SizeFacts DEF Avail, Downloads
<1>3. PICK k \in 0..n : file' = Written(WrittenOver, Offset, k)
  BY DEF closeFileFails
<1>4. k \in 0..MaxLen /\ k <= Avail
  BY <1>1, <1>2, SizeFacts
<1>5. /\ WrittenOver \in Seq(Cells) /\ Len(WrittenOver) <= MaxLen /\ Bounded(WrittenOver)
      /\ WrittenOver = IF call.off = 0 THEN <<>> ELSE before.file
  BY <1>1, EmptyFile, SizeFacts DEF WrittenOver
<1>6. PICK f \in Seq(Cells) : f = WrittenOver
  BY <1>5
<1>7. PICK w : w = Written(f, Offset, k) /\ Len(f) <= MaxLen /\ Bounded(f)
  BY <1>5, <1>6
<1>8. OverWritten(f, k, w)
  BY <1>1, <1>4, <1>7, Moving
<1>9. ASSUME NEW j \in 1..Len(before.file), j <= call.off
      PROVE  j <= Len(w) /\ w[j] = before.file[j]
  <2>1. f = before.file /\ j \in 1..Len(f) /\ Len(f) \in Nat /\ Len(w) \in Nat
    BY <1>2, <1>5, <1>6, <1>8, <1>9 DEF OverWritten
  <2> QED
    BY <1>2, <1>8, <1>9, <2>1 DEF OverWritten
<1>10. ASSUME ~call.ascii, call.off > 0 => IsPrefix(before.file) /\ call.off <= Len(before.file)
       PROVE  IsPrefix(w)
  <2>1. IsPrefix(f) /\ call.off <= Len(f)
    BY <1>2, <1>5, <1>6, <1>10, EmptyFile
  <2>2. Len(f) \in Nat /\ Len(w) \in Nat /\ k \in Nat
    BY <1>4, <1>6, <1>8 DEF OverWritten
  <2>3. \A j \in 1..Len(w) : w[j] = "r"
    BY <1>2, <1>8, <1>10, <2>1, <2>2 DEF CellOf, IsPrefix, OverWritten
  <2> QED
    BY <2>3 DEF IsPrefix
<1> QED
  BY <1>3, <1>6, <1>7, <1>8, <1>9, <1>10 DEF OverWritten

(* A step keeps the files in their types. *)
LEMMA ShapedStep == FileInv /\ FileStep => Shaped'
<1> SUFFICES ASSUME FileInv, FileStep PROVE Shaped'
  OBVIOUS
<1> USE SizeFacts, CallFacts, EmptyFile DEF FileInv, Shaped, FileTypeOK, Specs, disk
<1>1. ASSUME Fresh PROVE Shaped'
  <2>1. call' \in Calls /\ file' \in Seq(Cells) /\ Len(file') <= MaxLen /\ Bounded(file')
    BY <1>1, FirstCall DEF Fresh
  <2>2. n' \in 0..MaxLen /\ attrs' \in Specs \ {"invalid"}
    BY <1>1 DEF Fresh
  <2>3. FileTypeOK'
    BY <1>1, <2>1, <2>2 DEF Fresh
  <2> QED
    BY <1>1, <2>1, <2>3 DEF Fresh
<1>2. ASSUME NEW c \in Calls, Start(c) PROVE Shaped'
  <2>1. before' \in [exists : BOOLEAN, file : Seq(Cells), attrs : Specs \ {"invalid"}]
    BY <1>2 DEF Start
  <2>2. at' \in {"idle", "specs", "open"} /\ res' \in {"none", "rejected"}
    BY <1>2 DEF Start, Return
  <2>3. before'.file = file
    BY <1>2 DEF Start
  <2>4. lost' \in BOOLEAN /\ warned' \in BOOLEAN /\ exists' \in BOOLEAN
    BY <1>2 DEF Start
  <2>5. FileTypeOK'
    BY <1>2, <2>2, <2>4 DEF Start
  <2> QED
    BY <1>2, <2>1, <2>3, <2>5 DEF Start
<1>3. ASSUME SetDataSpecs PROVE Shaped'
  BY <1>3 DEF SetDataSpecs, Return
<1>4. ASSUME OpenFile PROVE Shaped'
  BY <1>4 DEF OpenFile
<1>5. ASSUME OpenFileFails PROVE Shaped'
  BY <1>5 DEF OpenFileFails, Return
<1>6. ASSUME Prepare PROVE Shaped'
  BY <1>6 DEF Prepare
<1>7. ASSUME PrepareFails PROVE Shaped'
  <2>1. file' \in {file, <<>>}
    BY <1>7 DEF PrepareFails
  <2>2. file' \in Seq(Cells) /\ Len(file') <= MaxLen /\ Bounded(file')
    <3>1. CASE file' = file
      BY <3>1
    <3>2. CASE file' = <<>>
      BY <3>2
    <3> QED
      BY <2>1, <3>1, <3>2
  <2>3. FileTypeOK'
    BY <1>7, <2>2 DEF PrepareFails, Return
  <2> QED
    BY <1>7, <2>2, <2>3 DEF PrepareFails
<1>8. ASSUME NEW k \in 0..MaxLen, NEW ok \in BOOLEAN, transfer(k, ok) PROVE Shaped'
  <2>1. PICK w : w = Written(file, Offset, k)
    OBVIOUS
  <2>2. ASSUME call.kind \in {"Get", "GetAt"}
        PROVE  OverWritten(file, k, w)
    BY <1>8, <2>1, <2>2, Moving DEF transfer, Positions
  <2>3. file' = IF call.kind \in {"Get", "GetAt"} THEN w ELSE file
    BY <1>8, <2>1 DEF transfer
  <2>4. file' \in Seq(Cells) /\ Len(file') <= MaxLen /\ Bounded(file')
    BY <2>2, <2>3 DEF OverWritten
  <2> QED
    BY <1>8, <2>4 DEF transfer, AfterTransfer
<1>9. ASSUME gzClose PROVE Shaped'
  BY <1>9 DEF gzClose
<1>10. ASSUME VerifyGzSize PROVE Shaped'
  BY <1>10 DEF VerifyGzSize
<1>11. ASSUME closeFile PROVE Shaped'
  BY <1>11 DEF closeFile
<1>12. ASSUME closeFileFails PROVE Shaped'
  <2>1. archive' = archive \/ archive' \in [bytes : 0..n, footer : {FALSE}]
    BY <1>12 DEF closeFileFails
  <2>2. archive' \in [bytes : 0..MaxLen, footer : BOOLEAN]
    <3>1. n \in 0..MaxLen /\ archive \in [bytes : 0..MaxLen, footer : BOOLEAN]
      OBVIOUS
    <3>2. \A b \in 0..n : b \in 0..MaxLen
      BY <3>1
    <3> QED
      BY <2>1, <3>1, <3>2
  <2>3. file' \in Seq(Cells) /\ Len(file') <= MaxLen /\ Bounded(file')
    BY <1>12, Rest DEF closeFileFails
  <2>4. FileTypeOK'
    BY <1>12, <2>2, <2>3 DEF closeFileFails
  <2> QED
    BY <1>12, <2>3, <2>4 DEF closeFileFails
<1>13. ASSUME NEW k \in 0..MaxLen, dies(k) PROVE Shaped'
  <2>1. PICK w : w = Written(file, Offset, k)
    OBVIOUS
  <2>2. ASSUME at = "transfer", call.kind \in {"Get", "GetAt"}
        PROVE  OverWritten(file, k, w)
    BY <1>13, <2>1, <2>2, Moving DEF dies, Positions
  <2>3. file' = IF at = "transfer" /\ call.kind \in {"Get", "GetAt"} THEN w ELSE file
    BY <1>13, <2>1 DEF dies
  <2>4. file' \in Seq(Cells) /\ Len(file') <= MaxLen /\ Bounded(file')
    BY <2>2, <2>3 DEF OverWritten
  <2> QED
    BY <1>13, <2>4 DEF dies, Return
<1>14. ASSUME UNCHANGED fileVars PROVE Shaped'
  BY <1>14 DEF fileVars
<1> QED
  BY <1>1, <1>2, <1>3, <1>4, <1>5, <1>6, <1>7, <1>8, <1>9, <1>10, <1>11, <1>12, <1>13,
     <1>14
  DEF FileStep, FileNext

(* A step leaves a call where calls of its kind go. *)
LEMMA PositionsStep == FileInv /\ FileStep => Positions'
<1> SUFFICES ASSUME FileInv, FileStep PROVE Positions'
  OBVIOUS
<1> USE CallFacts DEF FileInv, Shaped, FileTypeOK, Positions, guardResume, disk
<1>1. ASSUME Fresh PROVE Positions'
  BY <1>1 DEF Fresh, disk, Nothing
<1>2. ASSUME NEW c \in Calls, Start(c) PROVE Positions'
  BY <1>2 DEF Start, Return, guardResume
<1>3. ASSUME SetDataSpecs PROVE Positions'
  BY <1>3 DEF SetDataSpecs, Return
<1>4. ASSUME OpenFile PROVE Positions'
  <2>1. call.kind \notin {"GetAt", "PutAt"} => call.off >= 0
    OBVIOUS
  <2>2. at' = "transfer" => call.kind \notin {"GetAt", "PutAt"}
    BY <1>4 DEF OpenFile
  <2>3. at' \in {"transfer", "prepare"} /\ call' = call /\ res' = res
    BY <1>4 DEF OpenFile
  <2> QED
    BY <1>4, <2>1, <2>2, <2>3 DEF OpenFile
<1>5. ASSUME OpenFileFails PROVE Positions'
  BY <1>5 DEF OpenFileFails, Return
<1>6. ASSUME Prepare PROVE Positions'
  BY <1>6 DEF Prepare
<1>7. ASSUME PrepareFails PROVE Positions'
  BY <1>7 DEF PrepareFails, Return
<1>8. ASSUME NEW k \in 0..MaxLen, NEW ok \in BOOLEAN, transfer(k, ok) PROVE Positions'
  <2>1. n' <= Avail /\ call' = call
    BY <1>8 DEF transfer
  <2>2. call.kind \in {"Get", "GetAt"} => Avail' = Avail
    BY <2>1 DEF Avail, Downloads
  <2>3. call.off >= 0
    BY <1>8 DEF transfer
  <2>4. at' = "close" /\ call'.kind \in {"Get", "GetAt"} => n' <= Avail'
    BY <2>1, <2>2
  <2> QED
    BY <1>8, <2>1, <2>3, <2>4 DEF transfer, AfterTransfer
<1>9. ASSUME gzClose PROVE Positions'
  BY <1>9 DEF gzClose
<1>10. ASSUME VerifyGzSize PROVE Positions'
  BY <1>10 DEF VerifyGzSize
<1>11. ASSUME closeFile PROVE Positions'
  BY <1>11 DEF closeFile
<1>12. ASSUME closeFileFails PROVE Positions'
  BY <1>12 DEF closeFileFails
<1>13. ASSUME NEW k \in 0..MaxLen, dies(k) PROVE Positions'
  BY <1>13 DEF dies, Return
<1>14. ASSUME UNCHANGED fileVars PROVE Positions'
  BY <1>14 DEF fileVars, Avail, Downloads
<1> QED
  BY <1>1, <1>2, <1>3, <1>4, <1>5, <1>6, <1>7, <1>8, <1>9, <1>10, <1>11, <1>12, <1>13,
     <1>14
  DEF FileStep, FileNext

(* A download that succeeds has moved everything. *)
LEMMA ContentTransfer ==
  ASSUME FileInv, NEW k \in 0..MaxLen, NEW ok \in BOOLEAN, transfer(k, ok)
  PROVE  Content'
<1>1. /\ call \in Calls /\ file \in Seq(Cells) /\ Shaped /\ at = "transfer" /\ k <= Avail
      /\ call' = call /\ exists' = exists /\ at' = AfterTransfer(ok)
      /\ res' = (IF ok THEN "ok" ELSE "err") /\ (ok => k = Avail)
  BY DEF FileInv, Shaped, FileTypeOK, transfer
<1>2. call.off \in Nat /\ (call.kind \in {"Get", "GetAndGzip"} => call.off = 0) /\ k \in Nat
  <2>1. call.off >= 0
    BY <1>1 DEF FileInv, Positions
  <2> QED
    BY <1>1, <2>1, CallFacts, SizeFacts
<1>3. ASSUME ok, call.kind \in Downloads
      PROVE  k = IF call.off < Size THEN Size - call.off ELSE 0
  BY <1>1, <1>3 DEF Avail
<1>4. ASSUME ok, call.kind \in {"Get", "GetAt"} PROVE exists /\ Moved(file', call)
  <2>1. PICK w : w = Written(file, Offset, k)
    OBVIOUS
  <2>2. OverWritten(file, k, w)
    BY <1>1, <1>2, <1>4, <2>1, Moving DEF Shaped, FileTypeOK
  <2>3. k = (IF call.off < Size THEN Size - call.off ELSE 0) /\ Size \in Nat
    BY <1>3, <1>4, SizeFacts DEF Downloads
  <2>4. PICK m \in Nat : m = Len(w)
    BY <2>2 DEF OverWritten
  <2>5. \A j \in 1..Size : call.off < j => j <= m /\ w[j] = CellOf(call)
    BY <1>2, <2>2, <2>3, <2>4 DEF OverWritten
  <2>6. ASSUME call.off = 0 PROVE m = Size
    <3>1. Len(file) = 0
      BY <1>1, <1>4, <2>6 DEF FileInv, Content
    <3> QED
      BY <2>2, <2>3, <2>4, <2>6, <3>1 DEF OverWritten
  <2>7. Moved(w, call)
    BY <2>4, <2>5, <2>6 DEF Moved
  <2>8. file' = w
    BY <1>4, <2>1 DEF transfer
  <2>9. exists
    BY <1>1, <1>4 DEF FileInv, Positions
  <2> QED
    BY <2>7, <2>8, <2>9
<1>5. ASSUME ok, call.kind = "GetAndGzip" PROVE archive'.bytes = Size
  <2>1. /\ archive' = [archive EXCEPT !.bytes = k]
        /\ archive \in [bytes : 0..MaxLen, footer : BOOLEAN]
    BY <1>5 DEF transfer, FileInv, Shaped, FileTypeOK
  <2>2. k = Size
    BY <1>2, <1>3, <1>5, SizeFacts DEF Downloads
  <2> QED
    BY <2>1, <2>2
<1>6. at' \in {"idle", "gzclose", "close"} /\ (at' = "idle" => call.kind = "SubmitJCLFile")
  BY <1>1 DEF AfterTransfer
<1>7. at' = "gzclose" => ok /\ call.kind = "GetAndGzip"
  BY <1>1 DEF AfterTransfer
<1>8. ok /\ call.kind = "GetAndGzip" => at' = "gzclose"
  BY <1>1 DEF AfterTransfer
<1> QED
  BY <1>1, <1>4, <1>5, <1>6, <1>7, <1>8 DEF Content, Succeeded

(* A step keeps what is on disk and what is reported together. *)
LEMMA ContentStep == FileInv /\ FileStep => Content'
<1> SUFFICES ASSUME FileInv, FileStep PROVE Content'
  OBVIOUS
<1> USE CallFacts, SizeFacts
    DEF FileInv, Shaped, FileTypeOK, Positions, Content, Succeeded, disk
<1>1. ASSUME Fresh PROVE Content'
  BY <1>1 DEF Fresh, disk, Nothing
<1>2. ASSUME NEW c \in Calls, Start(c) PROVE Content'
  BY <1>2 DEF Start, Return, guardResume
<1>3. ASSUME SetDataSpecs PROVE Content'
  BY <1>3 DEF SetDataSpecs, Return
<1>4. ASSUME OpenFile PROVE Content'
  BY <1>4 DEF OpenFile
<1>5. ASSUME OpenFileFails PROVE Content'
  BY <1>5 DEF OpenFileFails, Return
<1>6. ASSUME Prepare PROVE Content'
  BY <1>6 DEF Prepare
<1>7. ASSUME PrepareFails PROVE Content'
  BY <1>7 DEF PrepareFails, Return
<1>8. ASSUME NEW k \in 0..MaxLen, NEW ok \in BOOLEAN, transfer(k, ok) PROVE Content'
  BY <1>8, ContentTransfer
<1>9. ASSUME gzClose PROVE Content'
  BY <1>9 DEF gzClose
<1>10. ASSUME VerifyGzSize PROVE Content'
  BY <1>10 DEF VerifyGzSize
<1>11. ASSUME closeFile PROVE Content'
  BY <1>11 DEF closeFile
<1>12. ASSUME closeFileFails PROVE Content'
  BY <1>12 DEF closeFileFails
<1>13. ASSUME NEW k \in 0..MaxLen, dies(k) PROVE Content'
  BY <1>13 DEF dies, Return
<1>14. ASSUME UNCHANGED fileVars PROVE Content'
  BY <1>14 DEF fileVars
<1> QED
  BY <1>1, <1>2, <1>3, <1>4, <1>5, <1>6, <1>7, <1>8, <1>9, <1>10, <1>11, <1>12, <1>13,
     <1>14
  DEF FileStep, FileNext

(* A step keeps what was stored and what is reported together. *)
LEMMA UploadStep == FileInv /\ FileStep => Upload'
<1> SUFFICES ASSUME FileInv, FileStep PROVE Upload'
  OBVIOUS
<1> USE CallFacts, SizeFacts DEF FileInv, Shaped, FileTypeOK, Positions, Upload, Downloads, disk
<1>1. ASSUME Fresh PROVE Upload'
  BY <1>1 DEF Fresh, disk, Nothing
<1>2. ASSUME NEW c \in Calls, Start(c) PROVE Upload'
  BY <1>2 DEF Start, Return, guardResume
<1>3. ASSUME SetDataSpecs PROVE Upload'
  BY <1>3 DEF SetDataSpecs, Return
<1>4. ASSUME OpenFile PROVE Upload'
  BY <1>4 DEF OpenFile
<1>5. ASSUME OpenFileFails PROVE Upload'
  BY <1>5 DEF OpenFileFails, Return
<1>6. ASSUME Prepare PROVE Upload'
  BY <1>6 DEF Prepare
<1>7. ASSUME PrepareFails PROVE Upload'
  BY <1>7 DEF PrepareFails, Return
<1>8. ASSUME NEW k \in 0..MaxLen, NEW ok \in BOOLEAN, transfer(k, ok) PROVE Upload'
  <2> SUFFICES ASSUME call.kind \notin Downloads PROVE Upload'
    BY <1>8 DEF transfer
  <2>1. /\ call' = call /\ file' = file /\ warned' = warned /\ at' \in {"idle", "close"}
        /\ stored' = [from |-> Offset, to |-> Offset + k, attrs |-> attrs]
    BY <1>8 DEF transfer, AfterTransfer, Downloads
  <2>2. res' = "ok" => k = Avail
    BY <1>8 DEF transfer
  <2>3. call.specs # "default" /\ ~warned => attrs = call.specs
    BY <1>8 DEF transfer
  <2>4. call.off \in Nat /\ Len(file) \in Nat
    BY <1>8 DEF transfer
  <2> QED
    BY <2>1, <2>2, <2>3, <2>4 DEF Offset, Avail, Downloads
<1>9. ASSUME gzClose PROVE Upload'
  BY <1>9 DEF gzClose
<1>10. ASSUME VerifyGzSize PROVE Upload'
  BY <1>10 DEF VerifyGzSize
<1>11. ASSUME closeFile PROVE Upload'
  BY <1>11 DEF closeFile
<1>12. ASSUME closeFileFails PROVE Upload'
  BY <1>12 DEF closeFileFails
<1>13. ASSUME NEW k \in 0..MaxLen, dies(k) PROVE Upload'
  BY <1>13 DEF dies, Return
<1>14. ASSUME UNCHANGED fileVars PROVE Upload'
  BY <1>14 DEF fileVars
<1> QED
  BY <1>1, <1>2, <1>3, <1>4, <1>5, <1>6, <1>7, <1>8, <1>9, <1>10, <1>11, <1>12, <1>13,
     <1>14
  DEF FileStep, FileNext

(* A refused resume stays without effect. *)
LEMMA UntouchedStep == FileInv /\ FileStep => Untouched'
<1> SUFFICES ASSUME FileInv, FileStep PROVE Untouched'
  OBVIOUS
<1> USE CallFacts DEF FileInv, Shaped, FileTypeOK, Positions, Untouched, guardResume, disk
<1>1. ASSUME Fresh PROVE Untouched'
  BY <1>1 DEF Fresh, disk, Nothing
<1>2. ASSUME NEW c \in Calls, Start(c) PROVE Untouched'
  BY <1>2 DEF Start, Return, guardResume
<1>3. ASSUME SetDataSpecs PROVE Untouched'
  BY <1>3 DEF SetDataSpecs, Return
<1>4. ASSUME OpenFile PROVE Untouched'
  BY <1>4 DEF OpenFile
<1>5. ASSUME OpenFileFails PROVE Untouched'
  BY <1>5 DEF OpenFileFails, Return
<1>6. ASSUME Prepare PROVE Untouched'
  BY <1>6 DEF Prepare
<1>7. ASSUME PrepareFails PROVE Untouched'
  BY <1>7 DEF PrepareFails, Return
<1>8. ASSUME NEW k \in 0..MaxLen, NEW ok \in BOOLEAN, transfer(k, ok) PROVE Untouched'
  BY <1>8 DEF transfer, AfterTransfer
<1>9. ASSUME gzClose PROVE Untouched'
  BY <1>9 DEF gzClose
<1>10. ASSUME VerifyGzSize PROVE Untouched'
  BY <1>10 DEF VerifyGzSize
<1>11. ASSUME closeFile PROVE Untouched'
  BY <1>11 DEF closeFile
<1>12. ASSUME closeFileFails PROVE Untouched'
  BY <1>12 DEF closeFileFails
<1>13. ASSUME NEW k \in 0..MaxLen, dies(k) PROVE Untouched'
  BY <1>13 DEF dies, Return
<1>14. ASSUME UNCHANGED fileVars PROVE Untouched'
  BY <1>14 DEF fileVars
<1> QED
  BY <1>1, <1>2, <1>3, <1>4, <1>5, <1>6, <1>7, <1>8, <1>9, <1>10, <1>11, <1>12, <1>13,
     <1>14
  DEF FileStep, FileNext

(* A step keeps the bytes below the offset. *)
LEMMA BelowStep == FileInv /\ FileStep => BelowOffsetKept'
<1> SUFFICES ASSUME FileInv, FileStep PROVE BelowOffsetKept'
  OBVIOUS
<1> USE CallFacts, SizeFacts DEF FileInv, Shaped, FileTypeOK, BelowOffsetKept, disk
<1>1. ASSUME Fresh PROVE BelowOffsetKept'
  BY <1>1 DEF Fresh, disk, Nothing
<1>2. ASSUME NEW c \in Calls, Start(c) PROVE BelowOffsetKept'
  BY <1>2 DEF Start, Return, guardResume
<1>3. ASSUME SetDataSpecs PROVE BelowOffsetKept'
  BY <1>3 DEF SetDataSpecs, Return
<1>4. ASSUME OpenFile PROVE BelowOffsetKept'
  BY <1>4 DEF OpenFile
<1>5. ASSUME OpenFileFails PROVE BelowOffsetKept'
  BY <1>5 DEF OpenFileFails, Return
<1>6. ASSUME Prepare PROVE BelowOffsetKept'
  BY <1>6 DEF Prepare
<1>7. ASSUME PrepareFails PROVE BelowOffsetKept'
  BY <1>7 DEF PrepareFails, Return
<1>8. ASSUME NEW k \in 0..MaxLen, NEW ok \in BOOLEAN, transfer(k, ok) PROVE BelowOffsetKept'
  <2>1. PICK w : w = Written(file, Offset, k)
    OBVIOUS
  <2>2. ASSUME call.kind \in {"Get", "GetAt"}
        PROVE  OverWritten(file, k, w)
    BY <1>8, <2>1, <2>2, Moving DEF transfer, Positions
  <2>3. file' = IF call.kind \in {"Get", "GetAt"} THEN w ELSE file
    BY <1>8, <2>1 DEF transfer
  <2>4. call' = call /\ before' = before /\ call.off \in Nat /\ Len(file) \in Nat
    BY <1>8 DEF transfer, Positions
  <2> SUFFICES ASSUME call.kind = "GetAt", NEW j \in 1..Len(before.file), j <= call.off
               PROVE  j <= Len(file') /\ file'[j] = before.file[j]
    BY <2>4
  <2>5. j <= Len(file) /\ file[j] = before.file[j] /\ j \in Nat /\ j >= 1
    OBVIOUS
  <2> QED
    BY <2>2, <2>3, <2>4, <2>5 DEF OverWritten
<1>9. ASSUME gzClose PROVE BelowOffsetKept'
  BY <1>9 DEF gzClose
<1>10. ASSUME VerifyGzSize PROVE BelowOffsetKept'
  BY <1>10 DEF VerifyGzSize
<1>11. ASSUME closeFile PROVE BelowOffsetKept'
  BY <1>11 DEF closeFile
<1>12. ASSUME closeFileFails PROVE BelowOffsetKept'
  <2>1. call' = call /\ before' = before
    BY <1>12 DEF closeFileFails
  <2> SUFFICES ASSUME call.kind = "GetAt", NEW j \in 1..Len(before.file), j <= call.off
               PROVE  j <= Len(file') /\ file'[j] = before.file[j]
    BY <2>1
  <2> QED
    BY <1>12, Rest
<1>13. ASSUME NEW k \in 0..MaxLen, dies(k) PROVE BelowOffsetKept'
  <2>1. PICK w : w = Written(file, Offset, k)
    OBVIOUS
  <2>2. ASSUME at = "transfer", call.kind \in {"Get", "GetAt"}
        PROVE  OverWritten(file, k, w)
    BY <1>13, <2>1, <2>2, Moving DEF dies, Positions
  <2>3. file' = IF at = "transfer" /\ call.kind \in {"Get", "GetAt"} THEN w ELSE file
    BY <1>13, <2>1 DEF dies
  <2>4. call' = call /\ before' = before /\ Len(file) \in Nat
          /\ (at = "transfer" => call.off \in Nat)
    BY <1>13 DEF dies, Positions
  <2> SUFFICES ASSUME call.kind = "GetAt", NEW j \in 1..Len(before.file), j <= call.off
               PROVE  j <= Len(file') /\ file'[j] = before.file[j]
    BY <2>4
  <2>5. j <= Len(file) /\ file[j] = before.file[j] /\ j \in Nat /\ j >= 1
    OBVIOUS
  <2> QED
    BY <2>2, <2>3, <2>4, <2>5 DEF OverWritten
<1>14. ASSUME UNCHANGED fileVars PROVE BelowOffsetKept'
  BY <1>14 DEF fileVars
<1> QED
  BY <1>1, <1>2, <1>3, <1>4, <1>5, <1>6, <1>7, <1>8, <1>9, <1>10, <1>11, <1>12, <1>13,
     <1>14
  DEF FileStep, FileNext

(* A step leaves a prefix of the remote file. *)
LEMMA PrefixesStep == FileInv /\ FileStep => Prefixes'
<1> SUFFICES ASSUME FileInv, FileStep PROVE Prefixes'
  OBVIOUS
<1> USE CallFacts, SizeFacts, EmptyFile
    DEF FileInv, Shaped, FileTypeOK, Content, Prefixes, IsPrefix, disk
<1>1. ASSUME Fresh PROVE Prefixes'
  BY <1>1 DEF Fresh, disk, Nothing
<1>2. ASSUME NEW c \in Calls, Start(c) PROVE Prefixes'
  BY <1>2 DEF Start, Return, guardResume
<1>3. ASSUME SetDataSpecs PROVE Prefixes'
  BY <1>3 DEF SetDataSpecs, Return
<1>4. ASSUME OpenFile PROVE Prefixes'
  BY <1>4 DEF OpenFile
<1>5. ASSUME OpenFileFails PROVE Prefixes'
  BY <1>5 DEF OpenFileFails, Return
<1>6. ASSUME Prepare PROVE Prefixes'
  BY <1>6 DEF Prepare
<1>7. ASSUME PrepareFails PROVE Prefixes'
  BY <1>7 DEF PrepareFails, Return
<1>8. ASSUME NEW k \in 0..MaxLen, NEW ok \in BOOLEAN, transfer(k, ok) PROVE Prefixes'
  <2>1. PICK w : w = Written(file, Offset, k)
    OBVIOUS
  <2>2. ASSUME call.kind \in {"Get", "GetAt"}
        PROVE  OverWritten(file, k, w)
    BY <1>8, <2>1, <2>2, Moving DEF transfer, Positions
  <2>3. file' = IF call.kind \in {"Get", "GetAt"} THEN w ELSE file
    BY <1>8, <2>1 DEF transfer
  <2>4. call' = call /\ before' = before /\ call.off \in Nat /\ Len(file) \in Nat
    BY <1>8 DEF transfer, Positions
  <2>5. ASSUME call.kind = "Get", ~call.ascii PROVE IsPrefix(w)
    <3>1. file = <<>> /\ call.off = 0
      BY <1>8, <2>5 DEF transfer
    <3>2. \A j \in 1..Len(w) : w[j] = CellOf(call)
      BY <2>2, <2>5, <3>1 DEF OverWritten
    <3> QED
      BY <2>5, <3>2 DEF CellOf
  <2>6. ASSUME call.kind = "GetAt", ~call.ascii, IsPrefix(before.file),
               call.off <= Len(before.file)
        PROVE  IsPrefix(w)
    <3>1. IsPrefix(file)
      BY <2>6
    <3>2. call.off <= Len(file)
      BY <2>4, <2>6 DEF BelowOffsetKept
    <3>3. \A j \in 1..Len(w) : w[j] = "r"
      BY <2>2, <2>4, <2>6, <3>1, <3>2 DEF CellOf, OverWritten
    <3> QED
      BY <3>3
  <2> QED
    BY <2>3, <2>4, <2>5, <2>6
<1>9. ASSUME gzClose PROVE Prefixes'
  BY <1>9 DEF gzClose
<1>10. ASSUME VerifyGzSize PROVE Prefixes'
  BY <1>10 DEF VerifyGzSize
<1>11. ASSUME closeFile PROVE Prefixes'
  BY <1>11 DEF closeFile
<1>12. ASSUME closeFileFails PROVE Prefixes'
  <2>1. call' = call /\ before' = before
    BY <1>12 DEF closeFileFails
  <2> SUFFICES ASSUME call.kind \in {"Get", "GetAt"}, ~call.ascii,
                      call.off > 0 => IsPrefix(before.file) /\ call.off <= Len(before.file)
               PROVE  IsPrefix(file')
    BY <2>1
  <2> QED
    BY <1>12, Rest
<1>13. ASSUME NEW k \in 0..MaxLen, dies(k) PROVE Prefixes'
  <2>1. PICK w : w = Written(file, Offset, k)
    OBVIOUS
  <2>2. ASSUME at = "transfer", call.kind \in {"Get", "GetAt"}
        PROVE  OverWritten(file, k, w)
    BY <1>13, <2>1, <2>2, Moving DEF dies, Positions
  <2>3. file' = IF at = "transfer" /\ call.kind \in {"Get", "GetAt"} THEN w ELSE file
    BY <1>13, <2>1 DEF dies
  <2>4. call' = call /\ before' = before /\ Len(file) \in Nat
          /\ (at = "transfer" => call.off \in Nat)
    BY <1>13 DEF dies, Positions
  <2>5. ASSUME at = "transfer", call.kind = "Get", ~call.ascii PROVE IsPrefix(w)
    <3>1. file = <<>> /\ call.off = 0
      BY <1>13, <2>5 DEF dies
    <3>2. \A j \in 1..Len(w) : w[j] = CellOf(call)
      BY <2>2, <2>5, <3>1 DEF OverWritten
    <3> QED
      BY <2>5, <3>2 DEF CellOf
  <2>6. ASSUME at = "transfer", call.kind = "GetAt", ~call.ascii, IsPrefix(before.file),
               call.off <= Len(before.file)
        PROVE  IsPrefix(w)
    <3>1. IsPrefix(file)
      BY <2>6
    <3>2. call.off <= Len(file)
      BY <2>4, <2>6 DEF BelowOffsetKept
    <3>3. \A j \in 1..Len(w) : w[j] = "r"
      BY <2>2, <2>4, <2>6, <3>1, <3>2 DEF CellOf, OverWritten
    <3> QED
      BY <3>3
  <2> QED
    BY <2>3, <2>4, <2>5, <2>6
<1>14. ASSUME UNCHANGED fileVars PROVE Prefixes'
  BY <1>14 DEF fileVars
<1> QED
  BY <1>1, <1>2, <1>3, <1>4, <1>5, <1>6, <1>7, <1>8, <1>9, <1>10, <1>11, <1>12, <1>13,
     <1>14
  DEF FileStep, FileNext

(* The first state of the disk, and every step. *)
LEMMA InitFile == FileInit => FileInv
<1> SUFFICES ASSUME FileInit PROVE FileInv
  OBVIOUS
<1> USE SizeFacts, FirstCall, EmptyFile DEF FileInit
<1>1. file \in Seq(Cells) /\ Len(file) <= MaxLen /\ Bounded(file)
  <2>1. CASE file = <<>>
    BY <2>1
  <2>2. ASSUME NEW k \in 0..MaxLen, file = [j \in 1..k |-> "x"]
        PROVE  file \in Seq(Cells) /\ Len(file) <= MaxLen /\ Bounded(file)
    BY <2>2 DEF Cells, Bounded, Remote
  <2> QED
    BY <2>1, <2>2
<1>2. exists \in BOOLEAN
  OBVIOUS
<1>3. FileTypeOK
  <2>1. lost \in BOOLEAN /\ warned \in BOOLEAN
    OBVIOUS
  <2>2. archive \in [bytes : 0..MaxLen, footer : BOOLEAN]
    OBVIOUS
  <2> QED
    BY <1>1, <1>2, <2>1, <2>2 DEF FileTypeOK, Specs
<1>4. before = [exists |-> exists, file |-> file, attrs |-> "default"]
  OBVIOUS
<1>5. before \in [exists : BOOLEAN, file : Seq(Cells), attrs : Specs \ {"invalid"}]
  BY <1>1, <1>2, <1>4 DEF Specs
<1>6. Shaped
  BY <1>1, <1>3, <1>4, <1>5 DEF Shaped
<1>7. Positions /\ Content /\ Upload /\ Untouched
  BY DEF Positions, Content, Succeeded, Upload, Untouched
<1>8. BelowOffsetKept /\ Prefixes
  BY DEF BelowOffsetKept, Prefixes
<1> QED
  BY <1>6, <1>7, <1>8 DEF FileInv

(* Every step keeps the invariant. *)
LEMMA FileInvStep == FileInv /\ FileStep => FileInv'
BY ShapedStep, PositionsStep, ContentStep, UploadStep, UntouchedStep, BelowStep, PrefixesStep
DEF FileInv

---------------------------------------------------------------------------
(* What the invariant says of the calls that are over. *)

(* A file is determined by its length and its cells. *)
LEMMA IsWhole ==
  ASSUME NEW f \in Seq(Cells), NEW cell \in Cells, Len(f) = Size,
         \A j \in 1..Size : f[j] = cell
  PROVE  f = Whole(cell)
BY SizeFacts DEF Whole

(* The cell that a call writes. *)
LEMMA CellOfFacts ==
  ASSUME NEW c
  PROVE  CellOf(c) = (IF c.ascii THEN "a" ELSE "r") /\ CellOf(c) \in Cells
BY DEF CellOf, Cells

(* A download that is over, and was closed without error, has moved         *)
(* everything.                                                             *)
LEMMA DoneIsMoved ==
  ASSUME FileInv, ~lost, at = "idle", res = "ok", call.kind \in {"Get", "GetAt"}
  PROVE  /\ exists /\ file \in Seq(Cells) /\ call \in Calls
         /\ \A j \in 1..Size : call.off < j => j <= Len(file) /\ file[j] = CellOf(call)
         /\ call.off = 0 => file = Whole(CellOf(call))
<1>1. exists /\ Moved(file, call)
  BY DEF FileInv, Content, Succeeded
<1>2. file \in Seq(Cells) /\ call \in Calls
  BY DEF FileInv, Shaped, FileTypeOK
<1>3. ASSUME call.off = 0 PROVE file = Whole(CellOf(call))
  <2>1. Len(file) = Size /\ \A j \in 1..Size : file[j] = CellOf(call)
    BY <1>1, <1>3 DEF Moved
  <2>2. PICK cell \in Cells : cell = CellOf(call)
    BY CellOfFacts
  <2> QED
    BY <1>2, <2>1, <2>2, IsWhole
<1> QED
  BY <1>1, <1>2, <1>3 DEF Moved

(* A successful download is on disk. *)
LEMMA OnDisk == FileInv => SuccessIsOnDisk
<1> SUFFICES ASSUME FileInv, ~lost PROVE SuccessIsOnDisk
  BY DEF SuccessIsOnDisk
<1>1. ASSUME Done("Get") PROVE exists /\ file = Whole(IF call.ascii THEN "a" ELSE "r")
  BY <1>1, DoneIsMoved, CallFacts, CellOfFacts DEF Done
<1>2. ASSUME Done("GetAndGzip") PROVE archive = [bytes |-> Size, footer |-> TRUE]
  BY <1>2 DEF Done, FileInv, Content, Succeeded, Shaped, FileTypeOK
<1>3. ASSUME Done("GetAt"), call.off = 0 PROVE file = Whole(IF call.ascii THEN "a" ELSE "r")
  BY <1>3, DoneIsMoved, CellOfFacts DEF Done
<1>4. ASSUME Done("GetAt"), NEW j \in call.off + 1..Size
      PROVE  file[j] = (IF call.ascii THEN "a" ELSE "r")
  <2>1. call.off \in Nat
    BY <1>4, CallFacts DEF Done, FileInv, Shaped, FileTypeOK, Positions
  <2>2. j \in 1..Size /\ call.off < j
    BY <1>4, <2>1, SizeFacts
  <2> QED
    BY <1>4, <2>2, DoneIsMoved, CellOfFacts DEF Done
<1> QED
  BY <1>1, <1>2, <1>3, <1>4 DEF SuccessIsOnDisk

(* A resume completes the remote file: it has kept the prefix below its    *)
(* offset, and no byte lies beyond the remote file's end.                  *)
LEMMA Resumes == FileInv => ResumeCompletes
<1> SUFFICES ASSUME FileInv PROVE ResumeCompletes
  OBVIOUS
<1>1. ASSUME call.kind = "GetAt", ~call.ascii, IsPrefix(before.file),
             call.off <= Len(before.file), Done("GetAt"), ~lost
      PROVE  file = Whole("r")
  <2>1. /\ file \in Seq(Cells) /\ before.file \in Seq(Cells) /\ call.off \in Nat
        /\ Bounded(file) /\ Bounded(before.file)
    BY <1>1, CallFacts DEF Done, FileInv, Shaped, FileTypeOK, Positions
  <2>2. \A j \in 1..Size : call.off < j => j <= Len(file) /\ file[j] = "r"
    BY <1>1, DoneIsMoved DEF Done, CellOf
  <2>3. IsPrefix(file)
    BY <1>1 DEF FileInv, Prefixes
  <2>4. Len(file) <= Size /\ Len(before.file) <= Size
    BY <1>1, <2>1, <2>3, SizeFacts DEF IsPrefix, Bounded, Remote
  <2>5. call.off <= Len(file)
    BY <1>1, <2>1 DEF FileInv, BelowOffsetKept
  <2>6. Len(file) = Size
    BY <1>1, <2>1, <2>2, <2>4, <2>5, SizeFacts
  <2>7. "r" \in Cells
    BY DEF Cells
  <2> QED
    BY <2>1, <2>3, <2>6, <2>7, IsWhole DEF IsPrefix
<1> QED
  BY <1>1 DEF FileInv, Prefixes, ResumeCompletes
=============================================================================
