------------------------- MODULE ReplyReaderProofs -------------------------
(***************************************************************************)
(* Framing of replies, for any set of codes and replies of any length.     *)
(***************************************************************************)
EXTENDS ReplyReader, TLAPS

(* The inductive invariant: Framed alone says nothing of the middle of a   *)
(* reply, Together does.                                                   *)
FInv == TypeOK /\ Framed /\ Together

(* A new session's reader satisfies it. *)
LEMMA InitFInv == Init => FInv
<1> SUFFICES ASSUME Init PROVE FInv
  OBVIOUS
<1>1. TypeOK
  BY DEF Init, TypeOK
<1>2. Framed
  BY DEF Init, Framed
<1>3. Together
  BY DEF Init, Together
<1> QED
  BY <1>1, <1>2, <1>3 DEF FInv

(* A piece is what Pieces says. *)
LEMMA PieceFacts ==
  ASSUME NEW p \in Pieces
  PROVE  /\ p.code \in Codes \cup {NoCode}
         /\ p.sep \in {" ", "-", "other"}
         /\ p.isPrefix \in BOOLEAN
BY DEF Pieces

(* The reader's half of the step: if the piece ends the loop exactly when  *)
(* it ends the reply, reader and server stay together.                     *)
LEMMA TakeStep ==
  ASSUME FInv, NEW p \in Pieces, Take(p),
         NEW o, o = IF opening = NoCode THEN p.code ELSE opening,
         reply' \in Codes \cup {NoCode}, pieces' \in Nat, rest' \in {"no", "inner"},
         EndsReply(p, o) <=> reply' = NoCode,
         msg' = pieces',
         reply' = NoCode => rest' = "no",
         reply' # NoCode => o = reply'
  PROVE FInv'
<1>1. /\ out = "reading" /\ opening' = o /\ msg' = msg + 1 /\ expect' = expect
      /\ ~EndsReply(p, o) => out' = "reading"
      /\ EndsReply(p, o) => out' = IF o = expect THEN "ok" ELSE "ReturnError"
  BY DEF Take
<1>2. opening' \in Codes \cup {NoCode}
  BY <1>1, PieceFacts DEF FInv, TypeOK
<1>3. msg' \in Nat /\ expect' \in Codes
  BY <1>1 DEF FInv, TypeOK
<1>4. out' \in {"reading", "ok", "ReturnError"}
  BY <1>1
<1>5. Framed'
  BY <1>1, <1>4 DEF Framed
<1>6. Together'
  BY <1>1, <1>4, Zenon DEF Together
<1> QED
  BY <1>2, <1>3, <1>4, <1>5, <1>6 DEF FInv, TypeOK

(* A line that is sent: no line that ends a reply is left in the middle.   *)
LEMMA LineFacts ==
  ASSUME ~LongEnds, NEW p \in Pieces, NEW code \in Codes, NEW ends \in BOOLEAN,
         SendLine(p, code, ends)
  PROVE  /\ reply' = IF ends THEN NoCode ELSE code
         /\ reply' \in Codes \cup {NoCode}
         /\ rest' \in {"no", "inner"}
         /\ reply' = NoCode => rest' = "no"
         /\ ends => ~p.isPrefix
BY PieceFacts, NoCodeAssumption DEF SendLine

(* Taking the first line of a reply. *)
LEMMA FirstStep ==
  ASSUME ~LongEnds, FInv, NEW p \in Pieces, SendFirst(p), Take(p)
  PROVE FInv'
<1> DEFINE o == IF opening = NoCode THEN p.code ELSE opening
<1>1. opening = NoCode /\ msg = 0 /\ o = p.code /\ p.code \in Codes
  BY PieceFacts DEF FInv, Together, SendFirst, Take
<1>2. /\ reply' = IF p.sep = " " THEN NoCode ELSE p.code
      /\ reply' \in Codes \cup {NoCode} /\ rest' \in {"no", "inner"}
      /\ reply' = NoCode => rest' = "no"
      /\ p.sep = " " => ~p.isPrefix
  <2>1. (p.sep = " ") \in BOOLEAN
    OBVIOUS
  <2> QED
    BY <1>1, <2>1, LineFacts DEF SendFirst
<1>3. EndsReply(p, o) <=> reply' = NoCode
  BY <1>1, <1>2, NoCodeAssumption DEF EndsReply
<1>4. msg' = pieces' /\ pieces' \in Nat
  <2>1. msg' = msg + 1
    BY DEF Take
  <2>2. pieces' = 1
    BY DEF SendFirst
  <2> QED
    BY <1>1, <2>1, <2>2
<1>5. reply' # NoCode => o = reply'
  BY <1>1, <1>2
<1> QED
  BY <1>2, <1>3, <1>4, <1>5, TakeStep

(* Taking a line inside a reply: it ends the loop exactly if it ends the   *)
(* reply.                                                                  *)
LEMMA InnerStep ==
  ASSUME ~LongEnds, FInv, NEW p \in Pieces, SendInner(p), Take(p)
  PROVE FInv'
<1> DEFINE o == IF opening = NoCode THEN p.code ELSE opening
<1>1. opening = reply /\ o = reply /\ msg = pieces /\ reply \in Codes
  BY DEF FInv, TypeOK, Together, SendInner, Take
<1>2. /\ reply' = IF Terminates(p, reply) THEN NoCode ELSE reply
      /\ reply' \in Codes \cup {NoCode} /\ rest' \in {"no", "inner"}
      /\ reply' = NoCode => rest' = "no"
      /\ Terminates(p, reply) => ~p.isPrefix
  <2>1. Terminates(p, reply) \in BOOLEAN
    BY DEF Terminates
  <2> QED
    BY <1>1, <2>1, LineFacts DEF SendInner
<1>3. EndsReply(p, o) <=> reply' = NoCode
  BY <1>1, <1>2, NoCodeAssumption DEF EndsReply, Terminates
<1>4. msg' = pieces' /\ pieces' \in Nat
  BY <1>1 DEF SendInner, Take, FInv, TypeOK
<1>5. reply' # NoCode => o = reply'
  BY <1>1, <1>2
<1> QED
  BY <1>2, <1>3, <1>4, <1>5, TakeStep

(* Taking the rest of a long line, which is not the last one. *)
LEMMA RestStep ==
  ASSUME ~CutAnywhere, ~LongEnds, FInv, NEW p \in Pieces, SendRest(p), Take(p)
  PROVE FInv'
<1> DEFINE o == IF opening = NoCode THEN p.code ELSE opening
<1>1. opening = reply /\ o = reply /\ msg = pieces /\ reply \in Codes /\ rest # "last"
  BY DEF FInv, TypeOK, Together, SendRest, Take
<1>2. reply' = reply /\ rest' \in {"no", "inner"}
  BY <1>1, LineFacts, NoCodeAssumption DEF SendRest
<1>3. EndsReply(p, o) <=> reply' = NoCode
  BY <1>1, <1>2, NoCodeAssumption DEF SendRest, EndsReply, Terminates
<1>4. msg' = pieces' /\ pieces' \in Nat
  BY <1>1 DEF SendRest, Take, FInv, TypeOK
<1> QED
  BY <1>1, <1>2, <1>3, <1>4, NoCodeAssumption, TakeStep

(* Every step of check or of the server keeps the reader and the server    *)
(* together.                                                               *)
LEMMA FInvStep ==
  ASSUME ~CutAnywhere, ~LongEnds
  PROVE  FInv /\ [Next]_vars => FInv'
<1> SUFFICES ASSUME FInv, [Next]_vars PROVE FInv'
  OBVIOUS
<1>1. CASE ReadLine
  BY <1>1, FirstStep, InnerStep, RestStep DEF ReadLine
<1>2. CASE ReadEOF
  BY <1>2 DEF ReadEOF, FInv, TypeOK, Framed, Together
<1>3. ASSUME NEW code \in Codes, NextCheck(code) PROVE FInv'
  BY <1>3 DEF NextCheck, FInv, TypeOK, Framed, Together
<1>4. CASE UNCHANGED vars
  BY <1>4 DEF vars, FInv, TypeOK, Framed, Together
<1> QED
  BY <1>1, <1>2, <1>3, <1>4 DEF Next

(* check returns whole replies only, one at a time. *)
THEOREM RepliesFramed ==
  ASSUME ~CutAnywhere, ~LongEnds
  PROVE  Spec => []Framed
<1>1. FInv => Framed
  BY DEF FInv
<1> QED
  BY InitFInv, FInvStep, <1>1, PTL DEF Spec

(* A cut stream is reported as an error, never as a reply. *)
THEOREM CutReported ==
  ASSUME ~CutAnywhere, ~LongEnds
  PROVE  Spec => CutIsError
<1> DEFINE A == out = "reading" /\ reply # NoCode /\ reply' = reply /\ out' # out
                => out' = "UnexpectedEOF"
<1>1. FInv /\ [Next]_vars => [A]_vars
  <2> SUFFICES ASSUME FInv, Next, out = "reading", reply # NoCode, reply' = reply, out' # out
               PROVE out' = "UnexpectedEOF"
    OBVIOUS
  <2>1. CASE ReadLine
    BY <2>1, NoCodeAssumption
    DEF ReadLine, SendFirst, SendInner, SendRest, SendLine, Terminates, Take, EndsReply, FInv, Together, Pieces
  <2>2. CASE ReadEOF
    BY <2>2 DEF ReadEOF
  <2>3. ASSUME NEW code \in Codes, NextCheck(code) PROVE FALSE
    BY <2>3 DEF NextCheck
  <2> QED
    BY <2>1, <2>2, <2>3 DEF Next
<1> QED
  BY InitFInv, FInvStep, <1>1, PTL DEF Spec, CutIsError
=============================================================================
