---------------------------- MODULE ReplyReader ----------------------------
(***************************************************************************)
(* How check (codes.go) splits the control stream into replies.  The       *)
(* server sends replies as RFC 959 frames them; the reader consumes the    *)
(* stream in the pieces that bufio.Reader.ReadLine returns: a line, or the *)
(* first part of a line longer than its buffer (isPrefix) and then the     *)
(* rest.  A piece is abstracted to the code it starts with, if any, its    *)
(* fourth byte and isPrefix.  Pieces are consumed in the order they are    *)
(* sent, so sending and reading a piece is one step.                       *)
(***************************************************************************)
EXTENDS Naturals

CONSTANTS Codes,      \* reply codes
          NoCode,     \* the piece does not start with a code
          CutAnywhere,\* a long line may be cut just before text that reads
                      \* like the end of the reply
          LongEnds,   \* the line that ends a reply may be a long one
          MaxPieces   \* bound: pieces in one reply

ASSUME NoCodeAssumption == NoCode \notin Codes
ASSUME CutAnywhereAssumption == CutAnywhere \in BOOLEAN
ASSUME LongEndsAssumption == LongEnds \in BOOLEAN
ASSUME MaxPiecesAssumption == MaxPieces \in Nat

Pieces == [code : Codes \cup {NoCode}, sep : {" ", "-", "other"}, isPrefix : BOOLEAN]

VARIABLES expect,     \* the code the caller of check wants
          opening,    \* openingCode, NoCode until haveOpening
          msg,        \* pieces appended to response
          out,        \* "reading" or how check returned
          reply,      \* server: code of the reply being sent, NoCode between replies
          pieces,     \* server: pieces of the reply sent so far
          rest        \* server: what kind of long line the rest is still to be sent
              \* of: "no", "inner", or "last" for the one that ends the reply

vars == <<expect, opening, msg, out, reply, pieces, rest>>

Init ==
  /\ expect \in Codes
  /\ opening = NoCode
  /\ msg = 0
  /\ out = "reading"
  /\ reply = NoCode
  /\ pieces = 0
  /\ rest = "no"

---------------------------------------------------------------------------
(* The server side: what may come next, as RFC 959 section 4.2 frames it. *)

Terminates(p, c) == p.code = c /\ p.sep = " "

(* A line ends the reply once all of it is sent: check never takes a line  *)
(* longer than its buffer for the end, so LongEnds lets the reply go on    *)
(* for the reader.                                                         *)
SendLine(p, code, ends) ==
  /\ ends /\ p.isPrefix => LongEnds
  /\ reply' = IF ends /\ ~p.isPrefix THEN NoCode ELSE code
  /\ rest' = IF ~p.isPrefix THEN "no" ELSE IF ends THEN "last" ELSE "inner"

(* The first line of a reply: "NNN text" is all of it, "NNN-text" opens a  *)
(* multiline one.                                                          *)
SendFirst(p) ==
  /\ reply = NoCode
  /\ p.code # NoCode /\ p.sep # "other"
  /\ SendLine(p, p.code, p.sep = " ")
  /\ pieces' = 1

(* A line inside a multiline reply: it may start with any code, but the    *)
(* opening one followed by a space ends the reply.                         *)
SendInner(p) ==
  /\ reply # NoCode /\ rest = "no"
  /\ pieces < MaxPieces
  /\ SendLine(p, reply, Terminates(p, reply))
  /\ pieces' = pieces + 1

(* The rest of a long line, cut where the buffer was full.  It is not the  *)
(* start of a line, so what it reads like does not end the reply.          *)
SendRest(p) ==
  /\ reply # NoCode /\ rest # "no"
  /\ CutAnywhere \/ ~Terminates(p, reply)
  /\ pieces < MaxPieces
  /\ pieces' = pieces + 1
  /\ SendLine(p, reply, rest = "last")

---------------------------------------------------------------------------
(* Mutant of EndsReply: a line with any code and a space ends the reply.   *)
EndsReplyAnyCode(p, o) == ~p.isPrefix /\ p.code # NoCode /\ p.sep = " "

(* The test that ends the loop. *)
EndsReply(p, o) == ~p.isPrefix /\ p.code # NoCode /\ p.sep = " " /\ p.code = o

(* One iteration of the loop, and the comparison after it. *)
Take(p) ==
  LET o == IF opening = NoCode THEN p.code ELSE opening
  IN /\ out = "reading"
     /\ opening' = o
     /\ msg' = msg + 1
     /\ out' = IF ~EndsReply(p, o) THEN "reading"
               ELSE IF o = expect THEN "ok" ELSE "ReturnError"
     /\ UNCHANGED expect

ReadLine ==
  \E p \in Pieces :
    /\ SendFirst(p) \/ SendInner(p) \/ SendRest(p)
    /\ Take(p)

(* Mutant of ReadEOF: a stream that ends after an opening line with the    *)
(* expected code counts as a reply.                                        *)
ReadEOFComplete ==
  /\ out = "reading"
  /\ out' = IF opening = expect THEN "ok" ELSE "UnexpectedEOF"
  /\ UNCHANGED <<expect, opening, msg, reply, pieces, rest>>

(* The stream ends: io.ErrUnexpectedEOF, also inside a reply.  The caller  *)
(* closes the session.                                                     *)
ReadEOF ==
  /\ out = "reading"
  /\ out' = "UnexpectedEOF"
  /\ UNCHANGED <<expect, opening, msg, reply, pieces, rest>>

(* The next command is answered: check is called again on the same stream. *)
NextCheck(code) ==
  /\ out \in {"ok", "ReturnError"}
  /\ expect' = code
  /\ opening' = NoCode
  /\ msg' = 0
  /\ out' = "reading"
  /\ UNCHANGED <<reply, pieces, rest>>

Next == ReadLine \/ ReadEOF \/ \E code \in Codes : NextCheck(code)

(* Once the stream has ended nothing more happens. *)
Spec == Init /\ [][Next]_vars

---------------------------------------------------------------------------
(* Every variable has its type. *)
TypeOK ==
  /\ expect \in Codes
  /\ opening \in Codes \cup {NoCode}
  /\ msg \in Nat
  /\ out \in {"reading", "ok", "ReturnError", "UnexpectedEOF"}
  /\ reply \in Codes \cup {NoCode}
  /\ pieces \in Nat
  /\ rest \in {"no", "inner", "last"}

(* check returns a reply exactly when the server has sent all of it: every *)
(* piece of it is in the message, none of the next one was taken, and it   *)
(* is a success only for the expected code.                                *)
Framed ==
  /\ out \in {"ok", "ReturnError"} =>
       /\ reply = NoCode
       /\ msg = pieces
       /\ out = "ok" <=> opening = expect
  /\ out = "reading" /\ reply = NoCode => msg = 0

(* While a reply is being read, reader and server agree on its code and on *)
(* how much of it was read; only LongEnds ends a reply with a long line.   *)
Together ==
  /\ out = "reading" =>
       /\ reply = opening
       /\ reply # NoCode => msg = pieces
       /\ reply = NoCode => msg = 0 /\ rest = "no"
  /\ out \in {"ok", "ReturnError"} => rest = "no"
  /\ rest = "last" => LongEnds

(* A stream cut inside a reply is never reported as a reply. *)
CutIsError == [][out = "reading" /\ reply # NoCode /\ reply' = reply /\ out' # out
                 => out' = "UnexpectedEOF"]_vars
=============================================================================
