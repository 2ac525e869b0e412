---------------------------- MODULE SpoolListing ----------------------------
(***************************************************************************)
(* ParseInfoJobDetail (hfs/spool.go): the walk over the lines of a JES job *)
(* listing, one step per section.  A line is abstracted to what the walk's *)
(* tests tell apart:                                                       *)
(*   header    contains JOBNAME            job1   a level 1 job record     *)
(*   job       a level 2 job record        active the same, STATUS ACTIVE  *)
(*   separator starts with --------        columns  ID STEPNAME PROCSTEP   *)
(*   detail    a spool file                bad    a detail not parsed      *)
(*   count     "n spool files"             blank                           *)
(***************************************************************************)
EXTENDS Naturals, Sequences, FiniteSets

CONSTANT MaxDetails   \* bound on the spool files of a listing

ASSUME MaxDetailsAssumption == MaxDetails \in Nat

VARIABLES records, i,   \* the listing, and the line the walk has reached
          section,      \* the section the walk is in, or "done"
          dt, result    \* details parsed so far; what is returned

walkVars == <<records, i, section, dt, result>>

Line(k) == [kind |-> k, n |-> 0]
Lines == {Line(k) : k \in {"header", "job", "job1", "active", "separator", "columns",
                           "detail", "bad", "blank"}}
           \cup [kind : {"count"}, n : 0..MaxDetails + 1]

(* A listing as JES writes it, with any count in the trailer ... *)
Listing(m, c) ==
  <<Line("header"), Line("job"), Line("separator"), Line("columns")>>
    \o [j \in 1..m |-> Line("detail")] \o <<[kind |-> "count", n |-> c]>>
Listings == {Listing(m, c) : m \in 0..MaxDetails, c \in 0..MaxDetails + 1}

(* ... or damaged, one line replaced or put in; then cut short anywhere.   *)
PutIn(s, p, l) == SubSeq(s, 1, p - 1) \o <<l>> \o SubSeq(s, p, Len(s))
Damaged(s) == UNION {{PutIn(s, p, l), [s EXCEPT ![p] = l]} : p \in 1..Len(s), l \in Lines}
Records ==
  UNION {{SubSeq(s, 1, c) : c \in 0..Len(s)} :
           s \in Listings \cup UNION {Damaged(s) : s \in Listings}}

---------------------------------------------------------------------------
WalkInit ==
  /\ records = <<>>
  /\ i = 1
  /\ section = "done"
  /\ dt = 0
  /\ result = [out |-> "none", detail |-> 0]

(* GetJobStatus hands the lines of LIST to the parser. *)
StartWalk(r) ==
  /\ records' = r
  /\ i' = 1
  /\ section' = "first"
  /\ dt' = 0
  /\ result' = [out |-> "none", detail |-> 0]

Parsed(out, n) ==
  /\ section' = "done"
  /\ result' = [out |-> out, detail |-> n]
  /\ UNCHANGED <<records, i, dt>>

Goto(s, next) == section' = s /\ i' = next /\ UNCHANGED <<records, dt, result>>

(* Mutant of skipBlank: lines are taken by fixed offsets. *)
skipBlankNot == i

(* skipBlank: the first line from i on that is not blank. *)
skipBlank ==
  CHOOSE j \in i..Len(records) + 1 :
    /\ j <= Len(records) => records[j].kind # "blank"
    /\ \A k \in i..j - 1 : records[k].kind = "blank"

(* parseLineJob splits a level 2 record into five fields: any text of five *)
(* words passes.  A level 1 record ends in "n spool files".                *)
FiveFields == {"header", "job", "job1", "active", "columns", "detail", "bad"}

(* getInterfaceLevel looks at the first line only. *)
FirstLine ==
  /\ section = "first"
  /\ \/ records = <<>> /\ Parsed("err", 0)
     \/ records # <<>> /\ records[1].kind = "job1" /\ Parsed("ok", 0)
     \/ records # <<>> /\ records[1].kind \notin {"header", "job1"} /\ Parsed("err", 0)
     \/ records # <<>> /\ records[1].kind = "header" /\ Goto("job", 2)

JobLine ==
  /\ section = "job"
  /\ LET j == skipBlank IN
       \/ j > Len(records) /\ Parsed("err", 0)
       \/ j <= Len(records) /\ records[j].kind = "active" /\ Parsed("active", 0)
       \/ j <= Len(records) /\ records[j].kind \notin FiveFields /\ Parsed("err", 0)
       \/ /\ j <= Len(records) /\ records[j].kind \in FiveFields \ {"active"}
          /\ Goto("separator", j + 1)

(* The separator and the column titles: a listing may end before each. *)
Title(s, next) ==
  /\ section = s
  /\ LET j == skipBlank IN
       \/ j > Len(records) /\ Parsed("ok", 0)
       \/ j <= Len(records) /\ records[j].kind # s /\ Parsed("err", 0)
       \/ j <= Len(records) /\ records[j].kind = s /\ Goto(next, j + 1)

(* Mutant of DetailLine: the trailer's count is not compared. *)
DetailLineUncounted ==
  /\ section = "details"
  /\ \/ i > Len(records) /\ Parsed("ok", dt)
     \/ /\ i <= Len(records)
        /\ \/ records[i].kind = "blank" /\ Goto("details", i + 1)
           \/ records[i].kind = "count" /\ Parsed("ok", dt)
           \/ /\ records[i].kind = "detail"
              /\ dt' = dt + 1 /\ i' = i + 1 /\ UNCHANGED <<records, section, result>>
           \/ records[i].kind \notin {"blank", "count", "detail"} /\ Parsed("err", 0)

(* One iteration of the loop over the details.  On an error the details    *)
(* parsed so far are not returned.                                         *)
DetailLine ==
  /\ section = "details"
  /\ \/ i > Len(records) /\ Parsed("ok", dt)
     \/ /\ i <= Len(records)
        /\ \/ records[i].kind = "blank" /\ Goto("details", i + 1)
           \/ /\ records[i].kind = "count"
              /\ IF records[i].n = dt THEN Parsed("ok", dt) ELSE Parsed("err", 0)
           \/ /\ records[i].kind = "detail"
              /\ dt' = dt + 1 /\ i' = i + 1 /\ UNCHANGED <<records, section, result>>
           \/ records[i].kind \notin {"blank", "count", "detail"} /\ Parsed("err", 0)

WalkNext ==
  \/ FirstLine \/ JobLine
  \/ Title("separator", "columns") \/ Title("columns", "details")
  \/ DetailLine

---------------------------------------------------------------------------
(* What a listing says, read as a whole: its text is the lines below the   *)
(* header that are not blank, nth(j) counts those up to line j.  With m    *)
(* details it is well formed if the first line of text is a job's, the     *)
(* next two are titles, then come the details, and what follows them, if   *)
(* anything, counts them; each of these may be the last.                   *)
Text(r) == {j \in 2..Len(r) : r[j].kind # "blank"}
Nth(r, j) == Cardinality({k \in Text(r) : k <= j})
Fitting(r, m, j) ==
  LET p == Nth(r, j) IN
    /\ p = 1 => r[j].kind \in FiveFields \ {"active"}
    /\ p = 2 => r[j].kind = "separator"
    /\ p = 3 => r[j].kind = "columns"
    /\ p \in 4..m + 3 => r[j].kind = "detail"
    /\ p = m + 4 => r[j] = [kind |-> "count", n |-> m]
WellFormed(r, m) ==
  /\ Text(r) # {}
  /\ m > 0 => \E j \in Text(r) : Nth(r, j) = m + 3
  /\ \A j \in Text(r) : Fitting(r, m, j)
Says(r, out, n) ==
  IF r = <<>> \/ r[1].kind # "header"
  THEN n = 0 /\ out = IF r # <<>> /\ r[1].kind = "job1" THEN "ok" ELSE "err"
  ELSE LET active == \E j \in Text(r) : Nth(r, j) = 1 /\ r[j].kind = "active"
       IN CASE active -> out = "active" /\ n = 0
            [] ~active /\ (\E m \in 0..Len(r) : WellFormed(r, m)) -> out = "ok" /\ WellFormed(r, n)
            [] OTHER -> out = "err" /\ n = 0

(* A job's detail is accepted exactly when the listing is well formed up   *)
(* to its trailer, whatever blank lines are strewn in (the promise of the  *)
(* comment in ParseInfoJobDetail): every spool file of the listing is      *)
(* returned, as many as the trailer counts, and none after an error.       *)
DetailAsListed ==
  section = "done" /\ result.out # "none" => Says(records, result.out, result.detail)
=============================================================================
