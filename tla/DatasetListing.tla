--------------------------- MODULE DatasetListing ---------------------------
(***************************************************************************)
(* ListDatasets (lists.go) and the fixed-width parser below it (hfs:       *)
(* dataset_multiformat.go, dataset.go, layout.go, FieldInt in              *)
(* attributes.go): the header line chooses a layout, and every row is cut  *)
(* at that layout's offsets.                                               *)
(*                                                                         *)
(* A row is abstracted to which column the server wrote at which position; *)
(* of the values only those of a numeric column are told apart: blank,     *)
(* "?", the overflow marker "+", other text and numbers.                   *)
(***************************************************************************)
EXTENDS Naturals, Sequences

CONSTANTS MaxRows,   \* bound on the rows of a listing
          MaxUint    \* stands for 2^32 - 1, the largest FieldInt

ASSUME MaxRowsAssumption == MaxRows \in Nat
ASSUME MaxUintAssumption == MaxUint \in Nat \ {0}

VARIABLES listing,    \* the server's format and rows
          row,        \* the row ListDatasets has reached; 0: not started
          datasets,   \* what it has collected
          listRes     \* its result

listVars == <<listing, row, datasets, listRes>>

---------------------------------------------------------------------------
(* The server's formats: the positions of the widest value of each column  *)
(* and of the dataset name, in the listings of tests/dataset_listings.     *)
Formats ==
  [modern |->
     [words |-> {"unit", "referred"}, dsname |-> 56,
      at |-> [Volume |-> <<0, 5>>, Unit |-> <<7, 10>>, Referred |-> <<14, 23>>,
              Ext |-> <<25, 26>>, Used |-> <<27, 31>>, Recfm |-> <<34, 36>>,
              Lrecl |-> <<39, 43>>, BlkSz |-> <<45, 49>>, Dsorg |-> <<51, 55>>]],
   legacy |->
     [words |-> {"unit", "date"}, dsname |-> 55,
      at |-> [Volume |-> <<0, 5>>, Unit |-> <<6, 10>>, Referred |-> <<12, 19>>,
              Ext |-> <<25, 25>>, Used |-> <<30, 31>>, Recfm |-> <<32, 33>>,
              Lrecl |-> <<41, 43>>, BlkSz |-> <<46, 49>>, Dsorg |-> <<50, 51>>]],
   listlevel2 |->
     [words |-> {"referred"}, dsname |-> 56,
      at |-> [Volume |-> <<0, 5>>, Referred |-> <<6, 15>>, Ext |-> <<21, 21>>,
              Used |-> <<24, 32>>, Recfm |-> <<33, 35>>, Lrecl |-> <<40, 44>>,
              BlkSz |-> <<46, 50>>, Dsorg |-> <<51, 54>>]],
   coz |->
     [words |-> {"referred", "tracks"}, dsname |-> 62,
      at |-> [Volume |-> <<0, 5>>, Referred |-> <<6, 15>>, Ext |-> <<21, 21>>,
              Tracks |-> <<28, 29>>, Used |-> <<37, 37>>, Recfm |-> <<38, 39>>,
              Lrecl |-> <<48, 49>>, BlkSz |-> <<51, 55>>, Dsorg |-> <<56, 59>>]]]

Values == [k : {"blank", "?", "+", "text"}, v : {0}] \cup [k : {"number"}, v : 0..MaxUint + 1]
Blank == [k |-> "blank", v |-> 0]

(* A row carries attributes, a status phrase in their place, or is cut     *)
(* short at its name.  used is its Used column; odd: the date is no date,  *)
(* or another numeric column no uint32.                                    *)
Rows == [text : {"attrs"}, used : Values, odd : BOOLEAN]
          \cup [text : {"phrase", "short"}, used : {Blank}, odd : {FALSE}]
Listed ==
  {[format |-> f, rows |-> rs] :
     f \in DOMAIN Formats, rs \in UNION {[1..k -> Rows] : k \in 0..MaxRows}}

(* What the server wrote at position p of row r, and how long the row is.  *)
Spans(f, c) == Formats[f].at[c][1]..Formats[f].at[c][2]
Cell(f, r, p) ==
  CASE p >= Formats[f].dsname -> "Dsname"
    [] r.text = "phrase" /\ p \in 7..30 -> "phrase"
    [] r.text = "attrs" /\ \E c \in DOMAIN Formats[f].at : p \in Spans(f, c)
         -> CHOOSE c \in DOMAIN Formats[f].at : p \in Spans(f, c)
    [] OTHER -> " "
Length(f, r) == Formats[f].dsname + IF r.text = "short" THEN 0 ELSE 8

---------------------------------------------------------------------------
(* The client's layouts: where a column starts and how wide it is. *)
modernDatasetLayout ==
  [dsname |-> 56,
   at |-> [Volume |-> <<0, 6>>, Unit |-> <<6, 5>>, Referred |-> <<11, 13>>, Ext |-> <<24, 3>>,
           Used |-> <<27, 5>>, Recfm |-> <<32, 6>>, Lrecl |-> <<38, 6>>, BlkSz |-> <<44, 6>>,
           Dsorg |-> <<51, 5>>]]
legacyDatasetLayout ==
  [dsname |-> 55,
   at |-> [Volume |-> <<0, 6>>, Unit |-> <<6, 6>>, Referred |-> <<12, 10>>, Ext |-> <<22, 4>>,
           Used |-> <<26, 6>>, Recfm |-> <<32, 6>>, Lrecl |-> <<38, 6>>, BlkSz |-> <<44, 6>>,
           Dsorg |-> <<50, 5>>]]
listlevel2DatasetLayout ==
  [dsname |-> 56,
   at |-> [Volume |-> <<0, 6>>, Referred |-> <<6, 12>>, Ext |-> <<18, 4>>, Used |-> <<22, 11>>,
           Recfm |-> <<33, 6>>, Lrecl |-> <<39, 6>>, BlkSz |-> <<45, 6>>, Dsorg |-> <<51, 5>>]]
cozDatasetLayout ==
  [dsname |-> 62,
   at |-> [Volume |-> <<0, 6>>, Referred |-> <<6, 12>>, Ext |-> <<18, 4>>, Tracks |-> <<22, 8>>,
           Used |-> <<30, 8>>, Recfm |-> <<38, 6>>, Lrecl |-> <<44, 6>>, BlkSz |-> <<50, 6>>,
           Dsorg |-> <<56, 6>>]]

(* Mutant of NewDatasetListParser: the test for Tracks comes too late. *)
NewDatasetListParserLate(words) ==
  CASE "unit" \in words /\ "referred" \notin words -> legacyDatasetLayout
    [] "unit" \notin words /\ "referred" \in words -> listlevel2DatasetLayout
    [] words = {"tracks"} -> cozDatasetLayout
    [] OTHER -> modernDatasetLayout

(* The words of the header line choose the layout. *)
NewDatasetListParser(words) ==
  CASE "tracks" \in words -> cozDatasetLayout
    [] "tracks" \notin words /\ "unit" \in words /\ "referred" \notin words -> legacyDatasetLayout
    [] "tracks" \notin words /\ "unit" \notin words /\ "referred" \in words -> listlevel2DatasetLayout
    [] OTHER -> modernDatasetLayout

(* field.slice: the positions of a column in a record of that length. *)
slice(at, length) ==
  {p \in at[1]..at[1] + at[2] - 1 : p < length}

(* FieldInt.parse; MarshalJSON (null, marker or number) and its inverse. *)
FieldInt(v) ==
  [err |-> v.k = "text" \/ (v.k = "number" /\ v.v > MaxUint), overflow |-> v.k = "+",
   data |-> IF v.k = "number" /\ v.v <= MaxUint THEN v.v ELSE 0]
MarshalJSON(x) ==
  CASE x.overflow -> [k |-> "+", v |-> 0]
    [] ~x.overflow /\ x.data = 0 -> Blank
    [] OTHER -> [k |-> "number", v |-> x.data]
UnmarshalJSON(v) == [err |-> FALSE, overflow |-> v.k = "+", data |-> v.v]

(* parseDatasetLayout: too short; a status phrase before the name; or the  *)
(* columns, each of which must parse, and of which own are those that hold *)
(* their own text, whole.                                                  *)
parseDatasetLayout(f, r, layout) ==
  LET length == Length(f, r)
      cells(c) == {Cell(f, r, p) : p \in slice(layout.at[c], length)}
      own(c) == /\ cells(c) \subseteq {c, " "}
                /\ Spans(f, c) \subseteq slice(layout.at[c], length)
  IN CASE length < layout.dsname + 1 ->
            [out |-> "err", state |-> FALSE, own |-> {}, used |-> FieldInt(Blank)]
       [] length > layout.dsname /\ \E p \in 0..layout.dsname - 1 : Cell(f, r, p) = "phrase" ->
            [out |-> "ok", state |-> TRUE, own |-> {}, used |-> FieldInt(Blank)]
       [] OTHER ->
            [out |-> IF FieldInt(r.used).err \/ r.odd THEN "err" ELSE "ok", state |-> FALSE,
             own |-> {c \in DOMAIN layout.at \cap DOMAIN Formats[f].at : own(c)},
             used |-> FieldInt(r.used)]

---------------------------------------------------------------------------
ListInit ==
  /\ listing = [format |-> "modern", rows |-> <<>>]
  /\ row = 0
  /\ datasets = <<>>
  /\ listRes = "none"

StartList(l) ==
  /\ listing' = l
  /\ row' = 1
  /\ datasets' = <<>>
  /\ listRes' = "pending"

(* One iteration of ListDatasets; a row that does not parse ends it. *)
ListRow ==
  /\ listRes = "pending"
  /\ row <= Len(listing.rows)
  /\ LET d == parseDatasetLayout(listing.format, listing.rows[row],
                NewDatasetListParser(Formats[listing.format].words))
     IN IF d.out = "ok"
        THEN datasets' = Append(datasets, d) /\ row' = row + 1 /\ UNCHANGED listRes
        ELSE listRes' = "err" /\ datasets' = <<>> /\ UNCHANGED row
  /\ UNCHANGED listing

ListEnd ==
  /\ listRes = "pending"
  /\ row > Len(listing.rows)
  /\ listRes' = "ok"
  /\ UNCHANGED <<listing, row, datasets>>

ListNext == ListRow \/ ListEnd

---------------------------------------------------------------------------
(* A listing that succeeds reports every row: a row with attributes with   *)
(* each column's own text, whole and free of its neighbours', its numbers  *)
(* as listed or flagged as overflow, in JSON too; a row with a status      *)
(* phrase as a state without attributes.  A listing fails only for a row   *)
(* without a name, a number wider than uint32, or a numeric column or date *)
(* with text that is none: no phrase, "?" or "+++++" aborts it.            *)
RowsAsListed ==
  /\ listRes = "ok" =>
       /\ Len(datasets) = Len(listing.rows)
       /\ \A j \in 1..Len(datasets) :
            LET r == listing.rows[j]
                d == datasets[j]
            IN /\ r.text # "short" /\ r.used.k # "text" /\ ~r.odd
               /\ d.state = (r.text = "phrase")
               /\ r.text = "attrs" =>
                    /\ d.own = DOMAIN Formats[listing.format].at
                    /\ d.used.overflow = (r.used.k = "+")
                    /\ d.used.data = r.used.v
               /\ UnmarshalJSON(MarshalJSON(d.used)) = d.used
  /\ listRes = "err" =>
       \E j \in 1..Len(listing.rows) :
         \/ listing.rows[j].text = "short"
         \/ listing.rows[j].used.v > MaxUint \/ listing.rows[j].used.k = "text"
         \/ listing.rows[j].odd
=============================================================================
