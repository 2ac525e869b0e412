----------------------------- MODULE ListingProofs -----------------------------
(***************************************************************************)
(* Proofs about the two parsers of listings, for listings of any length    *)
(* and any bounds: DatasetListing's rows and SpoolListing's walk.  As with *)
(* the local files, processes of module Cli run the parsers; here are the  *)
(* invariants and the steps that keep them.                                *)
(***************************************************************************)
EXTENDS SpoolListing, DatasetListing, SequenceTheorems, FiniteSetTheorems,
        WellFoundedInduction, TLAPS

(* A layout fits a format: it has the same columns, every column holds its *)
(* own text whole and nothing of its neighbours'.                          *)
Fits(F, L) ==
  /\ DOMAIN L.at = DOMAIN F.at /\ L.dsname = F.dsname /\ F.dsname \in Nat /\ F.dsname > 7
  /\ \A c \in DOMAIN F.at :
       /\ F.at[c][1] >= L.at[c][1] /\ F.at[c][2] < L.at[c][1] + L.at[c][2]
       /\ L.at[c][1] + L.at[c][2] <= L.dsname
       /\ F.at[c][1] \in Nat /\ F.at[c][2] \in Nat /\ L.at[c][1] \in Nat /\ L.at[c][2] \in Nat
  /\ \A c, o \in DOMAIN F.at : c # o =>
       F.at[o][2] < L.at[c][1] \/ L.at[c][1] + L.at[c][2] <= F.at[o][1]
  /\ DOMAIN F.at \subseteq {"Volume", "Unit", "Referred", "Ext", "Tracks", "Used", "Recfm",
                            "Lrecl", "BlkSz", "Dsorg"}

(* The layout that the header line of a format chooses. *)
Chosen(f) == NewDatasetListParser(Formats[f].words)

(* The header line of each format chooses a layout that fits it. *)
LEMMA ChosenFits ==
  ASSUME NEW f \in DOMAIN Formats
  PROVE  Fits(Formats[f], Chosen(f))
<1>1. Fits(Formats["modern"], Chosen("modern"))
  <2>1. Chosen("modern") = modernDatasetLayout
    BY DEF Chosen, NewDatasetListParser, Formats
  <2> QED
    BY <2>1 DEF Fits, Formats, modernDatasetLayout
<1>2. Fits(Formats["legacy"], Chosen("legacy"))
  <2>1. Chosen("legacy") = legacyDatasetLayout
    BY DEF Chosen, NewDatasetListParser, Formats
  <2> QED
    BY <2>1 DEF Fits, Formats, legacyDatasetLayout
<1>3. Fits(Formats["listlevel2"], Chosen("listlevel2"))
  <2>1. Chosen("listlevel2") = listlevel2DatasetLayout
    BY DEF Chosen, NewDatasetListParser, Formats
  <2> QED
    BY <2>1 DEF Fits, Formats, listlevel2DatasetLayout
<1>4. Fits(Formats["coz"], Chosen("coz"))
  <2>1. Chosen("coz") = cozDatasetLayout
    BY DEF Chosen, NewDatasetListParser, Formats
  <2> QED
    BY <2>1 DEF Fits, Formats, cozDatasetLayout
<1>5. f \in {"modern", "legacy", "listlevel2", "coz"}
  BY DEF Formats
<1> QED
  BY <1>1, <1>2, <1>3, <1>4, <1>5

(* The cells of a row with attributes. *)
LEMMA CellFacts ==
  ASSUME NEW f, NEW r, r.text = "attrs", NEW L, Fits(Formats[f], L),
         NEW p \in Nat, p < L.dsname
  PROVE  /\ Cell(f, r, p) # "phrase"
         /\ \A c \in DOMAIN Formats[f].at :
              p \in slice(L.at[c], Length(f, r)) => Cell(f, r, p) \in {c, " "}
<1> DEFINE Columns == DOMAIN Formats[f].at
           covers(c) == c \in Columns /\ p \in Spans(f, c)
<1>1. ~(p >= Formats[f].dsname) /\ r.text # "phrase"
  BY DEF Fits
<1>2. CASE \E c \in Columns : covers(c)
  <2>1. Cell(f, r, p) = CHOOSE c \in Columns : p \in Spans(f, c)
    BY <1>1, <1>2 DEF Cell
  <2>2. Cell(f, r, p) \in Columns /\ p \in Spans(f, Cell(f, r, p))
    BY <1>2, <2>1
  <2>3. PICK o : o = Cell(f, r, p)
    OBVIOUS
  <2>4. o # "phrase"
    BY <2>2, <2>3 DEF Fits
  <2>5. ASSUME NEW c \in Columns, p \in slice(L.at[c], Length(f, r)) PROVE o = c
    BY <2>2, <2>3, <2>5 DEF Fits, slice, Spans
  <2> QED
    BY <2>3, <2>4, <2>5
<1>3. CASE ~ \E c \in Columns : covers(c)
  <2>1. Cell(f, r, p) = " "
    BY <1>1, <1>3 DEF Cell
  <2> QED
    BY <2>1
<1> QED
  BY <1>2, <1>3

(* A row is read as the server wrote it. *)
LEMMA ParseFacts ==
  ASSUME NEW f \in DOMAIN Formats, NEW r \in Rows, NEW L, Fits(Formats[f], L), NEW d,
         d = parseDatasetLayout(f, r, L)
  PROVE  /\ d.out \in {"ok", "err"}
         /\ r.text = "short" => d.out = "err"
         /\ r.text = "phrase" => d.out = "ok"
         /\ r.text # "short" => d.state = (r.text = "phrase")
         /\ r.text = "attrs" =>
              d.own = DOMAIN Formats[f].at /\ d.used = FieldInt(r.used)
                /\ (d.out = "err" <=> FieldInt(r.used).err \/ r.odd)
         /\ r.text # "attrs" => d.used = FieldInt(Blank)
<1> DEFINE length == Length(f, r)
           cells(c) == {Cell(f, r, p) : p \in slice(L.at[c], length)}
           own(c) == /\ cells(c) \subseteq {c, " "}
                     /\ Spans(f, c) \subseteq slice(L.at[c], length)
<1>1. Fits(Formats[f], L)
  OBVIOUS
<1>2. r.text \in {"attrs", "phrase", "short"}
  BY DEF Rows
<1>3. length \in Nat /\ length >= L.dsname /\ (r.text # "short" => length = L.dsname + 8)
        /\ (r.text = "short" => length = L.dsname)
  BY <1>1 DEF Fits, Length
<1>4. CASE r.text = "short"
  <2>1. length < L.dsname + 1 /\ ~(length > L.dsname)
    BY <1>1, <1>3, <1>4 DEF Fits
  <2>2. d = [out |-> "err", state |-> FALSE, own |-> {}, used |-> FieldInt(Blank)]
    BY <2>1 DEF parseDatasetLayout
  <2> QED
    BY <1>4, <2>2
<1>5. CASE r.text = "phrase"
  <2>1. ~(length < L.dsname + 1) /\ length > L.dsname
    BY <1>1, <1>3, <1>5 DEF Fits
  <2>2. 7 \in 0..L.dsname - 1 /\ Cell(f, r, 7) = "phrase"
    BY <1>1, <1>5 DEF Fits, Cell
  <2>3. d = [out |-> "ok", state |-> TRUE, own |-> {}, used |-> FieldInt(Blank)]
    BY <2>1, <2>2 DEF parseDatasetLayout
  <2>4. d.used = FieldInt(Blank) /\ d.out = "ok" /\ d.state
    BY <2>3
  <2> QED
    BY <1>5, <2>4
<1>6. CASE r.text = "attrs"
  <2>1. ~(length < L.dsname + 1) /\ length > L.dsname
    BY <1>1, <1>3, <1>6 DEF Fits
  <2>2. ~ \E p \in 0..L.dsname - 1 : Cell(f, r, p) = "phrase"
    <3>1. \A p \in 0..L.dsname - 1 : p \in Nat /\ p < L.dsname
      BY <1>1 DEF Fits
    <3> QED
      BY <1>1, <1>6, <3>1, CellFacts
  <2>3. ASSUME NEW c \in DOMAIN Formats[f].at PROVE own(c)
    <3>1. slice(L.at[c], length) = L.at[c][1]..(L.at[c][1] + L.at[c][2] - 1)
      BY <1>1, <1>3 DEF Fits, slice
    <3>2. Spans(f, c) \subseteq slice(L.at[c], length)
      BY <1>1, <3>1 DEF Fits, Spans
    <3>3. ASSUME NEW p \in slice(L.at[c], length) PROVE Cell(f, r, p) \in {c, " "}
      <4>1. p \in Nat /\ p < L.dsname
        BY <1>1, <3>1 DEF Fits
      <4> QED
        BY <1>1, <1>6, <4>1, CellFacts
    <3> QED
      BY <3>2, <3>3
  <2>4. DOMAIN L.at = DOMAIN Formats[f].at
    BY <1>1 DEF Fits
  <2>5. d = [out |-> IF FieldInt(r.used).err \/ r.odd THEN "err" ELSE "ok", state |-> FALSE,
             own |-> {c \in DOMAIN L.at \cap DOMAIN Formats[f].at : own(c)},
             used |-> FieldInt(r.used)]
    BY <2>1, <2>2 DEF parseDatasetLayout
  <2>6. {c \in DOMAIN L.at \cap DOMAIN Formats[f].at : own(c)} = DOMAIN Formats[f].at
    BY <2>3, <2>4
  <2> HIDE DEF own
  <2>7. PICK x : x = FieldInt(r.used)
    OBVIOUS
  <2>8. /\ d.out = (IF x.err \/ r.odd THEN "err" ELSE "ok") /\ d.state = FALSE
        /\ d.own = DOMAIN Formats[f].at /\ d.used = x
    BY <2>5, <2>6, <2>7
  <2> QED
    BY <1>6, <2>7, <2>8
<1> QED
  BY <1>2, <1>4, <1>5, <1>6

---------------------------------------------------------------------------
(* The datasets collected so far are the rows read so far; a listing ends  *)
(* well after its last row, or at a row that does not parse.               *)
Read(l, r) == parseDatasetLayout(l.format, r, Chosen(l.format))
ListInv ==
  /\ listing.format \in DOMAIN Formats /\ listing.rows \in Seq(Rows)
  /\ row \in 0..Len(listing.rows) + 1 /\ listRes \in {"none", "pending", "ok", "err"}
  /\ datasets \in Seq({Read(listing, r) : r \in Rows}) /\ Len(datasets) <= Len(listing.rows)
  /\ \A j \in 1..Len(datasets) :
       datasets[j] = Read(listing, listing.rows[j]) /\ datasets[j].out = "ok"
  /\ listRes = "pending" => row = Len(datasets) + 1
  /\ listRes = "ok" => Len(datasets) = Len(listing.rows)
  /\ listRes = "err" =>
       \E j \in 1..Len(listing.rows) : Read(listing, listing.rows[j]).out # "ok"

(* What processes do to the variables of DatasetListing. *)
ListFresh ==
  /\ listing' = [format |-> "modern", rows |-> <<>>]
  /\ row' = 0 /\ datasets' = <<>> /\ listRes' = "none"
ListStep ==
  \/ ListFresh
  \/ \E l \in Listed : StartList(l)
  \/ ListNext
  \/ UNCHANGED listVars

(* A listing whose reading begins. *)
LEMMA ListedFacts ==
  ASSUME NEW l \in Listed
  PROVE  l.format \in DOMAIN Formats /\ l.rows \in Seq(Rows)
<1> DEFINE R == UNION {[1..k -> Rows] : k \in 0..MaxRows}
<1>1. \E f \in DOMAIN Formats, rs \in R : l = [format |-> f, rows |-> rs]
  <2>1. l \in {[format |-> f, rows |-> rs] : f \in DOMAIN Formats, rs \in R}
    BY DEF Listed
  <2> HIDE DEF R
  <2> QED
    BY <2>1
<1>2. PICK f \in DOMAIN Formats, rs \in R : l = [format |-> f, rows |-> rs]
  BY <1>1
<1>3. PICK k \in 0..MaxRows : rs \in [1..k -> Rows]
  OBVIOUS
<1>4. rs \in Seq(Rows)
  BY <1>3, MaxRowsAssumption
<1> QED
  BY <1>2, <1>4

(* ListDatasets keeps its invariant. *)
LEMMA ListInvStep == ListInv /\ ListStep => ListInv'
<1> SUFFICES ASSUME ListInv, ListStep PROVE ListInv'
  OBVIOUS
<1> USE DEF ListInv
<1>1. ASSUME ListFresh PROVE ListInv'
  BY <1>1 DEF ListFresh, Formats
<1>2. ASSUME NEW l \in Listed, StartList(l) PROVE ListInv'
  BY <1>2, ListedFacts DEF StartList
<1>3. ASSUME ListRow PROVE ListInv'
  <2>1. /\ listRes = "pending" /\ row \in 1..Len(listing.rows) /\ listing' = listing
        /\ row = Len(datasets) + 1 /\ Len(datasets) \in Nat
    BY <1>3 DEF ListRow
  <2>2. PICK r \in Rows : r = listing.rows[row]
    BY <2>1
  <2>3. PICK d : d = Read(listing, r)
    OBVIOUS
  <2>4. IF d.out = "ok"
        THEN datasets' = Append(datasets, d) /\ row' = row + 1 /\ UNCHANGED listRes
        ELSE listRes' = "err" /\ datasets' = <<>> /\ UNCHANGED row
    BY <1>3, <2>2, <2>3 DEF ListRow, Read, Chosen
  <2>5. d \in {Read(listing, q) : q \in Rows}
    BY <2>2, <2>3
  <2> HIDE DEF ListInv
  <2>6. CASE d.out = "ok"
    <3>1. /\ datasets' \in Seq({Read(listing, q) : q \in Rows})
          /\ Len(datasets') = row
          /\ \A j \in 1..Len(datasets') :
               datasets'[j] = IF j = row THEN d ELSE datasets[j]
      <4>1. datasets' = Append(datasets, d)
        BY <2>4, <2>6
      <4>2. datasets \in Seq({Read(listing, q) : q \in Rows})
        BY DEF ListInv
      <4> HIDE DEF Read
      <4> QED
        BY <2>1, <2>5, <4>1, <4>2
    <3>2. \A j \in 1..Len(datasets') :
            datasets'[j] = Read(listing, listing.rows[j]) /\ datasets'[j].out = "ok"
      BY <2>1, <2>2, <2>3, <2>6, <3>1 DEF ListInv
    <3>3. row' = row + 1 /\ listRes' = "pending"
      BY <2>1, <2>4, <2>6
    <3> QED
      BY <2>1, <3>1, <3>2, <3>3 DEF ListInv
  <2>7. CASE d.out # "ok"
    <3>1. listRes' = "err" /\ datasets' = <<>> /\ row' = row
      BY <2>4, <2>7
    <3>2. \E j \in 1..Len(listing.rows) : Read(listing, listing.rows[j]).out # "ok"
      BY <2>1, <2>2, <2>3, <2>7
    <3> QED
      BY <2>1, <3>1, <3>2 DEF ListInv
  <2> QED
    BY <2>6, <2>7
<1>4. ASSUME ListEnd PROVE ListInv'
  <2>1. Len(datasets) = Len(listing.rows)
    BY <1>4 DEF ListEnd
  <2> QED
    BY <1>4, <2>1 DEF ListEnd
<1>5. ASSUME UNCHANGED listVars PROVE ListInv'
  BY <1>5 DEF listVars
<1> QED
  BY <1>1, <1>2, <1>3, <1>4, <1>5 DEF ListStep, ListNext

(* Before a process reads anything. *)
LEMMA InitList == ListInit => ListInv
BY DEF ListInit, ListInv, Formats

(* A number as it is read, and in JSON. *)
LEMMA NumberFacts ==
  ASSUME NEW v \in Values, NEW x, x = FieldInt(v)
  PROVE  /\ x.err <=> v.v > MaxUint \/ v.k = "text"
         /\ ~x.err => x.overflow = (v.k = "+") /\ x.data = v.v
                        /\ UnmarshalJSON(MarshalJSON(x)) = x
<1>1. /\ v.k \in {"blank", "?", "+", "text", "number"} /\ v.v \in Nat /\ (v.k # "number" => v.v = 0)
      /\ MaxUint \in Nat
  <2>1. CASE v \in [k : {"blank", "?", "+", "text"}, v : {0}]
    BY <2>1, MaxUintAssumption
  <2>2. CASE v \in [k : {"number"}, v : 0..MaxUint + 1]
    BY <2>2, MaxUintAssumption
  <2> QED
    BY <2>1, <2>2 DEF Values
<1>2. /\ x = [err |-> x.err, overflow |-> x.overflow, data |-> x.data]
      /\ x.err = (v.k = "text" \/ (v.k = "number" /\ v.v > MaxUint)) /\ x.overflow = (v.k = "+")
      /\ x.data = IF v.k = "number" /\ v.v <= MaxUint THEN v.v ELSE 0
  BY DEF FieldInt
<1>3. x.err <=> v.v > MaxUint \/ v.k = "text"
  <2>1. x.err <=> v.k = "text" \/ (v.k = "number" /\ v.v > MaxUint)
    BY DEF FieldInt
  <2> QED
    BY <1>1, <2>1
<1>4. ASSUME ~x.err PROVE x.data = v.v
  BY <1>1, <1>2, <1>3, <1>4
<1>5. ASSUME ~x.err PROVE UnmarshalJSON(MarshalJSON(x)) = x
  <2>1. x.err = FALSE /\ x.data = v.v
    BY <1>1, <1>2, <1>4, <1>5
  <2>2. CASE v.k = "+"
    <3>1. x = [err |-> FALSE, overflow |-> TRUE, data |-> 0]
      BY <1>1, <1>2, <2>1, <2>2
    <3>2. PICK m : m = MarshalJSON(x)
      OBVIOUS
    <3>3. m.k = "+" /\ m.v = 0
      BY <3>1, <3>2 DEF MarshalJSON
    <3>4. UnmarshalJSON(m) = [err |-> FALSE, overflow |-> TRUE, data |-> 0]
      BY <3>3 DEF UnmarshalJSON
    <3> QED
      BY <3>1, <3>2, <3>4
  <2>3. CASE v.k # "+" /\ v.v = 0
    <3>1. x = [err |-> FALSE, overflow |-> FALSE, data |-> 0]
      BY <1>1, <1>2, <2>1, <2>3
    <3>2. PICK m : m = MarshalJSON(x)
      OBVIOUS
    <3>3. m.k = "blank" /\ m.v = 0
      BY <3>1, <3>2 DEF MarshalJSON, Blank
    <3>4. UnmarshalJSON(m) = [err |-> FALSE, overflow |-> FALSE, data |-> 0]
      BY <3>3 DEF UnmarshalJSON
    <3> QED
      BY <3>1, <3>2, <3>4
  <2>4. CASE v.k # "+" /\ v.v # 0
    <3>1. x = [err |-> FALSE, overflow |-> FALSE, data |-> v.v]
      BY <1>1, <1>2, <2>1, <2>4
    <3>2. PICK m : m = MarshalJSON(x)
      OBVIOUS
    <3>3. m.k = "number" /\ m.v = v.v
      BY <2>4, <3>1, <3>2 DEF MarshalJSON
    <3>4. UnmarshalJSON(m) = [err |-> FALSE, overflow |-> FALSE, data |-> v.v]
      BY <3>3 DEF UnmarshalJSON
    <3> QED
      BY <3>1, <3>2, <3>4
  <2> QED
    BY <2>2, <2>3, <2>4
<1> QED
  BY <1>2, <1>3, <1>4, <1>5

(* What the invariant says of a listing that is over. *)
LEMMA RowsRead == ListInv => RowsAsListed
<1> SUFFICES ASSUME ListInv PROVE RowsAsListed
  OBVIOUS
<1> DEFINE f == listing.format
<1>1. f \in DOMAIN Formats /\ listing.rows \in Seq(Rows)
  BY DEF ListInv
<1>2. Fits(Formats[f], Chosen(f))
  BY <1>1, ChosenFits
<1>3. ASSUME NEW r \in Rows
      PROVE  /\ r.used \in Values /\ r.text \in {"attrs", "phrase", "short"}
             /\ r.odd \in BOOLEAN /\ (r.text # "attrs" => r.used = Blank /\ ~r.odd)
  <2>1. Blank \in Values /\ "attrs" \notin {"phrase", "short"}
    BY DEF Values, Blank
  <2>2. CASE r \in [text : {"attrs"}, used : Values, odd : BOOLEAN]
    BY <2>2
  <2>3. CASE r \in [text : {"phrase", "short"}, used : {Blank}, odd : {FALSE}]
    BY <2>1, <2>3
  <2> QED
    BY <2>2, <2>3 DEF Rows
<1>4. ASSUME listRes = "ok", NEW j \in 1..Len(datasets)
      PROVE  LET r == listing.rows[j]
                 d == datasets[j]
             IN /\ r.text # "short" /\ r.used.k # "text" /\ ~r.odd
                /\ d.state = (r.text = "phrase")
                /\ r.text = "attrs" =>
                     /\ d.own = DOMAIN Formats[listing.format].at
                     /\ d.used.overflow = (r.used.k = "+")
                     /\ d.used.data = r.used.v
                /\ UnmarshalJSON(MarshalJSON(d.used)) = d.used
  <2>1. j \in 1..Len(listing.rows)
    BY <1>4 DEF ListInv
  <2>2. PICK r \in Rows : r = listing.rows[j]
    BY <1>1, <2>1
  <2>3. PICK d : d = datasets[j]
    OBVIOUS
  <2>4. d = parseDatasetLayout(f, r, Chosen(f)) /\ d.out = "ok"
    BY <2>2, <2>3 DEF ListInv, Read
  <2>5. /\ r.text # "short" /\ d.state = (r.text = "phrase")
        /\ r.text = "attrs" => d.own = DOMAIN Formats[f].at /\ d.used = FieldInt(r.used)
                                 /\ ~FieldInt(r.used).err /\ ~r.odd
        /\ r.text # "attrs" => d.used = FieldInt(Blank)
    <3>1. r.odd \in BOOLEAN /\ d.out # "err"
      BY <1>3, <2>4
    <3>2. PICK e : e = FieldInt(r.used).err
      OBVIOUS
    <3>3. /\ r.text # "short" /\ d.state = (r.text = "phrase")
          /\ r.text = "attrs" => d.own = DOMAIN Formats[f].at /\ d.used = FieldInt(r.used)
                                   /\ ~(e \/ r.odd)
          /\ r.text # "attrs" => d.used = FieldInt(Blank)
      BY <1>1, <1>2, <2>4, <3>1, <3>2, ParseFacts
    <3> QED
      BY <3>2, <3>3
  <2>6. Blank \in Values /\ Blank.v = 0 /\ Blank.k # "text" /\ MaxUint \in Nat
    BY MaxUintAssumption DEF Blank, Values
  <2>7. PICK b : b = FieldInt(Blank)
    OBVIOUS
  <2>8. UnmarshalJSON(MarshalJSON(b)) = b
    BY <2>6, <2>7, NumberFacts
  <2>9. PICK x : x = FieldInt(r.used)
    OBVIOUS
  <2>10. r.text = "attrs" => x.overflow = (r.used.k = "+") /\ x.data = r.used.v
                               /\ r.used.k # "text"
                               /\ UnmarshalJSON(MarshalJSON(x)) = x
    BY <1>3, <2>5, <2>9, NumberFacts
  <2>11. r.used.k # "text" /\ ~r.odd
    <3>1. r.text # "attrs" => r.used = Blank /\ ~r.odd
      BY <1>3
    <3> QED
      BY <2>5, <2>6, <2>10, <3>1
  <2> QED
    BY <2>2, <2>3, <2>5, <2>7, <2>8, <2>9, <2>10, <2>11
<1>5. ASSUME listRes = "err"
      PROVE  \E j \in 1..Len(listing.rows) :
               \/ listing.rows[j].text = "short"
               \/ listing.rows[j].used.v > MaxUint \/ listing.rows[j].used.k = "text"
               \/ listing.rows[j].odd
  <2>1. PICK j \in 1..Len(listing.rows) : Read(listing, listing.rows[j]).out # "ok"
    BY <1>5 DEF ListInv
  <2>2. PICK r \in Rows : r = listing.rows[j]
    BY <1>1
  <2>3. PICK d : d = parseDatasetLayout(f, r, Chosen(f))
    OBVIOUS
  <2>4. d.out = "err"
    BY <1>1, <1>2, <2>1, <2>2, <2>3, ParseFacts DEF Read
  <2>5. PICK x : x = FieldInt(r.used)
    OBVIOUS
  <2>6. r.text = "short" \/ x.err \/ r.odd
    BY <1>1, <1>2, <1>3, <2>3, <2>4, <2>5, ParseFacts
  <2> QED
    BY <1>3, <2>2, <2>5, <2>6, NumberFacts
<1>6. listRes = "ok" => Len(datasets) = Len(listing.rows)
  BY DEF ListInv
<1> QED
  BY <1>4, <1>5, <1>6 DEF RowsAsListed

---------------------------------------------------------------------------
(* A set of numbers has a least element. *)
LEMMA Least ==
  ASSUME NEW T \in SUBSET Nat, T # {}
  PROVE  \E x \in T : \A y \in T : x <= y
<1>1. IsWellFoundedOn(OpToRel(<, Nat), Nat)
  BY NatLessThanWellFounded
<1>2. PICK x \in T : \A y \in T : ~(<<y, x>> \in OpToRel(<, Nat))
  BY <1>1, WFMin
<1>3. \A y \in T : ~(y < x)
  BY <1>2 DEF OpToRel
<1> QED
  BY <1>3

(* Lines put into a listing, or cut off it, are lines. *)
LEMMA RecordsFacts == ASSUME NEW r \in Records PROVE r \in Seq(Lines)
<1>1. ASSUME NEW s \in Listings PROVE s \in Seq(Lines)
  <2>1. PICK m \in 0..MaxDetails, c \in 0..MaxDetails + 1 : s = Listing(m, c)
    BY <1>1 DEF Listings
  <2>2. <<Line("header"), Line("job"), Line("separator"), Line("columns")>> \in Seq(Lines)
    <3>1. Line("header") \in Lines /\ Line("job") \in Lines /\ Line("separator") \in Lines
            /\ Line("columns") \in Lines
      BY DEF Lines
    <3> QED
      BY <3>1
  <2>3. [j \in 1..m |-> Line("detail")] \in Seq(Lines)
    <3>1. Line("detail") \in Lines /\ m \in Nat
      BY MaxDetailsAssumption DEF Lines
    <3> QED
      BY <3>1
  <2>4. <<[kind |-> "count", n |-> c]>> \in Seq(Lines)
    BY DEF Lines
  <2> QED
    BY <2>1, <2>2, <2>3, <2>4, ConcatProperties DEF Listing
<1>2. ASSUME NEW s \in Seq(Lines), NEW p \in 1..Len(s), NEW l \in Lines
      PROVE  PutIn(s, p, l) \in Seq(Lines) /\ [s EXCEPT ![p] = l] \in Seq(Lines)
  <2>1. SubSeq(s, 1, p - 1) \in Seq(Lines) /\ SubSeq(s, p, Len(s)) \in Seq(Lines)
    OBVIOUS
  <2>2. <<l>> \in Seq(Lines)
    OBVIOUS
  <2>3. PutIn(s, p, l) \in Seq(Lines)
    BY <2>1, <2>2, ConcatProperties DEF PutIn
  <2> QED
    BY <2>3
<1>3. ASSUME NEW s \in Seq(Lines), NEW t \in Damaged(s) PROVE t \in Seq(Lines)
  <2>1. PICK p \in 1..Len(s), l \in Lines : t \in {PutIn(s, p, l), [s EXCEPT ![p] = l]}
    BY <1>3 DEF Damaged
  <2> QED
    BY <1>2, <2>1
<1>4. PICK s \in Listings \cup UNION {Damaged(t) : t \in Listings} :
        r \in {SubSeq(s, 1, c) : c \in 0..Len(s)}
  BY DEF Records
<1>5. s \in Seq(Lines)
  BY <1>1, <1>3, <1>4
<1> QED
  BY <1>4, <1>5

(* Where skipBlank stops. *)
LEMMA SkipFacts ==
  ASSUME records \in Seq(Lines), i \in 1..Len(records) + 1, NEW j, j = skipBlank
  PROVE  /\ j \in i..Len(records) + 1
         /\ j <= Len(records) => records[j].kind # "blank"
         /\ \A k \in i..j - 1 : records[k].kind = "blank"
<1> DEFINE stops(x) == x <= Len(records) => records[x].kind # "blank"
           T == {x \in i..Len(records) + 1 : stops(x)}
<1>1. Len(records) + 1 \in T /\ T \in SUBSET Nat
  OBVIOUS
<1>2. PICK x \in T : \A y \in T : x <= y
  BY <1>1, Least
<1>3. /\ x \in i..Len(records) + 1 /\ stops(x)
      /\ \A k \in i..x - 1 : records[k].kind = "blank"
  <2>1. ASSUME NEW k \in i..x - 1 PROVE records[k].kind = "blank"
    <3>1. k \in i..Len(records) + 1 /\ k <= Len(records) /\ ~(x <= k)
      BY <1>2, <2>1
    <3> QED
      BY <1>2, <3>1
  <2> QED
    BY <1>2, <2>1
<1> QED
  BY <1>3 DEF skipBlank

---------------------------------------------------------------------------
(* The lines of text above line x. *)
Above(r, x) == {k \in Text(r) : k < x}

(* Text is finite, however much of it is counted. *)
LEMMA TextFinite ==
  ASSUME NEW r \in Seq(Lines), NEW S \in SUBSET Text(r)
  PROVE  IsFiniteSet(S) /\ Cardinality(S) \in Nat /\ S \subseteq Nat
<1>1. Len(r) \in Nat /\ IsFiniteSet(2..Len(r))
  BY FS_Interval
<1>2. S \in SUBSET (2..Len(r))
  BY DEF Text
<1>3. IsFiniteSet(S)
  BY <1>1, <1>2, FS_Subset
<1> QED
  BY <1>2, <1>3, FS_CardinalityType

(* A line above x is one of those counted there, a line below is not. *)
LEMMA Beyond ==
  ASSUME NEW r \in Seq(Lines), NEW x \in Nat, NEW j \in Text(r)
  PROVE  /\ Nth(r, j) \in Nat
         /\ j < x => Nth(r, j) \in 1..Cardinality(Above(r, x))
         /\ j >= x => Nth(r, j) > Cardinality(Above(r, x))
<1> DEFINE U == {k \in Text(r) : k <= j}
           A == Above(r, x)
<1>1. IsFiniteSet(U) /\ Cardinality(U) \in Nat /\ IsFiniteSet(A) /\ Cardinality(A) \in Nat
        /\ Text(r) \subseteq Nat
  <2>1. U \in SUBSET Text(r) /\ A \in SUBSET Text(r)
    BY DEF Above
  <2> QED
    BY <2>1, TextFinite
<1>2. Nth(r, j) = Cardinality(U)
  BY DEF Nth
<1>3. ASSUME j < x PROVE Cardinality(U) \in 1..Cardinality(A)
  <2>1. U \in SUBSET A
    BY <1>1, <1>3 DEF Above
  <2>2. U # {}
    BY <1>1
  <2>3. Cardinality(U) <= Cardinality(A) /\ Cardinality(U) # 0
    BY <1>1, <2>1, <2>2, FS_Subset, FS_EmptySet
  <2> QED
    BY <1>1, <2>3
<1>4. ASSUME j >= x PROVE Cardinality(U) > Cardinality(A)
  <2>1. A \cup {j} \in SUBSET U
    BY <1>1, <1>4 DEF Above
  <2>2. j \notin A
    BY <1>1, <1>4 DEF Above
  <2>3. Cardinality(A \cup {j}) = Cardinality(A) + 1
    BY <1>1, <2>2, FS_AddElement
  <2>4. Cardinality(A \cup {j}) <= Cardinality(U)
    BY <1>1, <2>1, FS_Subset
  <2> QED
    BY <1>1, <2>3, <2>4
<1> QED
  BY <1>1, <1>2, <1>3, <1>4

(* The next line of text. *)
LEMMA NextLine ==
  ASSUME NEW r \in Seq(Lines), NEW x \in Nat, NEW j \in Text(r), x <= j,
         \A k \in x..j - 1 : k \notin Text(r)
  PROVE  /\ Nth(r, j) = Cardinality(Above(r, x)) + 1
         /\ Cardinality(Above(r, j + 1)) = Cardinality(Above(r, x)) + 1
         /\ Above(r, j + 1) = Above(r, x) \cup {j}
<1> DEFINE A == Above(r, x)
<1>1. IsFiniteSet(A) /\ Text(r) \subseteq Nat
  <2>1. A \in SUBSET Text(r) /\ Text(r) \in SUBSET Text(r)
    BY DEF Above
  <2> QED
    BY <2>1, TextFinite
<1>2. {k \in Text(r) : k <= j} = A \cup {j} /\ Above(r, j + 1) = A \cup {j}
  BY <1>1 DEF Above
<1>3. j \notin A
  BY <1>1 DEF Above
<1> QED
  BY <1>1, <1>2, <1>3, FS_AddElement DEF Nth

---------------------------------------------------------------------------
(* The walk has passed c lines of text and is at line x. *)
Passed(r, x, c) ==
  /\ x \in 2..Len(r) + 1 /\ r # <<>> /\ r[1].kind = "header"
  /\ Cardinality(Above(r, x)) = c
  /\ \A p \in 1..c : \E j \in Above(r, x) : Nth(r, j) = p
FitAbove(r, x, m) == \A j \in Above(r, x) : Fitting(r, m, j)

(* A line of text is passed, and has the next number. *)
LEMMA PassLine ==
  ASSUME NEW r \in Seq(Lines), NEW x, NEW c \in Nat, Passed(r, x, c),
         NEW j \in Text(r), x <= j, \A k \in x..j - 1 : r[k].kind = "blank"
  PROVE  /\ Passed(r, j + 1, c + 1) /\ Nth(r, j) = c + 1
         /\ Above(r, j + 1) = Above(r, x) \cup {j}
<1>1. x \in Nat /\ j \in 2..Len(r) /\ Len(r) \in Nat
  BY DEF Passed, Text
<1>2. \A k \in x..j - 1 : k \notin Text(r)
  BY DEF Text
<1>3. /\ Nth(r, j) = c + 1 /\ Cardinality(Above(r, j + 1)) = c + 1
      /\ Above(r, j + 1) = Above(r, x) \cup {j}
  BY <1>1, <1>2, NextLine DEF Passed
<1>4. \A p \in 1..c + 1 : \E k \in Above(r, j + 1) : Nth(r, k) = p
  <2>1. ASSUME NEW p \in 1..c + 1, p # c + 1
        PROVE  \E k \in Above(r, j + 1) : Nth(r, k) = p
    <3>1. p \in 1..c
      BY <2>1
    <3> QED
      BY <1>3, <3>1 DEF Passed
  <2> QED
    BY <1>3, <2>1
<1> QED
  BY <1>1, <1>3, <1>4 DEF Passed

(* A blank line is passed without a trace. *)
LEMMA PassBlank ==
  ASSUME NEW r \in Seq(Lines), NEW x, NEW c \in Nat, Passed(r, x, c),
         x <= Len(r), r[x].kind = "blank"
  PROVE  Passed(r, x + 1, c) /\ Above(r, x + 1) = Above(r, x)
<1>1. x \in 2..Len(r) /\ Len(r) \in Nat /\ Text(r) \subseteq Nat
  BY DEF Passed, Text
<1>2. Above(r, x + 1) = Above(r, x)
  BY <1>1 DEF Above, Text
<1> QED
  BY <1>1, <1>2 DEF Passed

(* At the end, all text has been passed. *)
LEMMA PassEnd ==
  ASSUME NEW r \in Seq(Lines), NEW x, NEW c \in Nat, Passed(r, x, c),
         \A k \in x..Len(r) : r[k].kind = "blank"
  PROVE  Above(r, x) = Text(r)
BY DEF Passed, Above, Text

(* A line of text whose number has been passed is above. *)
LEMMA Numbered ==
  ASSUME NEW r \in Seq(Lines), NEW x, NEW c \in Nat, Passed(r, x, c), NEW j \in Text(r)
  PROVE  /\ Nth(r, j) \in Nat
         /\ j \in Above(r, x) <=> Nth(r, j) <= c
         /\ j \in Above(r, x) => Nth(r, j) >= 1
<1>1. x \in Nat /\ j \in Nat
  BY DEF Passed, Text
<1> QED
  BY <1>1, Beyond DEF Passed, Above

---------------------------------------------------------------------------
(* What a listing says, by the ways its walk can end: well formed ... *)
LEMMA SaysOk ==
  ASSUME NEW r \in Seq(Lines), r # <<>>, r[1].kind = "header",
         NEW m \in 0..Len(r), WellFormed(r, m)
  PROVE  Says(r, "ok", m)
<1>1. ~ \E j \in Text(r) : Nth(r, j) = 1 /\ r[j].kind = "active"
  BY DEF WellFormed, Fitting
<1>2. \E k \in 0..Len(r) : WellFormed(r, k)
  OBVIOUS
<1> HIDE DEF WellFormed
<1> QED
  BY <1>1, <1>2 DEF Says

(* ... the job is active ... *)
LEMMA SaysActive ==
  ASSUME NEW r \in Seq(Lines), r # <<>>, r[1].kind = "header",
         \E j \in Text(r) : Nth(r, j) = 1 /\ r[j].kind = "active"
  PROVE  Says(r, "active", 0)
BY DEF Says

(* ... or neither. *)
LEMMA SaysErr ==
  ASSUME NEW r \in Seq(Lines), r # <<>>, r[1].kind = "header",
         ~ \E j \in Text(r) : Nth(r, j) = 1 /\ r[j].kind = "active",
         ~ \E m \in 0..Len(r) : WellFormed(r, m)
  PROVE  Says(r, "err", 0)
BY DEF Says

(* The lines passed fit, and the first of them is no active job. *)
LEMMA NotActive ==
  ASSUME NEW r \in Seq(Lines), NEW x, NEW c \in Nat, c > 0, Passed(r, x, c),
         NEW m, FitAbove(r, x, m)
  PROVE  ~ \E j \in Text(r) : Nth(r, j) = 1 /\ r[j].kind = "active"
<1> SUFFICES ASSUME NEW j \in Text(r), Nth(r, j) = 1 PROVE r[j].kind # "active"
  OBVIOUS
<1>1. j \in Above(r, x)
  BY Numbered
<1> QED
  BY <1>1 DEF FitAbove, Fitting

(* A listing whose lines above x fit m details, like those from x on. *)
LEMMA EndsWell ==
  ASSUME NEW r \in Seq(Lines), NEW x, NEW c \in Nat, c > 0, Passed(r, x, c),
         NEW m \in Nat, FitAbove(r, x, m), m > 0 => c >= m + 3,
         \A j \in Text(r) : j \notin Above(r, x) => Fitting(r, m, j)
  PROVE  WellFormed(r, m)
<1>1. Text(r) # {}
  BY DEF Passed, Above
<1>2. ASSUME m > 0 PROVE \E j \in Text(r) : Nth(r, j) = m + 3
  <2>1. m + 3 \in 1..c
    BY <1>2
  <2> QED
    BY <2>1 DEF Passed, Above
<1>3. \A j \in Text(r) : Fitting(r, m, j)
  BY DEF FitAbove
<1> HIDE DEF Fitting
<1> QED
  BY <1>1, <1>2, <1>3 DEF WellFormed

(* A line before the details that fits no number of details. *)
LEMMA EndsBadly ==
  ASSUME NEW r \in Seq(Lines), NEW j \in Text(r), NEW p \in Nat, p = Nth(r, j),
         \/ p = 1 /\ r[j].kind \notin FiveFields \ {"active"}
         \/ p = 2 /\ r[j].kind # "separator"
         \/ p = 3 /\ r[j].kind # "columns"
  PROVE  ~ \E m \in 0..Len(r) : WellFormed(r, m)
BY DEF WellFormed, Fitting

(* A line after d details that neither is a detail nor counts them. *)
LEMMA BadTrailer ==
  ASSUME NEW r \in Seq(Lines), NEW x, NEW d \in Nat, Passed(r, x, d + 3), FitAbove(r, x, d),
         NEW j \in Text(r), Nth(r, j) = d + 4, r[j].kind # "detail",
         ~(r[j].kind = "count" /\ r[j].n = d)
  PROVE  ~ \E m \in 0..Len(r) : WellFormed(r, m)
<1> SUFFICES ASSUME NEW m \in 0..Len(r), WellFormed(r, m) PROVE FALSE
  OBVIOUS
<1>1. m \in Nat /\ Fitting(r, m, j)
  BY DEF WellFormed
<1>2. CASE m = d
  BY <1>1, <1>2 DEF Fitting
<1>3. CASE m > d
  BY <1>1, <1>3 DEF Fitting
<1>4. CASE m < d
  <2>1. m + 4 \in 1..d + 3
    BY <1>1, <1>4
  <2>2. PICK k \in Above(r, x) : Nth(r, k) = m + 4
    BY <2>1 DEF Passed
  <2>3. r[k].kind = "detail"
    BY <1>1, <1>4, <2>2 DEF FitAbove, Fitting
  <2>4. k \in Text(r)
    BY <2>2 DEF Above
  <2>5. r[k].kind = "count"
    BY <2>2, <2>4 DEF WellFormed, Fitting
  <2> QED
    BY <2>3, <2>5
<1> QED
  BY <1>1, <1>2, <1>3, <1>4

---------------------------------------------------------------------------
(* In every section the walk has passed what belongs above it. *)
WalkInv ==
  /\ records \in Seq(Lines) /\ i \in 1..Len(records) + 1 /\ dt \in Nat /\ dt < i
  /\ section \in {"first", "job", "separator", "columns", "details", "done"}
  /\ section \in {"first", "job", "separator", "columns"} => dt = 0
  /\ section = "job" => Passed(records, i, 0)
  /\ section = "separator" => Passed(records, i, 1)
  /\ section = "columns" => Passed(records, i, 2)
  /\ section = "details" => Passed(records, i, dt + 3)
  /\ section \in {"separator", "columns", "details"} => FitAbove(records, i, dt)
  /\ DetailAsListed

(* What processes do to the variables of SpoolListing. *)
WalkFresh ==
  /\ records' = <<>> /\ i' = 1 /\ section' = "done" /\ dt' = 0
  /\ result' = [out |-> "none", detail |-> 0]
WalkStep ==
  \/ WalkFresh
  \/ \E r \in Records : StartWalk(r)
  \/ WalkNext
  \/ UNCHANGED walkVars

(* A section that ends the walk returns what the listing says. *)
LEMMA ReturnStep ==
  ASSUME WalkInv, NEW out, NEW m, Parsed(out, m), Says(records, out, m)
  PROVE  WalkInv'
<1>1. section' = "done" /\ result' = [out |-> out, detail |-> m]
        /\ records' = records /\ i' = i /\ dt' = dt
  BY DEF Parsed
<1>2. Says(records, out, m)
  OBVIOUS
<1>3. DetailAsListed'
  <2>1. PICK x, y : x = result'.out /\ y = result'.detail
    OBVIOUS
  <2>2. x = out /\ y = m
    BY <1>1, <2>1
  <2>3. Says(records, x, y)
    BY <1>2, <2>2
  <2> QED
    BY <1>1, <2>1, <2>3 DEF DetailAsListed
<1> QED
  BY <1>1, <1>3 DEF WalkInv

(* A section that goes on has passed one more line of text. *)
LEMMA GotoStep ==
  ASSUME WalkInv, NEW s, NEW x, NEW c \in Nat, Goto(s, x),
         s \in {"job", "separator", "columns", "details"}, dt = 0,
         Passed(records, x, c), FitAbove(records, x, 0),
         c = CASE s = "job" -> 0 [] s = "separator" -> 1 [] s = "columns" -> 2 [] OTHER -> 3
  PROVE  WalkInv'
<1>1. section' = s /\ i' = x /\ records' = records /\ dt' = dt /\ result' = result
  BY DEF Goto
<1>2. x \in 1..Len(records) + 1 /\ x > 0
  BY DEF Passed, WalkInv
<1>3. DetailAsListed'
  BY <1>1 DEF DetailAsListed
<1>4. Passed(records', i', c) /\ FitAbove(records', i', dt')
  BY <1>1
<1> QED
  BY <1>1, <1>2, <1>3, <1>4 DEF WalkInv

(* The steps of the walk: the first line tells the interface level ... *)
LEMMA FirstLineStep == ASSUME WalkInv, FirstLine PROVE WalkInv'
<1>1. section = "first" /\ records \in Seq(Lines) /\ dt = 0
  BY DEF FirstLine, WalkInv
<1>2. CASE records = <<>> /\ Parsed("err", 0)
  <2>1. Says(records, "err", 0)
    BY <1>2 DEF Says
  <2> QED
    BY <1>2, <2>1, ReturnStep
<1>3. CASE records # <<>> /\ records[1].kind = "job1" /\ Parsed("ok", 0)
  <2>1. Says(records, "ok", 0)
    BY <1>3 DEF Says
  <2> QED
    BY <1>3, <2>1, ReturnStep
<1>4. CASE records # <<>> /\ records[1].kind \notin {"header", "job1"} /\ Parsed("err", 0)
  <2>1. Says(records, "err", 0)
    BY <1>4 DEF Says
  <2> QED
    BY <1>4, <2>1, ReturnStep
<1>5. CASE records # <<>> /\ records[1].kind = "header" /\ Goto("job", 2)
  <2>1. Above(records, 2) = {}
    BY DEF Above, Text
  <2>2. Passed(records, 2, 0) /\ FitAbove(records, 2, 0)
    <3>1. Len(records) \in Nat /\ Len(records) # 0
      BY <1>1, <1>5
    <3> QED
      BY <1>5, <2>1, <3>1, FS_EmptySet DEF Passed, FitAbove
  <2> QED
    BY <1>1, <1>5, <2>2, GotoStep
<1> QED
  BY <1>2, <1>3, <1>4, <1>5 DEF FirstLine

(* The next line of text in a section before the details. *)
LEMMA SectionLine ==
  ASSUME WalkInv, NEW c \in Nat, Passed(records, i, c), NEW j, j = skipBlank
  PROVE  /\ j \in Nat /\ Len(records) \in Nat
         /\ j > Len(records) => Above(records, i) = Text(records)
         /\ j <= Len(records) =>
              /\ j \in Text(records) /\ Passed(records, j + 1, c + 1)
              /\ Nth(records, j) = c + 1 /\ Above(records, j + 1) = Above(records, i) \cup {j}
<1>1. records \in Seq(Lines) /\ i \in 1..Len(records) + 1 /\ i >= 2 /\ Len(records) \in Nat
  BY DEF WalkInv, Passed
<1>2. /\ j \in i..Len(records) + 1
      /\ j <= Len(records) => records[j].kind # "blank"
      /\ \A k \in i..j - 1 : records[k].kind = "blank"
  BY <1>1, SkipFacts
<1>3. ASSUME j > Len(records) PROVE Above(records, i) = Text(records)
  <2>1. \A k \in i..Len(records) : records[k].kind = "blank"
    BY <1>1, <1>2, <1>3
  <2> QED
    BY <1>1, <2>1, PassEnd
<1>4. ASSUME j <= Len(records)
      PROVE  /\ j \in Text(records) /\ Passed(records, j + 1, c + 1)
             /\ Nth(records, j) = c + 1 /\ Above(records, j + 1) = Above(records, i) \cup {j}
  <2>1. j \in Text(records)
    BY <1>1, <1>2, <1>4 DEF Text
  <2> QED
    BY <1>1, <1>2, <2>1, PassLine
<1> QED
  BY <1>1, <1>2, <1>3, <1>4

(* ... the next line of text is the job's ... *)
LEMMA JobLineStep == ASSUME WalkInv, JobLine PROVE WalkInv'
<1>1. /\ section = "job" /\ records \in Seq(Lines) /\ dt = 0 /\ Passed(records, i, 0)
      /\ records # <<>> /\ records[1].kind = "header"
  BY DEF JobLine, WalkInv, Passed
<1>2. PICK j : j = skipBlank
  OBVIOUS
<1>3. /\ j \in Nat /\ Len(records) \in Nat
      /\ j > Len(records) => Above(records, i) = Text(records)
      /\ j <= Len(records) =>
           /\ j \in Text(records) /\ Passed(records, j + 1, 1)
           /\ Nth(records, j) = 1 /\ Above(records, j + 1) = Above(records, i) \cup {j}
  BY <1>1, <1>2, SectionLine
<1>4. IsFiniteSet(Above(records, i)) /\ Above(records, i) = {}
  <2>1. Above(records, i) \in SUBSET Text(records)
    BY DEF Above
  <2> QED
    BY <1>1, <2>1, TextFinite, FS_EmptySet DEF Passed
<1>5. CASE j > Len(records) /\ Parsed("err", 0)
  <2>1. Text(records) = {}
    BY <1>3, <1>4, <1>5
  <2>2. Says(records, "err", 0)
    BY <1>1, <2>1, SaysErr DEF WellFormed
  <2> QED
    BY <1>5, <2>2, ReturnStep
<1>6. CASE j <= Len(records) /\ records[j].kind = "active" /\ Parsed("active", 0)
  <2>1. Says(records, "active", 0)
    BY <1>1, <1>3, <1>6, SaysActive
  <2> QED
    BY <1>6, <2>1, ReturnStep
<1>7. CASE j <= Len(records) /\ records[j].kind \notin FiveFields /\ Parsed("err", 0)
  <2>1. ~ \E m \in 0..Len(records) : WellFormed(records, m)
    BY <1>1, <1>3, <1>7, EndsBadly
  <2>2. ~ \E k \in Text(records) : Nth(records, k) = 1 /\ records[k].kind = "active"
    <3> SUFFICES ASSUME NEW k \in Text(records), Nth(records, k) = 1
                 PROVE  records[k].kind # "active"
      OBVIOUS
    <3>1. k = j
      BY <1>1, <1>3, <1>4, <1>7, Numbered
    <3> QED
      BY <1>7, <3>1 DEF FiveFields
  <2>3. Says(records, "err", 0)
    BY <1>1, <2>1, <2>2, SaysErr
  <2> QED
    BY <1>7, <2>3, ReturnStep
<1>8. CASE /\ j <= Len(records) /\ records[j].kind \in FiveFields \ {"active"}
           /\ Goto("separator", j + 1)
  <2>1. FitAbove(records, j + 1, 0)
    BY <1>3, <1>4, <1>8 DEF FitAbove, Fitting
  <2> QED
    BY <1>1, <1>3, <1>8, <2>1, GotoStep
<1> QED
  BY <1>2, <1>5, <1>6, <1>7, <1>8 DEF JobLine

(* ... the next two are titles, where the listing may end ... *)
LEMMA TitleStep ==
  ASSUME WalkInv, NEW s, NEW next, Title(s, next),
         (s = "separator" /\ next = "columns") \/ (s = "columns" /\ next = "details")
  PROVE  WalkInv'
<1> DEFINE c == IF s = "separator" THEN 1 ELSE 2
<1>1. /\ section = s /\ records \in Seq(Lines) /\ dt = 0 /\ Passed(records, i, c)
      /\ records # <<>> /\ records[1].kind = "header" /\ FitAbove(records, i, 0)
      /\ c \in Nat /\ c > 0
  BY DEF Title, WalkInv, Passed
<1>2. PICK j : j = skipBlank
  OBVIOUS
<1>3. /\ j \in Nat /\ Len(records) \in Nat
      /\ j > Len(records) => Above(records, i) = Text(records)
      /\ j <= Len(records) =>
           /\ j \in Text(records) /\ Passed(records, j + 1, c + 1)
           /\ Nth(records, j) = c + 1 /\ Above(records, j + 1) = Above(records, i) \cup {j}
  BY <1>1, <1>2, SectionLine
<1>4. CASE j > Len(records) /\ Parsed("ok", 0)
  <2>1. WellFormed(records, 0)
    BY <1>1, <1>3, <1>4, EndsWell
  <2>2. Says(records, "ok", 0)
    BY <1>1, <1>3, <2>1, SaysOk
  <2> QED
    BY <1>4, <2>2, ReturnStep
<1>5. CASE j <= Len(records) /\ records[j].kind # s /\ Parsed("err", 0)
  <2>1. ~ \E m \in 0..Len(records) : WellFormed(records, m)
    BY <1>1, <1>3, <1>5, EndsBadly
  <2>2. Says(records, "err", 0)
    BY <1>1, <2>1, NotActive, SaysErr
  <2> QED
    BY <1>5, <2>2, ReturnStep
<1>6. CASE j <= Len(records) /\ records[j].kind = s /\ Goto(next, j + 1)
  <2>1. Fitting(records, 0, j)
    BY <1>3, <1>6 DEF Fitting
  <2>2. FitAbove(records, j + 1, 0)
    BY <1>1, <1>3, <1>6, <2>1 DEF FitAbove
  <2> QED
    BY <1>1, <1>3, <1>6, <2>2, GotoStep
<1> QED
  BY <1>2, <1>4, <1>5, <1>6 DEF Title

(* ... and then come the details and their count. *)
LEMMA DetailLineStep == ASSUME WalkInv, DetailLine PROVE WalkInv'
<1>1. /\ section = "details" /\ records \in Seq(Lines) /\ dt \in Nat
      /\ Passed(records, i, dt + 3)
      /\ records # <<>> /\ records[1].kind = "header" /\ FitAbove(records, i, dt)
      /\ Len(records) \in Nat /\ i \in 2..Len(records) + 1 /\ dt < i
  BY DEF DetailLine, WalkInv, Passed
<1>2. dt \in 0..Len(records)
  BY <1>1
<1>3. CASE i > Len(records) /\ Parsed("ok", dt)
  <2>1. Above(records, i) = Text(records)
    BY <1>1, <1>3, PassEnd
  <2>2. WellFormed(records, dt)
    BY <1>1, <2>1, EndsWell
  <2>3. Says(records, "ok", dt)
    BY <1>1, <1>2, <2>2, SaysOk
  <2> QED
    BY <1>3, <2>3, ReturnStep
<1>4. CASE i <= Len(records) /\ records[i].kind = "blank" /\ Goto("details", i + 1)
  <2>1. Passed(records, i + 1, dt + 3) /\ FitAbove(records, i + 1, dt)
    BY <1>1, <1>4, PassBlank DEF FitAbove
  <2>2. /\ section' = "details" /\ i' = i + 1 /\ records' = records /\ dt' = dt
        /\ result' = result
    BY <1>4 DEF Goto
  <2>3. Passed(records', i', dt' + 3) /\ FitAbove(records', i', dt')
    BY <2>1, <2>2
  <2> QED
    BY <1>1, <1>4, <2>2, <2>3 DEF WalkInv, DetailAsListed
<1>5. ASSUME i <= Len(records), records[i].kind # "blank"
      PROVE  /\ i \in Text(records) /\ Nth(records, i) = dt + 4
             /\ Passed(records, i + 1, dt + 4)
             /\ Above(records, i + 1) = Above(records, i) \cup {i}
  <2>1. i \in Text(records)
    BY <1>1, <1>5 DEF Text
  <2>2. PICK c \in Nat : c = dt + 3
    BY <1>1
  <2>3. Passed(records, i, c)
    BY <1>1, <2>2
  <2>4. /\ Passed(records, i + 1, c + 1) /\ Nth(records, i) = c + 1
        /\ Above(records, i + 1) = Above(records, i) \cup {i}
    BY <1>1, <2>1, <2>3, PassLine
  <2>5. c + 1 = dt + 4
    BY <1>1, <2>2
  <2> QED
    BY <2>1, <2>4, <2>5
<1>6. ASSUME i <= Len(records), records[i].kind = "count", records[i].n = dt, Parsed("ok", dt)
      PROVE  WalkInv'
  <2>1. i \in Text(records) /\ Nth(records, i) = dt + 4 /\ Passed(records, i + 1, dt + 4)
          /\ Above(records, i + 1) = Above(records, i) \cup {i}
    BY <1>5, <1>6
  <2>2. records[i] = [kind |-> "count", n |-> dt]
    <3>1. records[i] \in Lines
      BY <1>1, <1>6
    <3>2. records[i] \in [kind : {"count"}, n : 0..MaxDetails + 1]
      BY <1>6, <3>1 DEF Lines, Line
    <3> QED
      BY <1>6, <3>2
  <2>3. ASSUME NEW j \in Text(records), j \notin Above(records, i) PROVE Fitting(records, dt, j)
    <3>1. CASE j = i
      BY <1>1, <2>1, <2>2, <3>1 DEF Fitting
    <3>2. CASE j # i
      <4>1. j \notin Above(records, i + 1)
        BY <2>1, <2>3, <3>2
      <4>2. PICK c \in Nat : c = dt + 4
        BY <1>1
      <4>3. Passed(records, i + 1, c)
        BY <2>1, <4>2
      <4>4. ~(Nth(records, j) <= c) /\ Nth(records, j) \in Nat
        BY <1>1, <4>1, <4>3, Numbered
      <4> QED
        BY <1>1, <4>2, <4>4 DEF Fitting
    <3> QED
      BY <3>1, <3>2
  <2>4. WellFormed(records, dt)
    BY <1>1, <2>3, EndsWell
  <2>5. Says(records, "ok", dt)
    BY <1>1, <1>2, <2>4, SaysOk
  <2> QED
    BY <1>6, <2>5, ReturnStep
<1>7. ASSUME i <= Len(records), records[i].kind \notin {"blank", "detail"},
             ~(records[i].kind = "count" /\ records[i].n = dt), Parsed("err", 0)
      PROVE  WalkInv'
  <2>1. ~ \E m \in 0..Len(records) : WellFormed(records, m)
    BY <1>1, <1>5, <1>7, BadTrailer
  <2>2. Says(records, "err", 0)
    BY <1>1, <2>1, NotActive, SaysErr
  <2> QED
    BY <1>7, <2>2, ReturnStep
<1>8. ASSUME i <= Len(records), records[i].kind = "detail", dt' = dt + 1, i' = i + 1,
             UNCHANGED <<records, section, result>>
      PROVE  WalkInv'
  <2>1. i \in Text(records) /\ Nth(records, i) = dt + 4 /\ Passed(records, i + 1, dt + 4)
          /\ Above(records, i + 1) = Above(records, i) \cup {i}
    BY <1>5, <1>8
  <2>2. ASSUME NEW j \in Above(records, i + 1) PROVE Fitting(records, dt + 1, j)
    <3>1. CASE j = i
      BY <1>1, <1>8, <2>1, <3>1 DEF Fitting
    <3>2. CASE j # i
      <4>1. j \in Above(records, i) /\ j \in Text(records)
        BY <2>1, <3>2 DEF Above
      <4>2. Nth(records, j) <= dt + 3 /\ Nth(records, j) \in Nat
        BY <1>1, <4>1, Numbered
      <4>3. Fitting(records, dt, j)
        BY <1>1, <4>1 DEF FitAbove
      <4> QED
        BY <1>1, <4>2, <4>3 DEF Fitting
    <3> QED
      BY <3>1, <3>2
  <2>3. Passed(records', i', dt' + 3) /\ FitAbove(records', i', dt')
    <3>1. dt + 4 = (dt + 1) + 3
      BY <1>1
    <3>2. FitAbove(records, i + 1, dt + 1)
      BY <2>2 DEF FitAbove
    <3> QED
      BY <1>8, <2>1, <3>1, <3>2
  <2> QED
    BY <1>1, <1>8, <2>3 DEF WalkInv, DetailAsListed
<1> QED
  BY <1>3, <1>4, <1>6, <1>7, <1>8 DEF DetailLine

(* ParseInfoJobDetail keeps its invariant. *)
LEMMA WalkInvStep == WalkInv /\ WalkStep => WalkInv'
<1> SUFFICES ASSUME WalkInv, WalkStep PROVE WalkInv'
  OBVIOUS
<1>1. ASSUME WalkFresh PROVE WalkInv'
  BY <1>1 DEF WalkFresh, WalkInv, DetailAsListed
<1>2. ASSUME NEW r \in Records, StartWalk(r) PROVE WalkInv'
  BY <1>2, RecordsFacts DEF StartWalk, WalkInv, DetailAsListed
<1>3. ASSUME WalkNext PROVE WalkInv'
  BY <1>3, FirstLineStep, JobLineStep, TitleStep, DetailLineStep DEF WalkNext
<1>4. ASSUME UNCHANGED walkVars PROVE WalkInv'
  BY <1>4 DEF walkVars, WalkInv, DetailAsListed
<1> QED
  BY <1>1, <1>2, <1>3, <1>4 DEF WalkStep

(* Before a process reads anything. *)
LEMMA InitWalk == WalkInit => WalkInv
BY DEF WalkInit, WalkInv, DetailAsListed
=============================================================================
