------------------------- MODULE NewsIngestionProofs -------------------------
(***************************************************************************)
(* Proofs about NewsIngestion, for every set of symbols, registrants and   *)
(* identifiers, every environment and every bound on faults and time.      *)
(***************************************************************************)
EXTENDS NewsIngestion, FiniteSetTheorems, WellFoundedInduction, TLAPS

-----------------------------------------------------------------------------
(* Numbers.                                                                *)

(* A set of natural numbers has a least element.                           *)
LEMMA LeastExists ==
    ASSUME NEW T \in SUBSET Nat, T # {}
    PROVE  \E x \in T : \A y \in T : x <= y
<1> DEFINE R == OpToRel(<, Nat)
<1>1. PICK x \in T : \A y \in T : ~(<<y, x>> \in R)
  BY NatLessThanWellFounded, WFMin, Zenon
<1>2. \A y \in T : ~(y < x)
  BY <1>1 DEF OpToRel
<1>3. QED
  BY <1>2

-----------------------------------------------------------------------------
(* The files.                                                              *)

(* The rows that decode, of whatever version the file is.                  *)
AllRows(file) == {file.rows[i] : i \in DOMAIN file.rows}

(* What is left of an append, whole or cut short: no row but the new one   *)
(* joins the file, and it can be read only if it could be read before and  *)
(* kept every row; the row of an interrupted append is there or is not.    *)
LEMMA AppendProperty ==
    ASSUME NEW Row, NEW f \in File(Row), NEW row \in Row,
           NEW g \in CutShort(f, row) \cup {Appended(f, row)}
    PROVE  /\ g \in File(Row)
           /\ AllRows(g) \subseteq AllRows(f) \cup {row}
           /\ IsReadable(g) => IsReadable(f) /\ g.rows \in {f.rows, Append(f.rows, row)}
           /\ g = Appended(f, row) /\ IsReadable(g) => g.rows = Append(f.rows, row)
<1>1. f.rows \in Seq(Row) /\ f.last \in Lasts /\ f.corrupt \in BOOLEAN /\ f.foreign \in BOOLEAN
  BY DEF File
<1>2. SubSeq(f.rows, 1, Len(f.rows) - 1) \in Seq(Row)
  BY <1>1
<1>3. Append(f.rows, row) \in Seq(Row)
  BY <1>1
<1>4. Appended(f, row) \in File(Row)
  BY <1>1, <1>2, <1>3 DEF Appended, File, Lasts
<1>5. \A last \in Lasts : /\ [f EXCEPT !.last = last] \in File(Row)
                          /\ [Appended(f, row) EXCEPT !.last = last] \in File(Row)
  BY <1>4 DEF File
<1>6. g \in File(Row)
  BY <1>4, <1>5 DEF CutShort, Lasts
<1>7. AllRows(Appended(f, row)) \subseteq AllRows(f) \cup {row}
  <2>1. CASE f.last = "whole"
    <3>1. Appended(f, row).rows = Append(f.rows, row)
      BY <1>1, <2>1 DEF Appended, File
    <3>2. QED
      BY <1>1, <3>1 DEF AllRows
  <2>2. CASE f.last = "torn"
    <3>1. Appended(f, row).rows = f.rows
      BY <1>1, <2>2 DEF Appended, File
    <3>2. QED
      BY <3>1 DEF AllRows
  <2>3. CASE f.last = "unterminated"
    <3>1. Appended(f, row).rows = SubSeq(f.rows, 1, Len(f.rows) - 1)
      BY <1>1, <2>3 DEF Appended, File
    <3>2. \A i \in DOMAIN SubSeq(f.rows, 1, Len(f.rows) - 1) :
              i \in DOMAIN f.rows /\ SubSeq(f.rows, 1, Len(f.rows) - 1)[i] = f.rows[i]
      BY <1>1
    <3>3. QED
      BY <3>1, <3>2 DEF AllRows
  <2>4. QED
    BY <1>1, <2>1, <2>2, <2>3 DEF Lasts
<1>8. AllRows(g) \subseteq AllRows(f) \cup {row}
  <2>1. \A last \in Lasts : /\ [f EXCEPT !.last = last].rows = f.rows
                            /\ [Appended(f, row) EXCEPT !.last = last].rows = Appended(f, row).rows
    BY <1>4 DEF File
  <2>2. g.rows = f.rows \/ g.rows = Appended(f, row).rows
    BY <2>1 DEF CutShort, Lasts
  <2>3. QED
    BY <1>7, <2>2 DEF AllRows
<1>9. f = [rows |-> f.rows, last |-> f.last, corrupt |-> f.corrupt, foreign |-> f.foreign]
  BY DEF File
<1>10. IsReadable(Appended(f, row)) => IsReadable(f) /\ Appended(f, row).rows = Append(f.rows, row)
  BY <1>1, <1>9 DEF Appended, IsReadable, IsDamaged, Lasts
<1>11. IsReadable(g) => IsReadable(f) /\ g.rows \in {f.rows, Append(f.rows, row)}
  <2>1. CASE g \in {f, Appended(f, row)}
    BY <1>10, <2>1
  <2>2. CASE f.last = "whole" /\ g = [f EXCEPT !.last = "torn"]
    BY <2>2, <1>9 DEF IsReadable, IsDamaged
  <2>3. CASE f.last = "whole" /\ g = [Appended(f, row) EXCEPT !.last = "unterminated"]
    BY <2>3, <1>1, <1>9 DEF IsReadable, IsDamaged, Appended
  <2>4. CASE f.last # "whole" /\ g = [Appended(f, row) EXCEPT !.last = "torn"]
    BY <2>4, <1>4 DEF IsReadable, IsDamaged, File
  <2>5. QED
    BY <2>1, <2>2, <2>3, <2>4 DEF CutShort
<1>12. QED
  BY <1>6, <1>8, <1>10, <1>11

(* A strict read sees every row.                                           *)
LEMMA ReadableIsRead ==
    ASSUME NEW f, IsReadable(f)
    PROVE  RowsRead(f) = AllRows(f)
BY DEF IsReadable, RowsRead, AllRows

(* The rows of a file are finitely many, and of its type.                  *)
LEMMA RowsType ==
    ASSUME NEW Row, NEW f \in File(Row)
    PROVE  /\ AllRows(f) \subseteq Row
           /\ RowsRead(f) \subseteq AllRows(f)
           /\ IsFiniteSet(AllRows(f))
           /\ IsFiniteSet(RowsRead(f))
<1>1. f.rows \in Seq(Row)
  BY DEF File
<1>2. AllRows(f) \subseteq Row /\ RowsRead(f) \subseteq AllRows(f)
  BY <1>1 DEF AllRows, RowsRead
<1>3. IsFiniteSet(1 .. Len(f.rows))
  BY <1>1, FS_Interval
<1>4. f.rows \in Surjection(1 .. Len(f.rows), AllRows(f))
  BY <1>1 DEF Surjection, AllRows
<1>5. IsFiniteSet(AllRows(f))
  BY <1>3, <1>4, FS_Surjection
<1>6. QED
  BY <1>2, <1>5, FS_Subset

(* With a row appended, the new row joins those that decode.               *)
LEMMA AppendedRows ==
    ASSUME NEW Row, NEW f \in File(Row), NEW row \in Row, NEW g,
           g.rows = Append(f.rows, row)
    PROVE  AllRows(g) = AllRows(f) \cup {row}
<1>1. f.rows \in Seq(Row)
  BY DEF File
<1>2. /\ DOMAIN g.rows = 1 .. Len(f.rows) + 1
      /\ \A i \in 1 .. Len(f.rows) : g.rows[i] = f.rows[i]
      /\ g.rows[Len(f.rows) + 1] = row
      /\ DOMAIN f.rows = 1 .. Len(f.rows)
      /\ Len(f.rows) \in Nat
  BY <1>1
<1>3. QED
  BY <1>2 DEF AllRows

-----------------------------------------------------------------------------
(* Histories.                                                              *)

Documents ==
    [id : Ids, signature : Registrants \cup Urls, text : Texts, source_time : Int,
     available_from : Int, retrieved_at : Nat, revision : Nat \ {0}]

OneSignature(rows) ==
    \A one, other \in rows : one.id = other.id => one.signature = other.signature

(* The rows of every document are one history.                             *)
Whole(rows) ==
    /\ \A row \in rows :
          RevisionNumbers(rows, row.id) = 1 .. Cardinality(RevisionsOf(rows, row.id))
    /\ \A one, other \in rows : one.id = other.id =>
          /\ one.revision = other.revision => one = other
          /\ one.revision <= other.revision => one.retrieved_at <= other.retrieved_at
          /\ other.revision = one.revision + 1 => ~HasSameContent(one, other)

(* The current row of a document carries the number of its rows.           *)
LEMMA CurrentIsLast ==
    ASSUME NEW rows \in SUBSET Documents, IsFiniteSet(rows), Whole(rows),
           NEW id, IsStored(rows, id)
    PROVE  /\ Current(rows, id) \in RevisionsOf(rows, id)
           /\ Current(rows, id).revision = Cardinality(RevisionsOf(rows, id))
           /\ \A other \in RevisionsOf(rows, id) : other.revision <= Current(rows, id).revision
<1> DEFINE mine == RevisionsOf(rows, id)
<1>1. mine \subseteq rows /\ mine # {} /\ IsFiniteSet(mine)
  BY FS_Subset DEF RevisionsOf, IsStored
<1>2. Cardinality(mine) \in Nat /\ Cardinality(mine) # 0
  BY <1>1, FS_CardinalityType, FS_EmptySet
<1>3. RevisionNumbers(rows, id) = 1 .. Cardinality(mine)
  BY <1>1 DEF Whole, RevisionsOf
<1>4. PICK last \in mine : last.revision = Cardinality(mine)
  <2>1. Cardinality(mine) \in RevisionNumbers(rows, id)
    BY <1>2, <1>3
  <2>2. QED
    BY <2>1 DEF RevisionNumbers
<1>5. \A other \in mine : other.revision \in 1 .. Cardinality(mine)
  BY <1>3 DEF RevisionNumbers
<1>6. \A other \in mine : other.revision <= last.revision
  BY <1>2, <1>4, <1>5
<1>7. /\ Current(rows, id) \in mine
      /\ \A other \in mine : other.revision <= Current(rows, id).revision
  <2>1. \E row \in RevisionsOf(rows, id) :
            \A other \in RevisionsOf(rows, id) : other.revision <= row.revision
    BY <1>6
  <2>2. QED
    BY <2>1, Zenon DEF Current
<1>8. Current(rows, id).revision = Cardinality(mine)
  <2>1. last.revision <= Current(rows, id).revision
    BY <1>7
  <2>2. Current(rows, id).revision \in 1 .. Cardinality(mine)
    BY <1>5, <1>7
  <2>3. QED
    BY <1>2, <1>4, <2>1, <2>2
<1>9. QED
  BY <1>7, <1>8

(* A document that is new, or a revision of the one there is, extends its  *)
(* own history and no other, and is what the document stands at.           *)
LEMMA HistoryGrows ==
    ASSUME NEW rows \in SUBSET Documents, IsFiniteSet(rows), Whole(rows), OneSignature(rows),
           NEW document \in Documents, document.revision = 1,
           \A row \in rows : row.retrieved_at <= document.retrieved_at,
           Classified(rows, document) \in {"accepted", "revision"},
           NEW joined, joined = rows \cup {Revised(rows, document)}
    PROVE  /\ Revised(rows, document) \in Documents
           /\ Revised(rows, document) = [document EXCEPT !.revision = Revised(rows, document).revision]
           /\ Whole(joined) /\ OneSignature(joined)
           /\ Current(joined, document.id) = Revised(rows, document)
           /\ IsStored(joined, document.id)
           /\ \A id : id # document.id => RevisionsOf(joined, id) = RevisionsOf(rows, id)
<1> DEFINE id == document.id
           new == Revised(rows, document)
           mine == RevisionsOf(rows, id)
           card == Cardinality(mine)
<1>0. mine \subseteq rows /\ IsFiniteSet(mine) /\ card \in Nat
  BY FS_Subset, FS_CardinalityType DEF RevisionsOf
<1>1. /\ new \in Documents /\ new = [document EXCEPT !.revision = new.revision]
      /\ new.revision = card + 1
  <2>1. CASE ~IsStored(rows, id)
    <3>1. Classified(rows, document) = "accepted"
      BY <2>1 DEF Classified
    <3>2. new = document
      BY <3>1 DEF Revised
    <3>3. card = 0
      BY <2>1, FS_EmptySet DEF IsStored
    <3>4. document = [document EXCEPT !.revision = document.revision]
      BY DEF Documents
    <3>5. QED
      BY <3>2, <3>3, <3>4
  <2>2. CASE IsStored(rows, id)
    <3>1. Classified(rows, document) = "revision"
      BY <2>2 DEF Classified
    <3>2. new = [document EXCEPT !.revision = Current(rows, id).revision + 1]
      BY <3>1 DEF Revised
    <3>3. Current(rows, id).revision = card
      BY <2>2, CurrentIsLast
    <3>4. PICK k \in Nat : k = card + 1
      BY <1>0
    <3>5. new = [document EXCEPT !.revision = k]
      BY <3>2, <3>3, <3>4
    <3>6. k \in Nat \ {0}
      BY <1>0, <3>4
    <3>7. QED
      BY <3>4, <3>5, <3>6 DEF Documents
  <2>3. QED
    BY <2>1, <2>2
<1>2. /\ new.id = id /\ new.signature = document.signature /\ new.text = document.text
      /\ new.source_time = document.source_time /\ new.retrieved_at = document.retrieved_at
  BY <1>1 DEF Documents
<1> HIDE DEF new
<1>3. joined = rows \cup {new}
  BY DEF new
<1>4. \A other : other # id => RevisionsOf(joined, other) = RevisionsOf(rows, other)
  BY <1>2, <1>3 DEF RevisionsOf
<1>5. RevisionsOf(joined, id) = mine \cup {new}
  BY <1>2, <1>3 DEF RevisionsOf
<1>6. ASSUME NEW row \in mine
      PROVE  row.revision \in 1 .. card
  <2>1. row \in rows /\ row.id = id
    BY DEF RevisionsOf
  <2>2. RevisionNumbers(rows, row.id) = 1 .. Cardinality(RevisionsOf(rows, row.id))
    BY <2>1, Zenon DEF Whole
  <2>3. RevisionNumbers(rows, id) = 1 .. card
    BY <2>1, <2>2
  <2>4. row.revision \in RevisionNumbers(rows, id)
    BY DEF RevisionNumbers
  <2>5. QED
    BY <2>3, <2>4
<1>7. new \notin mine
  BY <1>0, <1>1, <1>6
<1>8. Cardinality(mine \cup {new}) = card + 1
  BY <1>0, <1>7, FS_AddElement
<1>9. mine # {} => /\ Current(rows, id) \in mine /\ Current(rows, id).revision = card
                   /\ Current(rows, id).signature = document.signature
                   /\ ~HasSameContent(Current(rows, id), document)
  <2>1. mine # {} => Classified(rows, document) = "revision"
    BY DEF Classified, IsStored
  <2>2. QED
    BY <2>1, CurrentIsLast DEF Classified, IsStored
<1>10. OneSignature(joined)
  <2>1. \A row \in mine : row.signature = document.signature
    BY <1>0, <1>9 DEF OneSignature, RevisionsOf
  <2>2. \A row \in rows : row.id = id => row.signature = new.signature
    BY <1>2, <2>1 DEF RevisionsOf
  <2>3. QED
    BY <1>2, <1>3, <2>2 DEF OneSignature
<1>11. \A row \in joined :
           RevisionNumbers(joined, row.id) = 1 .. Cardinality(RevisionsOf(joined, row.id))
  <2>1. ASSUME NEW row \in joined, row.id # id
        PROVE  RevisionNumbers(joined, row.id) = 1 .. Cardinality(RevisionsOf(joined, row.id))
    <3>1. row \in rows
      BY <1>2, <1>3, <2>1
    <3>2. QED
      BY <1>4, <2>1, <3>1 DEF Whole, RevisionNumbers
  <2>2. RevisionNumbers(joined, id) = 1 .. Cardinality(RevisionsOf(joined, id))
    <3>1. RevisionNumbers(joined, id) = RevisionNumbers(rows, id) \cup {card + 1}
      BY <1>1, <1>5 DEF RevisionNumbers
    <3>2. RevisionNumbers(rows, id) = 1 .. card
      <4>1. CASE mine = {}
        <5>1. card = 0
          BY <4>1, FS_EmptySet
        <5>2. RevisionNumbers(rows, id) = {}
          BY <4>1 DEF RevisionNumbers
        <5>3. 1 .. card = {}
          BY <5>1
        <5>4. QED
          BY <5>2, <5>3
      <4>2. CASE mine # {}
        BY <1>0, <4>2 DEF Whole, RevisionsOf
      <4>3. QED
        BY <4>1, <4>2
    <3>3. \A k \in Nat : (1 .. k) \cup {k + 1} = 1 .. k + 1
      OBVIOUS
    <3>4. (1 .. card) \cup {card + 1} = 1 .. card + 1
      BY <1>0, <3>3
    <3>5. QED
      BY <1>5, <1>8, <3>1, <3>2, <3>4
  <2>3. QED
    BY <2>1, <2>2
<1>12. ASSUME NEW one \in joined, NEW other \in joined, one.id = other.id
       PROVE  /\ one.revision = other.revision => one = other
              /\ one.revision <= other.revision => one.retrieved_at <= other.retrieved_at
              /\ other.revision = one.revision + 1 => ~HasSameContent(one, other)
  <2>1. CASE one \in rows /\ other \in rows
    BY <1>12, <2>1 DEF Whole
  <2>2. CASE one = new /\ other = new
    BY <2>2, <1>1 DEF Documents
  <2>3. CASE one \in rows /\ other = new
    <3>1. one \in mine
      BY <1>2, <1>12, <2>3 DEF RevisionsOf
    <3>2. one.revision \in 1 .. card
      BY <1>6, <3>1
    <3>3. other.revision = one.revision + 1 => one = Current(rows, id)
      BY <1>0, <1>1, <1>9, <2>3, <3>1, <3>2 DEF Whole, RevisionsOf
    <3>4. other.revision = one.revision + 1 => ~HasSameContent(one, other)
      BY <1>2, <1>9, <2>3, <3>1, <3>3 DEF HasSameContent
    <3>5. one.retrieved_at <= other.retrieved_at
      BY <1>2, <2>3
    <3>6. one.revision # other.revision
      BY <1>0, <1>1, <2>3, <3>2
    <3>7. QED
      BY <3>4, <3>5, <3>6
  <2>4. CASE one = new /\ other \in rows
    <3>1. other \in mine
      BY <1>2, <1>12, <2>4 DEF RevisionsOf
    <3>2. other.revision \in 1 .. card /\ one.revision = card + 1
      BY <1>1, <1>6, <2>4, <3>1
    <3>3. QED
      BY <1>0, <3>2
  <2>5. QED
    BY <1>3, <1>12, <2>1, <2>2, <2>3, <2>4
<1>13. Whole(joined)
  BY <1>11, <1>12 DEF Whole
<1>14. Current(joined, id) = new
  <2>1. \A other \in RevisionsOf(joined, id) : other.revision <= new.revision
    BY <1>0, <1>1, <1>5, <1>6
  <2>2. \A row \in RevisionsOf(joined, id) :
            (\A other \in RevisionsOf(joined, id) : other.revision <= row.revision) => row = new
    <3>1. SUFFICES ASSUME NEW row \in mine, card + 1 <= row.revision PROVE FALSE
      BY <1>1, <1>5
    <3>2. row.revision \in 1 .. card
      BY <1>6
    <3>3. QED
      BY <1>0, <3>1, <3>2
  <2>3. new \in RevisionsOf(joined, id)
    BY <1>5
  <2>4. QED
    BY <2>1, <2>2, <2>3, Zenon DEF Current
<1>15. IsStored(joined, id)
  BY <1>5 DEF IsStored
<1>16. QED
  BY <1>1, <1>4, <1>10, <1>13, <1>14, <1>15 DEF new

-----------------------------------------------------------------------------
(* Types.                                                                  *)

Maps == [Symbols -> Registrants \cup {Unlisted}]

Links ==
    [id : Ids, symbol : Symbols, association : {"verified_source", "queried_symbol"},
     registrant : Registrants \cup {None}]

Outcomes == {"pending", "unconfigured", "unsupported", "failed", "no_items", "success"}

(* Records, each at its place.                                             *)
Records == UNION {[D -> Documents] : D \in SUBSET Nat}

Results == [outcome : Outcomes, counts : [Counters -> Nat], answer : Records]

Runs ==
    [symbol : Symbols, source : Sources \cup {None}, records : Records, written : BOOLEAN,
     results : [Sources -> Results]]

EnvironmentType ==
    [maps    : SUBSET Maps,
     answers : [Sources -> SUBSET Seq(RawRow)],
     faults  : Nat, changes : Nat, foreign : Nat]

(* A source is asked only if it is configured and covers the symbol, and   *)
(* stays the one that is written until its last record.                    *)
RunOK ==
    run # None =>
        /\ run \in Runs
        /\ service # None
        /\ run.written => run.source # None
        /\ run.source # None =>
              /\ DOMAIN run.records # {}
              /\ IsPending(run.source)
              /\ IsConfigured(run.source)
              /\ IsCovered(run.source)

Typed ==
    /\ now \in Ticks
    /\ documents \in [Sources -> File(Documents)]
    /\ links \in [Sources -> File(Links)]
    /\ published \in Maps
    /\ mapfile \in Maps \cup {None}
    /\ service # None => service \in [map : Maps \cup {None}]
    /\ left \in EnvironmentType
    /\ RunOK

LEMMA RecordsProperty ==
    ASSUME NEW f \in Records
    PROVE  /\ DOMAIN f \subseteq Nat
           /\ \A n \in DOMAIN f : f[n] \in Documents
           /\ \A D \in SUBSET DOMAIN f : Restrict(f, D) \in Records
<1>1. PICK D \in SUBSET Nat : f \in [D -> Documents]
  BY DEF Records
<1>2. \A E \in SUBSET DOMAIN f : Restrict(f, E) \in [E -> Documents]
  BY <1>1 DEF Restrict
<1>3. \A E \in SUBSET DOMAIN f : E \in SUBSET Nat
  BY <1>1
<1>4. \A E \in SUBSET DOMAIN f : Restrict(f, E) \in Records
  BY <1>2, <1>3 DEF Records
<1>5. QED
  BY <1>1, <1>4

(* The place of the record to write next.                                  *)
LEMMA PlaceIsFirst ==
    ASSUME NEW f \in Records, DOMAIN f # {}
    PROVE  /\ Place(f) \in DOMAIN f
           /\ \A m \in DOMAIN f : Place(f) <= m
<1>1. DOMAIN f \in SUBSET Nat
  BY RecordsProperty
<1>2. \E n \in DOMAIN f : \A m \in DOMAIN f : n <= m
  BY <1>1, LeastExists
<1>3. QED
  BY <1>2, Zenon DEF Place

(* What a report, a count and the step to the next record change of a run. *)
LEMMA ReportType ==
    ASSUME run \in Runs, NEW source \in Sources, NEW outcome \in Outcomes,
           Report(source, outcome)
    PROVE  /\ run' \in Runs
           /\ run'.symbol = run.symbol /\ run'.source = run.source
           /\ run'.records = run.records /\ run'.written = run.written
           /\ \A s \in Sources \ {source} : run'.results[s] = run.results[s]
           /\ run'.results[source].counts = run.results[source].counts
           /\ run'.results[source].answer = run.results[source].answer
           /\ run'.results[source].outcome = outcome
BY DEF Runs, Results, Report

LEMMA CountedType ==
    ASSUME run \in Runs, run.source \in Sources, NEW counter \in Counters,
           NEW q, q = Counted(counter)
    PROVE  /\ q \in Runs
           /\ q.symbol = run.symbol /\ q.source = run.source
           /\ q.records = run.records /\ q.written = run.written
           /\ \A s \in Sources \ {run.source} : q.results[s] = run.results[s]
           /\ q.results[run.source].answer = run.results[run.source].answer
           /\ q.results[run.source].outcome = run.results[run.source].outcome
           /\ q.results[run.source].counts[counter] = run.results[run.source].counts[counter] + 1
           /\ \A other \in Counters \ {counter} :
                  q.results[run.source].counts[other] = run.results[run.source].counts[other]
<1> DEFINE s == run.source
           res == run.results[s]
           more == [res EXCEPT !.counts[counter] = @ + 1]
<1>1. res \in Results
  BY DEF Runs
<1>2. /\ more \in Results /\ more.answer = res.answer /\ more.outcome = res.outcome
      /\ more.counts[counter] = res.counts[counter] + 1
      /\ \A other \in Counters \ {counter} : more.counts[other] = res.counts[other]
  BY <1>1 DEF Results
<1>3. q = [run EXCEPT !.results = [@ EXCEPT ![s] = more]]
  BY DEF Counted, Runs
<1> HIDE DEF more, res
<1>4. [run.results EXCEPT ![s] = more] \in [Sources -> Results]
  BY <1>2 DEF Runs
<1>5. q.results = [run.results EXCEPT ![s] = more]
  BY <1>3 DEF Runs
<1>6. q \in Runs /\ q.symbol = run.symbol /\ q.source = run.source
      /\ q.records = run.records /\ q.written = run.written
  BY <1>3, <1>4 DEF Runs
<1>7. q.results[s] = more /\ \A other \in Sources \ {s} : q.results[other] = run.results[other]
  BY <1>5 DEF Runs
<1>8. QED
  BY <1>2, <1>6, <1>7 DEF res

Others(r) == DOMAIN r.records \ {Place(r.records)}

LEMMA NextRecordType ==
    ASSUME NEW r \in Runs, r.source \in Sources, DOMAIN r.records # {}
    PROVE  /\ NextRecord(r) \in Runs
           /\ NextRecord(r).symbol = r.symbol
           /\ NextRecord(r).records = Restrict(r.records, Others(r))
           /\ NextRecord(r).written = FALSE
           /\ NextRecord(r).source = IF Others(r) = {} THEN None ELSE r.source
           /\ \A s \in Sources \ {r.source} : NextRecord(r).results[s] = r.results[s]
           /\ NextRecord(r).results[r.source].counts = r.results[r.source].counts
           /\ NextRecord(r).results[r.source].answer = r.results[r.source].answer
           /\ NextRecord(r).results[r.source].outcome =
                 IF Others(r) = {} THEN "success" ELSE r.results[r.source].outcome
<1> DEFINE q == NextRecord(r)
           others == Others(r)
           s == r.source
           res == r.results[s]
           out == IF others = {} THEN "success" ELSE res.outcome
           src == IF others = {} THEN None ELSE s
           more == [res EXCEPT !.outcome = out]
           rest == Restrict(r.records, others)
<1>1. res \in Results /\ out \in Outcomes
  BY DEF Runs, Results, Outcomes
<1>2. more \in Results /\ more.answer = res.answer /\ more.counts = res.counts /\ more.outcome = out
  BY <1>1 DEF Results
<1>3. rest \in Records
  BY RecordsProperty DEF Runs, Others
<1>4. src \in Sources \cup {None}
  OBVIOUS
<1>5. q = [r EXCEPT !.records = rest, !.written = FALSE, !.source = src,
                    !.results = [@ EXCEPT ![s] = more]]
  BY DEF NextRecord, Runs, Others
<1> HIDE DEF more, res, out, src, rest, q, others
<1>6. [r.results EXCEPT ![s] = more] \in [Sources -> Results]
  BY <1>2 DEF Runs
<1>7. q \in Runs /\ q.symbol = r.symbol /\ q.records = rest /\ q.written = FALSE /\ q.source = src
      /\ q.results = [r.results EXCEPT ![s] = more]
  BY <1>3, <1>4, <1>5, <1>6 DEF Runs
<1>8. q.results[s] = more /\ \A other \in Sources \ {s} : q.results[other] = r.results[other]
  BY <1>7 DEF Runs
<1>9. QED
  BY <1>2, <1>7, <1>8 DEF res, out, src, rest, q, others

-----------------------------------------------------------------------------
(* What holds between any two steps.                                       *)

IsObservedAt(document, t) ==
    /\ document.retrieved_at = t
    /\ document.available_from =
          IF document.source_time = NoTime THEN t ELSE document.source_time

(* The two files of a source.  While the documents can be read, every one  *)
(* has a history and every link names one; whatever they are, the rows of  *)
(* a document agree on its signature, and links on its registrant.         *)
Stored(s) ==
    /\ \A row \in AllRows(documents[s]) :
          row.retrieved_at <= now /\ IsObservedAt(row, row.retrieved_at)
    /\ OneSignature(AllRows(documents[s]))
    /\ IsReadable(documents[s]) =>
          /\ Whole(AllRows(documents[s]))
          /\ \A link \in AllRows(links[s]) : IsStored(AllRows(documents[s]), link.id)
    /\ IsReadable(links[s]) =>
          \A i, j \in DOMAIN links[s].rows :
              LinkKey(links[s].rows[i]) = LinkKey(links[s].rows[j]) => i = j
    /\ s = "edgar" =>
          \A link \in AllRows(links[s]), row \in AllRows(documents[s]) :
              link.id = row.id => link.registrant = row.signature

(* What a source answered in this refresh, and what of it is still to be   *)
(* written: the places after all that were written.                        *)
Fetched(s) ==
    LET answer == run.results[s].answer IN
    /\ IsFiniteSet(DOMAIN answer)
    /\ \A n \in DOMAIN answer :
          /\ IsObservedAt(answer[n], now)
          /\ answer[n].revision = 1
          /\ s = "edgar" => answer[n].signature = service.map[run.symbol]
    /\ run.source = s =>
          /\ DOMAIN run.records \subseteq DOMAIN answer
          /\ \A n \in DOMAIN run.records : run.records[n] = answer[n]
          /\ \A n \in DOMAIN answer \ DOMAIN run.records, m \in DOMAIN run.records : n < m
    /\ IsPending(s) /\ run.source # s => DOMAIN answer = {}

(* Between the two writes of a record its document stands as it was        *)
(* fetched, unless the file was damaged in writing it; in any case nothing *)
(* there contradicts it.                                                   *)
HalfWritten ==
    run # None /\ run.source # None /\ run.written =>
        LET rows == AllRows(documents[run.source]) IN
        /\ \A row \in rows : row.id = Record.id => row.signature = Record.signature
        /\ IsReadable(documents[run.source]) =>
              IsStored(rows, Record.id) /\ HasSameContent(Current(rows, Record.id), Record)

Sound ==
    /\ Typed
    /\ \A s \in Sources : Stored(s)
    /\ run # None => \A s \in Sources : Fetched(s)
    /\ HalfWritten

LEMMA RecordProperty ==
    ASSUME Sound, IsWriting
    PROVE  /\ run \in Runs /\ run.source \in Sources
           /\ Place(run.records) \in DOMAIN run.records
           /\ Record \in Documents
           /\ Record.revision = 1
           /\ IsObservedAt(Record, now)
           /\ run.source = "edgar" => Record.signature = service.map[run.symbol]
           /\ Record = run.results[run.source].answer[Place(run.records)]
           /\ run.symbol \in Symbols
<1>1. run \in Runs /\ run.source \in Sources /\ DOMAIN run.records # {} /\ Fetched(run.source)
  BY DEF Sound, Typed, RunOK, IsWriting, Runs
<1>2. run.records \in Records /\ run.symbol \in Symbols
  BY <1>1 DEF Runs
<1>3. Place(run.records) \in DOMAIN run.records
  BY <1>1, <1>2, PlaceIsFirst
<1>4. Record \in Documents
  BY <1>2, <1>3, RecordsProperty DEF Record
<1>5. Record = run.results[run.source].answer[Place(run.records)]
      /\ Place(run.records) \in DOMAIN run.results[run.source].answer
  BY <1>1, <1>3 DEF Fetched, Record
<1>6. QED
  BY <1>1, <1>2, <1>3, <1>4, <1>5 DEF Fetched

(* A file after the append of a row: it agrees with the row, and while it  *)
(* can be read it is what it was with the row or, cut short, without it.   *)
IsExtended(g, file, new) ==
    /\ \A row \in AllRows(g) : row.id = new.id => row.signature = new.signature
    /\ IsReadable(g) => AllRows(g) \in {AllRows(file), AllRows(file) \cup {new}}
    /\ IsReadable(g) /\ g = Appended(file, new) => AllRows(g) = AllRows(file) \cup {new}

(* Two sets of rows differ in the history of one document at most.         *)
AgreeBut(one, other, id) ==
    \A another : another # id => RevisionsOf(one, another) = RevisionsOf(other, another)

(* A write of a document, or one cut short.                                *)
LEMMA DocumentStep ==
    ASSUME Sound, IsWriting, NEW file, file = documents[run.source],
           IsReadable(file), Classified(RowsRead(file), Record) \in {"accepted", "revision"},
           NEW new, new = Revised(RowsRead(file), Record),
           NEW g \in CutShort(file, new) \cup {Appended(file, new)},
           documents' = [documents EXCEPT ![run.source] = g],
           UNCHANGED <<now, links>>
    PROVE  /\ documents' \in [Sources -> File(Documents)]
           /\ \A s \in Sources : Stored(s)'
           /\ IsExtended(g, file, new)
           /\ Current(AllRows(file) \cup {new}, Record.id) = new
           /\ IsStored(AllRows(file) \cup {new}, Record.id)
           /\ new.id = Record.id /\ new.signature = Record.signature
           /\ HasSameContent(new, Record)
           /\ AgreeBut(AllRows(file) \cup {new}, AllRows(file), Record.id)
<1>0. PICK src \in Sources : src = run.source
  BY RecordProperty
<1> DEFINE rows == AllRows(file)
           linked == AllRows(links[src])
<1>1. /\ Record \in Documents /\ Record.revision = 1
      /\ IsObservedAt(Record, now)
      /\ src = "edgar" => Record.signature = service.map[run.symbol]
  BY <1>0, RecordProperty
<1>2. documents \in [Sources -> File(Documents)] /\ file \in File(Documents) /\ now \in Nat
  BY <1>0 DEF Sound, Typed, Ticks
<1>3. rows \in SUBSET Documents /\ IsFiniteSet(rows) /\ RowsRead(file) = rows
  BY <1>2, RowsType, ReadableIsRead
<1>4. Stored(src)
  BY DEF Sound
<1>5. /\ Whole(rows) /\ OneSignature(rows)
      /\ \A row \in rows : row.retrieved_at <= Record.retrieved_at
  BY <1>0, <1>1, <1>4 DEF Stored, IsObservedAt
<1>6. Classified(rows, Record) \in {"accepted", "revision"} /\ new = Revised(rows, Record)
  BY <1>3
<1> DEFINE joined == rows \cup {new}
<1>7. /\ new \in Documents
      /\ new = [Record EXCEPT !.revision = new.revision]
      /\ Whole(joined) /\ OneSignature(joined)
      /\ Current(joined, Record.id) = new
      /\ IsStored(joined, Record.id)
      /\ \A id : id # Record.id => RevisionsOf(joined, id) = RevisionsOf(rows, id)
  <2> HIDE DEF rows
  <2>1. joined = rows \cup {Revised(rows, Record)}
    BY <1>6
  <2> HIDE DEF joined
  <2>2. QED
    BY <1>1, <1>3, <1>5, <1>6, <2>1, HistoryGrows
<1>8. /\ new.id = Record.id /\ new.signature = Record.signature
      /\ HasSameContent(new, Record) /\ IsObservedAt(new, now)
  BY <1>1, <1>7 DEF Documents, HasSameContent, IsObservedAt
<1>9. /\ g \in File(Documents)
      /\ AllRows(g) \subseteq joined
      /\ IsReadable(g) => g.rows \in {file.rows, Append(file.rows, new)}
      /\ g = Appended(file, new) /\ IsReadable(g) => g.rows = Append(file.rows, new)
  BY <1>2, <1>7, AppendProperty
<1>10. ASSUME g.rows = Append(file.rows, new)
       PROVE  AllRows(g) = joined
  <2> HIDE DEF joined
  <2>1. file \in File(Documents) /\ new \in Documents
    BY <1>2, <1>7
  <2>2. AllRows(g) = AllRows(file) \cup {new}
    BY <1>10, <2>1, AppendedRows
  <2>3. QED
    BY <2>2 DEF joined
<1>11. /\ IsReadable(g) => AllRows(g) \in {rows, joined}
       /\ g = Appended(file, new) /\ IsReadable(g) => AllRows(g) = joined
  BY <1>9, <1>10 DEF AllRows
<1>12. \A row \in AllRows(g) : row.id = Record.id => row.signature = Record.signature
  BY <1>7, <1>8, <1>9 DEF OneSignature
<1>13. /\ documents' \in [Sources -> File(Documents)]
       /\ documents'[src] = g
       /\ \A s \in Sources \ {src} : documents'[s] = documents[s]
  BY <1>0, <1>2, <1>9
<1>14. Stored(src)'
  <2>1. \A row \in AllRows(g) : row.retrieved_at <= now /\ IsObservedAt(row, row.retrieved_at)
    <3>1. new.retrieved_at <= now /\ IsObservedAt(new, new.retrieved_at)
      BY <1>2, <1>8 DEF IsObservedAt
    <3>2. QED
      BY <1>0, <1>4, <1>9, <3>1 DEF Stored
  <2>2. OneSignature(AllRows(g))
    BY <1>7, <1>9 DEF OneSignature
  <2>3. \A link \in linked : IsStored(rows, link.id) /\ IsStored(joined, link.id)
    <3>1. \A id : IsStored(rows, id) => IsStored(joined, id)
      BY DEF IsStored, RevisionsOf
    <3>2. QED
      BY <1>0, <1>4, <3>1 DEF Stored
  <2>4. IsReadable(g) => /\ Whole(AllRows(g))
                         /\ \A link \in linked : IsStored(AllRows(g), link.id)
    BY <1>5, <1>7, <1>11, <2>3
  <2>5. ASSUME src = "edgar", NEW link \in linked, NEW row \in AllRows(g), link.id = row.id
        PROVE  link.registrant = row.signature
    <3>1. CASE row \in rows
      BY <1>0, <1>4, <2>5, <3>1 DEF Stored
    <3>2. CASE row = new
      <4>1. IsStored(rows, Record.id)
        BY <1>8, <2>3, <2>5, <3>2
      <4>2. PICK old \in rows : old.id = Record.id
        BY <4>1 DEF IsStored, RevisionsOf
      <4>3. link.registrant = old.signature
        BY <1>0, <1>4, <1>8, <2>5, <3>2, <4>2 DEF Stored
      <4>4. old.signature = new.signature
        BY <1>7, <1>8, <4>2 DEF OneSignature
      <4>5. QED
        BY <3>2, <4>3, <4>4
    <3>3. QED
      BY <1>9, <3>1, <3>2
  <2>6. links'[src] = links[src] /\ now' = now
    OBVIOUS
  <2>7. QED
    BY <1>4, <1>13, <2>1, <2>2, <2>4, <2>5, <2>6 DEF Stored
<1>15. \A s \in Sources \ {src} : Stored(s)'
  BY <1>13 DEF Sound, Stored
<1>16. IsExtended(g, file, new)
  BY <1>8, <1>11, <1>12 DEF IsExtended
<1>17. AgreeBut(joined, rows, Record.id)
  BY <1>7 DEF AgreeBut
<1>18. QED
  BY <1>7, <1>8, <1>13, <1>14, <1>15, <1>16, <1>17

(* A file of links after the append of one.                                *)
IsJoined(g, file, link) ==
    /\ IsReadable(g) => AllRows(file) \subseteq AllRows(g)
    /\ IsReadable(g) /\ g = Appended(file, link) => link \in AllRows(g)

(* A write of a link, or one cut short.                                    *)
LEMMA LinkStep ==
    ASSUME Sound, IsWriting, run.written, NEW file, file = links[run.source],
           IsReadable(file), NEW link, link = Link(run.source, Record, run.symbol),
           ~IsLinked(file, link),
           NEW g \in CutShort(file, link) \cup {Appended(file, link)},
           links' = [links EXCEPT ![run.source] = g],
           UNCHANGED <<now, documents>>
    PROVE  /\ links' \in [Sources -> File(Links)]
           /\ \A s \in Sources : Stored(s)'
           /\ IsJoined(g, file, link)
           /\ link.id = Record.id /\ link.symbol = run.symbol
<1>0. PICK src \in Sources : src = run.source
  BY RecordProperty
<1>1. /\ Record \in Documents /\ run.symbol \in Symbols /\ run # None
      /\ src = "edgar" => Record.signature = service.map[run.symbol]
  BY <1>0, RecordProperty DEF IsWriting
<1>2. links \in [Sources -> File(Links)] /\ file \in File(Links)
  BY <1>0 DEF Sound, Typed
<1>3. /\ link.id = Record.id /\ link.symbol = run.symbol
      /\ src = "edgar" => link.registrant = service.map[run.symbol]
  BY <1>0 DEF Link
<1>4. link \in Links
  <2>1. CASE src = "edgar"
    <3>1. IsConfigured(src) /\ IsCovered(src) /\ service # None
      BY <1>0, <1>1 DEF Sound, Typed, RunOK, IsWriting
    <3>2. service.map \in Maps
      BY <2>1, <3>1 DEF Sound, Typed, IsConfigured
    <3>3. service.map[run.symbol] \in Registrants
      BY <1>1, <2>1, <3>1, <3>2 DEF IsCovered, Maps
    <3>4. link = [id |-> Record.id, symbol |-> run.symbol, association |-> "verified_source",
                  registrant |-> service.map[run.symbol]]
      BY <1>0, <2>1 DEF Link
    <3>5. QED
      BY <1>1, <3>3, <3>4 DEF Links, Documents
  <2>2. CASE src = "yahoo"
    <3>1. link = [id |-> Record.id, symbol |-> run.symbol, association |-> "queried_symbol",
                  registrant |-> None]
      BY <1>0, <2>2 DEF Link
    <3>2. QED
      BY <1>1, <3>1 DEF Links, Documents
  <2>3. QED
    BY <2>1, <2>2 DEF Sources
<1>5. /\ g \in File(Links)
      /\ AllRows(g) \subseteq AllRows(file) \cup {link}
      /\ IsReadable(g) => g.rows \in {file.rows, Append(file.rows, link)}
      /\ g = Appended(file, link) /\ IsReadable(g) => g.rows = Append(file.rows, link)
  BY <1>2, <1>4, AppendProperty
<1>6. ASSUME g.rows = Append(file.rows, link)
      PROVE  AllRows(g) = AllRows(file) \cup {link}
  BY <1>2, <1>4, <1>6, AppendedRows
<1>7. IsJoined(g, file, link)
  BY <1>5, <1>6 DEF AllRows, IsJoined
<1>8. /\ links' \in [Sources -> File(Links)]
      /\ links'[src] = g
      /\ \A s \in Sources \ {src} : links'[s] = links[s]
  BY <1>0, <1>2, <1>5
<1>9. Stored(src)'
  <2>1. Stored(src)
    BY DEF Sound
  <2>2. IsReadable(documents[src]) =>
            \A row \in AllRows(g) : IsStored(AllRows(documents[src]), row.id)
    <3>1. IsReadable(documents[src]) => IsStored(AllRows(documents[src]), link.id)
      BY <1>0, <1>1, <1>3 DEF Sound, HalfWritten, IsWriting
    <3>2. QED
      BY <1>0, <1>5, <2>1, <3>1 DEF Stored
  <2>3. src = "edgar" =>
            \A row \in AllRows(g), document \in AllRows(documents[src]) :
                row.id = document.id => row.registrant = document.signature
    <3>1. src = "edgar" =>
              \A document \in AllRows(documents[src]) :
                  link.id = document.id => link.registrant = document.signature
      BY <1>0, <1>1, <1>3 DEF Sound, HalfWritten, IsWriting
    <3>2. QED
      BY <1>0, <1>5, <2>1, <3>1 DEF Stored
  <2>4. ASSUME IsReadable(g), NEW i \in DOMAIN g.rows, NEW j \in DOMAIN g.rows,
               LinkKey(g.rows[i]) = LinkKey(g.rows[j])
        PROVE  i = j
    <3>1. \A k, l \in DOMAIN file.rows : LinkKey(file.rows[k]) = LinkKey(file.rows[l]) => k = l
      BY <1>0, <2>1 DEF Stored
    <3>2. CASE g.rows = file.rows
      BY <2>4, <3>1, <3>2
    <3>3. CASE g.rows = Append(file.rows, link)
      <4>1. file.rows \in Seq(Links)
        BY <1>2 DEF File
      <4>2. /\ DOMAIN file.rows = 1 .. Len(file.rows) /\ Len(file.rows) \in Nat
            /\ DOMAIN g.rows = 1 .. Len(file.rows) + 1
            /\ \A k \in 1 .. Len(file.rows) : g.rows[k] = file.rows[k]
            /\ g.rows[Len(file.rows) + 1] = link
        <5>1. PICK rows, more : rows = file.rows /\ more = g.rows
          OBVIOUS
        <5>2. rows \in Seq(Links) /\ more = Append(rows, link)
          BY <3>3, <4>1, <5>1
        <5>3. /\ DOMAIN rows = 1 .. Len(rows) /\ Len(rows) \in Nat
              /\ DOMAIN more = 1 .. Len(rows) + 1
              /\ \A k \in 1 .. Len(rows) : more[k] = rows[k]
              /\ more[Len(rows) + 1] = link
          BY <5>2
        <5>4. QED
          BY <5>1, <5>3
      <4>3. \A k \in DOMAIN file.rows : LinkKey(file.rows[k]) # LinkKey(link)
        <5>1. RowsRead(file) = AllRows(file)
          BY ReadableIsRead
        <5>2. QED
          BY <5>1 DEF IsLinked, AllRows
      <4>4. CASE i \in DOMAIN file.rows /\ j \in DOMAIN file.rows
        BY <2>4, <3>1, <4>2, <4>4
      <4>5. CASE i = Len(file.rows) + 1 /\ j = Len(file.rows) + 1
        BY <4>5
      <4>6. CASE i = Len(file.rows) + 1 /\ j \in DOMAIN file.rows
        BY <2>4, <4>2, <4>3, <4>6
      <4>7. CASE i \in DOMAIN file.rows /\ j = Len(file.rows) + 1
        <5>1. g.rows[i] = file.rows[i] /\ g.rows[j] = link
          BY <4>2, <4>7
        <5>2. LinkKey(file.rows[i]) = LinkKey(link)
          BY <2>4, <5>1
        <5>3. QED
          BY <4>3, <4>7, <5>2
      <4>8. PICK n : n = Len(file.rows)
        OBVIOUS
      <4>9. n \in Nat /\ DOMAIN file.rows = 1 .. n /\ DOMAIN g.rows = 1 .. n + 1
        BY <4>2, <4>8
      <4>10. (i \in 1 .. n \/ i = n + 1) /\ (j \in 1 .. n \/ j = n + 1)
        BY <4>9
      <4>11. QED
        BY <4>4, <4>5, <4>6, <4>7, <4>8, <4>9, <4>10
    <3>4. QED
      BY <1>5, <2>4, <3>2, <3>3
  <2>5. documents' = documents /\ now' = now
    OBVIOUS
  <2>6. QED
    BY <1>8, <2>1, <2>2, <2>3, <2>4, <2>5 DEF Stored
<1>10. \A s \in Sources \ {src} : Stored(s)'
  BY <1>8 DEF Sound, Stored
<1>11. QED
  BY <1>3, <1>7, <1>8, <1>9, <1>10

(* What a source's answer is made into.                                    *)
LEMMA NormalizedProperty ==
    ASSUME Typed, NEW source \in Sources, NEW answer \in Seq(RawRow), NEW symbol \in Symbols,
           service # None, IsConfigured(source),
           source = "edgar" => service.map[symbol] # Unlisted,
           NEW records, records = Normalized(source, answer, symbol, now)
    PROVE  /\ records \in Records
           /\ IsFiniteSet(DOMAIN records)
           /\ \A n \in DOMAIN records :
                 /\ IsObservedAt(records[n], now)
                 /\ records[n].revision = 1
                 /\ source = "edgar" => records[n].signature = service.map[symbol]
<1> DEFINE D == {m \in DOMAIN answer : IsUsable(source, answer[m], now)}
<1>1. DOMAIN answer = 1 .. Len(answer) /\ Len(answer) \in Nat
      /\ \A n \in DOMAIN answer : answer[n] \in RawRow
  OBVIOUS
<1>2. IsFiniteSet(D) /\ D \in SUBSET Nat
  <2>1. IsFiniteSet(1 .. Len(answer))
    BY <1>1, FS_Interval
  <2>2. D \subseteq 1 .. Len(answer)
    BY <1>1
  <2>3. QED
    BY <1>1, <2>1, <2>2, FS_Subset
<1>3. now \in Nat
  BY DEF Typed, Ticks
<1>4. records = [n \in D |-> Document(answer[n], Signature(source, answer[n], symbol), now)]
  BY DEF Normalized
<1>5. ASSUME NEW n \in D
      PROVE  /\ records[n] \in Documents
             /\ IsObservedAt(records[n], now)
             /\ records[n].revision = 1
             /\ source = "edgar" => records[n].signature = service.map[symbol]
  <2>1. answer[n] \in RawRow /\ answer[n].id # None /\ HasLink(source, answer[n])
    BY <1>1 DEF IsUsable
  <2>2. answer[n].id \in Ids /\ answer[n].text \in Texts /\ answer[n].stamp \in Int
    BY <2>1 DEF RawRow
  <2>3. Signature(source, answer[n], symbol) \in Registrants \cup Urls
    <3>1. CASE source = "edgar"
      <4>1. service.map \in Maps
        BY <3>1 DEF Typed, IsConfigured
      <4>2. QED
        BY <3>1, <4>1 DEF Signature, Maps
    <3>2. CASE source = "yahoo"
      BY <2>1, <3>2 DEF Signature, HasLink, RawRow
    <3>3. QED
      BY <3>1, <3>2 DEF Sources
  <2> DEFINE signature == Signature(source, answer[n], symbol)
             available == IF answer[n].stamp = NoTime THEN now ELSE answer[n].stamp
  <2>4. available \in Int
    BY <1>3, <2>2
  <2>5. PICK one \in {1} : one = 1
    OBVIOUS
  <2>6. records[n] = [id |-> answer[n].id, signature |-> signature, text |-> answer[n].text,
                      source_time |-> answer[n].stamp, available_from |-> available,
                      retrieved_at |-> now, revision |-> one]
    BY <1>4, <2>5 DEF Document
  <2>7. IsObservedAt(records[n], now)
    BY <2>6 DEF IsObservedAt
  <2>8. source = "edgar" => signature = service.map[symbol]
    BY DEF Signature
  <2> HIDE DEF signature, available
  <2>9. records[n] \in Documents
    BY <1>3, <2>2, <2>3, <2>4, <2>5, <2>6 DEF Documents, signature
  <2>10. QED
    BY <2>5, <2>6, <2>7, <2>8, <2>9
<1>6. records \in [D -> Documents]
  <2> HIDE DEF D
  <2>1. records = [n \in D |-> records[n]]
    BY <1>4
  <2>2. QED
    BY <1>5, <2>1
<1>7. QED
  BY <1>2, <1>5, <1>6 DEF Records

-----------------------------------------------------------------------------
(* Steps.                                                                  *)

(* From one record of a source to the next, whatever was counted.          *)
LEMMA AdvanceStep ==
    ASSUME Sound, IsWriting, NEW q \in Runs,
           q.symbol = run.symbol, q.source = run.source, q.records = run.records,
           \A s \in Sources : /\ q.results[s].answer = run.results[s].answer
                              /\ q.results[s].outcome = run.results[s].outcome,
           run' = NextRecord(q), UNCHANGED <<now, service>>
    PROVE  /\ run' \in Runs /\ RunOK' /\ HalfWritten'
           /\ \A s \in Sources : Fetched(s)'
           /\ run'.symbol = run.symbol
           /\ \A s \in Sources : /\ run'.results[s].answer = run.results[s].answer
                                 /\ run'.results[s].counts = q.results[s].counts
           /\ \A s \in Sources \ {run.source} :
                 run'.results[s].outcome = run.results[s].outcome
           /\ DOMAIN run'.records = DOMAIN run.records \ {Place(run.records)}
           /\ run'.source = IF DOMAIN run'.records = {} THEN None ELSE run.source
<1> DEFINE place == Place(run.records)
<1>0. PICK src \in Sources : src = run.source
  BY RecordProperty
<1>1. /\ run \in Runs /\ run # None /\ service # None /\ DOMAIN run.records # {}
      /\ IsPending(src) /\ IsConfigured(src) /\ IsCovered(src)
      /\ \A s \in Sources : Fetched(s)
  BY <1>0 DEF Sound, Typed, RunOK, IsWriting
<1>2. run.records \in Records /\ place \in DOMAIN run.records
      /\ \A m \in DOMAIN run.records : place <= m
  BY <1>1, PlaceIsFirst DEF Runs
<1>3. DOMAIN run.records \subseteq Nat
  BY <1>2, RecordsProperty
<1> DEFINE others == DOMAIN run.records \ {place}
<1>4. /\ run' \in Runs
      /\ run'.symbol = run.symbol
      /\ run'.records = Restrict(run.records, others)
      /\ run'.written = FALSE
      /\ run'.source = IF others = {} THEN None ELSE src
      /\ \A s \in Sources \ {src} : run'.results[s] = q.results[s]
      /\ run'.results[src].counts = q.results[src].counts
      /\ run'.results[src].answer = q.results[src].answer
      /\ run'.results[src].outcome = IF others = {} THEN "success" ELSE q.results[src].outcome
  <2>1. q.source \in Sources /\ DOMAIN q.records # {} /\ others = Others(q) /\ src = q.source
    BY <1>0, <1>1 DEF Others
  <2> HIDE DEF others
  <2>2. QED
    BY <2>1, NextRecordType
<1>5. DOMAIN run'.records = others
      /\ \A n \in others : run'.records[n] = run.records[n]
  BY <1>4 DEF Restrict
<1>6. \A s \in Sources : /\ run'.results[s].answer = run.results[s].answer
                         /\ run'.results[s].counts = q.results[s].counts
  BY <1>4
<1>7. \A s \in Sources \ {src} : run'.results[s].outcome = run.results[s].outcome
  BY <1>4
<1>8. run'.source # None => run'.source = src /\ others # {} /\ IsPending(src)'
  BY <1>1, <1>4 DEF IsPending
<1>9. RunOK'
  <2>1. ASSUME run'.source # None
        PROVE  DOMAIN run'.records # {} /\ IsPending(src)' /\ IsConfigured(src)' /\ IsCovered(src)'
    <3>1. service' = service
      OBVIOUS
    <3>2. IsConfigured(src)' /\ IsCovered(src)'
      BY <1>1, <1>4, <3>1 DEF IsConfigured, IsCovered
    <3>3. QED
      BY <1>5, <1>8, <2>1, <3>2
  <2>2. service' # None
    BY <1>1
  <2>3. QED
    BY <1>4, <1>8, <2>1, <2>2 DEF RunOK, IsPending, IsConfigured, IsCovered
<1>10. HalfWritten'
  BY <1>4 DEF HalfWritten
<1>11. None \notin Sources
  BY NewsAssumption
<1>12. ASSUME NEW s \in Sources
       PROVE  Fetched(s)'
  <2>1. Fetched(s)
    BY <1>1
  <2>2. CASE s # src
    <3>1. run'.source # s /\ run.source # s /\ IsPending(s)' = IsPending(s)
      BY <1>0, <1>4, <1>7, <1>11, <2>2 DEF IsPending
    <3>2. QED
      BY <1>4, <1>6, <2>1, <3>1 DEF Fetched
  <2>3. CASE s = src
    <3> DEFINE answer == run.results[s].answer
    <3>1. /\ DOMAIN run.records \subseteq DOMAIN answer
          /\ \A n \in DOMAIN run.records : run.records[n] = answer[n]
          /\ \A n \in DOMAIN answer \ DOMAIN run.records, m \in DOMAIN run.records : n < m
      BY <1>0, <2>1, <2>3 DEF Fetched
    <3>2. \A n \in DOMAIN answer \ others, m \in others : n < m
      <4>1. \A m \in others : place < m
        BY <1>2, <1>3
      <4>2. QED
        BY <3>1, <4>1
    <3>3. others \subseteq DOMAIN answer /\ \A n \in others : run'.records[n] = answer[n]
      BY <1>5, <3>1
    <3>4. IsPending(s)' => run'.source = s
      BY <1>4, <2>3 DEF IsPending
    <3>5. run'.results[s].answer = answer /\ service' = service /\ now' = now
      BY <1>6
    <3> HIDE DEF others, answer
    <3>6. QED
      BY <1>4, <1>5, <2>1, <3>2, <3>3, <3>4, <3>5 DEF Fetched, answer
  <2>4. QED
    BY <2>2, <2>3
<1>13. QED
  BY <1>0, <1>4, <1>5, <1>6, <1>7, <1>9, <1>10, <1>12

(* A record is refused, or its last write is counted.                      *)
LEMMA CountedStep ==
    ASSUME Sound, IsWriting, NEW counter \in Counters,
           run' = NextRecord(Counted(counter)), UNCHANGED <<now, service>>
    PROVE  /\ run' \in Runs /\ RunOK' /\ HalfWritten'
           /\ \A s \in Sources : Fetched(s)'
           /\ run'.symbol = run.symbol
           /\ \A s \in Sources : run'.results[s].answer = run.results[s].answer
           /\ \A s \in Sources \ {run.source} : run'.results[s].counts = run.results[s].counts
           /\ run'.results[run.source].counts[counter] = run.results[run.source].counts[counter] + 1
           /\ \A other \in Counters \ {counter} :
                 run'.results[run.source].counts[other] = run.results[run.source].counts[other]
           /\ \A s \in Sources \ {run.source} :
                 run'.results[s].outcome = run.results[s].outcome
           /\ DOMAIN run'.records = DOMAIN run.records \ {Place(run.records)}
           /\ run'.source = IF DOMAIN run'.records = {} THEN None ELSE run.source
<1>1. run \in Runs /\ run.source \in Sources
  BY RecordProperty
<1>2. PICK q : q = Counted(counter)
  OBVIOUS
<1>3. /\ q \in Runs
      /\ q.symbol = run.symbol /\ q.source = run.source
      /\ q.records = run.records
      /\ \A s \in Sources \ {run.source} : q.results[s] = run.results[s]
      /\ q.results[run.source].answer = run.results[run.source].answer
      /\ q.results[run.source].outcome = run.results[run.source].outcome
      /\ q.results[run.source].counts[counter] = run.results[run.source].counts[counter] + 1
      /\ \A other \in Counters \ {counter} :
             q.results[run.source].counts[other] = run.results[run.source].counts[other]
  BY <1>1, <1>2, CountedType
<1>4. /\ run' = NextRecord(q)
      /\ \A s \in Sources : /\ q.results[s].answer = run.results[s].answer
                            /\ q.results[s].outcome = run.results[s].outcome
  BY <1>2, <1>3
<1>5. /\ run' \in Runs /\ RunOK' /\ HalfWritten'
      /\ \A s \in Sources : Fetched(s)'
      /\ run'.symbol = run.symbol
      /\ \A s \in Sources : /\ run'.results[s].answer = run.results[s].answer
                            /\ run'.results[s].counts = q.results[s].counts
      /\ \A s \in Sources \ {run.source} :
            run'.results[s].outcome = run.results[s].outcome
      /\ DOMAIN run'.records = DOMAIN run.records \ {Place(run.records)}
      /\ run'.source = IF DOMAIN run'.records = {} THEN None ELSE run.source
  BY <1>3, <1>4, AdvanceStep
<1>6. QED
  BY <1>1, <1>3, <1>5

(* What does not touch the stores, with no record half written.            *)
LEMMA StoresUntouched ==
    ASSUME Sound, UNCHANGED stores, now <= now', now \in Int, now' \in Int
    PROVE  /\ documents' \in [Sources -> File(Documents)]
           /\ links' \in [Sources -> File(Links)]
           /\ \A s \in Sources : Stored(s)'
<1>1. \A s \in Sources : \A row \in AllRows(documents[s]) : row \in Documents /\ row.retrieved_at <= now'
  <2>1. SUFFICES ASSUME NEW s \in Sources, NEW row \in AllRows(documents[s])
                 PROVE  row \in Documents /\ row.retrieved_at <= now'
    OBVIOUS
  <2>2. row \in Documents
    BY RowsType DEF Sound, Typed
  <2>3. row.retrieved_at <= now /\ row.retrieved_at \in Int
    BY <2>2 DEF Sound, Stored, Documents
  <2>4. QED
    BY <2>2, <2>3
<1>2. QED
  BY <1>1 DEF Sound, Typed, Stored, stores

LEMMA SpendType ==
    ASSUME left \in EnvironmentType, NEW budget \in {"faults", "changes", "foreign"}, Spend(budget)
    PROVE  /\ left' \in EnvironmentType
           /\ left'.maps = left.maps /\ left'.answers = left.answers
BY DEF EnvironmentType, Spend

(* The session is composed, or its environment changes, with no refresh    *)
(* under way.                                                              *)
LEMMA AroundSound ==
    ASSUME Sound, Compose \/ NewSession \/ PublishMap
           \/ \E source \in Sources : NewerBuildWrites(source)
    PROVE  Sound'
<1>1. CASE Compose
  <2>1. service = None /\ run = None /\ run' = None
    BY <1>1 DEF Compose, Sound, Typed, RunOK
  <2>2. /\ mapfile' \in Maps \cup {None}
        /\ service' \in [map : Maps \cup {None}]
        /\ left' \in EnvironmentType
    <3>1. CASE WithoutContact
      BY <3>1 DEF WithoutContact, Sound, Typed
    <3>2. CASE KeepStoredMap
      BY <3>2 DEF KeepStoredMap, Sound, Typed
    <3>3. CASE FetchMap
      <4>1. left' \in EnvironmentType /\ mapfile' \in {published, None}
        BY <3>3, SpendType DEF FetchMap, WriteMap, Sound, Typed
      <4>2. QED
        BY <3>3, <4>1 DEF FetchMap, Sound, Typed
    <3>4. QED
      BY <1>1, <3>1, <3>2, <3>3 DEF Compose
  <2>3. /\ documents' \in [Sources -> File(Documents)] /\ links' \in [Sources -> File(Links)]
        /\ \A s \in Sources : Stored(s)'
    BY <1>1, StoresUntouched DEF Compose, Sound, Typed, Ticks
  <2>4. QED
    BY <1>1, <2>1, <2>2, <2>3 DEF Compose, Sound, Typed, RunOK, HalfWritten
<1>2. CASE NewSession
  <2>1. /\ documents' \in [Sources -> File(Documents)] /\ links' \in [Sources -> File(Links)]
        /\ \A s \in Sources : Stored(s)'
    BY <1>2, StoresUntouched DEF NewSession, Sound, Typed, Ticks
  <2>2. QED
    BY <1>2, <2>1 DEF NewSession, Sound, Typed, RunOK, HalfWritten
<1>3. CASE PublishMap
  <2>1. /\ documents' \in [Sources -> File(Documents)] /\ links' \in [Sources -> File(Links)]
        /\ \A s \in Sources : Stored(s)'
    BY <1>3, StoresUntouched DEF PublishMap, Sound, Typed, Ticks
  <2>2. left' \in EnvironmentType /\ left'.maps = left.maps
    BY <1>3, SpendType DEF PublishMap, Sound, Typed
  <2>3. published' \in Maps
    BY <1>3, <2>2 DEF PublishMap, Sound, Typed, EnvironmentType
  <2>4. RunOK' /\ HalfWritten' /\ (run' # None => \A s \in Sources : Fetched(s)')
    BY <1>3 DEF PublishMap, Sound, Typed, RunOK, HalfWritten, Fetched, IsPending, IsConfigured,
                IsCovered, Record, stores
  <2>5. QED
    BY <1>3, <2>1, <2>2, <2>3, <2>4 DEF PublishMap, Sound, Typed
<1>4. ASSUME NEW source \in Sources, NewerBuildWrites(source)
      PROVE  Sound'
  <2>1. left' \in EnvironmentType
    BY <1>4, SpendType DEF NewerBuildWrites, Sound, Typed
  <2>2. run = None /\ run' = None /\ service' = service /\ now' = now
        /\ published' = published /\ mapfile' = mapfile
    BY <1>4 DEF NewerBuildWrites
  <2>3. /\ documents' \in [Sources -> File(Documents)] /\ links' \in [Sources -> File(Links)]
        /\ \A s \in Sources : /\ documents'[s].rows = documents[s].rows
                              /\ links'[s].rows = links[s].rows
                              /\ IsReadable(documents'[s]) => IsReadable(documents[s])
                              /\ IsReadable(links'[s]) => IsReadable(links[s])
    <3>1. \A Row : \A f \in File(Row) :
              /\ [f EXCEPT !.foreign = TRUE] \in File(Row)
              /\ [f EXCEPT !.foreign = TRUE].rows = f.rows
              /\ ~IsReadable([f EXCEPT !.foreign = TRUE])
      BY DEF File, IsReadable
    <3>2. CASE documents' = [documents EXCEPT ![source].foreign = TRUE] /\ UNCHANGED links
      BY <3>1, <3>2 DEF Sound, Typed
    <3>3. CASE links' = [links EXCEPT ![source].foreign = TRUE] /\ UNCHANGED documents
      BY <3>1, <3>3 DEF Sound, Typed
    <3>4. QED
      BY <1>4, <3>2, <3>3 DEF NewerBuildWrites
  <2>4. \A s \in Sources : Stored(s)'
    <3>1. SUFFICES ASSUME NEW s \in Sources PROVE Stored(s)'
      OBVIOUS
    <3>2. /\ AllRows(documents'[s]) = AllRows(documents[s])
          /\ AllRows(links'[s]) = AllRows(links[s])
      BY <2>3 DEF AllRows
    <3>3. Stored(s)
      BY DEF Sound
    <3>4. QED
      BY <2>2, <2>3, <3>2, <3>3 DEF Stored
  <2>5. QED
    BY <2>1, <2>2, <2>3, <2>4 DEF Sound, Typed, RunOK, HalfWritten
<1>5. QED
  BY <1>1, <1>2, <1>3, <1>4

(* A refresh begins and ends, and a source is skipped or answers.          *)
LEMMA AskingSound ==
    ASSUME Sound,
           \/ \E symbol \in Symbols : Begin(symbol)
           \/ \E source \in Sources :
                 SkipUnconfigured(source) \/ SkipUnlisted(source) \/ FetchFails(source)
           \/ \E source \in Sources : Fetch(source)
           \/ Finish
    PROVE  Sound'
<1>0. None \notin Sources
  BY NewsAssumption
<1>1. ASSUME NEW symbol \in Symbols, Begin(symbol)
      PROVE  Sound'
  <2>1. now' = now + 1 /\ now \in Int /\ now' \in Ticks
    BY <1>1, NewsAssumption DEF Begin, Sound, Typed, Ticks
  <2>2. /\ documents' \in [Sources -> File(Documents)] /\ links' \in [Sources -> File(Links)]
        /\ \A s \in Sources : Stored(s)'
    BY <1>1, <2>1, StoresUntouched DEF Begin, Ticks
  <2>3. <<>> \in Records /\ DOMAIN (<<>>) = {}
    <3>1. <<>> \in [{} -> Documents]
      OBVIOUS
    <3>2. QED
      BY <3>1 DEF Records
  <2>4. Pending \in Results /\ Pending.answer = <<>>
    BY <2>3 DEF Pending, Results, Outcomes, NoCounts
  <2> DEFINE results == [source \in Sources |-> Pending]
  <2>5. results \in [Sources -> Results] /\ \A s \in Sources : results[s].answer = <<>>
    BY <2>4
  <2>6. run' = [symbol |-> symbol, source |-> None, records |-> <<>>, written |-> FALSE,
                results |-> results]
    BY <1>1 DEF Begin
  <2> HIDE DEF results
  <2>7. run' \in Runs /\ run'.source = None /\ run'.results = results
    BY <2>3, <2>5, <2>6 DEF Runs
  <2>8. RunOK' /\ HalfWritten'
    BY <1>1, <2>7 DEF RunOK, HalfWritten, Begin
  <2>9. \A s \in Sources : Fetched(s)'
    BY <1>0, <2>3, <2>5, <2>7, FS_EmptySet DEF Fetched
  <2>10. QED
    BY <1>1, <2>1, <2>2, <2>8, <2>9 DEF Sound, Typed, Begin
<1>2. ASSUME NEW source \in Sources,
             SkipUnconfigured(source) \/ SkipUnlisted(source) \/ FetchFails(source)
      PROVE  Sound'
  <2>1. PICK outcome \in Outcomes : Report(source, outcome) /\ outcome # "pending"
    BY <1>2 DEF SkipUnconfigured, SkipUnlisted, FetchFails, Outcomes
  <2>2. IsTurnOf(source) /\ UNCHANGED <<now, stores, published, mapfile, service, left>>
    BY <1>2 DEF SkipUnconfigured, SkipUnlisted, FetchFails
  <2>3. run # None /\ run.source = None /\ run \in Runs
    BY <2>2 DEF IsTurnOf, Sound, Typed, RunOK
  <2>4. /\ run' \in Runs
        /\ run'.symbol = run.symbol /\ run'.source = run.source
        /\ run'.records = run.records /\ run'.written = run.written
        /\ \A s \in Sources \ {source} : run'.results[s] = run.results[s]
        /\ run'.results[source].answer = run.results[source].answer
        /\ run'.results[source].outcome = outcome
    BY <2>1, <2>3, ReportType
  <2>5. /\ documents' \in [Sources -> File(Documents)] /\ links' \in [Sources -> File(Links)]
        /\ \A s \in Sources : Stored(s)'
    BY <2>2, StoresUntouched DEF Sound, Typed, Ticks
  <2>6. RunOK' /\ HalfWritten'
    BY <2>2, <2>3, <2>4 DEF RunOK, HalfWritten, Sound, Typed
  <2>7. \A s \in Sources : Fetched(s)'
    BY <1>0, <2>1, <2>2, <2>3, <2>4 DEF Sound, Fetched, IsPending
  <2>8. QED
    BY <2>2, <2>5, <2>6, <2>7 DEF Sound, Typed
<1>3. ASSUME NEW source \in Sources, Fetch(source)
      PROVE  Sound'
  <2>1. /\ run # None /\ run.source = None /\ run \in Runs /\ IsPending(source)
        /\ IsConfigured(source) /\ IsCovered(source) /\ service # None
        /\ UNCHANGED <<now, stores, published, mapfile, service, left>>
    BY <1>3 DEF Fetch, IsTurnOf, Sound, Typed, RunOK
  <2>2. PICK answer \in left.answers[source] :
            LET records == Normalized(source, answer, run.symbol, now) IN
            run' = IF DOMAIN records = {}
                   THEN [run EXCEPT !.results[source].outcome = "no_items"]
                   ELSE [run EXCEPT !.source = source, !.records = records,
                                    !.results[source].answer = records]
    BY <1>3 DEF Fetch
  <2>3. PICK records : records = Normalized(source, answer, run.symbol, now)
    OBVIOUS
  <2>4. answer \in Seq(RawRow) /\ run.symbol \in Symbols
    BY <2>1 DEF Sound, Typed, EnvironmentType, Runs
  <2>5. source = "edgar" => service.map[run.symbol] # Unlisted
    BY <2>1 DEF IsCovered
  <2>6. /\ records \in Records
        /\ IsFiniteSet(DOMAIN records)
        /\ \A n \in DOMAIN records :
              /\ IsObservedAt(records[n], now)
              /\ records[n].revision = 1
              /\ source = "edgar" => records[n].signature = service.map[run.symbol]
    BY <2>1, <2>3, <2>4, <2>5, NormalizedProperty DEF Sound
  <2>7. /\ documents' \in [Sources -> File(Documents)] /\ links' \in [Sources -> File(Links)]
        /\ \A s \in Sources : Stored(s)'
    BY <2>1, StoresUntouched DEF Sound, Typed, Ticks
  <2>8. CASE DOMAIN records = {}
    <3>1. run' = [run EXCEPT !.results[source].outcome = "no_items"]
      BY <2>2, <2>3, <2>8
    <3>2. PICK outcome \in Outcomes : outcome = "no_items"
      BY DEF Outcomes
    <3>3. Report(source, outcome)
      BY <3>1, <3>2 DEF Report
    <3>4. /\ run' \in Runs
          /\ run'.symbol = run.symbol /\ run'.source = run.source
          /\ run'.records = run.records /\ run'.written = run.written
          /\ \A s \in Sources \ {source} : run'.results[s] = run.results[s]
          /\ run'.results[source].answer = run.results[source].answer
          /\ run'.results[source].outcome = outcome
      BY <2>1, <3>3, ReportType
    <3>5. RunOK' /\ HalfWritten'
      BY <2>1, <3>4 DEF RunOK, HalfWritten, Sound, Typed
    <3>6. \A s \in Sources : Fetched(s)'
      BY <1>0, <2>1, <3>2, <3>4 DEF Sound, Fetched, IsPending
    <3>7. QED
      BY <2>1, <2>7, <3>5, <3>6 DEF Sound, Typed
  <2>9. CASE DOMAIN records # {}
    <3>1. run' = [run EXCEPT !.source = source, !.records = records,
                             !.results[source].answer = records]
      BY <2>2, <2>3, <2>9
    <3>2. run.results[source] \in Results
      BY <2>1 DEF Runs
    <3> DEFINE more == [run.results[source] EXCEPT !.answer = records]
    <3>3. more \in Results /\ more.answer = records /\ more.outcome = "pending"
      BY <2>1, <2>6, <3>2 DEF Results, IsPending
    <3>4. run' = [run EXCEPT !.source = source, !.records = records,
                             !.results = [@ EXCEPT ![source] = more]]
      BY <2>1, <3>1 DEF Runs
    <3> HIDE DEF more
    <3>5. /\ run' \in Runs
          /\ run'.symbol = run.symbol /\ run'.source = source /\ run'.records = records
          /\ run'.written = run.written
          /\ run'.results = [run.results EXCEPT ![source] = more]
      BY <2>1, <2>6, <3>3, <3>4 DEF Runs
    <3>6. /\ run'.results[source] = more
          /\ \A s \in Sources \ {source} : run'.results[s] = run.results[s]
      BY <2>1, <3>5 DEF Runs
    <3>7. RunOK'
      <4>1. run'.results[source].outcome = "pending" /\ service' = service
        BY <2>1, <3>3, <3>6
      <4>2. (source = "edgar" => service'.map # None)
            /\ (source = "edgar" => service'.map[run'.symbol] # Unlisted)
        BY <2>1, <3>5, <4>1 DEF IsConfigured, IsCovered
      <4>3. run'.source = source /\ run' \in Runs /\ DOMAIN run'.records # {} /\ service' # None
        BY <2>1, <2>9, <3>5
      <4>4. run'.source # None
        BY <1>0, <4>3
      <4>5. QED
        BY <4>1, <4>2, <4>3, <4>4 DEF RunOK, IsPending, IsConfigured, IsCovered
    <3>8. ASSUME NEW s \in Sources PROVE Fetched(s)'
      <4>1. CASE s = source
        BY <2>1, <2>6, <3>3, <3>5, <3>6, <4>1 DEF Fetched, IsPending
      <4>2. CASE s # source
        BY <1>0, <2>1, <3>5, <3>6, <4>2 DEF Sound, Fetched, IsPending
      <4>3. QED
        BY <4>1, <4>2
    <3>9. ~run'.written
      BY <2>1, <3>5 DEF Sound, Typed, RunOK
    <3>10. QED
      BY <2>1, <2>7, <3>7, <3>8, <3>9 DEF Sound, Typed, HalfWritten
  <2>10. QED
    BY <2>8, <2>9
<1>4. CASE Finish
  <2>1. run' = None /\ UNCHANGED <<now, stores, published, mapfile, service, left>>
    BY <1>4 DEF Finish
  <2>2. /\ documents' \in [Sources -> File(Documents)] /\ links' \in [Sources -> File(Links)]
        /\ \A s \in Sources : Stored(s)'
    BY <2>1, StoresUntouched DEF Sound, Typed, Ticks
  <2>3. QED
    BY <2>1, <2>2 DEF Sound, Typed, RunOK, HalfWritten
<1>5. QED
  BY <1>1, <1>2, <1>3, <1>4

(* A document is written, and its record waits for its link.               *)
LEMMA HalfStep ==
    ASSUME Sound, IsWriting, NEW counter \in Counters,
           run' = [Counted(counter) EXCEPT !.written = TRUE], UNCHANGED <<now, service>>
    PROVE  /\ RunOK'
           /\ \A s \in Sources : Fetched(s)'
           /\ run'.symbol = run.symbol /\ run'.source = run.source
           /\ run'.records = run.records
           /\ \A s \in Sources : /\ run'.results[s].answer = run.results[s].answer
                                 /\ run'.results[s].outcome = run.results[s].outcome
           /\ \A s \in Sources \ {run.source} : run'.results[s].counts = run.results[s].counts
           /\ \A other \in Counters \ {counter} :
                 run'.results[run.source].counts[other] = run.results[run.source].counts[other]
           /\ Record' = Record
<1>0. PICK src \in Sources : src = run.source
  BY RecordProperty
<1>1. run \in Runs /\ run.source \in Sources /\ run # None /\ service # None
      /\ \A s \in Sources : Fetched(s)
  BY RecordProperty DEF IsWriting, Sound, Typed, RunOK
<1>2. PICK q : q = Counted(counter)
  OBVIOUS
<1>3. /\ q \in Runs
      /\ q.symbol = run.symbol /\ q.source = run.source
      /\ q.records = run.records
      /\ \A s \in Sources \ {run.source} : q.results[s] = run.results[s]
      /\ q.results[run.source].answer = run.results[run.source].answer
      /\ q.results[run.source].outcome = run.results[run.source].outcome
      /\ \A other \in Counters \ {counter} :
             q.results[run.source].counts[other] = run.results[run.source].counts[other]
  BY <1>1, <1>2, CountedType
<1>4. /\ run' \in Runs
      /\ run'.symbol = q.symbol /\ run'.source = q.source
      /\ run'.records = q.records /\ run'.results = q.results
  BY <1>2, <1>3 DEF Runs
<1>5. \A s \in Sources : /\ run'.results[s].answer = run.results[s].answer
                         /\ run'.results[s].outcome = run.results[s].outcome
  BY <1>3, <1>4
<1>6. run'.source = run.source /\ run'.symbol = run.symbol /\ run'.records = run.records
  BY <1>3, <1>4
<1>7. RunOK'
  <2>1. DOMAIN run.records # {} /\ IsPending(src) /\ IsConfigured(src) /\ IsCovered(src)
    BY <1>0, <1>1 DEF Sound, Typed, RunOK, IsWriting
  <2>2. DOMAIN run'.records # {} /\ IsPending(src)' /\ IsConfigured(src)' /\ IsCovered(src)'
    BY <1>5, <1>6, <2>1 DEF IsPending, IsConfigured, IsCovered
  <2>3. service' # None /\ run'.source = src /\ run'.source # None
    BY <1>0, <1>1, <1>6 DEF IsWriting
  <2>4. QED
    BY <1>4, <2>2, <2>3 DEF RunOK, IsPending, IsConfigured, IsCovered
<1>8. \A s \in Sources : Fetched(s)'
  <2>1. SUFFICES ASSUME NEW s \in Sources PROVE Fetched(s)'
    OBVIOUS
  <2>2. Fetched(s)
    BY <1>1
  <2>3. IsPending(s)' = IsPending(s)
    BY <1>5 DEF IsPending
  <2>4. QED
    BY <1>5, <1>6, <2>2, <2>3 DEF Fetched
<1>9. Record' = Record
  BY <1>6 DEF Record
<1>10. QED
  BY <1>3, <1>4, <1>5, <1>6, <1>7, <1>8, <1>9

(* What write_document makes of a record: a new row, or none.              *)
LEMMA ClassifiedAs ==
    ASSUME NEW rows, NEW document
    PROVE  Classified(rows, document) \in {"accepted", "conflict", "duplicate", "revision"}
BY DEF Classified

LEMMA WriteDocumentSound ==
    ASSUME Sound, WriteDocument
    PROVE  Sound'
<1>0. PICK src \in Sources : src = run.source
  BY RecordProperty DEF WriteDocument
<1>1. /\ IsWriting /\ ~run.written
      /\ UNCHANGED <<now, links, published, mapfile, service, snapshot, left>>
  BY DEF WriteDocument
<1> DEFINE file == documents[src]
           rows == AllRows(file)
           outcome == Classified(RowsRead(file), Record)
<1>2. file \in File(Documents) /\ Record \in Documents
  BY <1>1, RecordProperty DEF Sound, Typed
<1>3. ASSUME UNCHANGED documents
      PROVE  /\ documents' \in [Sources -> File(Documents)]
             /\ links' \in [Sources -> File(Links)]
             /\ \A s \in Sources : Stored(s)'
  BY <1>1, <1>3, StoresUntouched DEF stores, Sound, Typed, Ticks
<1>4. ASSUME NEW counter \in Counters, run' = NextRecord(Counted(counter)), UNCHANGED documents
      PROVE  Sound'
  <2>1. RunOK' /\ HalfWritten' /\ \A s \in Sources : Fetched(s)'
    BY <1>1, <1>4, CountedStep
  <2>2. /\ documents' \in [Sources -> File(Documents)]
        /\ links' \in [Sources -> File(Links)]
        /\ \A s \in Sources : Stored(s)'
    BY <1>3, <1>4
  <2>3. QED
    BY <1>1, <2>1, <2>2 DEF Sound, Typed
<1>5. CASE ~IsReadable(file) /\ Reject /\ UNCHANGED documents
  BY <1>4, <1>5 DEF Reject, Counters
<1>6. CASE /\ IsReadable(file)
           /\ run' = AfterDocument(outcome)
           /\ documents' = IF outcome \in {"conflict", "duplicate"} THEN documents
                           ELSE [documents EXCEPT ![src] = Appended(@, Revised(RowsRead(@), Record))]
  <2>1. RowsRead(file) = rows
    BY <1>6, ReadableIsRead
  <2>2. CASE outcome = "conflict"
    <3>1. run' = NextRecord(Counted("conflict")) /\ UNCHANGED documents
      BY <1>6, <2>2 DEF AfterDocument
    <3>2. QED
      BY <1>4, <3>1 DEF Counters
  <2>3. CASE outcome # "conflict"
    <3>1. PICK counter \in Counters : counter = outcome
      BY ClassifiedAs DEF Counters
    <3>2. run' = [Counted(counter) EXCEPT !.written = TRUE]
      BY <1>6, <2>3, <3>1 DEF AfterDocument
    <3>3. /\ RunOK' /\ \A s \in Sources : Fetched(s)'
          /\ run'.source = run.source /\ Record' = Record
      BY <1>1, <3>2, HalfStep
    <3>4. ASSUME /\ documents' \in [Sources -> File(Documents)]
                 /\ links' \in [Sources -> File(Links)]
                 /\ \A s \in Sources : Stored(s)',
                 \A row \in AllRows(documents'[src]) :
                     row.id = Record.id => row.signature = Record.signature,
                 IsReadable(documents'[src]) =>
                     /\ IsStored(AllRows(documents'[src]), Record.id)
                     /\ HasSameContent(Current(AllRows(documents'[src]), Record.id), Record)
          PROVE  Sound'
      <4>1. HalfWritten'
        BY <1>0, <3>3, <3>4 DEF HalfWritten
      <4>2. QED
        BY <1>1, <3>3, <3>4, <4>1 DEF Sound, Typed
    <3>5. CASE outcome = "duplicate"
      <4>1. UNCHANGED documents
        BY <1>6, <3>5
      <4>2. Classified(rows, Record) = "duplicate"
        BY <2>1, <3>5
      <4>3. IsStored(rows, Record.id) /\ HasSameContent(Current(rows, Record.id), Record)
        BY <4>2 DEF Classified
      <4>4. \A row \in rows : row.id = Record.id => row.signature = Record.signature
        <5>1. rows \in SUBSET Documents /\ IsFiniteSet(rows) /\ Whole(rows) /\ OneSignature(rows)
          BY <1>2, <1>6, RowsType DEF Sound, Stored
        <5>2. Current(rows, Record.id) \in RevisionsOf(rows, Record.id)
          <6> HIDE DEF rows
          <6>1. QED
            BY <4>3, <5>1, CurrentIsLast
        <5>3. Current(rows, Record.id).signature = Record.signature
          BY <4>3 DEF HasSameContent
        <5>4. QED
          BY <5>1, <5>2, <5>3 DEF OneSignature, RevisionsOf
      <4>5. QED
        BY <1>3, <3>4, <4>1, <4>3, <4>4
    <3>6. CASE outcome \in {"accepted", "revision"}
      <4>1. PICK new : new = Revised(RowsRead(file), Record)
        OBVIOUS
      <4>2. PICK g : g = Appended(file, new)
        OBVIOUS
      <4>3. documents' = [documents EXCEPT ![run.source] = g]
        BY <1>0, <1>6, <3>6, <4>1, <4>2
      <4>4. PICK f : f = documents[run.source]
        OBVIOUS
      <4>5. f = file
        BY <1>0, <4>4
      <4>6. /\ IsReadable(f) /\ Classified(RowsRead(f), Record) \in {"accepted", "revision"}
            /\ new = Revised(RowsRead(f), Record) /\ g \in CutShort(f, new) \cup {Appended(f, new)}
        BY <1>6, <3>6, <4>1, <4>2, <4>5
      <4>7. UNCHANGED <<now, links>>
        BY <1>1
      <4>8. /\ documents' \in [Sources -> File(Documents)]
            /\ \A s \in Sources : Stored(s)'
            /\ \A row \in AllRows(g) : row.id = Record.id => row.signature = Record.signature
            /\ IsReadable(g) => AllRows(g) = AllRows(f) \cup {new}
            /\ Current(AllRows(f) \cup {new}, Record.id) = new
            /\ IsStored(AllRows(f) \cup {new}, Record.id)
            /\ HasSameContent(new, Record)
        <5>1. g = Appended(f, new)
          BY <4>2, <4>5
        <5>2. /\ documents' \in [Sources -> File(Documents)]
              /\ \A s \in Sources : Stored(s)'
          BY <1>1, <4>3, <4>4, <4>6, <4>7, DocumentStep
        <5>3. IsExtended(g, f, new)
          BY <1>1, <4>3, <4>4, <4>6, <4>7, DocumentStep
        <5>4. /\ Current(AllRows(f) \cup {new}, Record.id) = new
              /\ IsStored(AllRows(f) \cup {new}, Record.id)
              /\ HasSameContent(new, Record)
              /\ new.id = Record.id /\ new.signature = Record.signature
          BY <1>1, <4>3, <4>4, <4>6, <4>7, DocumentStep
        <5>5. IsReadable(g) => AllRows(g) = AllRows(f) \cup {new}
          BY <5>1, <5>3 DEF IsExtended
        <5>6. QED
          BY <5>2, <5>3, <5>4, <5>5 DEF IsExtended
      <4>9. documents'[src] = g /\ links' \in [Sources -> File(Links)]
        BY <1>0, <1>1, <4>3 DEF Sound, Typed
      <4>10. QED
        BY <3>4, <4>8, <4>9
    <3>7. QED
      BY <2>3, <3>5, <3>6, ClassifiedAs
  <2>4. QED
    BY <2>2, <2>3
<1>7. QED
  BY <1>0, <1>1, <1>5, <1>6 DEF WriteDocument

LEMMA WriteLinkSound ==
    ASSUME Sound, WriteLink
    PROVE  Sound'
<1>0. PICK src \in Sources : src = run.source
  BY RecordProperty DEF WriteLink
<1>1. /\ IsWriting /\ run.written /\ run \in Runs /\ src = run.source
      /\ UNCHANGED <<now, documents, published, mapfile, service, snapshot, left>>
  BY <1>0, RecordProperty DEF WriteLink
<1> DEFINE file == links[src]
           link == Link(src, Record, run.symbol)
<1>2. ASSUME UNCHANGED links, RunOK', HalfWritten', \A s \in Sources : Fetched(s)'
      PROVE  Sound'
  <2>1. /\ documents' \in [Sources -> File(Documents)]
        /\ links' \in [Sources -> File(Links)]
        /\ \A s \in Sources : Stored(s)'
    BY <1>1, <1>2, StoresUntouched DEF stores, Sound, Typed, Ticks
  <2>2. QED
    BY <1>1, <1>2, <2>1 DEF Sound, Typed
<1>3. CASE Reject /\ UNCHANGED links
  <2>1. RunOK' /\ HalfWritten' /\ \A s \in Sources : Fetched(s)'
    <3>1. "rejected" \in Counters /\ run' = NextRecord(Counted("rejected"))
      BY <1>3 DEF Reject, Counters
    <3>2. QED
      BY <1>1, <3>1, CountedStep
  <2>2. QED
    BY <1>2, <1>3, <2>1
<1>4. CASE run' = NextRecord(run) /\ UNCHANGED links
  <2>1. RunOK' /\ HalfWritten' /\ \A s \in Sources : Fetched(s)'
    BY <1>1, <1>4, AdvanceStep
  <2>2. QED
    BY <1>2, <1>4, <2>1
<1>5. CASE /\ IsReadable(file) /\ ~IsLinked(file, link)
           /\ run' = NextRecord(Counted("associations"))
           /\ links' = [links EXCEPT ![src] = Appended(@, link)]
  <2>1. RunOK' /\ HalfWritten' /\ \A s \in Sources : Fetched(s)'
    <3>1. "associations" \in Counters
      BY DEF Counters
    <3>2. QED
      BY <1>1, <1>5, <3>1, CountedStep
  <2>2. PICK f, l, g : f = file /\ l = link /\ g = Appended(file, link)
    OBVIOUS
  <2>3. /\ f = links[run.source] /\ IsReadable(f)
        /\ l = Link(run.source, Record, run.symbol) /\ ~IsLinked(f, l)
        /\ g \in CutShort(f, l) \cup {Appended(f, l)}
        /\ links' = [links EXCEPT ![run.source] = g]
    BY <1>0, <1>5, <2>2 DEF Sound, Typed
  <2>4. UNCHANGED <<now, documents>>
    BY <1>1
  <2>5. links' \in [Sources -> File(Links)] /\ \A s \in Sources : Stored(s)'
    BY <1>1, <2>3, <2>4, LinkStep
  <2>6. QED
    BY <1>1, <2>1, <2>5 DEF Sound, Typed
<1>6. QED
  BY <1>0, <1>3, <1>4, <1>5 DEF WriteLink

(* An append is cut short: the stores are as sound as they were, and the   *)
(* rest is what the caller makes of it.                                    *)
LEMMA CutSound ==
    ASSUME Sound, CutDocument \/ CutLink, UNCHANGED now
    PROVE  /\ documents' \in [Sources -> File(Documents)]
           /\ links' \in [Sources -> File(Links)]
           /\ \A s \in Sources : Stored(s)'
<1>1. IsWriting /\ run.source \in Sources
  BY RecordProperty DEF CutDocument, CutLink
<1>2. CASE CutDocument
  <2>1. PICK file : file = documents[run.source]
    OBVIOUS
  <2>2. PICK new : new = Revised(RowsRead(file), Record)
    OBVIOUS
  <2>3. PICK g \in CutShort(file, new) : documents' = [documents EXCEPT ![run.source] = g]
    BY <1>2, <2>1, <2>2 DEF CutDocument
  <2>4. /\ IsReadable(file) /\ Classified(RowsRead(file), Record) \in {"accepted", "revision"}
        /\ g \in CutShort(file, new) \cup {Appended(file, new)}
        /\ UNCHANGED <<now, links>>
    BY <1>2, <2>1 DEF CutDocument
  <2>5. documents' \in [Sources -> File(Documents)] /\ \A s \in Sources : Stored(s)'
    BY <1>1, <2>1, <2>2, <2>3, <2>4, DocumentStep
  <2>6. QED
    BY <1>2, <2>5 DEF CutDocument, Sound, Typed
<1>3. CASE CutLink
  <2>1. PICK file : file = links[run.source]
    OBVIOUS
  <2>2. PICK link : link = Link(run.source, Record, run.symbol)
    OBVIOUS
  <2>3. PICK g \in CutShort(file, link) : links' = [links EXCEPT ![run.source] = g]
    BY <1>3, <2>1, <2>2 DEF CutLink
  <2>4. /\ IsReadable(file) /\ ~IsLinked(file, link) /\ run.written
        /\ g \in CutShort(file, link) \cup {Appended(file, link)}
        /\ UNCHANGED <<now, documents>>
    BY <1>3, <2>1, <2>2 DEF CutLink
  <2>5. links' \in [Sources -> File(Links)] /\ \A s \in Sources : Stored(s)'
    BY <1>1, <2>1, <2>2, <2>3, <2>4, LinkStep
  <2>6. QED
    BY <1>3, <2>5 DEF CutLink, Sound, Typed
<1>4. QED
  BY <1>2, <1>3

LEMMA FaultsSound ==
    ASSUME Sound, WriteRaises \/ Crash
    PROVE  Sound'
<1>1. left' \in EnvironmentType
  BY SpendType DEF WriteRaises, Crash, Sound, Typed
<1>2. UNCHANGED <<now, published, mapfile>>
  BY DEF WriteRaises, Crash
<1>3. /\ documents' \in [Sources -> File(Documents)]
      /\ links' \in [Sources -> File(Links)]
      /\ \A s \in Sources : Stored(s)'
  <2>1. CASE CutDocument \/ CutLink
    BY <1>2, <2>1, CutSound
  <2>2. CASE UNCHANGED stores
    BY <1>2, <2>2, StoresUntouched DEF Sound, Typed, Ticks
  <2>3. QED
    BY <2>1, <2>2 DEF WriteRaises, Crash
<1>4. CASE WriteRaises
  <2>1. IsWriting /\ Reject /\ UNCHANGED <<now, service>>
    BY <1>4 DEF WriteRaises, CutDocument, CutLink
  <2>2. RunOK' /\ HalfWritten' /\ \A s \in Sources : Fetched(s)'
    <3>1. "rejected" \in Counters /\ run' = NextRecord(Counted("rejected"))
      BY <2>1 DEF Reject, Counters
    <3>2. QED
      BY <2>1, <3>1, CountedStep
  <2>3. QED
    BY <1>1, <1>2, <1>3, <2>1, <2>2 DEF Sound, Typed
<1>5. CASE Crash
  <2>1. run' = None /\ service' = None
    BY <1>5 DEF Crash
  <2>2. QED
    BY <1>1, <1>2, <1>3, <2>1 DEF Sound, Typed, RunOK, HalfWritten
<1>6. QED
  BY <1>4, <1>5

LEMMA InitSound == Init => Sound
<1> SUFFICES ASSUME Init PROVE Sound
  OBVIOUS
<1>1. \A Row : EmptyFile \in File(Row)
  BY DEF EmptyFile, File, Lasts
<1>2. AllRows(EmptyFile) = {} /\ DOMAIN EmptyFile.rows = {}
  BY DEF AllRows, EmptyFile
<1>3. left \in EnvironmentType /\ published \in Maps
  BY NewsAssumption DEF Init, EnvironmentType, Maps
<1>4. Typed
  BY <1>1, <1>3, NewsAssumption DEF Init, Typed, RunOK, Ticks
<1>5. \A s \in Sources : Stored(s)
  BY <1>2 DEF Init, Stored, OneSignature, Whole
<1>6. QED
  BY <1>4, <1>5 DEF Init, Sound, HalfWritten

LEMMA SoundStep == Sound /\ [Next]_vars => Sound'
<1> SUFFICES ASSUME Sound, [Next]_vars PROVE Sound'
  OBVIOUS
<1>1. CASE UNCHANGED vars
  BY <1>1 DEF vars, stores, Sound, Typed, RunOK, Stored, Fetched, HalfWritten, IsPending,
              IsConfigured, IsCovered, Record
<1>2. CASE Next
  BY <1>2, AroundSound, AskingSound, WriteDocumentSound, WriteLinkSound, FaultsSound
     DEF Next, Refresh
<1>3. QED
  BY <1>1, <1>2

(* The stores and the refresh under way are sound in every reachable state.*)
LEMMA AlwaysSound == Spec => []Sound
BY InitSound, SoundStep, PTL DEF Spec

(* "The symbol association is a source fact": a verified link carries the  *)
(* registrant its document was filed under, whatever tickers were          *)
(* reassigned and whoever filed together (write_document of                *)
(* src/news/store.py, _refresh_one of src/application/news.py).            *)
THEOREM VerifiedIsRegistrant == Spec => []VerifiedMeansRegistrant
<1>1. Sound => VerifiedMeansRegistrant
  <2> SUFFICES ASSUME Sound PROVE VerifiedMeansRegistrant
    OBVIOUS
  <2>1. "edgar" \in Sources /\ Stored("edgar")
    BY DEF Sound, Sources
  <2>2. /\ RowsRead(links["edgar"]) \subseteq AllRows(links["edgar"])
        /\ RowsRead(documents["edgar"]) \subseteq AllRows(documents["edgar"])
    BY DEF RowsRead, AllRows
  <2>3. QED
    BY <2>1, <2>2 DEF Stored, VerifiedMeansRegistrant
<1>2. QED
  BY <1>1, AlwaysSound, PTL

(* While a store can be read its documents are whole histories, a replay   *)
(* for the moment of an observation returns that observation, and every    *)
(* link names a stored document, once, whatever failed or died             *)
(* (write_document, write_link and latest_documents of src/news/store.py). *)
THEOREM HistoriesStayWhole == Spec => []HistoriesAreWhole
<1>1. Sound => HistoriesAreWhole
  <2> SUFFICES ASSUME Sound PROVE HistoriesAreWhole
    OBVIOUS
  <2> SUFFICES ASSUME NEW s \in Sources, IsReadable(documents[s]), IsReadable(links[s]),
                      NEW rows, rows = RowsRead(documents[s])
               PROVE  /\ \A row \in rows :
                            /\ RevisionNumbers(rows, row.id) =
                                  1 .. Cardinality(RevisionsOf(rows, row.id))
                            /\ \E seen \in Observed(rows, row.retrieved_at) :
                                  seen.id = row.id /\ seen.retrieved_at = row.retrieved_at
                            /\ \A other \in RevisionsOf(rows, row.id) :
                                  /\ other.signature = row.signature
                                  /\ other.revision = row.revision + 1
                                        => ~HasSameContent(row, other)
                      /\ \A i, j \in DOMAIN links[s].rows :
                            LinkKey(links[s].rows[i]) = LinkKey(links[s].rows[j]) => i = j
                      /\ \A link \in RowsRead(links[s]) : IsStored(rows, link.id)
    BY DEF HistoriesAreWhole
  <2>1. rows = AllRows(documents[s]) /\ RowsRead(links[s]) = AllRows(links[s])
    BY ReadableIsRead
  <2>2. rows \in SUBSET Documents /\ IsFiniteSet(rows)
    BY <2>1, RowsType DEF Sound, Typed
  <2>3. Stored(s)
    BY DEF Sound
  <2>4. Whole(rows) /\ OneSignature(rows)
    BY <2>1, <2>3 DEF Stored
  <2>5. ASSUME NEW row \in rows
        PROVE  \E seen \in Observed(rows, row.retrieved_at) :
                   seen.id = row.id /\ seen.retrieved_at = row.retrieved_at
    <3> DEFINE known == {other \in rows : other.retrieved_at <= row.retrieved_at}
               mine == RevisionsOf(known, row.id)
               numbers == {other.revision : other \in mine}
    <3>1. row \in Documents /\ row.retrieved_at \in Nat
      BY <2>2 DEF Documents
    <3>2. row \in known /\ row \in mine
      BY <3>1 DEF RevisionsOf
    <3>3. \A other \in mine : other \in rows /\ other.id = row.id /\ other.revision \in Nat
      BY <2>2 DEF RevisionsOf, Documents
    <3>4. \A other \in mine :
              other.revision \in 1 .. Cardinality(RevisionsOf(rows, row.id))
      BY <2>4, <3>3 DEF Whole, RevisionNumbers, RevisionsOf
    <3>5. Cardinality(RevisionsOf(rows, row.id)) \in Nat
      BY <2>2, FS_Subset, FS_CardinalityType DEF RevisionsOf
    <3>6. PICK last \in mine : \A other \in mine : other.revision <= last.revision
      <4>0. PICK top \in Nat : top = Cardinality(RevisionsOf(rows, row.id))
        BY <3>5
      <4> DEFINE gaps == {top - n : n \in numbers}
      <4>a. \A n \in numbers : n \in Nat /\ n \in 1 .. top
        BY <3>3, <3>4, <4>0
      <4>b. row.revision \in numbers
        BY <3>2
      <4> HIDE DEF numbers
      <4>1. gaps \in SUBSET Nat /\ gaps # {}
        BY <4>0, <4>a, <4>b
      <4>2. PICK gap \in gaps : \A other \in gaps : gap <= other
        <5> HIDE DEF gaps
        <5> QED
          BY <4>1, LeastExists
      <4>c. PICK number \in numbers : gap = top - number
        BY <4>2
      <4>3. PICK last \in mine : number = last.revision
        BY <4>c DEF numbers
      <4>4. \A other \in mine : top - number <= top - other.revision
        BY <4>2, <4>c DEF numbers
      <4>5. \A other \in mine : other.revision <= last.revision
        BY <3>3, <4>0, <4>3, <4>4
      <4>6. QED
        BY <4>5
    <3>7. Current(known, row.id) \in mine
          /\ \A other \in mine : other.revision <= Current(known, row.id).revision
      BY <3>6, Zenon DEF Current
    <3> DEFINE seen == Current(known, row.id)
    <3>8. seen \in Observed(rows, row.retrieved_at)
      BY <3>2 DEF Observed, LatestDocuments
    <3>9. seen \in rows /\ seen.id = row.id /\ seen.retrieved_at <= row.retrieved_at
          /\ row.revision <= seen.revision
      BY <3>2, <3>3, <3>7 DEF RevisionsOf
    <3>10. row.retrieved_at <= seen.retrieved_at
      BY <2>4, <3>9 DEF Whole
    <3>11. seen.retrieved_at \in Nat
      BY <2>2, <3>9 DEF Documents
    <3>12. seen.retrieved_at = row.retrieved_at
      BY <3>1, <3>9, <3>10, <3>11
    <3> HIDE DEF seen
    <3>13. QED
      BY <3>8, <3>9, <3>12
  <2>6. \A row \in rows, other \in rows : row.id = other.id =>
            /\ other.signature = row.signature
            /\ other.revision = row.revision + 1 => ~HasSameContent(row, other)
    BY <2>4 DEF Whole, OneSignature
  <2>7. \A row \in rows : \A other \in RevisionsOf(rows, row.id) :
            other \in rows /\ other.id = row.id
    BY DEF RevisionsOf
  <2>8. \A row \in rows :
            RevisionNumbers(rows, row.id) = 1 .. Cardinality(RevisionsOf(rows, row.id))
    BY <2>4 DEF Whole
  <2>9. /\ \A i, j \in DOMAIN links[s].rows :
              LinkKey(links[s].rows[i]) = LinkKey(links[s].rows[j]) => i = j
        /\ \A link \in RowsRead(links[s]) : IsStored(rows, link.id)
    BY <2>1, <2>3 DEF Stored
  <2>10. QED
    BY <2>5, <2>6, <2>7, <2>8, <2>9
<1>2. QED
  BY <1>1, AlwaysSound, PTL

-----------------------------------------------------------------------------
(* What came of the records of a source.                                   *)

(* Of what is done, all but as many as there are faults is shown.          *)
Covers(done, shown, faults) ==
    \E lost \in SUBSET done :
        /\ IsFiniteSet(lost)
        /\ Cardinality(lost) <= faults
        /\ done \ lost \subseteq shown

(* The places of an answer whose document is linked to the symbol and is,  *)
(* in content, the record there or one after it.                           *)
ShownOf(answer, rows, linked, symbol) ==
    {n \in DOMAIN answer :
        /\ IsStored(rows, answer[n].id)
        /\ \E m \in DOMAIN answer : n <= m /\ HasSameContent(Current(rows, answer[n].id), answer[m])
        /\ \E link \in linked : link.id = answer[n].id /\ link.symbol = symbol}

ShownIn(s) ==
    ShownOf(run.results[s].answer, AllRows(documents[s]), AllRows(links[s]), run.symbol)

Faults(s) == run.results[s].counts["rejected"] + run.results[s].counts["conflict"]

(* The places of a source that were written, or could not be.              *)
Done(s) ==
    IF run.source = s THEN DOMAIN run.results[s].answer \ DOMAIN run.records
    ELSE DOMAIN run.results[s].answer

(* While a source can be read, what is done of its answer is shown but for *)
(* what its result counts.                                                 *)
Accounted(s) ==
    IsReadable(documents[s]) /\ IsReadable(links[s]) => Covers(Done(s), ShownIn(s), Faults(s))

Accounting == run # None => \A s \in Sources : Accounted(s)

LEMMA CoversMore ==
    ASSUME NEW done, NEW shown, NEW faults \in Nat, Covers(done, shown, faults),
           NEW more \in Nat, faults <= more,
           NEW seen, done \cap shown \subseteq seen
    PROVE  Covers(done, seen, more)
<1>1. PICK lost \in SUBSET done :
          IsFiniteSet(lost) /\ Cardinality(lost) <= faults /\ done \ lost \subseteq shown
  BY DEF Covers
<1>2. Cardinality(lost) <= more
  BY <1>1, FS_CardinalityType
<1>3. QED
  BY <1>1, <1>2 DEF Covers

LEMMA CoversShown ==
    ASSUME NEW done, NEW shown, NEW faults \in Nat, Covers(done, shown, faults),
           NEW seen, done \cap shown \subseteq seen, NEW place \in seen
    PROVE  Covers(done \cup {place}, seen, faults)
BY DEF Covers

LEMMA CoversFault ==
    ASSUME NEW done, NEW shown, NEW faults \in Nat, Covers(done, shown, faults),
           NEW seen, done \cap shown \subseteq seen, NEW place,
           NEW more \in Nat, more = faults + 1
    PROVE  Covers(done \cup {place}, seen, more)
<1>1. PICK lost \in SUBSET done :
          IsFiniteSet(lost) /\ Cardinality(lost) <= faults /\ done \ lost \subseteq shown
  BY DEF Covers
<1>2. /\ IsFiniteSet(lost \cup {place})
      /\ Cardinality(lost \cup {place}) \in {Cardinality(lost), Cardinality(lost) + 1}
  BY <1>1, FS_AddElement
<1>3. Cardinality(lost) \in Nat
  BY <1>1, FS_CardinalityType
<1>4. Cardinality(lost \cup {place}) <= more
  BY <1>1, <1>2, <1>3
<1>5. lost \cup {place} \in SUBSET (done \cup {place})
      /\ (done \cup {place}) \ (lost \cup {place}) \subseteq seen
  BY <1>1
<1>6. QED
  BY <1>2, <1>4, <1>5 DEF Covers

LEMMA CoversNothing ==
    ASSUME NEW shown, NEW faults \in Nat
    PROVE  Covers({}, shown, faults)
<1>1. Cardinality({}) <= faults /\ IsFiniteSet({})
  BY FS_EmptySet
<1>2. QED
  BY <1>1 DEF Covers

LEMMA FaultsType ==
    ASSUME run \in Runs, NEW s \in Sources
    PROVE  Faults(s) \in Nat
BY DEF Faults, Runs, Results, Counters

(* A source that is not written keeps its account.                         *)
LEMMA AccountKept ==
    ASSUME NEW s \in Sources, Accounted(s), UNCHANGED <<documents[s], links[s]>>,
           Done(s)' = Done(s), run'.symbol = run.symbol,
           run'.results[s].answer = run.results[s].answer,
           run'.results[s].counts = run.results[s].counts
    PROVE  Accounted(s)'
<1>1. ShownIn(s)' = ShownIn(s)
  BY DEF ShownIn, AllRows
<1>2. Faults(s)' = Faults(s)
  BY DEF Faults
<1>3. QED
  BY <1>1, <1>2 DEF Accounted

(* The next record of a source is counted: as a fault, or shown.           *)
LEMMA AccountGrows ==
    ASSUME Sound, IsWriting, NEW src, src = run.source, Accounted(src),
           run'.results[src].answer = run.results[src].answer,
           run' \in Runs,
           DOMAIN run'.records = DOMAIN run.records \ {Place(run.records)},
           run'.source = IF DOMAIN run'.records = {} THEN None ELSE run.source,
           IsReadable(documents'[src]) => IsReadable(documents[src]),
           IsReadable(links'[src]) => IsReadable(links[src]),
           IsReadable(documents'[src]) /\ IsReadable(links'[src]) =>
               /\ Done(src) \cap ShownIn(src) \subseteq ShownIn(src)'
               /\ \/ Faults(src)' = Faults(src) + 1
                  \/ Faults(src)' = Faults(src) /\ Place(run.records) \in ShownIn(src)'
    PROVE  Accounted(src)'
<1> DEFINE place == Place(run.records)
           answer == run.results[src].answer
<1>1. /\ run \in Runs /\ src \in Sources /\ src # None /\ place \in DOMAIN run.records
      /\ DOMAIN run.records \subseteq DOMAIN answer
  BY RecordProperty, NewsAssumption DEF Sound, Fetched, IsWriting
<1>2. Done(src) = DOMAIN answer \ DOMAIN run.records
  BY DEF Done
<1>3. Done(src)' = Done(src) \cup {place}
  <2>1. CASE DOMAIN run'.records = {}
    <3>1. Done(src)' = DOMAIN answer
      BY <1>1, <2>1 DEF Done
    <3>2. DOMAIN run.records = {place}
      BY <1>1, <2>1
    <3>3. QED
      BY <1>1, <1>2, <3>1, <3>2
  <2>2. CASE DOMAIN run'.records # {}
    <3>1. Done(src)' = DOMAIN answer \ (DOMAIN run.records \ {place})
      BY <2>2 DEF Done
    <3>2. QED
      BY <1>1, <1>2, <3>1
  <2>3. QED
    BY <2>1, <2>2
<1>4. Faults(src) \in Nat /\ Faults(src)' \in Nat
  BY <1>1, FaultsType DEF Faults, Runs, Results, Counters
<1>5. ASSUME IsReadable(documents'[src]), IsReadable(links'[src])
      PROVE  Covers(Done(src)', ShownIn(src)', Faults(src)')
  <2>1. Covers(Done(src), ShownIn(src), Faults(src))
    BY <1>5 DEF Accounted
  <2>2. PICK done, shown, faults, seen, more :
            /\ done = Done(src) /\ shown = ShownIn(src) /\ faults = Faults(src)
            /\ seen = ShownIn(src)' /\ more = Faults(src)'
    OBVIOUS
  <2>3. Covers(done, shown, faults) /\ done \cap shown \subseteq seen
        /\ faults \in Nat /\ more \in Nat
    BY <1>4, <1>5, <2>1, <2>2
  <2>4. Done(src)' = done \cup {place}
    BY <1>3, <2>2
  <2>5. CASE more = faults + 1
    <3>1. Covers(done \cup {place}, seen, more)
      BY <2>3, <2>5, CoversFault
    <3>2. QED
      BY <2>2, <2>4, <3>1
  <2>6. CASE more = faults /\ place \in seen
    <3>1. Covers(done \cup {place}, seen, faults)
      BY <2>3, <2>6, CoversShown
    <3>2. QED
      BY <2>2, <2>4, <2>6, <3>1
  <2>7. QED
    BY <1>5, <2>2, <2>5, <2>6
<1>6. QED
  BY <1>5 DEF Accounted

(* A write of a document hides nothing of what was shown: the document it  *)
(* replaces is now in content the record that replaced it.                 *)
LEMMA DocumentKeepsShown ==
    ASSUME Sound, IsWriting, NEW src, src = run.source,
           NEW file, file = documents[src],
           IsReadable(file), Classified(RowsRead(file), Record) \in {"accepted", "revision"},
           NEW new, new = Revised(RowsRead(file), Record),
           NEW g \in CutShort(file, new) \cup {Appended(file, new)},
           documents' = [documents EXCEPT ![src] = g],
           UNCHANGED <<now, links>>,
           run'.symbol = run.symbol,
           run'.results[src].answer = run.results[src].answer
    PROVE  IsReadable(g) => Done(src) \cap ShownIn(src) \subseteq ShownIn(src)'
<1> DEFINE answer == run.results[src].answer
           place == Place(run.records)
           rows == AllRows(file)
           joined == rows \cup {new}
<1>1. /\ IsExtended(g, file, new)
      /\ Current(joined, Record.id) = new
      /\ IsStored(joined, Record.id)
      /\ HasSameContent(new, Record)
      /\ AgreeBut(joined, rows, Record.id)
  <2>1. documents' = [documents EXCEPT ![run.source] = g] /\ file = documents[run.source]
    OBVIOUS
  <2>2. IsExtended(g, file, new)
    BY <2>1, DocumentStep
  <2>3. /\ Current(joined, Record.id) = new
        /\ IsStored(joined, Record.id)
        /\ HasSameContent(new, Record)
    BY <2>1, DocumentStep
  <2>4. AgreeBut(joined, rows, Record.id)
    BY <2>1, DocumentStep
  <2>5. QED
    BY <2>2, <2>3, <2>4
<1>2. /\ src \in Sources /\ place \in DOMAIN run.records
      /\ Record = answer[place] /\ Fetched(src)
  BY RecordProperty DEF Sound, IsWriting
<1>3. /\ place \in DOMAIN answer
      /\ \A n \in Done(src) : n \in DOMAIN answer /\ n < place
      /\ DOMAIN answer \subseteq Nat
  <2>1. answer \in Records
    BY <1>2, RecordProperty DEF Runs, Results
  <2>2. DOMAIN answer \subseteq Nat
    BY <2>1, RecordsProperty
  <2>3. QED
    BY <1>2, <2>2 DEF Fetched, Done
<1>4. SUFFICES ASSUME IsReadable(g), NEW n \in Done(src) \cap ShownIn(src)
               PROVE  n \in ShownOf(answer, AllRows(g), AllRows(links[src]), run.symbol)
  <2>1. documents'[src] = g
    BY <1>2 DEF Sound, Typed
  <2>2. ShownIn(src)' = ShownOf(answer, AllRows(g), AllRows(links[src]), run.symbol)
    BY <2>1 DEF ShownIn, AllRows
  <2>3. QED
    BY <2>2
<1>5. n \in ShownOf(answer, rows, AllRows(links[src]), run.symbol)
  BY DEF ShownIn
<1>6. AllRows(g) = rows \/ AllRows(g) = joined
  BY <1>1, <1>4 DEF IsExtended
<1>7. n \in ShownOf(answer, joined, AllRows(links[src]), run.symbol)
  <2>1. CASE answer[n].id = Record.id
    <3>1. n \in DOMAIN answer /\ n <= place
      BY <1>3, <1>4
    <3>2. IsStored(joined, answer[n].id) /\ HasSameContent(Current(joined, answer[n].id), answer[place])
      BY <1>1, <1>2, <2>1
    <3>3. \E link \in AllRows(links[src]) : link.id = answer[n].id /\ link.symbol = run.symbol
      BY <1>5 DEF ShownOf
    <3> HIDE DEF joined, answer, place, rows
    <3>4. QED
      BY <1>3, <3>1, <3>2, <3>3 DEF ShownOf
  <2>2. CASE answer[n].id # Record.id
    <3>1. RevisionsOf(joined, answer[n].id) = RevisionsOf(rows, answer[n].id)
      BY <1>1, <2>2 DEF AgreeBut
    <3>2. /\ IsStored(joined, answer[n].id) = IsStored(rows, answer[n].id)
          /\ Current(joined, answer[n].id) = Current(rows, answer[n].id)
      BY <3>1 DEF IsStored, Current
    <3>3. QED
      BY <1>5, <3>2 DEF ShownOf
  <2>3. QED
    BY <2>1, <2>2
<1>8. QED
  BY <1>5, <1>6, <1>7

(* The source beside the one that is written keeps its account.            *)
LEMMA SiblingKept ==
    ASSUME Sound, IsWriting, Accounting, NEW s \in Sources, s # run.source,
           UNCHANGED <<documents[s], links[s]>>,
           run'.source \in {None, run.source}, run'.symbol = run.symbol,
           run'.results[s].answer = run.results[s].answer,
           run'.results[s].counts = run.results[s].counts
    PROVE  Accounted(s)'
<1>1. s # None
  BY NewsAssumption
<1>2. Done(s)' = Done(s)
  BY <1>1 DEF Done
<1>3. Accounted(s)
  BY DEF Accounting, IsWriting
<1>4. QED
  BY <1>2, <1>3, AccountKept

(* What joins the links leaves shown what was, and shows the record whose  *)
(* link it is.                                                             *)
LEMMA LinkShows ==
    ASSUME Sound, IsWriting, run.written, NEW src, src = run.source,
           UNCHANGED documents, IsReadable(documents[src]),
           AllRows(links[src]) \subseteq AllRows(links'[src]),
           run'.symbol = run.symbol,
           run'.results[src].answer = run.results[src].answer
    PROVE  /\ ShownIn(src) \subseteq ShownIn(src)'
           /\ (\E link \in AllRows(links'[src]) : link.id = Record.id /\ link.symbol = run.symbol)
                  => Place(run.records) \in ShownIn(src)'
<1> DEFINE answer == run.results[src].answer
           place == Place(run.records)
           rows == AllRows(documents[src])
           linked == AllRows(links'[src])
<1>1. ShownIn(src)' = ShownOf(answer, rows, linked, run.symbol)
  BY DEF ShownIn, AllRows
<1>2. ShownIn(src) = ShownOf(answer, rows, AllRows(links[src]), run.symbol)
  BY DEF ShownIn
<1>3. ShownIn(src) \subseteq ShownIn(src)'
  BY <1>1, <1>2 DEF ShownOf
<1>4. IsStored(rows, Record.id) /\ HasSameContent(Current(rows, Record.id), Record)
  BY DEF Sound, HalfWritten, IsWriting
<1>5. /\ run \in Runs /\ src \in Sources /\ place \in DOMAIN run.records
      /\ Record = answer[place] /\ Fetched(src)
  BY RecordProperty DEF Sound, IsWriting
<1>6. place \in DOMAIN answer
  BY <1>5 DEF Fetched
<1>7. answer \in Records
  BY <1>5 DEF Runs, Results
<1>8. place \in Nat
  BY <1>6, <1>7, RecordsProperty
<1>9. place <= place
  BY <1>8
<1>10. QED
  BY <1>1, <1>3, <1>4, <1>5, <1>6, <1>9 DEF ShownOf

LEMMA WriteDocumentAccounts ==
    ASSUME Sound, Accounting, WriteDocument
    PROVE  Accounting'
<1>0. PICK src \in Sources : src = run.source
  BY RecordProperty DEF WriteDocument
<1>1. /\ IsWriting /\ ~run.written /\ run \in Runs /\ run # None /\ src # None
      /\ UNCHANGED <<now, links, published, mapfile, service, snapshot, left>>
      /\ Accounted(src)
  BY <1>0, RecordProperty, NewsAssumption DEF WriteDocument, Accounting, IsWriting
<1> DEFINE file == documents[src]
           outcome == Classified(RowsRead(file), Record)
<1>2. /\ \A s \in Sources \ {src} : documents'[s] = documents[s] /\ links'[s] = links[s]
      /\ documents \in [Sources -> File(Documents)]
  BY <1>0, <1>1 DEF WriteDocument, Sound, Typed
<1>3. ASSUME run'.source \in {None, run.source}, run'.symbol = run.symbol,
             \A s \in Sources : run'.results[s].answer = run.results[s].answer,
             \A s \in Sources \ {run.source} : run'.results[s].counts = run.results[s].counts,
             Accounted(src)'
      PROVE  Accounting'
  <2>1. \A s \in Sources \ {src} : Accounted(s)'
    BY <1>0, <1>1, <1>2, <1>3, SiblingKept
  <2>2. QED
    BY <1>0, <1>3, <2>1 DEF Accounting
<1>4. CASE ~IsReadable(file) /\ Reject /\ UNCHANGED documents
  <2>1. "rejected" \in Counters /\ run' = NextRecord(Counted("rejected"))
    BY <1>4 DEF Reject, Counters
  <2>2. /\ run'.source \in {None, run.source} /\ run'.symbol = run.symbol
        /\ \A s \in Sources : run'.results[s].answer = run.results[s].answer
        /\ \A s \in Sources \ {run.source} : run'.results[s].counts = run.results[s].counts
    BY <1>1, <2>1, CountedStep
  <2>3. Accounted(src)'
    BY <1>4 DEF Accounted
  <2>4. QED
    BY <1>3, <2>2, <2>3
<1>5. CASE IsReadable(file) /\ outcome = "conflict" /\ run' = AfterDocument(outcome)
           /\ UNCHANGED documents
  <2>1. "conflict" \in Counters /\ "rejected" \in Counters \ {"conflict"}
        /\ run' = NextRecord(Counted("conflict"))
    BY <1>5 DEF AfterDocument, Counters
  <2>2. /\ run' \in Runs /\ run'.symbol = run.symbol
        /\ \A s \in Sources : run'.results[s].answer = run.results[s].answer
        /\ \A s \in Sources \ {run.source} : run'.results[s].counts = run.results[s].counts
        /\ run'.results[run.source].counts["conflict"] = run.results[run.source].counts["conflict"] + 1
        /\ run'.results[run.source].counts["rejected"] = run.results[run.source].counts["rejected"]
        /\ DOMAIN run'.records = DOMAIN run.records \ {Place(run.records)}
        /\ run'.source = IF DOMAIN run'.records = {} THEN None ELSE run.source
    BY <1>1, <2>1, CountedStep
  <2>4. ShownIn(src)' = ShownIn(src)
    BY <1>0, <1>1, <1>5, <2>2 DEF ShownIn, AllRows
  <2>5. Faults(src)' = Faults(src) + 1
    <3>1. /\ run.results[src].counts["conflict"] \in Nat
          /\ run.results[src].counts["rejected"] \in Nat
      BY <1>1 DEF Runs, Results, Counters
    <3>2. QED
      BY <1>0, <2>2, <3>1 DEF Faults
  <2>6. Accounted(src)'
    BY <1>0, <1>1, <1>5, <2>2, <2>4, <2>5, AccountGrows
  <2>7. QED
    BY <1>3, <2>2, <2>6
<1>6. CASE IsReadable(file) /\ outcome # "conflict" /\ run' = AfterDocument(outcome)
           /\ documents' = IF outcome \in {"conflict", "duplicate"} THEN documents
                           ELSE [documents EXCEPT ![src] = Appended(@, Revised(RowsRead(@), Record))]
  <2>1. PICK counter \in Counters \ {"conflict", "rejected"} : counter = outcome
    BY <1>6, ClassifiedAs DEF Counters
  <2>2. run' = [Counted(counter) EXCEPT !.written = TRUE]
    BY <1>6, <2>1 DEF AfterDocument
  <2>3. /\ run'.symbol = run.symbol /\ run'.source = run.source /\ run'.records = run.records
        /\ \A s \in Sources : run'.results[s].answer = run.results[s].answer
        /\ \A s \in Sources \ {run.source} : run'.results[s].counts = run.results[s].counts
        /\ \A other \in Counters \ {counter} :
              run'.results[run.source].counts[other] = run.results[run.source].counts[other]
    BY <1>1, <2>1, <2>2, HalfStep
  <2>4. "conflict" \in Counters \ {counter} /\ "rejected" \in Counters \ {counter}
    BY <2>1 DEF Counters
  <2>5. Faults(src)' = Faults(src) /\ Done(src)' = Done(src)
    BY <1>0, <2>3, <2>4 DEF Faults, Done
  <2>6. ASSUME IsReadable(documents'[src])
        PROVE  Done(src) \cap ShownIn(src) \subseteq ShownIn(src)'
    <3>1. CASE outcome = "duplicate"
      <4>1. UNCHANGED documents
        BY <1>6, <3>1
      <4>2. ShownIn(src)' = ShownIn(src)
        BY <1>0, <1>1, <2>3, <4>1 DEF ShownIn, AllRows
      <4>3. QED
        BY <4>2
    <3>2. CASE outcome # "duplicate"
      <4>1. PICK f, new, g : f = file /\ new = Revised(RowsRead(file), Record)
                             /\ g = Appended(f, new)
        OBVIOUS
      <4>2. /\ IsReadable(f) /\ Classified(RowsRead(f), Record) \in {"accepted", "revision"}
            /\ new = Revised(RowsRead(f), Record) /\ f = documents[src]
            /\ g \in CutShort(f, new) \cup {Appended(f, new)}
            /\ documents' = [documents EXCEPT ![src] = g]
        BY <1>6, <3>2, <4>1, ClassifiedAs
      <4>3. documents'[src] = g /\ UNCHANGED <<now, links>>
        BY <1>1, <1>2, <4>2
      <4>4. IsReadable(g) => Done(src) \cap ShownIn(src) \subseteq ShownIn(src)'
        BY <1>0, <1>1, <2>3, <4>2, <4>3, DocumentKeepsShown
      <4>5. QED
        BY <2>6, <4>3, <4>4
    <3>3. QED
      BY <3>1, <3>2
  <2>7. Accounted(src)'
    <3>1. SUFFICES ASSUME IsReadable(documents'[src]), IsReadable(links'[src])
                   PROVE  Covers(Done(src)', ShownIn(src)', Faults(src)')
      BY DEF Accounted
    <3>2. Covers(Done(src), ShownIn(src), Faults(src)) /\ Faults(src) \in Nat
      BY <1>1, <1>6, <3>1, FaultsType DEF Accounted
    <3>3. PICK done, shown, faults, seen :
              /\ done = Done(src) /\ shown = ShownIn(src) /\ faults = Faults(src)
              /\ seen = ShownIn(src)'
      OBVIOUS
    <3>4. Covers(done, shown, faults) /\ faults \in Nat /\ faults <= faults
          /\ done \cap shown \subseteq seen
      BY <2>6, <3>1, <3>2, <3>3
    <3>5. Covers(done, seen, faults)
      BY <3>4, CoversMore
    <3>6. QED
      BY <2>5, <3>3, <3>5
  <2>8. QED
    BY <1>3, <2>3, <2>7
<1>7. QED
  BY <1>0, <1>4, <1>5, <1>6 DEF WriteDocument

LEMMA WriteLinkAccounts ==
    ASSUME Sound, Accounting, WriteLink
    PROVE  Accounting'
<1>0. PICK src \in Sources : src = run.source
  BY RecordProperty DEF WriteLink
<1>1. /\ IsWriting /\ run.written /\ run \in Runs /\ run # None /\ src # None
      /\ UNCHANGED <<now, documents, published, mapfile, service, snapshot, left>>
      /\ Accounted(src)
  BY <1>0, RecordProperty, NewsAssumption DEF WriteLink, Accounting, IsWriting
<1> DEFINE file == links[src]
           link == Link(src, Record, run.symbol)
<1>2. /\ \A s \in Sources \ {src} : documents'[s] = documents[s] /\ links'[s] = links[s]
      /\ links \in [Sources -> File(Links)]
  BY <1>0, <1>1 DEF WriteLink, Sound, Typed
<1>3. ASSUME run'.source \in {None, run.source}, run'.symbol = run.symbol,
             \A s \in Sources : run'.results[s].answer = run.results[s].answer,
             \A s \in Sources \ {run.source} : run'.results[s].counts = run.results[s].counts,
             Accounted(src)'
      PROVE  Accounting'
  <2>1. \A s \in Sources \ {src} : Accounted(s)'
    BY <1>0, <1>1, <1>2, <1>3, SiblingKept
  <2>2. QED
    BY <1>0, <1>3, <2>1 DEF Accounting
<1>4. ASSUME IsReadable(file), AllRows(file) \subseteq AllRows(links'[src]) \/ ~IsReadable(links'[src]),
             run' \in Runs, run'.symbol = run.symbol,
             \A s \in Sources : run'.results[s].answer = run.results[s].answer,
             run'.results[src].counts["conflict"] = run.results[src].counts["conflict"],
             run'.results[src].counts["rejected"] = run.results[src].counts["rejected"],
             DOMAIN run'.records = DOMAIN run.records \ {Place(run.records)},
             run'.source = IF DOMAIN run'.records = {} THEN None ELSE run.source,
             IsReadable(links'[src]) =>
                 \E row \in AllRows(links'[src]) : row.id = Record.id /\ row.symbol = run.symbol
      PROVE  Accounted(src)'
  <2>1. Faults(src)' = Faults(src)
    BY <1>4 DEF Faults
  <2>2. IsReadable(documents[src]) /\ IsReadable(links'[src]) =>
            /\ ShownIn(src) \subseteq ShownIn(src)'
            /\ Place(run.records) \in ShownIn(src)'
    BY <1>0, <1>1, <1>4, LinkShows
  <2>3. IsReadable(documents'[src]) => IsReadable(documents[src])
    BY <1>1
  <2>4. IsReadable(links'[src]) => IsReadable(links[src])
    BY <1>4
  <2>5. IsReadable(documents'[src]) /\ IsReadable(links'[src]) =>
            /\ Done(src) \cap ShownIn(src) \subseteq ShownIn(src)'
            /\ Faults(src)' = Faults(src) /\ Place(run.records) \in ShownIn(src)'
    BY <2>1, <2>2, <2>3
  <2> HIDE DEF file, link
  <2>6. QED
    BY <1>0, <1>1, <1>4, <2>3, <2>4, <2>5, AccountGrows
<1>5. CASE ~IsReadable(file) /\ Reject /\ UNCHANGED links
  <2>1. "rejected" \in Counters /\ run' = NextRecord(Counted("rejected"))
    BY <1>5 DEF Reject, Counters
  <2>2. /\ run'.source \in {None, run.source} /\ run'.symbol = run.symbol
        /\ \A s \in Sources : run'.results[s].answer = run.results[s].answer
        /\ \A s \in Sources \ {run.source} : run'.results[s].counts = run.results[s].counts
    BY <1>1, <2>1, CountedStep
  <2>3. Accounted(src)'
    BY <1>5 DEF Accounted
  <2>4. QED
    BY <1>3, <2>2, <2>3
<1>6. CASE IsReadable(file) /\ IsLinked(file, link) /\ run' = NextRecord(run) /\ UNCHANGED links
  <2>1. /\ run' \in Runs /\ run'.symbol = run.symbol
        /\ \A s \in Sources : /\ run'.results[s].answer = run.results[s].answer
                              /\ run'.results[s].counts = run.results[s].counts
        /\ DOMAIN run'.records = DOMAIN run.records \ {Place(run.records)}
        /\ run'.source = IF DOMAIN run'.records = {} THEN None ELSE run.source
    BY <1>1, <1>6, AdvanceStep
  <2>2. \E row \in AllRows(file) : row.id = Record.id /\ row.symbol = run.symbol
    <3>1. RowsRead(file) = AllRows(file)
      BY <1>6, ReadableIsRead
    <3>2. link.id = Record.id /\ link.symbol = run.symbol
      BY DEF Link
    <3>3. QED
      BY <1>6, <3>1, <3>2 DEF IsLinked, LinkKey
  <2>3. Accounted(src)'
    BY <1>0, <1>4, <1>6, <2>1, <2>2
  <2>4. QED
    BY <1>0, <1>3, <2>1, <2>3
<1>7. CASE /\ IsReadable(file) /\ ~IsLinked(file, link)
           /\ run' = NextRecord(Counted("associations"))
           /\ links' = [links EXCEPT ![src] = Appended(@, link)]
  <2>1. PICK counter \in Counters \ {"conflict", "rejected"} : counter = "associations"
    BY DEF Counters
  <2>2. /\ run' \in Runs /\ run'.symbol = run.symbol
        /\ \A s \in Sources : run'.results[s].answer = run.results[s].answer
        /\ \A s \in Sources \ {run.source} : run'.results[s].counts = run.results[s].counts
        /\ \A other \in Counters \ {counter} :
              run'.results[run.source].counts[other] = run.results[run.source].counts[other]
        /\ DOMAIN run'.records = DOMAIN run.records \ {Place(run.records)}
        /\ run'.source = IF DOMAIN run'.records = {} THEN None ELSE run.source
    BY <1>1, <1>7, <2>1, CountedStep
  <2>3. "conflict" \in Counters \ {counter} /\ "rejected" \in Counters \ {counter}
    BY <2>1 DEF Counters
  <2>4. PICK f, l, g : f = file /\ l = link /\ g = Appended(file, link)
    OBVIOUS
  <2>5. /\ f = links[run.source] /\ IsReadable(f)
        /\ l = Link(run.source, Record, run.symbol) /\ ~IsLinked(f, l)
        /\ g = Appended(f, l) /\ g \in CutShort(f, l) \cup {Appended(f, l)}
        /\ links' = [links EXCEPT ![run.source] = g]
    BY <1>0, <1>2, <1>7, <2>4
  <2>6. UNCHANGED <<now, documents>> /\ links'[src] = g
    BY <1>0, <1>1, <1>2, <2>5
  <2>7. /\ IsReadable(g) => AllRows(f) \subseteq AllRows(g)
        /\ IsReadable(g) => l \in AllRows(g)
        /\ l.id = Record.id /\ l.symbol = run.symbol
    <3>1. IsJoined(g, f, l)
      BY <1>1, <2>5, <2>6, LinkStep
    <3>2. l.id = Record.id /\ l.symbol = run.symbol
      BY <2>5 DEF Link
    <3>3. QED
      BY <2>5, <3>1, <3>2 DEF IsJoined
  <2>8. /\ AllRows(file) \subseteq AllRows(links'[src]) \/ ~IsReadable(links'[src])
        /\ IsReadable(links'[src]) =>
               \E row \in AllRows(links'[src]) : row.id = Record.id /\ row.symbol = run.symbol
    BY <2>4, <2>6, <2>7
  <2>9. Accounted(src)'
    <3> HIDE DEF file, link
    <3>1. QED
      BY <1>0, <1>4, <1>7, <2>2, <2>3, <2>8
  <2>10. QED
    BY <1>0, <1>3, <2>2, <2>9
<1>8. QED
  BY <1>0, <1>5, <1>6, <1>7 DEF WriteLink

(* A write that fails is a fault of its record, and hides no other.        *)
LEMMA WriteRaisesAccounts ==
    ASSUME Sound, Accounting, WriteRaises
    PROVE  Accounting'
<1>0. PICK src \in Sources : src = run.source
  BY RecordProperty DEF WriteRaises, CutDocument, CutLink
<1>1. /\ IsWriting /\ run \in Runs /\ run # None /\ src # None
      /\ Accounted(src) /\ UNCHANGED <<now, service>>
  BY <1>0, RecordProperty, NewsAssumption
     DEF WriteRaises, CutDocument, CutLink, Accounting, IsWriting
<1>2. "rejected" \in Counters /\ "conflict" \in Counters \ {"rejected"}
      /\ run' = NextRecord(Counted("rejected"))
  BY DEF WriteRaises, Reject, Counters
<1>3. /\ run' \in Runs /\ run'.symbol = run.symbol
      /\ \A s \in Sources : run'.results[s].answer = run.results[s].answer
      /\ \A s \in Sources \ {run.source} : run'.results[s].counts = run.results[s].counts
      /\ run'.results[run.source].counts["rejected"] = run.results[run.source].counts["rejected"] + 1
      /\ run'.results[run.source].counts["conflict"] = run.results[run.source].counts["conflict"]
      /\ DOMAIN run'.records = DOMAIN run.records \ {Place(run.records)}
      /\ run'.source = IF DOMAIN run'.records = {} THEN None ELSE run.source
  BY <1>1, <1>2, CountedStep
<1>4. Faults(src)' = Faults(src) + 1
  <2>1. /\ run.results[src].counts["conflict"] \in Nat
        /\ run.results[src].counts["rejected"] \in Nat
    BY <1>1 DEF Runs, Results, Counters
  <2>2. QED
    BY <1>0, <1>3, <2>1 DEF Faults
<1>5. /\ \A s \in Sources \ {src} : documents'[s] = documents[s] /\ links'[s] = links[s]
      /\ IsReadable(documents'[src]) => IsReadable(documents[src])
      /\ IsReadable(links'[src]) => IsReadable(links[src])
      /\ IsReadable(documents'[src]) /\ IsReadable(links'[src]) =>
             Done(src) \cap ShownIn(src) \subseteq ShownIn(src)'
  <2>1. CASE CutDocument
    <3>1. PICK file : file = documents[src]
      OBVIOUS
    <3>2. PICK new : new = Revised(RowsRead(file), Record)
      OBVIOUS
    <3>3. PICK g \in CutShort(file, new) : documents' = [documents EXCEPT ![src] = g]
      BY <1>0, <2>1, <3>1, <3>2 DEF CutDocument
    <3>4. /\ IsReadable(file) /\ Classified(RowsRead(file), Record) \in {"accepted", "revision"}
          /\ g \in CutShort(file, new) \cup {Appended(file, new)}
          /\ UNCHANGED <<now, links>>
      BY <1>0, <1>1, <2>1, <3>1 DEF CutDocument
    <3>5. documents'[src] = g /\ \A s \in Sources \ {src} : documents'[s] = documents[s]
      BY <3>3 DEF Sound, Typed
    <3>6. IsReadable(g) => Done(src) \cap ShownIn(src) \subseteq ShownIn(src)'
      BY <1>0, <1>1, <1>3, <3>1, <3>2, <3>3, <3>4, DocumentKeepsShown
    <3>7. QED
      BY <3>1, <3>4, <3>5, <3>6
  <2>2. CASE CutLink
    <3>1. PICK file : file = links[run.source]
      OBVIOUS
    <3>2. PICK link : link = Link(run.source, Record, run.symbol)
      OBVIOUS
    <3>3. PICK g \in CutShort(file, link) : links' = [links EXCEPT ![run.source] = g]
      BY <2>2, <3>1, <3>2 DEF CutLink
    <3>4. /\ IsReadable(file) /\ ~IsLinked(file, link) /\ run.written
          /\ g \in CutShort(file, link) \cup {Appended(file, link)}
          /\ UNCHANGED <<now, documents>>
      BY <1>1, <2>2, <3>1, <3>2 DEF CutLink
    <3>5. IsReadable(g) => AllRows(file) \subseteq AllRows(g)
      <4>1. IsJoined(g, file, link)
        BY <1>1, <3>1, <3>2, <3>3, <3>4, LinkStep
      <4>2. QED
        BY <4>1 DEF IsJoined
    <3>6. links'[src] = g /\ \A s \in Sources \ {src} : links'[s] = links[s]
      BY <1>0, <3>3 DEF Sound, Typed
    <3>7. IsReadable(documents[src]) /\ IsReadable(g) => ShownIn(src) \subseteq ShownIn(src)'
      BY <1>0, <1>1, <1>3, <3>1, <3>4, <3>5, <3>6, LinkShows
    <3>8. QED
      BY <1>0, <3>1, <3>4, <3>6, <3>7
  <2>3. QED
    BY <2>1, <2>2 DEF WriteRaises
<1>6. Accounted(src)'
  BY <1>0, <1>1, <1>3, <1>4, <1>5, AccountGrows
<1>7. \A s \in Sources \ {src} : Accounted(s)'
  BY <1>0, <1>1, <1>3, <1>5, SiblingKept
<1>8. QED
  BY <1>6, <1>7 DEF Accounting

(* A refresh begins, and a source is skipped or answers.                   *)
LEMMA AskingAccounts ==
    ASSUME Sound, Accounting,
           \/ \E symbol \in Symbols : Begin(symbol)
           \/ \E source \in Sources :
                 SkipUnconfigured(source) \/ SkipUnlisted(source) \/ FetchFails(source)
           \/ \E source \in Sources : Fetch(source)
    PROVE  Accounting'
<1>0. None \notin Sources
  BY NewsAssumption
<1>1. ASSUME NEW symbol \in Symbols, Begin(symbol)
      PROVE  Accounting'
  <2>1. ASSUME NEW s \in Sources PROVE Accounted(s)'
    <3>1. /\ run'.source = None
          /\ run'.results[s] = Pending
      BY <1>1 DEF Begin
    <3>2. DOMAIN Pending.answer = {}
      BY DEF Pending
    <3>3. Done(s)' = {}
      BY <1>0, <3>1, <3>2 DEF Done
    <3>4. Faults(s)' = 0
      BY <3>1 DEF Faults, Pending, NoCounts, Counters
    <3>5. PICK faults \in Nat : faults = Faults(s)'
      BY <3>4
    <3>6. Covers({}, ShownIn(s)', faults)
      BY CoversNothing
    <3>7. QED
      BY <3>3, <3>5, <3>6 DEF Accounted
  <2>2. QED
    BY <2>1 DEF Accounting
<1>2. ASSUME NEW source \in Sources,
             SkipUnconfigured(source) \/ SkipUnlisted(source) \/ FetchFails(source)
      PROVE  Accounting'
  <2>1. PICK outcome \in Outcomes : Report(source, outcome)
    BY <1>2 DEF SkipUnconfigured, SkipUnlisted, FetchFails, Outcomes
  <2>2. run # None /\ run.source = None /\ run \in Runs /\ UNCHANGED stores
    BY <1>2 DEF SkipUnconfigured, SkipUnlisted, FetchFails, IsTurnOf, Sound, Typed, RunOK
  <2>3. /\ run'.symbol = run.symbol /\ run'.source = run.source
        /\ \A s \in Sources : /\ run'.results[s].answer = run.results[s].answer
                              /\ run'.results[s].counts = run.results[s].counts
    BY <2>1, <2>2, ReportType
  <2>4. ASSUME NEW s \in Sources PROVE Accounted(s)'
    <3>1. Accounted(s) /\ UNCHANGED <<documents[s], links[s]>>
      BY <2>2 DEF Accounting, stores
    <3>2. Done(s)' = Done(s)
      BY <1>0, <2>2, <2>3 DEF Done
    <3>3. QED
      BY <2>3, <3>1, <3>2, AccountKept
  <2>5. QED
    BY <2>4 DEF Accounting
<1>3. ASSUME NEW source \in Sources, Fetch(source)
      PROVE  Accounting'
  <2>1. /\ run # None /\ run.source = None /\ run \in Runs /\ IsPending(source)
        /\ UNCHANGED stores
    BY <1>3 DEF Fetch, IsTurnOf, Sound, Typed, RunOK
  <2>2. PICK answer \in left.answers[source] :
            LET records == Normalized(source, answer, run.symbol, now) IN
            run' = IF DOMAIN records = {}
                   THEN [run EXCEPT !.results[source].outcome = "no_items"]
                   ELSE [run EXCEPT !.source = source, !.records = records,
                                    !.results[source].answer = records]
    BY <1>3 DEF Fetch
  <2>3. PICK records : records = Normalized(source, answer, run.symbol, now)
    OBVIOUS
  <2>4. run'.symbol = run.symbol
    BY <2>1, <2>2 DEF Runs
  <2>5. \A s \in Sources \ {source} : run'.results[s] = run.results[s]
    BY <2>1, <2>2 DEF Runs
  <2>6. ASSUME NEW s \in Sources \ {source} PROVE Accounted(s)'
    <3>1. Accounted(s) /\ UNCHANGED <<documents[s], links[s]>>
      BY <2>1 DEF Accounting, stores
    <3>2. run'.source \in {None, source}
      BY <2>1, <2>2 DEF Runs
    <3>3. Done(s)' = Done(s)
      BY <1>0, <2>1, <2>5, <3>2 DEF Done
    <3>4. QED
      BY <2>4, <2>5, <3>1, <3>3, AccountKept
  <2>7. Accounted(source)'
    <3>1. run.results[source].counts = run'.results[source].counts
      BY <2>1, <2>2 DEF Runs, Results
    <3>2. Done(source)' = {}
      <4>1. CASE DOMAIN records = {}
        <5>1. run'.source = None
          BY <2>1, <2>2, <2>3, <4>1 DEF Runs
        <5>2. run'.results[source].answer = run.results[source].answer
          BY <2>1, <2>2, <2>3, <4>1 DEF Runs, Results
        <5>3. DOMAIN run.results[source].answer = {}
          BY <1>0, <2>1 DEF Sound, Fetched
        <5>4. QED
          BY <1>0, <5>1, <5>2, <5>3 DEF Done
      <4>2. CASE DOMAIN records # {}
        <5>1. run' = [run EXCEPT !.source = source, !.records = records,
                                 !.results[source].answer = records]
          BY <2>2, <2>3, <4>2
        <5>2. run'.source = source /\ run'.records = records
          BY <2>1, <5>1 DEF Runs
        <5>3. run'.results[source].answer = records
          BY <2>1, <5>1 DEF Runs, Results
        <5>4. QED
          BY <5>2, <5>3 DEF Done
      <4>3. QED
        BY <4>1, <4>2
    <3>3. Faults(source)' = Faults(source) /\ Faults(source) \in Nat
      BY <2>1, <3>1, FaultsType DEF Faults
    <3>4. Covers({}, ShownIn(source)', Faults(source))
      BY <3>3, CoversNothing
    <3>5. QED
      BY <3>2, <3>3, <3>4 DEF Accounted
  <2>8. QED
    BY <2>6, <2>7 DEF Accounting
<1>4. QED
  BY <1>1, <1>2, <1>3

LEMMA AccountingStep ==
    ASSUME Sound, Accounting, [Next]_vars
    PROVE  Accounting'
<1>1. CASE UNCHANGED vars
  <2>1. ASSUME run # None, NEW s \in Sources PROVE Accounted(s)'
    <3>1. Accounted(s) /\ UNCHANGED <<documents[s], links[s]>> /\ Done(s)' = Done(s)
      BY <1>1, <2>1 DEF Accounting, vars, stores, Done
    <3>2. QED
      BY <1>1, <3>1, AccountKept DEF vars
  <2>2. QED
    BY <1>1, <2>1 DEF Accounting, vars
<1>2. CASE Compose \/ NewSession \/ \E source \in Sources : NewerBuildWrites(source)
  BY <1>2 DEF Compose, NewSession, NewerBuildWrites, Accounting, Sound, Typed, RunOK
<1>3. CASE PublishMap
  <2>1. ASSUME run # None, NEW s \in Sources PROVE Accounted(s)'
    <3>1. Accounted(s) /\ UNCHANGED <<documents[s], links[s]>> /\ Done(s)' = Done(s)
      BY <1>3, <2>1 DEF Accounting, PublishMap, stores, Done
    <3>2. QED
      BY <1>3, <3>1, AccountKept DEF PublishMap
  <2>2. QED
    BY <1>3, <2>1 DEF Accounting, PublishMap
<1>4. CASE Crash \/ Finish
  BY <1>4 DEF Crash, Finish, Accounting
<1>5. CASE Refresh
  BY <1>4, <1>5, AskingAccounts, WriteDocumentAccounts, WriteLinkAccounts, WriteRaisesAccounts
     DEF Refresh
<1>6. QED
  BY <1>1, <1>2, <1>3, <1>4, <1>5 DEF Next

(* What a finished refresh shows.                                          *)
LEMMA FinishLosesNothing ==
    ASSUME Sound, Accounting, Finish
    PROVE  NothingIsLostUncounted'
<1>1. /\ run # None /\ run.source = None /\ run \in Runs /\ snapshot' = NewsSnapshot
      /\ None \notin Sources /\ now \in Nat
  BY NewsAssumption DEF Finish, Sound, Typed, RunOK, Ticks
<1>2. SUFFICES ASSUME ~HasWarning, NEW s \in Sources,
                      NEW answer, answer = run.results[s].answer,
                      NEW shown, shown = DocumentsOf(documents[s], links[s], run.symbol),
                      NEW lost, lost = {n \in DOMAIN answer : ~ShowsRecord(shown, answer, n)}
               PROVE  /\ Cardinality(lost) <= Faults(s)
                      /\ \A document \in shown :
                            document.retrieved_at = now => IsAnsweredNow(document, now)
  <2>1. /\ snapshot'.warning = HasWarning
        /\ snapshot'.built_at = now
        /\ snapshot'.results = run.results
        /\ \A s \in Sources :
              snapshot'.documents[s] = DocumentsOf(documents[s], links[s], run.symbol)
    BY <1>1 DEF NewsSnapshot
  <2>2. QED
    BY <2>1 DEF NothingIsLostUncounted, Faults
<1>3. IsReadable(documents[s]) /\ IsReadable(links[s])
  BY <1>2 DEF HasWarning
<1> DEFINE rows == AllRows(documents[s])
<1>4. RowsRead(documents[s]) = rows /\ RowsRead(links[s]) = AllRows(links[s])
  BY <1>3, ReadableIsRead
<1>5. rows \in SUBSET Documents /\ IsFiniteSet(rows) /\ Whole(rows) /\ Stored(s)
  BY <1>3, RowsType DEF Sound, Typed, Stored
<1>6. \A id : IsStored(rows, id) =>
          Current(rows, id) \in rows /\ Current(rows, id).id = id
  <2> HIDE DEF rows
  <2>1. SUFFICES ASSUME NEW id, IsStored(rows, id)
                 PROVE  Current(rows, id) \in rows /\ Current(rows, id).id = id
    OBVIOUS
  <2>2. Current(rows, id) \in RevisionsOf(rows, id)
    BY <1>5, <2>1, CurrentIsLast
  <2>3. QED
    BY <2>2 DEF RevisionsOf
<1>7. Cardinality(lost) <= Faults(s)
  <2>1. Covers(DOMAIN answer, ShownIn(s), Faults(s))
    BY <1>1, <1>2, <1>3 DEF Accounting, Accounted, Done
  <2>2. PICK given \in SUBSET DOMAIN answer :
            /\ IsFiniteSet(given) /\ Cardinality(given) <= Faults(s)
            /\ DOMAIN answer \ given \subseteq ShownIn(s)
    BY <2>1 DEF Covers
  <2>3. ASSUME NEW n \in ShownIn(s) PROVE ShowsRecord(shown, answer, n)
    <3>1. PICK m \in DOMAIN answer :
              n <= m /\ HasSameContent(Current(rows, answer[n].id), answer[m])
      BY <1>2, <2>3 DEF ShownIn, ShownOf
    <3>2. /\ IsStored(rows, answer[n].id)
          /\ \E link \in AllRows(links[s]) : link.id = answer[n].id /\ link.symbol = run.symbol
      BY <1>2, <2>3 DEF ShownIn, ShownOf
    <3> DEFINE document == Current(rows, answer[n].id)
    <3>3. document \in rows /\ document.id = answer[n].id
      BY <1>6, <3>2
    <3>4. document \in LatestDocuments(rows)
      BY <3>3 DEF LatestDocuments
    <3> HIDE DEF document
    <3>5. document \in shown
      BY <1>2, <1>4, <3>2, <3>3, <3>4 DEF DocumentsOf, LinksOf
    <3>6. QED
      BY <3>1, <3>3, <3>5 DEF ShowsRecord, document
  <2>4. lost \subseteq given
    BY <1>2, <2>2, <2>3
  <2>5. Cardinality(lost) <= Cardinality(given) /\ IsFiniteSet(lost)
    BY <2>2, <2>4, FS_Subset
  <2>6. Cardinality(lost) \in Nat /\ Cardinality(given) \in Nat /\ Faults(s) \in Nat
    BY <1>1, <2>2, <2>5, FS_CardinalityType, FaultsType
  <2>7. QED
    BY <2>2, <2>5, <2>6
<1>8. ASSUME NEW document \in shown, document.retrieved_at = now
      PROVE  IsAnsweredNow(document, now)
  <2>1. document \in LatestDocuments(rows)
    BY <1>2, <1>4 DEF DocumentsOf
  <2>2. PICK row \in rows : document = Current(rows, row.id)
    BY <2>1 DEF LatestDocuments
  <2>3. document \in rows
    BY <1>6, <2>2 DEF IsStored, RevisionsOf
  <2>4. IsObservedAt(document, now) /\ document \in Documents
    BY <1>5, <1>8, <2>3 DEF Stored
  <2>5. document.available_from = IF document.source_time = NoTime THEN now ELSE document.source_time
    BY <2>4 DEF IsObservedAt
  <2>6. document.source_time \in Int /\ document.available_from \in Int
    BY <2>4 DEF Documents
  <2>7. /\ document.source_time > now \/ document.available_from <= now
        /\ document.source_time > now
              \/ Later(document.available_from, document.retrieved_at) <= now
        /\ document.source_time > now \/ document.source_time = NoTime
              \/ document.source_time <= now
    BY <1>1, <1>8, <2>5, <2>6 DEF Later
  <2>8. ASSUME NEW trust \in Trusts
        PROVE  \/ VisibleAt(document, now, trust)
               \/ document.source_time > now
               \/ document.source_time = NoTime /\ trust = "source_time"
    BY <2>7 DEF Trusts, VisibleAt
  <2>9. QED
    BY <2>8 DEF IsAnsweredNow
<1>9. QED
  BY <1>7, <1>8

(* "One failure never voids its siblings", and nothing is lost in silence: *)
(* a snapshot without a warning shows every record a source returned but   *)
(* for as many as the source counts as rejected or conflicting, and a      *)
(* query for the moment of the refresh returns what was observed in it     *)
(* (refresh of src/application/news.py, write_document and write_link of   *)
(* src/news/store.py).                                                     *)
THEOREM NothingLostUncounted == Spec => []NothingIsLostUncounted
<1>1. Init => Accounting /\ NothingIsLostUncounted
  BY DEF Init, Accounting, NothingIsLostUncounted
<1>2. Sound /\ Accounting /\ NothingIsLostUncounted /\ [Next]_vars
          => Accounting' /\ NothingIsLostUncounted'
  <2> SUFFICES ASSUME Sound, Accounting, NothingIsLostUncounted, [Next]_vars
               PROVE  Accounting' /\ NothingIsLostUncounted'
    OBVIOUS
  <2>1. Accounting'
    BY AccountingStep
  <2>2. CASE Finish
    BY <2>1, <2>2, FinishLosesNothing
  <2>3. CASE snapshot' = None
    BY <2>1, <2>3 DEF NothingIsLostUncounted
  <2>4. CASE UNCHANGED snapshot
    BY <2>1, <2>4 DEF NothingIsLostUncounted
  <2>5. snapshot' = None \/ UNCHANGED snapshot \/ Finish
    BY DEF Next, Refresh, vars, Compose, Begin, SkipUnconfigured, SkipUnlisted, FetchFails, Fetch,
           WriteDocument, WriteLink, WriteRaises, Crash, NewSession, PublishMap, NewerBuildWrites
  <2>6. QED
    BY <2>2, <2>3, <2>4, <2>5
<1>3. QED
  BY <1>1, <1>2, AlwaysSound, PTL DEF Spec
=============================================================================
