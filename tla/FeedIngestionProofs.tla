------------------------- MODULE FeedIngestionProofs -------------------------
(***************************************************************************)
(* Proofs about FeedIngestion, for every set of sessions, every document,  *)
(* every configuration and every bound on faults and edits.  Nothing here  *)
(* assumes that only one session runs.                                     *)
(***************************************************************************)
EXTENDS FeedIngestion, FiniteSetTheorems, WellFoundedInduction, TLAPS

-----------------------------------------------------------------------------
(* Numbers.                                                                *)

(* A set of natural numbers has a least element.                           *)
LEMMA LeastExists ==
    ASSUME NEW T \in SUBSET Nat, T # {}
    PROVE  \E x \in T : \A y \in T : x <= y
<1> DEFINE R == OpToRel(<, Nat)
<1>1. PICK x \in T : \A y \in T : ~(<<y, x>> \in R)
  BY NatLessThanWellFounded, WFMin, Zenon
<1>2. \A y \in T : ~(y < x)
  BY <1>1 DEF OpToRel
<1>3. QED
  BY <1>2

-----------------------------------------------------------------------------
(* The files.                                                              *)

(* What is left of an append, whole or cut short, can be read only if the  *)
(* file could be read before it and kept every row of it: a line that      *)
(* could not be read stays, and the row of an interrupted append is there  *)
(* or is not.                                                              *)
LEMMA AppendProperty ==
    ASSUME NEW Row, NEW f \in File(Row), NEW row \in Row,
           NEW g \in CutShort(f, row) \cup {Appended(f, row)}
    PROVE  /\ g \in File(Row)
           /\ Readable(g) => Readable(f) /\ g.rows \in {f.rows, Append(f.rows, row)}
           /\ g = Appended(f, row) /\ Readable(g) => g.rows = Append(f.rows, row)
<1>1. f.rows \in Seq(Row) /\ f.last \in Lasts /\ f.corrupt \in BOOLEAN
  BY DEF File
<1>2. f.last = "unterminated" => Len(f.rows) \in Nat
  BY <1>1
<1>3. SubSeq(f.rows, 1, Len(f.rows) - 1) \in Seq(Row)
  BY <1>1
<1>4. Append(f.rows, row) \in Seq(Row)
  BY <1>1
<1>5. Appended(f, row) \in File(Row)
  BY <1>1, <1>3, <1>4 DEF Appended, File, Lasts
<1>6. g \in File(Row)
  <2>1. [f EXCEPT !.last = "torn"] \in File(Row)
    BY DEF File, Lasts
  <2>2. \A last \in Lasts : [Appended(f, row) EXCEPT !.last = last] \in File(Row)
    BY <1>5 DEF File
  <2>3. QED
    BY <1>5, <2>1, <2>2 DEF CutShort, Lasts
<1>7. f = [rows |-> f.rows, last |-> f.last, corrupt |-> f.corrupt]
  BY DEF File
<1>8. Readable(g) => Readable(f) /\ g.rows \in {f.rows, Append(f.rows, row)}
  <2>1. Readable(Appended(f, row)) => Readable(f) /\ Appended(f, row).rows = Append(f.rows, row)
    BY <1>1 DEF Appended, Readable, Lasts
  <2>2. CASE g \in {f, Appended(f, row)}
    BY <2>1, <2>2
  <2>3. CASE f.last = "whole" /\ g = [f EXCEPT !.last = "torn"]
    BY <2>3, <1>7 DEF Readable
  <2>4. CASE f.last = "whole" /\ g = [Appended(f, row) EXCEPT !.last = "unterminated"]
    BY <2>4, <1>1 DEF Readable, Appended
  <2>5. CASE f.last # "whole" /\ g = [Appended(f, row) EXCEPT !.last = "torn"]
    BY <2>5, <1>1 DEF Readable, Appended
  <2>6. QED
    BY <2>2, <2>3, <2>4, <2>5 DEF CutShort
<1>9. g = Appended(f, row) /\ Readable(g) => g.rows = Append(f.rows, row)
  <2>1. Readable(Appended(f, row)) => Appended(f, row).rows = Append(f.rows, row)
    BY <1>1 DEF Appended, Readable, Lasts
  <2>2. QED
    BY <2>1
<1>10. QED
  BY <1>6, <1>8, <1>9

(* What a later state of a file keeps of an earlier one, as long as it can *)
(* be read.                                                                *)
Keeps(f, g) ==
    Readable(g) =>
        /\ Readable(f)
        /\ \A i \in DOMAIN f.rows : i \in DOMAIN g.rows /\ g.rows[i] = f.rows[i]

(* An append, whole or cut short, keeps the file.                          *)
LEMMA AppendKeeps ==
    ASSUME NEW Row, NEW f \in File(Row), NEW row \in Row,
           NEW g \in CutShort(f, row) \cup {Appended(f, row)}
    PROVE  Keeps(f, g)
<1>1. Readable(g) => Readable(f) /\ g.rows \in {f.rows, Append(f.rows, row)}
  BY AppendProperty
<1>2. f.rows \in Seq(Row)
  BY DEF File
<1>3. \A i \in DOMAIN f.rows : i \in DOMAIN Append(f.rows, row) /\ Append(f.rows, row)[i] = f.rows[i]
  BY <1>2
<1>4. QED
  BY <1>1, <1>3 DEF Keeps

-----------------------------------------------------------------------------
(* The row that stands for an item.                                        *)

IsHighest(file, ns, i) ==
    /\ i \in ns
    /\ \A j \in ns :
        \/ file.rows[j].revision < file.rows[i].revision
        \/ file.rows[j].revision = file.rows[i].revision /\ i <= j

(* Among some of finitely many numbers there is a greatest, and a first of *)
(* the greatest.                                                           *)
LEMMA FirstGreatestExists ==
    ASSUME NEW N \in Nat, NEW rev \in [1 .. N -> Nat], NEW ns \in SUBSET (1 .. N), ns # {}
    PROVE  \E i \in ns : \A j \in ns : rev[j] < rev[i] \/ (rev[j] = rev[i] /\ i <= j)
<1> DEFINE Best(T, i) == i \in T /\ \A j \in T : rev[j] < rev[i] \/ (rev[j] = rev[i] /\ i <= j)
           Bad == {k \in 0 .. N : (\E n \in ns : n <= k) /\ ~ \E i \in ns : Best({n \in ns : n <= k}, i)}
<1>1. Bad = {}
  <2>1. SUFFICES ASSUME Bad # {} PROVE FALSE
    OBVIOUS
  <2>2. Bad \in SUBSET Nat
    OBVIOUS
  <2>3. PICK k \in Bad : \A y \in Bad : k <= y
    BY <2>1, <2>2, LeastExists, Zenon
  <2>4. k \in 1 .. N /\ (\E n \in ns : n <= k) /\ ~ \E i \in ns : Best({n \in ns : n <= k}, i)
    BY <2>3
  <2>5. /\ k - 1 \in 0 .. N
        /\ (\E n \in ns : n <= k - 1) => \E i \in ns : Best({n \in ns : n <= k - 1}, i)
    <3>1. k - 1 \in 0 .. N /\ ~(k <= k - 1)
      BY <2>4
    <3>2. k - 1 \notin Bad
      <4> HIDE DEF Bad
      <4>1. QED
        BY <3>1, <2>3
    <3>3. QED
      BY <3>1, <3>2
  <2> HIDE DEF Bad
  <2>6. \A n \in ns : n <= k <=> (n <= k - 1 \/ n = k)
    <3>1. k \in Nat /\ \A n \in ns : n \in Nat
      BY <2>4
    <3>2. QED
      BY <3>1
  <2>7. CASE ~ \E n \in ns : n <= k - 1
    <3>1. k \in ns /\ {n \in ns : n <= k} = {k}
      BY <2>4, <2>6, <2>7
    <3>2. Best({n \in ns : n <= k}, k)
      BY <3>1
    <3>3. QED
      BY <3>1, <3>2, <2>4
  <2>8. CASE \E n \in ns : n <= k - 1
    <3>1. PICK i \in ns : Best({n \in ns : n <= k - 1}, i)
      BY <2>5, <2>8
    <3>2. i <= k - 1 /\ i < k /\ i <= k /\ rev[i] \in Nat /\ rev[k] \in Nat
      BY <3>1, <2>4
    <3>3. \A j \in ns : j <= k => j = k \/ rev[j] < rev[i] \/ (rev[j] = rev[i] /\ i <= j)
      BY <3>1, <2>6
    <3>4. CASE k \in ns /\ rev[i] < rev[k]
      <4>1. ASSUME NEW j \in ns, j <= k PROVE rev[j] < rev[k] \/ (rev[j] = rev[k] /\ k <= j)
        <5>1. j \in Nat /\ k \in Nat /\ rev[j] \in Nat
          BY <2>4
        <5>2. QED
          BY <5>1, <4>1, <3>2, <3>3, <3>4
      <4>2. Best({n \in ns : n <= k}, k)
        BY <4>1, <3>4, <2>4
      <4>3. QED
        BY <4>2, <3>4, <2>4
    <3>5. CASE k \notin ns \/ ~(rev[i] < rev[k])
      <4>1. ASSUME NEW j \in ns, j <= k
            PROVE  rev[j] < rev[i] \/ (rev[j] = rev[i] /\ i <= j)
        <5>1. CASE j = k
          <6>1. k \in Nat /\ i \in Nat /\ ~(rev[i] < rev[k])
            BY <2>4, <3>5, <5>1
          <6>2. QED
            BY <3>2, <5>1, <6>1
        <5>2. CASE j # k
          BY <3>3, <4>1, <5>2
        <5>3. QED
          BY <5>1, <5>2
      <4>2. Best({n \in ns : n <= k}, i)
        BY <4>1, <3>2
      <4>3. QED
        BY <4>2, <2>4
    <3>6. QED
      BY <3>4, <3>5
  <2>9. QED
    BY <2>7, <2>8
<1>2. N \in 0 .. N
  OBVIOUS
<1>3. (\E n \in ns : n <= N) => \E i \in ns : Best({n \in ns : n <= N}, i)
  BY <1>1, <1>2
<1>4. \A n \in ns : n <= N
  OBVIOUS
<1>5. QED
  BY <1>3, <1>4

(* The highest revision of some of the rows is there and is one of them:   *)
(* the dictionary latest_items fills has no entry it did not read.         *)
LEMMA HighestProperty ==
    ASSUME NEW file \in File(ItemRow), NEW ns \in SUBSET DOMAIN file.rows, ns # {}
    PROVE  \E i \in ns : IsHighest(file, ns, i) /\ Highest(file, ns) = file.rows[i]
<1>1. file.rows \in Seq(ItemRow)
  BY DEF File
<1> DEFINE N == Len(file.rows)
           rev == [i \in 1 .. N |-> file.rows[i].revision]
<1>2. N \in Nat /\ DOMAIN file.rows = 1 .. N /\ \A i \in 1 .. N : file.rows[i] \in ItemRow
  BY <1>1
<1>3. \A i \in 1 .. N : file.rows[i].revision \in Nat
  BY <1>2 DEF ItemRow
<1>4. rev \in [1 .. N -> Nat]
  BY <1>3
<1>5. ns \in SUBSET (1 .. N)
  BY <1>2
<1>6. PICK i \in ns : \A j \in ns : rev[j] < rev[i] \/ (rev[j] = rev[i] /\ i <= j)
  <2> HIDE DEF N, rev
  <2>1. QED
    BY <1>2, <1>4, <1>5, FirstGreatestExists
<1>7. \A j \in ns : rev[j] = file.rows[j].revision
  BY <1>5
<1>8. IsHighest(file, ns, i)
  <2> HIDE DEF rev
  <2>1. QED
    BY <1>6, <1>7 DEF IsHighest
<1>9. QED
  BY <1>8, Zenon DEF Highest, IsHighest

(* There is only one such row, so that it depends on nothing but the rows  *)
(* compared: two files that agree on them have the same.                   *)
LEMMA HighestAgrees ==
    ASSUME NEW f \in File(ItemRow), NEW g \in File(ItemRow),
           NEW ns \in SUBSET DOMAIN f.rows, ns \subseteq DOMAIN g.rows, ns # {},
           \A i \in ns : g.rows[i] = f.rows[i]
    PROVE  Highest(g, ns) = Highest(f, ns)
<1>1. PICK i \in ns : IsHighest(f, ns, i) /\ Highest(f, ns) = f.rows[i]
  BY HighestProperty
<1>2. PICK j \in ns : IsHighest(g, ns, j) /\ Highest(g, ns) = g.rows[j]
  BY HighestProperty
<1>3. f.rows \in Seq(ItemRow)
  BY DEF File
<1>4. \A n \in ns : n \in Nat /\ f.rows[n].revision \in Nat
  <2>1. \A n \in ns : n \in Nat /\ f.rows[n] \in ItemRow
    BY <1>3
  <2>2. QED
    BY <2>1 DEF ItemRow
<1>5. i = j
  BY <1>1, <1>2, <1>4 DEF IsHighest
<1>6. QED
  BY <1>1, <1>2, <1>5

(* The latest row of an item that is stored is one of its rows.            *)
LEMMA LatestProperty ==
    ASSUME NEW file \in File(ItemRow), NEW id \in Ids(file)
    PROVE  \E i \in RowsOf(file, id) :
              IsHighest(file, RowsOf(file, id), i) /\ Latest(file, id) = file.rows[i]
<1>1. RowsOf(file, id) \in SUBSET DOMAIN file.rows /\ RowsOf(file, id) # {}
  BY DEF RowsOf, Ids
<1>2. QED
  BY <1>1, HighestProperty DEF Latest

(* A row that is stored is an observation of the vocabulary.               *)
LEMMA RowsProperty ==
    ASSUME NEW Row, NEW file \in File(Row)
    PROVE  /\ Len(file.rows) \in Nat /\ DOMAIN file.rows = 1 .. Len(file.rows)
           /\ \A i \in DOMAIN file.rows : file.rows[i] \in Row
<1>1. file.rows \in Seq(Row)
  BY DEF File
<1>2. QED
  BY <1>1

(* _with_revision changes the number and nothing else.                     *)
LEMMA RevisedProperty ==
    ASSUME NEW file \in File(ItemRow), NEW item \in ItemRow
    PROVE  /\ Revised(file, item) \in ItemRow
           /\ \E n \in Nat \ {0} : Revised(file, item) = [item EXCEPT !.revision = n]
           /\ Classified(file, item) = "revision" =>
                 Revised(file, item).revision = Latest(file, item.id).revision + 1
           /\ Classified(file, item) # "revision" => Revised(file, item) = item
<1>1. CASE Classified(file, item) = "revision"
  <2>1. item.id \in Ids(file)
    BY <1>1 DEF Classified
  <2>2. Latest(file, item.id) \in ItemRow
    <3>1. \E i \in RowsOf(file, item.id) : Latest(file, item.id) = file.rows[i]
      BY <2>1, LatestProperty
    <3>2. QED
      BY <3>1, RowsProperty DEF RowsOf
  <2>3. Latest(file, item.id).revision + 1 \in Nat \ {0}
    BY <2>2 DEF ItemRow
  <2>4. Revised(file, item) = [item EXCEPT !.revision = Latest(file, item.id).revision + 1]
    BY <1>1 DEF Revised
  <2>5. \A n \in Nat \ {0} : [item EXCEPT !.revision = n] \in ItemRow /\ [item EXCEPT !.revision = n].revision = n
    BY DEF ItemRow
  <2>6. QED
    BY <1>1, <2>3, <2>4, <2>5
<1>2. CASE Classified(file, item) # "revision"
  <2>1. Revised(file, item) = item
    BY <1>2 DEF Revised
  <2>2. item.revision \in Nat \ {0} /\ item = [item EXCEPT !.revision = item.revision]
    BY DEF ItemRow
  <2>3. QED
    BY <1>2, <2>1, <2>2
<1>3. QED
  BY <1>1, <1>2

-----------------------------------------------------------------------------
(* The entries of a document.                                              *)

(* An entry that is read is a well-formed entry.                           *)
LEMMA EntryProperty ==
    ASSUME NEW d \in Documents, NEW n \in UsableEntries(d)
    PROVE  n \in Nat /\ Entries[d][n] \in Entry
<1>1. Entries[d] \in Seq(Entry)
  BY FeedAssumption
<1>2. n \in DOMAIN Entries[d]
  BY DEF UsableEntries, ReadEntries
<1>3. QED
  BY <1>1, <1>2

(* The loop goes to the next entry that is left and skips none.            *)
LEMMA FirstAfterProperty ==
    ASSUME NEW d \in Documents, NEW n \in Nat, EntriesAfter(d, n) # {}
    PROVE  /\ FirstAfter(d, n) \in UsableEntries(d) /\ FirstAfter(d, n) > n
           /\ \A k \in UsableEntries(d) : k < FirstAfter(d, n) => k <= n
<1>1. EntriesAfter(d, n) \in SUBSET Nat
  BY EntryProperty DEF EntriesAfter
<1>2. \E m \in EntriesAfter(d, n) : \A k \in EntriesAfter(d, n) : m <= k
  BY <1>1, LeastExists
<1>3. FirstAfter(d, n) \in EntriesAfter(d, n) /\ \A k \in EntriesAfter(d, n) : FirstAfter(d, n) <= k
  BY <1>2, Zenon DEF FirstAfter
<1>4. \A k \in UsableEntries(d) : k \in Nat
  BY EntryProperty
<1>5. QED
  BY <1>1, <1>3, <1>4 DEF EntriesAfter

(* It starts with the first entry, if there is one.                        *)
LEMMA FirstProperty ==
    ASSUME NEW d \in Documents
    PROVE  LET at == IF UsableEntries(d) = {} THEN 0 ELSE FirstAfter(d, 0) IN
           /\ at \in Nat
           /\ UsableEntries(d) # {} => at \in UsableEntries(d) /\ \A k \in UsableEntries(d) : k >= at
<1>1. CASE UsableEntries(d) = {}
  BY <1>1
<1>2. CASE UsableEntries(d) # {}
  <2>1. \A n \in UsableEntries(d) : n \in Nat /\ n > 0
    <3>1. \A n \in UsableEntries(d) : n \in DOMAIN Entries[d] /\ Entries[d] \in Seq(Entry)
      BY FeedAssumption DEF UsableEntries, ReadEntries
    <3>2. QED
      BY <3>1
  <2>2. EntriesAfter(d, 0) # {}
    BY <1>2, <2>1 DEF EntriesAfter
  <2>3. 0 \in Nat
    OBVIOUS
  <2>4. /\ FirstAfter(d, 0) \in UsableEntries(d)
        /\ \A k \in UsableEntries(d) : k < FirstAfter(d, 0) => k <= 0
    BY <2>2, <2>3, FirstAfterProperty
  <2>5. \A k \in UsableEntries(d) : k >= FirstAfter(d, 0)
    BY <2>1, <2>4
  <2>6. QED
    BY <1>2, <2>1, <2>4, <2>5
<1>3. QED
  BY <1>1, <1>2

(* Normalization makes an observation of an entry: its content, the moment *)
(* the refresh began, and an availability whatever its stamp.              *)
LEMMA ItemOfProperty ==
    ASSUME NEW entry \in Entry, NEW c \in Configurations, NEW t \in Ticks
    PROVE  /\ ItemOf(entry, c, t) \in ItemRow
           /\ ItemOf(entry, c, t).id = entry.id
           /\ ItemOf(entry, c, t).host = entry.host
           /\ ItemOf(entry, c, t).text = entry.text
           /\ ItemOf(entry, c, t).retrieved_at = t
           /\ ItemOf(entry, c, t).revision = 1
<1>1. Plausible(entry.stamp, t) \in Ticks \cup {NoTime}
  BY DEF Plausible, Entry
<1>2. Vintage(c) \in Vintages
  BY DEF Vintages
<1>3. QED
  BY <1>1, <1>2 DEF ItemOf, Entry, ItemRow

-----------------------------------------------------------------------------
(* Types.                                                                  *)

(* Where a session is, as far as its next step relies on it.               *)
Position(s) ==
    /\ pc[s] # "idle" => work[s].built_at \in Ticks
    /\ pc[s] \in {"classifying", "appending", "linking", "appending_link"} =>
          work[s].doc \in Documents /\ work[s].at \in UsableEntries(work[s].doc)
    /\ pc[s] \in {"linking", "appending_link"} => work[s].link \in DOMAIN config[s].symbols
    /\ pc[s] = "appending" =>
          LET entry == Entries[work[s].doc][work[s].at]
              row   == work[s].row IN
          /\ row \in ItemRow
          /\ row.id = entry.id /\ row.host = entry.host /\ row.text = entry.text
          /\ row.retrieved_at = work[s].built_at

(* What the sessions know is well-formed.                                  *)
SessionsOK ==
    /\ config \in [Sessions -> Configurations]
    /\ pc \in [Sessions -> Labels]
    /\ work \in [Sessions -> Work]
    /\ result \in [Sessions -> [outcome : Verdicts, doc : Tags, config : Configurations]]
    /\ \A s \in Sessions : Position(s)

(* A session stays where it is when another one moves.                     *)
LEMMA PositionFrame ==
    ASSUME NEW t, Position(t), pc'[t] = pc[t], work'[t] = work[t], config'[t] = config[t]
    PROVE  Position(t)'
BY DEF Position

(* A session that does nothing knows nothing.                              *)
LEMMA NoWorkType == NoWork \in Work
BY DEF NoWork, Work, Tags, Verdicts

(* The end of a refresh leaves the sessions well-formed.                   *)
LEMMA FinishType ==
    ASSUME SessionsOK, NEW s \in Sessions, NEW outcome \in Verdicts, Finish(s, outcome), config' = config
    PROVE  SessionsOK'
<1>1. pc' \in [Sessions -> Labels] /\ pc'[s] = "idle" /\ \A t \in Sessions \ {s} : pc'[t] = pc[t]
  BY DEF SessionsOK, Finish, Goto, Labels
<1>2. work' \in [Sessions -> Work] /\ \A t \in Sessions \ {s} : work'[t] = work[t]
  BY NoWorkType DEF SessionsOK, Finish
<1>3. result' \in [Sessions -> [outcome : Verdicts, doc : Tags, config : Configurations]]
  <2>1. work[s].doc \in Tags /\ config[s] \in Configurations
    BY DEF SessionsOK, Work
  <2>2. [outcome |-> outcome, doc |-> work[s].doc, config |-> config[s]]
            \in [outcome : Verdicts, doc : Tags, config : Configurations]
    BY <2>1
  <2>3. QED
    BY <2>2 DEF SessionsOK, Finish
<1>4. \A t \in Sessions : Position(t)'
  <2>1. Position(s)'
    BY <1>1 DEF Position
  <2>2. ASSUME NEW t \in Sessions \ {s} PROVE Position(t)'
    BY <1>1, <1>2, PositionFrame DEF SessionsOK
  <2>3. QED
    BY <2>1, <2>2
<1>5. QED
  BY <1>1, <1>2, <1>3, <1>4 DEF SessionsOK

(* So does any other step of one of them, to where it has a position.      *)
LEMMA MoveType ==
    ASSUME SessionsOK, NEW s \in Sessions, NEW label \in Labels, NEW w \in Work,
           Goto(s, label), work' = [work EXCEPT ![s] = w], UNCHANGED <<result, config>>,
           Position(s)'
    PROVE  SessionsOK'
<1>1. pc' \in [Sessions -> Labels] /\ \A t \in Sessions \ {s} : pc'[t] = pc[t]
  BY DEF SessionsOK, Goto
<1>2. work' \in [Sessions -> Work] /\ \A t \in Sessions \ {s} : work'[t] = work[t]
  BY DEF SessionsOK
<1>3. \A t \in Sessions : Position(t)'
  BY <1>1, <1>2, PositionFrame DEF SessionsOK
<1>4. QED
  BY <1>1, <1>2, <1>3 DEF SessionsOK

(* What a session knows at the next entry.                                 *)
LEMMA NextWorkType ==
    ASSUME NEW w \in Work, NEW at \in Nat, NEW clean \in BOOLEAN
    PROVE  [w EXCEPT !.at = at, !.link = 1, !.row = NoRow, !.clean = clean] \in Work
<1>1. \A v \in Work, n \in Nat \ {0} : [v EXCEPT !.link = n, !.row = NoRow] \in Work
  BY DEF Work
<1>2. \A v \in Work : [v EXCEPT !.at = at] \in Work
  BY DEF Work
<1>3. \A v \in Work : [v EXCEPT !.clean = clean] \in Work
  BY DEF Work
<1> PICK one \in Nat \ {0} : one = 1
  OBVIOUS
<1> DEFINE a == [w EXCEPT !.at = at]
           b == [a EXCEPT !.link = one, !.row = NoRow]
           c == [b EXCEPT !.clean = clean]
<1>4. a \in Work
  BY <1>2
<1>5. b \in Work
  <2> HIDE DEF a
  <2>1. QED
    BY <1>1, <1>4
<1>6. c \in Work
  <2> HIDE DEF b
  <2>1. QED
    BY <1>3, <1>5
<1>7. c = [w EXCEPT !.at = at, !.link = 1, !.row = NoRow, !.clean = clean]
  BY DEF Work
<1>8. QED
  BY <1>6, <1>7

(* Going on to the next entry leaves the sessions well-formed.             *)
LEMMA NextEntryType ==
    ASSUME SessionsOK, NEW s \in Sessions, NEW clean \in BOOLEAN, NextEntry(s, clean), config' = config,
           pc[s] \in {"classifying", "appending", "linking", "appending_link"}
    PROVE  SessionsOK'
<1>1. work[s] \in Work /\ work[s].doc \in Documents /\ work[s].at \in UsableEntries(work[s].doc)
  BY DEF SessionsOK, Position
<1>2. CASE EntriesAfter(work[s].doc, work[s].at) # {}
  <2> DEFINE at == FirstAfter(work[s].doc, work[s].at)
             w == [work[s] EXCEPT !.at = at, !.link = 1, !.row = NoRow, !.clean = @ /\ clean]
  <2>1. at \in UsableEntries(work[s].doc) /\ at \in Nat
    BY <1>1, <1>2, EntryProperty, FirstAfterProperty
  <2>2. w \in Work
    <3>1. (work[s].clean /\ clean) \in BOOLEAN
      OBVIOUS
    <3>2. QED
      BY <1>1, <2>1, <3>1, NextWorkType
  <2>3. /\ work' = [work EXCEPT ![s] = w]
        /\ Goto(s, "classifying") /\ result' = result
    BY <1>2 DEF NextEntry
  <2>4. pc'[s] = "classifying" /\ work'[s] = w
    BY <2>3 DEF SessionsOK, Goto
  <2>5. w.doc = work[s].doc /\ w.at = at /\ w.built_at = work[s].built_at
    BY <1>1 DEF Work
  <2>6. work[s].built_at \in Ticks
    BY DEF SessionsOK, Position
  <2>7. Position(s)'
    BY <1>1, <2>1, <2>4, <2>5, <2>6 DEF Position
  <2>8. QED
    BY <2>2, <2>3, <2>7, MoveType DEF Labels
<1>3. CASE EntriesAfter(work[s].doc, work[s].at) = {} /\ work[s].clean /\ clean
  <2>1. Goto(s, "saving") /\ work' = [work EXCEPT ![s] = work[s]] /\ result' = result
    BY <1>3 DEF NextEntry, SessionsOK
  <2>2. Position(s)'
    BY <2>1 DEF SessionsOK, Position, Goto
  <2>3. QED
    BY <1>1, <2>1, <2>2, MoveType DEF Labels
<1>4. CASE EntriesAfter(work[s].doc, work[s].at) = {} /\ ~(work[s].clean /\ clean)
  BY <1>4, FinishType DEF NextEntry, Verdicts
<1>5. QED
  BY <1>2, <1>3, <1>4

(* A configured symbol is one of those configured.                         *)
LEMMA SymbolsProperty ==
    ASSUME NEW c \in Configurations
    PROVE  /\ Len(c.symbols) \in Nat /\ DOMAIN c.symbols = 1 .. Len(c.symbols)
           /\ \A n \in DOMAIN c.symbols : c.symbols[n] \in Symbols
<1>1. c.symbols \in Seq({c.symbols[n] : n \in DOMAIN c.symbols})
  BY FeedAssumption
<1>2. QED
  BY <1>1 DEF Symbols

(* Going on to the next symbol leaves the sessions well-formed.            *)
LEMMA NextLinkType ==
    ASSUME SessionsOK, NEW s \in Sessions, NEW n \in Nat \ {0}, NextLink(s, n), config' = config,
           pc[s] \in {"classifying", "appending", "linking", "appending_link"}
    PROVE  SessionsOK'
<1>1. CASE n <= Len(config[s].symbols)
  <2> DEFINE w == [work[s] EXCEPT !.link = n, !.row = NoRow]
  <2>1. /\ work[s] \in Work /\ work[s].built_at \in Ticks
        /\ work[s].doc \in Documents /\ work[s].at \in UsableEntries(work[s].doc)
    BY DEF SessionsOK, Position
  <2>2. w \in Work /\ w.doc = work[s].doc /\ w.at = work[s].at
        /\ w.built_at = work[s].built_at /\ w.link = n
    BY <2>1 DEF Work
  <2>3. work' = [work EXCEPT ![s] = w] /\ Goto(s, "linking") /\ result' = result
    BY <1>1 DEF NextLink
  <2>4. pc'[s] = "linking" /\ work'[s] = w
    BY <2>3 DEF SessionsOK, Goto
  <2>5. n \in DOMAIN config[s].symbols
    <3>1. config[s] \in Configurations
      BY DEF SessionsOK
    <3>2. QED
      BY <1>1, <3>1, SymbolsProperty
  <2>6. Position(s)'
    BY <2>1, <2>2, <2>4, <2>5 DEF Position
  <2>7. QED
    BY <2>2, <2>3, <2>6, MoveType DEF Labels
<1>2. CASE ~(n <= Len(config[s].symbols))
  BY <1>2, NextEntryType DEF NextLink
<1>3. QED
  BY <1>1, <1>2

(* The row prepared is a row, with the content of the entry it is of.      *)
LEMMA NewItemProperty ==
    ASSUME SessionsOK, NEW s \in Sessions,
           pc[s] \in {"classifying", "appending", "linking", "appending_link"}
    PROVE  LET entry == Entries[work[s].doc][work[s].at] IN
           /\ work[s].doc \in Documents /\ work[s].at \in UsableEntries(work[s].doc)
           /\ work[s].at \in Nat /\ work[s] \in Work /\ config[s] \in Configurations
           /\ entry \in Entry /\ work[s].built_at \in Ticks
           /\ NewItem(s) \in ItemRow /\ NewItem(s).id = entry.id /\ NewItem(s).host = entry.host
           /\ NewItem(s).text = entry.text /\ NewItem(s).retrieved_at = work[s].built_at
           /\ NewItem(s).revision = 1
<1>1. /\ work[s].doc \in Documents /\ work[s].at \in UsableEntries(work[s].doc)
      /\ work[s] \in Work /\ config[s] \in Configurations /\ work[s].built_at \in Ticks
  BY DEF SessionsOK, Position
<1>2. Entries[work[s].doc][work[s].at] \in Entry /\ work[s].at \in Nat
  BY <1>1, EntryProperty
<1>3. QED
  BY <1>1, <1>2, ItemOfProperty DEF NewItem

(* The link written is a link of the vocabulary.                           *)
LEMMA NewLinkProperty ==
    ASSUME SessionsOK, NEW s \in Sessions, pc[s] \in {"linking", "appending_link"}
    PROVE  /\ NewLink(s) \in LinkRow
           /\ NewLink(s) = [id |-> Entries[work[s].doc][work[s].at].id,
                            symbol |-> config[s].symbols[work[s].link], vintage |-> Vintage(config[s])]
<1>1. /\ NewItem(s) \in ItemRow /\ NewItem(s).id = Entries[work[s].doc][work[s].at].id
      /\ config[s] \in Configurations
  BY NewItemProperty
<1>2. work[s].link \in DOMAIN config[s].symbols
  BY DEF SessionsOK, Position
<1>3. config[s].symbols[work[s].link] \in Symbols /\ Vintage(config[s]) \in Vintages
  BY <1>1, <1>2, SymbolsProperty DEF Vintages
<1>4. NewItem(s).id \in EntryIds
  BY <1>1 DEF ItemRow
<1>5. QED
  BY <1>1, <1>3, <1>4 DEF NewLink, LinkRow

(* The types of all that is not a session's.                               *)
WorldOK ==
    /\ now \in Ticks
    /\ published \in [Endpoints -> Documents]
    /\ items \in File(ItemRow)
    /\ links \in File(LinkRow)
    /\ checkpoint \in [endpoint : Endpoints, tag : Tags] \cup {NoCheckpoint}
    /\ overlapped \in BOOLEAN
    /\ left \in [{"publications", "edits", "faults", "refreshes"} -> Nat]

(* Types, with what makes them inductive: every session under way holds    *)
(* what its next step needs.                                               *)
Typed == WorldOK /\ SessionsOK

(* A file is appended to, completely or in part, with a row, or is as it   *)
(* was.                                                                    *)
Appends(f, g, Row) == g = f \/ \E row \in Row : g \in CutShort(f, row) \cup {Appended(f, row)}

(* The rows and the links that are about to be written.                    *)
RowsInHand  == {work[s].row : s \in {o \in Sessions : pc[o] = "appending"}}
LinksInHand == {NewLink(s) : s \in {o \in Sessions : pc[o] = "appending_link"}}

(* They are rows and links.                                                *)
LEMMA InHandType ==
    ASSUME Typed
    PROVE  RowsInHand \subseteq ItemRow /\ LinksInHand \subseteq LinkRow
<1>1. \A s \in Sessions : pc[s] = "appending" => work[s].row \in ItemRow
  BY DEF Typed, SessionsOK, Position
<1>2. \A s \in Sessions : pc[s] = "appending_link" => NewLink(s) \in LinkRow
  BY NewLinkProperty DEF Typed
<1>3. QED
  BY <1>1, <1>2 DEF RowsInHand, LinksInHand

(* Whatever happens to the two files of the store is one append to one of  *)
(* them: nothing is rewritten, and nothing is appended but a row that a    *)
(* session has prepared.                                                   *)
LEMMA FilesAppend ==
    ASSUME [Next]_vars
    PROVE  Appends(items, items', RowsInHand) /\ Appends(links, links', LinksInHand)
<1>1. CASE UNCHANGED files
  BY <1>1 DEF files, Appends
<1>2. CASE \E s \in Sessions : AppendItem(s) \/ AppendItemRaises(s)
  BY <1>2 DEF AppendItem, AppendItemRaises, Appends, RowsInHand
<1>3. CASE \E s \in Sessions : AppendLink(s) \/ AppendLinkRaises(s)
  BY <1>3 DEF AppendLink, AppendLinkRaises, Appends, LinksInHand
<1>4. CASE Crash
  BY <1>4 DEF Crash, Appends, files, RowsInHand, LinksInHand
<1>5. QED
  <2>1. CASE UNCHANGED vars
    BY <1>1, <2>1 DEF vars, files
  <2>2. CASE Tick \/ \E e \in Endpoints : Publish(e)
    BY <1>1, <2>2 DEF Tick, Publish, files
  <2>3. ASSUME NEW s \in Sessions, SessionStep(s)
        PROVE  UNCHANGED files \/ AppendItem(s) \/ AppendItemRaises(s) \/ AppendLink(s) \/ AppendLinkRaises(s)
    BY <2>3 DEF SessionStep, Begin, SkipDisabled, RefuseDamaged, Prepare, FetchFails, NotModified,
                RefuseFormat, Fetch, Classify, FindLink, Save, SaveFails, Reconfigure, files
  <2>4. QED
    BY <1>1, <1>2, <1>3, <1>4, <2>1, <2>2, <2>3 DEF Next

(* Any step leaves every file a file, whose rows, if it can be read, were  *)
(* all there before but perhaps the last, one of those in hand.            *)
LEMMA FilesKept ==
    ASSUME Typed, [Next]_vars
    PROVE  /\ items' \in File(ItemRow) /\ links' \in File(LinkRow)
           /\ Keeps(items, items') /\ Keeps(links, links')
           /\ Readable(items') =>
                 items'.rows = items.rows \/ \E row \in RowsInHand : items'.rows = Append(items.rows, row)
<1>1. \A f : Keeps(f, f)
  BY DEF Keeps
<1>2. items \in File(ItemRow) /\ links \in File(LinkRow)
  BY DEF Typed, WorldOK
<1>3. ASSUME items' # items
      PROVE  /\ items' \in File(ItemRow) /\ Keeps(items, items')
             /\ Readable(items') => \/ items'.rows = items.rows
                                   \/ \E row \in RowsInHand : items'.rows = Append(items.rows, row)
  <2>1. PICK row \in RowsInHand : items' \in CutShort(items, row) \cup {Appended(items, row)}
    BY <1>3, FilesAppend DEF Appends
  <2>2. row \in ItemRow
    BY InHandType
  <2>3. items' \in File(ItemRow) /\ Keeps(items, items')
    BY <1>2, <2>1, <2>2, AppendProperty, AppendKeeps
  <2>4. Readable(items') => items'.rows \in {items.rows, Append(items.rows, row)}
    BY <1>2, <2>1, <2>2, AppendProperty
  <2>5. QED
    BY <2>3, <2>4
<1>4. ASSUME links' # links
      PROVE  links' \in File(LinkRow) /\ Keeps(links, links')
  <2>1. PICK row \in LinksInHand : links' \in CutShort(links, row) \cup {Appended(links, row)}
    BY <1>4, FilesAppend DEF Appends
  <2>2. row \in LinkRow
    BY InHandType
  <2>3. QED
    BY <1>2, <2>1, <2>2, AppendProperty, AppendKeeps
<1>5. items' \in File(ItemRow) /\ Keeps(items, items')
  BY <1>1, <1>2, <1>3
<1>6. links' \in File(LinkRow) /\ Keeps(links, links')
  BY <1>1, <1>2, <1>4
<1>7. Readable(items') =>
         items'.rows = items.rows \/ \E row \in RowsInHand : items'.rows = Append(items.rows, row)
  BY <1>3
<1>8. QED
  BY <1>5, <1>6, <1>7

(* A budget that is spent stays a number.                                  *)
LEMMA SpendType ==
    ASSUME WorldOK, NEW budget \in {"publications", "edits", "faults", "refreshes"}, Spend(budget)
    PROVE  left' \in [{"publications", "edits", "faults", "refreshes"} -> Nat]
<1>1. left[budget] \in Nat /\ left[budget] > 0
  BY DEF WorldOK, Spend
<1>2. left[budget] - 1 \in Nat
  BY <1>1
<1>3. QED
  BY <1>2 DEF WorldOK, Spend

(* A step by a session leaves the clock and the publishers alone and       *)
(* everything else of the world well-formed.                               *)
LEMMA WorldSessionStep ==
    ASSUME Typed, NEW s \in Sessions, SessionStep(s)
    PROVE  WorldOK'
<1>1. items' \in File(ItemRow) /\ links' \in File(LinkRow)
  BY FilesKept DEF Next
<1>2. now' = now /\ published' = published
  BY DEF SessionStep, Begin, SkipDisabled, RefuseDamaged, Prepare, FetchFails, NotModified, RefuseFormat, Fetch,
         Classify, AppendItem, AppendItemRaises, FindLink, AppendLink, AppendLinkRaises, Save, SaveFails, Reconfigure
<1>3. overlapped' \in BOOLEAN
  <2>1. CASE Begin(s)
    <3>1. \A b, q \in BOOLEAN : (b \/ q) \in BOOLEAN
      OBVIOUS
    <3>2. overlapped' = TRUE \/ overlapped' = FALSE
      BY <2>1 DEF Begin
    <3>3. QED
      BY <3>2
  <2>2. CASE ~Begin(s)
    <3>1. overlapped' = overlapped
      BY <2>2
      DEF SessionStep, SkipDisabled, RefuseDamaged, Prepare, FetchFails, NotModified, RefuseFormat, Fetch,
          Classify, AppendItem, AppendItemRaises, FindLink, AppendLink, AppendLinkRaises, Save, SaveFails, Reconfigure
    <3>2. QED
      BY <3>1 DEF Typed, WorldOK
  <2>3. QED
    BY <2>1, <2>2
<1>4. left' \in [{"publications", "edits", "faults", "refreshes"} -> Nat]
  <2>1. left' = left \/ \E b \in {"edits", "faults", "refreshes"} : Spend(b)
    BY DEF SessionStep, Begin, SkipDisabled, RefuseDamaged, Prepare, FetchFails, NotModified, RefuseFormat, Fetch,
           Classify, AppendItem, AppendItemRaises, FindLink, AppendLink, AppendLinkRaises, Save, SaveFails, Reconfigure
  <2>2. QED
    BY <2>1, SpendType DEF Typed, WorldOK
<1>5. checkpoint' \in [endpoint : Endpoints, tag : Tags] \cup {NoCheckpoint}
  <2>1. CASE Save(s)
    <3>1. config[s].endpoint \in Endpoints /\ work[s].tag \in Tags
      BY FeedAssumption DEF Typed, SessionsOK, Work
    <3>2. QED
      BY <2>1, <3>1 DEF Save
  <2>2. CASE ~Save(s)
    <3>1. checkpoint' = checkpoint
      BY <2>2
      DEF SessionStep, Begin, SkipDisabled, RefuseDamaged, Prepare, FetchFails, NotModified, RefuseFormat, Fetch,
          Classify, AppendItem, AppendItemRaises, FindLink, AppendLink, AppendLinkRaises, SaveFails, Reconfigure
    <3>2. QED
      BY <3>1 DEF Typed, WorldOK
  <2>3. QED
    BY <2>1, <2>2
<1>6. QED
  BY <1>1, <1>2, <1>3, <1>4, <1>5 DEF Typed, WorldOK

(* Every step leaves the world well-formed.                                *)
LEMMA WorldStep ==
    ASSUME Typed, [Next]_vars
    PROVE  WorldOK'
<1>1. items' \in File(ItemRow) /\ links' \in File(LinkRow)
  BY FilesKept
<1>2. CASE UNCHANGED vars
  BY <1>2 DEF vars, files, Typed, WorldOK
<1>3. CASE Crash
  BY <1>1, <1>3, SpendType DEF Crash, Typed, WorldOK
<1>4. CASE Tick
  <2>1. now' \in Ticks
    BY <1>4, FeedAssumption DEF Tick, Typed, WorldOK, Ticks
  <2>2. QED
    BY <1>4, <2>1 DEF Tick, files, Typed, WorldOK
<1>5. ASSUME NEW e \in Endpoints, Publish(e) PROVE WorldOK'
  <2>1. published' \in [Endpoints -> Documents]
    BY <1>5 DEF Publish, Typed, WorldOK
  <2>2. QED
    BY <1>5, <2>1, SpendType DEF Publish, files, Typed, WorldOK
<1>6. QED
  BY <1>2, <1>3, <1>4, <1>5, WorldSessionStep DEF Next

(* What a session knows of a publisher's answer.                           *)
Learnt(s, tag, outcome, at) == [Answered(s, tag) EXCEPT !.outcome = outcome, !.at = at]

(* The publisher's answer is kept with the moment the refresh began.       *)
LEMMA AnsweredType ==
    ASSUME Typed, NEW s \in Sessions, pc[s] # "idle", NEW tag \in {Served(s), NoTag}
    PROVE  Answered(s, tag) \in Work /\ Served(s) \in Documents /\ work[s].built_at \in Ticks
<1>1. config[s].endpoint \in Endpoints
  BY FeedAssumption DEF Typed, SessionsOK
<1>2. Served(s) \in Documents
  BY <1>1 DEF Typed, WorldOK, Served
<1>3. work[s].built_at \in Ticks /\ work[s].sound \in BOOLEAN
  BY DEF Typed, SessionsOK, Position, Work
<1>4. tag \in Tags /\ Served(s) \in Tags
  BY <1>2 DEF Tags
<1>5. QED
  BY <1>2, <1>3, <1>4, NoWorkType DEF Answered, Work

(* A document that is served starts the work on its entries.               *)
LEMMA LearntProperty ==
    ASSUME Typed, NEW s \in Sessions, pc[s] # "idle", NEW tag \in {Served(s), NoTag},
           NEW outcome \in Verdicts, NEW at \in Nat
    PROVE  /\ Learnt(s, tag, outcome, at) \in Work
           /\ Served(s) \in Documents /\ work[s].built_at \in Ticks
           /\ Learnt(s, tag, outcome, at).built_at = work[s].built_at
           /\ Learnt(s, tag, outcome, at).sound = work[s].sound
           /\ Learnt(s, tag, outcome, at).doc = Served(s)
           /\ Learnt(s, tag, outcome, at).tag = tag
           /\ Learnt(s, tag, outcome, at).at = at
           /\ Learnt(s, tag, outcome, at).outcome = outcome
<1>1. Answered(s, tag) \in Work /\ Served(s) \in Documents /\ work[s].built_at \in Ticks
  BY AnsweredType
<1>2. /\ Answered(s, tag).built_at = work[s].built_at /\ Answered(s, tag).sound = work[s].sound
      /\ Answered(s, tag).doc = Served(s) /\ Answered(s, tag).tag = tag
  BY DEF Answered, NoWork
<1>3. QED
  BY <1>1, <1>2 DEF Work, Learnt

(* A publisher that answers 304 gives the session no entry to work on.     *)
Unmodified(s, tag) == [Answered(s, tag) EXCEPT !.outcome = "not_modified"]

(* What the session keeps of it.                                           *)
LEMMA UnmodifiedProperty ==
    ASSUME Typed, NEW s \in Sessions, pc[s] # "idle", NEW tag \in {Served(s), NoTag}
    PROVE  /\ Unmodified(s, tag) \in Work
           /\ Served(s) \in Documents /\ work[s].built_at \in Ticks
           /\ Unmodified(s, tag).built_at = work[s].built_at
           /\ Unmodified(s, tag).sound = work[s].sound
           /\ Unmodified(s, tag).doc = Served(s)
           /\ Unmodified(s, tag).tag = tag
           /\ Unmodified(s, tag).outcome = "not_modified"
<1>1. Answered(s, tag) \in Work /\ Served(s) \in Documents /\ work[s].built_at \in Ticks
  BY AnsweredType
<1>2. /\ Answered(s, tag).built_at = work[s].built_at /\ Answered(s, tag).sound = work[s].sound
      /\ Answered(s, tag).doc = Served(s) /\ Answered(s, tag).tag = tag
  BY DEF Answered, NoWork
<1>3. "not_modified" \in Verdicts
  BY DEF Verdicts, Healthy
<1>4. QED
  BY <1>1, <1>2, <1>3 DEF Work, Unmodified

(* Classifying an entry leaves the sessions well-formed.                   *)
LEMMA ClassifyType ==
    ASSUME Typed, NEW s \in Sessions, Classify(s)
    PROVE  SessionsOK'
<1>1. pc[s] = "classifying" /\ config' = config /\ SessionsOK
  BY DEF Classify, Typed
<1>2. CASE ~Readable(items) /\ NextEntry(s, FALSE)
  BY <1>1, <1>2, NextEntryType
<1>3. CASE NextEntry(s, TRUE)
  BY <1>1, <1>3, NextEntryType
<1>4. CASE NextLink(s, 1)
  <2>1. 1 \in Nat \ {0}
    OBVIOUS
  <2>2. QED
    BY <1>1, <1>4, <2>1, NextLinkType
<1>5. CASE PrepareRow(s)
  <2> DEFINE row == Revised(items, NewItem(s))
             w == [work[s] EXCEPT !.row = row]
             entry == Entries[work[s].doc][work[s].at]
  <2>1. NewItem(s) \in ItemRow /\ work[s] \in Work /\ work[s].built_at \in Ticks
        /\ work[s].doc \in Documents /\ work[s].at \in UsableEntries(work[s].doc)
    BY <1>1, NewItemProperty
  <2>2. row \in ItemRow /\ \E n \in Nat \ {0} : row = [NewItem(s) EXCEPT !.revision = n]
    BY <2>1, RevisedProperty DEF Typed, WorldOK
  <2>3. row.id = NewItem(s).id /\ row.host = NewItem(s).host /\ row.text = NewItem(s).text
        /\ row.retrieved_at = NewItem(s).retrieved_at
    <3> HIDE DEF row
    <3>1. QED
      BY <2>1, <2>2 DEF ItemRow
  <2>4. row.id = entry.id /\ row.host = entry.host /\ row.text = entry.text
        /\ row.retrieved_at = work[s].built_at
    BY <1>1, <2>3, NewItemProperty
  <2>5. work' = [work EXCEPT ![s] = w] /\ Goto(s, "appending") /\ result' = result
    BY <1>5 DEF PrepareRow
  <2> HIDE DEF row
  <2>6. w \in Work /\ w.row = row /\ w.doc = work[s].doc /\ w.at = work[s].at /\ w.built_at = work[s].built_at
    BY <2>1, <2>2 DEF Work
  <2>7. pc'[s] = "appending" /\ work'[s] = w
    BY <1>1, <2>5 DEF SessionsOK, Goto
  <2> HIDE DEF w
  <2>8. Position(s)'
    BY <2>1, <2>2, <2>4, <2>6, <2>7 DEF Position
  <2>9. QED
    BY <1>1, <2>5, <2>6, <2>8, MoveType DEF Labels
<1>6. QED
  BY <1>1, <1>2, <1>3, <1>4, <1>5 DEF Classify

(* A death leaves every session idle.                                      *)
LEMMA CrashType ==
    ASSUME Typed, Crash
    PROVE  SessionsOK'
<1>1. /\ pc' = [s \in Sessions |-> "idle"] /\ work' = [s \in Sessions |-> NoWork]
      /\ result' = [s \in Sessions |-> NoResult] /\ config' = config
  BY DEF Crash
<1>2. \A s \in Sessions : NoResult \in [outcome : Verdicts, doc : Tags, config : Configurations]
  <2>1. ASSUME NEW s \in Sessions PROVE (CHOOSE c \in Configurations : TRUE) \in Configurations
    <3>1. config[s] \in Configurations
      BY DEF Typed, SessionsOK
    <3>2. QED
      BY <3>1
  <2>2. QED
    BY <2>1 DEF NoResult, Verdicts, Tags
<1>3. \A s \in Sessions : Position(s)'
  BY <1>1 DEF Position
<1>4. QED
  BY <1>1, <1>2, <1>3, NoWorkType DEF Typed, SessionsOK, Labels

(* Every step leaves the sessions well-formed.                             *)
LEMMA SessionsStep ==
    ASSUME Typed, [Next]_vars
    PROVE  SessionsOK'
<1> USE DEF Typed
<1>1. CASE UNCHANGED vars
  <2>1. \A s \in Sessions : Position(s)'
    BY <1>1, PositionFrame DEF vars, SessionsOK
  <2>2. QED
    BY <1>1, <2>1 DEF vars, SessionsOK
<1>2. CASE Crash
  BY <1>2, CrashType
<1>3. CASE Tick \/ \E e \in Endpoints : Publish(e)
  <2>1. UNCHANGED <<pc, work, result, config>>
    BY <1>3 DEF Tick, Publish
  <2>2. \A s \in Sessions : Position(s)'
    BY <2>1, PositionFrame DEF SessionsOK
  <2>3. QED
    BY <2>1, <2>2 DEF SessionsOK
<1>4. ASSUME NEW s \in Sessions, SessionStep(s)
      PROVE  SessionsOK'
  <2>1. CASE Begin(s)
    <3> DEFINE w == [work[s] EXCEPT !.built_at = now, !.sound = Readable(items) /\ Readable(links)]
    <3>1. now \in Ticks /\ (Readable(items) /\ Readable(links)) \in BOOLEAN /\ work[s] \in Work
      BY DEF WorldOK, SessionsOK
    <3>2. w \in Work /\ w.built_at = now
      BY <3>1 DEF Work
    <3>3. work' = [work EXCEPT ![s] = w] /\ Goto(s, "begun") /\ UNCHANGED <<result, config>>
      BY <2>1 DEF Begin
    <3>4. pc'[s] = "begun" /\ work'[s] = w
      BY <3>3 DEF SessionsOK, Goto
    <3>5. Position(s)'
      BY <3>1, <3>2, <3>4 DEF Position
    <3>6. QED
      BY <3>2, <3>3, <3>5, MoveType DEF Labels
  <2>2. CASE SkipDisabled(s) \/ RefuseDamaged(s) \/ FetchFails(s) \/ RefuseFormat(s)
    BY <2>2, FinishType DEF SkipDisabled, RefuseDamaged, FetchFails, RefuseFormat, Verdicts
  <2>3. CASE Prepare(s)
    <3> DEFINE w == [work[s] EXCEPT !.request = Validator(config[s].endpoint),
                                    !.warned = IsForeign(config[s].endpoint)]
    <3>1. Validator(config[s].endpoint) \in Tags /\ IsForeign(config[s].endpoint) \in BOOLEAN
      BY DEF Validator, IsForeign, WorldOK, NoCheckpoint, Tags
    <3>2. work[s] \in Work /\ work[s].built_at \in Ticks
      BY <2>3 DEF SessionsOK, Position, Prepare
    <3>3. work' = [work EXCEPT ![s] = w] /\ Goto(s, "fetching") /\ UNCHANGED <<result, config>>
      BY <2>3 DEF Prepare
    <3>4. w \in Work /\ w.built_at = work[s].built_at
      BY <3>1, <3>2 DEF Work
    <3>5. pc'[s] = "fetching" /\ work'[s] = w
      BY <3>3 DEF SessionsOK, Goto
    <3>6. Position(s)'
      BY <3>2, <3>4, <3>5 DEF Position
    <3>7. QED
      BY <3>3, <3>4, <3>6, MoveType DEF Labels
  <2>4. CASE NotModified(s)
    <3>1. PICK tag \in {Served(s), NoTag} : work' = [work EXCEPT ![s] = Unmodified(s, tag)]
      BY <2>4 DEF NotModified, Unmodified
    <3> DEFINE w == Unmodified(s, tag)
    <3>2. pc[s] # "idle" /\ Goto(s, "saving") /\ UNCHANGED <<result, config>>
      BY <2>4 DEF NotModified
    <3>4. w \in Work /\ w.built_at = work[s].built_at /\ work[s].built_at \in Ticks
      BY <3>2, UnmodifiedProperty
    <3> HIDE DEF w
    <3>5. pc'[s] = "saving" /\ work'[s] = w
      BY <3>1, <3>2 DEF SessionsOK, Goto, w
    <3>6. Position(s)'
      BY <3>4, <3>5 DEF Position
    <3>7. QED
      BY <3>1, <3>2, <3>4, <3>6, MoveType DEF Labels, w
  <2>5. CASE Fetch(s)
    <3> DEFINE d == Served(s)
               at == IF UsableEntries(d) = {} THEN 0 ELSE FirstAfter(d, 0)
               label == IF UsableEntries(d) = {} THEN "saving" ELSE "classifying"
    <3>1. PICK tag \in {d, NoTag} : work' = [work EXCEPT ![s] = Learnt(s, tag, Verdict(s, d), at)]
      BY <2>5 DEF Fetch, Learnt
    <3> DEFINE w == Learnt(s, tag, Verdict(s, d), at)
    <3>2. pc[s] # "idle" /\ Goto(s, label) /\ UNCHANGED <<result, config>>
      BY <2>5 DEF Fetch
    <3>3. Verdict(s, d) \in Verdicts
      BY DEF Verdict, Verdicts, Healthy
    <3>4. d \in Documents
      BY <3>2, <3>3, LearntProperty
    <3>5. at \in Nat /\ (UsableEntries(d) # {} => at \in UsableEntries(d))
      BY <3>4, FirstProperty
    <3>6. label \in Labels /\ label \in {"saving", "classifying"} /\ (label = "classifying" => UsableEntries(d) # {})
      BY DEF Labels
    <3>7. /\ w \in Work /\ w.built_at = work[s].built_at /\ work[s].built_at \in Ticks
          /\ w.doc = d /\ w.at = at
      <4> HIDE DEF at
      <4>1. QED
        BY <3>2, <3>3, <3>5, LearntProperty
    <3> HIDE DEF d, at, label, w
    <3>8. pc'[s] = label /\ work'[s] = w
      BY <3>1, <3>2 DEF SessionsOK, Goto, w
    <3>9. Position(s)'
      BY <3>4, <3>5, <3>6, <3>7, <3>8 DEF Position
    <3>10. QED
      BY <3>1, <3>2, <3>6, <3>7, <3>9, MoveType DEF w
  <2>6. CASE Classify(s)
    BY <2>6, ClassifyType
  <2>7. CASE AppendItem(s) \/ AppendItemRaises(s)
    <3>1. 1 \in Nat \ {0} /\ FALSE \in BOOLEAN /\ TRUE \in BOOLEAN
      OBVIOUS
    <3>2. config' = config /\ pc[s] = "appending" /\ (NextLink(s, 1) \/ NextEntry(s, FALSE))
      BY <2>7 DEF AppendItem, AppendItemRaises
    <3>3. QED
      BY <3>1, <3>2, NextLinkType, NextEntryType
  <2>8. CASE FindLink(s) \/ AppendLink(s) \/ AppendLinkRaises(s)
    <3>1. work[s].link + 1 \in Nat \ {0} /\ FALSE \in BOOLEAN
      BY DEF SessionsOK, Work
    <3>2. config' = config /\ pc[s] \in {"linking", "appending_link"}
      BY <2>8 DEF FindLink, AppendLink, AppendLinkRaises
    <3>3. CASE NextLink(s, work[s].link + 1) \/ NextEntry(s, FALSE)
      BY <3>1, <3>2, <3>3, NextLinkType, NextEntryType
    <3>4. CASE Goto(s, "appending_link") /\ UNCHANGED <<work, result>> /\ pc[s] = "linking"
      <4>1. work' = [work EXCEPT ![s] = work[s]] /\ work[s] \in Work
        BY <3>4 DEF SessionsOK
      <4>2. Position(s)'
        BY <3>2, <3>4 DEF SessionsOK, Position, Goto
      <4>3. QED
        BY <3>2, <3>4, <4>1, <4>2, MoveType DEF Labels
    <3>5. QED
      BY <2>8, <3>3, <3>4 DEF FindLink, AppendLink, AppendLinkRaises
  <2>9. CASE Save(s) \/ SaveFails(s)
    <3>1. work[s].outcome \in Verdicts
      BY DEF SessionsOK, Work
    <3>2. QED
      BY <2>9, <3>1, FinishType DEF Save, SaveFails
  <2>10. CASE Reconfigure(s)
    <3>1. config' \in [Sessions -> Configurations] /\ \A t \in Sessions \ {s} : config'[t] = config[t]
      BY <2>10 DEF Reconfigure, SessionsOK
    <3>2. result' \in [Sessions -> [outcome : Verdicts, doc : Tags, config : Configurations]]
      <4>1. (CHOOSE c \in Configurations : TRUE) \in Configurations
        <5>1. config[s] \in Configurations
          BY DEF SessionsOK
        <5>2. QED
          BY <5>1
      <4>2. NoResult \in [outcome : Verdicts, doc : Tags, config : Configurations]
        BY <4>1 DEF NoResult, Verdicts, Tags
      <4>3. QED
        BY <2>10, <4>2 DEF Reconfigure, SessionsOK
    <3>3. UNCHANGED <<pc, work>> /\ pc[s] = "idle"
      BY <2>10 DEF Reconfigure
    <3>4. Position(s)'
      BY <3>3 DEF Position
    <3>5. \A t \in Sessions : Position(t)'
      BY <3>1, <3>3, <3>4, PositionFrame DEF SessionsOK
    <3>6. QED
      BY <3>1, <3>2, <3>3, <3>5 DEF SessionsOK
  <2>11. QED
    BY <1>4, <2>1, <2>2, <2>3, <2>4, <2>5, <2>6, <2>7, <2>8, <2>9, <2>10 DEF SessionStep
<1>5. QED
  BY <1>1, <1>2, <1>3, <1>4 DEF Next

(* Types are inductive.                                                    *)
LEMMA TypedInvariant == Spec => []Typed
<1>1. Init => Typed
  <2> SUFFICES ASSUME Init PROVE Typed
    OBVIOUS
  <2>1. EmptyFile \in File(ItemRow) /\ EmptyFile \in File(LinkRow)
    BY DEF EmptyFile, File, Lasts
  <2>2. left \in [{"publications", "edits", "faults", "refreshes"} -> Nat]
    BY FeedAssumption DEF Init
  <2>3. 0 \in Ticks
    BY FeedAssumption DEF Ticks
  <2>4. WorldOK
    BY <2>1, <2>2, <2>3 DEF Init, WorldOK
  <2>5. \A s \in Sessions : NoResult \in [outcome : Verdicts, doc : Tags, config : Configurations]
    <3>1. ASSUME NEW s \in Sessions PROVE (CHOOSE c \in Configurations : TRUE) \in Configurations
      <4>1. config[s] \in Configurations
        BY DEF Init
      <4>2. QED
        BY <4>1
    <3>2. QED
      BY <3>1 DEF NoResult, Verdicts, Tags
  <2>6. \A s \in Sessions : Position(s)
    BY DEF Init, Position
  <2>7. SessionsOK
    BY <2>5, <2>6, NoWorkType DEF Init, SessionsOK, Labels
  <2>8. QED
    BY <2>4, <2>7 DEF Typed
<1>2. Typed /\ [Next]_vars => Typed'
  BY WorldStep, SessionsStep DEF Typed
<1>3. QED
  BY <1>1, <1>2, PTL DEF Spec

(* TypeOK, for every feed: in particular every row stored is an            *)
(* observation with an availability and a revision of at least 1.          *)
THEOREM TypeCorrect == Spec => []TypeOK
<1>1. Typed => TypeOK
  BY DEF Typed, WorldOK, SessionsOK, TypeOK
<1>2. QED
  BY <1>1, TypedInvariant, PTL

-----------------------------------------------------------------------------
(* Replay.                                                                 *)

(* An observation that is made after a moment changes nothing in what was  *)
(* known by it.                                                            *)
LEMMA LaterRowsUnseen ==
    ASSUME NEW f \in File(ItemRow), NEW g \in File(ItemRow), NEW t \in Ticks,
           \/ g.rows = f.rows
           \/ \E row \in ItemRow : row.retrieved_at > t /\ g.rows = Append(f.rows, row)
    PROVE  Replay(g, t) = Replay(f, t) /\ Answer(g, t) \subseteq Answer(f, t)
<1>1. CASE g.rows = f.rows
  BY <1>1 DEF Replay, Answer, LatestItems, Latest, Highest, SeenBy, RowsOf, Ids
<1>2. ASSUME NEW row \in ItemRow, row.retrieved_at > t, g.rows = Append(f.rows, row)
      PROVE  Replay(g, t) = Replay(f, t) /\ Answer(g, t) \subseteq Answer(f, t)
  <2> DEFINE N == Len(f.rows)
  <2>1. f.rows \in Seq(ItemRow) /\ N \in Nat /\ DOMAIN f.rows = 1 .. N
    BY DEF File
  <2>2. /\ DOMAIN g.rows = 1 .. (N + 1) /\ g.rows[N + 1] = row
        /\ \A i \in 1 .. N : g.rows[i] = f.rows[i]
    BY <1>2, <2>1
  <2>3. row.retrieved_at \in Int /\ t \in Int /\ ~(row.retrieved_at <= t)
    BY <1>2, FeedAssumption DEF ItemRow, Ticks
  <2>4. SeenBy(g, t) = SeenBy(f, t) /\ SeenBy(f, t) \subseteq DOMAIN f.rows
    BY <2>1, <2>2, <2>3 DEF SeenBy
  <2> HIDE DEF N
  <2>5. \A id : RowsOf(g, id) \cap SeenBy(g, t) = RowsOf(f, id) \cap SeenBy(f, t)
    BY <2>1, <2>2, <2>4 DEF RowsOf
  <2>6. {g.rows[i].id : i \in SeenBy(g, t)} = {f.rows[i].id : i \in SeenBy(f, t)}
    BY <2>1, <2>2, <2>4
  <2>7. ASSUME NEW id \in {f.rows[i].id : i \in SeenBy(f, t)}
        PROVE  Highest(g, RowsOf(g, id) \cap SeenBy(g, t)) = Highest(f, RowsOf(f, id) \cap SeenBy(f, t))
    <3> DEFINE ns == RowsOf(f, id) \cap SeenBy(f, t)
    <3>1. ns \in SUBSET DOMAIN f.rows /\ ns \subseteq DOMAIN g.rows /\ \A i \in ns : g.rows[i] = f.rows[i]
      BY <2>1, <2>2, <2>4
    <3>2. ns # {}
      BY <2>4 DEF RowsOf
    <3>3. RowsOf(g, id) \cap SeenBy(g, t) = ns
      BY <2>5
    <3> HIDE DEF ns
    <3>4. Highest(g, ns) = Highest(f, ns)
      BY <3>1, <3>2, HighestAgrees
    <3>5. QED
      BY <3>3, <3>4 DEF ns
  <2>8. Replay(g, t) = Replay(f, t)
    BY <2>6, <2>7 DEF Replay
  <2>9. ASSUME NEW item \in Answer(g, t) PROVE item \in Answer(f, t)
    <3>1. PICK id \in Ids(g) : item = Latest(g, id)
      BY <2>9 DEF Answer, LatestItems
    <3>2. PICK i \in RowsOf(g, id) : IsHighest(g, RowsOf(g, id), i) /\ item = g.rows[i]
      BY <3>1, LatestProperty
    <3>3. i \in 1 .. N
      <4>1. item # row
        <5>1. row.available_from \in Int
          BY FeedAssumption DEF ItemRow, Ticks
        <5>2. ~VisibleAt(row, t)
          BY <2>3, <5>1 DEF VisibleAt, Later
        <5>3. QED
          BY <2>9, <5>2 DEF Answer
      <4>2. i \in 1 .. (N + 1) /\ i # N + 1
        BY <2>2, <3>2, <4>1 DEF RowsOf
      <4>3. QED
        BY <2>1, <4>2 DEF N
    <3>4. i \in RowsOf(f, id) /\ item = f.rows[i] /\ id \in Ids(f) /\ f.rows[i].id = id
      BY <2>1, <2>2, <3>2, <3>3 DEF RowsOf, Ids
    <3>5. PICK j \in RowsOf(f, id) : IsHighest(f, RowsOf(f, id), j) /\ Latest(f, id) = f.rows[j]
      BY <3>4, LatestProperty
    <3>6. \A k \in RowsOf(f, id) : k \in RowsOf(g, id) /\ g.rows[k] = f.rows[k]
      BY <2>1, <2>2 DEF RowsOf, N
    <3>7. i = j
      <4>1. \A k \in RowsOf(f, id) : k \in Nat /\ f.rows[k].revision \in Nat
        <5>1. \A k \in RowsOf(f, id) : k \in Nat /\ f.rows[k] \in ItemRow
          BY <2>1 DEF RowsOf
        <5>2. QED
          BY <5>1 DEF ItemRow
      <4>2. f.rows[j].revision < f.rows[i].revision \/ (f.rows[j].revision = f.rows[i].revision /\ i <= j)
        BY <3>2, <3>4, <3>6 DEF IsHighest
      <4>3. f.rows[i].revision < f.rows[j].revision \/ (f.rows[i].revision = f.rows[j].revision /\ j <= i)
        BY <3>4, <3>5 DEF IsHighest
      <4>4. QED
        BY <3>4, <4>1, <4>2, <4>3
    <3>8. VisibleAt(item, t)
      BY <2>9 DEF Answer
    <3>9. QED
      BY <3>4, <3>5, <3>7, <3>8 DEF Answer, LatestItems
  <2>10. QED
    BY <2>8, <2>9
<1>3. QED
  BY <1>1, <1>2

(* A row that is appended after a moment is past was retrieved after it.   *)
LEMMA PastIsFixed ==
    ASSUME Typed, [Next]_vars, NEW t \in Ticks, IsPast(t), Readable(items')
    PROVE  Replay(items', t) = Replay(items, t) /\ Answer(items', t) \subseteq Answer(items, t)
<1>1. items \in File(ItemRow) /\ items' \in File(ItemRow)
  BY FilesKept DEF Typed, WorldOK
<1>2. ASSUME NEW row \in RowsInHand PROVE row \in ItemRow /\ row.retrieved_at > t
  <2>1. PICK s \in Sessions : pc[s] = "appending" /\ row = work[s].row
    BY DEF RowsInHand
  <2>2. row.retrieved_at = work[s].built_at /\ row \in ItemRow
    BY <2>1 DEF Typed, SessionsOK, Position
  <2>3. QED
    BY <2>1, <2>2 DEF IsPast
<1>3. items'.rows = items.rows \/ \E row \in RowsInHand : items'.rows = Append(items.rows, row)
  BY FilesKept
<1>4. QED
  BY <1>1, <1>2, <1>3, LaterRowsUnseen

(* ReplayIsStable: latest_items(as_of) is a replay, for every history of   *)
(* refreshes, revisions and damage.                                        *)
THEOREM ReplayStays == Spec => ReplayIsStable
<1>1. Typed /\ [Next]_vars =>
         [\A t \in Ticks : IsPast(t) /\ Readable(items') => Replay(items', t) = Replay(items, t)]_vars
  BY PastIsFixed
<1>2. QED
  BY <1>1, TypedInvariant, PTL DEF Spec, ReplayIsStable

(* PastAnswersNeverGrow: what is fetched later adds nothing to the causal  *)
(* answer for an earlier moment.                                           *)
THEOREM NothingIsBackfilled == Spec => PastAnswersNeverGrow
<1>1. Typed /\ [Next]_vars =>
         [\A t \in Ticks : IsPast(t) /\ Readable(items') => Answer(items', t) \subseteq Answer(items, t)]_vars
  BY PastIsFixed
<1>2. QED
  BY <1>1, TypedInvariant, PTL DEF Spec, PastAnswersNeverGrow

-----------------------------------------------------------------------------
(* What one session's step does.                                           *)

Processing == {"classifying", "appending", "linking", "appending_link"}

(* The sessions share nothing but the files.                               *)
OthersStay(s) ==
    \A t \in Sessions \ {s} :
        pc'[t] = pc[t] /\ work'[t] = work[t] /\ result'[t] = result[t] /\ config'[t] = config[t]

(* What is known of an answer stays until the refresh ends.                *)
SameAnswer(s) ==
    /\ config'[s] = config[s]
    /\ work'[s].doc = work[s].doc /\ work'[s].tag = work[s].tag
    /\ work'[s].outcome = work[s].outcome /\ work'[s].sound = work[s].sound
    /\ work'[s].built_at = work[s].built_at

(* To the end, without a word about the entries.                           *)
Ended(s, outcome) ==
    /\ pc'[s] = "idle" /\ work'[s] = NoWork /\ config'[s] = config[s]
    /\ result'[s] = [outcome |-> outcome, doc |-> work[s].doc, config |-> config[s]]

(* To the next entry, to the checkpoint, or to the end.                    *)
Onward(s, clean) ==
    \/ /\ EntriesAfter(work[s].doc, work[s].at) # {}
       /\ pc'[s] = "classifying" /\ SameAnswer(s) /\ result'[s] = result[s]
       /\ work'[s].at = FirstAfter(work[s].doc, work[s].at)
       /\ work'[s].clean <=> work[s].clean /\ clean
    \/ /\ EntriesAfter(work[s].doc, work[s].at) = {}
       /\ pc'[s] = "saving" /\ SameAnswer(s) /\ result'[s] = result[s]
       /\ work[s].clean /\ clean
    \/ Ended(s, "failed_write")

(* To the next symbol, or onward.                                          *)
OnwardLink(s, n) ==
    \/ /\ n <= Len(config[s].symbols)
       /\ pc'[s] = "linking" /\ SameAnswer(s) /\ result'[s] = result[s]
       /\ work'[s].at = work[s].at /\ work'[s].link = n
       /\ work'[s].clean <=> work[s].clean
    \/ /\ ~(n <= Len(config[s].symbols))
       /\ Onward(s, TRUE)

(* Finish ends a session's refresh and touches no other.                   *)
LEMMA FinishEffect ==
    ASSUME SessionsOK, NEW s \in Sessions, NEW outcome, Finish(s, outcome), config' = config
    PROVE  OthersStay(s) /\ Ended(s, outcome)
BY DEF SessionsOK, Finish, Goto, OthersStay, Ended

(* The loop over the entries takes them in turn.                           *)
LEMMA NextEntryEffect ==
    ASSUME SessionsOK, NEW s \in Sessions, NEW clean \in BOOLEAN, NextEntry(s, clean), config' = config
    PROVE  OthersStay(s) /\ Onward(s, clean)
<1>1. work[s] \in Work
  BY DEF SessionsOK
<1>2. CASE EntriesAfter(work[s].doc, work[s].at) # {}
  <2> DEFINE at == FirstAfter(work[s].doc, work[s].at)
             w == [work[s] EXCEPT !.at = at, !.link = 1, !.row = NoRow, !.clean = @ /\ clean]
  <2>1. work' = [work EXCEPT ![s] = w] /\ Goto(s, "classifying") /\ result' = result
    BY <1>2 DEF NextEntry
  <2>2. pc'[s] = "classifying" /\ work'[s] = w /\ OthersStay(s)
    BY <2>1 DEF SessionsOK, Goto, OthersStay
  <2>3. /\ w.doc = work[s].doc /\ w.tag = work[s].tag /\ w.outcome = work[s].outcome
        /\ w.sound = work[s].sound /\ w.built_at = work[s].built_at /\ w.at = at
        /\ w.clean = (work[s].clean /\ clean)
    BY <1>1 DEF Work
  <2> HIDE DEF w
  <2>4. SameAnswer(s) /\ work'[s].at = at /\ (work'[s].clean <=> work[s].clean /\ clean)
    BY <2>2, <2>3 DEF SameAnswer
  <2>5. QED
    BY <1>2, <2>1, <2>2, <2>4 DEF Onward
<1>3. CASE EntriesAfter(work[s].doc, work[s].at) = {} /\ work[s].clean /\ clean
  <2>1. Goto(s, "saving") /\ UNCHANGED <<work, result>>
    BY <1>3 DEF NextEntry
  <2>2. pc'[s] = "saving" /\ OthersStay(s) /\ SameAnswer(s)
    BY <2>1 DEF SessionsOK, Goto, OthersStay, SameAnswer
  <2>3. QED
    BY <1>3, <2>1, <2>2 DEF Onward
<1>4. CASE EntriesAfter(work[s].doc, work[s].at) = {} /\ ~(work[s].clean /\ clean)
  <2>1. Finish(s, "failed_write")
    BY <1>4 DEF NextEntry
  <2>2. QED
    BY <2>1, FinishEffect DEF Onward
<1>5. QED
  BY <1>2, <1>3, <1>4

(* The loop over the symbols takes them in turn.                           *)
LEMMA NextLinkEffect ==
    ASSUME SessionsOK, NEW s \in Sessions, NEW n \in Nat \ {0}, NextLink(s, n), config' = config
    PROVE  OthersStay(s) /\ OnwardLink(s, n)
<1>1. work[s] \in Work
  BY DEF SessionsOK
<1>2. CASE n <= Len(config[s].symbols)
  <2> DEFINE w == [work[s] EXCEPT !.link = n, !.row = NoRow]
  <2>1. work' = [work EXCEPT ![s] = w] /\ Goto(s, "linking") /\ result' = result
    BY <1>2 DEF NextLink
  <2>2. pc'[s] = "linking" /\ work'[s] = w /\ OthersStay(s)
    BY <2>1 DEF SessionsOK, Goto, OthersStay
  <2>3. /\ w.doc = work[s].doc /\ w.tag = work[s].tag /\ w.outcome = work[s].outcome
        /\ w.sound = work[s].sound /\ w.built_at = work[s].built_at /\ w.at = work[s].at
        /\ w.clean = work[s].clean /\ w.link = n
    BY <1>1 DEF Work
  <2> HIDE DEF w
  <2>4. SameAnswer(s)
    BY <2>2, <2>3 DEF SameAnswer
  <2>5. QED
    BY <1>2, <2>1, <2>2, <2>3, <2>4 DEF OnwardLink
<1>3. CASE ~(n <= Len(config[s].symbols))
  <2>1. NextEntry(s, TRUE) /\ TRUE \in BOOLEAN
    BY <1>3 DEF NextLink
  <2>2. QED
    BY <1>3, <2>1, NextEntryEffect DEF OnwardLink
<1>4. QED
  BY <1>2, <1>3

(* An entry that could not be processed is left for the next.              *)
LEMMA ProcessingEffect ==
    ASSUME Typed, NEW s \in Sessions,
           Classify(s) \/ AppendItem(s) \/ AppendItemRaises(s)
               \/ FindLink(s) \/ AppendLink(s) \/ AppendLinkRaises(s)
    PROVE  /\ pc[s] \in Processing /\ OthersStay(s) /\ UNCHANGED <<now, published, checkpoint, config>>
           /\ \/ Ended(s, "failed_write")
              \/ pc'[s] \in Processing \cup {"saving"} /\ SameAnswer(s) /\ result'[s] = result[s]
<1>1. pc[s] \in Processing /\ UNCHANGED <<now, published, checkpoint, config>>
  BY DEF Classify, AppendItem, AppendItemRaises, FindLink, AppendLink, AppendLinkRaises, Processing
<1>2. SessionsOK /\ 1 \in Nat \ {0} /\ TRUE \in BOOLEAN /\ FALSE \in BOOLEAN
  BY DEF Typed
<1>3. work[s].link + 1 \in Nat \ {0}
  BY <1>2 DEF SessionsOK, Work
<1>4. CASE \E clean \in BOOLEAN : NextEntry(s, clean)
  BY <1>1, <1>2, <1>4, NextEntryEffect DEF Onward, Processing
<1>5. CASE NextLink(s, 1) \/ NextLink(s, work[s].link + 1)
  BY <1>1, <1>2, <1>3, <1>5, NextLinkEffect DEF OnwardLink, Onward, Processing
<1>6. CASE PrepareRow(s)
  <2>1. pc'[s] = "appending" /\ OthersStay(s) /\ result' = result
    BY <1>1, <1>2, <1>6 DEF PrepareRow, Goto, OthersStay, SessionsOK
  <2>2. work'[s] = [work[s] EXCEPT !.row = Revised(items, NewItem(s))] /\ work[s] \in Work
    BY <1>2, <1>6 DEF PrepareRow, SessionsOK
  <2>3. SameAnswer(s)
    BY <1>1, <2>2 DEF SameAnswer, Work
  <2>4. QED
    BY <1>1, <2>1, <2>3 DEF Processing
<1>7. CASE Goto(s, "appending_link") /\ UNCHANGED <<work, result>>
  <2>1. pc'[s] = "appending_link" /\ OthersStay(s) /\ SameAnswer(s)
    BY <1>1, <1>2, <1>7 DEF Goto, OthersStay, SameAnswer, SessionsOK
  <2>2. QED
    BY <1>1, <1>7, <2>1 DEF Processing
<1>8. QED
  BY <1>4, <1>5, <1>6, <1>7
  DEF Classify, AppendItem, AppendItemRaises, FindLink, AppendLink, AppendLinkRaises

(* Every other step of a session: to its first entry, or around them.      *)
LEMMA AroundEffect ==
    ASSUME Typed, NEW s \in Sessions,
           Begin(s) \/ SkipDisabled(s) \/ RefuseDamaged(s) \/ Prepare(s) \/ FetchFails(s)
               \/ NotModified(s) \/ RefuseFormat(s) \/ Fetch(s) \/ Save(s) \/ SaveFails(s)
               \/ Reconfigure(s)
    PROVE  OthersStay(s) /\ UNCHANGED files
<1>1. UNCHANGED files
  BY DEF Begin, SkipDisabled, RefuseDamaged, Prepare, FetchFails, NotModified, RefuseFormat, Fetch,
         Save, SaveFails, Reconfigure, files
<1>2. OthersStay(s)
  BY DEF Begin, SkipDisabled, RefuseDamaged, Prepare, FetchFails, NotModified, RefuseFormat, Fetch,
         Save, SaveFails, Reconfigure, Finish, Goto, OthersStay, Typed, SessionsOK
<1>3. QED
  BY <1>1, <1>2

-----------------------------------------------------------------------------
(* Damage.                                                                 *)

(* A refresh that began on a damaged store is refused at its next step.    *)
Halted(s) == pc[s] # "idle" /\ ~work[s].sound => pc[s] = "begun" /\ ~IsSound

(* A damaged store stays damaged.                                          *)
LEMMA DamageStays ==
    ASSUME Typed, [Next]_vars, ~IsSound
    PROVE  ~IsSound'
BY FilesKept DEF IsSound, Keeps

(* The refusal is inductive: a session gets past its start on a sound      *)
(* store only, and remembers that it did.                                  *)
LEMMA HaltedStep ==
    ASSUME Typed, \A s \in Sessions : Halted(s), [Next]_vars
    PROVE  \A s \in Sessions : Halted(s)'
<1> SUFFICES ASSUME NEW t \in Sessions PROVE Halted(t)'
  OBVIOUS
<1>1. CASE pc'[t] = pc[t] /\ work'[t] = work[t]
  BY <1>1, DamageStays DEF Halted
<1>2. CASE Crash
  BY <1>2 DEF Crash, Halted
<1>3. ASSUME NEW s \in Sessions, SessionStep(s) PROVE Halted(t)'
  <2>1. CASE t # s
    BY <1>1, <1>3, <2>1, ProcessingEffect, AroundEffect DEF SessionStep, OthersStay
  <2>2. CASE t = s
    <3>1. CASE Begin(s)
      <4>1. work'[s].sound = (Readable(items) /\ Readable(links)) /\ pc'[s] = "begun"
        BY <3>1 DEF Begin, Goto, Typed, SessionsOK, Work
      <4>2. UNCHANGED files
        BY <3>1 DEF Begin
      <4>3. QED
        BY <2>2, <4>1, <4>2 DEF Halted, IsSound, files
    <3>2. CASE SkipDisabled(s) \/ RefuseDamaged(s) \/ FetchFails(s) \/ RefuseFormat(s) \/ Save(s) \/ SaveFails(s)
      <4>1. pc'[s] = "idle"
        BY <3>2 DEF SkipDisabled, RefuseDamaged, FetchFails, RefuseFormat, Save, SaveFails, Finish, Goto,
                    Typed, SessionsOK
      <4>2. QED
        BY <2>2, <4>1 DEF Halted
    <3>3. CASE Prepare(s)
      <4>1. work'[s].sound = work[s].sound /\ pc'[s] = "fetching" /\ pc[s] = "begun" /\ IsSound
        BY <3>3 DEF Prepare, Goto, Typed, SessionsOK, Work
      <4>2. QED
        BY <2>2, <4>1 DEF Halted
    <3>4. CASE NotModified(s)
      <4>1. PICK tag \in {Served(s), NoTag} : work' = [work EXCEPT ![s] = Unmodified(s, tag)]
        BY <3>4 DEF NotModified, Unmodified
      <4>2. pc[s] = "fetching" /\ work'[s] = Unmodified(s, tag)
        BY <3>4, <4>1 DEF NotModified, Typed, SessionsOK
      <4>3. work'[s].sound = work[s].sound
        BY <4>2, UnmodifiedProperty
      <4>4. QED
        BY <2>2, <4>2, <4>3 DEF Halted
    <3>5. CASE Fetch(s)
      <4> DEFINE at == IF UsableEntries(Served(s)) = {} THEN 0 ELSE FirstAfter(Served(s), 0)
      <4>1. PICK tag \in {Served(s), NoTag} :
               work' = [work EXCEPT ![s] = Learnt(s, tag, Verdict(s, Served(s)), at)]
        BY <3>5 DEF Fetch, Learnt
      <4>2. pc[s] = "fetching" /\ work'[s] = Learnt(s, tag, Verdict(s, Served(s)), at)
        BY <3>5, <4>1 DEF Fetch, Typed, SessionsOK
      <4>3. work'[s].sound = work[s].sound
        BY <4>2 DEF Learnt, Answered, NoWork
      <4>4. QED
        BY <2>2, <4>2, <4>3 DEF Halted
    <3>6. CASE \/ Classify(s) \/ AppendItem(s) \/ AppendItemRaises(s)
               \/ FindLink(s) \/ AppendLink(s) \/ AppendLinkRaises(s)
      <4>1. pc[s] \in Processing /\ (pc'[s] = "idle" \/ work'[s].sound = work[s].sound)
        BY <3>6, ProcessingEffect DEF Ended, SameAnswer
      <4>2. QED
        BY <2>2, <4>1 DEF Halted, Processing
    <3>7. CASE Reconfigure(s)
      <4>1. pc[s] = "idle" /\ pc' = pc
        BY <3>7 DEF Reconfigure
      <4>2. QED
        BY <2>2, <4>1 DEF Halted
    <3>8. QED
      BY <1>3, <3>1, <3>2, <3>3, <3>4, <3>5, <3>6, <3>7 DEF SessionStep
  <2>3. QED
    BY <2>1, <2>2
<1>4. QED
  BY <1>1, <1>2, <1>3 DEF Next, Tick, Publish, vars

(* DamageFreezes: once a line of either file cannot be read, no refresh    *)
(* that begins afterwards changes a byte of the three files, however many  *)
(* sessions there are.                                                     *)
THEOREM DamagedStoreIsFrozen == Spec => DamageFreezes
<1> DEFINE Inv == \A s \in Sessions : Halted(s)
           Frozen == ~(Readable(items) /\ Readable(links)) /\ (\A s \in Sessions : pc[s] # "idle" => ~work[s].sound)
                        => UNCHANGED <<files, checkpoint>>
<1>1. Init => Inv
  BY DEF Init, Halted
<1>2. Typed /\ Inv /\ [Next]_vars => Inv'
  BY HaltedStep
<1>3. Typed /\ Inv /\ [Next]_vars => [Frozen]_vars
  <2>1. SUFFICES ASSUME Typed, Inv, [Next]_vars, ~IsSound, \A s \in Sessions : pc[s] # "idle" => ~work[s].sound
                 PROVE  UNCHANGED <<files, checkpoint>>
    BY DEF IsSound
  <2>2. \A s \in Sessions : pc[s] \in {"idle", "begun"}
    BY <2>1 DEF Halted
  <2>3. CASE UNCHANGED vars
    BY <2>3 DEF vars
  <2>4. CASE Tick \/ \E e \in Endpoints : Publish(e)
    BY <2>4 DEF Tick, Publish
  <2>5. CASE Crash
    BY <2>2, <2>5 DEF Crash
  <2>6. ASSUME NEW s \in Sessions, SessionStep(s) PROVE UNCHANGED <<files, checkpoint>>
    <3>1. Begin(s) \/ SkipDisabled(s) \/ RefuseDamaged(s) \/ Reconfigure(s)
      BY <2>1, <2>2, <2>6
      DEF SessionStep, Prepare, FetchFails, NotModified, RefuseFormat, Fetch,
          Classify, AppendItem, AppendItemRaises, FindLink, AppendLink, AppendLinkRaises, Save, SaveFails
    <3>2. QED
      BY <3>1 DEF Begin, SkipDisabled, RefuseDamaged, Reconfigure
  <2>7. QED
    BY <2>1, <2>3, <2>4, <2>5, <2>6 DEF Next
<1>4. QED
  BY <1>1, <1>2, <1>3, TypedInvariant, PTL DEF Spec, DamageFreezes

-----------------------------------------------------------------------------
(* The store keeps up with the checkpoint and with what is reported.       *)

IsLinkedTo(entry, c, m) ==
    IsLinked(links, [id |-> entry.id, symbol |-> c.symbols[m], vintage |-> Vintage(c)])

(* There is nothing left to write for an entry under a configuration.      *)
Settled(entry, c) ==
    \/ IsConflict(entry)
    \/ IsObserved(entry) /\ \A m \in DOMAIN c.symbols : IsLinkedTo(entry, c, m)

AllSettled(d, c) == \A n \in UsableEntries(d) : Settled(Entries[d][n], c)

SettledBefore(d, k, c) == \A n \in UsableEntries(d) : n < k => Settled(Entries[d][n], c)

Current(s) == Entries[work[s].doc][work[s].at]

(* What the store holds of a session's work: a validator that is sent is   *)
(* for a document that is stored; all entries before the current one are   *)
(* settled unless one failed, and of the current one all links before the  *)
(* current; what is about to be saved, or was reported, is settled.        *)
Progress(s) ==
    /\ pc[s] = "fetching" /\ work[s].request # NoTag => Holds(work[s].request, config[s].endpoint)
    /\ pc[s] \in Processing \cup {"saving"} => work[s].tag \in {work[s].doc, NoTag}
    /\ pc[s] \in Processing /\ work[s].clean => SettledBefore(work[s].doc, work[s].at, config[s])
    /\ pc[s] \in {"linking", "appending_link"} =>
          /\ IsObserved(Current(s))
          /\ \A m \in DOMAIN config[s].symbols : m < work[s].link => IsLinkedTo(Current(s), config[s], m)
    /\ pc[s] = "saving" =>
          IF work[s].outcome = "not_modified" THEN Holds(work[s].doc, config[s].endpoint)
          ELSE AllSettled(work[s].doc, config[s])
    /\ result[s].outcome \in Reported => AllSettled(result[s].doc, result[s].config)

CheckpointHeld == checkpoint.tag # NoTag => Holds(checkpoint.tag, checkpoint.endpoint)

StoreKeepsUp == IsSound => CheckpointHeld /\ \A s \in Sessions : Progress(s)

(* What is stored stays stored, for as long as the store can be read.      *)
LEMMA StoredStays ==
    ASSUME Typed, [Next]_vars, IsSound'
    PROVE  /\ IsSound
           /\ \A e : IsObserved(e) => IsObserved(e)'
           /\ \A e : IsConflict(e) => IsConflict(e)'
           /\ \A e, c, m : IsLinkedTo(e, c, m) => IsLinkedTo(e, c, m)'
<1>1. IsSound /\ Keeps(items, items') /\ Keeps(links, links')
  BY FilesKept DEF IsSound, Keeps
<1>2. \A i \in DOMAIN items.rows : i \in DOMAIN items'.rows /\ items'.rows[i] = items.rows[i]
  BY <1>1 DEF IsSound, Keeps
<1>3. \A i \in DOMAIN links.rows : i \in DOMAIN links'.rows /\ links'.rows[i] = links.rows[i]
  BY <1>1 DEF IsSound, Keeps
<1>4. \A e : IsObserved(e) => IsObserved(e)'
  BY <1>2 DEF IsObserved
<1>5. \A e : IsConflict(e) => IsConflict(e)'
  BY <1>2 DEF IsConflict
<1>6. \A e, c, m : IsLinkedTo(e, c, m) => IsLinkedTo(e, c, m)'
  BY <1>3 DEF IsLinkedTo, IsLinked
<1>7. QED
  BY <1>1, <1>4, <1>5, <1>6

(* So an entry that is settled stays settled, and a document held stays so.*)
LEMMA SettledStays ==
    ASSUME Typed, [Next]_vars, IsSound'
    PROVE  /\ \A e, c : Settled(e, c) => Settled(e, c)'
           /\ \A d, c : AllSettled(d, c) => AllSettled(d, c)'
           /\ \A d, k, c : SettledBefore(d, k, c) => SettledBefore(d, k, c)'
           /\ \A d, endpoint : Holds(d, endpoint) => Holds(d, endpoint)'
<1>1. \A e, c : Settled(e, c) => Settled(e, c)'
  BY StoredStays DEF Settled
<1>2. \A e, endpoint : IsHeld(e, endpoint) => IsHeld(e, endpoint)'
  BY StoredStays DEF IsHeld, IsLinkedTo
<1>3. \A d, c : AllSettled(d, c) => AllSettled(d, c)'
  BY <1>1 DEF AllSettled
<1>4. \A d, k, c : SettledBefore(d, k, c) => SettledBefore(d, k, c)'
  BY <1>1 DEF SettledBefore
<1>5. \A d, endpoint : Holds(d, endpoint) => Holds(d, endpoint)'
  BY <1>2, StoredStays DEF Holds
<1>6. QED
  BY <1>1, <1>3, <1>4, <1>5

(* A document that is settled under a configuration is held for its URL.   *)
LEMMA SettledIsHeld ==
    ASSUME NEW d, NEW c \in Configurations, AllSettled(d, c)
    PROVE  Holds(d, c.endpoint)
BY DEF AllSettled, Settled, Holds, IsHeld, IsLinkedTo

(* A session that does not move is as far as it was.                       *)
LEMMA ProgressFrame ==
    ASSUME Typed, [Next]_vars, IsSound', NEW t \in Sessions, Progress(t),
           pc'[t] = pc[t], work'[t] = work[t], result'[t] = result[t], config'[t] = config[t]
    PROVE  Progress(t)'
<1>1. /\ pc[t] = "fetching" /\ work[t].request # NoTag => Holds(work[t].request, config[t].endpoint)'
      /\ pc[t] \in Processing /\ work[t].clean => SettledBefore(work[t].doc, work[t].at, config[t])'
      /\ pc[t] = "saving" =>
            IF work[t].outcome = "not_modified" THEN Holds(work[t].doc, config[t].endpoint)'
            ELSE AllSettled(work[t].doc, config[t])'
      /\ result[t].outcome \in Reported => AllSettled(result[t].doc, result[t].config)'
  BY SettledStays DEF Progress
<1>2. pc[t] \in {"linking", "appending_link"} =>
         /\ IsObserved(Current(t))'
         /\ \A m \in DOMAIN config[t].symbols : m < work[t].link => IsLinkedTo(Current(t), config[t], m)'
  BY StoredStays DEF Progress, Current
<1>3. QED
  BY <1>1, <1>2 DEF Progress, Current, Processing

(* A refresh that ends without reporting its document has nothing to show. *)
LEMMA EndedProgress ==
    ASSUME NEW s \in Sessions, NEW outcome, Ended(s, outcome), outcome \notin Reported
    PROVE  Progress(s)'
BY DEF Ended, Progress, Processing

(* Going on after an entry keeps the pace, if the entry is settled or the  *)
(* refresh knows that it is not.                                           *)
LEMMA OnwardProgress ==
    ASSUME Typed, [Next]_vars, IsSound', NEW s \in Sessions, pc[s] \in Processing, Progress(s),
           NEW CONSTANT d, d = work[s].doc, NEW CONSTANT at, at = work[s].at,
           NEW CONSTANT c, c = config[s], config'[s] = c,
           NEW clean \in BOOLEAN, clean => Settled(Entries[d][at], c)',
           Onward(s, clean)
    PROVE  Progress(s)'
<1>1. d \in Documents /\ at \in UsableEntries(d) /\ at \in Nat /\ work[s].tag \in {d, NoTag} /\ c \in Configurations
  BY NewItemProperty DEF Typed, Processing, Progress
<1>2. \A n \in UsableEntries(d) : n \in Nat
  BY <1>1, EntryProperty
<1>3. work[s].clean => SettledBefore(d, at, c)'
  BY SettledStays DEF Progress
<1>4. ASSUME NEW CONSTANT r, r = result[s] PROVE r.outcome \in Reported => AllSettled(r.doc, r.config)'
  BY <1>4, SettledStays DEF Progress
<1>5. result'[s] = result[s] => (result[s].outcome \in Reported => AllSettled(result[s].doc, result[s].config))'
  BY <1>4
<1>6. CASE /\ EntriesAfter(d, at) # {} /\ pc'[s] = "classifying" /\ SameAnswer(s) /\ result'[s] = result[s]
           /\ work'[s].at = FirstAfter(d, at) /\ (work'[s].clean <=> work[s].clean /\ clean)
  <2>1. /\ FirstAfter(d, at) \in UsableEntries(d)
        /\ \A n \in UsableEntries(d) : n < FirstAfter(d, at) => n <= at
    BY <1>1, <1>6, FirstAfterProperty
  <2>2. ASSUME work[s].clean, clean, NEW n \in UsableEntries(d), n < FirstAfter(d, at)
        PROVE  Settled(Entries[d][n], c)'
    <3>1. n < at \/ n = at
      BY <1>1, <1>2, <2>1, <2>2
    <3>2. n < at => Settled(Entries[d][n], c)'
      BY <1>3, <2>2 DEF SettledBefore
    <3>3. QED
      BY <2>2, <3>1, <3>2
  <2>3. work'[s].clean => SettledBefore(d, FirstAfter(d, at), c)'
    BY <1>6, <2>2 DEF SettledBefore
  <2>4. work'[s].doc = d /\ work'[s].tag \in {d, NoTag} /\ config'[s] = c
    BY <1>1, <1>6 DEF SameAnswer
  <2>5. QED
    BY <1>5, <1>6, <2>3, <2>4 DEF Progress, Processing
<1>7. CASE /\ EntriesAfter(d, at) = {} /\ pc'[s] = "saving" /\ SameAnswer(s) /\ result'[s] = result[s]
           /\ work[s].clean /\ clean
  <2>1. ASSUME NEW n \in UsableEntries(d) PROVE Settled(Entries[d][n], c)'
    <3>1. n < at \/ n = at
      <4>1. ~(n > at)
        BY <1>7 DEF EntriesAfter
      <4>2. n \in Nat /\ at \in Nat
        BY <1>1, <1>2
      <4>3. QED
        BY <4>1, <4>2
    <3>2. n < at => Settled(Entries[d][n], c)'
      BY <1>3, <1>7 DEF SettledBefore
    <3>3. QED
      BY <1>7, <3>1, <3>2
  <2>2. AllSettled(d, c)'
    BY <2>1 DEF AllSettled
  <2>3. Holds(d, c.endpoint)'
    BY <1>1, <2>2 DEF AllSettled, Settled, Holds, IsHeld, IsLinkedTo
  <2>4. work'[s].doc = d /\ work'[s].tag \in {d, NoTag} /\ config'[s] = c
    BY <1>1, <1>7 DEF SameAnswer
  <2>5. QED
    BY <1>5, <1>7, <2>2, <2>3, <2>4 DEF Progress, Processing
<1>8. CASE Ended(s, "failed_write")
  BY <1>8, EndedProgress DEF Reported
<1>9. QED
  BY <1>6, <1>7, <1>8 DEF Onward

(* Going on to a symbol keeps the pace, if the entry is observed and linked*)
(* to every symbol before.                                                 *)
LEMMA OnwardLinkProgress ==
    ASSUME Typed, [Next]_vars, IsSound', NEW s \in Sessions, pc[s] \in Processing, Progress(s),
           NEW CONSTANT d, d = work[s].doc, NEW CONSTANT at, at = work[s].at,
           NEW CONSTANT c, c = config[s], config'[s] = c,
           NEW n \in Nat \ {0}, IsObserved(Entries[d][at])',
           \A m \in DOMAIN c.symbols : m < n => IsLinkedTo(Entries[d][at], c, m)',
           OnwardLink(s, n)
    PROVE  Progress(s)'
<1>1. work[s].tag \in {d, NoTag} /\ c \in Configurations
  BY NewItemProperty DEF Typed, Processing, Progress
<1>2. ASSUME NEW CONSTANT r, r = result[s] PROVE r.outcome \in Reported => AllSettled(r.doc, r.config)'
  BY <1>2, SettledStays DEF Progress
<1>3. CASE /\ pc'[s] = "linking" /\ SameAnswer(s) /\ result'[s] = result[s]
           /\ work'[s].at = work[s].at /\ work'[s].link = n /\ (work'[s].clean <=> work[s].clean)
  <2>1. work[s].clean => SettledBefore(d, at, c)'
    BY SettledStays DEF Progress
  <2>2. work'[s].doc = d /\ work'[s].at = at /\ work'[s].tag \in {d, NoTag} /\ config'[s] = c
    BY <1>1, <1>3 DEF SameAnswer
  <2>3. (result[s].outcome \in Reported => AllSettled(result[s].doc, result[s].config))'
    BY <1>2, <1>3
  <2>4. QED
    BY <1>3, <2>1, <2>2, <2>3 DEF Progress, Processing, Current
<1>4. CASE ~(n <= Len(c.symbols)) /\ Onward(s, TRUE)
  <2>1. \A m \in DOMAIN c.symbols : m < n
    BY <1>1, <1>4, SymbolsProperty
  <2>2. Settled(Entries[d][at], c)'
    BY <2>1 DEF Settled
  <2>3. TRUE \in BOOLEAN
    OBVIOUS
  <2>4. QED
    BY <1>4, <2>2, <2>3, OnwardProgress
<1>5. QED
  BY <1>3, <1>4 DEF OnwardLink

(* Nothing is settled by being classified but what is stored already: a    *)
(* conflict is one for good, and a duplicate is observed.                  *)
LEMMA ClassifiedProperty ==
    ASSUME Typed, NEW s \in Sessions, pc[s] \in Processing
    PROVE  /\ Classified(items, NewItem(s)) = "conflict" => IsConflict(Current(s))
           /\ Classified(items, NewItem(s)) = "duplicate" => IsObserved(Current(s))
<1> DEFINE item == NewItem(s)
<1>1. item.id = Current(s).id /\ item.host = Current(s).host /\ item.text = Current(s).text
  BY NewItemProperty DEF Typed, Processing, Current
<1>2. ASSUME item.id \in Ids(items)
      PROVE  \E i \in DOMAIN items.rows : items.rows[i].id = item.id /\ Latest(items, item.id) = items.rows[i]
  BY <1>2, LatestProperty DEF Typed, WorldOK, RowsOf
<1>3. ASSUME Classified(items, item) = "conflict" PROVE IsConflict(Current(s))
  <2>1. item.id \in Ids(items) /\ Latest(items, item.id).host # item.host
    BY <1>3 DEF Classified
  <2>2. QED
    BY <1>1, <1>2, <2>1 DEF IsConflict
<1>4. ASSUME Classified(items, item) = "duplicate" PROVE IsObserved(Current(s))
  <2>1. item.id \in Ids(items) /\ Latest(items, item.id).host = item.host /\ Latest(items, item.id).text = item.text
    BY <1>4 DEF Classified, SameContent
  <2>2. QED
    BY <1>1, <1>2, <2>1 DEF IsObserved
<1>5. QED
  BY <1>3, <1>4

(* One entry, whatever is done with it.                                    *)
LEMMA ProcessingProgress ==
    ASSUME Typed, IsSound', NEW s \in Sessions, StoreKeepsUp,
           Classify(s) \/ AppendItem(s) \/ AppendItemRaises(s)
               \/ FindLink(s) \/ AppendLink(s) \/ AppendLinkRaises(s)
    PROVE  Progress(s)'
<1>1. [Next]_vars
  BY DEF Next, SessionStep
<1>2. IsSound /\ Progress(s)
  BY <1>1, StoredStays DEF StoreKeepsUp
<1>3. pc[s] \in Processing /\ config' = config /\ SessionsOK
  BY ProcessingEffect DEF Typed
<1>4. PICK d, at, c : d = work[s].doc /\ at = work[s].at /\ c = config[s]
  OBVIOUS
<1>5. Current(s) = Entries[d][at] /\ config'[s] = c /\ c \in Configurations
  BY <1>3, <1>4 DEF Current, SessionsOK
<1>6. TRUE \in BOOLEAN /\ FALSE \in BOOLEAN /\ 1 \in Nat \ {0} /\ work[s].link + 1 \in Nat \ {0} /\ work[s].link \in Nat
  BY <1>3 DEF SessionsOK, Work
<1>7. CASE NextEntry(s, FALSE)
  <2>1. Onward(s, FALSE)
    BY <1>3, <1>6, <1>7, NextEntryEffect
  <2>2. QED
    BY <1>1, <1>2, <1>3, <1>4, <1>5, <1>6, <2>1, OnwardProgress
<1>8. CASE Classify(s) /\ ~NextEntry(s, FALSE)
  <2>1. CASE Classified(items, NewItem(s)) = "conflict" /\ NextEntry(s, TRUE)
    <3>1. Settled(Entries[d][at], c)'
      BY <1>1, <1>3, <1>5, <2>1, ClassifiedProperty, StoredStays DEF Settled
    <3>2. Onward(s, TRUE)
      BY <1>3, <1>6, <2>1, NextEntryEffect
    <3>3. QED
      BY <1>1, <1>2, <1>3, <1>4, <1>5, <1>6, <3>1, <3>2, OnwardProgress
  <2>2. CASE Classified(items, NewItem(s)) = "duplicate" /\ NextLink(s, 1)
    <3>1. IsObserved(Entries[d][at])'
      BY <1>1, <1>3, <1>5, <2>2, ClassifiedProperty, StoredStays
    <3>2. OnwardLink(s, 1)
      BY <1>3, <1>6, <2>2, NextLinkEffect
    <3>3. \A m \in DOMAIN c.symbols : ~(m < 1)
      BY <1>5, SymbolsProperty
    <3>4. QED
      BY <1>1, <1>2, <1>3, <1>4, <1>5, <1>6, <3>1, <3>2, <3>3, OnwardLinkProgress
  <2>3. CASE PrepareRow(s)
    <3>1. pc'[s] = "appending" /\ result'[s] = result[s]
      BY <1>3, <2>3 DEF PrepareRow, Goto, SessionsOK
    <3>2. work'[s] = [work[s] EXCEPT !.row = Revised(items, NewItem(s))] /\ work[s] \in Work
      BY <1>3, <2>3 DEF PrepareRow, SessionsOK
    <3>3. work'[s].doc = d /\ work'[s].at = at /\ work'[s].tag = work[s].tag /\ work'[s].clean = work[s].clean
      BY <1>4, <3>2 DEF Work
    <3>4. work[s].clean => SettledBefore(d, at, c)'
      BY <1>1, <1>2, <1>3, <1>4, SettledStays DEF Progress
    <3>5. ASSUME NEW CONSTANT r, r = result[s] PROVE r.outcome \in Reported => AllSettled(r.doc, r.config)'
      BY <1>1, <1>2, <3>5, SettledStays DEF Progress
    <3>6. result'[s].outcome \in Reported => AllSettled(result[s].doc, result[s].config)'
      BY <3>1, <3>5
    <3>7. work[s].tag \in {d, NoTag}
      BY <1>2, <1>3, <1>4 DEF Progress
    <3>8. QED
      BY <1>5, <3>1, <3>3, <3>4, <3>6, <3>7 DEF Progress, Processing
  <2>4. QED
    BY <1>2, <1>8, <2>1, <2>2, <2>3 DEF Classify, IsClassified, IsSound, Classified
<1>9. CASE AppendItem(s)
  <2>1. /\ work[s].row \in ItemRow /\ work[s].row.id = Entries[d][at].id
        /\ work[s].row.host = Entries[d][at].host /\ work[s].row.text = Entries[d][at].text
    BY <1>3, <1>4, <1>9 DEF SessionsOK, Position, AppendItem
  <2>2. items' = Appended(items, work[s].row) /\ items \in File(ItemRow) /\ NextLink(s, 1)
    BY <1>9 DEF AppendItem, Typed, WorldOK
  <2>3. items'.rows = Append(items.rows, work[s].row)
    BY <2>1, <2>2, AppendProperty DEF IsSound
  <2>4. items.rows \in Seq(ItemRow)
    BY <2>2 DEF File
  <2>5. /\ Len(items.rows) + 1 \in DOMAIN items'.rows
        /\ items'.rows[Len(items.rows) + 1] = work[s].row
    BY <2>1, <2>3, <2>4
  <2>6. IsObserved(Entries[d][at])'
    BY <2>1, <2>5 DEF IsObserved
  <2>7. OnwardLink(s, 1)
    BY <1>3, <1>6, <2>2, NextLinkEffect
  <2>8. \A m \in DOMAIN c.symbols : ~(m < 1)
    BY <1>5, SymbolsProperty
  <2>9. QED
    BY <1>1, <1>2, <1>3, <1>4, <1>5, <1>6, <2>6, <2>7, <2>8, OnwardLinkProgress
<1>10. ASSUME pc[s] \in {"linking", "appending_link"}, NextLink(s, work[s].link + 1),
              NEW CONSTANT k, k = work[s].link, IsLinkedTo(Entries[d][at], c, k)'
       PROVE  Progress(s)'
  <2>1. /\ IsObserved(Entries[d][at])
        /\ \A m \in DOMAIN c.symbols : m < k => IsLinkedTo(Entries[d][at], c, m)
    BY <1>2, <1>4, <1>5, <1>10 DEF Progress
  <2>2. IsObserved(Entries[d][at])'
    BY <1>1, <2>1, StoredStays
  <2>3. \A m \in DOMAIN c.symbols : m < k => IsLinkedTo(Entries[d][at], c, m)'
    BY <1>1, <2>1, StoredStays
  <2>4. \A m \in DOMAIN c.symbols : m < k + 1 => m < k \/ m = k
    BY <1>5, <1>6, <1>10, SymbolsProperty
  <2>5. \A m \in DOMAIN c.symbols : m < k + 1 => IsLinkedTo(Entries[d][at], c, m)'
    BY <1>10, <2>3, <2>4
  <2>6. OnwardLink(s, k + 1)
    BY <1>3, <1>6, <1>10, NextLinkEffect
  <2>7. k + 1 \in Nat \ {0}
    BY <1>6, <1>10
  <2>8. QED
    BY <1>1, <1>2, <1>3, <1>4, <1>5, <2>2, <2>5, <2>6, <2>7, OnwardLinkProgress
<1>11. ASSUME pc[s] \in {"linking", "appending_link"}
       PROVE  NewLink(s) = [id |-> Entries[d][at].id, symbol |-> c.symbols[work[s].link], vintage |-> Vintage(c)]
  BY <1>3, <1>4, <1>11, NewLinkProperty
<1>12. CASE FindLink(s) /\ ~NextEntry(s, FALSE)
  <2>1. PICK k : k = work[s].link
    OBVIOUS
  <2>2. pc[s] = "linking" /\ IsSound /\ UNCHANGED files
    BY <1>2, <1>12 DEF FindLink
  <2>3. CASE IsLinked(links, NewLink(s)) /\ NextLink(s, work[s].link + 1)
    <3>1. IsLinkedTo(Entries[d][at], c, k)
      BY <1>11, <2>1, <2>2, <2>3 DEF IsLinkedTo
    <3>2. IsLinkedTo(Entries[d][at], c, k)'
      BY <1>1, <3>1, StoredStays
    <3>3. QED
      BY <1>10, <2>1, <2>2, <2>3, <3>2
  <2>4. CASE Goto(s, "appending_link") /\ UNCHANGED <<work, result>>
    <3>1. pc'[s] = "appending_link"
      BY <1>3, <2>4 DEF Goto, SessionsOK
    <3>2. /\ IsObserved(Entries[d][at])
          /\ \A m \in DOMAIN c.symbols : m < k => IsLinkedTo(Entries[d][at], c, m)
      BY <1>2, <1>4, <1>5, <2>1, <2>2 DEF Progress
    <3>3. /\ IsObserved(Entries[d][at])'
          /\ \A m \in DOMAIN c.symbols : m < k => IsLinkedTo(Entries[d][at], c, m)'
      BY <1>1, <3>2, StoredStays
    <3>4. work[s].clean => SettledBefore(d, at, c)'
      BY <1>1, <1>2, <1>3, <1>4, SettledStays DEF Progress
    <3>5. ASSUME NEW CONSTANT r, r = result[s] PROVE r.outcome \in Reported => AllSettled(r.doc, r.config)'
      BY <1>1, <1>2, <3>5, SettledStays DEF Progress
    <3>6. result'[s].outcome \in Reported => AllSettled(result[s].doc, result[s].config)'
      BY <2>4, <3>5
    <3>7. work[s].tag \in {d, NoTag}
      BY <1>2, <1>3, <1>4 DEF Progress
    <3>8. work'[s].doc = d /\ work'[s].at = at /\ work'[s].link = k /\ work'[s].clean = work[s].clean
          /\ work'[s].tag = work[s].tag
      BY <1>4, <2>1, <2>4
    <3>9. QED
      BY <1>5, <3>1, <3>3, <3>4, <3>6, <3>7, <3>8 DEF Progress, Processing, Current
  <2>5. QED
    BY <1>12, <2>2, <2>3, <2>4 DEF FindLink, IsSound
<1>13. CASE AppendLink(s)
  <2>1. PICK k : k = work[s].link
    OBVIOUS
  <2>2. /\ pc[s] = "appending_link" /\ links' = Appended(links, NewLink(s))
        /\ NextLink(s, work[s].link + 1) /\ links \in File(LinkRow)
    BY <1>13 DEF AppendLink, Typed, WorldOK
  <2>3. NewLink(s) \in LinkRow
    BY <1>3, <2>2, NewLinkProperty
  <2>4. links'.rows = Append(links.rows, NewLink(s))
    BY <2>2, <2>3, AppendProperty DEF IsSound
  <2>5. links.rows \in Seq(LinkRow)
    BY <2>2 DEF File
  <2>6. Len(links.rows) + 1 \in DOMAIN links'.rows /\ links'.rows[Len(links.rows) + 1] = NewLink(s)
    BY <2>3, <2>4, <2>5
  <2>7. IsLinkedTo(Entries[d][at], c, k)'
    BY <1>11, <2>1, <2>2, <2>6 DEF IsLinkedTo, IsLinked
  <2>8. QED
    BY <1>10, <2>1, <2>2, <2>7
<1>14. QED
  BY <1>7, <1>8, <1>9, <1>12, <1>13 DEF AppendItemRaises, AppendLinkRaises

(* Before the entries and after them.                                      *)
LEMMA AroundProgress ==
    ASSUME Typed, IsSound', NEW s \in Sessions, StoreKeepsUp,
           Begin(s) \/ SkipDisabled(s) \/ RefuseDamaged(s) \/ Prepare(s) \/ FetchFails(s)
               \/ NotModified(s) \/ RefuseFormat(s) \/ Fetch(s) \/ Save(s) \/ SaveFails(s)
               \/ Reconfigure(s)
    PROVE  Progress(s)' /\ CheckpointHeld'
<1>1. [Next]_vars /\ UNCHANGED files /\ SessionsOK
  BY AroundEffect DEF Next, SessionStep, Typed
<1>2. IsSound /\ Progress(s) /\ CheckpointHeld
  BY <1>1, StoredStays DEF StoreKeepsUp
<1>3. ASSUME NEW CONSTANT r, r = result[s] PROVE r.outcome \in Reported => AllSettled(r.doc, r.config)'
  BY <1>1, <1>2, <1>3, SettledStays DEF Progress
<1>4. result'[s] = result[s] => (result'[s].outcome \in Reported => AllSettled(result[s].doc, result[s].config)')
  BY <1>3
<1>5. ASSUME checkpoint' = checkpoint PROVE CheckpointHeld'
  <2>1. ASSUME NEW CONSTANT p, p = checkpoint PROVE p.tag # NoTag => Holds(p.tag, p.endpoint)'
    BY <1>1, <1>2, <2>1, SettledStays DEF CheckpointHeld
  <2>2. QED
    BY <1>5, <2>1 DEF CheckpointHeld
<1>6. CASE Begin(s)
  <2>1. pc'[s] = "begun" /\ result' = result /\ checkpoint' = checkpoint
    BY <1>1, <1>6 DEF Begin, Goto, SessionsOK
  <2>2. QED
    BY <1>4, <1>5, <2>1 DEF Progress, Processing
<1>7. CASE SkipDisabled(s) \/ RefuseDamaged(s) \/ FetchFails(s) \/ RefuseFormat(s)
  <2>1. PICK outcome \in {"unconfigured", "storage_corruption", "failed", "unsupported"} : Finish(s, outcome)
    BY <1>7 DEF SkipDisabled, RefuseDamaged, FetchFails, RefuseFormat
  <2>2. config' = config /\ checkpoint' = checkpoint /\ outcome \notin Reported
    BY <1>7 DEF SkipDisabled, RefuseDamaged, FetchFails, RefuseFormat, Reported
  <2>3. QED
    BY <1>1, <1>5, <2>1, <2>2, FinishEffect, EndedProgress
<1>8. CASE Prepare(s)
  <2>1. /\ pc'[s] = "fetching" /\ result' = result /\ config' = config /\ checkpoint' = checkpoint
        /\ work'[s].request = Validator(config[s].endpoint)
    BY <1>1, <1>8 DEF Prepare, Goto, SessionsOK, Work
  <2>2. ASSUME NEW CONSTANT d, d = work'[s].request, d # NoTag, NEW CONSTANT e, e = config[s].endpoint
        PROVE  Holds(d, e)'
    <3>1. d = checkpoint.tag /\ e = checkpoint.endpoint
      BY <2>1, <2>2 DEF Validator
    <3>2. Holds(d, e)
      BY <1>2, <2>2, <3>1 DEF CheckpointHeld
    <3>3. QED
      BY <1>1, <3>2, SettledStays
  <2>3. QED
    BY <1>4, <1>5, <2>1, <2>2 DEF Progress, Processing
<1>9. CASE NotModified(s)
  <2>1. PICK tag \in {Served(s), NoTag} : work' = [work EXCEPT ![s] = Unmodified(s, tag)]
    BY <1>9 DEF NotModified, Unmodified
  <2>2. /\ pc[s] = "fetching" /\ pc'[s] = "saving" /\ result' = result /\ config' = config
        /\ checkpoint' = checkpoint /\ work[s].request = Served(s)
    BY <1>1, <1>9 DEF NotModified, Goto, SessionsOK
  <2>3. work'[s] = Unmodified(s, tag)
    BY <1>1, <2>1 DEF SessionsOK
  <2>4. /\ Served(s) \in Documents /\ work'[s].doc = Served(s)
        /\ work'[s].tag = tag /\ work'[s].outcome = "not_modified"
    BY <2>2, <2>3, UnmodifiedProperty
  <2>5. ASSUME NEW CONSTANT d, d = Served(s), NEW CONSTANT e, e = config[s].endpoint PROVE Holds(d, e)'
    <3>1. Holds(d, e)
      BY <1>2, <2>2, <2>4, <2>5, FeedAssumption DEF Progress
    <3>2. QED
      BY <1>1, <3>1, SettledStays
  <2>6. Holds(work[s].doc, config[s].endpoint)'
    BY <2>2, <2>4, <2>5
  <2>7. QED
    BY <1>4, <1>5, <2>1, <2>2, <2>4, <2>6 DEF Progress, Processing
<1>10. CASE Fetch(s)
  <2> DEFINE first == IF UsableEntries(Served(s)) = {} THEN 0 ELSE FirstAfter(Served(s), 0)
  <2>1. PICK tag \in {Served(s), NoTag} :
           work' = [work EXCEPT ![s] = Learnt(s, tag, Verdict(s, Served(s)), first)]
    BY <1>10 DEF Fetch, Learnt
  <2>2. /\ pc[s] = "fetching" /\ result' = result /\ config' = config /\ checkpoint' = checkpoint
        /\ pc'[s] = (IF UsableEntries(Served(s)) = {} THEN "saving" ELSE "classifying")
    BY <1>1, <1>10 DEF Fetch, Goto, SessionsOK
  <2>3. work'[s] = Learnt(s, tag, Verdict(s, Served(s)), first)
    BY <1>1, <2>1 DEF SessionsOK
  <2>4. Verdict(s, Served(s)) \in Verdicts /\ Verdict(s, Served(s)) # "not_modified"
    BY DEF Verdict, Verdicts, Healthy
  <2>5. Served(s) \in Documents
    BY <2>2, <2>4, LearntProperty
  <2>6. /\ first \in Nat
        /\ UsableEntries(Served(s)) # {} => \A k \in UsableEntries(Served(s)) : k >= first
    BY <2>5, FirstProperty
  <2> HIDE DEF first
  <2>7. /\ work'[s].doc = Served(s) /\ work'[s].tag = tag /\ work'[s].at = first
        /\ work'[s].outcome # "not_modified"
    BY <2>2, <2>3, <2>4, <2>6, LearntProperty
  <2>8. \A k \in UsableEntries(Served(s)) : ~(k < first)
    <3>1. \A k \in UsableEntries(Served(s)) : k \in Nat /\ k >= first
      BY <2>5, <2>6, EntryProperty
    <3>2. QED
      BY <2>6, <3>1
  <2>9. CASE UsableEntries(Served(s)) = {}
    <3>1. AllSettled(work[s].doc, config[s])'
      BY <2>7, <2>9 DEF AllSettled
    <3>2. QED
      BY <1>4, <1>5, <2>1, <2>2, <2>7, <2>9, <3>1 DEF Progress, Processing
  <2>10. CASE UsableEntries(Served(s)) # {}
    <3>1. SettledBefore(work[s].doc, work[s].at, config[s])'
      BY <2>7, <2>8 DEF SettledBefore
    <3>2. QED
      BY <1>4, <1>5, <2>1, <2>2, <2>7, <2>10, <3>1 DEF Progress, Processing
  <2>11. QED
    BY <2>9, <2>10
<1>11. CASE Save(s) \/ SaveFails(s)
  <2>1. /\ pc[s] = "saving" /\ config' = config /\ Finish(s, work[s].outcome)
        /\ \/ checkpoint' = checkpoint
           \/ checkpoint' = [endpoint |-> config[s].endpoint, tag |-> work[s].tag]
    BY <1>11 DEF Save, SaveFails
  <2>2. Ended(s, work[s].outcome)
    BY <1>1, <2>1, FinishEffect
  <2>3. PICK d, c : d = work[s].doc /\ c = config[s]
    OBVIOUS
  <2>4. c \in Configurations /\ work[s].tag \in {d, NoTag}
    BY <1>1, <1>2, <2>1, <2>3 DEF SessionsOK, Progress
  <2>5. work[s].outcome # "not_modified" => AllSettled(d, c)'
    BY <1>1, <1>2, <2>1, <2>3, SettledStays DEF Progress
  <2>6. Holds(d, c.endpoint)'
    <3>1. Holds(d, c.endpoint)
      BY <1>2, <2>1, <2>3, <2>4, SettledIsHeld DEF Progress
    <3>2. QED
      BY <1>1, <3>1, SettledStays
  <2>7. Progress(s)'
    BY <2>2, <2>3, <2>5 DEF Ended, Progress, Processing, Reported
  <2>8. CheckpointHeld'
    BY <1>5, <2>1, <2>3, <2>4, <2>6 DEF CheckpointHeld
  <2>9. QED
    BY <2>7, <2>8
<1>12. CASE Reconfigure(s)
  <2>1. pc'[s] = "idle" /\ checkpoint' = checkpoint /\ result'[s] = NoResult
    BY <1>1, <1>12 DEF Reconfigure, SessionsOK
  <2>2. QED
    BY <1>5, <2>1 DEF Progress, Processing, NoResult, Reported
<1>13. QED
  BY <1>6, <1>7, <1>8, <1>9, <1>10, <1>11, <1>12

(* The store keeps up, whatever the sessions, the publishers and the faults*)
(* do.                                                                     *)
LEMMA StoreKeepsUpStep ==
    ASSUME Typed, StoreKeepsUp, [Next]_vars
    PROVE  StoreKeepsUp'
<1> SUFFICES ASSUME IsSound' PROVE CheckpointHeld' /\ \A t \in Sessions : Progress(t)'
  BY DEF StoreKeepsUp
<1>1. IsSound /\ CheckpointHeld /\ \A t \in Sessions : Progress(t)
  BY StoredStays DEF StoreKeepsUp
<1>2. ASSUME checkpoint' = checkpoint PROVE CheckpointHeld'
  <2>1. ASSUME NEW CONSTANT p, p = checkpoint PROVE p.tag # NoTag => Holds(p.tag, p.endpoint)'
    BY <1>1, <2>1, SettledStays DEF CheckpointHeld
  <2>2. QED
    BY <1>2, <2>1 DEF CheckpointHeld
<1>3. CASE UNCHANGED vars \/ Tick \/ \E e \in Endpoints : Publish(e)
  <2>1. UNCHANGED <<pc, work, result, config, checkpoint>>
    BY <1>3 DEF vars, Tick, Publish
  <2>2. QED
    BY <1>1, <1>2, <2>1, ProgressFrame
<1>4. CASE Crash
  <2>1. checkpoint' = checkpoint /\ \A t \in Sessions : pc'[t] = "idle" /\ result'[t] = NoResult
    BY <1>4 DEF Crash
  <2>2. NoResult.outcome \notin Reported
    BY DEF NoResult, Reported
  <2>3. ASSUME NEW t \in Sessions PROVE Progress(t)'
    BY <2>1, <2>2 DEF Progress, Processing
  <2>4. CheckpointHeld'
    BY <1>2, <2>1
  <2>5. QED
    BY <2>3, <2>4
<1>5. ASSUME NEW s \in Sessions, SessionStep(s) PROVE CheckpointHeld' /\ \A t \in Sessions : Progress(t)'
  <2>1. OthersStay(s)
    BY <1>5, ProcessingEffect, AroundEffect DEF SessionStep
  <2>2. ASSUME NEW t \in Sessions \ {s} PROVE Progress(t)'
    BY <1>1, <2>1, ProgressFrame DEF OthersStay
  <2>3. Progress(s)' /\ CheckpointHeld'
    BY <1>2, <1>5, ProcessingEffect, ProcessingProgress, AroundProgress DEF SessionStep
  <2>4. QED
    BY <2>2, <2>3
<1>6. QED
  BY <1>3, <1>4, <1>5 DEF Next

(* The store has kept up in every state.                                   *)
LEMMA StoreKeepsUpInvariant == Spec => []StoreKeepsUp
<1>1. Init => StoreKeepsUp
  BY DEF Init, StoreKeepsUp, CheckpointHeld, NoCheckpoint, Progress, Processing, NoResult, Reported
<1>2. Typed /\ StoreKeepsUp /\ [Next]_vars => StoreKeepsUp'
  BY StoreKeepsUpStep
<1>3. QED
  BY <1>1, <1>2, TypedInvariant, PTL DEF Spec

(* CheckpointNeverAhead: what the saved validators would answer with 304   *)
(* is stored with its links, for any sessions, faults, deaths and edits.   *)
THEOREM CheckpointIsBehindStore == Spec => []CheckpointNeverAhead
<1>1. StoreKeepsUp => CheckpointNeverAhead
  BY DEF StoreKeepsUp, CheckpointHeld, CheckpointNeverAhead, IsSound
<1>2. QED
  BY <1>1, StoreKeepsUpInvariant, PTL

(* HealthyMeansStored: a refresh that reports its document as processed    *)
(* has stored and linked every entry that is not a conflict.               *)
THEOREM ReportedIsStored == Spec => []HealthyMeansStored
<1>1. StoreKeepsUp => HealthyMeansStored
  <2>1. SUFFICES ASSUME StoreKeepsUp, IsSound, NEW s \in Sessions, result[s].outcome \in Reported,
                        NEW n \in UsableEntries(result[s].doc), ~IsConflict(Entries[result[s].doc][n])
                 PROVE  /\ IsObserved(Entries[result[s].doc][n])
                        /\ {result[s].config.symbols[m] : m \in DOMAIN result[s].config.symbols}
                               \subseteq SymbolsFor(links, Entries[result[s].doc][n].id)
    BY DEF HealthyMeansStored, IsSound
  <2>2. Settled(Entries[result[s].doc][n], result[s].config)
    BY <2>1 DEF StoreKeepsUp, Progress, AllSettled
  <2>3. IsObserved(Entries[result[s].doc][n])
    BY <2>1, <2>2 DEF Settled
  <2>4. ASSUME NEW m \in DOMAIN result[s].config.symbols
        PROVE  result[s].config.symbols[m] \in SymbolsFor(links, Entries[result[s].doc][n].id)
    <3>1. IsLinkedTo(Entries[result[s].doc][n], result[s].config, m)
      BY <2>1, <2>2, <2>4 DEF Settled
    <3>2. PICK i \in DOMAIN links.rows :
             links.rows[i] = [id |-> Entries[result[s].doc][n].id, symbol |-> result[s].config.symbols[m],
                              vintage |-> Vintage(result[s].config)]
      BY <3>1 DEF IsLinkedTo, IsLinked
    <3>3. links.rows[i].id = Entries[result[s].doc][n].id /\ links.rows[i].symbol = result[s].config.symbols[m]
      BY <3>2
    <3>4. QED
      BY <3>3 DEF SymbolsFor
  <2>5. QED
    BY <2>3, <2>4
<1>2. QED
  BY <1>1, StoreKeepsUpInvariant, PTL

-----------------------------------------------------------------------------
(* One history per item.                                                   *)

(* The rows of an item rise, on one host, in the order of the file.        *)
Rising(file) ==
    \A i, j \in DOMAIN file.rows :
        i < j /\ file.rows[i].id = file.rows[j].id =>
            file.rows[i].revision < file.rows[j].revision /\ file.rows[i].host = file.rows[j].host

(* The row at i is the one before that at j, of the same item.             *)
Precedes(file, i, j) ==
    /\ file.rows[i].id = file.rows[j].id
    /\ i < j
    /\ \A k \in i + 1 .. j - 1 : file.rows[k].id # file.rows[i].id

(* Every row is the first of its item or revises the one before it.        *)
Traced(file) ==
    \A j \in DOMAIN file.rows :
        \/ file.rows[j].revision = 1 /\ \A i \in 1 .. j - 1 : file.rows[i].id # file.rows[j].id
        \/ \E i \in 1 .. j - 1 :
              /\ Precedes(file, i, j)
              /\ file.rows[j].revision = file.rows[i].revision + 1
              /\ file.rows[j].host = file.rows[i].host
              /\ ~SameContent(file.rows[i], file.rows[j])

NoRowTwice(file) == \A i, j \in DOMAIN file.rows : file.rows[i] = file.rows[j] => i = j

IsFresh(file, item) == Classified(file, item) \in {"accepted", "revision"}

(* The latest row of an item whose rows rise is its last one.              *)
LEMMA LatestIsLast ==
    ASSUME NEW file \in File(ItemRow), Rising(file), NEW id \in Ids(file)
    PROVE  \E i \in RowsOf(file, id) : /\ Latest(file, id) = file.rows[i]
                                       /\ \A k \in RowsOf(file, id) : k <= i
<1>1. PICK i \in RowsOf(file, id) : IsHighest(file, RowsOf(file, id), i) /\ Latest(file, id) = file.rows[i]
  BY LatestProperty
<1>2. \A k \in RowsOf(file, id) : /\ k \in DOMAIN file.rows /\ file.rows[k].id = id
                                  /\ k \in Nat /\ file.rows[k].revision \in Nat
  <2>1. \A k \in RowsOf(file, id) : k \in DOMAIN file.rows /\ file.rows[k].id = id
    BY DEF RowsOf
  <2>2. \A k \in RowsOf(file, id) : k \in Nat /\ file.rows[k] \in ItemRow
    BY <2>1, RowsProperty
  <2>3. QED
    BY <2>1, <2>2 DEF ItemRow
<1>3. ASSUME NEW k \in RowsOf(file, id) PROVE k <= i
  <2>1. i < k => file.rows[i].revision < file.rows[k].revision
    BY <1>2 DEF Rising
  <2>2. file.rows[k].revision < file.rows[i].revision \/ file.rows[k].revision = file.rows[i].revision
    BY <1>1 DEF IsHighest
  <2>3. QED
    BY <1>2, <2>1, <2>2
<1>4. QED
  BY <1>1, <1>3

(* A revised item that was fresh when it was compared continues the        *)
(* history it was compared with.                                           *)
LEMMA HistoryAppend ==
    ASSUME NEW f \in File(ItemRow), Rising(f), Traced(f),
           NEW item \in ItemRow, item.revision = 1, IsFresh(f, item),
           NEW g \in File(ItemRow), g.rows = Append(f.rows, Revised(f, item))
    PROVE  Rising(g) /\ Traced(g)
<1> DEFINE row == Revised(f, item)
           n == Len(f.rows)
<1>1. /\ n \in Nat /\ DOMAIN f.rows = 1 .. n /\ DOMAIN g.rows = 1 .. n + 1
      /\ g.rows[n + 1] = row /\ \A i \in 1 .. n : g.rows[i] = f.rows[i]
  <2>1. f.rows \in Seq(ItemRow)
    BY DEF File
  <2>2. QED
    BY <2>1
<1>2. \A i \in 1 .. n : f.rows[i] \in ItemRow
  BY <1>1, RowsProperty
<1>3. \A i \in 1 .. n : f.rows[i].revision \in Nat
  BY <1>2 DEF ItemRow
<1>4. /\ row.id = item.id /\ row.host = item.host /\ row.text = item.text /\ row.stamp = item.stamp
  <2>1. PICK m \in Nat \ {0} : row = [item EXCEPT !.revision = m]
    BY RevisedProperty
  <2>2. QED
    BY <2>1 DEF ItemRow
<1>5. ASSUME item.id \notin Ids(f)
      PROVE  /\ row.revision = 1
             /\ \A i \in 1 .. n : f.rows[i].id # row.id
  <2>1. Classified(f, item) = "accepted"
    BY <1>5 DEF Classified
  <2>2. row = item
    BY <2>1, RevisedProperty
  <2>3. QED
    BY <1>1, <1>5, <2>2 DEF Ids
<1>6. ASSUME item.id \in Ids(f)
      PROVE  \E i \in 1 .. n :
                /\ f.rows[i].id = row.id /\ f.rows[i].host = row.host
                /\ row.revision = f.rows[i].revision + 1
                /\ ~SameContent(f.rows[i], row)
                /\ \A k \in 1 .. n : f.rows[k].id = row.id =>
                      k <= i /\ f.rows[k].host = row.host /\ f.rows[k].revision < row.revision
  <2>1. PICK i \in RowsOf(f, item.id) : /\ Latest(f, item.id) = f.rows[i]
                                        /\ \A k \in RowsOf(f, item.id) : k <= i
    BY <1>6, LatestIsLast
  <2>2. i \in 1 .. n /\ f.rows[i].id = row.id
    BY <1>1, <1>4 DEF RowsOf
  <2>3. /\ Classified(f, item) = "revision"
        /\ f.rows[i].host = item.host /\ ~SameContent(f.rows[i], item)
    BY <1>6, <2>1 DEF Classified, IsFresh
  <2>4. row.revision = f.rows[i].revision + 1
    BY <2>1, <2>3, RevisedProperty
  <2>5. ~SameContent(f.rows[i], row)
    BY <1>4, <2>3 DEF SameContent
  <2>6. ASSUME NEW k \in 1 .. n, f.rows[k].id = row.id
        PROVE  k <= i /\ f.rows[k].host = row.host /\ f.rows[k].revision < row.revision
    <3>1. k \in RowsOf(f, item.id)
      BY <1>1, <1>4, <2>6 DEF RowsOf
    <3>2. k <= i
      BY <2>1, <3>1
    <3>3. k < i => f.rows[k].revision < f.rows[i].revision /\ f.rows[k].host = f.rows[i].host
      BY <1>1, <2>2, <2>6 DEF Rising
    <3>4. f.rows[k].revision \in Nat /\ f.rows[i].revision \in Nat
      BY <1>3, <2>2
    <3>5. k = i \/ k < i
      BY <2>2, <3>2
    <3> HIDE DEF row
    <3>6. QED
      BY <1>4, <2>3, <2>4, <3>2, <3>3, <3>4, <3>5
  <2> HIDE DEF row
  <2>7. QED
    BY <1>4, <2>2, <2>3, <2>4, <2>5, <2>6
<1> HIDE DEF row, n
<1>7. Rising(g)
  <2>1. SUFFICES ASSUME NEW i \in 1 .. n + 1, NEW j \in 1 .. n + 1, i < j, g.rows[i].id = g.rows[j].id
                 PROVE  g.rows[i].revision < g.rows[j].revision /\ g.rows[i].host = g.rows[j].host
    BY <1>1 DEF Rising
  <2>2. i \in 1 .. n /\ g.rows[i] = f.rows[i]
    BY <1>1, <2>1
  <2>3. CASE j \in 1 .. n
    <3>1. g.rows[j] = f.rows[j]
      BY <1>1, <2>3
    <3>2. /\ f.rows[i].id = f.rows[j].id /\ i \in DOMAIN f.rows /\ j \in DOMAIN f.rows
      BY <1>1, <2>1, <2>2, <2>3, <3>1
    <3>3. f.rows[i].revision < f.rows[j].revision /\ f.rows[i].host = f.rows[j].host
      BY <1>1, <2>1, <2>2, <2>3, <3>2 DEF Rising
    <3>4. QED
      BY <2>2, <3>1, <3>3
  <2>4. CASE j = n + 1
    <3>1. g.rows[j] = row
      BY <1>1, <2>4
    <3>2. QED
      BY <1>5, <1>6, <2>1, <2>2, <3>1
  <2>5. QED
    BY <1>1, <2>3, <2>4
<1>8. Traced(g)
  <2>1. SUFFICES ASSUME NEW j \in 1 .. n + 1
                 PROVE  \/ g.rows[j].revision = 1 /\ \A i \in 1 .. j - 1 : g.rows[i].id # g.rows[j].id
                        \/ \E i \in 1 .. j - 1 :
                              /\ Precedes(g, i, j)
                              /\ g.rows[j].revision = g.rows[i].revision + 1
                              /\ g.rows[j].host = g.rows[i].host
                              /\ ~SameContent(g.rows[i], g.rows[j])
    BY <1>1 DEF Traced
  <2>2. j - 1 \in 0 .. n /\ \A i \in 1 .. j - 1 : i \in 1 .. n /\ g.rows[i] = f.rows[i]
    BY <1>1
  <2>3. CASE j \in 1 .. n
    <3>1. g.rows[j] = f.rows[j]
      BY <1>1, <2>3
    <3>2. CASE f.rows[j].revision = 1 /\ \A i \in 1 .. j - 1 : f.rows[i].id # f.rows[j].id
      BY <2>2, <3>1, <3>2
    <3>3. ASSUME NEW i \in 1 .. j - 1, Precedes(f, i, j)
          PROVE  Precedes(g, i, j)
      <4>1. \A k \in i + 1 .. j - 1 : k \in 1 .. j - 1
        BY <2>3, <1>1
      <4>2. QED
        BY <2>2, <3>1, <3>3, <4>1 DEF Precedes
    <3>4. QED
      BY <1>1, <2>2, <2>3, <3>1, <3>2, <3>3 DEF Traced
  <2>4. CASE j = n + 1
    <3>1. g.rows[j] = row /\ j - 1 = n
      BY <1>1, <2>4
    <3>2. CASE item.id \notin Ids(f)
      BY <1>5, <2>2, <3>1, <3>2
    <3>3. CASE item.id \in Ids(f)
      <4>1. PICK i \in 1 .. n :
                /\ f.rows[i].id = row.id /\ f.rows[i].host = row.host
                /\ row.revision = f.rows[i].revision + 1
                /\ ~SameContent(f.rows[i], row)
                /\ \A k \in 1 .. n : f.rows[k].id = row.id => k <= i
        BY <1>6, <3>3
      <4>2. \A k \in i + 1 .. j - 1 : k \in 1 .. n /\ ~(k <= i)
        BY <1>1, <3>1
      <4>3. i < j /\ i \in 1 .. j - 1 /\ g.rows[i] = f.rows[i]
        BY <1>1, <2>4
      <4>4. Precedes(g, i, j)
        BY <1>1, <3>1, <4>1, <4>2, <4>3 DEF Precedes
      <4>5. QED
        BY <3>1, <4>1, <4>3, <4>4
    <3>4. QED
      BY <3>2, <3>3
  <2>5. QED
    BY <1>1, <2>3, <2>4
<1>9. QED
  BY <1>7, <1>8

(* A row that is not there yet does not repeat one, however much of it is  *)
(* written and whatever state the file is in.                              *)
LEMMA DistinctAppend ==
    ASSUME NEW Row, NEW f \in File(Row), NoRowTwice(f), NEW row \in Row, ~IsLinked(f, row),
           NEW g \in CutShort(f, row) \cup {Appended(f, row)}
    PROVE  NoRowTwice(g)
<1>1. f.rows \in Seq(Row) /\ Len(f.rows) \in Nat
  BY DEF File
<1>2. g.rows \in {f.rows, Append(f.rows, row), SubSeq(f.rows, 1, Len(f.rows) - 1)}
  <2>1. Appended(f, row).rows \in {f.rows, Append(f.rows, row), SubSeq(f.rows, 1, Len(f.rows) - 1)}
    BY DEF Appended
  <2>2. \A last \in Lasts : [f EXCEPT !.last = last].rows = f.rows
    BY DEF File
  <2>3. \A last \in Lasts : [Appended(f, row) EXCEPT !.last = last].rows = Appended(f, row).rows
    BY DEF Appended
  <2>4. QED
    BY <2>1, <2>2, <2>3 DEF CutShort, Lasts
<1>3. CASE g.rows = f.rows
  BY <1>3 DEF NoRowTwice
<1>4. CASE g.rows = Append(f.rows, row)
  <2>1. DOMAIN g.rows = 1 .. Len(f.rows) + 1 /\ g.rows[Len(f.rows) + 1] = row
    BY <1>1, <1>4
  <2>2. \A i \in 1 .. Len(f.rows) : i \in DOMAIN f.rows /\ g.rows[i] = f.rows[i] /\ f.rows[i] # row
    BY <1>1, <1>4 DEF IsLinked
  <2>3. \A i \in DOMAIN g.rows : i \in 1 .. Len(f.rows) \/ i = Len(f.rows) + 1
    BY <1>1, <2>1
  <2>4. QED
    BY <2>1, <2>2, <2>3 DEF NoRowTwice
<1>5. CASE g.rows = SubSeq(f.rows, 1, Len(f.rows) - 1)
  <2>1. \A i \in DOMAIN g.rows : i \in DOMAIN f.rows /\ g.rows[i] = f.rows[i]
    BY <1>1, <1>5
  <2>2. QED
    BY <2>1 DEF NoRowTwice
<1>6. QED
  BY <1>2, <1>3, <1>4, <1>5

(* A row in hand is made up of what is in the file, and a link in hand is  *)
(* not there yet.                                                          *)
Fresh(s) ==
    /\ pc[s] = "appending" /\ Readable(items) =>
          work[s].row = Revised(items, NewItem(s)) /\ IsFresh(items, NewItem(s))
    /\ pc[s] = "appending_link" => ~IsLinked(links, NewLink(s))

Alone == \A s, t \in Sessions : pc[s] # "idle" /\ pc[t] # "idle" => s = t

(* Without overlapping refreshes the one under way is the only writer, and *)
(* what it read before it writes still holds when it does.                 *)
Orderly ==
    ~overlapped =>
        /\ Alone
        /\ Readable(items) => Rising(items) /\ Traced(items)
        /\ NoRowTwice(links)
        /\ \A s \in Sessions : Fresh(s)

(* Rows and links in hand continue the histories they were compared with.  *)
LEMMA FilesStayOrderly ==
    ASSUME Typed, Orderly, ~overlapped, [Next]_vars
    PROVE  (Readable(items') => Rising(items') /\ Traced(items')) /\ NoRowTwice(links')
<1>1. items \in File(ItemRow) /\ links \in File(LinkRow) /\ SessionsOK
  BY DEF Typed, WorldOK
<1>2. ASSUME Readable(items') PROVE Rising(items') /\ Traced(items')
  <2>1. Readable(items) /\ items' \in File(ItemRow)
    BY <1>2, FilesKept DEF Keeps
  <2>2. Rising(items) /\ Traced(items)
    BY <2>1 DEF Orderly
  <2>3. CASE items'.rows = items.rows
    BY <2>2, <2>3 DEF Rising, Traced, Precedes
  <2>4. ASSUME NEW row \in RowsInHand, items'.rows = Append(items.rows, row)
        PROVE  Rising(items') /\ Traced(items')
    <3>1. PICK s \in Sessions : pc[s] = "appending" /\ row = work[s].row
      BY <2>4 DEF RowsInHand
    <3>2. row = Revised(items, NewItem(s)) /\ IsFresh(items, NewItem(s))
      BY <2>1, <3>1 DEF Orderly, Fresh
    <3>3. NewItem(s) \in ItemRow /\ NewItem(s).revision = 1
      BY <1>1, <3>1, NewItemProperty
    <3>4. QED
      BY <1>1, <2>1, <2>2, <2>4, <3>2, <3>3, HistoryAppend
  <2>5. QED
    BY <1>2, <2>3, <2>4, FilesKept
<1>3. NoRowTwice(links')
  <2>1. NoRowTwice(links)
    BY DEF Orderly
  <2>2. ASSUME NEW row \in LinksInHand, links' \in CutShort(links, row) \cup {Appended(links, row)}
        PROVE  NoRowTwice(links')
    <3>1. PICK s \in Sessions : pc[s] = "appending_link" /\ row = NewLink(s)
      BY <2>2 DEF LinksInHand
    <3>2. ~IsLinked(links, row)
      BY <3>1 DEF Orderly, Fresh
    <3>3. row \in LinkRow
      BY <2>2, InHandType
    <3>4. QED
      BY <1>1, <2>1, <2>2, <3>2, <3>3, DistinctAppend
  <2>3. QED
    BY <2>1, <2>2, FilesAppend DEF Appends
<1>4. QED
  BY <1>2, <1>3

(* What a session finds is what it has in hand.                            *)
LEMMA FoundIsFresh ==
    ASSUME Typed, NEW s \in Sessions, SessionStep(s)
    PROVE  Fresh(s)'
<1>1. SessionsOK
  BY DEF Typed
<1>2. CASE Begin(s) \/ SkipDisabled(s) \/ RefuseDamaged(s) \/ Prepare(s) \/ FetchFails(s)
             \/ NotModified(s) \/ RefuseFormat(s) \/ Fetch(s) \/ Save(s) \/ SaveFails(s) \/ Reconfigure(s)
  <2>1. pc'[s] \notin {"appending", "appending_link"}
    BY <1>1, <1>2 DEF SessionsOK, Begin, SkipDisabled, RefuseDamaged, Prepare, FetchFails, NotModified,
         RefuseFormat, Fetch, Save, SaveFails, Reconfigure, Finish, Goto
  <2>2. QED
    BY <2>1 DEF Fresh
<1>3. ASSUME NEW clean \in BOOLEAN, NextEntry(s, clean) PROVE Fresh(s)'
  BY <1>1, <1>3 DEF NextEntry, Finish, Goto, SessionsOK, Fresh
<1>4. ASSUME NEW n, NextLink(s, n) PROVE Fresh(s)'
  <2>1. CASE NextEntry(s, TRUE)
    BY <1>3, <2>1
  <2>2. CASE Goto(s, "linking")
    BY <1>1, <2>2 DEF Goto, SessionsOK, Fresh
  <2>3. QED
    BY <1>4, <2>1, <2>2 DEF NextLink
<1>5. CASE Classify(s) /\ IsClassified(s, {"accepted", "revision"}) /\ PrepareRow(s)
  <2>1. work[s] \in Work /\ pc[s] = "classifying"
    BY <1>1, <1>5 DEF SessionsOK, Classify
  <2>2. /\ pc'[s] = "appending" /\ config' = config /\ items' = items
        /\ work'[s] = [work[s] EXCEPT !.row = Revised(items, NewItem(s))]
    BY <1>1, <1>5 DEF Classify, PrepareRow, Goto, SessionsOK, files
  <2>3. /\ work'[s].row = Revised(items, NewItem(s))
        /\ work'[s].doc = work[s].doc /\ work'[s].at = work[s].at /\ work'[s].built_at = work[s].built_at
    BY <2>1, <2>2 DEF Work
  <2>4. NewItem(s)' = NewItem(s)
    BY <2>2, <2>3 DEF NewItem
  <2>5. IsFresh(items, NewItem(s))
    BY <1>5 DEF IsClassified, IsFresh
  <2>6. QED
    BY <2>2, <2>3, <2>4, <2>5 DEF Fresh
<1>6. CASE FindLink(s) /\ ~IsLinked(links, NewLink(s)) /\ Goto(s, "appending_link") /\ UNCHANGED <<work, result>>
  <2>1. pc'[s] = "appending_link" /\ UNCHANGED <<config, links, work>>
    BY <1>1, <1>6 DEF FindLink, Goto, SessionsOK, files
  <2>2. NewLink(s)' = NewLink(s)
    BY <2>1 DEF NewLink, NewItem
  <2>3. QED
    BY <1>6, <2>1, <2>2 DEF Fresh
<1>7. CASE Classify(s) \/ FindLink(s)
  BY <1>3, <1>4, <1>5, <1>6, <1>7 DEF Classify, FindLink
<1>8. CASE AppendItem(s) \/ AppendItemRaises(s) \/ AppendLink(s) \/ AppendLinkRaises(s)
  BY <1>3, <1>4, <1>8 DEF AppendItem, AppendItemRaises, AppendLink, AppendLinkRaises
<1>9. QED
  BY <1>2, <1>7, <1>8 DEF SessionStep

(* Two refreshes that have overlapped have overlapped for good.            *)
LEMMA OverlapIsRemembered ==
    ASSUME [Next]_vars, ~overlapped'
    PROVE  ~overlapped
<1>1. CASE UNCHANGED vars \/ Crash \/ Tick \/ \E e \in Endpoints : Publish(e)
  <2>1. overlapped' = overlapped
    BY <1>1 DEF vars, Crash, Publish, Tick
  <2>2. QED
    BY <2>1
<1>2. ASSUME NEW s \in Sessions, SessionStep(s) PROVE ~overlapped
  BY <1>2 DEF SessionStep, Begin, SkipDisabled, RefuseDamaged, Prepare, FetchFails, NotModified,
         RefuseFormat, Fetch, Classify, AppendItem, AppendItemRaises, FindLink, AppendLink,
         AppendLinkRaises, Save, SaveFails, Reconfigure
<1>3. QED
  BY <1>1, <1>2 DEF Next

(* While nothing overlaps, only a session that sits idle leaves another    *)
(* one at work, and it touches no file.                                    *)
LEMMA OrderlyStep ==
    ASSUME Typed, Orderly, [Next]_vars
    PROVE  Orderly'
<1> SUFFICES ASSUME ~overlapped'
             PROVE  /\ Alone' /\ \A s \in Sessions : Fresh(s)'
                    /\ (Readable(items') => Rising(items') /\ Traced(items')) /\ NoRowTwice(links')
  BY DEF Orderly
<1>1. ~overlapped
  BY OverlapIsRemembered
<1>2. Alone /\ \A s \in Sessions : Fresh(s)
  BY <1>1 DEF Orderly
<1>3. ASSUME NEW t \in Sessions, pc'[t] = pc[t], work'[t] = work[t], config'[t] = config[t], UNCHANGED files
      PROVE  Fresh(t)'
  <2>1. NewItem(t)' = NewItem(t) /\ NewLink(t)' = NewLink(t)
    BY <1>3 DEF NewItem, NewLink
  <2>2. QED
    BY <1>2, <1>3, <2>1 DEF Fresh, files
<1>4. ASSUME UNCHANGED vars \/ Tick \/ \E e \in Endpoints : Publish(e)
      PROVE  Alone' /\ \A t \in Sessions : Fresh(t)'
  <2>1. UNCHANGED <<pc, work, config, files>>
    BY <1>4 DEF vars, Tick, Publish
  <2>2. QED
    BY <1>2, <1>3, <2>1 DEF Alone
<1>5. ASSUME Crash PROVE Alone' /\ \A t \in Sessions : Fresh(t)'
  <2>1. \A t \in Sessions : pc'[t] = "idle"
    BY <1>5 DEF Crash
  <2>2. QED
    BY <2>1 DEF Alone, Fresh
<1>6. ASSUME NEW s \in Sessions, SessionStep(s) PROVE Alone' /\ \A t \in Sessions : Fresh(t)'
  <2>1. OthersStay(s)
    BY <1>6, ProcessingEffect, AroundEffect DEF SessionStep
  <2>2. Fresh(s)'
    BY <1>6, FoundIsFresh
  <2>3. CASE Reconfigure(s)
    <3>1. pc' = pc /\ UNCHANGED files
      BY <2>3 DEF Reconfigure
    <3>2. ASSUME NEW t \in Sessions \ {s} PROVE Fresh(t)'
      BY <1>3, <2>1, <3>1 DEF OthersStay
    <3>3. QED
      BY <1>2, <2>2, <3>1, <3>2 DEF Alone
  <2>4. CASE ~Reconfigure(s)
    <3>1. \A t \in Sessions \ {s} : pc[t] = "idle"
      <4>1. CASE Begin(s)
        BY <4>1 DEF Begin
      <4>2. CASE ~Begin(s)
        <5>1. pc[s] # "idle"
          BY <1>6, <2>4, <4>2 DEF SessionStep, SkipDisabled, RefuseDamaged, Prepare, FetchFails,
             NotModified, RefuseFormat, Fetch, Classify, AppendItem, AppendItemRaises, FindLink,
             AppendLink, AppendLinkRaises, Save, SaveFails
        <5>2. QED
          BY <1>2, <5>1 DEF Alone
      <4>3. QED
        BY <4>1, <4>2
    <3>2. \A t \in Sessions \ {s} : pc'[t] = "idle"
      BY <2>1, <3>1 DEF OthersStay
    <3>3. QED
      BY <2>2, <3>2 DEF Alone, Fresh
  <2>5. QED
    BY <2>3, <2>4
<1>7. QED
  BY <1>1, <1>4, <1>5, <1>6, FilesStayOrderly DEF Next

(* OneHistoryPerItem: until two refreshes overlap, the rows of an item are *)
(* one history and no link is there twice, whatever fails or dies.         *)
THEOREM ItemsHaveOneHistory == Spec => []OneHistoryPerItem
<1>1. Init => Orderly
  BY DEF Init, Orderly, Alone, Fresh, Rising, Traced, NoRowTwice, EmptyFile
<1>2. Typed /\ Orderly /\ [Next]_vars => Orderly'
  BY OrderlyStep
<1>3. Orderly => OneHistoryPerItem
  BY DEF Orderly, OneHistoryPerItem, Traced, Precedes, IsNextRevision, NoRowTwice
<1>4. QED
  BY <1>1, <1>2, <1>3, TypedInvariant, PTL DEF Spec
=============================================================================
