------------------------------ MODULE FeedStore ------------------------------
(***************************************************************************)
(* The files of one configured feed, as src/feeds/store.py reads and       *)
(* writes them, and the queries of src/application/feeds.py over them.     *)
(*                                                                         *)
(* A file is the rows its readable lines decode to, in file order, what    *)
(* became of its last line, and whether an earlier line is unreadable:     *)
(*                                                                         *)
(*   whole          the file ends in a newline (or is absent or empty)     *)
(*   unterminated   everything but the newline of the last row is there;   *)
(*                  the row is read like any other                         *)
(*   torn           the last line is a part of a row and decodes to none   *)
(*                                                                         *)
(* A row of documents.jsonl is one observation of an entry.  Its title,    *)
(* excerpt, publisher and path are one text; its content hash is the text, *)
(* the host and the source's stamp, which two rows share or not.           *)
(***************************************************************************)
EXTENDS Integers, Sequences

NoTime == -1

Lasts == {"whole", "unterminated", "torn"}

File(Row) == [rows : Seq(Row), last : Lasts, corrupt : BOOLEAN]

EmptyFile == [rows |-> <<>>, last |-> "whole", corrupt |-> FALSE]

(* _read_rows reports no corrupt line.                                     *)
Readable(file) == ~file.corrupt /\ file.last # "torn"

(* _append returned.  It looks at nothing before it writes: after a line   *)
(* without its newline the new row runs on from the old, and both are lost.*)
Appended(file, row) ==
    [rows    |-> IF file.last = "unterminated" THEN SubSeq(file.rows, 1, Len(file.rows) - 1)
                 ELSE IF file.last = "whole" THEN Append(file.rows, row) ELSE file.rows,
     last    |-> "whole",
     corrupt |-> file.corrupt \/ file.last # "whole"]

(* _append cut short by an error or a death: nothing, all of the line, all *)
(* but its newline, or a part of it.                                       *)
CutShort(file, row) ==
    {file, Appended(file, row)}
    \cup IF file.last = "whole"
         THEN {[file EXCEPT !.last = "torn"], [Appended(file, row) EXCEPT !.last = "unterminated"]}
         ELSE {[Appended(file, row) EXCEPT !.last = "torn"]}

-----------------------------------------------------------------------------
(* Items.                                                                  *)

RowsOf(file, id) == {i \in DOMAIN file.rows : file.rows[i].id = id}

Ids(file) == {file.rows[i].id : i \in DOMAIN file.rows}

(* Of the rows in ns, the one with the highest revision; the first of two. *)
Highest(file, ns) ==
    file.rows[CHOOSE i \in ns : \A j \in ns :
        \/ file.rows[j].revision < file.rows[i].revision
        \/ file.rows[j].revision = file.rows[i].revision /\ i <= j]

(* Seeded fault: the first row of an item stands for it.                   *)
FirstOf(file, id) ==
    file.rows[CHOOSE i \in RowsOf(file, id) : \A j \in RowsOf(file, id) : i <= j]

Latest(file, id) == Highest(file, RowsOf(file, id))

LatestItems(file) == {Latest(file, id) : id \in Ids(file)}

(* latest_items(as_of): the store as this system knew it.                  *)
SeenBy(file, as_of) == {i \in DOMAIN file.rows : file.rows[i].retrieved_at <= as_of}

Replay(file, as_of) ==
    {Highest(file, RowsOf(file, id) \cap SeenBy(file, as_of)) :
        id \in {file.rows[i].id : i \in SeenBy(file, as_of)}}

SameContent(a, b) == a.text = b.text /\ a.host = b.host /\ a.stamp = b.stamp

Outcomes == {"accepted", "conflict", "duplicate", "revision"}

(* write_item: what an item is against what is stored.                     *)
Classified(file, item) ==
    IF item.id \notin Ids(file) THEN "accepted"
    ELSE IF Latest(file, item.id).host # item.host THEN "conflict"
    ELSE IF SameContent(Latest(file, item.id), item) THEN "duplicate"
    ELSE "revision"

(* Seeded fault: a revision keeps the time its item was first retrieved.   *)
RevisedInherited(file, item) ==
    IF Classified(file, item) = "revision"
    THEN [item EXCEPT !.revision = Latest(file, item.id).revision + 1,
                      !.retrieved_at = Latest(file, item.id).retrieved_at]
    ELSE item

(* _with_revision: the number changes and this observation's times stay.   *)
Revised(file, item) ==
    IF Classified(file, item) = "revision"
    THEN [item EXCEPT !.revision = Latest(file, item.id).revision + 1]
    ELSE item

-----------------------------------------------------------------------------
(* Links: an item, a symbol and the configuration they were observed under.*)

IsLinked(file, link) == \E i \in DOMAIN file.rows : file.rows[i] = link

(* symbols_for: under whatever configuration.                              *)
SymbolsFor(file, id) ==
    {file.rows[i].symbol : i \in {n \in DOMAIN file.rows : file.rows[n].id = id}}

-----------------------------------------------------------------------------
(* Queries.                                                                *)

Later(s, t) == IF s < t THEN t ELSE s

(* Seeded fault: our own observation is left out.                          *)
VisibleBySource(item, as_of) == item.available_from <= as_of

(* _visible_at, STRICT_CAUSAL and SYSTEM_OBSERVED.                         *)
VisibleAt(item, as_of) == Later(item.available_from, item.retrieved_at) <= as_of

(* filter_items over what _load returns: the latest revisions only.        *)
Answer(file, as_of) == {item \in LatestItems(file) : VisibleAt(item, as_of)}
=============================================================================
