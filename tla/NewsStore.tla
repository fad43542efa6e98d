------------------------------ MODULE NewsStore ------------------------------
(***************************************************************************)
(* The two files of one news source, as src/news/store.py reads and writes *)
(* them: documents.jsonl, a line for every revision of a document, and     *)
(* associations.jsonl, a line for every (document, symbol) link.           *)
(*                                                                         *)
(* A file is the rows its readable lines decode to, in file order, and     *)
(*                                                                         *)
(*   last     "whole", or "unterminated": the last row lacks its newline   *)
(*            and is read like any other, or "torn": the last line is a    *)
(*            part of a row and decodes to none                            *)
(*   corrupt  a line before the last decodes to none                       *)
(*   foreign  a line declares a schema version this build does not know    *)
(*                                                                         *)
(* A document is its identifier, the fields that may never change under it *)
(* (its signature), the source's own time, and all else that its content   *)
(* hash is made of (its text), with the times this system gives it.        *)
(***************************************************************************)
EXTENDS Integers, Sequences

NoTime == -1

Lasts == {"whole", "unterminated", "torn"}

File(Row) == [rows : Seq(Row), last : Lasts, corrupt : BOOLEAN, foreign : BOOLEAN]

EmptyFile == [rows |-> <<>>, last |-> "whole", corrupt |-> FALSE, foreign |-> FALSE]

(* What a tolerant read reports as an unreadable line.                     *)
IsDamaged(file) == file.corrupt \/ file.last = "torn"

(* A strict read returns: no line is damaged and every row is decoded.     *)
IsReadable(file) == ~IsDamaged(file) /\ ~file.foreign

(* _append returned.  It does not look at what it appends to: after a line *)
(* without its newline the new row runs on from the old, and both are lost.*)
Appended(file, row) ==
    CASE file.last = "whole"        -> [file EXCEPT !.rows = Append(@, row)]
      [] file.last = "torn"         -> [file EXCEPT !.last = "whole", !.corrupt = TRUE]
      [] file.last = "unterminated" ->
            [file EXCEPT !.rows = SubSeq(@, 1, Len(@) - 1), !.last = "whole", !.corrupt = TRUE]

(* _append raised, or the process died in it: nothing, the whole line, all *)
(* but its newline, or a part of it.                                       *)
CutShort(file, row) ==
    {file, Appended(file, row)}
    \cup IF file.last = "whole"
         THEN {[file EXCEPT !.last = "torn"],
               [Appended(file, row) EXCEPT !.last = "unterminated"]}
         ELSE {[Appended(file, row) EXCEPT !.last = "torn"]}

(* A tolerant read: the rows that decode, none when one is of a version    *)
(* this build does not know.                                               *)
RowsRead(file) ==
    IF file.foreign THEN {} ELSE {file.rows[i] : i \in DOMAIN file.rows}

-----------------------------------------------------------------------------
(* Documents.                                                              *)

RevisionsOf(rows, id) == {row \in rows : row.id = id}

(* Seeded fault: the first row of a document stands for it.                *)
CurrentFirst(rows, id) ==
    CHOOSE row \in RevisionsOf(rows, id) :
        \A other \in RevisionsOf(rows, id) : row.revision <= other.revision

Current(rows, id) ==
    CHOOSE row \in RevisionsOf(rows, id) :
        \A other \in RevisionsOf(rows, id) : other.revision <= row.revision

IsStored(rows, id) == RevisionsOf(rows, id) # {}

(* latest_documents, as of now.                                            *)
LatestDocuments(rows) == {Current(rows, row.id) : row \in rows}

(* latest_documents(as_of): the file replayed as this system observed it.  *)
Observed(rows, as_of) == LatestDocuments({row \in rows : row.retrieved_at <= as_of})

(* The content hash: neither our own times nor the revision is part of it. *)
HasSameContent(one, other) ==
    /\ one.signature = other.signature
    /\ one.text = other.text
    /\ one.source_time = other.source_time

(* Seeded fault: any change under an identifier is taken for a revision.   *)
ClassifiedUnsigned(rows, document) ==
    IF ~IsStored(rows, document.id) THEN "accepted"
    ELSE IF HasSameContent(Current(rows, document.id), document) THEN "duplicate"
    ELSE "revision"

(* write_document: a document against what is stored under its identifier. *)
Classified(rows, document) ==
    IF ~IsStored(rows, document.id) THEN "accepted"
    ELSE IF Current(rows, document.id).signature # document.signature THEN "conflict"
    ELSE IF HasSameContent(Current(rows, document.id), document) THEN "duplicate"
    ELSE "revision"

(* _with_revision: a revision carries the times of this observation.       *)
Revised(rows, document) ==
    IF Classified(rows, document) = "revision"
    THEN [document EXCEPT !.revision = Current(rows, document.id).revision + 1]
    ELSE document

-----------------------------------------------------------------------------
(* Links.                                                                  *)

LinkKey(link) == <<link.id, link.symbol, link.association>>

(* write_link: the identical association is already stored.                *)
IsLinked(file, link) == \E row \in RowsRead(file) : LinkKey(row) = LinkKey(link)

(* The links of a symbol, and the documents they name.                     *)
LinksOf(file, symbol) == {row \in RowsRead(file) : row.symbol = symbol}

DocumentsOf(documents, links, symbol) ==
    {document \in LatestDocuments(RowsRead(documents)) :
        \E link \in LinksOf(links, symbol) : link.id = document.id}

-----------------------------------------------------------------------------
(* Queries.                                                                *)

Later(s, t) == IF s < t THEN t ELSE s

Trusts == {"source_time", "source_asserted", "system_observed"}

(* _visible_at.  Every record either source makes has an available_from;   *)
(* the basis UNKNOWN is never produced.                                    *)
VisibleAt(document, as_of, trust) ==
    CASE trust = "source_time" ->
            document.source_time # NoTime /\ document.source_time <= as_of
      [] trust = "source_asserted" -> document.available_from <= as_of
      [] trust = "system_observed" ->
            Later(document.available_from, document.retrieved_at) <= as_of

=============================================================================
