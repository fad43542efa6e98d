------------------------------ MODULE JsonlFile ------------------------------
(***************************************************************************)
(* One append-only JSONL file of the outcome ledger, as src/outcomes/      *)
(* store.py reads and writes it.  A file is its complete lines in file     *)
(* order and the state of its last bytes:                                  *)
(*                                                                         *)
(*   clean    the file ends in a newline (or is absent or empty)           *)
(*   torn     the last append put only part of its line on the disk        *)
(*   buried   something was appended after a torn line                     *)
(*                                                                         *)
(* A row is a record with a field key, the identity it computes for        *)
(* itself; nothing else about a row matters here.                          *)
(***************************************************************************)
EXTENDS Naturals, Sequences

Tails == {"clean", "torn", "buried"}

File(Row) == [rows : Seq(Row), tail : Tails]

EmptyFile == [rows |-> <<>>, tail |-> "clean"]

(* Two lines under one key are corruption whether or not they agree. *)
NoRepeatedKey(file) ==
    \A i, j \in DOMAIN file.rows :
        file.rows[i].key = file.rows[j].key => i = j

(* Seeded fault: a last line without its newline is left out of the read.  *)
ReadableTorn(file) == NoRepeatedKey(file)

(* _load: a read either decodes every line or raises LedgerCorruption. *)
Readable(file) == file.tail = "clean" /\ NoRepeatedKey(file)

RowSet(file) == {file.rows[i] : i \in DOMAIN file.rows}

Keys(file) == {file.rows[i].key : i \in DOMAIN file.rows}

(* Seeded fault: the file is opened for writing, not for appending.        *)
Overwritten(file, row) == [file EXCEPT !.rows = <<row>>]

(* _append returned: the whole line is durable.  On top of a torn line the *)
(* new bytes run on from the old ones and neither can be decoded.          *)
Appended(file, row) ==
    IF file.tail = "clean"
    THEN [file EXCEPT !.rows = Append(@, row)]
    ELSE [file EXCEPT !.tail = "buried"]

(* _append cut short: write, flush or fsync raised, or the process died.   *)
(* "The line may or may not be on disk": all of it, none of it, or part.   *)
CutShort(file, row) ==
    { file,
      Appended(file, row),
      [file EXCEPT !.tail = IF @ = "clean" THEN "torn" ELSE "buried"] }
=============================================================================
