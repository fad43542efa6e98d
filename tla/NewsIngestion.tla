---------------------------- MODULE NewsIngestion ----------------------------
(***************************************************************************)
(* The news refresh of the dashboard: NewsService of                       *)
(* src/application/news.py over the two sources, their stores and the      *)
(* cached ticker map.                                                      *)
(*                                                                         *)
(* "One local process, one writer": the steps of one refresh follow each   *)
(* other, and what comes between them is the death of the process.  The    *)
(* SEC, Yahoo and a newer build that has written to the store are          *)
(* external.  A refresh reads the clock once; the clock moves between two  *)
(* refreshes.                                                              *)
(***************************************************************************)
EXTENDS NewsStore, FiniteSets, Functions

CONSTANTS
    None,          \* no service, no map, no snapshot, nothing under way
    Symbols,       \* symbols a refresh may be asked for
    Registrants,   \* registrants of the SEC
    Unlisted,      \* a ticker map's answer for a symbol it does not list
    Ids, Urls, Texts,
    Skew,          \* ticks a source's stamp may lie ahead of our clock
    MaxTime,       \* bound: refreshes begun
    Environments   \* what may be met together: the ticker maps the SEC may
                   \* publish, the sequences of raw rows each source may
                   \* answer with, the writes that fail or are cut short, the
                   \* maps published after the first, and the rows written by
                   \* a newer build

Sources == {"edgar", "yahoo"}
Ticks   == 0 .. MaxTime
Stamps  == Ticks \cup {NoTime}

RawRow == [id : Ids \cup {None}, url : Urls \cup {None}, text : Texts, stamp : Int]

ASSUME NewsAssumption ==
    /\ None \notin Ids \cup Urls \cup Sources
    /\ Unlisted \notin Registrants
    /\ Environments \subseteq
          [maps    : SUBSET [Symbols -> Registrants \cup {Unlisted}],
           answers : [Sources -> SUBSET Seq(RawRow)],
           faults  : Nat, changes : Nat, foreign : Nat]
    /\ {Skew, MaxTime} \subseteq Nat

VARIABLES
    now,        \* the clock
    documents,  \* documents.jsonl of each source
    links,      \* associations.jsonl of each source
    published,  \* the ticker map at the SEC
    mapfile,    \* company_tickers.json, as it decodes
    service,    \* the session's news service
    run,        \* the refresh under way
    snapshot,   \* the news the session shows
    left        \* the environment, with what is left of its bounds

stores == <<documents, links>>
vars == <<now, stores, published, mapfile, service, run, snapshot, left>>

Spend(budget) == left[budget] > 0 /\ left' = [left EXCEPT ![budget] = @ - 1]

-----------------------------------------------------------------------------
(* The ticker map, cached.                                                 *)

(* load_cik_map where the fetch fails, or answers with no usable row: the  *)
(* stored map is kept.  CikMapStore.read takes a file it cannot decode for *)
(* none, and so does mapfile.                                              *)
KeepStoredMap ==
    /\ service' = [map |-> mapfile]
    /\ UNCHANGED <<mapfile, left>>

(* CikMapStore.write, in place: a write cut short leaves what read takes   *)
(* for none.                                                               *)
WriteMap(map) ==
    \/ mapfile' = map /\ UNCHANGED left
    \/ mapfile' = None /\ Spend("faults")

(* load_cik_map: the map of today replaces the cache; build_service takes  *)
(* an exception of the write for no map.                                   *)
FetchMap ==
    /\ WriteMap(published)
    /\ service' = [map |-> mapfile']

(* read_sec_contact: absent or invalid, and the SEC is asked for nothing.  *)
WithoutContact ==
    /\ service' = [map |-> None]
    /\ UNCHANGED <<mapfile, left>>

(* build_service, on the first refresh of a session.                       *)
Compose ==
    /\ service = None
    /\ WithoutContact \/ KeepStoredMap \/ FetchMap
    /\ UNCHANGED <<now, stores, published, run, snapshot>>

IsConfigured(source) == source = "edgar" => service.map # None

-----------------------------------------------------------------------------
(* Normalization.                                                          *)

(* validate_source_timestamp: a far-future time is a malformed record.     *)
IsPlausible(stamp, t) == stamp <= t + Skew

(* validate_url refuses what is no https link; a filing's link is built    *)
(* from its identifiers.                                                   *)
HasLink(source, raw) == source = "yahoo" => raw.url # None

IsUsable(source, raw, t) ==
    raw.id # None /\ HasLink(source, raw) /\ IsPlausible(raw.stamp, t)

(* Our own clock bounds the availability of what states no time itself.    *)
Document(raw, signature, t) ==
    [id |-> raw.id, signature |-> signature, text |-> raw.text, source_time |-> raw.stamp,
     available_from |-> IF raw.stamp = NoTime THEN t ELSE raw.stamp,
     retrieved_at |-> t, revision |-> 1]

(* A filing's registrant never changes, an article's canonical link.       *)
Signature(source, raw, symbol) ==
    IF source = "edgar" THEN service.map[symbol] ELSE raw.url

(* _normalize: an unusable row is dropped, alone.  The records are those   *)
(* of the other rows, each at its place in the answer.                     *)
Normalized(source, answer, symbol, t) ==
    [n \in {m \in DOMAIN answer : IsUsable(source, answer[m], t)} |->
        Document(answer[n], Signature(source, answer[n], symbol), t)]

(* The symbol of a filing is the SEC's own statement; an article came back *)
(* when the symbol was queried.  registrant is history: what the map said. *)
Link(source, document, symbol) ==
    [id |-> document.id, symbol |-> symbol,
     association |-> IF source = "edgar" THEN "verified_source" ELSE "queried_symbol",
     registrant  |-> IF source = "edgar" THEN service.map[symbol] ELSE None]

-----------------------------------------------------------------------------
(* A refresh.                                                              *)

Counters == {"accepted", "duplicate", "revision", "rejected", "conflict", "associations"}

NoCounts == [counter \in Counters |-> 0]

(* answer is history: what the source made of this refresh.                *)
Pending == [outcome |-> "pending", counts |-> NoCounts, answer |-> <<>>]

(* refresh: the clock is read once, for every source.                      *)
Begin(symbol) ==
    /\ service # None
    /\ run = None
    /\ now < MaxTime
    /\ now' = now + 1
    /\ run' = [symbol |-> symbol, source |-> None, records |-> <<>>, written |-> FALSE,
               results |-> [source \in Sources |-> Pending]]
    /\ UNCHANGED <<stores, published, mapfile, service, snapshot, left>>

IsPending(source) == run.results[source].outcome = "pending"

(* sorted: EDGAR before Yahoo, except that a source which is switched off  *)
(* comes last.                                                             *)
IsTurnOf(source) ==
    /\ run # None
    /\ run.source = None
    /\ IsPending(source)
    /\ \A other \in Sources \ {source} :
          IsPending(other) => /\ IsConfigured(source)
                              /\ IsConfigured(other) => source = "edgar"

Report(source, outcome) ==
    run' = [run EXCEPT !.results[source].outcome = outcome]

SkipUnconfigured(source) ==
    /\ IsTurnOf(source)
    /\ ~IsConfigured(source)
    /\ Report(source, "unconfigured")
    /\ UNCHANGED <<now, stores, published, mapfile, service, snapshot, left>>

IsCovered(source) == source = "edgar" => service.map[run.symbol] # Unlisted

(* A symbol the map does not list is not covered, which is not an absence  *)
(* of news.                                                                *)
SkipUnlisted(source) ==
    /\ IsTurnOf(source)
    /\ IsConfigured(source)
    /\ ~IsCovered(source)
    /\ Report(source, "unsupported")
    /\ UNCHANGED <<now, stores, published, mapfile, service, snapshot, left>>

(* Unreachable, unusable, or asking us to slow down.                       *)
FetchFails(source) ==
    /\ IsTurnOf(source)
    /\ IsConfigured(source)
    /\ IsCovered(source)
    /\ Report(source, "failed")
    /\ UNCHANGED <<now, stores, published, mapfile, service, snapshot, left>>

(* fetch_for_symbol returned: its records are written one by one.          *)
Fetch(source) ==
    /\ IsTurnOf(source)
    /\ IsConfigured(source)
    /\ IsCovered(source)
    /\ \E answer \in left.answers[source] :
          LET records == Normalized(source, answer, run.symbol, now) IN
          run' = IF DOMAIN records = {}
                 THEN [run EXCEPT !.results[source].outcome = "no_items"]
                 ELSE [run EXCEPT !.source = source, !.records = records,
                                  !.results[source].answer = records]
    /\ UNCHANGED <<now, stores, published, mapfile, service, snapshot, left>>

-----------------------------------------------------------------------------
(* One record: its document, then its link.                                *)

IsWriting == run # None /\ run.source # None

(* The records not yet written keep their places; the first is written.   *)
Place(records) ==
    CHOOSE n \in DOMAIN records : \A m \in DOMAIN records : n <= m

Record == run.records[Place(run.records)]

Counted(counter) == [run EXCEPT !.results[run.source].counts[counter] = @ + 1]

(* To the next record, or past the last of the source.                     *)
NextRecord(r) ==
    LET others == DOMAIN r.records \ {Place(r.records)} IN
    [r EXCEPT !.records = Restrict(@, others),
              !.written = FALSE,
              !.source  = IF others = {} THEN None ELSE @,
              !.results[r.source].outcome = IF others = {} THEN "success" ELSE @]

(* One failure never voids the siblings of a record.                       *)
Reject == run' = NextRecord(Counted("rejected"))

(* Seeded fault: only what is new is linked.                               *)
AfterDocumentUnlinked(outcome) ==
    IF outcome \in {"conflict", "duplicate"} THEN NextRecord(Counted(outcome))
    ELSE [Counted(outcome) EXCEPT !.written = TRUE]

(* "Links are written for a duplicate too"; a conflict has none.           *)
AfterDocument(outcome) ==
    IF outcome = "conflict" THEN NextRecord(Counted(outcome))
    ELSE [Counted(outcome) EXCEPT !.written = TRUE]

(* write_document reads the file strictly, and raises on damage.           *)
WriteDocument ==
    /\ IsWriting /\ ~run.written
    /\ LET source  == run.source
           file    == documents[source]
           outcome == Classified(RowsRead(file), Record)
       IN  \/ /\ ~IsReadable(file)
              /\ Reject
              /\ UNCHANGED documents
           \/ /\ IsReadable(file)
              /\ run' = AfterDocument(outcome)
              /\ documents' =
                    IF outcome \in {"conflict", "duplicate"} THEN documents
                    ELSE [documents EXCEPT ![source] = Appended(@, Revised(RowsRead(@), Record))]
    /\ UNCHANGED <<now, links, published, mapfile, service, snapshot, left>>

(* The append of a document under way is cut short.                        *)
CutDocument ==
    /\ IsWriting /\ ~run.written
    /\ LET file == documents[run.source] IN
       /\ IsReadable(file)
       /\ Classified(RowsRead(file), Record) \in {"accepted", "revision"}
       /\ \E cut \in CutShort(file, Revised(RowsRead(file), Record)) :
             documents' = [documents EXCEPT ![run.source] = cut]
    /\ UNCHANGED links

WriteLink ==
    /\ IsWriting /\ run.written
    /\ LET file == links[run.source]
           link == Link(run.source, Record, run.symbol)
       IN  \/ /\ ~IsReadable(file)
              /\ Reject
              /\ UNCHANGED links
           \/ /\ IsReadable(file) /\ IsLinked(file, link)
              /\ run' = NextRecord(run)
              /\ UNCHANGED links
           \/ /\ IsReadable(file) /\ ~IsLinked(file, link)
              /\ run' = NextRecord(Counted("associations"))
              /\ links' = [links EXCEPT ![run.source] = Appended(@, link)]
    /\ UNCHANGED <<now, documents, published, mapfile, service, snapshot, left>>

CutLink ==
    /\ IsWriting /\ run.written
    /\ LET link == Link(run.source, Record, run.symbol) IN
       /\ IsReadable(links[run.source])
       /\ ~IsLinked(links[run.source], link)
       /\ \E file \in CutShort(links[run.source], link) :
             links' = [links EXCEPT ![run.source] = file]
    /\ UNCHANGED documents

(* write, flush or fsync raised: the record is refused, its siblings go on.*)
WriteRaises ==
    /\ CutDocument \/ CutLink
    /\ Reject
    /\ Spend("faults")
    /\ UNCHANGED <<now, published, mapfile, service, snapshot>>

-----------------------------------------------------------------------------
(* The end of a refresh.                                                   *)

Healthy == {"success", "no_items"}

(* _overall_status.                                                        *)
Status(results) ==
    LET healthy == {source \in Sources : results[source].outcome \in Healthy} IN
    IF healthy = Sources THEN "all_ok" ELSE IF healthy = {} THEN "all_failed" ELSE "partial"

(* Damage, or a row of a version this build does not know, anywhere.       *)
HasWarning ==
    \E source \in Sources : ~IsReadable(documents[source]) \/ ~IsReadable(links[source])

(* What _load finds of every source there is, switched off or not, beside  *)
(* what came of this refresh.                                              *)
NewsSnapshot ==
    [symbol    |-> run.symbol,
     built_at  |-> now,
     documents |-> [source \in Sources |->
                      DocumentsOf(documents[source], links[source], run.symbol)],
     links     |-> [source \in Sources |-> LinksOf(links[source], run.symbol)],
     results   |-> run.results,
     status    |-> Status(run.results),
     warning   |-> HasWarning]

(* A refresh no source covers raises SymbolNotSupported: *)
(* Yahoo covers every symbol.                                              *)
Finish ==
    /\ run # None
    /\ \A source \in Sources : ~IsPending(source)
    /\ run.source = None
    /\ snapshot' = NewsSnapshot
    /\ run' = None
    /\ UNCHANGED <<now, stores, published, mapfile, service, left>>

-----------------------------------------------------------------------------
(* Around the refresh.                                                     *)

(* The dashboard dies in a refresh; one append may be under way.           *)
Crash ==
    /\ run # None
    /\ Spend("faults")
    /\ CutDocument \/ CutLink \/ UNCHANGED stores
    /\ run' = None
    /\ service' = None
    /\ snapshot' = None
    /\ UNCHANGED <<now, published, mapfile>>

(* A tab is closed and another opened: a service built anew, with the      *)
(* contact address there is then.                                          *)
NewSession ==
    /\ run = None
    /\ service # None
    /\ service' = None
    /\ snapshot' = None
    /\ UNCHANGED <<now, stores, published, mapfile, run, left>>

(* Tickers are reassigned, listed and delisted.                            *)
PublishMap ==
    /\ Spend("changes")
    /\ published' \in left.maps \ {published}
    /\ UNCHANGED <<now, stores, mapfile, service, run, snapshot>>

(* A newer build has been run on the same store.                           *)
NewerBuildWrites(source) ==
    /\ run = None
    /\ Spend("foreign")
    /\ \/ documents' = [documents EXCEPT ![source].foreign = TRUE] /\ UNCHANGED links
       \/ links' = [links EXCEPT ![source].foreign = TRUE] /\ UNCHANGED documents
    /\ UNCHANGED <<now, published, mapfile, service, run, snapshot>>

Init ==
    /\ now = 0
    /\ documents = [source \in Sources |-> EmptyFile]
    /\ links = [source \in Sources |-> EmptyFile]
    /\ left \in Environments
    /\ published \in left.maps
    /\ mapfile = None
    /\ service = None
    /\ run = None
    /\ snapshot = None

Refresh ==
    \/ \E symbol \in Symbols : Begin(symbol)
    \/ \E source \in Sources :
          SkipUnconfigured(source) \/ SkipUnlisted(source) \/ FetchFails(source) \/ Fetch(source)
    \/ WriteDocument \/ WriteLink \/ WriteRaises \/ Finish

Next ==
    \/ Compose
    \/ Refresh
    \/ Crash \/ NewSession \/ PublishMap
    \/ \E source \in Sources : NewerBuildWrites(source)

Spec == Init /\ [][Next]_vars

-----------------------------------------------------------------------------
(* Properties.                                                             *)

(* The document shown for a record is its content, or that of a record     *)
(* after it in the same answer.                                            *)
ShowsRecord(shown, answer, n) ==
    \E document \in shown, m \in DOMAIN answer :
        n <= m /\ document.id = answer[n].id /\ HasSameContent(document, answer[m])

(* A query for the moment of the refresh returns what it shows, unless the *)
(* source's own time is ahead of our clock or, where that time is asked    *)
(* for, absent.                                                            *)
IsAnsweredNow(document, t) ==
    \A trust \in Trusts :
        \/ VisibleAt(document, t, trust)
        \/ document.source_time > t
        \/ document.source_time = NoTime /\ trust = "source_time"

(* "One failure never voids its siblings", and nothing is lost in silence: *)
(* of the records a source returned, those the snapshot does not show      *)
(* under the symbol, as they were fetched, are no more than the result of  *)
(* the source counts as rejected or conflicting, unless the snapshot warns *)
(* of the store.  This is so after a crash at any write, with damage to    *)
(* another source and for documents first fetched for another symbol.      *)
NothingIsLostUncounted ==
    snapshot # None /\ ~snapshot.warning =>
        \A source \in Sources :
            LET result == snapshot.results[source]
                shown  == snapshot.documents[source]
                lost   == {n \in DOMAIN result.answer : ~ShowsRecord(shown, result.answer, n)}
            IN  /\ Cardinality(lost) <= result.counts["rejected"] + result.counts["conflict"]
                /\ \A document \in shown :
                      document.retrieved_at = snapshot.built_at
                          => IsAnsweredNow(document, snapshot.built_at)

RevisionNumbers(rows, id) == {row.revision : row \in RevisionsOf(rows, id)}

(* While a store can be read, the rows of a document are one history,      *)
(* whatever failed or died: revisions 1, 2, 3 with one signature, no two   *)
(* neighbours alike.  A replay for the moment of an observation returns    *)
(* that observation; every link names a stored document, once.             *)
HistoriesAreWhole ==
    \A source \in Sources :
        LET rows == RowsRead(documents[source])  linked == links[source] IN
        IsReadable(documents[source]) /\ IsReadable(linked) =>
            /\ \A row \in rows :
                  /\ RevisionNumbers(rows, row.id) = 1 .. Cardinality(RevisionsOf(rows, row.id))
                  /\ \E seen \in Observed(rows, row.retrieved_at) :
                        seen.id = row.id /\ seen.retrieved_at = row.retrieved_at
                  /\ \A other \in RevisionsOf(rows, row.id) :
                        /\ other.signature = row.signature
                        /\ other.revision = row.revision + 1 => ~HasSameContent(row, other)
            /\ \A i, j \in DOMAIN linked.rows :
                  LinkKey(linked.rows[i]) = LinkKey(linked.rows[j]) => i = j
            /\ \A link \in RowsRead(linked) : IsStored(rows, link.id)

(* "The symbol association is a source fact": a filing is linked to a      *)
(* symbol as verified only under the registrant the ticker map in use gave *)
(* for that symbol, whatever tickers were reassigned and whoever filed     *)
(* together under one accession number.                                    *)
VerifiedMeansRegistrant ==
    \A link \in RowsRead(links["edgar"]), document \in RowsRead(documents["edgar"]) :
        link.id = document.id => link.registrant = document.signature

=============================================================================
