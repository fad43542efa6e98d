---------------------------- MODULE FeedIngestion ----------------------------
(***************************************************************************)
(* The refresh of one configured feed: FeedService._refresh_one of         *)
(* src/application/feeds.py over the store, the checkpoint file and the    *)
(* conditional fetch.                                                      *)
(*                                                                         *)
(* A session is one FeedService: a browser tab of the dashboard has its    *)
(* own, with the configuration it read when it was built.  Two sessions    *)
(* may refresh the same feed at once and share nothing but its files; they *)
(* are threads of one process and die together.  The publisher is external.*)
(* Other feeds of the same refresh touch none of these files; all they do  *)
(* here is take time between the clock reading and this feed's turn.       *)
(***************************************************************************)
EXTENDS FeedStore, FiniteSets

CONSTANTS
    Sessions,        \* dashboard sessions
    Endpoints,       \* URLs the feed may be configured for
    Configurations,  \* what the configuration file may say of the feed
    Documents,       \* documents a publisher may serve
    Malformed,       \* documents that do not parse as the configured format
    Entries,         \* the entries of every document, in document order
    MaxEntries,      \* entries read of a document
    Skew,            \* ticks a source stamp may lie ahead of our clock
    MaxTime,         \* bound: the last tick the clock reaches
    MaxPublications, \* bound: documents published after the first
    MaxEdits,        \* bound: sessions built anew, with an edited configuration
    MaxFaults,       \* bound: appends cut short, lost checkpoints, deaths
    MaxRefreshes     \* bound: refreshes begun

Ticks == 0 .. MaxTime
NoTag == "none"
EntryIds == UNION {{Entries[d][i].id : i \in DOMAIN Entries[d]} : d \in Documents}
Hosts    == UNION {{Entries[d][i].host : i \in DOMAIN Entries[d]} : d \in Documents}
Texts    == UNION {{Entries[d][i].text : i \in DOMAIN Entries[d]} : d \in Documents}

Entry == [id : EntryIds, host : Hosts, text : Texts, stamp : Ticks \cup {NoTime}, usable : BOOLEAN]

ASSUME FeedAssumption ==
    /\ NoTag \notin Documents
    /\ Malformed \subseteq Documents
    /\ Entries \in [Documents -> Seq(Entry)]
    /\ \A c \in Configurations :
          /\ c.endpoint \in Endpoints /\ c.enabled \in BOOLEAN
          /\ c.symbols \in Seq({c.symbols[n] : n \in DOMAIN c.symbols})
    /\ {MaxTime, MaxEntries, Skew, MaxPublications, MaxEdits, MaxFaults, MaxRefreshes} \subseteq Nat

VARIABLES
    now,        \* the host's clock
    published,  \* the document each endpoint serves
    items,      \* documents.jsonl
    links,      \* associations.jsonl
    checkpoint, \* checkpoint.json
    config,     \* the configuration each session was built with
    pc,         \* where each session is
    work,       \* what each session knows of its refresh
    result,     \* how each session's last refresh ended
    overlapped, \* two refreshes have run at once: history, that nothing reads
    left        \* what is left of each bound

files == <<items, links>>
vars == <<now, published, files, checkpoint, config, pc, work, result, overlapped, left>>

-----------------------------------------------------------------------------
(* Fingerprints.                                                           *)

(* config_fingerprint: all that changes what a record means.               *)
Vintage(c) == [endpoint |-> c.endpoint, symbols |-> c.symbols]

NoCheckpoint == [endpoint |-> NoTag, tag |-> NoTag]

(* checkpoint.load and validators_for: only to the endpoint they are from. *)
Validator(endpoint) ==
    IF checkpoint.endpoint = endpoint THEN checkpoint.tag ELSE NoTag

IsForeign(endpoint) == checkpoint # NoCheckpoint /\ checkpoint.endpoint # endpoint

-----------------------------------------------------------------------------
(* Normalization.                                                          *)

(* An implausible stamp costs the claim, not the entry.                    *)
Plausible(stamp, t) == IF stamp <= t + Skew THEN stamp ELSE NoTime

(* Seeded fault: an entry without a usable stamp is given no availability. *)
ItemOfUnresolved(entry, c, t) ==
    LET stamp == Plausible(entry.stamp, t) IN
    [id |-> entry.id, host |-> entry.host, text |-> entry.text, stamp |-> stamp,
     retrieved_at |-> t, available_from |-> stamp, vintage |-> Vintage(c), revision |-> 1]

(* _normalize_entry, for the configuration c and a refresh that began at t.*)
ItemOf(entry, c, t) ==
    LET stamp == Plausible(entry.stamp, t) IN
    [id |-> entry.id, host |-> entry.host, text |-> entry.text, stamp |-> stamp,
     retrieved_at |-> t, available_from |-> IF stamp = NoTime THEN t ELSE stamp,
     vintage |-> Vintage(c), revision |-> 1]

(* The positions of the entries that are read.                             *)
ReadEntries(d) == {n \in DOMAIN Entries[d] : n <= MaxEntries}

IsTruncated(d) == Len(Entries[d]) > MaxEntries

IsUsable(entry) == entry.usable

(* normalize_feed: what it refuses is counted and left out.                *)
UsableEntries(d) == {n \in ReadEntries(d) : IsUsable(Entries[d][n])}

(* The loop over what is left, in document order.                          *)
EntriesAfter(d, n) == {m \in UsableEntries(d) : m > n}

FirstAfter(d, n) == CHOOSE m \in EntriesAfter(d, n) : \A k \in EntriesAfter(d, n) : m <= k

-----------------------------------------------------------------------------
(* Steps of a session.                                                     *)

NoRow ==
    [id |-> NoTag, host |-> NoTag, text |-> NoTag, stamp |-> NoTime, retrieved_at |-> NoTime,
     available_from |-> NoTime, vintage |-> NoTag, revision |-> 0]

(* sound: the store could be read when the refresh began.  History, that   *)
(* nothing reads.                                                          *)
NoWork ==
    [built_at |-> NoTime, sound |-> TRUE, warned |-> FALSE, request |-> NoTag, doc |-> NoTag,
     tag |-> NoTag, at |-> 0, link |-> 1, row |-> NoRow, clean |-> TRUE, outcome |-> "none"]

NoResult == [outcome |-> "none", doc |-> NoTag, config |-> CHOOSE c \in Configurations : TRUE]

Healthy == {"success", "no_items", "not_modified", "truncated", "checkpoint_warning"}

Spend(budget) == left[budget] > 0 /\ left' = [left EXCEPT ![budget] = @ - 1]

Goto(s, label) == pc' = [pc EXCEPT ![s] = label]

(* The refresh ends; its snapshot reads the files and changes nothing.     *)
Finish(s, outcome) ==
    /\ Goto(s, "idle")
    /\ result' = [result EXCEPT ![s] =
          [outcome |-> outcome, doc |-> work[s].doc, config |-> config[s]]]
    /\ work' = [work EXCEPT ![s] = NoWork]

(* refresh: the clock is read once, for every feed.                        *)
Begin(s) ==
    /\ pc[s] = "idle"
    /\ Spend("refreshes")
    /\ work' = [work EXCEPT ![s].built_at = now, ![s].sound = Readable(items) /\ Readable(links)]
    /\ overlapped' = (overlapped \/ \E o \in Sessions \ {s} : pc[o] # "idle")
    /\ Goto(s, "begun")
    /\ UNCHANGED <<now, published, files, checkpoint, config, result>>

SkipDisabled(s) ==
    /\ pc[s] = "begun"
    /\ ~config[s].enabled
    /\ Finish(s, "unconfigured")
    /\ UNCHANGED <<now, published, files, checkpoint, config, overlapped, left>>

(* Seeded fault: only the entries' file is looked at.                      *)
AreItemsSound == Readable(items)

(* health: both files.                                                     *)
IsSound == Readable(items) /\ Readable(links)

(* Integrity first: nothing is fetched on top of a damaged store.          *)
RefuseDamaged(s) ==
    /\ pc[s] = "begun"
    /\ config[s].enabled
    /\ ~IsSound
    /\ Finish(s, "storage_corruption")
    /\ UNCHANGED <<now, published, files, checkpoint, config, overlapped, left>>

Prepare(s) ==
    /\ pc[s] = "begun"
    /\ config[s].enabled
    /\ IsSound
    /\ work' = [work EXCEPT ![s].request = Validator(config[s].endpoint),
                            ![s].warned = IsForeign(config[s].endpoint)]
    /\ Goto(s, "fetching")
    /\ UNCHANGED <<now, published, files, checkpoint, config, result, overlapped, left>>

Served(s) == published[config[s].endpoint]

(* What the session keeps of an answer.                                    *)
Answered(s, tag) ==
    [NoWork EXCEPT !.built_at = work[s].built_at, !.sound = work[s].sound, !.doc = Served(s), !.tag = tag]

(* Unreachable, refused, rate-limited, redirected or too large.            *)
FetchFails(s) ==
    /\ pc[s] = "fetching"
    /\ Finish(s, "failed")
    /\ UNCHANGED <<now, published, files, checkpoint, config, overlapped, left>>

(* 304: the checkpoint is written again, with the validators of this       *)
(* answer, which may be none.                                              *)
NotModified(s) ==
    /\ pc[s] = "fetching"
    /\ work[s].request = Served(s)
    /\ \E tag \in {Served(s), NoTag} :
          work' = [work EXCEPT ![s] = [Answered(s, tag) EXCEPT !.outcome = "not_modified"]]
    /\ Goto(s, "saving")
    /\ UNCHANGED <<now, published, files, checkpoint, config, result, overlapped, left>>

RefuseFormat(s) ==
    /\ pc[s] = "fetching"
    /\ Served(s) \in Malformed
    /\ Finish(s, "unsupported")
    /\ UNCHANGED <<now, published, files, checkpoint, config, overlapped, left>>

(* How a refresh is reported whose entries could all be written.           *)
Verdict(s, d) ==
    IF IsTruncated(d) THEN "truncated"
    ELSE IF work[s].warned THEN "checkpoint_warning"
    ELSE IF UsableEntries(d) = {} THEN "no_items"
    ELSE "success"

(* 200: the document, with validators or without.  A publisher may send it *)
(* again whatever was asked.                                               *)
Fetch(s) ==
    /\ pc[s] = "fetching"
    /\ Served(s) \notin Malformed
    /\ \E tag \in {Served(s), NoTag} :
          work' = [work EXCEPT ![s] =
              [Answered(s, tag) EXCEPT !.outcome = Verdict(s, Served(s)),
                                       !.at = IF UsableEntries(Served(s)) = {} THEN 0
                                              ELSE FirstAfter(Served(s), 0)]]
    /\ Goto(s, IF UsableEntries(Served(s)) = {} THEN "saving" ELSE "classifying")
    /\ UNCHANGED <<now, published, files, checkpoint, config, result, overlapped, left>>

-----------------------------------------------------------------------------
(* One entry: its item, then its links.                                    *)

NewItem(s) == ItemOf(Entries[work[s].doc][work[s].at], config[s], work[s].built_at)

NewLink(s) ==
    [id |-> NewItem(s).id, symbol |-> config[s].symbols[work[s].link],
     vintage |-> Vintage(config[s])]

(* Seeded fault: a failed entry is counted and forgotten.                  *)
NextEntryUncounted(s, clean) ==
    IF EntriesAfter(work[s].doc, work[s].at) # {}
    THEN /\ work' = [work EXCEPT ![s].at = FirstAfter(work[s].doc, @), ![s].link = 1, ![s].row = NoRow]
         /\ Goto(s, "classifying")
         /\ UNCHANGED result
    ELSE Goto(s, "saving") /\ UNCHANGED <<work, result>>

(* To the next entry, or past the last: a refresh that could not write     *)
(* every entry is reported as failed and leaves the checkpoint alone.      *)
NextEntry(s, clean) ==
    IF EntriesAfter(work[s].doc, work[s].at) # {}
    THEN /\ work' = [work EXCEPT ![s].at = FirstAfter(work[s].doc, @), ![s].link = 1, ![s].row = NoRow,
                                 ![s].clean = @ /\ clean]
         /\ Goto(s, "classifying")
         /\ UNCHANGED result
    ELSE IF work[s].clean /\ clean
    THEN Goto(s, "saving") /\ UNCHANGED <<work, result>>
    ELSE Finish(s, "failed_write")

(* To the next symbol, or past the last.                                   *)
NextLink(s, n) ==
    IF n <= Len(config[s].symbols)
    THEN /\ work' = [work EXCEPT ![s].link = n, ![s].row = NoRow]
         /\ Goto(s, "linking")
         /\ UNCHANGED result
    ELSE NextEntry(s, TRUE)

IsClassified(s, outcomes) == Readable(items) /\ Classified(items, NewItem(s)) \in outcomes

(* The row is made up of what was read: another session may append first.  *)
PrepareRow(s) ==
    /\ work' = [work EXCEPT ![s].row = Revised(items, NewItem(s))]
    /\ Goto(s, "appending")
    /\ UNCHANGED result

(* Seeded fault: links are written for new and revised items only.         *)
ClassifyDuplicateDone(s) ==
    /\ pc[s] = "classifying"
    /\ \/ ~Readable(items) /\ NextEntry(s, FALSE)
       \/ IsClassified(s, {"conflict", "duplicate"}) /\ NextEntry(s, TRUE)
       \/ IsClassified(s, {"accepted", "revision"}) /\ PrepareRow(s)
    /\ UNCHANGED <<now, published, files, checkpoint, config, overlapped, left>>

(* write_item reads the file strictly, and raises on damage.               *)
Classify(s) ==
    /\ pc[s] = "classifying"
    /\ \/ ~Readable(items) /\ NextEntry(s, FALSE)
       \/ IsClassified(s, {"conflict"}) /\ NextEntry(s, TRUE)
       \/ IsClassified(s, {"duplicate"}) /\ NextLink(s, 1)
       \/ IsClassified(s, {"accepted", "revision"}) /\ PrepareRow(s)
    /\ UNCHANGED <<now, published, files, checkpoint, config, overlapped, left>>

AppendItem(s) ==
    /\ pc[s] = "appending"
    /\ items' = Appended(items, work[s].row)
    /\ NextLink(s, 1)
    /\ UNCHANGED <<now, published, links, checkpoint, config, overlapped, left>>

(* write, flush or fsync raises: the entry is refused, its siblings go on. *)
AppendItemRaises(s) ==
    /\ pc[s] = "appending"
    /\ Spend("faults")
    /\ items' \in CutShort(items, work[s].row)
    /\ NextEntry(s, FALSE)
    /\ UNCHANGED <<now, published, links, checkpoint, config, overlapped>>

(* write_link reads the links strictly; one that is stored is not repeated.*)
FindLink(s) ==
    /\ pc[s] = "linking"
    /\ \/ ~Readable(links) /\ NextEntry(s, FALSE)
       \/ Readable(links) /\ IsLinked(links, NewLink(s)) /\ NextLink(s, work[s].link + 1)
       \/ /\ Readable(links) /\ ~IsLinked(links, NewLink(s))
          /\ Goto(s, "appending_link")
          /\ UNCHANGED <<work, result>>
    /\ UNCHANGED <<now, published, files, checkpoint, config, overlapped, left>>

AppendLink(s) ==
    /\ pc[s] = "appending_link"
    /\ links' = Appended(links, NewLink(s))
    /\ NextLink(s, work[s].link + 1)
    /\ UNCHANGED <<now, published, items, checkpoint, config, overlapped, left>>

AppendLinkRaises(s) ==
    /\ pc[s] = "appending_link"
    /\ Spend("faults")
    /\ links' \in CutShort(links, NewLink(s))
    /\ NextEntry(s, FALSE)
    /\ UNCHANGED <<now, published, items, checkpoint, config, overlapped>>

-----------------------------------------------------------------------------
(* The checkpoint, last: one atomic replace.                               *)

(* Seeded fault: the validators saved are asked for when they are saved.   *)
SaveCurrent(s) ==
    /\ pc[s] = "saving"
    /\ checkpoint' = [endpoint |-> config[s].endpoint, tag |-> Served(s)]
    /\ Finish(s, work[s].outcome)
    /\ UNCHANGED <<now, published, files, config, overlapped, left>>

Save(s) ==
    /\ pc[s] = "saving"
    /\ checkpoint' = [endpoint |-> config[s].endpoint, tag |-> work[s].tag]
    /\ Finish(s, work[s].outcome)
    /\ UNCHANGED <<now, published, files, config, overlapped, left>>

(* Never fatal: the outcome stands.                                        *)
SaveFails(s) ==
    /\ pc[s] = "saving"
    /\ Spend("faults")
    /\ Finish(s, work[s].outcome)
    /\ UNCHANGED <<now, published, files, checkpoint, config, overlapped>>

-----------------------------------------------------------------------------
(* Around the sessions.                                                    *)

IsBusy == \E s \in Sessions : pc[s] # "idle"

(* The dashboard dies, with all its sessions; one append may be under way. *)
Crash ==
    /\ IsBusy
    /\ Spend("faults")
    /\ \/ UNCHANGED files
       \/ \E s \in Sessions :
             /\ pc[s] = "appending"
             /\ items' \in CutShort(items, work[s].row)
             /\ UNCHANGED links
       \/ \E s \in Sessions :
             /\ pc[s] = "appending_link"
             /\ links' \in CutShort(links, NewLink(s))
             /\ UNCHANGED items
    /\ pc' = [s \in Sessions |-> "idle"]
    /\ work' = [s \in Sessions |-> NoWork]
    /\ result' = [s \in Sessions |-> NoResult]
    /\ UNCHANGED <<now, published, checkpoint, config, overlapped>>

(* The configuration file is edited and a session is built from it.        *)
Reconfigure(s) ==
    /\ pc[s] = "idle"
    /\ Spend("edits")
    /\ \E c \in Configurations \ {config[s]} : config' = [config EXCEPT ![s] = c]
    /\ result' = [result EXCEPT ![s] = NoResult]
    /\ UNCHANGED <<now, published, files, checkpoint, pc, work, overlapped>>

Publish(e) ==
    /\ Spend("publications")
    /\ \E d \in Documents \ {published[e]} : published' = [published EXCEPT ![e] = d]
    /\ UNCHANGED <<now, files, checkpoint, config, pc, work, result, overlapped>>

Tick ==
    /\ now < MaxTime
    /\ now' = now + 1
    /\ UNCHANGED <<published, files, checkpoint, config, pc, work, result, overlapped, left>>

Init ==
    /\ now = 0
    /\ published \in [Endpoints -> Documents]
    /\ items = EmptyFile
    /\ links = EmptyFile
    /\ checkpoint = NoCheckpoint
    /\ config \in [Sessions -> Configurations]
    /\ pc = [s \in Sessions |-> "idle"]
    /\ work = [s \in Sessions |-> NoWork]
    /\ result = [s \in Sessions |-> NoResult]
    /\ overlapped = FALSE
    /\ left = [publications |-> MaxPublications, edits |-> MaxEdits,
               faults |-> MaxFaults, refreshes |-> MaxRefreshes]

SessionStep(s) ==
    \/ Begin(s) \/ SkipDisabled(s) \/ RefuseDamaged(s) \/ Prepare(s)
    \/ FetchFails(s) \/ NotModified(s) \/ RefuseFormat(s) \/ Fetch(s)
    \/ Classify(s) \/ AppendItem(s) \/ AppendItemRaises(s)
    \/ FindLink(s) \/ AppendLink(s) \/ AppendLinkRaises(s)
    \/ Save(s) \/ SaveFails(s) \/ Reconfigure(s)

Next ==
    \/ \E s \in Sessions : SessionStep(s)
    \/ Crash
    \/ \E e \in Endpoints : Publish(e)
    \/ Tick

Spec == Init /\ [][Next]_vars

-----------------------------------------------------------------------------
(* Types.                                                                  *)

Vintages == {Vintage(c) : c \in Configurations}
Symbols  == UNION {{c.symbols[n] : n \in DOMAIN c.symbols} : c \in Configurations}
Tags     == Documents \cup {NoTag}

ItemRow ==
    [id : EntryIds, host : Hosts, text : Texts, stamp : Ticks \cup {NoTime},
     retrieved_at : Ticks, available_from : Ticks, vintage : Vintages, revision : Nat \ {0}]

LinkRow == [id : EntryIds, symbol : Symbols, vintage : Vintages]

Labels ==
    {"idle", "begun", "fetching", "classifying", "appending", "linking", "appending_link", "saving"}

Verdicts ==
    Healthy \cup {"none", "unconfigured", "storage_corruption", "failed", "unsupported", "failed_write"}

Work ==
    [built_at : Ticks \cup {NoTime}, sound : BOOLEAN, warned : BOOLEAN, request : Tags, doc : Tags, tag : Tags,
     at : Nat, link : Nat \ {0}, row : ItemRow \cup {NoRow}, clean : BOOLEAN,
     outcome : Verdicts]

(* Every variable keeps its type; in particular every row stored is a      *)
(* well-formed observation with a revision of at least 1.                  *)
TypeOK ==
    /\ now \in Ticks
    /\ published \in [Endpoints -> Documents]
    /\ items \in File(ItemRow)
    /\ links \in File(LinkRow)
    /\ checkpoint \in [endpoint : Endpoints, tag : Tags] \cup {NoCheckpoint}
    /\ config \in [Sessions -> Configurations]
    /\ pc \in [Sessions -> Labels]
    /\ work \in [Sessions -> Work]
    /\ result \in [Sessions -> [outcome : Verdicts, doc : Tags, config : Configurations]]
    /\ overlapped \in BOOLEAN
    /\ left \in [{"publications", "edits", "faults", "refreshes"} -> Nat]

-----------------------------------------------------------------------------
(* Properties.                                                             *)

IsObserved(entry) ==
    \E i \in DOMAIN items.rows :
        /\ items.rows[i].id = entry.id
        /\ items.rows[i].host = entry.host
        /\ items.rows[i].text = entry.text

(* The identifier already means something on another host.                 *)
IsConflict(entry) ==
    \E i \in DOMAIN items.rows :
        items.rows[i].id = entry.id /\ items.rows[i].host # entry.host

(* Stored, and linked to every symbol of a configuration for the endpoint. *)
IsHeld(entry, endpoint) ==
    /\ IsObserved(entry)
    /\ \E c \in Configurations :
          /\ c.endpoint = endpoint
          /\ \A n \in DOMAIN c.symbols :
                IsLinked(links, [id |-> entry.id, symbol |-> c.symbols[n], vintage |-> Vintage(c)])

Holds(d, endpoint) ==
    \A n \in UsableEntries(d) :
        LET entry == Entries[d][n] IN IsConflict(entry) \/ IsHeld(entry, endpoint)

(* The store is durable before the checkpoint moves: while both files can  *)
(* be read, every entry the checkpoint would let the publisher answer with *)
(* 304 is stored with its links, whatever failed, died or overlapped.      *)
CheckpointNeverAhead ==
    Readable(items) /\ Readable(links) /\ checkpoint.tag # NoTag
        => Holds(checkpoint.tag, checkpoint.endpoint)

Reported == {"success", "truncated", "checkpoint_warning"}

(* A refresh that reports its document as processed has stored every entry *)
(* of it and linked it to every symbol configured: one entry that failed   *)
(* is enough for the refresh to say so.                                    *)
HealthyMeansStored ==
    \A s \in Sessions :
        LET r == result[s] IN
        r.outcome \in Reported /\ Readable(items) /\ Readable(links) =>
            \A n \in UsableEntries(r.doc) :
                LET entry == Entries[r.doc][n] IN
                \/ IsConflict(entry)
                \/ /\ IsObserved(entry)
                   /\ {r.config.symbols[m] : m \in DOMAIN r.config.symbols}
                          \subseteq SymbolsFor(links, entry.id)

IsNextRevision(i, j) ==
    /\ items.rows[i].id = items.rows[j].id
    /\ i < j
    /\ \A k \in i + 1 .. j - 1 : items.rows[k].id # items.rows[i].id

(* As long as no two refreshes have overlapped, the rows of an item are    *)
(* one history: revisions 1, 2, 3 in file order, on one host, no two       *)
(* neighbours alike; and no link is recorded twice.                        *)
OneHistoryPerItem ==
    Readable(items) /\ ~overlapped =>
        /\ \A j \in DOMAIN items.rows :
              \/ items.rows[j].revision = 1 /\ \A i \in 1 .. j - 1 : items.rows[i].id # items.rows[j].id
              \/ \E i \in 1 .. j - 1 :
                    /\ IsNextRevision(i, j)
                    /\ items.rows[j].revision = items.rows[i].revision + 1
                    /\ items.rows[j].host = items.rows[i].host
                    /\ ~SameContent(items.rows[i], items.rows[j])
        /\ \A i, j \in DOMAIN links.rows : links.rows[i] = links.rows[j] => i = j

(* No refresh under way read the clock at t or before.                     *)
IsPast(t) == t < now /\ \A s \in Sessions : pc[s] # "idle" => work[s].built_at > t

(* latest_items(as_of) replays what this system knew: once a moment is     *)
(* past and no refresh that began by then is under way, nothing that is    *)
(* fetched later changes the answer for it.                                *)
ReplayIsStable ==
    [][\A t \in Ticks : IsPast(t) /\ Readable(items') => Replay(items', t) = Replay(items, t)]_vars

(* A strictly causal query that trusts only our own observation gains      *)
(* nothing for a past moment from what is fetched later, backfilled        *)
(* entries and rewritten ones included.                                    *)
PastAnswersNeverGrow ==
    [][\A t \in Ticks : IsPast(t) /\ Readable(items') => Answer(items', t) \subseteq Answer(items, t)]_vars

(* A damaged store stops ingestion and freezes the checkpoint: while every *)
(* refresh under way began on a store with an unreadable line, in either   *)
(* file, no byte of the three files changes.                               *)
DamageFreezes ==
    [][~(Readable(items) /\ Readable(links)) /\ (\A s \in Sessions : pc[s] # "idle" => ~work[s].sound)
         => UNCHANGED <<files, checkpoint>>]_vars

(* "A new symbol is associated even when the item is an unchanged          *)
(* duplicate": after a refresh that ended well, every stored entry of the  *)
(* document served is linked to every symbol its feed is configured for.   *)
NewSymbolIsAssociated ==
    \A s \in Sessions :
        LET r == result[s] IN
        r.outcome \in Healthy /\ Readable(items) /\ Readable(links) =>
            \A n \in UsableEntries(r.doc) :
                LET entry == Entries[r.doc][n] IN
                IsObserved(entry) /\ ~IsConflict(entry) =>
                    {r.config.symbols[m] : m \in DOMAIN r.config.symbols}
                        \subseteq SymbolsFor(links, entry.id)

(* "The next refresh will fetch unconditionally": after a refresh whose    *)
(* entries could not be written, the same session's next request carries   *)
(* no validator.                                                           *)
FailedWriteFetchesUnconditionally ==
    \A s \in Sessions :
        result[s].outcome = "failed_write" /\ pc[s] = "fetching" => work[s].request = NoTag
=============================================================================
