# AI Market Analysis: a verification development

TLA+ models of the parts of this repository that keep state, TLC runs on small
instances of them, and TLAPS proofs of the core for every value of its
constants. Paths below are relative to the repository; its Python packages are
under `src/`.

## 1. The system

A research tool for daily bars. It fetches bars for a symbol, computes
features, lets a fixed set of hypotheses classify the last settled bar,
aggregates them into an assessment, and keeps what it claimed in a ledger so
that what followed can be measured later. Around this core are news and feed
ingestion, an explanation service, a paper portfolio, a scanner, an unattended
daily collection and a one-time validation of what was collected.

| Component | State | Operations | Talks to | What makes it correct |
|---|---|---|---|---|
| Outcome ledger (`outcomes/store.py`, `models.py`) | two JSONL files per (symbol, interval, basis) | `register_artifact`, `append_outcome`, strict reads | called by the refresh | one line per key; an outcome's claim is in the ledger; damage stops writes; an append that returned is durable |
| Outcome refresh (`application/outcomes.py`, `outcomes/tracking.py`, `evaluation/evaluate.py`, `cli/outcome_refresh.py`) | its own snapshot, held claims, present outcomes | one refresh = register the tail's claims, measure what is due | snapshot, ledger, provider | no hindsight; a claim is never altered; a refresh cut short is carried on by the next |
| Prospective collection (`application/prospective.py`, `prospective/store.py`, `definition.py`, `records.py`) | manifest, lock file, run log, ledger root | `activate`, `collect`, `health` | the refresh, the clock, git | exclusion; durable intent; claims only on time; refusals write nothing |
| Prospective provenance (`prospective/provenance.py`) | none | `verify_provenance` | read by collect, health, validation | every record is a completed run's, an interrupted run's (excluded), or condemns the root |
| Future validation (`application/future_validation.py`, `future_validation/`, `research/future_validation*.py`) | unlock, result, report (write-once) | gate, open, resume, verify | prospective root | opened once; a crash between two files is finished, not repeated |
| Feeds (`application/feeds.py`, `feeds/`) | item and association files, checkpoint per source | refresh, read | HTTP | checkpoint never ahead of the store; one source's failure is its own |
| News (`application/news.py`, `news/`) | documents, revisions, associations | refresh, read | EDGAR, Yahoo | idempotent; conflicting identity is reported; revisions numbered without gaps |
| Dashboard session (`dashboard/app.py`) | session state | refresh, scan, explain, paper actions | all of the above | nothing on screen describes research that has been replaced |
| Paper portfolio (`portfolio/`, `application/paper.py`) | positions, processed intents | apply an intent under a policy | dashboard | limits hold after every approval; an intent acts once |
| Reasoning (`application/reasoning*.py`, `reasoning/`) | none between calls | explain | a model API | one packet, one request, one validated answer |
| Scanner (`application/scanner.py`, `scanner/`) | none between scans | scan, rank | snapshot | a failing symbol is isolated; ranking is total and stable |
| Market data (`data/`) | CSV cache | get_bars, merge, load | vendors | settled bars only; a merge loses nothing |
| Outcome summary (`outcomes/summary.py`) | none | `summarize_outcomes` | reads the ledger, without a lock | every claim counted once; only what the two reads agree on |
| Assessments (`assessments/`) | none | aggregate observations under a policy | snapshot | order independence, exact counts |
| Features, strategies, evaluation metrics | none | pure functions | snapshot | alignment, order independence |
| Offline studies (`research/`, `cli/`) | output files | batch runs | data set | reproducible |

The hard behaviours are: read-then-append without a lock; lines and runs cut
short by a crash; a clock that is read once and used later, and that may step
back; a vendor that restates, withdraws and delivers late; two collectors and
a foreign writer; a verdict that must survive all of it and, once negative,
stay negative. `PROJECT.json` lists each at its line.

## 2. The modules

| Module | What it is |
|---|---|
| `JsonlFile` | one append-only file: its rows and whether its end is clean, torn or buried; reads, appends, appends cut short |
| `OutcomeRefresh` | the ledger and the refreshes of one partition, the vendor and the clock |
| `ClaimBook` | abstract: a book of claims and of what followed them, entered once, never altered, closed when spoilt |
| `Provenance` | the collection's time rules and `verify_provenance`, as functions |
| `ProspectiveCollection` | activate, collect and health over one root; composes `Provenance` and `JsonlFile` |
| `FeedStore` | the two files of one feed: strict reads, appends that look at nothing, latest revisions, links, queries |
| `FeedIngestion` | the refreshes of one feed by dashboard sessions, its checkpoint and its publisher; composes `FeedStore` |
| `OutcomeReport` | the same refreshes with what they report; forward measurement by index, tracking results |
| `OutcomeSummary` | a summary whose two reads are apart, among those refreshes |
| `ValidationEngine` | the engine of the future validation as operators: exclusions, stop rule, cutoffs, episodes, adequacy, categories |
| `FutureValidation` | the `run` command over three write-once files and a root that keeps growing; composes `ValidationEngine` |
| `Opening` | abstract: evidence that grows is opened once, when due, and answered once, from what was opened |
| `NewsStore` | the two files of one news source: tolerant and strict reads, revisions, conflicting identities, links, queries |
| `NewsIngestion` | the news service: the ticker map, one refresh over two sources, its snapshot; composes `NewsStore` |
| `Assessments`, `ResearchSnapshot` | aggregation under a policy; one build of a symbol's research with its classified failures |
| `Ranking` | sorting, by position: what Python's `sorted` returns |
| `Scanner`, `Reasoning` | universes, rows and ranking; packet, answers and their validation. Pure |
| `PaperPortfolio` | the portfolio as a value, its rules, and the two forms of the session |
| `DashboardSession` | one browser session, handler by handler; composes the above, from `Assessments` on |
| `CommonProofs` | lemmas several proofs need: least elements, sizes, sums over finite sets, rankings, the file of `JsonlFile` |
| `OutcomeRefreshProofs`, `ProspectiveCollectionProofs`, `FeedIngestionProofs`, `NewsIngestionProofs`, `FutureValidationProofs` | the theorems about the module of that name |
| `DashboardSessionProofs` | the theorems about `DashboardSession`, `Scanner` and `PaperPortfolio` |
| `OutcomeReadersProofs` | the theorems about `OutcomeReport` and `OutcomeSummary` |
| `MC...` | values for the constants that a `.cfg` cannot write, bounds and symmetry |

### OutcomeRefresh

`artifacts` and `outcomes` are the two files. A writer in `Writers` is a
running refresh; `snap`, `held`, `present`, `at` and `line` are the local
variables of `build_snapshot` and `refresh_outcomes` (`snapshot`, `held`,
`present`, the loop position, the row about to be appended).

| Actions | Code |
|---|---|
| `Begin`, `Fetch` | `build_snapshot`: the clock is read, then the provider answers. A provider that raises is `Killed` while fetching: nothing has been written |
| `Open`, `OpenRaises` | `refresh_outcomes` reads the artifacts once |
| `OfferNew`, `OfferDuplicate`, `OfferRaises`, `AppendArtifact` | `register_artifact` for each current claim: the read and its verdict, then `_append` |
| `ReadPresent`, `ReadPresentRaises` | the outcome keys are read once |
| `Pass`, `Measure`, `MeasureDuplicate`, `MeasureRaises`, `AppendOutcome` | one (claim, horizon) item: present, out of window, pending, ineligible, refused; or `evaluate_artifact` and `append_outcome` |
| `Finish` | the result is returned |
| `ArtifactCutShort`, `OutcomeCutShort`, `Killed` | a write, flush or fsync that raises; a process that dies |
| `Tick`, `Restate`, `Withdraw`, `SwitchSource`, `StepClockBack` | the environment (external) |

A read and the append that follows are two steps, because no lock is held
between them; a read of one file is one step, because a file is read with one
`read_bytes`. Time is counted in days. A bar is stamped with the first instant
of its day and a clock reading is a later instant of its own day, which is why
the code's strict comparisons between a reading and a bar become `>=` here.

### Provenance and ProspectiveCollection

Time is counted in ticks. `DayLength` ticks make a New York day, `WindowTicks`
are those of the collection window. No two clock readings are equal
(`IsFreshReading`), as no two are the same microsecond: without this the
verifier's matching by exact equality would have collisions that the program
cannot meet. A row carries `by`, the run that wrote it: history that no
decision reads and the properties are stated with.

| Actions | Code |
|---|---|
| `BeginActivation`, `WriteManifest`, `ActivationFails` | `activate`, `write_manifest`: lock file first, manifest second, a failure leaves a root nothing retries |
| `Collect`, `TakeLock`, `GiveUp` | `collect`, `exclusive_lock` with its bounded wait |
| `LogIsCorrupt`, `Decide`, `AppendStart` | `_collect_locked`: run log, decision in the code's order, run start |
| `Visit`, `BuildSnapshot`, `SnapshotUnusable`, `LedgerIsCorrupt`, `TailIsStale`, `BeginRefresh` | `_collect_symbol` up to the refresh |
| `RegisterClaim`, `RegisterRaises`, `ReadOutcomes`, `WriteOutcome`, `MeasureRaises`, `FinishSymbol` | the refresh of one symbol. Each append is one step: the collector is alone under the lock, and the interleavings inside a refresh are `OutcomeRefresh`'s |
| `AppendRecord` | the run record |
| `RefreshFails`, `Crash` | a refresh that raises part-way; a process that dies, its append all, none or partly on disk |
| `BeginHealth`, `EndHealth`, `HealthLocked` | `health` under the shared lock, and the report it computes there |
| `ForeignClaim`, `ForeignOutcome` | `cli/outcome_refresh.py` pointed at this ledger |
| `Tick`, `StepClockBack` | the host's clock (external) |

`Verdict` is `verify_provenance` evaluated on the files as they are, so a
property may ask for the verdict in any state, not only where the code does.

`Decide` tells a run's refusals apart as far as health counts them: the live
configuration, the window, the collector (its commit, its tree and its installed
packages, one choice) and the two refusals of provenance. Only `config_mismatch`
precedes the window, as in the code.

### OutcomeReport and OutcomeSummary

`OutcomeReport` runs beside `OutcomeRefresh`: every step of a refresh that
concludes something about a claim or an item appends it to `report`
(`Registers`, `Concludes`), the others leave it (`Silent`) and its end clears it
(`Over`). Its measurement is the code's: positions in the sorted series, the
reference at the next position and the future `horizon - 1` further
(`MeasureAt`), with the statuses and refusals of `evaluate_artifact`. It is a
second account of what `OutcomeRefresh` decides by quantifiers over days, and
`ReportIsTrue` compares the two through the ledger.

`OutcomeSummary` is a reader: it adds no variable and no step. Its two reads are
apart, so the artifacts it holds are those of some earlier moment, which in an
append-only file is a prefix of the lines there now; `FirstReads` are all the
prefixes that could be read. What it computes are operators of such a first read
and of the outcomes as they are (`OutcomesLoad`, the groups, the totals,
`IsSummarized`). A claim registered and measured between the two reads makes the
second one raise, because its outcome embeds a claim the first did not see
(`IsOvertaken`): the property says that this is the only way. `EvaluationVersion`
is 1, as every outcome of this build carries. Medians, spreads and hit rates of a
group are left out.

### FeedStore and FeedIngestion

`items`, `links` and `checkpoint` are `documents.jsonl`, `associations.jsonl`
and `checkpoint.json` of one feed. A session is a `FeedService` with the
configuration it was built from; `work` holds the local variables of
`_refresh_one` and `result` what it returned. `overlapped` and `work.sound` are
history that no step reads and the properties are stated with. The file model
is not `JsonlFile`: this store reads a last line that lacks only its newline as
a row, and appends without looking, so that the next row runs on from it and
both become unreadable (`Appended`).

| Actions | Code |
|---|---|
| `Begin`, `SkipDisabled` | `refresh`: one clock reading for all feeds, feeds switched off |
| `RefuseDamaged`, `Prepare` | `store.health`; `CheckpointStore.load` and `validators_for` |
| `FetchFails`, `NotModified`, `RefuseFormat`, `Fetch` | `fetch_feed` and its exceptions, `parse_feed_bytes`, `normalize_feed` |
| `Classify`, `AppendItem`, `AppendItemRaises` | `write_item`: the read and its verdict, then `_append` |
| `FindLink`, `AppendLink`, `AppendLinkRaises` | `write_link` for each configured symbol |
| `Save`, `SaveFails` | `_save_checkpoint`; a failure is not fatal. The last write that fails ends the refresh instead |
| `Crash` | the dashboard process dies with all its sessions, an append under way all, none or partly on disk |
| `Reconfigure` | a session built anew from an edited configuration file |
| `Publish`, `Tick` | the publisher and the clock (external) |

The publisher may send validators or none, and may answer a conditional request
in full; it answers 304 only for the document the validator names.

### ValidationEngine, FutureValidation and Opening

A runner is one `run` command; `work` holds what it has read. `unlock`, `result`
and `report` are the three artifacts; `opened` and what was told are history for
the refinement. The collector is kept to what a snapshot can tell apart: which
of its runs have a start, a record and rows, and what they list as missed. A run
of it goes through the universe symbol by symbol, and `collector` is its place: a
visit lists what was missed since the last registered claim and no further back
(`MissedTails`, the floor of `definition.py:287`); then the claims of the tail
are registered one by one, the validated hypothesis' first; then outcomes are
measured one by one. It may die before any of these, with its list unwritten; it
may be run again on the same day and complete a partial set; a symbol may fail,
lag behind (`VisitStale`) or never answer. Every day is a session, and the
provider returns every settled bar up to its tail. A defect that raises between
the list of misses and the refresh, after which `_collect_symbol_guarded` records
the symbol without its list, is left out.

| Actions | Code |
|---|---|
| `Begin`, `BeginUnbound`, `ReadNamedUnlock`, `ReadOtherUnlock`, `ReadUnlock` | `run`, `_finish_report`: the manifest's binding, the result, the unlock it names |
| `Reopen`, `ReopenRefused` | `_from_unlock`: the recorded prefixes are captured again and must rebuild the unlock |
| `Capture`, `CaptureRefused`, `Open`, `OpenRefused` | `_capture_locked` under the shared lock, the gate, `write_once` of the unlock |
| `Derive`, `WriteResult`, `WriteRaises`, `Complete` | `_derive_result`, `_write_result` |
| `WriteReport`, `FinishReport`, `ReportDiffers` | the report, written once or compared |
| `Crash` | a run that dies between any two of these |
| `CollectorStarts`, `CollectorEnds`, `CollectorDies` | `_collect_locked`: the start, the record with the misses, a run that dies |
| `VisitSymbol`, `VisitStale`, `SymbolFails`, `SymbolDone` | `_collect_symbol`: the list of misses, the rule of the current tail, a failure |
| `RegisterClaim`, `MeasureOutcome` | `refresh_outcomes`: one claim, one outcome |
| `ForeignRow` | a row that no run of the collector wrote (external) |
| `EditResult`, `EditReport`, `EditUnlock`, `EditFrozenRow`, `Reactivate`, `TouchCheckout`, `CleanCheckout` | what a later run must notice (external) |

The digest of a file's prefix is the prefix. A return is an integer of which only
order and sign are used; a mean is kept as a sum and a count. `status` and
`verify` write nothing: they are the gate and `Derive` without the writes.

What splits episodes is not that every miss is listed. A run that dies after its
first claim of a bar takes its list with it, and no later run lists below that
claim. But the claim stays: excluded, it is still a position, so the episodes of
the hypothesis that is registered first are split there
(`MissedSessionsSplitEpisodes`). For a hypothesis registered after it this is not
so: a run of the same day completes the set, its own claim counts, its record
lists nothing before that bar, and an episode may run across the session that
was missed. `docs/research/future_validation_v1.md:190` speaks of known missed
tails, so such a miss is simply not known; the sentence "missing observations
never bridge one" holds for the validated hypothesis only, and the property says
so. TLC finds the other case as soon as the exception is taken out.

### NewsStore and NewsIngestion

One process, one writer: what comes between the steps of a refresh is its death.
The file model is a third one, because this store reads tolerantly for display
and strictly for writing, knows rows of a newer schema, and like the feeds' store
takes an unterminated last line for a row.

| Actions | Code |
|---|---|
| `Compose` (`WithoutContact`, `KeepStoredMap`, `FetchMap`) | `build_service`, `read_sec_contact`, `load_cik_map`, `CikMapStore` |
| `Begin`, `SkipUnconfigured`, `SkipUnlisted`, `FetchFails`, `Fetch` | `NewsService.refresh`, `_refresh_one` up to the first record |
| `WriteDocument`, `WriteLink`, `WriteRaises` | one record: `write_document`, `write_link`, an append that raises |
| `Finish` | `_load`, `_overall_status`, `NewsSnapshot` |
| `Crash`, `NewSession` | the dashboard dies; a tab is closed and another opened |
| `PublishMap`, `NewerBuildWrites` | reassigned tickers, a newer build's rows (external) |

The clock moves between refreshes only. `SymbolNotSupported` cannot happen,
because Yahoo covers every symbol.

### DashboardSession and what it composes

A run of the script (`run`) is a stage and the assignments still to make
(`todo`); `Assign` makes one, `Abandon` is another press that ends the script
there. `session` holds the keys of `st.session_state` that a property reads.
The paper portfolio's own variables are `PaperPortfolio`'s.

| Actions | Code |
|---|---|
| `Press`, `Handoff`, `Controls`, `Finish` | a press, a parked symbol, the controls, the end of the script |
| `Build`, `ComposeLedger`, `Track` | `refresh`: `build_snapshot`, then the outcome refresh and its failures |
| `RefreshNews`, `RefreshFeeds` | the two service panels |
| `LoadUniverses`, `ReloadUniverses`, `SelectUniverse`, `BeginScan`, `ScanSymbol`, `ScanFails`, `PublishScan`, `OpenInResearch` | the scanner panel and `scan` |
| `ComposeReasoning`, `Explain`, `Explained`, `Raised` | `explain_with_ai` |
| `Mint`, `SubmitOpen`, `SubmitClose` | the paper panel over `OpenLong` and `ClosePosition` |

A text is one of a few kinds (plain, in the vocabulary of trading, with a line
break, empty), which is all that validation tells apart. In `MCDashboard` a
behaviour exercises one panel at a time (`Panels`), and one of them is a caller
of the paper session that may submit any identifiers it ever held.

## 3. The runs

| Run | Instance | Question |
|---|---|---|
| `outcome_refresh` | one writer, a hypothesis and the policy, horizons 1 and 2, two sources, four days, one vendor edit, one fault | is the ledger sound and a book of claims, and the report true? |
| `outcome_summary` | two writers, two sources, one claim a day, three days, one vendor edit; every first read a summary may hold | what holds with no lock at all, and what may a reader make of it? |
| `outcome_liveness` | one writer, two producers, three days, one edit, one clock step, one fault | does an interrupted refresh resume? |
| `prospective_collection` | two runs, a health reader, days of three ticks, two of them in the window, until the third window closes; then one of: two deaths; two collectors and a death (the second window); a foreign write and a death; a clock step of any size; a death, a foreign write and a clock step together (the second window) | exclusion, timeliness, what validation may use, and which verdicts survive |
| `prospective_two_deaths` | one collector, two runs, two deaths, longer days | the first finding below |
| `feed_ingestion` | one session, two endpoints, a feed that may be switched off, four documents, one publication, one edit, one fault, three refreshes | is the checkpoint behind the store, damage frozen, the past stable? |
| `feed_two_sessions` | two sessions with different symbols, one endpoint, two documents, one publication, one fault, two refreshes | what holds when refreshes overlap? |
| `feed_new_symbol` | one session whose configuration gains a symbol | the second finding below |
| `feed_failed_write` | one session, one fault, three refreshes | the third finding below |
| `future_validation` | one primary and one secondary symbol, two hypotheses, one horizon; two runners and a crash; or one with a failure of any symbol, a failure beside a silent symbol, a foreign row, an edited file, or a dying collector that is run again the same day and skips a day; three to five days | one opening, one answer, blind, and split where a session is missing or its run was lost |
| `news` | two symbols, two registrants, two identifiers, three refreshes; one fault, or two new ticker maps, or a newer build | histories, links, and nothing lost uncounted |
| `dashboard` | two symbols; six panels, each with its presses (`MCPanels`) | what is shown belongs together; whole scans; a sound paper portfolio |

Why the bounds are enough. Two horizons are the least that tell a horizon from
"the next bar"; four days let a claim be made, its longer horizon complete, and
a bar be edited under it. Contents have two values because they are only
compared (and are symmetric for that reason). A hypothesis whose state follows
the bar before the last makes a restated bar change a later claim, so `CONFLICT`
is reached. One claim of two producers is the least partial set. Two runs are
the least in which one completes what another left. `Environments` gives the
bounds that hold together in one behaviour; each hazard of a root needs one or
two of them, and their product would add no interplay the code has. A third of
a day is the least that leaves a tick outside the window and two inside; the
window opens with the day here and a tick into it in `prospective_two_deaths`.
Two collectors run until the second window closes: the lock, and what a second
run finds of a first, need no third.
`Weekend` is empty there: a weekday skipped is a day without a run.
`StepClockBack` and the faults of `OutcomeRefresh` fire in the liveness run, two
writers that measure alike (`MeasureDuplicate`) and `SwitchSource` in
`outcome_summary`. Of the feed's documents two
differ in an entry's text, one moves identifiers to another host around an
entry nobody can identify and is longer than `MaxEntries`, and one does not
parse; three refreshes are the least in which a document is stored, another
fails to be, and the request after it is seen. One fault leaves every kind of
torn or unterminated line for the refreshes after it. Two sessions differ in
nothing but their name until they choose a configuration, and every property
checked there treats them alike, so symmetry is sound. Deadlock is not checked: a
system whose clock has reached its bound and whose faults are spent may stop.
Five days let evidence be due by its minimum, by force, or not at all, with a
session missed in between and a bar claimed twice over. A miss, a death after the
first of two claims and a run of the same day are the least that loses a list.
The states of the validated hypothesis' claims of the primary symbol are free;
other claims and all returns take one value, since what is checked there depends
on which rows there are: `GateIsBlind` is proved for any values, and the answer
is a function of the snapshot. Three news refreshes store a
document, revise or damage it, and show what came of it. Two presses of a button
are the least in which an abandoned handler is followed by another; the paper
panel opens and closes twice under limits that the second opening can break, and
its clock may be set back once.

Fairness (`FairSpec`, the liveness run only). `Begin`: the schedule, or a user,
keeps refreshing; without that no outcome is ever due to anybody. `Step`: a
running refresh is straight-line code and does not wait for anything. `Tick`:
time passes. Faults, the vendor and the clock's steps are not fair.
`PartialRefreshResumes` is conditional on nothing standing in the way for good
(`IsUnobstructed`): a bar that stays withdrawn does stop every later refresh at
its claim, and that is what the code does.

### Findings

`prospective_two_deaths` violates `DeathsOnlyDegrade`. The operator's guide
says of a death after writing that provenance is degraded and collection
continues (`docs/prospective_collection.md:698`). `interrupted_run_for`
(`prospective/provenance.py:542`) tries the latest interrupted run first and
lets it explain readings up to five seconds before its start. When two runs die
and the second starts within five seconds of the first one's last snapshot, the
first one's claims are put to the second; if it wrote claims of its own the
group has two clocks and every claim in it is unmatched, so provenance is
invalid, for good. `DeathsOnlyDegrade` holds when the deaths are further apart.

`feed_new_symbol` violates `NewSymbolIsAssociated`. A test
(`tests/test_application_feeds.py:621`) says that a new symbol is associated
even when the item is an unchanged duplicate. It is when the publisher sends
the document again, as that test's does. When it answers 304,
`_refresh_one` returns before any association is written
(`application/feeds.py:341`), and the checkpoint is keyed on the endpoint and
not on the symbols, so every later refresh asks the same way: until the
document changes, the new symbol has no items.

`feed_failed_write` violates `FailedWriteFetchesUnconditionally`. The message
of a refresh that could not write an entry says that the next refresh will
fetch unconditionally (`application/feeds.py:423`). It leaves the checkpoint as
it is, so after an earlier success the next request carries the validators of
that success. The test of it (`tests/test_application_feeds.py:320`) has no
earlier success. `CheckpointNeverAhead` still holds: the document named by the
old checkpoint is stored.

Met on the way and not stated as findings, either because no document says
otherwise or because no run is spent on them:

- A feed query for a past moment looks at the latest revisions only, so an item
  rewritten since is missing from it; an entry is stamped as retrieved when its
  refresh began, not when it was fetched.
- `explain_with_ai` says that of its two outcomes "exactly one of them is set on
  the way out" (`dashboard/app.py:624`). A reply whose text has a line break
  makes `require_text` (`reasoning/models.py:154`) raise a bare
  `ReasoningError`, which no handler expects; the script ends with neither set
  (`Raised`). Nothing stale is shown then, which `ShownBelongsToSnapshot` checks.
- The ticker map is said to be refreshed with `If-Modified-Since`
  (`docs/news.md:198`). `_fetch_cik_map` (`application/news.py:508`) passes no
  such header and returns the stored vintage, which is therefore always empty.
  The cache is written in place, so a write cut short switches EDGAR off until
  the map is fetched again.
- A filing made jointly has one accession number under two registrants. Fetched
  under the second, it is refused as a reused identifier and counted as a
  conflict: it is never shown for the second symbol.
- The architecture record says that an invalid ledger stays invalid
  (`docs/adr/0013-prospective-collection-and-holdout.md:213`). After a step back
  of the clock within the tolerance, the run that is refused for it writes a
  start and a record before the reading it took, and this record ends the
  interval of an interrupted run earlier than before: two snapshots that were one
  group of two clocks are told apart, and the verdict is `degraded` again.
  `InvalidIsFinal` and `SpacedDeathsOnlyDegrade` are therefore stated for clocks
  that run forward (`seen.stepped`).
- A run that dies more than an hour after its start, or past midnight, leaves
  orphans that no interval explains, and the root is invalid: the policy says so.
- A bar listed as missed may be claimed after all when the clock is set back by
  a day (`MissedStaysMissed` is stated for clocks that run forward).
- A dashboard script abandoned between a new snapshot and the clearing of the
  last failure shows both until the next run; a parked symbol is applied over
  one typed meanwhile. A form submitted again acts under fresh identifiers,
  because the handler reads the pending ones anew.

## 4. The proofs

`OutcomeRefreshProofs` proves of `OutcomeRefresh!Spec`, for any writers,
producers, horizons, sources, contents, classification and bounds:

| Theorem | Property | Assumes |
|---|---|---|
| `TypeCorrect` | `TypeOK` | the module's ASSUMEs |
| `RegistrationPrecedes` | `OutcomesRegistered` | the same; any number of writers |
| `NoHindsight` | `OutcomesProspective` | the same; any number of writers |
| `KeysStayApart`, `BeliefsHold`, `DamageStays` | `OneLinePerKey`, `BeliefsAreDurable`, `DamageIsFinal` | one writer |
| `LedgerIsABook` | `ImplementsBook` | one writer |

One writer is what `outcomes/store.py:64` requires ("One local process, one
writer"); it is the named assumption `SingleWriter`, and the theorems that need
it name it. Two writers do break `OneLinePerKey`.

The argument has four layers, each an inductive invariant that uses the ones
before it.

- `TypeInv` is `TypeOK` and `Fits`: while a writer registers, the claim it is at
  exists; while it appends, the line is of the file's kind and is the one its
  position asks for. `TypeOK` alone is not inductive, because `AppendArtifact`
  would append a line of unknown kind.
- `RegistrationInv`: an outcome line about to be appended embeds an artifact
  line already in the file. Files only grow (`RowsGrow`), so the check
  `append_outcome` made stays true until it writes, whoever else writes.
- `HindsightInv`: claims are sound (their cutoff is before their registration
  clock), a fetched series holds only bars opened by the snapshot's clock, and
  lines and pending lines are prospective. The heart is
  `OutcomeOfProperties`: the horizon's days are exactly `horizon` many
  (`FirstDaysCount`, by well-ordering of cardinalities, with no induction over
  data), all later than the claim, with the reference first and the future last.
- `LoneInv`: with one writer, while it is about to append, the key is absent
  from the file and the file is clean; what it holds is on disk.

`DamageStays` and `LedgerIsABook` are step properties proved from `LoneInv`;
the refinement maps every append to one entry, a torn or buried line to a part
being spoilt, and everything else to a stutter.

### OutcomeReadersProofs

| Theorem | Property | Assumes |
|---|---|---|
| `SummariesReconcile` | `SummaryReconciles` | the modules' ASSUMEs; any number of writers |
| `ReportsAreTrue` | `ReportIsTrue` | one writer |
| `MeasuredByIndex` | index arithmetic and the horizon by days agree, for every series, bar and horizon | the modules' ASSUMEs |
| `TrackingResultHolds` | every result of `evaluate_artifact` passes the checks of `TrackingResult` | the modules' ASSUMEs |

`OutcomeReport` only adds a variable to `OutcomeRefresh` (`ReportStepIsStep`),
`OutcomeSummary` nothing, so the invariants above hold beside them and are used
here.

- `SummariesReconcile` follows from `TypeInv`, `RegistrationInv`, `HindsightInv`
  and `NamedInv`: a line carries the key that its own content computes. From
  these a first read is a set of claims that the file still holds whole, a line
  is refused only if its claim is missing from that read
  (`LoadsUnlessOvertaken`), and no coverage or metric group contradicts itself.
  The totals are folds over the groups. `CommonProofs` gives a sum over a finite
  set an explicit witness (`TotalOf`), by the well-ordering of sizes, shows that
  the fold of the community modules is that sum, and that the sizes of disjoint
  pieces add up to the size of their union.
- `ReportsAreTrue` needs `ReportInv`, which ties the report to the place of the
  refresh: while claims are registered, the registrations are the claims behind
  it; while items are measured, the items are exactly the pairs of claim and
  horizon behind it (`ItemsFollow`), each reported once and truly, and none of
  them is due without its line (`PairIsSettled`); and what is about to be
  appended is the measurement of the item the refresh is at (`LineIsDue`).
  `ReportIsTrue` alone is not inductive: it does not say which pairs have been
  passed. `LoneInv` supplies what one writer may believe of the file between its
  check and its append; with two, another refresh may append in between.

### ProspectiveCollectionProofs

| Theorem | Property | Argument |
|---|---|---|
| `TypeCorrect` | `TypeOK` | the lock is held exactly by the collector past it, and a run's symbols are a prefix of the universe |
| `TornLogStops` | `TornLogFreezes` | who is past its decision saw a clean log, and only the holder appends: the log cannot be torn under it |
| `ClaimsAreProspective` | `OwnClaimsAreProspective` | what a run holds before it registers (`bars`, `tail`, `built_at`) passed the window and the tail rule with the very clock the claims are stamped with |
| `MissedForGood` | `MissedStaysMissed` | without a backward step a later reading is later than the deadline of any bar that a run listed as missed, in the log or in a run under way |
| `ForeignStaysOut` | `ForeignIsNeverPrimary` | no foreign row shares its reading with a run that has its record, so nothing explains it but an interrupted run, whose claims are excluded |
| `HealthReportIsTrue` | `HealthIsTrue` | the log is in pairs of a start and its record, no collector is at work while health reads, and every outcome is of a claim in its file |
| `CompletedRunsAreValid` | `CompletedRunsSurviveClockSteps` | every row is tied to the refresh that wrote it, and every refresh to the rows it counted, however the clock moved |
| `SpacedDeathsAreDegraded` | `SpacedDeathsOnlyDegrade` | readings follow the order of runs, so a row that no record explains falls into the interval of the run that wrote it, and that run wrote about the symbol at one time and of one tail |
| `InvalidStaysInvalid` | `InvalidIsFinal` | over an invalid ledger collectors only refuse, a refusal takes no row to another run, and what made the ledger invalid stands |

From `ForeignStaysOut` on they rest on a chain of invariants about the readings of
the clock and about the rows, each proved from the ones before it:

- `ReadingsApart`: no two runs have a reading in common, and none shares one with
  a foreign row. This is what makes the verifier's matching by exact equality
  sound, and it is the form in which `IsFreshReading` survives files, records and
  runs under way.
- `Orderly`: a run's start stands in the log before its record and nothing
  stands there twice; a collector past its decision has its start there.
- `Founded`, `Younger`: an outcome's claim is in the file of its symbol, and was
  stamped earlier.
- `ClaimsTied`, `OutcomesTied`: while its run is under way or has its record,
  every claim and outcome is in the hands of the collector that writes it or has
  a refresh of one clock and one tail (`IsTied`).
- `Counted`: the two counters of a refresh, under way or recorded, are the
  numbers of its rows. A count grows by one with the append of a row
  (`OneMore`), so no induction over data is needed.

- `Numbered`, `Forward`: runs stand in the log in the order of their numbers, and
  without a backward step their readings follow that order: every reading of a
  run, start, snapshot or row, is earlier than any of a later run, and none is
  before the activation.
- `OneClock`: whatever a run wrote about a symbol carries one reading and one
  tail, which is what the verifier means by one snapshot.
- `StaysCondemned`: from the moment a ledger is found invalid between two runs it
  is `Condemned`, and no collector gets past its decision.

Two lemmas turn the verdict into a statement about single rows.
`SoundIsReconcilable` and `UnsoundIsInvalid` say that between runs, over readable
files and with every start after the activation, a ledger is invalid exactly when
it is `Unsound`: a row with a problem of its own, a row that neither a record nor
an interrupted run explains, or two rows of one symbol put to one interrupted run
that are not of one snapshot. The counts of records and the bound on claims of one
tail never decide, because `Traced` (the chain above) already gives them.
`RefusalEndsInterval` is the core of `InvalidStaysInvalid`: a refusal, appended
with the latest reading, can only end an interval early, so each reading is put to
the run it was put to or to none, and either keeps the ledger `Unsound`. This is
where the run forward of the clock is needed: after a backward step a refusal can
separate two snapshots that were one invalid group.

TLC checked each of them on the instances of the run before it was proved. The
conclusions quantify over every clause of `verify_provenance`: no row with a
problem of its own, none unmatched, none over the number of producers, and every
recorded count the real one.

### FeedIngestionProofs and NewsIngestionProofs

| Theorem | Property |
|---|---|
| `FeedIngestionProofs!TypeCorrect` | `TypeOK` |
| `ReplayStays`, `NothingIsBackfilled` | `ReplayIsStable`, `PastAnswersNeverGrow` |
| `DamagedStoreIsFrozen` | `DamageFreezes` |
| `CheckpointIsBehindStore`, `ReportedIsStored` | `CheckpointNeverAhead`, `HealthyMeansStored`: without overlapping refreshes and under one configuration, as the properties say |
| `ItemsHaveOneHistory` | `OneHistoryPerItem` |
| `VerifiedIsRegistrant` | `VerifiedMeansRegistrant` |
| `HistoriesStayWhole` | `HistoriesAreWhole`: revisions numbered from 1 without a gap, by induction over writes and not over data |
| `NothingLostUncounted` | `NothingIsLostUncounted` |

The feed's invariant says, of a refresh under way, which entries of its document
are already in the store, so that the checkpoint it saves at its end is about
stored entries only. The news invariant `Sound` has four parts: `Typed`, `Stored`
(what may stand in the files), `Fetched` (what a refresh carries is what its
source published) and `HalfWritten` (what the write under way may have left);
`Accounting` adds that every record of the document is stored, refused or
counted. Positions in a document take the place of counts wherever a count would
need induction over data.

### FutureValidationProofs

| Theorem | Property |
|---|---|
| `TypeCorrect` | `TypeOK` |
| `OpensOnce` | `ImplementsOpening`: every step is a step of `Opening` or a stutter |
| `GateIsBlind` | `StopRuleIsBlind`: two evidence sets that differ in states and returns only are opened alike |
| `EpisodesAreUnbroken` | `MissedSessionsSplitEpisodes` |

The refinement rests on an invariant that ties what a runner read to the files:
an unlock is write-once, and a runner past its gate carries either the unlock on
disk or one that nobody wrote yet. The engine is proved about as pure operators
of the rows it is given.

`EpisodesAreUnbroken` is proved for any number of hypotheses, symbols, deaths,
reruns and failures. `MissedSessionsSplitEpisodes` is about what was opened; the
invariant behind it, `SessionsKept`, is about the files and the run under way:

- `Tracked`, of files without foreign rows (the gate refuses the others): no
  producer's claim stands at a bar without the validated hypothesis'
  (`LedByPrimary`), and every bar before such a claim of a recorded run is listed
  as missed by a record, or a claim stands between (`Traced`).
- `UnderWay`, of the run under way: the same of its own claims and of the list it
  carries; it has claimed nothing for the symbols ahead; and once it has listed a
  symbol's misses either the first claim is still to come and nothing is held at
  or after the tail, or that claim is held (`Ready`). This is where the floor and
  the order of registration are used.
- `Frozen`: what a runner is about to open, and what was opened, was `Tracked`.

A member of an episode at a bar is then a claim beside one of the validated
hypothesis; unless that is excluded, its run has a record, so that between the
member and the position before it lies nothing but listed bars or claims, which
would be positions: there is nothing between (`WholeSplits`).

### DashboardSessionProofs

| Theorem | Property |
|---|---|
| `LimitsAreKept`, `IntentsActOnce`, `HistoryStays` | `LimitsHold`, `EachIntentActsOnce`, `HistoryIsKept`, of the paper session alone, under any policy |
| `SessionKeepsLimits`, `SessionKeepsHistory` | the same three of the dashboard, whose handlers are its only callers |
| `ScreenBelongs` | `ShownBelongsToSnapshot` |
| `ScanStaysWhole` | `ScanIsWhole` |

`ScreenBelongs` needs the invariant `ScreenSound`: the keys of the session, the
shape of a run, that clock readings are never shared by two builds, and
`Pending`, which says of every stage which assignments may still be outstanding.
Without `Pending` a run abandoned between two assignments could leave anything.

`ScanStaysWhole` needs `ScanSound`: a scan under way has one row for each of the
first symbols of its universe, every row is one that `ScanOne` can return, what
is published or about to be published is whole, and every universe of the session
is a list without repetition. That the candidates are the assessed rows in strict
order rests on `RankedProperties` of `CommonProofs`: `Ranked` of a finite set
under a strict total order is a permutation of it in that order. The order of
rows is one because `RankKey` ends in the symbol and a universe names none twice.

### What the theorems assume

Only the named assumptions of the modules, which TLC evaluates in the runs.
Those that proofs made explicit: a feed's symbols and a universe are sequences
of their elements, and so is the order of the symbols; an answer of the data is an
error, no bars or a classified series, and a file of universes a list of them
(`IsAnswer`, `IsFile`, over the members of `Panels`); a validation's frozen definition is finite; its universe and its producers are
lists of the symbols and hypotheses, no symbol twice, the validated hypothesis
first (`OrderAssumption`, as `definition.py:114` asks and as `ENSEMBLE`,
`application/snapshot.py:90`, and `_current_artifacts` order the claims);
the ticker map names environments of the declared shape and no source is called
`None`; the paper clock is set back at most once (`MaxClockSteps`), and `NotYet`
is no reading. Absent values are records of their own shape (`None` of
`FutureValidation`, `NoSnapshot` of `DashboardSession`), so that a comparison
with them is always defined.

### Only model-checked

- `PartialRefreshResumes`: liveness, and fairness is out of the prover's reach.
- the three runs that expect a violation.

Every invariant and every action property of the passing runs is stated by a
theorem. What the theorems do not replace is the reading of the code: that an
instance is rich enough to reach the interesting cases is what the runs and
`PROJECT.json`'s mutants show.

No module uses RECURSIVE operators.

## 5. Not modelled

Row encoding and canonical JSON (a file is its rows and the state of its end);
prices and returns; the one temporary name that two sessions share when both save
a feed's checkpoint (`feeds/checkpoint.py:163`; the replace is one step here); the
form and the filing date of a filing, which `news/identity.py:131` pins beside the
registrant that `NewsIngestion!Signature` keeps; what hypotheses compute (`Classify` is any function);
fields that every record of a root has in common; reading git and the installed
packages (their verdict is the choice `CollectorIdentity`); the refusals of an
activation, which precede every state; the statistics of a summary; prompts and
the wire format of the model API; tables, wording and rendering. Market data
beyond what a refresh fetches, features, strategies, evaluation metrics and the
offline studies have no module: they are arithmetic without state, or one-shot
batches. They are listed in `PROJECT.json` with their reasons.

## 6. Plan

In this order:

1. An abstract specification of what a feed, or a news source, promises its
   readers.
2. Pure rules against reference definitions: series validation, CSV merge,
   evaluation metrics.

A new question takes the place of a run that shares its instance, as the merged
prospective run does.
