------------------------ MODULE ProspectiveCollection ------------------------
(***************************************************************************)
(* Prospective collection: application/prospective.py (activate, collect,  *)
(* health) over prospective/store.py (manifest, lock, run log) and the     *)
(* outcome ledger below the same root.                                     *)
(*                                                                         *)
(* One root.  Collectors are processes that run collect, started by the    *)
(* scheduler or by hand; health is a reader.  They exclude each other with *)
(* a lock file.  The generic outcome_refresh does not take the lock and    *)
(* can be pointed at this ledger: its writes are foreign.                  *)
(*                                                                         *)
(* Inside one symbol's refresh only the order of its appends is kept here; *)
(* OutcomeRefresh has its reads, its measurements and their failures.  One *)
(* outcome horizon, the next bar, stands for all of them.                  *)
(***************************************************************************)
EXTENDS Provenance, JsonlFile, Functions

CONSTANTS
    Collectors,      \* processes that run collect
    MaxTime,         \* bound: the last tick the clock can reach
    Environments,    \* bounds: in one behaviour, how many faults (crashes,
                     \* appends cut short, refreshes that raise), how many
                     \* foreign writes, how many steps of the clock backwards,
                     \* how many collectors at once, and the last tick
    MaxRuns          \* bound: collect invocations that get the lock

Ticks == 0 .. MaxTime
Days  == 0 .. Date(MaxTime)
NoTime == -1
NoDay  == -1
Nobody == "nobody"

ASSUME CollectionAssumption ==
    /\ Collectors # {}
    /\ Nobody \notin Collectors
    /\ MaxTime \in Nat /\ MaxRuns \in Nat
    /\ \A e \in Environments :
          /\ DOMAIN e = {"faults", "foreign", "steps", "collectors", "last"}
          /\ \A bound \in DOMAIN e : e[bound] \in Nat
          /\ e.last \in Ticks

VARIABLES
    now,         \* the host's clock
    root,        \* absent, locked (lock file only), unusable, or active
    activated_at,\* the manifest's activation time
    log,         \* runs.jsonl
    claims,      \* artifacts.jsonl of each symbol
    outcomes,    \* outcomes.jsonl of each symbol
    holder,      \* the collector that holds the lock exclusively
    reading,     \* health holds the lock shared
    pc,          \* where each collector is
    run,         \* what each collector knows of its run
    runs,        \* collect invocations that got the lock: the next run id
    left,        \* what is left of each bound
    seen         \* history: whether the ledger was found invalid between two
                 \* runs, and whether the clock was stepped back

manifest == <<root, activated_at>>
ledger   == <<claims, outcomes>>
lock     == <<holder, reading>>
vars == <<now, manifest, log, ledger, lock, pc, run, runs, left, seen>>

-----------------------------------------------------------------------------
(* The ledger's rows.  by is the run that wrote a row: history, that no    *)
(* file holds and no decision reads.                                       *)

Foreign == 0
Producers == 1 .. ClaimsPerTail

ClaimRow(symbol, producer, d, t, writer) ==
    [symbol |-> symbol, key |-> <<producer, d>>, timestamp |-> d,
     recorded_at |-> t, by |-> writer]

OutcomeRow(claim, t, writer) ==
    [symbol |-> claim.symbol, key |-> <<claim.key, 1>>, claim |-> claim.key,
     evaluated_at |-> t, by |-> writer]

AllClaims   == UNION {RowSet(claims[s]) : s \in Symbols}
AllOutcomes == UNION {RowSet(outcomes[s]) : s \in Symbols}

IsReadable(symbol) == Readable(claims[symbol]) /\ Readable(outcomes[symbol])

(* evaluate_provenance: unknown unless every partition can be read.        *)
Verdict ==
    IF \E s \in Symbols : ~IsReadable(s) THEN "unknown"
    ELSE VerifyProvenance(log.rows, AllClaims, AllOutcomes, activated_at)

(* Bars that have settled by t.  The provider may return any of them.      *)
SettledDays(t) == {d \in Days \ Weekend : SettlesAt(d) <= t}

-----------------------------------------------------------------------------
(* Clock readings.                                                         *)

BuiltAt(symbol_runs) == {symbol_runs[n].built_at : n \in DOMAIN symbol_runs}

LogReadings ==
    UNION {{log.rows[i].started_at} \cup BuiltAt(log.rows[i].symbols) : i \in DOMAIN log.rows}

RunReadings(r) == {r.started_at, r.built_at} \cup BuiltAt(r.symbols)

Readings ==
    {activated_at} \cup LogReadings \cup (UNION {RunReadings(run[c]) : c \in Collectors})
    \cup {claim.recorded_at : claim \in AllClaims}
    \cup {outcome.evaluated_at : outcome \in AllOutcomes}

(* No two readings are the same microsecond.                               *)
IsFreshReading == now \notin Readings

-----------------------------------------------------------------------------
(* Activation.                                                             *)

(* The root is empty; its lock file is created.                            *)
BeginActivation ==
    /\ root = "absent"
    /\ root' = "locked"
    /\ activated_at' = now
    /\ UNCHANGED <<now, log, ledger, lock, pc, run, runs, left>>

WriteManifest ==
    /\ root = "locked"
    /\ root' = "active"
    /\ UNCHANGED <<now, activated_at, log, ledger, lock, pc, run, runs, left>>

Spend(budget) == left[budget] > 0 /\ left' = [left EXCEPT ![budget] = @ - 1]

(* activation_write_failed, or a crash: nothing retries a non-empty root,  *)
(* and an fsync that failed may have left a complete manifest.             *)
ActivationFails ==
    /\ root = "locked"
    /\ Spend("faults")
    /\ root' \in {"unusable", "active"}
    /\ UNCHANGED <<now, activated_at, log, ledger, lock, pc, run, runs>>

-----------------------------------------------------------------------------
(* Collect: under the lock, before any provider.                           *)

NoRun ==
    [id |-> 0, started_at |-> NoTime, status |-> "completed", symbols |-> <<>>,
     built_at |-> NoTime, bars |-> {}, tail |-> NoDay, missed |-> {},
     held |-> <<>>, present |-> {}, at |-> 1, artifacts_new |-> 0, outcomes_new |-> 0]

Goto(c, label) == pc' = [pc EXCEPT ![c] = label]

(* Seeded fault: the lock outlives the run.                                *)
LeaveLocked(c) ==
    /\ Goto(c, "idle")
    /\ run' = [run EXCEPT ![c] = NoRun]
    /\ UNCHANGED lock

Leave(c) ==
    /\ Goto(c, "idle")
    /\ run' = [run EXCEPT ![c] = NoRun]
    /\ holder' = Nobody
    /\ UNCHANGED reading

(* Without a manifest collect returns not_activated or invalid_manifest.   *)
Collect(c) ==
    /\ pc[c] = "idle"
    /\ root = "active"
    /\ runs < MaxRuns
    /\ Cardinality({d \in Collectors : pc[d] # "idle"}) < left.collectors
    /\ Goto(c, "waiting")
    /\ UNCHANGED <<now, manifest, log, ledger, lock, run, runs, left>>

(* Seeded fault: the lock is taken past a reader.                          *)
TakeLockPastReader(c) ==
    /\ pc[c] = "waiting"
    /\ holder = Nobody
    /\ runs < MaxRuns
    /\ IsFreshReading
    /\ holder' = c
    /\ runs' = runs + 1
    /\ run' = [run EXCEPT ![c].id = runs + 1, ![c].started_at = now]
    /\ Goto(c, "deciding")
    /\ UNCHANGED <<now, manifest, log, ledger, reading, left>>

(* The lock is free of collectors and readers; the run's clock is read.    *)
TakeLock(c) ==
    /\ pc[c] = "waiting"
    /\ holder = Nobody
    /\ ~reading
    /\ runs < MaxRuns
    /\ IsFreshReading
    /\ holder' = c
    /\ runs' = runs + 1
    /\ run' = [run EXCEPT ![c].id = runs + 1, ![c].started_at = now]
    /\ Goto(c, "deciding")
    /\ UNCHANGED <<now, manifest, log, ledger, reading, left>>

(* The bounded wait is over: locked, and nothing written.                  *)
GiveUp(c) ==
    /\ pc[c] = "waiting"
    /\ holder # Nobody \/ reading
    /\ Goto(c, "idle")
    /\ UNCHANGED <<now, manifest, log, ledger, lock, run, runs, left>>

(* Seeded fault: a torn run log is read up to the tear.                    *)
LogIsCorruptIgnored(c) ==
    /\ pc[c] = "deciding"
    /\ log.tail # "clean"
    /\ run' = [run EXCEPT ![c].status = "config_mismatch"]
    /\ Goto(c, "recording")
    /\ UNCHANGED <<now, manifest, log, ledger, lock, runs, left>>

(* A corrupt run log: nothing is written anywhere.                         *)
LogIsCorrupt(c) ==
    /\ pc[c] = "deciding"
    /\ log.tail # "clean"
    /\ Leave(c)
    /\ UNCHANGED <<now, manifest, log, ledger, runs, left>>

(* What the live code and its environment may turn out to be, against the  *)
(* frozen definition and the manifest.                                     *)
LiveConfiguration == {"ok", "config_mismatch"}

(* The commit, the working tree and the installed packages, counted as one. *)
CollectorIdentity == {"ok", "refused_collector"}

PermitsCollection(verdict) == verdict \in {"ok", "degraded"}

(* How a run may end as a whole; all but completed are refusals.           *)
RunStatuses ==
    ((LiveConfiguration \cup CollectorIdentity) \ {"ok"})
    \cup {"outside_collection_window", "provenance_unknown", "provenance_invalid", "completed"}

(* Configuration, the window, the collector, and provenance last.          *)
Decision(c, configuration, collector) ==
    IF configuration # "ok" THEN configuration
    ELSE IF ~InWindow(run[c].started_at) THEN "outside_collection_window"
    ELSE IF collector # "ok" THEN collector
    ELSE IF Verdict = "unknown" THEN "provenance_unknown"
    ELSE IF ~PermitsCollection(Verdict) THEN "provenance_invalid"
    ELSE "completed"

Decided(c, decision) ==
    /\ run' = [run EXCEPT ![c].status = decision]
    /\ Goto(c, IF decision = "completed" THEN "starting" ELSE "recording")
    /\ UNCHANGED <<now, manifest, log, ledger, lock, runs, left>>

(* Seeded fault: the verdict is computed and not looked at.                *)
DecideUnverified(c) ==
    /\ pc[c] = "deciding"
    /\ log.tail = "clean"
    /\ \E configuration \in LiveConfiguration :
          Decided(c, IF configuration # "ok" THEN configuration
                     ELSE IF InWindow(run[c].started_at) THEN "completed"
                     ELSE "outside_collection_window")

Decide(c) ==
    /\ pc[c] = "deciding"
    /\ log.tail = "clean"
    /\ \E configuration \in LiveConfiguration, collector \in CollectorIdentity :
          Decided(c, Decision(c, configuration, collector))

StartEntry(c) ==
    [kind |-> "start", id |-> run[c].id, started_at |-> run[c].started_at,
     symbols |-> <<>>, key |-> <<"start", run[c].id>>]

(* Durable before any provider exists.                                     *)
AppendStart(c) ==
    /\ pc[c] = "starting"
    /\ log' = Appended(log, StartEntry(c))
    /\ Goto(c, "visiting")
    /\ UNCHANGED <<now, manifest, ledger, lock, run, runs, left>>

-----------------------------------------------------------------------------
(* Collect: one symbol.                                                    *)

HasSymbol(c) == Len(run[c].symbols) < Len(Universe)
Symbol(c)    == Universe[Len(run[c].symbols) + 1]

(* What is told apart of a symbol-run's status: the refresh returned       *)
(* (exact), raised, or was not reached.                                    *)
CollectionStatuses == {"exact", "raised", "unreached"}

SymbolRun(c, class, tail, missed) ==
    [symbol |-> Symbol(c), class |-> class, built_at |-> run[c].built_at,
     tail |-> tail, missed |-> missed,
     artifacts_new |-> IF class = "exact" THEN run[c].artifacts_new ELSE 0,
     outcomes_new |-> IF class = "exact" THEN run[c].outcomes_new ELSE 0]

NextSymbol(c, entry) ==
    /\ run' = [run EXCEPT ![c] =
          [NoRun EXCEPT !.id = run[c].id, !.started_at = run[c].started_at,
                        !.symbols = Append(run[c].symbols, entry)]]
    /\ Goto(c, "visiting")

Unreached(c) == NextSymbol(c, SymbolRun(c, "unreached", NoDay, {}))
Raised(c)    == NextSymbol(c, SymbolRun(c, "raised", run[c].tail, run[c].missed))

(* The symbol's own look at the clock; build_snapshot reads it again.      *)
Visit(c) ==
    /\ pc[c] = "visiting"
    /\ HasSymbol(c)
    /\ IF InWindow(now) THEN Goto(c, "building") /\ UNCHANGED run ELSE Unreached(c)
    /\ UNCHANGED <<now, manifest, log, ledger, lock, runs, left>>

(* The snapshot's clock is read before anything is fetched.                *)
BuildSnapshot(c) ==
    /\ pc[c] = "building"
    /\ IsFreshReading
    /\ run' = [run EXCEPT ![c].built_at = now]
    /\ Goto(c, "fetching")
    /\ UNCHANGED <<now, manifest, log, ledger, lock, runs, left>>

(* No answer, no bar, a clock past the window, a timestamp that breaks the *)
(* convention, or a tail that settled before activation.                   *)
SnapshotUnusable(c) ==
    /\ pc[c] = "fetching"
    /\ Unreached(c)
    /\ UNCHANGED <<now, manifest, log, ledger, lock, runs, left>>

LatestOf(days) == CHOOSE d \in days : \A e \in days : e <= d

(* What the provider may answer that gets as far as the ledger.            *)
UsableAnswers(c) ==
    {bars \in SUBSET SettledDays(now) :
        /\ bars # {}
        /\ InWindow(run[c].built_at)
        /\ ~IsPreActivation(LatestOf(bars), activated_at)}

Registered(c) == RowSet(claims[Symbol(c)])

(* Settled after activation, after the last registered claim, before the   *)
(* tail, and claimed by nobody.                                            *)
MissedTails(c, bars) ==
    LET held == {claim.timestamp : claim \in Registered(c)} IN
    {d \in bars : /\ d < LatestOf(bars)
                  /\ \A e \in held : d > e
                  /\ ~IsPreActivation(d, activated_at)}

(* Seeded fault: a tail with one claim is taken for a complete one.        *)
IsStaleUnlessSeen(c, tail) ==
    /\ \A claim \in Registered(c) : claim.timestamp # tail
    /\ ~IsCurrentTail(tail, run[c].built_at)

(* Writing any claim of an incomplete tail needs the tail to be current.   *)
IsStale(c, tail) ==
    /\ Cardinality({claim \in Registered(c) : claim.timestamp = tail}) < ClaimsPerTail
    /\ ~IsCurrentTail(tail, run[c].built_at)

LedgerIsCorrupt(c) ==
    /\ pc[c] = "fetching"
    /\ ~Readable(claims[Symbol(c)])
    /\ \E bars \in UsableAnswers(c) :
          NextSymbol(c, SymbolRun(c, "raised", LatestOf(bars), {}))
    /\ UNCHANGED <<now, manifest, log, ledger, lock, runs, left>>

TailIsStale(c) ==
    /\ pc[c] = "fetching"
    /\ Readable(claims[Symbol(c)])
    /\ \E bars \in UsableAnswers(c) :
          /\ IsStale(c, LatestOf(bars))
          /\ NextSymbol(c, SymbolRun(c, "unreached", LatestOf(bars), MissedTails(c, bars)))
    /\ UNCHANGED <<now, manifest, log, ledger, lock, runs, left>>

BeginRefresh(c) ==
    /\ pc[c] = "fetching"
    /\ Readable(claims[Symbol(c)])
    /\ \E bars \in UsableAnswers(c) :
          /\ ~IsStale(c, LatestOf(bars))
          /\ run' = [run EXCEPT ![c].bars = bars,
                                ![c].tail = LatestOf(bars),
                                ![c].missed = MissedTails(c, bars),
                                ![c].held = claims[Symbol(c)].rows]
    /\ Goto(c, "registering")
    /\ UNCHANGED <<now, manifest, log, ledger, lock, runs, left>>

-----------------------------------------------------------------------------
(* Collect: the refresh of one symbol.                                     *)

(* Claims held at the start are only sighted again.                        *)
Unheld(c) ==
    {p \in Producers : \A i \in DOMAIN run[c].held : run[c].held[i].key # <<p, run[c].tail>>}

NextClaim(c) ==
    LET p == CHOOSE q \in Unheld(c) : \A r \in Unheld(c) : q <= r IN
    ClaimRow(Symbol(c), p, run[c].tail, run[c].built_at, run[c].id)

RegisterClaim(c) ==
    /\ pc[c] = "registering"
    /\ Unheld(c) # {}
    /\ Readable(claims[Symbol(c)])
    /\ NextClaim(c).key \notin Keys(claims[Symbol(c)])
    /\ claims' = [claims EXCEPT ![Symbol(c)] = Appended(@, NextClaim(c))]
    /\ run' = [run EXCEPT ![c].held = Append(@, NextClaim(c)),
                          ![c].artifacts_new = @ + 1]
    /\ UNCHANGED <<now, manifest, log, outcomes, lock, pc, runs, left>>

(* A claim registered by someone else since the refresh began conflicts.   *)
RegisterRaises(c) ==
    /\ pc[c] = "registering"
    /\ Unheld(c) # {}
    /\ \/ ~Readable(claims[Symbol(c)])
       \/ NextClaim(c).key \in Keys(claims[Symbol(c)])
    /\ Raised(c)
    /\ UNCHANGED <<now, manifest, log, ledger, lock, runs, left>>

ReadOutcomes(c) ==
    /\ pc[c] = "registering"
    /\ Unheld(c) = {}
    /\ \/ /\ Readable(outcomes[Symbol(c)])
          /\ run' = [run EXCEPT ![c].present = Keys(outcomes[Symbol(c)])]
          /\ Goto(c, "measuring")
       \/ ~Readable(outcomes[Symbol(c)]) /\ Raised(c)
    /\ UNCHANGED <<now, manifest, log, ledger, lock, runs, left>>

(* Stamped after the snapshot's clock, or its bar is missing inside the    *)
(* fetched window: the refresh ends.                                       *)
IsHardError(c, claim) ==
    \/ run[c].built_at < claim.recorded_at
    \/ claim.timestamp \notin run[c].bars

(* The first item that is neither present, out of window nor pending.      *)
Items(c) ==
    {i \in run[c].at .. Len(run[c].held) :
        LET claim == run[c].held[i] IN
        /\ <<claim.key, 1>> \notin run[c].present
        /\ \E d \in run[c].bars : d <= claim.timestamp
        /\ IsHardError(c, claim) \/ \E d \in run[c].bars : d > claim.timestamp}

Item(c) == CHOOSE i \in Items(c) : \A j \in Items(c) : i <= j

NextOutcome(c) == OutcomeRow(run[c].held[Item(c)], run[c].built_at, run[c].id)

IsRegistered(c, claim) == Readable(claims[Symbol(c)]) /\ claim \in Registered(c)

CanWriteOutcome(c) ==
    LET claim == run[c].held[Item(c)] IN
    /\ ~IsHardError(c, claim)
    /\ IsRegistered(c, claim)
    /\ Readable(outcomes[Symbol(c)])
    /\ NextOutcome(c).key \notin Keys(outcomes[Symbol(c)])

WriteOutcome(c) ==
    /\ pc[c] = "measuring"
    /\ Items(c) # {}
    /\ CanWriteOutcome(c)
    /\ outcomes' = [outcomes EXCEPT ![Symbol(c)] = Appended(@, NextOutcome(c))]
    /\ run' = [run EXCEPT ![c].at = Item(c) + 1, ![c].outcomes_new = @ + 1]
    /\ UNCHANGED <<now, manifest, log, claims, lock, pc, runs, left>>

MeasureRaises(c) ==
    /\ pc[c] = "measuring"
    /\ Items(c) # {}
    /\ ~CanWriteOutcome(c)
    /\ Raised(c)
    /\ UNCHANGED <<now, manifest, log, ledger, lock, runs, left>>

FinishSymbol(c) ==
    /\ pc[c] = "measuring"
    /\ Items(c) = {}
    /\ NextSymbol(c, SymbolRun(c, "exact", run[c].tail, run[c].missed))
    /\ UNCHANGED <<now, manifest, log, ledger, lock, runs, left>>

-----------------------------------------------------------------------------
(* Collect: the run record.                                                *)

IsRecording(c) == pc[c] = "recording" \/ (pc[c] = "visiting" /\ ~HasSymbol(c))

RecordEntry(c) ==
    [kind |-> "record", id |-> run[c].id, started_at |-> run[c].started_at,
     status |-> run[c].status, symbols |-> run[c].symbols,
     key |-> <<"record", run[c].id>>]

(* One record per run that got as far as a decision, refusals included.    *)
AppendRecord(c) ==
    /\ IsRecording(c)
    /\ log' = Appended(log, RecordEntry(c))
    /\ Leave(c)
    /\ UNCHANGED <<now, manifest, ledger, runs, left>>

-----------------------------------------------------------------------------
(* Faults.  The lock is the kernel's: it dies with its holder.             *)

(* The append that was under way, if any, put all, none or part of its     *)
(* line on the disk.                                                       *)
LedgerAppendCutShort(c) ==
    \/ UNCHANGED ledger
    \/ /\ pc[c] = "registering" /\ Unheld(c) # {}
       /\ Readable(claims[Symbol(c)])
       /\ NextClaim(c).key \notin Keys(claims[Symbol(c)])
       /\ \E file \in CutShort(claims[Symbol(c)], NextClaim(c)) :
             claims' = [claims EXCEPT ![Symbol(c)] = file]
       /\ UNCHANGED outcomes
    \/ /\ pc[c] = "measuring" /\ Items(c) # {} /\ CanWriteOutcome(c)
       /\ \E file \in CutShort(outcomes[Symbol(c)], NextOutcome(c)) :
             outcomes' = [outcomes EXCEPT ![Symbol(c)] = file]
       /\ UNCHANGED claims

LogAppendCutShort(c) ==
    \/ UNCHANGED log
    \/ pc[c] = "starting" /\ log' \in CutShort(log, StartEntry(c))
    \/ IsRecording(c) /\ log' \in CutShort(log, RecordEntry(c))

(* The refresh raised - a restated bar, a full disk, a failed fsync - and  *)
(* the run goes on with the next symbol.                                   *)
RefreshFails(c) ==
    /\ pc[c] \in {"registering", "measuring"}
    /\ Spend("faults")
    /\ LedgerAppendCutShort(c)
    /\ Raised(c)
    /\ UNCHANGED <<now, manifest, log, lock, runs>>

(* The process died, or a run-log append raised, which ends it as well.    *)
Crash(c) ==
    /\ holder = c
    /\ Spend("faults")
    /\ LedgerAppendCutShort(c)
    /\ LogAppendCutShort(c)
    /\ Leave(c)
    /\ UNCHANGED <<now, manifest, runs>>

-----------------------------------------------------------------------------
(* Health, foreign writers, the clock.                                     *)

BeginHealth ==
    /\ root = "active"
    /\ ~reading
    /\ holder = Nobody
    /\ reading' = TRUE
    /\ UNCHANGED <<now, manifest, log, ledger, holder, pc, run, runs, left>>

(* What a torn run log leaves of itself is not used.                       *)
ReadableLog == IF log.tail = "clean" THEN log.rows ELSE <<>>

(* What health says of a symbol whose two files can be read.               *)
SymbolHealth(s) ==
    LET tails == {claim.timestamp : claim \in RowSet(claims[s])}
        visits == UNION {Range(entry.symbols) : entry \in Range(ReadableLog)}
    IN  [symbol           |-> s,
         claims_total     |-> Len(claims[s].rows),
         tails_registered |-> Cardinality(tails),
         outcomes_matured |-> Len(outcomes[s].rows),
         pending          |-> Len(claims[s].rows) - Len(outcomes[s].rows),
         missed_dates     |-> (UNION {r.missed : r \in {v \in visits : v.symbol = s}}) \ tails]

RunsThat(statuses) ==
    Cardinality({i \in DOMAIN ReadableLog :
        ReadableLog[i].kind = "record" /\ ReadableLog[i].status \in statuses})

(* The report, once the lock is shared: corrupt whatever cannot be read.   *)
HealthLocked ==
    LET isSound == log.tail = "clean" /\ \A s \in Symbols : IsReadable(s)
        completed_ids == {entry.id : entry \in {e \in Range(ReadableLog) : IsCompletion(e)}}
    IN  [status     |-> IF isSound THEN "active" ELSE "corrupt",
         provenance |-> IF isSound THEN Verdict ELSE "unknown",
         symbols    |-> {SymbolHealth(s) : s \in {t \in Symbols : IsReadable(t)}},
         runs_total             |-> RunsThat(RunStatuses),
         runs_completed         |-> Cardinality(completed_ids),
         runs_outside_window    |-> RunsThat({"outside_collection_window"}),
         runs_config_mismatch   |-> RunsThat({"config_mismatch"}),
         runs_refused_collector |-> RunsThat({"refused_collector"}),
         runs_refused_provenance |-> RunsThat({"provenance_unknown", "provenance_invalid"}),
         interrupted |-> {entry.id : entry \in
                             {e \in Range(ReadableLog) : IsStart(e) /\ e.id \notin completed_ids}}]

EndHealth ==
    /\ reading
    /\ reading' = FALSE
    /\ UNCHANGED <<now, manifest, log, ledger, holder, pc, run, runs, left>>

(* A generic refresh registers a claim about any settled bar, and may die  *)
(* or fail while it does.                                                  *)
ForeignClaim(s) ==
    /\ root = "active"
    /\ Spend("foreign")
    /\ IsFreshReading
    /\ Readable(claims[s])
    /\ \E p \in Producers, d \in SettledDays(now) :
          /\ <<p, d>> \notin Keys(claims[s])
          /\ \E file \in CutShort(claims[s], ClaimRow(s, p, d, now, Foreign)) :
                claims' = [claims EXCEPT ![s] = file]
    /\ UNCHANGED <<now, manifest, log, outcomes, lock, pc, run, runs>>

(* Or measures a claim it finds there.                                     *)
ForeignOutcome(s) ==
    /\ root = "active"
    /\ Spend("foreign")
    /\ IsFreshReading
    /\ IsReadable(s)
    /\ \E claim \in RowSet(claims[s]) :
          /\ claim.recorded_at < now
          /\ \E d \in SettledDays(now) : d > claim.timestamp
          /\ <<claim.key, 1>> \notin Keys(outcomes[s])
          /\ \E file \in CutShort(outcomes[s], OutcomeRow(claim, now, Foreign)) :
                outcomes' = [outcomes EXCEPT ![s] = file]
    /\ UNCHANGED <<now, manifest, log, claims, lock, pc, run, runs>>

Tick ==
    /\ now < left.last
    /\ now' = now + 1
    /\ UNCHANGED <<manifest, log, ledger, lock, pc, run, runs, left>>

StepClockBack ==
    /\ Spend("steps")
    /\ \E t \in Ticks : t < now /\ now' = t
    /\ UNCHANGED <<manifest, log, ledger, lock, pc, run, runs>>

-----------------------------------------------------------------------------
Init ==
    /\ now = 0
    /\ root = "absent"
    /\ activated_at = NoTime
    /\ log = EmptyFile
    /\ claims = [s \in Symbols |-> EmptyFile]
    /\ outcomes = [s \in Symbols |-> EmptyFile]
    /\ holder = Nobody
    /\ reading = FALSE
    /\ pc = [c \in Collectors |-> "idle"]
    /\ run = [c \in Collectors |-> NoRun]
    /\ runs = 0
    /\ left \in Environments
    /\ seen = [condemned |-> FALSE, stepped |-> FALSE]

Activation == BeginActivation \/ WriteManifest \/ ActivationFails

Step(c) ==
    \/ Collect(c) \/ TakeLock(c) \/ GiveUp(c)
    \/ LogIsCorrupt(c) \/ Decide(c) \/ AppendStart(c)
    \/ Visit(c) \/ BuildSnapshot(c) \/ SnapshotUnusable(c)
    \/ LedgerIsCorrupt(c) \/ TailIsStale(c) \/ BeginRefresh(c)
    \/ RegisterClaim(c) \/ RegisterRaises(c) \/ ReadOutcomes(c)
    \/ WriteOutcome(c) \/ MeasureRaises(c) \/ FinishSymbol(c)
    \/ AppendRecord(c)

IsCondemned == holder = Nobody /\ Verdict = "invalid"

Move ==
    \/ Activation
    \/ \E c \in Collectors : Step(c) \/ RefreshFails(c) \/ Crash(c)
    \/ BeginHealth \/ EndHealth
    \/ \E s \in Symbols : ForeignClaim(s) \/ ForeignOutcome(s)
    \/ Tick \/ StepClockBack

Next ==
    LET condemned == seen.condemned \/ IsCondemned IN
    /\ Move
    /\ seen' = [condemned |-> condemned,
                stepped   |-> seen.stepped \/ left'.steps < left.steps]

Spec == Init /\ [][Next]_vars

-----------------------------------------------------------------------------
(* Properties.                                                             *)

Labels == {"idle", "waiting", "deciding", "starting", "visiting", "building",
           "fetching", "registering", "measuring", "recording"}

Claims ==
    [symbol : Symbols, key : Producers \X Days, timestamp : Days,
     recorded_at : Ticks, by : 0 .. MaxRuns]

SymbolRuns ==
    [symbol : Symbols, class : CollectionStatuses,
     built_at : Ticks \cup {NoTime}, tail : Days \cup {NoDay}, missed : SUBSET Days,
     artifacts_new : 0 .. ClaimsPerTail, outcomes_new : Nat]

(* Every variable holds what the code could hold; a run visits no symbol   *)
(* twice and none outside the universe; the lock is held exactly by the    *)
(* collector that is past it.                                              *)
TypeOK ==
    /\ now \in Ticks
    /\ root \in {"absent", "locked", "unusable", "active"}
    /\ activated_at \in Ticks \cup {NoTime}
    /\ log.tail \in Tails
    /\ \A i \in DOMAIN log.rows :
          /\ log.rows[i].id \in 1 .. runs /\ log.rows[i].started_at \in Ticks
          /\ log.rows[i].kind = "record" =>
                /\ log.rows[i].status \in RunStatuses
                /\ log.rows[i].symbols \in Seq(SymbolRuns)
                /\ Len(log.rows[i].symbols)
                      = IF log.rows[i].status = "completed" THEN Len(Universe) ELSE 0
    /\ claims \in [Symbols -> File(Claims)]
    /\ \A s \in Symbols : outcomes[s].tail \in Tails
    /\ holder \in Collectors \cup {Nobody}
    /\ reading \in BOOLEAN
    /\ pc \in [Collectors -> Labels]
    /\ \A c \in Collectors :
          /\ run[c].id \in 0 .. runs
          /\ Len(run[c].symbols) <= Len(Universe)
          /\ (holder = c) <=> (pc[c] \notin {"idle", "waiting"})
    /\ runs \in 0 .. MaxRuns

(* "Never a false corruption or provenance finding from a half-written     *)
(* state": while health reads, a run it counts as interrupted is no run    *)
(* under way, and is one the verifier counts too; every run log entry is   *)
(* counted once; a symbol's pending outcomes are exactly its claims        *)
(* without one, and no verdict is given over what cannot be read.          *)
HealthIsTrue ==
    reading =>
        LET report == HealthLocked IN
        /\ \A c \in Collectors : run[c].id \notin report.interrupted
        /\ report.interrupted = {ReadableLog[i].id : i \in Interrupted(ReadableLog)}
        /\ Len(ReadableLog) =
              report.runs_total + report.runs_completed + Cardinality(report.interrupted)
        /\ \A health \in report.symbols :
              health.pending = Cardinality(
                  {claim \in RowSet(claims[health.symbol]) :
                      \A o \in RowSet(outcomes[health.symbol]) : o.claim # claim.key})
        /\ report.provenance = "unknown" <=> report.status = "corrupt"

(* The prospective rule, for every claim the collector ever wrote, over    *)
(* crashes, partial sets completed by a later run and a stale provider: it *)
(* was stamped inside the window, on the tail's own next weekday at the    *)
(* latest, about a bar that settled after activation.                      *)
OwnClaimsAreProspective ==
    \A claim \in AllClaims :
        claim.by # Foreign =>
            /\ InWindow(claim.recorded_at)
            /\ IsCurrentTail(claim.timestamp, claim.recorded_at)
            /\ ~IsPreActivation(claim.timestamp, activated_at)

HasNoForeignRow ==
    /\ \A claim \in AllClaims : claim.by # Foreign
    /\ \A outcome \in AllOutcomes : outcome.by # Foreign

(* "A writer by any other tool carries its own clock reading, which no run *)
(* record holds": between runs, a ledger that validation may use has every *)
(* foreign record, and every outcome measured from a foreign claim, on the *)
(* list of what validation must exclude.                                   *)
ForeignIsNeverPrimary ==
    (holder = Nobody /\ ~HasNoForeignRow /\ PermitsCollection(Verdict)) =>
        /\ \A claim \in AllClaims :
              claim.by = Foreign =>
                  <<claim.symbol, claim.key>> \in
                      ExcludedClaims(log.rows, AllClaims, activated_at)
        /\ \A outcome \in AllOutcomes :
              (\/ outcome.by = Foreign
               \/ \E claim \in AllClaims :
                     /\ claim.symbol = outcome.symbol /\ claim.key = outcome.claim
                     /\ claim.by = Foreign) =>
                  <<outcome.symbol, outcome.key>> \in
                      ExcludedOutcomes(log.rows, AllClaims, AllOutcomes, activated_at)

(* A run that wrote within the hour, and the date, of its start.           *)
WasPrompt(row, t) ==
    \A i \in DOMAIN log.rows :
        (IsStart(log.rows[i]) /\ log.rows[i].id = row.by) =>
            /\ Date(t) = Date(log.rows[i].started_at)
            /\ t - log.rows[i].started_at <= MaxSpan

(* "A collection died after writing.  Collection continues": nothing that  *)
(* prompt collectors do, dying wherever they may, makes provenance         *)
(* invalid, which would end the collection for good.                       *)
DeathsOnlyDegrade ==
    (/\ holder = Nobody
     /\ \A claim \in AllClaims : WasPrompt(claim, claim.recorded_at)
     /\ \A outcome \in AllOutcomes : WasPrompt(outcome, outcome.evaluated_at))
        => Verdict # "invalid"

AllAfterActivation ==
    \A i \in DOMAIN log.rows :
        IsStart(log.rows[i]) => log.rows[i].started_at > activated_at
AreSpaced ==
    \A i, j \in DOMAIN log.rows :
        (IsStart(log.rows[i]) /\ IsStart(log.rows[j]) /\ i < j) =>
            \A t \in {claim.recorded_at : claim \in {c \in AllClaims : c.by = log.rows[i].id}}
                    \cup {o.evaluated_at : o \in {r \in AllOutcomes : r.by = log.rows[i].id}} :
                log.rows[j].started_at > t + Tolerance

(* The same deaths, as long as the clock runs forward and every run starts  *)
(* more than the backward tolerance after the last thing an earlier run     *)
(* wrote: without it the orphans of one run are put to the next.            *)
SpacedDeathsOnlyDegrade ==
    (HasNoForeignRow /\ AreSpaced /\ ~seen.stepped) => DeathsOnlyDegrade

(* "A backward step of any size during a legitimate run does not           *)
(* invalidate it": with every run completed, and every run begun after     *)
(* activation by its own clock, provenance is never invalid, wherever the  *)
(* clock jumped.                                                           *)
CompletedRunsSurviveClockSteps ==
    (/\ holder = Nobody /\ HasNoForeignRow /\ AllAfterActivation
     /\ \A i \in DOMAIN log.rows : IsStart(log.rows[i]) =>
           \E j \in DOMAIN log.rows :
                 IsCompletion(log.rows[j]) /\ log.rows[j].id = log.rows[i].id)
        => Verdict # "invalid"

(* "They are never claimed later": a bar that a run listed as missed is    *)
(* never the tail of a claim the collector writes, as long as the clock     *)
(* runs forward (set back by a day, it makes the bar current again).        *)
MissedStaysMissed ==
    ~seen.stepped => \A i \in Completed(log.rows) :
        \A n \in DOMAIN log.rows[i].symbols :
            LET r == log.rows[i].symbols[n] IN
            \A claim \in AllClaims :
                (claim.symbol = r.symbol /\ claim.by # Foreign)
                    => claim.timestamp \notin r.missed

(* "invalid ends collection for that root": found between two runs it is   *)
(* found between any later two, whoever writes, crashes or refuses in the  *)
(* meantime, and no ledger is usable again that once was not.  As long as  *)
(* the clock runs forward: after a step back, within the tolerance, the    *)
(* record of the very refusal can end the interval of an interrupted run   *)
(* early and so tell two snapshots apart that were one invalid group.      *)
InvalidIsFinal ==
    (seen.condemned /\ ~seen.stepped /\ holder = Nobody) => Verdict \in {"invalid", "unknown"}

OwnRows == <<{claim \in AllClaims : claim.by # Foreign},
             {outcome \in AllOutcomes : outcome.by # Foreign}>>

(* A torn run log is never appended to, and freezes the collector's ledger *)
(* with it.                                                                *)
TornLogFreezes ==
    [][log.tail # "clean" => UNCHANGED log /\ OwnRows' = OwnRows]_vars
=============================================================================
