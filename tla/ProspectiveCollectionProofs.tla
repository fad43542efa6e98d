--------------------- MODULE ProspectiveCollectionProofs ---------------------
(***************************************************************************)
(* Proofs about ProspectiveCollection, for every universe, window, weekend *)
(* and policy, every set of collectors and every bound on faults, foreign  *)
(* writes and steps of the clock.                                          *)
(*                                                                         *)
(* First what holds of the collector alone: who holds the lock, when a     *)
(* claim is stamped, which bars are never claimed, what a torn run log     *)
(* stops.  Then what provenance makes of the ledger: foreign records,      *)
(* what health counts, ledgers of completed runs, the orphans of runs that *)
(* died, and ledgers that were once invalid.                               *)
(***************************************************************************)
EXTENDS ProspectiveCollection, CommonProofs

-----------------------------------------------------------------------------
(* Dates.                                                                  *)

(* A tick has a date, later ticks no earlier one, and a day that has       *)
(* settled is over.                                                        *)
LEMMA DateProperty ==
    /\ \A t \in Nat : Date(t) \in Nat
    /\ \A t, u \in Nat : t <= u => Date(t) <= Date(u)
    /\ \A d, t \in Nat : SettlesAt(d) <= t => d < Date(t)
<1>1. DayLength \in Nat \ {0}
  BY PolicyAssumption
<1>2. \A t \in Nat : Date(t) \in Nat
  BY <1>1 DEF Date
<1>3. ASSUME NEW t \in Nat, NEW u \in Nat, t <= u PROVE Date(t) <= Date(u)
  BY <1>1, <1>3 DEF Date
<1>4. ASSUME NEW d \in Nat, NEW t \in Nat, SettlesAt(d) <= t PROVE d < Date(t)
  <2>1. (d + 1) * DayLength <= t
    BY <1>4 DEF SettlesAt
  <2>2. Date(t) \in Nat /\ t < DayLength * Date(t) + DayLength
    BY <1>1 DEF Date
  <2>3. (d + 1) * DayLength < (Date(t) + 1) * DayLength
    BY <1>1, <2>1, <2>2
  <2>4. QED
    BY <1>1, <2>2, <2>3
<1>5. QED
  BY <1>2, <1>3, <1>4

(* The bounds are numbers.                                                 *)
LEMMA Bounds ==
    /\ MaxTime \in Nat /\ MaxRuns \in Nat /\ ClaimsPerTail \in Nat \ {0} /\ Date(MaxTime) \in Nat
    /\ Ticks \subseteq Nat /\ Days \subseteq Nat
    /\ IsFiniteSet(Producers) /\ Cardinality(Producers) = ClaimsPerTail /\ Producers \subseteq Nat
<1>1. MaxTime \in Nat /\ MaxRuns \in Nat /\ ClaimsPerTail \in Nat \ {0}
  BY PolicyAssumption, CollectionAssumption
<1>2. Date(MaxTime) \in Nat
  BY <1>1, DateProperty
<1>3. IsFiniteSet(1 .. ClaimsPerTail) /\ Cardinality(1 .. ClaimsPerTail) = ClaimsPerTail
  <2>1. 1 \in Int /\ ClaimsPerTail \in Int
    BY <1>1
  <2>2. IsFiniteSet(1 .. ClaimsPerTail)
        /\ Cardinality(1 .. ClaimsPerTail) = IF 1 > ClaimsPerTail THEN 0 ELSE ClaimsPerTail - 1 + 1
    BY <2>1, FS_Interval
  <2>3. QED
    BY <1>1, <2>2
<1>4. QED
  BY <1>1, <1>2, <1>3 DEF Ticks, Days, Producers

(* Of some days one is the latest: the tail of what a provider answers.    *)
LEMMA LatestOfProperty ==
    ASSUME NEW bars \in SUBSET Days, bars # {}
    PROVE  LatestOf(bars) \in bars /\ \A e \in bars : e <= LatestOf(bars)
<1> DEFINE N == Date(MaxTime)
           U == {N - d : d \in bars}
<1>1. N \in Nat /\ \A d \in bars : d \in 0 .. N
  BY Bounds DEF Days
<1> HIDE DEF N
<1>2. U \in SUBSET Nat /\ U # {}
  BY <1>1
<1>3. PICK u \in U : \A v \in U : u <= v
  BY <1>2, LeastExists, Zenon
<1>4. PICK d \in bars : u = N - d
  BY <1>3
<1>5. ASSUME NEW e \in bars PROVE e <= d
  <2>1. u <= N - e
    BY <1>3
  <2>2. QED
    BY <1>1, <1>4, <2>1
<1>6. QED
  BY <1>5, Zenon DEF LatestOf

(* The next weekday is one, and there is none before it; so a weekday that *)
(* is later than d is no earlier than the next weekday after d.            *)
LEMMA NextWeekdayProperty ==
    ASSUME NEW d \in Nat, NEW e \in Nat \ Weekend, d < e
    PROVE  NextWeekday(d) \in Nat /\ NextWeekday(d) <= e
<1> DEFINE IsNext(n) == n \in d + 1 .. d + 3 /\ n \notin Weekend /\ \A f \in d + 1 .. n - 1 : f \in Weekend
<1>1. \E n \in d + 1 .. d + 3 : n \notin Weekend /\ \A f \in d + 1 .. n - 1 : f \in Weekend
  <2>1. CASE d + 1 \notin Weekend
    <3>1. d + 1 \in d + 1 .. d + 3 /\ \A f \in d + 1 .. (d + 1) - 1 : f \in Weekend
      OBVIOUS
    <3>2. QED
      BY <2>1, <3>1
  <2>2. CASE d + 1 \in Weekend /\ d + 2 \notin Weekend
    <3>1. d + 2 \in d + 1 .. d + 3 /\ \A f \in d + 1 .. (d + 2) - 1 : f = d + 1
      OBVIOUS
    <3>2. QED
      BY <2>2, <3>1
  <2>3. CASE d + 1 \in Weekend /\ d + 2 \in Weekend
    <3>1. \E f \in {d + 2, d + 3} : f \notin Weekend
      <4>1. PICK f \in {(d + 1) + 1, (d + 1) + 2} : f \notin Weekend
        BY <2>3, PolicyAssumption
      <4>2. f \in {d + 2, d + 3}
        BY <4>1
      <4>3. QED
        BY <4>1, <4>2
    <3>2. d + 3 \in d + 1 .. d + 3 /\ \A f \in d + 1 .. (d + 3) - 1 : f = d + 1 \/ f = d + 2
      OBVIOUS
    <3>3. QED
      BY <2>3, <3>1, <3>2
  <2>4. QED
    BY <2>1, <2>2, <2>3
<1>2. /\ NextWeekday(d) \in d + 1 .. d + 3
      /\ NextWeekday(d) \notin Weekend /\ \A f \in d + 1 .. NextWeekday(d) - 1 : f \in Weekend
  BY <1>1, Zenon DEF NextWeekday
<1>3. NextWeekday(d) \in Nat
  BY <1>2
<1>4. e < NextWeekday(d) => e \in d + 1 .. NextWeekday(d) - 1
  BY <1>3
<1>5. QED
  BY <1>2, <1>3, <1>4

-----------------------------------------------------------------------------
(* Types.                                                                  *)

OutcomeKeys == (Producers \X Days) \X {1}

Outcomes ==
    [symbol : Symbols, key : OutcomeKeys, claim : Producers \X Days,
     evaluated_at : Ticks, by : 0 .. MaxRuns]

Starts ==
    [kind : {"start"}, id : 1 .. MaxRuns, started_at : Ticks, symbols : {<<>>},
     key : {"start"} \X (1 .. MaxRuns)]

(* A completed run has visited every symbol, and a refused one none.       *)
Records ==
    {r \in [kind : {"record"}, id : 1 .. MaxRuns, started_at : Ticks, status : RunStatuses,
            symbols : Seq(SymbolRuns), key : {"record"} \X (1 .. MaxRuns)] :
        Len(r.symbols) = IF r.status = "completed" THEN Len(Universe) ELSE 0}

LogRows == Starts \cup Records

RunStates ==
    [id : 0 .. MaxRuns, started_at : Ticks \cup {NoTime}, status : RunStatuses,
     symbols : Seq(SymbolRuns), built_at : Ticks \cup {NoTime}, bars : SUBSET Days,
     tail : Days \cup {NoDay}, missed : SUBSET Days, held : Seq(Claims),
     present : SUBSET OutcomeKeys, at : Nat \ {0}, artifacts_new : 0 .. ClaimsPerTail,
     outcomes_new : Nat]

Budgets == {"faults", "foreign", "steps", "collectors", "last"}

(* Where a collector does not hold the lock.                               *)
Waiting == {"idle", "waiting"}

BudgetsOK ==
    DOMAIN left = Budgets /\ (\A bound \in Budgets : left[bound] \in Nat) /\ left.last \in Ticks

FilesOK ==
    /\ log \in File(LogRows)
    /\ claims \in [Symbols -> File(Claims)]
    /\ outcomes \in [Symbols -> File(Outcomes)]

WorldOK ==
    /\ now \in Ticks
    /\ root \in {"absent", "locked", "unusable", "active"}
    /\ activated_at \in Ticks \cup {NoTime}
    /\ holder \in Collectors \cup {Nobody}
    /\ reading \in BOOLEAN
    /\ runs \in 0 .. MaxRuns
    /\ BudgetsOK
    /\ FilesOK
    /\ \A i \in DOMAIN log.rows : log.rows[i].id <= runs

(* What a run is known to have, by where it is.  The claims it registers   *)
(* for one tail are counted against those that were missing.               *)
Stage(c) ==
    /\ Len(run[c].symbols) <= Len(Universe)
    /\ pc[c] \in Waiting => run[c] = NoRun
    /\ pc[c] \notin Waiting => run[c].id \in 1 .. runs /\ run[c].started_at \in Ticks
    /\ pc[c] \in {"deciding", "starting", "recording"} => run[c].symbols = <<>>
    /\ pc[c] \notin Waiting \cup {"deciding"} => (run[c].status = "completed" <=> pc[c] # "recording")
    /\ pc[c] \in {"building", "fetching", "registering", "measuring"} => HasSymbol(c)
    /\ pc[c] \in {"fetching", "registering", "measuring"} => run[c].built_at \in Ticks
    /\ pc[c] \in {"registering", "measuring"} => run[c].tail \in Days
    /\ pc[c] \notin {"registering", "measuring"} => run[c].artifacts_new = 0
    /\ pc[c] = "registering" => run[c].artifacts_new + Cardinality(Unheld(c)) <= ClaimsPerTail

RunsOK ==
    /\ pc \in [Collectors -> Labels]
    /\ run \in [Collectors -> RunStates]
    /\ \A c \in Collectors : Stage(c) /\ (holder = c <=> pc[c] \notin Waiting)

Typed == WorldOK /\ RunsOK

(* The universe is a sequence of its symbols.                              *)
LEMMA UniverseProperty ==
    /\ Len(Universe) \in Nat /\ DOMAIN Universe = 1 .. Len(Universe)
    /\ \A n \in DOMAIN Universe : Universe[n] \in Symbols
BY PolicyAssumption DEF Symbols

(* Nothing known is well-formed.                                           *)
LEMMA NoRunType ==
    /\ NoRun \in RunStates /\ NoRun.symbols = <<>> /\ NoRun.status = "completed"
    /\ Len(NoRun.symbols) = 0 /\ NoRun.id = 0 /\ NoRun.missed = {}
    /\ NoRun.artifacts_new = 0
<1>1. <<>> \in Seq(SymbolRuns) /\ <<>> \in Seq(Claims) /\ 0 \in 0 .. MaxRuns /\ 0 \in 0 .. ClaimsPerTail
      /\ "completed" \in RunStatuses /\ 1 \in Nat \ {0}
  BY Bounds DEF RunStatuses
<1>2. QED
  BY <1>1 DEF NoRun, RunStates

(* A collector that stands still stands where it stood.                    *)
LEMMA StageFrame ==
    ASSUME NEW t, Stage(t), pc'[t] = pc[t], run'[t] = run[t],
           runs \in Nat, runs' \in Nat, runs <= runs'
    PROVE  Stage(t)'
<1>1. Unheld(t)' = Unheld(t) /\ HasSymbol(t)' = HasSymbol(t)
  BY DEF Unheld, HasSymbol
<1>2. run[t].id \in 1 .. runs => run[t].id \in 1 .. runs'
  OBVIOUS
<1>3. QED
  BY <1>1, <1>2 DEF Stage

(* A collector under way moves on, with what it now knows.                 *)
LEMMA MoveType ==
    ASSUME Typed, NEW c \in Collectors, NEW r \in RunStates, NEW label \in Labels \ Waiting,
           pc[c] \notin Waiting, run' = [run EXCEPT ![c] = r], Goto(c, label),
           holder' = holder, runs' = runs, Stage(c)'
    PROVE  RunsOK'
<1>1. pc \in [Collectors -> Labels] /\ run \in [Collectors -> RunStates] /\ runs \in Nat
  BY Bounds DEF Typed, RunsOK, WorldOK
<1>2. pc' \in [Collectors -> Labels] /\ run' \in [Collectors -> RunStates] /\ pc'[c] = label
  BY <1>1 DEF Goto
<1>3. ASSUME NEW t \in Collectors \ {c} PROVE Stage(t)' /\ pc'[t] = pc[t]
  <2>1. pc'[t] = pc[t] /\ run'[t] = run[t] /\ Stage(t) /\ runs <= runs'
    BY <1>1, <1>3 DEF Goto, Typed, RunsOK
  <2>2. QED
    BY <1>1, <2>1, StageFrame
<1>4. \A t \in Collectors : holder' = t <=> pc'[t] \notin Waiting
  BY <1>2, <1>3 DEF Typed, RunsOK
<1>5. QED
  BY <1>2, <1>3, <1>4 DEF RunsOK

(* A collector that ends its run lets go of the lock.                      *)
LEMMA LeaveType ==
    ASSUME Typed, NEW c \in Collectors, pc[c] \notin Waiting, Leave(c), runs' = runs
    PROVE  /\ RunsOK' /\ holder' = Nobody /\ reading' = reading
           /\ \A t \in Collectors : pc'[t] \in Waiting /\ run'[t] = NoRun
<1>1. pc \in [Collectors -> Labels] /\ run \in [Collectors -> RunStates] /\ runs \in Nat
  BY Bounds DEF Typed, RunsOK, WorldOK
<1>2. "idle" \in Labels /\ "idle" \in Waiting
  BY DEF Labels, Waiting
<1>3. /\ pc' \in [Collectors -> Labels] /\ run' \in [Collectors -> RunStates]
      /\ pc'[c] = "idle" /\ run'[c] = NoRun /\ holder' = Nobody /\ reading' = reading
  BY <1>1, <1>2, NoRunType DEF Leave, Goto
<1>4. ASSUME NEW t \in Collectors \ {c}
      PROVE  Stage(t)' /\ pc'[t] \in Waiting /\ run'[t] = NoRun
  <2>1. pc'[t] = pc[t] /\ run'[t] = run[t] /\ Stage(t) /\ runs <= runs'
    BY <1>1, <1>4 DEF Leave, Goto, Typed, RunsOK
  <2>2. pc[t] \in Waiting
    BY <1>4 DEF Typed, RunsOK
  <2>3. QED
    BY <1>1, <2>1, <2>2, StageFrame DEF Stage
<1>5. Stage(c)'
  BY <1>2, <1>3, NoRunType, UniverseProperty DEF Stage, Waiting
<1>6. Nobody \notin Collectors
  BY CollectionAssumption
<1>7. QED
  BY <1>2, <1>3, <1>4, <1>5, <1>6 DEF RunsOK

(* A symbol-run is recorded for a symbol of the universe.                  *)
LEMMA SymbolRunType ==
    ASSUME Typed, NEW c \in Collectors, HasSymbol(c), NEW class \in CollectionStatuses,
           NEW tail \in Days \cup {NoDay}, NEW missed \in SUBSET Days
    PROVE  /\ SymbolRun(c, class, tail, missed) \in SymbolRuns
           /\ SymbolRun(c, class, tail, missed).missed = missed
           /\ SymbolRun(c, class, tail, missed).symbol = Symbol(c)
<1>1. run[c] \in RunStates
  BY DEF Typed, RunsOK
<1>2. run[c].symbols \in Seq(SymbolRuns)
  BY <1>1 DEF RunStates
<1>3. Len(run[c].symbols) + 1 \in 1 .. Len(Universe)
  BY <1>2, UniverseProperty DEF HasSymbol
<1>4. Symbol(c) \in Symbols
  BY <1>3, UniverseProperty DEF Symbol
<1>5. /\ run[c].built_at \in Ticks \cup {NoTime}
      /\ run[c].artifacts_new \in 0 .. ClaimsPerTail /\ run[c].outcomes_new \in Nat
  BY <1>1 DEF RunStates
<1>6. 0 \in 0 .. ClaimsPerTail /\ 0 \in Nat
  BY Bounds
<1>7. /\ (IF class = "exact" THEN run[c].artifacts_new ELSE 0) \in 0 .. ClaimsPerTail
      /\ (IF class = "exact" THEN run[c].outcomes_new ELSE 0) \in Nat
  BY <1>5, <1>6
<1>8. QED
  BY <1>4, <1>5, <1>7 DEF SymbolRun, SymbolRuns

(* To the next symbol: what was known of the last is in its symbol-run.    *)
LEMMA NextSymbolType ==
    ASSUME Typed, NEW c \in Collectors, pc[c] \notin Waiting, HasSymbol(c),
           NEW entry \in SymbolRuns, NextSymbol(c, entry), holder' = holder, runs' = runs
    PROVE  /\ RunsOK' /\ pc'[c] = "visiting"
           /\ run'[c].symbols = Append(run[c].symbols, entry)
<1> DEFINE id == run[c].id
           started_at == run[c].started_at
           symbols == Append(run[c].symbols, entry)
           r == [NoRun EXCEPT !.id = id, !.started_at = started_at, !.symbols = symbols]
<1>1. run[c] \in RunStates /\ pc \in [Collectors -> Labels] /\ run \in [Collectors -> RunStates]
  BY DEF Typed, RunsOK
<1>2. /\ run[c].symbols \in Seq(SymbolRuns) /\ id \in 0 .. MaxRuns
      /\ started_at \in Ticks \cup {NoTime}
  BY <1>1 DEF RunStates
<1>3. symbols \in Seq(SymbolRuns) /\ Len(symbols) <= Len(Universe)
  BY <1>2, UniverseProperty DEF HasSymbol
<1>4. run' = [run EXCEPT ![c] = r] /\ Goto(c, "visiting")
  BY DEF NextSymbol
<1>5. id \in 1 .. runs /\ started_at \in Ticks
  BY DEF Typed, RunsOK, Stage
<1> HIDE DEF id, started_at, symbols
<1>6. /\ r \in RunStates /\ r.id = id /\ r.started_at = started_at /\ r.symbols = symbols
      /\ r.status = "completed" /\ r.artifacts_new = 0
  BY <1>2, <1>3, NoRunType DEF RunStates, NoRun
<1> HIDE DEF r
<1>7. run'[c] = r /\ pc'[c] = "visiting"
  BY <1>1, <1>4 DEF Goto
<1>8. Stage(c)'
  BY <1>3, <1>5, <1>6, <1>7 DEF Stage, Waiting
<1>9. "visiting" \in Labels \ Waiting
  BY DEF Labels, Waiting
<1>10. RunsOK'
  BY <1>4, <1>6, <1>8, <1>9, MoveType
<1>11. QED
  BY <1>6, <1>7, <1>10 DEF symbols

-----------------------------------------------------------------------------
(* What is written.                                                        *)

(* The symbol a collector is at is one of the universe.                    *)
LEMMA SymbolType ==
    ASSUME Typed, NEW c \in Collectors, HasSymbol(c)
    PROVE  Symbol(c) \in Symbols
<1>1. run[c].symbols \in Seq(SymbolRuns)
  BY DEF Typed, RunsOK, RunStates
<1>2. Len(run[c].symbols) + 1 \in 1 .. Len(Universe)
  BY <1>1, UniverseProperty DEF HasSymbol
<1>3. QED
  BY <1>2, UniverseProperty DEF Symbol

(* The claims still missing are of finitely many producers.                *)
LEMMA UnheldFinite ==
    ASSUME NEW c
    PROVE  IsFiniteSet(Unheld(c)) /\ Cardinality(Unheld(c)) \in Nat /\ Unheld(c) \subseteq Producers
<1>1. Unheld(c) \in SUBSET Producers
  BY DEF Unheld
<1>2. QED
  BY <1>1, Bounds, FS_Subset, FS_CardinalityType

(* The claim written next is the first missing one, about the tail, stamped*)
(* with the snapshot's clock.                                              *)
LEMMA NextClaimProperty ==
    ASSUME Typed, NEW c \in Collectors, pc[c] = "registering", Unheld(c) # {}
    PROVE  /\ \E p \in Unheld(c) : NextClaim(c).key = <<p, run[c].tail>>
           /\ NextClaim(c) \in Claims /\ NextClaim(c).symbol = Symbol(c)
           /\ NextClaim(c).timestamp = run[c].tail /\ NextClaim(c).recorded_at = run[c].built_at
           /\ NextClaim(c).by # Foreign /\ Symbol(c) \in Symbols
<1>1. Unheld(c) \in SUBSET Nat
  BY UnheldFinite, Bounds
<1>2. PICK p \in Unheld(c) : p = CHOOSE q \in Unheld(c) : \A r \in Unheld(c) : q <= r
  <2>1. \E q \in Unheld(c) : \A r \in Unheld(c) : q <= r
    BY <1>1, LeastExists
  <2>2. QED
    BY <2>1
<1>3. NextClaim(c) = ClaimRow(Symbol(c), p, run[c].tail, run[c].built_at, run[c].id)
  BY <1>2 DEF NextClaim
<1>4. /\ p \in Producers /\ HasSymbol(c) /\ run[c].tail \in Days /\ run[c].built_at \in Ticks
      /\ run[c].id \in 1 .. runs /\ runs \in 0 .. MaxRuns
  BY UnheldFinite DEF Typed, RunsOK, Stage, WorldOK, Waiting
<1>5. Symbol(c) \in Symbols /\ run[c].id \in 0 .. MaxRuns /\ run[c].id # Foreign
  BY <1>4, SymbolType, Bounds DEF Foreign
<1>6. QED
  BY <1>3, <1>4, <1>5 DEF ClaimRow, Claims

(* The outcome written next is of a claim that was held.                   *)
LEMMA NextOutcomeProperty ==
    ASSUME Typed, NEW c \in Collectors, pc[c] = "measuring", Items(c) # {}
    PROVE  /\ Item(c) \in Items(c) /\ Item(c) \in DOMAIN run[c].held /\ Item(c) \in Nat \ {0}
           /\ NextOutcome(c) \in Outcomes /\ NextOutcome(c).by # Foreign /\ Symbol(c) \in Symbols
<1>1. run[c] \in RunStates
  BY DEF Typed, RunsOK
<1>2. run[c].held \in Seq(Claims) /\ run[c].at \in Nat \ {0}
  BY <1>1 DEF RunStates
<1>3. Items(c) \in SUBSET Nat /\ Items(c) \subseteq 1 .. Len(run[c].held)
  BY <1>2 DEF Items
<1>4. \E i \in Items(c) : \A j \in Items(c) : i <= j
  BY <1>3, LeastExists
<1>5. Item(c) \in Items(c)
  BY <1>4, Zenon DEF Item
<1>6. Item(c) \in DOMAIN run[c].held /\ run[c].held[Item(c)] \in Claims /\ Item(c) \in Nat \ {0}
  BY <1>2, <1>3, <1>5
<1>7. /\ HasSymbol(c) /\ run[c].built_at \in Ticks
      /\ run[c].id \in 1 .. runs /\ runs \in 0 .. MaxRuns
  BY DEF Typed, RunsOK, Stage, WorldOK, Waiting
<1>8. Symbol(c) \in Symbols /\ run[c].id \in 0 .. MaxRuns /\ run[c].id # Foreign
  BY <1>7, SymbolType, Bounds DEF Foreign
<1>9. ASSUME NEW claim \in Claims, NEW t \in Ticks, NEW writer \in 0 .. MaxRuns, NEW one \in {1}
      PROVE  /\ [symbol |-> claim.symbol, key |-> <<claim.key, one>>, claim |-> claim.key,
                 evaluated_at |-> t, by |-> writer] \in Outcomes
  BY DEF Claims, Outcomes, OutcomeKeys
<1>10. NextOutcome(c) \in Outcomes /\ NextOutcome(c).by = run[c].id
  BY <1>6, <1>7, <1>8, <1>9 DEF NextOutcome, OutcomeRow
<1>11. QED
  BY <1>5, <1>6, <1>8, <1>10

(* The two rows of a run are rows of the log.                              *)
LEMMA LogEntryType ==
    ASSUME Typed, NEW c \in Collectors
    PROVE  /\ pc[c] = "starting" => StartEntry(c) \in LogRows
           /\ IsRecording(c) => RecordEntry(c) \in LogRows
           /\ pc[c] = "starting" \/ IsRecording(c) => pc[c] \notin Waiting \cup {"deciding"}
<1>1. run[c] \in RunStates /\ Stage(c) /\ runs \in 0 .. MaxRuns
  BY DEF Typed, RunsOK, WorldOK
<1>2. run[c].symbols \in Seq(SymbolRuns) /\ run[c].status \in RunStatuses
  BY <1>1 DEF RunStates
<1>3. pc[c] = "starting" \/ IsRecording(c) => pc[c] \notin Waiting \cup {"deciding"}
  BY DEF IsRecording, Waiting
<1>4. pc[c] \notin Waiting => run[c].id \in 1 .. MaxRuns /\ run[c].started_at \in Ticks
  BY <1>1, Bounds DEF Stage
<1>5. ASSUME pc[c] = "starting" PROVE StartEntry(c) \in Starts
  BY <1>3, <1>4, <1>5 DEF StartEntry, Starts
<1>6. ASSUME IsRecording(c) PROVE RecordEntry(c) \in Records
  <2>1. Len(run[c].symbols) = IF run[c].status = "completed" THEN Len(Universe) ELSE 0
    <3>1. CASE pc[c] = "recording"
      BY <1>1, <3>1 DEF Stage, Waiting
    <3>2. CASE pc[c] = "visiting" /\ ~HasSymbol(c)
      BY <1>1, <1>2, <3>2, UniverseProperty DEF Stage, Waiting, HasSymbol
    <3>3. QED
      BY <1>6, <3>1, <3>2 DEF IsRecording
  <2>2. QED
    BY <1>2, <1>3, <1>4, <1>6, <2>1 DEF RecordEntry, Records
<1>7. QED
  BY <1>3, <1>5, <1>6 DEF LogRows

-----------------------------------------------------------------------------
(* What a step does to the files.                                          *)

(* A claim that may be written for s: one a collector has in hand, or a    *)
(* foreign one, with a clock of its own.                                   *)
IsOffered(s, row) ==
    /\ Readable(claims[s]) /\ row.key \notin Keys(claims[s])
    /\ \/ /\ row.by = Foreign /\ row.recorded_at = now /\ IsFreshReading
          /\ UNCHANGED <<log, pc, run>>
       \/ \E c \in Collectors :
             pc[c] = "registering" /\ Unheld(c) # {} /\ s = Symbol(c) /\ row = NextClaim(c)

(* A row is appended to one file, completely or in part.                   *)
ClaimAppended(s, row) ==
    \E f \in CutShort(claims[s], row) : claims' = [claims EXCEPT ![s] = f]

OutcomeAppended(s, row) ==
    \E f \in CutShort(outcomes[s], row) : outcomes' = [outcomes EXCEPT ![s] = f]

IsMeasured(s, row) ==
    /\ Readable(outcomes[s]) /\ row.key \notin Keys(outcomes[s])
    /\ \/ /\ \E claim \in RowSet(claims[s]) : claim.recorded_at < now /\ row = OutcomeRow(claim, now, Foreign)
          /\ IsFreshReading /\ UNCHANGED <<log, claims, pc, run>>
       \/ \E c \in Collectors :
             /\ pc[c] = "measuring" /\ Items(c) # {} /\ CanWriteOutcome(c)
             /\ s = Symbol(c) /\ row = NextOutcome(c)

IsLogged(row) ==
    \E c \in Collectors :
        \/ pc[c] = "starting" /\ row = StartEntry(c)
        \/ IsRecording(c) /\ row = RecordEntry(c)

ClaimsChange ==
    claims' = claims \/
    \E s \in Symbols, row \in Claims :
        /\ row.symbol = s /\ row.key[2] = row.timestamp
        /\ IsOffered(s, row) /\ ClaimAppended(s, row)

OutcomesChange ==
    outcomes' = outcomes \/
    \E s \in Symbols, row \in Outcomes : IsMeasured(s, row) /\ OutcomeAppended(s, row)

LogChange ==
    log' = log \/ \E row \in LogRows : IsLogged(row) /\ log' \in CutShort(log, row)

(* The claim at hand is appended.                                          *)
LEMMA ClaimInHand ==
    ASSUME Typed, NEW c \in Collectors, pc[c] = "registering", Unheld(c) # {},
           Readable(claims[Symbol(c)]), NextClaim(c).key \notin Keys(claims[Symbol(c)]),
           NEW f \in CutShort(claims[Symbol(c)], NextClaim(c)),
           claims' = [claims EXCEPT ![Symbol(c)] = f]
    PROVE  ClaimsChange
<1>1. PICK p \in Unheld(c) : NextClaim(c).key = <<p, run[c].tail>>
  BY NextClaimProperty
<1>2. /\ NextClaim(c) \in Claims /\ NextClaim(c).symbol = Symbol(c) /\ Symbol(c) \in Symbols
      /\ NextClaim(c).key[2] = NextClaim(c).timestamp
  BY <1>1, NextClaimProperty
<1>3. IsOffered(Symbol(c), NextClaim(c)) /\ ClaimAppended(Symbol(c), NextClaim(c))
  BY DEF IsOffered, ClaimAppended
<1>4. QED
  BY <1>2, <1>3 DEF ClaimsChange

(* The outcome at hand is appended.                                        *)
LEMMA OutcomeInHand ==
    ASSUME Typed, NEW c \in Collectors, pc[c] = "measuring", Items(c) # {}, CanWriteOutcome(c),
           NEW f \in CutShort(outcomes[Symbol(c)], NextOutcome(c)),
           outcomes' = [outcomes EXCEPT ![Symbol(c)] = f]
    PROVE  OutcomesChange
<1>1. NextOutcome(c) \in Outcomes /\ Symbol(c) \in Symbols
  BY NextOutcomeProperty
<1>2. IsMeasured(Symbol(c), NextOutcome(c)) /\ OutcomeAppended(Symbol(c), NextOutcome(c))
  BY DEF IsMeasured, OutcomeAppended, CanWriteOutcome
<1>3. QED
  BY <1>1, <1>2 DEF OutcomesChange

(* An append cut short is still an append.                                 *)
LEMMA CutShortChange ==
    ASSUME Typed, NEW c \in Collectors, LedgerAppendCutShort(c)
    PROVE  ClaimsChange /\ OutcomesChange
<1>1. CASE UNCHANGED ledger
  BY <1>1 DEF ledger, ClaimsChange, OutcomesChange
<1>2. CASE /\ pc[c] = "registering" /\ Unheld(c) # {}
           /\ Readable(claims[Symbol(c)]) /\ NextClaim(c).key \notin Keys(claims[Symbol(c)])
           /\ \E file \in CutShort(claims[Symbol(c)], NextClaim(c)) :
                 claims' = [claims EXCEPT ![Symbol(c)] = file]
           /\ UNCHANGED outcomes
  BY <1>2, ClaimInHand DEF OutcomesChange
<1>3. CASE /\ pc[c] = "measuring" /\ Items(c) # {} /\ CanWriteOutcome(c)
           /\ \E file \in CutShort(outcomes[Symbol(c)], NextOutcome(c)) :
                 outcomes' = [outcomes EXCEPT ![Symbol(c)] = file]
           /\ UNCHANGED claims
  BY <1>3, OutcomeInHand DEF ClaimsChange
<1>4. QED
  BY <1>1, <1>2, <1>3 DEF LedgerAppendCutShort

(* Whatever moves, a file is as it was or has one row appended.            *)
LEMMA FilesChange ==
    ASSUME Typed, [Next]_vars
    PROVE  ClaimsChange /\ OutcomesChange /\ LogChange
<1>1. CASE UNCHANGED <<log, ledger>>
  BY <1>1 DEF ledger, ClaimsChange, OutcomesChange, LogChange
<1>2. CASE UNCHANGED vars
  BY <1>1, <1>2 DEF vars
<1>3. CASE Activation \/ BeginHealth \/ EndHealth \/ Tick \/ StepClockBack
  BY <1>1, <1>3 DEF Activation, BeginActivation, WriteManifest, ActivationFails, BeginHealth, EndHealth,
                    Tick, StepClockBack
<1>4. ASSUME NEW s \in Symbols, ForeignClaim(s) PROVE ClaimsChange /\ OutcomesChange /\ LogChange
  <2>1. PICK p \in Producers, d \in SettledDays(now) :
            /\ <<p, d>> \notin Keys(claims[s])
            /\ \E file \in CutShort(claims[s], ClaimRow(s, p, d, now, Foreign)) :
                   claims' = [claims EXCEPT ![s] = file]
    BY <1>4 DEF ForeignClaim
  <2>2. now \in Ticks /\ d \in Days /\ Foreign \in 0 .. MaxRuns
    BY Bounds DEF Typed, WorldOK, SettledDays, Foreign
  <2>3. /\ ClaimRow(s, p, d, now, Foreign) \in Claims
        /\ ClaimRow(s, p, d, now, Foreign).symbol = s /\ ClaimRow(s, p, d, now, Foreign).by = Foreign
        /\ ClaimRow(s, p, d, now, Foreign).key[2] = ClaimRow(s, p, d, now, Foreign).timestamp
        /\ ClaimRow(s, p, d, now, Foreign).key = <<p, d>>
        /\ ClaimRow(s, p, d, now, Foreign).recorded_at = now
    BY <2>2 DEF ClaimRow, Claims
  <2>4. ClaimsChange
    <3>1. IsOffered(s, ClaimRow(s, p, d, now, Foreign))
      BY <1>4, <2>1, <2>3 DEF ForeignClaim, IsOffered
    <3>2. QED
      BY <2>1, <2>3, <3>1 DEF ClaimsChange, ClaimAppended
  <2>5. QED
    BY <1>4, <2>4 DEF ForeignClaim, OutcomesChange, LogChange
<1>5. ASSUME NEW s \in Symbols, ForeignOutcome(s) PROVE ClaimsChange /\ OutcomesChange /\ LogChange
  <2>1. PICK claim \in RowSet(claims[s]) :
            /\ claim.recorded_at < now /\ <<claim.key, 1>> \notin Keys(outcomes[s])
            /\ \E file \in CutShort(outcomes[s], OutcomeRow(claim, now, Foreign)) :
                   outcomes' = [outcomes EXCEPT ![s] = file]
    BY <1>5 DEF ForeignOutcome
  <2>2. claim \in Claims /\ now \in Ticks /\ Foreign \in 0 .. MaxRuns
    <3>1. claims[s] \in File(Claims)
      BY DEF Typed, WorldOK, FilesOK
    <3>2. QED
      BY <3>1, RowSetType, Bounds DEF Typed, WorldOK, Foreign
  <2>3. ASSUME NEW one \in {1}, NEW by \in 0 .. MaxRuns
        PROVE  [symbol |-> claim.symbol, key |-> <<claim.key, one>>, claim |-> claim.key,
                evaluated_at |-> now, by |-> by] \in Outcomes
    BY <2>2 DEF Claims, Outcomes, OutcomeKeys
  <2>4. /\ OutcomeRow(claim, now, Foreign) \in Outcomes
        /\ OutcomeRow(claim, now, Foreign).key = <<claim.key, 1>>
    BY <2>2, <2>3 DEF OutcomeRow
  <2>5. OutcomesChange
    <3>1. IsMeasured(s, OutcomeRow(claim, now, Foreign))
      BY <1>5, <2>1, <2>4 DEF ForeignOutcome, IsReadable, IsMeasured
    <3>2. QED
      BY <2>1, <2>4, <3>1 DEF OutcomesChange, OutcomeAppended
  <2>6. QED
    BY <1>5, <2>5 DEF ForeignOutcome, ClaimsChange, LogChange
<1>6. ASSUME NEW c \in Collectors, RefreshFails(c) PROVE ClaimsChange /\ OutcomesChange /\ LogChange
  BY <1>6, CutShortChange DEF RefreshFails, LogChange
<1>7. ASSUME NEW c \in Collectors, Crash(c) PROVE ClaimsChange /\ OutcomesChange /\ LogChange
  <2>1. LogChange
    BY <1>7, LogEntryType DEF Crash, LogAppendCutShort, LogChange, IsLogged
  <2>2. QED
    BY <1>7, <2>1, CutShortChange DEF Crash
<1>8. ASSUME NEW c \in Collectors, Step(c) PROVE ClaimsChange /\ OutcomesChange /\ LogChange
  <2>1. CASE RegisterClaim(c)
    <3>1. Appended(claims[Symbol(c)], NextClaim(c)) \in CutShort(claims[Symbol(c)], NextClaim(c))
      BY DEF CutShort
    <3>2. QED
      BY <2>1, <3>1, ClaimInHand DEF RegisterClaim, OutcomesChange, LogChange
  <2>2. CASE WriteOutcome(c)
    <3>1. Appended(outcomes[Symbol(c)], NextOutcome(c)) \in CutShort(outcomes[Symbol(c)], NextOutcome(c))
      BY DEF CutShort
    <3>2. QED
      BY <2>2, <3>1, OutcomeInHand DEF WriteOutcome, ClaimsChange, LogChange
  <2>3. CASE AppendStart(c)
    <3>1. log' \in CutShort(log, StartEntry(c)) /\ pc[c] = "starting" /\ UNCHANGED ledger
      BY <2>3 DEF AppendStart, CutShort
    <3>2. QED
      BY <3>1, LogEntryType DEF ledger, ClaimsChange, OutcomesChange, LogChange, IsLogged
  <2>4. CASE AppendRecord(c)
    <3>1. log' \in CutShort(log, RecordEntry(c)) /\ IsRecording(c) /\ UNCHANGED ledger
      BY <2>4 DEF AppendRecord, CutShort
    <3>2. QED
      BY <3>1, LogEntryType DEF ledger, ClaimsChange, OutcomesChange, LogChange, IsLogged
  <2>5. CASE ~(RegisterClaim(c) \/ WriteOutcome(c) \/ AppendStart(c) \/ AppendRecord(c))
    <3>1. UNCHANGED <<log, ledger>>
      BY <1>8, <2>5 DEF Step, Collect, TakeLock, GiveUp, LogIsCorrupt, Decide, Decided, Visit, BuildSnapshot,
         SnapshotUnusable, LedgerIsCorrupt, TailIsStale, BeginRefresh, RegisterRaises, ReadOutcomes,
         MeasureRaises, FinishSymbol
    <3>2. QED
      BY <1>1, <3>1
  <2>6. QED
    BY <2>1, <2>2, <2>3, <2>4, <2>5
<1>9. QED
  BY <1>2, <1>3, <1>4, <1>5, <1>6, <1>7, <1>8 DEF Next, Move

(* Whatever moves, the files stay files; a claim's file keeps its claims   *)
(* and gains at most one that was offered.                                 *)
LEMMA FilesType ==
    ASSUME Typed, [Next]_vars
    PROVE  FilesOK'
<1>1. claims \in [Symbols -> File(Claims)] /\ outcomes \in [Symbols -> File(Outcomes)] /\ log \in File(LogRows)
  BY DEF Typed, WorldOK, FilesOK
<1>2. claims' \in [Symbols -> File(Claims)]
  <2>1. ASSUME NEW s \in Symbols, NEW row \in Claims, ClaimAppended(s, row)
        PROVE  claims' \in [Symbols -> File(Claims)]
    <3>1. PICK f \in CutShort(claims[s], row) : claims' = [claims EXCEPT ![s] = f]
      BY <2>1 DEF ClaimAppended
    <3>2. f \in File(Claims)
      BY <1>1, <3>1, CutShortProperties
    <3>3. QED
      BY <1>1, <3>1, <3>2
  <2>2. QED
    BY <1>1, <2>1, FilesChange DEF ClaimsChange
<1>3. outcomes' \in [Symbols -> File(Outcomes)]
  <2>1. ASSUME NEW s \in Symbols, NEW row \in Outcomes, OutcomeAppended(s, row)
        PROVE  outcomes' \in [Symbols -> File(Outcomes)]
    <3>1. PICK f \in CutShort(outcomes[s], row) : outcomes' = [outcomes EXCEPT ![s] = f]
      BY <2>1 DEF OutcomeAppended
    <3>2. f \in File(Outcomes)
      BY <1>1, <3>1, CutShortProperties
    <3>3. QED
      BY <1>1, <3>1, <3>2
  <2>2. QED
    BY <1>1, <2>1, FilesChange DEF OutcomesChange
<1>4. log' \in File(LogRows)
  BY <1>1, FilesChange, CutShortProperties DEF LogChange
<1>5. QED
  BY <1>2, <1>3, <1>4 DEF FilesOK

-----------------------------------------------------------------------------
(* What a step does to the runs.                                           *)

(* Before the lock a collector knows nothing; with it, its number and its  *)
(* clock.                                                                  *)
LEMMA ApproachType ==
    ASSUME Typed, NEW c \in Collectors, Collect(c) \/ TakeLock(c) \/ GiveUp(c)
    PROVE  RunsOK' /\ runs' \in 0 .. MaxRuns /\ runs <= runs' /\ holder' \in Collectors \cup {Nobody}
<1>1. /\ pc \in [Collectors -> Labels] /\ run \in [Collectors -> RunStates]
      /\ runs \in Nat /\ runs \in 0 .. MaxRuns /\ now \in Ticks /\ holder \in Collectors \cup {Nobody}
  BY Bounds DEF Typed, RunsOK, WorldOK
<1>2. CASE Collect(c) \/ GiveUp(c)
  <2>1. /\ pc[c] \in Waiting /\ run' = run /\ runs' = runs /\ holder' = holder
        /\ \E label \in Waiting : Goto(c, label)
    BY <1>2 DEF Collect, GiveUp, Waiting, lock
  <2>2. PICK label \in Waiting : pc' = [pc EXCEPT ![c] = label]
    BY <2>1 DEF Goto
  <2>3. pc' \in [Collectors -> Labels] /\ pc'[c] \in Waiting
    BY <1>1, <2>2 DEF Labels, Waiting
  <2>4. ASSUME NEW t \in Collectors \ {c} PROVE Stage(t)' /\ pc'[t] = pc[t]
    BY <1>1, <2>1, <2>2, <2>4, StageFrame DEF Typed, RunsOK
  <2>5. Stage(c)'
    <3>1. run'[c] = NoRun
      BY <2>1 DEF Typed, RunsOK, Stage
    <3>2. QED
      BY <2>3, <3>1, NoRunType, UniverseProperty DEF Stage, Waiting
  <2>6. \A t \in Collectors : holder' = t <=> pc'[t] \notin Waiting
    BY <2>1, <2>3, <2>4 DEF Typed, RunsOK
  <2>7. QED
    BY <1>1, <2>1, <2>3, <2>4, <2>5, <2>6 DEF RunsOK
<1>3. CASE TakeLock(c)
  <2> DEFINE id == runs + 1
             r == [run[c] EXCEPT !.id = id, !.started_at = now]
  <2>1. /\ pc[c] = "waiting" /\ holder = Nobody /\ holder' = c /\ runs' = id /\ runs < MaxRuns
        /\ run' = [run EXCEPT ![c] = r] /\ Goto(c, "deciding")
    BY <1>3 DEF TakeLock
  <2>2. run[c] = NoRun
    BY <2>1 DEF Typed, RunsOK, Stage, Waiting
  <2>3. id \in 0 .. MaxRuns /\ id \in 1 .. id /\ runs <= id
    BY <1>1, <2>1, Bounds
  <2> HIDE DEF id
  <2>4. /\ r \in RunStates /\ r.id = id /\ r.started_at = now /\ r.symbols = run[c].symbols
        /\ r.artifacts_new = run[c].artifacts_new
    BY <1>1, <2>2, <2>3, NoRunType DEF RunStates
  <2> HIDE DEF r
  <2>5. /\ pc' \in [Collectors -> Labels] /\ run' \in [Collectors -> RunStates]
        /\ pc'[c] = "deciding" /\ run'[c] = r
    BY <1>1, <2>1, <2>4 DEF Goto, Labels
  <2>6. ASSUME NEW t \in Collectors \ {c} PROVE Stage(t)' /\ pc'[t] = pc[t]
    BY <1>1, <2>1, <2>3, <2>6, StageFrame DEF Goto, Typed, RunsOK
  <2>7. Stage(c)'
    BY <1>1, <2>1, <2>2, <2>3, <2>4, <2>5, NoRunType, UniverseProperty DEF Stage, Waiting
  <2>8. \A t \in Collectors \ {c} : pc[t] \in Waiting
    BY <2>1, CollectionAssumption DEF Typed, RunsOK
  <2>9. \A t \in Collectors : holder' = t <=> pc'[t] \notin Waiting
    BY <2>1, <2>5, <2>6, <2>8 DEF Waiting
  <2>10. QED
    BY <2>1, <2>3, <2>5, <2>6, <2>7, <2>9 DEF RunsOK
<1>4. QED
  BY <1>2, <1>3

(* The decision is one of the ways a run may end.                          *)
LEMMA DecideType ==
    ASSUME Typed, NEW c \in Collectors, Decide(c)
    PROVE  RunsOK'
<1>1. PICK configuration \in LiveConfiguration, collector \in CollectorIdentity :
          Decided(c, Decision(c, configuration, collector))
  BY DEF Decide
<1> DEFINE decision == Decision(c, configuration, collector)
           r == [run[c] EXCEPT !.status = decision]
           label == IF decision = "completed" THEN "starting" ELSE "recording"
<1>2. decision \in RunStatuses
  BY DEF Decision, RunStatuses, LiveConfiguration, CollectorIdentity
<1> HIDE DEF decision
<1>3. run' = [run EXCEPT ![c] = r] /\ Goto(c, label) /\ holder' = holder /\ runs' = runs /\ pc[c] = "deciding"
  BY <1>1 DEF Decided, decision, lock, Decide
<1>4. label \in Labels \ Waiting /\ pc[c] \notin Waiting
  BY <1>3 DEF Labels, Waiting
<1>5. run[c] \in RunStates /\ Stage(c) /\ pc \in [Collectors -> Labels] /\ run \in [Collectors -> RunStates]
  BY DEF Typed, RunsOK
<1>6. /\ r \in RunStates /\ r.status = decision /\ r.id = run[c].id /\ r.symbols = run[c].symbols
      /\ r.started_at = run[c].started_at /\ r.artifacts_new = run[c].artifacts_new
  BY <1>2, <1>5 DEF RunStates
<1> HIDE DEF r
<1>7. run'[c] = r /\ pc'[c] = label
  BY <1>3, <1>5 DEF Goto
<1>8. Stage(c)'
  BY <1>3, <1>5, <1>6, <1>7 DEF Stage, Waiting
<1> HIDE DEF label
<1>9. QED
  BY <1>3, <1>4, <1>6, <1>8, MoveType

(* Between a run's start and its snapshots.                                *)
LEMMA VisitType ==
    ASSUME Typed, NEW c \in Collectors, AppendStart(c) \/ Visit(c) \/ BuildSnapshot(c)
    PROVE  RunsOK'
<1>1. /\ run[c] \in RunStates /\ Stage(c) /\ pc \in [Collectors -> Labels]
      /\ run \in [Collectors -> RunStates] /\ now \in Ticks
      /\ pc[c] \notin Waiting /\ holder' = holder /\ runs' = runs
  BY DEF Typed, RunsOK, WorldOK, AppendStart, Visit, BuildSnapshot, lock, Waiting
<1>2. CASE AppendStart(c) \/ (Visit(c) /\ Goto(c, "building") /\ run' = run)
  <2>1. PICK label \in {"visiting", "building"} :
           Goto(c, label) /\ run' = run /\ (label = "building" => HasSymbol(c)) /\ pc[c] \in {"starting", "visiting"}
    BY <1>2 DEF AppendStart, Visit
  <2>2. run' = [run EXCEPT ![c] = run[c]] /\ pc'[c] = label /\ run'[c] = run[c]
    BY <1>1, <2>1 DEF Goto
  <2>3. Stage(c)'
    BY <1>1, <2>1, <2>2 DEF Stage, Waiting, HasSymbol
  <2>4. label \in Labels \ Waiting
    BY DEF Labels, Waiting
  <2>5. QED
    BY <1>1, <2>1, <2>2, <2>3, <2>4, MoveType
<1>3. CASE Visit(c) /\ Unreached(c)
  <2>1. HasSymbol(c)
    BY <1>3 DEF Visit
  <2>2. "unreached" \in CollectionStatuses /\ NoDay \in Days \cup {NoDay} /\ {} \in SUBSET Days
    BY DEF CollectionStatuses
  <2>3. SymbolRun(c, "unreached", NoDay, {}) \in SymbolRuns
    BY <2>1, <2>2, SymbolRunType
  <2>4. QED
    BY <1>1, <1>3, <2>1, <2>3, NextSymbolType DEF Unreached
<1>4. CASE BuildSnapshot(c)
  <2> DEFINE r == [run[c] EXCEPT !.built_at = now]
  <2>1. run' = [run EXCEPT ![c] = r] /\ Goto(c, "fetching") /\ pc[c] = "building"
    BY <1>4 DEF BuildSnapshot
  <2>2. /\ r \in RunStates /\ r.built_at = now /\ r.id = run[c].id /\ r.symbols = run[c].symbols
        /\ r.started_at = run[c].started_at /\ r.status = run[c].status
        /\ r.artifacts_new = run[c].artifacts_new
    BY <1>1 DEF RunStates
  <2> HIDE DEF r
  <2>3. run'[c] = r /\ pc'[c] = "fetching"
    BY <1>1, <2>1 DEF Goto
  <2>4. Stage(c)'
    BY <1>1, <2>1, <2>2, <2>3 DEF Stage, Waiting, HasSymbol
  <2>5. "fetching" \in Labels \ Waiting
    BY DEF Labels, Waiting
  <2>6. QED
    BY <1>1, <2>1, <2>2, <2>4, <2>5, MoveType
<1>5. QED
  BY <1>2, <1>3, <1>4 DEF Visit

(* The claims of a tail that a list of claims lacks.                       *)
Lacking(held, tail) == {p \in Producers : \A i \in DOMAIN held : held[i].key # <<p, tail>>}

(* They are no more than a tail's claims, and fewer once one is there.     *)
LEMMA LackingProperty ==
    ASSUME NEW held \in Seq(Claims), NEW tail
    PROVE  /\ IsFiniteSet(Lacking(held, tail)) /\ Cardinality(Lacking(held, tail)) \in Nat
           /\ Cardinality(Lacking(held, tail)) <= ClaimsPerTail
           /\ \A p \in Lacking(held, tail), claim \in Claims : claim.key = <<p, tail>> =>
                 /\ Cardinality(Lacking(Append(held, claim), tail)) + 1 <= Cardinality(Lacking(held, tail))
                 /\ Lacking(Append(held, claim), tail) \subseteq Lacking(held, tail)
<1>1. Lacking(held, tail) \in SUBSET Producers
  BY DEF Lacking
<1>2. /\ IsFiniteSet(Lacking(held, tail)) /\ Cardinality(Lacking(held, tail)) \in Nat
      /\ Cardinality(Lacking(held, tail)) <= ClaimsPerTail
  BY <1>1, Bounds, FS_Subset, FS_CardinalityType
<1>3. ASSUME NEW p \in Lacking(held, tail), NEW claim \in Claims, claim.key = <<p, tail>>
      PROVE  /\ Cardinality(Lacking(Append(held, claim), tail)) + 1 <= Cardinality(Lacking(held, tail))
             /\ Lacking(Append(held, claim), tail) \subseteq Lacking(held, tail)
  <2> DEFINE rest == Lacking(held, tail) \ {p}
  <2>1. /\ Append(held, claim)[Len(held) + 1] = claim /\ Len(held) + 1 \in DOMAIN Append(held, claim)
        /\ \A i \in DOMAIN held : i \in DOMAIN Append(held, claim) /\ Append(held, claim)[i] = held[i]
    OBVIOUS
  <2>2. ASSUME NEW q \in Lacking(Append(held, claim), tail) PROVE q \in rest
    <3>1. claim.key # <<q, tail>>
      BY <2>1 DEF Lacking
    <3>2. \A i \in DOMAIN held : held[i].key # <<q, tail>>
      BY <2>1 DEF Lacking
    <3>3. QED
      BY <1>3, <3>1, <3>2 DEF Lacking
  <2>3. IsFiniteSet(rest) /\ Cardinality(rest) = Cardinality(Lacking(held, tail)) - 1
    BY <1>2, <1>3, FS_RemoveElement
  <2>4. Lacking(Append(held, claim), tail) \in SUBSET rest
    BY <2>2
  <2> HIDE DEF rest
  <2>5. IsFiniteSet(Lacking(Append(held, claim), tail))
        /\ Cardinality(Lacking(Append(held, claim), tail)) <= Cardinality(rest)
    BY <2>3, <2>4, FS_Subset
  <2>6. Cardinality(Lacking(Append(held, claim), tail)) \in Nat
    BY <2>5, FS_CardinalityType
  <2>7. Lacking(Append(held, claim), tail) \subseteq Lacking(held, tail)
    BY <2>4 DEF rest
  <2>8. QED
    BY <1>2, <2>3, <2>5, <2>6, <2>7
<1>4. QED
  BY <1>2, <1>3

(* What a provider may answer: a latest bar that is in, missed ones before.*)
LEMMA AnswerProperty ==
    ASSUME Typed, NEW c \in Collectors, NEW bars \in UsableAnswers(c)
    PROVE  /\ bars \in SUBSET Days /\ LatestOf(bars) \in bars /\ LatestOf(bars) \in Days
           /\ \A d \in bars : d <= LatestOf(bars) /\ d \notin Weekend /\ SettlesAt(d) <= now
           /\ MissedTails(c, bars) \in SUBSET Days
<1>1. bars \in SUBSET SettledDays(now) /\ bars # {}
  BY DEF UsableAnswers
<1>2. bars \in SUBSET Days /\ \A d \in bars : d \notin Weekend /\ SettlesAt(d) <= now
  BY <1>1 DEF SettledDays
<1>3. QED
  BY <1>1, <1>2, LatestOfProperty DEF MissedTails

(* An answer that is of no use, or of use.                                 *)
LEMMA FetchType ==
    ASSUME Typed, NEW c \in Collectors,
           SnapshotUnusable(c) \/ LedgerIsCorrupt(c) \/ TailIsStale(c) \/ BeginRefresh(c)
    PROVE  RunsOK'
<1>1. /\ run[c] \in RunStates /\ Stage(c) /\ pc \in [Collectors -> Labels]
      /\ run \in [Collectors -> RunStates]
      /\ pc[c] = "fetching" /\ pc[c] \notin Waiting /\ holder' = holder /\ runs' = runs
  BY DEF Typed, RunsOK, SnapshotUnusable, LedgerIsCorrupt, TailIsStale, BeginRefresh, lock, Waiting
<1>2. HasSymbol(c)
  BY <1>1 DEF Stage
<1>3. CASE \E class \in CollectionStatuses, tail \in Days \cup {NoDay}, missed \in SUBSET Days :
              NextSymbol(c, SymbolRun(c, class, tail, missed))
  BY <1>1, <1>2, <1>3, SymbolRunType, NextSymbolType
<1>4. CASE SnapshotUnusable(c) \/ LedgerIsCorrupt(c) \/ TailIsStale(c)
  <2>1. /\ "unreached" \in CollectionStatuses /\ "raised" \in CollectionStatuses
        /\ NoDay \in Days \cup {NoDay} /\ {} \in SUBSET Days
    BY DEF CollectionStatuses
  <2>2. \A bars \in UsableAnswers(c) : LatestOf(bars) \in Days \cup {NoDay} /\ MissedTails(c, bars) \in SUBSET Days
    BY AnswerProperty
  <2>3. \E class \in CollectionStatuses, tail \in Days \cup {NoDay}, missed \in SUBSET Days :
              NextSymbol(c, SymbolRun(c, class, tail, missed))
    BY <1>4, <2>1, <2>2 DEF SnapshotUnusable, LedgerIsCorrupt, TailIsStale, Unreached
  <2>4. QED
    BY <1>3, <2>3
<1>5. CASE BeginRefresh(c)
  <2> DEFINE held == claims[Symbol(c)].rows
  <2>1. PICK bars \in UsableAnswers(c) :
            run' = [run EXCEPT ![c] = [run[c] EXCEPT !.bars = bars, !.tail = LatestOf(bars),
                                                     !.missed = MissedTails(c, bars), !.held = held]]
    BY <1>5 DEF BeginRefresh
  <2> DEFINE tail == LatestOf(bars)
             missed == MissedTails(c, bars)
             r == [run[c] EXCEPT !.bars = bars, !.tail = tail, !.missed = missed, !.held = held]
  <2>2. held \in Seq(Claims)
    <3>1. claims[Symbol(c)] \in File(Claims)
      BY <1>2, SymbolType DEF Typed, WorldOK, FilesOK
    <3>2. QED
      BY <3>1 DEF File
  <2>3. bars \in SUBSET Days /\ tail \in Days /\ missed \in SUBSET Days
    BY AnswerProperty
  <2>4. run' = [run EXCEPT ![c] = r] /\ Goto(c, "registering")
    BY <1>5, <2>1 DEF BeginRefresh
  <2> HIDE DEF held, tail, missed
  <2>5. /\ r \in RunStates /\ r.tail = tail /\ r.held = held /\ r.built_at = run[c].built_at
        /\ r.id = run[c].id /\ r.symbols = run[c].symbols
        /\ r.started_at = run[c].started_at /\ r.status = run[c].status
        /\ r.artifacts_new = run[c].artifacts_new
    BY <1>1, <2>2, <2>3 DEF RunStates
  <2> HIDE DEF r
  <2>6. run'[c] = r /\ pc'[c] = "registering"
    BY <1>1, <2>4 DEF Goto
  <2>7. Unheld(c)' = Lacking(held, tail)
    BY <2>5, <2>6 DEF Unheld, Lacking
  <2>8. run[c].artifacts_new = 0 /\ Cardinality(Lacking(held, tail)) \in Nat
        /\ Cardinality(Lacking(held, tail)) <= ClaimsPerTail
    BY <1>1, <2>2, LackingProperty DEF Stage
  <2>9. Stage(c)'
    BY <1>1, <2>3, <2>5, <2>6, <2>7, <2>8 DEF Stage, Waiting, HasSymbol
  <2>10. "registering" \in Labels \ Waiting
    BY DEF Labels, Waiting
  <2>11. QED
    BY <1>1, <2>4, <2>5, <2>9, <2>10, MoveType
<1>6. QED
  BY <1>4, <1>5

(* A refresh that raises, or returns, leaves a symbol-run behind.          *)
LEMMA EndRefreshType ==
    ASSUME Typed, NEW c \in Collectors, pc[c] \in {"registering", "measuring"},
           Raised(c) \/ NextSymbol(c, SymbolRun(c, "exact", run[c].tail, run[c].missed)),
           holder' = holder, runs' = runs
    PROVE  RunsOK'
<1>1. run[c] \in RunStates /\ HasSymbol(c) /\ pc[c] \notin Waiting
  BY DEF Typed, RunsOK, Stage, Waiting
<1>2. run[c].tail \in Days \cup {NoDay} /\ run[c].missed \in SUBSET Days
  BY <1>1 DEF RunStates
<1>3. "raised" \in CollectionStatuses /\ "exact" \in CollectionStatuses
  BY DEF CollectionStatuses
<1>4. QED
  BY <1>1, <1>2, <1>3, SymbolRunType, NextSymbolType DEF Raised

(* Every claim registered is one fewer missing.                            *)
LEMMA RegisterType ==
    ASSUME Typed, NEW c \in Collectors, RegisterClaim(c)
    PROVE  RunsOK'
<1>1. /\ run[c] \in RunStates /\ Stage(c) /\ pc \in [Collectors -> Labels]
      /\ run \in [Collectors -> RunStates]
      /\ pc[c] = "registering" /\ pc[c] \notin Waiting /\ holder' = holder /\ runs' = runs /\ pc' = pc
      /\ Unheld(c) # {}
  BY DEF Typed, RunsOK, RegisterClaim, lock, Waiting
<1> DEFINE held == Append(run[c].held, NextClaim(c))
           more == run[c].artifacts_new + 1
           r == [run[c] EXCEPT !.held = held, !.artifacts_new = more]
<1>2. run' = [run EXCEPT ![c] = r]
  BY DEF RegisterClaim
<1>3. run[c].held \in Seq(Claims) /\ run[c].artifacts_new \in 0 .. ClaimsPerTail
  BY <1>1 DEF RunStates
<1>4. NextClaim(c) \in Claims /\ \E p \in Unheld(c) : NextClaim(c).key = <<p, run[c].tail>>
  BY <1>1, NextClaimProperty
<1>5. Unheld(c) = Lacking(run[c].held, run[c].tail)
  BY DEF Unheld, Lacking
<1>6. held \in Seq(Claims)
  BY <1>3, <1>4
<1>7. Cardinality(Lacking(held, run[c].tail)) + 1 <= Cardinality(Unheld(c))
  BY <1>3, <1>4, <1>5, LackingProperty
<1>8. Cardinality(Unheld(c)) \in Nat /\ Cardinality(Lacking(held, run[c].tail)) \in Nat
  BY <1>3, <1>5, <1>6, LackingProperty
<1>9. run[c].artifacts_new + Cardinality(Unheld(c)) <= ClaimsPerTail
  BY <1>1 DEF Stage
<1>10. more \in 0 .. ClaimsPerTail /\ more + Cardinality(Lacking(held, run[c].tail)) <= ClaimsPerTail
  <2> HIDE DEF held
  <2>1. ASSUME NEW a \in 0 .. ClaimsPerTail, NEW b \in Nat, NEW d \in Nat, d + 1 <= b, a + b <= ClaimsPerTail
        PROVE  a + 1 \in 0 .. ClaimsPerTail /\ (a + 1) + d <= ClaimsPerTail
    BY <2>1, Bounds
  <2>2. QED
    BY <1>3, <1>7, <1>8, <1>9, <2>1
<1> HIDE DEF held, more
<1>11. /\ r \in RunStates /\ r.tail = run[c].tail /\ r.held = held /\ r.built_at = run[c].built_at
       /\ r.id = run[c].id /\ r.symbols = run[c].symbols
       /\ r.started_at = run[c].started_at /\ r.status = run[c].status
       /\ r.artifacts_new = more
  BY <1>1, <1>6, <1>10 DEF RunStates
<1> HIDE DEF r
<1>12. run'[c] = r
  BY <1>1, <1>2
<1>13. Unheld(c)' = Lacking(held, run[c].tail)
  BY <1>11, <1>12 DEF Unheld, Lacking
<1>14. Stage(c)'
  BY <1>1, <1>10, <1>11, <1>12, <1>13 DEF Stage, Waiting, HasSymbol
<1>15. "registering" \in Labels \ Waiting /\ Goto(c, "registering")
  BY <1>1 DEF Labels, Waiting, Goto
<1>16. QED
  BY <1>1, <1>2, <1>11, <1>14, <1>15, MoveType

(* Measuring keeps to what was held and to what was there.                 *)
LEMMA MeasureType ==
    ASSUME Typed, NEW c \in Collectors, ReadOutcomes(c) \/ WriteOutcome(c)
    PROVE  RunsOK'
<1>1. /\ run[c] \in RunStates /\ Stage(c) /\ pc \in [Collectors -> Labels]
      /\ run \in [Collectors -> RunStates]
      /\ pc[c] \in {"registering", "measuring"} /\ pc[c] \notin Waiting /\ holder' = holder /\ runs' = runs
  BY DEF Typed, RunsOK, ReadOutcomes, WriteOutcome, lock, Waiting
<1>2. HasSymbol(c)
  BY <1>1 DEF Stage
<1>3. ASSUME NEW r \in RunStates, run' = [run EXCEPT ![c] = r], Goto(c, "measuring"),
             r.id = run[c].id, r.started_at = run[c].started_at, r.symbols = run[c].symbols,
             r.status = run[c].status, r.built_at = run[c].built_at, r.tail = run[c].tail
      PROVE  RunsOK'
  <2>1. run'[c] = r /\ pc'[c] = "measuring"
    BY <1>1, <1>3 DEF Goto
  <2>2. Stage(c)'
    BY <1>1, <1>3, <2>1 DEF Stage, Waiting, HasSymbol
  <2>3. "measuring" \in Labels \ Waiting
    BY DEF Labels, Waiting
  <2>4. QED
    BY <1>1, <1>3, <2>2, <2>3, MoveType
<1>4. CASE ReadOutcomes(c) /\ Raised(c)
  BY <1>1, <1>4, EndRefreshType
<1>5. CASE /\ run' = [run EXCEPT ![c] = [run[c] EXCEPT !.present = Keys(outcomes[Symbol(c)])]]
           /\ Goto(c, "measuring")
  <2> DEFINE present == Keys(outcomes[Symbol(c)])
             r == [run[c] EXCEPT !.present = present]
  <2>1. present \in SUBSET OutcomeKeys
    <3>1. outcomes[Symbol(c)] \in File(Outcomes)
      BY <1>2, SymbolType DEF Typed, WorldOK, FilesOK
    <3>2. \A i \in DOMAIN outcomes[Symbol(c)].rows : outcomes[Symbol(c)].rows[i] \in Outcomes
      BY <3>1 DEF File
    <3>3. \A i \in DOMAIN outcomes[Symbol(c)].rows : outcomes[Symbol(c)].rows[i].key \in OutcomeKeys
      BY <3>2 DEF Outcomes
    <3>4. QED
      BY <3>3 DEF Keys
  <2> HIDE DEF present
  <2>2. /\ r \in RunStates /\ r.id = run[c].id /\ r.started_at = run[c].started_at
        /\ r.symbols = run[c].symbols /\ r.status = run[c].status /\ r.built_at = run[c].built_at
        /\ r.tail = run[c].tail
    BY <1>1, <2>1 DEF RunStates
  <2>3. run' = [run EXCEPT ![c] = r]
    BY <1>5 DEF present
  <2> HIDE DEF r
  <2>4. QED
    BY <1>3, <1>5, <2>2, <2>3
<1>6. CASE WriteOutcome(c)
  <2> DEFINE at == Item(c) + 1
             new == run[c].outcomes_new + 1
             r == [run[c] EXCEPT !.at = at, !.outcomes_new = new]
  <2>1. run' = [run EXCEPT ![c] = r] /\ pc' = pc /\ pc[c] = "measuring" /\ Items(c) # {}
    BY <1>6 DEF WriteOutcome
  <2>2. Item(c) \in Nat \ {0} /\ run[c].outcomes_new \in Nat
    BY <1>1, <2>1, NextOutcomeProperty DEF RunStates
  <2>3. at \in Nat \ {0} /\ new \in Nat
    BY <2>2
  <2> HIDE DEF at, new
  <2>4. /\ r \in RunStates /\ r.id = run[c].id /\ r.started_at = run[c].started_at
        /\ r.symbols = run[c].symbols /\ r.status = run[c].status /\ r.built_at = run[c].built_at
        /\ r.tail = run[c].tail
    BY <1>1, <2>3 DEF RunStates
  <2> HIDE DEF r
  <2>5. Goto(c, "measuring")
    BY <1>1, <2>1 DEF Goto
  <2>6. QED
    BY <1>3, <2>1, <2>4, <2>5
<1>7. QED
  BY <1>4, <1>5, <1>6 DEF ReadOutcomes

(* Whatever moves, every run is well-formed and the lock is its holder's.  *)
LEMMA RunsType ==
    ASSUME Typed, [Next]_vars
    PROVE  RunsOK' /\ runs' \in 0 .. MaxRuns /\ runs <= runs' /\ holder' \in Collectors \cup {Nobody}
<1>1. /\ runs \in 0 .. MaxRuns /\ runs \in Nat /\ runs <= runs
      /\ holder \in Collectors \cup {Nobody} /\ RunsOK
  BY Bounds DEF Typed, WorldOK
<1>2. ASSUME UNCHANGED <<pc, run, runs, holder>>
      PROVE  RunsOK' /\ runs' \in 0 .. MaxRuns /\ runs <= runs' /\ holder' \in Collectors \cup {Nobody}
  <2>1. \A t \in Collectors : Stage(t)'
    BY <1>1, <1>2, StageFrame DEF RunsOK
  <2>2. QED
    BY <1>1, <1>2, <2>1 DEF RunsOK
<1>3. CASE UNCHANGED vars
  BY <1>2, <1>3 DEF vars, lock
<1>4. CASE Activation \/ BeginHealth \/ EndHealth \/ Tick \/ StepClockBack
           \/ \E s \in Symbols : ForeignClaim(s) \/ ForeignOutcome(s)
  <2>1. UNCHANGED <<pc, run, runs, holder>>
    BY <1>4 DEF Activation, BeginActivation, WriteManifest, ActivationFails, BeginHealth, EndHealth,
                Tick, StepClockBack, ForeignClaim, ForeignOutcome, lock
  <2>2. QED
    BY <1>2, <2>1
<1>5. ASSUME NEW c \in Collectors, RefreshFails(c) \/ RegisterRaises(c) \/ MeasureRaises(c) \/ FinishSymbol(c)
      PROVE  RunsOK' /\ runs' = runs /\ holder' = holder
  <2>1. runs' = runs /\ holder' = holder /\ pc[c] \in {"registering", "measuring"}
    BY <1>5 DEF RefreshFails, RegisterRaises, MeasureRaises, FinishSymbol, lock
  <2>2. QED
    BY <1>5, <2>1, EndRefreshType DEF RefreshFails, RegisterRaises, MeasureRaises, FinishSymbol
<1>6. ASSUME NEW c \in Collectors, Crash(c) \/ LogIsCorrupt(c) \/ AppendRecord(c)
      PROVE  RunsOK' /\ runs' = runs /\ holder' = Nobody
  <2>1. pc[c] \notin Waiting /\ Leave(c) /\ runs' = runs
    BY <1>1, <1>6 DEF Crash, LogIsCorrupt, AppendRecord, IsRecording, Waiting, RunsOK
  <2>2. QED
    BY <2>1, LeaveType
<1>7. ASSUME NEW c \in Collectors, Step(c)
      PROVE  RunsOK' /\ runs' \in 0 .. MaxRuns /\ runs <= runs' /\ holder' \in Collectors \cup {Nobody}
  <2>1. CASE Collect(c) \/ TakeLock(c) \/ GiveUp(c)
    BY <2>1, ApproachType
  <2>2. CASE Decide(c)
    BY <1>1, <2>2, DecideType DEF Decide, Decided, lock
  <2>3. CASE AppendStart(c) \/ Visit(c) \/ BuildSnapshot(c)
    BY <1>1, <2>3, VisitType DEF AppendStart, Visit, BuildSnapshot, lock
  <2>4. CASE SnapshotUnusable(c) \/ LedgerIsCorrupt(c) \/ TailIsStale(c) \/ BeginRefresh(c)
    BY <1>1, <2>4, FetchType DEF SnapshotUnusable, LedgerIsCorrupt, TailIsStale, BeginRefresh, lock
  <2>5. CASE RegisterClaim(c)
    BY <1>1, <2>5, RegisterType DEF RegisterClaim, lock
  <2>6. CASE ReadOutcomes(c) \/ WriteOutcome(c)
    BY <1>1, <2>6, MeasureType DEF ReadOutcomes, WriteOutcome, lock
  <2>7. QED
    BY <1>1, <1>5, <1>6, <1>7, <2>1, <2>2, <2>3, <2>4, <2>5, <2>6 DEF Step
<1>8. QED
  BY <1>1, <1>3, <1>4, <1>5, <1>6, <1>7 DEF Next, Move

(* A budget that is spent stays a budget.                                  *)
LEMMA SpendType ==
    ASSUME BudgetsOK, NEW budget \in Budgets \ {"last"}, Spend(budget)
    PROVE  BudgetsOK'
<1>1. left[budget] \in Nat /\ left[budget] > 0
  BY DEF BudgetsOK, Spend
<1>2. left[budget] - 1 \in Nat
  BY <1>1
<1>3. DOMAIN left' = Budgets /\ left'[budget] = left[budget] - 1
      /\ \A bound \in Budgets \ {budget} : left'[bound] = left[bound]
  BY DEF Spend, BudgetsOK
<1>4. "last" \in Budgets \ {budget}
  BY DEF Budgets
<1>5. QED
  BY <1>2, <1>3, <1>4 DEF BudgetsOK

(* The rest of the world.                                                  *)
LEMMA WorldType ==
    ASSUME Typed, [Next]_vars
    PROVE  WorldOK'
<1>1. WorldOK /\ now \in Ticks /\ BudgetsOK /\ MaxTime \in Nat
  BY Bounds DEF Typed, WorldOK
<1>2. /\ now' \in Ticks /\ root' \in {"absent", "locked", "unusable", "active"}
      /\ activated_at' \in Ticks \cup {NoTime} /\ reading' \in BOOLEAN /\ BudgetsOK'
  <2>1. UNCHANGED left => BudgetsOK'
    BY <1>1 DEF BudgetsOK
  <2>2. CASE UNCHANGED vars
    BY <1>1, <2>1, <2>2 DEF vars, manifest, lock, WorldOK
  <2>3. CASE BeginActivation \/ WriteManifest \/ BeginHealth \/ EndHealth
    BY <1>1, <2>1, <2>3 DEF BeginActivation, WriteManifest, BeginHealth, EndHealth, manifest, lock, WorldOK
  <2>4. CASE Tick
    <3>1. left.last \in Ticks /\ now' = now + 1 /\ now < left.last /\ UNCHANGED <<manifest, lock, left>>
      BY <1>1, <2>4 DEF Tick, BudgetsOK
    <3>2. now' \in Ticks
      BY <1>1, <3>1 DEF Ticks
    <3>3. QED
      BY <1>1, <2>1, <3>1, <3>2 DEF manifest, lock, WorldOK
  <2>5. CASE StepClockBack
    <3>1. BudgetsOK'
      BY <1>1, <2>5, SpendType DEF StepClockBack, Budgets
    <3>2. QED
      BY <1>1, <2>5, <3>1 DEF StepClockBack, manifest, lock, WorldOK
  <2>6. CASE ActivationFails
    <3>1. BudgetsOK'
      BY <1>1, <2>6, SpendType DEF ActivationFails, Budgets
    <3>2. QED
      BY <1>1, <2>6, <3>1 DEF ActivationFails, lock, WorldOK
  <2>7. CASE \E s \in Symbols : ForeignClaim(s) \/ ForeignOutcome(s)
    <3>1. BudgetsOK'
      BY <1>1, <2>7, SpendType DEF ForeignClaim, ForeignOutcome, Budgets
    <3>2. QED
      BY <1>1, <2>7, <3>1 DEF ForeignClaim, ForeignOutcome, manifest, lock, WorldOK
  <2>8. CASE \E c \in Collectors : RefreshFails(c) \/ Crash(c)
    <3>1. BudgetsOK'
      BY <1>1, <2>8, SpendType DEF RefreshFails, Crash, Budgets
    <3>2. QED
      BY <1>1, <2>8, <3>1 DEF RefreshFails, Crash, Leave, manifest, lock, WorldOK
  <2>9. CASE \E c \in Collectors : Step(c)
    <3>1. UNCHANGED <<now, manifest, reading, left>>
      BY <2>9, ZenonT(40) DEF Step, Collect, TakeLock, GiveUp, LogIsCorrupt, Decide, Decided, AppendStart, Visit,
         BuildSnapshot, SnapshotUnusable, LedgerIsCorrupt, TailIsStale, BeginRefresh, RegisterClaim,
         RegisterRaises, ReadOutcomes, WriteOutcome, MeasureRaises, FinishSymbol, AppendRecord, Leave, lock
    <3>2. QED
      BY <1>1, <2>1, <3>1 DEF manifest, WorldOK
  <2>10. QED
    BY <2>2, <2>3, <2>4, <2>5, <2>6, <2>7, <2>8, <2>9 DEF Next, Move, Activation
<1>3. \A i \in DOMAIN log'.rows : log'.rows[i].id <= runs'
  <2>1. /\ log \in File(LogRows) /\ runs \in Nat /\ runs' \in Nat /\ runs <= runs'
        /\ \A i \in DOMAIN log.rows : log.rows[i].id <= runs
    BY RunsType, Bounds DEF Typed, WorldOK, FilesOK
  <2>2. \A row \in LogRows : row.id \in Nat
    BY Bounds DEF LogRows, Starts, Records
  <2>3. \A row \in RowSet(log) : row.id <= runs'
    <3>1. \A i \in DOMAIN log.rows : log.rows[i] \in LogRows
      BY <2>1 DEF File
    <3>2. QED
      BY <2>1, <2>2, <3>1 DEF RowSet
  <2>4. ASSUME NEW row \in LogRows, IsLogged(row), log' \in CutShort(log, row)
        PROVE  \A r \in RowSet(log') : r.id <= runs'
    <3>1. PICK c \in Collectors : /\ row.id = run[c].id
                                  /\ pc[c] = "starting" \/ IsRecording(c)
      BY <2>4 DEF IsLogged, StartEntry, RecordEntry
    <3>2. pc[c] \notin Waiting /\ Stage(c)
      BY <3>1, LogEntryType DEF Typed, RunsOK
    <3>3. row.id <= runs'
      BY <2>1, <2>2, <3>1, <3>2 DEF Stage
    <3>4. RowSet(log') \subseteq RowSet(log) \cup {row}
      BY <2>1, <2>4, CutShortProperties
    <3>5. QED
      BY <2>3, <3>3, <3>4
  <2>5. \A r \in RowSet(log') : r.id <= runs'
    BY <2>3, <2>4, FilesChange DEF LogChange
  <2>6. QED
    BY <2>5 DEF RowSet
<1>4. QED
  BY <1>2, <1>3, RunsType, FilesType DEF WorldOK

(* Types, with what makes them inductive.                                  *)
LEMMA TypedInvariant == Spec => []Typed
<1>1. Init => Typed
  <2>1. ASSUME Init PROVE WorldOK
    <3>1. now \in Ticks /\ runs \in 0 .. MaxRuns
      BY <2>1, Bounds DEF Init, Ticks
    <3>2. \A Row : EmptyFile \in File(Row) /\ EmptyFile.rows = <<>>
      BY DEF EmptyFile, File, Tails
    <3>3. FilesOK /\ DOMAIN log.rows = {}
      BY <2>1, <3>2 DEF Init, FilesOK
    <3>4. BudgetsOK
      BY <2>1, CollectionAssumption DEF Init, BudgetsOK, Budgets
    <3>5. QED
      BY <2>1, <3>1, <3>3, <3>4 DEF Init, WorldOK
  <2>2. ASSUME Init PROVE RunsOK
    <3>1. /\ pc \in [Collectors -> Labels] /\ run \in [Collectors -> RunStates]
          /\ \A c \in Collectors : pc[c] = "idle" /\ run[c] = NoRun /\ holder # c
      BY <2>2, NoRunType, CollectionAssumption DEF Init, Labels
    <3>2. \A c \in Collectors : Stage(c)
      BY <3>1, NoRunType, UniverseProperty DEF Stage, Waiting
    <3>3. QED
      BY <3>1, <3>2 DEF RunsOK, Waiting
  <2>3. QED
    BY <2>1, <2>2 DEF Typed
<1>2. Typed /\ [Next]_vars => Typed'
  BY RunsType, WorldType DEF Typed
<1>3. QED
  BY <1>1, <1>2, PTL DEF Spec

(* TypeOK: what any number of collectors, foreign writers and faults leave *)
(* of the files is well-formed; the lock is with the one collector past it.*)
THEOREM TypeCorrect == Spec => []TypeOK
<1>1. Typed => TypeOK
  <2> SUFFICES ASSUME Typed PROVE TypeOK
    OBVIOUS
  <2>1. WorldOK /\ RunsOK /\ FilesOK /\ runs \in Nat
    BY Bounds DEF Typed, WorldOK
  <2>2. log.tail \in Tails /\ \A i \in DOMAIN log.rows : log.rows[i] \in LogRows
    BY <2>1 DEF FilesOK, File
  <2>3. ASSUME NEW i \in DOMAIN log.rows
        PROVE  /\ log.rows[i].id \in 1 .. runs /\ log.rows[i].started_at \in Ticks
               /\ log.rows[i].kind = "record" =>
                     /\ log.rows[i].status \in RunStatuses
                     /\ log.rows[i].symbols \in Seq(SymbolRuns)
                     /\ Len(log.rows[i].symbols)
                           = IF log.rows[i].status = "completed" THEN Len(Universe) ELSE 0
    <3>1. log.rows[i].id <= runs
      BY <2>1 DEF WorldOK
    <3>2. CASE log.rows[i] \in Starts
      BY <2>1, <3>1, <3>2, Bounds DEF Starts
    <3>3. CASE log.rows[i] \in Records
      BY <2>1, <3>1, <3>3, Bounds DEF Records
    <3>4. QED
      BY <2>2, <3>2, <3>3 DEF LogRows
  <2>4. \A s \in Symbols : outcomes[s].tail \in Tails
    BY <2>1 DEF FilesOK, File
  <2>5. ASSUME NEW c \in Collectors
        PROVE  /\ run[c].id \in 0 .. runs
               /\ Len(run[c].symbols) <= Len(Universe)
               /\ (holder = c) <=> (pc[c] \notin {"idle", "waiting"})
    <3>1. Stage(c) /\ (holder = c <=> pc[c] \notin Waiting)
      BY <2>1 DEF RunsOK
    <3>2. run[c].id \in 0 .. runs
      BY <2>1, <3>1, NoRunType DEF Stage
    <3>3. QED
      BY <3>1, <3>2 DEF Stage, Waiting
  <2>6. QED
    BY <2>1, <2>2, <2>3, <2>4, <2>5 DEF TypeOK, WorldOK, RunsOK, FilesOK
<1>2. QED
  BY <1>1, TypedInvariant, PTL

-----------------------------------------------------------------------------
(* The ledger grows.                                                       *)

(* A claim once written stays, and what is new was offered by a foreign    *)
(* writer or by the collector that was at its symbol.                      *)
LEMMA ClaimsGrow ==
    ASSUME Typed, ClaimsChange, NEW s \in Symbols
    PROVE  /\ RowSet(claims[s]) \subseteq RowSet(claims'[s])
           /\ \A claim \in RowSet(claims'[s]) \ RowSet(claims[s]) :
                 claim.symbol = s /\ claim.key[2] = claim.timestamp /\ IsOffered(s, claim)
<1>1. claims \in [Symbols -> File(Claims)]
  BY DEF Typed, WorldOK, FilesOK
<1>2. CASE claims' = claims
  BY <1>2
<1>3. ASSUME NEW t \in Symbols, NEW row \in Claims, row.symbol = t, row.key[2] = row.timestamp,
             IsOffered(t, row), ClaimAppended(t, row)
      PROVE  /\ RowSet(claims[s]) \subseteq RowSet(claims'[s])
             /\ \A claim \in RowSet(claims'[s]) \ RowSet(claims[s]) :
                   claim.symbol = s /\ claim.key[2] = claim.timestamp /\ IsOffered(s, claim)
  <2>1. PICK f \in CutShort(claims[t], row) : claims' = [claims EXCEPT ![t] = f]
    BY <1>3 DEF ClaimAppended
  <2>2. RowSet(claims[t]) \subseteq RowSet(f) /\ RowSet(f) \subseteq RowSet(claims[t]) \cup {row}
    BY <1>1, <2>1, CutShortProperties
  <2>3. CASE s = t
    BY <1>1, <1>3, <2>1, <2>2, <2>3
  <2>4. CASE s # t
    BY <1>1, <2>1, <2>4
  <2>5. QED
    BY <2>3, <2>4
<1>4. QED
  BY <1>2, <1>3 DEF ClaimsChange

(* An outcome once written stays, too.                                     *)
LEMMA OutcomesGrow ==
    ASSUME Typed, OutcomesChange, NEW s \in Symbols
    PROVE  /\ RowSet(outcomes[s]) \subseteq RowSet(outcomes'[s])
           /\ \A outcome \in RowSet(outcomes'[s]) \ RowSet(outcomes[s]) : IsMeasured(s, outcome)
<1>1. outcomes \in [Symbols -> File(Outcomes)]
  BY DEF Typed, WorldOK, FilesOK
<1>2. CASE outcomes' = outcomes
  BY <1>2
<1>3. ASSUME NEW t \in Symbols, NEW row \in Outcomes, IsMeasured(t, row), OutcomeAppended(t, row)
      PROVE  /\ RowSet(outcomes[s]) \subseteq RowSet(outcomes'[s])
             /\ \A outcome \in RowSet(outcomes'[s]) \ RowSet(outcomes[s]) : IsMeasured(s, outcome)
  <2>1. PICK f \in CutShort(outcomes[t], row) : outcomes' = [outcomes EXCEPT ![t] = f]
    BY <1>3 DEF OutcomeAppended
  <2>2. RowSet(outcomes[t]) \subseteq RowSet(f) /\ RowSet(f) \subseteq RowSet(outcomes[t]) \cup {row}
    BY <1>1, <2>1, CutShortProperties
  <2>3. CASE s = t
    BY <1>1, <1>3, <2>1, <2>2, <2>3
  <2>4. CASE s # t
    BY <1>1, <2>1, <2>4
  <2>5. QED
    BY <2>3, <2>4
<1>4. QED
  BY <1>2, <1>3 DEF OutcomesChange

-----------------------------------------------------------------------------
(* A torn run log.                                                         *)

(* Only a run that ends can tear the log, and no run gets past its         *)
(* decision over a torn one.                                               *)
TornLogWaits ==
    log.tail # "clean" => \A c \in Collectors : pc[c] \in Waiting \cup {"deciding"}

(* Who is past its decision stays there only over a clean log.             *)
LEMMA TornLogStep ==
    ASSUME Typed, TornLogWaits, [Next]_vars
    PROVE  TornLogWaits'
<1>1. pc \in [Collectors -> Labels] /\ log \in File(LogRows)
  BY DEF Typed, RunsOK, WorldOK, FilesOK
<1>2. CASE pc' = pc /\ log' = log
  BY <1>2 DEF TornLogWaits
<1>3. CASE \/ UNCHANGED vars \/ Activation \/ BeginHealth \/ EndHealth \/ Tick \/ StepClockBack
           \/ \E s \in Symbols : ForeignClaim(s) \/ ForeignOutcome(s)
  <2>1. pc' = pc /\ log' = log
    BY <1>3 DEF vars, Activation, BeginActivation, WriteManifest, ActivationFails, BeginHealth, EndHealth,
                Tick, StepClockBack, ForeignClaim, ForeignOutcome
  <2>2. QED
    BY <1>2, <2>1
<1>4. ASSUME NEW c \in Collectors, Crash(c) \/ LogIsCorrupt(c) \/ AppendRecord(c)
      PROVE  TornLogWaits'
  <2>1. pc[c] \notin Waiting /\ Leave(c) /\ runs' = runs
    BY <1>4 DEF Crash, LogIsCorrupt, AppendRecord, IsRecording, Waiting, Typed, RunsOK
  <2>2. QED
    BY <2>1, LeaveType DEF TornLogWaits
<1>5. ASSUME NEW c \in Collectors, Collect(c) \/ TakeLock(c) \/ GiveUp(c)
      PROVE  TornLogWaits'
  <2>1. log' = log /\ \E label \in Waiting \cup {"deciding"} : pc' = [pc EXCEPT ![c] = label]
    BY <1>5 DEF Collect, TakeLock, GiveUp, Goto, Waiting
  <2>2. QED
    BY <1>1, <2>1 DEF TornLogWaits
<1>6. ASSUME NEW c \in Collectors, Decide(c) PROVE TornLogWaits'
  BY <1>6 DEF Decide, Decided, TornLogWaits
<1>7. ASSUME NEW c \in Collectors, pc[c] \notin Waiting \cup {"deciding"}, log' = log PROVE TornLogWaits'
  BY <1>7 DEF TornLogWaits
<1>8. ASSUME NEW c \in Collectors, AppendStart(c) PROVE TornLogWaits'
  <2>1. pc[c] = "starting" /\ log' = Appended(log, StartEntry(c))
    BY <1>8 DEF AppendStart
  <2>2. log.tail = "clean" /\ StartEntry(c) \in LogRows
    BY <2>1, LogEntryType DEF TornLogWaits, Waiting
  <2>3. log'.tail = "clean"
    BY <1>1, <2>1, <2>2, AppendedProperties
  <2>4. QED
    BY <2>3 DEF TornLogWaits
<1>9. ASSUME NEW c \in Collectors,
             RefreshFails(c) \/ Visit(c) \/ BuildSnapshot(c) \/ SnapshotUnusable(c)
             \/ LedgerIsCorrupt(c) \/ TailIsStale(c) \/ BeginRefresh(c)
             \/ RegisterClaim(c) \/ RegisterRaises(c) \/ ReadOutcomes(c)
             \/ WriteOutcome(c) \/ MeasureRaises(c) \/ FinishSymbol(c)
      PROVE  TornLogWaits'
  <2>1. pc[c] \notin Waiting \cup {"deciding"} /\ log' = log
    BY <1>9 DEF RefreshFails, Visit, BuildSnapshot, SnapshotUnusable, LedgerIsCorrupt, TailIsStale,
                BeginRefresh, RegisterClaim, RegisterRaises, ReadOutcomes, WriteOutcome, MeasureRaises,
                FinishSymbol, Waiting
  <2>2. QED
    BY <1>7, <2>1
<1>10. ASSUME NEW c \in Collectors, Step(c) PROVE TornLogWaits'
  BY <1>4, <1>5, <1>6, <1>8, <1>9, <1>10 DEF Step
<1>11. QED
  BY <1>3, <1>4, <1>9, <1>10 DEF Next, Move

(* So a torn log waits for a repair by hand.                               *)
LEMMA TornLogInvariant == Spec => []TornLogWaits
<1>1. Init => TornLogWaits
  BY DEF Init, EmptyFile, TornLogWaits
<1>2. QED
  BY <1>1, TypedInvariant, TornLogStep, PTL DEF Spec

(* TornLogFreezes: once an append to runs.jsonl was cut short, no step adds*)
(* to the log, and none adds a claim or an outcome of the collector's.     *)
THEOREM TornLogStops == Spec => TornLogFreezes
<1>1. ASSUME Typed, TornLogWaits, [Next]_vars, log.tail # "clean"
      PROVE  UNCHANGED log /\ OwnRows' = OwnRows
  <2>1. ClaimsChange /\ OutcomesChange /\ LogChange
    BY <1>1, FilesChange
  <2>2. \A c \in Collectors : pc[c] \in Waiting \cup {"deciding"}
    BY <1>1 DEF TornLogWaits
  <2>3. \A c \in Collectors : pc[c] \notin {"registering", "measuring", "starting"} /\ ~IsRecording(c)
    BY <2>2 DEF Waiting, IsRecording
  <2>4. log' = log
    BY <2>1, <2>3 DEF LogChange, IsLogged
  <2>5. ASSUME NEW s \in Symbols
        PROVE  /\ RowSet(claims[s]) \subseteq RowSet(claims'[s])
               /\ \A claim \in RowSet(claims'[s]) \ RowSet(claims[s]) : claim.by = Foreign
               /\ RowSet(outcomes[s]) \subseteq RowSet(outcomes'[s])
               /\ \A outcome \in RowSet(outcomes'[s]) \ RowSet(outcomes[s]) : outcome.by = Foreign
    BY <1>1, <2>1, <2>3, ClaimsGrow, OutcomesGrow DEF IsOffered, IsMeasured, OutcomeRow
  <2>6. {claim \in AllClaims' : claim.by # Foreign} = {claim \in AllClaims : claim.by # Foreign}
    BY <2>5 DEF AllClaims
  <2>7. {outcome \in AllOutcomes' : outcome.by # Foreign} = {outcome \in AllOutcomes : outcome.by # Foreign}
    BY <2>5 DEF AllOutcomes
  <2>8. QED
    BY <2>4, <2>6, <2>7 DEF OwnRows
<1>2. QED
  BY <1>1, TypedInvariant, TornLogInvariant, PTL DEF Spec, TornLogFreezes

-----------------------------------------------------------------------------
(* Where a step leads.                                                     *)

(* A step of one collector moves no other.                                 *)
LEMMA OthersStand ==
    ASSUME Typed, NEW c \in Collectors, Step(c) \/ RefreshFails(c) \/ Crash(c),
           NEW t \in Collectors \ {c}
    PROVE  pc'[t] = pc[t] /\ run'[t] = run[t]
<1>1. pc \in [Collectors -> Labels] /\ run \in [Collectors -> RunStates]
  BY DEF Typed, RunsOK
<1>2. pc' = pc \/ \E label \in Labels : pc' = [pc EXCEPT ![c] = label]
  <2>1. CASE RefreshFails(c) \/ Crash(c)
    BY <2>1 DEF RefreshFails, Crash, Leave, Raised, NextSymbol, Goto, Labels
  <2>2. CASE Step(c)
    BY <2>2 DEF Step, Collect, TakeLock, GiveUp, LogIsCorrupt, Decide, Decided, AppendStart, Visit, BuildSnapshot,
         SnapshotUnusable, LedgerIsCorrupt, TailIsStale, BeginRefresh, RegisterClaim, RegisterRaises, ReadOutcomes,
         WriteOutcome, MeasureRaises, FinishSymbol, AppendRecord, Leave, Raised, Unreached, NextSymbol, Goto, Labels
  <2>3. QED
    BY <2>1, <2>2
<1>3. run' = run \/ \E r : run' = [run EXCEPT ![c] = r]
  <2>1. CASE RefreshFails(c) \/ Crash(c)
    BY <2>1 DEF RefreshFails, Crash, Leave, Raised, NextSymbol
  <2>2. CASE Collect(c) \/ GiveUp(c) \/ TakeLock(c) \/ LogIsCorrupt(c) \/ Decide(c) \/ AppendStart(c)
             \/ AppendRecord(c)
    BY <2>2 DEF Collect, TakeLock, GiveUp, LogIsCorrupt, Decide, Decided, AppendStart, AppendRecord, Leave
  <2>3. CASE Visit(c) \/ BuildSnapshot(c) \/ SnapshotUnusable(c) \/ LedgerIsCorrupt(c) \/ TailIsStale(c)
             \/ RegisterRaises(c) \/ MeasureRaises(c) \/ FinishSymbol(c)
    BY <2>3 DEF Visit, BuildSnapshot, SnapshotUnusable, LedgerIsCorrupt, TailIsStale, RegisterRaises,
                MeasureRaises, FinishSymbol, Raised, Unreached, NextSymbol
  <2>4. CASE BeginRefresh(c) \/ RegisterClaim(c) \/ ReadOutcomes(c) \/ WriteOutcome(c)
    BY <2>4 DEF BeginRefresh, RegisterClaim, ReadOutcomes, WriteOutcome, Raised, NextSymbol
  <2>5. QED
    BY <2>1, <2>2, <2>3, <2>4 DEF Step
<1>4. QED
  BY <1>1, <1>2, <1>3

(* No collector moves unless one takes a step.                             *)
LEMMA AllStand ==
    ASSUME Typed, [Next]_vars, ~(\E c \in Collectors : Step(c) \/ RefreshFails(c) \/ Crash(c))
    PROVE  pc' = pc /\ run' = run
BY DEF Next, Move, vars, Activation, BeginActivation, WriteManifest, ActivationFails, BeginHealth,
       EndHealth, Tick, StepClockBack, ForeignClaim, ForeignOutcome

(* How a collector comes to be in the middle of a symbol.                  *)
LEMMA AtSymbol ==
    ASSUME Typed, [Next]_vars, NEW t \in Collectors,
           pc'[t] \in {"fetching", "registering", "measuring"}
    PROVE  \/ pc'[t] = pc[t] /\ run'[t] = run[t]
           \/ /\ BuildSnapshot(t) /\ pc'[t] = "fetching" /\ run'[t].built_at = now
              /\ run'[t].symbols = run[t].symbols
           \/ BeginRefresh(t) /\ pc'[t] = "registering"
           \/ RegisterClaim(t) /\ pc'[t] = "registering"
           \/ /\ ReadOutcomes(t) \/ WriteOutcome(t)
              /\ pc[t] \in {"registering", "measuring"} /\ pc'[t] = "measuring"
              /\ run'[t].built_at = run[t].built_at /\ run'[t].symbols = run[t].symbols
              /\ run'[t].tail = run[t].tail /\ run'[t].missed = run[t].missed
<1>1. pc \in [Collectors -> Labels] /\ run \in [Collectors -> RunStates]
  BY DEF Typed, RunsOK
<1>2. CASE ~(Step(t) \/ RefreshFails(t) \/ Crash(t))
  <2>1. CASE \E c \in Collectors : Step(c) \/ RefreshFails(c) \/ Crash(c)
    BY <1>2, <2>1, OthersStand
  <2>2. CASE ~(\E c \in Collectors : Step(c) \/ RefreshFails(c) \/ Crash(c))
    BY <2>2, AllStand
  <2>3. QED
    BY <2>1, <2>2
<1>3. ASSUME NEW label \in {"idle", "waiting", "deciding", "starting", "recording", "visiting", "building"},
             Goto(t, label)
      PROVE  FALSE
  BY <1>1, <1>3 DEF Goto
<1>4. CASE RefreshFails(t) \/ Crash(t) \/ Collect(t) \/ TakeLock(t) \/ GiveUp(t) \/ LogIsCorrupt(t) \/ Decide(t)
           \/ AppendStart(t) \/ AppendRecord(t)
  BY <1>3, <1>4 DEF RefreshFails, Crash, Collect, TakeLock, GiveUp, LogIsCorrupt, Decide, Decided, AppendStart,
                    AppendRecord, Leave, Raised, NextSymbol
<1>5. CASE Visit(t) \/ SnapshotUnusable(t) \/ LedgerIsCorrupt(t) \/ TailIsStale(t) \/ RegisterRaises(t)
           \/ MeasureRaises(t) \/ FinishSymbol(t)
  BY <1>3, <1>5 DEF Visit, SnapshotUnusable, LedgerIsCorrupt, TailIsStale, RegisterRaises, MeasureRaises,
                    FinishSymbol, Raised, Unreached, NextSymbol
<1>6. CASE BuildSnapshot(t)
  <2>1. pc'[t] = "fetching" /\ run'[t] = [run[t] EXCEPT !.built_at = now]
    BY <1>1, <1>6 DEF BuildSnapshot, Goto
  <2>2. run[t] \in RunStates
    BY <1>1
  <2>3. QED
    BY <1>6, <2>1, <2>2 DEF RunStates
<1>7. CASE BeginRefresh(t) \/ RegisterClaim(t)
  BY <1>1, <1>7 DEF BeginRefresh, RegisterClaim, Goto
<1>8. CASE ReadOutcomes(t) /\ ~Raised(t)
  <2>1. /\ pc[t] = "registering" /\ pc'[t] = "measuring"
        /\ run'[t] = [run[t] EXCEPT !.present = Keys(outcomes[Symbol(t)])]
    BY <1>1, <1>8 DEF ReadOutcomes, Goto
  <2>2. run[t] \in RunStates
    BY <1>1
  <2>3. QED
    BY <1>8, <2>1, <2>2 DEF RunStates
<1>9. CASE Raised(t)
  BY <1>3, <1>9 DEF Raised, NextSymbol
<1>10. CASE WriteOutcome(t)
  <2> DEFINE at == Item(t) + 1
             new == run[t].outcomes_new + 1
  <2>1. /\ pc[t] = "measuring" /\ pc'[t] = "measuring"
        /\ run'[t] = [run[t] EXCEPT !.at = at, !.outcomes_new = new]
    BY <1>1, <1>10 DEF WriteOutcome
  <2> HIDE DEF at, new
  <2>2. run[t] \in RunStates
    BY <1>1
  <2>3. QED
    BY <1>10, <2>1, <2>2 DEF RunStates
<1>11. QED
  BY <1>2, <1>4, <1>5, <1>6, <1>7, <1>8, <1>9, <1>10 DEF Step

-----------------------------------------------------------------------------
(* When a claim is stamped.                                                *)

(* Before the manifest there is no run and no claim: no activation time is *)
(* ever set under a claim that was measured against another.                *)
Unstarted == root = "absent" => (\A c \in Collectors : pc[c] = "idle") /\ AllClaims = {}

KeyedByTail == \A claim \in AllClaims : claim.key[2] = claim.timestamp

FiledBySymbol == \A s \in Symbols : \A claim \in RowSet(claims[s]) : claim.symbol = s

(* What a collector has checked of the tail it registers: the window and   *)
(* activation always, and that the tail is current if a claim is missing.  *)
Vetted(c) ==
    /\ InWindow(run[c].built_at)
    /\ ~IsPreActivation(run[c].tail, activated_at)
    /\ Unheld(c) = {} \/ IsCurrentTail(run[c].tail, run[c].built_at)

Prospective ==
    /\ Unstarted
    /\ KeyedByTail
    /\ FiledBySymbol
    /\ OwnClaimsAreProspective
    /\ \A c \in Collectors : pc[c] = "registering" => Vetted(c)

(* Before activation nothing runs, and activation happens once.            *)
LEMMA ManifestStep ==
    ASSUME Typed, Unstarted, [Next]_vars
    PROVE  /\ root = "absent" => pc' = pc /\ run' = run /\ claims' = claims
           /\ root # "absent" => root' # "absent" /\ activated_at' = activated_at
<1>1. ASSUME root = "absent" PROVE pc' = pc /\ run' = run /\ claims' = claims
  <2>1. \A c \in Collectors : pc[c] = "idle" /\ holder # c
    BY <1>1 DEF Unstarted, Typed, RunsOK, Waiting
  <2>2. \A c \in Collectors : ~(Step(c) \/ RefreshFails(c) \/ Crash(c))
    BY <1>1, <2>1, ZenonT(40)
       DEF Step, Collect, TakeLock, GiveUp, LogIsCorrupt, Decide, AppendStart, Visit, BuildSnapshot,
           SnapshotUnusable, LedgerIsCorrupt, TailIsStale, BeginRefresh, RegisterClaim, RegisterRaises,
           ReadOutcomes, WriteOutcome, MeasureRaises, FinishSymbol, AppendRecord, IsRecording, RefreshFails,
           Crash
  <2>3. \A s \in Symbols : ~ForeignClaim(s) /\ ~ForeignOutcome(s)
    BY <1>1 DEF ForeignClaim, ForeignOutcome
  <2>4. claims' = claims
    BY <2>2, <2>3 DEF Next, Move, vars, ledger, Activation, BeginActivation, WriteManifest, ActivationFails,
                      BeginHealth, EndHealth, Tick, StepClockBack
  <2>5. QED
    BY <2>2, <2>4, AllStand
<1>2. ASSUME root # "absent" PROVE root' # "absent" /\ activated_at' = activated_at
  <2>1. CASE UNCHANGED manifest
    BY <1>2, <2>1 DEF manifest
  <2>2. CASE Activation
    BY <1>2, <2>2 DEF Activation, BeginActivation, WriteManifest, ActivationFails
  <2>3. ASSUME NEW c \in Collectors, Step(c) PROVE UNCHANGED manifest
    BY <2>3 DEF Step, Collect, TakeLock, GiveUp, LogIsCorrupt, Decide, Decided, AppendStart, Visit, BuildSnapshot,
         SnapshotUnusable, LedgerIsCorrupt, TailIsStale, BeginRefresh, RegisterClaim, RegisterRaises, ReadOutcomes,
         WriteOutcome, MeasureRaises, FinishSymbol, AppendRecord
  <2>4. ASSUME NEW c \in Collectors, RefreshFails(c) \/ Crash(c) PROVE UNCHANGED manifest
    BY <2>4 DEF RefreshFails, Crash
  <2>5. CASE UNCHANGED vars \/ BeginHealth \/ EndHealth \/ Tick \/ StepClockBack
             \/ \E s \in Symbols : ForeignClaim(s) \/ ForeignOutcome(s)
    BY <2>1, <2>5 DEF vars, BeginHealth, EndHealth, Tick, StepClockBack, ForeignClaim, ForeignOutcome
  <2>6. QED
    BY <2>1, <2>2, <2>3, <2>4, <2>5 DEF Next, Move
<1>3. QED
  BY <1>1, <1>2

(* As many claims about one bar as a complete tail has are a complete tail:*)
(* their keys are apart and so are their producers.                        *)
LEMMA CompleteTail ==
    ASSUME NEW file \in File(Claims), NoRepeatedKey(file),
           \A claim \in RowSet(file) : claim.key[2] = claim.timestamp,
           NEW tail,
           ~(Cardinality({claim \in RowSet(file) : claim.timestamp = tail}) < ClaimsPerTail)
    PROVE  Lacking(file.rows, tail) = {}
<1> DEFINE tails == {claim \in RowSet(file) : claim.timestamp = tail}
<1> SUFFICES ASSUME NEW p \in Lacking(file.rows, tail) PROVE FALSE
  OBVIOUS
<1> DEFINE others == Producers \ {p}
           f == [claim \in tails |-> claim.key[1]]
<1>1. p \in Producers /\ \A i \in DOMAIN file.rows : file.rows[i].key # <<p, tail>>
  BY DEF Lacking
<1>2. ASSUME NEW claim \in tails
      PROVE  claim \in RowSet(file) /\ claim.key = <<claim.key[1], tail>> /\ claim.key[1] \in others
  <2>1. claim \in RowSet(file) /\ claim.timestamp = tail /\ claim.key[2] = tail
    OBVIOUS
  <2>2. claim \in Claims
    BY <2>1, RowSetType
  <2>3. claim.key \in Producers \X Days
    BY <2>2 DEF Claims
  <2>4. claim.key = <<claim.key[1], tail>> /\ claim.key[1] \in Producers
    BY <2>1, <2>3
  <2>5. claim.key # <<p, tail>>
    BY <1>1, <2>1 DEF RowSet
  <2>6. QED
    BY <2>1, <2>4, <2>5
<1>3. ASSUME NEW a \in tails, NEW b \in tails, a.key[1] = b.key[1] PROVE a = b
  <2>1. PICK i \in DOMAIN file.rows : a = file.rows[i]
    BY <1>2 DEF RowSet
  <2>2. PICK j \in DOMAIN file.rows : b = file.rows[j]
    BY <1>2 DEF RowSet
  <2>3. a.key = b.key
    BY <1>2, <1>3
  <2>4. QED
    BY <2>1, <2>2, <2>3 DEF NoRepeatedKey
<1> HIDE DEF tails, others
<1>4. f \in Injection(tails, others)
  BY <1>2, <1>3 DEF Injection, IsInjective
<1>5. IsFiniteSet(others) /\ Cardinality(others) = ClaimsPerTail - 1
  BY <1>1, Bounds, FS_RemoveElement DEF others
<1>6. IsFiniteSet(tails) /\ Cardinality(tails) <= ClaimsPerTail - 1
  BY <1>4, <1>5, FS_Injection
<1>7. Cardinality(tails) \in Nat
  BY <1>6, FS_CardinalityType
<1>8. Cardinality(tails) < ClaimsPerTail
  BY <1>6, <1>7, Bounds
<1>9. QED
  BY <1>8 DEF tails

(* A refresh begins with a current tail, or one that lacks nothing.        *)
LEMMA RefreshIsVetted ==
    ASSUME Typed, KeyedByTail, NEW c \in Collectors, BeginRefresh(c), activated_at' = activated_at
    PROVE  Vetted(c)'
<1>1. PICK bars \in UsableAnswers(c) :
          /\ ~IsStale(c, LatestOf(bars))
          /\ run' = [run EXCEPT ![c] = [run[c] EXCEPT !.bars = bars, !.tail = LatestOf(bars),
                                                      !.missed = MissedTails(c, bars),
                                                      !.held = claims[Symbol(c)].rows]]
  BY ZenonT(40) DEF BeginRefresh
<1> DEFINE held == claims[Symbol(c)].rows
           tail == LatestOf(bars)
<1>2. run \in [Collectors -> RunStates] /\ run[c] \in RunStates
  BY DEF Typed, RunsOK
<1>3. run'[c].tail = tail /\ run'[c].held = held /\ run'[c].built_at = run[c].built_at
  <2>1. run'[c] = [run[c] EXCEPT !.bars = bars, !.tail = LatestOf(bars),
                                 !.missed = MissedTails(c, bars), !.held = claims[Symbol(c)].rows]
    BY <1>1, <1>2
  <2> DEFINE missed == MissedTails(c, bars)
  <2> HIDE DEF held, tail, missed
  <2>2. run'[c] = [run[c] EXCEPT !.bars = bars, !.tail = tail, !.missed = missed, !.held = held]
    BY <2>1 DEF held, tail, missed
  <2>3. QED
    BY <1>2, <2>2 DEF RunStates
<1>4. InWindow(run[c].built_at) /\ ~IsPreActivation(tail, activated_at)
  BY DEF UsableAnswers
<1>5. Unheld(c)' = Lacking(held, tail)
  <2> HIDE DEF held, tail
  <2>1. QED
    BY <1>3 DEF Unheld, Lacking
<1>6. IsCurrentTail(tail, run[c].built_at) \/ Lacking(held, tail) = {}
  <2>1. CASE IsCurrentTail(tail, run[c].built_at)
    BY <2>1
  <2>2. CASE ~(Cardinality({claim \in Registered(c) : claim.timestamp = tail}) < ClaimsPerTail)
    <3>1. Symbol(c) \in Symbols
      BY SymbolType DEF Typed, RunsOK, Stage, BeginRefresh
    <3>2. claims[Symbol(c)] \in File(Claims) /\ NoRepeatedKey(claims[Symbol(c)])
      BY <3>1 DEF Typed, WorldOK, FilesOK, BeginRefresh, Readable
    <3>3. \A claim \in RowSet(claims[Symbol(c)]) : claim.key[2] = claim.timestamp
      BY <3>1 DEF KeyedByTail, AllClaims
    <3>4. QED
      BY <2>2, <3>2, <3>3, CompleteTail DEF Registered
  <2>3. QED
    BY <1>1, <2>1, <2>2 DEF IsStale
<1> HIDE DEF held, tail
<1>7. QED
  BY <1>3, <1>4, <1>5, <1>6 DEF Vetted

(* A claim written leaves fewer missing, and the rest as it was.           *)
LEMMA RegisteringStays ==
    ASSUME Typed, NEW c \in Collectors, RegisterClaim(c)
    PROVE  /\ run'[c].tail = run[c].tail /\ run'[c].built_at = run[c].built_at
           /\ run'[c].missed = run[c].missed /\ run'[c].symbols = run[c].symbols
           /\ pc'[c] = "registering" /\ pc[c] = "registering"
           /\ Unheld(c) # {} /\ Unheld(c)' \subseteq Unheld(c)
<1>1. /\ run \in [Collectors -> RunStates] /\ run[c] \in RunStates
      /\ pc[c] = "registering" /\ pc' = pc /\ Unheld(c) # {}
  BY DEF Typed, RunsOK, RegisterClaim
<1> DEFINE held == Append(run[c].held, NextClaim(c))
           more == run[c].artifacts_new + 1
<1>2. run'[c] = [run[c] EXCEPT !.held = held, !.artifacts_new = more]
  BY <1>1 DEF RegisterClaim
<1>3. run[c].held \in Seq(Claims)
  BY <1>1 DEF RunStates
<1>4. NextClaim(c) \in Claims /\ \E p \in Unheld(c) : NextClaim(c).key = <<p, run[c].tail>>
  BY <1>1, NextClaimProperty
<1>5. Unheld(c) = Lacking(run[c].held, run[c].tail)
  BY DEF Unheld, Lacking
<1>6. Lacking(held, run[c].tail) \subseteq Unheld(c)
  BY <1>3, <1>4, <1>5, LackingProperty
<1> HIDE DEF held, more
<1>7. /\ run'[c].held = held /\ run'[c].tail = run[c].tail /\ run'[c].built_at = run[c].built_at
      /\ run'[c].missed = run[c].missed /\ run'[c].symbols = run[c].symbols
  BY <1>1, <1>2 DEF RunStates
<1>8. Unheld(c)' = Lacking(held, run[c].tail)
  BY <1>7 DEF Unheld, Lacking
<1>9. QED
  BY <1>1, <1>6, <1>7, <1>8

(* What is vetted stays vetted as long as it is registered.                *)
LEMMA ProspectiveStep ==
    ASSUME Typed, Prospective, [Next]_vars
    PROVE  Prospective'
<1>1. Unstarted /\ KeyedByTail /\ ClaimsChange
  BY FilesChange DEF Prospective
<1>2. \A s \in Symbols : \A claim \in RowSet(claims'[s]) :
         \/ claim \in RowSet(claims[s])
         \/ claim.symbol = s /\ claim.key[2] = claim.timestamp /\ IsOffered(s, claim)
  BY <1>1, ClaimsGrow
<1>3. Unstarted'
  BY <1>1, ManifestStep DEF Unstarted, AllClaims
<1>4. KeyedByTail' /\ FiledBySymbol'
  BY <1>1, <1>2 DEF KeyedByTail, FiledBySymbol, AllClaims, Prospective
<1>5. OwnClaimsAreProspective'
  <2> SUFFICES ASSUME NEW s \in Symbols, NEW claim \in RowSet(claims'[s]), claim.by # Foreign
               PROVE  /\ InWindow(claim.recorded_at)
                      /\ IsCurrentTail(claim.timestamp, claim.recorded_at)
                      /\ ~IsPreActivation(claim.timestamp, activated_at')
    BY DEF OwnClaimsAreProspective, AllClaims, InWindow, IsCurrentTail, IsPreActivation, Date, SettlesAt, NextWeekday
  <2>1. /\ InWindow(claim.recorded_at)
        /\ IsCurrentTail(claim.timestamp, claim.recorded_at)
        /\ ~IsPreActivation(claim.timestamp, activated_at)
    <3>1. CASE claim \in RowSet(claims[s])
      BY <3>1 DEF Prospective, OwnClaimsAreProspective, AllClaims
    <3>2. ASSUME NEW c \in Collectors, pc[c] = "registering", Unheld(c) # {}, claim = NextClaim(c)
          PROVE  /\ InWindow(claim.recorded_at)
                 /\ IsCurrentTail(claim.timestamp, claim.recorded_at)
                 /\ ~IsPreActivation(claim.timestamp, activated_at)
      BY <3>2, NextClaimProperty DEF Prospective, Vetted
    <3>3. QED
      BY <1>2, <3>1, <3>2 DEF IsOffered
  <2>2. root # "absent"
    <3>1. ASSUME root = "absent" PROVE FALSE
      <4>1. claim \in AllClaims
        BY <1>1, <3>1, ManifestStep DEF AllClaims
      <4>2. QED
        BY <1>1, <3>1, <4>1 DEF Unstarted
    <3>2. QED
      BY <3>1
  <2>3. QED
    BY <1>1, <2>1, <2>2, ManifestStep
<1>6. ASSUME NEW c \in Collectors, pc'[c] = "registering" PROVE Vetted(c)'
  <2>1. root # "absent"
    <3>1. ASSUME root = "absent" PROVE FALSE
      BY <1>1, <1>6, <3>1, ManifestStep DEF Unstarted
    <3>2. QED
      BY <3>1
  <2>2. activated_at' = activated_at
    BY <1>1, <2>1, ManifestStep
  <2>3. CASE pc'[c] = pc[c] /\ run'[c] = run[c]
    <3>1. Unheld(c)' = Unheld(c)
      BY <2>3 DEF Unheld
    <3>2. QED
      BY <1>6, <2>2, <2>3, <3>1 DEF Prospective, Vetted
  <2>4. CASE BeginRefresh(c)
    BY <1>1, <2>2, <2>4, RefreshIsVetted
  <2>5. CASE RegisterClaim(c)
    BY <2>2, <2>5, RegisteringStays DEF Prospective, Vetted
  <2>6. QED
    BY <1>6, <2>3, <2>4, <2>5, AtSymbol
<1>7. QED
  BY <1>3, <1>4, <1>5, <1>6 DEF Prospective

(* Every claim is vetted before it is written.                             *)
LEMMA ProspectiveInvariant == Spec => []Prospective
<1>1. Init => Prospective
  <2> SUFFICES ASSUME Init PROVE Prospective
    OBVIOUS
  <2>1. \A c \in Collectors : pc[c] = "idle"
    BY DEF Init
  <2>2. \A s \in Symbols : RowSet(claims[s]) = {}
    BY DEF Init, EmptyFile, RowSet
  <2>3. QED
    BY <2>1, <2>2 DEF Prospective, Unstarted, KeyedByTail, FiledBySymbol, OwnClaimsAreProspective, AllClaims
<1>2. QED
  BY <1>1, TypedInvariant, ProspectiveStep, PTL DEF Spec

(* OwnClaimsAreProspective: whatever is cut short, completed by a later run*)
(* or answered late, every claim of the collector's was stamped inside the *)
(* window, no later than its bar's next weekday, about a bar that settled  *)
(* after activation.                                                       *)
THEOREM ClaimsAreProspective == Spec => []OwnClaimsAreProspective
<1>1. Prospective => OwnClaimsAreProspective
  BY DEF Prospective
<1>2. QED
  BY <1>1, ProspectiveInvariant, PTL

-----------------------------------------------------------------------------
(* Which bars are never claimed.                                           *)

Listed(visits, s, d) == \E n \in DOMAIN visits : visits[n].symbol = s /\ d \in visits[n].missed

Logged(s, d) == \E i \in DOMAIN log.rows : Listed(log.rows[i].symbols, s, d)

InHand(c, s, d) == pc[c] \in {"registering", "measuring"} /\ Symbol(c) = s /\ d \in run[c].missed

(* The bar of d is known to be missed for symbol s.                        *)
Known(s, d) == Logged(s, d) \/ \E c \in Collectors : Listed(run[c].symbols, s, d) \/ InHand(c, s, d)

(* The last day on which the bar of d could be claimed is over.            *)
GoneBy(d, t) == NextWeekday(d) < Date(t)

IsOwnTail(s, d) == \E claim \in RowSet(claims[s]) : claim.by # Foreign /\ claim.timestamp = d

(* A missed bar's day is over by any clock that stamps a later claim; so   *)
(* the rule of the current tail keeps the collector from claiming it.      *)
MissedIsGone ==
    ~seen.stepped =>
        /\ \A s \in Symbols, d \in Days : Known(s, d) => GoneBy(d, now) /\ ~IsOwnTail(s, d)
        /\ \A c \in Collectors : pc[c] \in {"fetching", "registering", "measuring"} =>
              /\ run[c].built_at <= now
              /\ \A s \in Symbols, d \in Days :
                    Logged(s, d) \/ Listed(run[c].symbols, s, d) => GoneBy(d, run[c].built_at)
        /\ \A c \in Collectors : pc[c] \in {"registering", "measuring"} =>
              \A d \in run[c].missed : d < run[c].tail

(* Every day has a next weekday.                                           *)
LEMMA NextWeekdayType ==
    ASSUME NEW d \in Nat
    PROVE  NextWeekday(d) \in Nat
<1>1. CASE d + 1 \notin Weekend
  BY <1>1, NextWeekdayProperty
<1>2. CASE d + 1 \in Weekend
  <2>1. PICK e \in {(d + 1) + 1, (d + 1) + 2} : e \notin Weekend
    BY <1>2, PolicyAssumption
  <2>2. e \in Nat \ Weekend /\ d < e
    BY <2>1
  <2>3. QED
    BY <2>2, NextWeekdayProperty
<1>3. QED
  BY <1>1, <1>2

(* What is gone stays gone.                                                *)
LEMMA GoneStays ==
    ASSUME NEW d \in Nat, NEW t \in Nat, NEW u \in Nat, t <= u, GoneBy(d, t)
    PROVE  GoneBy(d, u)
BY DateProperty, NextWeekdayType DEF GoneBy

(* A clock that was never stepped back did not go back in this step.       *)
LEMMA ClockForward ==
    ASSUME Typed, [Next]_vars, ~seen'.stepped
    PROVE  ~seen.stepped /\ now <= now' /\ now \in Nat /\ now' \in Nat
<1>1. now \in Nat /\ now' \in Nat /\ BudgetsOK
  BY WorldType, Bounds DEF Typed, WorldOK
<1>2. CASE UNCHANGED vars
  BY <1>1, <1>2 DEF vars
<1>3. CASE Next
  <2>1. ~seen.stepped /\ ~(left'.steps < left.steps) /\ Move
    BY <1>3 DEF Next
  <2>2. ~StepClockBack
    <3>1. ASSUME StepClockBack PROVE left'.steps < left.steps
      BY <1>1, <3>1 DEF StepClockBack, Spend, BudgetsOK, Budgets
    <3>2. QED
      BY <2>1, <3>1
  <2>3. CASE now' = now
    BY <1>1, <2>1, <2>3
  <2>4. CASE Tick
    BY <1>1, <2>1, <2>4 DEF Tick
  <2>5. CASE Activation \/ BeginHealth \/ EndHealth \/ \E s \in Symbols : ForeignClaim(s) \/ ForeignOutcome(s)
    BY <2>3, <2>5 DEF Activation, BeginActivation, WriteManifest, ActivationFails, BeginHealth, EndHealth,
                      ForeignClaim, ForeignOutcome
  <2>6. ASSUME NEW c \in Collectors, Step(c) PROVE now' = now
    BY <2>6 DEF Step, Collect, TakeLock, GiveUp, LogIsCorrupt, Decide, Decided, AppendStart, Visit, BuildSnapshot,
         SnapshotUnusable, LedgerIsCorrupt, TailIsStale, BeginRefresh, RegisterClaim, RegisterRaises, ReadOutcomes,
         WriteOutcome, MeasureRaises, FinishSymbol, AppendRecord
  <2>7. ASSUME NEW c \in Collectors, RefreshFails(c) \/ Crash(c) PROVE now' = now
    BY <2>7 DEF RefreshFails, Crash
  <2>8. QED
    BY <2>1, <2>2, <2>3, <2>4, <2>5, <2>6, <2>7 DEF Move
<1>4. QED
  BY <1>2, <1>3

(* What a provider's answer shows to be missed at its symbol.              *)
IsMissable(c, s, d) ==
    /\ pc[c] = "fetching" /\ Symbol(c) = s
    /\ \E bars \in UsableAnswers(c) : d \in MissedTails(c, bars)

(* It was never claimed, and a bar that has settled since shows its day to *)
(* be over.                                                                *)
LEMMA MissableIsGone ==
    ASSUME Typed, NEW c \in Collectors, NEW s \in Symbols, NEW d \in Days, IsMissable(c, s, d)
    PROVE  GoneBy(d, now) /\ ~IsOwnTail(s, d)
<1>1. PICK bars \in UsableAnswers(c) : d \in MissedTails(c, bars)
  BY DEF IsMissable
<1> DEFINE tail == LatestOf(bars)
<1>2. /\ tail \in Nat /\ d \in Nat /\ d < tail /\ tail \notin Weekend /\ SettlesAt(tail) <= now
      /\ \A claim \in RowSet(claims[s]) : d > claim.timestamp
  BY <1>1, AnswerProperty, Bounds DEF MissedTails, IsMissable, Registered
<1> HIDE DEF tail
<1>3. now \in Nat
  BY Bounds DEF Typed, WorldOK
<1>4. tail < Date(now) /\ Date(now) \in Nat
  BY <1>2, <1>3, DateProperty
<1>5. NextWeekday(d) \in Nat /\ NextWeekday(d) <= tail
  BY <1>2, NextWeekdayProperty
<1>6. GoneBy(d, now)
  BY <1>2, <1>4, <1>5 DEF GoneBy
<1>7. ~IsOwnTail(s, d)
  BY <1>2 DEF IsOwnTail
<1>8. QED
  BY <1>6, <1>7

(* A row that joins the log as the run ends lists what the run listed.     *)
LEMMA NewlyLogged ==
    ASSUME Typed, [Next]_vars, NEW s, NEW d, Logged(s, d)'
    PROVE  \/ Logged(s, d)
           \/ /\ \E c \in Collectors : Listed(run[c].symbols, s, d)
              /\ \A t \in Collectors : pc'[t] \in Waiting
<1>1. log \in File(LogRows) /\ LogChange
  BY FilesChange DEF Typed, WorldOK, FilesOK
<1>2. CASE log' = log
  BY <1>2 DEF Logged
<1>3. ASSUME NEW row \in LogRows, IsLogged(row), log' \in CutShort(log, row), log' # log
      PROVE  \/ Logged(s, d)
             \/ /\ \E c \in Collectors : Listed(run[c].symbols, s, d)
                /\ \A t \in Collectors : pc'[t] \in Waiting
  <2>1. PICK i \in DOMAIN log'.rows : Listed(log'.rows[i].symbols, s, d)
    BY DEF Logged
  <2>2. log'.rows[i] \in RowSet(log) \cup {row}
    BY <1>1, <1>3, CutShortProperties DEF RowSet
  <2>3. CASE log'.rows[i] \in RowSet(log)
    BY <2>1, <2>3 DEF RowSet, Logged
  <2>4. CASE log'.rows[i] = row
    <3>1. PICK c \in Collectors : \/ pc[c] = "starting" /\ row = StartEntry(c)
                                  \/ IsRecording(c) /\ row = RecordEntry(c)
      BY <1>3 DEF IsLogged
    <3>2. IsRecording(c) /\ Listed(run[c].symbols, s, d)
      <4>1. ~Listed(StartEntry(c).symbols, s, d)
        BY DEF StartEntry, Listed
      <4>2. RecordEntry(c).symbols = run[c].symbols
        BY DEF RecordEntry
      <4>3. QED
        BY <2>1, <2>4, <3>1, <4>1, <4>2
    <3>3. holder = c
      BY <3>2 DEF IsRecording, Waiting, Typed, RunsOK
    <3>4. ASSUME NEW a \in Collectors, AppendStart(a) PROVE FALSE
      <4>1. pc[a] = "starting" /\ holder = a
        BY <3>4 DEF AppendStart, Waiting, Typed, RunsOK
      <4>2. QED
        BY <3>2, <3>3, <4>1 DEF IsRecording
    <3>5. ASSUME NEW a \in Collectors, AppendRecord(a) \/ Crash(a)
          PROVE  \A t \in Collectors : pc'[t] \in Waiting
      <4>1. pc[a] \notin Waiting /\ Leave(a) /\ runs' = runs
        BY <3>5 DEF Crash, AppendRecord, IsRecording, Waiting, Typed, RunsOK
      <4>2. QED
        BY <4>1, LeaveType
    <3>6. ~UNCHANGED vars /\ ~Activation /\ ~BeginHealth /\ ~EndHealth /\ ~Tick /\ ~StepClockBack
          /\ \A t \in Symbols : ~ForeignClaim(t) /\ ~ForeignOutcome(t)
      BY <1>3 DEF vars, Activation, BeginActivation, WriteManifest, ActivationFails, BeginHealth, EndHealth,
                  Tick, StepClockBack, ForeignClaim, ForeignOutcome
    <3>7. ASSUME NEW a \in Collectors, RefreshFails(a) \/ Step(a)
          PROVE  AppendStart(a) \/ AppendRecord(a)
      BY <1>3, <3>7 DEF RefreshFails, Step, Collect, TakeLock, GiveUp, LogIsCorrupt, Decide, Decided, Visit,
           BuildSnapshot, SnapshotUnusable, LedgerIsCorrupt, TailIsStale, BeginRefresh, RegisterClaim,
           RegisterRaises, ReadOutcomes, WriteOutcome, MeasureRaises, FinishSymbol
    <3>8. \E a \in Collectors : AppendStart(a) \/ AppendRecord(a) \/ Crash(a)
      BY <3>6, <3>7 DEF Next, Move
    <3>9. QED
      BY <3>2, <3>4, <3>5, <3>8
  <2>5. QED
    BY <2>2, <2>3, <2>4
<1>4. QED
  BY <1>1, <1>2, <1>3 DEF LogChange

(* The symbol-run of the symbol at hand is listed, after the earlier ones. *)
LEMMA LastListed ==
    ASSUME Typed, NEW c \in Collectors, HasSymbol(c), NEW class \in CollectionStatuses,
           NEW tail \in Days \cup {NoDay}, NEW missed \in SUBSET Days,
           NextSymbol(c, SymbolRun(c, class, tail, missed)), NEW s, NEW d,
           Listed(run'[c].symbols, s, d)
    PROVE  Listed(run[c].symbols, s, d) \/ (Symbol(c) = s /\ d \in missed)
<1> DEFINE entry == SymbolRun(c, class, tail, missed)
           id == run[c].id
           started_at == run[c].started_at
           symbols == Append(run[c].symbols, entry)
<1>1. run \in [Collectors -> RunStates] /\ run[c] \in RunStates
  BY DEF Typed, RunsOK
<1>2. run[c].symbols \in Seq(SymbolRuns)
  BY <1>1 DEF RunStates
<1>3. entry \in SymbolRuns /\ entry.missed = missed /\ entry.symbol = Symbol(c)
  BY SymbolRunType
<1>4. run'[c] = [NoRun EXCEPT !.id = id, !.started_at = started_at, !.symbols = symbols]
  BY <1>1 DEF NextSymbol
<1> HIDE DEF entry, id, started_at, symbols
<1>5. run'[c].symbols = symbols
  BY <1>4 DEF NoRun
<1>6. PICK n \in DOMAIN symbols : symbols[n].symbol = s /\ d \in symbols[n].missed
  BY <1>5 DEF Listed
<1>7. \/ n \in DOMAIN run[c].symbols /\ symbols[n] = run[c].symbols[n]
      \/ symbols[n] = entry
  BY <1>2, <1>3, <1>6 DEF symbols
<1>8. QED
  BY <1>3, <1>6, <1>7 DEF Listed

(* What is newly listed was in hand, or was shown by a late answer.        *)
LEMMA NewlyListed ==
    ASSUME Typed, [Next]_vars, NEW c \in Collectors, NEW s, NEW d,
           Listed(run'[c].symbols, s, d)
    PROVE  \/ Listed(run[c].symbols, s, d) \/ InHand(c, s, d)
           \/ (IsMissable(c, s, d) /\ claims' = claims)
<1>1. run \in [Collectors -> RunStates] /\ run[c] \in RunStates /\ Stage(c)
  BY DEF Typed, RunsOK
<1>2. CASE run'[c].symbols = run[c].symbols
  BY <1>2
<1>3. CASE ~(Step(c) \/ RefreshFails(c) \/ Crash(c))
  BY <1>2, <1>3, OthersStand, AllStand
<1>4. CASE run'[c] = NoRun
  BY <1>4, NoRunType DEF Listed
<1>5. CASE Crash(c) \/ LogIsCorrupt(c) \/ AppendRecord(c)
  BY <1>1, <1>4, <1>5 DEF Crash, LogIsCorrupt, AppendRecord, Leave
<1>6. CASE pc'[c] \in {"fetching", "registering", "measuring"} /\ ~BeginRefresh(c)
  BY <1>2, <1>6, AtSymbol, RegisteringStays
<1>7. CASE BeginRefresh(c)
  <2>1. PICK bars : run' = [run EXCEPT ![c] = [run[c] EXCEPT !.bars = bars, !.tail = LatestOf(bars),
                                                             !.missed = MissedTails(c, bars),
                                                             !.held = claims[Symbol(c)].rows]]
    BY <1>7 DEF BeginRefresh
  <2> DEFINE tail == LatestOf(bars)
             missed == MissedTails(c, bars)
             held == claims[Symbol(c)].rows
  <2>2. run'[c] = [run[c] EXCEPT !.bars = bars, !.tail = tail, !.missed = missed, !.held = held]
    BY <1>1, <2>1
  <2> HIDE DEF tail, missed, held
  <2>3. run'[c].symbols = run[c].symbols
    BY <1>1, <2>2 DEF RunStates
  <2>4. QED
    BY <1>2, <2>3
<1>8. CASE Collect(c) \/ GiveUp(c) \/ AppendStart(c) \/ (Visit(c) /\ run' = run)
  BY <1>2, <1>8 DEF Collect, GiveUp, AppendStart
<1>9. CASE TakeLock(c)
  <2> DEFINE id == runs + 1
  <2>1. run'[c] = [run[c] EXCEPT !.id = id, !.started_at = now]
    BY <1>1, <1>9 DEF TakeLock
  <2> HIDE DEF id
  <2>2. run'[c].symbols = run[c].symbols
    BY <1>1, <2>1 DEF RunStates
  <2>3. QED
    BY <1>2, <2>2
<1>10. CASE Decide(c)
  <2>1. PICK decision : run' = [run EXCEPT ![c] = [run[c] EXCEPT !.status = decision]]
    BY <1>10 DEF Decide, Decided
  <2>2. run'[c].symbols = run[c].symbols
    BY <1>1, <2>1 DEF RunStates
  <2>3. QED
    BY <1>2, <2>2
<1>11. /\ "unreached" \in CollectionStatuses /\ "raised" \in CollectionStatuses
       /\ "exact" \in CollectionStatuses /\ NoDay \in Days \cup {NoDay} /\ {} \in SUBSET Days
       /\ run[c].tail \in Days \cup {NoDay} /\ run[c].missed \in SUBSET Days
  BY <1>1 DEF CollectionStatuses, RunStates
<1>12. CASE (Visit(c) /\ Unreached(c)) \/ SnapshotUnusable(c)
  <2>1. HasSymbol(c) /\ Unreached(c)
    BY <1>1, <1>12 DEF Visit, SnapshotUnusable, Stage
  <2>2. QED
    BY <1>11, <2>1, LastListed DEF Unreached
<1>13. CASE LedgerIsCorrupt(c)
  <2>1. PICK bars \in UsableAnswers(c) : NextSymbol(c, SymbolRun(c, "raised", LatestOf(bars), {}))
    BY <1>13 DEF LedgerIsCorrupt
  <2>2. HasSymbol(c) /\ LatestOf(bars) \in Days \cup {NoDay}
    BY <1>1, <1>13, AnswerProperty DEF LedgerIsCorrupt, Stage
  <2>3. QED
    BY <1>11, <2>1, <2>2, LastListed
<1>14. CASE TailIsStale(c)
  <2>1. PICK bars \in UsableAnswers(c) :
            NextSymbol(c, SymbolRun(c, "unreached", LatestOf(bars), MissedTails(c, bars)))
    BY <1>14 DEF TailIsStale
  <2>2. /\ HasSymbol(c) /\ LatestOf(bars) \in Days \cup {NoDay} /\ MissedTails(c, bars) \in SUBSET Days
        /\ pc[c] = "fetching" /\ claims' = claims
    BY <1>1, <1>14, AnswerProperty DEF TailIsStale, Stage, ledger
  <2>3. Listed(run[c].symbols, s, d) \/ (Symbol(c) = s /\ d \in MissedTails(c, bars))
    BY <1>11, <2>1, <2>2, LastListed
  <2>4. QED
    BY <2>2, <2>3 DEF IsMissable
<1>15. CASE pc[c] \in {"registering", "measuring"}
            /\ (Raised(c) \/ NextSymbol(c, SymbolRun(c, "exact", run[c].tail, run[c].missed)))
  <2>1. HasSymbol(c)
    BY <1>1, <1>15 DEF Stage
  <2>2. Listed(run[c].symbols, s, d) \/ (Symbol(c) = s /\ d \in run[c].missed)
    BY <1>11, <1>15, <2>1, LastListed DEF Raised
  <2>3. QED
    BY <1>15, <2>2 DEF InHand
<1>16. CASE RefreshFails(c) \/ RegisterRaises(c) \/ MeasureRaises(c) \/ FinishSymbol(c)
            \/ (ReadOutcomes(c) /\ Raised(c))
  BY <1>15, <1>16 DEF RefreshFails, RegisterRaises, MeasureRaises, FinishSymbol, ReadOutcomes
<1>17. CASE BuildSnapshot(c) \/ RegisterClaim(c) \/ WriteOutcome(c) \/ (ReadOutcomes(c) /\ ~Raised(c))
  <2>1. pc \in [Collectors -> Labels]
    BY DEF Typed, RunsOK
  <2>2. pc'[c] \in {"fetching", "registering", "measuring"}
    BY <1>17, <2>1 DEF BuildSnapshot, RegisterClaim, WriteOutcome, ReadOutcomes, Goto
  <2>3. ~BeginRefresh(c)
    <3>1. CASE BuildSnapshot(c)
      BY <3>1 DEF BuildSnapshot, BeginRefresh
    <3>2. CASE RegisterClaim(c) \/ WriteOutcome(c) \/ ReadOutcomes(c)
      BY <3>2 DEF RegisterClaim, WriteOutcome, ReadOutcomes, BeginRefresh
    <3>3. QED
      BY <1>17, <3>1, <3>2
  <2>4. QED
    BY <1>6, <2>2, <2>3
<1>18. CASE Visit(c)
  <2>1. run' = run \/ Unreached(c)
    BY <1>18 DEF Visit
  <2>2. QED
    BY <1>8, <1>12, <1>18, <2>1
<1>19. CASE ReadOutcomes(c)
  BY <1>16, <1>17, <1>19
<1>20. CASE Collect(c) \/ GiveUp(c) \/ AppendStart(c)
  BY <1>8, <1>20
<1>21. CASE SnapshotUnusable(c) \/ RegisterRaises(c) \/ MeasureRaises(c) \/ FinishSymbol(c)
  BY <1>12, <1>16, <1>21
<1>22. CASE BuildSnapshot(c) \/ RegisterClaim(c) \/ WriteOutcome(c)
  BY <1>17, <1>22
<1>23. CASE Step(c)
  BY <1>5, <1>7, <1>9, <1>10, <1>13, <1>14, <1>18, <1>19, <1>20, <1>21, <1>22, <1>23 DEF Step
<1>24. QED
  BY <1>3, <1>5, <1>16, <1>23

(* A refresh begins with what the answer showed.                           *)
LEMMA RefreshBegins ==
    ASSUME Typed, NEW c \in Collectors, BeginRefresh(c)
    PROVE  /\ pc[c] = "fetching" /\ claims' = claims
           /\ run'[c].built_at = run[c].built_at /\ run'[c].symbols = run[c].symbols
           /\ \E bars \in UsableAnswers(c) :
                 run'[c].tail = LatestOf(bars) /\ run'[c].missed = MissedTails(c, bars)
<1>1. PICK bars \in UsableAnswers(c) :
          run' = [run EXCEPT ![c] = [run[c] EXCEPT !.bars = bars, !.tail = LatestOf(bars),
                                                   !.missed = MissedTails(c, bars),
                                                   !.held = claims[Symbol(c)].rows]]
  BY ZenonT(40) DEF BeginRefresh
<1> DEFINE tail == LatestOf(bars)
           missed == MissedTails(c, bars)
           held == claims[Symbol(c)].rows
<1>2. run \in [Collectors -> RunStates] /\ run[c] \in RunStates
  BY DEF Typed, RunsOK
<1>3. run'[c] = [run[c] EXCEPT !.bars = bars, !.tail = tail, !.missed = missed, !.held = held]
  BY <1>1, <1>2
<1> HIDE DEF tail, missed, held
<1>4. /\ run'[c].built_at = run[c].built_at /\ run'[c].symbols = run[c].symbols
      /\ run'[c].tail = tail /\ run'[c].missed = missed
  BY <1>2, <1>3 DEF RunStates
<1>5. pc[c] = "fetching" /\ claims' = claims
  BY DEF BeginRefresh, ledger
<1>6. QED
  BY <1>4, <1>5 DEF tail, missed

(* What is newly in hand was shown by the answer the refresh begins with.  *)
LEMMA NewlyInHand ==
    ASSUME Typed, [Next]_vars, NEW c \in Collectors, NEW s, NEW d, InHand(c, s, d)'
    PROVE  InHand(c, s, d) \/ (IsMissable(c, s, d) /\ claims' = claims)
<1>1. /\ pc'[c] \in {"registering", "measuring"} /\ d \in run'[c].missed
      /\ Universe[Len(run'[c].symbols) + 1] = s
  BY DEF InHand, Symbol
<1>2. CASE pc'[c] = pc[c] /\ run'[c] = run[c]
  BY <1>1, <1>2 DEF InHand, Symbol
<1>3. CASE BeginRefresh(c)
  BY <1>1, <1>3, RefreshBegins DEF IsMissable, Symbol
<1>4. CASE RegisterClaim(c)
  BY <1>1, <1>4, RegisteringStays DEF InHand, Symbol
<1>5. QED
  BY <1>1, <1>2, <1>3, <1>4, AtSymbol DEF InHand, Symbol

(* The collector that holds the lock is the only one that knows anything.  *)
LEMMA OnlyHolderKnows ==
    ASSUME Typed, NEW c \in Collectors, pc[c] \notin Waiting, NEW t \in Collectors, NEW s, NEW d,
           Listed(run[t].symbols, s, d) \/ InHand(t, s, d)
    PROVE  t = c
<1>1. holder = c
  BY DEF Typed, RunsOK
<1>2. ASSUME t # c PROVE FALSE
  <2>1. pc[t] \in Waiting /\ Stage(t)
    BY <1>1, <1>2 DEF Typed, RunsOK
  <2>2. run[t].symbols = <<>>
    BY <2>1, NoRunType DEF Stage
  <2>3. QED
    BY <2>1, <2>2 DEF Listed, InHand, Waiting
<1>3. QED
  BY <1>2

(* A claim about to be written is not about a missed bar: those that were  *)
(* known when the snapshot's clock was read are gone by it, and those the  *)
(* answer showed are before its tail.                                      *)
LEMMA TailIsNotMissed ==
    ASSUME Typed, Prospective, MissedIsGone, ~seen.stepped, NEW c \in Collectors,
           pc[c] = "registering", Unheld(c) # {}, NEW d \in Days, Known(Symbol(c), d)
    PROVE  run[c].tail # d
<1> DEFINE s == Symbol(c)
<1>1. run[c].tail \in Days /\ run[c].built_at \in Ticks /\ s \in Symbols /\ pc[c] \notin Waiting
  BY SymbolType DEF Typed, RunsOK, Stage, Waiting
<1>2. Logged(s, d) \/ Listed(run[c].symbols, s, d) \/ InHand(c, s, d)
  BY <1>1, OnlyHolderKnows DEF Known
<1>3. CASE Logged(s, d) \/ Listed(run[c].symbols, s, d)
  <2> HIDE DEF s
  <2>1. GoneBy(d, run[c].built_at)
    BY <1>1, <1>3 DEF MissedIsGone
  <2>2. IsCurrentTail(run[c].tail, run[c].built_at)
    BY DEF Prospective, Vetted
  <2>3. ASSUME run[c].tail = d PROVE FALSE
    <3>1. Date(run[c].built_at) \in Nat /\ NextWeekday(d) \in Nat
      BY <1>1, DateProperty, NextWeekdayType, Bounds
    <3>2. NextWeekday(d) < Date(run[c].built_at) /\ Date(run[c].built_at) <= NextWeekday(d)
      BY <2>1, <2>2, <2>3 DEF GoneBy, IsCurrentTail
    <3>3. QED
      BY <3>1, <3>2
  <2>4. QED
    BY <2>3
<1>4. CASE InHand(c, s, d)
  <2>1. d < run[c].tail
    BY <1>4 DEF MissedIsGone, InHand
  <2>2. d \in Nat
    BY Bounds
  <2>3. QED
    BY <2>1, <2>2
<1>5. QED
  BY <1>2, <1>3, <1>4

(* Nothing missed comes back.                                              *)
LEMMA MissedStep ==
    ASSUME Typed, Prospective, MissedIsGone, [Next]_vars
    PROVE  MissedIsGone'
<1> SUFFICES ASSUME ~seen'.stepped
             PROVE  /\ \A s \in Symbols, d \in Days :
                          Known(s, d)' => GoneBy(d, now') /\ ~IsOwnTail(s, d)'
                    /\ \A c \in Collectors : pc'[c] \in {"fetching", "registering", "measuring"} =>
                          /\ run'[c].built_at <= now'
                          /\ \A s \in Symbols, d \in Days :
                                Logged(s, d)' \/ Listed(run'[c].symbols, s, d)
                                    => GoneBy(d, run'[c].built_at)
                    /\ \A c \in Collectors : pc'[c] \in {"registering", "measuring"} =>
                          \A d \in run'[c].missed : d < run'[c].tail
  BY DEF MissedIsGone, Listed, GoneBy, NextWeekday, Date
<1>1. ~seen.stepped /\ now <= now' /\ now \in Nat /\ now' \in Nat
  BY ClockForward
<1>2. \A s \in Symbols, d \in Days : Known(s, d) => GoneBy(d, now) /\ ~IsOwnTail(s, d)
  BY <1>1 DEF MissedIsGone
<1>3. \A c \in Collectors : pc[c] \in {"fetching", "registering", "measuring"} =>
         /\ run[c].built_at <= now
         /\ \A s \in Symbols, d \in Days :
               Logged(s, d) \/ Listed(run[c].symbols, s, d) => GoneBy(d, run[c].built_at)
  BY <1>1 DEF MissedIsGone
<1>4. \A c \in Collectors : pc[c] \in {"registering", "measuring"} =>
         \A d \in run[c].missed : d < run[c].tail
  BY <1>1 DEF MissedIsGone
<1>5. ASSUME NEW s \in Symbols, NEW d \in Days, Known(s, d)'
      PROVE  GoneBy(d, now') /\ ~IsOwnTail(s, d)'
  <2>1. \/ Known(s, d)
        \/ claims' = claims /\ \E c \in Collectors : IsMissable(c, s, d)
    <3>1. CASE Logged(s, d)'
      BY <3>1, NewlyLogged DEF Known
    <3>2. ASSUME NEW c \in Collectors, Listed(run'[c].symbols, s, d)
          PROVE  \/ Known(s, d)
                 \/ claims' = claims /\ \E b \in Collectors : IsMissable(b, s, d)
      BY <3>2, NewlyListed DEF Known
    <3>3. ASSUME NEW c \in Collectors, InHand(c, s, d)'
          PROVE  \/ Known(s, d)
                 \/ claims' = claims /\ \E b \in Collectors : IsMissable(b, s, d)
      BY <3>3, NewlyInHand DEF Known
    <3>4. QED
      BY <1>5, <3>1, <3>2, <3>3 DEF Known, Listed
  <2>2. GoneBy(d, now) /\ ~IsOwnTail(s, d)
    BY <1>2, <2>1, MissableIsGone
  <2>3. GoneBy(d, now')
    BY <1>1, <2>2, GoneStays, Bounds
  <2>4. ASSUME IsOwnTail(s, d)' PROVE FALSE
    <3>1. PICK claim \in RowSet(claims'[s]) : claim.by # Foreign /\ claim.timestamp = d
      BY <2>4 DEF IsOwnTail
    <3>2. claim \notin RowSet(claims[s])
      BY <2>2, <3>1 DEF IsOwnTail
    <3>3. IsOffered(s, claim) /\ Known(s, d)
      BY <2>1, <3>1, <3>2, FilesChange, ClaimsGrow
    <3>4. PICK c \in Collectors : pc[c] = "registering" /\ Unheld(c) # {} /\ s = Symbol(c) /\ claim = NextClaim(c)
      BY <3>1, <3>3 DEF IsOffered
    <3>5. claim.timestamp = run[c].tail
      BY <3>4, NextClaimProperty
    <3>6. QED
      BY <1>1, <3>1, <3>3, <3>4, <3>5, TailIsNotMissed
  <2>5. QED
    BY <2>3, <2>4
<1>6. ASSUME NEW c \in Collectors, pc'[c] \in {"fetching", "registering", "measuring"}
      PROVE  /\ run'[c].built_at <= now'
             /\ \A s \in Symbols, d \in Days :
                   Logged(s, d)' \/ Listed(run'[c].symbols, s, d) => GoneBy(d, run'[c].built_at)
  <2>1. \A s \in Symbols, d \in Days : Logged(s, d)' => Logged(s, d)
    BY <1>6, NewlyLogged DEF Waiting
  <2>2. CASE BuildSnapshot(c) /\ run'[c].built_at = now /\ run'[c].symbols = run[c].symbols
    BY <1>1, <1>2, <2>1, <2>2 DEF Known
  <2>3. CASE /\ run'[c].built_at = run[c].built_at /\ run'[c].symbols = run[c].symbols
             /\ pc[c] \in {"fetching", "registering", "measuring"}
    <3>1. run[c].built_at \in Nat
      BY <2>3, Bounds DEF Typed, RunsOK, Stage
    <3>2. run'[c].built_at <= now'
      BY <1>1, <1>3, <2>3, <3>1
    <3>3. QED
      BY <1>3, <2>1, <2>3, <3>2
  <2>4. \/ BuildSnapshot(c) /\ run'[c].built_at = now /\ run'[c].symbols = run[c].symbols
        \/ /\ run'[c].built_at = run[c].built_at /\ run'[c].symbols = run[c].symbols
           /\ pc[c] \in {"fetching", "registering", "measuring"}
    BY <1>6, AtSymbol, RefreshBegins, RegisteringStays
  <2>5. QED
    BY <2>2, <2>3, <2>4
<1>7. ASSUME NEW c \in Collectors, pc'[c] \in {"registering", "measuring"}, NEW d \in run'[c].missed
      PROVE  d < run'[c].tail
  <2>1. CASE BeginRefresh(c)
    BY <2>1, RefreshBegins DEF MissedTails
  <2>2. CASE /\ run'[c].tail = run[c].tail /\ run'[c].missed = run[c].missed
             /\ pc[c] \in {"registering", "measuring"}
    BY <1>4, <1>7, <2>2
  <2>3. QED
    BY <1>7, <2>1, <2>2, AtSymbol, RegisteringStays
<1>8. QED
  BY <1>5, <1>6, <1>7

(* MissedStaysMissed: as long as the clock is not stepped back, a bar that *)
(* a completed run listed as missed is never the tail of a claim of the    *)
(* collector's, in that run or a later one.                                *)
THEOREM MissedForGood == Spec => []MissedStaysMissed
<1>1. Init => MissedIsGone
  <2> SUFFICES ASSUME Init PROVE MissedIsGone
    OBVIOUS
  <2>1. \A c \in Collectors : pc[c] = "idle" /\ run[c].symbols = <<>>
    BY NoRunType DEF Init
  <2>2. log.rows = <<>>
    BY DEF Init, EmptyFile
  <2>3. \A s, d : ~Logged(s, d) /\ ~(\E c \in Collectors : Listed(run[c].symbols, s, d) \/ InHand(c, s, d))
    BY <2>1, <2>2 DEF Logged, Listed, InHand
  <2>4. QED
    BY <2>1, <2>3 DEF MissedIsGone, Known
<1>2. ASSUME Typed, Prospective, MissedIsGone PROVE MissedStaysMissed
  <2> SUFFICES ASSUME ~seen.stepped, NEW i \in Completed(log.rows),
                      NEW n \in DOMAIN log.rows[i].symbols, NEW claim \in AllClaims,
                      claim.symbol = log.rows[i].symbols[n].symbol, claim.by # Foreign,
                      claim.timestamp \in log.rows[i].symbols[n].missed
               PROVE  FALSE
    BY DEF MissedStaysMissed
  <2> DEFINE d == claim.timestamp
             s == claim.symbol
  <2>1. PICK t \in Symbols : claim \in RowSet(claims[t])
    BY DEF AllClaims
  <2>2. s = t /\ claim \in Claims
    <3>1. claims[t] \in File(Claims)
      BY <1>2 DEF Typed, WorldOK, FilesOK
    <3>2. RowSet(claims[t]) \subseteq Claims
      BY <3>1, RowSetType
    <3>3. claim.symbol = t
      BY <1>2, <2>1 DEF Prospective, FiledBySymbol
    <3>4. QED
      BY <2>1, <3>2, <3>3
  <2>3. d \in Days /\ s \in Symbols
    BY <2>2 DEF Claims
  <2>4. Known(s, d)
    BY DEF Completed, Known, Logged, Listed
  <2>5. IsOwnTail(s, d)
    BY <2>1, <2>2 DEF IsOwnTail
  <2> HIDE DEF s, d
  <2>6. QED
    BY <1>2, <2>3, <2>4, <2>5 DEF MissedIsGone
<1>3. QED
  BY <1>1, <1>2, TypedInvariant, ProspectiveInvariant, MissedStep, PTL DEF Spec

-----------------------------------------------------------------------------
(* The steps of a run, as far as what it visited and what it read go.      *)

(* A collector enters what became of its symbol in the list of its run.    *)
Enters(c, r) ==
    /\ pc[c] \in {"visiting", "fetching", "registering", "measuring"} /\ HasSymbol(c)
    /\ NextSymbol(c, r) /\ r \in SymbolRuns /\ UNCHANGED <<now, log, lock, runs>>
    /\ r.symbol = Symbol(c) /\ r.built_at = run[c].built_at
    /\ r.class = "exact" => /\ pc[c] = "measuring" /\ UNCHANGED ledger
                            /\ r.artifacts_new = run[c].artifacts_new
                            /\ r.outcomes_new = run[c].outcomes_new
    /\ pc[c] \in {"registering", "measuring"} => r.class \in {"exact", "raised"} /\ r.tail = run[c].tail
    /\ pc[c] \in {"visiting", "fetching"} => UNCHANGED ledger
    /\ pc[c] = "visiting" => r.class = "unreached"

(* It goes on with the run it has.                                         *)
GoesOn(c) ==
    /\ \/ Decide(c) \/ AppendStart(c) \/ (Visit(c) /\ run' = run) \/ BuildSnapshot(c)
       \/ BeginRefresh(c) \/ RegisterClaim(c) \/ (ReadOutcomes(c) /\ ~Raised(c)) \/ WriteOutcome(c)
    /\ pc[c] \notin Waiting /\ pc'[c] \notin Waiting
    /\ run'[c].id = run[c].id /\ run'[c].started_at = run[c].started_at /\ run'[c].symbols = run[c].symbols
    /\ run'[c].built_at = IF BuildSnapshot(c) THEN now ELSE run[c].built_at

(* Or it ends it.                                                          *)
Ends(c) ==
    /\ LogIsCorrupt(c) \/ AppendRecord(c) \/ Crash(c)
    /\ pc[c] \notin Waiting /\ pc'[c] \in Waiting /\ run'[c] = NoRun

(* The symbol-run of the symbol at hand, as it is entered.                 *)
LEMMA EntersSymbolRun ==
    ASSUME Typed, NEW c \in Collectors, HasSymbol(c), NEW class \in CollectionStatuses,
           NEW tail \in Days \cup {NoDay}, NEW missed \in SUBSET Days,
           pc[c] \in {"visiting", "fetching", "registering", "measuring"},
           NextSymbol(c, SymbolRun(c, class, tail, missed)), UNCHANGED <<now, log, lock, runs>>,
           class = "exact" => pc[c] = "measuring" /\ UNCHANGED ledger,
           pc[c] \in {"registering", "measuring"} => class \in {"exact", "raised"} /\ tail = run[c].tail,
           pc[c] \in {"visiting", "fetching"} => UNCHANGED ledger,
           pc[c] = "visiting" => class = "unreached"
    PROVE  \E r : Enters(c, r)
<1>1. PICK r : r = SymbolRun(c, class, tail, missed)
  OBVIOUS
<1>2. r \in SymbolRuns /\ r.symbol = Symbol(c)
  BY <1>1, SymbolRunType
<1>3. /\ r.built_at = run[c].built_at /\ r.class = class /\ r.tail = tail
      /\ class = "exact" => r.artifacts_new = run[c].artifacts_new /\ r.outcomes_new = run[c].outcomes_new
  BY <1>1 DEF SymbolRun
<1>4. QED
  BY <1>1, <1>2, <1>3 DEF Enters

(* What becomes of a symbol is entered, whatever became of it.             *)
LEMMA EntersStep ==
    ASSUME Typed, NEW c \in Collectors,
           \/ Visit(c) /\ Unreached(c)
           \/ SnapshotUnusable(c) \/ LedgerIsCorrupt(c) \/ TailIsStale(c)
           \/ RegisterRaises(c) \/ (ReadOutcomes(c) /\ Raised(c)) \/ MeasureRaises(c)
           \/ FinishSymbol(c) \/ RefreshFails(c)
    PROVE  \E r : Enters(c, r)
<1>1. run[c] \in RunStates /\ Stage(c)
  BY DEF Typed, RunsOK
<1>2. /\ "unreached" \in CollectionStatuses /\ "raised" \in CollectionStatuses
      /\ "exact" \in CollectionStatuses /\ NoDay \in Days \cup {NoDay} /\ {} \in SUBSET Days
      /\ run[c].tail \in Days \cup {NoDay} /\ run[c].missed \in SUBSET Days
  BY <1>1 DEF CollectionStatuses, RunStates
<1>3. CASE (Visit(c) /\ Unreached(c)) \/ SnapshotUnusable(c)
  <2>1. /\ HasSymbol(c) /\ NextSymbol(c, SymbolRun(c, "unreached", NoDay, {}))
        /\ pc[c] \in {"visiting", "fetching"} /\ UNCHANGED <<now, log, lock, runs, ledger>>
    BY <1>1, <1>3 DEF Visit, SnapshotUnusable, Unreached, Stage
  <2>2. QED
    BY <1>2, <2>1, EntersSymbolRun
<1>4. CASE LedgerIsCorrupt(c)
  <2>1. PICK bars \in UsableAnswers(c) : NextSymbol(c, SymbolRun(c, "raised", LatestOf(bars), {}))
    BY <1>4 DEF LedgerIsCorrupt
  <2>2. /\ HasSymbol(c) /\ LatestOf(bars) \in Days \cup {NoDay}
        /\ pc[c] = "fetching" /\ UNCHANGED <<now, log, lock, runs, ledger>>
    BY <1>1, <1>4, AnswerProperty DEF LedgerIsCorrupt, Stage
  <2>3. QED
    BY <1>2, <2>1, <2>2, EntersSymbolRun
<1>5. CASE TailIsStale(c)
  <2>1. PICK bars \in UsableAnswers(c) :
            NextSymbol(c, SymbolRun(c, "unreached", LatestOf(bars), MissedTails(c, bars)))
    BY <1>5 DEF TailIsStale
  <2>2. /\ HasSymbol(c) /\ LatestOf(bars) \in Days \cup {NoDay} /\ MissedTails(c, bars) \in SUBSET Days
        /\ pc[c] = "fetching" /\ UNCHANGED <<now, log, lock, runs, ledger>>
    BY <1>1, <1>5, AnswerProperty DEF TailIsStale, Stage
  <2>3. QED
    BY <1>2, <2>1, <2>2, EntersSymbolRun
<1>6. CASE RegisterRaises(c) \/ (ReadOutcomes(c) /\ Raised(c)) \/ MeasureRaises(c) \/ RefreshFails(c)
  <2>1. /\ HasSymbol(c) /\ NextSymbol(c, SymbolRun(c, "raised", run[c].tail, run[c].missed))
        /\ pc[c] \in {"registering", "measuring"} /\ UNCHANGED <<now, log, lock, runs>>
    BY <1>1, <1>6 DEF RegisterRaises, ReadOutcomes, MeasureRaises, RefreshFails, Raised, Stage
  <2>2. QED
    BY <1>2, <2>1, EntersSymbolRun
<1>7. CASE FinishSymbol(c)
  <2>1. /\ HasSymbol(c) /\ NextSymbol(c, SymbolRun(c, "exact", run[c].tail, run[c].missed))
        /\ pc[c] = "measuring" /\ UNCHANGED <<now, log, lock, runs, ledger>>
    BY <1>1, <1>7 DEF FinishSymbol, Stage
  <2>2. QED
    BY <1>2, <2>1, EntersSymbolRun
<1>8. QED
  BY <1>3, <1>4, <1>5, <1>6, <1>7

(* It stands still, or waits for the lock.                                 *)
Stands(c) ==
    run'[c] = run[c] /\ (pc'[c] = pc[c] \/ (pc[c] \in Waiting /\ pc'[c] \in Waiting))

(* A collector that goes on keeps its run and what it visited.             *)
LEMMA GoesOnStep ==
    ASSUME Typed, NEW c \in Collectors,
           \/ Decide(c) \/ AppendStart(c) \/ (Visit(c) /\ run' = run) \/ BuildSnapshot(c)
           \/ BeginRefresh(c) \/ RegisterClaim(c) \/ (ReadOutcomes(c) /\ ~Raised(c)) \/ WriteOutcome(c)
    PROVE  GoesOn(c)
<1>1. pc \in [Collectors -> Labels] /\ run \in [Collectors -> RunStates] /\ run[c] \in RunStates
  BY DEF Typed, RunsOK
<1> USE DEF Waiting
<1>2. CASE Decide(c)
  <2>1. PICK decision, label : /\ label \in {"starting", "recording"} /\ Goto(c, label)
                               /\ run' = [run EXCEPT ![c] = [run[c] EXCEPT !.status = decision]]
    BY <1>2 DEF Decide, Decided
  <2>2. pc[c] = "deciding" /\ pc'[c] = label /\ run'[c] = [run[c] EXCEPT !.status = decision]
    BY <1>1, <1>2, <2>1 DEF Decide, Goto
  <2>3. /\ run'[c].id = run[c].id /\ run'[c].started_at = run[c].started_at
        /\ run'[c].symbols = run[c].symbols /\ run'[c].built_at = run[c].built_at
    BY <1>1, <2>2 DEF RunStates
  <2>4. ~BuildSnapshot(c)
    BY <2>2 DEF BuildSnapshot
  <2>5. QED
    BY <1>2, <2>1, <2>2, <2>3, <2>4 DEF GoesOn
<1>3. CASE AppendStart(c) \/ (Visit(c) /\ run' = run)
  <2>1. pc[c] \notin Waiting /\ run' = run /\ ~BuildSnapshot(c)
    BY <1>3 DEF AppendStart, Visit, BuildSnapshot
  <2>2. pc'[c] \in {"visiting", "building"}
    BY <1>1, <1>3 DEF AppendStart, Visit, Unreached, NextSymbol, Goto
  <2>3. QED
    BY <1>3, <2>1, <2>2 DEF GoesOn
<1>4. CASE BuildSnapshot(c)
  <2>1. pc[c] = "building" /\ pc'[c] = "fetching" /\ run'[c] = [run[c] EXCEPT !.built_at = now]
    BY <1>1, <1>4 DEF BuildSnapshot, Goto
  <2>2. /\ run'[c].id = run[c].id /\ run'[c].started_at = run[c].started_at
        /\ run'[c].symbols = run[c].symbols /\ run'[c].built_at = now
    BY <1>1, <2>1 DEF RunStates
  <2>3. QED
    BY <1>4, <2>1, <2>2 DEF GoesOn
<1>5. CASE BeginRefresh(c)
  <2>1. PICK bars : run' = [run EXCEPT ![c] = [run[c] EXCEPT !.bars = bars, !.tail = LatestOf(bars),
                                                             !.missed = MissedTails(c, bars),
                                                             !.held = claims[Symbol(c)].rows]]
    BY <1>5 DEF BeginRefresh
  <2> DEFINE tail == LatestOf(bars)
             missed == MissedTails(c, bars)
             held == claims[Symbol(c)].rows
  <2>2. run'[c] = [run[c] EXCEPT !.bars = bars, !.tail = tail, !.missed = missed, !.held = held]
    BY <1>1, <2>1
  <2> HIDE DEF tail, missed, held
  <2>3. /\ run'[c].id = run[c].id /\ run'[c].started_at = run[c].started_at
        /\ run'[c].symbols = run[c].symbols /\ run'[c].built_at = run[c].built_at
    BY <1>1, <2>2 DEF RunStates
  <2>4. pc[c] = "fetching" /\ pc'[c] = "registering" /\ ~BuildSnapshot(c)
    BY <1>1, <1>5 DEF BeginRefresh, Goto, BuildSnapshot
  <2>5. QED
    BY <1>5, <2>3, <2>4 DEF GoesOn
<1>6. CASE RegisterClaim(c)
  <2> DEFINE held == Append(run[c].held, NextClaim(c))
             more == run[c].artifacts_new + 1
  <2>1. run'[c] = [run[c] EXCEPT !.held = held, !.artifacts_new = more]
    BY <1>1, <1>6 DEF RegisterClaim
  <2> HIDE DEF held, more
  <2>2. /\ run'[c].id = run[c].id /\ run'[c].started_at = run[c].started_at
        /\ run'[c].symbols = run[c].symbols /\ run'[c].built_at = run[c].built_at
    BY <1>1, <2>1 DEF RunStates
  <2>3. pc[c] = "registering" /\ pc'[c] = "registering" /\ ~BuildSnapshot(c)
    BY <1>1, <1>6 DEF RegisterClaim, BuildSnapshot
  <2>4. QED
    BY <1>6, <2>2, <2>3 DEF GoesOn
<1>7. CASE ReadOutcomes(c) /\ ~Raised(c)
  <2>1. /\ pc[c] = "registering" /\ pc'[c] = "measuring"
        /\ run'[c] = [run[c] EXCEPT !.present = Keys(outcomes[Symbol(c)])]
    BY <1>1, <1>7 DEF ReadOutcomes, Goto
  <2>2. /\ run'[c].id = run[c].id /\ run'[c].started_at = run[c].started_at
        /\ run'[c].symbols = run[c].symbols /\ run'[c].built_at = run[c].built_at
    BY <1>1, <2>1 DEF RunStates
  <2>3. ~BuildSnapshot(c)
    BY <2>1 DEF BuildSnapshot
  <2>4. QED
    BY <1>7, <2>1, <2>2, <2>3 DEF GoesOn
<1>8. CASE WriteOutcome(c)
  <2> DEFINE at == Item(c) + 1
             new == run[c].outcomes_new + 1
  <2>1. /\ pc[c] = "measuring" /\ pc'[c] = "measuring"
        /\ run'[c] = [run[c] EXCEPT !.at = at, !.outcomes_new = new]
    BY <1>1, <1>8 DEF WriteOutcome
  <2> HIDE DEF at, new
  <2>2. /\ run'[c].id = run[c].id /\ run'[c].started_at = run[c].started_at
        /\ run'[c].symbols = run[c].symbols /\ run'[c].built_at = run[c].built_at
    BY <1>1, <2>1 DEF RunStates
  <2>3. ~BuildSnapshot(c)
    BY <2>1 DEF BuildSnapshot
  <2>4. QED
    BY <1>8, <2>1, <2>2, <2>3 DEF GoesOn
<1>9. QED
  BY <1>2, <1>3, <1>4, <1>5, <1>6, <1>7, <1>8

(* Whatever moves, a collector stands, begins a run, or is one step on.    *)
LEMMA RunStep ==
    ASSUME Typed, [Next]_vars, NEW c \in Collectors
    PROVE  Stands(c) \/ TakeLock(c) \/ GoesOn(c) \/ Ends(c) \/ \E r : Enters(c, r)
<1>1. pc \in [Collectors -> Labels] /\ run \in [Collectors -> RunStates]
  BY DEF Typed, RunsOK
<1>2. CASE ~(Step(c) \/ RefreshFails(c) \/ Crash(c))
  <2>1. CASE \E d \in Collectors : Step(d) \/ RefreshFails(d) \/ Crash(d)
    BY <1>2, <2>1, OthersStand DEF Stands
  <2>2. CASE ~(\E d \in Collectors : Step(d) \/ RefreshFails(d) \/ Crash(d))
    BY <2>2, AllStand DEF Stands
  <2>3. QED
    BY <2>1, <2>2
<1>3. CASE Collect(c) \/ GiveUp(c)
  <2>1. run' = run /\ pc[c] \in Waiting /\ \E label \in Waiting : pc' = [pc EXCEPT ![c] = label]
    BY <1>3 DEF Collect, GiveUp, Goto, Waiting
  <2>2. QED
    BY <1>1, <2>1 DEF Stands
<1>4. CASE LogIsCorrupt(c) \/ AppendRecord(c) \/ Crash(c)
  <2>1. Leave(c) /\ pc[c] \notin Waiting /\ runs' = runs
    BY <1>4 DEF LogIsCorrupt, AppendRecord, Crash, IsRecording, Waiting, Typed, RunsOK
  <2>2. QED
    BY <1>4, <2>1, LeaveType DEF Ends
<1>5. CASE Visit(c)
  <2>1. run' = run \/ Unreached(c)
    BY <1>5 DEF Visit
  <2>2. QED
    BY <1>5, <2>1, GoesOnStep, EntersStep
<1>6. CASE SnapshotUnusable(c) \/ LedgerIsCorrupt(c) \/ TailIsStale(c) \/ RegisterRaises(c) \/ MeasureRaises(c)
           \/ FinishSymbol(c) \/ RefreshFails(c) \/ (ReadOutcomes(c) /\ Raised(c))
  BY <1>6, EntersStep
<1>7. CASE Decide(c) \/ AppendStart(c) \/ BuildSnapshot(c) \/ BeginRefresh(c) \/ RegisterClaim(c)
           \/ WriteOutcome(c) \/ (ReadOutcomes(c) /\ ~Raised(c))
  BY <1>7, GoesOnStep
<1>8. QED
  BY <1>2, <1>3, <1>4, <1>5, <1>6, <1>7 DEF Step

(* The log keeps its rows, or gains one: a start of a collector about to   *)
(* visit its symbols, or the record with which a run ends.                 *)
Begins(c) ==
    /\ pc[c] = "starting" /\ log'.rows = Append(log.rows, StartEntry(c))
    /\ AppendStart(c) \/ Ends(c)

Reports(c) ==
    IsRecording(c) /\ log'.rows = Append(log.rows, RecordEntry(c)) /\ Ends(c)

LEMMA LogStep ==
    ASSUME Typed, TornLogWaits, [Next]_vars
    PROVE  log'.rows = log.rows \/ \E c \in Collectors : Begins(c) \/ Reports(c)
<1>1. log \in File(LogRows)
  BY DEF Typed, WorldOK, FilesOK
<1>2. ASSUME NEW row \in LogRows, log.tail = "clean", log' \in CutShort(log, row)
      PROVE  log'.rows = log.rows \/ log'.rows = Append(log.rows, row)
  <2>1. \/ log' = log \/ log'.rows = log.rows
        \/ log' = Appended(log, row)
    BY <1>1, <1>2, CutShortProperties
  <2>2. Appended(log, row).rows = Append(log.rows, row)
    BY <1>1, <1>2 DEF Appended, File
  <2>3. QED
    BY <2>1, <2>2
<1>3. ASSUME NEW c \in Collectors, pc[c] = "starting" \/ IsRecording(c) PROVE log.tail = "clean"
  BY <1>3 DEF TornLogWaits, Waiting, IsRecording
<1>4. ASSUME NEW c \in Collectors, AppendStart(c) PROVE log'.rows = log.rows \/ Begins(c)
  <2>1. pc[c] = "starting" /\ log' \in CutShort(log, StartEntry(c)) /\ StartEntry(c) \in LogRows
    BY <1>4, LogEntryType DEF AppendStart, CutShort
  <2>2. QED
    BY <1>2, <1>3, <1>4, <2>1 DEF Begins
<1>5. ASSUME NEW c \in Collectors, AppendRecord(c) \/ Crash(c)
      PROVE  log'.rows = log.rows \/ Begins(c) \/ Reports(c)
  <2>1. pc[c] \notin Waiting /\ Leave(c) /\ runs' = runs
    BY <1>5 DEF AppendRecord, Crash, IsRecording, Waiting, Typed, RunsOK
  <2>2. Ends(c)
    BY <1>5, <2>1, LeaveType DEF Ends
  <2>3. \/ log' = log
        \/ pc[c] = "starting" /\ log' \in CutShort(log, StartEntry(c)) /\ StartEntry(c) \in LogRows
        \/ IsRecording(c) /\ log' \in CutShort(log, RecordEntry(c)) /\ RecordEntry(c) \in LogRows
    BY <1>5, LogEntryType DEF AppendRecord, Crash, LogAppendCutShort, CutShort
  <2>4. QED
    BY <1>2, <1>3, <2>2, <2>3 DEF Begins, Reports
<1>6. ASSUME NEW c \in Collectors, RefreshFails(c) \/ Step(c), ~AppendStart(c), ~AppendRecord(c)
      PROVE  log' = log
  BY <1>6 DEF RefreshFails, Step, Collect, TakeLock, GiveUp, LogIsCorrupt, Decide, Decided, Visit, BuildSnapshot,
     SnapshotUnusable, LedgerIsCorrupt, TailIsStale, BeginRefresh, RegisterClaim, RegisterRaises, ReadOutcomes,
     WriteOutcome, MeasureRaises, FinishSymbol
<1>7. CASE \/ UNCHANGED vars \/ Activation \/ BeginHealth \/ EndHealth \/ Tick \/ StepClockBack
           \/ \E s \in Symbols : ForeignClaim(s) \/ ForeignOutcome(s)
  BY <1>7 DEF vars, Activation, BeginActivation, WriteManifest, ActivationFails, BeginHealth, EndHealth,
              Tick, StepClockBack, ForeignClaim, ForeignOutcome
<1>8. QED
  BY <1>4, <1>5, <1>6, <1>7 DEF Next, Move

(* One collector at a time has a run.                                      *)
LEMMA OneAtATime ==
    ASSUME Typed, NEW c \in Collectors, NEW d \in Collectors, pc[c] \notin Waiting, pc[d] \notin Waiting
    PROVE  c = d
BY DEF Typed, RunsOK

(* Who has an id has a run.                                                *)
LEMMA IdIsUnderWay ==
    ASSUME Typed, NEW c \in Collectors
    PROVE  /\ pc[c] \in Waiting => run[c] = NoRun /\ run[c].id = 0
           /\ pc[c] \notin Waiting => run[c].id \in 1 .. runs /\ run[c].id \in 1 .. MaxRuns
<1>1. Stage(c) /\ runs \in 0 .. MaxRuns
  BY DEF Typed, RunsOK, WorldOK
<1>2. MaxRuns \in Nat
  BY Bounds
<1>3. QED
  BY <1>1, <1>2, NoRunType DEF Stage

-----------------------------------------------------------------------------
(* Whose a clock reading is.                                               *)

RunIds == 1 .. MaxRuns

IsIn(visits, r) == \E n \in DOMAIN visits : visits[n] = r

(* A symbol-run of run k: in its record, or in the hands of the collector  *)
(* that is at it.                                                          *)
IsRecorded(k, r) ==
    \E i \in DOMAIN log.rows :
        IsCompletion(log.rows[i]) /\ log.rows[i].id = k /\ IsIn(log.rows[i].symbols, r)

IsHeld(k, r) == \E c \in Collectors : run[c].id = k /\ IsIn(run[c].symbols, r)

Visited(k, r) == IsRecorded(k, r) \/ IsHeld(k, r)

(* Run k has read t for a snapshot.                                        *)
Took(k, t) ==
    \/ \E r \in SymbolRuns : Visited(k, r) /\ r.built_at = t
    \/ \E c \in Collectors : run[c].id = k /\ run[c].built_at = t

(* What a run has visited was there, or is entered now.                    *)
LEMMA VisitsStep ==
    ASSUME Typed, TornLogWaits, [Next]_vars, NEW k \in RunIds, NEW r, Visited(k, r)'
    PROVE  Visited(k, r) \/ \E c \in Collectors : Enters(c, r) /\ run[c].id = k
<1>1. log.rows \in Seq(LogRows) /\ run \in [Collectors -> RunStates]
  BY DEF Typed, WorldOK, FilesOK, File, RunsOK
<1>2. CASE IsRecorded(k, r)'
  <2>1. PICK i \in DOMAIN log'.rows :
            IsCompletion(log'.rows[i]) /\ log'.rows[i].id = k /\ IsIn(log'.rows[i].symbols, r)
    BY <1>2 DEF IsRecorded, IsCompletion, IsIn
  <2>2. ASSUME i \in DOMAIN log.rows, log'.rows[i] = log.rows[i] PROVE Visited(k, r)
    BY <2>1, <2>2 DEF IsRecorded, Visited
  <2>3. ASSUME NEW c \in Collectors, log'.rows = Append(log.rows, StartEntry(c)) PROVE Visited(k, r)
    <3>1. ~IsCompletion(StartEntry(c))
      BY DEF StartEntry, IsCompletion
    <3>2. i \in DOMAIN log.rows /\ log'.rows[i] = log.rows[i]
      BY <1>1, <2>1, <2>3, <3>1
    <3>3. QED
      BY <2>2, <3>2
  <2>4. ASSUME NEW c \in Collectors, log'.rows = Append(log.rows, RecordEntry(c)) PROVE Visited(k, r)
    <3>1. RecordEntry(c).id = run[c].id /\ RecordEntry(c).symbols = run[c].symbols
      BY DEF RecordEntry
    <3>2. \/ i \in DOMAIN log.rows /\ log'.rows[i] = log.rows[i]
          \/ log'.rows[i] = RecordEntry(c)
      BY <1>1, <2>1, <2>4
    <3>3. CASE log'.rows[i] = RecordEntry(c)
      BY <2>1, <3>1, <3>3 DEF Visited, IsHeld
    <3>4. QED
      BY <2>2, <3>2, <3>3
  <2>5. QED
    BY <2>1, <2>2, <2>3, <2>4, LogStep DEF Begins, Reports
<1>3. CASE IsHeld(k, r)'
  <2>1. PICK c \in Collectors : run'[c].id = k /\ IsIn(run'[c].symbols, r)
    BY <1>3 DEF IsHeld, IsIn
  <2>2. CASE run'[c].id = run[c].id /\ run'[c].symbols = run[c].symbols
    BY <2>1, <2>2 DEF Visited, IsHeld
  <2>3. CASE TakeLock(c)
    <3> DEFINE id == runs + 1
    <3>1. run'[c] = [run[c] EXCEPT !.id = id, !.started_at = now] /\ pc[c] \in Waiting
      BY <1>1, <2>3 DEF TakeLock, Waiting
    <3> HIDE DEF id
    <3>2. run'[c].symbols = <<>>
      BY <1>1, <3>1, IdIsUnderWay, NoRunType DEF RunStates
    <3>3. QED
      BY <2>1, <3>2 DEF IsIn
  <2>4. CASE Ends(c)
    BY <2>1, <2>4, NoRunType DEF Ends, IsIn
  <2>5. ASSUME NEW v, Enters(c, v) PROVE Visited(k, r) \/ (Enters(c, r) /\ run[c].id = k)
    <3>1. run'[c].id = run[c].id /\ run'[c].symbols = Append(run[c].symbols, v)
      <4> DEFINE id == run[c].id
                 started_at == run[c].started_at
                 symbols == Append(run[c].symbols, v)
      <4>1. run'[c] = [NoRun EXCEPT !.id = id, !.started_at = started_at, !.symbols = symbols]
        BY <1>1, <2>5 DEF Enters, NextSymbol
      <4> HIDE DEF id, started_at, symbols
      <4>2. run'[c].id = id /\ run'[c].symbols = symbols
        BY <4>1 DEF NoRun
      <4>3. QED
        BY <4>2 DEF id, symbols
    <3>2. run[c].symbols \in Seq(SymbolRuns)
      BY <1>1 DEF RunStates
    <3>3. r = v \/ IsIn(run[c].symbols, r)
      BY <2>1, <2>5, <3>1, <3>2 DEF IsIn, Enters
    <3>4. QED
      BY <2>1, <2>5, <3>1, <3>3 DEF Visited, IsHeld
  <2>6. QED
    BY <2>2, <2>3, <2>4, <2>5, RunStep DEF Stands, GoesOn
<1>4. QED
  BY <1>2, <1>3 DEF Visited

(* What a run has read is one of the readings there are.                   *)
LEMMA TookIsReading ==
    ASSUME NEW k \in RunIds, NEW t, Took(k, t)
    PROVE  t \in Readings
<1>1. ASSUME NEW r, Visited(k, r), r.built_at = t PROVE t \in Readings
  <2>1. CASE IsRecorded(k, r)
    <3>1. PICK i \in DOMAIN log.rows : IsIn(log.rows[i].symbols, r)
      BY <2>1 DEF IsRecorded
    <3>2. t \in BuiltAt(log.rows[i].symbols)
      BY <1>1, <3>1 DEF IsIn, BuiltAt
    <3>3. QED
      BY <3>1, <3>2 DEF Readings, LogReadings
  <2>2. CASE IsHeld(k, r)
    <3>1. PICK c \in Collectors : IsIn(run[c].symbols, r)
      BY <2>2 DEF IsHeld
    <3>2. t \in BuiltAt(run[c].symbols)
      BY <1>1, <3>1 DEF IsIn, BuiltAt
    <3>3. QED
      BY <3>1, <3>2 DEF Readings, RunReadings
  <2>3. QED
    BY <1>1, <2>1, <2>2 DEF Visited
<1>2. ASSUME NEW c \in Collectors, run[c].built_at = t PROVE t \in Readings
  BY <1>2 DEF Readings, RunReadings
<1>3. QED
  BY <1>1, <1>2 DEF Took

(* A run reads the clock for a snapshot, and only then.                    *)
LEMMA TookStep ==
    ASSUME Typed, TornLogWaits, [Next]_vars, NEW k \in RunIds, NEW t \in Ticks, Took(k, t)'
    PROVE  Took(k, t) \/ (t = now /\ \E c \in Collectors : BuildSnapshot(c) /\ run[c].id = k)
<1>1. run \in [Collectors -> RunStates] /\ t # NoTime
  BY Bounds DEF Typed, RunsOK, NoTime
<1>2. ASSUME NEW r \in SymbolRuns, Visited(k, r)', r.built_at = t PROVE Took(k, t)
  <2>1. CASE Visited(k, r)
    BY <1>2, <2>1 DEF Took
  <2>2. ASSUME NEW c \in Collectors, Enters(c, r), run[c].id = k PROVE Took(k, t)
    BY <1>2, <2>2 DEF Enters, Took
  <2>3. QED
    BY <1>2, <2>1, <2>2, VisitsStep
<1>3. ASSUME NEW c \in Collectors, run'[c].id = k, run'[c].built_at = t
      PROVE  Took(k, t) \/ (t = now /\ BuildSnapshot(c) /\ run[c].id = k)
  <2>1. CASE Stands(c)
    BY <1>3, <2>1 DEF Stands, Took
  <2>2. CASE GoesOn(c)
    BY <1>3, <2>2 DEF GoesOn, Took
  <2>3. CASE Ends(c)
    BY <1>1, <1>3, <2>3 DEF Ends, NoRun
  <2>4. CASE TakeLock(c)
    <3> DEFINE id == runs + 1
    <3>1. run'[c] = [run[c] EXCEPT !.id = id, !.started_at = now] /\ pc[c] \in Waiting
      BY <1>1, <2>4 DEF TakeLock, Waiting
    <3> HIDE DEF id
    <3>2. run'[c].built_at = run[c].built_at
      BY <1>1, <3>1 DEF RunStates
    <3>3. QED
      BY <1>1, <1>3, <3>1, <3>2, IdIsUnderWay DEF NoRun
  <2>5. ASSUME NEW r, Enters(c, r) PROVE FALSE
    <3> DEFINE id == run[c].id
               started_at == run[c].started_at
               symbols == Append(run[c].symbols, r)
    <3>1. run'[c] = [NoRun EXCEPT !.id = id, !.started_at = started_at, !.symbols = symbols]
      BY <1>1, <2>5 DEF Enters, NextSymbol
    <3> HIDE DEF id, started_at, symbols
    <3>2. run'[c].built_at = NoTime
      BY <3>1 DEF NoRun
    <3>3. QED
      BY <1>1, <1>3, <3>2
  <2>6. QED
    BY <2>1, <2>2, <2>3, <2>4, <2>5, RunStep
<1>4. QED
  BY <1>2, <1>3 DEF Took

(* No two runs have a reading in common, and no run one with a row that    *)
(* another run, or a foreign writer, wrote.                                *)
ReadingsApart ==
    \A k \in RunIds, t \in Ticks : Took(k, t) =>
        /\ \A l \in RunIds : Took(l, t) => l = k
        /\ \A claim \in AllClaims : claim.recorded_at = t => claim.by = k
        /\ \A outcome \in AllOutcomes : outcome.evaluated_at = t => outcome.by = k

(* A new claim carries the snapshot's clock of its run, or a fresh one.    *)
LEMMA ClaimOrigin ==
    ASSUME Typed, [Next]_vars, NEW s \in Symbols, NEW claim \in RowSet(claims'[s]), claim \notin RowSet(claims[s])
    PROVE  /\ claim.symbol = s /\ claim.key[2] = claim.timestamp
           /\ Readable(claims[s]) /\ claim.key \notin Keys(claims[s])
           /\ \/ /\ claim.by = Foreign /\ claim.recorded_at = now /\ IsFreshReading
                 /\ UNCHANGED <<log, pc, run>>
              \/ \E c \in Collectors :
                    /\ pc[c] = "registering" /\ Unheld(c) # {} /\ s = Symbol(c) /\ claim = NextClaim(c)
                    /\ claim.by = run[c].id /\ claim.recorded_at = run[c].built_at
                    /\ claim.timestamp = run[c].tail
<1>1. claim.symbol = s /\ claim.key[2] = claim.timestamp /\ IsOffered(s, claim)
  BY FilesChange, ClaimsGrow
<1>2. ASSUME NEW c \in Collectors, claim = NextClaim(c)
      PROVE  /\ claim.by = run[c].id /\ claim.recorded_at = run[c].built_at /\ claim.timestamp = run[c].tail
  BY <1>2 DEF NextClaim, ClaimRow
<1>3. QED
  BY <1>1, <1>2 DEF IsOffered

(* So does a new outcome.                                                  *)
LEMMA OutcomeOrigin ==
    ASSUME Typed, [Next]_vars, NEW s \in Symbols, NEW o \in RowSet(outcomes'[s]), o \notin RowSet(outcomes[s])
    PROVE  /\ Readable(outcomes[s]) /\ o.key \notin Keys(outcomes[s])
           /\ \/ /\ \E claim \in RowSet(claims[s]) : claim.recorded_at < now /\ o = OutcomeRow(claim, now, Foreign)
                 /\ o.by = Foreign /\ o.evaluated_at = now
                 /\ IsFreshReading /\ UNCHANGED <<log, claims, pc, run>>
              \/ \E c \in Collectors :
                    /\ pc[c] = "measuring" /\ Items(c) # {} /\ CanWriteOutcome(c)
                    /\ s = Symbol(c) /\ o = NextOutcome(c)
                    /\ o.by = run[c].id /\ o.evaluated_at = run[c].built_at
<1>1. IsMeasured(s, o)
  BY FilesChange, OutcomesGrow
<1>2. ASSUME NEW c \in Collectors, o = NextOutcome(c)
      PROVE  o.by = run[c].id /\ o.evaluated_at = run[c].built_at
  BY <1>2 DEF NextOutcome, OutcomeRow
<1>3. QED
  BY <1>1, <1>2 DEF IsMeasured, OutcomeRow

(* A reading taken for a snapshot is fresh; a row that is written carries  *)
(* the snapshot's, or a fresh one.                                         *)
LEMMA ReadingsStep ==
    ASSUME Typed, TornLogWaits, ReadingsApart, [Next]_vars
    PROVE  ReadingsApart'
<1> SUFFICES ASSUME NEW k \in RunIds, NEW t \in Ticks, Took(k, t)'
             PROVE  /\ \A l \in RunIds : Took(l, t)' => l = k
                    /\ \A claim \in AllClaims' : claim.recorded_at = t => claim.by = k
                    /\ \A outcome \in AllOutcomes' : outcome.evaluated_at = t => outcome.by = k
  BY DEF ReadingsApart
<1>1. ASSUME NEW c \in Collectors, BuildSnapshot(c)
      PROVE  IsFreshReading /\ pc[c] \notin Waiting /\ UNCHANGED ledger
  BY <1>1 DEF BuildSnapshot, Waiting
<1>2. ASSUME NEW l \in RunIds, NEW m \in RunIds, Took(l, now), Took(m, t)', ~Took(m, t)
      PROVE  FALSE
  BY <1>1, <1>2, TookStep, TookIsReading DEF IsFreshReading
<1>3. ASSUME NEW l \in RunIds, Took(l, t)' PROVE l = k
  <2>1. CASE Took(k, t) /\ Took(l, t)
    BY <2>1 DEF ReadingsApart
  <2>2. CASE ~Took(k, t) /\ ~Took(l, t)
    BY <1>1, <1>3, <2>2, TookStep, OneAtATime
  <2>3. ASSUME NEW m \in RunIds, NEW n \in RunIds, Took(m, t), Took(n, t)', ~Took(n, t) PROVE FALSE
    BY <1>2, <2>3, TookStep
  <2>4. QED
    BY <1>3, <2>1, <2>2, <2>3
<1>4. ASSUME NEW s \in Symbols, NEW claim \in RowSet(claims'[s]), claim.recorded_at = t PROVE claim.by = k
  <2>1. CASE Took(k, t) /\ claim \in RowSet(claims[s])
    BY <1>4, <2>1 DEF ReadingsApart, AllClaims
  <2>2. CASE ~Took(k, t)
    <3>1. t = now /\ IsFreshReading /\ claims' = claims
      BY <1>1, <2>2, TookStep DEF ledger
    <3>2. QED
      BY <1>4, <3>1 DEF IsFreshReading, Readings, AllClaims
  <2>3. CASE Took(k, t) /\ claim \notin RowSet(claims[s])
    <3>1. CASE claim.recorded_at = now /\ IsFreshReading
      BY <1>4, <2>3, <3>1, TookIsReading DEF IsFreshReading
    <3>2. ASSUME NEW c \in Collectors, pc[c] = "registering", claim.by = run[c].id, claim.recorded_at = run[c].built_at
          PROVE  claim.by = k
      <4>1. run[c].id \in RunIds /\ Took(run[c].id, t)
        BY <1>4, <3>2, IdIsUnderWay DEF Took, Waiting, RunIds
      <4>2. QED
        BY <2>3, <3>2, <4>1 DEF ReadingsApart
    <3>3. QED
      BY <2>3, <3>1, <3>2, ClaimOrigin
  <2>4. QED
    BY <2>1, <2>2, <2>3
<1>5. ASSUME NEW s \in Symbols, NEW o \in RowSet(outcomes'[s]), o.evaluated_at = t PROVE o.by = k
  <2>1. CASE Took(k, t) /\ o \in RowSet(outcomes[s])
    BY <1>5, <2>1 DEF ReadingsApart, AllOutcomes
  <2>2. CASE ~Took(k, t)
    <3>1. t = now /\ IsFreshReading /\ outcomes' = outcomes
      BY <1>1, <2>2, TookStep DEF ledger
    <3>2. QED
      BY <1>5, <3>1 DEF IsFreshReading, Readings, AllOutcomes
  <2>3. CASE Took(k, t) /\ o \notin RowSet(outcomes[s])
    <3>1. CASE o.evaluated_at = now /\ IsFreshReading
      BY <1>5, <2>3, <3>1, TookIsReading DEF IsFreshReading
    <3>2. ASSUME NEW c \in Collectors, pc[c] = "measuring", o.by = run[c].id, o.evaluated_at = run[c].built_at
          PROVE  o.by = k
      <4>1. run[c].id \in RunIds /\ Took(run[c].id, t)
        BY <1>5, <3>2, IdIsUnderWay DEF Took, Waiting, RunIds
      <4>2. QED
        BY <2>3, <3>2, <4>1 DEF ReadingsApart
    <3>3. QED
      BY <2>3, <3>1, <3>2, OutcomeOrigin
  <2>4. QED
    BY <2>1, <2>2, <2>3
<1>6. QED
  BY <1>3, <1>4, <1>5 DEF AllClaims, AllOutcomes

LEMMA ReadingsInvariant == Spec => []ReadingsApart
<1>1. Init => ReadingsApart
  <2> SUFFICES ASSUME Init, NEW k \in RunIds, NEW t \in Ticks PROVE ~Took(k, t)
    BY DEF ReadingsApart
  <2>1. log.rows = <<>> /\ \A c \in Collectors : run[c].id # k
    BY NoRunType DEF Init, EmptyFile, RunIds
  <2>2. QED
    BY <2>1 DEF Took, Visited, IsRecorded, IsHeld
<1>2. QED
  BY <1>1, TypedInvariant, TornLogInvariant, ReadingsStep, PTL DEF Spec

(* A row of a completed run's is the reading of a symbol-run of its own.   *)
LEMMA RunsAtTook ==
    ASSUME Typed, NEW s, NEW t, RunsAt(log.rows, s, t) # {}
    PROVE  \E k \in RunIds : Took(k, t)
<1>1. log.rows \in Seq(LogRows)
  BY DEF Typed, WorldOK, FilesOK, File
<1>2. PICK i \in DOMAIN log.rows : IsCompletion(log.rows[i]) /\ \E n \in DOMAIN log.rows[i].symbols :
                                                                  log.rows[i].symbols[n].built_at = t
  BY DEF RunsAt, Refreshed, Completed
<1>3. log.rows[i] \in Records
  BY <1>1, <1>2 DEF LogRows, Starts, IsCompletion
<1>4. PICK n \in DOMAIN log.rows[i].symbols : log.rows[i].symbols[n].built_at = t
  BY <1>2
<1>5. log.rows[i].id \in RunIds /\ log.rows[i].symbols[n] \in SymbolRuns
  BY <1>3, <1>4 DEF Records, RunIds
<1>6. Visited(log.rows[i].id, log.rows[i].symbols[n])
  BY <1>2, <1>4 DEF Visited, IsRecorded, IsIn
<1>7. QED
  BY <1>4, <1>5, <1>6 DEF Took

-----------------------------------------------------------------------------
(* Foreign records.                                                        *)

(* The files keep what they hold of the type it has.                       *)
LEMMA RowTypes ==
    ASSUME Typed
    PROVE  /\ AllClaims \subseteq Claims /\ AllOutcomes \subseteq Outcomes
           /\ log.rows \in Seq(LogRows)
<1>1. \A s \in Symbols : claims[s] \in File(Claims) /\ outcomes[s] \in File(Outcomes)
  BY DEF Typed, WorldOK, FilesOK
<1>2. \A s \in Symbols : RowSet(claims[s]) \subseteq Claims /\ RowSet(outcomes[s]) \subseteq Outcomes
  BY <1>1, RowSetType
<1>3. QED
  BY <1>2 DEF AllClaims, AllOutcomes, Typed, WorldOK, FilesOK, File

(* ForeignIsNeverPrimary: between two runs, whoever wrote what and         *)
(* whatever the clock did, a ledger that is not invalid has every record of*)
(* a foreign writer, and every outcome of a foreign claim, on the list of  *)
(* what validation excludes.                                               *)
THEOREM ForeignStaysOut == Spec => []ForeignIsNeverPrimary
<1>1. ASSUME Typed, ReadingsApart PROVE ForeignIsNeverPrimary
  <2> SUFFICES ASSUME PermitsCollection(Verdict)
               PROVE  /\ \A claim \in AllClaims :
                            claim.by = Foreign =>
                                <<claim.symbol, claim.key>> \in
                                    ExcludedClaims(log.rows, AllClaims, activated_at)
                      /\ \A outcome \in AllOutcomes :
                            (\/ outcome.by = Foreign
                             \/ \E claim \in AllClaims :
                                   /\ claim.symbol = outcome.symbol /\ claim.key = outcome.claim
                                   /\ claim.by = Foreign) =>
                                <<outcome.symbol, outcome.key>> \in
                                    ExcludedOutcomes(log.rows, AllClaims, AllOutcomes, activated_at)
    BY DEF ForeignIsNeverPrimary
  <2>1. IsReconcilable(log.rows, AllClaims, AllOutcomes, activated_at)
    BY DEF PermitsCollection, Verdict, VerifyProvenance
  <2>2. AllClaims \subseteq Claims /\ AllOutcomes \subseteq Outcomes
    BY <1>1, RowTypes
  <2>3. ASSUME NEW k \in RunIds PROVE k # Foreign
    BY <2>3, Bounds DEF RunIds, Foreign
  <2>4. ASSUME NEW claim \in AllClaims, claim.by = Foreign
        PROVE  claim \in Attributed(log.rows, AllClaims, activated_at)
    <3>1. claim.recorded_at \in Ticks
      BY <2>2 DEF Claims
    <3>2. RunsAt(log.rows, claim.symbol, claim.recorded_at) = {}
      BY <1>1, <2>3, <2>4, <3>1, RunsAtTook DEF ReadingsApart
    <3>3. ~IsReconciled(log.rows, claim)
      BY <3>2 DEF IsReconciled
    <3>4. QED
      BY <2>1, <3>3 DEF IsReconcilable
  <2>5. ASSUME NEW claim \in AllClaims, claim.by = Foreign
        PROVE  <<claim.symbol, claim.key>> \in ExcludedClaims(log.rows, AllClaims, activated_at)
    BY <2>4, <2>5 DEF ExcludedClaims
  <2>6. ASSUME NEW o \in AllOutcomes, o.by = Foreign
        PROVE  <<o.symbol, o.key>> \in ExcludedOutcomes(log.rows, AllClaims, AllOutcomes, activated_at)
    <3>1. o.evaluated_at \in Ticks
      BY <2>2 DEF Outcomes
    <3>2. RunsAt(log.rows, o.symbol, o.evaluated_at) = {}
      BY <1>1, <2>3, <2>6, <3>1, RunsAtTook DEF ReadingsApart
    <3>3. o \in AttributedOutcomes(log.rows, AllClaims, AllOutcomes, activated_at)
      BY <2>1, <3>2 DEF IsReconcilable
    <3>4. QED
      BY <3>3 DEF ExcludedOutcomes
  <2>7. ASSUME NEW o \in AllOutcomes, NEW claim \in AllClaims,
               claim.symbol = o.symbol, claim.key = o.claim, claim.by = Foreign
        PROVE  <<o.symbol, o.key>> \in ExcludedOutcomes(log.rows, AllClaims, AllOutcomes, activated_at)
    <3>1. ~IsUnfounded(o, AllClaims)
      BY <2>1 DEF IsReconcilable
    <3>2. <<o.symbol, o.claim>> \in ExcludedClaims(log.rows, AllClaims, activated_at)
      BY <2>5, <2>7
    <3>3. QED
      BY <3>1, <3>2 DEF ExcludedOutcomes
  <2>8. QED
    BY <2>5, <2>6, <2>7
<1>2. QED
  BY <1>1, TypedInvariant, ReadingsInvariant, PTL

-----------------------------------------------------------------------------
(* The order of a run.                                                     *)

(* In the middle of a refresh its answer stays what it was.                *)
KeepsAnswer(c) ==
    /\ run'[c].id = run[c].id /\ run'[c].started_at = run[c].started_at
    /\ run'[c].symbols = run[c].symbols /\ run'[c].built_at = run[c].built_at
    /\ run'[c].bars = run[c].bars /\ run'[c].tail = run[c].tail
    /\ pc[c] \in {"registering", "measuring"} /\ pc'[c] \in {"registering", "measuring"}

(* Only what is held and what is counted moves on.                         *)
LEMMA MidRefresh ==
    ASSUME Typed, NEW c \in Collectors
    PROVE  /\ RegisterClaim(c) =>
                  /\ KeepsAnswer(c) /\ run'[c].held = Append(run[c].held, NextClaim(c))
                  /\ run'[c].artifacts_new = run[c].artifacts_new + 1
                  /\ run'[c].outcomes_new = run[c].outcomes_new
                  /\ pc[c] = "registering" /\ pc'[c] = "registering"
           /\ ReadOutcomes(c) /\ ~Raised(c) =>
                  /\ KeepsAnswer(c) /\ run'[c].held = run[c].held
                  /\ run'[c].artifacts_new = run[c].artifacts_new
                  /\ run'[c].outcomes_new = run[c].outcomes_new
                  /\ pc[c] = "registering" /\ pc'[c] = "measuring"
           /\ WriteOutcome(c) =>
                  /\ KeepsAnswer(c) /\ run'[c].held = run[c].held
                  /\ run'[c].artifacts_new = run[c].artifacts_new
                  /\ run'[c].outcomes_new = run[c].outcomes_new + 1
                  /\ pc[c] = "measuring" /\ pc'[c] = "measuring"
<1>1. pc \in [Collectors -> Labels] /\ run \in [Collectors -> RunStates] /\ run[c] \in RunStates
  BY DEF Typed, RunsOK
<1>2. ASSUME RegisterClaim(c)
      PROVE  /\ KeepsAnswer(c) /\ run'[c].held = Append(run[c].held, NextClaim(c))
             /\ run'[c].artifacts_new = run[c].artifacts_new + 1
             /\ run'[c].outcomes_new = run[c].outcomes_new
             /\ pc[c] = "registering" /\ pc'[c] = "registering"
  <2> DEFINE held == Append(run[c].held, NextClaim(c))
             more == run[c].artifacts_new + 1
  <2>1. run'[c] = [run[c] EXCEPT !.held = held, !.artifacts_new = more]
    BY <1>1, <1>2 DEF RegisterClaim
  <2>2. pc[c] = "registering" /\ pc'[c] = "registering"
    BY <1>2 DEF RegisterClaim
  <2> HIDE DEF held, more
  <2>3. KeepsAnswer(c) /\ run'[c].held = held /\ run'[c].artifacts_new = more
        /\ run'[c].outcomes_new = run[c].outcomes_new
    BY <1>1, <2>1, <2>2 DEF RunStates, KeepsAnswer
  <2>4. QED
    BY <2>2, <2>3 DEF held, more
<1>3. ASSUME ReadOutcomes(c), ~Raised(c)
      PROVE  /\ KeepsAnswer(c) /\ run'[c].held = run[c].held
             /\ run'[c].artifacts_new = run[c].artifacts_new
             /\ run'[c].outcomes_new = run[c].outcomes_new
             /\ pc[c] = "registering" /\ pc'[c] = "measuring"
  <2>1. /\ pc[c] = "registering" /\ pc'[c] = "measuring"
        /\ run'[c] = [run[c] EXCEPT !.present = Keys(outcomes[Symbol(c)])]
    BY <1>1, <1>3 DEF ReadOutcomes, Goto
  <2>2. QED
    BY <1>1, <2>1 DEF RunStates, KeepsAnswer
<1>4. ASSUME WriteOutcome(c)
      PROVE  /\ KeepsAnswer(c) /\ run'[c].held = run[c].held
             /\ run'[c].artifacts_new = run[c].artifacts_new
             /\ run'[c].outcomes_new = run[c].outcomes_new + 1
             /\ pc[c] = "measuring" /\ pc'[c] = "measuring"
  <2> DEFINE at == Item(c) + 1
             new == run[c].outcomes_new + 1
  <2>1. /\ pc[c] = "measuring" /\ pc'[c] = "measuring"
        /\ run'[c] = [run[c] EXCEPT !.at = at, !.outcomes_new = new]
    BY <1>1, <1>4 DEF WriteOutcome
  <2> HIDE DEF at, new
  <2>2. KeepsAnswer(c) /\ run'[c].held = run[c].held /\ run'[c].artifacts_new = run[c].artifacts_new
        /\ run'[c].outcomes_new = new
    BY <1>1, <2>1 DEF RunStates, KeepsAnswer
  <2>3. QED
    BY <2>1, <2>2 DEF new
<1>5. QED
  BY <1>2, <1>3, <1>4

(* A refresh begins with an answer, and with what the file held.           *)
LEMMA BeginsRefresh ==
    ASSUME Typed, NEW c \in Collectors, BeginRefresh(c)
    PROVE  /\ pc[c] = "fetching" /\ pc'[c] = "registering" /\ UNCHANGED ledger
           /\ run'[c].id = run[c].id /\ run'[c].started_at = run[c].started_at
           /\ run'[c].symbols = run[c].symbols /\ run'[c].built_at = run[c].built_at
           /\ run'[c].held = claims[Symbol(c)].rows
           /\ run'[c].artifacts_new = run[c].artifacts_new
           /\ run'[c].outcomes_new = run[c].outcomes_new
           /\ \E bars \in UsableAnswers(c) :
                 /\ ~IsStale(c, LatestOf(bars))
                 /\ run'[c].bars = bars /\ run'[c].tail = LatestOf(bars)
                 /\ run'[c].missed = MissedTails(c, bars)
<1>1. pc \in [Collectors -> Labels] /\ run \in [Collectors -> RunStates] /\ run[c] \in RunStates
  BY DEF Typed, RunsOK
<1>2. PICK bars \in UsableAnswers(c) :
          /\ ~IsStale(c, LatestOf(bars))
          /\ run' = [run EXCEPT ![c] = [run[c] EXCEPT !.bars = bars, !.tail = LatestOf(bars),
                                                      !.missed = MissedTails(c, bars),
                                                      !.held = claims[Symbol(c)].rows]]
  BY ZenonT(40) DEF BeginRefresh
<1> DEFINE tail == LatestOf(bars)
           missed == MissedTails(c, bars)
           held == claims[Symbol(c)].rows
<1>3. run'[c] = [run[c] EXCEPT !.bars = bars, !.tail = tail, !.missed = missed, !.held = held]
  BY <1>1, <1>2
<1> HIDE DEF tail, missed, held
<1>4. /\ run'[c].id = run[c].id /\ run'[c].started_at = run[c].started_at
      /\ run'[c].symbols = run[c].symbols /\ run'[c].built_at = run[c].built_at
      /\ run'[c].held = held /\ run'[c].bars = bars /\ run'[c].tail = tail /\ run'[c].missed = missed
      /\ run'[c].artifacts_new = run[c].artifacts_new /\ run'[c].outcomes_new = run[c].outcomes_new
  BY <1>1, <1>3 DEF RunStates
<1>5. pc[c] = "fetching" /\ pc'[c] = "registering" /\ UNCHANGED ledger
  BY <1>1 DEF BeginRefresh, Goto
<1>6. QED
  BY <1>2, <1>4, <1>5 DEF tail, missed, held

(* How a collector comes to be in the middle of a refresh.                 *)
LEMMA AtRefresh ==
    ASSUME Typed, [Next]_vars, NEW c \in Collectors, pc'[c] \in {"registering", "measuring"}
    PROVE  \/ pc'[c] = pc[c] /\ run'[c] = run[c]
           \/ BeginRefresh(c) \/ RegisterClaim(c) \/ (ReadOutcomes(c) /\ ~Raised(c)) \/ WriteOutcome(c)
<1>1. pc \in [Collectors -> Labels]
  BY DEF Typed, RunsOK
<1>2. ~Raised(c)
  BY <1>1 DEF Raised, NextSymbol, Goto
<1>3. QED
  BY <1>2, AtSymbol

(* Of a symbol entered, the list keeps its order.                          *)
LEMMA EntersFields ==
    ASSUME Typed, NEW c \in Collectors, NEW r, Enters(c, r)
    PROVE  /\ run'[c] = [NoRun EXCEPT !.id = run[c].id, !.started_at = run[c].started_at,
                                      !.symbols = Append(run[c].symbols, r)]
           /\ run'[c].id = run[c].id /\ run'[c].started_at = run[c].started_at
           /\ run'[c].symbols = Append(run[c].symbols, r)
           /\ run'[c].built_at = NoTime /\ run'[c].outcomes_new = 0 /\ run'[c].artifacts_new = 0
           /\ pc[c] \notin Waiting /\ pc'[c] = "visiting"
<1>1. pc \in [Collectors -> Labels] /\ run \in [Collectors -> RunStates]
  BY DEF Typed, RunsOK
<1> DEFINE id == run[c].id
           started_at == run[c].started_at
           symbols == Append(run[c].symbols, r)
<1>2. run'[c] = [NoRun EXCEPT !.id = id, !.started_at = started_at, !.symbols = symbols]
  BY <1>1 DEF Enters, NextSymbol
<1> HIDE DEF id, started_at, symbols
<1>3. /\ run'[c].id = id /\ run'[c].started_at = started_at /\ run'[c].symbols = symbols
      /\ run'[c].built_at = NoTime /\ run'[c].outcomes_new = 0 /\ run'[c].artifacts_new = 0
  BY <1>2 DEF NoRun
<1>4. pc[c] \notin Waiting /\ pc'[c] = "visiting"
  BY <1>1 DEF Enters, NextSymbol, Goto, Waiting
<1>5. QED
  BY <1>2, <1>3, <1>4 DEF id, started_at, symbols

(* A run begins with its number and its clock.                             *)
LEMMA TakeLockFields ==
    ASSUME Typed, NEW c \in Collectors, TakeLock(c)
    PROVE  /\ run'[c] = [NoRun EXCEPT !.id = runs + 1, !.started_at = now]
           /\ run'[c].id = runs + 1 /\ run'[c].started_at = now /\ run'[c].symbols = <<>>
           /\ run'[c].built_at = NoTime /\ run'[c].outcomes_new = 0 /\ run'[c].artifacts_new = 0
           /\ pc[c] = "waiting" /\ pc'[c] = "deciding" /\ log' = log /\ UNCHANGED ledger
<1>1. pc \in [Collectors -> Labels] /\ run \in [Collectors -> RunStates]
  BY DEF Typed, RunsOK
<1>2. pc[c] = "waiting" /\ pc'[c] = "deciding" /\ log' = log /\ UNCHANGED ledger
  BY <1>1 DEF TakeLock, Goto
<1>3. run[c] = NoRun
  BY <1>2, IdIsUnderWay DEF Waiting
<1> DEFINE id == runs + 1
<1>4. run'[c] = [NoRun EXCEPT !.id = id, !.started_at = now]
  BY <1>1, <1>3 DEF TakeLock
<1> HIDE DEF id
<1>5. /\ run'[c].id = id /\ run'[c].started_at = now /\ run'[c].symbols = <<>>
      /\ run'[c].built_at = NoTime /\ run'[c].outcomes_new = 0 /\ run'[c].artifacts_new = 0
  BY <1>4 DEF NoRun
<1>6. QED
  BY <1>2, <1>4, <1>5 DEF id

(* A run visits the universe in its order.                                 *)
InOrder(visits) == \A n \in DOMAIN visits : visits[n].symbol = Universe[n]

(* The log holds a run's start before its completion, and nothing else     *)
(* twice.                                                                  *)
IsSecond(entry, earlier) ==
    IsStart(earlier) /\ IsCompletion(entry) /\ earlier.started_at = entry.started_at

LogSound ==
    /\ \A i, j \in DOMAIN log.rows :
          (i < j /\ log.rows[i].id = log.rows[j].id) => IsSecond(log.rows[j], log.rows[i])
    /\ \A j \in DOMAIN log.rows :
          /\ IsStart(log.rows[j]) => InWindow(log.rows[j].started_at)
          /\ IsCompletion(log.rows[j]) => \E i \in DOMAIN log.rows : i < j /\ log.rows[i].id = log.rows[j].id
          /\ InOrder(log.rows[j].symbols)

Unlogged == {"deciding", "starting", "recording"}

(* What a collector under way has in the log: nothing, or its start.       *)
IsNew(c)   == \A i \in DOMAIN log.rows : log.rows[i].id # run[c].id
IsBegun(c) ==
    /\ \E i \in DOMAIN log.rows : log.rows[i].id = run[c].id
    /\ \A i \in DOMAIN log.rows : log.rows[i].id = run[c].id =>
          IsStart(log.rows[i]) /\ log.rows[i].started_at = run[c].started_at

RunSound(c) ==
    /\ InOrder(run[c].symbols)
    /\ pc[c] \in Unlogged => IsNew(c)
    /\ pc[c] \notin Waiting \cup Unlogged => IsBegun(c)
    /\ pc[c] = "starting" => InWindow(run[c].started_at)
    /\ pc[c] \in {"registering", "measuring"} =>
          InWindow(run[c].built_at) /\ \A d \in run[c].bars : d <= run[c].tail

Orderly == LogSound /\ \A c \in Collectors : RunSound(c)

(* The log of a sound run gains its start, and later its record.           *)
LEMMA LogSoundStep ==
    ASSUME Typed, TornLogWaits, Orderly, [Next]_vars
    PROVE  LogSound'
<1>1. log.rows \in Seq(LogRows) /\ run \in [Collectors -> RunStates]
  BY DEF Typed, WorldOK, FilesOK, File, RunsOK
<1> DEFINE rows == log.rows
<1>2. ASSUME NEW row, log'.rows = Append(log.rows, row),
             \A i \in DOMAIN log.rows : log.rows[i].id = row.id => IsSecond(row, log.rows[i]),
             IsStart(row) => InWindow(row.started_at),
             IsCompletion(row) => \E i \in DOMAIN log.rows : log.rows[i].id = row.id,
             InOrder(row.symbols)
      PROVE  LogSound'
  <2>1. /\ DOMAIN log.rows = 1 .. Len(log.rows) /\ Len(log.rows) \in Nat
        /\ DOMAIN log'.rows = 1 .. Len(log.rows) + 1
        /\ \A i \in 1 .. Len(log.rows) : log'.rows[i] = log.rows[i]
        /\ log'.rows[Len(log.rows) + 1] = row
    BY <1>1, <1>2
  <2>2. ASSUME NEW i \in DOMAIN log'.rows, NEW j \in DOMAIN log'.rows, i < j, log'.rows[i].id = log'.rows[j].id
        PROVE  IsSecond(log'.rows[j], log'.rows[i])
    <3>1. i \in DOMAIN log.rows /\ log'.rows[i] = log.rows[i]
      BY <2>1, <2>2
    <3>2. CASE j \in DOMAIN log.rows
      BY <2>1, <2>2, <3>1, <3>2 DEF Orderly, LogSound
    <3>3. CASE j = Len(log.rows) + 1
      BY <1>2, <2>1, <2>2, <3>1, <3>3
    <3>4. QED
      BY <2>1, <3>2, <3>3
  <2>3. ASSUME NEW j \in DOMAIN log'.rows
        PROVE  /\ IsStart(log'.rows[j]) => InWindow(log'.rows[j].started_at)
               /\ IsCompletion(log'.rows[j]) =>
                     \E i \in DOMAIN log'.rows : i < j /\ log'.rows[i].id = log'.rows[j].id
               /\ InOrder(log'.rows[j].symbols)
    <3>1. CASE j \in DOMAIN log.rows
      <4>1. log'.rows[j] = log.rows[j] /\ DOMAIN log.rows \subseteq DOMAIN log'.rows
        BY <2>1, <3>1
      <4>2. \A i \in DOMAIN log.rows : i \in DOMAIN log'.rows /\ log'.rows[i] = log.rows[i]
        BY <2>1
      <4>3. QED
        BY <3>1, <4>1, <4>2 DEF Orderly, LogSound
    <3>2. CASE j = Len(log.rows) + 1
      <4>1. log'.rows[j] = row
        BY <2>1, <3>2
      <4>2. \A i \in DOMAIN log.rows : i < j /\ i \in DOMAIN log'.rows /\ log'.rows[i] = log.rows[i]
        BY <2>1, <3>2
      <4>3. QED
        BY <1>2, <4>1, <4>2
    <3>3. QED
      BY <2>1, <3>1, <3>2
  <2>4. QED
    BY <2>2, <2>3 DEF LogSound, IsSecond, InWindow, InOrder, IsStart, IsCompletion
<1>3. CASE log'.rows = log.rows
  BY <1>3 DEF Orderly, LogSound, IsSecond, InWindow, InOrder, IsStart, IsCompletion
<1>4. ASSUME NEW c \in Collectors, Begins(c) PROVE LogSound'
  <2>1. pc[c] = "starting" /\ RunSound(c)
    BY <1>4 DEF Begins, Orderly
  <2>2. IsNew(c) /\ InWindow(run[c].started_at)
    BY <2>1 DEF RunSound, Unlogged
  <2>3. PICK row : row = StartEntry(c)
    OBVIOUS
  <2>4. /\ row.id = run[c].id /\ row.started_at = run[c].started_at /\ row.symbols = <<>>
        /\ ~IsCompletion(row)
    BY <2>3 DEF StartEntry, IsCompletion
  <2>5. InOrder(row.symbols)
    BY <2>4 DEF InOrder
  <2>6. QED
    BY <1>2, <1>4, <2>2, <2>3, <2>4, <2>5 DEF Begins, IsNew
<1>5. ASSUME NEW c \in Collectors, Reports(c) PROVE LogSound'
  <2>1. PICK row : row = RecordEntry(c)
    OBVIOUS
  <2>2. /\ row.id = run[c].id /\ row.started_at = run[c].started_at /\ row.symbols = run[c].symbols
        /\ row.status = run[c].status /\ row.kind = "record" /\ ~IsStart(row)
    BY <2>1 DEF RecordEntry, IsStart
  <2>3. RunSound(c) /\ Stage(c)
    BY DEF Orderly, Typed, RunsOK
  <2>4. CASE pc[c] = "recording"
    <3>1. IsNew(c) /\ ~IsCompletion(row)
      BY <2>2, <2>3, <2>4 DEF RunSound, Unlogged, Stage, Waiting, IsCompletion
    <3>2. QED
      BY <1>2, <1>5, <2>1, <2>2, <2>3, <3>1 DEF Reports, RunSound, IsNew
  <2>5. CASE pc[c] = "visiting"
    <3>1. IsBegun(c) /\ IsCompletion(row)
      BY <2>2, <2>3, <2>5 DEF RunSound, Unlogged, Stage, Waiting, IsCompletion
    <3>2. QED
      BY <1>2, <1>5, <2>1, <2>2, <2>3, <3>1 DEF Reports, RunSound, IsBegun, IsSecond
  <2>6. QED
    BY <1>5, <2>4, <2>5 DEF Reports, IsRecording
<1>6. QED
  BY <1>3, <1>4, <1>5, LogStep

(* A collector that stands, stands over a log that stands.                 *)
LEMMA LogStands ==
    ASSUME Typed, TornLogWaits, [Next]_vars, NEW c \in Collectors, pc[c] \notin Waiting,
           pc'[c] \notin Waiting, ~AppendStart(c)
    PROVE  log'.rows = log.rows
<1> SUFFICES ASSUME NEW d \in Collectors, Begins(d) \/ Reports(d) PROVE FALSE
  BY LogStep
<1>1. pc[d] \notin Waiting
  BY DEF Begins, Reports, Ends, IsRecording, Waiting
<1>2. c = d
  BY <1>1, OneAtATime
<1>3. QED
  BY <1>2 DEF Begins, Reports, Ends

(* A collector's run is sound at every step of its.                        *)
LEMMA RunSoundStep ==
    ASSUME Typed, TornLogWaits, Orderly, [Next]_vars, NEW c \in Collectors
    PROVE  RunSound(c)'
<1>1. /\ pc \in [Collectors -> Labels] /\ run \in [Collectors -> RunStates] /\ run[c] \in RunStates
      /\ log.rows \in Seq(LogRows)
  BY DEF Typed, RunsOK, WorldOK, FilesOK, File
<1>2. RunSound(c) /\ Stage(c)
  BY DEF Orderly, Typed, RunsOK
<1>3. ASSUME log'.rows = log.rows, run'[c].id = run[c].id, run'[c].started_at = run[c].started_at
      PROVE  (IsNew(c) => IsNew(c)') /\ (IsBegun(c) => IsBegun(c)')
  BY <1>3 DEF IsNew, IsBegun
<1>4. CASE pc'[c] \in Waiting
  <2>1. run'[c] = NoRun
    <3>1. CASE Stands(c)
      BY <1>4, <3>1, IdIsUnderWay DEF Stands
    <3>2. ~TakeLock(c)
      BY <1>4, TakeLockFields DEF Waiting
    <3>3. ~GoesOn(c)
      BY <1>4 DEF GoesOn
    <3>4. ASSUME NEW r, Enters(c, r) PROVE FALSE
      BY <1>4, <3>4, EntersFields DEF Waiting
    <3>5. QED
      BY <3>1, <3>2, <3>3, <3>4, RunStep DEF Ends
  <2>2. InOrder(run'[c].symbols)
    BY <2>1, NoRunType DEF InOrder
  <2>3. QED
    BY <1>4, <2>2 DEF RunSound, Waiting, Unlogged, InOrder
<1>5. CASE Stands(c) /\ pc'[c] \notin Waiting
  <2>1. pc'[c] = pc[c] /\ run'[c] = run[c]
    BY <1>5 DEF Stands
  <2>2. log'.rows = log.rows
    <3>1. ~AppendStart(c)
      BY <1>1, <2>1 DEF AppendStart, Goto
    <3>2. QED
      BY <1>5, <2>1, <3>1, LogStands
  <2>3. QED
    BY <1>2, <1>3, <2>1, <2>2 DEF RunSound, InWindow, InOrder
<1>6. CASE TakeLock(c)
  <2>1. /\ run'[c].id = runs + 1 /\ run'[c].symbols = <<>> /\ pc'[c] = "deciding" /\ log' = log
    BY <1>6, TakeLockFields
  <2>2. IsNew(c)'
    BY <1>1, <2>1 DEF Typed, WorldOK, IsNew
  <2>3. InOrder(run'[c].symbols)
    BY <2>1 DEF InOrder
  <2>4. QED
    BY <2>1, <2>2, <2>3 DEF RunSound, Waiting, Unlogged, InOrder
<1>7. ASSUME NEW r, Enters(c, r) PROVE RunSound(c)'
  <2>1. /\ run'[c].id = run[c].id /\ run'[c].started_at = run[c].started_at
        /\ run'[c].symbols = Append(run[c].symbols, r) /\ pc'[c] = "visiting" /\ log' = log
    BY <1>7, EntersFields DEF Enters
  <2>2. run[c].symbols \in Seq(SymbolRuns) /\ r.symbol = Universe[Len(run[c].symbols) + 1]
    BY <1>1, <1>7 DEF RunStates, Enters, Symbol
  <2>3. InOrder(run'[c].symbols)
    <3> SUFFICES ASSUME NEW n \in DOMAIN run'[c].symbols PROVE run'[c].symbols[n].symbol = Universe[n]
      BY DEF InOrder
    <3>1. n \in 1 .. Len(run[c].symbols) + 1
      BY <1>7, <2>1, <2>2 DEF Enters
    <3>2. CASE n \in 1 .. Len(run[c].symbols)
      BY <1>2, <1>7, <2>1, <2>2, <3>2 DEF RunSound, InOrder, Enters
    <3>3. CASE n = Len(run[c].symbols) + 1
      BY <1>7, <2>1, <2>2, <3>3 DEF Enters
    <3>4. QED
      BY <2>2, <3>1, <3>2, <3>3
  <2>4. IsBegun(c)
    BY <1>2, <1>7 DEF RunSound, Enters, Waiting, Unlogged
  <2>5. IsBegun(c)'
    BY <1>3, <2>1, <2>4
  <2>6. QED
    BY <2>1, <2>3, <2>5 DEF RunSound, Waiting, Unlogged, InOrder
<1>8. CASE Decide(c)
  <2>1. GoesOn(c)
    BY <1>8, GoesOnStep
  <2>2. /\ pc[c] = "deciding" /\ pc'[c] \in {"starting", "recording"} /\ log' = log
        /\ pc'[c] = "starting" => InWindow(run[c].started_at)
    BY <1>1, <1>8 DEF Decide, Decided, Goto, Decision, PermitsCollection, CollectorIdentity, LiveConfiguration
  <2>3. IsNew(c)
    BY <1>2, <2>2 DEF RunSound, Unlogged
  <2>4. IsNew(c)'
    BY <1>3, <2>1, <2>2, <2>3 DEF GoesOn
  <2>5. InOrder(run'[c].symbols) /\ run'[c].started_at = run[c].started_at
    BY <1>2, <2>1 DEF GoesOn, RunSound
  <2>6. QED
    BY <2>2, <2>4, <2>5 DEF RunSound, Waiting, Unlogged, InOrder, InWindow
<1>9. CASE AppendStart(c)
  <2>1. pc[c] = "starting" /\ pc'[c] = "visiting" /\ run' = run /\ log' = Appended(log, StartEntry(c))
    BY <1>1, <1>9 DEF AppendStart, Goto
  <2>2. log.tail = "clean" /\ log \in File(LogRows)
    BY <2>1 DEF TornLogWaits, Waiting, Typed, WorldOK, FilesOK
  <2>3. log'.rows = Append(log.rows, StartEntry(c))
    BY <2>1, <2>2 DEF Appended, File
  <2>4. PICK row : row = StartEntry(c)
    OBVIOUS
  <2>5. row.id = run[c].id /\ row.started_at = run[c].started_at /\ IsStart(row)
    BY <2>4 DEF StartEntry, IsStart
  <2>6. IsNew(c)
    BY <1>2, <2>1 DEF RunSound, Unlogged
  <2>7. IsBegun(c)'
    <3>1. /\ DOMAIN log'.rows = 1 .. Len(log.rows) + 1 /\ Len(log.rows) \in Nat
          /\ \A i \in 1 .. Len(log.rows) : log'.rows[i] = log.rows[i] /\ i \in DOMAIN log.rows
          /\ log'.rows[Len(log.rows) + 1] = row
      BY <1>1, <2>3, <2>4
    <3>2. ASSUME NEW i \in DOMAIN log'.rows, log'.rows[i].id = run[c].id
          PROVE  IsStart(log'.rows[i]) /\ log'.rows[i].started_at = run[c].started_at
      <4>1. i = Len(log.rows) + 1
        BY <2>6, <3>1, <3>2 DEF IsNew
      <4>2. QED
        BY <2>5, <3>1, <4>1
    <3>3. \E i \in DOMAIN log'.rows : log'.rows[i].id = run[c].id
      BY <2>5, <3>1
    <3>4. QED
      BY <2>1, <3>2, <3>3 DEF IsBegun, IsStart
  <2>8. QED
    BY <1>2, <2>1, <2>7 DEF RunSound, Waiting, Unlogged, InOrder
<1>10. CASE \/ (Visit(c) /\ run' = run) \/ BuildSnapshot(c) \/ BeginRefresh(c) \/ RegisterClaim(c)
            \/ (ReadOutcomes(c) /\ ~Raised(c)) \/ WriteOutcome(c)
  <2>1. GoesOn(c)
    BY <1>10, GoesOnStep
  <2>2. /\ pc[c] \in {"visiting", "building", "fetching", "registering", "measuring"}
        /\ pc'[c] \in {"building", "fetching", "registering", "measuring"} /\ log' = log
    <3>1. CASE Visit(c) /\ run' = run
      <4>1. ~Unreached(c)
        <5>1. ASSUME Unreached(c) PROVE FALSE
          <6>1. PICK r : Enters(c, r)
            BY <3>1, <5>1, EntersStep
          <6>2. run'[c].symbols = Append(run[c].symbols, r) /\ run[c].symbols \in Seq(SymbolRuns) /\ r \in SymbolRuns
            BY <1>1, <6>1, EntersFields DEF RunStates, Enters
          <6>3. run'[c].symbols # run[c].symbols
            BY <6>2
          <6>4. QED
            BY <3>1, <6>3
        <5>2. QED
          BY <5>1
      <4>2. QED
        BY <1>1, <3>1, <4>1 DEF Visit, Goto
    <3>2. CASE BuildSnapshot(c) \/ BeginRefresh(c)
      BY <1>1, <3>2 DEF BuildSnapshot, BeginRefresh, Goto
    <3>3. CASE RegisterClaim(c) \/ (ReadOutcomes(c) /\ ~Raised(c)) \/ WriteOutcome(c)
      BY <3>3, MidRefresh DEF RegisterClaim, ReadOutcomes, WriteOutcome
    <3>4. QED
      BY <1>10, <3>1, <3>2, <3>3
  <2>3. IsBegun(c)'
    BY <1>2, <1>3, <2>1, <2>2 DEF RunSound, Waiting, Unlogged, GoesOn
  <2>4. InOrder(run'[c].symbols)
    BY <1>2, <2>1 DEF GoesOn, RunSound
  <2>5. ASSUME pc'[c] \in {"registering", "measuring"}
        PROVE  InWindow(run'[c].built_at) /\ \A d \in run'[c].bars : d <= run'[c].tail
    <3>1. CASE BeginRefresh(c)
      <4>1. PICK bars \in UsableAnswers(c) : run'[c].bars = bars /\ run'[c].tail = LatestOf(bars)
        BY <3>1, BeginsRefresh
      <4>2. \A d \in bars : d <= LatestOf(bars)
        <5>1. bars \in SUBSET Days /\ bars # {}
          BY <4>1 DEF UsableAnswers, SettledDays
        <5>2. QED
          BY <5>1, LatestOfProperty
      <4>3. InWindow(run[c].built_at) /\ run'[c].built_at = run[c].built_at
        BY <3>1, BeginsRefresh DEF UsableAnswers
      <4>4. QED
        BY <4>1, <4>2, <4>3
    <3>2. CASE RegisterClaim(c) \/ (ReadOutcomes(c) /\ ~Raised(c)) \/ WriteOutcome(c)
      BY <1>2, <3>2, MidRefresh DEF KeepsAnswer, RunSound
    <3>3. CASE Visit(c) \/ BuildSnapshot(c)
      BY <1>1, <2>5, <3>3 DEF Visit, BuildSnapshot, Goto, Unreached, NextSymbol
    <3>4. QED
      BY <1>10, <3>1, <3>2, <3>3
  <2>6. QED
    BY <2>2, <2>3, <2>4, <2>5 DEF RunSound, Waiting, Unlogged, InOrder, InWindow
<1>11. QED
  BY <1>4, <1>5, <1>6, <1>7, <1>8, <1>9, <1>10, RunStep DEF GoesOn, Ends

(* The order holds from the start.                                         *)
LEMMA OrderlyInvariant == Spec => []Orderly
<1>1. Init => Orderly
  <2> SUFFICES ASSUME Init PROVE Orderly
    OBVIOUS
  <2>1. log.rows = <<>>
    BY DEF Init, EmptyFile
  <2>2. LogSound
    BY <2>1 DEF LogSound
  <2>3. \A c \in Collectors : run[c].symbols = <<>> /\ pc[c] \in Waiting
    BY NoRunType DEF Init, Waiting
  <2>4. \A c \in Collectors : RunSound(c)
    BY <2>3 DEF RunSound, Waiting, Unlogged, InOrder
  <2>5. QED
    BY <2>2, <2>4 DEF Orderly
<1>2. Typed /\ TornLogWaits /\ Orderly /\ [Next]_vars => Orderly'
  BY LogSoundStep, RunSoundStep DEF Orderly
<1>3. QED
  BY <1>1, <1>2, TypedInvariant, TornLogInvariant, PTL DEF Spec

-----------------------------------------------------------------------------
(* Health.                                                                 *)

(* A log in which a start comes before its completion, and nothing twice.  *)
InPairs(rows) ==
    /\ \A i, j \in DOMAIN rows : (i < j /\ rows[i].id = rows[j].id) => IsSecond(rows[j], rows[i])
    /\ \A j \in DOMAIN rows :
          IsCompletion(rows[j]) => \E i \in DOMAIN rows : i < j /\ rows[i].id = rows[j].id

CompletedIds(rows) == {entry.id : entry \in {e \in Range(rows) : IsCompletion(e)}}

OpenIds(rows) ==
    {entry.id : entry \in {e \in Range(rows) : IsStart(e) /\ e.id \notin CompletedIds(rows)}}

RecordLines(rows) ==
    {i \in DOMAIN rows : rows[i].kind = "record" /\ rows[i].status \in RunStatuses}

(* Every completion of such a log has its pair.                            *)
LEMMA PairedCompletions ==
    ASSUME NEW rows \in Seq(LogRows), InPairs(rows)
    PROVE  Completed(rows) = {j \in DOMAIN rows : IsCompletion(rows[j])}
<1> SUFFICES ASSUME NEW j \in DOMAIN rows, IsCompletion(rows[j]) PROVE IsPaired(rows, j)
  BY DEF Completed
<1>1. DOMAIN rows = 1 .. Len(rows) /\ Len(rows) \in Nat
  OBVIOUS
<1>2. PICK i \in DOMAIN rows : i < j /\ rows[i].id = rows[j].id
  BY DEF InPairs
<1>3. IsStart(rows[i]) /\ rows[i].started_at = rows[j].started_at
  BY <1>2 DEF InPairs, IsSecond
<1>4. i \in 1 .. j - 1
  BY <1>1, <1>2
<1>5. ASSUME NEW k \in 1 .. j - 1, IsCompletion(rows[k]) PROVE rows[k].id # rows[j].id
  <2>1. k \in DOMAIN rows /\ k < j
    BY <1>1
  <2>2. ~IsStart(rows[k])
    BY <1>5 DEF IsCompletion, IsStart
  <2>3. QED
    BY <2>1, <2>2 DEF InPairs, IsSecond
<1>6. QED
  BY <1>2, <1>3, <1>4, <1>5 DEF IsPaired

(* A line is a start or a record, and a start is completed or interrupted. *)
LEMMA LogCounts ==
    ASSUME NEW rows \in Seq(LogRows), InPairs(rows)
    PROVE  /\ OpenIds(rows) = {rows[i].id : i \in Interrupted(rows)}
           /\ Len(rows) = Cardinality(RecordLines(rows)) + Cardinality(CompletedIds(rows))
                          + Cardinality(OpenIds(rows))
<1> DEFINE starts == {i \in DOMAIN rows : IsStart(rows[i])}
           open == {k \in starts : rows[k].id \notin CompletedIds(rows)}
<1>0. PICK ids : ids = CompletedIds(rows) \cup OpenIds(rows)
  OBVIOUS
<1>1. /\ DOMAIN rows = 1 .. Len(rows) /\ Len(rows) \in Nat
      /\ \A i \in DOMAIN rows : rows[i] \in LogRows
  OBVIOUS
<1>2. IsFiniteSet(DOMAIN rows) /\ Cardinality(DOMAIN rows) = Len(rows)
  <2>1. 1 \in Int /\ Len(rows) \in Int
    BY <1>1
  <2>2. IsFiniteSet(1 .. Len(rows)) /\ Cardinality(1 .. Len(rows)) = IF 1 > Len(rows) THEN 0 ELSE Len(rows) - 1 + 1
    BY <2>1, FS_Interval
  <2>3. QED
    BY <1>1, <2>2
<1>3. CompletedIds(rows) = {rows[j].id : j \in {k \in DOMAIN rows : IsCompletion(rows[k])}}
  BY DEF CompletedIds, Range
<1>4. OpenIds(rows) = {rows[i].id : i \in open}
  BY DEF OpenIds, Range
<1>5. OpenIds(rows) = {rows[i].id : i \in Interrupted(rows)}
  <2>1. ASSUME NEW i \in DOMAIN rows
        PROVE  rows[i].id \notin CompletedIds(rows) <=> \A j \in Completed(rows) : rows[j].id # rows[i].id
    BY <1>3, PairedCompletions
  <2>2. Interrupted(rows) = open
    BY <2>1 DEF Interrupted
  <2>3. PICK cut : cut = Interrupted(rows)
    OBVIOUS
  <2> HIDE DEF open, starts
  <2>4. OpenIds(rows) = {rows[i].id : i \in cut}
    <3>1. cut = open
      BY <2>2, <2>3
    <3>2. \A x : (\E i \in cut : x = rows[i].id) <=> (\E i \in open : x = rows[i].id)
      BY <3>1
    <3>3. QED
      BY <1>4, <3>2
  <2>5. QED
    BY <2>3, <2>4
<1>6. /\ IsFiniteSet(starts) /\ Cardinality(starts) \in Nat /\ Cardinality(RecordLines(rows)) \in Nat
      /\ Len(rows) = Cardinality(RecordLines(rows)) + Cardinality(starts)
  <2>1. RecordLines(rows) \cup starts = DOMAIN rows /\ RecordLines(rows) \cap starts = {}
    BY <1>1 DEF RecordLines, LogRows, Starts, Records, IsStart
  <2>2. RecordLines(rows) \in SUBSET DOMAIN rows /\ starts \in SUBSET DOMAIN rows
    BY <2>1
  <2>3. PICK D, A, B : D = DOMAIN rows /\ A = RecordLines(rows) /\ B = starts
    OBVIOUS
  <2> HIDE DEF starts
  <2>4. IsFiniteSet(D) /\ Cardinality(D) = Len(rows)
    BY <1>2, <2>3
  <2>5. A \in SUBSET D /\ B \in SUBSET D /\ A \cap B = {} /\ A \cup B = D
    BY <2>1, <2>2, <2>3
  <2>6. IsFiniteSet(B) /\ Cardinality(A) \in Nat /\ Cardinality(B) \in Nat /\ Cardinality(D) = Cardinality(A) + Cardinality(B)
    BY <2>4, <2>5, Halves
  <2>7. QED
    BY <2>3, <2>4, <2>6
<1>7. IsFiniteSet(ids) /\ Cardinality(ids) = Cardinality(starts)
  <2> DEFINE f == [i \in starts |-> rows[i].id]
  <2>1. ASSUME NEW i \in starts PROVE rows[i].id \in ids
    BY <1>0, <1>4, <2>1
  <2>2. ASSUME NEW i \in starts, NEW j \in starts, rows[i].id = rows[j].id PROVE i = j
    <3>1. \A k \in starts : ~IsCompletion(rows[k])
      BY DEF IsStart, IsCompletion
    <3>2. ~(i < j) /\ ~(j < i)
      BY <2>2, <3>1 DEF InPairs, IsSecond
    <3>3. QED
      BY <1>1, <3>2
  <2>3. ASSUME NEW id \in ids PROVE \E i \in starts : rows[i].id = id
    <3>1. CASE id \in OpenIds(rows)
      BY <1>4, <3>1
    <3>2. CASE id \in CompletedIds(rows)
      <4>1. PICK j \in DOMAIN rows : IsCompletion(rows[j]) /\ rows[j].id = id
        BY <1>3, <3>2
      <4>2. PICK i \in DOMAIN rows : i < j /\ rows[i].id = rows[j].id
        BY <4>1 DEF InPairs
      <4>3. IsStart(rows[i])
        BY <4>2 DEF InPairs, IsSecond
      <4>4. QED
        BY <4>1, <4>2, <4>3
    <3>3. QED
      BY <1>0, <3>1, <3>2
  <2>4. f \in [starts -> ids]
    BY <2>1
  <2>5. \A a, b \in starts : f[a] = f[b] => a = b
    BY <2>2
  <2>6. \A t \in ids : \E s \in starts : f[s] = t
    BY <2>3
  <2> HIDE DEF f, starts
  <2>7. QED
    BY <1>6, <2>4, <2>5, <2>6, SameSize
<1>8. CompletedIds(rows) \cap OpenIds(rows) = {}
  BY DEF OpenIds
<1>9. /\ Cardinality(CompletedIds(rows)) \in Nat /\ Cardinality(OpenIds(rows)) \in Nat
      /\ Cardinality(ids) = Cardinality(CompletedIds(rows)) + Cardinality(OpenIds(rows))
  <2>1. /\ CompletedIds(rows) \in SUBSET ids /\ OpenIds(rows) \in SUBSET ids
        /\ CompletedIds(rows) \cup OpenIds(rows) = ids
    BY <1>0
  <2>2. PICK D, A, B : D = ids /\ A = CompletedIds(rows) /\ B = OpenIds(rows)
    OBVIOUS
  <2>3. IsFiniteSet(D) /\ Cardinality(D) \in Nat
    BY <1>7, <2>2, FS_CardinalityType
  <2>4. A \in SUBSET D /\ B \in SUBSET D /\ A \cap B = {} /\ A \cup B = D
    BY <1>8, <2>1, <2>2
  <2>5. IsFiniteSet(B) /\ Cardinality(A) \in Nat /\ Cardinality(B) \in Nat /\ Cardinality(D) = Cardinality(A) + Cardinality(B)
    BY <2>3, <2>4, Halves
  <2>6. QED
    BY <2>2, <2>5
<1> HIDE DEF starts
<1>10. Len(rows) = Cardinality(RecordLines(rows)) + Cardinality(CompletedIds(rows)) + Cardinality(OpenIds(rows))
  <2>1. \A a, b, c \in Nat : a + (b + c) = a + b + c
    OBVIOUS
  <2>2. Len(rows) = Cardinality(RecordLines(rows)) + (Cardinality(CompletedIds(rows)) + Cardinality(OpenIds(rows)))
    BY <1>6, <1>7, <1>9, Zenon
  <2>3. QED
    BY <1>6, <1>9, <2>1, <2>2, Zenon
<1>11. QED
  BY <1>5, <1>10

(* While health reads, no collector is past the lock.                      *)
ReadAlone == reading => holder = Nobody

LEMMA ReadAloneStep ==
    ASSUME ReadAlone, [Next]_vars
    PROVE  ReadAlone'
<1>1. ASSUME NEW c \in Collectors, Step(c) \/ RefreshFails(c) \/ Crash(c)
      PROVE  \/ UNCHANGED lock \/ ~reading' \/ (UNCHANGED reading /\ holder' = Nobody)
  BY <1>1 DEF lock, Step, Collect, TakeLock, GiveUp, LogIsCorrupt, Decide, Decided, AppendStart, Visit,
     BuildSnapshot, SnapshotUnusable, LedgerIsCorrupt, TailIsStale, BeginRefresh, RegisterClaim, RegisterRaises,
     ReadOutcomes, WriteOutcome, MeasureRaises, FinishSymbol, AppendRecord, Leave, RefreshFails, Crash
<1>2. CASE \E c \in Collectors : Step(c) \/ RefreshFails(c) \/ Crash(c)
  BY <1>1, <1>2 DEF ReadAlone, lock
<1>3. CASE BeginHealth \/ EndHealth
  BY <1>3 DEF ReadAlone, BeginHealth, EndHealth
<1>4. CASE UNCHANGED vars \/ Activation \/ Tick \/ StepClockBack
           \/ \E s \in Symbols : ForeignClaim(s) \/ ForeignOutcome(s)
  BY <1>4 DEF ReadAlone, vars, lock, Activation, BeginActivation, WriteManifest, ActivationFails,
              Tick, StepClockBack, ForeignClaim, ForeignOutcome
<1>5. QED
  BY <1>2, <1>3, <1>4 DEF Next, Move

(* An outcome is of a claim in the file beside it, and not older.          *)
IsFounded(s, o) ==
    /\ o.symbol = s /\ o.key = <<o.claim, 1>>
    /\ \E claim \in RowSet(claims[s]) : claim.key = o.claim /\ claim.recorded_at <= o.evaluated_at

Founded == \A s \in Symbols : \A o \in RowSet(outcomes[s]) : IsFounded(s, o)

LEMMA FoundedStep ==
    ASSUME Typed, FiledBySymbol, Founded, [Next]_vars
    PROVE  Founded'
<1> SUFFICES ASSUME NEW s \in Symbols, NEW o \in RowSet(outcomes'[s])
             PROVE  /\ o.symbol = s /\ o.key = <<o.claim, 1>>
                    /\ \E claim \in RowSet(claims'[s]) : claim.key = o.claim /\ claim.recorded_at <= o.evaluated_at
  BY DEF Founded, IsFounded
<1>0. \A a, b \in Nat : (a < b => a <= b) /\ (~(b < a) => a <= b)
  OBVIOUS
<1>1. RowSet(claims[s]) \subseteq RowSet(claims'[s])
  BY FilesChange, ClaimsGrow
<1>2. /\ now \in Ticks /\ \A c \in Collectors : run[c] \in RunStates /\ Stage(c)
      /\ \A claim \in RowSet(claims[s]) : claim \in Claims
  BY RowSetType DEF Typed, WorldOK, RunsOK, FilesOK
<1>3. ASSUME NEW claim \in RowSet(claims[s]), NEW t \in Ticks, claim.recorded_at <= t, NEW writer,
             o = OutcomeRow(claim, t, writer)
      PROVE  /\ o.symbol = s /\ o.key = <<o.claim, 1>>
             /\ claim \in RowSet(claims'[s]) /\ claim.key = o.claim /\ claim.recorded_at <= o.evaluated_at
  BY <1>1, <1>3 DEF OutcomeRow, FiledBySymbol
<1>4. CASE o \in RowSet(outcomes[s])
  BY <1>1, <1>4 DEF Founded, IsFounded
<1>5. ASSUME NEW claim \in RowSet(claims[s]), claim.recorded_at < now, o = OutcomeRow(claim, now, Foreign)
      PROVE  claim.recorded_at <= now
  <2>1. claim.recorded_at \in Nat /\ now \in Nat
    BY <1>2, Bounds DEF Claims
  <2>2. QED
    BY <1>5, <1>0, <2>1, Zenon
<1>6. ASSUME NEW c \in Collectors, pc[c] = "measuring", CanWriteOutcome(c), s = Symbol(c), o = NextOutcome(c)
      PROVE  \E claim \in RowSet(claims[s]), t \in Ticks :
                claim.recorded_at <= t /\ o = OutcomeRow(claim, t, run[c].id)
  <2>1. PICK claim : claim = run[c].held[Item(c)]
    OBVIOUS
  <2>2. claim \in RowSet(claims[s]) /\ ~(run[c].built_at < claim.recorded_at)
    BY <1>6, <2>1 DEF CanWriteOutcome, IsHardError, IsRegistered, Registered
  <2>3. run[c].built_at \in Ticks /\ claim.recorded_at \in Ticks
    BY <1>2, <1>6, <2>2 DEF Stage, Claims
  <2>4. claim.recorded_at <= run[c].built_at
    <3>1. claim.recorded_at \in Nat /\ run[c].built_at \in Nat
      BY <2>3, Bounds
    <3>2. QED
      BY <1>0, <2>2, <3>1, Zenon
  <2>5. o = OutcomeRow(claim, run[c].built_at, run[c].id)
    BY <1>6, <2>1 DEF NextOutcome
  <2>6. QED
    BY <2>2, <2>3, <2>4, <2>5
<1>7. CASE o \notin RowSet(outcomes[s])
  BY <1>2, <1>3, <1>5, <1>6, <1>7, OutcomeOrigin
<1>8. QED
  BY <1>4, <1>7

LEMMA FoundedInvariant == Spec => [](ReadAlone /\ Founded)
<1>1. Init => ReadAlone /\ Founded
  BY DEF Init, ReadAlone, Founded, EmptyFile, RowSet
<1>2. ReadAlone /\ Founded /\ Typed /\ FiledBySymbol /\ [Next]_vars => (ReadAlone /\ Founded)'
  BY ReadAloneStep, FoundedStep
<1>3. Prospective => FiledBySymbol
  BY DEF Prospective
<1>4. QED
  BY <1>1, <1>2, <1>3, TypedInvariant, ProspectiveInvariant, PTL DEF Spec

(* The claims without an outcome are as many as the two files differ by.   *)
LEMMA PendingCount ==
    ASSUME Typed, Founded, NEW s \in Symbols, IsReadable(s)
    PROVE  Len(claims[s].rows) - Len(outcomes[s].rows) =
               Cardinality({claim \in RowSet(claims[s]) :
                               \A o \in RowSet(outcomes[s]) : o.claim # claim.key})
<1> DEFINE C == RowSet(claims[s])
           O == RowSet(outcomes[s])
           A == {claim \in C : \A o \in O : o.claim # claim.key}
           B == {claim \in C : \E o \in O : o.claim = claim.key}
<1>1. /\ claims[s] \in File(Claims) /\ outcomes[s] \in File(Outcomes)
      /\ NoRepeatedKey(claims[s]) /\ NoRepeatedKey(outcomes[s])
  BY DEF Typed, WorldOK, FilesOK, IsReadable, Readable
<1>2. /\ IsFiniteSet(C) /\ Cardinality(C) \in Nat /\ Cardinality(C) = Len(claims[s].rows)
      /\ IsFiniteSet(O) /\ Cardinality(O) \in Nat /\ Cardinality(O) = Len(outcomes[s].rows)
  BY <1>1, FileSize
<1>3. A \in SUBSET C /\ B \in SUBSET C /\ A \cap B = {} /\ A \cup B = C
  OBVIOUS
<1>4. \A x, y \in C : x.key = y.key => x = y
  BY <1>1 DEF RowSet, NoRepeatedKey
<1>5. \A x, y \in O : x.key = y.key => x = y
  BY <1>1 DEF RowSet, NoRepeatedKey
<1>6. \A o \in O : o.key = <<o.claim, 1>> /\ \E claim \in C : claim.key = o.claim
  BY DEF Founded, IsFounded
<1> HIDE DEF C, O
<1> DEFINE f == [o \in O |-> CHOOSE claim \in C : claim.key = o.claim]
<1>7. \A o \in O : f[o] \in C /\ f[o].key = o.claim
  BY <1>6
<1>8. f \in [O -> B]
  BY <1>7
<1>9. \A x, y \in O : f[x] = f[y] => x = y
  <2> SUFFICES ASSUME NEW x \in O, NEW y \in O, f[x] = f[y] PROVE x = y
    OBVIOUS
  <2>1. x.claim = y.claim
    BY <1>7
  <2>2. QED
    BY <1>5, <1>6, <2>1
<1>10. \A b \in B : \E o \in O : f[o] = b
  BY <1>4, <1>7
<1> HIDE DEF f, A, B
<1>11. Cardinality(B) = Cardinality(O)
  BY <1>2, <1>8, <1>9, <1>10, SameSize
<1>12. Cardinality(A) \in Nat /\ Cardinality(B) \in Nat /\ Cardinality(C) = Cardinality(A) + Cardinality(B)
  <2>1. PICK left_out, measured, all : left_out = A /\ measured = B /\ all = C
    OBVIOUS
  <2>2. /\ left_out \in SUBSET all /\ measured \in SUBSET all
        /\ left_out \cap measured = {} /\ left_out \cup measured = all
    BY <1>3, <2>1
  <2>3. IsFiniteSet(all)
    BY <1>2, <2>1
  <2>4. /\ IsFiniteSet(left_out) /\ IsFiniteSet(measured)
        /\ Cardinality(left_out) \in Nat /\ Cardinality(measured) \in Nat
    BY <2>2, <2>3, FS_Subset, FS_CardinalityType
  <2>5. Cardinality(all) = Cardinality(left_out) + Cardinality(measured)
    BY <2>2, <2>3, Halves
  <2>6. QED
    BY <2>1, <2>4, <2>5
<1>13. Cardinality(A) = Cardinality(C) - Cardinality(O)
  BY <1>2, <1>11, <1>12
<1>14. QED
  BY <1>2, <1>13 DEF A, C, O

(* HealthIsTrue: what health says while it reads is consistent, and no run *)
(* under way is taken for an interrupted one.                              *)
THEOREM HealthReportIsTrue == Spec => []HealthIsTrue
<1>1. ASSUME Typed, ReadAlone, Founded, Orderly PROVE HealthIsTrue
  <2> SUFFICES ASSUME reading
               PROVE  /\ \A c \in Collectors : run[c].id \notin HealthLocked.interrupted
                      /\ HealthLocked.interrupted = {ReadableLog[i].id : i \in Interrupted(ReadableLog)}
                      /\ Len(ReadableLog) = HealthLocked.runs_total + HealthLocked.runs_completed
                                            + Cardinality(HealthLocked.interrupted)
                      /\ \A health \in HealthLocked.symbols :
                            health.pending = Cardinality(
                                {claim \in RowSet(claims[health.symbol]) :
                                    \A o \in RowSet(outcomes[health.symbol]) : o.claim # claim.key})
                      /\ HealthLocked.provenance = "unknown" <=> HealthLocked.status = "corrupt"
    BY DEF HealthIsTrue
  <2>1. PICK rows : rows = ReadableLog
    OBVIOUS
  <2>2. rows \in Seq(LogRows) /\ InPairs(rows)
    <3>1. log.rows \in Seq(LogRows) /\ InPairs(log.rows)
      BY <1>1 DEF Typed, WorldOK, FilesOK, File, Orderly, LogSound, InPairs
    <3>2. <<>> \in Seq(LogRows) /\ InPairs(<<>>)
      BY DEF InPairs
    <3>3. QED
      BY <2>1, <3>1, <3>2 DEF ReadableLog
  <2>3. /\ HealthLocked.interrupted = OpenIds(rows)
        /\ HealthLocked.runs_completed = Cardinality(CompletedIds(rows))
        /\ HealthLocked.runs_total = Cardinality(RecordLines(rows))
    BY <2>1 DEF HealthLocked, OpenIds, CompletedIds, RecordLines, RunsThat
  <2>4. ASSUME NEW c \in Collectors PROVE run[c].id \notin OpenIds(rows)
    <3>1. holder # c
      BY <1>1, CollectionAssumption DEF ReadAlone
    <3>2. run[c].id = 0
      BY <1>1, <3>1, IdIsUnderWay DEF Typed, RunsOK
    <3>3. \A entry \in Range(rows) : entry.id # 0
      BY <2>2, Bounds DEF Range, LogRows, Starts, Records
    <3>4. QED
      BY <3>2, <3>3 DEF OpenIds
  <2>5. OpenIds(rows) = {rows[i].id : i \in Interrupted(rows)}
    BY <2>2, LogCounts
  <2>6. Len(rows) = Cardinality(RecordLines(rows)) + Cardinality(CompletedIds(rows)) + Cardinality(OpenIds(rows))
    BY <2>2, LogCounts
  <2>7. ASSUME NEW health \in HealthLocked.symbols
        PROVE  health.pending = Cardinality(
                   {claim \in RowSet(claims[health.symbol]) :
                       \A o \in RowSet(outcomes[health.symbol]) : o.claim # claim.key})
    <3>1. PICK s \in Symbols : IsReadable(s) /\ health = SymbolHealth(s)
      BY <2>7 DEF HealthLocked
    <3>2. health.symbol = s /\ health.pending = Len(claims[s].rows) - Len(outcomes[s].rows)
      BY <3>1 DEF SymbolHealth
    <3>3. QED
      BY <1>1, <3>1, <3>2, PendingCount
  <2>8. HealthLocked.provenance = "unknown" <=> HealthLocked.status = "corrupt"
    <3>1. (\A s \in Symbols : IsReadable(s)) => Verdict # "unknown"
      BY DEF Verdict, VerifyProvenance
    <3>2. QED
      BY <3>1 DEF HealthLocked
  <2>9. \A c \in Collectors : run[c].id \notin HealthLocked.interrupted
    BY <2>3, <2>4
  <2>10. HealthLocked.interrupted = {ReadableLog[i].id : i \in Interrupted(ReadableLog)}
    BY <2>1, <2>3, <2>5
  <2>11. Len(ReadableLog) = HealthLocked.runs_total + HealthLocked.runs_completed
                           + Cardinality(HealthLocked.interrupted)
    BY <2>1, <2>3, <2>6
  <2>12. QED
    BY <2>7, <2>8, <2>9, <2>10, <2>11
<1>2. QED
  BY <1>1, TypedInvariant, FoundedInvariant, OrderlyInvariant, PTL

-----------------------------------------------------------------------------
(* What a run wrote, and whether it lived to report it.                    *)

IsStarted(k) == \E i \in DOMAIN log.rows : IsStart(log.rows[i]) /\ log.rows[i].id = k

IsCompleted(k) == \E i \in DOMAIN log.rows : IsCompletion(log.rows[i]) /\ log.rows[i].id = k

(* Run k is under way, or has its record.                                  *)
IsLive(k) == IsCompleted(k) \/ \E c \in Collectors : run[c].id = k

(* What a collector under way finds of its own run in the log.             *)
LEMMA OwnEntries ==
    ASSUME Typed, Orderly, NEW c \in Collectors, pc[c] \notin Waiting
    PROVE  /\ ~IsCompleted(run[c].id)
           /\ pc[c] \notin Unlogged => IsStarted(run[c].id)
<1>1. RunSound(c)
  BY DEF Orderly
<1>2. \A i \in DOMAIN log.rows : ~(IsStart(log.rows[i]) /\ IsCompletion(log.rows[i]))
  BY DEF IsStart, IsCompletion
<1>3. CASE pc[c] \in Unlogged
  BY <1>1, <1>3 DEF RunSound, IsNew, IsCompleted
<1>4. CASE pc[c] \notin Unlogged
  <2>1. IsBegun(c)
    BY <1>1, <1>4 DEF RunSound
  <2>2. QED
    BY <1>2, <2>1, <1>4 DEF IsBegun, IsCompleted, IsStarted
<1>5. QED
  BY <1>3, <1>4

(* The log grows.                                                          *)
LEMMA LogGrows ==
    ASSUME Typed, TornLogWaits, [Next]_vars
    PROVE  /\ \A i \in DOMAIN log.rows : i \in DOMAIN log'.rows /\ log'.rows[i] = log.rows[i]
           /\ \A i \in DOMAIN log'.rows :
                 \/ i \in DOMAIN log.rows /\ log'.rows[i] = log.rows[i]
                 \/ \E c \in Collectors : \/ Begins(c) /\ log'.rows[i] = StartEntry(c)
                                          \/ Reports(c) /\ log'.rows[i] = RecordEntry(c)
<1>1. log.rows \in Seq(LogRows)
  BY DEF Typed, WorldOK, FilesOK, File
<1>2. ASSUME NEW row, log'.rows = Append(log.rows, row)
      PROVE  /\ \A i \in DOMAIN log.rows : i \in DOMAIN log'.rows /\ log'.rows[i] = log.rows[i]
             /\ \A i \in DOMAIN log'.rows :
                   (i \in DOMAIN log.rows /\ log'.rows[i] = log.rows[i]) \/ log'.rows[i] = row
  BY <1>1, <1>2
<1>3. CASE log'.rows = log.rows
  BY <1>3
<1>4. ASSUME NEW c \in Collectors, Begins(c)
      PROVE  /\ \A i \in DOMAIN log.rows : i \in DOMAIN log'.rows /\ log'.rows[i] = log.rows[i]
             /\ \A i \in DOMAIN log'.rows :
                   (i \in DOMAIN log.rows /\ log'.rows[i] = log.rows[i]) \/ log'.rows[i] = StartEntry(c)
  BY <1>2, <1>4 DEF Begins
<1>5. ASSUME NEW c \in Collectors, Reports(c)
      PROVE  /\ \A i \in DOMAIN log.rows : i \in DOMAIN log'.rows /\ log'.rows[i] = log.rows[i]
             /\ \A i \in DOMAIN log'.rows :
                   (i \in DOMAIN log.rows /\ log'.rows[i] = log.rows[i]) \/ log'.rows[i] = RecordEntry(c)
  BY <1>2, <1>5 DEF Reports
<1>6. QED
  BY <1>3, <1>4, <1>5, LogStep

(* A run keeps its start and its record, and gains a record only from the  *)
(* collector that is at it.                                                *)
LEMMA StandingEntries ==
    ASSUME Typed, TornLogWaits, [Next]_vars, NEW k
    PROVE  /\ IsStarted(k) => IsStarted(k)'
           /\ IsCompleted(k)' => IsCompleted(k) \/ \E c \in Collectors : Reports(c) /\ run[c].id = k
<1>1. IsStarted(k) => IsStarted(k)'
  BY LogGrows DEF IsStarted
<1>2. ASSUME IsCompleted(k)', ~IsCompleted(k)
      PROVE  \E c \in Collectors : Reports(c) /\ run[c].id = k
  <2>1. PICK i \in DOMAIN log'.rows : IsCompletion(log'.rows[i]) /\ log'.rows[i].id = k
    BY <1>2 DEF IsCompleted
  <2>2. ~(i \in DOMAIN log.rows /\ log'.rows[i] = log.rows[i])
    BY <1>2, <2>1 DEF IsCompleted
  <2>3. \A c \in Collectors : ~IsCompletion(StartEntry(c)) /\ RecordEntry(c).id = run[c].id
    BY DEF StartEntry, RecordEntry, IsCompletion
  <2>4. QED
    BY <2>1, <2>2, <2>3, LogGrows
<1>3. QED
  BY <1>1, <1>2

(* An id that a collector has after a step is one it had, or a new one.    *)
LEMMA IdStep ==
    ASSUME Typed, [Next]_vars, NEW c \in Collectors, NEW k \in RunIds, run'[c].id = k
    PROVE  \/ run[c].id = k /\ pc[c] \notin Waiting /\ ~Ends(c)
           \/ TakeLock(c) /\ k = runs + 1
<1>1. 0 \notin RunIds
  BY Bounds DEF RunIds
<1>2. run[c].id = k => pc[c] \notin Waiting
  BY <1>1, IdIsUnderWay
<1>3. ASSUME Ends(c) PROVE FALSE
  BY <1>1, <1>3, NoRunType DEF Ends, NoRun
<1>4. CASE Stands(c) \/ GoesOn(c)
  BY <1>2, <1>3, <1>4 DEF Stands, GoesOn
<1>5. ASSUME NEW r, Enters(c, r) PROVE run[c].id = k
  BY <1>5, EntersFields
<1>6. CASE TakeLock(c)
  BY <1>6, TakeLockFields
<1>7. QED
  BY <1>2, <1>3, <1>4, <1>5, <1>6, RunStep

(* A run that lives after a step lived before it, and its collector has    *)
(* not ended it but to report it.                                          *)
LEMMA LivesOn ==
    ASSUME Typed, TornLogWaits, Orderly, [Next]_vars, NEW k \in RunIds, k <= runs, IsLive(k)'
    PROVE  /\ IsLive(k)
           /\ \A c \in Collectors : run[c].id = k =>
                 \/ Reports(c)
                 \/ /\ run'[c].id = k /\ pc[c] \notin Waiting
                    /\ Stands(c) \/ GoesOn(c) \/ \E r : Enters(c, r)
<1>1. k # runs + 1
  BY Bounds DEF Typed, WorldOK, RunIds
<1>2. ASSUME NEW d \in Collectors, run'[d].id = k PROVE run[d].id = k /\ pc[d] \notin Waiting /\ ~Ends(d)
  BY <1>1, <1>2, IdStep
<1>3. IsLive(k)
  BY <1>2, StandingEntries DEF IsLive
<1>4. ASSUME NEW c \in Collectors, run[c].id = k
      PROVE  \/ Reports(c)
             \/ /\ run'[c].id = k /\ pc[c] \notin Waiting
                /\ Stands(c) \/ GoesOn(c) \/ \E r : Enters(c, r)
  <2>1. pc[c] \notin Waiting
    BY <1>4, IdIsUnderWay, Bounds DEF RunIds
  <2>2. ~IsCompleted(k)
    BY <1>4, <2>1, OwnEntries
  <2>3. ASSUME NEW d \in Collectors, run[d].id = k, pc[d] \notin Waiting PROVE d = c
    BY <2>1, <2>3, OneAtATime
  <2>4. CASE \E d \in Collectors : Reports(d) /\ run[d].id = k
    BY <2>3, <2>4, IdIsUnderWay DEF Reports, Ends
  <2>5. CASE \E d \in Collectors : run'[d].id = k
    <3>1. run'[c].id = k /\ ~Ends(c)
      BY <1>2, <2>3, <2>5
    <3>2. ~TakeLock(c)
      BY <2>1 DEF TakeLock, Waiting
    <3>3. QED
      BY <2>1, <3>1, <3>2, RunStep
  <2>6. QED
    BY <2>2, <2>4, <2>5, StandingEntries DEF IsLive
<1>5. QED
  BY <1>3, <1>4

(* What a run visited it still has visited, while it lives.                *)
LEMMA VisitsStand ==
    ASSUME Typed, TornLogWaits, Orderly, [Next]_vars, NEW k \in RunIds, k <= runs, IsLive(k)',
           NEW r, Visited(k, r)
    PROVE  Visited(k, r)'
<1>1. CASE IsRecorded(k, r)
  BY <1>1, LogGrows DEF Visited, IsRecorded
<1>2. CASE IsHeld(k, r)
  <2>1. PICK c \in Collectors : run[c].id = k /\ IsIn(run[c].symbols, r)
    BY <1>2 DEF IsHeld
  <2>2. CASE run'[c].id = k /\ (Stands(c) \/ GoesOn(c))
    BY <2>1, <2>2 DEF Stands, GoesOn, Visited, IsHeld
  <2>3. ASSUME NEW q, Enters(c, q), run'[c].id = k PROVE Visited(k, r)'
    <3>1. run'[c].symbols = Append(run[c].symbols, q) /\ run[c].symbols \in Seq(SymbolRuns)
      BY <2>3, EntersFields DEF Typed, RunsOK, RunStates
    <3>2. IsIn(run'[c].symbols, r)
      BY <2>1, <3>1 DEF IsIn
    <3>3. QED
      BY <2>3, <3>2 DEF Visited, IsHeld
  <2>4. CASE Reports(c)
    <3>1. log'.rows = Append(log.rows, RecordEntry(c)) /\ log.rows \in Seq(LogRows) /\ IsRecording(c)
      BY <2>4 DEF Reports, Typed, WorldOK, FilesOK, File
    <3>2. PICK entry : entry = RecordEntry(c)
      OBVIOUS
    <3>3. /\ Len(log.rows) + 1 \in DOMAIN log'.rows /\ log'.rows[Len(log.rows) + 1] = entry
      BY <3>1, <3>2
    <3>4. entry.id = k /\ IsIn(entry.symbols, r)
      BY <2>1, <3>2 DEF RecordEntry
    <3>5. pc[c] # "recording"
      <4>1. pc[c] = "recording" => run[c].symbols = <<>>
        BY DEF Typed, RunsOK, Stage
      <4>2. QED
        BY <2>1, <4>1 DEF IsIn
    <3>6. run[c].status = "completed"
      BY <3>1, <3>5 DEF IsRecording, Typed, RunsOK, Stage, Waiting
    <3>7. IsCompletion(entry)
      BY <3>2, <3>6 DEF RecordEntry, IsCompletion
    <3>8. QED
      BY <3>3, <3>4, <3>7 DEF Visited, IsRecorded
  <2>5. QED
    BY <2>1, <2>2, <2>3, <2>4, LivesOn
<1>3. QED
  BY <1>1, <1>2 DEF Visited

(* A run visits no symbol twice.                                           *)
LEMMA OneVisit ==
    ASSUME Typed, Orderly, NEW k \in RunIds, NEW r, NEW q, Visited(k, r), Visited(k, q), r.symbol = q.symbol
    PROVE  r = q
<1>1. ASSUME NEW visits, Len(visits) <= Len(Universe), visits \in Seq(SymbolRuns), InOrder(visits),
             IsIn(visits, r), IsIn(visits, q)
      PROVE  r = q
  <2>1. PICK n \in DOMAIN visits : visits[n] = r
    BY <1>1 DEF IsIn
  <2>2. PICK m \in DOMAIN visits : visits[m] = q
    BY <1>1 DEF IsIn
  <2>3. Universe[n] = Universe[m] /\ n \in DOMAIN Universe /\ m \in DOMAIN Universe
    BY <1>1, <2>1, <2>2, UniverseProperty DEF InOrder
  <2>4. n = m
    BY <2>3, PolicyAssumption
  <2>5. QED
    BY <2>1, <2>2, <2>4
<1>2. log.rows \in Seq(LogRows) /\ LogSound /\ \A c \in Collectors : RunSound(c) /\ Stage(c) /\ run[c] \in RunStates
  BY DEF Typed, WorldOK, RunsOK, FilesOK, File, Orderly
<1>3. 0 \notin RunIds
  BY Bounds DEF RunIds
<1>4. ASSUME IsRecorded(k, r), IsRecorded(k, q) PROVE r = q
  <2>1. PICK i \in DOMAIN log.rows :
            IsCompletion(log.rows[i]) /\ log.rows[i].id = k /\ IsIn(log.rows[i].symbols, r)
    BY <1>4 DEF IsRecorded
  <2>2. PICK j \in DOMAIN log.rows :
            IsCompletion(log.rows[j]) /\ log.rows[j].id = k /\ IsIn(log.rows[j].symbols, q)
    BY <1>4 DEF IsRecorded
  <2>3. ~(i < j) /\ ~(j < i)
    BY <1>2, <2>1, <2>2 DEF LogSound, IsSecond, IsStart, IsCompletion
  <2>4. i = j
    BY <1>2, <2>3
  <2>5. log.rows[i] \in Records
    BY <1>2, <2>1 DEF LogRows, Starts, IsCompletion
  <2>6. Len(log.rows[i].symbols) = Len(Universe) /\ log.rows[i].symbols \in Seq(SymbolRuns)
    BY <2>1, <2>5 DEF Records, IsCompletion
  <2>7. InOrder(log.rows[i].symbols) /\ Len(log.rows[i].symbols) <= Len(Universe)
    BY <1>2, <2>6, UniverseProperty DEF LogSound
  <2>8. QED
    BY <1>1, <2>1, <2>2, <2>4, <2>6, <2>7
<1>5. ASSUME IsHeld(k, r), IsHeld(k, q) PROVE r = q
  <2>1. PICK c \in Collectors : run[c].id = k /\ IsIn(run[c].symbols, r)
    BY <1>5 DEF IsHeld
  <2>2. PICK d \in Collectors : run[d].id = k /\ IsIn(run[d].symbols, q)
    BY <1>5 DEF IsHeld
  <2>3. c = d
    BY <1>3, <2>1, <2>2, IdIsUnderWay, OneAtATime
  <2>4. InOrder(run[c].symbols) /\ Len(run[c].symbols) <= Len(Universe) /\ run[c].symbols \in Seq(SymbolRuns)
    BY <1>2 DEF RunSound, Stage, RunStates
  <2>5. QED
    BY <1>1, <2>1, <2>2, <2>3, <2>4
<1>6. ASSUME NEW a, NEW b, IsRecorded(k, a), IsHeld(k, b) PROVE FALSE
  BY <1>3, <1>6, IdIsUnderWay, OwnEntries DEF IsRecorded, IsHeld, IsCompleted
<1>7. QED
  BY <1>4, <1>5, <1>6 DEF Visited

(* The symbol at hand is none that was visited.                            *)
LEMMA NotYetVisited ==
    ASSUME Typed, Orderly, NEW c \in Collectors, pc[c] \notin Waiting, HasSymbol(c), NEW r, Visited(run[c].id, r)
    PROVE  r.symbol # Symbol(c) /\ IsIn(run[c].symbols, r)
<1>1. RunSound(c) /\ Stage(c) /\ run[c] \in RunStates
  BY DEF Typed, RunsOK, Orderly
<1>2. ~IsRecorded(run[c].id, r)
  BY OwnEntries DEF IsRecorded, IsCompleted
<1>3. PICK d \in Collectors : run[d].id = run[c].id /\ IsIn(run[d].symbols, r)
  BY <1>2 DEF Visited, IsHeld
<1>4. run[c].id \in 1 .. MaxRuns
  BY IdIsUnderWay
<1>5. d = c
  <2>1. pc[d] \notin Waiting
    BY <1>3, <1>4, Bounds, IdIsUnderWay
  <2>2. QED
    BY <2>1, OneAtATime
<1>6. PICK n \in DOMAIN run[c].symbols : run[c].symbols[n] = r
  BY <1>3, <1>5 DEF IsIn
<1>7. /\ r.symbol = Universe[n] /\ n \in DOMAIN Universe /\ n # Len(run[c].symbols) + 1
      /\ Len(run[c].symbols) + 1 \in DOMAIN Universe
  BY <1>1, <1>6, UniverseProperty DEF RunSound, InOrder, Stage, RunStates, HasSymbol
<1>8. QED
  BY <1>3, <1>5, <1>7, PolicyAssumption DEF Symbol

(* In the middle of a refresh a run that lives on stays in it, with the    *)
(* same answer, or enters what became of the symbol.                       *)
LEMMA HandStep ==
    ASSUME Typed, TornLogWaits, Orderly, [Next]_vars, NEW c \in Collectors,
           pc[c] \in {"registering", "measuring"}, NEW k, run[c].id = k, IsLive(k)'
    PROVE  \/ KeepsAnswer(c)
           \/ \E r : Enters(c, r) /\ r.class \in {"exact", "raised"} /\ r.tail = run[c].tail
<1>1. pc[c] \notin Waiting
  BY DEF Waiting
<1>2. k \in RunIds /\ k <= runs
  BY <1>1, IdIsUnderWay, Bounds DEF RunIds, Typed, WorldOK
<1>3. Reports(c) \/ Stands(c) \/ GoesOn(c) \/ \E r : Enters(c, r)
  BY <1>2, LivesOn
<1>4. CASE Reports(c)
  BY <1>4 DEF Reports, IsRecording
<1>5. CASE Stands(c)
  BY <1>1, <1>5 DEF Stands, KeepsAnswer
<1>6. CASE GoesOn(c)
  <2>1. RegisterClaim(c) \/ (ReadOutcomes(c) /\ ~Raised(c)) \/ WriteOutcome(c)
    BY <1>6 DEF GoesOn, Decide, AppendStart, Visit, BuildSnapshot, BeginRefresh
  <2>2. QED
    BY <2>1, MidRefresh
<1>7. ASSUME NEW r, Enters(c, r) PROVE r.class \in {"exact", "raised"} /\ r.tail = run[c].tail
  BY <1>7 DEF Enters
<1>8. QED
  BY <1>3, <1>4, <1>5, <1>6, <1>7

(* Who writes a claim of a run's: its collector, by registering it, or in  *)
(* a refresh or a life that the append ends.                               *)
LEMMA ClaimWriter ==
    ASSUME Typed, [Next]_vars, NEW s \in Symbols, NEW claim \in RowSet(claims'[s]),
           claim \notin RowSet(claims[s]), claim.by # Foreign
    PROVE  \E c \in Collectors :
              /\ pc[c] = "registering" /\ Unheld(c) # {} /\ s = Symbol(c) /\ claim = NextClaim(c)
              /\ claim.by = run[c].id /\ claim.recorded_at = run[c].built_at /\ claim.timestamp = run[c].tail
              /\ claim.key \notin Keys(claims[s])
              /\ RegisterClaim(c) \/ RefreshFails(c) \/ Crash(c)
<1>1. /\ claim.key \notin Keys(claims[s])
      /\ \E c \in Collectors :
            /\ pc[c] = "registering" /\ Unheld(c) # {} /\ s = Symbol(c) /\ claim = NextClaim(c)
            /\ claim.by = run[c].id /\ claim.recorded_at = run[c].built_at /\ claim.timestamp = run[c].tail
  BY ClaimOrigin
<1>2. PICK c \in Collectors :
            /\ pc[c] = "registering" /\ Unheld(c) # {} /\ s = Symbol(c) /\ claim = NextClaim(c)
            /\ claim.by = run[c].id /\ claim.recorded_at = run[c].built_at /\ claim.timestamp = run[c].tail
  BY <1>1
<1>3. claims' # claims
  OBVIOUS
<1>4. ASSUME NEW t \in Symbols, ForeignClaim(t) PROVE FALSE
  <2>0. PICK p \in Producers, d \in SettledDays(now) :
            \E file \in CutShort(claims[t], ClaimRow(t, p, d, now, Foreign)) : claims' = [claims EXCEPT ![t] = file]
    BY <1>4 DEF ForeignClaim
  <2>1. PICK f \in CutShort(claims[t], ClaimRow(t, p, d, now, Foreign)) : claims' = [claims EXCEPT ![t] = f]
    BY <2>0
  <2>2. PICK row : row = ClaimRow(t, p, d, now, Foreign)
    OBVIOUS
  <2>3. claims \in [Symbols -> File(Claims)] /\ now \in Ticks /\ d \in Days /\ Foreign \in 0 .. MaxRuns
    BY <2>0, Bounds DEF Typed, WorldOK, FilesOK, SettledDays, Foreign
  <2>4. row \in Claims /\ row.by = Foreign
    BY <2>0, <2>2, <2>3 DEF ClaimRow, Claims
  <2>5. RowSet(f) \subseteq RowSet(claims[t]) \cup {row}
    BY <2>1, <2>2, <2>3, <2>4, CutShortProperties
  <2>6. QED
    BY <2>1, <2>3, <2>4, <2>5
<1>5. ASSUME NEW e \in Collectors, Step(e), ~RegisterClaim(e) PROVE FALSE
  BY <1>3, <1>5 DEF ledger, Step, Collect, TakeLock, GiveUp, LogIsCorrupt, Decide, Decided, AppendStart, Visit,
     BuildSnapshot, SnapshotUnusable, LedgerIsCorrupt, TailIsStale, BeginRefresh, RegisterRaises, ReadOutcomes,
     WriteOutcome, MeasureRaises, FinishSymbol, AppendRecord
<1>6. \E e \in Collectors : RegisterClaim(e) \/ RefreshFails(e) \/ Crash(e)
  BY <1>3, <1>4, <1>5 DEF Next, Move, vars, ledger, Activation, BeginActivation, WriteManifest, ActivationFails,
     BeginHealth, EndHealth, Tick, StepClockBack, ForeignOutcome
<1>7. PICK e \in Collectors : RegisterClaim(e) \/ RefreshFails(e) \/ Crash(e)
  BY <1>6
<1>8. pc[e] \notin Waiting
  BY <1>7 DEF RegisterClaim, RefreshFails, Crash, Waiting, Typed, RunsOK
<1>9. e = c
  BY <1>2, <1>8, OneAtATime DEF Waiting
<1>10. QED
  BY <1>1, <1>2, <1>7, <1>9

(* Who writes an outcome of a run's.                                       *)
LEMMA OutcomeWriter ==
    ASSUME Typed, [Next]_vars, NEW s \in Symbols, NEW o \in RowSet(outcomes'[s]),
           o \notin RowSet(outcomes[s]), o.by # Foreign
    PROVE  \E c \in Collectors :
              /\ pc[c] = "measuring" /\ Items(c) # {} /\ CanWriteOutcome(c)
              /\ s = Symbol(c) /\ o = NextOutcome(c)
              /\ o.by = run[c].id /\ o.evaluated_at = run[c].built_at
              /\ o.key \notin Keys(outcomes[s])
              /\ WriteOutcome(c) \/ RefreshFails(c) \/ Crash(c)
<1>1. /\ o.key \notin Keys(outcomes[s])
      /\ \E c \in Collectors :
            /\ pc[c] = "measuring" /\ Items(c) # {} /\ CanWriteOutcome(c)
            /\ s = Symbol(c) /\ o = NextOutcome(c)
            /\ o.by = run[c].id /\ o.evaluated_at = run[c].built_at
  BY OutcomeOrigin
<1>2. PICK c \in Collectors :
            /\ pc[c] = "measuring" /\ Items(c) # {} /\ CanWriteOutcome(c)
            /\ s = Symbol(c) /\ o = NextOutcome(c)
            /\ o.by = run[c].id /\ o.evaluated_at = run[c].built_at
  BY <1>1
<1>3. outcomes' # outcomes
  OBVIOUS
<1>4. ASSUME NEW t \in Symbols, ForeignOutcome(t) PROVE FALSE
  <2>0. PICK claim \in RowSet(claims[t]) :
            \E file \in CutShort(outcomes[t], OutcomeRow(claim, now, Foreign)) :
                outcomes' = [outcomes EXCEPT ![t] = file]
    BY <1>4 DEF ForeignOutcome
  <2>1. PICK f \in CutShort(outcomes[t], OutcomeRow(claim, now, Foreign)) : outcomes' = [outcomes EXCEPT ![t] = f]
    BY <2>0
  <2>2. PICK row, t0 : t0 = now /\ row = OutcomeRow(claim, t0, Foreign)
    OBVIOUS
  <2>3. outcomes \in [Symbols -> File(Outcomes)] /\ t0 \in Ticks /\ claim \in Claims /\ Foreign \in 0 .. MaxRuns
    BY <2>0, <2>2, Bounds, RowSetType DEF Typed, WorldOK, FilesOK, Foreign
  <2>4. ASSUME NEW one \in {1}, NEW writer \in 0 .. MaxRuns
        PROVE  [symbol |-> claim.symbol, key |-> <<claim.key, one>>, claim |-> claim.key,
                evaluated_at |-> t0, by |-> writer] \in Outcomes
    BY <2>3, <2>4 DEF Claims, Outcomes, OutcomeKeys
  <2>5. row \in Outcomes /\ row.by = Foreign
    BY <2>2, <2>3, <2>4 DEF OutcomeRow
  <2>6. RowSet(f) \subseteq RowSet(outcomes[t]) \cup {row}
    BY <1>4, <2>1, <2>2, <2>3, <2>5, CutShortProperties
  <2>7. QED
    BY <2>1, <2>3, <2>5, <2>6
<1>5. ASSUME NEW e \in Collectors, Step(e), ~WriteOutcome(e) PROVE FALSE
  BY <1>3, <1>5 DEF ledger, Step, Collect, TakeLock, GiveUp, LogIsCorrupt, Decide, Decided, AppendStart, Visit,
     BuildSnapshot, SnapshotUnusable, LedgerIsCorrupt, TailIsStale, BeginRefresh, RegisterClaim, RegisterRaises,
     ReadOutcomes, MeasureRaises, FinishSymbol, AppendRecord
<1>6. \E e \in Collectors : WriteOutcome(e) \/ RefreshFails(e) \/ Crash(e)
  BY <1>3, <1>4, <1>5 DEF Next, Move, vars, ledger, Activation, BeginActivation, WriteManifest, ActivationFails,
     BeginHealth, EndHealth, Tick, StepClockBack, ForeignClaim
<1>7. PICK e \in Collectors : WriteOutcome(e) \/ RefreshFails(e) \/ Crash(e)
  BY <1>6
<1>8. pc[e] \notin Waiting
  BY <1>7 DEF WriteOutcome, RefreshFails, Crash, Waiting, Typed, RunsOK
<1>9. e = c
  BY <1>2, <1>8, OneAtATime DEF Waiting
<1>10. QED
  BY <1>1, <1>2, <1>7, <1>9

(* A refresh was reached with a clock.                                     *)
VisitsDated ==
    \A k \in RunIds, r \in SymbolRuns :
        (Visited(k, r) /\ r.class \in {"exact", "raised"}) => r.built_at \in Ticks

LEMMA VisitsDatedStep ==
    ASSUME Typed, TornLogWaits, VisitsDated, [Next]_vars
    PROVE  VisitsDated'
<1> SUFFICES ASSUME NEW k \in RunIds, NEW r \in SymbolRuns, Visited(k, r)', r.class \in {"exact", "raised"}
             PROVE  r.built_at \in Ticks
  BY DEF VisitsDated
<1>1. CASE Visited(k, r)
  BY <1>1 DEF VisitsDated
<1>2. ASSUME NEW c \in Collectors, Enters(c, r) PROVE r.built_at \in Ticks
  <2>1. pc[c] \in {"fetching", "registering", "measuring"} /\ r.built_at = run[c].built_at
    BY <1>2 DEF Enters
  <2>2. Stage(c)
    BY DEF Typed, RunsOK
  <2>3. QED
    BY <2>1, <2>2 DEF Stage
<1>3. QED
  BY <1>1, <1>2, VisitsStep

(* What was written about symbol s at time t was written by a refresh.     *)
Wrote(r, s, t) == r.class \in {"exact", "raised"} /\ r.symbol = s /\ r.built_at = t

AtHand(c, k, s, t) ==
    pc[c] \in {"registering", "measuring"} /\ run[c].id = k /\ Symbol(c) = s /\ run[c].built_at = t

(* A row of a run's carries the clock of the symbol-run that wrote it, a   *)
(* claim its tail, too, as long as the run is not cut short.               *)
IsTied(s, claim) ==
    /\ IsStarted(claim.by)
    /\ IsLive(claim.by) =>
          \/ \E r \in SymbolRuns : /\ Visited(claim.by, r) /\ Wrote(r, s, claim.recorded_at)
                                   /\ r.tail = claim.timestamp
          \/ \E c \in Collectors : /\ AtHand(c, claim.by, s, claim.recorded_at)
                                   /\ run[c].tail = claim.timestamp

IsTiedOutcome(s, o) ==
    /\ IsStarted(o.by) /\ InWindow(o.evaluated_at)
    /\ IsLive(o.by) =>
          \/ \E r \in SymbolRuns : Visited(o.by, r) /\ Wrote(r, s, o.evaluated_at)
          \/ \E c \in Collectors : AtHand(c, o.by, s, o.evaluated_at)

(* An outcome is younger than its claim.                                   *)
IsYounger(s, o) ==
    \E claim \in RowSet(claims[s]) : claim.key = o.claim /\ claim.recorded_at < o.evaluated_at

ClaimsTied   == \A s \in Symbols : \A claim \in RowSet(claims[s]) : claim.by # Foreign => IsTied(s, claim)
OutcomesTied == \A s \in Symbols : \A o \in RowSet(outcomes[s]) : o.by # Foreign => IsTiedOutcome(s, o)
Younger      == \A s \in Symbols : \A o \in RowSet(outcomes[s]) : IsYounger(s, o)

(* Of a run that has started the number is one that was given.             *)
LEMMA StartedId ==
    ASSUME Typed, NEW k, IsStarted(k)
    PROVE  k \in RunIds /\ k <= runs
<1>1. PICK i \in DOMAIN log.rows : log.rows[i].id = k
  BY DEF IsStarted
<1>2. log.rows[i] \in LogRows /\ log.rows[i].id <= runs
  BY DEF Typed, WorldOK, FilesOK, File
<1>3. log.rows[i].id \in 1 .. MaxRuns
  BY <1>2 DEF LogRows, Starts, Records
<1>4. QED
  BY <1>1, <1>2, <1>3 DEF RunIds

(* What is at hand is at hand still, or was visited, while the run lives.  *)
LEMMA HandTied ==
    ASSUME Typed, TornLogWaits, Orderly, [Next]_vars, NEW c \in Collectors, NEW k, NEW s, NEW t,
           AtHand(c, k, s, t), IsLive(k)'
    PROVE  \/ \E r \in SymbolRuns : Visited(k, r)' /\ Wrote(r, s, t) /\ r.tail = run[c].tail
           \/ AtHand(c, k, s, t)' /\ run'[c].tail = run[c].tail
<1>1. KeepsAnswer(c) \/ \E r : Enters(c, r) /\ r.class \in {"exact", "raised"} /\ r.tail = run[c].tail
  BY HandStep DEF AtHand
<1>2. CASE KeepsAnswer(c)
  <2>1. Symbol(c)' = s
    BY <1>2 DEF KeepsAnswer, AtHand, Symbol
  <2>2. QED
    BY <1>2, <2>1 DEF KeepsAnswer, AtHand
<1>3. ASSUME NEW r, Enters(c, r), r.class \in {"exact", "raised"}, r.tail = run[c].tail
      PROVE  r \in SymbolRuns /\ Visited(k, r)' /\ Wrote(r, s, t)
  <2>1. r \in SymbolRuns /\ r.symbol = s /\ r.built_at = t
    BY <1>3 DEF Enters, AtHand
  <2>2. run'[c].id = k /\ run'[c].symbols = Append(run[c].symbols, r) /\ run[c].symbols \in Seq(SymbolRuns)
    BY <1>3, EntersFields DEF AtHand, Typed, RunsOK, RunStates
  <2>3. IsIn(run'[c].symbols, r)
    BY <2>1, <2>2 DEF IsIn
  <2>4. QED
    BY <1>3, <2>1, <2>2, <2>3 DEF Visited, IsHeld, Wrote
<1>4. QED
  BY <1>1, <1>2, <1>3

LEMMA ClaimsTiedStep ==
    ASSUME Typed, TornLogWaits, Orderly, ClaimsTied, [Next]_vars
    PROVE  ClaimsTied'
<1> SUFFICES ASSUME NEW s \in Symbols, NEW x \in RowSet(claims'[s]), x.by # Foreign
             PROVE  IsTied(s, x)'
  BY DEF ClaimsTied
<1>1. PICK k, t, tail : k = x.by /\ t = x.recorded_at /\ tail = x.timestamp
  OBVIOUS
<1>2. CASE x \in RowSet(claims[s])
  <2>1. IsTied(s, x)
    BY <1>2 DEF ClaimsTied
  <2>2. k \in RunIds /\ k <= runs /\ IsStarted(k)'
    BY <1>1, <2>1, StartedId, StandingEntries DEF IsTied
  <2>3. ASSUME IsLive(k)', NEW r \in SymbolRuns, Visited(k, r) PROVE Visited(k, r)'
    BY <2>2, <2>3, VisitsStand
  <2>4. ASSUME IsLive(k)' PROVE IsLive(k)
    BY <2>2, <2>4, LivesOn
  <2>5. QED
    BY <1>1, <2>1, <2>2, <2>3, <2>4, HandTied DEF IsTied
<1>3. CASE x \notin RowSet(claims[s])
  <2>1. PICK c \in Collectors : /\ pc[c] = "registering" /\ s = Symbol(c) /\ run[c].id = k
                                /\ run[c].built_at = t /\ run[c].tail = tail
    BY <1>1, <1>3, ClaimWriter
  <2>2. IsStarted(k) /\ AtHand(c, k, s, t)
    BY <2>1, OwnEntries DEF AtHand, Waiting, Unlogged
  <2>3. IsStarted(k)'
    BY <2>2, StandingEntries
  <2>4. QED
    BY <1>1, <2>1, <2>2, <2>3, HandTied DEF IsTied
<1>4. QED
  BY <1>2, <1>3

LEMMA OutcomesTiedStep ==
    ASSUME Typed, TornLogWaits, Orderly, OutcomesTied, [Next]_vars
    PROVE  OutcomesTied'
<1> SUFFICES ASSUME NEW s \in Symbols, NEW x \in RowSet(outcomes'[s]), x.by # Foreign
             PROVE  IsTiedOutcome(s, x)'
  BY DEF OutcomesTied
<1>1. PICK k, t : k = x.by /\ t = x.evaluated_at
  OBVIOUS
<1>2. CASE x \in RowSet(outcomes[s])
  <2>1. IsTiedOutcome(s, x)
    BY <1>2 DEF OutcomesTied
  <2>2. k \in RunIds /\ k <= runs /\ IsStarted(k)'
    BY <1>1, <2>1, StartedId, StandingEntries DEF IsTiedOutcome
  <2>3. ASSUME IsLive(k)', NEW r \in SymbolRuns, Visited(k, r) PROVE Visited(k, r)'
    BY <2>2, <2>3, VisitsStand
  <2>4. ASSUME IsLive(k)' PROVE IsLive(k)
    BY <2>2, <2>4, LivesOn
  <2>5. QED
    BY <1>1, <2>1, <2>2, <2>3, <2>4, HandTied DEF IsTiedOutcome
<1>3. CASE x \notin RowSet(outcomes[s])
  <2>1. PICK c \in Collectors : pc[c] = "measuring" /\ s = Symbol(c) /\ run[c].id = k /\ run[c].built_at = t
    BY <1>1, <1>3, OutcomeWriter
  <2>2. IsStarted(k) /\ AtHand(c, k, s, t)
    BY <2>1, OwnEntries DEF AtHand, Waiting, Unlogged
  <2>3. IsStarted(k)'
    BY <2>2, StandingEntries
  <2>4. InWindow(t)
    BY <2>1 DEF Orderly, RunSound
  <2>5. QED
    BY <1>1, <2>1, <2>2, <2>3, <2>4, HandTied DEF IsTiedOutcome
<1>4. QED
  BY <1>2, <1>3

(* A claim that a refresh finds with its own clock is one it wrote itself, *)
(* about its own tail.                                                     *)
LEMMA OwnClock ==
    ASSUME Typed, Orderly, ReadingsApart, ClaimsTied, NEW c \in Collectors,
           pc[c] \in {"registering", "measuring"}, NEW claim \in RowSet(claims[Symbol(c)]),
           claim.recorded_at = run[c].built_at
    PROVE  claim.by = run[c].id /\ claim.timestamp = run[c].tail
<1>1. PICK k, t, s : k = run[c].id /\ t = run[c].built_at /\ s = Symbol(c)
  OBVIOUS
<1>2. pc[c] \notin Waiting /\ Stage(c)
  BY DEF Waiting, Typed, RunsOK
<1>3. k \in RunIds /\ k # Foreign /\ t \in Ticks /\ HasSymbol(c)
  BY <1>1, <1>2, IdIsUnderWay, Bounds DEF RunIds, Foreign, Stage
<1>4. s \in Symbols
  BY <1>1, <1>3, SymbolType DEF Typed, RunsOK
<1>5. claim.by = k
  <2>1. Took(k, t)
    BY <1>1 DEF Took
  <2>2. claim \in AllClaims
    BY <1>1, <1>4 DEF AllClaims
  <2>3. QED
    BY <1>1, <1>3, <2>1, <2>2 DEF ReadingsApart
<1>6. IsTied(s, claim) /\ IsLive(k)
  BY <1>1, <1>3, <1>4, <1>5 DEF ClaimsTied, IsLive
<1>7. ASSUME NEW r \in SymbolRuns, Visited(k, r), r.symbol = s PROVE FALSE
  BY <1>1, <1>2, <1>3, <1>7, NotYetVisited
<1>8. ASSUME NEW d \in Collectors, AtHand(d, k, s, t), run[d].tail = claim.timestamp PROVE claim.timestamp = run[c].tail
  <2>1. pc[d] \notin Waiting
    BY <1>8 DEF AtHand, Waiting
  <2>2. d = c
    BY <1>2, <2>1, OneAtATime
  <2>3. QED
    BY <1>8, <2>2
<1>9. QED
  BY <1>1, <1>5, <1>6, <1>7, <1>8 DEF IsTied, Wrote

(* What a refresh measures it measures with later bars than the claim's:   *)
(* its own claims are about the last.                                      *)
LEMMA MeasuredIsOlder ==
    ASSUME Typed, Orderly, ReadingsApart, ClaimsTied, NEW c \in Collectors,
           pc[c] = "measuring", Items(c) # {}, CanWriteOutcome(c), NEW claim, claim = run[c].held[Item(c)]
    PROVE  claim \in RowSet(claims[Symbol(c)]) /\ claim.recorded_at < run[c].built_at
<1>1. claim \in RowSet(claims[Symbol(c)]) /\ ~IsHardError(c, claim)
  BY DEF CanWriteOutcome, IsRegistered, Registered
<1>2. Symbol(c) \in Symbols /\ Item(c) \in Items(c)
  BY NextOutcomeProperty
<1>3. claim \in Claims /\ run[c].built_at \in Ticks /\ run[c].bars \in SUBSET Days /\ run[c].tail \in Days
  BY <1>1, <1>2, RowSetType DEF Typed, WorldOK, FilesOK, RunsOK, RunStates, Stage
<1>4. claim.recorded_at \in Nat /\ run[c].built_at \in Nat /\ ~(run[c].built_at < claim.recorded_at)
  BY <1>1, <1>3, Bounds DEF Claims, IsHardError
<1>5. PICK d \in run[c].bars : d > claim.timestamp
  BY <1>1, <1>2 DEF Items
<1>6. ASSUME claim.recorded_at = run[c].built_at PROVE FALSE
  <2>1. claim.timestamp = run[c].tail
    BY <1>1, <1>6, OwnClock
  <2>2. d <= run[c].tail
    BY DEF Orderly, RunSound
  <2>3. d \in Nat /\ run[c].tail \in Nat
    BY <1>3, Bounds
  <2>4. QED
    BY <1>5, <2>1, <2>2, <2>3
<1>7. \A a, b \in Nat : (~(b < a) /\ a # b) => a < b
  OBVIOUS
<1>8. QED
  BY <1>1, <1>4, <1>6, <1>7, Zenon

LEMMA YoungerStep ==
    ASSUME Typed, Orderly, ReadingsApart, ClaimsTied, Younger, [Next]_vars
    PROVE  Younger'
<1> SUFFICES ASSUME NEW s \in Symbols, NEW o \in RowSet(outcomes'[s])
             PROVE  \E claim \in RowSet(claims'[s]) : claim.key = o.claim /\ claim.recorded_at < o.evaluated_at
  BY DEF Younger, IsYounger
<1>1. RowSet(claims[s]) \subseteq RowSet(claims'[s])
  BY FilesChange, ClaimsGrow
<1>2. CASE o \in RowSet(outcomes[s])
  BY <1>1, <1>2 DEF Younger, IsYounger
<1>3. ASSUME NEW claim \in RowSet(claims[s]), claim.recorded_at < now, o = OutcomeRow(claim, now, Foreign)
      PROVE  claim.key = o.claim /\ claim.recorded_at < o.evaluated_at
  BY <1>3 DEF OutcomeRow
<1>4. ASSUME NEW c \in Collectors, pc[c] = "measuring", Items(c) # {}, CanWriteOutcome(c),
             s = Symbol(c), o = NextOutcome(c)
      PROVE  \E claim \in RowSet(claims[s]) : claim.key = o.claim /\ claim.recorded_at < o.evaluated_at
  <2>1. PICK claim : claim = run[c].held[Item(c)]
    OBVIOUS
  <2>2. claim \in RowSet(claims[s]) /\ claim.recorded_at < run[c].built_at
    BY <1>4, <2>1, MeasuredIsOlder
  <2>3. o.claim = claim.key /\ o.evaluated_at = run[c].built_at
    BY <1>4, <2>1 DEF NextOutcome, OutcomeRow
  <2>4. QED
    BY <2>2, <2>3
<1>5. QED
  BY <1>1, <1>2, <1>3, <1>4, OutcomeOrigin

LEMMA TiedInvariant == Spec => [](ClaimsTied /\ OutcomesTied /\ Younger /\ VisitsDated)
<1>1. Init => ClaimsTied /\ OutcomesTied /\ Younger /\ VisitsDated
  <2> SUFFICES ASSUME Init PROVE ClaimsTied /\ OutcomesTied /\ Younger /\ VisitsDated
    OBVIOUS
  <2>1. \A s \in Symbols : RowSet(claims[s]) = {} /\ RowSet(outcomes[s]) = {}
    BY DEF Init, EmptyFile, RowSet
  <2>2. log.rows = <<>> /\ \A k \in RunIds, c \in Collectors : run[c].id # k
    BY NoRunType DEF Init, EmptyFile, RunIds
  <2>3. VisitsDated
    BY <2>2 DEF VisitsDated, Visited, IsRecorded, IsHeld
  <2>4. QED
    BY <2>1, <2>3 DEF ClaimsTied, OutcomesTied, Younger
<1>2. /\ Typed /\ TornLogWaits /\ Orderly /\ ReadingsApart
      /\ ClaimsTied /\ OutcomesTied /\ Younger /\ VisitsDated /\ [Next]_vars
      => (ClaimsTied /\ OutcomesTied /\ Younger /\ VisitsDated)'
  BY ClaimsTiedStep, OutcomesTiedStep, YoungerStep, VisitsDatedStep
<1>3. QED
  BY <1>1, <1>2, TypedInvariant, TornLogInvariant, OrderlyInvariant, ReadingsInvariant, PTL DEF Spec

-----------------------------------------------------------------------------
(* What a run counted.                                                     *)

ClaimsBy(k, s)   == {claim \in RowSet(claims[s]) : claim.by = k}
OutcomesBy(k, s) == {o \in RowSet(outcomes[s]) : o.by = k}

IsCounted(k, s, new_claims, new_outcomes) ==
    Cardinality(ClaimsBy(k, s)) = new_claims /\ Cardinality(OutcomesBy(k, s)) = new_outcomes

(* A refresh counts what it writes, and one that returned has counted it.  *)
Counted ==
    /\ \A k \in RunIds, r \in SymbolRuns :
          (Visited(k, r) /\ r.class = "exact") => IsCounted(k, r.symbol, r.artifacts_new, r.outcomes_new)
    /\ \A c \in Collectors :
          IF pc[c] \in {"registering", "measuring"}
          THEN IsCounted(run[c].id, Symbol(c), run[c].artifacts_new, run[c].outcomes_new)
          ELSE run[c].outcomes_new = 0

(* What a run has written about a symbol changes only while it is at it.   *)
LEMMA ByStands ==
    ASSUME Typed, [Next]_vars, NEW k \in RunIds, NEW s \in Symbols
    PROVE  /\ \/ ClaimsBy(k, s)' = ClaimsBy(k, s)
              \/ \E c \in Collectors : /\ pc[c] = "registering" /\ run[c].id = k /\ s = Symbol(c)
                                       /\ RegisterClaim(c) \/ RefreshFails(c) \/ Crash(c)
           /\ \/ OutcomesBy(k, s)' = OutcomesBy(k, s)
              \/ \E c \in Collectors : /\ pc[c] = "measuring" /\ run[c].id = k /\ s = Symbol(c)
                                       /\ WriteOutcome(c) \/ RefreshFails(c) \/ Crash(c)
<1>1. RowSet(claims[s]) \subseteq RowSet(claims'[s]) /\ RowSet(outcomes[s]) \subseteq RowSet(outcomes'[s])
  BY FilesChange, ClaimsGrow, OutcomesGrow
<1>2. k # Foreign
  BY Bounds DEF RunIds, Foreign
<1>3. ASSUME NEW claim \in RowSet(claims'[s]), claim \notin RowSet(claims[s]), claim.by = k
      PROVE  \E c \in Collectors : /\ pc[c] = "registering" /\ run[c].id = k /\ s = Symbol(c)
                                   /\ RegisterClaim(c) \/ RefreshFails(c) \/ Crash(c)
  BY <1>2, <1>3, ClaimWriter
<1>4. ASSUME NEW o \in RowSet(outcomes'[s]), o \notin RowSet(outcomes[s]), o.by = k
      PROVE  \E c \in Collectors : /\ pc[c] = "measuring" /\ run[c].id = k /\ s = Symbol(c)
                                   /\ WriteOutcome(c) \/ RefreshFails(c) \/ Crash(c)
  BY <1>2, <1>4, OutcomeWriter
<1>5. \/ ClaimsBy(k, s)' = ClaimsBy(k, s)
      \/ \E claim \in RowSet(claims'[s]) : claim \notin RowSet(claims[s]) /\ claim.by = k
  BY <1>1 DEF ClaimsBy
<1>6. \/ OutcomesBy(k, s)' = OutcomesBy(k, s)
      \/ \E o \in RowSet(outcomes'[s]) : o \notin RowSet(outcomes[s]) /\ o.by = k
  BY <1>1 DEF OutcomesBy
<1>7. QED
  BY <1>3, <1>4, <1>5, <1>6

(* The rows of a run about a symbol are finitely many.                     *)
LEMMA ByFinite ==
    ASSUME Typed, NEW k, NEW s \in Symbols
    PROVE  /\ IsFiniteSet(ClaimsBy(k, s)) /\ Cardinality(ClaimsBy(k, s)) \in Nat
           /\ IsFiniteSet(OutcomesBy(k, s)) /\ Cardinality(OutcomesBy(k, s)) \in Nat
<1>1. claims[s] \in File(Claims) /\ outcomes[s] \in File(Outcomes)
  BY DEF Typed, WorldOK, FilesOK
<1>2. IsFiniteSet(RowSet(claims[s])) /\ IsFiniteSet(RowSet(outcomes[s]))
  BY <1>1, FileSize
<1>3. ClaimsBy(k, s) \in SUBSET RowSet(claims[s]) /\ OutcomesBy(k, s) \in SUBSET RowSet(outcomes[s])
  BY DEF ClaimsBy, OutcomesBy
<1>4. QED
  BY <1>2, <1>3, FS_Subset, FS_CardinalityType

(* One row more is one more.                                               *)
LEMMA OneMore ==
    ASSUME NEW S, IsFiniteSet(S), NEW T, NEW x, x \notin S, T = S \cup {x}
    PROVE  Cardinality(T) = Cardinality(S) + 1
BY FS_AddElement

(* A registered claim is one more.                                         *)
LEMMA RegisterCounts ==
    ASSUME Typed, NEW c \in Collectors, RegisterClaim(c), NEW k \in RunIds, run[c].id = k, NEW s, s = Symbol(c)
    PROVE  /\ Cardinality(ClaimsBy(k, s)') = Cardinality(ClaimsBy(k, s)) + 1
           /\ OutcomesBy(k, s)' = OutcomesBy(k, s)
<1>1. PICK row : row = NextClaim(c)
  OBVIOUS
<1>2. /\ claims' = [claims EXCEPT ![s] = Appended(claims[s], row)] /\ outcomes' = outcomes
      /\ Readable(claims[s]) /\ row.key \notin Keys(claims[s])
  BY <1>1 DEF RegisterClaim
<1>3. row \in Claims /\ s \in Symbols /\ row.by = k
  BY <1>1, NextClaimProperty DEF RegisterClaim, NextClaim, ClaimRow
<1>4. claims \in [Symbols -> File(Claims)] /\ claims[s] \in File(Claims)
  BY <1>3 DEF Typed, WorldOK, FilesOK
<1>5. RowSet(claims'[s]) = RowSet(claims[s]) \cup {row}
  <2>1. claims'[s] = Appended(claims[s], row)
    BY <1>2, <1>3, <1>4
  <2>2. claims[s].tail = "clean"
    BY <1>2 DEF Readable
  <2>3. QED
    BY <1>3, <1>4, <2>1, <2>2, AppendedProperties
<1>6. row \notin RowSet(claims[s])
  BY <1>2 DEF RowSet, Keys
<1>7. ClaimsBy(k, s)' = ClaimsBy(k, s) \cup {row} /\ row \notin ClaimsBy(k, s)
  BY <1>3, <1>5, <1>6 DEF ClaimsBy
<1>8. IsFiniteSet(ClaimsBy(k, s))
  BY <1>3, ByFinite
<1>9. PICK S, T : S = ClaimsBy(k, s) /\ T = ClaimsBy(k, s)'
  OBVIOUS
<1>10. Cardinality(T) = Cardinality(S) + 1
  BY <1>7, <1>8, <1>9, OneMore
<1>11. OutcomesBy(k, s)' = OutcomesBy(k, s)
  BY <1>2 DEF OutcomesBy
<1>12. QED
  BY <1>9, <1>10, <1>11

(* So is a written outcome.                                                *)
LEMMA WriteCounts ==
    ASSUME Typed, NEW c \in Collectors, WriteOutcome(c), NEW k \in RunIds, run[c].id = k, NEW s, s = Symbol(c)
    PROVE  /\ Cardinality(OutcomesBy(k, s)') = Cardinality(OutcomesBy(k, s)) + 1
           /\ ClaimsBy(k, s)' = ClaimsBy(k, s)
<1>1. PICK row : row = NextOutcome(c)
  OBVIOUS
<1>2. /\ outcomes' = [outcomes EXCEPT ![s] = Appended(outcomes[s], row)] /\ claims' = claims
      /\ Readable(outcomes[s]) /\ row.key \notin Keys(outcomes[s])
  BY <1>1 DEF WriteOutcome, CanWriteOutcome
<1>3. row \in Outcomes /\ s \in Symbols /\ row.by = k
  BY <1>1, NextOutcomeProperty DEF WriteOutcome, NextOutcome, OutcomeRow
<1>4. outcomes \in [Symbols -> File(Outcomes)] /\ outcomes[s] \in File(Outcomes)
  BY <1>3 DEF Typed, WorldOK, FilesOK
<1>5. RowSet(outcomes'[s]) = RowSet(outcomes[s]) \cup {row}
  <2>1. outcomes'[s] = Appended(outcomes[s], row)
    BY <1>2, <1>3, <1>4
  <2>2. outcomes[s].tail = "clean"
    BY <1>2 DEF Readable
  <2>3. QED
    BY <1>3, <1>4, <2>1, <2>2, AppendedProperties
<1>6. row \notin RowSet(outcomes[s])
  BY <1>2 DEF RowSet, Keys
<1>7. OutcomesBy(k, s)' = OutcomesBy(k, s) \cup {row} /\ row \notin OutcomesBy(k, s)
  BY <1>3, <1>5, <1>6 DEF OutcomesBy
<1>8. IsFiniteSet(OutcomesBy(k, s))
  BY <1>3, ByFinite
<1>9. PICK S, T : S = OutcomesBy(k, s) /\ T = OutcomesBy(k, s)'
  OBVIOUS
<1>10. Cardinality(T) = Cardinality(S) + 1
  BY <1>7, <1>8, <1>9, OneMore
<1>11. ClaimsBy(k, s)' = ClaimsBy(k, s)
  BY <1>2 DEF ClaimsBy
<1>12. QED
  BY <1>9, <1>10, <1>11

(* Before its refresh a run has written nothing about a symbol.            *)
LEMMA NothingYet ==
    ASSUME Typed, Orderly, ClaimsTied, OutcomesTied, NEW c \in Collectors, pc[c] = "fetching"
    PROVE  ClaimsBy(run[c].id, Symbol(c)) = {} /\ OutcomesBy(run[c].id, Symbol(c)) = {}
<1>1. PICK k, s : k = run[c].id /\ s = Symbol(c)
  OBVIOUS
<1>2. pc[c] \notin Waiting /\ HasSymbol(c)
  BY DEF Waiting, Typed, RunsOK, Stage
<1>3. k # Foreign /\ s \in Symbols /\ IsLive(k)
  BY <1>1, <1>2, IdIsUnderWay, SymbolType, Bounds DEF Foreign, IsLive, Typed, RunsOK
<1>4. ASSUME NEW r \in SymbolRuns, Visited(k, r), r.symbol = s PROVE FALSE
  BY <1>1, <1>2, <1>4, NotYetVisited
<1>5. ASSUME NEW d \in Collectors, NEW t, AtHand(d, k, s, t) PROVE FALSE
  BY <1>2, <1>5, OneAtATime DEF AtHand, Waiting
<1>6. ASSUME NEW claim \in ClaimsBy(k, s) PROVE FALSE
  <2>1. IsTied(s, claim) /\ claim.by = k
    BY <1>3, <1>6 DEF ClaimsTied, ClaimsBy
  <2>2. QED
    BY <1>3, <1>4, <1>5, <2>1 DEF IsTied, Wrote
<1>7. ASSUME NEW o \in OutcomesBy(k, s) PROVE FALSE
  <2>1. IsTiedOutcome(s, o) /\ o.by = k
    BY <1>3, <1>7 DEF OutcomesTied, OutcomesBy
  <2>2. QED
    BY <1>3, <1>4, <1>5, <2>1 DEF IsTiedOutcome, Wrote
<1>8. QED
  BY <1>1, <1>6, <1>7

(* A collector in the middle of a refresh has its symbol's count.          *)
LEMMA HandCounted ==
    ASSUME Typed, Orderly, ClaimsTied, OutcomesTied, Counted, [Next]_vars,
           NEW c \in Collectors, pc'[c] \in {"registering", "measuring"}
    PROVE  (IsCounted(run[c].id, Symbol(c), run[c].artifacts_new, run[c].outcomes_new))'
<1>1. PICK k, s, n, m : k = run'[c].id /\ s = Symbol(c)' /\ n = run'[c].artifacts_new /\ m = run'[c].outcomes_new
  OBVIOUS
<1>2. SUFFICES Cardinality(ClaimsBy(k, s)') = n /\ Cardinality(OutcomesBy(k, s)') = m
  BY <1>1 DEF IsCounted, ClaimsBy, OutcomesBy
<1>3. ASSUME pc[c] \in {"fetching", "registering", "measuring"}, run[c].id = k, Symbol(c) = s
      PROVE  /\ k \in RunIds /\ s \in Symbols
             /\ ClaimsBy(k, s)' = ClaimsBy(k, s) \/ RegisterClaim(c)
             /\ OutcomesBy(k, s)' = OutcomesBy(k, s) \/ WriteOutcome(c)
  <2>1. pc[c] \notin Waiting /\ HasSymbol(c) /\ Stage(c)
    BY <1>3 DEF Waiting, Typed, RunsOK, Stage
  <2>2. k \in RunIds /\ s \in Symbols
    BY <1>3, <2>1, IdIsUnderWay, SymbolType DEF RunIds, Typed, RunsOK
  <2>3. pc \in [Collectors -> Labels]
    BY DEF Typed, RunsOK
  <2>4. ASSUME NEW d \in Collectors, pc[d] \in {"registering", "measuring"}, RefreshFails(d) \/ Crash(d) PROVE FALSE
    <3>1. d = c
      BY <2>1, <2>4, OneAtATime DEF Waiting
    <3>2. QED
      BY <2>3, <2>4, <3>1 DEF RefreshFails, Crash, Raised, NextSymbol, Leave, Goto
  <2>5. ASSUME NEW d \in Collectors, pc[d] \in {"registering", "measuring"} PROVE d = c
    BY <2>1, <2>5, OneAtATime DEF Waiting
  <2>6. QED
    BY <2>2, <2>4, <2>5, ByStands
<1>4. CASE pc'[c] = pc[c] /\ run'[c] = run[c] /\ ~RegisterClaim(c) /\ ~WriteOutcome(c)
  <2>1. run[c].id = k /\ Symbol(c) = s /\ run[c].artifacts_new = n /\ run[c].outcomes_new = m
    BY <1>1, <1>4 DEF Symbol
  <2>2. IsCounted(k, s, n, m)
    BY <1>4, <2>1 DEF Counted
  <2>3. QED
    BY <1>3, <1>4, <2>1, <2>2 DEF IsCounted
<1>5. CASE BeginRefresh(c)
  <2>1. /\ pc[c] = "fetching" /\ run[c].id = k /\ Symbol(c) = s
        /\ run[c].artifacts_new = n /\ run[c].outcomes_new = m
    BY <1>1, <1>5, BeginsRefresh DEF Symbol
  <2>2. n = 0 /\ m = 0
    BY <2>1 DEF Counted, Typed, RunsOK, Stage
  <2>3. ClaimsBy(k, s) = {} /\ OutcomesBy(k, s) = {}
    BY <2>1, NothingYet
  <2>4. ClaimsBy(k, s)' = {} /\ OutcomesBy(k, s)' = {}
    BY <1>3, <2>1, <2>3 DEF RegisterClaim, WriteOutcome
  <2>5. QED
    BY <2>2, <2>4, FS_EmptySet
<1>6. CASE RegisterClaim(c)
  <2>1. /\ pc[c] = "registering" /\ run[c].id = k /\ Symbol(c) = s
        /\ n = run[c].artifacts_new + 1 /\ run[c].outcomes_new = m
    BY <1>1, <1>6, MidRefresh DEF KeepsAnswer, Symbol
  <2>2. Cardinality(ClaimsBy(k, s)) = run[c].artifacts_new /\ Cardinality(OutcomesBy(k, s)) = m
    BY <2>1 DEF Counted, IsCounted
  <2>3. k \in RunIds
    BY <1>3, <2>1
  <2>4. Cardinality(ClaimsBy(k, s)') = Cardinality(ClaimsBy(k, s)) + 1 /\ OutcomesBy(k, s)' = OutcomesBy(k, s)
    BY <1>6, <2>1, <2>3, RegisterCounts
  <2>5. QED
    BY <2>1, <2>2, <2>4
<1>7. CASE ReadOutcomes(c) /\ ~Raised(c)
  <2>1. /\ pc[c] = "registering" /\ run[c].id = k /\ Symbol(c) = s
        /\ run[c].artifacts_new = n /\ run[c].outcomes_new = m
    BY <1>1, <1>7, MidRefresh DEF KeepsAnswer, Symbol
  <2>2. IsCounted(k, s, n, m)
    BY <2>1 DEF Counted
  <2>3. ~RegisterClaim(c) /\ ~WriteOutcome(c)
    BY <1>7 DEF ReadOutcomes, RegisterClaim, WriteOutcome
  <2>4. QED
    BY <1>3, <2>1, <2>2, <2>3 DEF IsCounted
<1>8. CASE WriteOutcome(c)
  <2>1. /\ pc[c] = "measuring" /\ run[c].id = k /\ Symbol(c) = s
        /\ n = run[c].artifacts_new /\ m = run[c].outcomes_new + 1
    BY <1>1, <1>8, MidRefresh DEF KeepsAnswer, Symbol
  <2>2. Cardinality(ClaimsBy(k, s)) = n /\ Cardinality(OutcomesBy(k, s)) = run[c].outcomes_new
    BY <2>1 DEF Counted, IsCounted
  <2>3. k \in RunIds
    BY <1>3, <2>1
  <2>4. Cardinality(OutcomesBy(k, s)') = Cardinality(OutcomesBy(k, s)) + 1 /\ ClaimsBy(k, s)' = ClaimsBy(k, s)
    BY <1>8, <2>1, <2>3, WriteCounts
  <2>5. QED
    BY <2>1, <2>2, <2>4
<1>9. QED
  BY <1>4, <1>5, <1>6, <1>7, <1>8, AtRefresh

(* And outside a refresh none.                                             *)
LEMMA NotAtHand ==
    ASSUME Typed, Counted, [Next]_vars, NEW c \in Collectors, pc'[c] \notin {"registering", "measuring"}
    PROVE  run'[c].outcomes_new = 0
<1>1. /\ pc \in [Collectors -> Labels] /\ run \in [Collectors -> RunStates]
      /\ pc[c] \notin {"registering", "measuring"} => run[c].outcomes_new = 0
  BY DEF Typed, RunsOK, Counted
<1>2. NoRun.outcomes_new = 0
  BY DEF NoRun
<1>3. CASE Stands(c)
  <2>1. pc[c] \notin {"registering", "measuring"}
    BY <1>3 DEF Stands, Waiting
  <2>2. QED
    BY <1>1, <1>3, <2>1 DEF Stands
<1>4. CASE TakeLock(c) \/ \E r : Enters(c, r)
  BY <1>4, TakeLockFields, EntersFields
<1>5. CASE Ends(c)
  BY <1>2, <1>5 DEF Ends
<1>6. CASE GoesOn(c)
  <2>1. CASE Decide(c)
    <3>1. PICK decision : run' = [run EXCEPT ![c] = [run[c] EXCEPT !.status = decision]]
      BY <2>1 DEF Decide, Decided
    <3>2. run'[c] = [run[c] EXCEPT !.status = decision]
      BY <1>1, <3>1
    <3>3. run'[c].outcomes_new = run[c].outcomes_new
      BY <1>1, <3>2 DEF RunStates
    <3>4. QED
      BY <1>1, <2>1, <3>3 DEF Decide
  <2>2. CASE BuildSnapshot(c)
    <3>1. run'[c] = [run[c] EXCEPT !.built_at = now]
      BY <1>1, <2>2 DEF BuildSnapshot
    <3>2. run'[c].outcomes_new = run[c].outcomes_new
      BY <1>1, <3>1 DEF RunStates
    <3>3. QED
      BY <1>1, <2>2, <3>2 DEF BuildSnapshot
  <2>3. CASE AppendStart(c) \/ (Visit(c) /\ run' = run)
    BY <1>1, <2>3 DEF AppendStart, Visit
  <2>4. CASE BeginRefresh(c) \/ RegisterClaim(c) \/ (ReadOutcomes(c) /\ ~Raised(c)) \/ WriteOutcome(c)
    BY <2>4, BeginsRefresh, MidRefresh
  <2>5. QED
    BY <1>6, <2>1, <2>2, <2>3, <2>4 DEF GoesOn
<1>7. QED
  BY <1>3, <1>4, <1>5, <1>6, RunStep

LEMMA CountedStep ==
    ASSUME Typed, TornLogWaits, Orderly, ClaimsTied, OutcomesTied, Counted, [Next]_vars
    PROVE  Counted'
<1>1. ASSUME NEW k \in RunIds, NEW r \in SymbolRuns, Visited(k, r)', r.class = "exact"
      PROVE  IsCounted(k, r.symbol, r.artifacts_new, r.outcomes_new)'
  <2>1. PICK s : s = r.symbol
    OBVIOUS
  <2>2. s \in Symbols
    BY <2>1 DEF SymbolRuns
  <2>3. CASE Visited(k, r)
    <3>1. IsCounted(k, s, r.artifacts_new, r.outcomes_new)
      BY <1>1, <2>1, <2>3 DEF Counted
    <3>2. ASSUME NEW c \in Collectors, pc[c] \in {"registering", "measuring"}, run[c].id = k, s = Symbol(c)
          PROVE  FALSE
      <4>1. pc[c] \notin Waiting /\ HasSymbol(c)
        BY <3>2 DEF Waiting, Typed, RunsOK, Stage
      <4>2. QED
        BY <2>1, <2>3, <3>2, <4>1, NotYetVisited
    <3>3. ClaimsBy(k, s)' = ClaimsBy(k, s) /\ OutcomesBy(k, s)' = OutcomesBy(k, s)
      BY <2>2, <3>2, ByStands
    <3>4. QED
      BY <2>1, <3>1, <3>3 DEF IsCounted
  <2>4. ASSUME NEW c \in Collectors, Enters(c, r), run[c].id = k
        PROVE  IsCounted(k, s, r.artifacts_new, r.outcomes_new)'
    <3>1. /\ pc[c] = "measuring" /\ UNCHANGED ledger /\ r.artifacts_new = run[c].artifacts_new
          /\ r.outcomes_new = run[c].outcomes_new /\ s = Symbol(c)
      BY <1>1, <2>1, <2>4 DEF Enters
    <3>2. IsCounted(k, s, r.artifacts_new, r.outcomes_new)
      BY <2>4, <3>1 DEF Counted
    <3>3. ClaimsBy(k, s)' = ClaimsBy(k, s) /\ OutcomesBy(k, s)' = OutcomesBy(k, s)
      BY <3>1 DEF ledger, ClaimsBy, OutcomesBy
    <3>4. QED
      BY <3>2, <3>3 DEF IsCounted
  <2>5. QED
    BY <1>1, <2>1, <2>3, <2>4, VisitsStep
<1>2. ASSUME NEW c \in Collectors, pc'[c] \in {"registering", "measuring"}
      PROVE  (IsCounted(run[c].id, Symbol(c), run[c].artifacts_new, run[c].outcomes_new))'
  BY <1>2, HandCounted
<1>3. ASSUME NEW c \in Collectors, pc'[c] \notin {"registering", "measuring"} PROVE run'[c].outcomes_new = 0
  BY <1>3, NotAtHand
<1>4. QED
  BY <1>1, <1>2, <1>3 DEF Counted

LEMMA CountedInvariant == Spec => []Counted
<1>1. Init => Counted
  <2> SUFFICES ASSUME Init PROVE Counted
    OBVIOUS
  <2>1. log.rows = <<>> /\ \A k \in RunIds, c \in Collectors : run[c].id # k
    BY NoRunType DEF Init, EmptyFile, RunIds
  <2>2. \A c \in Collectors : pc[c] = "idle" /\ run[c].outcomes_new = 0
    BY DEF Init, NoRun
  <2>3. QED
    BY <2>1, <2>2 DEF Counted, Visited, IsRecorded, IsHeld
<1>2. QED
  BY <1>1, TypedInvariant, TornLogInvariant, OrderlyInvariant, TiedInvariant, CountedStep, PTL DEF Spec

-----------------------------------------------------------------------------
(* Completed runs.                                                         *)

(* A sound log, after activation, is consistent.                           *)
LEMMA LogIsConsistent ==
    ASSUME Typed, Orderly, AllAfterActivation, NEW i \in DOMAIN log.rows
    PROVE  IsConsistent(log.rows, i, activated_at)
<1>1. log.rows \in Seq(LogRows) /\ LogSound /\ log.rows[i] \in LogRows
  BY DEF Typed, WorldOK, FilesOK, File, Orderly
<1>2. DOMAIN log.rows = 1 .. Len(log.rows) /\ Len(log.rows) \in Nat
  BY <1>1
<1>3. ASSUME IsSeenBefore(log.rows, i) PROVE IsCompletion(log.rows[i])
  <2>1. PICK j \in 1 .. i - 1 : log.rows[j].id = log.rows[i].id
    BY <1>3 DEF IsSeenBefore
  <2>2. j \in DOMAIN log.rows /\ j < i
    BY <1>2, <2>1
  <2>3. QED
    BY <1>1, <2>1, <2>2 DEF LogSound, IsSecond
<1>4. ASSUME IsStart(log.rows[i])
      PROVE  /\ ~IsSeenBefore(log.rows, i) /\ InWindow(log.rows[i].started_at)
             /\ log.rows[i].started_at > activated_at
  BY <1>1, <1>3, <1>4 DEF LogSound, AllAfterActivation, IsStart, IsCompletion
<1>5. ASSUME IsRefusal(log.rows[i]) PROVE ~IsSeenBefore(log.rows, i) /\ log.rows[i].symbols = <<>>
  <2>1. ~IsSeenBefore(log.rows, i)
    BY <1>3, <1>5 DEF IsRefusal, IsCompletion
  <2>2. log.rows[i] \in Records /\ log.rows[i].status # "completed"
    BY <1>1, <1>5 DEF LogRows, Starts, IsRefusal
  <2>3. log.rows[i].symbols \in Seq(SymbolRuns) /\ Len(log.rows[i].symbols) = 0
    BY <2>2 DEF Records
  <2>4. QED
    BY <2>1, <2>3
<1>6. ASSUME IsCompletion(log.rows[i]) PROVE IsPaired(log.rows, i)
  <2>1. InPairs(log.rows)
    BY <1>1 DEF LogSound, InPairs
  <2>2. i \in Completed(log.rows)
    BY <1>1, <1>6, <2>1, PairedCompletions
  <2>3. QED
    BY <2>2 DEF Completed
<1>7. QED
  BY <1>4, <1>5, <1>6 DEF IsConsistent

(* What provenance takes for a refresh is one that a run has visited.      *)
LEMMA RefreshedIsRecorded ==
    ASSUME Typed, Orderly, NEW r
    PROVE  r \in Refreshed(log.rows) <=>
               /\ r \in SymbolRuns /\ r.class \in {"exact", "raised"}
               /\ \E k \in RunIds : IsRecorded(k, r)
<1>1. log.rows \in Seq(LogRows) /\ InPairs(log.rows)
  BY DEF Typed, WorldOK, FilesOK, File, Orderly, LogSound, InPairs
<1>2. Completed(log.rows) = {j \in DOMAIN log.rows : IsCompletion(log.rows[j])}
  BY <1>1, PairedCompletions
<1>3. ASSUME NEW i \in DOMAIN log.rows, IsCompletion(log.rows[i])
      PROVE  log.rows[i].id \in RunIds /\ log.rows[i].symbols \in Seq(SymbolRuns)
  <2>1. log.rows[i] \in Records
    BY <1>1, <1>3 DEF LogRows, Starts, IsCompletion
  <2>2. QED
    BY <2>1 DEF Records, RunIds
<1>4. r \in Refreshed(log.rows) <=>
          /\ r.class \in {"exact", "raised"}
          /\ \E i \in DOMAIN log.rows : IsCompletion(log.rows[i]) /\ IsIn(log.rows[i].symbols, r)
  BY <1>2 DEF Refreshed, IsIn
<1>5. ASSUME NEW i \in DOMAIN log.rows, IsCompletion(log.rows[i]), IsIn(log.rows[i].symbols, r)
      PROVE  r \in SymbolRuns /\ \E k \in RunIds : IsRecorded(k, r)
  BY <1>3, <1>5 DEF IsRecorded, IsIn
<1>6. QED
  BY <1>4, <1>5 DEF IsRecorded

(* No two refreshes are of one symbol at one time.                         *)
LEMMA RefreshedApart ==
    ASSUME Typed, Orderly, ReadingsApart, VisitsDated,
           NEW r \in Refreshed(log.rows), NEW q \in Refreshed(log.rows),
           r.symbol = q.symbol, r.built_at = q.built_at
    PROVE  r = q
<1>1. PICK k \in RunIds : IsRecorded(k, r)
  BY RefreshedIsRecorded
<1>2. PICK l \in RunIds : IsRecorded(l, q)
  BY RefreshedIsRecorded
<1>3. r \in SymbolRuns /\ q \in SymbolRuns /\ r.class \in {"exact", "raised"} /\ Visited(k, r) /\ Visited(l, q)
  BY <1>1, <1>2, RefreshedIsRecorded DEF Visited
<1>4. r.built_at \in Ticks
  BY <1>3 DEF VisitsDated
<1>5. Took(k, r.built_at) /\ Took(l, r.built_at)
  BY <1>3 DEF Took
<1>6. k = l
  BY <1>4, <1>5 DEF ReadingsApart
<1>7. QED
  BY <1>3, <1>6, OneVisit

(* Of one tail there are no more claims than producers.                    *)
LEMMA TailSize ==
    ASSUME Typed, KeyedByTail, FiledBySymbol, NEW s \in Symbols, IsReadable(s), NEW d,
           NEW S \in SUBSET {claim \in AllClaims : claim.symbol = s /\ claim.timestamp = d}
    PROVE  Cardinality(S) <= ClaimsPerTail
<1>1. NoRepeatedKey(claims[s]) /\ AllClaims \subseteq Claims
  BY RowTypes DEF IsReadable, Readable
<1>2. ASSUME NEW claim \in S
      PROVE  /\ claim \in RowSet(claims[s]) /\ claim.key \in Producers \X Days /\ claim.key[2] = d
             /\ claim.key[1] \in Producers
  <2>1. claim \in AllClaims /\ claim.symbol = s /\ claim.timestamp = d
    OBVIOUS
  <2>2. claim \in RowSet(claims[s])
    BY <2>1 DEF AllClaims, FiledBySymbol
  <2>3. claim \in Claims
    BY <1>1, <2>1
  <2>4. QED
    BY <2>1, <2>2, <2>3 DEF Claims, KeyedByTail
<1>3. ASSUME NEW a \in S, NEW b \in S, a.key[1] = b.key[1] PROVE a = b
  <2>1. a.key = b.key
    BY <1>2, <1>3
  <2>2. QED
    BY <1>1, <1>2, <2>1 DEF RowSet, NoRepeatedKey
<1> DEFINE f == [claim \in S |-> claim.key[1]]
<1>4. f \in [S -> Producers] /\ \A a, b \in S : f[a] = f[b] => a = b
  BY <1>2, <1>3
<1> HIDE DEF f
<1>5. f \in Injection(S, Producers)
  BY <1>4 DEF Injection, IsInjective
<1>6. QED
  BY <1>5, Bounds, FS_Injection

(* A claim of a collector's has nothing wrong with it.                     *)
LEMMA OwnClaimIsSound ==
    ASSUME Typed, Prospective, NEW claim \in AllClaims, claim.by # Foreign
    PROVE  ~HasProblem(claim, activated_at)
<1>1. /\ InWindow(claim.recorded_at) /\ IsCurrentTail(claim.timestamp, claim.recorded_at)
      /\ ~IsPreActivation(claim.timestamp, activated_at)
  BY DEF Prospective, OwnClaimsAreProspective
<1>2. PICK d, t : d = claim.timestamp /\ t = claim.recorded_at
  OBVIOUS
<1>3. d \in Nat /\ t \in Nat /\ activated_at \in Int
  <2>1. claim \in Claims /\ Days \subseteq Nat /\ Ticks \subseteq Nat
    BY RowTypes, Bounds
  <2>2. claim.timestamp \in Days /\ claim.recorded_at \in Ticks
    BY <2>1 DEF Claims
  <2>3. d \in Nat /\ t \in Nat
    BY <1>2, <2>1, <2>2
  <2>4. activated_at \in Ticks \/ activated_at = NoTime
    BY DEF Typed, WorldOK
  <2>5. ASSUME activated_at \in Ticks PROVE activated_at \in Int
    <3>1. activated_at \in Nat
      BY <2>1, <2>5
    <3>2. QED
      BY <3>1
  <2>6. NoTime \in Int
    BY DEF NoTime
  <2>7. QED
    BY <2>3, <2>4, <2>5, <2>6
<1>4. d < Date(t) /\ ~(SettlesAt(d) <= activated_at)
  BY <1>1, <1>2 DEF IsCurrentTail, IsPreActivation
<1>5. SettlesAt(d) <= t
  <2>1. DayLength \in Nat \ {0} /\ Date(t) \in Nat /\ Date(t) * DayLength <= t
    BY <1>3, PolicyAssumption DEF Date
  <2>2. d + 1 <= Date(t)
    BY <1>3, <1>4, <2>1
  <2>3. (d + 1) * DayLength <= Date(t) * DayLength
    BY <1>3, <2>1, <2>2
  <2>4. (d + 1) * DayLength \in Nat /\ Date(t) * DayLength \in Nat
    BY <1>3, <2>1
  <2>5. QED
    BY <1>3, <2>1, <2>3, <2>4 DEF SettlesAt
<1>6. SettlesAt(d) \in Nat
  BY <1>3, PolicyAssumption DEF SettlesAt
<1>7. ~(t <= activated_at)
  BY <1>3, <1>4, <1>5, <1>6
<1>8. QED
  BY <1>1, <1>2, <1>7 DEF HasProblem

(* An outcome of a claim in its file is not unfounded.                     *)
LEMMA NotUnfounded ==
    ASSUME Typed, FiledBySymbol, Founded, Younger, NEW s \in Symbols, NEW o \in RowSet(outcomes[s])
    PROVE  o.symbol = s /\ ~IsUnfounded(o, AllClaims)
<1>1. o.symbol = s
  BY DEF Founded, IsFounded
<1>2. PICK claim \in RowSet(claims[s]) : claim.key = o.claim /\ claim.recorded_at < o.evaluated_at
  BY DEF Younger, IsYounger
<1>3. claim \in AllClaims /\ claim.symbol = s /\ o \in AllOutcomes
  BY <1>2 DEF FiledBySymbol, AllClaims, AllOutcomes
<1>4. claim.recorded_at \in Nat /\ o.evaluated_at \in Nat
  BY <1>3, RowTypes, Bounds DEF Claims, Outcomes
<1>5. ~(o.evaluated_at <= claim.recorded_at)
  BY <1>2, <1>4
<1>6. QED
  BY <1>1, <1>2, <1>3, <1>5 DEF IsUnfounded

(* Between two runs, what a run has visited stands in its record.           *)
LEMMA RecordedOnly ==
    ASSUME Typed, Orderly, holder = Nobody
    PROVE  /\ \A k \in RunIds : \A r : Visited(k, r) => IsRecorded(k, r)
           /\ \A c \in Collectors : \A k, s, t : ~AtHand(c, k, s, t)
<1>1. \A c \in Collectors : pc[c] \in Waiting
  BY CollectionAssumption DEF Typed, RunsOK
<1>2. \A c \in Collectors : run[c].id = 0
  BY <1>1, IdIsUnderWay
<1>3. 0 \notin RunIds
  BY Bounds DEF RunIds
<1>4. QED
  BY <1>1, <1>2, <1>3 DEF Visited, IsHeld, AtHand, Waiting

(* Whatever a completed run wrote one of its refreshes wrote.              *)
LEMMA ClaimIsReconciled ==
    ASSUME Typed, Orderly, ClaimsTied, holder = Nobody, NEW s \in Symbols, NEW claim \in RowSet(claims[s]),
           claim.by # Foreign, IsCompleted(claim.by)
    PROVE  \E r \in Refreshed(log.rows) :
              /\ Visited(claim.by, r) /\ r.symbol = s /\ r.built_at = claim.recorded_at
              /\ r.tail = claim.timestamp
<1>1. PICK k, t : k = claim.by /\ t = claim.recorded_at
  OBVIOUS
<1>2. IsTied(s, claim) /\ k \in RunIds
  BY <1>1, StartedId DEF ClaimsTied, IsTied
<1>3. IsLive(k)
  BY <1>1 DEF IsLive
<1>4. PICK r \in SymbolRuns : Visited(k, r) /\ Wrote(r, s, t) /\ r.tail = claim.timestamp
  BY <1>1, <1>2, <1>3, RecordedOnly DEF IsTied
<1>5. r \in Refreshed(log.rows)
  BY <1>2, <1>4, RecordedOnly, RefreshedIsRecorded DEF Wrote
<1>6. QED
  BY <1>1, <1>4, <1>5 DEF Wrote

LEMMA OutcomeIsReconciled ==
    ASSUME Typed, Orderly, OutcomesTied, holder = Nobody, NEW s \in Symbols, NEW o \in RowSet(outcomes[s]),
           o.by # Foreign, IsCompleted(o.by)
    PROVE  \E r \in Refreshed(log.rows) : Visited(o.by, r) /\ r.symbol = s /\ r.built_at = o.evaluated_at
<1>1. PICK k, t : k = o.by /\ t = o.evaluated_at
  OBVIOUS
<1>2. IsTiedOutcome(s, o) /\ k \in RunIds
  BY <1>1, StartedId DEF OutcomesTied, IsTiedOutcome
<1>3. IsLive(k)
  BY <1>1 DEF IsLive
<1>4. PICK r \in SymbolRuns : Visited(k, r) /\ Wrote(r, s, t)
  BY <1>1, <1>2, <1>3, RecordedOnly DEF IsTiedOutcome
<1>5. r \in Refreshed(log.rows)
  BY <1>2, <1>4, RecordedOnly, RefreshedIsRecorded DEF Wrote
<1>6. QED
  BY <1>1, <1>4, <1>5 DEF Wrote

(* And the counts of its record agree with the ledger.                     *)
LEMMA ReportedCountsAgree ==
    ASSUME Typed, Orderly, Prospective, Founded, ReadingsApart, VisitsDated,
           ClaimsTied, OutcomesTied, Younger, Counted, holder = Nobody,
           \A s \in Symbols : IsReadable(s), NEW r \in Refreshed(log.rows)
    PROVE  CountsAgree(log.rows, AllClaims, AllOutcomes, r)
<1>1. PICK k \in RunIds : Visited(k, r) /\ r \in SymbolRuns /\ r.class \in {"exact", "raised"}
  BY RefreshedIsRecorded DEF Visited
<1>2. PICK s, t : s = r.symbol /\ t = r.built_at
  OBVIOUS
<1>3. s \in Symbols /\ t \in Ticks /\ Took(k, t) /\ k # Foreign
  BY <1>1, <1>2, Bounds DEF SymbolRuns, VisitsDated, Took, RunIds, Foreign
<1>4. FiledBySymbol /\ KeyedByTail
  BY DEF Prospective
<1>0. IsCompleted(k)
  BY <1>1, RecordedOnly DEF IsRecorded, IsCompleted
<1>5. CASE r.class = "exact"
  <2>1. IsCounted(k, s, r.artifacts_new, r.outcomes_new)
    BY <1>1, <1>2, <1>5 DEF Counted
  <2>2. ASSUME NEW claim \in ClaimsAt(log.rows, AllClaims, r) PROVE claim \in ClaimsBy(k, s)
    <3>1. claim \in AllClaims /\ claim.symbol = s /\ claim.recorded_at = t
      BY <1>2, <2>2 DEF ClaimsAt
    <3>2. claim.by = k
      BY <1>3, <3>1 DEF ReadingsApart
    <3>3. claim \in RowSet(claims[s])
      BY <1>4, <3>1 DEF AllClaims, FiledBySymbol
    <3>4. QED
      BY <3>2, <3>3 DEF ClaimsBy
  <2>3. ASSUME NEW claim \in ClaimsBy(k, s) PROVE claim \in ClaimsAt(log.rows, AllClaims, r)
    <3>1. claim \in RowSet(claims[s]) /\ claim.by = k /\ claim.symbol = s /\ claim \in AllClaims
      BY <1>3, <1>4, <2>3 DEF ClaimsBy, FiledBySymbol, AllClaims
    <3>2. PICK q : /\ Visited(k, q) /\ q.symbol = s /\ q.built_at = claim.recorded_at
                   /\ q.tail = claim.timestamp
      BY <1>0, <1>3, <3>1, ClaimIsReconciled
    <3>3. q = r
      BY <1>1, <1>2, <3>2, OneVisit
    <3>4. QED
      BY <1>2, <3>1, <3>2, <3>3 DEF ClaimsAt
  <2>4. ClaimsAt(log.rows, AllClaims, r) = ClaimsBy(k, s)
    BY <2>2, <2>3
  <2> DEFINE measured == {o \in AllOutcomes : /\ o.symbol = r.symbol /\ o.evaluated_at = r.built_at
                                              /\ ~IsUnfounded(o, AllClaims)}
  <2>5. ASSUME NEW o \in measured PROVE o \in OutcomesBy(k, s)
    <3>1. o \in AllOutcomes /\ o.symbol = s /\ o.evaluated_at = t
      BY <1>2, <2>5
    <3>2. o.by = k
      BY <1>3, <3>1 DEF ReadingsApart
    <3>3. o \in RowSet(outcomes[s])
      BY <3>1 DEF AllOutcomes, Founded, IsFounded
    <3>4. QED
      BY <3>2, <3>3 DEF OutcomesBy
  <2>6. ASSUME NEW o \in OutcomesBy(k, s) PROVE o \in measured
    <3>1. o \in RowSet(outcomes[s]) /\ o.by = k /\ o \in AllOutcomes
      BY <1>3, <2>6 DEF OutcomesBy, AllOutcomes
    <3>2. o.symbol = s /\ ~IsUnfounded(o, AllClaims)
      BY <1>3, <1>4, <3>1, NotUnfounded
    <3>3. PICK q : Visited(k, q) /\ q.symbol = s /\ q.built_at = o.evaluated_at
      BY <1>0, <1>3, <3>1, OutcomeIsReconciled
    <3>4. q = r
      BY <1>1, <1>2, <3>3, OneVisit
    <3>5. QED
      BY <1>2, <3>1, <3>2, <3>3, <3>4
  <2>7. measured = OutcomesBy(k, s)
    BY <2>5, <2>6
  <2>8. QED
    BY <1>5, <2>1, <2>4, <2>7 DEF CountsAgree, IsCounted
<1>6. CASE r.class # "exact"
  <2>1. ClaimsAt(log.rows, AllClaims, r) \in SUBSET {claim \in AllClaims : claim.symbol = s /\ claim.timestamp = r.tail}
    BY <1>2 DEF ClaimsAt
  <2>2. Cardinality(ClaimsAt(log.rows, AllClaims, r)) <= ClaimsPerTail
    BY <1>3, <1>4, <2>1, TailSize
  <2>3. QED
    BY <1>6, <2>2 DEF CountsAgree
<1>7. QED
  BY <1>5, <1>6

-----------------------------------------------------------------------------
(* What makes a ledger invalid.                                            *)

(* The rows that no completed run explains, and the interrupted run that   *)
(* each is put to.                                                         *)
LooseClaims   == {c \in AllClaims : ~IsReconciled(log.rows, c)}
LooseOutcomes == {o \in AllOutcomes : RunsAt(log.rows, o.symbol, o.evaluated_at) = {}}

RunOf(c) == RunOfClaim(log.rows, c, activated_at)
RunAt(o) == RunOfOutcome(log.rows, o)

(* A row with something wrong of its own, one that no run explains, or two *)
(* of one symbol put to one run that are not of one snapshot.              *)
Unsound ==
    \/ \E c \in AllClaims : HasProblem(c, activated_at)
    \/ \E o \in AllOutcomes : ~InWindow(o.evaluated_at)
    \/ \E c \in LooseClaims : RunOf(c) = 0
    \/ \E o \in LooseOutcomes : RunAt(o) = 0
    \/ \E c, d \in LooseClaims :
          /\ c.symbol = d.symbol /\ RunOf(c) = RunOf(d)
          /\ c.recorded_at # d.recorded_at \/ c.timestamp # d.timestamp
    \/ \E o, p \in LooseOutcomes :
          o.symbol = p.symbol /\ RunAt(o) = RunAt(p) /\ o.evaluated_at # p.evaluated_at
    \/ \E o \in LooseOutcomes, c \in LooseClaims :
          o.symbol = c.symbol /\ RunAt(o) = RunOf(c) /\ o.evaluated_at # c.recorded_at

(* What the rows and the records say of each other, whoever wrote.         *)
Traced ==
    /\ Typed /\ Orderly /\ Prospective /\ Founded /\ ReadingsApart /\ VisitsDated
    /\ ClaimsTied /\ OutcomesTied /\ Younger /\ Counted

(* Rows of one clock and one tail are one snapshot.                        *)
LEMMA AgreeingIsOneSnapshot ==
    ASSUME Typed, KeyedByTail, FiledBySymbol, NEW s \in Symbols, IsReadable(s),
           NEW group \in SUBSET AllClaims, NEW c \in group,
           \A d \in group : d.symbol = s /\ d.recorded_at = c.recorded_at /\ d.timestamp = c.timestamp
    PROVE  IsOneSnapshot(group) /\ {d.recorded_at : d \in group} = {c.recorded_at}
<1>1. PICK t, tail : t = c.recorded_at /\ tail = c.timestamp
  OBVIOUS
<1>2. {d.recorded_at : d \in group} = {t} /\ {d.timestamp : d \in group} = {tail}
  BY <1>1
<1>3. Cardinality({d.recorded_at : d \in group}) = 1 /\ Cardinality({d.timestamp : d \in group}) = 1
  BY <1>2, FS_Singleton
<1>4. group \in SUBSET {d \in AllClaims : d.symbol = s /\ d.timestamp = tail}
  BY <1>1
<1>5. Cardinality(group) <= ClaimsPerTail
  BY <1>4, TailSize
<1>6. QED
  BY <1>1, <1>2, <1>3, <1>5 DEF IsOneSnapshot

(* Between two runs, over files that can be read and after activation,     *)
(* nothing else is wrong with what the runs left.                          *)
LEMMA SoundIsReconcilable ==
    ASSUME Traced, holder = Nobody, AllAfterActivation, \A s \in Symbols : IsReadable(s), ~Unsound
    PROVE  IsReconcilable(log.rows, AllClaims, AllOutcomes, activated_at)
<1>1. \A i \in DOMAIN log.rows : IsConsistent(log.rows, i, activated_at)
  BY LogIsConsistent DEF Traced
<1>2. \A r, q \in Refreshed(log.rows) : (r.symbol = q.symbol /\ r.built_at = q.built_at) => r = q
  BY RefreshedApart DEF Traced
<1>3. \A r \in Refreshed(log.rows) : CountsAgree(log.rows, AllClaims, AllOutcomes, r)
  BY ReportedCountsAgree DEF Traced
<1>4. Typed /\ KeyedByTail /\ FiledBySymbol
  BY DEF Traced, Prospective
<1>5. ASSUME NEW c \in AllClaims
      PROVE  /\ ~HasProblem(c, activated_at)
             /\ IsReconciled(log.rows, c) \/ c \in Attributed(log.rows, AllClaims, activated_at)
             /\ Cardinality({d \in AllClaims : d.symbol = c.symbol /\ d.timestamp = c.timestamp}) <= ClaimsPerTail
  <2>1. PICK s \in Symbols : s = c.symbol
    BY <1>4, <1>5 DEF AllClaims, FiledBySymbol
  <2>2. ASSUME c \in LooseClaims PROVE c \in Attributed(log.rows, AllClaims, activated_at)
    <3> DEFINE group == OrphanClaims(log.rows, AllClaims, activated_at, s, RunOf(c))
    <3>1. RunOf(c) # 0
      BY <2>2 DEF Unsound
    <3>2. \A d \in group : d \in LooseClaims /\ d.symbol = s /\ RunOf(d) = RunOf(c)
      BY DEF OrphanClaims, LooseClaims, RunOf
    <3>3. c \in group /\ group \in SUBSET AllClaims
      BY <1>5, <2>1, <2>2 DEF OrphanClaims, LooseClaims, RunOf
    <3> HIDE DEF group
    <3>4. \A d \in group : d.symbol = s /\ d.recorded_at = c.recorded_at /\ d.timestamp = c.timestamp
      BY <2>1, <2>2, <3>2 DEF Unsound
    <3>5. IsOneSnapshot(group)
      BY <1>4, <3>3, <3>4, AgreeingIsOneSnapshot
    <3>6. QED
      BY <1>5, <2>1, <2>2, <3>1, <3>5 DEF group, Attributed, LooseClaims, RunOf
  <2>3. PICK S : S = {d \in AllClaims : d.symbol = s /\ d.timestamp = c.timestamp}
    OBVIOUS
  <2>4. Cardinality(S) <= ClaimsPerTail
    BY <1>4, <2>3, TailSize
  <2>5. ~HasProblem(c, activated_at)
    BY <1>5 DEF Unsound
  <2>6. IsReconciled(log.rows, c) \/ c \in Attributed(log.rows, AllClaims, activated_at)
    BY <1>5, <2>2 DEF LooseClaims
  <2>7. QED
    BY <2>1, <2>3, <2>4, <2>5, <2>6
<1>6. ASSUME NEW o \in AllOutcomes
      PROVE  /\ InWindow(o.evaluated_at) /\ ~IsUnfounded(o, AllClaims)
             /\ \/ RunsAt(log.rows, o.symbol, o.evaluated_at) # {}
                \/ o \in AttributedOutcomes(log.rows, AllClaims, AllOutcomes, activated_at)
  <2>1. PICK s \in Symbols : o \in RowSet(outcomes[s])
    BY <1>6 DEF AllOutcomes
  <2>2. o.symbol = s /\ ~IsUnfounded(o, AllClaims)
    BY <1>4, <2>1, NotUnfounded DEF Traced
  <2>3. ASSUME o \in LooseOutcomes
        PROVE  o \in AttributedOutcomes(log.rows, AllClaims, AllOutcomes, activated_at)
    <3> DEFINE group  == OrphanClaims(log.rows, AllClaims, activated_at, s, RunAt(o))
               others == OrphanOutcomes(log.rows, AllClaims, AllOutcomes, s, RunAt(o))
    <3>1. RunAt(o) # 0
      BY <2>3 DEF Unsound
    <3>2. \A p \in others : p \in LooseOutcomes /\ p.symbol = s /\ RunAt(p) = RunAt(o)
      BY DEF OrphanOutcomes, LooseOutcomes, RunAt
    <3>3. \A c \in group : c \in LooseClaims /\ c.symbol = s /\ RunOf(c) = RunAt(o)
      BY DEF OrphanClaims, LooseClaims, RunOf
    <3>4. o \in others
      BY <1>6, <2>2, <2>3 DEF OrphanOutcomes, LooseOutcomes, RunAt
    <3> HIDE DEF group, others
    <3>5. PICK t : t = o.evaluated_at
      OBVIOUS
    <3>6. \A p \in others : p.evaluated_at = t
      BY <2>2, <2>3, <3>2, <3>5 DEF Unsound
    <3>7. {p.evaluated_at : p \in others} = {t}
      BY <3>4, <3>5, <3>6
    <3>8. \A c \in group : c.recorded_at = t
      BY <2>2, <2>3, <3>3, <3>5 DEF Unsound
    <3>9. group # {} => {c.recorded_at : c \in group} = {t}
      BY <3>8
    <3>10. Cardinality({p.evaluated_at : p \in others}) = 1
      BY <3>7, FS_Singleton
    <3>11. IsOneReading(log.rows, AllClaims, AllOutcomes, activated_at, s, RunAt(o))
      BY <3>7, <3>9, <3>10 DEF group, others, IsOneReading
    <3>12. QED
      BY <1>6, <2>2, <2>3, <3>1, <3>11 DEF AttributedOutcomes, LooseOutcomes, RunAt
  <2>4. InWindow(o.evaluated_at)
    BY <1>6 DEF Unsound
  <2>5. QED
    BY <1>6, <2>2, <2>3, <2>4 DEF LooseOutcomes
<1>7. QED
  BY <1>1, <1>2, <1>3, <1>5, <1>6 DEF IsReconcilable

(* And each of these is enough, whoever is under way.                      *)
LEMMA UnsoundIsInvalid ==
    ASSUME Typed, Unsound
    PROVE  ~IsReconcilable(log.rows, AllClaims, AllOutcomes, activated_at)
<1> SUFFICES ASSUME IsReconcilable(log.rows, AllClaims, AllOutcomes, activated_at) PROVE FALSE
  OBVIOUS
<1>1. /\ \A c \in AllClaims : ~HasProblem(c, activated_at)
      /\ \A c \in LooseClaims : c \in Attributed(log.rows, AllClaims, activated_at)
      /\ \A o \in AllOutcomes : InWindow(o.evaluated_at) /\ ~IsUnfounded(o, AllClaims)
      /\ \A o \in LooseOutcomes : o \in AttributedOutcomes(log.rows, AllClaims, AllOutcomes, activated_at)
  BY DEF IsReconcilable, LooseClaims, LooseOutcomes
<1>2. /\ \A c \in LooseClaims : /\ RunOf(c) # 0
                                /\ IsOneSnapshot(OrphanClaims(log.rows, AllClaims, activated_at, c.symbol, RunOf(c)))
      /\ \A o \in LooseOutcomes :
            RunAt(o) # 0 /\ IsOneReading(log.rows, AllClaims, AllOutcomes, activated_at, o.symbol, RunAt(o))
  BY <1>1 DEF Attributed, AttributedOutcomes, RunOf, RunAt
<1>3. /\ \A c \in LooseClaims : c \in OrphanClaims(log.rows, AllClaims, activated_at, c.symbol, RunOf(c))
      /\ \A o \in LooseOutcomes : o \in OrphanOutcomes(log.rows, AllClaims, AllOutcomes, o.symbol, RunAt(o))
  BY <1>1 DEF OrphanClaims, OrphanOutcomes, LooseClaims, LooseOutcomes, RunOf, RunAt
<1>4. /\ AllClaims \subseteq Claims /\ AllOutcomes \subseteq Outcomes
      /\ IsFiniteSet(Ticks) /\ IsFiniteSet(Days)
  <2>1. 0 \in Int /\ MaxTime \in Int /\ Date(MaxTime) \in Int
    BY Bounds
  <2>2. IsFiniteSet(0 .. MaxTime) /\ IsFiniteSet(0 .. Date(MaxTime))
    BY <2>1, FS_Interval
  <2>3. QED
    BY <2>2, RowTypes DEF Ticks, Days
<1>5. ASSUME NEW c \in LooseClaims, NEW d \in LooseClaims, c.symbol = d.symbol, RunOf(c) = RunOf(d)
      PROVE  c.recorded_at = d.recorded_at /\ c.timestamp = d.timestamp
  <2> DEFINE group == OrphanClaims(log.rows, AllClaims, activated_at, c.symbol, RunOf(c))
  <2>1. c \in group /\ d \in group /\ group \subseteq Claims
    BY <1>3, <1>4, <1>5 DEF OrphanClaims
  <2>2. IsOneSnapshot(group)
    BY <1>2
  <2> HIDE DEF group
  <2>3. {e.recorded_at : e \in group} \in SUBSET Ticks /\ {e.timestamp : e \in group} \in SUBSET Days
    BY <2>1 DEF Claims
  <2>4. IsFiniteSet({e.recorded_at : e \in group}) /\ IsFiniteSet({e.timestamp : e \in group})
    BY <1>4, <2>3, FS_Subset
  <2>5. Cardinality({e.recorded_at : e \in group}) = 1 /\ Cardinality({e.timestamp : e \in group}) = 1
    BY <2>2 DEF IsOneSnapshot
  <2>6. PICK t : {e.recorded_at : e \in group} = {t}
    BY <2>4, <2>5, FS_Singleton
  <2>7. PICK tail : {e.timestamp : e \in group} = {tail}
    BY <2>4, <2>5, FS_Singleton
  <2>8. QED
    BY <2>1, <2>6, <2>7
<1>6. ASSUME NEW o \in LooseOutcomes, NEW p \in LooseOutcomes, o.symbol = p.symbol, RunAt(o) = RunAt(p)
      PROVE  o.evaluated_at = p.evaluated_at
  <2> DEFINE others == OrphanOutcomes(log.rows, AllClaims, AllOutcomes, o.symbol, RunAt(o))
  <2>1. o \in others /\ p \in others /\ others \subseteq Outcomes
    BY <1>3, <1>4, <1>6 DEF OrphanOutcomes
  <2>2. Cardinality({q.evaluated_at : q \in others}) = 1
    BY <1>2 DEF IsOneReading
  <2> HIDE DEF others
  <2>3. {q.evaluated_at : q \in others} \in SUBSET Ticks
    BY <2>1 DEF Outcomes
  <2>4. IsFiniteSet({q.evaluated_at : q \in others})
    BY <1>4, <2>3, FS_Subset
  <2>5. PICK t : {q.evaluated_at : q \in others} = {t}
    BY <2>2, <2>4, FS_Singleton
  <2>6. QED
    BY <2>1, <2>5
<1>7. ASSUME NEW o \in LooseOutcomes, NEW c \in LooseClaims, o.symbol = c.symbol, RunAt(o) = RunOf(c)
      PROVE  o.evaluated_at = c.recorded_at
  <2> DEFINE group  == OrphanClaims(log.rows, AllClaims, activated_at, c.symbol, RunOf(c))
             others == OrphanOutcomes(log.rows, AllClaims, AllOutcomes, c.symbol, RunOf(c))
  <2>1. o \in others /\ c \in group
    BY <1>3, <1>7
  <2>2. IsOneSnapshot(group)
    BY <1>2
  <2>3. (group # {} /\ IsOneSnapshot(group)) =>
            {q.evaluated_at : q \in others} = {d.recorded_at : d \in group}
    BY <1>2, <1>7 DEF IsOneReading
  <2>4. \A d \in group : d \in LooseClaims /\ d.symbol = c.symbol /\ RunOf(d) = RunOf(c)
    BY DEF OrphanClaims, LooseClaims, RunOf
  <2> HIDE DEF group, others
  <2>5. \A d \in group : d.recorded_at = c.recorded_at
    BY <1>5, <2>4
  <2>6. o.evaluated_at \in {d.recorded_at : d \in group}
    BY <2>1, <2>2, <2>3
  <2>7. QED
    BY <2>5, <2>6
<1>8. QED
  BY <1>1, <1>2, <1>5, <1>6, <1>7 DEF Unsound

(* CompletedRunsSurviveClockSteps: with every run completed, all of them   *)
(* begun after activation and nothing foreign in the ledger, provenance is *)
(* never invalid, wherever the clock was stepped to during them.           *)
THEOREM CompletedRunsAreValid == Spec => []CompletedRunsSurviveClockSteps
<1>1. ASSUME Traced PROVE CompletedRunsSurviveClockSteps
  <2> SUFFICES ASSUME holder = Nobody, HasNoForeignRow, AllAfterActivation,
                      \A i \in DOMAIN log.rows : IsStart(log.rows[i]) =>
                         \E j \in DOMAIN log.rows :
                               IsCompletion(log.rows[j]) /\ log.rows[j].id = log.rows[i].id,
                      \A s \in Symbols : IsReadable(s)
               PROVE  IsReconcilable(log.rows, AllClaims, AllOutcomes, activated_at)
    BY DEF CompletedRunsSurviveClockSteps, Verdict, VerifyProvenance
  <2>1. \A k : IsStarted(k) => IsCompleted(k)
    BY DEF IsStarted, IsCompleted
  <2>2. ASSUME NEW claim \in AllClaims PROVE ~HasProblem(claim, activated_at) /\ claim \notin LooseClaims
    <3>1. PICK s \in Symbols : claim \in RowSet(claims[s])
      BY <2>2 DEF AllClaims
    <3>2. claim.symbol = s /\ claim.by # Foreign
      BY <1>1, <2>2, <3>1 DEF Traced, Prospective, FiledBySymbol, HasNoForeignRow
    <3>3. IsCompleted(claim.by)
      BY <1>1, <2>1, <3>1, <3>2 DEF Traced, ClaimsTied, IsTied
    <3>4. IsReconciled(log.rows, claim)
      BY <1>1, <3>1, <3>2, <3>3, ClaimIsReconciled DEF Traced, IsReconciled, RunsAt
    <3>5. ~HasProblem(claim, activated_at)
      BY <1>1, <2>2, <3>2, OwnClaimIsSound DEF Traced
    <3>6. QED
      BY <3>4, <3>5 DEF LooseClaims
  <2>3. ASSUME NEW o \in AllOutcomes PROVE InWindow(o.evaluated_at) /\ o \notin LooseOutcomes
    <3>1. PICK s \in Symbols : o \in RowSet(outcomes[s])
      BY <2>3 DEF AllOutcomes
    <3>2. o.by # Foreign /\ o.symbol = s
      BY <1>1, <2>3, <3>1 DEF Traced, HasNoForeignRow, Founded, IsFounded
    <3>3. IsTiedOutcome(s, o)
      BY <1>1, <3>1, <3>2 DEF Traced, OutcomesTied
    <3>4. IsCompleted(o.by)
      BY <2>1, <3>3 DEF IsTiedOutcome
    <3>5. RunsAt(log.rows, s, o.evaluated_at) # {}
      BY <1>1, <3>1, <3>2, <3>4, OutcomeIsReconciled DEF Traced, RunsAt
    <3>6. QED
      BY <3>2, <3>3, <3>5 DEF IsTiedOutcome, LooseOutcomes
  <2>4. LooseClaims \subseteq AllClaims /\ LooseOutcomes \subseteq AllOutcomes
    BY DEF LooseClaims, LooseOutcomes
  <2>5. ~Unsound
    BY <2>2, <2>3, <2>4 DEF Unsound
  <2>6. QED
    BY <1>1, <2>5, SoundIsReconcilable
<1>2. QED
  BY <1>1, TypedInvariant, OrderlyInvariant, ProspectiveInvariant, FoundedInvariant, ReadingsInvariant,
     TiedInvariant, CountedInvariant, PTL DEF Traced

-----------------------------------------------------------------------------
(* The order of runs, and of readings while the clock runs forward.        *)

(* Runs have their numbers in the order of the log, and whoever is under   *)
(* way has the last.                                                       *)
Numbered ==
    /\ \A i, j \in DOMAIN log.rows : i < j => log.rows[i].id <= log.rows[j].id
    /\ \A c \in Collectors : pc[c] \notin Waiting => run[c].id = runs

(* A number is given with the lock.                                        *)
LEMMA RunsStep ==
    ASSUME Typed, [Next]_vars
    PROVE  runs' = runs \/ \E c \in Collectors : TakeLock(c) /\ holder = Nobody /\ runs' = runs + 1
<1>1. ASSUME NEW c \in Collectors, Step(c), ~TakeLock(c) PROVE runs' = runs
  BY <1>1 DEF Step, Collect, GiveUp, LogIsCorrupt, Decide, Decided, AppendStart, Visit, BuildSnapshot,
     SnapshotUnusable, LedgerIsCorrupt, TailIsStale, BeginRefresh, RegisterClaim, RegisterRaises, ReadOutcomes,
     WriteOutcome, MeasureRaises, FinishSymbol, AppendRecord
<1>2. ASSUME NEW c \in Collectors, RefreshFails(c) \/ Crash(c) PROVE runs' = runs
  BY <1>2 DEF RefreshFails, Crash
<1>3. ASSUME NEW c \in Collectors, TakeLock(c) PROVE holder = Nobody /\ runs' = runs + 1
  BY <1>3 DEF TakeLock
<1>4. QED
  BY <1>1, <1>2, <1>3 DEF Next, Move, vars, Activation, BeginActivation, WriteManifest, ActivationFails,
     BeginHealth, EndHealth, Tick, StepClockBack, ForeignClaim, ForeignOutcome

(* Who is under way after a step was so before it, with the same number    *)
(* and start, or has taken the lock.                                       *)
LEMMA UnderWayStep ==
    ASSUME Typed, [Next]_vars, NEW c \in Collectors, pc'[c] \notin Waiting
    PROVE  \/ TakeLock(c)
           \/ /\ pc[c] \notin Waiting
              /\ run'[c].id = run[c].id /\ run'[c].started_at = run[c].started_at
              /\ Stands(c) \/ GoesOn(c) \/ \E r : Enters(c, r)
<1>1. CASE Stands(c)
  BY <1>1 DEF Stands
<1>2. CASE GoesOn(c)
  BY <1>2 DEF GoesOn
<1>3. ASSUME NEW r, Enters(c, r)
      PROVE  pc[c] \notin Waiting /\ run'[c].id = run[c].id /\ run'[c].started_at = run[c].started_at
  BY <1>3, EntersFields
<1>4. QED
  BY <1>1, <1>2, <1>3, RunStep DEF Ends

LEMMA NumberedStep ==
    ASSUME Typed, TornLogWaits, Numbered, [Next]_vars
    PROVE  Numbered'
<1>1. ASSUME NEW c \in Collectors, pc'[c] \notin Waiting PROVE run'[c].id = runs'
  <2>1. CASE TakeLock(c)
    BY <2>1, TakeLockFields DEF TakeLock
  <2>2. CASE pc[c] \notin Waiting /\ run'[c].id = run[c].id
    <3>1. holder = c /\ c # Nobody
      BY <2>2, CollectionAssumption DEF Typed, RunsOK
    <3>2. runs' = runs
      BY <3>1, RunsStep
    <3>3. QED
      BY <2>2, <3>2 DEF Numbered
  <2>3. QED
    BY <1>1, <2>1, <2>2, UnderWayStep
<1>2. /\ log.rows \in Seq(LogRows) /\ runs \in Nat
      /\ \A i \in DOMAIN log.rows : log.rows[i].id \in Nat /\ log.rows[i].id <= runs
  <2>1. log.rows \in Seq(LogRows) /\ runs \in Nat
    BY Bounds DEF Typed, WorldOK, FilesOK, File
  <2>2. \A entry \in LogRows : entry.id \in Nat
    BY Bounds DEF LogRows, Starts, Records
  <2>3. ASSUME NEW i \in DOMAIN log.rows PROVE log.rows[i].id \in Nat /\ log.rows[i].id <= runs
    <3>1. log.rows[i] \in LogRows
      BY <2>1
    <3>2. QED
      BY <2>2, <3>1 DEF Typed, WorldOK
  <2>4. QED
    BY <2>1, <2>3
<1>3. ASSUME NEW row, row.id = runs, log'.rows = Append(log.rows, row),
             NEW i \in DOMAIN log'.rows, NEW j \in DOMAIN log'.rows, i < j
      PROVE  log'.rows[i].id <= log'.rows[j].id
  <2>1. i \in DOMAIN log.rows /\ log'.rows[i] = log.rows[i]
    BY <1>2, <1>3
  <2>2. CASE j \in DOMAIN log.rows
    BY <1>2, <1>3, <2>1, <2>2 DEF Numbered
  <2>3. CASE j \notin DOMAIN log.rows
    <3>1. log'.rows[j] = row
      <4>1. PICK rows, more : rows = log.rows /\ more = log'.rows
        OBVIOUS
      <4>2. rows \in Seq(LogRows) /\ more = Append(rows, row)
        BY <1>2, <1>3, <4>1
      <4>3. /\ DOMAIN rows = 1 .. Len(rows) /\ Len(rows) \in Nat
            /\ DOMAIN more = 1 .. Len(rows) + 1 /\ more[Len(rows) + 1] = row
        BY <4>2
      <4>4. j = Len(rows) + 1
        <5>1. j \in 1 .. Len(rows) + 1 /\ j \notin 1 .. Len(rows)
          BY <1>3, <2>3, <4>1, <4>3
        <5>2. QED
          BY <4>3, <5>1
      <4>5. QED
        BY <4>1, <4>3, <4>4
    <3>2. QED
      BY <1>2, <1>3, <2>1, <3>1
  <2>4. QED
    BY <2>2, <2>3
<1>4. ASSUME NEW c \in Collectors, Begins(c) \/ Reports(c)
      PROVE  \E row : row.id = runs /\ log'.rows = Append(log.rows, row)
  <2>1. run[c].id = runs
    BY <1>4 DEF Begins, Reports, Ends, Numbered, Waiting
  <2>2. StartEntry(c).id = runs /\ RecordEntry(c).id = runs
    BY <2>1 DEF StartEntry, RecordEntry
  <2>3. QED
    BY <1>4, <2>2 DEF Begins, Reports
<1>5. ASSUME NEW i \in DOMAIN log'.rows, NEW j \in DOMAIN log'.rows, i < j
      PROVE  log'.rows[i].id <= log'.rows[j].id
  <2>1. CASE log'.rows = log.rows
    BY <1>5, <2>1 DEF Numbered
  <2>2. ASSUME NEW c \in Collectors, Begins(c) \/ Reports(c) PROVE log'.rows[i].id <= log'.rows[j].id
    <3>1. PICK row : row.id = runs /\ log'.rows = Append(log.rows, row)
      BY <1>4, <2>2
    <3>2. QED
      BY <1>3, <1>5, <3>1
  <2>3. QED
    BY <2>1, <2>2, LogStep
<1>6. QED
  BY <1>1, <1>5 DEF Numbered

LEMMA NumberedInvariant == Spec => []Numbered
<1>1. Init => Numbered
  <2> SUFFICES ASSUME Init PROVE Numbered
    OBVIOUS
  <2>1. log.rows = <<>> /\ \A c \in Collectors : pc[c] \in Waiting
    BY DEF Init, EmptyFile, Waiting
  <2>2. QED
    BY <2>1 DEF Numbered
<1>2. QED
  BY <1>1, TypedInvariant, TornLogInvariant, NumberedStep, PTL DEF Spec

(* Run k began at t; run k, or a foreign writer, wrote a row at t.         *)
Began(k, t) ==
    \/ \E i \in DOMAIN log.rows : log.rows[i].id = k /\ log.rows[i].started_at = t
    \/ \E c \in Collectors : pc[c] \notin Waiting /\ run[c].id = k /\ run[c].started_at = t

Stamped(k, t) ==
    \/ \E claim \in AllClaims : claim.by = k /\ claim.recorded_at = t
    \/ \E o \in AllOutcomes : o.by = k /\ o.evaluated_at = t

(* Without a backward step the readings of one run follow those of the     *)
(* runs before it, its start follows the activation, and its rows follow   *)
(* its start.                                                              *)
InSequence ==
    /\ activated_at <= now
    /\ \A k \in RunIds, t \in Ticks : Began(k, t) => activated_at < t /\ t <= now
    /\ \A k, l \in RunIds, t, u \in Ticks : (Began(k, t) /\ Began(l, u) /\ k < l) => t < u
    /\ \A k \in 0 .. MaxRuns, t \in Ticks : Stamped(k, t) => t <= now
    /\ \A k, l \in RunIds, t, u \in Ticks :
          (Stamped(k, t) /\ Began(l, u)) => (k < l => t < u) /\ (k = l => u < t)
    /\ \A c \in Collectors :
          (pc[c] \notin Waiting /\ run[c].built_at # NoTime) =>
              run[c].started_at < run[c].built_at /\ run[c].built_at <= now

Forward == ~seen.stepped => InSequence

(* A run begins with the lock, and with a reading nobody has taken.        *)
LEMMA BeganStep ==
    ASSUME Typed, TornLogWaits, [Next]_vars, NEW k, NEW t, Began(k, t)'
    PROVE  Began(k, t) \/ \E c \in Collectors : TakeLock(c) /\ k = runs + 1 /\ t = now
<1>1. ASSUME NEW i \in DOMAIN log'.rows, log'.rows[i].id = k, log'.rows[i].started_at = t PROVE Began(k, t)
  <2>1. CASE i \in DOMAIN log.rows /\ log'.rows[i] = log.rows[i]
    BY <1>1, <2>1 DEF Began
  <2>2. ASSUME NEW c \in Collectors,
               (Begins(c) /\ log'.rows[i] = StartEntry(c)) \/ (Reports(c) /\ log'.rows[i] = RecordEntry(c))
        PROVE  Began(k, t)
    <3>1. pc[c] \notin Waiting
      BY <2>2 DEF Begins, Reports, Ends, Waiting
    <3>2. run[c].id = k /\ run[c].started_at = t
      BY <1>1, <2>2 DEF StartEntry, RecordEntry
    <3>3. QED
      BY <3>1, <3>2 DEF Began
  <2>3. QED
    BY <2>1, <2>2, LogGrows
<1>2. ASSUME NEW c \in Collectors, pc'[c] \notin Waiting, run'[c].id = k, run'[c].started_at = t
      PROVE  Began(k, t) \/ (TakeLock(c) /\ k = runs + 1 /\ t = now)
  BY <1>2, UnderWayStep, TakeLockFields DEF Began
<1>3. QED
  BY <1>1, <1>2 DEF Began

(* A row is stamped now, by a foreign writer, or with the snapshot's clock.*)
LEMMA StampedStep ==
    ASSUME Typed, [Next]_vars, NEW k, NEW t, Stamped(k, t)'
    PROVE  \/ Stamped(k, t) \/ (k = Foreign /\ t = now)
           \/ \E c \in Collectors : /\ pc[c] \in {"registering", "measuring"}
                                    /\ run[c].id = k /\ run[c].built_at = t
<1>1. ASSUME NEW s \in Symbols, NEW claim \in RowSet(claims'[s]), claim.by = k, claim.recorded_at = t
      PROVE  \/ Stamped(k, t) \/ (k = Foreign /\ t = now)
             \/ \E c \in Collectors : pc[c] = "registering" /\ run[c].id = k /\ run[c].built_at = t
  <2>1. CASE claim \in RowSet(claims[s])
    BY <1>1, <2>1 DEF Stamped, AllClaims
  <2>2. CASE claim \notin RowSet(claims[s])
    BY <1>1, <2>2, ClaimOrigin
  <2>3. QED
    BY <2>1, <2>2
<1>2. ASSUME NEW s \in Symbols, NEW o \in RowSet(outcomes'[s]), o.by = k, o.evaluated_at = t
      PROVE  \/ Stamped(k, t) \/ (k = Foreign /\ t = now)
             \/ \E c \in Collectors : pc[c] = "measuring" /\ run[c].id = k /\ run[c].built_at = t
  <2>1. CASE o \in RowSet(outcomes[s])
    BY <1>2, <2>1 DEF Stamped, AllOutcomes
  <2>2. CASE o \notin RowSet(outcomes[s])
    BY <1>2, <2>2, OutcomeOrigin
  <2>3. QED
    BY <2>1, <2>2
<1>3. \/ \E s \in Symbols : \E claim \in RowSet(claims'[s]) : claim.by = k /\ claim.recorded_at = t
      \/ \E s \in Symbols : \E o \in RowSet(outcomes'[s]) : o.by = k /\ o.evaluated_at = t
  BY DEF Stamped, AllClaims, AllOutcomes
<1>4. QED
  BY <1>1, <1>2, <1>3

(* Both are readings.                                                      *)
LEMMA SequenceIsRead ==
    ASSUME NEW k, NEW t, Began(k, t) \/ Stamped(k, t) \/ t = activated_at
    PROVE  t \in Readings
<1>1. ASSUME NEW i \in DOMAIN log.rows, log.rows[i].started_at = t PROVE t \in Readings
  BY <1>1 DEF Readings, LogReadings
<1>2. ASSUME NEW c \in Collectors, run[c].started_at = t PROVE t \in Readings
  BY <1>2 DEF Readings, RunReadings
<1>3. QED
  BY <1>1, <1>2 DEF Began, Stamped, Readings

(* Whoever is given by number has been given it.                           *)
LEMMA SequenceIds ==
    ASSUME Typed, ClaimsTied, OutcomesTied, NEW k \in RunIds, NEW t, Began(k, t) \/ Stamped(k, t)
    PROVE  k <= runs
<1>1. k # Foreign
  BY Bounds DEF RunIds, Foreign
<1>2. ASSUME NEW s \in Symbols, NEW claim \in RowSet(claims[s]), claim.by = k PROVE k <= runs
  BY <1>1, <1>2, StartedId DEF ClaimsTied, IsTied
<1>3. ASSUME NEW s \in Symbols, NEW o \in RowSet(outcomes[s]), o.by = k PROVE k <= runs
  BY <1>1, <1>3, StartedId DEF OutcomesTied, IsTiedOutcome
<1>4. ASSUME NEW i \in DOMAIN log.rows, log.rows[i].id = k PROVE k <= runs
  BY <1>4 DEF Typed, WorldOK
<1>5. ASSUME NEW c \in Collectors, pc[c] \notin Waiting, run[c].id = k PROVE k <= runs
  BY <1>5, IdIsUnderWay, Bounds DEF RunIds, Typed, WorldOK
<1>6. QED
  BY <1>2, <1>3, <1>4, <1>5 DEF Began, Stamped, AllClaims, AllOutcomes

(* The run under way has one start, wherever it stands.                    *)
LEMMA OneStart ==
    ASSUME Typed, Orderly, NEW c \in Collectors, pc[c] \notin Waiting \cup Unlogged,
           NEW t, Began(run[c].id, t)
    PROVE  t = run[c].started_at
<1>1. IsBegun(c)
  BY DEF Orderly, RunSound
<1>2. ASSUME NEW d \in Collectors, pc[d] \notin Waiting PROVE d = c
  BY <1>2, OneAtATime
<1>3. QED
  BY <1>1, <1>2 DEF Began, IsBegun

(* A clock is read into a run when it begins, and for a snapshot.          *)
LEMMA SnapshotStep ==
    ASSUME Typed, [Next]_vars, NEW c \in Collectors, pc'[c] \notin Waiting, run'[c].built_at # NoTime
    PROVE  /\ pc[c] \notin Waiting /\ run'[c].started_at = run[c].started_at
           /\ \/ run'[c].built_at = run[c].built_at
              \/ run'[c].built_at = now /\ now' = now /\ IsFreshReading
<1>1. ~TakeLock(c)
  BY TakeLockFields
<1>2. pc[c] \notin Waiting /\ run'[c].started_at = run[c].started_at
  BY <1>1, UnderWayStep
<1>3. \A r : ~Enters(c, r)
  BY EntersFields
<1>4. Stands(c) \/ GoesOn(c)
  BY <1>1, <1>3, UnderWayStep
<1>5. BuildSnapshot(c) => now' = now /\ IsFreshReading
  BY DEF BuildSnapshot
<1>6. QED
  BY <1>2, <1>4, <1>5 DEF Stands, GoesOn

(* Nothing is logged before the activation, which has a reading of its own.*)
Untouched == root = "absent" => log.rows = <<>>

LEMMA ActivationStep ==
    ASSUME Typed, TornLogWaits, Unstarted, Untouched, [Next]_vars
    PROVE  /\ Untouched'
           /\ \/ activated_at' = activated_at
              \/ /\ activated_at' = now /\ now' = now /\ pc' = pc /\ run' = run
                 /\ \A k, t : ~Began(k, t)
<1>1. ASSUME root = "absent" PROVE (\A c \in Collectors : pc[c] \in Waiting) /\ log.rows = <<>> /\ log'.rows = <<>>
  <2>1. \A c \in Collectors : pc[c] \in Waiting
    BY <1>1 DEF Unstarted, Waiting
  <2>2. \A c \in Collectors : ~(Begins(c) \/ Reports(c))
    BY <2>1 DEF Begins, Reports, Ends, IsRecording, Waiting
  <2>3. QED
    BY <1>1, <2>1, <2>2, LogStep DEF Untouched
<1>2. Untouched'
  <2>1. ASSUME root' = "absent" PROVE log'.rows = <<>>
    <3>1. root = "absent"
      BY <2>1, ManifestStep
    <3>2. QED
      BY <1>1, <3>1
  <2>2. QED
    BY <2>1 DEF Untouched
<1>3. CASE root # "absent"
  BY <1>2, <1>3, ManifestStep
<1>4. CASE root = "absent"
  <2>1. \A k, t : ~Began(k, t)
    BY <1>1, <1>4 DEF Began
  <2>2. pc' = pc /\ run' = run
    BY <1>4, ManifestStep
  <2>3. activated_at' = activated_at \/ (activated_at' = now /\ now' = now)
    <3>1. ASSUME NEW c \in Collectors, Step(c) \/ RefreshFails(c) \/ Crash(c) PROVE activated_at' = activated_at
      BY <3>1 DEF manifest, Step, Collect, TakeLock, GiveUp, LogIsCorrupt, Decide, Decided, AppendStart, Visit,
         BuildSnapshot, SnapshotUnusable, LedgerIsCorrupt, TailIsStale, BeginRefresh, RegisterClaim, RegisterRaises,
         ReadOutcomes, WriteOutcome, MeasureRaises, FinishSymbol, AppendRecord, RefreshFails, Crash
    <3>2. QED
      BY <3>1 DEF Next, Move, vars, manifest, Activation, BeginActivation, WriteManifest, ActivationFails,
         BeginHealth, EndHealth, Tick, StepClockBack, ForeignClaim, ForeignOutcome
  <2>4. QED
    BY <1>2, <2>1, <2>2, <2>3
<1>5. QED
  BY <1>3, <1>4

LEMMA InSequenceStep ==
    ASSUME Typed, TornLogWaits, Unstarted, Untouched, Orderly, ClaimsTied, OutcomesTied, Numbered, InSequence,
           [Next]_vars, now <= now', now \in Nat, now' \in Nat
    PROVE  InSequence'
<1>1. /\ Ticks \subseteq Nat /\ RunIds \subseteq Nat /\ runs \in Nat /\ Foreign = 0
      /\ \A t \in Ticks : t \in Nat /\ t # NoTime
  BY Bounds DEF RunIds, Typed, WorldOK, NoTime, Foreign
<1>2. ASSUME NEW t \in Ticks, t <= now PROVE t <= now'
  BY <1>1, <1>2
<1>3. ASSUME NEW t \in Ticks, t <= now, IsFreshReading, t \in Readings PROVE t < now
  BY <1>1, <1>3 DEF IsFreshReading
<1>0. activated_at \in Int
  <2>1. activated_at \in Ticks \/ activated_at = NoTime
    BY DEF Typed, WorldOK
  <2>2. NoTime \in Int
    BY DEF NoTime
  <2>3. ASSUME activated_at \in Ticks PROVE activated_at \in Int
    <3>1. activated_at \in Nat
      BY <1>1, <2>3
    <3>2. QED
      BY <3>1
  <2>4. QED
    BY <2>1, <2>2, <2>3
<1>4. activated_at' <= now'
  <2>1. activated_at <= now
    BY DEF InSequence
  <2>2. QED
    BY <1>0, <2>1, ActivationStep
<1>5. ASSUME NEW c \in Collectors, TakeLock(c) PROVE IsFreshReading /\ now' = now /\ activated_at' = activated_at
  BY <1>5 DEF TakeLock, manifest
<1>6. ASSUME NEW k \in RunIds, NEW t \in Ticks, Began(k, t)' PROVE activated_at' < t /\ t <= now'
  <2>1. CASE Began(k, t)
    <3>1. activated_at' = activated_at
      BY <2>1, ActivationStep
    <3>2. activated_at < t /\ t <= now
      BY <2>1 DEF InSequence
    <3>3. QED
      BY <1>2, <3>1, <3>2
  <2>2. ASSUME NEW c \in Collectors, TakeLock(c), t = now PROVE activated_at' < t /\ t <= now'
    <3>1. activated_at <= now /\ activated_at # now
      BY <1>5, <2>2, SequenceIsRead DEF InSequence, IsFreshReading
    <3>2. QED
      BY <1>0, <1>1, <1>5, <2>2, <3>1
  <2>3. QED
    BY <1>6, <2>1, <2>2, BeganStep
<1>7. ASSUME NEW k \in RunIds, NEW l \in RunIds, NEW t \in Ticks, NEW u \in Ticks,
             Began(k, t)', Began(l, u)', k < l
      PROVE  t < u
  <2>1. CASE Began(k, t) /\ Began(l, u)
    BY <1>7, <2>1 DEF InSequence
  <2>2. ASSUME NEW c \in Collectors, TakeLock(c), l = runs + 1, u = now, Began(k, t) PROVE t < u
    <3>1. t <= now /\ t \in Readings
      BY <2>2, SequenceIsRead DEF InSequence
    <3>2. QED
      BY <1>3, <1>5, <2>2, <3>1
  <2>3. ASSUME k = runs + 1 PROVE FALSE
    <3>1. l <= runs \/ l = runs + 1
      BY <1>7, BeganStep, SequenceIds
    <3>2. QED
      BY <1>1, <1>7, <2>3, <3>1
  <2>4. QED
    BY <1>7, <2>1, <2>2, <2>3, BeganStep
<1>8. ASSUME NEW c \in Collectors, pc[c] \in {"registering", "measuring"}
      PROVE  /\ run[c].id = runs /\ run[c].started_at < run[c].built_at /\ run[c].built_at <= now
             /\ pc[c] \notin Waiting \cup Unlogged
  <2>1. pc[c] \notin Waiting \cup Unlogged /\ Stage(c)
    BY <1>8 DEF Waiting, Unlogged, Typed, RunsOK
  <2>2. run[c].built_at # NoTime
    BY <1>1, <1>8, <2>1 DEF Stage
  <2>3. QED
    BY <2>1, <2>2 DEF InSequence, Numbered
<1>9. ASSUME NEW k \in 0 .. MaxRuns, NEW t \in Ticks, Stamped(k, t)' PROVE t <= now'
  <2>1. t <= now
    BY <1>1, <1>8, <1>9, StampedStep DEF InSequence
  <2>2. QED
    BY <1>2, <2>1
<1>10. ASSUME NEW k \in RunIds, NEW l \in RunIds, NEW t \in Ticks, NEW u \in Ticks,
              Stamped(k, t)', Began(l, u)'
       PROVE  (k < l => t < u) /\ (k = l => u < t)
  <2>1. CASE Stamped(k, t) /\ Began(l, u)
    BY <2>1 DEF InSequence
  <2>2. ASSUME NEW c \in Collectors, TakeLock(c), l = runs + 1, u = now, Stamped(k, t)
        PROVE  (k < l => t < u) /\ (k = l => u < t)
    <3>1. k <= runs /\ k # l
      BY <1>1, <2>2, SequenceIds
    <3>2. k \in 0 .. MaxRuns
      BY DEF RunIds
    <3>3. t <= now /\ t \in Readings
      BY <2>2, <3>2, SequenceIsRead DEF InSequence
    <3>4. QED
      BY <1>3, <1>5, <2>2, <3>1, <3>3
  <2>3. ASSUME NEW c \in Collectors, pc[c] \in {"registering", "measuring"}, run[c].id = k, run[c].built_at = t
        PROVE  (k < l => t < u) /\ (k = l => u < t)
    <3>1. k = runs /\ run[c].started_at < t /\ pc[c] \notin Waiting \cup Unlogged
      BY <1>8, <2>3
    <3>2. \A d \in Collectors : ~TakeLock(d)
      BY <3>1, CollectionAssumption DEF TakeLock, Typed, RunsOK
    <3>3. Began(l, u)
      BY <1>10, <3>2, BeganStep
    <3>4. l <= runs
      BY <3>3, SequenceIds
    <3>5. k = l => u = run[c].started_at
      BY <2>3, <3>1, <3>3, OneStart
    <3>6. ~(k < l)
      BY <1>1, <3>1, <3>4
    <3>7. QED
      BY <3>1, <3>5, <3>6
  <2>4. k # Foreign
    BY <1>1, Bounds DEF RunIds
  <2>5. Stamped(k, t) \/ \E c \in Collectors : /\ pc[c] \in {"registering", "measuring"}
                                               /\ run[c].id = k /\ run[c].built_at = t
    BY <1>10, <2>4, StampedStep
  <2>6. Began(l, u) \/ \E c \in Collectors : TakeLock(c) /\ l = runs + 1 /\ u = now
    BY <1>10, BeganStep
  <2>7. QED
    BY <2>1, <2>2, <2>3, <2>5, <2>6
<1>11. ASSUME NEW c \in Collectors, pc'[c] \notin Waiting, run'[c].built_at # NoTime
       PROVE  run'[c].started_at < run'[c].built_at /\ run'[c].built_at <= now'
  <2>1. /\ pc[c] \notin Waiting /\ run'[c].started_at = run[c].started_at
        /\ \/ run'[c].built_at = run[c].built_at
           \/ run'[c].built_at = now /\ now' = now /\ IsFreshReading
    BY <1>11, SnapshotStep
  <2>2. run[c].id \in RunIds /\ run[c].started_at \in Ticks /\ run[c] \in RunStates
    BY <2>1, IdIsUnderWay DEF RunIds, Typed, RunsOK, Stage
  <2>3. CASE run'[c].built_at = run[c].built_at
    <3>1. run[c].started_at < run[c].built_at /\ run[c].built_at <= now
      BY <1>11, <2>1, <2>3 DEF InSequence
    <3>2. run[c].built_at \in Ticks
      BY <1>11, <2>2, <2>3 DEF RunStates
    <3>3. QED
      BY <1>2, <2>1, <2>3, <3>1, <3>2
  <2>4. CASE run'[c].built_at = now /\ now' = now /\ IsFreshReading
    <3>1. Began(run[c].id, run[c].started_at)
      BY <2>1 DEF Began
    <3>2. run[c].started_at <= now /\ run[c].started_at \in Readings
      BY <2>2, <3>1, SequenceIsRead DEF InSequence
    <3>3. QED
      BY <1>1, <1>3, <2>1, <2>2, <2>4, <3>2
  <2>5. QED
    BY <2>1, <2>3, <2>4
<1>12. QED
  BY <1>4, <1>6, <1>7, <1>9, <1>10, <1>11 DEF InSequence

LEMMA ForwardInvariant == Spec => [](Forward /\ Untouched)
<1>1. Init => Forward /\ Untouched
  <2> SUFFICES ASSUME Init PROVE InSequence /\ Untouched
    BY DEF Forward
  <2>1. \A s \in Symbols : RowSet(claims[s]) = {} /\ RowSet(outcomes[s]) = {}
    BY DEF Init, EmptyFile, RowSet
  <2>2. log.rows = <<>> /\ (\A c \in Collectors : pc[c] \in Waiting) /\ activated_at <= now
    BY DEF Init, EmptyFile, Waiting, NoTime
  <2>3. AllClaims = {} /\ AllOutcomes = {}
    BY <2>1 DEF AllClaims, AllOutcomes
  <2>4. \A k, t : ~Stamped(k, t)
    BY <2>3 DEF Stamped
  <2>5. \A k, t : ~Began(k, t)
    BY <2>2 DEF Began
  <2>6. QED
    BY <2>2, <2>4, <2>5 DEF InSequence, Untouched
<1>2. /\ Typed /\ TornLogWaits /\ Prospective /\ Orderly /\ ClaimsTied /\ OutcomesTied /\ Numbered
      /\ Forward /\ Untouched /\ [Next]_vars
      => Forward' /\ Untouched'
  BY ClockForward, ActivationStep, InSequenceStep DEF Forward, Prospective
<1>3. QED
  BY <1>1, <1>2, TypedInvariant, TornLogInvariant, ProspectiveInvariant, OrderlyInvariant, TiedInvariant,
     NumberedInvariant, PTL DEF Spec

-----------------------------------------------------------------------------
(* What a dead run leaves behind.                                          *)

(* Whatever run k wrote about a symbol it wrote at one time, of one tail.  *)
KeepsTime(s, k, t, d) ==
    /\ \A claim \in ClaimsBy(k, s) : claim.recorded_at = t /\ claim.timestamp = d
    /\ \A o \in OutcomesBy(k, s) : o.evaluated_at = t

OneClock == \A s \in Symbols, k \in RunIds : \E t, d : KeepsTime(s, k, t, d)

(* What a run under way has written about the symbol at hand has the clock *)
(* of the refresh under way.                                               *)
LEMMA HandKeepsTime ==
    ASSUME Typed, Orderly, ClaimsTied, OutcomesTied, NEW c \in Collectors, pc[c] \in {"registering", "measuring"},
           NEW s, s = Symbol(c), NEW k, k = run[c].id
    PROVE  KeepsTime(s, k, run[c].built_at, run[c].tail)
<1>1. pc[c] \notin Waiting /\ Stage(c)
  BY DEF Waiting, Typed, RunsOK
<1>2. k \in RunIds /\ k # Foreign /\ HasSymbol(c)
  BY <1>1, IdIsUnderWay, Bounds DEF RunIds, Foreign, Stage
<1>3. s \in Symbols
  BY <1>2, SymbolType DEF Typed, RunsOK
<1>4. IsLive(k)
  BY DEF IsLive
<1>5. ASSUME NEW r \in SymbolRuns, Visited(k, r), r.symbol = s PROVE FALSE
  BY <1>1, <1>2, <1>5, NotYetVisited
<1>6. ASSUME NEW d \in Collectors, NEW t, AtHand(d, k, s, t) PROVE d = c /\ t = run[c].built_at
  <2>1. pc[d] \notin Waiting
    BY <1>6 DEF AtHand, Waiting
  <2>2. d = c
    BY <1>1, <2>1, OneAtATime
  <2>3. QED
    BY <1>6, <2>2 DEF AtHand
<1>7. ASSUME NEW claim \in ClaimsBy(k, s) PROVE claim.recorded_at = run[c].built_at /\ claim.timestamp = run[c].tail
  <2>1. claim \in RowSet(claims[s]) /\ claim.by = k
    BY <1>7 DEF ClaimsBy
  <2>2. IsTied(s, claim)
    BY <1>2, <1>3, <2>1 DEF ClaimsTied
  <2>3. PICK d \in Collectors : AtHand(d, k, s, claim.recorded_at) /\ run[d].tail = claim.timestamp
    BY <1>4, <1>5, <2>1, <2>2 DEF IsTied, Wrote
  <2>4. QED
    BY <1>6, <2>3
<1>8. ASSUME NEW o \in OutcomesBy(k, s) PROVE o.evaluated_at = run[c].built_at
  <2>1. o \in RowSet(outcomes[s]) /\ o.by = k
    BY <1>8 DEF OutcomesBy
  <2>2. IsTiedOutcome(s, o)
    BY <1>2, <1>3, <2>1 DEF OutcomesTied
  <2>3. PICK d \in Collectors : AtHand(d, k, s, o.evaluated_at)
    BY <1>4, <1>5, <2>1, <2>2 DEF IsTiedOutcome, Wrote
  <2>4. QED
    BY <1>6, <2>3
<1>9. QED
  BY <1>7, <1>8 DEF KeepsTime

LEMMA OneClockStep ==
    ASSUME Typed, Orderly, ClaimsTied, OutcomesTied, OneClock, [Next]_vars
    PROVE  OneClock'
<1> SUFFICES ASSUME NEW s \in Symbols, NEW k \in RunIds
             PROVE  \E t, d : KeepsTime(s, k, t, d)'
  BY DEF OneClock
<1>1. k # Foreign
  BY Bounds DEF RunIds, Foreign
<1>2. ASSUME NEW claim \in RowSet(claims'[s]), claim.by = k, claim \notin RowSet(claims[s])
      PROVE  \E c \in Collectors : /\ pc[c] \in {"registering", "measuring"} /\ s = Symbol(c) /\ k = run[c].id
                                   /\ claim.recorded_at = run[c].built_at /\ claim.timestamp = run[c].tail
  BY <1>1, <1>2, ClaimWriter
<1>3. ASSUME NEW o \in RowSet(outcomes'[s]), o.by = k, o \notin RowSet(outcomes[s])
      PROVE  \E c \in Collectors : /\ pc[c] \in {"registering", "measuring"} /\ s = Symbol(c) /\ k = run[c].id
                                   /\ o.evaluated_at = run[c].built_at
  BY <1>1, <1>3, OutcomeWriter
<1>4. ASSUME NEW c \in Collectors, pc[c] \in {"registering", "measuring"}, s = Symbol(c), k = run[c].id
      PROVE  \E t, d : KeepsTime(s, k, t, d)'
  <2>1. KeepsTime(s, k, run[c].built_at, run[c].tail)
    BY <1>4, HandKeepsTime
  <2>2. PICK t, d : t = run[c].built_at /\ d = run[c].tail
    OBVIOUS
  <2>3. ASSUME NEW e \in Collectors, pc[e] \in {"registering", "measuring"} PROVE e = c
    BY <1>4, <2>3, OneAtATime DEF Waiting
  <2>4. ASSUME NEW claim \in RowSet(claims'[s]), claim.by = k PROVE claim.recorded_at = t /\ claim.timestamp = d
    <3>1. CASE claim \in RowSet(claims[s])
      BY <2>1, <2>2, <2>4, <3>1 DEF KeepsTime, ClaimsBy
    <3>2. CASE claim \notin RowSet(claims[s])
      <4>1. PICK e \in Collectors : /\ pc[e] \in {"registering", "measuring"}
                                    /\ claim.recorded_at = run[e].built_at /\ claim.timestamp = run[e].tail
        BY <1>2, <2>4, <3>2
      <4>2. e = c
        BY <2>3, <4>1
      <4>3. QED
        BY <2>2, <4>1, <4>2
    <3>3. QED
      BY <3>1, <3>2
  <2>5. ASSUME NEW o \in RowSet(outcomes'[s]), o.by = k PROVE o.evaluated_at = t
    <3>1. CASE o \in RowSet(outcomes[s])
      BY <2>1, <2>2, <2>5, <3>1 DEF KeepsTime, OutcomesBy
    <3>2. CASE o \notin RowSet(outcomes[s])
      <4>1. PICK e \in Collectors : pc[e] \in {"registering", "measuring"} /\ o.evaluated_at = run[e].built_at
        BY <1>3, <2>5, <3>2
      <4>2. e = c
        BY <2>3, <4>1
      <4>3. QED
        BY <2>2, <4>1, <4>2
    <3>3. QED
      BY <3>1, <3>2
  <2>6. KeepsTime(s, k, t, d)'
    BY <2>4, <2>5 DEF KeepsTime, ClaimsBy, OutcomesBy
  <2>7. QED
    BY <2>6
<1>5. CASE \E c \in Collectors : pc[c] \in {"registering", "measuring"} /\ s = Symbol(c) /\ k = run[c].id
  BY <1>4, <1>5
<1>6. CASE ~ \E c \in Collectors : pc[c] \in {"registering", "measuring"} /\ s = Symbol(c) /\ k = run[c].id
  <2>1. PICK t, d : KeepsTime(s, k, t, d)
    BY DEF OneClock
  <2>2. \A claim \in RowSet(claims'[s]) : claim.by = k => claim \in RowSet(claims[s])
    BY <1>2, <1>6
  <2>3. \A o \in RowSet(outcomes'[s]) : o.by = k => o \in RowSet(outcomes[s])
    BY <1>3, <1>6
  <2>4. KeepsTime(s, k, t, d)'
    BY <2>1, <2>2, <2>3 DEF KeepsTime, ClaimsBy, OutcomesBy
  <2>5. QED
    BY <2>4
<1>7. QED
  BY <1>5, <1>6

LEMMA OneClockInvariant == Spec => []OneClock
<1>1. Init => OneClock
  <2> SUFFICES ASSUME Init, NEW s \in Symbols, NEW k \in RunIds PROVE KeepsTime(s, k, 0, 0)
    BY DEF OneClock
  <2>1. RowSet(claims[s]) = {} /\ RowSet(outcomes[s]) = {}
    BY DEF Init, EmptyFile, RowSet
  <2>2. QED
    BY <2>1 DEF KeepsTime, ClaimsBy, OutcomesBy
<1>2. QED
  BY <1>1, TypedInvariant, OrderlyInvariant, TiedInvariant, OneClockStep, PTL DEF Spec

(* The start of run k, where the log has it, is the run that the interval  *)
(* of k's rows is put to: later runs began after them, or too long after.   *)
IsStartOf(i, k) == i \in DOMAIN log.rows /\ IsStart(log.rows[i]) /\ log.rows[i].id = k

LEMMA PutToItsRun ==
    ASSUME Typed, Orderly, Numbered, InSequence, AreSpaced,
           NEW k \in RunIds, ~IsCompleted(k), NEW i, IsStartOf(i, k),
           NEW t \in Ticks, Stamped(k, t),
           Date(t) = Date(log.rows[i].started_at), t - log.rows[i].started_at <= MaxSpan
    PROVE  InterruptedRunFor(log.rows, t) = i
<1>1. log.rows \in Seq(LogRows) /\ LogSound
  BY DEF Typed, WorldOK, FilesOK, File, Orderly
<1>2. DOMAIN log.rows = 1 .. Len(log.rows) /\ Len(log.rows) \in Nat /\ i \in DOMAIN log.rows
  BY <1>1 DEF IsStartOf
<1>3. ASSUME NEW j \in DOMAIN log.rows
      PROVE  /\ log.rows[j].id \in RunIds /\ log.rows[j].started_at \in Ticks
             /\ log.rows[j].started_at \in Nat /\ Began(log.rows[j].id, log.rows[j].started_at)
  <2>1. log.rows[j] \in LogRows
    BY <1>1
  <2>2. log.rows[j].id \in RunIds /\ log.rows[j].started_at \in Ticks
    BY <2>1 DEF LogRows, Starts, Records, RunIds
  <2>3. log.rows[j].started_at \in Nat
    BY <2>2, Bounds
  <2>4. Began(log.rows[j].id, log.rows[j].started_at)
    BY DEF Began
  <2>5. QED
    BY <2>2, <2>3, <2>4
<1>4. t \in Nat /\ Tolerance \in Nat
  BY Bounds, PolicyAssumption
<1>5. PICK u : u = log.rows[i].started_at
  OBVIOUS
<1>6. u \in Ticks /\ u \in Nat /\ Began(k, u) /\ u < t
  <2>1. u \in Ticks /\ u \in Nat /\ Began(k, u)
    BY <1>2, <1>3, <1>5 DEF IsStartOf
  <2>2. QED
    BY <2>1 DEF InSequence
<1>7. ASSUME i < Len(log.rows) PROVE t < log.rows[i + 1].started_at
  <2>1. i + 1 \in DOMAIN log.rows /\ i < i + 1
    BY <1>2, <1>7
  <2>2. PICK l, v : l = log.rows[i + 1].id /\ v = log.rows[i + 1].started_at
    OBVIOUS
  <2>3. l \in RunIds /\ v \in Ticks /\ Began(l, v)
    BY <1>3, <2>1, <2>2
  <2>4. k <= l
    BY <1>2, <2>1, <2>2 DEF Numbered, IsStartOf
  <2>5. k # l
    <3>1. l = k => IsCompletion(log.rows[i + 1])
      BY <1>1, <1>2, <2>1, <2>2 DEF LogSound, IsSecond, IsStartOf
    <3>2. QED
      BY <2>1, <2>2, <3>1 DEF IsCompleted
  <2>6. k < l
    BY <2>3, <2>4, <2>5, Bounds DEF RunIds
  <2>7. t < v
    BY <2>3, <2>6 DEF InSequence
  <2>8. QED
    BY <2>2, <2>7
<1>8. Explains(log.rows, i, t)
  <2>1. u - Tolerance <= t
    BY <1>4, <1>6
  <2>2. QED
    BY <1>5, <1>7, <2>1 DEF Explains
<1>9. i \in Interrupted(log.rows)
  BY <1>2 DEF Interrupted, IsStartOf, Completed, IsCompleted
<1>10. ASSUME NEW j \in Interrupted(log.rows), Explains(log.rows, j, t) PROVE j <= i
  <2>1. j \in DOMAIN log.rows /\ IsStart(log.rows[j])
    BY DEF Interrupted
  <2>2. PICK v : v = log.rows[j].started_at
    OBVIOUS
  <2>3. v \in Nat /\ v - Tolerance <= t
    BY <1>3, <1>10, <2>1, <2>2 DEF Explains
  <2>4. ASSUME i < j PROVE v > t + Tolerance
    <3>1. \/ t \in {claim.recorded_at : claim \in {c \in AllClaims : c.by = log.rows[i].id}}
          \/ t \in {o.evaluated_at : o \in {r \in AllOutcomes : r.by = log.rows[i].id}}
      BY DEF Stamped, IsStartOf
    <3>2. QED
      BY <1>2, <2>1, <2>2, <2>4, <3>1 DEF AreSpaced, IsStartOf
  <2>5. ~(i < j)
    BY <1>4, <2>3, <2>4
  <2>6. QED
    BY <1>2, <2>1, <2>5
<1> DEFINE candidates == {j \in Interrupted(log.rows) : Explains(log.rows, j, t)}
<1>11. i \in candidates /\ \A j \in candidates : j <= i /\ j \in DOMAIN log.rows
  BY <1>8, <1>9, <1>10 DEF Interrupted
<1> HIDE DEF candidates
<1>12. ASSUME NEW m \in candidates, \A j \in candidates : j <= m PROVE m = i
  BY <1>2, <1>11, <1>12
<1>13. (CHOOSE m \in candidates : \A j \in candidates : j <= m) = i
  BY <1>11, <1>12
<1>14. QED
  BY <1>11, <1>13 DEF candidates, InterruptedRunFor

(* No refresh in the log has the reading of what a dead run wrote.         *)
LEMMA DeadIsUnmatched ==
    ASSUME Typed, Orderly, ReadingsApart, NEW k \in RunIds, ~IsCompleted(k), NEW t \in Ticks, Stamped(k, t), NEW s
    PROVE  RunsAt(log.rows, s, t) = {}
<1> SUFFICES ASSUME NEW r \in RunsAt(log.rows, s, t) PROVE FALSE
  OBVIOUS
<1>1. r \in Refreshed(log.rows) /\ r.built_at = t
  BY DEF RunsAt
<1>2. PICK l \in RunIds : IsRecorded(l, r)
  BY <1>1, RefreshedIsRecorded
<1>3. r \in SymbolRuns /\ IsCompleted(l)
  BY <1>1, <1>2, RefreshedIsRecorded DEF IsRecorded, IsCompleted
<1>4. Took(l, t)
  BY <1>1, <1>2, <1>3 DEF Took, Visited
<1>5. k = l
  BY <1>4 DEF ReadingsApart, Stamped
<1>6. QED
  BY <1>3, <1>5

(* A row that a dead run wrote in time is put to that run.                 *)
LEMMA OrphanClaimRun ==
    ASSUME Typed, Orderly, Prospective, Numbered, InSequence, AreSpaced, ReadingsApart, ClaimsTied,
           NEW claim \in AllClaims, claim.by # Foreign, ~IsCompleted(claim.by), WasPrompt(claim, claim.recorded_at)
    PROVE  /\ ~IsReconciled(log.rows, claim)
           /\ \E i : IsStartOf(i, claim.by) /\ RunOfClaim(log.rows, claim, activated_at) = i
<1>1. PICK s \in Symbols : claim \in RowSet(claims[s])
  BY DEF AllClaims
<1>2. PICK k, t : k = claim.by /\ t = claim.recorded_at
  OBVIOUS
<1>3. IsStarted(k)
  BY <1>1, <1>2 DEF ClaimsTied, IsTied
<1>4. k \in RunIds /\ t \in Ticks /\ Stamped(k, t)
  <2>1. claim \in Claims
    BY RowTypes
  <2>2. t \in Ticks
    BY <1>2, <2>1 DEF Claims
  <2>3. k \in RunIds
    BY <1>3, StartedId
  <2>4. QED
    BY <1>2, <2>2, <2>3 DEF Stamped
<1>5. PICK i : IsStartOf(i, k)
  BY <1>3 DEF IsStarted, IsStartOf
<1>6. Date(t) = Date(log.rows[i].started_at) /\ t - log.rows[i].started_at <= MaxSpan
  BY <1>2, <1>5 DEF WasPrompt, IsStartOf
<1>7. InterruptedRunFor(log.rows, t) = i
  BY <1>2, <1>4, <1>5, <1>6, PutToItsRun
<1>8. RunsAt(log.rows, claim.symbol, t) = {}
  BY <1>2, <1>4, DeadIsUnmatched
<1>9. ~HasProblem(claim, activated_at)
  BY OwnClaimIsSound
<1>10. QED
  BY <1>2, <1>5, <1>7, <1>8, <1>9 DEF IsReconciled, RunOfClaim

LEMMA OrphanOutcomeRun ==
    ASSUME Typed, Orderly, Numbered, InSequence, AreSpaced, ReadingsApart, OutcomesTied,
           NEW o \in AllOutcomes, o.by # Foreign, ~IsCompleted(o.by), WasPrompt(o, o.evaluated_at)
    PROVE  /\ InWindow(o.evaluated_at) /\ RunsAt(log.rows, o.symbol, o.evaluated_at) = {}
           /\ \E i : IsStartOf(i, o.by) /\ RunOfOutcome(log.rows, o) = i
<1>1. PICK s \in Symbols : o \in RowSet(outcomes[s])
  BY DEF AllOutcomes
<1>2. PICK k, t : k = o.by /\ t = o.evaluated_at
  OBVIOUS
<1>3. IsStarted(k) /\ InWindow(t)
  BY <1>1, <1>2 DEF OutcomesTied, IsTiedOutcome
<1>4. k \in RunIds /\ t \in Ticks /\ Stamped(k, t)
  <2>1. o \in Outcomes
    BY RowTypes
  <2>2. t \in Ticks
    BY <1>2, <2>1 DEF Outcomes
  <2>3. k \in RunIds
    BY <1>3, StartedId
  <2>4. QED
    BY <1>2, <2>2, <2>3 DEF Stamped
<1>5. PICK i : IsStartOf(i, k)
  BY <1>3 DEF IsStarted, IsStartOf
<1>6. Date(t) = Date(log.rows[i].started_at) /\ t - log.rows[i].started_at <= MaxSpan
  BY <1>2, <1>5 DEF WasPrompt, IsStartOf
<1>7. InterruptedRunFor(log.rows, t) = i
  BY <1>2, <1>4, <1>5, <1>6, PutToItsRun
<1>8. RunsAt(log.rows, o.symbol, t) = {}
  BY <1>2, <1>4, DeadIsUnmatched
<1>9. QED
  BY <1>2, <1>3, <1>5, <1>7, <1>8 DEF RunOfOutcome

(* While the clock runs forward, every run begins after activation.        *)
LEMMA ForwardActivation ==
    ASSUME Typed, InSequence
    PROVE  AllAfterActivation
<1> SUFFICES ASSUME NEW i \in DOMAIN log.rows, IsStart(log.rows[i]) PROVE log.rows[i].started_at > activated_at
  BY DEF AllAfterActivation
<1>1. PICK k, t : k = log.rows[i].id /\ t = log.rows[i].started_at
  OBVIOUS
<1>2. log.rows[i] \in LogRows
  BY DEF Typed, WorldOK, FilesOK, File
<1>3. k \in RunIds /\ t \in Ticks
  BY <1>1, <1>2 DEF LogRows, Starts, Records, RunIds
<1>4. activated_at < t
  BY <1>1, <1>3 DEF InSequence, Began
<1>5. QED
  BY <1>1, <1>4

(* SpacedDeathsOnlyDegrade: while the clock runs forward and runs keep the  *)
(* tolerance between them, no death of a prompt run makes provenance       *)
(* invalid: what it left behind is attributed to it.                       *)
THEOREM SpacedDeathsAreDegraded == Spec => []SpacedDeathsOnlyDegrade
<1>1. ASSUME Traced, Numbered, Forward, OneClock PROVE SpacedDeathsOnlyDegrade
  <2> SUFFICES ASSUME HasNoForeignRow, AreSpaced, ~seen.stepped, holder = Nobody,
                      \A claim \in AllClaims : WasPrompt(claim, claim.recorded_at),
                      \A o \in AllOutcomes : WasPrompt(o, o.evaluated_at),
                      \A s \in Symbols : IsReadable(s)
               PROVE  IsReconcilable(log.rows, AllClaims, AllOutcomes, activated_at)
    BY DEF SpacedDeathsOnlyDegrade, DeathsOnlyDegrade, Verdict, VerifyProvenance
  <2>1. InSequence /\ AllAfterActivation
    BY <1>1, ForwardActivation DEF Forward, Traced
  <2>2. ASSUME NEW claim \in AllClaims
        PROVE  /\ ~HasProblem(claim, activated_at)
               /\ claim \in LooseClaims => /\ claim \in RowSet(claims[claim.symbol]) /\ claim.symbol \in Symbols
                                           /\ claim.by \in RunIds /\ IsStartOf(RunOf(claim), claim.by)
    <3>1. PICK s \in Symbols : claim \in RowSet(claims[s])
      BY <2>2 DEF AllClaims
    <3>2. claim.symbol = s /\ claim.by # Foreign
      BY <1>1, <2>2, <3>1 DEF Traced, Prospective, FiledBySymbol, HasNoForeignRow
    <3>3. ~HasProblem(claim, activated_at)
      BY <1>1, <2>2, <3>2, OwnClaimIsSound DEF Traced
    <3>4. ASSUME claim \in LooseClaims PROVE ~IsCompleted(claim.by)
      BY <1>1, <3>1, <3>2, <3>4, ClaimIsReconciled DEF Traced, IsReconciled, RunsAt, LooseClaims
    <3>5. ASSUME claim \in LooseClaims PROVE IsStartOf(RunOf(claim), claim.by)
      BY <1>1, <2>1, <2>2, <3>2, <3>4, <3>5, OrphanClaimRun DEF Traced, RunOf
    <3>6. claim.by \in RunIds
      BY <1>1, <3>1, <3>2, StartedId DEF Traced, ClaimsTied, IsTied
    <3>7. QED
      BY <3>1, <3>2, <3>3, <3>5, <3>6
  <2>3. ASSUME NEW o \in AllOutcomes
        PROVE  /\ InWindow(o.evaluated_at)
               /\ o \in LooseOutcomes => /\ o \in RowSet(outcomes[o.symbol]) /\ o.symbol \in Symbols
                                         /\ o.by \in RunIds /\ IsStartOf(RunAt(o), o.by)
    <3>1. PICK s \in Symbols : o \in RowSet(outcomes[s])
      BY <2>3 DEF AllOutcomes
    <3>2. o.by # Foreign /\ o.symbol = s
      BY <1>1, <2>3, <3>1 DEF Traced, HasNoForeignRow, Founded, IsFounded
    <3>3. IsTiedOutcome(s, o)
      BY <1>1, <3>1, <3>2 DEF Traced, OutcomesTied
    <3>4. ASSUME o \in LooseOutcomes PROVE ~IsCompleted(o.by)
      BY <1>1, <3>1, <3>2, <3>4, OutcomeIsReconciled DEF Traced, RunsAt, LooseOutcomes
    <3>5. ASSUME o \in LooseOutcomes PROVE IsStartOf(RunAt(o), o.by)
      BY <1>1, <2>1, <2>3, <3>2, <3>4, <3>5, OrphanOutcomeRun DEF Traced, RunAt
    <3>6. InWindow(o.evaluated_at) /\ o.by \in RunIds
      BY <1>1, <3>3, StartedId DEF Traced, IsTiedOutcome
    <3>7. QED
      BY <3>1, <3>2, <3>5, <3>6
  <2>4. LooseClaims \subseteq AllClaims /\ LooseOutcomes \subseteq AllOutcomes
    BY DEF LooseClaims, LooseOutcomes
  <2>5. \A i, k : IsStartOf(i, k) => i # 0 /\ k = log.rows[i].id
    <3>1. log.rows \in Seq(LogRows)
      BY <1>1 DEF Traced, Typed, WorldOK, FilesOK, File
    <3>2. QED
      BY <3>1 DEF IsStartOf
  <2>6. ASSUME NEW c \in LooseClaims, NEW d \in LooseClaims, c.symbol = d.symbol, RunOf(c) = RunOf(d)
        PROVE  c.recorded_at = d.recorded_at /\ c.timestamp = d.timestamp
    <3>1. c.by = d.by
      BY <2>2, <2>4, <2>5, <2>6
    <3>2. PICK t, tail : KeepsTime(c.symbol, c.by, t, tail)
      BY <1>1, <2>2, <2>4 DEF OneClock
    <3>3. QED
      BY <2>2, <2>4, <2>6, <3>1, <3>2 DEF KeepsTime, ClaimsBy
  <2>7. ASSUME NEW o \in LooseOutcomes, NEW p \in LooseOutcomes, o.symbol = p.symbol, RunAt(o) = RunAt(p)
        PROVE  o.evaluated_at = p.evaluated_at
    <3>1. o.by = p.by
      BY <2>3, <2>4, <2>5, <2>7
    <3>2. PICK t, tail : KeepsTime(o.symbol, o.by, t, tail)
      BY <1>1, <2>3, <2>4 DEF OneClock
    <3>3. QED
      BY <2>3, <2>4, <2>7, <3>1, <3>2 DEF KeepsTime, OutcomesBy
  <2>8. ASSUME NEW o \in LooseOutcomes, NEW c \in LooseClaims, o.symbol = c.symbol, RunAt(o) = RunOf(c)
        PROVE  o.evaluated_at = c.recorded_at
    <3>1. o.by = c.by
      BY <2>2, <2>3, <2>4, <2>5, <2>8
    <3>2. PICK t, tail : KeepsTime(o.symbol, o.by, t, tail)
      BY <1>1, <2>3, <2>4 DEF OneClock
    <3>3. QED
      BY <2>2, <2>3, <2>4, <2>8, <3>1, <3>2 DEF KeepsTime, ClaimsBy, OutcomesBy
  <2>9. /\ \A c \in LooseClaims : RunOf(c) # 0
        /\ \A o \in LooseOutcomes : RunAt(o) # 0
    BY <2>2, <2>3, <2>4, <2>5
  <2>10. ~Unsound
    BY <2>2, <2>3, <2>6, <2>7, <2>8, <2>9 DEF Unsound
  <2>11. QED
    BY <1>1, <2>1, <2>10, SoundIsReconcilable
<1>2. QED
  BY <1>1, TypedInvariant, OrderlyInvariant, ProspectiveInvariant, FoundedInvariant, ReadingsInvariant,
     TiedInvariant, CountedInvariant, NumberedInvariant, ForwardInvariant, OneClockInvariant, PTL DEF Traced

-----------------------------------------------------------------------------
(* An invalid ledger.                                                      *)

(* The record of a refusal completes nothing and interrupts nothing, and   *)
(* ends the interval of the entry before it.                               *)
LEMMA RefusalAppended ==
    ASSUME NEW Entry, NEW rows \in Seq(Entry), NEW entry \in Entry, IsRefusal(entry),
           NEW more, more = Append(rows, entry)
    PROVE  /\ Refreshed(more) = Refreshed(rows)
           /\ Interrupted(more) = Interrupted(rows)
           /\ \A t : \A i \in DOMAIN rows :
                 Explains(more, i, t) <=> Explains(rows, i, t) /\ (i = Len(rows) => t < entry.started_at)
<1>1. /\ DOMAIN rows = 1 .. Len(rows) /\ DOMAIN more = 1 .. Len(rows) + 1 /\ Len(rows) \in Nat
      /\ Len(more) = Len(rows) + 1 /\ more[Len(rows) + 1] = entry
      /\ \A i \in DOMAIN rows : more[i] = rows[i]
  OBVIOUS
<1>2. ~IsStart(entry) /\ ~IsCompletion(entry)
  BY DEF IsRefusal, IsStart, IsCompletion
<1>3. ASSUME NEW i \in DOMAIN rows PROVE IsPaired(more, i) <=> IsPaired(rows, i)
  <2>1. \A j \in 1 .. i - 1 : j \in DOMAIN rows /\ more[j] = rows[j]
    BY <1>1
  <2>2. QED
    BY <1>1, <2>1 DEF IsPaired
<1>4. Completed(more) = Completed(rows)
  <2>1. ASSUME NEW i PROVE i \in Completed(more) <=> i \in Completed(rows)
    BY <1>1, <1>2, <1>3 DEF Completed
  <2>2. QED
    BY <2>1
<1>5. \A i \in Completed(rows) : i \in DOMAIN rows /\ more[i] = rows[i]
  BY <1>1 DEF Completed
<1>6. Refreshed(more) = Refreshed(rows)
  <2>1. ASSUME NEW r PROVE r \in Refreshed(more) <=> r \in Refreshed(rows)
    BY <1>4, <1>5 DEF Refreshed
  <2>2. QED
    BY <2>1
<1>7. Interrupted(more) = Interrupted(rows)
  <2>1. ASSUME NEW i PROVE i \in Interrupted(more) <=> i \in Interrupted(rows)
    BY <1>1, <1>2, <1>4, <1>5 DEF Interrupted
  <2>2. QED
    BY <2>1
<1>8. ASSUME NEW i \in DOMAIN rows, NEW t
      PROVE  Explains(more, i, t) <=> Explains(rows, i, t) /\ (i = Len(rows) => t < entry.started_at)
  <2>1. CASE i = Len(rows)
    BY <1>1, <2>1 DEF Explains
  <2>2. CASE i # Len(rows)
    <3>1. i < Len(rows) /\ i < Len(more) /\ i + 1 \in DOMAIN rows
      BY <1>1, <2>2
    <3>2. QED
      BY <1>1, <2>2, <3>1 DEF Explains
  <2>3. QED
    BY <2>1, <2>2
<1>9. QED
  BY <1>6, <1>7, <1>8

(* A reading is put to the run it was put to, or to none any more.         *)
LEMMA RefusalEndsInterval ==
    ASSUME NEW Entry, NEW rows \in Seq(Entry), NEW entry \in Entry, IsRefusal(entry),
           NEW more, more = Append(rows, entry), entry.started_at \in Nat,
           \A i \in DOMAIN rows : rows[i].started_at \in Nat /\ rows[i].started_at < entry.started_at,
           \A i, j \in DOMAIN rows : i <= j => rows[i].started_at <= rows[j].started_at,
           NEW t \in Nat
    PROVE  InterruptedRunFor(more, t) \in {InterruptedRunFor(rows, t), 0}
<1> DEFINE before == {i \in Interrupted(rows) : Explains(rows, i, t)}
           after  == {i \in Interrupted(more) : Explains(more, i, t)}
<1>1. DOMAIN rows = 1 .. Len(rows) /\ Len(rows) \in Nat
  OBVIOUS
<1>2. Interrupted(more) = Interrupted(rows) /\ Interrupted(rows) \subseteq DOMAIN rows
  <2>1. Interrupted(more) = Interrupted(rows)
    BY RefusalAppended
  <2>2. Interrupted(rows) \subseteq DOMAIN rows
    BY DEF Interrupted
  <2>3. QED
    BY <2>1, <2>2
<1>3. \A i : i \in after <=> i \in before /\ (i = Len(rows) => t < entry.started_at)
  <2>1. \A i \in DOMAIN rows :
            Explains(more, i, t) <=> Explains(rows, i, t) /\ (i = Len(rows) => t < entry.started_at)
    BY RefusalAppended
  <2>2. QED
    BY <1>2, <2>1
<1> HIDE DEF before, after
<1>4. CASE after = before
  BY <1>4 DEF before, after, InterruptedRunFor
<1>5. CASE after # before
  <2>1. PICK n : n \in before /\ n = Len(rows) /\ ~(t < entry.started_at)
    BY <1>3, <1>5
  <2>2. ASSUME NEW i \in after PROVE FALSE
    <3>1. i \in before /\ i # n /\ i \in DOMAIN rows
      BY <1>2, <1>3, <2>1, <2>2 DEF before
    <3>2. i < n /\ i + 1 \in DOMAIN rows /\ n \in DOMAIN rows /\ i + 1 <= n
      BY <1>1, <1>2, <2>1, <3>1 DEF before
    <3>3. t < rows[i + 1].started_at
      BY <2>1, <3>1, <3>2 DEF before, Explains
    <3>4. rows[i + 1].started_at <= rows[n].started_at /\ rows[n].started_at < entry.started_at
      BY <3>2
    <3>5. rows[i + 1].started_at \in Nat /\ rows[n].started_at \in Nat
      BY <3>2
    <3>6. QED
      BY <2>1, <3>3, <3>4, <3>5
  <2>3. after = {}
    BY <2>2
  <2>4. QED
    BY <2>3 DEF after, InterruptedRunFor
<1>6. QED
  BY <1>4, <1>5

(* A ledger is condemned over a file that cannot be read, or a row; and    *)
(* over such a ledger collectors get no further than a refusal.            *)
Condemned == (\E s \in Symbols : ~IsReadable(s)) \/ Unsound

AllRefuse == \A c \in Collectors : pc[c] \in Waiting \cup {"deciding", "recording"}

LEMMA CondemnedVerdict ==
    ASSUME Typed, Condemned
    PROVE  Verdict \in {"invalid", "unknown"}
BY UnsoundIsInvalid DEF Condemned, Verdict, VerifyProvenance

LEMMA RefuseStep ==
    ASSUME Typed, Condemned, AllRefuse, [Next]_vars
    PROVE  AllRefuse'
<1> SUFFICES ASSUME NEW c \in Collectors PROVE pc'[c] \in Waiting \cup {"deciding", "recording"}
  BY DEF AllRefuse
<1>1. pc[c] \in Waiting \cup {"deciding", "recording"} /\ pc \in [Collectors -> Labels]
  BY DEF AllRefuse, Typed, RunsOK
<1>2. CASE Stands(c)
  BY <1>1, <1>2 DEF Stands
<1>3. CASE TakeLock(c)
  BY <1>1, <1>3 DEF TakeLock, Goto
<1>4. CASE Ends(c)
  BY <1>4 DEF Ends
<1>5. ASSUME NEW r, Enters(c, r) PROVE FALSE
  BY <1>1, <1>5 DEF Enters, Waiting
<1>6. CASE GoesOn(c)
  <2>1. Decide(c)
    BY <1>1, <1>6 DEF GoesOn, AppendStart, Visit, BuildSnapshot, BeginRefresh, RegisterClaim, ReadOutcomes,
                      WriteOutcome, Waiting
  <2>2. PICK configuration \in LiveConfiguration, collector \in CollectorIdentity :
            Decided(c, Decision(c, configuration, collector))
    BY <2>1 DEF Decide
  <2>3. Verdict \notin {"ok", "degraded"}
    BY CondemnedVerdict
  <2>4. Decision(c, configuration, collector) # "completed"
    BY <2>3 DEF Decision, PermitsCollection, LiveConfiguration, CollectorIdentity
  <2>5. QED
    BY <1>1, <2>2, <2>4 DEF Decided, Goto
<1>7. QED
  BY <1>2, <1>3, <1>4, <1>5, <1>6, RunStep

(* A file that cannot be read stays as it is.                              *)
LEMMA DamageStands ==
    ASSUME Typed, [Next]_vars, NEW s \in Symbols, ~IsReadable(s)
    PROVE  ~IsReadable(s)'
<1>1. claims \in [Symbols -> File(Claims)] /\ outcomes \in [Symbols -> File(Outcomes)]
  BY DEF Typed, WorldOK, FilesOK
<1>2. ASSUME ~Readable(claims[s]) PROVE claims'[s] = claims[s]
  <2>1. ASSUME NEW t \in Symbols, NEW row, IsOffered(t, row), ClaimAppended(t, row) PROVE claims'[s] = claims[s]
    <3>1. s # t
      BY <1>2, <2>1 DEF IsOffered
    <3>2. PICK f : claims' = [claims EXCEPT ![t] = f]
      BY <2>1 DEF ClaimAppended
    <3>3. QED
      BY <1>1, <3>1, <3>2
  <2>2. QED
    BY <2>1, FilesChange DEF ClaimsChange
<1>3. ASSUME ~Readable(outcomes[s]) PROVE outcomes'[s] = outcomes[s]
  <2>1. ASSUME NEW t \in Symbols, NEW row, IsMeasured(t, row), OutcomeAppended(t, row)
        PROVE  outcomes'[s] = outcomes[s]
    <3>1. s # t
      BY <1>3, <2>1 DEF IsMeasured
    <3>2. PICK f : outcomes' = [outcomes EXCEPT ![t] = f]
      BY <2>1 DEF OutcomeAppended
    <3>3. QED
      BY <1>1, <3>1, <3>2
  <2>2. QED
    BY <2>1, FilesChange DEF OutcomesChange
<1>4. QED
  BY <1>2, <1>3 DEF IsReadable

(* Over a condemned ledger, and with the clock running forward, a reading  *)
(* is put to the run it was put to, or to none any more.                   *)
LEMMA RunsStandCondemned ==
    ASSUME Typed, TornLogWaits, Orderly, Numbered, InSequence, AllRefuse, [Next]_vars
    PROVE  /\ Refreshed(log'.rows) = Refreshed(log.rows)
           /\ \A t \in Ticks : InterruptedRunFor(log'.rows, t) \in {InterruptedRunFor(log.rows, t), 0}
<1>1. log.rows \in Seq(LogRows) /\ LogSound
  BY DEF Typed, WorldOK, FilesOK, File, Orderly
<1>2. ASSUME NEW c \in Collectors PROVE ~Begins(c)
  BY DEF Begins, AllRefuse, Waiting
<1>3. CASE log'.rows = log.rows
  BY <1>3
<1>4. ASSUME NEW c \in Collectors, Reports(c)
      PROVE  /\ Refreshed(log'.rows) = Refreshed(log.rows)
             /\ \A t \in Ticks : InterruptedRunFor(log'.rows, t) \in {InterruptedRunFor(log.rows, t), 0}
  <2>1. pc[c] = "recording" /\ log'.rows = Append(log.rows, RecordEntry(c)) /\ pc[c] \notin Waiting
    BY <1>4 DEF Reports, IsRecording, AllRefuse, Waiting
  <2>2. Stage(c) /\ run[c].status # "completed"
    BY <2>1 DEF Typed, RunsOK, Stage, Waiting
  <2>3. PICK entry : entry = RecordEntry(c)
    OBVIOUS
  <2>4. IsRefusal(entry) /\ entry.id = run[c].id /\ entry.started_at = run[c].started_at
    BY <2>2, <2>3 DEF RecordEntry, IsRefusal
  <2>5. entry \in LogRows
    BY <2>1, <2>3, LogEntryType DEF IsRecording
  <2>6. run[c].id \in RunIds /\ run[c].started_at \in Ticks /\ run[c].id = runs
    BY <2>1, <2>2, IdIsUnderWay DEF Stage, RunIds, Numbered
  <2>7. Began(entry.id, entry.started_at)
    BY <2>1, <2>4 DEF Began
  <2>8. ASSUME NEW i \in DOMAIN log.rows
        PROVE  /\ log.rows[i].id \in RunIds /\ log.rows[i].started_at \in Ticks /\ log.rows[i].started_at \in Nat
               /\ Began(log.rows[i].id, log.rows[i].started_at)
    <3>1. log.rows[i] \in LogRows
      BY <1>1
    <3>2. log.rows[i].id \in RunIds /\ log.rows[i].started_at \in Ticks
      BY <3>1 DEF LogRows, Starts, Records, RunIds
    <3>3. log.rows[i].started_at \in Nat
      BY <3>2, Bounds
    <3>4. QED
      BY <3>2, <3>3 DEF Began
  <2>9. ASSUME NEW i \in DOMAIN log.rows PROVE log.rows[i].started_at < entry.started_at
    <3>1. PICK k, t : k = log.rows[i].id /\ t = log.rows[i].started_at
      OBVIOUS
    <3>2. k <= runs /\ k # run[c].id
      BY <2>1, <3>1 DEF Typed, WorldOK, Orderly, RunSound, Unlogged, IsNew
    <3>3. k \in RunIds /\ t \in Ticks /\ Began(k, t)
      BY <2>8, <3>1
    <3>4. k < run[c].id
      BY <2>6, <3>2, <3>3, Bounds DEF RunIds
    <3>5. t < entry.started_at
      BY <2>4, <2>6, <2>7, <3>3, <3>4 DEF InSequence
    <3>6. QED
      BY <3>1, <3>5
  <2>10. ASSUME NEW i \in DOMAIN log.rows, NEW j \in DOMAIN log.rows, i <= j
         PROVE  log.rows[i].started_at <= log.rows[j].started_at
    <3>1. PICK k, t, l, u : /\ k = log.rows[i].id /\ t = log.rows[i].started_at
                            /\ l = log.rows[j].id /\ u = log.rows[j].started_at
      OBVIOUS
    <3>2. /\ k \in RunIds /\ t \in Ticks /\ t \in Nat /\ Began(k, t)
          /\ l \in RunIds /\ u \in Ticks /\ u \in Nat /\ Began(l, u)
      BY <2>8, <3>1
    <3>3. CASE i = j
      BY <3>1, <3>2, <3>3
    <3>4. ASSUME i < j PROVE t <= u
      <4>1. k <= l
        BY <3>1, <3>4 DEF Numbered
      <4>2. CASE k = l
        <5>1. IsSecond(log.rows[j], log.rows[i])
          BY <1>1, <3>1, <3>4, <4>2 DEF LogSound
        <5>2. t = u
          BY <3>1, <5>1 DEF IsSecond
        <5>3. QED
          BY <3>2, <5>2
      <4>3. CASE k < l
        BY <3>2, <4>3 DEF InSequence
      <4>4. QED
        BY <3>2, <4>1, <4>2, <4>3, Bounds DEF RunIds
    <3>5. i < j \/ i = j
      BY <1>1, <2>10
    <3>6. QED
      BY <3>1, <3>3, <3>4, <3>5
  <2>11. entry.started_at \in Nat
    BY <2>4, <2>6, Bounds
  <2>12. Refreshed(log'.rows) = Refreshed(log.rows)
    <3>1. PICK rows, more : rows = log.rows /\ more = log'.rows
      OBVIOUS
    <3>2. rows \in Seq(LogRows) /\ more = Append(rows, entry)
      BY <1>1, <2>1, <2>3, <3>1
    <3>3. Refreshed(more) = Refreshed(rows)
      BY <2>4, <2>5, <3>2, RefusalAppended
    <3>4. QED
      BY <3>1, <3>3
  <2>13. ASSUME NEW t \in Ticks PROVE InterruptedRunFor(log'.rows, t) \in {InterruptedRunFor(log.rows, t), 0}
    <3>1. t \in Nat
      BY Bounds
    <3>2. PICK rows, more : rows = log.rows /\ more = log'.rows
      OBVIOUS
    <3>3. rows \in Seq(LogRows) /\ more = Append(rows, entry)
      BY <1>1, <2>1, <2>3, <3>2
    <3>4. \A i \in DOMAIN rows : rows[i].started_at \in Nat /\ rows[i].started_at < entry.started_at
      BY <2>8, <2>9, <3>2
    <3>5. \A i, j \in DOMAIN rows : i <= j => rows[i].started_at <= rows[j].started_at
      BY <2>10, <3>2
    <3>6. InterruptedRunFor(more, t) \in {InterruptedRunFor(rows, t), 0}
      BY <2>4, <2>5, <2>11, <3>1, <3>3, <3>4, <3>5, RefusalEndsInterval
    <3>7. QED
      BY <3>2, <3>6
  <2>14. QED
    BY <2>12, <2>13
<1>5. QED
  BY <1>2, <1>3, <1>4, LogStep

(* So what condemned it stands: of two rows that did not agree both are    *)
(* still put to one run, or one of them to none.                           *)
LEMMA UnsoundStands ==
    ASSUME Typed, TornLogWaits, Orderly, Numbered, InSequence, Unstarted, Younger, Unsound, AllRefuse, [Next]_vars
    PROVE  Unsound'
<1>1. AllClaims \subseteq Claims /\ AllOutcomes \subseteq Outcomes
  BY RowTypes
<1>2. activated_at' = activated_at
  <2>1. ASSUME root = "absent" PROVE FALSE
    <3>1. AllClaims = {}
      BY <2>1 DEF Unstarted
    <3>2. ASSUME NEW s \in Symbols, NEW o \in RowSet(outcomes[s]) PROVE FALSE
      <4>1. \E claim \in RowSet(claims[s]) : TRUE
        BY <3>2 DEF Younger, IsYounger
      <4>2. QED
        BY <3>1, <4>1 DEF AllClaims
    <3>3. AllOutcomes = {}
      BY <3>2 DEF AllOutcomes
    <3>4. QED
      BY <3>1, <3>3 DEF Unsound, LooseClaims, LooseOutcomes
  <2>2. QED
    BY <2>1, ManifestStep
<1>3. /\ Refreshed(log'.rows) = Refreshed(log.rows)
      /\ \A t \in Ticks : InterruptedRunFor(log'.rows, t) \in {InterruptedRunFor(log.rows, t), 0}
  BY RunsStandCondemned
<1>4. \A s, t : RunsAt(log'.rows, s, t) = RunsAt(log.rows, s, t)
  BY <1>3 DEF RunsAt
<1>5. ASSUME NEW s \in Symbols
      PROVE  RowSet(claims[s]) \subseteq RowSet(claims'[s]) /\ RowSet(outcomes[s]) \subseteq RowSet(outcomes'[s])
  BY FilesChange, ClaimsGrow, OutcomesGrow
<1>6. ASSUME NEW c \in AllClaims PROVE c \in AllClaims' /\ (HasProblem(c, activated_at) => HasProblem(c, activated_at'))
  BY <1>2, <1>5, <1>6 DEF AllClaims
<1>7. ASSUME NEW o \in AllOutcomes PROVE o \in AllOutcomes'
  BY <1>5, <1>7 DEF AllOutcomes
<1>8. ASSUME NEW c \in LooseClaims PROVE c \in LooseClaims' /\ RunOf(c)' \in {RunOf(c), 0}
  <2>1. c \in AllClaims /\ ~IsReconciled(log.rows, c)
    BY <1>8 DEF LooseClaims
  <2>2. c.recorded_at \in Ticks
    BY <1>1, <2>1 DEF Claims
  <2>3. ~IsReconciled(log'.rows, c)
    BY <1>4, <2>1 DEF IsReconciled
  <2>4. c \in LooseClaims'
    BY <1>6, <2>1, <2>3 DEF LooseClaims
  <2>5. RunOfClaim(log'.rows, c, activated_at') \in {RunOfClaim(log.rows, c, activated_at), 0}
    BY <1>2, <1>3, <1>4, <2>2 DEF RunOfClaim
  <2>6. QED
    BY <2>4, <2>5 DEF RunOf
<1>9. ASSUME NEW o \in LooseOutcomes PROVE o \in LooseOutcomes' /\ RunAt(o)' \in {RunAt(o), 0}
  <2>1. o \in AllOutcomes /\ RunsAt(log.rows, o.symbol, o.evaluated_at) = {}
    BY <1>9 DEF LooseOutcomes
  <2>2. o.evaluated_at \in Ticks
    BY <1>1, <2>1 DEF Outcomes
  <2>3. o \in LooseOutcomes'
    BY <1>4, <1>7, <2>1 DEF LooseOutcomes
  <2>4. RunOfOutcome(log'.rows, o) \in {RunOfOutcome(log.rows, o), 0}
    BY <1>3, <2>2 DEF RunOfOutcome
  <2>5. QED
    BY <2>3, <2>4 DEF RunAt
<1>10. CASE \E c \in AllClaims : HasProblem(c, activated_at)
  BY <1>6, <1>10 DEF Unsound
<1>11. CASE \E o \in AllOutcomes : ~InWindow(o.evaluated_at)
  BY <1>7, <1>11 DEF Unsound
<1>12. ASSUME NEW c \in LooseClaims, RunOf(c)' = 0 PROVE Unsound'
  BY <1>8, <1>12 DEF Unsound
<1>13. ASSUME NEW o \in LooseOutcomes, RunAt(o)' = 0 PROVE Unsound'
  BY <1>9, <1>13 DEF Unsound
<1>14. CASE \/ \E c \in LooseClaims : RunOf(c) = 0
            \/ \E o \in LooseOutcomes : RunAt(o) = 0
  BY <1>8, <1>9, <1>12, <1>13, <1>14
<1>15. ASSUME NEW c \in LooseClaims, NEW d \in LooseClaims, c.symbol = d.symbol, RunOf(c) = RunOf(d),
              c.recorded_at # d.recorded_at \/ c.timestamp # d.timestamp
       PROVE  Unsound'
  <2>1. CASE RunOf(c)' = 0 \/ RunOf(d)' = 0
    BY <1>12, <2>1
  <2>2. CASE RunOf(c)' = RunOf(d)'
    BY <1>8, <1>15, <2>2 DEF Unsound
  <2>3. QED
    BY <1>8, <1>15, <2>1, <2>2
<1>16. ASSUME NEW o \in LooseOutcomes, NEW p \in LooseOutcomes, o.symbol = p.symbol, RunAt(o) = RunAt(p),
              o.evaluated_at # p.evaluated_at
       PROVE  Unsound'
  <2>1. CASE RunAt(o)' = 0 \/ RunAt(p)' = 0
    BY <1>13, <2>1
  <2>2. CASE RunAt(o)' = RunAt(p)'
    BY <1>9, <1>16, <2>2 DEF Unsound
  <2>3. QED
    BY <1>9, <1>16, <2>1, <2>2
<1>17. ASSUME NEW o \in LooseOutcomes, NEW c \in LooseClaims, o.symbol = c.symbol, RunAt(o) = RunOf(c),
              o.evaluated_at # c.recorded_at
       PROVE  Unsound'
  <2>1. CASE RunAt(o)' = 0 \/ RunOf(c)' = 0
    BY <1>12, <1>13, <2>1
  <2>2. CASE RunAt(o)' = RunOf(c)'
    BY <1>8, <1>9, <1>17, <2>2 DEF Unsound
  <2>3. QED
    BY <1>8, <1>9, <1>17, <2>1, <2>2
<1>18. QED
  BY <1>10, <1>11, <1>14, <1>15, <1>16, <1>17 DEF Unsound

(* Once condemned between two runs, and with the clock running forward, a  *)
(* ledger stays condemned.                                                 *)
StaysCondemned == (seen.condemned /\ ~seen.stepped) => Condemned /\ AllRefuse

LEMMA StaysCondemnedStep ==
    ASSUME Traced, TornLogWaits, Numbered, Forward, StaysCondemned, [Next]_vars
    PROVE  StaysCondemned'
<1> SUFFICES ASSUME seen'.condemned, ~seen'.stepped PROVE Condemned' /\ AllRefuse'
  BY DEF StaysCondemned
<1>1. Typed /\ ~seen.stepped
  BY ClockForward DEF Traced
<1>2. InSequence /\ Unstarted /\ Orderly /\ Younger
  BY <1>1 DEF Forward, Traced, Prospective
<1>3. Condemned /\ AllRefuse
  <2>1. CASE seen.condemned
    BY <1>1, <2>1 DEF StaysCondemned
  <2>2. CASE ~seen.condemned
    <3>1. IsCondemned
      <4>1. ~UNCHANGED vars
        BY <2>2 DEF vars
      <4>2. PICK condemned, stepped : /\ condemned = (seen.condemned \/ IsCondemned)
                                      /\ seen' = [condemned |-> condemned, stepped |-> stepped]
        BY <4>1 DEF Next
      <4>3. condemned
        BY <4>2
      <4>4. QED
        BY <2>2, <4>2, <4>3
    <3>2. holder = Nobody /\ Verdict = "invalid"
      BY <3>1 DEF IsCondemned
    <3>3. AllRefuse
      <4>1. \A c \in Collectors : holder # c
        BY <3>2, CollectionAssumption
      <4>2. \A c \in Collectors : pc[c] \in Waiting
        BY <1>1, <4>1 DEF Typed, RunsOK
      <4>3. QED
        BY <4>2 DEF AllRefuse
    <3>4. /\ \A s \in Symbols : IsReadable(s)
          /\ ~IsReconcilable(log.rows, AllClaims, AllOutcomes, activated_at)
      BY <3>2 DEF Verdict, VerifyProvenance
    <3>5. AllAfterActivation
      BY <1>1, <1>2, ForwardActivation
    <3>6. Unsound
      BY <3>2, <3>4, <3>5, SoundIsReconcilable
    <3>7. QED
      BY <3>3, <3>6 DEF Condemned
  <2>3. QED
    BY <2>1, <2>2
<1>4. AllRefuse'
  BY <1>1, <1>3, RefuseStep
<1>5. ASSUME Unsound PROVE Condemned'
  <2>1. Unsound'
    BY <1>1, <1>2, <1>3, <1>5, UnsoundStands
  <2>2. QED
    BY <2>1 DEF Condemned
<1>6. ASSUME NEW s \in Symbols, ~IsReadable(s) PROVE Condemned'
  <2>1. ~IsReadable(s)'
    BY <1>1, <1>6, DamageStands
  <2>2. QED
    BY <2>1 DEF Condemned
<1>7. Condemned'
  BY <1>3, <1>5, <1>6 DEF Condemned
<1>8. QED
  BY <1>4, <1>7

(* InvalidIsFinal: what the verifier called invalid between two runs it    *)
(* never calls sound again, whoever writes, dies or refuses, as long as    *)
(* the clock runs forward.                                                 *)
THEOREM InvalidStaysInvalid == Spec => []InvalidIsFinal
<1>1. Init => StaysCondemned
  <2>1. Init => ~seen.condemned
    BY DEF Init
  <2>2. QED
    BY <2>1 DEF StaysCondemned
<1>2. Typed /\ StaysCondemned => InvalidIsFinal
  BY CondemnedVerdict DEF StaysCondemned, InvalidIsFinal
<1>3. Spec => []Traced
  BY TypedInvariant, OrderlyInvariant, ProspectiveInvariant, FoundedInvariant, ReadingsInvariant,
     TiedInvariant, CountedInvariant, PTL DEF Traced
<1>4. QED
  BY <1>1, <1>2, <1>3, TypedInvariant, TornLogInvariant, NumberedInvariant, ForwardInvariant,
     StaysCondemnedStep, PTL DEF Spec
=============================================================================
