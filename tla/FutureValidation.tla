---------------------------- MODULE FutureValidation ----------------------------
(***************************************************************************)
(* The one opening of the future validation                                *)
(* (src/application/future_validation.py over                              *)
(* src/future_validation/store.py), beside the collector that keeps        *)
(* appending to the evidence.                                              *)
(*                                                                         *)
(* A runner is one `run` command.  It reads the manifest and the           *)
(* artifacts, freezes the evidence under the root's shared lock, writes    *)
(* unlock.json once, derives the result from what it froze, and writes     *)
(* result.json and report.md once.  A run that finds an unlock completes   *)
(* it from the recorded prefixes; one that finds a result verifies it.     *)
(* Runs may overlap, may die anywhere, and a file may have been altered    *)
(* since it was written.                                                   *)
(*                                                                         *)
(* The collector is kept to what a snapshot can tell apart: which runs of  *)
(* it have a start, a record, and rows, which rows a run left behind, and  *)
(* what it lists as missed (ProspectiveCollection and Provenance model the *)
(* rest).  A file is the sequence of its rows; the SHA-256 of a prefix is  *)
(* the prefix.                                                             *)
(***************************************************************************)
EXTENDS ValidationEngine

CONSTANTS
    Runners,          \* run commands
    ActivatedAt,      \* the day of activation
    Universe,         \* the symbols in the order a collector run visits them
    Producers,        \* the hypotheses in the order a symbol's claims are
                      \* registered: the validated one comes first
    StatesOf(_, _),   \* states a symbol's claims take, by hypothesis
    ValuesAt(_),      \* returns a symbol's outcomes take
    Budgets           \* bounds, one of which holds throughout a behaviour: who
                      \* runs the command, the symbols the provider never
                      \* answers for, the days the collector may be run on,
                      \* crashes of a run, deaths of the collector, its runs
                      \* on a day it has already run, other failures of a
                      \* symbol, foreign rows, edits

ASSUME RunnerAssumption ==
    /\ Runners # {}
    /\ ActivatedAt \in Nat
    /\ \A s \in Symbols : /\ \A h \in Hypotheses : StatesOf(s, h) # {}
                          /\ ValuesAt(s) \subseteq Int
    /\ Budgets \subseteq [crew : SUBSET Runners, silent : SUBSET Symbols, days : SUBSET Nat,
                       crashes : Nat, deaths : Nat, reruns : Nat, failures : Nat,
                       foreign : Nat, edits : Nat]

ASSUME OrderAssumption ==
    /\ Universe \in Seq(Symbols) /\ ToSet(Universe) = Symbols /\ IsInjective(Universe)
    /\ Producers \in Seq(Hypotheses) /\ ToSet(Producers) = Hypotheses
    /\ Producers[1] = Primary

VARIABLES
    day,         \* the day of the collector's last run
    log,         \* runs.jsonl: the collector's starts and records
    claims,      \* artifacts.jsonl of each symbol
    outcomes,    \* outcomes.jsonl of each symbol
    torn,        \* a ledger file ends in part of a line
    collector,   \* the collector's run: none, or what it still has to append
    manifest,    \* activation.json
    repository,  \* whether the checkout is the one the manifest is bound to
    unlock,      \* unlock.json
    result,      \* result.json
    report,      \* report.md
    pc,          \* where each runner is
    work,        \* what each runner has read and derived
    opened,      \* history: the evidence the unlock was written for
    answered,    \* history: the answer the result was written with
    told,        \* history: the answer the last completed run returned
    left         \* what is left of each bound

(* No file, no value: nothing that is written has this field.              *)
None == [nothing |-> TRUE]

evidence  == <<day, log, claims, outcomes, torn, collector>>
inputs    == <<manifest, repository>>
artifacts == <<unlock, result, report>>
runner    == <<pc, work>>
history   == <<opened, answered, told>>
vars == <<evidence, inputs, artifacts, runner, history, left>>

-----------------------------------------------------------------------------
(* Evidence and its provenance.                                            *)

Foreign == 0

ClaimRow(symbol, hypothesis, bar, state, id) ==
    [key |-> <<symbol, hypothesis, bar>>, symbol |-> symbol, hypothesis |-> hypothesis,
     bar |-> bar, state |-> state, run |-> id]

OutcomeRow(claim, horizon, value, id) ==
    [key |-> <<claim.key, horizon>>, claim |-> claim.key, horizon |-> horizon,
     value |-> value, reference |-> claim.bar + 1, future |-> claim.bar + horizon, run |-> id]

Rows(files) == UNION {ToSet(files[s]) : s \in Symbols}

Started(entries)  == {entries[i].run : i \in {j \in DOMAIN entries : entries[j].kind = "start"}}
Recorded(entries) == {entries[i].run : i \in {j \in DOMAIN entries : entries[j].kind = "record"}}

(* The keys that only a run without a record explains, and what was        *)
(* measured from them.                                                     *)
ExcludedBy(snapshot) ==
    LET dead == Started(snapshot.log) \ Recorded(snapshot.log)
        orphans == {c.key : c \in {d \in Rows(snapshot.claims) : d.run \in dead}}
    IN  orphans \cup {o.key : o \in {p \in Rows(snapshot.outcomes) :
                                        p.run \in dead \/ p.claim \in orphans}}

Provenance(snapshot) ==
    IF \E row \in Rows(snapshot.claims) \cup Rows(snapshot.outcomes) :
          row.run \notin Started(snapshot.log)
    THEN "invalid"
    ELSE IF ExcludedBy(snapshot) # {} THEN "degraded" ELSE "ok"

MissedIn(entries, symbol) ==
    UNION {entries[i].missed[symbol] : i \in {j \in DOMAIN entries : entries[j].kind = "record"}}

Evidence(snapshot) ==
    [activated_at |-> ActivatedAt,
     claims   |-> Rows(snapshot.claims),
     outcomes |-> Rows(snapshot.outcomes),
     excluded |-> ExcludedBy(snapshot),
     missed   |-> [s \in Symbols |-> MissedIn(snapshot.log, s)]]

-----------------------------------------------------------------------------
(* The gate: Level-1 facts of one frozen snapshot.                         *)

Gate(snapshot) ==
    [validity |-> IF snapshot.torn \/ Provenance(snapshot) = "invalid" THEN "invalid" ELSE "ok",
     provenance |-> Provenance(snapshot),
     stop    |-> StopRule(Evidence(snapshot)),
     cutoffs |-> [s \in Symbols |-> Cutoff(Evidence(snapshot), s)]]

IsUnlockable(gate) == gate.validity = "ok" /\ IsDue(gate.stop)

IsBound == manifest = "bound" /\ repository = "clean"

(* _same_bound_manifest, for a runner that bound the manifest it read.     *)
IsStillBound(snapshot) == snapshot.manifest = "bound" /\ repository = "clean"

Captured ==
    [manifest |-> manifest, log |-> log, claims |-> claims, outcomes |-> outcomes,
     torn |-> torn]

(* recapture: every recorded prefix is intact, whatever was appended.      *)
HasPrefixes(snapshot) ==
    /\ manifest = snapshot.manifest
    /\ IsPrefix(snapshot.log, log)
    /\ \A s \in Symbols : /\ IsPrefix(snapshot.claims[s], claims[s])
                          /\ IsPrefix(snapshot.outcomes[s], outcomes[s])

(* Seeded fault: a recapture reads the files to their present end.         *)
RecapturedToEnd(snapshot) == Captured

(* The recorded bytes again; a tear since then lies beyond them.           *)
Recaptured(snapshot) == snapshot

(* unlock.json: what the snapshot determines, and who opened it when.      *)
Deterministic(snapshot) ==
    [snapshot |-> snapshot, gate |-> Gate(snapshot)]

UnlockPayload(r, snapshot) ==
    [recorded |-> Deterministic(snapshot), host |-> r]

(* The answer is the result without the unlock it names.                   *)
AnswerTo(snapshot) ==
    LET r == BuildResult(Evidence(snapshot), None)
    IN  [categories |-> r.categories, primary |-> r.primary, secondary |-> r.secondary]

DerivedFrom(payload) ==
    BuildResult(Evidence(Recaptured(payload.recorded.snapshot)), payload)

AnswerOf(r) == [categories |-> r.categories, primary |-> r.primary, secondary |-> r.secondary]

-----------------------------------------------------------------------------
(* Runners.                                                                *)

Idle == [unlock |-> None, result |-> None, derived |-> None]

Goto(r, label) == pc' = [pc EXCEPT ![r] = label]

(* Seeded fault: the next command starts from what the last one read.      *)
EndKeeping(r) == Goto(r, "idle") /\ UNCHANGED work

(* The command returns, raises or dies: a runner keeps nothing.            *)
End(r) == Goto(r, "idle") /\ work' = [work EXCEPT ![r] = Idle]

Refuse(r) == End(r) /\ UNCHANGED <<evidence, inputs, artifacts, history, left>>

(* The manifest is read once and bound, then the result is read.  (What   *)
(* changes in between is found by IsStillBound later.)                     *)
Begin(r) ==
    /\ pc[r] = "idle"
    /\ r \in left.crew
    /\ IsBound
    /\ work' = [work EXCEPT ![r].result = result]
    /\ Goto(r, IF result = None THEN "looking" ELSE "verifying")
    /\ UNCHANGED <<evidence, inputs, artifacts, history, left>>

BeginUnbound(r) ==
    /\ pc[r] = "idle"
    /\ r \in left.crew
    /\ ~IsBound
    /\ Refuse(r)

(* A written result names the unlock on disk, or the run refuses.          *)
ReadNamedUnlock(r) ==
    /\ pc[r] = "verifying"
    /\ unlock = work[r].result.unlock
    /\ work' = [work EXCEPT ![r].unlock = unlock]
    /\ Goto(r, "reopening")
    /\ UNCHANGED <<evidence, inputs, artifacts, history, left>>

ReadOtherUnlock(r) ==
    /\ pc[r] = "verifying"
    /\ unlock # work[r].result.unlock
    /\ Refuse(r)

ReadUnlock(r) ==
    /\ pc[r] = "looking"
    /\ work' = [work EXCEPT ![r].unlock = unlock]
    /\ Goto(r, IF unlock = None THEN "capturing" ELSE "reopening")
    /\ UNCHANGED <<evidence, inputs, artifacts, history, left>>

(* _from_unlock: what the unlock records is found again, is still bound,   *)
(* still passes the gate, and determines what the unlock says.             *)
CanReopen(payload) ==
    LET snapshot == payload.recorded.snapshot IN
    /\ collector = None
    /\ HasPrefixes(snapshot)
    /\ IsStillBound(snapshot)
    /\ IsUnlockable(Gate(Recaptured(snapshot)))
    /\ Deterministic(Recaptured(snapshot)) = payload.recorded

(* A written result is byte for byte what its unlock determines.           *)
IsVerified(r, derived) == work[r].result \in {None, derived}

Reopen(r) ==
    /\ pc[r] = "reopening"
    /\ CanReopen(work[r].unlock)
    /\ LET derived == DerivedFrom(work[r].unlock) IN
          /\ IsVerified(r, derived)
          /\ work' = [work EXCEPT ![r].derived =
                         IF work[r].result = None THEN derived ELSE work[r].result]
    /\ Goto(r, IF work[r].result = None THEN "writing" ELSE "finishing")
    /\ UNCHANGED <<evidence, inputs, artifacts, history, left>>

ReopenRefused(r) ==
    /\ pc[r] = "reopening"
    /\ ~(CanReopen(work[r].unlock) /\ IsVerified(r, DerivedFrom(work[r].unlock)))
    /\ Refuse(r)

(* First opening: freeze everything under the shared lock.                 *)
CanCapture ==
    /\ collector = None
    /\ IsStillBound(Captured)
    /\ IsUnlockable(Gate(Captured))

Capture(r) ==
    /\ pc[r] = "capturing"
    /\ CanCapture
    /\ work' = [work EXCEPT ![r].unlock = UnlockPayload(r, Captured)]
    /\ Goto(r, "opening")
    /\ UNCHANGED <<evidence, inputs, artifacts, history, left>>

CaptureRefused(r) ==
    /\ pc[r] = "capturing"
    /\ ~CanCapture
    /\ Refuse(r)

(* write_once: a link that fails when the name exists.                     *)
IsFree(file) == file = None

Open(r) ==
    /\ pc[r] = "opening"
    /\ IsFree(unlock)
    /\ unlock' = work[r].unlock
    /\ opened' = work[r].unlock.recorded.snapshot
    /\ Goto(r, "deriving")
    /\ UNCHANGED <<evidence, inputs, result, report, work, answered, told, left>>

OpenRefused(r) ==
    /\ pc[r] = "opening"
    /\ ~IsFree(unlock)
    /\ Refuse(r)

(* Level 3: states and returns are first read here.                        *)
Derive(r) ==
    /\ pc[r] = "deriving"
    /\ work' = [work EXCEPT ![r].derived = DerivedFrom(work[r].unlock)]
    /\ Goto(r, "writing")
    /\ UNCHANGED <<evidence, inputs, artifacts, history, left>>

WriteResult(r) ==
    /\ pc[r] = "writing"
    /\ IsFree(result)
    /\ result' = work[r].derived
    /\ answered' = AnswerOf(work[r].derived)
    /\ Goto(r, "reporting")
    /\ UNCHANGED <<evidence, inputs, unlock, report, work, opened, told, left>>

(* ArtifactExists is not caught here: the command ends with a traceback.   *)
WriteRaises(r) ==
    /\ \/ pc[r] = "writing" /\ ~IsFree(result)
       \/ pc[r] = "reporting" /\ ~IsFree(report)
    /\ End(r)
    /\ UNCHANGED <<evidence, inputs, artifacts, history, left>>

Complete(r) ==
    /\ End(r)
    /\ told' = AnswerOf(work[r].derived)
    /\ UNCHANGED <<evidence, inputs, unlock, result, opened, answered, left>>

WriteReport(r) ==
    /\ pc[r] = "reporting"
    /\ IsFree(report)
    /\ report' = work[r].derived
    /\ Complete(r)

(* _finish_report: a report that is missing is written, one that exists is *)
(* compared.                                                               *)
FinishReport(r) ==
    /\ pc[r] = "finishing"
    /\ report \in {None, work[r].derived}
    /\ report' = work[r].derived
    /\ Complete(r)

ReportDiffers(r) ==
    /\ pc[r] = "finishing"
    /\ report \notin {None, work[r].derived}
    /\ Refuse(r)

Spend(budget) == left[budget] > 0 /\ left' = [left EXCEPT ![budget] = @ - 1]

Crash(r) ==
    /\ pc[r] # "idle"
    /\ Spend("crashes")
    /\ End(r)
    /\ UNCHANGED <<evidence, inputs, artifacts, history>>

-----------------------------------------------------------------------------
(* The collector.                                                          *)

RunId == Cardinality(Started(log)) + 1

(* The run takes the lock, finds the files whole and their provenance not  *)
(* invalid, and logs its start.  (On the day of activation no bar that     *)
(* counts has settled yet.)                                                *)
CollectorStarts(today) ==
    /\ collector = None
    /\ ~torn /\ Provenance(Captured) # "invalid"
    /\ today > ActivatedAt
    /\ \/ today > day /\ UNCHANGED left
       \/ today = day /\ Spend("reruns")
    /\ day' = today
    /\ collector' = [id |-> RunId, at |-> 1, stage |-> 0, tail |-> Null,
                     missed |-> [s \in Symbols |-> {}]]
    /\ log' = Append(log, [kind |-> "start", run |-> RunId])
    /\ UNCHANGED <<claims, outcomes, torn, inputs, artifacts, runner, history>>

(* The symbol the run is at.  Stage 0 is before its visit, stage k before  *)
(* the registration of producer k's claim, the last one the measuring.     *)
IsVisiting == collector # None /\ collector.at <= Len(Universe)

Here == Universe[collector.at]

IsRegistering == IsVisiting /\ collector.stage \in DOMAIN Producers

IsMeasuring == IsVisiting /\ collector.stage = Len(Producers) + 1

AtNextSymbol(run) == [run EXCEPT !.at = @ + 1, !.stage = 0]

Holds(symbol, key) == \E c \in ToSet(claims[symbol]) : c.key = key

HoldsAll(symbol, bar) == \A h \in Hypotheses : Holds(symbol, <<symbol, h, bar>>)

(* Bars since activation after the last registered claim and before the    *)
(* tail: listed again by every run until a later claim is registered.      *)
MissedTails(symbol, tail) ==
    {b \in ActivatedAt .. tail - 1 : \A c \in ToSet(claims[symbol]) : b > c.bar}

(* The provider answers up to `tail`, yesterday's bar or, when it lags, an *)
(* older one.  What was missed is listed before anything is registered.    *)
Visit(tail) ==
    [collector EXCEPT !.missed[Here] = MissedTails(Here, tail), !.tail = tail]

IsCurrent(tail) == tail = day - 1

VisitSymbol(tail) ==
    /\ IsVisiting /\ collector.stage = 0 /\ Here \notin left.silent
    /\ \/ IsCurrent(tail) /\ UNCHANGED left
       \/ ~IsCurrent(tail) /\ HoldsAll(Here, tail) /\ Spend("failures")
    /\ collector' = [Visit(tail) EXCEPT !.stage = 1]
    /\ UNCHANGED <<day, log, claims, outcomes, torn, inputs, artifacts, runner, history>>

(* A late tail with claims still to write is refused, its misses listed.   *)
VisitStale(tail) ==
    /\ IsVisiting /\ collector.stage = 0 /\ Here \notin left.silent
    /\ ~IsCurrent(tail) /\ ~HoldsAll(Here, tail)
    /\ Spend("failures")
    /\ collector' = AtNextSymbol(Visit(tail))
    /\ UNCHANGED <<day, log, claims, outcomes, torn, inputs, artifacts, runner, history>>

(* No usable answer, or a refresh that raises part-way: what is registered *)
(* stays, what is listed as missed is recorded.                            *)
SymbolFails ==
    /\ IsVisiting
    /\ \/ Here \in left.silent /\ UNCHANGED left
       \/ Here \notin left.silent /\ Spend("failures")
    /\ collector' = AtNextSymbol(collector)
    /\ UNCHANGED <<day, log, claims, outcomes, torn, inputs, artifacts, runner, history>>

(* One claim of the tail at a time; one that is held is left as it is.     *)
RegisterClaim ==
    /\ IsRegistering
    /\ LET h == Producers[collector.stage] IN
          \/ /\ Holds(Here, <<Here, h, collector.tail>>)
             /\ UNCHANGED claims
          \/ /\ ~Holds(Here, <<Here, h, collector.tail>>)
             /\ \E state \in StatesOf(Here, h) :
                   claims' = [claims EXCEPT ![Here] =
                       Append(@, ClaimRow(Here, h, collector.tail, state, collector.id))]
    /\ collector' = [collector EXCEPT !.stage = @ + 1]
    /\ UNCHANGED <<day, log, outcomes, torn, inputs, artifacts, runner, history, left>>

(* Whether an evaluable claim's horizon has passed and is not measured.    *)
IsOutstanding(symbol, claim, horizon, tail) ==
    /\ claim.state # "insufficient"
    /\ claim.bar + horizon <= tail
    /\ \A o \in ToSet(outcomes[symbol]) : o.key # <<claim.key, horizon>>

(* One outcome at a time, in the order of the claims and of the horizons.  *)
MeasureOutcome ==
    /\ IsMeasuring
    /\ \E i \in DOMAIN claims[Here], n \in Horizons :
          /\ IsOutstanding(Here, claims[Here][i], n, collector.tail)
          /\ \A j \in 1 .. i, m \in Horizons :
                (j < i \/ m < n) => ~IsOutstanding(Here, claims[Here][j], m, collector.tail)
          /\ \E value \in ValuesAt(Here) :
                outcomes' = [outcomes EXCEPT ![Here] =
                    Append(@, OutcomeRow(claims[Here][i], n, value, collector.id))]
    /\ UNCHANGED <<day, log, claims, torn, collector, inputs, artifacts, runner, history, left>>

SymbolDone ==
    /\ IsMeasuring
    /\ \A c \in ToSet(claims[Here]), n \in Horizons :
          ~IsOutstanding(Here, c, n, collector.tail)
    /\ collector' = AtNextSymbol(collector)
    /\ UNCHANGED <<day, log, claims, outcomes, torn, inputs, artifacts, runner, history, left>>

(* The record, with what every visited symbol was found to have missed.    *)
CollectorEnds ==
    /\ collector # None
    /\ ~IsVisiting
    /\ collector' = None
    /\ log' = Append(log, [kind |-> "record", run |-> collector.id,
                           missed |-> collector.missed])
    /\ UNCHANGED <<day, claims, outcomes, torn, inputs, artifacts, runner, history, left>>

(* No record; the line it was appending may have been cut short.           *)
CollectorDies ==
    /\ collector # None
    /\ Spend("deaths")
    /\ collector' = None
    /\ torn' \in BOOLEAN
    /\ UNCHANGED <<day, log, claims, outcomes, inputs, artifacts, runner, history>>

(* A row that no run of the collector wrote; it takes no lock.  A ledger   *)
(* registers an artifact once, whoever asks.                               *)
ForeignRow(symbol) ==
    /\ ~Holds(symbol, <<symbol, Primary, day>>)
    /\ Spend("foreign")
    /\ \E state \in StatesOf(symbol, Primary) :
          claims' = [claims EXCEPT ![symbol] =
                        Append(@, ClaimRow(symbol, Primary, day, state, Foreign))]
    /\ UNCHANGED <<day, log, outcomes, torn, collector, inputs, artifacts, runner, history>>

-----------------------------------------------------------------------------
(* Files that change under the runner.                                     *)

EditResult ==
    /\ result # None
    /\ Spend("edits")
    /\ \E s \in PrimarySymbols : \E category \in Categories \ {result.categories[s]} :
          result' = [result EXCEPT !.categories[s] = category]
    /\ UNCHANGED <<evidence, inputs, unlock, report, runner, history>>

(* Whatever else the report says, it is not what is derived.               *)
EditReport ==
    /\ report # None
    /\ Spend("edits")
    /\ \E s \in PrimarySymbols : \E category \in Categories \ {report.categories[s]} :
          report' = [report EXCEPT !.categories[s] = category]
    /\ UNCHANGED <<evidence, inputs, unlock, result, runner, history>>

EditUnlock ==
    /\ unlock # None
    /\ Spend("edits")
    /\ \/ \E s \in Symbols :
             unlock' = [unlock EXCEPT !.recorded.gate.cutoffs[s] = @ + 1]
       \/ unlock' = [unlock EXCEPT !.host = None]
    /\ UNCHANGED <<evidence, inputs, result, report, runner, history>>

EditFrozenRow(symbol) ==
    /\ opened # None
    /\ claims[symbol] # <<>>
    /\ Spend("edits")
    /\ \E state \in StatesOf(symbol, claims[symbol][1].hypothesis) \ {claims[symbol][1].state} :
          claims' = [claims EXCEPT ![symbol][1].state = state]
    /\ UNCHANGED <<day, log, outcomes, torn, collector, inputs, artifacts, runner, history>>

Reactivate ==
    /\ Spend("edits")
    /\ manifest' = "other"
    /\ UNCHANGED <<evidence, repository, artifacts, runner, history>>

TouchCheckout ==
    /\ Spend("edits")
    /\ repository' = "dirty"
    /\ UNCHANGED <<evidence, manifest, artifacts, runner, history>>

CleanCheckout ==
    /\ repository = "dirty"
    /\ repository' = "clean"
    /\ UNCHANGED <<evidence, manifest, artifacts, runner, history, left>>

-----------------------------------------------------------------------------
Empty == [s \in Symbols |-> <<>>]

Init ==
    /\ day = ActivatedAt
    /\ log = <<>>
    /\ claims = Empty
    /\ outcomes = Empty
    /\ torn = FALSE
    /\ collector = None
    /\ manifest = "bound"
    /\ repository = "clean"
    /\ unlock = None
    /\ result = None
    /\ report = None
    /\ pc = [r \in Runners |-> "idle"]
    /\ work = [r \in Runners |-> Idle]
    /\ opened = None
    /\ answered = None
    /\ told = None
    /\ left \in Budgets

Step(r) ==
    \/ ReadNamedUnlock(r) \/ ReadOtherUnlock(r) \/ ReadUnlock(r)
    \/ Reopen(r) \/ ReopenRefused(r)
    \/ Capture(r) \/ CaptureRefused(r)
    \/ Open(r) \/ OpenRefused(r)
    \/ Derive(r)
    \/ WriteResult(r) \/ WriteRaises(r)
    \/ WriteReport(r)
    \/ FinishReport(r) \/ ReportDiffers(r)

Outside ==
    \/ \E today \in left.days : CollectorStarts(today)
    \/ \E tail \in ActivatedAt .. day - 1 : VisitSymbol(tail) \/ VisitStale(tail)
    \/ SymbolFails
    \/ RegisterClaim
    \/ MeasureOutcome
    \/ SymbolDone
    \/ CollectorEnds
    \/ CollectorDies
    \/ \E s \in Symbols : ForeignRow(s) \/ EditFrozenRow(s)
    \/ EditResult
    \/ EditReport
    \/ EditUnlock
    \/ Reactivate
    \/ TouchCheckout
    \/ CleanCheckout

Next ==
    \/ \E r \in Runners : Begin(r) \/ BeginUnbound(r) \/ Step(r) \/ Crash(r)
    \/ Outside

Spec == Init /\ [][Next]_vars

-----------------------------------------------------------------------------
Labels == {"idle", "looking", "verifying", "reopening", "capturing",
           "opening", "deriving", "writing", "reporting", "finishing"}

(* Every variable has its type.                                            *)
TypeOK ==
    /\ day \in {ActivatedAt} \cup left.days
    /\ \A i \in DOMAIN log : log[i].kind \in {"start", "record"} /\ log[i].run \in Nat \ {0}
    /\ \A s \in Symbols : /\ \A c \in ToSet(claims[s]) : c.state \in StatesOf(s, c.hypothesis)
                          /\ \A o \in ToSet(outcomes[s]) : o.value \in ValuesAt(s)
    /\ torn \in BOOLEAN
    /\ collector = None \/ collector.id \in Started(log)
    /\ manifest \in {"bound", "other"}
    /\ repository \in {"clean", "dirty"}
    /\ pc \in [Runners -> Labels]
    /\ \A r \in Runners : /\ pc[r] \in {"idle", "looking", "capturing"} => work[r] = Idle
                          /\ pc[r] \in {"writing", "reporting", "finishing"}
                                => work[r].unlock # None /\ work[r].derived # None
    /\ {left.crashes, left.deaths, left.reruns, left.failures, left.foreign, left.edits}
          \subseteq Nat

(* "A second unlock or result is never created; a run after an unlock may  *)
(* only complete that same unlock; a run after a result never replaces it":*)
(* however runs overlap, die and are repeated, and whatever the collector  *)
(* appends or a file suffers meanwhile, one snapshot is opened, when the   *)
(* rows of completed runs make it due; one answer is derived from it; and  *)
(* every completed run returns that answer.                                *)
GoodRows(files, snapshot) ==
    {row \in Rows(files) : row.run \in Recorded(snapshot.log)}

LastGoodBar(snapshot) == Largest({c.bar : c \in GoodRows(snapshot.claims, snapshot)})

GoodPairs(snapshot, symbol) ==
    {c \in GoodRows(snapshot.claims, snapshot) :
        /\ c.symbol = symbol
        /\ c.hypothesis = Primary
        /\ \E o \in GoodRows(snapshot.outcomes, snapshot) :
              o.claim = c.key /\ o.horizon = PrimaryHorizon}

IsTrulyDue(snapshot) ==
    \/ LastGoodBar(snapshot) + 1 >= ActivatedAt + ForcedMonths
    \/ /\ LastGoodBar(snapshot) + 1 >= ActivatedAt + MinimumMonths
       /\ \A s \in PrimarySymbols :
             Cardinality(GoodPairs(snapshot, s)) >= MinimumMatured

Abstract == INSTANCE Opening
    WITH opening <- opened, answer <- answered, told <- told, IsDueNow <- IsTrulyDue

ImplementsOpening == Abstract!Spec

(* Two members of an episode stand on consecutive sessions: a session that *)
(* was missed, whose claims a dead run left behind, or that only the lost  *)
(* record of a dead run would have listed, splits the episodes of the      *)
(* validated hypothesis.  A hypothesis whose claims are registered after   *)
(* its claims is as safe, except where the first claim of the later bar    *)
(* is a dead run's: a run of the same day then registers the rest, and     *)
(* nothing before that bar is listed again.  Every day is a session here.  *)
MissedSessionsSplitEpisodes ==
    opened # None =>
        \A s \in Symbols, h \in Hypotheses, n \in Horizons :
            LET e == Evidence(opened)
                bars == Positions(e, s)
                sequence == SessionSequence(e, s, h, n)
            IN  \A i \in 1 .. Len(bars) - 1 :
                    (/\ sequence[i].matured /\ sequence[i + 1].matured
                     /\ sequence[i].state = sequence[i + 1].state)
                    => \/ bars[i + 1] = bars[i] + 1
                       \/ h # Primary /\ <<s, Primary, bars[i + 1]>> \in e.excluded

(* "Never a state, reason code, price, return, sign or aggregate": when a  *)
(* snapshot can be taken, replacing every state and return of the evidence *)
(* changes neither the stop rule nor the cutoffs.                          *)
Masked(snapshot) ==
    [snapshot EXCEPT
        !.claims   = [s \in Symbols |-> [i \in DOMAIN @[s] |->
                         [@[s][i] EXCEPT !.state = "masked"]]],
        !.outcomes = [s \in Symbols |-> [i \in DOMAIN @[s] |->
                         [@[s][i] EXCEPT !.value = 0]]]]

StopRuleIsBlind ==
    LET seen == Gate(Captured)
        blind == Gate(Masked(Captured))
    IN  collector = None => seen.stop = blind.stop /\ seen.cutoffs = blind.cutoffs
=============================================================================
