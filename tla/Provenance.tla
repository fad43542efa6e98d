------------------------------ MODULE Provenance ------------------------------
(***************************************************************************)
(* Prospective provenance v1 (src/prospective/provenance.py) and the time  *)
(* rules it shares with the collector (src/prospective/definition.py):     *)
(* can every record of the prospective ledger be attributed to the         *)
(* supported collector?                                                    *)
(*                                                                         *)
(* Time is counted in ticks, DayLength of them to the New York day.  The   *)
(* bar of day d is stamped with its first tick.  Two readings of a clock   *)
(* are never the same tick, as two are never the same microsecond.         *)
(*                                                                         *)
(* What every record has in common - interval, basis, origin, source, the  *)
(* permitted producers, the frozen fingerprints, the collector's commit -  *)
(* is left out: what is kept is what a record says about when it was       *)
(* written and by which run.                                               *)
(***************************************************************************)
EXTENDS Integers, Sequences, FiniteSets

CONSTANTS
    Universe,         \* the symbols, in the order a run visits them
    ClaimsPerTail,    \* claims that one complete tail registers
    DayLength,        \* ticks in a day
    WindowTicks,      \* the ticks of a day at which collection is allowed
    Weekend,          \* the days that are not weekdays
    MaxSpan,          \* interrupted_run_max_seconds
    Tolerance         \* interrupted_run_backward_tolerance_seconds

ASSUME PolicyAssumption ==
    /\ Universe \in Seq({Universe[i] : i \in DOMAIN Universe})
    /\ \A i, j \in DOMAIN Universe : Universe[i] = Universe[j] => i = j
    /\ ClaimsPerTail \in Nat \ {0}
    /\ DayLength \in Nat \ {0}
    /\ WindowTicks \subseteq 0 .. DayLength - 1
    /\ Weekend \subseteq Nat
    /\ \A d \in Weekend : \E e \in {d + 1, d + 2} : e \notin Weekend
    /\ MaxSpan \in Nat
    /\ Tolerance \in Nat

Symbols == {Universe[i] : i \in DOMAIN Universe}

-----------------------------------------------------------------------------
(* The time rules.                                                         *)

Date(t) == t \div DayLength

InWindow(t) == t % DayLength \in WindowTicks

SettlesAt(d) == (d + 1) * DayLength

IsPreActivation(d, activated_at) == SettlesAt(d) <= activated_at

NextWeekday(d) ==
    CHOOSE e \in d + 1 .. d + 3 :
        e \notin Weekend /\ \A f \in d + 1 .. e - 1 : f \in Weekend

(* Seeded fault: one weekday of grace.                                     *)
IsCurrentTailWithGrace(d, t) == d < Date(t) /\ Date(t) <= NextWeekday(NextWeekday(d))

IsCurrentTail(d, t) == d < Date(t) /\ Date(t) <= NextWeekday(d)

-----------------------------------------------------------------------------
(* The run log: a sequence of run starts and run records.                  *)

IsStart(entry)     == entry.kind = "start"
IsCompletion(entry) == entry.kind = "record" /\ entry.status = "completed"
IsRefusal(entry)   == entry.kind = "record" /\ entry.status # "completed"

IsSeenBefore(log, i) == \E j \in 1 .. i - 1 : log[j].id = log[i].id

(* Seeded fault: a run's readings are expected in order.                   *)
IsPairedInOrder(log, i) ==
    /\ \E j \in 1 .. i - 1 : IsStart(log[j]) /\ log[j].id = log[i].id
    /\ \A n \in DOMAIN log[i].symbols :
          log[i].symbols[n].class = "exact"
              => log[i].symbols[n].built_at >= log[i].started_at

(* A completed record has its start before it, with the same clock, and no *)
(* other record of its own.                                                *)
IsPaired(log, i) ==
    /\ \E j \in 1 .. i - 1 : /\ IsStart(log[j])
                             /\ log[j].id = log[i].id
                             /\ log[j].started_at = log[i].started_at
    /\ \A j \in 1 .. i - 1 : IsCompletion(log[j]) => log[j].id # log[i].id

Completed(log) == {i \in DOMAIN log : IsCompletion(log[i]) /\ IsPaired(log, i)}

IsConsistent(log, i, activated_at) ==
    /\ IsStart(log[i]) => /\ ~IsSeenBefore(log, i)
                          /\ InWindow(log[i].started_at)
                          /\ log[i].started_at > activated_at
    /\ IsRefusal(log[i]) => ~IsSeenBefore(log, i) /\ log[i].symbols = <<>>
    /\ IsCompletion(log[i]) => IsPaired(log, i)

(* Seeded fault: a refresh that raised is forgotten.                       *)
RefreshedReturned(log) ==
    UNION {{r \in {log[i].symbols[n] : n \in DOMAIN log[i].symbols} :
               r.class = "exact"} : i \in Completed(log)}

(* The symbol-runs that reached the refresh, each with its clock reading.  *)
Refreshed(log) ==
    UNION {{r \in {log[i].symbols[n] : n \in DOMAIN log[i].symbols} :
               r.class \in {"exact", "raised"}} : i \in Completed(log)}

Interrupted(log) ==
    {i \in DOMAIN log :
        IsStart(log[i]) /\ \A j \in Completed(log) : log[j].id # log[i].id}

(* The conservative interval of an interrupted run.                        *)
Explains(log, i, t) ==
    /\ log[i].started_at - Tolerance <= t
    /\ i < Len(log) => t < log[i + 1].started_at
    /\ t - log[i].started_at <= MaxSpan
    /\ Date(t) = Date(log[i].started_at)

(* The latest interrupted run that explains a clock reading; 0 is none.    *)
InterruptedRunFor(log, t) ==
    LET candidates == {i \in Interrupted(log) : Explains(log, i, t)} IN
    IF candidates = {} THEN 0
    ELSE CHOOSE i \in candidates : \A j \in candidates : j <= i

-----------------------------------------------------------------------------
(* The records.  A claim is [symbol, key, timestamp, recorded_at], an      *)
(* outcome [symbol, key, claim, evaluated_at], claim being its claim's key.*)

HasProblem(c, activated_at) ==
    \/ ~InWindow(c.recorded_at)
    \/ IsPreActivation(c.timestamp, activated_at)
    \/ c.recorded_at <= activated_at
    \/ ~IsCurrentTail(c.timestamp, c.recorded_at)

RunsAt(log, symbol, t) == {r \in Refreshed(log) : r.symbol = symbol /\ r.built_at = t}

IsReconciled(log, c) ==
    \E r \in RunsAt(log, c.symbol, c.recorded_at) : r.tail = c.timestamp

(* The interrupted run a claim that no completed run explains is put to.   *)
RunOfClaim(log, c, activated_at) ==
    IF HasProblem(c, activated_at) \/ RunsAt(log, c.symbol, c.recorded_at) # {}
    THEN 0
    ELSE InterruptedRunFor(log, c.recorded_at)

OrphanClaims(log, claims, activated_at, symbol, i) ==
    {c \in claims : /\ c.symbol = symbol
                    /\ ~IsReconciled(log, c)
                    /\ RunOfClaim(log, c, activated_at) = i}

(* One snapshot per run and symbol: one clock, one tail.                   *)
IsOneSnapshot(group) ==
    /\ Cardinality({c.recorded_at : c \in group}) = 1
    /\ Cardinality({c.timestamp : c \in group}) = 1
    /\ Cardinality(group) <= ClaimsPerTail

Attributed(log, claims, activated_at) ==
    {c \in claims :
        /\ ~IsReconciled(log, c)
        /\ LET i == RunOfClaim(log, c, activated_at) IN
              i # 0 /\ IsOneSnapshot(OrphanClaims(log, claims, activated_at, c.symbol, i))}

ExcludedClaims(log, claims, activated_at) ==
    {<<c.symbol, c.key>> : c \in Attributed(log, claims, activated_at)}

ClaimsAt(log, claims, r) ==
    {c \in claims : /\ c.symbol = r.symbol
                    /\ c.recorded_at = r.built_at
                    /\ c.timestamp = r.tail}

(* An outcome of a claim the ledger does not hold, or not older.           *)
IsUnfounded(o, claims) ==
    \A c \in claims : (c.symbol = o.symbol /\ c.key = o.claim)
                          => o.evaluated_at <= c.recorded_at

RunOfOutcome(log, o) ==
    IF InWindow(o.evaluated_at) THEN InterruptedRunFor(log, o.evaluated_at) ELSE 0

OrphanOutcomes(log, claims, outcomes, symbol, i) ==
    {o \in outcomes : /\ o.symbol = symbol
                      /\ ~IsUnfounded(o, claims)
                      /\ RunsAt(log, symbol, o.evaluated_at) = {}
                      /\ RunOfOutcome(log, o) = i}

(* The outcomes of a run carry one clock, that of its claims if it has any.*)
IsOneReading(log, claims, outcomes, activated_at, symbol, i) ==
    LET clocks == {o.evaluated_at : o \in OrphanOutcomes(log, claims, outcomes, symbol, i)}
        group  == OrphanClaims(log, claims, activated_at, symbol, i)
    IN  /\ Cardinality(clocks) = 1
        /\ (group # {} /\ IsOneSnapshot(group)) => clocks = {c.recorded_at : c \in group}

AttributedOutcomes(log, claims, outcomes, activated_at) ==
    {o \in outcomes :
        /\ ~IsUnfounded(o, claims)
        /\ RunsAt(log, o.symbol, o.evaluated_at) = {}
        /\ RunOfOutcome(log, o) # 0
        /\ IsOneReading(log, claims, outcomes, activated_at, o.symbol,
                        RunOfOutcome(log, o))}

(* Seeded fault: what was measured from an excluded claim is kept.         *)
ExcludedOrphansOnly(log, claims, outcomes, activated_at) ==
    {<<o.symbol, o.key>> : o \in
        AttributedOutcomes(log, claims, outcomes, activated_at)}

(* With an excluded claim go the outcomes measured from it, in any run.    *)
ExcludedOutcomes(log, claims, outcomes, activated_at) ==
    {<<o.symbol, o.key>> : o \in
        AttributedOutcomes(log, claims, outcomes, activated_at)
        \cup {o \in outcomes : /\ ~IsUnfounded(o, claims)
                               /\ <<o.symbol, o.claim>> \in
                                      ExcludedClaims(log, claims, activated_at)}}

-----------------------------------------------------------------------------
(* The verdict.                                                            *)

(* Of a refresh that returned the counts are exact; one that raised is     *)
(* bounded by the tail.                                                    *)
CountsAgree(log, claims, outcomes, r) ==
    LET found == Cardinality(ClaimsAt(log, claims, r)) IN
    IF r.class = "exact"
    THEN /\ found = r.artifacts_new
         /\ r.outcomes_new = Cardinality(
                {o \in outcomes : /\ o.symbol = r.symbol
                                  /\ o.evaluated_at = r.built_at
                                  /\ ~IsUnfounded(o, claims)})
    ELSE found <= ClaimsPerTail

IsReconcilable(log, claims, outcomes, activated_at) ==
    /\ \A i \in DOMAIN log : IsConsistent(log, i, activated_at)
    /\ \A r1, r2 \in Refreshed(log) :
          (r1.symbol = r2.symbol /\ r1.built_at = r2.built_at) => r1 = r2
    /\ \A c \in claims :
          /\ ~HasProblem(c, activated_at)
          /\ IsReconciled(log, c) \/ c \in Attributed(log, claims, activated_at)
          /\ Cardinality({d \in claims : d.symbol = c.symbol /\ d.timestamp = c.timestamp})
                <= ClaimsPerTail
    /\ \A o \in outcomes :
          /\ InWindow(o.evaluated_at)
          /\ ~IsUnfounded(o, claims)
          /\ \/ RunsAt(log, o.symbol, o.evaluated_at) # {}
             \/ o \in AttributedOutcomes(log, claims, outcomes, activated_at)
    /\ \A r \in Refreshed(log) : CountsAgree(log, claims, outcomes, r)

(* verify_provenance: ok, degraded or invalid.                             *)
VerifyProvenance(log, claims, outcomes, activated_at) ==
    IF ~IsReconcilable(log, claims, outcomes, activated_at) THEN "invalid"
    ELSE IF \/ Attributed(log, claims, activated_at) # {}
            \/ AttributedOutcomes(log, claims, outcomes, activated_at) # {}
         THEN "degraded"
         ELSE "ok"
=============================================================================
