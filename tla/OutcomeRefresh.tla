---------------------------- MODULE OutcomeRefresh ----------------------------
(***************************************************************************)
(* Prospective outcome tracking: application/outcomes.py (refresh_outcomes)*)
(* over outcomes/store.py (JsonlOutcomeLedger), outcomes/tracking.py and   *)
(* evaluation/evaluate.py, for one ledger partition (symbol, interval,     *)
(* basis).                                                                 *)
(*                                                                         *)
(* A writer is a running refresh: the dashboard's or the command line's.   *)
(* It reads the clock, fetches one series, registers the claims about its  *)
(* last bar, then measures every claim the ledger holds.  Each ledger      *)
(* operation is a read of the files followed by an append, and no lock is  *)
(* held in between.  Around the writers the vendor publishes, revises and  *)
(* withdraws bars, and the wall clock may be stepped back.                 *)
(*                                                                         *)
(* Time is counted in days.  The bar of day d is stamped with its open,    *)
(* the first instant of d, and is settled on every later day; a clock      *)
(* reading of day d is some later instant of d.                            *)
(***************************************************************************)
EXTENDS JsonlFile, FiniteSets

CONSTANTS
    Writers,          \* processes that refresh into this partition
    Producers,        \* sequence: the hypotheses in order, then the policy
    Horizons,         \* sequence: the bars each specification looks ahead
    Sources,          \* provider names
    Contents,         \* what a bar can contain (its fingerprint)
    States,           \* states a producer can claim
    Insufficient,     \* the state INSUFFICIENT_DATA
    Classify(_, _),   \* what a producer claims about the last of some bars
    WindowDays,       \* length of the history window that is fetched
    MaxDay,           \* bound: the last day the clock reaches
    MaxVendorEdits,   \* bound: revisions, withdrawals, late bars, source switches
    MaxClockSteps,    \* bound: times the clock is stepped back
    MaxFaults         \* bound: appends cut short and processes killed

Days == 0 .. MaxDay
Bars == UNION {[D -> Contents] : D \in SUBSET Days}
Budgets == [edits  : 0 .. MaxVendorEdits,
            steps  : 0 .. MaxClockSteps,
            faults : 0 .. MaxFaults]

ASSUME ConstantsAssumption ==
    /\ Writers # {}
    /\ Producers \in Seq(STRING)
    /\ \A i, j \in DOMAIN Producers : Producers[i] = Producers[j] => i = j
    /\ Horizons \in Seq(Nat \ {0})
    /\ Horizons # <<>>
    /\ \A i, j \in DOMAIN Horizons : Horizons[i] = Horizons[j] => i = j
    /\ Sources # {}
    /\ Insufficient \in States
    /\ WindowDays \in Nat \ {0}
    /\ MaxDay \in Nat
    /\ MaxVendorEdits \in Nat
    /\ MaxClockSteps \in Nat
    /\ MaxFaults \in Nat

ASSUME ClassifyAssumption ==
    \A i \in DOMAIN Producers : \A b \in Bars : Classify(Producers[i], b) \in States

VARIABLES
    clock,       \* the day the machine's clock shows
    upstream,    \* the bars the vendor serves now
    source,      \* the provider in use
    artifacts,   \* artifacts.jsonl
    outcomes,    \* outcomes.jsonl
    pc,          \* where each writer is
    snap,        \* each writer's snapshot: its clock, source and bars
    held,        \* each writer's one read of the artifacts, and what it added
    present,     \* each writer's one read of the outcome keys
    at,          \* each writer's position: a claim, or <<claim, horizon>>
    line,        \* the line each writer has decided to append
    left         \* what is left of each bound

files  == <<artifacts, outcomes>>
local  == <<pc, snap, held, present, at, line>>
market == <<clock, upstream, source>>
vars   == <<market, files, local, left>>

-----------------------------------------------------------------------------
(* The records.                                                            *)

ProducerSet == {Producers[i] : i \in DOMAIN Producers}
HorizonSet  == {Horizons[j] : j \in DOMAIN Horizons}

(* A key is the producer's identity and the claimed bar: neither the state *)
(* nor the clock nor the source is part of it.                             *)
ArtifactKeys == ProducerSet \X Days
OutcomeKeys  == ArtifactKeys \X HorizonSet

Artifacts ==
    [key : ArtifactKeys, producer : ProducerSet, timestamp : Days,
     state : States, source : Sources, fingerprint : Contents,
     data_cutoff : Days, recorded_at : Days]

Outcomes ==
    [key : OutcomeKeys, artifact : Artifacts, horizon : HorizonSet,
     evaluated_at : Days, reference : Days, future : Days, consumed : Bars]

Snapshots == [built_at : Days, source : Sources, bars : Bars]

IsEvaluable(artifact) == artifact.state # Insufficient

-----------------------------------------------------------------------------
(* The snapshot and its claims.                                            *)

Earliest(days) == CHOOSE d \in days : \A e \in days : d <= e
Latest(days)   == CHOOSE d \in days : \A e \in days : e <= d

Restricted(bars, days) == [d \in days |-> bars[d]]

(* The bars of the window that ends at the snapshot's clock, of which the  *)
(* provider drops, by its own later look at the clock, those not settled.  *)
Fetched(bars, built_at, now) ==
    Restricted(bars, {d \in DOMAIN bars :
                         d < now /\ d <= built_at /\ built_at <= d + WindowDays})

(* One claim per producer about the last settled bar, and no other.        *)
CurrentArtifacts(s) ==
    IF DOMAIN s.bars = {} THEN <<>>
    ELSE LET tail == Latest(DOMAIN s.bars) IN
         [i \in DOMAIN Producers |->
            [key         |-> <<Producers[i], tail>>,
             producer    |-> Producers[i],
             timestamp   |-> tail,
             state       |-> Classify(Producers[i], s.bars),
             source      |-> s.source,
             fingerprint |-> s.bars[tail],
             data_cutoff |-> tail,
             recorded_at |-> s.built_at]]

-----------------------------------------------------------------------------
(* Measurement.                                                            *)

Later(bars, t) == {d \in DOMAIN bars : d > t}

(* The bars of the horizon, counted and not dated: the reference bar is    *)
(* the next one, the future bar is the horizon-th.                         *)
HorizonDays(bars, t, horizon) ==
    {d \in Later(bars, t) :
        Cardinality({e \in Later(bars, t) : e <= d}) <= horizon}

IsComplete(bars, t, horizon) == Cardinality(Later(bars, t)) >= horizon

(* Seeded fault: the fingerprinted window runs on to the end of the series.*)
OutcomeOfOpenEnded(artifact, s, horizon) ==
    LET days == HorizonDays(s.bars, artifact.timestamp, horizon) IN
    [key          |-> <<artifact.key, horizon>>,
     artifact     |-> artifact,
     horizon      |-> horizon,
     evaluated_at |-> s.built_at,
     reference    |-> Earliest(days),
     future       |-> Latest(days),
     consumed     |-> Restricted(s.bars, Later(s.bars, artifact.timestamp))]

OutcomeOf(artifact, s, horizon) ==
    LET days == HorizonDays(s.bars, artifact.timestamp, horizon) IN
    [key          |-> <<artifact.key, horizon>>,
     artifact     |-> artifact,
     horizon      |-> horizon,
     evaluated_at |-> s.built_at,
     reference    |-> Earliest(days),
     future       |-> Latest(days),
     consumed     |-> Restricted(s.bars, days)]

(* The record's own invariants, the last word on a measurement.            *)
IsPossible(outcome) ==
    /\ IsEvaluable(outcome.artifact)
    /\ outcome.evaluated_at >= outcome.artifact.recorded_at
    /\ outcome.reference > outcome.artifact.timestamp
    /\ outcome.future >= outcome.reference
    /\ (outcome.horizon = 1) <=> (outcome.future = outcome.reference)
    /\ outcome.evaluated_at >= outcome.future
    /\ outcome.future > outcome.artifact.data_cutoff

(* Neither is reported as a fault: a held outcome is not measured again,   *)
(* and a claim older than the fetched window says nothing about the data.  *)
IsExamined(artifact, horizon, s, known) ==
    /\ <<artifact.key, horizon>> \notin known
    /\ ~ ( /\ IsEvaluable(artifact)
           /\ \A d \in DOMAIN s.bars : artifact.timestamp < d )

(* A clock before the registration, whatever else is the case, and a bar   *)
(* missing inside the window end the whole refresh.                        *)
IsHardError(artifact, s) ==
    \/ s.built_at < artifact.recorded_at
    \/ /\ IsEvaluable(artifact)
       /\ artifact.source = s.source
       /\ artifact.timestamp \notin DOMAIN s.bars

(* Neither ineligible, nor refused (another source, the claimed bar        *)
(* restated), nor pending.                                                 *)
IsDue(artifact, horizon, s) ==
    /\ IsEvaluable(artifact)
    /\ artifact.source = s.source
    /\ artifact.timestamp \in DOMAIN s.bars
    /\ s.bars[artifact.timestamp] = artifact.fingerprint
    /\ IsComplete(s.bars, artifact.timestamp, horizon)

-----------------------------------------------------------------------------
(* A writer's steps.                                                       *)

NoSnapshot == [built_at |-> 0, source |-> CHOOSE x \in Sources : TRUE, bars |-> <<>>]
NoLine     == [key |-> <<>>]

(* Both a finished refresh and one that raised or died forget everything.  *)
Stop(w) ==
    /\ pc'      = [pc EXCEPT ![w] = "idle"]
    /\ snap'    = [snap EXCEPT ![w] = NoSnapshot]
    /\ held'    = [held EXCEPT ![w] = <<>>]
    /\ present' = [present EXCEPT ![w] = {}]
    /\ at'      = [at EXCEPT ![w] = <<1, 1>>]
    /\ line'    = [line EXCEPT ![w] = NoLine]

Goto(w, label) == pc' = [pc EXCEPT ![w] = label]

(* build_snapshot reads the clock, once and before it fetches.             *)
Begin(w) ==
    /\ pc[w] = "idle"
    /\ Goto(w, "fetching")
    /\ snap' = [snap EXCEPT ![w] = [built_at |-> clock, source |-> source, bars |-> <<>>]]
    /\ UNCHANGED <<market, files, held, present, at, line, left>>

(* The series arrives; a fetch that raises is a process killed here.       *)
Fetch(w) ==
    /\ pc[w] = "fetching"
    /\ Goto(w, "opening")
    /\ snap' = [snap EXCEPT ![w].bars = Fetched(upstream, snap[w].built_at, clock)]
    /\ UNCHANGED <<market, files, held, present, at, line, left>>

(* refresh_outcomes: one read of the artifacts.                            *)
Open(w) ==
    /\ pc[w] = "opening"
    /\ Readable(artifacts)
    /\ Goto(w, "registering")
    /\ held' = [held EXCEPT ![w] = artifacts.rows]
    /\ UNCHANGED <<market, files, snap, present, at, line, left>>

OpenRaises(w) ==
    /\ pc[w] = "opening"
    /\ ~Readable(artifacts)
    /\ Stop(w)
    /\ UNCHANGED <<market, files, left>>

Claim(w) == CurrentArtifacts(snap[w])[at[w][1]]

HasClaim(w) == pc[w] = "registering" /\ at[w][1] <= Len(CurrentArtifacts(snap[w]))

HeldBy(w, key) == {artifact \in RowSet([rows |-> held[w]]) : artifact.key = key}

(* Seeded fault: a claim sighted again is offered with today's clock.      *)
OfferedAnew(w) == Claim(w)

(* A claim held at the start is offered with its registration clock.       *)
Offered(w) ==
    LET claim == Claim(w) IN
    IF HeldBy(w, claim.key) = {} THEN claim
    ELSE [claim EXCEPT !.recorded_at =
              (CHOOSE a \in HeldBy(w, claim.key) : TRUE).recorded_at]

Tracked(w) ==
    IF HeldBy(w, Claim(w).key) = {} THEN Append(held[w], Offered(w)) ELSE held[w]

NextClaim(w) == at' = [at EXCEPT ![w] = <<@[1] + 1, 1>>]

(* Seeded fault: the new line is written without looking its key up.       *)
OfferUnread(w) ==
    /\ HasClaim(w)
    /\ Readable(artifacts)
    /\ Goto(w, "appending_artifact")
    /\ line' = [line EXCEPT ![w] = Offered(w)]
    /\ UNCHANGED <<market, files, snap, held, present, at, left>>

(* register_artifact, a new key: read, find nothing, go on to append.      *)
OfferNew(w) ==
    /\ HasClaim(w)
    /\ Readable(artifacts)
    /\ Claim(w).key \notin Keys(artifacts)
    /\ Goto(w, "appending_artifact")
    /\ line' = [line EXCEPT ![w] = Offered(w)]
    /\ UNCHANGED <<market, files, snap, held, present, at, left>>

(* Seeded fault: a duplicate refreshes the held line's registration clock. *)
OfferDuplicateRestamps(w) ==
    /\ HasClaim(w)
    /\ Readable(artifacts)
    /\ Offered(w) \in RowSet(artifacts)
    /\ artifacts' = [artifacts EXCEPT !.rows =
          [i \in DOMAIN @ |-> IF @[i] = Offered(w) THEN Claim(w) ELSE @[i]]]
    /\ held' = [held EXCEPT ![w] = Tracked(w)]
    /\ NextClaim(w)
    /\ UNCHANGED <<market, outcomes, pc, snap, present, line, left>>

(* register_artifact, a held key with an equal row: DUPLICATE.             *)
OfferDuplicate(w) ==
    /\ HasClaim(w)
    /\ Readable(artifacts)
    /\ Offered(w) \in RowSet(artifacts)
    /\ held' = [held EXCEPT ![w] = Tracked(w)]
    /\ NextClaim(w)
    /\ UNCHANGED <<market, files, pc, snap, present, line, left>>

(* An unreadable file, or CONFLICT: a different row under the same key.    *)
OfferRaises(w) ==
    /\ HasClaim(w)
    /\ \/ ~Readable(artifacts)
       \/ /\ Claim(w).key \in Keys(artifacts)
          /\ Offered(w) \notin RowSet(artifacts)
    /\ Stop(w)
    /\ UNCHANGED <<market, files, left>>

AppendArtifact(w) ==
    /\ pc[w] = "appending_artifact"
    /\ artifacts' = Appended(artifacts, line[w])
    /\ held' = [held EXCEPT ![w] = Tracked(w)]
    /\ line' = [line EXCEPT ![w] = NoLine]
    /\ NextClaim(w)
    /\ Goto(w, "registering")
    /\ UNCHANGED <<market, outcomes, snap, present, left>>

(* Every claim is registered: one read of the outcomes.                    *)
ReadPresent(w) ==
    /\ pc[w] = "registering"
    /\ ~HasClaim(w)
    /\ Readable(outcomes)
    /\ Goto(w, "measuring")
    /\ present' = [present EXCEPT ![w] = Keys(outcomes)]
    /\ at' = [at EXCEPT ![w] = <<1, 1>>]
    /\ UNCHANGED <<market, files, snap, held, line, left>>

ReadPresentRaises(w) ==
    /\ pc[w] = "registering"
    /\ ~HasClaim(w)
    /\ ~Readable(outcomes)
    /\ Stop(w)
    /\ UNCHANGED <<market, files, left>>

HasItem(w)     == pc[w] = "measuring" /\ at[w][1] <= Len(held[w])
Item(w)        == held[w][at[w][1]]
ItemHorizon(w) == Horizons[at[w][2]]
Examined(w)    == IsExamined(Item(w), ItemHorizon(w), snap[w], present[w])
HardError(w)   == IsHardError(Item(w), snap[w])
Due(w)         == IsDue(Item(w), ItemHorizon(w), snap[w])
Measured(w)    == OutcomeOf(Item(w), snap[w], ItemHorizon(w))
Evaluated(w)   == Examined(w) /\ ~HardError(w) /\ Due(w) /\ IsPossible(Measured(w))

(* Seeded fault: one specification too many.                               *)
NextItemOverruns(position) ==
    IF position[2] <= Len(Horizons)
    THEN <<position[1], position[2] + 1>>
    ELSE <<position[1] + 1, 1>>

(* Artifacts in ledger order, each under every specification in order.     *)
NextItem(position) ==
    IF position[2] < Len(Horizons)
    THEN <<position[1], position[2] + 1>>
    ELSE <<position[1] + 1, 1>>

(* The artifact's registered row, as append_outcome reads it back.         *)
IsRegistered(artifact) == Readable(artifacts) /\ artifact \in RowSet(artifacts)

(* Nothing to write: present, pending, ineligible, refused, out of window. *)
Pass(w) ==
    /\ HasItem(w)
    /\ Examined(w) => ~HardError(w) /\ ~Due(w)
    /\ at' = [at EXCEPT ![w] = NextItem(@)]
    /\ UNCHANGED <<market, files, pc, snap, held, present, line, left>>

(* append_outcome, a new key.                                              *)
Measure(w) ==
    /\ HasItem(w)
    /\ Evaluated(w)
    /\ IsRegistered(Measured(w).artifact)
    /\ Readable(outcomes)
    /\ Measured(w).key \notin Keys(outcomes)
    /\ Goto(w, "appending_outcome")
    /\ line' = [line EXCEPT ![w] = Measured(w)]
    /\ UNCHANGED <<market, files, snap, held, present, at, left>>

(* append_outcome, an equal row already there: DUPLICATE.                  *)
MeasureDuplicate(w) ==
    /\ HasItem(w)
    /\ Evaluated(w)
    /\ IsRegistered(Measured(w).artifact)
    /\ Readable(outcomes)
    /\ Measured(w) \in RowSet(outcomes)
    /\ present' = [present EXCEPT ![w] = @ \cup {Measured(w).key}]
    /\ at' = [at EXCEPT ![w] = NextItem(@)]
    /\ UNCHANGED <<market, files, pc, snap, held, line, left>>

(* The item's own error; an unreadable file; UnregisteredArtifactError or  *)
(* ArtifactMismatchError; CONFLICT.                                        *)
MeasureRaises(w) ==
    /\ HasItem(w)
    /\ \/ Examined(w) /\ HardError(w)
       \/ Examined(w) /\ Due(w) /\ ~IsPossible(Measured(w))
       \/ /\ Evaluated(w)
          /\ \/ ~IsRegistered(Measured(w).artifact)
             \/ ~Readable(outcomes)
             \/ /\ Measured(w).key \in Keys(outcomes)
                /\ Measured(w) \notin RowSet(outcomes)
    /\ Stop(w)
    /\ UNCHANGED <<market, files, left>>

AppendOutcome(w) ==
    /\ pc[w] = "appending_outcome"
    /\ outcomes' = Appended(outcomes, line[w])
    /\ present' = [present EXCEPT ![w] = @ \cup {line[w].key}]
    /\ line' = [line EXCEPT ![w] = NoLine]
    /\ at' = [at EXCEPT ![w] = NextItem(@)]
    /\ Goto(w, "measuring")
    /\ UNCHANGED <<market, artifacts, snap, held, left>>

Finish(w) ==
    /\ pc[w] = "measuring"
    /\ ~HasItem(w)
    /\ Stop(w)
    /\ UNCHANGED <<market, files, left>>

-----------------------------------------------------------------------------
(* Faults of the process and of the disk.                                  *)

Spend(budget) == left[budget] > 0 /\ left' = [left EXCEPT ![budget] = @ - 1]

(* Seeded fault: an append that raised is taken for one that returned.     *)
ArtifactCutShortSwallowed(w) ==
    /\ pc[w] = "appending_artifact"
    /\ Spend("faults")
    /\ artifacts' \in CutShort(artifacts, line[w])
    /\ held' = [held EXCEPT ![w] = Tracked(w)]
    /\ line' = [line EXCEPT ![w] = NoLine]
    /\ NextClaim(w)
    /\ Goto(w, "registering")
    /\ UNCHANGED <<market, outcomes, snap, present>>

ArtifactCutShort(w) ==
    /\ pc[w] = "appending_artifact"
    /\ Spend("faults")
    /\ artifacts' \in CutShort(artifacts, line[w])
    /\ Stop(w)
    /\ UNCHANGED <<market, outcomes>>

OutcomeCutShort(w) ==
    /\ pc[w] = "appending_outcome"
    /\ Spend("faults")
    /\ outcomes' \in CutShort(outcomes, line[w])
    /\ Stop(w)
    /\ UNCHANGED <<market, artifacts>>

Killed(w) ==
    /\ pc[w] # "idle"
    /\ Spend("faults")
    /\ Stop(w)
    /\ UNCHANGED <<market, files>>

-----------------------------------------------------------------------------
(* The vendor and the clock.                                               *)

With(bars, d, c) == [e \in DOMAIN bars \cup {d} |-> IF e = d THEN c ELSE bars[e]]

(* A day passes; its session is published, or there was none.              *)
Tick ==
    /\ clock < MaxDay
    /\ clock' = clock + 1
    /\ \/ UNCHANGED upstream
       \/ /\ clock \notin DOMAIN upstream
          /\ \E c \in Contents : upstream' = With(upstream, clock, c)
    /\ UNCHANGED <<source, files, local, left>>

(* A bar arrives late, or is restated.                                     *)
Restate ==
    /\ Spend("edits")
    /\ \E d \in Days, c \in Contents :
          /\ d < clock
          /\ upstream' = With(upstream, d, c)
    /\ upstream' # upstream
    /\ UNCHANGED <<clock, source, files, local>>

Withdraw ==
    /\ Spend("edits")
    /\ \E d \in DOMAIN upstream :
          upstream' = Restricted(upstream, DOMAIN upstream \ {d})
    /\ UNCHANGED <<clock, source, files, local>>

SwitchSource ==
    /\ Spend("edits")
    /\ \E s \in Sources \ {source} : source' = s
    /\ UNCHANGED <<clock, upstream, files, local>>

StepClockBack ==
    /\ Spend("steps")
    /\ clock > 0
    /\ clock' = clock - 1
    /\ UNCHANGED <<upstream, source, files, local>>

-----------------------------------------------------------------------------
Init ==
    /\ clock = 0
    /\ upstream = <<>>
    /\ source \in Sources
    /\ artifacts = EmptyFile
    /\ outcomes = EmptyFile
    /\ pc = [w \in Writers |-> "idle"]
    /\ snap = [w \in Writers |-> NoSnapshot]
    /\ held = [w \in Writers |-> <<>>]
    /\ present = [w \in Writers |-> {}]
    /\ at = [w \in Writers |-> <<1, 1>>]
    /\ line = [w \in Writers |-> NoLine]
    /\ left = [edits |-> MaxVendorEdits, steps |-> MaxClockSteps, faults |-> MaxFaults]

(* What a refresh does when nothing interferes with it.                    *)
Step(w) ==
    \/ Fetch(w) \/ Open(w) \/ OpenRaises(w)
    \/ OfferNew(w) \/ OfferDuplicate(w) \/ OfferRaises(w) \/ AppendArtifact(w)
    \/ ReadPresent(w) \/ ReadPresentRaises(w)
    \/ Pass(w) \/ Measure(w) \/ MeasureDuplicate(w) \/ MeasureRaises(w)
    \/ AppendOutcome(w) \/ Finish(w)

Fault(w) == ArtifactCutShort(w) \/ OutcomeCutShort(w) \/ Killed(w)

Vendor == Tick \/ Restate \/ Withdraw \/ SwitchSource \/ StepClockBack

Next ==
    \/ \E w \in Writers : Begin(w) \/ Step(w) \/ Fault(w)
    \/ Vendor

Spec == Init /\ [][Next]_vars

(* A running refresh goes on, and somebody keeps asking for the next one.  *)
FairSpec ==
    /\ Spec
    /\ \A w \in Writers : WF_vars(Begin(w)) /\ WF_vars(Step(w))
    /\ WF_vars(Tick)

-----------------------------------------------------------------------------
(* Properties.                                                             *)

Labels == {"idle", "fetching", "opening", "registering", "appending_artifact",
           "measuring", "appending_outcome"}

(* Every variable holds what the code could hold, the positions of a       *)
(* running refresh among its claims and items included.                    *)
TypeOK ==
    /\ clock \in Days
    /\ upstream \in Bars
    /\ source \in Sources
    /\ artifacts \in File(Artifacts)
    /\ outcomes \in File(Outcomes)
    /\ pc \in [Writers -> Labels]
    /\ snap \in [Writers -> Snapshots]
    /\ held \in [Writers -> Seq(Artifacts)]
    /\ present \in [Writers -> SUBSET OutcomeKeys]
    /\ at \in [Writers -> (Nat \ {0}) \X DOMAIN Horizons]
    /\ line \in [Writers -> Artifacts \cup Outcomes \cup {NoLine}]
    /\ left \in Budgets

(* "The writer is idempotent and never produces them": with one writer no  *)
(* file ever holds two lines under one key, whatever was cut short,        *)
(* restated, or offered again on another day.                              *)
OneLinePerKey == NoRepeatedKey(artifacts) /\ NoRepeatedKey(outcomes)

(* append_outcome checks the registration before it writes, two files and  *)
(* no transaction: an outcome line always embeds an artifact line that is  *)
(* in the ledger, to the last field.                                       *)
OutcomesRegistered ==
    \A outcome \in RowSet(outcomes) : outcome.artifact \in RowSet(artifacts)

(* The prospective invariant: what closes a measurement was not in the     *)
(* data the claim was made from.  A stored outcome consumed exactly its    *)
(* horizon of bars, all opened after everything its claim had seen and     *)
(* before the clock that measured it, from its reference to its future;    *)
(* and the claim was classifiable.  (Opened and not settled: the clock is  *)
(* read before the fetch, so a bar may settle in between.)                 *)
IsProspective(outcome) ==
    LET artifact == outcome.artifact IN
    /\ IsEvaluable(artifact)
    /\ Cardinality(DOMAIN outcome.consumed) = outcome.horizon
    /\ {outcome.reference, outcome.future} \subseteq DOMAIN outcome.consumed
    /\ \A d \in DOMAIN outcome.consumed :
          /\ artifact.data_cutoff < d
          /\ outcome.reference <= d /\ d <= outcome.future
          /\ d <= outcome.evaluated_at
    /\ artifact.data_cutoff <= artifact.recorded_at
    /\ artifact.recorded_at <= outcome.evaluated_at

OutcomesProspective == \A outcome \in RowSet(outcomes) : IsProspective(outcome)

(* A running refresh never believes more than the disk holds: every claim  *)
(* it tracks and every outcome it reports as present or written is a       *)
(* complete line, so an append that returned is never lost.                *)
BeliefsAreDurable ==
    \A w \in Writers :
        /\ RowSet([rows |-> held[w]]) \subseteq RowSet(artifacts)
        /\ present[w] \subseteq Keys(outcomes)

(* "A damaged file stops the write rather than receiving another line on   *)
(* top of unreadable bytes": once a line is torn its file never changes    *)
(* again, and with the artifacts torn neither do the outcomes.             *)
DamageIsFinal ==
    [][/\ artifacts.tail # "clean" => UNCHANGED files
       /\ outcomes.tail # "clean" => UNCHANGED outcomes]_vars

(* The ledger written by one refresh at a time is a book of claims.        *)
Spoilt ==
    {part \in {"claims", "results"} :
        (IF part = "claims" THEN artifacts ELSE outcomes).tail # "clean"}

Book == INSTANCE ClaimBook WITH
            Claims  <- Artifacts,
            Results <- Outcomes,
            claims  <- RowSet(artifacts),
            results <- RowSet(outcomes),
            spoilt  <- Spoilt

(* Every step of a refresh, cut short or not, is one entry in that book,   *)
(* one part of it spoilt, or nothing.                                      *)
ImplementsBook == Book!Spec

(* What a refresh that begins now, and is not overtaken, works on.         *)
Snapshot ==
    [built_at |-> clock, source |-> source, bars |-> Fetched(upstream, clock, clock)]

(* Nothing can stop the next refresh before its last item: both files can  *)
(* be read, no held claim is a hard error for today's series, and today's  *)
(* claims do not contradict the ones held.                                 *)
Agrees(claim, artifact) ==
    artifact.key = claim.key =>
        artifact = [claim EXCEPT !.recorded_at = artifact.recorded_at]

IsUnobstructed ==
    /\ Readable(artifacts) /\ Readable(outcomes)
    /\ \A artifact \in RowSet(artifacts) :
          /\ ~IsHardError(artifact, Snapshot)
          /\ \A claim \in RowSet([rows |-> CurrentArtifacts(Snapshot)]) :
                Agrees(claim, artifact)

IsOwed(key, horizon) ==
    \E artifact \in RowSet(artifacts) :
        artifact.key = key /\ IsDue(artifact, horizon, Snapshot)

(* "The next refresh reads the ledger again and carries on from there":    *)
(* however often a refresh is cut short part-way, a claim whose horizon is *)
(* complete and stays so, behind nothing that stops the refresh, gets its  *)
(* outcome.                                                                *)
PartialRefreshResumes ==
    \A key \in ArtifactKeys, horizon \in HorizonSet :
        <>[](IsUnobstructed /\ IsOwed(key, horizon))
            => <>(<<key, horizon>> \in Keys(outcomes))
=============================================================================
