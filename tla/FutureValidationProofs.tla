------------------------- MODULE FutureValidationProofs -------------------------
(***************************************************************************)
(* Proofs about FutureValidation, for every definition of the validation,  *)
(* every set of runners, every sequence of days, and every bound on        *)
(* crashes, deaths of the collector, foreign rows and edits.               *)
(*                                                                         *)
(* What the statistics amount to is left to TLC; here is what they are     *)
(* computed from, and that it is computed once.                            *)
(***************************************************************************)
EXTENDS FutureValidation, CommonProofs

-----------------------------------------------------------------------------
(* Finite sets of numbers.                                                 *)

(* What a function on a finite set takes for values is finite.             *)
LEMMA ImageIsFinite ==
    ASSUME NEW S, IsFiniteSet(S), NEW f, f = [x \in S |-> f[x]]
    PROVE  /\ IsFiniteSet({f[x] : x \in S})
           /\ Cardinality({f[x] : x \in S}) <= Cardinality(S)
<1>1. f \in Surjection(S, {f[x] : x \in S})
  BY DEF Surjection
<1>2. QED
  BY <1>1, FS_Surjection

(* A sequence has finitely many members.                                   *)
LEMMA MembersAreFinite ==
    ASSUME NEW S, NEW q \in Seq(S)
    PROVE  /\ IsFiniteSet(ToSet(q)) /\ ToSet(q) \subseteq S
           /\ ToSet(q) = {q[i] : i \in DOMAIN q}
<1>1. DOMAIN q = 1 .. Len(q) /\ Len(q) \in Nat /\ \A i \in 1 .. Len(q) : q[i] \in S
  OBVIOUS
<1>2. IsFiniteSet(1 .. Len(q))
  <2>1. PICK one \in {1} : TRUE
    OBVIOUS
  <2>2. one \in Int /\ Len(q) \in Int
    BY <1>1
  <2>3. IsFiniteSet(one .. Len(q))
    BY <2>2, FS_Interval
  <2>4. QED
    BY <2>3
<1>3. q = [i \in 1 .. Len(q) |-> q[i]]
  OBVIOUS
<1>4. IsFiniteSet({q[i] : i \in 1 .. Len(q)})
  BY <1>2, <1>3, ImageIsFinite
<1>5. ToSet(q) = {q[i] : i \in DOMAIN q}
  BY DEF ToSet
<1>6. QED
  BY <1>1, <1>4, <1>5

(* Of finitely many numbers one is the largest.                            *)
LEMMA LargestIsLargest ==
    ASSUME NEW S \in SUBSET Int, IsFiniteSet(S)
    PROVE  /\ S = {} => Largest(S) = Null
           /\ S # {} => /\ Largest(S) \in S
                        /\ \A x \in S : x <= Largest(S)
<1>1. CASE S = {}
  BY <1>1 DEF Largest
<1>2. CASE S # {}
  <2> DEFINE n == Cardinality(S)
  <2> DEFINE bars == Ascending(S)
  <2>1. n \in Nat /\ n # 0
    BY <1>2, FS_CardinalityType, FS_EmptySet
  <2>2. Len(bars) = n /\ bars[n] \in S
    BY <2>1, AscendingIsOrdered
  <2>3. \A x \in S : ~(Rank(S, bars[n]) < Rank(S, x))
    <3>1. ASSUME NEW x \in S, Rank(S, bars[n]) < Rank(S, x) PROVE FALSE
      <4>1. bars[n] < x
        BY <2>2, <3>1, RanksGrow
      <4>2. Rank(S, x) \in Nat /\ Rank(S, x) < n
        BY RanksGrow
      <4>3. Rank(S, bars[n]) = n - 1
        BY <2>1, AscendingIsOrdered
      <4>4. QED
        BY <2>1, <3>1, <4>2, <4>3
    <3>2. QED
      BY <3>1
  <2>4. \A x \in S : x <= bars[n]
    <3>1. ASSUME NEW x \in S, ~(x <= bars[n]) PROVE FALSE
      <4>1. bars[n] < x
        <5>1. x \in Int /\ bars[n] \in Int
          BY <2>2
        <5> HIDE DEF bars, n
        <5>2. QED
          BY <3>1, <5>1
      <4>2. QED
        BY <2>2, <2>3, <4>1, RanksGrow
    <3>2. QED
      BY <3>1
  <2>5. QED
    BY <1>2, <2>2, <2>4 DEF Largest
<1>3. QED
  BY <1>1, <1>2

-----------------------------------------------------------------------------
(* What the files of the evidence hold.                                    *)

KeysOf(s) == {s} \X Hypotheses \X Nat

ClaimsOf(s) ==
    {c \in [key : KeysOf(s), symbol : {s}, hypothesis : Hypotheses, bar : Nat,
            state : UNION {StatesOf(s, h) : h \in Hypotheses}, run : Nat] :
        /\ c.key = <<s, c.hypothesis, c.bar>>
        /\ c.state \in StatesOf(s, c.hypothesis)}

OutcomesOf(s) ==
    {o \in [key : KeysOf(s) \X Horizons, claim : KeysOf(s), horizon : Horizons,
            value : ValuesAt(s), reference : Int, future : Int, run : Nat] :
        o.key = <<o.claim, o.horizon>>}

LogRows ==
    [kind : {"start"}, run : Nat \ {0}]
    \cup [kind : {"record"}, run : Nat \ {0}, missed : [Symbols -> SUBSET Nat]]

IsSnapshot(snapshot) ==
    /\ snapshot.log \in Seq(LogRows)
    /\ snapshot.claims = [s \in Symbols |-> snapshot.claims[s]]
    /\ snapshot.outcomes = [s \in Symbols |-> snapshot.outcomes[s]]
    /\ \A s \in Symbols : /\ snapshot.claims[s] \in Seq(ClaimsOf(s))
                          /\ snapshot.outcomes[s] \in Seq(OutcomesOf(s))
    /\ snapshot.torn \in BOOLEAN

(* The sets of the definition are finite and its numbers are natural.      *)
LEMMA Definition ==
    /\ IsFiniteSet(Symbols) /\ IsFiniteSet(PrimarySymbols)
    /\ IsFiniteSet(Hypotheses) /\ IsFiniteSet(Horizons)
    /\ PrimarySymbols \subseteq Symbols /\ Primary \in Hypotheses
    /\ Horizons \subseteq Nat /\ PrimaryHorizon \in Horizons
    /\ MinimumMonths \in Nat /\ ForcedMonths \in Nat /\ MinimumMatured \in Nat
    /\ ActivatedAt \in Nat
<1>1. IsFiniteSet(PrimarySymbols) /\ IsFiniteSet(SecondarySymbols)
  BY DefinitionAssumption DEF IsDefinition
<1>2. IsFiniteSet(Symbols)
  BY <1>1, FS_Union DEF Symbols
<1>3. QED
  BY <1>1, <1>2, DefinitionAssumption, RunnerAssumption DEF IsDefinition, Symbols

(* All rows of a snapshot, and each file's.                                *)
LEMMA RowsOfSnapshot ==
    ASSUME NEW snapshot, IsSnapshot(snapshot)
    PROVE  /\ IsFiniteSet(Rows(snapshot.claims)) /\ IsFiniteSet(Rows(snapshot.outcomes))
           /\ \A s \in Symbols : /\ IsFiniteSet(ToSet(snapshot.claims[s]))
                                 /\ IsFiniteSet(ToSet(snapshot.outcomes[s]))
                                 /\ ToSet(snapshot.claims[s]) \subseteq ClaimsOf(s)
                                 /\ ToSet(snapshot.outcomes[s]) \subseteq OutcomesOf(s)
           /\ \A c \in Rows(snapshot.claims) :
                 \E s \in Symbols : c \in ToSet(snapshot.claims[s]) /\ c \in ClaimsOf(s)
           /\ \A o \in Rows(snapshot.outcomes) :
                 \E s \in Symbols : o \in ToSet(snapshot.outcomes[s]) /\ o \in OutcomesOf(s)
<1>1. \A s \in Symbols : /\ snapshot.claims[s] \in Seq(ClaimsOf(s))
                         /\ snapshot.outcomes[s] \in Seq(OutcomesOf(s))
  BY DEF IsSnapshot
<1>2. \A s \in Symbols : /\ IsFiniteSet(ToSet(snapshot.claims[s]))
                         /\ IsFiniteSet(ToSet(snapshot.outcomes[s]))
                         /\ ToSet(snapshot.claims[s]) \subseteq ClaimsOf(s)
                         /\ ToSet(snapshot.outcomes[s]) \subseteq OutcomesOf(s)
  BY <1>1, MembersAreFinite
<1>3. ASSUME NEW files, \A s \in Symbols : IsFiniteSet(ToSet(files[s]))
      PROVE  IsFiniteSet(Rows(files))
  <2> DEFINE f == [s \in Symbols |-> ToSet(files[s])]
  <2>1. IsFiniteSet({f[s] : s \in Symbols})
    <3>1. f = [s \in Symbols |-> f[s]]
      OBVIOUS
    <3> HIDE DEF f
    <3>2. QED
      BY <3>1, Definition, ImageIsFinite
  <2>2. {f[s] : s \in Symbols} = {ToSet(files[s]) : s \in Symbols}
    OBVIOUS
  <2>3. \A T \in {f[s] : s \in Symbols} : IsFiniteSet(T)
    BY <1>3, <2>2
  <2>4. QED
    BY <2>1, <2>2, <2>3, FS_UNION DEF Rows
<1>4. IsFiniteSet(Rows(snapshot.claims)) /\ IsFiniteSet(Rows(snapshot.outcomes))
  BY <1>2, <1>3
<1>5. /\ \A c \in Rows(snapshot.claims) : \E s \in Symbols : c \in ToSet(snapshot.claims[s])
      /\ \A o \in Rows(snapshot.outcomes) : \E s \in Symbols : o \in ToSet(snapshot.outcomes[s])
  BY DEF Rows
<1>6. QED
  BY <1>2, <1>4, <1>5

(* A log names finitely many runs.                                         *)
LEMMA RunsOfLog ==
    ASSUME NEW entries \in Seq(LogRows)
    PROVE  /\ IsFiniteSet(Started(entries)) /\ Started(entries) \subseteq Nat \ {0}
           /\ Recorded(entries) \subseteq Nat \ {0}
           /\ Cardinality(Started(entries)) + 1 \in Nat \ {0}
<1>1. /\ DOMAIN entries = 1 .. Len(entries) /\ Len(entries) \in Nat
      /\ \A i \in DOMAIN entries : entries[i] \in LogRows
  OBVIOUS
<1>2. \A i \in DOMAIN entries : entries[i].run \in Nat \ {0}
  BY <1>1 DEF LogRows
<1>3. Started(entries) \subseteq Nat \ {0} /\ Recorded(entries) \subseteq Nat \ {0}
  BY <1>2 DEF Started, Recorded
<1>4. IsFiniteSet(Started(entries))
  <2> DEFINE f == [i \in DOMAIN entries |-> entries[i].run]
  <2>1. IsFiniteSet(DOMAIN entries)
    <3>1. PICK one \in {1} : TRUE
      OBVIOUS
    <3>2. one \in Int /\ Len(entries) \in Int
      BY <1>1
    <3>3. IsFiniteSet(one .. Len(entries))
      BY <3>2, FS_Interval
    <3>4. QED
      BY <1>1, <3>3
  <2>2. f = [i \in DOMAIN entries |-> f[i]]
    OBVIOUS
  <2>3. Started(entries) \in SUBSET {f[i] : i \in DOMAIN entries}
    BY DEF Started
  <2> HIDE DEF f
  <2>4. IsFiniteSet({f[i] : i \in DOMAIN entries})
    BY <2>1, <2>2, ImageIsFinite
  <2>5. QED
    BY <2>3, <2>4, FS_Subset
<1>5. Cardinality(Started(entries)) \in Nat
  BY <1>4, FS_CardinalityType
<1>6. QED
  BY <1>3, <1>4, <1>5

(* One more row is one more member.                                        *)
LEMMA AppendedRow ==
    ASSUME NEW S, NEW q \in Seq(S), NEW x \in S
    PROVE  /\ Append(q, x) \in Seq(S)
           /\ ToSet(Append(q, x)) = ToSet(q) \cup {x}
           /\ Len(q) \in Nat /\ Len(Append(q, x)) = Len(q) + 1
           /\ \A i \in 1 .. Len(q) : Append(q, x)[i] = q[i] /\ q[i] \in ToSet(q)
           /\ Append(q, x)[Len(q) + 1] = x
<1>1. /\ Append(q, x) \in Seq(S) /\ Len(q) \in Nat /\ Len(Append(q, x)) = Len(q) + 1
      /\ \A i \in 1 .. Len(q) : Append(q, x)[i] = q[i]
      /\ Append(q, x)[Len(q) + 1] = x
  OBVIOUS
<1>2. ToSet(q) = {q[i] : i \in 1 .. Len(q)}
  BY DEF ToSet
<1>3. ToSet(Append(q, x)) = {Append(q, x)[i] : i \in 1 .. Len(q) + 1}
  BY <1>1 DEF ToSet
<1>4. 1 .. Len(q) + 1 = (1 .. Len(q)) \cup {Len(q) + 1}
  BY <1>1
<1> DEFINE longer == Append(q, x)
<1>5. ToSet(longer) = {longer[i] : i \in 1 .. Len(q)} \cup {longer[Len(q) + 1]}
  BY <1>3, <1>4
<1>6. QED
  BY <1>1, <1>2, <1>5

(* What one more entry adds to a log.                                      *)
LEMMA LogGrows ==
    ASSUME NEW entries \in Seq(LogRows), NEW entry \in LogRows
    PROVE  LET longer == Append(entries, entry) IN
           /\ longer \in Seq(LogRows)
           /\ entry.kind = "start" =>
                 /\ Started(longer) = Started(entries) \cup {entry.run}
                 /\ Recorded(longer) = Recorded(entries)
                 /\ \A s \in Symbols : MissedIn(longer, s) = MissedIn(entries, s)
           /\ entry.kind = "record" =>
                 /\ Started(longer) = Started(entries)
                 /\ Recorded(longer) = Recorded(entries) \cup {entry.run}
                 /\ \A s \in Symbols :
                       MissedIn(longer, s) = MissedIn(entries, s) \cup entry.missed[s]
<1> DEFINE longer == Append(entries, entry)
<1> DEFINE n == Len(entries)
<1>1. /\ n \in Nat /\ DOMAIN entries = 1 .. n /\ longer \in Seq(LogRows)
      /\ DOMAIN longer = 1 .. n + 1
      /\ \A i \in 1 .. n : longer[i] = entries[i]
      /\ longer[n + 1] = entry
  OBVIOUS
<1> HIDE DEF longer, n
<1>2. DOMAIN longer = DOMAIN entries \cup {n + 1}
  BY <1>1
<1>3. ASSUME NEW kind
      PROVE  {j \in DOMAIN longer : longer[j].kind = kind}
             = {j \in DOMAIN entries : entries[j].kind = kind}
               \cup {j \in {n + 1} : entry.kind = kind}
  BY <1>1, <1>2
<1>4. CASE entry.kind = "start"
  <2>1. {j \in DOMAIN longer : longer[j].kind = "start"}
        = {j \in DOMAIN entries : entries[j].kind = "start"} \cup {n + 1}
    BY <1>3, <1>4
  <2>2. {j \in DOMAIN longer : longer[j].kind = "record"}
        = {j \in DOMAIN entries : entries[j].kind = "record"}
    <3>1. {j \in {n + 1} : entry.kind = "record"} = {}
      BY <1>4
    <3>2. QED
      BY <1>3, <3>1
  <2>3. Started(longer) = Started(entries) \cup {entry.run}
    BY <1>1, <2>1 DEF Started
  <2>4. Recorded(longer) = Recorded(entries)
    BY <1>1, <2>2 DEF Recorded
  <2>5. \A s \in Symbols : MissedIn(longer, s) = MissedIn(entries, s)
    BY <1>1, <2>2 DEF MissedIn
  <2>6. QED
    BY <1>1, <1>4, <2>3, <2>4, <2>5 DEF longer
<1>5. CASE entry.kind = "record"
  <2>1. {j \in DOMAIN longer : longer[j].kind = "record"}
        = {j \in DOMAIN entries : entries[j].kind = "record"} \cup {n + 1}
    BY <1>3, <1>5
  <2>2. {j \in DOMAIN longer : longer[j].kind = "start"}
        = {j \in DOMAIN entries : entries[j].kind = "start"}
    <3>1. {j \in {n + 1} : entry.kind = "start"} = {}
      BY <1>5
    <3>2. QED
      BY <1>3, <3>1
  <2>3. Recorded(longer) = Recorded(entries) \cup {entry.run}
    BY <1>1, <2>1 DEF Recorded
  <2>4. Started(longer) = Started(entries)
    BY <1>1, <2>2 DEF Started
  <2>5. \A s \in Symbols :
           MissedIn(longer, s) = MissedIn(entries, s) \cup entry.missed[s]
    BY <1>1, <2>1 DEF MissedIn
  <2>6. QED
    BY <1>1, <1>5, <2>3, <2>4, <2>5 DEF longer
<1>6. QED
  BY <1>1, <1>4, <1>5 DEF longer, LogRows

-----------------------------------------------------------------------------
(* Types.                                                                  *)

IsLeft(l) ==
    l \in [crew : SUBSET Runners, silent : SUBSET Symbols, days : SUBSET Nat,
           crashes : Nat, deaths : Nat, reruns : Nat, failures : Nat,
           foreign : Nat, edits : Nat]

(* A run under way: past its visit of a symbol it holds a settled tail.    *)
Running ==
    /\ collector \in [id : Started(log), at : Nat \ {0}, stage : Nat, tail : Int,
                      missed : [Symbols -> SUBSET Nat]]
    /\ collector.stage # 0 => /\ collector.at <= Len(Universe)
                              /\ collector.tail \in Nat /\ collector.tail < day

(* The evidence and the inputs have their types, and the bounds theirs.    *)
Typed ==
    /\ IsSnapshot(Captured)
    /\ IsLeft(left)
    /\ day \in Nat /\ ActivatedAt <= day /\ day \in {ActivatedAt} \cup left.days
    /\ collector = None \/ Running
    /\ manifest \in {"bound", "other"}
    /\ repository \in {"clean", "dirty"}
    /\ pc \in [Runners -> Labels]
    /\ work = [r \in Runners |-> work[r]]
    /\ \A r \in Runners :
          work[r] = [unlock |-> work[r].unlock, result |-> work[r].result,
                     derived |-> work[r].derived]

(* What is spent is one of what was left, and nothing else changes.        *)
LEMMA Spending ==
    ASSUME IsLeft(left),
           NEW budget \in {"crashes", "deaths", "reruns", "failures", "foreign", "edits"},
           Spend(budget)
    PROVE  IsLeft(left)' /\ left'.days = left.days /\ left'.crew = left.crew
<1>1. left[budget] \in Nat /\ left[budget] > 0
  BY DEF IsLeft, Spend
<1>2. left[budget] - 1 \in Nat
  BY <1>1
<1>3. left' = [left EXCEPT ![budget] = left[budget] - 1]
  BY DEF Spend
<1>4. QED
  BY <1>2, <1>3 DEF IsLeft

(* Everything starts with its type.                                        *)
LEMMA InitTyped == Init => Typed
<1> SUFFICES ASSUME Init PROVE Typed
  OBVIOUS
<1>1. IsSnapshot(Captured)
  <2>1. \A s \in Symbols : Empty[s] = <<>>
    BY DEF Empty
  <2>2. Empty = [s \in Symbols |-> Empty[s]]
    BY <2>1 DEF Empty
  <2>3. /\ Captured.log = <<>> /\ Captured.claims = Empty /\ Captured.outcomes = Empty
        /\ Captured.torn = FALSE
    BY DEF Init, Captured
  <2>4. <<>> \in Seq(LogRows)
    OBVIOUS
  <2>5. \A s \in Symbols : <<>> \in Seq(ClaimsOf(s)) /\ <<>> \in Seq(OutcomesOf(s))
    OBVIOUS
  <2>6. QED
    BY <2>1, <2>2, <2>3, <2>4, <2>5 DEF IsSnapshot
<1>2. IsLeft(left)
  BY RunnerAssumption DEF Init, IsLeft
<1>3. day = ActivatedAt /\ ActivatedAt \in Nat
  BY Definition DEF Init
<1>4. /\ pc \in [Runners -> Labels] /\ work = [r \in Runners |-> work[r]]
      /\ \A r \in Runners : work[r] = Idle
  BY DEF Init, Labels
<1>5. QED
  BY <1>1, <1>2, <1>3, <1>4 DEF Typed, Init, Idle

IsWork(w) ==
    /\ w = [r \in Runners |-> w[r]]
    /\ \A r \in Runners :
          w[r] = [unlock |-> w[r].unlock, result |-> w[r].result, derived |-> w[r].derived]

(* What a runner's step leaves in its own work, and in the others'.        *)
LEMMA Working ==
    ASSUME IsWork(work), NEW r \in Runners, NEW x
    PROVE  /\ work' = [work EXCEPT ![r].unlock = x] =>
                 /\ IsWork(work)' /\ work'[r].unlock = x
                 /\ work'[r].result = work[r].result /\ work'[r].derived = work[r].derived
                 /\ \A q \in Runners \ {r} : work'[q] = work[q]
           /\ work' = [work EXCEPT ![r].result = x] =>
                 /\ IsWork(work)' /\ work'[r].result = x
                 /\ work'[r].unlock = work[r].unlock /\ work'[r].derived = work[r].derived
                 /\ \A q \in Runners \ {r} : work'[q] = work[q]
           /\ work' = [work EXCEPT ![r].derived = x] =>
                 /\ IsWork(work)' /\ work'[r].derived = x
                 /\ work'[r].unlock = work[r].unlock /\ work'[r].result = work[r].result
                 /\ \A q \in Runners \ {r} : work'[q] = work[q]
           /\ work' = [work EXCEPT ![r] = Idle] =>
                 /\ IsWork(work)' /\ work'[r] = Idle
                 /\ \A q \in Runners \ {r} : work'[q] = work[q]
<1>1. /\ work = [q \in Runners |-> work[q]]
      /\ \A q \in Runners :
            work[q] = [unlock |-> work[q].unlock, result |-> work[q].result,
                       derived |-> work[q].derived]
  BY DEF IsWork
<1>2. ASSUME NEW w, work' = [work EXCEPT ![r] = w],
             w = [unlock |-> w.unlock, result |-> w.result, derived |-> w.derived]
      PROVE  /\ IsWork(work)' /\ work'[r] = w
             /\ \A q \in Runners \ {r} : work'[q] = work[q]
  <2>1. /\ work' = [q \in Runners |-> work'[q]] /\ work'[r] = w
        /\ \A q \in Runners \ {r} : work'[q] = work[q]
    BY <1>1, <1>2
  <2>2. \A q \in Runners :
            work'[q] = [unlock |-> work'[q].unlock, result |-> work'[q].result,
                       derived |-> work'[q].derived]
    BY <1>1, <1>2, <2>1
  <2>3. QED
    BY <2>1, <2>2 DEF IsWork
<1>3. ASSUME work' = [work EXCEPT ![r].unlock = x]
      PROVE  /\ IsWork(work)' /\ work'[r].unlock = x
             /\ work'[r].result = work[r].result /\ work'[r].derived = work[r].derived
             /\ \A q \in Runners \ {r} : work'[q] = work[q]
  <2> DEFINE w == [work[r] EXCEPT !.unlock = x]
  <2>1. /\ w = [unlock |-> w.unlock, result |-> w.result, derived |-> w.derived]
        /\ w.unlock = x /\ w.result = work[r].result /\ w.derived = work[r].derived
    BY <1>1
  <2>2. work' = [work EXCEPT ![r] = w]
    BY <1>3
  <2> HIDE DEF w
  <2>3. QED
    BY <1>2, <2>1, <2>2
<1>4. ASSUME work' = [work EXCEPT ![r].result = x]
      PROVE  /\ IsWork(work)' /\ work'[r].result = x
             /\ work'[r].unlock = work[r].unlock /\ work'[r].derived = work[r].derived
             /\ \A q \in Runners \ {r} : work'[q] = work[q]
  <2> DEFINE w == [work[r] EXCEPT !.result = x]
  <2>1. /\ w = [unlock |-> w.unlock, result |-> w.result, derived |-> w.derived]
        /\ w.result = x /\ w.unlock = work[r].unlock /\ w.derived = work[r].derived
    BY <1>1
  <2>2. work' = [work EXCEPT ![r] = w]
    BY <1>4
  <2> HIDE DEF w
  <2>3. QED
    BY <1>2, <2>1, <2>2
<1>5. ASSUME work' = [work EXCEPT ![r].derived = x]
      PROVE  /\ IsWork(work)' /\ work'[r].derived = x
             /\ work'[r].unlock = work[r].unlock /\ work'[r].result = work[r].result
             /\ \A q \in Runners \ {r} : work'[q] = work[q]
  <2> DEFINE w == [work[r] EXCEPT !.derived = x]
  <2>1. /\ w = [unlock |-> w.unlock, result |-> w.result, derived |-> w.derived]
        /\ w.derived = x /\ w.unlock = work[r].unlock /\ w.result = work[r].result
    BY <1>1
  <2>2. work' = [work EXCEPT ![r] = w]
    BY <1>5
  <2> HIDE DEF w
  <2>3. QED
    BY <1>2, <2>1, <2>2
<1>6. Idle = [unlock |-> Idle.unlock, result |-> Idle.result, derived |-> Idle.derived]
  BY DEF Idle
<1>7. QED
  BY <1>2, <1>3, <1>4, <1>5, <1>6

(* A runner's step touches neither evidence nor inputs, and only itself.   *)
LEMMA RunnerTyped ==
    ASSUME Typed, NEW r \in Runners,
           Begin(r) \/ BeginUnbound(r) \/ Step(r) \/ Crash(r)
    PROVE  /\ Typed' /\ UNCHANGED <<evidence, inputs>>
           /\ \A q \in Runners \ {r} : pc'[q] = pc[q] /\ work'[q] = work[q]
<1>1. IsWork(work) /\ pc \in [Runners -> Labels] /\ IsLeft(left)
  BY DEF Typed, IsWork
<1>2. ASSUME UNCHANGED <<evidence, inputs>>, IsLeft(left)', left'.days = left.days,
             NEW l \in Labels, pc' = [pc EXCEPT ![r] = l],
             IsWork(work)', \A q \in Runners \ {r} : work'[q] = work[q]
      PROVE  /\ Typed'
             /\ \A q \in Runners \ {r} : pc'[q] = pc[q] /\ work'[q] = work[q]
  <2>1. pc' \in [Runners -> Labels] /\ \A q \in Runners \ {r} : pc'[q] = pc[q]
    BY <1>1, <1>2
  <2>2. /\ day' = day /\ log' = log /\ claims' = claims /\ outcomes' = outcomes
        /\ torn' = torn /\ collector' = collector
        /\ manifest' = manifest /\ repository' = repository
    BY <1>2 DEF evidence, inputs
  <2>3. IsSnapshot(Captured)'
    BY <2>2 DEF Typed, IsSnapshot, Captured
  <2>4. collector' = None \/ Running'
    BY <2>2 DEF Typed, Running
  <2>5. QED
    BY <1>2, <2>1, <2>2, <2>3, <2>4 DEF Typed, IsWork
<1>3. ASSUME End(r), UNCHANGED <<evidence, inputs>>, IsLeft(left)', left'.days = left.days
      PROVE  /\ Typed'
             /\ \A q \in Runners \ {r} : pc'[q] = pc[q] /\ work'[q] = work[q]
  <2>1. work' = [work EXCEPT ![r] = Idle] /\ pc' = [pc EXCEPT ![r] = "idle"]
    BY <1>3 DEF End, Goto
  <2>2. IsWork(work)' /\ \A q \in Runners \ {r} : work'[q] = work[q]
    BY <1>1, <2>1, Working
  <2>3. "idle" \in Labels
    BY DEF Labels
  <2>4. QED
    BY <1>2, <1>3, <2>1, <2>2, <2>3
<1>4. ASSUME left' = left PROVE IsLeft(left)' /\ left'.days = left.days
  BY <1>1, <1>4
<1>5. CASE Begin(r)
  <2>1. work' = [work EXCEPT ![r].result = result] /\ UNCHANGED <<evidence, inputs>> /\ left' = left
    BY <1>5 DEF Begin
  <2>2. PICK l \in {"looking", "verifying"} : pc' = [pc EXCEPT ![r] = l]
    BY <1>5 DEF Begin, Goto
  <2>3. l \in Labels
    BY <2>2 DEF Labels
  <2>4. QED
    BY <1>1, <1>2, <1>4, <2>1, <2>2, <2>3, Working
<1>6. CASE BeginUnbound(r)
  BY <1>3, <1>4, <1>6 DEF BeginUnbound, Refuse
<1>7. CASE ReadNamedUnlock(r)
  <2>1. /\ work' = [work EXCEPT ![r].unlock = unlock] /\ UNCHANGED <<evidence, inputs>> /\ left' = left
        /\ pc' = [pc EXCEPT ![r] = "reopening"]
    BY <1>7 DEF ReadNamedUnlock, Goto
  <2>2. "reopening" \in Labels
    BY DEF Labels
  <2>3. QED
    BY <1>1, <1>2, <1>4, <2>1, <2>2, Working
<1>8. CASE ReadUnlock(r)
  <2>1. work' = [work EXCEPT ![r].unlock = unlock] /\ UNCHANGED <<evidence, inputs>> /\ left' = left
    BY <1>8 DEF ReadUnlock
  <2>2. PICK l \in {"capturing", "reopening"} : pc' = [pc EXCEPT ![r] = l]
    BY <1>8 DEF ReadUnlock, Goto
  <2>3. l \in Labels
    BY <2>2 DEF Labels
  <2>4. QED
    BY <1>1, <1>2, <1>4, <2>1, <2>2, <2>3, Working
<1>9. CASE Reopen(r)
  <2>1. UNCHANGED <<evidence, inputs>> /\ left' = left
    BY <1>9 DEF Reopen
  <2>2. PICK x : work' = [work EXCEPT ![r].derived = x]
    BY <1>9 DEF Reopen
  <2>3. PICK l \in {"writing", "finishing"} : pc' = [pc EXCEPT ![r] = l]
    BY <1>9 DEF Reopen, Goto
  <2>4. l \in Labels
    BY <2>3 DEF Labels
  <2>5. QED
    BY <1>1, <1>2, <1>4, <2>1, <2>2, <2>3, <2>4, Working
<1>10. CASE Capture(r)
  <2>1. /\ UNCHANGED <<evidence, inputs>> /\ left' = left
        /\ work' = [work EXCEPT ![r].unlock = UnlockPayload(r, Captured)]
        /\ pc' = [pc EXCEPT ![r] = "opening"]
    BY <1>10 DEF Capture, Goto
  <2>2. "opening" \in Labels
    BY DEF Labels
  <2>3. QED
    BY <1>1, <1>2, <1>4, <2>1, <2>2, Working
<1>11. CASE Derive(r)
  <2>1. /\ UNCHANGED <<evidence, inputs>> /\ left' = left
        /\ work' = [work EXCEPT ![r].derived = DerivedFrom(work[r].unlock)]
        /\ pc' = [pc EXCEPT ![r] = "writing"]
    BY <1>11 DEF Derive, Goto
  <2>2. "writing" \in Labels
    BY DEF Labels
  <2>3. QED
    BY <1>1, <1>2, <1>4, <2>1, <2>2, Working
<1>12. CASE Open(r) \/ WriteResult(r)
  <2>1. /\ UNCHANGED <<evidence, inputs>> /\ left' = left /\ work' = work
    BY <1>12 DEF Open, WriteResult
  <2>2. PICK l \in {"deriving", "reporting"} : pc' = [pc EXCEPT ![r] = l]
    BY <1>12 DEF Open, WriteResult, Goto
  <2>3. l \in Labels
    BY <2>2 DEF Labels
  <2>4. IsWork(work)' /\ \A q \in Runners \ {r} : work'[q] = work[q]
    BY <1>1, <2>1 DEF IsWork
  <2>5. QED
    BY <1>2, <1>4, <2>1, <2>2, <2>3, <2>4
<1>13. CASE Crash(r)
  <2>1. IsLeft(left)' /\ left'.days = left.days
    BY <1>1, <1>13, Spending DEF Crash
  <2>2. QED
    BY <1>3, <1>13, <2>1 DEF Crash
<1>14. CASE \/ ReadOtherUnlock(r) \/ ReopenRefused(r) \/ CaptureRefused(r) \/ OpenRefused(r)
            \/ ReportDiffers(r)
  <2>1. Refuse(r)
    BY <1>14 DEF ReadOtherUnlock, ReopenRefused, CaptureRefused, OpenRefused, ReportDiffers
  <2>2. QED
    BY <1>3, <1>4, <2>1 DEF Refuse
<1>15. CASE WriteRaises(r)
  BY <1>3, <1>4, <1>15 DEF WriteRaises
<1>16. CASE WriteReport(r) \/ FinishReport(r)
  <2>1. Complete(r)
    BY <1>16 DEF WriteReport, FinishReport
  <2>2. QED
    BY <1>3, <1>4, <2>1 DEF Complete
<1>17. QED
  BY <1>5, <1>6, <1>7, <1>8, <1>9, <1>10, <1>11, <1>12, <1>13, <1>14, <1>15, <1>16 DEF Step

(* A run that starts is logged under a number of its own.                  *)
LEMMA StartStep ==
    ASSUME Typed, NEW today \in left.days, CollectorStarts(today)
    PROVE  /\ RunId \in Nat \ {0} /\ log \in Seq(LogRows)
           /\ today \in Nat /\ ActivatedAt <= today /\ day <= today /\ day' = today
           /\ claims' = claims
           /\ Started(log') = Started(log) \cup {RunId}
           /\ Recorded(log') = Recorded(log)
           /\ \A s \in Symbols : MissedIn(log', s) = MissedIn(log, s)
           /\ IsSnapshot(Captured)'
           /\ Running' /\ collector'.id = RunId /\ collector'.stage = 0
<1>1. IsSnapshot(Captured) /\ IsLeft(left) /\ day \in Nat /\ ActivatedAt \in Nat
  BY Definition DEF Typed
<1>2. log \in Seq(LogRows)
  BY <1>1 DEF IsSnapshot, Captured
<1>3. RunId \in Nat \ {0}
  BY <1>2, RunsOfLog DEF RunId
<1>4. /\ today \in Nat /\ ActivatedAt <= today /\ day <= today /\ day' = today
      /\ UNCHANGED <<claims, outcomes, torn>>
  <2>1. today \in Nat
    BY <1>1 DEF IsLeft
  <2>2. today > ActivatedAt /\ (today > day \/ today = day) /\ day' = today
        /\ UNCHANGED <<claims, outcomes, torn>>
    BY DEF CollectorStarts
  <2>3. QED
    BY <1>1, <2>1, <2>2
<1> DEFINE start == [kind |-> "start", run |-> RunId]
<1>5. start \in LogRows /\ start.kind = "start" /\ start.run = RunId
  BY <1>3 DEF LogRows
<1>6. log' = Append(log, start)
  BY DEF CollectorStarts
<1> HIDE DEF start
<1>7. /\ log' \in Seq(LogRows) /\ Started(log') = Started(log) \cup {RunId}
      /\ Recorded(log') = Recorded(log)
      /\ \A s \in Symbols : MissedIn(log', s) = MissedIn(log, s)
  BY <1>2, <1>5, <1>6, LogGrows
<1>8. Running' /\ collector'.id = RunId /\ collector'.stage = 0
  <2>1. collector' = [id |-> RunId, at |-> 1, stage |-> 0, tail |-> Null,
                      missed |-> [s \in Symbols |-> {}]]
    BY DEF CollectorStarts
  <2>2. RunId \in Started(log') /\ Null \in Int /\ {} \in SUBSET Nat
    BY <1>7 DEF Null
  <2>3. QED
    BY <2>1, <2>2 DEF Running
<1>9. IsSnapshot(Captured)'
  BY <1>1, <1>4, <1>7 DEF IsSnapshot, Captured
<1>10. QED
  BY <1>2, <1>3, <1>4, <1>7, <1>8, <1>9

(* The symbol a run is at is one of the universe.                          *)
LEMMA VisitedSymbol ==
    ASSUME Running, IsVisiting
    PROVE  /\ collector.at \in DOMAIN Universe /\ Here = Universe[collector.at]
           /\ Here \in Symbols
           /\ collector.at + 1 \in Nat \ {0} /\ collector.stage + 1 \in Nat \ {0}
<1>1. collector.at \in Nat \ {0} /\ collector.stage \in Nat /\ collector.at <= Len(Universe)
  BY DEF Running, IsVisiting
<1>2. Universe \in Seq(Symbols)
  BY OrderAssumption
<1>3. DOMAIN Universe = 1 .. Len(Universe) /\ Len(Universe) \in Nat
      /\ \A i \in 1 .. Len(Universe) : Universe[i] \in Symbols
  BY <1>2
<1>4. QED
  BY <1>1, <1>3 DEF Here

(* A visit lists what the symbol missed, under a settled tail.             *)
LEMMA VisitStep ==
    ASSUME Typed, NEW tail \in ActivatedAt .. day - 1, VisitSymbol(tail) \/ VisitStale(tail)
    PROVE  /\ Running /\ Running' /\ collector.at \in DOMAIN Universe
           /\ Here = Universe[collector.at] /\ Here \in Symbols
           /\ collector.stage = 0 /\ tail \in Nat /\ tail < day
           /\ collector'.id = collector.id
           /\ collector'.missed = [collector.missed EXCEPT ![Here] = MissedTails(Here, tail)]
           /\ VisitSymbol(tail) => /\ collector'.at = collector.at /\ collector'.stage = 1
                                   /\ collector'.tail = tail
           /\ VisitStale(tail) => /\ collector'.at = collector.at + 1
                                  /\ collector'.stage = 0
           /\ UNCHANGED <<day, log, claims, outcomes, torn, inputs, runner>>
           /\ IsLeft(left)' /\ left'.days = left.days
<1>1. Running /\ IsVisiting /\ collector.stage = 0
  BY DEF Typed, VisitSymbol, VisitStale, IsVisiting
<1>2. /\ collector.at \in DOMAIN Universe /\ Here = Universe[collector.at] /\ Here \in Symbols
      /\ collector.at + 1 \in Nat \ {0} /\ collector.at <= Len(Universe)
  BY <1>1, VisitedSymbol DEF IsVisiting
<1>3. tail \in Nat /\ tail < day /\ day \in Nat /\ ActivatedAt \in Nat
  <2>1. ActivatedAt \in Nat /\ day \in Nat
    BY Definition DEF Typed
  <2>2. QED
    BY <2>1
<1>4. UNCHANGED <<day, log, claims, outcomes, torn, inputs, runner>>
  BY DEF VisitSymbol, VisitStale
<1>5. IsLeft(left)' /\ left'.days = left.days
  <2>1. CASE left' = left
    BY <2>1 DEF Typed
  <2>2. CASE Spend("failures")
    BY <2>2, Spending DEF Typed
  <2>3. QED
    BY <2>1, <2>2 DEF VisitSymbol, VisitStale
<1> DEFINE M == [collector.missed EXCEPT ![Here] = MissedTails(Here, tail)]
<1>6. M \in [Symbols -> SUBSET Nat]
  <2>1. MissedTails(Here, tail) \in SUBSET Nat
    BY <1>3 DEF MissedTails
  <2>2. collector.missed \in [Symbols -> SUBSET Nat]
    BY <1>1 DEF Running
  <2>3. QED
    BY <2>1, <2>2
<1> DEFINE Runs == [id : Started(log), at : Nat \ {0}, stage : Nat, tail : Int,
                    missed : [Symbols -> SUBSET Nat]]
<1>7. collector \in Runs /\ collector.at + 1 \in Nat \ {0} /\ tail \in Int
  BY <1>1, <1>2, <1>3 DEF Running
<1> DEFINE run == Visit(tail)
<1>8. /\ run \in Runs /\ run.id = collector.id /\ run.at = collector.at /\ run.stage = 0
      /\ run.tail = tail /\ run.missed = M
  <2>1. run = [[collector EXCEPT !.missed = M] EXCEPT !.tail = tail]
    BY <1>7 DEF Visit
  <2> HIDE DEF run, M
  <2>2. QED
    BY <1>1, <1>6, <1>7, <2>1
<1> HIDE DEF M, run
<1>9. CASE VisitSymbol(tail)
  <2>1. collector' = [run EXCEPT !.stage = 1]
    BY <1>9 DEF VisitSymbol, run
  <2>2. /\ collector' \in Runs /\ collector'.id = collector.id /\ collector'.at = collector.at
        /\ collector'.stage = 1 /\ collector'.tail = tail /\ collector'.missed = M
    BY <1>8, <2>1
  <2>3. ~VisitStale(tail)
    <3>1. AtNextSymbol(run).stage = 0
      BY <1>8 DEF AtNextSymbol
    <3>2. QED
      BY <2>2, <3>1 DEF VisitStale, run
  <2>4. Running'
    BY <1>2, <1>3, <1>4, <2>2 DEF Running
  <2>5. QED
    BY <1>1, <1>2, <1>3, <1>4, <1>5, <2>2, <2>3, <2>4 DEF M
<1>10. CASE VisitStale(tail)
  <2>1. collector' = AtNextSymbol(run)
    BY <1>10 DEF VisitStale, run
  <2>2. /\ collector' \in Runs /\ collector'.id = collector.id
        /\ collector'.at = collector.at + 1
        /\ collector'.stage = 0 /\ collector'.missed = M
    BY <1>7, <1>8, <2>1 DEF AtNextSymbol
  <2>3. ~VisitSymbol(tail)
    <3>1. [run EXCEPT !.stage = 1].stage = 1
      BY <1>8
    <3>2. QED
      BY <2>2, <3>1 DEF VisitSymbol, run
  <2>4. Running'
    BY <1>4, <2>2 DEF Running
  <2>5. QED
    BY <1>1, <1>2, <1>3, <1>4, <1>5, <2>2, <2>3, <2>4 DEF M
<1>11. QED
  BY <1>9, <1>10

(* A symbol that fails, or is done, leaves the run what it has listed.     *)
LEMMA LeaveStep ==
    ASSUME Typed, SymbolFails \/ SymbolDone
    PROVE  /\ Running /\ Running' /\ collector.at \in Nat
           /\ collector'.id = collector.id /\ collector'.missed = collector.missed
           /\ collector'.at = collector.at + 1 /\ collector'.stage = 0
           /\ UNCHANGED <<day, log, claims, outcomes, torn, inputs, runner>>
           /\ IsLeft(left)' /\ left'.days = left.days
<1>1. Running /\ IsVisiting
  BY DEF Typed, SymbolFails, SymbolDone, IsVisiting, IsMeasuring
<1>2. UNCHANGED <<day, log, claims, outcomes, torn, inputs, runner>>
  BY DEF SymbolFails, SymbolDone
<1>3. IsLeft(left)' /\ left'.days = left.days
  <2>1. CASE left' = left
    BY <2>1 DEF Typed
  <2>2. CASE Spend("failures")
    BY <2>2, Spending DEF Typed
  <2>3. QED
    BY <2>1, <2>2 DEF SymbolFails, SymbolDone
<1>4. /\ collector = [id |-> collector.id, at |-> collector.at, stage |-> collector.stage,
                      tail |-> collector.tail, missed |-> collector.missed]
      /\ collector.id \in Started(log) /\ collector.at \in Nat /\ collector.at + 1 \in Nat \ {0}
      /\ collector.tail \in Int /\ collector.missed \in [Symbols -> SUBSET Nat]
  BY <1>1 DEF Running
<1>5. collector' = [id |-> collector.id, at |-> collector.at + 1, stage |-> 0,
                    tail |-> collector.tail, missed |-> collector.missed]
  BY <1>4 DEF SymbolFails, SymbolDone, AtNextSymbol
<1>6. Running'
  BY <1>2, <1>4, <1>5 DEF Running
<1>7. QED
  BY <1>1, <1>2, <1>3, <1>4, <1>5, <1>6

(* A row added to a symbol's file, or changed in it.                       *)
LEMMA RowTyped ==
    ASSUME IsSnapshot(Captured), NEW s \in Symbols, NEW q \in Seq(ClaimsOf(s)),
           claims' = [claims EXCEPT ![s] = q],
           UNCHANGED <<log, outcomes, torn>>
    PROVE  /\ IsSnapshot(Captured)' /\ claims'[s] = q
           /\ \A t \in Symbols \ {s} : claims'[t] = claims[t]
<1>1. /\ log \in Seq(LogRows) /\ torn \in BOOLEAN
      /\ claims = [t \in Symbols |-> claims[t]] /\ outcomes = [t \in Symbols |-> outcomes[t]]
      /\ \A t \in Symbols : claims[t] \in Seq(ClaimsOf(t)) /\ outcomes[t] \in Seq(OutcomesOf(t))
  BY DEF IsSnapshot, Captured
<1>2. /\ claims'[s] = q /\ \A t \in Symbols \ {s} : claims'[t] = claims[t]
      /\ claims' = [t \in Symbols |-> claims'[t]]
  BY <1>1
<1>3. QED
  BY <1>1, <1>2 DEF IsSnapshot, Captured

(* A registration, taken apart.                                            *)
LEMMA RegisterStep ==
    ASSUME Typed, RegisterClaim
    PROVE  /\ Running /\ Running' /\ collector.at \in DOMAIN Universe
           /\ Here = Universe[collector.at] /\ Here \in Symbols
           /\ collector.stage \in DOMAIN Producers /\ collector.stage \in Nat \ {0}
           /\ collector.tail \in Nat /\ collector.tail < day
           /\ collector'.id = collector.id /\ collector'.missed = collector.missed
           /\ collector'.at = collector.at /\ collector'.stage = collector.stage + 1
           /\ collector'.tail = collector.tail
           /\ claims[Here] \in Seq(ClaimsOf(Here))
           /\ IsSnapshot(Captured)'
           /\ UNCHANGED <<day, log, inputs, runner, left>>
           /\ LET h == Producers[collector.stage] IN
              \/ Holds(Here, <<Here, h, collector.tail>>) /\ claims' = claims
              \/ /\ ~Holds(Here, <<Here, h, collector.tail>>)
                 /\ \E row \in ClaimsOf(Here) :
                       /\ row.key = <<Here, h, collector.tail>> /\ row.hypothesis = h
                       /\ row.bar = collector.tail /\ row.run = collector.id
                       /\ claims'[Here] = Append(claims[Here], row)
                       /\ \A t \in Symbols \ {Here} : claims'[t] = claims[t]
<1> DEFINE h == Producers[collector.stage]
<1>1. Running /\ IsVisiting /\ collector.stage \in DOMAIN Producers
      /\ IsSnapshot(Captured)
  BY DEF Typed, RegisterClaim, IsRegistering, IsVisiting
<1>2. /\ collector.at \in DOMAIN Universe /\ Here = Universe[collector.at] /\ Here \in Symbols
      /\ collector.at <= Len(Universe)
  BY <1>1, VisitedSymbol DEF IsVisiting
<1>3. /\ collector.stage \in Nat \ {0} /\ collector.stage + 1 \in Nat \ {0} /\ h \in Hypotheses
  <2>1. Producers \in Seq(Hypotheses)
    BY OrderAssumption
  <2>2. QED
    BY <1>1, <2>1
<1>4. /\ collector = [id |-> collector.id, at |-> collector.at, stage |-> collector.stage,
                      tail |-> collector.tail, missed |-> collector.missed]
      /\ collector.id \in Started(log) /\ collector.at \in Nat \ {0}
      /\ collector.tail \in Nat /\ collector.tail < day
      /\ collector.missed \in [Symbols -> SUBSET Nat]
  BY <1>1, <1>3 DEF Running
<1>5. UNCHANGED <<day, log, outcomes, torn, inputs, runner, left>>
  BY DEF RegisterClaim
<1>6. collector' = [id |-> collector.id, at |-> collector.at, stage |-> collector.stage + 1,
                    tail |-> collector.tail, missed |-> collector.missed]
  BY <1>4 DEF RegisterClaim
<1>7. Running'
  <2>1. log' = log /\ day' = day /\ collector.tail \in Int
    BY <1>4, <1>5
  <2>2. QED
    BY <1>2, <1>3, <1>4, <1>6, <2>1 DEF Running
<1>8. claims[Here] \in Seq(ClaimsOf(Here)) /\ collector.id \in Nat
  <2>1. log \in Seq(LogRows)
    BY <1>1 DEF IsSnapshot, Captured
  <2>2. collector.id \in Nat
    BY <1>4, <2>1, RunsOfLog
  <2>3. QED
    BY <1>1, <1>2, <2>2 DEF IsSnapshot, Captured
<1>9. CASE Holds(Here, <<Here, h, collector.tail>>)
  <2>1. claims' = claims
    BY <1>9 DEF RegisterClaim
  <2>2. IsSnapshot(Captured)'
    BY <1>1, <1>5, <2>1 DEF IsSnapshot, Captured
  <2>3. QED
    BY <1>1, <1>2, <1>3, <1>4, <1>5, <1>6, <1>7, <1>8, <1>9, <2>1, <2>2
<1>10. CASE ~Holds(Here, <<Here, h, collector.tail>>)
  <2>1. PICK state \in StatesOf(Here, h) :
           claims' = [claims EXCEPT ![Here] =
               Append(claims[Here], ClaimRow(Here, h, collector.tail, state, collector.id))]
    BY <1>10 DEF RegisterClaim
  <2> DEFINE row == ClaimRow(Here, h, collector.tail, state, collector.id)
  <2>2. /\ row.key = <<Here, h, collector.tail>> /\ row.hypothesis = h
        /\ row.bar = collector.tail /\ row.run = collector.id
    BY DEF ClaimRow
  <2>3. row \in ClaimsOf(Here)
    <3>1. <<Here, h, collector.tail>> \in KeysOf(Here)
      BY <1>3, <1>4 DEF KeysOf
    <3>2. state \in UNION {StatesOf(Here, g) : g \in Hypotheses}
      BY <1>3
    <3> HIDE DEF h
    <3>3. QED
      BY <1>3, <1>4, <1>8, <3>1, <3>2 DEF ClaimRow, ClaimsOf
  <2>4. claims' = [claims EXCEPT ![Here] = Append(claims[Here], row)]
    BY <2>1
  <2> HIDE DEF row
  <2>5. Append(claims[Here], row) \in Seq(ClaimsOf(Here))
    BY <1>8, <2>3
  <2>6. /\ IsSnapshot(Captured)' /\ claims'[Here] = Append(claims[Here], row)
        /\ \A t \in Symbols \ {Here} : claims'[t] = claims[t]
    BY <1>1, <1>2, <1>5, <2>4, <2>5, RowTyped
  <2>7. QED
    BY <1>1, <1>2, <1>3, <1>4, <1>5, <1>6, <1>7, <1>8, <1>10, <2>2, <2>3, <2>6
<1>11. QED
  BY <1>9, <1>10

(* A measurement adds an outcome of one of the symbol's claims.            *)
LEMMA MeasureStep ==
    ASSUME Typed, MeasureOutcome
    PROVE  IsSnapshot(Captured)'
<1>1. Running /\ IsVisiting /\ IsSnapshot(Captured)
  BY DEF Typed, MeasureOutcome, IsMeasuring, IsVisiting
<1>2. Here \in Symbols
  BY <1>1, VisitedSymbol
<1>3. /\ log \in Seq(LogRows) /\ torn \in BOOLEAN
      /\ claims = [t \in Symbols |-> claims[t]] /\ outcomes = [t \in Symbols |-> outcomes[t]]
      /\ \A t \in Symbols : claims[t] \in Seq(ClaimsOf(t)) /\ outcomes[t] \in Seq(OutcomesOf(t))
  BY <1>1 DEF IsSnapshot, Captured
<1>4. PICK i \in DOMAIN claims[Here], n \in Horizons, value \in ValuesAt(Here) :
         outcomes' = [outcomes EXCEPT ![Here] =
             Append(outcomes[Here], OutcomeRow(claims[Here][i], n, value, collector.id))]
  BY DEF MeasureOutcome
<1> DEFINE c == claims[Here][i]
<1> DEFINE row == OutcomeRow(c, n, value, collector.id)
<1>5. c.key \in KeysOf(Here) /\ c.bar \in Nat
  <2>1. c \in ClaimsOf(Here)
    BY <1>2, <1>3
  <2> HIDE DEF c
  <2>2. QED
    BY <2>1 DEF ClaimsOf
<1>6. collector.id \in Nat
  BY <1>1, <1>3, RunsOfLog DEF Running
<1>7. row \in OutcomesOf(Here)
  <2>1. n \in Nat
    BY Definition
  <2> HIDE DEF c
  <2>2. c.bar + 1 \in Int /\ c.bar + n \in Int /\ <<c.key, n>> \in KeysOf(Here) \X Horizons
    BY <1>5, <2>1
  <2>3. QED
    BY <1>5, <1>6, <2>2 DEF OutcomeRow, OutcomesOf
<1>8. outcomes' = [outcomes EXCEPT ![Here] = Append(outcomes[Here], row)]
  BY <1>4
<1> HIDE DEF row
<1>9. Append(outcomes[Here], row) \in Seq(OutcomesOf(Here))
  BY <1>2, <1>3, <1>7
<1>10. /\ outcomes' = [t \in Symbols |-> outcomes'[t]]
       /\ \A t \in Symbols : outcomes'[t] \in Seq(OutcomesOf(t))
  BY <1>2, <1>3, <1>8, <1>9
<1>11. UNCHANGED <<log, claims, torn>>
  BY DEF MeasureOutcome
<1>12. QED
  BY <1>3, <1>10, <1>11 DEF IsSnapshot, Captured

(* A foreign row, taken apart.                                             *)
LEMMA ForeignStep ==
    ASSUME Typed, NEW s \in Symbols, ForeignRow(s)
    PROVE  \E row \in ClaimsOf(s) :
              /\ row.run = Foreign /\ row.bar = day /\ row.key = <<s, Primary, day>>
              /\ claims' = [claims EXCEPT ![s] = Append(claims[s], row)]
              /\ \A c \in ToSet(claims[s]) : c.key # row.key
              /\ claims[s] \in Seq(ClaimsOf(s))
              /\ IsSnapshot(Captured)'
              /\ claims'[s] = Append(claims[s], row)
              /\ \A t \in Symbols \ {s} : claims'[t] = claims[t]
<1>1. PICK state \in StatesOf(s, Primary) :
         claims' = [claims EXCEPT ![s] = Append(claims[s], ClaimRow(s, Primary, day, state, Foreign))]
  BY DEF ForeignRow
<1> DEFINE row == ClaimRow(s, Primary, day, state, Foreign)
<1>2. /\ row.run = Foreign /\ row.bar = day /\ row.key = <<s, Primary, day>>
      /\ row \in ClaimsOf(s)
  BY Definition DEF Typed, ClaimRow, ClaimsOf, KeysOf, Foreign
<1>3. claims' = [claims EXCEPT ![s] = Append(claims[s], row)]
  BY <1>1
<1> HIDE DEF row
<1>4. IsSnapshot(Captured) /\ claims[s] \in Seq(ClaimsOf(s))
  BY DEF Typed, IsSnapshot, Captured
<1>5. Append(claims[s], row) \in Seq(ClaimsOf(s))
  BY <1>2, <1>4
<1>6. UNCHANGED <<log, outcomes, torn>>
  BY DEF ForeignRow
<1>7. /\ IsSnapshot(Captured)' /\ claims'[s] = Append(claims[s], row)
      /\ \A t \in Symbols \ {s} : claims'[t] = claims[t]
  BY <1>3, <1>4, <1>5, <1>6, RowTyped
<1>8. \A c \in ToSet(claims[s]) : c.key # row.key
  BY <1>2 DEF ForeignRow, Holds
<1>9. QED
  BY <1>2, <1>3, <1>4, <1>7, <1>8

(* An altered row keeps everything but its state.                          *)
LEMMA EditStep ==
    ASSUME Typed, NEW s \in Symbols, EditFrozenRow(s)
    PROVE  /\ IsSnapshot(Captured)'
           /\ claims'[s] \in Seq(ClaimsOf(s)) /\ Len(claims'[s]) = Len(claims[s])
           /\ \A i \in 1 .. Len(claims[s]) :
                 /\ claims'[s][i].key = claims[s][i].key
                 /\ claims'[s][i].hypothesis = claims[s][i].hypothesis
                 /\ claims'[s][i].bar = claims[s][i].bar
                 /\ claims'[s][i].run = claims[s][i].run
           /\ \A t \in Symbols \ {s} : claims'[t] = claims[t]
<1>1. PICK state \in StatesOf(s, claims[s][1].hypothesis) :
         claims' = [claims EXCEPT ![s][1].state = state]
  BY DEF EditFrozenRow
<1>2. IsSnapshot(Captured) /\ claims[s] \in Seq(ClaimsOf(s)) /\ claims[s] # <<>>
  BY DEF Typed, IsSnapshot, Captured, EditFrozenRow
<1> DEFINE first == claims[s][1]
<1> DEFINE row == [first EXCEPT !.state = state]
<1> DEFINE q == [claims[s] EXCEPT ![1] = row]
<1>3. /\ Len(claims[s]) \in Nat /\ DOMAIN claims[s] = 1 .. Len(claims[s])
      /\ \A i \in 1 .. Len(claims[s]) : claims[s][i] \in ClaimsOf(s)
      /\ 1 \in 1 .. Len(claims[s])
  <2>1. Len(claims[s]) \in Nat /\ Len(claims[s]) # 0
    BY <1>2, EmptySeq
  <2>2. QED
    BY <1>2, <2>1
<1>4. /\ row \in ClaimsOf(s) /\ row.key = first.key /\ row.hypothesis = first.hypothesis
      /\ row.bar = first.bar /\ row.run = first.run
  <2>1. first \in ClaimsOf(s) /\ state \in StatesOf(s, first.hypothesis)
    BY <1>1, <1>3
  <2> HIDE DEF first
  <2>2. first.hypothesis \in Hypotheses
    BY <2>1 DEF ClaimsOf
  <2>3. state \in UNION {StatesOf(s, h) : h \in Hypotheses}
    BY <2>1, <2>2
  <2>4. QED
    BY <2>1, <2>3 DEF ClaimsOf
<1>5. claims' = [claims EXCEPT ![s] = q]
  BY <1>1
<1> HIDE DEF row
<1>6. /\ q \in Seq(ClaimsOf(s)) /\ Len(q) = Len(claims[s])
      /\ \A i \in 1 .. Len(claims[s]) : q[i] = IF i = 1 THEN row ELSE claims[s][i]
  <2>1. q \in [1 .. Len(claims[s]) -> ClaimsOf(s)]
    BY <1>3, <1>4
  <2>2. q \in Seq(ClaimsOf(s))
    BY <1>3, <2>1
  <2>3. QED
    BY <1>3, <2>1, <2>2
<1>7. \A i \in 1 .. Len(claims[s]) : /\ q[i].key = claims[s][i].key
                                    /\ q[i].hypothesis = claims[s][i].hypothesis
                                    /\ q[i].bar = claims[s][i].bar
                                    /\ q[i].run = claims[s][i].run
  BY <1>4, <1>6
<1> HIDE DEF q
<1>8. UNCHANGED <<log, outcomes, torn>>
  BY DEF EditFrozenRow
<1>9. /\ IsSnapshot(Captured)' /\ claims'[s] = q
      /\ \A t \in Symbols \ {s} : claims'[t] = claims[t]
  BY <1>2, <1>5, <1>6, <1>8, RowTyped
<1>10. QED
  BY <1>6, <1>7, <1>9

(* Whatever happens outside the runners leaves them where they are, and    *)
(* everything with its type.                                               *)
LEMMA OutsideTyped ==
    ASSUME Typed, Outside
    PROVE  Typed' /\ UNCHANGED runner
<1>1. /\ IsSnapshot(Captured) /\ IsLeft(left) /\ day \in Nat /\ ActivatedAt <= day
      /\ day \in {ActivatedAt} \cup left.days /\ log \in Seq(LogRows)
      /\ collector = None \/ Running
  BY DEF Typed, IsSnapshot, Captured
<1>2. ASSUME IsSnapshot(Captured)', IsLeft(left)', left'.days = left.days,
             day' \in Nat, ActivatedAt <= day', day' \in {ActivatedAt} \cup left.days,
             collector' = None \/ Running',
             manifest' \in {"bound", "other"}, repository' \in {"clean", "dirty"},
             UNCHANGED runner
      PROVE  Typed' /\ UNCHANGED runner
  <2>1. pc' = pc /\ work' = work
    BY <1>2 DEF runner
  <2>2. QED
    BY <1>2, <2>1 DEF Typed
<1>3. ASSUME IsSnapshot(Captured)', IsLeft(left)', left'.days = left.days,
             collector' = None \/ Running', UNCHANGED <<day, inputs, runner>>
      PROVE  Typed' /\ UNCHANGED runner
  BY <1>1, <1>2, <1>3 DEF Typed, inputs
<1>4. ASSUME UNCHANGED <<log, claims, outcomes, torn>> PROVE IsSnapshot(Captured)'
  BY <1>1, <1>4 DEF IsSnapshot, Captured
<1>5. ASSUME left' = left PROVE IsLeft(left)' /\ left'.days = left.days
  BY <1>1, <1>5
<1>6. ASSUME UNCHANGED <<day, log, collector>> PROVE collector' = None \/ Running'
  BY <1>1, <1>6 DEF Running
<1>7. ASSUME NEW today \in left.days, CollectorStarts(today) PROVE Typed' /\ UNCHANGED runner
  <2>1. /\ IsSnapshot(Captured)' /\ Running' /\ day' = today /\ today \in Nat
        /\ ActivatedAt <= today
    BY <1>7, StartStep
  <2>2. UNCHANGED <<inputs, runner>> /\ (left' = left \/ Spend("reruns"))
    BY <1>7 DEF CollectorStarts
  <2>3. IsLeft(left)' /\ left'.days = left.days
    BY <1>1, <1>5, <2>2, Spending
  <2>4. manifest' \in {"bound", "other"} /\ repository' \in {"clean", "dirty"}
    BY <2>2 DEF Typed, inputs
  <2>5. QED
    BY <1>2, <1>7, <2>1, <2>2, <2>3, <2>4
<1>8. ASSUME NEW tail \in ActivatedAt .. day - 1, VisitSymbol(tail) \/ VisitStale(tail)
      PROVE  Typed' /\ UNCHANGED runner
  <2>1. /\ Running' /\ IsLeft(left)' /\ left'.days = left.days
        /\ UNCHANGED <<day, log, claims, outcomes, torn, inputs, runner>>
    BY <1>8, VisitStep
  <2>2. QED
    BY <1>3, <1>4, <2>1
<1>9. CASE SymbolFails \/ SymbolDone
  <2>1. /\ Running' /\ IsLeft(left)' /\ left'.days = left.days
        /\ UNCHANGED <<day, log, claims, outcomes, torn, inputs, runner>>
    BY <1>9, LeaveStep
  <2>2. QED
    BY <1>3, <1>4, <2>1
<1>10. CASE RegisterClaim
  <2>1. IsSnapshot(Captured)' /\ Running' /\ UNCHANGED <<day, inputs, runner, left>>
    BY <1>10, RegisterStep
  <2>2. QED
    BY <1>3, <1>5, <2>1
<1>11. CASE MeasureOutcome
  <2>1. IsSnapshot(Captured)'
    BY <1>11, MeasureStep
  <2>2. UNCHANGED <<day, log, collector, inputs, runner, left>>
    BY <1>11 DEF MeasureOutcome
  <2>3. QED
    BY <1>3, <1>5, <1>6, <2>1, <2>2
<1>12. CASE CollectorEnds
  <2> DEFINE entry == [kind |-> "record", run |-> collector.id, missed |-> collector.missed]
  <2>1. Running
    BY <1>1, <1>12 DEF CollectorEnds
  <2>2. entry \in LogRows
    <3>1. collector.id \in Nat \ {0} /\ collector.missed \in [Symbols -> SUBSET Nat]
      BY <1>1, <2>1, RunsOfLog DEF Running
    <3>2. QED
      BY <3>1 DEF LogRows
  <2>3. log' = Append(log, entry)
    BY <1>12 DEF CollectorEnds
  <2> HIDE DEF entry
  <2>4. log' \in Seq(LogRows)
    BY <1>1, <2>2, <2>3
  <2>5. UNCHANGED <<day, claims, outcomes, torn, inputs, runner, left>> /\ collector' = None
    BY <1>12 DEF CollectorEnds
  <2>6. IsSnapshot(Captured)'
    BY <1>1, <2>4, <2>5 DEF IsSnapshot, Captured
  <2>7. QED
    BY <1>3, <1>5, <2>5, <2>6
<1>13. CASE CollectorDies
  <2>1. IsLeft(left)' /\ left'.days = left.days
    BY <1>1, <1>13, Spending DEF CollectorDies
  <2>2. /\ UNCHANGED <<day, log, claims, outcomes, inputs, runner>>
        /\ torn' \in BOOLEAN /\ collector' = None
    BY <1>13 DEF CollectorDies
  <2>3. IsSnapshot(Captured)'
    BY <1>1, <2>2 DEF IsSnapshot, Captured
  <2>4. QED
    BY <1>3, <2>1, <2>2, <2>3
<1>14. ASSUME NEW s \in Symbols, ForeignRow(s) \/ EditFrozenRow(s)
       PROVE  Typed' /\ UNCHANGED runner
  <2>1. IsSnapshot(Captured)'
    BY <1>14, ForeignStep, EditStep
  <2>2. IsLeft(left)' /\ left'.days = left.days
    BY <1>1, <1>14, Spending DEF ForeignRow, EditFrozenRow
  <2>3. UNCHANGED <<day, log, collector, inputs, runner>>
    BY <1>14 DEF ForeignRow, EditFrozenRow
  <2>4. QED
    BY <1>3, <1>6, <2>1, <2>2, <2>3
<1>15. CASE EditResult \/ EditReport \/ EditUnlock
  <2>1. IsLeft(left)' /\ left'.days = left.days
    BY <1>1, <1>15, Spending DEF EditResult, EditReport, EditUnlock
  <2>2. UNCHANGED <<evidence, inputs, runner>>
    BY <1>15 DEF EditResult, EditReport, EditUnlock
  <2>3. QED
    BY <1>3, <1>4, <1>6, <2>1, <2>2 DEF evidence
<1>16. CASE Reactivate \/ TouchCheckout \/ CleanCheckout
  <2>1. IsLeft(left)' /\ left'.days = left.days
    BY <1>1, <1>5, <1>16, Spending DEF Reactivate, TouchCheckout, CleanCheckout
  <2>2. UNCHANGED <<evidence, runner>>
    BY <1>16 DEF Reactivate, TouchCheckout, CleanCheckout
  <2>3. manifest' \in {"bound", "other"} /\ repository' \in {"clean", "dirty"}
    BY <1>16 DEF Typed, Reactivate, TouchCheckout, CleanCheckout
  <2>4. day' = day
    BY <2>2 DEF evidence
  <2>5. QED
    BY <1>1, <1>2, <1>4, <1>6, <2>1, <2>2, <2>3, <2>4 DEF evidence
<1>17. QED
  BY <1>7, <1>8, <1>9, <1>10, <1>11, <1>12, <1>13, <1>14, <1>15, <1>16 DEF Outside

(* Every step keeps the types.                                             *)
LEMMA NextTyped == Typed /\ [Next]_vars => Typed'
<1> SUFFICES ASSUME Typed, [Next]_vars PROVE Typed'
  OBVIOUS
<1>1. CASE UNCHANGED vars
  <2>1. UNCHANGED <<evidence, inputs, runner, left>>
    BY <1>1 DEF vars
  <2>2. QED
    BY <2>1 DEF Typed, Running, evidence, inputs, runner, IsSnapshot, Captured
<1>2. CASE Next
  BY <1>2, RunnerTyped, OutsideTyped DEF Next
<1>3. QED
  BY <1>1, <1>2

-----------------------------------------------------------------------------
(* The gate.                                                               *)

(* Where no row is without a start, what is not excluded is of a run that  *)
(* has a record.                                                           *)
LEMMA CountedIsRecorded ==
    ASSUME NEW snapshot, Provenance(snapshot) # "invalid"
    PROVE  /\ \A c \in Rows(snapshot.claims) :
                 c.key \notin ExcludedBy(snapshot) => c.run \in Recorded(snapshot.log)
           /\ \A o \in Rows(snapshot.outcomes) :
                 o.key \notin ExcludedBy(snapshot) => o.run \in Recorded(snapshot.log)
<1>1. \A row \in Rows(snapshot.claims) \cup Rows(snapshot.outcomes) :
         row.run \in Started(snapshot.log)
  BY DEF Provenance
<1> DEFINE dead == Started(snapshot.log) \ Recorded(snapshot.log)
<1> DEFINE orphans == {c.key : c \in {d \in Rows(snapshot.claims) : d.run \in dead}}
<1> DEFINE measured == {o.key : o \in {p \in Rows(snapshot.outcomes) :
                                          p.run \in dead \/ p.claim \in orphans}}
<1>2. ExcludedBy(snapshot) = orphans \cup measured
  BY DEF ExcludedBy
<1>3. ASSUME NEW c \in Rows(snapshot.claims), c.run \notin Recorded(snapshot.log)
      PROVE  c.key \in orphans
  BY <1>1, <1>3
<1>4. ASSUME NEW o \in Rows(snapshot.outcomes), o.run \notin Recorded(snapshot.log)
      PROVE  o.key \in measured
  BY <1>1, <1>4
<1> HIDE DEF orphans, measured
<1>5. QED
  BY <1>2, <1>3, <1>4

(* Whatever the stop rule counts, a completed run wrote.                   *)
LEMMA CountedIsGood ==
    ASSUME NEW snapshot, Provenance(snapshot) # "invalid", NEW s
    PROVE  /\ Legitimate(Evidence(snapshot)) \subseteq GoodRows(snapshot.claims, snapshot)
           /\ Matured(Evidence(snapshot), s) \subseteq GoodPairs(snapshot, s)
<1> DEFINE e == Evidence(snapshot)
<1>1. /\ e.claims = Rows(snapshot.claims) /\ e.outcomes = Rows(snapshot.outcomes)
      /\ e.excluded = ExcludedBy(snapshot)
  BY DEF Evidence
<1> HIDE DEF e
<1>2. Legitimate(e) \subseteq GoodRows(snapshot.claims, snapshot)
  BY <1>1, CountedIsRecorded DEF Legitimate, GoodRows
<1>3. ASSUME NEW c \in Matured(e, s) PROVE c \in GoodPairs(snapshot, s)
  <2>1. c \in PopulationClaims(e, s, Primary) /\ c.key \in MaturedKeys(e, PrimaryHorizon)
    BY DEF Matured
  <2>2. c \in GoodRows(snapshot.claims, snapshot) /\ c.symbol = s /\ c.hypothesis = Primary
    BY <1>2, <2>1 DEF PopulationClaims
  <2>3. PICK o \in e.outcomes : o.horizon = PrimaryHorizon /\ o.key \notin e.excluded
                                /\ o.claim = c.key
    BY <2>1 DEF MaturedKeys
  <2>4. o \in GoodRows(snapshot.outcomes, snapshot)
    BY <1>1, <2>3, CountedIsRecorded DEF GoodRows
  <2>5. QED
    BY <2>2, <2>3, <2>4 DEF GoodPairs
<1>4. QED
  BY <1>2, <1>3 DEF e

(* Bars of a snapshot's claims, plain and settled, are finitely many.      *)
LEMMA BarsAreFinite ==
    ASSUME NEW snapshot, IsSnapshot(snapshot), NEW C \in SUBSET Rows(snapshot.claims)
    PROVE  /\ IsFiniteSet(C) /\ \A c \in C : c.bar \in Nat
           /\ {c.bar : c \in C} \subseteq Int /\ IsFiniteSet({c.bar : c \in C})
           /\ {Settles(c.bar) : c \in C} \subseteq Int
           /\ IsFiniteSet({Settles(c.bar) : c \in C})
<1>1. IsFiniteSet(C)
  BY RowsOfSnapshot, FS_Subset
<1>2. \A c \in C : c.bar \in Nat
  BY RowsOfSnapshot DEF ClaimsOf
<1> DEFINE f == [c \in C |-> c.bar]
<1> DEFINE g == [c \in C |-> Settles(c.bar)]
<1>3. f = [c \in C |-> f[c]] /\ g = [c \in C |-> g[c]]
  OBVIOUS
<1>4. {c.bar : c \in C} = {f[c] : c \in C} /\ {Settles(c.bar) : c \in C} = {g[c] : c \in C}
  OBVIOUS
<1> HIDE DEF f, g
<1>5. IsFiniteSet({f[c] : c \in C}) /\ IsFiniteSet({g[c] : c \in C})
  BY <1>1, <1>3, ImageIsFinite
<1>6. {c.bar : c \in C} \subseteq Int /\ {Settles(c.bar) : c \in C} \subseteq Int
  BY <1>2 DEF Settles
<1>7. QED
  BY <1>1, <1>2, <1>4, <1>5, <1>6

(* What passes the gate is due by the rows of completed runs alone.        *)
LEMMA DueIsTrulyDue ==
    ASSUME NEW snapshot, IsSnapshot(snapshot), IsUnlockable(Gate(snapshot))
    PROVE  IsTrulyDue(snapshot)
<1> DEFINE e == Evidence(snapshot)
<1>1. Provenance(snapshot) # "invalid" /\ IsDue(StopRule(e))
  BY DEF IsUnlockable, Gate
<1> DEFINE good == GoodRows(snapshot.claims, snapshot)
<1>2. good \subseteq Rows(snapshot.claims) /\ Legitimate(e) \subseteq good
  BY <1>1, CountedIsGood DEF GoodRows
<1>3. e.activated_at = ActivatedAt /\ ActivatedAt \in Nat
  BY Definition DEF Evidence
<1>4. ASSUME NEW months \in Nat, Elapsed(e, months)
      PROVE  LastGoodBar(snapshot) + 1 >= ActivatedAt + months
  <2> DEFINE settled == {Settles(c.bar) : c \in Legitimate(e)}
  <2> DEFINE bars == {c.bar : c \in good}
  <2>1. settled \subseteq Int /\ IsFiniteSet(settled)
    BY <1>2, BarsAreFinite
  <2>2. bars \subseteq Int /\ IsFiniteSet(bars) /\ \A c \in good : c.bar \in Nat
    BY <1>2, BarsAreFinite
  <2>3. EvidenceThrough(e) = Largest(settled)
    BY DEF EvidenceThrough
  <2>4. LastGoodBar(snapshot) = Largest(bars)
    BY DEF LastGoodBar
  <2>5. Largest(settled) # Null /\ Largest(settled) >= ActivatedAt + months
    BY <1>3, <1>4, <2>3 DEF Elapsed
  <2> HIDE DEF e
  <2>6. Largest(settled) \in settled
    <3> HIDE DEF settled
    <3>1. QED
      BY <2>1, <2>5, LargestIsLargest
  <2>7. PICK c \in Legitimate(e) : Largest(settled) = Settles(c.bar)
    BY <2>6
  <2>8. c \in good /\ c.bar \in bars /\ c.bar \in Nat
    BY <1>2, <2>2
  <2>9. Largest(bars) \in Int /\ c.bar <= Largest(bars)
    <3> HIDE DEF bars
    <3>1. QED
      BY <2>2, <2>8, LargestIsLargest
  <2>10. c.bar + 1 >= ActivatedAt + months
    BY <2>5, <2>7 DEF Settles
  <2> HIDE DEF bars
  <2>11. Largest(bars) + 1 >= ActivatedAt + months
    BY <1>3, <2>8, <2>9, <2>10
  <2>12. QED
    BY <2>4, <2>11
<1>5. CASE StopRule(e).f
  <2>1. Elapsed(e, ForcedMonths)
    BY <1>5 DEF StopRule
  <2>2. QED
    BY <1>4, <2>1, Definition DEF IsTrulyDue
<1>6. CASE StopRule(e).e1 /\ StopRule(e).e2
  <2>1. /\ Elapsed(e, MinimumMonths)
        /\ \A s \in PrimarySymbols : Cardinality(Matured(e, s)) >= MinimumMatured
    BY <1>6 DEF StopRule
  <2>2. ASSUME NEW s \in PrimarySymbols
        PROVE  Cardinality(GoodPairs(snapshot, s)) >= MinimumMatured
    <3>1. Matured(e, s) \in SUBSET GoodPairs(snapshot, s)
      BY <1>1, CountedIsGood
    <3>2. GoodPairs(snapshot, s) \in SUBSET Rows(snapshot.claims)
      BY <1>2 DEF GoodPairs
    <3>3. IsFiniteSet(GoodPairs(snapshot, s))
      BY <3>2, RowsOfSnapshot, FS_Subset
    <3>4. IsFiniteSet(Matured(e, s)) /\ Cardinality(Matured(e, s)) <= Cardinality(GoodPairs(snapshot, s))
      BY <3>1, <3>3, FS_Subset
    <3>5. Cardinality(Matured(e, s)) \in Nat /\ Cardinality(GoodPairs(snapshot, s)) \in Nat
      BY <3>3, <3>4, FS_CardinalityType
    <3>6. Cardinality(Matured(e, s)) >= MinimumMatured /\ MinimumMatured \in Nat
      BY <2>1, Definition
    <3>7. QED
      BY <3>4, <3>5, <3>6
  <2>3. QED
    BY <1>4, <2>1, <2>2, Definition DEF IsTrulyDue
<1>7. QED
  BY <1>1, <1>5, <1>6 DEF IsDue

-----------------------------------------------------------------------------
(* One opening, one answer.                                                *)

IsPayload(u) ==
    /\ u = [recorded |-> u.recorded, host |-> u.host]
    /\ u.recorded = [snapshot |-> u.recorded.snapshot, gate |-> u.recorded.gate]

IsAnswer(x) ==
    x = [categories |-> x.categories, primary |-> x.primary, secondary |-> x.secondary,
         unlock |-> x.unlock]

(* What a runner holds where it is.                                        *)
Kept(r) ==
    /\ pc[r] \in {"idle", "looking", "capturing"} => work[r] = Idle
    /\ pc[r] = "verifying" => result # None
    /\ pc[r] = "opening" =>
          /\ IsPayload(work[r].unlock)
          /\ work[r].unlock.recorded.snapshot # None
          /\ IsTrulyDue(work[r].unlock.recorded.snapshot)
    /\ pc[r] \in {"deriving", "reopening"} =>
          /\ unlock # None
          /\ IsPayload(work[r].unlock)
          /\ work[r].unlock.recorded.snapshot = opened
    /\ pc[r] = "reopening" /\ work[r].result # None => result # None
    /\ pc[r] \in {"writing", "reporting", "finishing"} =>
          /\ unlock # None
          /\ IsPayload(work[r].unlock)
          /\ IsAnswer(work[r].derived)
          /\ AnswerOf(work[r].derived) = AnswerTo(opened)
    /\ pc[r] \in {"reporting", "finishing"} => result # None

(* The unlock is of the evidence it was written for, whatever else of it   *)
(* is altered; the result was written with the answer to that evidence;    *)
(* and whoever is past the gate works on that evidence.                    *)
Promised ==
    /\ unlock = None <=> opened = None
    /\ unlock # None => IsPayload(unlock) /\ unlock.recorded.snapshot = opened
    /\ result = None <=> answered = None
    /\ result # None => /\ IsAnswer(result) /\ unlock # None
                        /\ answered = AnswerTo(opened)
    /\ report # None => IsAnswer(report)
    /\ \A r \in Runners : Kept(r)

(* Whatever is written is something.                                       *)
LEMMA WrittenIsNotNone ==
    /\ \A u : IsPayload(u) => u # None
    /\ \A x : IsAnswer(x) => x # None
    /\ Captured # None
<1>1. ASSUME NEW u, IsPayload(u) PROVE u # None
  <2>1. u = [recorded |-> u.recorded, host |-> u.host]
    BY <1>1 DEF IsPayload
  <2>2. "host" \in DOMAIN u
    BY <2>1
  <2>3. "host" \notin DOMAIN None
    BY DEF None
  <2>4. QED
    BY <2>2, <2>3
<1>2. ASSUME NEW x, IsAnswer(x) PROVE x # None
  <2>1. x = [categories |-> x.categories, primary |-> x.primary, secondary |-> x.secondary,
             unlock |-> x.unlock]
    BY <1>2 DEF IsAnswer
  <2>2. "unlock" \in DOMAIN x
    BY <2>1
  <2>3. "unlock" \notin DOMAIN None
    BY DEF None
  <2>4. QED
    BY <2>2, <2>3
<1>3. Captured # None
  BY DEF Captured, None
<1>4. QED
  BY <1>1, <1>2, <1>3

(* What a payload determines is the answer to what it records.             *)
LEMMA DerivedAnswers ==
    ASSUME NEW payload
    PROVE  /\ IsAnswer(DerivedFrom(payload))
           /\ AnswerOf(DerivedFrom(payload)) = AnswerTo(payload.recorded.snapshot)
BY DEF IsAnswer, DerivedFrom, AnswerOf, AnswerTo, BuildResult, Recaptured

(* A step of another runner, or of none, leaves a runner what it holds:    *)
(* the unlock and the result stay once they are there.                     *)
LEMMA KeptByOthers ==
    ASSUME NEW q \in Runners, Kept(q), pc'[q] = pc[q], work'[q] = work[q],
           unlock # None => unlock' # None /\ opened' = opened,
           result # None => result' # None
    PROVE  Kept(q)'
BY DEF Kept

(* At first nothing is opened and nothing answered.                        *)
LEMMA InitPromised == Init => Promised /\ Abstract!Init
<1> SUFFICES ASSUME Init PROVE Promised /\ Abstract!Init
  OBVIOUS
<1>1. Abstract!Init
  BY DEF Init, Abstract!Init
<1>2. \A r \in Runners : pc[r] = "idle" /\ work[r] = Idle
  BY DEF Init
<1>3. \A r \in Runners : Kept(r)
  BY <1>2 DEF Kept
<1>4. QED
  BY <1>1, <1>3 DEF Init, Promised

(* Where the files and the histories stay, nothing is promised anew.       *)
LEMMA PromisedSame ==
    ASSUME Promised, UNCHANGED <<artifacts, history>>, \A r \in Runners : Kept(r)'
    PROVE  Promised' /\ UNCHANGED Abstract!vars
<1>1. /\ unlock' = unlock /\ result' = result /\ report' = report
      /\ opened' = opened /\ answered' = answered /\ told' = told
  BY DEF artifacts, history
<1>2. Promised'
  BY <1>1 DEF Promised
<1>3. UNCHANGED Abstract!vars
  BY <1>1 DEF Abstract!vars
<1>4. QED
  BY <1>2, <1>3

(* A runner's step keeps what is promised, and is an opening, an answer, a *)
(* telling, or nothing that can be seen from outside.                      *)
LEMMA RunnerPromises ==
    ASSUME Typed, Promised, NEW r \in Runners,
           Begin(r) \/ BeginUnbound(r) \/ Step(r) \/ Crash(r)
    PROVE  Promised' /\ [Abstract!Next]_(Abstract!vars)
<1>1. IsWork(work) /\ pc \in [Runners -> Labels] /\ IsSnapshot(Captured)
  BY DEF Typed, IsWork
<1>2. \A q \in Runners \ {r} : pc'[q] = pc[q] /\ work'[q] = work[q]
  BY RunnerTyped
<1>3. ASSUME unlock # None => unlock' # None /\ opened' = opened,
             result # None => result' # None, Kept(r)'
      PROVE  \A q \in Runners : Kept(q)'
  <2>1. ASSUME NEW q \in Runners \ {r} PROVE Kept(q)'
    BY <1>2, <1>3, KeptByOthers DEF Promised
  <2>2. QED
    BY <1>3, <2>1
<1>4. ASSUME UNCHANGED <<artifacts, history>>, Kept(r)'
      PROVE  Promised' /\ [Abstract!Next]_(Abstract!vars)
  <2>1. unlock' = unlock /\ result' = result /\ opened' = opened
    BY <1>4 DEF artifacts, history
  <2>2. \A q \in Runners : Kept(q)'
    BY <1>3, <1>4, <2>1
  <2>3. QED
    BY <1>4, <2>2, PromisedSame
<1>5. ASSUME End(r) PROVE Kept(r)'
  <2>1. work' = [work EXCEPT ![r] = Idle] /\ pc' = [pc EXCEPT ![r] = "idle"]
    BY <1>5 DEF End, Goto
  <2>2. work'[r] = Idle /\ pc'[r] = "idle"
    BY <1>1, <2>1, Working
  <2>3. QED
    BY <2>2 DEF Kept
<1>6. CASE Begin(r)
  <2>1. pc[r] = "idle" /\ work' = [work EXCEPT ![r].result = result]
    BY <1>6 DEF Begin
  <2>2. pc'[r] = IF result = None THEN "looking" ELSE "verifying"
    BY <1>1, <1>6 DEF Begin, Goto
  <2>3. UNCHANGED <<artifacts, history>>
    BY <1>6 DEF Begin
  <2>4. Kept(r)'
    <3>1. CASE result = None
      <4>1. work[r] = Idle
        BY <2>1 DEF Promised, Kept
      <4>2. work'[r] = Idle
        BY <1>1, <2>1, <3>1, <4>1, Working DEF IsWork, Idle
      <4>3. QED
        BY <2>2, <3>1, <4>2 DEF Kept
    <3>2. CASE result # None
      <4>1. result' # None
        BY <2>3, <3>2 DEF artifacts
      <4>2. QED
        BY <2>2, <3>2, <4>1 DEF Kept
    <3>3. QED
      BY <3>1, <3>2
  <2>5. QED
    BY <1>4, <2>3, <2>4
<1>7. CASE BeginUnbound(r)
  BY <1>4, <1>5, <1>7 DEF BeginUnbound, Refuse
<1>8. CASE ReadNamedUnlock(r)
  <2>1. /\ pc[r] = "verifying" /\ work' = [work EXCEPT ![r].unlock = unlock]
        /\ pc' = [pc EXCEPT ![r] = "reopening"] /\ UNCHANGED <<artifacts, history>>
    BY <1>8 DEF ReadNamedUnlock, Goto
  <2>2. result # None
    BY <2>1 DEF Promised, Kept
  <2>3. unlock # None /\ IsPayload(unlock) /\ unlock.recorded.snapshot = opened
    BY <2>2 DEF Promised
  <2>4. work'[r].unlock = unlock /\ pc'[r] = "reopening"
    BY <1>1, <2>1, Working
  <2>5. result' # None /\ unlock' # None /\ opened' = opened
    BY <2>1, <2>2, <2>3 DEF artifacts, history
  <2>6. Kept(r)'
    BY <2>3, <2>4, <2>5 DEF Kept
  <2>7. QED
    BY <1>4, <2>1, <2>6
<1>9. CASE ReadUnlock(r)
  <2>1. /\ pc[r] = "looking" /\ work' = [work EXCEPT ![r].unlock = unlock]
        /\ UNCHANGED <<artifacts, history>>
    BY <1>9 DEF ReadUnlock
  <2>2. pc'[r] = IF unlock = None THEN "capturing" ELSE "reopening"
    BY <1>1, <1>9 DEF ReadUnlock, Goto
  <2>3. work[r] = Idle
    BY <2>1 DEF Promised, Kept
  <2>4. work'[r].unlock = unlock /\ work'[r].result = None /\ work'[r].derived = None
    <3>1. /\ work'[r].unlock = unlock /\ work'[r].result = work[r].result
          /\ work'[r].derived = work[r].derived
      BY <1>1, <2>1, Working
    <3>2. QED
      BY <2>3, <3>1 DEF Idle
  <2>5. unlock' = unlock /\ opened' = opened
    BY <2>1 DEF artifacts, history
  <2>6. Kept(r)'
    <3>1. CASE unlock = None
      <4>1. work'[r] = Idle
        <5>1. IsWork(work)'
          BY <1>1, <2>1, Working
        <5>2. QED
          BY <2>4, <3>1, <5>1 DEF IsWork, Idle
      <4>2. QED
        BY <2>2, <3>1, <4>1 DEF Kept
    <3>2. CASE unlock # None
      <4>1. IsPayload(unlock) /\ unlock.recorded.snapshot = opened
        BY <3>2 DEF Promised
      <4>2. QED
        BY <2>2, <2>4, <2>5, <3>2, <4>1 DEF Kept
    <3>3. QED
      BY <3>1, <3>2
  <2>7. QED
    BY <1>4, <2>1, <2>6
<1>10. CASE Reopen(r)
  <2> DEFINE derived == DerivedFrom(work[r].unlock)
  <2>1. /\ pc[r] = "reopening" /\ work[r].result \in {None, derived}
        /\ work' = [work EXCEPT ![r].derived =
                       IF work[r].result = None THEN derived ELSE work[r].result]
        /\ UNCHANGED <<artifacts, history>>
    BY <1>10 DEF Reopen, IsVerified
  <2>2. work' = [work EXCEPT ![r].derived = derived]
    BY <2>1
  <2>3. pc'[r] = IF work[r].result = None THEN "writing" ELSE "finishing"
    BY <1>1, <1>10 DEF Reopen, Goto
  <2>4. /\ unlock # None /\ IsPayload(work[r].unlock)
        /\ work[r].unlock.recorded.snapshot = opened
        /\ work[r].result # None => result # None
    BY <2>1 DEF Promised, Kept
  <2>5. IsAnswer(derived) /\ AnswerOf(derived) = AnswerTo(opened)
    BY <2>4, DerivedAnswers
  <2> HIDE DEF derived
  <2>6. /\ work'[r].derived = derived /\ work'[r].unlock = work[r].unlock
        /\ work'[r].result = work[r].result
    BY <1>1, <2>2, Working
  <2>7. unlock' = unlock /\ opened' = opened /\ result' = result
    BY <2>1 DEF artifacts, history
  <2>8. Kept(r)'
    BY <2>3, <2>4, <2>5, <2>6, <2>7 DEF Kept
  <2>9. QED
    BY <1>4, <2>1, <2>8
<1>11. CASE Capture(r)
  <2> DEFINE payload == UnlockPayload(r, Captured)
  <2>1. /\ IsUnlockable(Gate(Captured)) /\ UNCHANGED <<artifacts, history>>
        /\ work' = [work EXCEPT ![r].unlock = payload]
    BY <1>11 DEF Capture, CanCapture
  <2>2. IsTrulyDue(Captured) /\ Captured # None
    BY <1>1, <2>1, DueIsTrulyDue, WrittenIsNotNone
  <2>3. IsPayload(payload) /\ payload.recorded.snapshot = Captured
    BY DEF UnlockPayload, Deterministic, IsPayload
  <2> HIDE DEF payload
  <2>4. work'[r].unlock = payload /\ pc'[r] = "opening"
    BY <1>1, <1>11, <2>1, Working DEF Capture, Goto
  <2>5. Kept(r)'
    BY <2>2, <2>3, <2>4 DEF Kept
  <2>6. QED
    BY <1>4, <2>1, <2>5
<1>12. CASE Open(r)
  <2>1. /\ pc[r] = "opening" /\ unlock = None /\ unlock' = work[r].unlock
        /\ opened' = work[r].unlock.recorded.snapshot /\ work' = work
        /\ UNCHANGED <<result, report, answered, told>>
    BY <1>12 DEF Open, IsFree
  <2>2. pc'[r] = "deriving"
    BY <1>1, <1>12 DEF Open, Goto
  <2>3. /\ IsPayload(work[r].unlock) /\ IsTrulyDue(work[r].unlock.recorded.snapshot)
        /\ work[r].unlock.recorded.snapshot # None
    BY <2>1 DEF Promised, Kept
  <2>4. unlock' # None /\ opened' # None /\ IsPayload(unlock')
    BY <2>1, <2>3, WrittenIsNotNone
  <2>5. opened = None /\ result = None /\ answered = None
    BY <2>1 DEF Promised
  <2>6. Kept(r)'
    BY <2>1, <2>2, <2>3, <2>4, <2>5 DEF Kept
  <2>7. \A q \in Runners : Kept(q)'
    BY <1>3, <2>1, <2>5, <2>6
  <2>8. Promised'
    BY <2>1, <2>4, <2>5, <2>7 DEF Promised
  <2>9. Abstract!Open
    BY <2>1, <2>3, <2>4, <2>5 DEF Abstract!Open
  <2>10. QED
    BY <2>8, <2>9 DEF Abstract!Next
<1>13. CASE Derive(r)
  <2>1. /\ pc[r] = "deriving" /\ UNCHANGED <<artifacts, history>>
        /\ work' = [work EXCEPT ![r].derived = DerivedFrom(work[r].unlock)]
    BY <1>13 DEF Derive
  <2>2. /\ unlock # None /\ IsPayload(work[r].unlock)
        /\ work[r].unlock.recorded.snapshot = opened
    BY <2>1 DEF Promised, Kept
  <2>3. /\ work'[r].derived = DerivedFrom(work[r].unlock) /\ work'[r].unlock = work[r].unlock
        /\ pc'[r] = "writing"
    BY <1>1, <1>13, <2>1, Working DEF Derive, Goto
  <2>4. unlock' = unlock /\ opened' = opened
    BY <2>1 DEF artifacts, history
  <2>5. Kept(r)'
    BY <2>2, <2>3, <2>4, DerivedAnswers DEF Kept
  <2>6. QED
    BY <1>4, <2>1, <2>5
<1>14. CASE WriteResult(r)
  <2>1. /\ pc[r] = "writing" /\ result = None /\ result' = work[r].derived
        /\ answered' = AnswerOf(work[r].derived) /\ work' = work
        /\ UNCHANGED <<unlock, report, opened, told>>
    BY <1>14 DEF WriteResult, IsFree
  <2>2. pc'[r] = "reporting"
    BY <1>1, <1>14 DEF WriteResult, Goto
  <2>3. /\ unlock # None /\ IsPayload(work[r].unlock) /\ IsAnswer(work[r].derived)
        /\ AnswerOf(work[r].derived) = AnswerTo(opened)
    BY <2>1 DEF Promised, Kept
  <2>4. result' # None
    BY <2>1, <2>3, WrittenIsNotNone
  <2>5. answered' # None
    BY <2>1 DEF AnswerOf, None
  <2>6. answered = None /\ opened # None
    BY <2>1, <2>3 DEF Promised
  <2>7. Kept(r)'
    BY <2>1, <2>2, <2>3, <2>4 DEF Kept
  <2>8. \A q \in Runners : Kept(q)'
    BY <1>3, <2>1, <2>7
  <2>9. Promised'
    BY <2>1, <2>3, <2>4, <2>5, <2>8 DEF Promised
  <2>10. Abstract!Answer
    BY <2>1, <2>3, <2>6 DEF Abstract!Answer
  <2>11. QED
    BY <2>9, <2>10 DEF Abstract!Next
<1>15. CASE WriteRaises(r)
  BY <1>4, <1>5, <1>15 DEF WriteRaises
<1>16. CASE WriteReport(r) \/ FinishReport(r)
  <2>1. /\ pc[r] \in {"reporting", "finishing"} /\ report' = work[r].derived /\ Complete(r)
    BY <1>16 DEF WriteReport, FinishReport
  <2>2. /\ End(r) /\ told' = AnswerOf(work[r].derived)
        /\ UNCHANGED <<unlock, result, opened, answered>>
    BY <2>1 DEF Complete
  <2>3. /\ IsAnswer(work[r].derived) /\ AnswerOf(work[r].derived) = AnswerTo(opened)
        /\ result # None
    BY <2>1 DEF Promised, Kept
  <2>4. answered = AnswerTo(opened) /\ answered # None
    BY <2>3 DEF Promised
  <2>5. \A q \in Runners : Kept(q)'
    BY <1>3, <1>5, <2>2
  <2>6. Promised'
    BY <2>1, <2>2, <2>3, <2>5 DEF Promised
  <2>7. Abstract!Tell
    BY <2>2, <2>3, <2>4 DEF Abstract!Tell
  <2>8. QED
    BY <2>6, <2>7 DEF Abstract!Next
<1>17. CASE Crash(r)
  BY <1>4, <1>5, <1>17 DEF Crash
<1>18. CASE \/ ReadOtherUnlock(r) \/ ReopenRefused(r) \/ CaptureRefused(r) \/ OpenRefused(r)
            \/ ReportDiffers(r)
  <2>1. Refuse(r)
    BY <1>18 DEF ReadOtherUnlock, ReopenRefused, CaptureRefused, OpenRefused, ReportDiffers
  <2>2. QED
    BY <1>4, <1>5, <2>1 DEF Refuse
<1>19. QED
  BY <1>6, <1>7, <1>8, <1>9, <1>10, <1>11, <1>12, <1>13, <1>14, <1>15, <1>16, <1>17, <1>18
     DEF Step

(* Whatever happens outside is invisible: an altered file keeps what the   *)
(* promise rests on.                                                       *)
LEMMA OutsidePromises ==
    ASSUME Typed, Promised, Outside
    PROVE  Promised' /\ UNCHANGED Abstract!vars
<1>1. pc' = pc /\ work' = work
  BY OutsideTyped DEF runner
<1>2. ASSUME unlock # None => unlock' # None, result # None => result' # None,
             UNCHANGED history
      PROVE  \A q \in Runners : Kept(q)'
  BY <1>1, <1>2, KeptByOthers DEF Promised, history
<1>3. ASSUME UNCHANGED <<artifacts, history>> PROVE Promised' /\ UNCHANGED Abstract!vars
  <2>1. unlock' = unlock /\ result' = result
    BY <1>3 DEF artifacts
  <2>2. QED
    BY <1>2, <1>3, <2>1, PromisedSame
<1>4. ASSUME NEW x, IsAnswer(x), NEW s, NEW category,
             NEW y, y = [x EXCEPT !.categories[s] = category]
      PROVE  IsAnswer(y)
  BY <1>4 DEF IsAnswer
<1>5. CASE EditResult
  <2>1. result # None /\ UNCHANGED <<unlock, report, history>>
    BY <1>5 DEF EditResult
  <2>2. PICK s, category : result' = [result EXCEPT !.categories[s] = category]
    BY <1>5 DEF EditResult
  <2>3. IsAnswer(result')
    BY <1>4, <2>1, <2>2 DEF Promised
  <2>4. result' # None
    BY <2>3, WrittenIsNotNone
  <2>5. \A q \in Runners : Kept(q)'
    BY <1>2, <2>1, <2>4
  <2>6. opened' = opened /\ answered' = answered /\ told' = told
    BY <2>1 DEF history
  <2>7. Promised'
    BY <2>1, <2>3, <2>4, <2>5, <2>6 DEF Promised
  <2>8. QED
    BY <2>6, <2>7 DEF Abstract!vars
<1>6. CASE EditReport
  <2>1. report # None /\ UNCHANGED <<unlock, result, history>>
    BY <1>6 DEF EditReport
  <2>2. PICK s, category : report' = [report EXCEPT !.categories[s] = category]
    BY <1>6 DEF EditReport
  <2>3. IsAnswer(report')
    BY <1>4, <2>1, <2>2 DEF Promised
  <2>4. \A q \in Runners : Kept(q)'
    BY <1>2, <2>1
  <2>5. opened' = opened /\ answered' = answered /\ told' = told
    BY <2>1 DEF history
  <2>6. Promised'
    BY <2>1, <2>3, <2>4, <2>5 DEF Promised
  <2>7. QED
    BY <2>5, <2>6 DEF Abstract!vars
<1>7. CASE EditUnlock
  <2>1. unlock # None /\ UNCHANGED <<result, report, history>>
    BY <1>7 DEF EditUnlock
  <2>2. /\ unlock = [recorded |-> unlock.recorded, host |-> unlock.host]
        /\ unlock.recorded
              = [snapshot |-> unlock.recorded.snapshot, gate |-> unlock.recorded.gate]
        /\ unlock.recorded.snapshot = opened
    BY <2>1 DEF Promised, IsPayload
  <2>3. IsPayload(unlock') /\ unlock'.recorded.snapshot = opened
    <3>1. CASE \E s \in Symbols : unlock' = [unlock EXCEPT !.recorded.gate.cutoffs[s] = @ + 1]
      <4>1. PICK s : unlock' = [unlock EXCEPT !.recorded.gate.cutoffs[s] = @ + 1]
        BY <3>1
      <4> DEFINE gate == [unlock.recorded.gate EXCEPT !.cutoffs[s] = @ + 1]
      <4>2. unlock' = [recorded |-> [snapshot |-> unlock.recorded.snapshot, gate |-> gate],
                       host |-> unlock.host]
        BY <2>2, <4>1
      <4> HIDE DEF gate
      <4>3. QED
        BY <2>2, <4>2 DEF IsPayload
    <3>2. CASE unlock' = [unlock EXCEPT !.host = None]
      <4>1. unlock' = [recorded |-> unlock.recorded, host |-> None]
        BY <2>2, <3>2
      <4>2. QED
        BY <2>2, <4>1 DEF IsPayload
    <3>3. QED
      BY <1>7, <3>1, <3>2 DEF EditUnlock
  <2>4. unlock' # None
    BY <2>3, WrittenIsNotNone
  <2>5. \A q \in Runners : Kept(q)'
    BY <1>2, <2>1, <2>4
  <2>6. opened' = opened /\ answered' = answered /\ told' = told
    BY <2>1 DEF history
  <2>7. opened # None
    BY <2>1 DEF Promised
  <2>8. Promised'
    BY <2>1, <2>3, <2>4, <2>5, <2>6, <2>7 DEF Promised
  <2>9. QED
    BY <2>6, <2>8 DEF Abstract!vars
<1>8. CASE ~(EditResult \/ EditReport \/ EditUnlock)
  <2>1. UNCHANGED <<artifacts, history>>
    BY <1>8 DEF Outside, CollectorStarts, VisitSymbol, VisitStale, SymbolFails, RegisterClaim,
                MeasureOutcome, SymbolDone, CollectorEnds, CollectorDies, ForeignRow,
                EditFrozenRow, Reactivate, TouchCheckout, CleanCheckout
  <2>2. QED
    BY <1>3, <2>1
<1>9. QED
  BY <1>5, <1>6, <1>7, <1>8

(* Types and promises hold throughout.                                     *)
Sound == Typed /\ Promised

(* Every step keeps both, and maps to a step of the abstract opening.      *)
LEMMA NextSound ==
    ASSUME Sound, [Next]_vars
    PROVE  Sound' /\ [Abstract!Next]_(Abstract!vars)
<1>1. Typed'
  BY NextTyped DEF Sound
<1>2. Promised' /\ [Abstract!Next]_(Abstract!vars)
  <2>1. CASE UNCHANGED vars
    <3>1. UNCHANGED <<artifacts, history>> /\ pc' = pc /\ work' = work
      BY <2>1 DEF vars, runner
    <3>2. /\ unlock' = unlock /\ result' = result /\ report' = report
          /\ opened' = opened /\ answered' = answered /\ told' = told
      BY <3>1 DEF artifacts, history
    <3>3. \A q \in Runners : Kept(q)'
      BY <3>1, <3>2, KeptByOthers DEF Sound, Promised
    <3>4. QED
      BY <3>1, <3>3, PromisedSame DEF Sound
  <2>2. CASE Next
    BY <2>2, RunnerPromises, OutsidePromises DEF Next, Sound
  <2>3. QED
    BY <2>1, <2>2
<1>3. QED
  BY <1>1, <1>2 DEF Sound

(* Throughout, the unlock is of one snapshot, the result of its answer.    *)
LEMMA SoundThroughout == Spec => []Sound
<1>1. Init => Sound
  BY InitTyped, InitPromised DEF Sound
<1>2. Sound /\ [Next]_vars => Sound'
  BY NextSound
<1>3. QED
  BY <1>1, <1>2, PTL DEF Spec

(* Every variable has its type: a runner keeps nothing between commands,   *)
(* and has its unlock and what it derived when it writes.                  *)
THEOREM TypeCorrect == Spec => []TypeOK
<1>1. Sound => TypeOK
  <2> SUFFICES ASSUME Sound PROVE TypeOK
    OBVIOUS
  <2>1. Typed /\ Promised /\ IsSnapshot(Captured)
    BY DEF Sound, Typed
  <2>2. day \in {ActivatedAt} \cup left.days
    BY <2>1 DEF Typed
  <2>3. \A i \in DOMAIN log : log[i].kind \in {"start", "record"} /\ log[i].run \in Nat \ {0}
    <3>1. log \in Seq(LogRows)
      BY <2>1 DEF IsSnapshot, Captured
    <3>2. \A i \in DOMAIN log : log[i] \in LogRows
      BY <3>1
    <3>3. QED
      BY <3>2 DEF LogRows
  <2>4. \A s \in Symbols : /\ \A c \in ToSet(claims[s]) : c.state \in StatesOf(s, c.hypothesis)
                           /\ \A o \in ToSet(outcomes[s]) : o.value \in ValuesAt(s)
    <3>1. Captured.claims = claims /\ Captured.outcomes = outcomes
      BY DEF Captured
    <3>2. \A s \in Symbols : /\ ToSet(claims[s]) \subseteq ClaimsOf(s)
                             /\ ToSet(outcomes[s]) \subseteq OutcomesOf(s)
      BY <2>1, <3>1, RowsOfSnapshot
    <3>3. QED
      BY <3>2 DEF ClaimsOf, OutcomesOf
  <2>5. torn \in BOOLEAN
    BY <2>1 DEF IsSnapshot, Captured
  <2>6. collector = None \/ collector.id \in Started(log)
    BY <2>1 DEF Typed, Running
  <2>7. \A r \in Runners : /\ pc[r] \in {"idle", "looking", "capturing"} => work[r] = Idle
                           /\ pc[r] \in {"writing", "reporting", "finishing"}
                                 => work[r].unlock # None /\ work[r].derived # None
    BY <2>1, WrittenIsNotNone DEF Promised, Kept
  <2>8. {left.crashes, left.deaths, left.reruns, left.failures, left.foreign, left.edits}
           \subseteq Nat
    BY <2>1 DEF Typed, IsLeft
  <2>9. QED
    BY <2>1, <2>2, <2>3, <2>4, <2>5, <2>6, <2>7, <2>8 DEF Typed, TypeOK
<1>2. QED
  BY <1>1, SoundThroughout, PTL

(* "A second unlock or result is never created; a run after an unlock may  *)
(* only complete that same unlock; a run after a result never replaces it":*)
(* whatever the runners, their crashes, the collector and the edits, one   *)
(* snapshot is opened, when the rows of completed runs make it due, one    *)
(* answer is derived from it, and every completed run returns that answer. *)
THEOREM OpensOnce == Spec => ImplementsOpening
<1>1. Init => Abstract!Init
  BY InitPromised
<1>2. Sound /\ [Next]_vars => [Abstract!Next]_(Abstract!vars)
  BY NextSound
<1>3. QED
  BY <1>1, <1>2, SoundThroughout, PTL DEF Spec, ImplementsOpening, Abstract!Spec

-----------------------------------------------------------------------------
(* The stop rule sees neither states nor values.                           *)

OnceIn(q) == \A i, j \in 1 .. Len(q) : q[i].key = q[j].key => i = j

(* No key stands twice in a file.                                          *)
KeyedOnce == \A s \in Symbols : OnceIn(claims[s])

(* A row with a key of its own.                                            *)
LEMMA AppendedOnce ==
    ASSUME NEW S, NEW q \in Seq(S), NEW row \in S, OnceIn(q),
           \A c \in ToSet(q) : c.key # row.key
    PROVE  OnceIn(Append(q, row))
<1>1. /\ Len(q) \in Nat /\ Len(Append(q, row)) = Len(q) + 1
      /\ \A i \in 1 .. Len(q) : Append(q, row)[i] = q[i] /\ q[i] \in ToSet(q)
      /\ Append(q, row)[Len(q) + 1] = row
  BY AppendedRow
<1>2. QED
  BY <1>1 DEF OnceIn

(* A claim is registered under a key that is not held; so is a foreign     *)
(* row; an altered row keeps its key.                                      *)
LEMMA NextKeyedOnce == Sound /\ KeyedOnce /\ [Next]_vars => KeyedOnce'
<1> SUFFICES ASSUME Sound, KeyedOnce, [Next]_vars PROVE KeyedOnce'
  OBVIOUS
<1>1. Typed /\ IsSnapshot(Captured)
  BY DEF Sound, Typed
<1>2. \A s \in Symbols : claims[s] \in Seq(ClaimsOf(s)) /\ OnceIn(claims[s])
  BY <1>1 DEF IsSnapshot, Captured, KeyedOnce
<1>3. ASSUME claims' = claims PROVE KeyedOnce'
  BY <1>3 DEF KeyedOnce
<1>4. ASSUME NEW s \in Symbols, NEW row \in ClaimsOf(s),
             \A c \in ToSet(claims[s]) : c.key # row.key,
             claims'[s] = Append(claims[s], row),
             \A t \in Symbols \ {s} : claims'[t] = claims[t]
      PROVE  KeyedOnce'
  <2>1. OnceIn(claims'[s])
    BY <1>2, <1>4, AppendedOnce
  <2>2. QED
    BY <1>2, <1>4, <2>1 DEF KeyedOnce
<1>5. CASE RegisterClaim
  <2> DEFINE key == <<Here, Producers[collector.stage], collector.tail>>
  <2>1. CASE claims' = claims
    BY <1>3, <2>1
  <2>2. CASE claims' # claims
    <3>1. Here \in Symbols /\ ~Holds(Here, key)
      BY <1>1, <1>5, <2>2, RegisterStep
    <3>2. PICK row \in ClaimsOf(Here) :
             /\ row.key = key
             /\ claims'[Here] = Append(claims[Here], row)
             /\ \A t \in Symbols \ {Here} : claims'[t] = claims[t]
      BY <1>1, <1>5, <2>2, RegisterStep
    <3>3. \A c \in ToSet(claims[Here]) : c.key # row.key
      BY <3>1, <3>2 DEF Holds
    <3>4. QED
      BY <1>4, <3>1, <3>2, <3>3
  <2>3. QED
    BY <2>1, <2>2
<1>6. ASSUME NEW s \in Symbols, ForeignRow(s) PROVE KeyedOnce'
  <2>1. PICK row \in ClaimsOf(s) :
           /\ \A c \in ToSet(claims[s]) : c.key # row.key
           /\ claims'[s] = Append(claims[s], row)
           /\ \A t \in Symbols \ {s} : claims'[t] = claims[t]
    BY <1>1, <1>6, ForeignStep
  <2>2. QED
    BY <1>4, <2>1
<1>7. ASSUME NEW s \in Symbols, EditFrozenRow(s) PROVE KeyedOnce'
  <2>1. /\ Len(claims'[s]) = Len(claims[s])
        /\ \A i \in 1 .. Len(claims[s]) : claims'[s][i].key = claims[s][i].key
        /\ \A t \in Symbols \ {s} : claims'[t] = claims[t]
    BY <1>1, <1>7, EditStep
  <2>2. OnceIn(claims'[s])
    BY <1>2, <2>1 DEF OnceIn
  <2>3. QED
    BY <2>1, <2>2 DEF KeyedOnce
<1>8. CASE UNCHANGED vars
  BY <1>3, <1>8 DEF vars, evidence
<1>9. CASE \E r \in Runners : Begin(r) \/ BeginUnbound(r) \/ Step(r) \/ Crash(r)
  <2>1. UNCHANGED evidence
    BY <1>1, <1>9, RunnerTyped
  <2>2. QED
    BY <1>3, <2>1 DEF evidence
<1>10. CASE \/ \E today \in left.days : CollectorStarts(today)
            \/ \E tail \in ActivatedAt .. day - 1 : VisitSymbol(tail) \/ VisitStale(tail)
            \/ SymbolFails \/ MeasureOutcome \/ SymbolDone \/ CollectorEnds \/ CollectorDies
            \/ EditResult \/ EditReport \/ EditUnlock
            \/ Reactivate \/ TouchCheckout \/ CleanCheckout
  <2>1. claims' = claims
    BY <1>10 DEF CollectorStarts, VisitSymbol, VisitStale, SymbolFails, MeasureOutcome,
                 SymbolDone, CollectorEnds, CollectorDies, EditResult, EditReport, EditUnlock,
                 Reactivate, TouchCheckout, CleanCheckout, evidence
  <2>2. QED
    BY <1>3, <2>1
<1>11. QED
  BY <1>5, <1>6, <1>7, <1>8, <1>9, <1>10 DEF Next, Outside

MaskedClaim(c) == [c EXCEPT !.state = "masked"]

MaskedOutcome(o) == [o EXCEPT !.value = 0]

(* The rows of a masked snapshot are its rows, masked: their keys, runs    *)
(* and bars stay.                                                          *)
LEMMA MaskedRows ==
    ASSUME NEW snapshot, IsSnapshot(snapshot),
           snapshot = [manifest |-> snapshot.manifest, log |-> snapshot.log,
                       claims |-> snapshot.claims, outcomes |-> snapshot.outcomes,
                       torn |-> snapshot.torn]
    PROVE  /\ Masked(snapshot).log = snapshot.log
           /\ Rows(Masked(snapshot).claims) = {MaskedClaim(c) : c \in Rows(snapshot.claims)}
           /\ Rows(Masked(snapshot).outcomes)
                 = {MaskedOutcome(o) : o \in Rows(snapshot.outcomes)}
           /\ \A c \in Rows(snapshot.claims) :
                 /\ MaskedClaim(c).key = c.key /\ MaskedClaim(c).symbol = c.symbol
                 /\ MaskedClaim(c).hypothesis = c.hypothesis /\ MaskedClaim(c).bar = c.bar
                 /\ MaskedClaim(c).run = c.run
           /\ \A o \in Rows(snapshot.outcomes) :
                 /\ MaskedOutcome(o).key = o.key /\ MaskedOutcome(o).claim = o.claim
                 /\ MaskedOutcome(o).horizon = o.horizon /\ MaskedOutcome(o).run = o.run
<1> DEFINE C == [s \in Symbols |-> [i \in DOMAIN snapshot.claims[s] |->
                    MaskedClaim(snapshot.claims[s][i])]]
<1> DEFINE O == [s \in Symbols |-> [i \in DOMAIN snapshot.outcomes[s] |->
                    MaskedOutcome(snapshot.outcomes[s][i])]]
<1>1. Masked(snapshot) = [snapshot EXCEPT !.claims = C, !.outcomes = O]
  BY DEF Masked, MaskedClaim, MaskedOutcome
<1> HIDE DEF C, O
<1>2. /\ Masked(snapshot).log = snapshot.log /\ Masked(snapshot).claims = C
      /\ Masked(snapshot).outcomes = O
  BY <1>1
<1>3. \A s \in Symbols : ToSet(C[s]) = {MaskedClaim(c) : c \in ToSet(snapshot.claims[s])}
  BY DEF C, ToSet
<1>4. \A s \in Symbols : ToSet(O[s]) = {MaskedOutcome(o) : o \in ToSet(snapshot.outcomes[s])}
  BY DEF O, ToSet
<1>5. Rows(C) = {MaskedClaim(c) : c \in Rows(snapshot.claims)}
  <2>1. ASSUME NEW x \in Rows(C) PROVE x \in {MaskedClaim(c) : c \in Rows(snapshot.claims)}
    <3>1. PICK s \in Symbols : x \in ToSet(C[s])
      BY DEF Rows
    <3>2. PICK c \in ToSet(snapshot.claims[s]) : x = MaskedClaim(c)
      BY <1>3, <3>1
    <3>3. c \in Rows(snapshot.claims)
      BY DEF Rows
    <3>4. QED
      BY <3>2, <3>3
  <2>2. ASSUME NEW c \in Rows(snapshot.claims) PROVE MaskedClaim(c) \in Rows(C)
    <3>1. PICK s \in Symbols : c \in ToSet(snapshot.claims[s])
      BY DEF Rows
    <3>2. MaskedClaim(c) \in ToSet(C[s])
      BY <1>3, <3>1
    <3>3. QED
      BY <3>2 DEF Rows
  <2>3. QED
    BY <2>1, <2>2
<1>6. Rows(O) = {MaskedOutcome(o) : o \in Rows(snapshot.outcomes)}
  <2>1. ASSUME NEW x \in Rows(O)
        PROVE  x \in {MaskedOutcome(o) : o \in Rows(snapshot.outcomes)}
    <3>1. PICK s \in Symbols : x \in ToSet(O[s])
      BY DEF Rows
    <3>2. PICK o \in ToSet(snapshot.outcomes[s]) : x = MaskedOutcome(o)
      BY <1>4, <3>1
    <3>3. o \in Rows(snapshot.outcomes)
      BY DEF Rows
    <3>4. QED
      BY <3>2, <3>3
  <2>2. ASSUME NEW o \in Rows(snapshot.outcomes) PROVE MaskedOutcome(o) \in Rows(O)
    <3>1. PICK s \in Symbols : o \in ToSet(snapshot.outcomes[s])
      BY DEF Rows
    <3>2. MaskedOutcome(o) \in ToSet(O[s])
      BY <1>4, <3>1
    <3>3. QED
      BY <3>2 DEF Rows
  <2>3. QED
    BY <2>1, <2>2
<1>7. ASSUME NEW c \in Rows(snapshot.claims)
      PROVE  /\ MaskedClaim(c).key = c.key /\ MaskedClaim(c).symbol = c.symbol
             /\ MaskedClaim(c).hypothesis = c.hypothesis /\ MaskedClaim(c).bar = c.bar
             /\ MaskedClaim(c).run = c.run
  <2>1. PICK s \in Symbols : c \in ClaimsOf(s)
    BY RowsOfSnapshot
  <2>2. QED
    BY <2>1 DEF ClaimsOf, MaskedClaim
<1>8. ASSUME NEW o \in Rows(snapshot.outcomes)
      PROVE  /\ MaskedOutcome(o).key = o.key /\ MaskedOutcome(o).claim = o.claim
             /\ MaskedOutcome(o).horizon = o.horizon /\ MaskedOutcome(o).run = o.run
  <2>1. PICK s \in Symbols : o \in OutcomesOf(s)
    BY RowsOfSnapshot
  <2>2. QED
    BY <2>1 DEF OutcomesOf, MaskedOutcome
<1>9. QED
  BY <1>2, <1>5, <1>6, <1>7, <1>8

(* A masking of a finite set that loses no member keeps its size.          *)
LEMMA MaskingKeepsSize ==
    ASSUME NEW S, IsFiniteSet(S),
           \A c, d \in S : MaskedClaim(c) = MaskedClaim(d) => c = d
    PROVE  Cardinality({MaskedClaim(c) : c \in S}) = Cardinality(S)
<1> DEFINE f == [c \in S |-> MaskedClaim(c)]
<1> DEFINE T == {MaskedClaim(c) : c \in S}
<1>1. f \in Surjection(S, T)
  BY DEF Surjection
<1>2. f \in Injection(S, T)
  BY DEF Injection, IsInjective
<1> HIDE DEF f, T
<1>3. Cardinality(T) = Cardinality(S)
  BY <1>1, <1>2, FS_Surjection
<1>4. QED
  BY <1>3 DEF T

(* "Never a state, reason code, price, return, sign or aggregate": the     *)
(* stop rule and the cutoffs come out the same with every state and every  *)
(* return replaced, for no key stands twice among the rows it counts.      *)
THEOREM GateIsBlind == Spec => []StopRuleIsBlind
<1>1. ASSUME Sound, KeyedOnce PROVE StopRuleIsBlind
  <2>1. IsSnapshot(Captured) /\ \A s \in Symbols : claims[s] \in Seq(ClaimsOf(s))
    BY <1>1 DEF Sound, Typed, IsSnapshot, Captured
  <2> DEFINE e == Evidence(Captured)
  <2> DEFINE b == Evidence(Masked(Captured))
  <2>2. /\ Masked(Captured).log = log
        /\ Rows(Masked(Captured).claims) = {MaskedClaim(c) : c \in Rows(claims)}
        /\ Rows(Masked(Captured).outcomes) = {MaskedOutcome(o) : o \in Rows(outcomes)}
        /\ \A c \in Rows(claims) :
              /\ MaskedClaim(c).key = c.key /\ MaskedClaim(c).symbol = c.symbol
              /\ MaskedClaim(c).hypothesis = c.hypothesis /\ MaskedClaim(c).bar = c.bar
              /\ MaskedClaim(c).run = c.run
        /\ \A o \in Rows(outcomes) :
              /\ MaskedOutcome(o).key = o.key /\ MaskedOutcome(o).claim = o.claim
              /\ MaskedOutcome(o).horizon = o.horizon /\ MaskedOutcome(o).run = o.run
    <3>1. /\ Captured.log = log /\ Captured.claims = claims /\ Captured.outcomes = outcomes
          /\ Captured = [manifest |-> Captured.manifest, log |-> Captured.log,
                         claims |-> Captured.claims, outcomes |-> Captured.outcomes,
                         torn |-> Captured.torn]
      BY DEF Captured
    <3>2. QED
      BY <2>1, <3>1, MaskedRows
  <2>3. ASSUME NEW c \in Rows(claims), NEW d \in Rows(claims), MaskedClaim(c) = MaskedClaim(d)
        PROVE  c = d
    <3>1. c.key = d.key
      BY <2>2, <2>3
    <3>2. PICK s \in Symbols : c \in ToSet(claims[s]) /\ c \in ClaimsOf(s)
      BY <2>1, RowsOfSnapshot DEF Captured
    <3>3. PICK t \in Symbols : d \in ToSet(claims[t]) /\ d \in ClaimsOf(t)
      BY <2>1, RowsOfSnapshot DEF Captured
    <3>4. c.key = <<s, c.hypothesis, c.bar>> /\ d.key = <<t, d.hypothesis, d.bar>>
      BY <3>2, <3>3 DEF ClaimsOf
    <3>5. s = t
      <4>1. <<s, c.hypothesis, c.bar>> = <<t, d.hypothesis, d.bar>>
        BY <3>1, <3>4
      <4>2. QED
        BY <4>1
    <3>6. PICK i \in 1 .. Len(claims[s]) : claims[s][i] = c
      BY <2>1, <3>2 DEF ToSet
    <3>7. PICK j \in 1 .. Len(claims[s]) : claims[s][j] = d
      BY <2>1, <3>3, <3>5 DEF ToSet
    <3>8. i = j
      BY <1>1, <3>1, <3>6, <3>7 DEF KeyedOnce, OnceIn
    <3>9. QED
      BY <3>6, <3>7, <3>8
  <2>4. ExcludedBy(Masked(Captured)) = ExcludedBy(Captured)
    <3> DEFINE dead == Started(log) \ Recorded(log)
    <3> DEFINE orphans == {c.key : c \in {d \in Rows(claims) : d.run \in dead}}
    <3> DEFINE measured == {o.key : o \in {p \in Rows(outcomes) :
                                              p.run \in dead \/ p.claim \in orphans}}
    <3>1. ExcludedBy(Captured) = orphans \cup measured
      BY DEF ExcludedBy, Captured
    <3>2. {c.key : c \in {d \in {MaskedClaim(c) : c \in Rows(claims)} : d.run \in dead}} = orphans
      BY <2>2
    <3>3. {o.key : o \in {p \in {MaskedOutcome(o) : o \in Rows(outcomes)} :
                             p.run \in dead \/ p.claim \in orphans}} = measured
      <4> HIDE DEF orphans, dead
      <4>1. QED
        BY <2>2
    <3>4. ExcludedBy(Masked(Captured))
          = {c.key : c \in {d \in {MaskedClaim(c) : c \in Rows(claims)} : d.run \in dead}}
            \cup {o.key : o \in {p \in {MaskedOutcome(o) : o \in Rows(outcomes)} :
                             p.run \in dead
                             \/ p.claim \in {c.key : c \in {d \in {MaskedClaim(c) : c \in Rows(claims)} :
                                                d.run \in dead}}}}
      BY <2>2 DEF ExcludedBy
    <3> HIDE DEF orphans, dead, measured
    <3>5. QED
      BY <3>1, <3>2, <3>3, <3>4
  <2>5. /\ e.claims = Rows(claims) /\ e.outcomes = Rows(outcomes)
        /\ b.claims = {MaskedClaim(c) : c \in Rows(claims)}
        /\ b.outcomes = {MaskedOutcome(o) : o \in Rows(outcomes)}
        /\ b.excluded = e.excluded /\ b.activated_at = e.activated_at
    BY <2>2, <2>4 DEF Evidence, Captured
  <2> HIDE DEF e, b
  <2>6. Legitimate(e) \subseteq Rows(claims)
    BY <2>5 DEF Legitimate
  <2>7. Legitimate(b) = {MaskedClaim(c) : c \in Legitimate(e)}
    BY <2>2, <2>5 DEF Legitimate
  <2>8. EvidenceThrough(b) = EvidenceThrough(e)
    <3>1. {Settles(c.bar) : c \in Legitimate(b)} = {Settles(c.bar) : c \in Legitimate(e)}
      BY <2>2, <2>6, <2>7
    <3>2. QED
      BY <3>1 DEF EvidenceThrough
  <2>9. MaturedKeys(b, PrimaryHorizon) = MaturedKeys(e, PrimaryHorizon)
    BY <2>2, <2>5 DEF MaturedKeys
  <2>10. ASSUME NEW s
         PROVE  /\ Matured(e, s) \subseteq Rows(claims)
                /\ Matured(b, s) = {MaskedClaim(c) : c \in Matured(e, s)}
    BY <2>2, <2>6, <2>7, <2>9 DEF Matured, PopulationClaims
  <2>11. ASSUME NEW s
         PROVE  /\ Cardinality(Matured(b, s)) = Cardinality(Matured(e, s))
                /\ Cutoff(b, s) = Cutoff(e, s)
    <3>1. IsFiniteSet(Rows(claims))
      BY <2>1, RowsOfSnapshot DEF Captured
    <3>2. Matured(e, s) \in SUBSET Rows(claims)
      BY <2>10
    <3>3. IsFiniteSet(Matured(e, s))
      BY <3>1, <3>2, FS_Subset
    <3>4. Cardinality({MaskedClaim(c) : c \in Matured(e, s)}) = Cardinality(Matured(e, s))
      BY <2>3, <3>2, <3>3, MaskingKeepsSize
    <3>5. {c.bar : c \in Matured(b, s)} = {c.bar : c \in Matured(e, s)}
      BY <2>2, <2>10
    <3>6. Cutoff(b, s) = Cutoff(e, s)
      BY <3>5 DEF Cutoff
    <3>7. QED
      BY <2>10, <3>4, <3>6
  <2>12. \A months : Elapsed(b, months) = Elapsed(e, months)
    BY <2>5, <2>8 DEF Elapsed
  <2>13. StopRule(b) = StopRule(e)
    <3> DEFINE enough(x) ==
          \A s \in PrimarySymbols : Cardinality(Matured(x, s)) >= MinimumMatured
    <3>1. enough(b) = enough(e)
      <4>1. enough(b) <=> enough(e)
        BY <2>11
      <4>2. enough(b) \in BOOLEAN /\ enough(e) \in BOOLEAN
        OBVIOUS
      <4> HIDE DEF enough
      <4>3. QED
        BY <4>1, <4>2
    <3>2. StopRule(b) = [through |-> EvidenceThrough(b), e1 |-> Elapsed(b, MinimumMonths),
                         e2 |-> enough(b), f |-> Elapsed(b, ForcedMonths)]
      BY DEF StopRule
    <3>3. StopRule(e) = [through |-> EvidenceThrough(e), e1 |-> Elapsed(e, MinimumMonths),
                         e2 |-> enough(e), f |-> Elapsed(e, ForcedMonths)]
      BY DEF StopRule
    <3> HIDE DEF enough
    <3>4. QED
      BY <2>8, <2>12, <3>1, <3>2, <3>3
  <2>14. [s \in Symbols |-> Cutoff(b, s)] = [s \in Symbols |-> Cutoff(e, s)]
    BY <2>11
  <2>15. /\ Gate(Captured).stop = StopRule(e) /\ Gate(Masked(Captured)).stop = StopRule(b)
         /\ Gate(Captured).cutoffs = [s \in Symbols |-> Cutoff(e, s)]
         /\ Gate(Masked(Captured)).cutoffs = [s \in Symbols |-> Cutoff(b, s)]
    BY DEF Gate, e, b
  <2>16. /\ Gate(Captured).stop = Gate(Masked(Captured)).stop
         /\ Gate(Captured).cutoffs = Gate(Masked(Captured)).cutoffs
    BY <2>13, <2>14, <2>15
  <2>17. QED
    BY <2>16 DEF StopRuleIsBlind
<1>2. Init => KeyedOnce
  BY DEF Init, Empty, KeyedOnce, OnceIn
<1>3. QED
  BY <1>1, <1>2, NextKeyedOnce, SoundThroughout, PTL DEF Spec

-----------------------------------------------------------------------------
(* Missed sessions.                                                        *)

(* What the sessions of a file are told by: all of a claim but its state.  *)
Outline(q) == {[hypothesis |-> c.hypothesis, bar |-> c.bar, run |-> c.run] : c \in ToSet(q)}

Outlines == [hypothesis : Hypotheses, bar : Nat, run : Nat]

OfRuns(rows) == \A c \in rows : c.run # Foreign

(* No producer's claim stands at a bar without the validated one's.        *)
LedByPrimary(rows) ==
    \A c \in rows : \E p \in rows : p.hypothesis = Primary /\ p.bar = c.bar

(* Whatever lies before a run's claims of the validated hypothesis is      *)
(* listed as missed, or some claim stands between.                         *)
IsTraced(rows, p, listed) ==
    \A b \in ActivatedAt .. p.bar - 1 :
        b \in listed \/ \E c \in rows : b <= c.bar /\ c.bar < p.bar

Traced(rows, id, listed) ==
    \A p \in rows : p.hypothesis = Primary /\ p.run = id => IsTraced(rows, p, listed)

(* What completed runs registered is traced by what records list.          *)
Accounted(snapshot) ==
    \A s \in Symbols :
        LET rows == Outline(snapshot.claims[s]) IN
        OfRuns(rows) =>
            /\ LedByPrimary(rows)
            /\ \A id \in Recorded(snapshot.log) :
                  Traced(rows, id, MissedIn(snapshot.log, s))

(* What is frozen accounts for its sessions, and its rows for their runs.  *)
Whole(snapshot) ==
    /\ IsSnapshot(snapshot)
    /\ Accounted(snapshot)
    /\ Provenance(snapshot) # "invalid"

Held(s) == Outline(claims[s])

(* Runs are numbered from one, and only a run that started has a record    *)
(* or rows.                                                                *)
Numbered ==
    /\ Started(log) = 1 .. Cardinality(Started(log))
    /\ Recorded(log) \subseteq Started(log)
    /\ \A s \in Symbols : \A c \in Held(s) : c.run \in Started(log) \cup {Foreign}

(* Only settled bars are claimed.                                          *)
PastBars == \A s \in Symbols : OfRuns(Held(s)) => \A c \in Held(s) : c.bar < day

Tracked == Numbered /\ PastBars /\ Accounted(Captured)

(* Before it registers the validated hypothesis' claim of a tail, the run  *)
(* has listed what lies between the tail and the last claim; then it holds *)
(* that claim.                                                             *)
Ready(rows, tail, stage, listed) ==
    OfRuns(rows) =>
        \/ \E p \in rows : p.hypothesis = Primary /\ p.bar = tail
        \/ /\ stage = 1
           /\ \A c \in rows : c.bar < tail
           /\ \A b \in ActivatedAt .. tail - 1 :
                 b \in listed \/ \E c \in rows : b <= c.bar

IsAhead(j) == j > collector.at \/ (j = collector.at /\ collector.stage = 0)

(* The run under way will account for its claims when it records itself.   *)
UnderWay ==
    /\ collector.id \notin Recorded(log)
    /\ \A s \in Symbols : OfRuns(Held(s)) => Traced(Held(s), collector.id, collector.missed[s])
    /\ \A j \in DOMAIN Universe :
          IsAhead(j) => \A c \in Held(Universe[j]) : c.run # collector.id
    /\ collector.stage # 0 =>
          Ready(Held(Universe[collector.at]), collector.tail, collector.stage,
                collector.missed[Universe[collector.at]])

(* What a runner is about to open, and what was opened, is whole.          *)
Frozen ==
    /\ \A r \in Runners : pc[r] = "opening" => Whole(work[r].unlock.recorded.snapshot)
    /\ opened # None => Whole(opened)

SessionsKept ==
    /\ Tracked
    /\ collector # None => UnderWay
    /\ Frozen

(* An outline has its type, and that of a key is known by the key.         *)
LEMMA OutlineTyped ==
    ASSUME NEW s \in Symbols, NEW q, ToSet(q) \subseteq ClaimsOf(s)
    PROVE  /\ Outline(q) \subseteq Outlines
           /\ \A c \in ToSet(q) : c.key = <<s, c.hypothesis, c.bar>>
BY DEF Outline, Outlines, ClaimsOf

LEMMA HeldTyped ==
    ASSUME Typed
    PROVE  \A s \in Symbols : /\ Held(s) \subseteq Outlines
                              /\ claims[s] \in Seq(ClaimsOf(s))
                              /\ ToSet(claims[s]) \subseteq ClaimsOf(s)
<1>1. \A s \in Symbols : claims[s] \in Seq(ClaimsOf(s))
  BY DEF Typed, IsSnapshot, Captured
<1>2. \A s \in Symbols : ToSet(claims[s]) \subseteq ClaimsOf(s)
  BY <1>1, MembersAreFinite
<1>3. QED
  BY <1>1, <1>2, OutlineTyped DEF Held

(* One more claim is one more outline.                                     *)
LEMMA HeldGrows ==
    ASSUME Typed, NEW s \in Symbols, NEW row \in ClaimsOf(s),
           claims'[s] = Append(claims[s], row)
    PROVE  Held(s)' = Held(s) \cup {[hypothesis |-> row.hypothesis, bar |-> row.bar,
                                     run |-> row.run]}
<1>1. claims[s] \in Seq(ClaimsOf(s))
  BY HeldTyped
<1>2. ToSet(claims'[s]) = ToSet(claims[s]) \cup {row}
  BY <1>1, AppendedRow
<1>3. QED
  BY <1>2 DEF Held, Outline

(* An altered row keeps its outline.                                       *)
LEMMA SameOutline ==
    ASSUME NEW S, NEW p \in Seq(S), NEW q \in Seq(S), Len(q) = Len(p),
           \A i \in 1 .. Len(p) : /\ q[i].hypothesis = p[i].hypothesis
                                  /\ q[i].bar = p[i].bar /\ q[i].run = p[i].run
    PROVE  Outline(q) = Outline(p)
<1>1. /\ ToSet(p) = {p[i] : i \in 1 .. Len(p)} /\ ToSet(q) = {q[i] : i \in 1 .. Len(p)}
  BY DEF ToSet
<1> DEFINE line(c) == [hypothesis |-> c.hypothesis, bar |-> c.bar, run |-> c.run]
<1>2. \A i \in 1 .. Len(p) : line(q[i]) = line(p[i])
  OBVIOUS
<1>3. Outline(p) = {line(p[i]) : i \in 1 .. Len(p)} /\ Outline(q) = {line(q[i]) : i \in 1 .. Len(p)}
  BY <1>1 DEF Outline
<1> HIDE DEF line
<1>4. QED
  BY <1>2, <1>3

(* More claims, none of them the run's of the validated hypothesis, and    *)
(* more listed, trace no less.                                             *)
LEMMA MoreTraced ==
    ASSUME NEW rows, NEW more, rows \subseteq more, NEW id, NEW listed, NEW longer,
           listed \subseteq longer, Traced(rows, id, listed),
           \A c \in more \ rows : ~(c.hypothesis = Primary /\ c.run = id)
    PROVE  Traced(more, id, longer)
BY DEF Traced, IsTraced

(* Where log, day and outlines stay, so does what they account for.        *)
LEMMA SameTracked ==
    ASSUME Tracked, log' = log, day' = day, \A s \in Symbols : Held(s)' = Held(s)
    PROVE  Tracked'
<1>1. Numbered'
  BY DEF Tracked, Numbered
<1>2. PastBars'
  BY DEF Tracked, PastBars
<1>3. Accounted(Captured)'
  BY DEF Tracked, Accounted, Captured, Held
<1>4. QED
  BY <1>1, <1>2, <1>3 DEF Tracked

LEMMA SameUnderWay ==
    ASSUME Typed, collector # None, UnderWay, log' = log, collector' = collector,
           \A s \in Symbols : Held(s)' = Held(s)
    PROVE  UnderWay'
<1>1. \A j \in DOMAIN Universe : Universe[j] \in Symbols
  <2>1. Universe \in Seq(Symbols)
    BY OrderAssumption
  <2>2. QED
    BY <2>1
<1>2. collector.stage # 0 => collector.at \in DOMAIN Universe
  <2>1. Universe \in Seq(Symbols)
    BY OrderAssumption
  <2>2. QED
    BY <2>1 DEF Typed, Running
<1>3. \A j : IsAhead(j)' <=> IsAhead(j)
  BY DEF IsAhead
<1>4. QED
  BY <1>1, <1>2, <1>3 DEF UnderWay

(* A run that starts has a number of its own, and claims nothing yet.      *)
LEMMA StartKeepsSessions ==
    ASSUME Typed, Tracked, NEW today \in left.days, CollectorStarts(today)
    PROVE  Tracked' /\ UnderWay'
<1>1. /\ RunId \in Nat \ {0} /\ log \in Seq(LogRows)
      /\ today \in Nat /\ day <= today /\ day' = today /\ claims' = claims
      /\ Started(log') = Started(log) \cup {RunId} /\ Recorded(log') = Recorded(log)
      /\ \A s \in Symbols : MissedIn(log', s) = MissedIn(log, s)
      /\ collector'.id = RunId /\ collector'.stage = 0
  BY StartStep
<1>2. \A s \in Symbols : Held(s)' = Held(s) /\ Held(s) \subseteq Outlines
  BY <1>1, HeldTyped DEF Held
<1> DEFINE k == Cardinality(Started(log))
<1>3. k \in Nat /\ RunId = k + 1 /\ Started(log) = 1 .. k
  BY <1>1, RunsOfLog, FS_CardinalityType DEF Tracked, Numbered, RunId
<1>4. RunId \notin Started(log) /\ RunId \notin Recorded(log) /\ RunId # Foreign
  <2>1. RunId \notin Started(log)
    <3> HIDE DEF k
    <3>1. QED
      BY <1>3
  <2>2. QED
    BY <1>1, <2>1 DEF Tracked, Numbered, Foreign
<1>5. \A s \in Symbols : \A c \in Held(s) : c.run # RunId
  BY <1>4 DEF Tracked, Numbered
<1>6. Numbered'
  <2>1. Started(log') = 1 .. k + 1
    <3> HIDE DEF k
    <3>1. QED
      BY <1>1, <1>3
  <2>2. Cardinality(Started(log')) = k + 1
    <3>1. IsFiniteSet(Started(log))
      BY <1>1, RunsOfLog
    <3>2. Cardinality(Started(log) \cup {RunId}) = IF RunId \in Started(log) THEN k ELSE k + 1
      BY <3>1, FS_AddElement
    <3>3. QED
      BY <1>1, <1>4, <3>2
  <2>3. Recorded(log') \subseteq Started(log')
    BY <1>1 DEF Tracked, Numbered
  <2>4. \A s \in Symbols : \A c \in Held(s)' : c.run \in Started(log') \cup {Foreign}
    BY <1>1, <1>2 DEF Tracked, Numbered
  <2>5. QED
    BY <2>1, <2>2, <2>3, <2>4 DEF Numbered
<1>7. PastBars'
  <2>1. ASSUME NEW s \in Symbols, OfRuns(Held(s)), NEW c \in Held(s) PROVE c.bar < day'
    <3>1. c.bar \in Nat /\ day \in Nat /\ c.bar < day
      BY <1>2, <2>1 DEF Outlines, Tracked, PastBars, Typed
    <3>2. QED
      BY <1>1, <3>1
  <2>2. QED
    BY <1>2, <2>1 DEF PastBars
<1>8. Accounted(Captured)'
  BY <1>1 DEF Tracked, Accounted, Captured
<1>9. UnderWay'
  <2>1. \A s \in Symbols : OfRuns(Held(s)') => Traced(Held(s)', RunId, collector'.missed[s])
    BY <1>2, <1>5 DEF Traced
  <2>2. \A j \in DOMAIN Universe : \A c \in Held(Universe[j])' : c.run # RunId
    <3>1. \A j \in DOMAIN Universe : Universe[j] \in Symbols
      <4>1. Universe \in Seq(Symbols)
        BY OrderAssumption
      <4>2. QED
        BY <4>1
    <3>2. QED
      BY <1>2, <1>5, <3>1
  <2>3. QED
    BY <1>1, <1>4, <2>1, <2>2 DEF UnderWay
<1>10. QED
  BY <1>6, <1>7, <1>8, <1>9 DEF Tracked

(* The places of the universe: each is a symbol, and each symbol has one.  *)
LEMMA Places ==
    /\ DOMAIN Universe \subseteq Nat
    /\ \A j \in DOMAIN Universe : Universe[j] \in Symbols
    /\ \A i, j \in DOMAIN Universe : Universe[i] = Universe[j] => i = j
<1>1. Universe \in Seq(Symbols) /\ IsInjective(Universe)
  BY OrderAssumption
<1>2. DOMAIN Universe = 1 .. Len(Universe) /\ Len(Universe) \in Nat
      /\ \A i \in 1 .. Len(Universe) : Universe[i] \in Symbols
  BY <1>1
<1>3. QED
  BY <1>1, <1>2 DEF IsInjective

(* A visit lists what lies between the tail and the last claim, before     *)
(* anything of it is registered.                                           *)
LEMMA VisitKeepsSessions ==
    ASSUME Typed, Tracked, UnderWay, NEW tail \in ActivatedAt .. day - 1,
           VisitSymbol(tail) \/ VisitStale(tail)
    PROVE  Tracked' /\ UnderWay'
<1>1. /\ Running /\ collector.at \in DOMAIN Universe
      /\ Here = Universe[collector.at] /\ Here \in Symbols
      /\ collector.stage = 0 /\ tail \in Nat /\ tail < day
      /\ collector'.id = collector.id
      /\ collector'.missed = [collector.missed EXCEPT ![Here] = MissedTails(Here, tail)]
      /\ day' = day /\ log' = log /\ claims' = claims
  BY VisitStep
<1>2. \A s \in Symbols : Held(s)' = Held(s) /\ Held(s) \subseteq Outlines
  BY <1>1, HeldTyped DEF Held
<1>3. Tracked'
  BY <1>1, <1>2, SameTracked
<1>4. \A c \in Held(Here) : c.run # collector.id
  BY <1>1 DEF UnderWay, IsAhead
<1>5. /\ collector'.missed[Here] = MissedTails(Here, tail)
      /\ \A s \in Symbols \ {Here} : collector'.missed[s] = collector.missed[s]
  <2>1. collector.missed \in [Symbols -> SUBSET Nat]
    BY <1>1 DEF Running
  <2>2. QED
    BY <1>1, <2>1
<1>6. ASSUME NEW s \in Symbols, OfRuns(Held(s))
      PROVE  Traced(Held(s), collector.id, collector'.missed[s])
  <2>1. CASE s = Here
    BY <1>4, <2>1 DEF Traced
  <2>2. CASE s # Here
    BY <1>5, <1>6, <2>2 DEF UnderWay
  <2>3. QED
    BY <2>1, <2>2
<1>7. ASSUME NEW j \in DOMAIN Universe, IsAhead(j)'
      PROVE  \A c \in Held(Universe[j]) : c.run # collector.id
  <2>1. collector'.at \in {collector.at, collector.at + 1} /\ collector.at \in Nat /\ j \in Nat
        /\ (collector'.at = collector.at => collector'.stage = 1)
    <3>1. collector.at \in Nat /\ j \in Nat
      BY <1>1, Places
    <3>2. \/ collector'.at = collector.at /\ collector'.stage = 1
          \/ collector'.at = collector.at + 1
      BY VisitStep
    <3>3. QED
      BY <3>1, <3>2
  <2>2. j > collector.at
    BY <1>7, <2>1 DEF IsAhead
  <2>3. QED
    BY <2>2 DEF UnderWay, IsAhead
<1>8. ASSUME collector'.stage # 0
      PROVE  /\ collector'.at = collector.at /\ collector'.tail = tail /\ collector'.stage = 1
             /\ Ready(Held(Here), tail, 1, collector'.missed[Here])
  <2>1. ~VisitStale(tail)
    BY <1>8, VisitStep
  <2>2. VisitSymbol(tail)
    BY <2>1
  <2>3. collector'.at = collector.at /\ collector'.tail = tail /\ collector'.stage = 1
    BY <2>2, VisitStep
  <2>4. CASE HoldsAll(Here, tail)
    <3>1. Holds(Here, <<Here, Primary, tail>>)
      BY <2>4, Definition DEF HoldsAll
    <3>2. PICK c \in ToSet(claims[Here]) : c.key = <<Here, Primary, tail>>
      BY <3>1 DEF Holds
    <3>3. c.key = <<Here, c.hypothesis, c.bar>>
      BY <1>1, HeldTyped, OutlineTyped
    <3>4. c.hypothesis = Primary /\ c.bar = tail
      BY <3>2, <3>3
    <3> DEFINE p == [hypothesis |-> c.hypothesis, bar |-> c.bar, run |-> c.run]
    <3>5. p \in Held(Here) /\ p.hypothesis = Primary /\ p.bar = tail
      BY <3>4 DEF Held, Outline
    <3> HIDE DEF p
    <3>6. QED
      BY <2>3, <3>5 DEF Ready
  <2>5. CASE tail = day - 1
    <3> SUFFICES ASSUME OfRuns(Held(Here)),
                        \A p \in Held(Here) : ~(p.hypothesis = Primary /\ p.bar = tail)
                 PROVE  /\ \A c \in Held(Here) : c.bar < tail
                        /\ \A b \in ActivatedAt .. tail - 1 :
                              b \in collector'.missed[Here] \/ \E c \in Held(Here) : b <= c.bar
      BY <2>3 DEF Ready
    <3>1. ASSUME NEW c \in Held(Here) PROVE c.bar < tail
      <4>1. c.bar \in Nat /\ c.bar < day /\ day \in Nat
        BY <1>1, <1>2 DEF Outlines, Tracked, PastBars, Typed
      <4>2. c.bar # tail
        <5>1. LedByPrimary(Held(Here))
          BY <1>1 DEF Tracked, Accounted, Captured, Held
        <5>2. QED
          BY <5>1 DEF LedByPrimary
      <4>3. QED
        BY <2>5, <4>1, <4>2
    <3>2. ASSUME NEW b \in ActivatedAt .. tail - 1, \A c \in Held(Here) : ~(b <= c.bar)
          PROVE  b \in collector'.missed[Here]
      <4>1. ASSUME NEW c \in ToSet(claims[Here]) PROVE b > c.bar
        <5> DEFINE p == [hypothesis |-> c.hypothesis, bar |-> c.bar, run |-> c.run]
        <5>1. p \in Held(Here) /\ p.bar = c.bar
          BY DEF Held, Outline
        <5> HIDE DEF p
        <5>2. ~(b <= c.bar) /\ c.bar \in Nat
          BY <1>1, <1>2, <3>2, <5>1 DEF Outlines
        <5>3. b \in Int
          BY <1>1
        <5>4. QED
          BY <5>2, <5>3
      <4>2. QED
        BY <1>5, <4>1 DEF MissedTails
    <3>3. QED
      BY <3>1, <3>2
  <2>6. QED
    BY <2>2, <2>3, <2>4, <2>5 DEF VisitSymbol, IsCurrent
<1>9. UnderWay'
  <2>1. collector'.id \notin Recorded(log')
    BY <1>1 DEF UnderWay
  <2>2. \A s \in Symbols :
           OfRuns(Held(s)') => Traced(Held(s)', collector'.id, collector'.missed[s])
    BY <1>1, <1>2, <1>6
  <2>3. \A j \in DOMAIN Universe :
           IsAhead(j)' => \A c \in Held(Universe[j])' : c.run # collector'.id
    BY <1>1, <1>2, <1>7, Places
  <2>4. collector'.stage # 0 =>
           Ready(Outline(claims'[Universe[collector'.at]]), collector'.tail, collector'.stage,
                 collector'.missed[Universe[collector'.at]])
    <3> SUFFICES ASSUME collector'.stage # 0
                 PROVE  Ready(Outline(claims'[Universe[collector'.at]]), collector'.tail,
                              collector'.stage, collector'.missed[Universe[collector'.at]])
      OBVIOUS
    <3>1. /\ Universe[collector'.at] = Here /\ collector'.tail = tail /\ collector'.stage = 1
          /\ Ready(Held(Here), tail, 1, collector'.missed[Here])
      BY <1>1, <1>8
    <3>2. Outline(claims'[Universe[collector'.at]]) = Held(Here)
      BY <1>1, <3>1 DEF Held
    <3>3. QED
      BY <3>1, <3>2
  <2>5. UnderWay'
    <3>1. \A s : Held(s)' = Outline(claims'[s])
      BY DEF Held
    <3>2. (Held(Universe[collector.at]))' = Outline(claims'[Universe[collector'.at]])
      BY DEF Held
    <3>3. QED
      BY <2>1, <2>2, <2>3, <2>4, <3>2 DEF UnderWay
  <2>6. QED
    BY <2>5
<1>10. QED
  BY <1>3, <1>9

(* A symbol that is left behind keeps its list.                            *)
LEMMA LeaveKeepsSessions ==
    ASSUME Typed, Tracked, UnderWay, SymbolFails \/ SymbolDone
    PROVE  Tracked' /\ UnderWay'
<1>1. /\ Running /\ collector.at \in Nat
      /\ collector'.id = collector.id /\ collector'.missed = collector.missed
      /\ collector'.at = collector.at + 1 /\ collector'.stage = 0
      /\ day' = day /\ log' = log /\ claims' = claims
  BY LeaveStep
<1>2. \A s \in Symbols : Held(s)' = Held(s)
  BY <1>1 DEF Held
<1>3. Tracked'
  BY <1>1, <1>2, SameTracked
<1>4. ASSUME NEW j \in DOMAIN Universe, IsAhead(j)' PROVE IsAhead(j)
  <2>1. j \in Nat
    BY Places
  <2>2. QED
    BY <1>1, <1>4, <2>1 DEF IsAhead
<1>5. \A j \in DOMAIN Universe :
         IsAhead(j)' => \A c \in Held(Universe[j])' : c.run # collector'.id
  BY <1>1, <1>2, <1>4, Places DEF UnderWay
<1>6. QED
  BY <1>1, <1>2, <1>3, <1>5 DEF UnderWay

(* The validated hypothesis' claim of a tail is registered first, after    *)
(* what was missed before it is listed; the others find it there.          *)
LEMMA RegisterKeepsSessions ==
    ASSUME Typed, Tracked, collector # None, UnderWay, RegisterClaim
    PROVE  Tracked' /\ UnderWay'
<1> DEFINE h == Producers[collector.stage]
<1> DEFINE tail == collector.tail
<1>1. /\ Running /\ collector.at \in DOMAIN Universe
      /\ Here = Universe[collector.at] /\ Here \in Symbols
      /\ collector.stage \in Nat \ {0} /\ tail \in Nat /\ tail < day
      /\ collector'.id = collector.id /\ collector'.missed = collector.missed
      /\ collector'.at = collector.at /\ collector'.stage = collector.stage + 1
      /\ collector'.tail = tail /\ day' = day /\ log' = log
  BY RegisterStep
<1>2. \A s \in Symbols : Held(s) \subseteq Outlines
  BY HeldTyped
<1>3. Ready(Held(Here), tail, collector.stage, collector.missed[Here])
  BY <1>1 DEF UnderWay
<1>4. /\ Numbered /\ collector.id \in Started(log) /\ collector.id \notin Recorded(log)
      /\ collector.id # Foreign
  <2>1. log \in Seq(LogRows)
    BY DEF Typed, IsSnapshot, Captured
  <2>2. collector.id \in Started(log) /\ collector.id # Foreign
    BY <1>1, <2>1, RunsOfLog DEF Running, Foreign
  <2>3. QED
    BY <2>2 DEF Tracked, UnderWay
<1>5. \/ /\ \E p \in Held(Here) : p.hypothesis = h /\ p.bar = tail
         /\ \A s \in Symbols : Held(s)' = Held(s)
      \/ /\ \A p \in Held(Here) : ~(p.hypothesis = h /\ p.bar = tail)
         /\ Held(Here)' = Held(Here) \cup {[hypothesis |-> h, bar |-> tail, run |-> collector.id]}
         /\ \A s \in Symbols \ {Here} : Held(s)' = Held(s)
  <2>1. \A c \in ToSet(claims[Here]) : c.key = <<Here, c.hypothesis, c.bar>>
    BY <1>1, HeldTyped, OutlineTyped
  <2>2. CASE Holds(Here, <<Here, h, tail>>) /\ claims' = claims
    <3>1. PICK c \in ToSet(claims[Here]) : c.key = <<Here, h, tail>>
      BY <2>2 DEF Holds
    <3>2. c.hypothesis = h /\ c.bar = tail
      <4>1. <<Here, c.hypothesis, c.bar>> = <<Here, h, tail>>
        BY <2>1, <3>1
      <4> HIDE DEF h, tail
      <4>2. QED
        BY <4>1
    <3> DEFINE p == [hypothesis |-> c.hypothesis, bar |-> c.bar, run |-> c.run]
    <3>3. p \in Held(Here) /\ p.hypothesis = h /\ p.bar = tail
      BY <3>2 DEF Held, Outline
    <3> HIDE DEF p, h, tail
    <3>4. \A s \in Symbols : Held(s)' = Held(s)
      BY <2>2 DEF Held
    <3>5. QED
      BY <3>3, <3>4
  <2>3. CASE ~Holds(Here, <<Here, h, tail>>)
    <3>1. ASSUME NEW p \in Held(Here), p.hypothesis = h, p.bar = tail PROVE FALSE
      <4>1. PICK c \in ToSet(claims[Here]) : p.hypothesis = c.hypothesis /\ p.bar = c.bar
        BY DEF Held, Outline
      <4>2. c.key = <<Here, h, tail>>
        BY <2>1, <3>1, <4>1
      <4>3. QED
        BY <2>3, <4>2 DEF Holds
    <3>2. PICK row \in ClaimsOf(Here) :
             /\ row.hypothesis = h /\ row.bar = tail /\ row.run = collector.id
             /\ claims'[Here] = Append(claims[Here], row)
             /\ \A t \in Symbols \ {Here} : claims'[t] = claims[t]
      BY <2>3, RegisterStep
    <3> HIDE DEF h, tail
    <3>3. Held(Here)' = Held(Here) \cup {[hypothesis |-> h, bar |-> tail, run |-> collector.id]}
      <4>1. PICK s \in Symbols : s = Here
        BY <1>1
      <4>2. Held(s)' = Held(s) \cup {[hypothesis |-> row.hypothesis, bar |-> row.bar,
                                      run |-> row.run]}
        BY <3>2, <4>1, HeldGrows
      <4>3. Here' = Here
        BY <1>1 DEF Here
      <4>4. QED
        BY <3>2, <4>1, <4>2, <4>3
    <3>4. \A s \in Symbols \ {Here} : Held(s)' = Held(s)
      BY <3>2 DEF Held
    <3>5. QED
      BY <3>1, <3>3, <3>4
  <2>4. QED
    BY <2>2, <2>3, RegisterStep
<1>6. Held(Here)' = Outline(claims'[Here]) /\ Here' = Here
  BY <1>1 DEF Held, Here
<1>7. ASSUME NEW s \in Symbols, Held(s)' # Held(s)
      PROVE  /\ s = Here
             /\ Held(s)' = Held(s) \cup {[hypothesis |-> h, bar |-> tail, run |-> collector.id]}
             /\ \A p \in Held(s) : ~(p.hypothesis = h /\ p.bar = tail)
  <2> HIDE DEF h, tail
  <2>1. s = Here
    BY <1>5, <1>7
  <2>2. Held(s)' = Held(Here)'
    BY <1>6, <2>1 DEF Held
  <2>3. QED
    BY <1>5, <1>7, <2>1, <2>2
<1> DEFINE new == [hypothesis |-> h, bar |-> tail, run |-> collector.id]
<1> HIDE DEF h, tail
<1>8. new.hypothesis = h /\ new.bar = tail /\ new.run = collector.id
  OBVIOUS
<1> HIDE DEF new
<1>9. ASSUME NEW s \in Symbols
      PROVE  \/ Held(s)' = Held(s)
             \/ /\ s = Here /\ Held(s)' = Held(s) \cup {new}
                /\ \A p \in Held(s) : ~(p.hypothesis = h /\ p.bar = tail)
  BY <1>7 DEF new
<1>10. ASSUME NEW s \in Symbols, OfRuns(Held(s)')
       PROVE  /\ OfRuns(Held(s)) /\ Held(s) \subseteq Held(s)'
              /\ LedByPrimary(Held(s)) /\ \A c \in Held(s) : c.bar < day
              /\ \A id \in Recorded(log) : Traced(Held(s), id, MissedIn(log, s))
              /\ Traced(Held(s), collector.id, collector.missed[s])
  <2>1. OfRuns(Held(s)) /\ Held(s) \subseteq Held(s)'
    BY <1>9, <1>10 DEF OfRuns
  <2>2. QED
    BY <2>1 DEF Tracked, PastBars, Accounted, Captured, Held, UnderWay
<1>11. collector.stage = 1 => h = Primary
  BY OrderAssumption DEF h
<1>12. Tracked'
  <2>1. Numbered'
    <3>1. \A s \in Symbols : \A c \in Held(s)' : c.run \in Started(log) \cup {Foreign}
      BY <1>4, <1>8, <1>9 DEF Numbered
    <3>2. QED
      BY <1>1, <1>4, <3>1 DEF Numbered
  <2>2. PastBars'
    <3>1. ASSUME NEW s \in Symbols, OfRuns(Held(s)'), NEW c \in Held(s)' PROVE c.bar < day
      BY <1>1, <1>8, <1>9, <1>10, <3>1
    <3>2. QED
      BY <1>1, <3>1 DEF PastBars
  <2>3. ASSUME NEW s \in Symbols, OfRuns(Held(s)')
        PROVE  /\ LedByPrimary(Held(s)')
               /\ \A id \in Recorded(log) : Traced(Held(s)', id, MissedIn(log, s))
    <3>1. CASE Held(s)' = Held(s)
      BY <1>10, <2>3, <3>1
    <3>2. CASE s = Here /\ Held(s)' = Held(s) \cup {new}
      <4>1. LedByPrimary(Held(s)')
        <5>1. \E p \in Held(s)' : p.hypothesis = Primary /\ p.bar = tail
          <6>1. CASE \E p \in Held(s) : p.hypothesis = Primary /\ p.bar = tail
            BY <3>2, <6>1
          <6>2. CASE collector.stage = 1
            BY <1>8, <1>11, <3>2, <6>2
          <6>3. QED
            BY <1>3, <1>10, <2>3, <3>2, <6>1, <6>2 DEF Ready, tail
        <5>2. LedByPrimary(Held(s))
          BY <1>10, <2>3
        <5>3. QED
          BY <1>8, <3>2, <5>1, <5>2 DEF LedByPrimary
      <4>2. ASSUME NEW id \in Recorded(log) PROVE Traced(Held(s)', id, MissedIn(log, s))
        <5>1. Traced(Held(s), id, MissedIn(log, s)) /\ Held(s) \subseteq Held(s)'
          BY <1>10, <2>3
        <5>2. \A c \in Held(s)' \ Held(s) : c.run # id
          BY <1>4, <1>8, <3>2
        <5> DEFINE rows == Held(s)
        <5> DEFINE more == Outline(claims'[s])
        <5>3. /\ rows \subseteq more /\ Traced(rows, id, MissedIn(log, s))
              /\ \A c \in more \ rows : ~(c.hypothesis = Primary /\ c.run = id)
          BY <5>1, <5>2 DEF Held
        <5> HIDE DEF rows, more
        <5>4. Traced(more, id, MissedIn(log, s))
          BY <5>3, MoreTraced
        <5>5. QED
          BY <5>4 DEF more, Held
      <4>3. QED
        BY <4>1, <4>2
    <3>3. QED
      BY <1>9, <3>1, <3>2
  <2>4. Accounted(Captured)'
    BY <1>1, <2>3 DEF Accounted, Captured, Held
  <2>5. QED
    BY <2>1, <2>2, <2>4 DEF Tracked
<1>13. ASSUME NEW s \in Symbols, OfRuns(Held(s)')
       PROVE  Traced(Held(s)', collector.id, collector.missed[s])
  <2>1. CASE Held(s)' = Held(s)
    BY <1>10, <1>13, <2>1
  <2>2. CASE s = Here /\ Held(s)' = Held(s) \cup {new}
             /\ \A p \in Held(s) : ~(p.hypothesis = h /\ p.bar = tail)
    <3>1. ASSUME NEW p \in Held(s)', p.hypothesis = Primary, p.run = collector.id
          PROVE  IsTraced(Held(s)', p, collector.missed[s])
      <4>1. CASE p \in Held(s)
        <5>1. IsTraced(Held(s), p, collector.missed[s])
          BY <1>10, <1>13, <3>1, <4>1 DEF Traced
        <5>2. QED
          BY <2>2, <5>1 DEF IsTraced
      <4>2. CASE p = new
        <5>1. h = Primary /\ p.bar = tail
          BY <1>8, <3>1, <4>2
        <5>2. /\ \A c \in Held(s) : c.bar < tail
              /\ \A b \in ActivatedAt .. tail - 1 :
                    b \in collector.missed[s] \/ \E c \in Held(s) : b <= c.bar
          BY <1>3, <1>10, <1>13, <2>2, <5>1 DEF Ready, tail
        <5>3. QED
          BY <2>2, <5>1, <5>2 DEF IsTraced
      <4>3. QED
        BY <2>2, <3>1, <4>1, <4>2
    <3>2. QED
      BY <3>1 DEF Traced
  <2>3. QED
    BY <1>9, <2>1, <2>2
<1>14. ASSUME NEW j \in DOMAIN Universe, IsAhead(j)'
       PROVE  \A c \in Held(Universe[j])' : c.run # collector.id
  <2>1. j \in Nat /\ collector.at \in Nat /\ collector.stage + 1 # 0
    BY <1>1, Places
  <2>2. j > collector.at
    BY <1>1, <1>14, <2>1 DEF IsAhead
  <2>3. Universe[j] \in Symbols /\ Universe[j] # Here
    BY <1>1, <2>1, <2>2, Places
  <2>4. Held(Universe[j])' = Held(Universe[j])
    BY <1>9, <2>3
  <2>5. QED
    BY <2>2, <2>4 DEF UnderWay, IsAhead
<1>15. Ready(Held(Here)', tail, collector'.stage, collector'.missed[Here])
  <2>1. ASSUME OfRuns(Held(Here)')
        PROVE  \E p \in Held(Here)' : p.hypothesis = Primary /\ p.bar = tail
    <3>1. PICK s \in Symbols : s = Here
      BY <1>1
    <3>2. Held(s)' = Held(Here)'
      BY <1>6, <3>1 DEF Held
    <3>3. OfRuns(Held(s)') /\ OfRuns(Held(s)) /\ Held(s) \subseteq Held(s)'
      BY <1>10, <2>1, <3>2
    <3>4. CASE \E p \in Held(s) : p.hypothesis = Primary /\ p.bar = tail
      BY <3>2, <3>3, <3>4
    <3>5. CASE collector.stage = 1
      <4>1. h = Primary
        BY <1>11, <3>5
      <4>2. CASE Held(s)' = Held(s)
        <5>1. \E p \in Held(Here) : p.hypothesis = h /\ p.bar = tail
          <6>1. Held(Here)' = Held(Here)
            BY <3>1, <3>2, <4>2
          <6>2. CASE \E p \in Held(Here) : p.hypothesis = h /\ p.bar = tail
            BY <6>2
          <6>3. CASE Held(Here)' = Held(Here) \cup {new}
            BY <1>8, <6>1, <6>3
          <6>4. QED
            BY <1>5, <6>2, <6>3 DEF new
        <5>2. QED
          BY <3>1, <3>2, <4>1, <4>2, <5>1
      <4>3. CASE Held(s)' = Held(s) \cup {new}
        BY <1>8, <3>2, <4>1, <4>3
      <4>4. QED
        BY <1>9, <4>2, <4>3
    <3>6. QED
      BY <1>3, <3>1, <3>3, <3>4, <3>5 DEF Ready, tail
  <2>2. QED
    BY <2>1 DEF Ready
<1>16. UnderWay'
  <2>1. collector'.id \notin Recorded(log')
    BY <1>1, <1>4
  <2>2. \A s \in Symbols :
           OfRuns(Held(s)') => Traced(Held(s)', collector'.id, collector'.missed[s])
    BY <1>1, <1>13
  <2>3. \A j \in DOMAIN Universe :
           IsAhead(j)' => \A c \in Held(Universe[j])' : c.run # collector'.id
    BY <1>1, <1>14
  <2>4. Ready(Held(Universe[collector.at])', collector'.tail, collector'.stage,
              collector'.missed[Universe[collector'.at]])
    <3>1. Held(Universe[collector.at])' = Outline(claims'[Universe[collector'.at]])
      BY DEF Held
    <3>2. Universe[collector'.at] = Here /\ collector'.tail = tail
      BY <1>1 DEF tail
    <3>3. QED
      BY <1>6, <1>15, <3>1, <3>2
  <2>5. QED
    BY <2>1, <2>2, <2>3, <2>4 DEF UnderWay
<1>17. QED
  BY <1>12, <1>16


(* A record lists what the run found missed: what the run accounts for is  *)
(* accounted for.                                                          *)
LEMMA EndKeepsSessions ==
    ASSUME Typed, Tracked, collector # None, UnderWay, CollectorEnds
    PROVE  Tracked'
<1> DEFINE entry == [kind |-> "record", run |-> collector.id, missed |-> collector.missed]
<1>1. Running /\ log \in Seq(LogRows) /\ collector.id \in Started(log)
  BY DEF Typed, IsSnapshot, Captured, Running
<1>2. entry \in LogRows /\ entry.kind = "record" /\ entry.run = collector.id
      /\ entry.missed = collector.missed
  <2>1. collector.id \in Nat \ {0} /\ collector.missed \in [Symbols -> SUBSET Nat]
    BY <1>1, RunsOfLog DEF Running
  <2>2. QED
    BY <2>1 DEF LogRows
<1>3. log' = Append(log, entry) /\ claims' = claims /\ day' = day
  BY DEF CollectorEnds
<1> HIDE DEF entry
<1>4. /\ Started(log') = Started(log) /\ Recorded(log') = Recorded(log) \cup {collector.id}
      /\ \A s \in Symbols : MissedIn(log', s) = MissedIn(log, s) \cup collector.missed[s]
  BY <1>1, <1>2, <1>3, LogGrows
<1>5. \A s \in Symbols : Held(s)' = Held(s)
  BY <1>3 DEF Held
<1>6. Numbered'
  BY <1>1, <1>4, <1>5 DEF Tracked, Numbered
<1>7. PastBars'
  BY <1>3, <1>5 DEF Tracked, PastBars
<1>8. ASSUME NEW s \in Symbols, OfRuns(Held(s)), NEW id \in Recorded(log')
      PROVE  Traced(Held(s), id, MissedIn(log', s))
  <2>1. CASE id \in Recorded(log)
    <3>1. Traced(Held(s), id, MissedIn(log, s))
      BY <1>8, <2>1 DEF Tracked, Accounted, Captured, Held
    <3>2. QED
      BY <1>4, <3>1 DEF Traced, IsTraced
  <2>2. CASE id = collector.id
    <3>1. Traced(Held(s), id, collector.missed[s])
      BY <1>8, <2>2 DEF UnderWay
    <3>2. QED
      BY <1>4, <3>1 DEF Traced, IsTraced
  <2>3. QED
    BY <1>4, <1>8, <2>1, <2>2
<1>9. \A s \in Symbols : OfRuns(Held(s)) => LedByPrimary(Held(s))
  BY DEF Tracked, Accounted, Captured, Held
<1>10. Accounted(Captured)'
  BY <1>3, <1>8, <1>9 DEF Accounted, Captured, Held
<1>11. QED
  BY <1>6, <1>7, <1>10 DEF Tracked

(* A foreign row leaves nothing to account for in its file, for the gate   *)
(* will not open it, and the other files as they are.                      *)
LEMMA ForeignKeepsSessions ==
    ASSUME Typed, Tracked, NEW s \in Symbols, ForeignRow(s)
    PROVE  Tracked' /\ (collector # None /\ UnderWay => UnderWay')
<1>1. PICK row \in ClaimsOf(s) :
         /\ row.run = Foreign
         /\ claims'[s] = Append(claims[s], row)
         /\ \A t \in Symbols \ {s} : claims'[t] = claims[t]
  BY ForeignStep
<1> DEFINE new == [hypothesis |-> row.hypothesis, bar |-> row.bar, run |-> row.run]
<1>2. Held(s)' = Held(s) \cup {new} /\ new.run = Foreign
  BY <1>1, HeldGrows
<1> HIDE DEF new
<1>3. \A t \in Symbols \ {s} : Held(t)' = Held(t)
  BY <1>1 DEF Held
<1>4. log' = log /\ day' = day /\ collector' = collector
  BY DEF ForeignRow
<1>5. ASSUME NEW t \in Symbols, OfRuns(Held(t)') PROVE t # s
  BY <1>2, <1>5 DEF OfRuns
<1>6. Tracked'
  <2>1. Numbered'
    BY <1>2, <1>3, <1>4 DEF Tracked, Numbered
  <2>2. PastBars'
    BY <1>3, <1>4, <1>5 DEF Tracked, PastBars
  <2>3. ASSUME NEW t \in Symbols, OfRuns(Held(t)')
        PROVE  /\ LedByPrimary(Held(t)')
               /\ \A id \in Recorded(log) : Traced(Held(t)', id, MissedIn(log, t))
    <3>1. Held(t)' = Held(t) /\ OfRuns(Held(t))
      BY <1>3, <1>5, <2>3
    <3>2. QED
      BY <3>1 DEF Tracked, Accounted, Captured, Held
  <2>4. Accounted(Captured)'
    BY <1>4, <2>3 DEF Accounted, Captured, Held
  <2>5. QED
    BY <2>1, <2>2, <2>4 DEF Tracked
<1>7. ASSUME collector # None, UnderWay PROVE UnderWay'
  <2>1. Running /\ collector.id # Foreign
    <3>1. Running /\ log \in Seq(LogRows)
      BY <1>7 DEF Typed, IsSnapshot, Captured
    <3>2. QED
      BY <3>1, RunsOfLog DEF Running, Foreign
  <2>2. \A t \in Symbols :
           OfRuns(Held(t)') => Traced(Held(t)', collector.id, collector.missed[t])
    BY <1>3, <1>5, <1>7 DEF UnderWay
  <2>3. \A j \in DOMAIN Universe :
           IsAhead(j) => \A c \in Held(Universe[j])' : c.run # collector.id
    <3>1. ASSUME NEW j \in DOMAIN Universe, IsAhead(j), NEW c \in Outline(claims'[Universe[j]])
          PROVE  c.run # collector.id
      <4>1. PICK t \in Symbols : t = Universe[j]
        BY Places
      <4>2. c \in Held(t)' /\ \A d \in Held(t) : d.run # collector.id
        BY <1>7, <3>1, <4>1 DEF UnderWay, Held
      <4>3. QED
        BY <1>2, <1>3, <2>1, <4>2
    <3>2. \A j \in DOMAIN Universe : Held(Universe[j])' = Outline(claims'[Universe[j]])
      BY DEF Held
    <3>3. QED
      BY <3>1, <3>2
  <2>4. collector.stage # 0 =>
           Ready(Held(Universe[collector.at])', collector.tail, collector.stage,
                 collector.missed[Universe[collector.at]])
    <3>1. ASSUME collector.stage # 0
          PROVE  Ready(Outline(claims'[Universe[collector.at]]), collector.tail, collector.stage,
                       collector.missed[Universe[collector.at]])
      <4>1. collector.at \in DOMAIN Universe
        <5>1. Universe \in Seq(Symbols)
          BY OrderAssumption
        <5>2. QED
          BY <2>1, <3>1, <5>1 DEF Running
      <4>2. PICK t \in Symbols : t = Universe[collector.at]
        BY <4>1, Places
      <4>3. Ready(Held(t), collector.tail, collector.stage, collector.missed[t])
        BY <1>7, <3>1, <4>2 DEF UnderWay
      <4>4. Held(t)' = Outline(claims'[t])
        BY DEF Held
      <4>5. Ready(Held(t)', collector.tail, collector.stage, collector.missed[t])
        BY <1>3, <1>5, <4>3 DEF Ready
      <4>6. QED
        BY <4>2, <4>4, <4>5
    <3>2. Held(Universe[collector.at])' = Outline(claims'[Universe[collector'.at]])
      BY DEF Held
    <3>3. QED
      BY <1>4, <3>1, <3>2
  <2>5. QED
    BY <1>4, <1>7, <2>2, <2>3, <2>4 DEF UnderWay, IsAhead
<1>8. QED
  BY <1>6, <1>7

(* A snapshot that passes the gate is whole.                               *)
LEMMA FrozenIsWhole ==
    ASSUME Tracked, IsSnapshot(Captured), IsUnlockable(Gate(Captured))
    PROVE  Whole(Captured)
<1>1. Gate(Captured).validity = "ok"
  BY DEF IsUnlockable
<1>2. Provenance(Captured) # "invalid"
  BY <1>1 DEF Gate
<1>3. QED
  BY <1>2 DEF Tracked, Whole

(* Where evidence stays and a runner opens nothing but what it froze, the  *)
(* sessions stay accounted for.                                            *)
LEMMA RunnerKeepsSessions ==
    ASSUME Sound, SessionsKept, NEW r \in Runners,
           Begin(r) \/ BeginUnbound(r) \/ Step(r) \/ Crash(r)
    PROVE  SessionsKept'
<1>1. Typed /\ Promised /\ IsSnapshot(Captured) /\ IsWork(work) /\ pc \in [Runners -> Labels]
  BY DEF Sound, Typed, IsWork
<1>2. /\ UNCHANGED <<evidence, inputs>>
      /\ \A q \in Runners \ {r} : pc'[q] = pc[q] /\ work'[q] = work[q]
  BY <1>1, RunnerTyped
<1>3. log' = log /\ day' = day /\ collector' = collector /\ \A s \in Symbols : Held(s)' = Held(s)
  BY <1>2 DEF evidence, Held
<1>4. Tracked' /\ (collector' # None => UnderWay')
  BY <1>1, <1>3, SameTracked, SameUnderWay DEF SessionsKept
<1>5. ASSUME pc'[r] = "opening" => Whole(work'[r].unlock.recorded.snapshot), opened' = opened
      PROVE  SessionsKept'
  <2>1. \A q \in Runners : pc'[q] = "opening" => Whole(work'[q].unlock.recorded.snapshot)
    BY <1>2, <1>5 DEF SessionsKept, Frozen
  <2>2. opened' # None => Whole(opened')
    BY <1>5 DEF SessionsKept, Frozen
  <2>3. QED
    BY <1>4, <2>1, <2>2 DEF SessionsKept, Frozen
<1>6. CASE Capture(r)
  <2> DEFINE payload == UnlockPayload(r, Captured)
  <2>1. /\ IsUnlockable(Gate(Captured)) /\ opened' = opened
        /\ work' = [work EXCEPT ![r].unlock = payload]
    BY <1>6 DEF Capture, CanCapture, history
  <2>2. Whole(Captured)
    BY <1>1, <2>1, FrozenIsWhole DEF SessionsKept
  <2>3. payload.recorded.snapshot = Captured
    BY DEF UnlockPayload, Deterministic
  <2> HIDE DEF payload
  <2>4. work'[r].unlock = payload
    BY <1>1, <2>1, Working
  <2>5. Whole(work'[r].unlock.recorded.snapshot)
    BY <2>2, <2>3, <2>4
  <2>6. QED
    BY <1>5, <2>1, <2>5
<1>7. CASE Open(r)
  <2>1. /\ pc[r] = "opening" /\ work' = work
        /\ opened' = work[r].unlock.recorded.snapshot
    BY <1>7 DEF Open
  <2>2. pc'[r] = "deriving"
    BY <1>1, <1>7 DEF Open, Goto
  <2>3. Whole(opened')
    BY <2>1 DEF SessionsKept, Frozen
  <2>4. \A q \in Runners : pc'[q] = "opening" => Whole(work'[q].unlock.recorded.snapshot)
    BY <1>2, <2>2 DEF SessionsKept, Frozen
  <2>5. QED
    BY <1>4, <2>3, <2>4 DEF SessionsKept, Frozen
<1>8. CASE ~(Capture(r) \/ Open(r))
  <2>1. opened' = opened
    BY <1>8 DEF Begin, BeginUnbound, Step, Crash, ReadNamedUnlock, ReadOtherUnlock, ReadUnlock,
                Reopen, ReopenRefused, CaptureRefused, OpenRefused, Derive, WriteResult,
                WriteRaises, WriteReport, FinishReport, ReportDiffers, Refuse, Complete, history
  <2>2. pc'[r] # "opening"
    <3>1. PICK l \in Labels \ {"opening"} : pc' = [pc EXCEPT ![r] = l]
      BY <1>8 DEF Begin, BeginUnbound, Step, Crash, ReadNamedUnlock, ReadOtherUnlock, ReadUnlock,
                  Reopen, ReopenRefused, CaptureRefused, OpenRefused, Derive, WriteResult,
                  WriteRaises, WriteReport, FinishReport, ReportDiffers, Refuse, Complete, End,
                  Goto, Labels
    <3>2. QED
      BY <1>1, <3>1
  <2>3. QED
    BY <1>5, <2>1, <2>2
<1>9. QED
  BY <1>6, <1>7, <1>8

(* Whatever happens outside, the sessions stay accounted for.              *)
LEMMA OutsideKeepsSessions ==
    ASSUME Sound, SessionsKept, Outside
    PROVE  SessionsKept'
<1>1. Typed /\ Tracked /\ (collector # None => UnderWay)
  BY DEF Sound, SessionsKept
<1>2. Frozen'
  <2>1. pc' = pc /\ work' = work
    BY <1>1, OutsideTyped DEF runner
  <2>2. opened' = opened
    BY DEF Outside, CollectorStarts, VisitSymbol, VisitStale, SymbolFails, RegisterClaim,
           MeasureOutcome, SymbolDone, CollectorEnds, CollectorDies, ForeignRow, EditFrozenRow,
           EditResult, EditReport, EditUnlock, Reactivate, TouchCheckout, CleanCheckout, history
  <2>3. QED
    BY <2>1, <2>2 DEF SessionsKept, Frozen
<1>3. ASSUME log' = log, day' = day, collector' \in {collector, None},
             \A s \in Symbols : Held(s)' = Held(s)
      PROVE  Tracked' /\ (collector' # None => UnderWay')
  BY <1>1, <1>3, SameTracked, SameUnderWay
<1>4. ASSUME NEW today \in left.days, CollectorStarts(today) PROVE Tracked' /\ UnderWay'
  BY <1>1, <1>4, StartKeepsSessions
<1>5. ASSUME NEW tail \in ActivatedAt .. day - 1, VisitSymbol(tail) \/ VisitStale(tail)
      PROVE  Tracked' /\ UnderWay'
  BY <1>1, <1>5, VisitKeepsSessions DEF VisitSymbol, VisitStale, IsVisiting
<1>6. CASE SymbolFails \/ SymbolDone
  BY <1>1, <1>2, <1>6, LeaveKeepsSessions
     DEF SessionsKept, SymbolFails, SymbolDone, IsMeasuring, IsVisiting
<1>7. CASE RegisterClaim
  BY <1>1, <1>2, <1>7, RegisterKeepsSessions
     DEF SessionsKept, RegisterClaim, IsRegistering, IsVisiting
<1>8. CASE CollectorEnds
  <2>1. Tracked' /\ collector' = None
    BY <1>1, <1>8, EndKeepsSessions DEF CollectorEnds
  <2>2. QED
    BY <1>2, <2>1 DEF SessionsKept
<1>9. ASSUME NEW s \in Symbols, ForeignRow(s) PROVE SessionsKept'
  <2>1. collector' = collector
    BY <1>9 DEF ForeignRow
  <2>2. QED
    BY <1>1, <1>2, <1>9, <2>1, ForeignKeepsSessions DEF SessionsKept
<1>10. ASSUME NEW s \in Symbols, EditFrozenRow(s) PROVE SessionsKept'
  <2>1. /\ claims[s] \in Seq(ClaimsOf(s)) /\ claims'[s] \in Seq(ClaimsOf(s))
        /\ Len(claims'[s]) = Len(claims[s])
        /\ \A i \in 1 .. Len(claims[s]) : /\ claims'[s][i].hypothesis = claims[s][i].hypothesis
                                          /\ claims'[s][i].bar = claims[s][i].bar
                                          /\ claims'[s][i].run = claims[s][i].run
        /\ \A t \in Symbols \ {s} : claims'[t] = claims[t]
    BY <1>1, <1>10, EditStep, HeldTyped
  <2>2. Outline(claims'[s]) = Outline(claims[s])
    BY <2>1, SameOutline
  <2>3. \A t \in Symbols : Held(t)' = Held(t)
    BY <2>1, <2>2 DEF Held
  <2>4. log' = log /\ day' = day /\ collector' = collector
    BY <1>10 DEF EditFrozenRow
  <2>5. QED
    BY <1>2, <1>3, <2>3, <2>4 DEF SessionsKept
<1>11. CASE \/ MeasureOutcome \/ CollectorDies
            \/ EditResult \/ EditReport \/ EditUnlock
            \/ Reactivate \/ TouchCheckout \/ CleanCheckout
  <2>1. /\ log' = log /\ day' = day /\ claims' = claims /\ collector' \in {collector, None}
    BY <1>11 DEF MeasureOutcome, CollectorDies, EditResult, EditReport, EditUnlock, Reactivate,
                 TouchCheckout, CleanCheckout, evidence
  <2>2. \A s \in Symbols : Held(s)' = Held(s)
    BY <2>1 DEF Held
  <2>3. QED
    BY <1>2, <1>3, <2>1, <2>2 DEF SessionsKept
<1>12. QED
  BY <1>2, <1>4, <1>5, <1>6, <1>7, <1>8, <1>9, <1>10, <1>11 DEF Outside, SessionsKept

(* In whole evidence, two members of an episode stand on consecutive days, *)
(* unless a later producer's stands beside a dead run's first claim.       *)
LEMMA WholeSplits ==
    ASSUME NEW snapshot, Whole(snapshot), NEW s \in Symbols, NEW h \in Hypotheses,
           NEW n \in Horizons,
           NEW i \in 1 .. Len(Positions(Evidence(snapshot), s)) - 1,
           SessionSequence(Evidence(snapshot), s, h, n)[i + 1].matured
    PROVE  LET e == Evidence(snapshot)
               bars == Positions(e, s)
           IN  \/ bars[i + 1] = bars[i] + 1
               \/ h # Primary /\ <<s, Primary, bars[i + 1]>> \in e.excluded
<1> DEFINE e == Evidence(snapshot)
<1> DEFINE B == {b \in Registered(e, s) \cup e.missed[s] :
                    ~IsReserved(b, e.activated_at) /\ b <= Cutoff(e, s)}
<1> DEFINE bars == Positions(e, s)
<1>1. IsSnapshot(snapshot) /\ Provenance(snapshot) # "invalid"
  BY DEF Whole
<1>2. /\ e.claims = Rows(snapshot.claims) /\ e.excluded = ExcludedBy(snapshot)
      /\ e.missed[s] = MissedIn(snapshot.log, s)
      /\ e.activated_at = ActivatedAt /\ ActivatedAt \in Nat
  BY Definition DEF Evidence
<1>3. bars = Ascending(B)
  BY DEF Positions
<1> HIDE DEF e
<1> DEFINE rows == Outline(snapshot.claims[s])
<1>4. Registered(e, s) = {c.bar : c \in rows} /\ rows \subseteq Outlines
  <2>1. ASSUME NEW c \in Rows(snapshot.claims)
        PROVE  c.symbol = s <=> c \in ToSet(snapshot.claims[s])
    <3>1. PICK t \in Symbols : c \in ToSet(snapshot.claims[t]) /\ c \in ClaimsOf(t)
      BY <1>1, RowsOfSnapshot
    <3>2. c.symbol = t
      BY <3>1 DEF ClaimsOf
    <3>3. ASSUME c \in ToSet(snapshot.claims[s]) PROVE c.symbol = s
      <4>1. c \in ClaimsOf(s)
        BY <1>1, <3>3, RowsOfSnapshot
      <4>2. QED
        BY <4>1 DEF ClaimsOf
    <3>4. QED
      BY <3>1, <3>2, <3>3
  <2>2. ToSet(snapshot.claims[s]) \subseteq Rows(snapshot.claims)
    BY DEF Rows
  <2>3. {d \in Rows(snapshot.claims) : d.symbol = s} = ToSet(snapshot.claims[s])
    BY <2>1, <2>2
  <2>4. Registered(e, s) = {c.bar : c \in ToSet(snapshot.claims[s])}
    BY <1>2, <2>3 DEF Registered
  <2>5. {c.bar : c \in rows} = {c.bar : c \in ToSet(snapshot.claims[s])}
    <3> DEFINE line(c) == [hypothesis |-> c.hypothesis, bar |-> c.bar, run |-> c.run]
    <3>1. \A c : line(c).bar = c.bar
      OBVIOUS
    <3>2. rows = {line(c) : c \in ToSet(snapshot.claims[s])}
      BY DEF Outline
    <3> HIDE DEF line, rows
    <3>3. QED
      BY <3>1, <3>2
  <2>6. ToSet(snapshot.claims[s]) \subseteq ClaimsOf(s)
    BY <1>1, RowsOfSnapshot
  <2>7. QED
    BY <2>4, <2>5, <2>6, OutlineTyped
<1> HIDE DEF rows
<1>5. e.missed[s] \subseteq Nat
  <2>1. \A j \in DOMAIN snapshot.log : snapshot.log[j] \in LogRows
    BY <1>1 DEF IsSnapshot
  <2>2. \A j \in DOMAIN snapshot.log :
           snapshot.log[j].kind = "record" => snapshot.log[j].missed[s] \subseteq Nat
    BY <2>1 DEF LogRows
  <2>3. QED
    BY <1>2, <2>2 DEF MissedIn
<1>6. Cutoff(e, s) \in Int
  <2>1. Matured(e, s) \in SUBSET Rows(snapshot.claims)
    BY <1>2 DEF Matured, PopulationClaims, Legitimate
  <2>2. {c.bar : c \in Matured(e, s)} \subseteq Int /\ IsFiniteSet({c.bar : c \in Matured(e, s)})
    BY <1>1, <2>1, BarsAreFinite
  <2> DEFINE M == {c.bar : c \in Matured(e, s)}
  <2>3. M \subseteq Int /\ IsFiniteSet(M)
    BY <2>2
  <2> HIDE DEF M
  <2>4. Largest(M) \in Int
    <3>1. CASE M = {}
      BY <2>3, <3>1, LargestIsLargest DEF Null
    <3>2. CASE M # {}
      BY <2>3, <3>2, LargestIsLargest
    <3>3. QED
      BY <3>1, <3>2
  <2>5. QED
    BY <2>4 DEF M, Cutoff
<1>7. B \subseteq Nat /\ \A b \in B : b <= Cutoff(e, s)
  BY <1>4, <1>5 DEF Outlines
<1>8. B \subseteq Int /\ IsFiniteSet(B)
  <2> HIDE DEF B
  <2>1. CASE B = {}
    BY <2>1, FS_EmptySet
  <2>2. CASE B # {}
    <3>1. Cutoff(e, s) \in Nat
      <4>1. PICK x \in B : TRUE
        BY <2>2
      <4>2. x \in Nat /\ x <= Cutoff(e, s)
        BY <1>7
      <4>3. QED
        BY <1>6, <4>2
    <3>2. IsFiniteSet(B)
      BY <1>7, <3>1, FS_BoundedSetOfNaturals
    <3>3. QED
      BY <1>7, <3>2
  <2>3. QED
    BY <2>1, <2>2
<1>9. /\ Len(bars) \in Nat /\ DOMAIN bars = 1 .. Len(bars)
      /\ \A j \in 1 .. Len(bars) : bars[j] \in B
      /\ \A j, k \in 1 .. Len(bars) : j < k => bars[j] < bars[k]
      /\ \A j \in 1 .. Len(bars) - 1 : \A b \in B : ~(bars[j] < b /\ b < bars[j + 1])
  <2> HIDE DEF B, bars
  <2>1. QED
    BY <1>3, <1>8, AscendingIsOrdered
<1>10. i \in 1 .. Len(bars) - 1 /\ i \in 1 .. Len(bars) /\ i + 1 \in 1 .. Len(bars)
  <2>1. i \in 1 .. Len(bars) - 1
    BY DEF e
  <2> HIDE DEF bars
  <2>2. QED
    BY <1>9, <2>1
<1>11. PICK c \in PopulationClaims(e, s, h) : c.bar = bars[i + 1]
  <2> DEFINE found == {c \in PopulationClaims(e, s, h) : c.bar = bars[i + 1]}
  <2>1. SessionSequence(e, s, h, n)[i + 1] = PositionOf(e, s, h, n, bars[i + 1])
    BY <1>9, <1>10 DEF SessionSequence, SequenceOver
  <2>2. PositionOf(e, s, h, n, bars[i + 1]).matured
    BY <2>1 DEF e
  <2>3. found # {}
    <3>1. ASSUME found = {} PROVE FALSE
      <4>1. PositionOf(e, s, h, n, bars[i + 1]) = NoPosition
        BY <3>1 DEF PositionOf
      <4>2. QED
        BY <2>2, <4>1 DEF NoPosition
    <3>2. QED
      BY <3>1
  <2>4. QED
    BY <2>3
<1>12. /\ c \in ToSet(snapshot.claims[s]) /\ c.hypothesis = h /\ c.bar \in Nat
       /\ c.key = <<s, h, bars[i + 1]>> /\ c.key \notin e.excluded
  <2>1. c \in Rows(snapshot.claims) /\ c.key \notin e.excluded /\ c.symbol = s
        /\ c.hypothesis = h
    BY <1>2 DEF PopulationClaims, Legitimate
  <2>2. PICK t \in Symbols : c \in ToSet(snapshot.claims[t]) /\ c \in ClaimsOf(t)
    BY <1>1, <2>1, RowsOfSnapshot
  <2>3. t = s /\ c.bar \in Nat /\ c.key = <<t, c.hypothesis, c.bar>>
    BY <2>1, <2>2 DEF ClaimsOf
  <2>4. QED
    BY <1>11, <2>1, <2>2, <2>3
<1>13. OfRuns(rows)
  <2>1. ASSUME NEW d \in ToSet(snapshot.claims[s]) PROVE d.run # Foreign
    <3>1. d \in Rows(snapshot.claims)
      BY DEF Rows
    <3>2. d.run \in Started(snapshot.log)
      BY <1>1, <3>1 DEF Provenance
    <3>3. QED
      BY <1>1, <3>2, RunsOfLog DEF IsSnapshot, Foreign
  <2>2. QED
    BY <2>1 DEF rows, OfRuns, Outline
<1>14. /\ LedByPrimary(rows)
       /\ \A id \in Recorded(snapshot.log) : Traced(rows, id, MissedIn(snapshot.log, s))
  BY <1>13 DEF Whole, Accounted, rows
<1>15. /\ bars[i] \in Nat /\ bars[i + 1] \in Nat /\ bars[i] < bars[i + 1]
       /\ bars[i] \in B /\ bars[i + 1] \in B
  <2>1. bars[i] \in B /\ bars[i + 1] \in B
    BY <1>9, <1>10
  <2>2. i < i + 1
    BY <1>10
  <2> HIDE DEF B, bars
  <2>3. QED
    BY <1>7, <1>9, <1>10, <2>1, <2>2
<1>16. ASSUME bars[i + 1] # bars[i] + 1,
              ~(h # Primary /\ <<s, Primary, bars[i + 1]>> \in e.excluded)
       PROVE  FALSE
  <2>1. PICK p \in ToSet(snapshot.claims[s]) : p.hypothesis = Primary /\ p.bar = bars[i + 1]
    <3>1. \E q \in rows : q.bar = bars[i + 1]
      <4> DEFINE q == [hypothesis |-> c.hypothesis, bar |-> c.bar, run |-> c.run]
      <4>1. q \in rows /\ q.bar = c.bar
        BY <1>12 DEF rows, Outline
      <4> HIDE DEF q
      <4>2. QED
        BY <1>11, <4>1
    <3>2. PICK q \in rows : q.hypothesis = Primary /\ q.bar = bars[i + 1]
      BY <1>14, <3>1 DEF LedByPrimary
    <3>3. QED
      BY <3>2 DEF rows, Outline
  <2>2. p.run \in Recorded(snapshot.log)
    <3>1. p.key = <<s, Primary, bars[i + 1]>>
      <4>1. p \in ClaimsOf(s)
        BY <1>1, RowsOfSnapshot
      <4>2. QED
        BY <2>1, <4>1 DEF ClaimsOf
    <3>2. p.key \notin ExcludedBy(snapshot)
      BY <1>2, <1>12, <1>16, <3>1
    <3>3. p \in Rows(snapshot.claims)
      BY DEF Rows
    <3>4. QED
      BY <1>1, <3>2, <3>3, CountedIsRecorded
  <2> DEFINE line == [hypothesis |-> p.hypothesis, bar |-> p.bar, run |-> p.run]
  <2>3. /\ line \in rows /\ line.hypothesis = Primary /\ line.bar = bars[i + 1]
        /\ line.run \in Recorded(snapshot.log)
    BY <2>1, <2>2 DEF rows, Outline
  <2> HIDE DEF line
  <2>4. IsTraced(rows, line, MissedIn(snapshot.log, s))
    BY <1>14, <2>3 DEF Traced
  <2>5. ~IsReserved(bars[i], ActivatedAt) /\ bars[i + 1] <= Cutoff(e, s)
    BY <1>2, <1>15
  <2> HIDE DEF bars
  <2>6. bars[i] >= ActivatedAt
    BY <1>2, <1>15, <2>5 DEF IsReserved, Settles
  <2> DEFINE b == bars[i] + 1
  <2>7. b \in ActivatedAt .. line.bar - 1 /\ bars[i] < b /\ b < bars[i + 1] /\ b \in Nat
    BY <1>2, <1>15, <1>16, <2>3, <2>6
  <2> HIDE DEF b
  <2>8. PICK x \in Registered(e, s) \cup e.missed[s] : b <= x /\ x < bars[i + 1] /\ x \in Nat
    <3>1. CASE b \in MissedIn(snapshot.log, s)
      BY <1>2, <2>7, <3>1
    <3>2. CASE \E d \in rows : b <= d.bar /\ d.bar < line.bar
      BY <1>4, <2>3, <3>2 DEF Outlines
    <3>3. QED
      BY <2>4, <2>7, <3>1, <3>2 DEF IsTraced
  <2>9. bars[i] < x
    BY <1>15, <2>7, <2>8
  <2>10. x <= Cutoff(e, s)
    BY <1>6, <1>15, <2>5, <2>8
  <2>11. ~IsReserved(x, ActivatedAt)
    BY <1>2, <1>15, <2>6, <2>9, <2>8 DEF IsReserved, Settles
  <2>12. x \in B
    BY <1>2, <2>8, <2>10, <2>11
  <2>13. QED
    BY <1>9, <1>10, <2>8, <2>9, <2>12
<1>17. QED
  BY <1>16 DEF e

(* However the collector dies, is run again on the same day, finds a       *)
(* symbol failing or lagging, and beside whatever foreign rows: in what is *)
(* opened, a session that was missed, or whose run or whose record was     *)
(* lost, splits the episodes of the validated hypothesis.  Its claim is    *)
(* registered before the others of its bar and after what was missed is    *)
(* listed, so that a lost list leaves a claimed bar for a position.  A     *)
(* hypothesis registered later is as safe unless that claim is excluded.   *)
THEOREM EpisodesAreUnbroken == Spec => []MissedSessionsSplitEpisodes
<1>1. Init => SessionsKept
  <2> SUFFICES ASSUME Init PROVE SessionsKept
    OBVIOUS
  <2>1. /\ log = <<>> /\ collector = None /\ opened = None
        /\ \A s \in Symbols : claims[s] = <<>>
        /\ \A r \in Runners : pc[r] = "idle"
    BY DEF Init, Empty
  <2>2. Started(log) = {} /\ Recorded(log) = {}
    BY <2>1 DEF Started, Recorded
  <2>3. 1 .. Cardinality(Started(log)) = {}
    <3>1. Cardinality(Started(log)) = 0
      BY <2>2, FS_EmptySet
    <3>2. QED
      BY <3>1
  <2>4. \A s \in Symbols : Outline(claims[s]) = {}
    BY <2>1 DEF ToSet, Outline
  <2>5. Numbered
    BY <2>2, <2>3, <2>4 DEF Numbered, Held
  <2>6. PastBars
    BY <2>4 DEF PastBars, Held
  <2>7. Accounted(Captured)
    BY <2>2, <2>4 DEF Accounted, Captured, LedByPrimary
  <2>8. Frozen
    BY <2>1 DEF Frozen
  <2>9. QED
    BY <2>1, <2>5, <2>6, <2>7, <2>8 DEF SessionsKept, Tracked
<1>2. ASSUME Sound, SessionsKept, [Next]_vars PROVE SessionsKept'
  <2>1. CASE UNCHANGED vars
    <3>1. /\ log' = log /\ day' = day /\ collector' = collector /\ claims' = claims
          /\ pc' = pc /\ work' = work /\ opened' = opened
      BY <2>1 DEF vars, evidence, runner, history
    <3>2. \A s \in Symbols : Held(s)' = Held(s)
      BY <3>1 DEF Held
    <3>3. Tracked' /\ (collector' # None => UnderWay')
      BY <1>2, <3>1, <3>2, SameTracked, SameUnderWay DEF Sound, SessionsKept
    <3>4. QED
      BY <1>2, <3>1, <3>3 DEF SessionsKept, Frozen
  <2>2. CASE Next
    BY <1>2, <2>2, RunnerKeepsSessions, OutsideKeepsSessions DEF Next
  <2>3. QED
    BY <1>2, <2>1, <2>2
<1>3. SessionsKept => MissedSessionsSplitEpisodes
  <2> SUFFICES ASSUME SessionsKept, opened # None,
                      NEW s \in Symbols, NEW h \in Hypotheses, NEW n \in Horizons,
                      NEW i \in 1 .. Len(Positions(Evidence(opened), s)) - 1,
                      SessionSequence(Evidence(opened), s, h, n)[i + 1].matured
               PROVE  LET e == Evidence(opened)
                          bars == Positions(e, s)
                      IN  \/ bars[i + 1] = bars[i] + 1
                          \/ h # Primary /\ <<s, Primary, bars[i + 1]>> \in e.excluded
    BY DEF MissedSessionsSplitEpisodes
  <2>1. Whole(opened)
    BY DEF SessionsKept, Frozen
  <2>2. QED
    BY <2>1, WholeSplits
<1>4. QED
  BY <1>1, <1>2, <1>3, SoundThroughout, PTL DEF Spec
=============================================================================
