------------------------ MODULE DashboardSessionProofs ------------------------
(***************************************************************************)
(* Proofs about DashboardSession: what stands on the screen belongs        *)
(* together, a published scan is whole, and the paper portfolio keeps      *)
(* its limits, in every session, however often its script is abandoned.    *)
(***************************************************************************)
EXTENDS DashboardSession, CommonProofs

-----------------------------------------------------------------------------
(* The portfolio.                                                          *)

IsSequence(s) == \E S : s \in Seq(S)

IsPosition(position) ==
    /\ position = [id |-> position.id, symbol |-> position.symbol,
                   notional |-> position.notional,
                   openedAt |-> position.openedAt, closedAt |-> position.closedAt]
    /\ position.notional \in Nat
    /\ position.openedAt \in Nat

IsBook(book) ==
    /\ IsSequence(book.positions)
    /\ IsSequence(book.processed)
    /\ \A i \in DOMAIN book.positions : IsPosition(book.positions[i])

ActedOnce(book) ==
    /\ IsInjective(book.processed)
    /\ \A i, j \in DOMAIN book.positions :
            book.positions[i].id = book.positions[j].id => i = j
    /\ Len(book.processed) =
            Len(book.positions)
            + Cardinality(DOMAIN book.positions \ OpenIndices(book))

WithinLimits(book) ==
    /\ TotalOpenNotional(book) <= MaxTotalNotional
    /\ Cardinality(OpenIndices(book)) <= MaxOpenPositions
    /\ \A i \in OpenIndices(book) :
            book.positions[i].notional <= MaxNotionalPerPosition
    /\ AllowDuplicateSymbol
       \/ \A i, j \in OpenIndices(book) :
            book.positions[i].symbol = book.positions[j].symbol => i = j

(* The inductive invariant.                                                *)
SoundBook(book) == IsBook(book) /\ ActedOnce(book) /\ WithinLimits(book)

LEMMA BookIsFinite ==
    ASSUME NEW book, IsBook(book)
    PROVE  /\ Len(book.positions) \in Nat
           /\ DOMAIN book.positions = 1 .. Len(book.positions)
           /\ IsFiniteSet(DOMAIN book.positions)
           /\ OpenIndices(book) \subseteq DOMAIN book.positions
           /\ IsFiniteSet(OpenIndices(book))
           /\ Cardinality(OpenIndices(book)) \in Nat
<1>1. PICK S : book.positions \in Seq(S)
  BY DEF IsBook, IsSequence
<1>2. Len(book.positions) \in Nat /\ DOMAIN book.positions = 1 .. Len(book.positions)
  BY <1>1
<1>3. IsFiniteSet(DOMAIN book.positions)
  BY <1>2, FS_Interval
<1>4. OpenIndices(book) \subseteq DOMAIN book.positions
  BY DEF OpenIndices
<1>5. QED
  BY <1>2, <1>3, <1>4, FS_Subset, FS_CardinalityType

Notionals(book) == [i \in DOMAIN book.positions |-> book.positions[i].notional]

(* The exposure is the sum of the open notionals.                          *)
LEMMA TotalIsSum ==
    ASSUME NEW book, IsBook(book)
    PROVE  TotalOpenNotional(book) = TotalOf(Notionals(book), OpenIndices(book))
<1> DEFINE open == OpenIndices(book)
           Exposure(s, rest) ==
               IF s = {} THEN 0 ELSE book.positions[Chosen(s)].notional + rest[s \ {Chosen(s)}]
           Weighed(s, rest) ==
               IF s = {} THEN 0 ELSE Notionals(book)[Chosen(s)] + rest[s \ {Chosen(s)}]
           IsExposure(f) == f = [s \in SUBSET open |-> Exposure(s, f)]
<1>1. IsFiniteSet(open) /\ open \subseteq DOMAIN book.positions
  BY BookIsFinite
<1>2. ASSUME NEW f, NEW s \in SUBSET open
      PROVE  Exposure(s, f) = Weighed(s, f)
  <2>1. s # {} => Chosen(s) \in s
    BY Zenon DEF Chosen
  <2>2. s # {} => Notionals(book)[Chosen(s)] = book.positions[Chosen(s)].notional
    BY <1>1, <2>1 DEF Notionals
  <2>3. QED
    BY <2>2
<1>3. TotalOpenNotional(book) = (CHOOSE f : IsExposure(f))[open]
  BY Zenon DEF TotalOpenNotional, MapThenFoldSet, Chosen
<1>4. \A f : IsTotal(Notionals(book), open, f) <=> f = [s \in SUBSET open |-> Weighed(s, f)]
  BY Zenon DEF IsTotal
<1> HIDE DEF Exposure, Weighed
<1>5. \A f : IsExposure(f) <=> IsTotal(Notionals(book), open, f)
  <2>1. ASSUME NEW f
        PROVE  [s \in SUBSET open |-> Exposure(s, f)] = [s \in SUBSET open |-> Weighed(s, f)]
    BY <1>2
  <2>2. QED
    BY <1>4, <2>1, Zenon
<1> HIDE DEF IsExposure
<1>6. \E f : IsExposure(f)
  BY <1>1, <1>5, TotalExists
<1>7. PICK f : f = (CHOOSE g : IsExposure(g)) /\ IsExposure(f)
  BY <1>6, Zenon
<1>8. TotalOf(Notionals(book), open) = f[open]
  BY <1>1, <1>5, <1>7, TotalIsUnique
<1>9. QED
  BY <1>3, <1>7, <1>8

LEMMA NotionalsAreNatural ==
    ASSUME NEW book, IsBook(book)
    PROVE  /\ AreNatural(Notionals(book), OpenIndices(book))
           /\ \A i \in DOMAIN book.positions : Notionals(book)[i] = book.positions[i].notional
BY DEF IsBook, IsPosition, OpenIndices, AreNatural, Notionals

LEMMA TotalIsNatural ==
    ASSUME NEW book, IsBook(book)
    PROVE  TotalOpenNotional(book) \in Nat
<1> DEFINE open == OpenIndices(book)
<1>1. IsFiniteSet(open) /\ AreNatural(Notionals(book), open)
  BY BookIsFinite, NotionalsAreNatural
<1>2. PICK f : IsTotal(Notionals(book), open, f)
  BY <1>1, TotalExists
<1>3. open \in SUBSET open
  OBVIOUS
<1>4. f[open] \in Nat
  BY <1>1, <1>2, <1>3, TotalType
<1>5. QED
  BY <1>1, <1>2, <1>4, TotalIsSum, TotalIsUnique

(* An intent that was not applied before is recorded once.                 *)
LEMMA RecordsIntent ==
    ASSUME NEW book, IsBook(book), IsInjective(book.processed), NEW intent,
           ~IsReplay(book, intent)
    PROVE  /\ IsSequence(Append(book.processed, intent))
           /\ IsInjective(Append(book.processed, intent))
           /\ Len(Append(book.processed, intent)) = Len(book.processed) + 1
           /\ Len(book.processed) \in Nat
<1>1. PICK S : book.processed \in Seq(S)
  BY DEF IsBook, IsSequence
<1>2. book.processed \in Seq(S \cup {intent})
  BY <1>1
<1>3. Append(book.processed, intent) \in Seq(S \cup {intent})
  BY <1>2
<1> DEFINE n == Len(book.processed)
           new == Append(book.processed, intent)
<1>4. /\ n \in Nat /\ DOMAIN book.processed = 1 .. n
      /\ DOMAIN new = 1 .. n + 1 /\ Len(new) = n + 1
      /\ \A i \in 1 .. n : new[i] = book.processed[i]
      /\ new[n + 1] = intent
  BY <1>2
<1>5. \A i \in 1 .. n : new[i] # intent
  BY <1>4 DEF IsReplay, Range
<1>6. IsInjective(new)
  <2>1. SUFFICES ASSUME NEW i \in 1 .. n + 1, NEW j \in 1 .. n + 1, new[i] = new[j]
                 PROVE  i = j
    BY <1>4 DEF IsInjective
  <2>2. CASE i \in 1 .. n /\ j \in 1 .. n
    BY <1>4, <2>1, <2>2 DEF IsInjective
  <2>3. CASE i = n + 1 \/ j = n + 1
    BY <1>4, <1>5, <2>1, <2>3
  <2>4. QED
    BY <1>4, <2>2, <2>3
<1>7. QED
  BY <1>3, <1>4, <1>6 DEF IsSequence

(* An opening that the policy approves keeps the limits.                   *)
LEMMA OpenedIsSound ==
    ASSUME NEW book, SoundBook(book), NEW intent, NEW position, NEW symbol,
           NEW notional \in Nat, NEW moment \in Nat,
           ~RefusesOpen(book, intent, position), EvaluateOpen(book, symbol, notional) = {},
           NEW next, next = WithOpened(book, intent, position, symbol, notional, moment)
    PROVE  /\ SoundBook(next)
           /\ \A i \in DOMAIN book.positions :
                  i \in DOMAIN next.positions /\ next.positions[i] = book.positions[i]
<1> DEFINE n == Len(book.positions)
           new == [id |-> position, symbol |-> symbol, notional |-> notional,
                   openedAt |-> moment, closedAt |-> NotYet]
           open == OpenIndices(book)
<1>1. /\ IsBook(book) /\ ActedOnce(book) /\ WithinLimits(book)
      /\ ~IsReplay(book, intent) /\ Indices(book, position) = {}
  BY DEF SoundBook, RefusesOpen
<1>2. /\ n \in Nat /\ DOMAIN book.positions = 1 .. n
      /\ open \subseteq 1 .. n /\ IsFiniteSet(open) /\ Cardinality(open) \in Nat
      /\ IsFiniteSet(1 .. n)
  BY <1>1, BookIsFinite
<1>3. next.positions = Append(book.positions, new) /\ next.processed = Append(book.processed, intent)
  BY DEF WithOpened
<1>4. IsSequence(next.positions)
  <2>1. PICK S : book.positions \in Seq(S)
    BY <1>1 DEF IsBook, IsSequence
  <2>2. book.positions \in Seq(S \cup {new})
    BY <2>1
  <2>3. Append(book.positions, new) \in Seq(S \cup {new})
    BY <2>2
  <2>4. QED
    BY <1>3, <2>3 DEF IsSequence
<1>5. /\ DOMAIN next.positions = 1 .. n + 1
      /\ Len(next.positions) = n + 1
      /\ \A i \in 1 .. n : next.positions[i] = book.positions[i]
      /\ next.positions[n + 1] = new
  <2>1. PICK S : book.positions \in Seq(S)
    BY <1>1 DEF IsBook, IsSequence
  <2>2. book.positions \in Seq(S \cup {new})
    BY <2>1
  <2> HIDE DEF new
  <2>3. QED
    BY <1>2, <1>3, <2>2
<1>6. /\ IsPosition(new)
      /\ new.id = position /\ new.symbol = symbol /\ new.notional = notional
      /\ new.closedAt = NotYet
  BY DEF IsPosition
<1>a. 1 .. n + 1 = (1 .. n) \cup {n + 1} /\ n + 1 \notin 1 .. n
  BY <1>2
<1> HIDE DEF new
<1>7. IsBook(next)
  <2>1. IsSequence(next.processed)
    BY <1>1, <1>3, RecordsIntent DEF ActedOnce
  <2>2. \A i \in 1 .. n + 1 : IsPosition(next.positions[i])
    BY <1>1, <1>2, <1>5, <1>6, <1>a DEF IsBook
  <2>3. QED
    BY <1>4, <1>5, <2>1, <2>2 DEF IsBook
<1>8. /\ OpenIndices(next) = open \cup {n + 1}
      /\ DOMAIN next.positions \ OpenIndices(next) = DOMAIN book.positions \ open
      /\ n + 1 \notin open
  <2>1. IsOpen(next.positions[n + 1])
    BY <1>5, <1>6 DEF IsOpen
  <2>2. \A i \in 1 .. n : IsOpen(next.positions[i]) = IsOpen(book.positions[i])
    BY <1>5
  <2>3. OpenIndices(next) = {i \in 1 .. n + 1 : IsOpen(next.positions[i])}
        /\ open = {i \in 1 .. n : IsOpen(book.positions[i])}
    BY <1>2, <1>5 DEF OpenIndices
  <2>4. QED
    BY <1>2, <1>5, <1>a, <2>1, <2>2, <2>3
<1>9. ActedOnce(next)
  <2>1. /\ IsInjective(next.processed) /\ Len(next.processed) = Len(book.processed) + 1
        /\ Len(book.processed) \in Nat
    BY <1>1, <1>3, RecordsIntent DEF ActedOnce
  <2>2. Len(next.processed) =
            Len(next.positions) + Cardinality(DOMAIN next.positions \ OpenIndices(next))
    <3>1. Cardinality(DOMAIN book.positions \ open) \in Nat
      BY <1>2, FS_Subset, FS_CardinalityType
    <3>2. Len(book.processed) = n + Cardinality(DOMAIN book.positions \ open)
      BY <1>1 DEF ActedOnce
    <3>3. DOMAIN next.positions \ OpenIndices(next) = DOMAIN book.positions \ open
      BY <1>8
    <3>4. PICK k \in Nat : k = Cardinality(DOMAIN book.positions \ open)
      BY <3>1
    <3>5. /\ Cardinality(DOMAIN next.positions \ OpenIndices(next)) = k
          /\ Len(book.processed) = n + k
      BY <3>2, <3>3, <3>4, Zenon
    <3>6. Len(next.processed) = n + k + 1 /\ Len(next.positions) = n + 1
      BY <1>5, <2>1, <3>5
    <3>7. QED
      BY <1>2, <3>4, <3>5, <3>6
  <2>3. ASSUME NEW i \in 1 .. n + 1, NEW j \in 1 .. n + 1,
               next.positions[i].id = next.positions[j].id
        PROVE  i = j
    <3>1. \A k \in 1 .. n : book.positions[k].id # position
      BY <1>1, <1>2 DEF Indices
    <3>2. CASE i \in 1 .. n /\ j \in 1 .. n
      BY <1>1, <1>2, <1>5, <2>3, <3>2 DEF ActedOnce
    <3>3. CASE i = n + 1 \/ j = n + 1
      BY <1>2, <1>5, <1>6, <1>a, <2>3, <3>1, <3>3
    <3>4. QED
      BY <1>a, <3>2, <3>3
  <2>4. QED
    BY <1>5, <2>1, <2>2, <2>3 DEF ActedOnce
<1>10. /\ notional <= MaxNotionalPerPosition
       /\ TotalOpenNotional(book) + notional <= MaxTotalNotional
       /\ Cardinality(open) + 1 <= MaxOpenPositions
       /\ AllowDuplicateSymbol \/ symbol \notin OpenSymbols(book)
  <2>1. TotalOpenNotional(book) \in Nat
    BY <1>1, TotalIsNatural
  <2>2. /\ ~(notional > MaxNotionalPerPosition)
        /\ ~(TotalOpenNotional(book) + notional > MaxTotalNotional)
        /\ ~(Cardinality(open) + 1 > MaxOpenPositions)
        /\ ~(~AllowDuplicateSymbol /\ symbol \in OpenSymbols(book))
    BY DEF EvaluateOpen
  <2>3. AllowDuplicateSymbol \/ symbol \notin OpenSymbols(book)
    BY <2>2
  <2>4. QED
    BY <1>2, <2>1, <2>2, <2>3, PolicyAssumption DEF IsRiskPolicy
<1>11. WithinLimits(next)
  <2>1. TotalOpenNotional(next) = notional + TotalOpenNotional(book)
    <3> DEFINE all == OpenIndices(next)
    <3>1. /\ IsFiniteSet(all) /\ AreNatural(Notionals(next), all) /\ n + 1 \in all
          /\ all = open \cup {n + 1} /\ all \subseteq DOMAIN next.positions
      BY <1>7, <1>8, BookIsFinite, NotionalsAreNatural
    <3>2. TotalOf(Notionals(next), open \cup {n + 1}) =
              next.positions[n + 1].notional + TotalOf(Notionals(next), (open \cup {n + 1}) \ {n + 1})
      <4>1. PICK w, S, x : w = Notionals(next) /\ S = all /\ x = n + 1
        OBVIOUS
      <4>2. TotalOf(w, S) = w[x] + TotalOf(w, S \ {x})
        BY <3>1, <4>1, TotalOfAdds
      <4>3. w[x] = next.positions[n + 1].notional
        BY <1>7, <3>1, <4>1, NotionalsAreNatural
      <4>4. QED
        BY <3>1, <4>1, <4>2, <4>3
    <3>3. (open \cup {n + 1}) \ {n + 1} = open
      BY <1>8
    <3>4. WeighAlike(Notionals(next), Notionals(book), open)
      BY <1>2, <1>5 DEF WeighAlike, Notionals
    <3>5. TotalOf(Notionals(next), open) = TotalOf(Notionals(book), open)
      BY <1>2, <3>4, TotalOfAgrees
    <3>6. next.positions[n + 1].notional = notional
      BY <1>5, <1>6
    <3>7. QED
      BY <1>1, <1>7, <1>8, <3>2, <3>3, <3>5, <3>6, TotalIsSum
  <2>2. TotalOpenNotional(next) <= MaxTotalNotional
    BY <1>1, <1>10, <2>1, TotalIsNatural
  <2>3. Cardinality(OpenIndices(next)) = Cardinality(open) + 1
    <3>1. PICK e : e = n + 1
      OBVIOUS
    <3>2. e \notin open /\ OpenIndices(next) = open \cup {e}
      BY <1>8, <3>1
    <3>3. QED
      BY <1>2, <3>2, FS_AddElement
  <2>4. \A i \in OpenIndices(next) : next.positions[i].notional <= MaxNotionalPerPosition
    <3>1. \A i \in open : next.positions[i].notional <= MaxNotionalPerPosition
      BY <1>1, <1>2, <1>5 DEF WithinLimits
    <3>2. next.positions[n + 1].notional <= MaxNotionalPerPosition
      BY <1>5, <1>6, <1>10
    <3>3. QED
      BY <1>8, <3>1, <3>2
  <2>5. ASSUME ~AllowDuplicateSymbol, NEW i \in OpenIndices(next), NEW j \in OpenIndices(next),
               next.positions[i].symbol = next.positions[j].symbol
        PROVE  i = j
    <3>1. \A k \in open : book.positions[k].symbol # symbol
      BY <1>10, <2>5 DEF OpenSymbols
    <3>2. next.positions[n + 1].symbol = symbol
      BY <1>5, <1>6
    <3>3. CASE i \in open /\ j \in open
      BY <1>1, <1>2, <1>5, <2>5, <3>3 DEF WithinLimits
    <3>4. CASE i = n + 1 \/ j = n + 1
      BY <1>2, <1>5, <1>8, <2>5, <3>1, <3>2, <3>4
    <3>5. QED
      BY <1>8, <3>3, <3>4
  <2>6. QED
    BY <1>10, <2>2, <2>3, <2>4, <2>5 DEF WithinLimits
<1>12. QED
  BY <1>2, <1>5, <1>7, <1>9, <1>11 DEF SoundBook

(* The closing of a position keeps the limits, and changes that position   *)
(* only.                                                                   *)
LEMMA ClosedIsSound ==
    ASSUME NEW book, SoundBook(book), NEW intent, NEW target, NEW moment \in Nat,
           ~RefusesClose(book, intent, target, moment),
           NEW next, next = WithClosed(book, intent, target, moment)
    PROVE  /\ SoundBook(next)
           /\ \A i \in DOMAIN book.positions :
                 /\ i \in DOMAIN next.positions
                 /\ \/ next.positions[i] = book.positions[i]
                    \/ /\ IsOpen(book.positions[i]) /\ ~IsOpen(next.positions[i])
                       /\ next.positions[i] =
                             Closed(book.positions[i], next.positions[i].closedAt)
                       /\ next.positions[i].closedAt >= book.positions[i].openedAt
<1> DEFINE n == Len(book.positions)
           open == OpenIndices(book)
<1>1. /\ IsBook(book) /\ ActedOnce(book) /\ WithinLimits(book)
      /\ ~IsReplay(book, intent)
  BY DEF SoundBook, RefusesClose
<1>2. /\ n \in Nat /\ DOMAIN book.positions = 1 .. n
      /\ open \subseteq 1 .. n /\ IsFiniteSet(open) /\ Cardinality(open) \in Nat
      /\ IsFiniteSet(1 .. n)
  BY <1>1, BookIsFinite
<1>3. PICK c \in 1 .. n : /\ book.positions[c].id = target
                          /\ IsOpen(book.positions[c])
                          /\ moment >= book.positions[c].openedAt
  BY <1>2 DEF RefusesClose, Indices
<1>4. \A i \in 1 .. n : book.positions[i].id = target => i = c
  BY <1>1, <1>2, <1>3 DEF ActedOnce
<1> DEFINE after == Closed(book.positions[c], moment)
<1>5. /\ IsPosition(after)
      /\ after.id = book.positions[c].id /\ after.symbol = book.positions[c].symbol
      /\ after.notional = book.positions[c].notional
      /\ after.openedAt = book.positions[c].openedAt /\ after.closedAt = moment
  <2>1. PICK position : position = book.positions[c] /\ IsPosition(position)
    BY <1>1, <1>2 DEF IsBook
  <2>2. Closed(position, moment) =
            [id |-> position.id, symbol |-> position.symbol, notional |-> position.notional,
             openedAt |-> position.openedAt, closedAt |-> moment]
    BY <2>1 DEF IsPosition, Closed
  <2>3. QED
    BY <2>1, <2>2 DEF IsPosition
<1>6. after = Closed(book.positions[c], after.closedAt)
  BY <1>5
<1> HIDE DEF after
<1>7. /\ next.processed = Append(book.processed, intent)
      /\ DOMAIN next.positions = 1 .. n
      /\ next.positions[c] = after
      /\ \A i \in (1 .. n) \ {c} : next.positions[i] = book.positions[i]
  BY <1>2, <1>3, <1>4 DEF WithClosed, after
<1>8. IsSequence(next.positions) /\ Len(next.positions) = n
  <2> DEFINE S == {next.positions[i] : i \in 1 .. n}
  <2>1. next.positions = [i \in 1 .. n |-> next.positions[i]]
    BY <1>2 DEF WithClosed
  <2>2. next.positions \in [1 .. n -> S]
    BY <2>1
  <2> HIDE DEF S
  <2>3. next.positions \in Seq(S) /\ Len(next.positions) = n
    BY <1>2, <2>2
  <2>4. QED
    BY <2>3 DEF IsSequence
<1>9. IsBook(next)
  <2>1. IsSequence(next.processed)
    BY <1>1, <1>7, RecordsIntent DEF ActedOnce
  <2>2. \A i \in 1 .. n : IsPosition(next.positions[i])
    BY <1>1, <1>2, <1>5, <1>7 DEF IsBook
  <2>3. QED
    BY <1>7, <1>8, <2>1, <2>2 DEF IsBook
<1>10. ~IsOpen(next.positions[c])
  BY <1>5, <1>7, PolicyAssumption DEF IsOpen, IsRiskPolicy
<1>11. /\ OpenIndices(next) = open \ {c} /\ c \in open
       /\ DOMAIN next.positions \ OpenIndices(next) = (DOMAIN book.positions \ open) \cup {c}
  <2>1. OpenIndices(next) = {i \in 1 .. n : IsOpen(next.positions[i])}
        /\ open = {i \in 1 .. n : IsOpen(book.positions[i])}
    BY <1>2, <1>7 DEF OpenIndices
  <2>2. c \in open
    BY <1>3, <2>1
  <2>3. OpenIndices(next) = open \ {c}
    BY <1>7, <1>10, <2>1
  <2>4. QED
    BY <1>2, <1>7, <2>2, <2>3
<1>12. \A i \in 1 .. n : /\ next.positions[i].id = book.positions[i].id
                         /\ next.positions[i].symbol = book.positions[i].symbol
                         /\ next.positions[i].notional = book.positions[i].notional
  BY <1>5, <1>7
<1>13. ActedOnce(next)
  <2>1. /\ IsInjective(next.processed) /\ Len(next.processed) = Len(book.processed) + 1
        /\ Len(book.processed) \in Nat
    BY <1>1, <1>7, RecordsIntent DEF ActedOnce
  <2>2. \A i, j \in DOMAIN next.positions :
            next.positions[i].id = next.positions[j].id => i = j
    BY <1>1, <1>2, <1>7, <1>12 DEF ActedOnce
  <2>3. Len(next.processed) =
            Len(next.positions) + Cardinality(DOMAIN next.positions \ OpenIndices(next))
    <3> DEFINE before == DOMAIN book.positions \ open
    <3>1. IsFiniteSet(before) /\ c \notin before
      BY <1>2, <1>11, FS_Subset
    <3>2. PICK k \in Nat : k = Cardinality(before)
      BY <3>1, FS_CardinalityType
    <3>3. Cardinality(before \cup {c}) = k + 1
      BY <3>1, <3>2, FS_AddElement
    <3>4. Len(book.processed) = n + k
      BY <1>1, <3>2 DEF ActedOnce
    <3>5. Cardinality(DOMAIN next.positions \ OpenIndices(next)) = k + 1
      BY <1>11, <3>3, Zenon
    <3>6. Len(next.processed) = n + k + 1 /\ Len(next.positions) = n
      BY <1>8, <2>1, <3>4
    <3>a. \A a, b \in Nat : a + b + 1 = a + (b + 1)
      OBVIOUS
    <3>7. Len(next.processed) = n + (k + 1)
      BY <1>2, <3>2, <3>6, <3>a, Zenon
    <3>8. QED
      BY <3>5, <3>6, <3>7, Zenon
  <2>4. QED
    BY <2>1, <2>2, <2>3 DEF ActedOnce
<1>14. WithinLimits(next)
  <2>1. /\ TotalOf(Notionals(book), open) = book.positions[c].notional + TotalOf(Notionals(book), open \ {c})
        /\ TotalOf(Notionals(book), open) \in Nat /\ TotalOf(Notionals(book), open \ {c}) \in Nat
        /\ book.positions[c].notional \in Nat
    <3>1. AreNatural(Notionals(book), open)
      BY <1>1, NotionalsAreNatural
    <3>2. PICK p, S : p = Notionals(book) /\ S = open
      OBVIOUS
    <3>3. /\ IsFiniteSet(S) /\ c \in S /\ AreNatural(p, S)
          /\ p[c] = book.positions[c].notional /\ p[c] \in Nat
      BY <1>1, <1>2, <1>11, <3>1, <3>2, NotionalsAreNatural DEF AreNatural
    <3>4. /\ TotalOf(p, S) = p[c] + TotalOf(p, S \ {c})
          /\ TotalOf(p, S) \in Nat /\ TotalOf(p, S \ {c}) \in Nat
      BY <3>3, TotalOfAdds
    <3>5. QED
      BY <3>2, <3>3, <3>4
  <2>2. TotalOf(Notionals(next), open \ {c}) = TotalOf(Notionals(book), open \ {c})
    <3>1. PICK rest : rest = open \ {c}
      OBVIOUS
    <3>2. IsFiniteSet(rest)
      BY <1>2, <1>11, <3>1, FS_Subset
    <3>3. ASSUME NEW i \in rest
          PROVE  Notionals(next)[i] = Notionals(book)[i]
      <4>1. /\ i \in DOMAIN book.positions /\ i \in DOMAIN next.positions
            /\ next.positions[i].notional = book.positions[i].notional
        BY <1>1, <1>2, <1>8, <1>12, <3>1
      <4>2. QED
        BY <4>1 DEF Notionals
    <3>4. WeighAlike(Notionals(next), Notionals(book), rest)
      BY <3>3 DEF WeighAlike
    <3>5. TotalOf(Notionals(next), rest) = TotalOf(Notionals(book), rest)
      BY <3>2, <3>4, TotalOfAgrees
    <3>6. QED
      BY <3>1, <3>5
  <2>3. TotalOpenNotional(next) = TotalOf(Notionals(book), open \ {c})
        /\ TotalOpenNotional(book) = TotalOf(Notionals(book), open)
    <3>1. TotalOpenNotional(next) = TotalOf(Notionals(next), OpenIndices(next))
      BY <1>9, TotalIsSum
    <3>2. TotalOpenNotional(book) = TotalOf(Notionals(book), open)
      BY <1>1, TotalIsSum
    <3>3. QED
      BY <1>11, <2>2, <3>1, <3>2
  <2>4. TotalOpenNotional(next) <= MaxTotalNotional
    <3>1. TotalOpenNotional(book) <= MaxTotalNotional /\ MaxTotalNotional \in Nat
      BY <1>1, PolicyAssumption DEF WithinLimits, IsRiskPolicy
    <3>2. QED
      BY <2>1, <2>3, <3>1
  <2>5. Cardinality(OpenIndices(next)) <= MaxOpenPositions
    <3>1. Cardinality(open \ {c}) = Cardinality(open) - 1
      BY <1>2, <1>11, FS_RemoveElement
    <3>2. Cardinality(open) <= MaxOpenPositions /\ MaxOpenPositions \in Nat
      BY <1>1, PolicyAssumption DEF WithinLimits, IsRiskPolicy
    <3>3. QED
      BY <1>2, <1>11, <3>1, <3>2
  <2>6. \A i \in OpenIndices(next) : i \in open /\ i \in 1 .. n
    BY <1>2, <1>11
  <2>7. QED
    BY <1>1, <1>12, <2>4, <2>5, <2>6 DEF WithinLimits
<1>15. ASSUME NEW i \in DOMAIN book.positions
       PROVE  /\ i \in DOMAIN next.positions
              /\ \/ next.positions[i] = book.positions[i]
                 \/ /\ IsOpen(book.positions[i]) /\ ~IsOpen(next.positions[i])
                    /\ next.positions[i] =
                          Closed(book.positions[i], next.positions[i].closedAt)
                    /\ next.positions[i].closedAt >= book.positions[i].openedAt
  <2>1. CASE i = c
    BY <1>2, <1>3, <1>5, <1>6, <1>7, <1>10, <2>1
  <2>2. CASE i # c
    BY <1>2, <1>7, <2>2
  <2>3. QED
    BY <2>1, <2>2
<1>16. QED
  BY <1>9, <1>13, <1>14, <1>15 DEF SoundBook

-----------------------------------------------------------------------------
(* The steps of the paper tab, whoever takes them.                         *)

(* What was there is kept, but for what closes.                            *)
Kept ==
    \A i \in DOMAIN portfolio.positions :
        /\ i \in DOMAIN portfolio'.positions
        /\ LET before == portfolio.positions[i]
               after  == portfolio'.positions[i]
           IN  after = before
               \/ /\ IsOpen(before) /\ ~IsOpen(after)
                  /\ after = Closed(before, after.closedAt)
                  /\ after.closedAt >= before.openedAt

LEMMA EmptyIsSound == SoundBook(EmptyPortfolio)
<1> DEFINE book == EmptyPortfolio
<1>1. book.positions = <<>> /\ book.processed = <<>>
  BY DEF EmptyPortfolio
<1>2. <<>> \in Seq({}) /\ DOMAIN (<<>>) = {} /\ Len(<<>>) = 0
  OBVIOUS
<1>3. IsBook(book)
  BY <1>1, <1>2 DEF IsBook, IsSequence
<1>4. OpenIndices(book) = {} /\ DOMAIN book.positions \ OpenIndices(book) = {}
  BY <1>1, <1>2 DEF OpenIndices
<1>5. ActedOnce(book)
  BY <1>1, <1>2, <1>4, FS_EmptySet DEF ActedOnce, IsInjective
<1>6. TotalOpenNotional(book) = 0
  BY <1>3, <1>4, TotalIsSum, TotalOfNothing
<1>7. WithinLimits(book)
  BY <1>4, <1>6, FS_EmptySet, PolicyAssumption DEF WithinLimits, IsRiskPolicy
<1>8. QED
  BY <1>3, <1>5, <1>7 DEF SoundBook

LEMMA UntouchedIsKept ==
    ASSUME SoundBook(portfolio), UNCHANGED portfolio
    PROVE  SoundBook(portfolio)' /\ Kept
<1>1. PICK book, next : book = portfolio /\ next = portfolio'
  OBVIOUS
<1>2. next = book /\ SoundBook(book)
  BY <1>1
<1>3. SoundBook(next)
  BY <1>2
<1>4. Kept
  BY <1>1, <1>2 DEF Kept
<1>5. QED
  BY <1>1, <1>3, <1>4

LEMMA OpenLongIsSound ==
    ASSUME SoundBook(portfolio), now \in Nat, NEW ids, NEW symbol, NEW notional \in Amounts,
           OpenLong(ids, symbol, notional)
    PROVE  SoundBook(portfolio)' /\ Kept
<1>1. CASE UNCHANGED portfolio
  BY <1>1, UntouchedIsKept
<1>2. CASE EvaluateOpen(portfolio, symbol, notional) = {}
  <2>1. PICK book, next : book = portfolio /\ next = portfolio'
    OBVIOUS
  <2>2. PICK intent, position : intent = ids.intent /\ position = ids.position
    OBVIOUS
  <2>3. /\ ~RefusesOpen(book, intent, position) /\ EvaluateOpen(book, symbol, notional) = {}
        /\ next = WithOpened(book, intent, position, symbol, notional, now)
        /\ notional \in Nat /\ SoundBook(book)
    BY <1>2, <2>1, <2>2, PolicyAssumption DEF OpenLong, IsRiskPolicy
  <2>4. SoundBook(next)
    BY <2>3, OpenedIsSound
  <2>5. \A i \in DOMAIN book.positions :
            i \in DOMAIN next.positions /\ next.positions[i] = book.positions[i]
    BY <2>3, OpenedIsSound
  <2>6. Kept
    BY <2>1, <2>5 DEF Kept
  <2>7. QED
    BY <2>1, <2>4, <2>6
<1>3. QED
  BY <1>1, <1>2 DEF OpenLong

LEMMA ClosePositionIsSound ==
    ASSUME SoundBook(portfolio), now \in Nat, NEW intent, NEW target,
           ClosePosition(intent, target)
    PROVE  SoundBook(portfolio)' /\ Kept
<1>1. PICK book, next : book = portfolio /\ next = portfolio'
  OBVIOUS
<1>2. /\ ~RefusesClose(book, intent, target, now)
      /\ next = WithClosed(book, intent, target, now)
      /\ SoundBook(book)
  BY <1>1 DEF ClosePosition
<1>3. SoundBook(next)
  BY <1>2, ClosedIsSound
<1>4. \A i \in DOMAIN book.positions :
         /\ i \in DOMAIN next.positions
         /\ \/ next.positions[i] = book.positions[i]
            \/ /\ IsOpen(book.positions[i]) /\ ~IsOpen(next.positions[i])
               /\ next.positions[i] =
                     Closed(book.positions[i], next.positions[i].closedAt)
               /\ next.positions[i].closedAt >= book.positions[i].openedAt
  BY <1>2, ClosedIsSound
<1>5. Kept
  BY <1>1, <1>4 DEF Kept
<1>6. QED
  BY <1>1, <1>3, <1>5

LEMMA ClockKeepsNatural ==
    ASSUME now \in Nat, Passes \/ StepBack \/ UNCHANGED clockVars
    PROVE  now' \in Nat
BY DEF Passes, StepBack, clockVars

PaperSound == SoundBook(portfolio) /\ now \in Nat

LEMMA PaperStepSound ==
    ASSUME PaperSound, [PaperNext]_<<paperVars, clockVars>>
    PROVE  PaperSound' /\ Kept
<1>1. now' \in Nat
  <2>1. UNCHANGED clockVars \/ Passes \/ StepBack
    BY DEF PaperNext, Tick, Passes
  <2>2. QED
    BY <2>1, ClockKeepsNatural DEF PaperSound
<1>2. SoundBook(portfolio)' /\ Kept
  <2>1. CASE UNCHANGED portfolio
    BY <2>1, UntouchedIsKept DEF PaperSound
  <2>2. ASSUME NEW ids \in forms.open, NEW symbol \in Symbols, NEW notional \in Amounts,
               OpenLong(ids, symbol, notional)
        PROVE  SoundBook(portfolio)' /\ Kept
    BY <2>2, OpenLongIsSound DEF PaperSound
  <2>3. ASSUME NEW intent \in forms.close, NEW target \in PositionIds,
               ClosePosition(intent, target)
        PROVE  SoundBook(portfolio)' /\ Kept
    BY <2>3, ClosePositionIsSound DEF PaperSound
  <2>4. QED
    BY <2>1, <2>2, <2>3 DEF PaperNext, PaperAction, MintForms, paperVars
<1>3. QED
  BY <1>1, <1>2 DEF PaperSound

LEMMA AlwaysPaperSound == PaperSpec => []PaperSound
<1>1. PaperInit => PaperSound
  BY EmptyIsSound DEF PaperInit, PaperSound
<1>2. PaperSound /\ [PaperNext]_<<paperVars, clockVars>> => PaperSound'
  BY PaperStepSound
<1>3. QED
  BY <1>1, <1>2, PTL DEF PaperSpec

(* Whatever is opened, closed, rejected, retried and submitted again, the  *)
(* sum of the open notionals, their number, each of them and their symbols *)
(* keep the limits of the policy (apply_open and apply_close of            *)
(* src/portfolio/portfolio.py, evaluate_open of src/portfolio/risk.py).    *)
THEOREM LimitsAreKept == PaperSpec => []LimitsHold
<1>1. PaperSound => LimitsHold
  BY DEF PaperSound, SoundBook, WithinLimits, LimitsHold
<1>2. QED
  BY <1>1, AlwaysPaperSound, PTL

(* An intent acts once, however often its form is submitted, and no        *)
(* position identifier is used twice (src/portfolio/portfolio.py).         *)
THEOREM IntentsActOnce == PaperSpec => []EachIntentActsOnce
<1>1. PaperSound => EachIntentActsOnce
  BY DEF PaperSound, SoundBook, ActedOnce, EachIntentActsOnce
<1>2. QED
  BY <1>1, AlwaysPaperSound, PTL

(* The history of the portfolio is only extended, and nothing closes       *)
(* before it opened, the clock set back or not                             *)
(* (src/portfolio/portfolio.py).                                           *)
THEOREM HistoryStays == PaperSpec => HistoryIsKept
<1>1. PaperSound /\ [PaperNext]_<<paperVars, clockVars>> => [Kept]_<<paperVars, clockVars>>
  BY PaperStepSound
<1>2. [][Kept]_<<paperVars, clockVars>> => HistoryIsKept
  BY DEF Kept, HistoryIsKept
<1>3. QED
  BY <1>1, <1>2, AlwaysPaperSound, PTL DEF PaperSpec

-----------------------------------------------------------------------------
(* The paper portfolio inside a session.                                   *)

LEMMA SessionKeepsPaper ==
    ASSUME PaperSound, [Next]_dashboardVars
    PROVE  PaperSound' /\ Kept
<1>1. now' \in Nat
  <2>1. UNCHANGED clockVars \/ Passes \/ StepBack
    BY DEF Next, Tick, Passes, Build, BeginScan, ScanSymbol, dashboardVars
  <2>2. QED
    BY <2>1, ClockKeepsNatural DEF PaperSound
<1>2. CASE UNCHANGED portfolio
  BY <1>1, <1>2, UntouchedIsKept DEF PaperSound
<1>3. ASSUME NEW symbol \in Symbols, NEW notional \in Amounts \cup {NoAmount},
             OpenLong(pendingOpen, symbol, notional)
      PROVE  PaperSound' /\ Kept
  <2>1. notional \in Amounts
    BY <1>3 DEF OpenLong
  <2>2. PICK ids : ids = pendingOpen
    OBVIOUS
  <2>3. OpenLong(ids, symbol, notional)
    BY <1>3, <2>2 DEF OpenLong
  <2>4. SoundBook(portfolio)' /\ Kept
    BY <2>1, <2>3, OpenLongIsSound DEF PaperSound
  <2>5. QED
    BY <1>1, <2>4 DEF PaperSound
<1>4. ASSUME NEW target, ClosePosition(pendingClose, target)
      PROVE  PaperSound' /\ Kept
  <2>1. PICK intent : intent = pendingClose
    OBVIOUS
  <2>2. ClosePosition(intent, target)
    BY <1>4, <2>1 DEF ClosePosition
  <2>3. SoundBook(portfolio)' /\ Kept
    BY <2>2, ClosePositionIsSound DEF PaperSound
  <2>4. QED
    BY <1>1, <2>3 DEF PaperSound
<1>5. \/ UNCHANGED portfolio
      \/ \E symbol \in Symbols, notional \in Amounts \cup {NoAmount} :
            OpenLong(pendingOpen, symbol, notional)
      \/ \E target : ClosePosition(pendingClose, target)
  <2>1. UNCHANGED paperVars \/ Mint \/ SubmitOpen \/ SubmitClose
    BY DEF Next, dashboardVars
  <2>2. Mint => UNCHANGED portfolio
    BY DEF Mint, MintForms, paperVars
  <2>3. SubmitOpen => \/ UNCHANGED portfolio
                      \/ \E symbol \in Symbols, notional \in Amounts \cup {NoAmount} :
                            OpenLong(pendingOpen, symbol, notional)
    BY DEF SubmitOpen, paperVars
  <2>4. SubmitClose => UNCHANGED portfolio \/ \E target : ClosePosition(pendingClose, target)
    BY DEF SubmitClose, paperVars
  <2>5. QED
    BY <2>1, <2>2, <2>3, <2>4 DEF paperVars
<1>6. QED
  BY <1>2, <1>3, <1>4, <1>5

LEMMA SessionPaperSound == Spec => []PaperSound
<1>1. Init => PaperSound
  BY EmptyIsSound DEF Init, PaperInit, PaperSound
<1>2. PaperSound /\ [Next]_dashboardVars => PaperSound'
  BY SessionKeepsPaper
<1>3. QED
  BY <1>1, <1>2, PTL DEF Spec

(* In a session of the dashboard the open positions keep the limits of the *)
(* policy, whatever is submitted and wherever the script is abandoned      *)
(* (apply_open and apply_close of src/portfolio/portfolio.py, called from  *)
(* render_paper of src/dashboard/app.py).                            *)
THEOREM SessionKeepsLimits == Spec => [](LimitsHold /\ EachIntentActsOnce)
<1>1. PaperSound => LimitsHold /\ EachIntentActsOnce
  BY DEF PaperSound, SoundBook, WithinLimits, LimitsHold, ActedOnce, EachIntentActsOnce
<1>2. QED
  BY <1>1, SessionPaperSound, PTL

(* In a session the history of the portfolio is only extended.             *)
THEOREM SessionKeepsHistory == Spec => HistoryIsKept
<1>1. PaperSound /\ [Next]_dashboardVars => [Kept]_<<paperVars, clockVars>>
  BY SessionKeepsPaper
<1>2. [][Kept]_<<paperVars, clockVars>> => HistoryIsKept
  BY DEF Kept, HistoryIsKept
<1>3. QED
  BY <1>1, <1>2, SessionPaperSound, PTL DEF Spec

-----------------------------------------------------------------------------
(* Readings of the clock.  It counts in steps of two and is set back once,  *)
(* by three, so no reading comes twice: what was read while the clock was   *)
(* even is never read again once it is odd.                                 *)

Reading(moment, steps) ==
    /\ moment \in Nat
    /\ \/ steps = 0 /\ moment % 2 = 0
       \/ steps = 1 /\ moment % 2 = 1

IsPast(t, moment, steps) ==
    /\ t \in Nat
    /\ \/ steps = 0 /\ t % 2 = 0 /\ t < moment
       \/ steps = 1 /\ (t % 2 = 0 \/ (t % 2 = 1 /\ t < moment))

-----------------------------------------------------------------------------
(* The screen.                                                              *)

SessionKeys == DOMAIN EmptySession
Watched == {"outcomeResult", "outcomeFailure", "reasoningSnapshot", "reasoningFailure"}

(* What may stand beside what, for any keys of a session.                   *)
BelongsTo(explanation, snapshot) ==
    /\ explanation.evidence = Packet(snapshot)
    /\ explanation.cited \subseteq EvidenceIds(Packet(snapshot))
Consistent(s) ==
    /\ s.outcomeResult # None => s.snapshot # NoSnapshot /\ s.outcomeResult.of = s.snapshot
    /\ s.reasoningSnapshot # None /\ ExplanationIsCurrent(s.reasoningSnapshot, s.snapshot) =>
            BelongsTo(s.reasoningSnapshot, s.snapshot)
    /\ None \in {s.outcomeResult, s.outcomeFailure}
    /\ None \in {s.reasoningSnapshot, s.reasoningFailure}

(* Everything on the screen was made at an earlier reading.                 *)
Dated(s, moment, steps) ==
    /\ s.snapshot # NoSnapshot => IsPast(s.snapshot.builtAt, moment, steps)
    /\ s.reasoningSnapshot # None => IsPast(s.reasoningSnapshot.cutoff, moment, steps)

(* Assignments that take a watched key down, or touch none.                 *)
IsMild(assignment) ==
    /\ assignment.key \in SessionKeys \ {"snapshot"}
    /\ assignment.key \in Watched => assignment.value = None
Harmless(q) == \A i \in DOMAIN q : IsMild(q[i])

(* The others: a new snapshot, the status of its registration, and the      *)
(* outcome of an explanation.                                               *)
PublishesSnapshot(s, q, moment, steps) ==
    /\ Len(q) = 4
    /\ q = << Becomes("snapshot", q[1].value), Becomes("failure", None),
              Becomes("reasoningSnapshot", None), Becomes("reasoningFailure", None) >>
    /\ q[1].value # NoSnapshot /\ IsPast(q[1].value.builtAt, moment, steps)
    /\ s.reasoningSnapshot # None => s.reasoningSnapshot.cutoff # q[1].value.builtAt
ShowsOutcome(s, q) ==
    /\ Len(q) = 1
    /\ \/ q = << Becomes("outcomeFailure", q[1].value) >> /\ s.outcomeResult = None
       \/ /\ q = << Becomes("outcomeResult", q[1].value) >> /\ s.outcomeFailure = None
          /\ s.snapshot # NoSnapshot /\ q[1].value.of = s.snapshot
ShowsExplanation(s, q) ==
    /\ Len(q) = 1
    /\ \/ q = << Becomes("reasoningFailure", q[1].value) >> /\ s.reasoningSnapshot = None
       \/ /\ q = << Becomes("reasoningSnapshot", q[1].value) >> /\ s.reasoningFailure = None
          /\ s.snapshot # NoSnapshot /\ q[1].value.cutoff = s.snapshot.builtAt
          /\ BelongsTo(q[1].value, s.snapshot)

IsTakenDown(s, q, key) == s[key] = None \/ \E i \in DOMAIN q : q[i].key = key
Pending(s, q, stage, moment, steps) ==
    /\ \/ Harmless(q)
       \/ stage = "ledger" /\ PublishesSnapshot(s, q, moment, steps)
       \/ stage = "market" /\ ShowsOutcome(s, q)
       \/ stage = "explained" /\ ShowsExplanation(s, q)
    /\ stage \in {"build", "ledger", "track"} =>
            IsTakenDown(s, q, "outcomeResult") /\ IsTakenDown(s, q, "outcomeFailure")
    /\ stage = "explain" =>
            IsTakenDown(s, q, "reasoningSnapshot") /\ IsTakenDown(s, q, "reasoningFailure")
    /\ stage = "ledger" =>
            s.snapshot # NoSnapshot \/ PublishesSnapshot(s, q, moment, steps)
    /\ stage \in {"track", "availability", "explain"} => s.snapshot # NoSnapshot

(* A list is a sequence of anything.                                        *)
IsList(q) == \E S : q \in Seq(S)

IsRun(r) == /\ r = [pressed |-> r.pressed, at |-> r.at, todo |-> r.todo, scan |-> r.scan]
            /\ IsList(r.todo)
ScreenSound ==
    /\ DOMAIN session = SessionKeys /\ IsRun(run)
    /\ Reading(now, clockSteps)
    /\ Consistent(session) /\ Dated(session, now, clockSteps)
    /\ Pending(session, run.todo, run.at, now, clockSteps)

-----------------------------------------------------------------------------
(* The clock.                                                               *)

LEMMA NowIsNew ==
    ASSUME NEW t, NEW moment, NEW steps, Reading(moment, steps), IsPast(t, moment, steps)
    PROVE  t # moment
BY DEF Reading, IsPast

LEMMA TimePasses ==
    ASSUME Reading(now, clockSteps), Passes
    PROVE  /\ Reading(now', clockSteps')
           /\ \A t : IsPast(t, now, clockSteps) => IsPast(t, now', clockSteps')
           /\ IsPast(now, now', clockSteps')
BY DEF Reading, IsPast, Passes

LEMMA TimeStepsBack ==
    ASSUME Reading(now, clockSteps), StepBack
    PROVE  /\ Reading(now', clockSteps')
           /\ \A t : IsPast(t, now, clockSteps) => IsPast(t, now', clockSteps')
<1>1. clockSteps = 0 /\ now' = now - 3 /\ clockSteps' = 1 /\ now >= 3
  BY PolicyAssumption DEF Reading, StepBack, IsRiskPolicy
<1>2. now % 2 = 0 /\ now \in Nat
  BY <1>1 DEF Reading
<1>3. (now - 3) % 2 = 1 /\ now - 3 \in Nat
  BY <1>1, <1>2
<1>4. QED
  BY <1>1, <1>2, <1>3 DEF Reading, IsPast

-----------------------------------------------------------------------------
(* Lists of assignments.                                                    *)

LEMMA TailOfList ==
    ASSUME NEW q, IsList(q), q # <<>>
    PROVE  /\ IsList(Tail(q)) /\ Head(q) = q[1] /\ 1 \in DOMAIN q
           /\ \A i \in DOMAIN Tail(q) : i + 1 \in DOMAIN q /\ Tail(q)[i] = q[i + 1]
           /\ \A i \in DOMAIN q : i = 1 \/ i - 1 \in DOMAIN Tail(q)
<1>1. PICK S : q \in Seq(S)
  BY DEF IsList
<1>2. QED
  BY <1>1 DEF IsList

LEMMA ShortLists ==
    /\ IsList(<<>>) /\ Harmless(<<>>)
    /\ \A a : IsList(<<a>>) /\ (IsMild(a) => Harmless(<<a>>))
    /\ \A a, b : IsList(<<a, b>>) /\ (IsMild(a) /\ IsMild(b) => Harmless(<<a, b>>))
    /\ \A a, b, c, d : IsList(<<a, b, c, d>>)
<1>1. <<>> \in Seq({}) /\ \A i \in DOMAIN <<>> : FALSE
  OBVIOUS
<1>2. \A a : <<a>> \in Seq({a}) /\ \A i \in DOMAIN <<a>> : <<a>>[i] = a
  OBVIOUS
<1>3. \A a, b : <<a, b>> \in Seq({a, b}) /\ \A i \in DOMAIN <<a, b>> : <<a, b>>[i] \in {a, b}
  OBVIOUS
<1>4. \A a, b, c, d : <<a, b, c, d>> \in Seq({a, b, c, d})
  OBVIOUS
<1>5. IsList(<<>>) /\ Harmless(<<>>)
  <2>1. IsList(<<>>)
    BY <1>1, Zenon DEF IsList
  <2>2. QED
    BY <1>1, <2>1, Zenon DEF Harmless
<1>6. ASSUME NEW a
      PROVE  IsList(<<a>>) /\ (IsMild(a) => Harmless(<<a>>))
  <2>1. IsList(<<a>>)
    BY <1>2, Zenon DEF IsList
  <2>2. IsMild(a) => Harmless(<<a>>)
    BY <1>2, Zenon DEF Harmless
  <2>3. QED
    BY <2>1, <2>2
<1>7. ASSUME NEW a, NEW b
      PROVE  IsList(<<a, b>>) /\ (IsMild(a) /\ IsMild(b) => Harmless(<<a, b>>))
  <2>1. IsList(<<a, b>>)
    BY <1>3, Zenon DEF IsList
  <2>2. ASSUME IsMild(a), IsMild(b), NEW i \in DOMAIN <<a, b>>
        PROVE  IsMild(<<a, b>>[i])
    <3>1. <<a, b>>[i] \in {a, b}
      BY <1>3, Zenon
    <3>2. PICK e : e = <<a, b>>[i]
      OBVIOUS
    <3>3. e = a \/ e = b
      BY <3>1, <3>2
    <3>4. QED
      BY <2>2, <3>2, <3>3, Zenon
  <2>3. QED
    BY <2>1, <2>2, Zenon DEF Harmless
<1>8. ASSUME NEW a, NEW b, NEW c, NEW d
      PROVE  IsList(<<a, b, c, d>>)
  BY <1>4, Zenon DEF IsList
<1>9. QED
  BY <1>5, <1>6, <1>7, <1>8, Zenon

LEMMA JoinedLists ==
    ASSUME NEW p, NEW q, IsList(p), IsList(q), Harmless(p), Harmless(q)
    PROVE  IsList(p \o q) /\ Harmless(p \o q)
<1>1. PICK S : p \in Seq(S)
  BY DEF IsList
<1>2. PICK T : q \in Seq(T)
  BY DEF IsList
<1>3. p \in Seq(S \cup T) /\ q \in Seq(S \cup T)
  BY <1>1, <1>2
<1>4. p \o q \in Seq(S \cup T)
  BY <1>3
<1>5. \A i \in DOMAIN (p \o q) :
          \/ i \in DOMAIN p /\ (p \o q)[i] = p[i]
          \/ i - Len(p) \in DOMAIN q /\ (p \o q)[i] = q[i - Len(p)]
  BY <1>3
<1>6. QED
  BY <1>4, <1>5, Zenon DEF IsList, Harmless

LEMMA HarmlessTail ==
    ASSUME NEW q, IsList(q), q # <<>>, Harmless(q)
    PROVE  IsMild(Head(q)) /\ Harmless(Tail(q))
BY TailOfList, Zenon DEF Harmless

-----------------------------------------------------------------------------
(* Assignments.                                                             *)

LEMMA TheKeys ==
    /\ Watched \subseteq SessionKeys
    /\ {"symbolInput", "pendingSymbol", "snapshot", "failure", "ledger", "newsService",
        "newsSnapshot", "newsFailure", "feedService", "feedSnapshot", "feedFailure",
        "universes", "universeId", "scanSnapshot", "scanFailure", "reasoningService",
        "paperError"} \subseteq SessionKeys
    /\ "snapshot" \notin Watched
BY DEF SessionKeys, EmptySession, Watched

(* A session with the same snapshot and no more beside it.                  *)
IsMilder(t, s) ==
    /\ t.snapshot = s.snapshot
    /\ t.outcomeResult \in {s.outcomeResult, None}
    /\ t.outcomeFailure \in {s.outcomeFailure, None}
    /\ t.reasoningSnapshot \in {s.reasoningSnapshot, None}
    /\ t.reasoningFailure \in {s.reasoningFailure, None}

LEMMA MilderIsConsistent ==
    ASSUME NEW s, NEW t, IsMilder(t, s), NEW moment, NEW steps,
           Consistent(s), Dated(s, moment, steps)
    PROVE  Consistent(t) /\ Dated(t, moment, steps)
<1>1. Consistent(t)
  BY DEF IsMilder, Consistent
<1>2. Dated(t, moment, steps)
  BY DEF IsMilder, Dated
<1>3. QED
  BY <1>1, <1>2

LEMMA Updated ==
    ASSUME NEW s, DOMAIN s = SessionKeys, NEW key \in SessionKeys, NEW value,
           NEW t, t = [s EXCEPT ![key] = value]
    PROVE  /\ DOMAIN t = SessionKeys /\ t[key] = value
           /\ \A k \in SessionKeys : k # key => t[k] = s[k]
OBVIOUS

LEMMA MildIsMilder ==
    ASSUME NEW s, DOMAIN s = SessionKeys, NEW a, IsMild(a),
           NEW t, t = [s EXCEPT ![a.key] = a.value]
    PROVE  DOMAIN t = SessionKeys /\ IsMilder(t, s)
<1>1. PICK key, value : key = a.key /\ value = a.value
  OBVIOUS
<1>2. key \in SessionKeys /\ key # "snapshot" /\ (key \in Watched => value = None)
  BY <1>1 DEF IsMild
<1>3. /\ DOMAIN t = SessionKeys /\ t[key] = value
      /\ \A k \in SessionKeys : k # key => t[k] = s[k]
  BY <1>1, <1>2, Updated
<1>4. t.snapshot = s.snapshot
  BY <1>2, <1>3, TheKeys
<1>5. \A k \in Watched : t[k] \in {s[k], None}
  BY <1>2, <1>3, TheKeys
<1>6. QED
  BY <1>3, <1>4, <1>5 DEF IsMilder, Watched

(* What will be taken down is still to be, or has been.                     *)
LEMMA StaysTakenDown ==
    ASSUME NEW s, DOMAIN s = SessionKeys, NEW q, IsList(q), q # <<>>, Harmless(q),
           NEW t, t = [s EXCEPT ![Head(q).key] = Head(q).value],
           NEW key \in Watched, IsTakenDown(s, q, key)
    PROVE  IsTakenDown(t, Tail(q), key)
<1>1. PICK k, v : k = Head(q).key /\ v = Head(q).value
  OBVIOUS
<1>2. k \in SessionKeys /\ (k \in Watched => v = None)
  BY <1>1, HarmlessTail DEF IsMild
<1>3. t[k] = v /\ \A j \in SessionKeys : j # k => t[j] = s[j]
  BY <1>1, <1>2, Updated
<1>4. CASE k = key
  BY <1>2, <1>3, <1>4 DEF IsTakenDown
<1>5. CASE k # key
  <2>1. t[key] = s[key]
    BY <1>3, <1>5, TheKeys
  <2>2. ASSUME NEW i \in DOMAIN q, q[i].key = key
        PROVE  \E j \in DOMAIN Tail(q) : Tail(q)[j].key = key
    <3>1. q[1].key = k
      BY <1>1, TailOfList
    <3>2. i # 1
      BY <1>5, <2>2, <3>1
    <3>3. i - 1 \in DOMAIN Tail(q)
      BY <3>2, TailOfList
    <3>4. PICK j : j = i - 1 /\ j \in DOMAIN Tail(q)
      BY <3>3
    <3>5. Tail(q)[j] = q[j + 1]
      BY <3>4, TailOfList
    <3>6. i \in Int
      <4>1. PICK S : q \in Seq(S)
        BY DEF IsList
      <4>2. QED
        BY <4>1
    <3>7. j + 1 = i
      BY <3>4, <3>6
    <3>8. QED
      BY <2>2, <3>4, <3>5, <3>7
  <2>3. QED
    BY <2>1, <2>2 DEF IsTakenDown
<1>6. QED
  BY <1>4, <1>5

LEMMA HarmlessAssigned ==
    ASSUME NEW s, DOMAIN s = SessionKeys, NEW q, IsList(q), q # <<>>, Harmless(q),
           NEW stage, NEW moment, NEW steps,
           Consistent(s), Dated(s, moment, steps), Pending(s, q, stage, moment, steps),
           NEW t, t = [s EXCEPT ![Head(q).key] = Head(q).value]
    PROVE  /\ DOMAIN t = SessionKeys /\ Consistent(t) /\ Dated(t, moment, steps)
           /\ Pending(t, Tail(q), stage, moment, steps)
<1>1. IsMild(Head(q)) /\ Harmless(Tail(q))
  BY HarmlessTail
<1>2. PICK a : a = Head(q)
  OBVIOUS
<1>3. DOMAIN t = SessionKeys /\ IsMilder(t, s)
  BY <1>1, <1>2, MildIsMilder
<1>4. Consistent(t) /\ Dated(t, moment, steps)
  BY <1>3, MilderIsConsistent
<1>5. t.snapshot = s.snapshot
  BY <1>3 DEF IsMilder
<1>6. stage \in {"build", "ledger", "track"} =>
          IsTakenDown(t, Tail(q), "outcomeResult") /\ IsTakenDown(t, Tail(q), "outcomeFailure")
  BY StaysTakenDown DEF Pending, Watched
<1>7. stage = "explain" =>
          /\ IsTakenDown(t, Tail(q), "reasoningSnapshot")
          /\ IsTakenDown(t, Tail(q), "reasoningFailure")
  BY StaysTakenDown DEF Pending, Watched
<1>8. ~PublishesSnapshot(s, q, moment, steps)
  <2>1. 1 \in DOMAIN q
    BY TailOfList
  <2>2. q[1].key # "snapshot"
    BY <2>1 DEF Harmless, IsMild
  <2>3. QED
    BY <2>2 DEF PublishesSnapshot, Becomes
<1>9. stage \in {"ledger", "track", "availability", "explain"} => t.snapshot # NoSnapshot
  BY <1>5, <1>8 DEF Pending
<1>10. QED
  BY <1>1, <1>3, <1>4, <1>6, <1>7, <1>9, Zenon DEF Pending

LEMMA SnapshotAssigned ==
    ASSUME NEW s, DOMAIN s = SessionKeys, NEW q, NEW moment, NEW steps,
           Consistent(s), Dated(s, moment, steps),
           PublishesSnapshot(s, q, moment, steps),
           Pending(s, q, "ledger", moment, steps),
           NEW t, t = [s EXCEPT ![Head(q).key] = Head(q).value]
    PROVE  /\ DOMAIN t = SessionKeys /\ Consistent(t) /\ Dated(t, moment, steps)
           /\ Pending(t, Tail(q), "ledger", moment, steps)
<1>1. PICK new : new = q[1].value
  OBVIOUS
<1>2. /\ q = << Becomes("snapshot", new), Becomes("failure", None),
                Becomes("reasoningSnapshot", None), Becomes("reasoningFailure", None) >>
      /\ new # NoSnapshot /\ IsPast(new.builtAt, moment, steps)
      /\ s.reasoningSnapshot # None => s.reasoningSnapshot.cutoff # new.builtAt
  BY <1>1 DEF PublishesSnapshot
<1>3. Head(q) = Becomes("snapshot", new)
      /\ Tail(q) = << Becomes("failure", None), Becomes("reasoningSnapshot", None),
                      Becomes("reasoningFailure", None) >>
  BY <1>2
<1>4. t = [s EXCEPT !["snapshot"] = new]
  <2>1. Head(q).key = "snapshot" /\ Head(q).value = new
    BY <1>3 DEF Becomes
  <2>2. QED
    BY <2>1, Zenon
<1>5. DOMAIN t = SessionKeys /\ t.snapshot = new /\ \A k \in Watched : t[k] = s[k]
  BY <1>4, Updated, TheKeys
<1>6. \A i \in DOMAIN q : q[i].key # "outcomeResult" /\ q[i].key # "outcomeFailure"
  BY <1>2 DEF Becomes
<1>7. t.outcomeResult = None /\ t.outcomeFailure = None
  BY <1>5, <1>6 DEF Pending, IsTakenDown, Watched
<1>8. t.reasoningSnapshot = s.reasoningSnapshot /\ t.reasoningFailure = s.reasoningFailure
  BY <1>5 DEF Watched
<1>9. Consistent(t)
  <2>1. t.reasoningSnapshot # None => ~ExplanationIsCurrent(t.reasoningSnapshot, t.snapshot)
    BY <1>2, <1>5, <1>8 DEF ExplanationIsCurrent
  <2>2. QED
    BY <2>1, <1>7, <1>8 DEF Consistent
<1>10. Dated(t, moment, steps)
  BY <1>2, <1>5, <1>8 DEF Dated
<1>11. Harmless(Tail(q))
  <2>1. PICK a, b, c : /\ a = Becomes("failure", None)
                       /\ b = Becomes("reasoningSnapshot", None)
                       /\ c = Becomes("reasoningFailure", None)
    OBVIOUS
  <2>2. IsMild(a) /\ IsMild(b) /\ IsMild(c)
    BY <2>1, TheKeys DEF IsMild, Becomes, Watched
  <2>3. PICK r : r = Tail(q) /\ r = <<a, b, c>>
    BY <1>3, <2>1
  <2>4. \A i \in DOMAIN r : r[i] \in {a, b, c}
    <3>1. \A x, y, z : \A i \in DOMAIN <<x, y, z>> : <<x, y, z>>[i] \in {x, y, z}
      OBVIOUS
    <3>2. QED
      BY <2>3, <3>1, Zenon
  <2>5. Harmless(r)
    BY <2>2, <2>4 DEF Harmless
  <2>6. QED
    BY <2>3, <2>5, Zenon
<1>12. t.snapshot # NoSnapshot
  BY <1>2, <1>5
<1>13. QED
  BY <1>5, <1>7, <1>9, <1>10, <1>11, <1>12 DEF Pending, IsTakenDown

LEMMA OutcomeAssigned ==
    ASSUME NEW s, DOMAIN s = SessionKeys, NEW q, NEW moment, NEW steps,
           Consistent(s), Dated(s, moment, steps), ShowsOutcome(s, q),
           NEW t, t = [s EXCEPT ![Head(q).key] = Head(q).value]
    PROVE  /\ DOMAIN t = SessionKeys /\ Consistent(t) /\ Dated(t, moment, steps)
           /\ Tail(q) = <<>>
<1>1. PICK key, v :
          /\ key \in {"outcomeResult", "outcomeFailure"}
          /\ q = << Becomes(key, v) >>
          /\ key = "outcomeFailure" => s.outcomeResult = None
          /\ key = "outcomeResult" => /\ s.outcomeFailure = None
                                      /\ s.snapshot # NoSnapshot /\ v.of = s.snapshot
  BY DEF ShowsOutcome
<1>2. Head(q) = Becomes(key, v) /\ Tail(q) = <<>>
  BY <1>1
<1>3. t = [s EXCEPT ![key] = v]
  <2>1. Head(q).key = key /\ Head(q).value = v
    BY <1>2 DEF Becomes
  <2>2. PICK field, value : field = Head(q).key /\ value = Head(q).value
    OBVIOUS
  <2>3. t = [s EXCEPT ![field] = value]
    BY <2>2, Zenon
  <2>4. field = key /\ value = v
    BY <2>1, <2>2
  <2>5. QED
    BY <2>3, <2>4
<1>4. key \in SessionKeys
  BY <1>1, TheKeys DEF Watched
<1>5. DOMAIN t = SessionKeys /\ t[key] = v /\ \A k \in SessionKeys : k # key => t[k] = s[k]
  BY <1>3, <1>4, Updated
<1>6. /\ t.snapshot = s.snapshot /\ t.reasoningSnapshot = s.reasoningSnapshot
      /\ t.reasoningFailure = s.reasoningFailure
      /\ key = "outcomeResult" => t.outcomeResult = v /\ t.outcomeFailure = s.outcomeFailure
      /\ key = "outcomeFailure" => t.outcomeResult = s.outcomeResult
  <2>1. /\ "snapshot" \in SessionKeys /\ "reasoningSnapshot" \in SessionKeys /\ "reasoningFailure" \in SessionKeys
        /\ "outcomeResult" \in SessionKeys /\ "outcomeFailure" \in SessionKeys
    BY TheKeys DEF Watched
  <2>2. CASE key = "outcomeResult"
    BY <1>5, <2>1, <2>2
  <2>3. CASE key = "outcomeFailure"
    BY <1>5, <2>1, <2>3
  <2>4. QED
    BY <1>1, <2>2, <2>3
<1>7. Consistent(t)
  BY <1>1, <1>6 DEF Consistent
<1>8. Dated(t, moment, steps)
  BY <1>6 DEF Dated
<1>9. QED
  BY <1>2, <1>5, <1>7, <1>8

LEMMA ExplanationAssigned ==
    ASSUME NEW s, DOMAIN s = SessionKeys, NEW q, NEW moment, NEW steps,
           Consistent(s), Dated(s, moment, steps), ShowsExplanation(s, q),
           NEW t, t = [s EXCEPT ![Head(q).key] = Head(q).value]
    PROVE  /\ DOMAIN t = SessionKeys /\ Consistent(t) /\ Dated(t, moment, steps)
           /\ Tail(q) = <<>>
<1>1. PICK key, v :
          /\ key \in {"reasoningSnapshot", "reasoningFailure"}
          /\ q = << Becomes(key, v) >>
          /\ key = "reasoningFailure" => s.reasoningSnapshot = None
          /\ key = "reasoningSnapshot" =>
                /\ s.reasoningFailure = None
                /\ s.snapshot # NoSnapshot /\ v.cutoff = s.snapshot.builtAt
                /\ BelongsTo(v, s.snapshot)
  BY DEF ShowsExplanation
<1>2. Head(q) = Becomes(key, v) /\ Tail(q) = <<>>
  BY <1>1
<1>3. t = [s EXCEPT ![key] = v]
  <2>1. Head(q).key = key /\ Head(q).value = v
    BY <1>2 DEF Becomes
  <2>2. PICK field, value : field = Head(q).key /\ value = Head(q).value
    OBVIOUS
  <2>3. t = [s EXCEPT ![field] = value]
    BY <2>2, Zenon
  <2>4. field = key /\ value = v
    BY <2>1, <2>2
  <2>5. QED
    BY <2>3, <2>4
<1>4. key \in SessionKeys
  BY <1>1, TheKeys DEF Watched
<1>5. DOMAIN t = SessionKeys /\ t[key] = v /\ \A k \in SessionKeys : k # key => t[k] = s[k]
  BY <1>3, <1>4, Updated
<1>6. /\ t.snapshot = s.snapshot /\ t.outcomeResult = s.outcomeResult
      /\ t.outcomeFailure = s.outcomeFailure
      /\ key = "reasoningSnapshot" =>
            t.reasoningSnapshot = v /\ t.reasoningFailure = s.reasoningFailure
      /\ key = "reasoningFailure" => t.reasoningSnapshot = s.reasoningSnapshot
  <2>1. /\ "snapshot" \in SessionKeys /\ "outcomeResult" \in SessionKeys /\ "outcomeFailure" \in SessionKeys
        /\ "reasoningSnapshot" \in SessionKeys /\ "reasoningFailure" \in SessionKeys
    BY TheKeys DEF Watched
  <2>2. CASE key = "reasoningSnapshot"
    BY <1>5, <2>1, <2>2
  <2>3. CASE key = "reasoningFailure"
    BY <1>5, <2>1, <2>3
  <2>4. QED
    BY <1>1, <2>2, <2>3
<1>7. Consistent(t)
  BY <1>1, <1>6 DEF Consistent
<1>8. Dated(t, moment, steps)
  BY <1>1, <1>6 DEF Dated
<1>9. QED
  BY <1>2, <1>5, <1>7, <1>8

-----------------------------------------------------------------------------
(* Steps of the script.                                                     *)

(* A run that has gone on to a stage with a list of assignments.            *)
Gone(r, stage, q) == [r EXCEPT !.at = stage, !.todo = q]

LEMMA RunGoes ==
    ASSUME NEW r, IsRun(r), NEW stage, NEW q, IsList(q)
    PROVE  /\ IsRun(Gone(r, stage, q)) /\ Gone(r, stage, q).at = stage
           /\ Gone(r, stage, q).todo = q /\ Gone(r, stage, q).scan = r.scan
           /\ Gone(r, stage, q) =
                 [pressed |-> r.pressed, at |-> stage, todo |-> q, scan |-> r.scan]
<1>1. PICK pressed, at, todo, scan :
          r = [pressed |-> pressed, at |-> at, todo |-> todo, scan |-> scan]
  BY DEF IsRun
<1>2. PICK g : g = Gone(r, stage, q)
  OBVIOUS
<1>3. g = [pressed |-> pressed, at |-> stage, todo |-> q, scan |-> scan]
  BY <1>1, <1>2 DEF Gone
<1>4. /\ g.pressed = pressed /\ g.at = stage /\ g.todo = q /\ g.scan = scan
      /\ r.scan = scan /\ r.pressed = pressed
  BY <1>1, <1>3
<1>5. IsRun(g)
  BY <1>3, <1>4 DEF IsRun
<1>6. QED
  BY <1>2, <1>3, <1>4, <1>5

LEMMA IdleIsRun == IsRun(Idle) /\ Idle.at = "idle" /\ Idle.todo = <<>> /\ Idle.scan = NoScan
BY ShortLists DEF Idle, IsRun

Moves == UNCHANGED clockVars \/ Passes \/ StepBack

LEMMA TimeMoves ==
    ASSUME Reading(now, clockSteps), Moves
    PROVE  /\ Reading(now', clockSteps')
           /\ \A t : IsPast(t, now, clockSteps) => IsPast(t, now', clockSteps')
<1>1. CASE UNCHANGED clockVars
  BY <1>1 DEF clockVars
<1>2. QED
  BY <1>1, TimePasses, TimeStepsBack, Zenon DEF Moves

LEMMA StaysDated ==
    ASSUME NEW s, NEW q, NEW stage, NEW m, NEW k, NEW m2, NEW k2,
           \A t : IsPast(t, m, k) => IsPast(t, m2, k2)
    PROVE  /\ Dated(s, m, k) => Dated(s, m2, k2)
           /\ Pending(s, q, stage, m, k) => Pending(s, q, stage, m2, k2)
<1>1. Dated(s, m, k) => Dated(s, m2, k2)
  BY DEF Dated
<1>2. PublishesSnapshot(s, q, m, k) => PublishesSnapshot(s, q, m2, k2)
  BY Zenon DEF PublishesSnapshot
<1>3. QED
  BY <1>1, <1>2, Zenon DEF Pending

(* The stages that promise nothing about what is on the screen.             *)
Plain(stage) ==
    stage \notin {"build", "ledger", "track", "explain", "availability"}

LEMMA PlainIsPending ==
    ASSUME NEW s, NEW q, Harmless(q), NEW stage, Plain(stage), NEW m, NEW k
    PROVE  Pending(s, q, stage, m, k)
BY DEF Pending, Plain

LEMMA ScreenGoesOn ==
    ASSUME ScreenSound, Moves, NEW stage, NEW q, IsList(q), GoOn(stage, q),
           Pending(session, q, stage, now', clockSteps')
    PROVE  ScreenSound'
<1>1. PICK s, r, next, m, k :
          s = session /\ r = run /\ next = run' /\ m = now' /\ k = clockSteps'
  OBVIOUS
<1>2. session' = s /\ next = Gone(r, stage, q)
  BY <1>1 DEF GoOn, Gone
<1>3. IsRun(r) /\ DOMAIN s = SessionKeys /\ Consistent(s)
  BY <1>1 DEF ScreenSound
<1>4. IsRun(next) /\ next.at = stage /\ next.todo = q
  BY <1>2, <1>3, RunGoes
<1>5. Reading(m, k) /\ \A t : IsPast(t, now, clockSteps) => IsPast(t, m, k)
  BY <1>1, TimeMoves DEF ScreenSound
<1>6. Dated(s, m, k)
  BY <1>1, <1>5, StaysDated DEF ScreenSound
<1>7. Pending(s, q, stage, m, k)
  BY <1>1
<1>8. QED
  BY <1>1, <1>2, <1>3, <1>4, <1>5, <1>6, <1>7 DEF ScreenSound

LEMMA PlainStep ==
    ASSUME ScreenSound, Moves, NEW stage, Plain(stage), NEW q, IsList(q), Harmless(q),
           GoOn(stage, q)
    PROVE  ScreenSound'
<1>1. PICK m, k : m = now' /\ k = clockSteps'
  OBVIOUS
<1>2. Pending(session, q, stage, m, k)
  BY PlainIsPending
<1>3. QED
  BY <1>1, <1>2, ScreenGoesOn

LEMMA LeaveStep ==
    ASSUME ScreenSound, Moves, NEW stage, Plain(stage), Leave(stage)
    PROVE  ScreenSound'
BY ShortLists, PlainStep DEF Leave

LEMMA SameIsMilder == \A s : IsMilder(s, s)
BY DEF IsMilder

(* A step after which nothing is left to assign.                            *)
LEMMA SettledStep ==
    ASSUME ScreenSound, Moves, IsRun(run'), run'.todo = <<>>, Plain(run'.at),
           DOMAIN session' = SessionKeys, IsMilder(session', session)
    PROVE  ScreenSound'
<1>1. PICK s, t, next, stage, m, k :
          /\ s = session /\ t = session' /\ next = run' /\ stage = run'.at
          /\ m = now' /\ k = clockSteps'
  OBVIOUS
<1>2. Reading(m, k) /\ \A x : IsPast(x, now, clockSteps) => IsPast(x, m, k)
  BY <1>1, TimeMoves DEF ScreenSound
<1>3. Consistent(s) /\ Dated(s, m, k)
  BY <1>1, <1>2, StaysDated DEF ScreenSound
<1>4. Consistent(t) /\ Dated(t, m, k)
  BY <1>1, <1>3, MilderIsConsistent
<1>5. Pending(t, <<>>, stage, m, k)
  BY <1>1, ShortLists, PlainIsPending
<1>6. QED
  BY <1>1, <1>2, <1>4, <1>5 DEF ScreenSound

LEMMA EndsRun ==
    ASSUME ScreenSound, Moves, EndRun
    PROVE  ScreenSound'
<1>1. run' = Idle /\ session' = session
  BY DEF EndRun
<1>2. IsRun(run') /\ run'.todo = <<>> /\ run'.at = "idle"
  BY <1>1, IdleIsRun
<1>3. QED
  BY <1>1, <1>2, SettledStep, SameIsMilder DEF Plain, ScreenSound

(* A key that no panel of research shows.                                   *)
Unwatched == SessionKeys \ (Watched \cup {"snapshot"})

LEMMA UnwatchedIsMilder ==
    ASSUME NEW s, DOMAIN s = SessionKeys, NEW key \in Unwatched, NEW value,
           NEW t, t = [s EXCEPT ![key] = value]
    PROVE  DOMAIN t = SessionKeys /\ IsMilder(t, s)
<1>1. DOMAIN t = SessionKeys /\ \A k \in SessionKeys : k # key => t[k] = s[k]
  BY Updated DEF Unwatched
<1>2. t.snapshot = s.snapshot /\ \A k \in Watched : t[k] = s[k]
  BY <1>1, TheKeys DEF Unwatched
<1>3. QED
  BY <1>1, <1>2 DEF IsMilder, Watched

LEMMA UnwatchedKeys ==
    {"symbolInput", "pendingSymbol", "failure", "ledger", "newsService",
     "newsSnapshot", "newsFailure", "feedService", "feedSnapshot", "feedFailure",
     "universes", "universeId", "scanSnapshot", "scanFailure", "reasoningService",
     "paperError"} \subseteq Unwatched
BY TheKeys DEF Unwatched, Watched

LEMMA UnwatchedIsMild ==
    ASSUME NEW key \in Unwatched, NEW value
    PROVE  IsMild(Becomes(key, value))
BY DEF Unwatched, IsMild, Becomes

LEMMA TakingDownIsMild ==
    ASSUME NEW key \in Watched
    PROVE  IsMild(Becomes(key, None))
BY TheKeys DEF IsMild, Becomes

(* The script starts over with a change to a key nobody watches.            *)
LEMMA StartsOver ==
    ASSUME ScreenSound, Moves, StartOver, NEW key \in Unwatched, NEW value,
           session' = [session EXCEPT ![key] = value]
    PROVE  ScreenSound'
<1>1. DOMAIN session' = SessionKeys /\ IsMilder(session', session)
  BY UnwatchedIsMilder DEF ScreenSound
<1>2. IsRun(run') /\ run'.todo = <<>> /\ run'.at = "handoff"
  <2>1. run' = [pressed |-> None, at |-> "handoff", todo |-> <<>>, scan |-> NoScan]
    BY DEF StartOver, Idle
  <2>2. QED
    BY <2>1, ShortLists DEF IsRun
<1>3. QED
  BY <1>1, <1>2, SettledStep DEF Plain

LEMMA PressStep ==
    ASSUME ScreenSound, Moves, NEW button, Press(button)
    PROVE  ScreenSound'
<1>1. run' = [pressed |-> button, at |-> "handoff", todo |-> <<>>, scan |-> NoScan]
  BY DEF Press, Idle
<1>2. IsRun(run') /\ run'.todo = <<>> /\ run'.at = "handoff"
  BY <1>1, ShortLists DEF IsRun
<1>3. DOMAIN session' = SessionKeys /\ IsMilder(session', session)
  <2>1. CASE session' = session
    BY <2>1, SameIsMilder DEF ScreenSound
  <2>2. CASE \E symbol : session' = [session EXCEPT !["symbolInput"] = symbol]
    BY <2>2, UnwatchedKeys, UnwatchedIsMilder DEF ScreenSound
  <2>3. QED
    BY <2>1, <2>2 DEF Press
<1>4. QED
  BY <1>2, <1>3, SettledStep DEF Plain

LEMMA AssignStep ==
    ASSUME ScreenSound, UNCHANGED clockVars, Assign
    PROVE  ScreenSound'
<1>1. PICK s, t, r, next, q, stage, m, k :
          /\ s = session /\ t = session' /\ r = run /\ next = run' /\ q = run.todo
          /\ stage = run.at /\ m = now /\ k = clockSteps
  OBVIOUS
<1>2. /\ IsRun(r) /\ IsList(q) /\ DOMAIN s = SessionKeys
      /\ Consistent(s) /\ Dated(s, m, k) /\ Pending(s, q, stage, m, k)
  BY <1>1 DEF ScreenSound, IsRun
<1>3. q # <<>> /\ t = [s EXCEPT ![Head(q).key] = Head(q).value]
  BY <1>1 DEF Assign
<1>4. PICK rest : rest = Tail(q)
  OBVIOUS
<1>5. IsList(rest)
  BY <1>2, <1>3, <1>4, TailOfList
<1>6. IsRun(next) /\ next.at = stage /\ next.todo = rest
  <2>1. PICK pressed, scan : r = [pressed |-> pressed, at |-> stage, todo |-> q, scan |-> scan]
    BY <1>1, <1>2 DEF IsRun
  <2>2. next = [r EXCEPT !.todo = rest]
    BY <1>1, <1>4 DEF Assign
  <2>3. next = [pressed |-> pressed, at |-> stage, todo |-> rest, scan |-> scan]
    BY <2>1, <2>2
  <2>4. QED
    BY <1>5, <2>3 DEF IsRun
<1>7. /\ DOMAIN t = SessionKeys /\ Consistent(t) /\ Dated(t, m, k)
      /\ Pending(t, Tail(q), stage, m, k)
  <2> PICK u : u = t
    OBVIOUS
  <2>0. u = [s EXCEPT ![Head(q).key] = Head(q).value]
    BY <1>3
  <2>1. CASE Harmless(q)
    <3>1. /\ DOMAIN u = SessionKeys /\ Consistent(u) /\ Dated(u, m, k)
          /\ Pending(u, Tail(q), stage, m, k)
      BY <1>2, <1>3, <2>0, <2>1, HarmlessAssigned
    <3>2. QED
      BY <3>1
  <2>2. CASE stage = "ledger" /\ PublishesSnapshot(s, q, m, k)
    <3>1. /\ DOMAIN u = SessionKeys /\ Consistent(u) /\ Dated(u, m, k)
          /\ Pending(u, Tail(q), "ledger", m, k)
      BY <1>2, <2>0, <2>2, SnapshotAssigned
    <3>2. QED
      BY <2>2, <3>1
  <2> USE DEF Plain
  <2>3. CASE stage = "market" /\ ShowsOutcome(s, q)
    <3>1. /\ DOMAIN u = SessionKeys /\ Consistent(u) /\ Dated(u, m, k)
          /\ Tail(q) = <<>>
      BY <1>2, <2>0, <2>3, OutcomeAssigned
    <3>2. Pending(u, <<>>, stage, m, k)
      BY <2>3, ShortLists, PlainIsPending
    <3>3. QED
      BY <3>1, <3>2
  <2>4. CASE stage = "explained" /\ ShowsExplanation(s, q)
    <3>1. /\ DOMAIN u = SessionKeys /\ Consistent(u) /\ Dated(u, m, k)
          /\ Tail(q) = <<>>
      BY <1>2, <2>0, <2>4, ExplanationAssigned
    <3>2. Pending(u, <<>>, stage, m, k)
      BY <2>4, ShortLists, PlainIsPending
    <3>3. QED
      BY <3>1, <3>2
  <2>5. QED
    BY <1>2, <2>1, <2>2, <2>3, <2>4 DEF Pending
<1>8. Reading(m, k) /\ now' = m /\ clockSteps' = k
  BY <1>1 DEF ScreenSound, clockVars
<1>9. QED
  BY <1>1, <1>4, <1>6, <1>7, <1>8 DEF ScreenSound

(* A list of assignments to keys that nobody watches.                       *)
LEMMA UnwatchedLists ==
    ASSUME NEW a \in Unwatched, NEW b \in Unwatched, NEW v, NEW w
    PROVE  /\ IsList(<< Becomes(a, v) >>) /\ Harmless(<< Becomes(a, v) >>)
           /\ IsList(<< Becomes(a, v), Becomes(b, w) >>)
           /\ Harmless(<< Becomes(a, v), Becomes(b, w) >>)
BY ShortLists, UnwatchedIsMild

LEMMA HandoffStep ==
    ASSUME ScreenSound, UNCHANGED clockVars, Handoff
    PROVE  ScreenSound'
<1>1. Moves /\ Plain("controls")
  BY DEF Moves, Plain
<1>2. PICK v : v = session.pendingSymbol
  OBVIOUS
<1>3. PICK q : /\ q = <<>> \/ q = << Becomes("symbolInput", v), Becomes("pendingSymbol", None) >>
               /\ GoOn("controls", q)
  BY <1>2 DEF Handoff
<1>4. IsList(q) /\ Harmless(q)
  BY <1>3, ShortLists, UnwatchedLists, UnwatchedKeys
<1>5. QED
  BY <1>1, <1>3, <1>4, PlainStep

LEMMA ControlsStep ==
    ASSUME ScreenSound, UNCHANGED clockVars, Controls
    PROVE  ScreenSound'
<1>1. Moves /\ Plain("news") /\ Plain("feeds") /\ Plain("market")
  BY DEF Moves, Plain
<1>2. CASE GoOn("build", ClearedOutcome)
  <2>1. IsList(ClearedOutcome) /\ Harmless(ClearedOutcome)
    BY ShortLists, TakingDownIsMild DEF ClearedOutcome, Watched
  <2>2. \E i \in DOMAIN ClearedOutcome : ClearedOutcome[i].key = "outcomeResult"
    <3>1. ClearedOutcome[1].key = "outcomeResult" /\ 1 \in DOMAIN ClearedOutcome
      BY DEF ClearedOutcome, Becomes
    <3>2. QED
      BY <3>1
  <2>3. \E i \in DOMAIN ClearedOutcome : ClearedOutcome[i].key = "outcomeFailure"
    <3>1. ClearedOutcome[2].key = "outcomeFailure" /\ 2 \in DOMAIN ClearedOutcome
      BY DEF ClearedOutcome, Becomes
    <3>2. QED
      BY <3>1
  <2>4. PICK m, k : m = now' /\ k = clockSteps'
    OBVIOUS
  <2>5. Pending(session, ClearedOutcome, "build", m, k)
    BY <2>1, <2>2, <2>3 DEF Pending, IsTakenDown
  <2>6. QED
    BY <1>1, <1>2, <2>1, <2>4, <2>5, ScreenGoesOn
<1>3. CASE Leave("news") \/ Leave("feeds") \/ Leave("market")
  BY <1>1, <1>3, LeaveStep
<1>4. QED
  BY <1>2, <1>3 DEF Controls

(* A built snapshot is one, and it is of the moment it was built.           *)
LEMMA BuiltIsSnapshot ==
    ASSUME NEW symbol, NEW interval, NEW answer, NEW moment
    PROVE  /\ BuiltSnapshot(symbol, interval, answer, moment) # NoSnapshot
           /\ BuiltSnapshot(symbol, interval, answer, moment).builtAt = moment
<1>1. PICK observations, assessment :
          BuiltSnapshot(symbol, interval, answer, moment) =
            [symbol |-> symbol, interval |-> interval, builtAt |-> moment,
             latest |-> answer.latest, observations |-> observations,
             assessment |-> assessment]
  BY Zenon DEF BuiltSnapshot
<1>2. \A x : [symbol |-> symbol, interval |-> interval, builtAt |-> moment,
              latest |-> answer.latest, observations |-> observations,
              assessment |-> x] # [snapshot |-> "none"]
  OBVIOUS
<1>3. QED
  BY <1>1, <1>2 DEF NoSnapshot

LEMMA BuildStep ==
    ASSUME ScreenSound, Build
    PROVE  ScreenSound'
<1>1. Moves /\ Passes /\ Plain("market")
  BY DEF Moves, Plain, Build
<1>2. ASSUME NEW v, GoOn("market", << Becomes("failure", v) >>)
      PROVE  ScreenSound'
  BY <1>1, <1>2, PlainStep, UnwatchedLists, UnwatchedKeys
<1>3. ASSUME NEW new, new # NoSnapshot, new.builtAt = now,
             GoOn("ledger", << Becomes("snapshot", new), Becomes("failure", None),
                               Becomes("reasoningSnapshot", None),
                               Becomes("reasoningFailure", None) >>)
      PROVE  ScreenSound'
  <2>1. PICK q : q = << Becomes("snapshot", new), Becomes("failure", None),
                        Becomes("reasoningSnapshot", None),
                        Becomes("reasoningFailure", None) >>
    OBVIOUS
  <2>2. IsList(q) /\ Len(q) = 4 /\ q[1].value = new
    BY <2>1, ShortLists DEF Becomes
  <2>3. PICK m, k : m = now' /\ k = clockSteps'
    OBVIOUS
  <2>4. IsPast(new.builtAt, m, k)
    BY <1>1, <1>3, <2>3, TimePasses DEF ScreenSound
  <2>5. session.reasoningSnapshot # None => session.reasoningSnapshot.cutoff # new.builtAt
    BY <1>3, NowIsNew DEF ScreenSound, Dated
  <2>6. PublishesSnapshot(session, q, m, k)
    BY <1>3, <2>1, <2>2, <2>4, <2>5 DEF PublishesSnapshot
  <2>7. session.outcomeResult = None /\ session.outcomeFailure = None
    <3>1. run.at = "build" /\ run.todo = <<>>
      BY DEF Build, At
    <3>2. QED
      BY <3>1 DEF ScreenSound, Pending, IsTakenDown
  <2>8. Pending(session, q, "ledger", m, k)
    BY <2>6, <2>7 DEF Pending, IsTakenDown
  <2>9. QED
    BY <1>1, <1>3, <2>1, <2>2, <2>3, <2>8, ScreenGoesOn
<1>4. PICK answer, interval, symbol :
          \/ \E v : GoOn("market", << Becomes("failure", v) >>)
          \/ GoOn("ledger",
                  << Becomes("snapshot", BuiltSnapshot(symbol, interval, answer, now)),
                     Becomes("failure", None), Becomes("reasoningSnapshot", None),
                     Becomes("reasoningFailure", None) >>)
  BY Zenon DEF Build
<1>5. PICK new : new = BuiltSnapshot(symbol, interval, answer, now)
  OBVIOUS
<1>6. new # NoSnapshot /\ new.builtAt = now
  BY <1>5, BuiltIsSnapshot
<1>7. CASE \E v : GoOn("market", << Becomes("failure", v) >>)
  BY <1>2, <1>7
<1>8. CASE GoOn("ledger", << Becomes("snapshot", new), Becomes("failure", None),
                            Becomes("reasoningSnapshot", None),
                            Becomes("reasoningFailure", None) >>)
  BY <1>3, <1>6, <1>8
<1>9. QED
  BY <1>4, <1>5, <1>7, <1>8, Zenon

LEMMA LedgerStep ==
    ASSUME ScreenSound, UNCHANGED clockVars, ComposeLedger
    PROVE  ScreenSound'
<1>1. Moves /\ run.at = "ledger" /\ run.todo = <<>>
  BY DEF Moves, ComposeLedger, At
<1>2. PICK m, k : m = now' /\ k = clockSteps' /\ m = now /\ k = clockSteps
  BY DEF clockVars
<1>3. /\ session.outcomeResult = None /\ session.outcomeFailure = None
      /\ session.snapshot # NoSnapshot
  BY <1>1, <1>2 DEF ScreenSound, Pending, IsTakenDown, PublishesSnapshot
<1>4. ASSUME NEW q, IsList(q), Harmless(q), GoOn("track", q)
      PROVE  ScreenSound'
  <2>1. Pending(session, q, "track", m, k)
    BY <1>3, <1>4 DEF Pending, IsTakenDown
  <2>2. QED
    BY <1>1, <1>2, <1>4, <2>1, ScreenGoesOn
<1>5. ASSUME NEW q, q = << Becomes("outcomeFailure", "could not start") >>,
             GoOn("market", q)
      PROVE  ScreenSound'
  <2>1. IsList(q) /\ Len(q) = 1 /\ q[1].value = "could not start"
    BY <1>5, ShortLists DEF Becomes
  <2>2. ShowsOutcome(session, q)
    BY <1>3, <1>5, <2>1 DEF ShowsOutcome
  <2>3. Pending(session, q, "market", m, k)
    BY <2>2 DEF Pending
  <2>4. QED
    BY <1>1, <1>2, <1>5, <2>1, <2>3, ScreenGoesOn
<1>6. QED
  BY <1>4, <1>5, ShortLists, UnwatchedLists, UnwatchedKeys DEF ComposeLedger, Leave

LEMMA TrackStep ==
    ASSUME ScreenSound, UNCHANGED clockVars, Track
    PROVE  ScreenSound'
<1>1. Moves /\ run.at = "track" /\ run.todo = <<>>
  BY DEF Moves, Track, At
<1>2. PICK m, k : m = now' /\ k = clockSteps' /\ m = now /\ k = clockSteps
  BY DEF clockVars
<1>3. /\ session.outcomeResult = None /\ session.outcomeFailure = None
      /\ session.snapshot # NoSnapshot
  BY <1>1 DEF ScreenSound, Pending, IsTakenDown
<1>4. PICK key, v :
          /\ GoOn("market", << Becomes(key, v) >>)
          /\ \/ key = "outcomeFailure"
             \/ key = "outcomeResult" /\ v.of = session.snapshot
  BY DEF Track
<1>5. PICK q : q = << Becomes(key, v) >>
  OBVIOUS
<1>6. IsList(q) /\ Len(q) = 1 /\ q[1].value = v
  BY <1>5, ShortLists DEF Becomes
<1>7. ShowsOutcome(session, q)
  BY <1>3, <1>4, <1>5, <1>6 DEF ShowsOutcome
<1>8. Pending(session, q, "market", m, k)
  BY <1>7 DEF Pending
<1>9. QED
  BY <1>1, <1>2, <1>4, <1>5, <1>6, <1>8, ScreenGoesOn

LEMMA ServiceStep ==
    ASSUME ScreenSound, UNCHANGED clockVars, NEW stage, NEW outcomes,
           NEW service \in Unwatched, NEW snapshot \in Unwatched, NEW failure \in Unwatched,
           RefreshService(stage, service, snapshot, failure, outcomes)
    PROVE  ScreenSound'
<1>1. Moves /\ Plain("market")
  BY DEF Moves, Plain
<1>2. PICK v, p, q :
          /\ p = <<>> \/ p = << Becomes(service, "composed") >>
          /\ q = << Becomes(snapshot, v), Becomes(failure, None) >> \/ q = << Becomes(failure, v) >>
          /\ GoOn("market", p \o q)
  BY Zenon DEF RefreshService
<1>3. IsList(p) /\ Harmless(p) /\ IsList(q) /\ Harmless(q)
  BY <1>2, ShortLists, UnwatchedLists
<1>4. PICK all : all = p \o q
  OBVIOUS
<1>5. IsList(all) /\ Harmless(all)
  BY <1>3, <1>4, JoinedLists
<1>6. QED
  BY <1>1, <1>2, <1>4, <1>5, PlainStep

LEMMA UniverseSteps ==
    ASSUME ScreenSound, UNCHANGED clockVars,
           LoadUniverses \/ ReloadUniverses \/ SelectUniverse
    PROVE  ScreenSound'
<1>1. Moves /\ Plain("reload") /\ Plain("select") /\ Plain("scan")
  BY DEF Moves, Plain
<1>2. ASSUME NEW stage, Plain(stage), Load(stage)
      PROVE  ScreenSound'
  <2>1. PICK v, q : /\ q = <<>> \/ q = << Becomes("universes", v) >>
                    /\ GoOn(stage, q)
    BY <1>2, Zenon DEF Load
  <2>2. IsList(q) /\ Harmless(q)
    BY <2>1, ShortLists, UnwatchedLists, UnwatchedKeys
  <2>3. QED
    BY <1>1, <1>2, <2>1, <2>2, PlainStep
<1>3. CASE SelectUniverse
  <2>1. PICK v, q : /\ q = <<>> \/ q = << Becomes("universeId", v) >>
                    /\ GoOn("scan", q)
    BY <1>3, Zenon DEF SelectUniverse
  <2>2. IsList(q) /\ Harmless(q)
    BY <2>1, ShortLists, UnwatchedLists, UnwatchedKeys
  <2>3. QED
    BY <1>1, <2>1, <2>2, PlainStep
<1>4. QED
  BY <1>1, <1>2, <1>3, LeaveStep DEF LoadUniverses, ReloadUniverses

(* A run whose scan begins, and one whose scan has another row.             *)
Begun(r, scan) == [r EXCEPT !.at = "scanning", !.scan = scan]
Grown(r, row) == [r EXCEPT !.scan.rows = Append(@, row)]

LEMMA BegunRuns ==
    ASSUME NEW r, IsRun(r), NEW scan
    PROVE  /\ IsRun(Begun(r, scan)) /\ Begun(r, scan).at = "scanning"
           /\ Begun(r, scan).todo = r.todo /\ Begun(r, scan).scan = scan
<1>1. PICK pressed, at, todo, old :
          r = [pressed |-> pressed, at |-> at, todo |-> todo, scan |-> old]
  BY DEF IsRun
<1>2. PICK g : g = Begun(r, scan)
  OBVIOUS
<1>3. g = [pressed |-> pressed, at |-> "scanning", todo |-> todo, scan |-> scan]
  BY <1>1, <1>2 DEF Begun
<1>4. /\ g.pressed = pressed /\ g.at = "scanning" /\ g.todo = todo /\ g.scan = scan
      /\ r.todo = todo /\ IsList(todo)
  BY <1>1, <1>3 DEF IsRun
<1>5. IsRun(g)
  BY <1>3, <1>4 DEF IsRun
<1>6. QED
  BY <1>2, <1>4, <1>5

LEMMA GrownRuns ==
    ASSUME NEW r, IsRun(r), NEW row
    PROVE  /\ IsRun(Grown(r, row)) /\ Grown(r, row).at = r.at
           /\ Grown(r, row).todo = r.todo
           /\ Grown(r, row).scan = [r.scan EXCEPT !.rows = Append(@, row)]
<1>1. PICK pressed, at, todo, old :
          r = [pressed |-> pressed, at |-> at, todo |-> todo, scan |-> old]
  BY DEF IsRun
<1>2. r.todo = todo /\ r.at = at /\ r.scan = old /\ IsList(todo)
  BY <1>1 DEF IsRun
<1>3. PICK new : new = [old EXCEPT !.rows = Append(@, row)]
  OBVIOUS
<1>4. PICK h : h = Grown(r, row)
  OBVIOUS
<1>5. h = [pressed |-> pressed, at |-> at, todo |-> todo, scan |-> new]
  BY <1>1, <1>3, <1>4 DEF Grown
<1>6. h.pressed = pressed /\ h.at = at /\ h.todo = todo /\ h.scan = new
  BY <1>5
<1>7. IsRun(h)
  BY <1>2, <1>5, <1>6 DEF IsRun
<1>8. h.scan = [r.scan EXCEPT !.rows = Append(@, row)]
  BY <1>2, <1>3, <1>6
<1>9. QED
  BY <1>2, <1>4, <1>6, <1>7, <1>8

LEMMA ScanSteps ==
    ASSUME ScreenSound,
           \/ BeginScan \/ ScanSymbol
           \/ (ScanFails \/ PublishScan) /\ UNCHANGED clockVars
    PROVE  ScreenSound'
<1>1. Moves /\ Plain("candidates") /\ Plain("scanning")
  BY DEF Moves, Plain, BeginScan, ScanSymbol
<1>2. CASE BeginScan /\ Leave("candidates")
  BY <1>1, <1>2, LeaveStep
<1>3. ASSUME session' = session, IsRun(run'), run'.todo = <<>>, run'.at = "scanning"
      PROVE  ScreenSound'
  BY <1>1, <1>3, SettledStep, SameIsMilder DEF ScreenSound
<1>4. PICK r : r = run /\ IsRun(r)
  BY DEF ScreenSound
<1>5. CASE BeginScan /\ ~Leave("candidates")
  <2>1. PICK scan : run' = Begun(r, scan)
    BY <1>4, <1>5, Zenon DEF BeginScan, Begun
  <2>2. session' = session /\ r.todo = <<>>
    BY <1>4, <1>5 DEF BeginScan, At
  <2>3. QED
    BY <1>3, <1>4, <2>1, <2>2, BegunRuns
<1>6. CASE ScanSymbol
  <2>1. PICK row : run' = Grown(r, row)
    BY <1>4, <1>6, Zenon DEF ScanSymbol, Grown
  <2>2. session' = session /\ r.todo = <<>> /\ r.at = "scanning"
    BY <1>4, <1>6 DEF ScanSymbol, At
  <2>3. QED
    BY <1>3, <1>4, <2>1, <2>2, GrownRuns
<1>7. CASE ScanFails \/ PublishScan
  <2>1. PICK v, q : /\ \/ q = << Becomes("scanFailure", v) >>
                       \/ q = << Becomes("scanSnapshot", v), Becomes("scanFailure", None) >>
                    /\ GoOn("candidates", q)
    BY <1>7, Zenon DEF ScanFails, PublishScan
  <2>2. IsList(q) /\ Harmless(q)
    BY <2>1, UnwatchedLists, UnwatchedKeys
  <2>3. QED
    BY <1>1, <2>1, <2>2, PlainStep
<1>8. QED
  BY <1>2, <1>5, <1>6, <1>7

LEMMA CandidateSteps ==
    ASSUME ScreenSound, UNCHANGED clockVars, OpenInResearch \/ Candidates
    PROVE  ScreenSound'
<1>1. Moves /\ Plain("research")
  BY DEF Moves, Plain
<1>2. CASE OpenInResearch
  <2>1. PICK v : session' = [session EXCEPT !["pendingSymbol"] = v]
    BY <1>2 DEF OpenInResearch
  <2>2. QED
    BY <1>1, <1>2, <2>1, StartsOver, UnwatchedKeys DEF OpenInResearch
<1>3. QED
  BY <1>1, <1>2, LeaveStep DEF Candidates

LEMMA ComposeReasoningStep ==
    ASSUME ScreenSound, UNCHANGED clockVars, ComposeReasoning
    PROVE  ScreenSound'
<1>1. Moves /\ Plain("paper")
  BY DEF Moves, Plain
<1>2. PICK m, k : m = now' /\ k = clockSteps'
  OBVIOUS
<1>3. ASSUME NEW q, IsList(q), Harmless(q), GoOn("availability", q),
             session.snapshot # NoSnapshot
      PROVE  ScreenSound'
  <2>1. Pending(session, q, "availability", m, k)
    BY <1>3 DEF Pending
  <2>2. QED
    BY <1>1, <1>2, <1>3, <2>1, ScreenGoesOn
<1>4. QED
  BY <1>1, <1>3, LeaveStep, ShortLists, UnwatchedLists, UnwatchedKeys
     DEF ComposeReasoning, Leave

LEMMA AvailabilityStep ==
    ASSUME ScreenSound, UNCHANGED clockVars, Availability
    PROVE  ScreenSound'
<1>1. Moves /\ Plain("paper") /\ run.at = "availability"
  BY DEF Moves, Plain, Availability, At
<1>2. CASE GoOn("explain", ClearedExplanation)
  <2>1. IsList(ClearedExplanation) /\ Harmless(ClearedExplanation)
    BY ShortLists, TakingDownIsMild DEF ClearedExplanation, Watched
  <2>2. \E i \in DOMAIN ClearedExplanation : ClearedExplanation[i].key = "reasoningSnapshot"
    <3>1. ClearedExplanation[1].key = "reasoningSnapshot" /\ 1 \in DOMAIN ClearedExplanation
      BY DEF ClearedExplanation, Becomes
    <3>2. QED
      BY <3>1
  <2>3. \E i \in DOMAIN ClearedExplanation : ClearedExplanation[i].key = "reasoningFailure"
    <3>1. ClearedExplanation[2].key = "reasoningFailure" /\ 2 \in DOMAIN ClearedExplanation
      BY DEF ClearedExplanation, Becomes
    <3>2. QED
      BY <3>1
  <2>4. PICK m, k : m = now' /\ k = clockSteps'
    OBVIOUS
  <2>5. session.snapshot # NoSnapshot
    BY <1>1 DEF ScreenSound, Pending
  <2>6. Pending(session, ClearedExplanation, "explain", m, k)
    BY <2>1, <2>2, <2>3, <2>5 DEF Pending, IsTakenDown
  <2>7. QED
    BY <1>1, <1>2, <2>1, <2>4, <2>6, ScreenGoesOn
<1>3. QED
  BY <1>1, <1>2, EndsRun, LeaveStep DEF Availability

(* A trusted explanation has the evidence it was given and cites nothing    *)
(* else.                                                                    *)
LEMMA ExplanationBelongs ==
    ASSUME NEW snapshot, NEW reply, NEW moment,
           ~ValidationFails(reply, Packet(snapshot))
    PROVE  /\ BelongsTo(Explanation(Packet(snapshot), reply, moment), snapshot)
           /\ Explanation(Packet(snapshot), reply, moment).cutoff = snapshot.builtAt
<1>1. PICK packet : packet = Packet(snapshot)
  OBVIOUS
<1>2. packet.cutoff = snapshot.builtAt
  BY <1>1 DEF Packet
<1>3. PICK statements : statements = ToSet(Statements(reply))
  OBVIOUS
<1>4. \A s \in statements : ToSet(s.cites) \subseteq EvidenceIds(packet)
  BY <1>1, <1>3 DEF ValidationFails, GroundingFails
<1>5. UNION {ToSet(s.cites) : s \in statements} \subseteq EvidenceIds(packet)
  BY <1>4
<1>6. PICK x : x = Explanation(packet, reply, moment)
  OBVIOUS
<1>7. /\ x.evidence = packet /\ x.cutoff = packet.cutoff
      /\ x.cited = UNION {ToSet(s.cites) : s \in statements}
  BY <1>3, <1>6 DEF Explanation
<1>8. BelongsTo(x, snapshot)
  BY <1>1, <1>5, <1>7, Zenon DEF BelongsTo
<1>9. QED
  BY <1>1, <1>2, <1>6, <1>7, <1>8

LEMMA ExplainStep ==
    ASSUME ScreenSound, UNCHANGED clockVars, Explain
    PROVE  ScreenSound'
<1>1. Moves /\ Plain("raised") /\ run.at = "explain" /\ run.todo = <<>>
  BY DEF Moves, Plain, Explain, At
<1>2. PICK m, k : m = now' /\ k = clockSteps'
  OBVIOUS
<1>3. /\ session.snapshot # NoSnapshot
      /\ session.reasoningSnapshot = None /\ session.reasoningFailure = None
  BY <1>1 DEF ScreenSound, Pending, IsTakenDown
<1>4. ASSUME NEW key, NEW v, GoOn("explained", << Becomes(key, v) >>),
             \/ key = "reasoningFailure"
             \/ key = "reasoningSnapshot" /\ BelongsTo(v, session.snapshot)
                /\ v.cutoff = session.snapshot.builtAt
      PROVE  ScreenSound'
  <2>1. PICK q : q = << Becomes(key, v) >>
    OBVIOUS
  <2>2. IsList(q) /\ Len(q) = 1 /\ q[1].value = v
    BY <2>1, ShortLists DEF Becomes
  <2>3. ShowsExplanation(session, q)
    BY <1>3, <1>4, <2>1, <2>2 DEF ShowsExplanation
  <2>4. Pending(session, q, "explained", m, k)
    BY <2>3 DEF Pending
  <2>5. QED
    BY <1>1, <1>2, <1>4, <2>1, <2>2, <2>4, ScreenGoesOn
<1>5. PICK reply :
          \/ Leave("raised")
          \/ \E v : GoOn("explained", << Becomes("reasoningFailure", v) >>)
          \/ /\ ~ValidationFails(reply, Packet(session.snapshot))
             /\ GoOn("explained",
                     << Becomes("reasoningSnapshot",
                                Explanation(Packet(session.snapshot), reply, now)) >>)
  BY Zenon DEF Explain, ShowFailure
<1>6. CASE Leave("raised")
  BY <1>1, <1>6, LeaveStep
<1>7. CASE \E v : GoOn("explained", << Becomes("reasoningFailure", v) >>)
  BY <1>4, <1>7
<1>8. CASE /\ ~ValidationFails(reply, Packet(session.snapshot))
           /\ GoOn("explained",
                   << Becomes("reasoningSnapshot",
                              Explanation(Packet(session.snapshot), reply, now)) >>)
  <2>1. PICK v, snapshot :
            /\ snapshot = session.snapshot
            /\ v = Explanation(Packet(snapshot), reply, now)
    OBVIOUS
  <2>2. BelongsTo(v, snapshot) /\ v.cutoff = snapshot.builtAt
    BY <1>8, <2>1, ExplanationBelongs
  <2>3. QED
    BY <1>4, <1>8, <2>1, <2>2
<1>9. QED
  BY <1>5, <1>6, <1>7, <1>8

LEMMA PaperSteps ==
    ASSUME ScreenSound, UNCHANGED clockVars, Mint \/ SubmitOpen \/ SubmitClose
    PROVE  ScreenSound'
<1>1. Moves /\ Plain("submit")
  BY DEF Moves, Plain
<1>2. CASE Mint
  BY <1>1, <1>2, LeaveStep DEF Mint
<1>3. CASE SubmitOpen \/ SubmitClose
  <2>1. PICK v : session' = [session EXCEPT !["paperError"] = v]
    BY <1>3 DEF SubmitOpen, SubmitClose
  <2>2. StartOver
    BY <1>3 DEF SubmitOpen, SubmitClose
  <2>3. QED
    BY <1>1, <2>1, <2>2, StartsOver, UnwatchedKeys
<1>4. QED
  BY <1>2, <1>3

LEMMA WaitingStep ==
    ASSUME ScreenSound, Moves, UNCHANGED sessionVars
    PROVE  ScreenSound'
<1>1. PICK s, q, stage, m, k :
          /\ s = session /\ q = run.todo /\ stage = run.at
          /\ m = now' /\ k = clockSteps'
  OBVIOUS
<1>2. Reading(m, k) /\ \A x : IsPast(x, now, clockSteps) => IsPast(x, m, k)
  BY <1>1, TimeMoves DEF ScreenSound
<1>3. Dated(s, m, k) /\ Pending(s, q, stage, m, k)
  BY <1>1, <1>2, StaysDated DEF ScreenSound
<1>4. QED
  BY <1>1, <1>2, <1>3 DEF ScreenSound, sessionVars

LEMMA ScriptStep ==
    ASSUME ScreenSound, UNCHANGED clockVars, Step
    PROVE  ScreenSound'
<1>1. Moves
  BY DEF Moves
<1>2. CASE (\E button \in Buttons : Press(button)) \/ Assign \/ Handoff \/ Controls
  BY <1>1, <1>2, PressStep, AssignStep, HandoffStep, ControlsStep
<1>3. CASE Abandon \/ Raised \/ Finish
  BY <1>1, <1>3, EndsRun DEF Abandon, Raised, Finish
<1>4. CASE ComposeLedger \/ Track
  BY <1>4, LedgerStep, TrackStep
<1>5. CASE RefreshNews
  BY <1>5, ServiceStep, UnwatchedKeys DEF RefreshNews
<1>6. CASE RefreshFeeds
  BY <1>6, ServiceStep, UnwatchedKeys DEF RefreshFeeds
<1>7. CASE LoadUniverses \/ ReloadUniverses \/ SelectUniverse
  BY <1>7, UniverseSteps
<1>8. CASE ScanFails \/ PublishScan
  BY <1>8, ScanSteps
<1>9. CASE OpenInResearch \/ Candidates
  BY <1>9, CandidateSteps
<1>10. CASE ComposeReasoning \/ Availability \/ Explain
  BY <1>10, ComposeReasoningStep, AvailabilityStep, ExplainStep
<1>11. CASE Explained
  BY <1>1, <1>11, LeaveStep DEF Explained, Plain
<1>12. QED
  BY <1>2, <1>3, <1>4, <1>5, <1>6, <1>7, <1>8, <1>9, <1>10, <1>11 DEF Step

LEMMA InitialScreen ==
    ASSUME Init
    PROVE  ScreenSound
<1>1. run = Idle /\ session = EmptySession /\ now = 0 /\ clockSteps = 0
  BY DEF Init, PaperInit
<1>2. IsRun(run) /\ run.todo = <<>> /\ Plain(run.at)
  BY <1>1, IdleIsRun DEF Plain
<1>3. DOMAIN session = SessionKeys
  BY <1>1 DEF SessionKeys
<1>4. /\ session.snapshot = NoSnapshot /\ session.outcomeResult = None
      /\ session.outcomeFailure = None /\ session.reasoningSnapshot = None
      /\ session.reasoningFailure = None
  BY <1>1 DEF EmptySession
<1>5. Consistent(session) /\ Dated(session, now, clockSteps)
  BY <1>4 DEF Consistent, Dated
<1>6. Reading(now, clockSteps)
  BY <1>1 DEF Reading
<1>7. PICK stage : stage = run.at /\ Plain(stage)
  BY <1>2
<1>8. Pending(session, <<>>, stage, now, clockSteps)
  BY <1>7, ShortLists, PlainIsPending
<1>9. QED
  BY <1>2, <1>3, <1>5, <1>6, <1>7, <1>8 DEF ScreenSound

LEMMA ScreenStaysSound ==
    ASSUME ScreenSound, [Next]_dashboardVars
    PROVE  ScreenSound'
<1>1. CASE Step /\ UNCHANGED clockVars
  BY <1>1, ScriptStep
<1>2. CASE Build
  BY <1>2, BuildStep
<1>3. CASE BeginScan \/ ScanSymbol
  BY <1>3, ScanSteps
<1>4. CASE (Mint \/ SubmitOpen \/ SubmitClose) /\ UNCHANGED clockVars
  BY <1>4, PaperSteps
<1>5. CASE (StepBack \/ Tick \/ UNCHANGED clockVars) /\ UNCHANGED sessionVars
  BY <1>5, WaitingStep DEF Moves, Tick
<1>6. QED
  BY <1>1, <1>2, <1>3, <1>4, <1>5 DEF Next, dashboardVars, sessionVars

(* However the presses, the failures and the abandoned scripts interleave,  *)
(* and with the clock set back: the outcome status is that of the snapshot  *)
(* beside it, an explanation shown as current read this evidence and cites  *)
(* nothing else, and no success stands beside a failure of the same thing   *)
(* (refresh and explain_with_ai of src/dashboard/app.py).                   *)
THEOREM ScreenBelongs == Spec => []ShownBelongsToSnapshot
<1>1. ScreenSound => ShownBelongsToSnapshot
  BY DEF ScreenSound, Consistent, BelongsTo, ShownBelongsToSnapshot
<1>2. Init => ScreenSound
  BY InitialScreen
<1>3. ScreenSound /\ [Next]_dashboardVars => ScreenSound'
  BY ScreenStaysSound
<1>4. QED
  BY <1>1, <1>2, <1>3, PTL DEF Spec

-----------------------------------------------------------------------------
(* Scans.                                                                   *)

(* What a research build answers for a symbol, as a row of a scan: it falls *)
(* under one count, and has a rank when, and only when, it was assessed.    *)
Assessable == {"unanimous_directional", "directional_with_neutral", "conflicted", "neutral"}
IsRowOf(row, symbol) ==
    /\ row.symbol = symbol
    /\ \/ /\ row.error = NoError
          /\ row.eligibility \in {"eligible", "no_data", "insufficient_evidence"}
       \/ row.error \in ErrorCodes /\ row.eligibility = Undetermined
    /\ row.eligibility # "eligible" => row.category = "not_assessable"
    /\ row.eligibility = "eligible" =>
            /\ row.category \in Assessable
            /\ row.classifying \in Nat
            /\ row.latest = NoBars \/ row.latest \in Nat

(* The ensemble is classified member by member.                             *)
LEMMA CountsAreNatural ==
    ASSUME NEW observations, DOMAIN observations = DOMAIN Ensemble
    PROVE  Sufficient(Tally(observations)) \in Nat
<1>1. ASSUME NEW state
      PROVE  Cardinality({i \in DOMAIN observations : observations[i].state = state}) \in Nat
  <2>1. PICK n \in Int : DOMAIN observations = 1 .. n
    BY DEF Ensemble
  <2>2. IsFiniteSet(DOMAIN observations)
    BY <2>1, FS_Interval
  <2>3. PICK those : those = {i \in DOMAIN observations : observations[i].state = state}
    OBVIOUS
  <2>4. those \in SUBSET DOMAIN observations
    BY <2>3
  <2>5. Cardinality(those) \in Nat
    BY <2>2, <2>4, FS_Subset, FS_CardinalityType
  <2>6. QED
    BY <2>3, <2>5
<1>2. PICK counts : counts = Tally(observations)
  OBVIOUS
<1>3. \A state \in ResearchStates : counts[state] \in Nat
  BY <1>1, <1>2 DEF Tally
<1>4. counts["bullish"] \in Nat /\ counts["bearish"] \in Nat /\ counts["neutral"] \in Nat
  BY <1>3 DEF ResearchStates
<1>5. QED
  BY <1>2, <1>4 DEF Sufficient

LEMMA CategoryIsAssessable ==
    ASSUME NEW assessment, assessment # NoAssessment, assessment.state # "insufficient_data"
    PROVE  CategoryFor(assessment) \in Assessable
BY DEF CategoryFor, Assessable

(* A build that did not fail had an empty series, or bars of every member.  *)
LEMMA BuiltIsRow ==
    ASSUME NEW symbol, NEW interval, NEW answer, IsAnswer(answer), NEW moment,
           ~BuildFails(symbol, answer)
    PROVE  IsRowOf(ResultFor(BuiltSnapshot(symbol, interval, answer, moment)), symbol)
<1>1. PICK observations : observations = Observe(symbol, interval, answer)
  OBVIOUS
<1>2. PICK snapshot : snapshot = BuiltSnapshot(symbol, interval, answer, moment)
  OBVIOUS
<1>3. /\ snapshot.symbol = symbol /\ snapshot.latest = answer.latest
      /\ snapshot.assessment = IF answer.latest = NoBars THEN NoAssessment
                               ELSE Assess(observations, DashboardPolicy)
  BY <1>1, <1>2 DEF BuiltSnapshot
<1>4. PICK row : row = ResultFor(snapshot)
  OBVIOUS
<1>5. PICK eligibility : eligibility = EligibilityFor(snapshot)
  OBVIOUS
<1>6. /\ row.symbol = symbol /\ row.error = NoError /\ row.eligibility = eligibility
      /\ row.latest = answer.latest
      /\ eligibility = "eligible" =>
            /\ row.category = CategoryFor(snapshot.assessment)
            /\ snapshot.assessment # NoAssessment =>
                    row.classifying = Sufficient(snapshot.assessment.counts)
      /\ eligibility # "eligible" => row.category = "not_assessable"
  BY <1>3, <1>4, <1>5 DEF ResultFor
<1>7. eligibility \in {"eligible", "no_data", "insufficient_evidence"}
  BY <1>5 DEF EligibilityFor
<1>8. eligibility = "eligible" =>
            /\ snapshot.assessment # NoAssessment
            /\ snapshot.assessment.state # "insufficient_data"
  BY <1>5 DEF EligibilityFor
<1>9. ASSUME eligibility = "eligible"
      PROVE  row.classifying \in Nat /\ row.latest \in Nat
  <2>1. answer.latest # NoBars /\ snapshot.assessment = Assess(observations, DashboardPolicy)
    BY <1>3, <1>8, <1>9
  <2>2. answer # EmptyAnswer /\ "raises" \notin DOMAIN answer
    BY <2>1 DEF EmptyAnswer, BuildFails
  <2>3. answer.latest \in Nat /\ answer.states \in [DOMAIN Ensemble -> ResearchStates]
    BY <2>2 DEF IsAnswer
  <2>4. DOMAIN observations = DOMAIN Ensemble
    BY <1>1, <2>3 DEF Observe
  <2>5. snapshot.assessment.counts = Tally(observations)
    BY <2>1 DEF Assess
  <2>6. QED
    BY <1>6, <1>8, <1>9, <2>3, <2>4, <2>5, CountsAreNatural
<1>10. eligibility = "eligible" => row.category \in Assessable
  BY <1>6, <1>8, CategoryIsAssessable
<1>11. IsRowOf(row, symbol)
  BY <1>6, <1>7, <1>9, <1>10 DEF IsRowOf
<1>12. QED
  BY <1>2, <1>4, <1>11

LEMMA ScannedIsRow ==
    ASSUME NEW symbol, NEW interval, NEW answer, IsAnswer(answer), NEW moment
    PROVE  IsRowOf(ScanOne(symbol, interval, answer, moment), symbol)
<1>1. CASE BuildFails(symbol, answer)
  <2>1. PICK code : code = ErrorFor(BuildFailure(symbol, answer))
    OBVIOUS
  <2>2. code \in ErrorCodes
    BY <2>1 DEF ErrorFor, ErrorCodes
  <2>3. ScanOne(symbol, interval, answer, moment) = ErrorResult(symbol, code, moment)
    BY <1>1, <2>1, Zenon DEF ScanOne
  <2>4. PICK row : row = ErrorResult(symbol, code, moment)
    OBVIOUS
  <2>5. /\ row.symbol = symbol /\ row.error = code /\ row.eligibility = Undetermined
        /\ row.category = "not_assessable"
    BY <2>4 DEF ErrorResult
  <2>6. QED
    BY <2>2, <2>3, <2>4, <2>5 DEF IsRowOf, Undetermined
<1>2. CASE ~BuildFails(symbol, answer)
  BY <1>2, BuiltIsRow, Zenon DEF ScanOne
<1>3. QED
  BY <1>1, <1>2

(* A universe names each of its symbols once.                               *)
IsProper(symbols) == symbols \in Seq(Symbols) /\ IsInjective(symbols)
AreUniverses(universes) ==
    universes # None =>
        /\ DOMAIN universes \subseteq Nat
        /\ \A i \in DOMAIN universes : IsProper(universes[i].symbols)

LEMMA NormalizedIsProper ==
    ASSUME NEW raws
    PROVE  IsProper(NormalizedSymbols(SymbolOrder, raws))
<1>1. SymbolOrder \in Seq(Symbols) /\ IsInjective(SymbolOrder)
  BY DashboardAssumption
<1>2. PICK wanted : wanted = {i \in DOMAIN SymbolOrder :
                                 \E j \in DOMAIN raws : raws[j].name = SymbolOrder[i]}
  OBVIOUS
<1>3. wanted \in SUBSET Int /\ IsFiniteSet(wanted)
  <2>1. PICK n \in Nat : DOMAIN SymbolOrder = 1 .. n
    BY <1>1
  <2>2. wanted \in SUBSET (1 .. n)
    BY <1>2, <2>1
  <2>3. IsFiniteSet(wanted)
    <3>1. PICK places : places = 1 .. n /\ IsFiniteSet(places)
      BY <2>1, FS_Interval
    <3>2. QED
      BY <2>2, <3>1, FS_Subset
  <2>4. QED
    BY <2>2, <2>3
<1>4. PICK n, order : n = Cardinality(wanted) /\ order = Ascending(wanted)
  OBVIOUS
<1>5. /\ n \in Nat /\ order \in Seq(wanted) /\ DOMAIN order = 1 .. n
      /\ \A i, j \in 1 .. n : i < j => order[i] < order[j]
  BY <1>3, <1>4, AscendingProperties
<1>6. \A i \in 1 .. n : order[i] \in DOMAIN SymbolOrder /\ order[i] \in Int
  BY <1>2, <1>3, <1>5
<1>7. PICK symbols : symbols = [k \in 1 .. n |-> SymbolOrder[order[k]]]
  OBVIOUS
<1>8. symbols \in Seq(Symbols)
  <2>1. \A i \in 1 .. n : SymbolOrder[order[i]] \in Symbols
    BY <1>1, <1>6
  <2>2. QED
    BY <1>5, <1>7, <2>1
<1>9. ASSUME NEW i \in 1 .. n, NEW j \in 1 .. n, symbols[i] = symbols[j]
      PROVE  i = j
  <2>1. order[i] = order[j]
    BY <1>1, <1>6, <1>7, <1>9 DEF IsInjective
  <2>2. QED
    BY <1>5, <1>6, <2>1
<1>10. IsInjective(symbols)
  BY <1>7, <1>9 DEF IsInjective
<1>11. QED
  BY <1>2, <1>4, <1>7, <1>8, <1>10, Zenon DEF NormalizedSymbols, IsProper

LEMMA ConfiguredAreUniverses ==
    ASSUME NEW file, IsFile(file), ~ConfigurationFails(file)
    PROVE  AreUniverses(Configuration(SymbolOrder, file))
<1>1. CASE file = Absent
  BY <1>1 DEF Configuration, AreUniverses
<1>2. CASE file # Absent
  <2>1. DOMAIN file = 1 .. Len(file)
    BY <1>2 DEF IsFile, ConfigurationFails
  <2>2. PICK universes : universes = [i \in DOMAIN file |-> BuildUniverse(SymbolOrder, file[i])]
    OBVIOUS
  <2>3. \A i \in DOMAIN file : universes[i].symbols = NormalizedSymbols(SymbolOrder, file[i].symbols)
    BY <2>2 DEF BuildUniverse
  <2>4. AreUniverses(universes)
    BY <2>1, <2>2, <2>3, NormalizedIsProper DEF AreUniverses
  <2>5. QED
    BY <1>2, <2>2, <2>4 DEF Configuration
<1>3. QED
  BY <1>1, <1>2

LEMMA ChosenIsProper ==
    ASSUME NEW universes, universes # None, AreUniverses(universes), NEW id,
           ChosenUniverse(universes, id) # NoUniverse
    PROVE  IsProper(ChosenUniverse(universes, id).symbols)
<1>1. PICK enabled, named :
          /\ enabled = Enabled(universes)
          /\ named = {i \in enabled : universes[i].id = id}
  OBVIOUS
<1>2. enabled \in SUBSET Nat /\ enabled \subseteq DOMAIN universes
  BY <1>1 DEF Enabled, AreUniverses
<1>3. enabled # {}
  BY <1>1, Zenon DEF ChosenUniverse
<1>4. CASE named # {}
  <2>1. (CHOOSE i \in named : TRUE) \in named
    BY <1>4
  <2>2. ChosenUniverse(universes, id) = universes[CHOOSE i \in named : TRUE]
    BY <1>1, <1>3, <1>4, Zenon DEF ChosenUniverse
  <2>3. QED
    BY <1>1, <1>2, <2>1, <2>2 DEF AreUniverses
<1>5. CASE named = {}
  <2>1. (CHOOSE i \in enabled : \A j \in enabled : i <= j) \in enabled
    BY <1>2, <1>3, LeastExists, Zenon
  <2>2. ChosenUniverse(universes, id) =
            universes[CHOOSE i \in enabled : \A j \in enabled : i <= j]
    BY <1>1, <1>3, <1>5, Zenon DEF ChosenUniverse
  <2>3. QED
    BY <1>2, <2>1, <2>2 DEF AreUniverses
<1>6. QED
  BY <1>4, <1>5

(* The rank of a row.  Keys are compared column by column; the last column, *)
(* the symbol, leaves no two rows of a scan alike.                          *)
Columns(a, b) ==
    \/ a[1] < b[1]
    \/ a[1] = b[1] /\ a[2] < b[2]
    \/ a[1] = b[1] /\ a[2] = b[2] /\ a[3] < b[3]
    \/ a[1] = b[1] /\ a[2] = b[2] /\ a[3] = b[3] /\ a[4] < b[4]
IsKey(key) ==
    /\ DOMAIN key = 1 .. 4
    /\ key[1] \in Int /\ key[2] \in Int /\ key[3] \in Int /\ key[4] \in Int

LEMMA PrecedesByColumn ==
    ASSUME NEW a, NEW b, IsKey(a)
    PROVE  Precedes(a, b) <=> Columns(a, b)
<1>1. ASSUME NEW i \in 1 .. 4, a[i] < b[i], \A j \in 1 .. i - 1 : a[j] = b[j]
      PROVE  Columns(a, b)
  BY <1>1 DEF Columns
<1>2. ASSUME Columns(a, b)
      PROVE  \E i \in 1 .. 4 : a[i] < b[i] /\ \A j \in 1 .. i - 1 : a[j] = b[j]
  <2>1. CASE a[1] < b[1]
    <3>1. \A j \in 1 .. 1 - 1 : a[j] = b[j]
      OBVIOUS
    <3>2. QED
      BY <2>1, <3>1
  <2>2. CASE a[1] = b[1] /\ a[2] < b[2]
    <3>1. \A j \in 1 .. 2 - 1 : a[j] = b[j]
      BY <2>2
    <3>2. QED
      BY <2>2, <3>1
  <2>3. CASE a[1] = b[1] /\ a[2] = b[2] /\ a[3] < b[3]
    <3>1. \A j \in 1 .. 3 - 1 : a[j] = b[j]
      BY <2>3
    <3>2. QED
      BY <2>3, <3>1
  <2>4. CASE a[1] = b[1] /\ a[2] = b[2] /\ a[3] = b[3] /\ a[4] < b[4]
    <3>1. \A j \in 1 .. 4 - 1 : a[j] = b[j]
      BY <2>4
    <3>2. QED
      BY <2>4, <3>1
  <2>5. QED
    BY <1>2, <2>1, <2>2, <2>3, <2>4 DEF Columns
<1>3. QED
  BY <1>1, <1>2 DEF Precedes, IsKey

LEMMA ColumnsAreOrdered ==
    /\ \A a : IsKey(a) => ~Columns(a, a)
    /\ \A a, b, c : IsKey(a) /\ IsKey(b) /\ IsKey(c) /\ Columns(a, b) /\ Columns(b, c) =>
            Columns(a, c)
    /\ \A a, b : IsKey(a) /\ IsKey(b) /\ a[4] # b[4] => Columns(a, b) \/ Columns(b, a)
BY DEF IsKey, Columns

(* The rows that were assessed, and which of two comes first.               *)
IsOfScan(universe, rows) ==
    /\ IsProper(universe.symbols) /\ IsList(rows)
    /\ DOMAIN rows \subseteq DOMAIN universe.symbols
    /\ \A i \in DOMAIN rows : IsRowOf(rows[i], universe.symbols[i])
Assessed(rows) == {i \in DOMAIN rows : IsEligible(rows[i])}
Before(universe, rows) ==
    {p \in Assessed(rows) \X Assessed(rows) : IsBefore(universe, rows, p[1], p[2])}

LEMMA RanksAreKeys ==
    ASSUME NEW universe, NEW rows, IsOfScan(universe, rows), NEW i \in Assessed(rows)
    PROVE  IsKey(RankKey(universe, rows[i])) /\ RankKey(universe, rows[i])[4] = i
<1>1. PICK row : row = rows[i] /\ IsRowOf(row, universe.symbols[i]) /\ row.eligibility = "eligible"
  BY DEF IsOfScan, Assessed, IsEligible
<1>2. PICK category : category = CategoryRank(row.category) /\ category \in Int
  <2>1. \E k \in DOMAIN CategoryOrder : CategoryOrder[k] = row.category
    <3>1. /\ DOMAIN CategoryOrder = 1 .. 5
          /\ CategoryOrder[1] = "unanimous_directional"
          /\ CategoryOrder[2] = "directional_with_neutral"
          /\ CategoryOrder[3] = "conflicted" /\ CategoryOrder[4] = "neutral"
      BY DEF CategoryOrder
    <3>2. row.category \in {CategoryOrder[1], CategoryOrder[2], CategoryOrder[3],
                            CategoryOrder[4]}
      BY <1>1, <3>1 DEF IsRowOf, Assessable
    <3>3. QED
      BY <3>1, <3>2
  <2>2. CategoryRank(row.category) \in DOMAIN CategoryOrder
    BY <2>1, Zenon DEF CategoryRank
  <2>3. DOMAIN CategoryOrder \subseteq Int
    BY DEF CategoryOrder
  <2>4. QED
    BY <2>2, <2>3
<1>3. PICK symbol : symbol = SymbolRank(universe, row.symbol) /\ symbol = i /\ symbol \in Int
  <2>1. PICK symbols : symbols = universe.symbols /\ symbols \in Seq(Symbols)
                       /\ IsInjective(symbols) /\ i \in DOMAIN symbols
    BY DEF IsOfScan, IsProper, Assessed
  <2>2. row.symbol = symbols[i]
    BY <1>1, <2>1 DEF IsRowOf
  <2>3. PICK k : k = (CHOOSE j \in DOMAIN symbols : symbols[j] = symbols[i])
                 /\ k \in DOMAIN symbols /\ symbols[k] = symbols[i]
    BY <2>1
  <2>4. k = i
    BY <2>1, <2>3 DEF IsInjective
  <2>5. SymbolRank(universe, row.symbol) = i
    BY <2>1, <2>2, <2>3, <2>4, Zenon DEF SymbolRank
  <2>6. i \in Int
    BY <2>1
  <2>7. QED
    BY <2>5, <2>6
<1>4. PICK classifying : classifying = 0 - row.classifying /\ classifying \in Int
  BY <1>1 DEF IsRowOf
<1>5. PICK latest : /\ latest = IF row.latest = NoBars THEN 0 ELSE 0 - row.latest
                    /\ latest \in Int
  BY <1>1 DEF IsRowOf
<1>6. RankKey(universe, rows[i]) = <<category, classifying, latest, symbol>>
  BY <1>1, <1>2, <1>3, <1>4, <1>5, Zenon DEF RankKey
<1>7. PICK key : key = <<category, classifying, latest, symbol>>
  OBVIOUS
<1>8. /\ DOMAIN key = 1 .. 4 /\ key[1] = category /\ key[2] = classifying
      /\ key[3] = latest /\ key[4] = symbol
  BY <1>7
<1>9. QED
  BY <1>2, <1>3, <1>4, <1>5, <1>6, <1>7, <1>8 DEF IsKey

LEMMA BeforeIsOrder ==
    ASSUME NEW universe, NEW rows, IsOfScan(universe, rows)
    PROVE  /\ IsOrder(Assessed(rows), Before(universe, rows))
           /\ \A i, j \in Assessed(rows) : <<i, j>> \in Before(universe, rows) =>
                 Precedes(RankKey(universe, rows[i]), RankKey(universe, rows[j]))
<1> DEFINE key(i) == RankKey(universe, rows[i])
<1>1. \A i \in Assessed(rows) : IsKey(key(i)) /\ key(i)[4] = i
  BY RanksAreKeys
<1>2. \A i, j \in Assessed(rows) :
          <<i, j>> \in Before(universe, rows) <=> IsBefore(universe, rows, i, j)
  BY DEF Before
<1>3. \A i \in Assessed(rows) : i \in Int
  BY <1>1 DEF IsKey
<1>4. ASSUME NEW i \in Assessed(rows), NEW j \in Assessed(rows)
      PROVE  /\ Precedes(key(i), key(j)) <=> Columns(key(i), key(j))
             /\ <<i, j>> \in Before(universe, rows) <=> Columns(key(i), key(j))
  <2>1. Precedes(key(i), key(j)) <=> Columns(key(i), key(j))
    BY <1>1, PrecedesByColumn
  <2>2. key(i) = key(j) => i = j
    BY <1>1
  <2>3. ~(i = j /\ i < j)
    BY <1>3
  <2>4. QED
    BY <1>2, <2>1, <2>2, <2>3 DEF IsBefore
<1> HIDE DEF key
<1>5. \A i \in Assessed(rows) : <<i, i>> \notin Before(universe, rows)
  BY <1>1, <1>4, ColumnsAreOrdered
<1>6. ASSUME NEW i \in Assessed(rows), NEW j \in Assessed(rows), NEW k \in Assessed(rows),
             <<i, j>> \in Before(universe, rows), <<j, k>> \in Before(universe, rows)
      PROVE  <<i, k>> \in Before(universe, rows)
  BY <1>1, <1>4, <1>6, ColumnsAreOrdered
<1>7. ASSUME NEW i \in Assessed(rows), NEW j \in Assessed(rows), i # j
      PROVE  <<i, j>> \in Before(universe, rows) \/ <<j, i>> \in Before(universe, rows)
  BY <1>1, <1>4, <1>7, ColumnsAreOrdered
<1>8. IsOrder(Assessed(rows), Before(universe, rows))
  BY <1>5, <1>6, <1>7 DEF IsOrder
<1>9. QED
  BY <1>4, <1>8 DEF key

LEMMA ScansAreRanked ==
    ASSUME NEW scan, IsOfScan(scan.universe, scan.results)
    PROVE  IsRanked(scan)
<1>1. PICK rows, universe : rows = scan.results /\ universe = scan.universe
  OBVIOUS
<1>2. PICK S, R : S = Assessed(rows) /\ R = Before(universe, rows)
  OBVIOUS
<1>3. IsFiniteSet(S)
  <2>1. PICK T : rows \in Seq(T)
    BY <1>1 DEF IsOfScan, IsList
  <2>2. PICK n \in Nat : DOMAIN rows = 1 .. n
    BY <2>1
  <2>3. S \in SUBSET DOMAIN rows
    BY <1>2 DEF Assessed
  <2>4. QED
    BY <2>2, <2>3, FS_Interval, FS_Subset
<1>4. IsOrder(S, R) /\ \A i, j \in S : <<i, j>> \in R =>
          Precedes(RankKey(universe, rows[i]), RankKey(universe, rows[j]))
  BY <1>1, <1>2, BeforeIsOrder
<1>5. PICK n, order : n = Cardinality(S) /\ order = Ranked(S, R)
  OBVIOUS
<1>6. /\ n \in Nat
      /\ \A k \in 1 .. n : order[k] \in S
      /\ \A x \in S : \E k \in 1 .. n : order[k] = x
      /\ \A i, j \in 1 .. n : i < j => <<order[i], order[j]>> \in R
  BY <1>3, <1>4, <1>5, RankedProperties
<1>7. PICK ranked : ranked = OrderedRows(scan)
  OBVIOUS
<1>8. ranked = [k \in 1 .. n |-> rows[order[k]]]
  BY <1>1, <1>2, <1>5, <1>7, Zenon DEF OrderedRows, Assessed, Before
<1>9. \A i \in DOMAIN rows :
          i \in S <=> rows[i].error = NoError /\ rows[i].category # "not_assessable"
  BY <1>1, <1>2 DEF IsOfScan, IsRowOf, Assessed, IsEligible, Assessable,
     ErrorCodes, NoError, Undetermined
<1>10. S \subseteq DOMAIN rows
  BY <1>2 DEF Assessed
<1>11. ToSet(ranked) = {row \in ToSet(rows) :
                            row.error = NoError /\ row.category # "not_assessable"}
  <2>1. ASSUME NEW row \in ToSet(ranked)
        PROVE  row \in ToSet(rows) /\ row.error = NoError /\ row.category # "not_assessable"
    <3>1. PICK k \in 1 .. n : row = rows[order[k]]
      BY <1>8, <2>1 DEF ToSet
    <3>2. QED
      BY <1>6, <1>9, <1>10, <3>1 DEF ToSet
  <2>2. ASSUME NEW row \in ToSet(rows), row.error = NoError, row.category # "not_assessable"
        PROVE  row \in ToSet(ranked)
    <3>1. PICK i \in DOMAIN rows : row = rows[i]
      BY <2>2 DEF ToSet
    <3>2. PICK k \in 1 .. n : order[k] = i
      BY <1>6, <1>9, <2>2, <3>1
    <3>3. QED
      BY <1>8, <3>1, <3>2 DEF ToSet
  <2>3. QED
    BY <2>1, <2>2
<1>12. ASSUME NEW i \in DOMAIN ranked, NEW j \in DOMAIN ranked, i < j
       PROVE  Precedes(RankKey(universe, ranked[i]), RankKey(universe, ranked[j]))
  <2>1. /\ i \in 1 .. n /\ j \in 1 .. n
        /\ ranked[i] = rows[order[i]] /\ ranked[j] = rows[order[j]]
    BY <1>8, <1>12
  <2>2. QED
    BY <1>4, <1>6, <1>12, <2>1
<1>13. QED
  BY <1>1, <1>7, <1>11, <1>12, Zenon DEF IsRanked

(* Two sets with nothing in common.                                         *)
LEMMA DisjointCount ==
    ASSUME NEW X, NEW Y, IsFiniteSet(X), IsFiniteSet(Y), X \cap Y = {}
    PROVE  /\ IsFiniteSet(X \cup Y)
           /\ Cardinality(X \cup Y) = Cardinality(X) + Cardinality(Y)
<1>1. /\ IsFiniteSet(X \cup Y)
      /\ Cardinality(X \cup Y) = Cardinality(X) + Cardinality(Y) - Cardinality(X \cap Y)
  BY FS_Union
<1>2. Cardinality(X \cap Y) = 0
  BY FS_EmptySet
<1>3. Cardinality(X \cup Y) = Cardinality(X) + Cardinality(Y) - 0
  BY <1>1, <1>2, Zenon
<1>4. \A x, y \in Nat : x + y - 0 = x + y
  OBVIOUS
<1>5. Cardinality(X) \in Nat /\ Cardinality(Y) \in Nat
  BY FS_CardinalityType
<1>6. QED
  BY <1>1, <1>3, <1>4, <1>5, Zenon

(* Rows that fall under one count each are counted once.                    *)
LEMMA RowsAreCounted ==
    ASSUME NEW rows, IsList(rows), \A i \in DOMAIN rows : \E symbol : IsRowOf(rows[i], symbol)
    PROVE  Len(rows) = Count(rows, "eligibility", {"eligible"})
                       + Count(rows, "eligibility", {"no_data"})
                       + Count(rows, "eligibility", {"insufficient_evidence"})
                       + Count(rows, "error", ErrorCodes)
<1> DEFINE A == {i \in DOMAIN rows : rows[i]["eligibility"] \in {"eligible"}}
           B == {i \in DOMAIN rows : rows[i]["eligibility"] \in {"no_data"}}
           C == {i \in DOMAIN rows : rows[i]["eligibility"] \in {"insufficient_evidence"}}
           D == {i \in DOMAIN rows : rows[i]["error"] \in ErrorCodes}
<1>1. PICK S : rows \in Seq(S)
  BY DEF IsList
<1>2. DOMAIN rows = 1 .. Len(rows) /\ Len(rows) \in Nat
  BY <1>1
<1>3. IsFiniteSet(DOMAIN rows) /\ Cardinality(DOMAIN rows) = Len(rows)
  BY <1>2, FS_Interval
<1>4. IsFiniteSet(A) /\ IsFiniteSet(B) /\ IsFiniteSet(C) /\ IsFiniteSet(D)
  BY <1>3, FS_Subset
<1>5. \A i \in DOMAIN rows :
          \/ /\ rows[i]["error"] = NoError
             /\ rows[i]["eligibility"] \in {"eligible", "no_data", "insufficient_evidence"}
          \/ rows[i]["error"] \in ErrorCodes /\ rows[i]["eligibility"] = Undetermined
  BY DEF IsRowOf
<1>6. DOMAIN rows = A \cup (B \cup (C \cup D))
  BY <1>5
<1>7. C \cap D = {} /\ B \cap (C \cup D) = {} /\ A \cap (B \cup (C \cup D)) = {}
  BY <1>5 DEF NoError, ErrorCodes, Undetermined
<1>8. /\ Count(rows, "eligibility", {"eligible"}) = Cardinality(A)
      /\ Count(rows, "eligibility", {"no_data"}) = Cardinality(B)
      /\ Count(rows, "eligibility", {"insufficient_evidence"}) = Cardinality(C)
      /\ Count(rows, "error", ErrorCodes) = Cardinality(D)
  BY Zenon DEF Count
<1> HIDE DEF A, B, C, D
<1>9. PICK a \in Nat, b \in Nat, c \in Nat, d \in Nat :
          /\ a = Cardinality(A) /\ b = Cardinality(B)
          /\ c = Cardinality(C) /\ d = Cardinality(D)
  BY <1>4, FS_CardinalityType
<1>10. IsFiniteSet(C \cup D) /\ Cardinality(C \cup D) = c + d
  BY <1>4, <1>7, <1>9, DisjointCount, Zenon
<1>11. IsFiniteSet(B \cup (C \cup D)) /\ Cardinality(B \cup (C \cup D)) = b + (c + d)
  BY <1>4, <1>7, <1>9, <1>10, DisjointCount, Zenon
<1>12. Cardinality(A \cup (B \cup (C \cup D))) = a + (b + (c + d))
  <2>1. PICK others : others = B \cup (C \cup D)
    OBVIOUS
  <2>2. IsFiniteSet(others) /\ A \cap others = {} /\ Cardinality(others) = b + (c + d)
    BY <1>7, <1>11, <2>1
  <2>3. Cardinality(A \cup others) = Cardinality(A) + Cardinality(others)
    BY <1>4, <2>2, DisjointCount
  <2>4. QED
    BY <1>9, <2>1, <2>2, <2>3
<1>13. Len(rows) = a + (b + (c + d))
  BY <1>3, <1>6, <1>12, Zenon
<1>14. a + (b + (c + d)) = a + b + c + d
  OBVIOUS
<1>15. QED
  BY <1>8, <1>9, <1>13, <1>14

(* A scan in progress, and what a session and a run hold of scans.          *)
IsPartialScan(scan) ==
    /\ scan = [universe |-> scan.universe, rows |-> scan.rows, startedAt |-> scan.startedAt]
    /\ IsProper(scan.universe.symbols)
    /\ IsList(scan.rows) /\ scan.startedAt \in Nat
    /\ \A i \in DOMAIN scan.rows : IsRowOf(scan.rows[i], scan.universe.symbols[i])
IsWhole(scan) == IsComplete(scan) /\ IsRanked(scan)
IsPublished(s) == s.scanSnapshot # None => IsWhole(s.scanSnapshot)
PublishesWhole(q) ==
    \A i \in DOMAIN q :
        /\ q[i].key = "scanSnapshot" => IsWhole(q[i].value)
        /\ q[i].key = "universes" => AreUniverses(q[i].value)
ScanSound ==
    /\ panel \in DOMAIN Panels
    /\ AreUniverses(session.universes)
    /\ IsPublished(session) /\ PublishesWhole(run.todo)
    /\ run.at = "scanning" => IsPartialScan(run.scan)

LEMMA GrownIsPartial ==
    ASSUME NEW scan, IsPartialScan(scan), NEW row,
           IsRowOf(row, scan.universe.symbols[Len(scan.rows) + 1])
    PROVE  IsPartialScan([scan EXCEPT !.rows = Append(@, row)])
<1>1. PICK universe, rows, start :
          scan = [universe |-> universe, rows |-> rows, startedAt |-> start]
  BY DEF IsPartialScan
<1>2. /\ IsList(rows) /\ start \in Nat /\ IsRowOf(row, universe.symbols[Len(rows) + 1])
      /\ IsProper(universe.symbols)
      /\ \A i \in DOMAIN rows : IsRowOf(rows[i], universe.symbols[i])
  BY <1>1 DEF IsPartialScan
<1>3. PICK S : rows \in Seq(S)
  BY <1>2 DEF IsList
<1>4. PICK more : more = Append(rows, row)
  OBVIOUS
<1>5. more \in Seq(S \cup {row})
  BY <1>3, <1>4
<1>6. \A i \in DOMAIN more :
          \/ i \in DOMAIN rows /\ more[i] = rows[i]
          \/ i = Len(rows) + 1 /\ more[i] = row
  BY <1>3, <1>4
<1>7. \A i \in DOMAIN more : IsRowOf(more[i], universe.symbols[i])
  BY <1>2, <1>6
<1>8. PICK new : new = [scan EXCEPT !.rows = Append(@, row)]
  OBVIOUS
<1>9. new = [universe |-> universe, rows |-> more, startedAt |-> start]
  BY <1>1, <1>4, <1>8
<1>10. new.universe = universe /\ new.rows = more /\ new.startedAt = start
  BY <1>9
<1>11. IsPartialScan(new)
  BY <1>2, <1>5, <1>7, <1>9, <1>10 DEF IsPartialScan, IsList
<1>12. QED
  BY <1>8, <1>11

LEMMA CompletedIsWhole ==
    ASSUME NEW scan, IsPartialScan(scan), Len(scan.rows) = Len(scan.universe.symbols),
           NEW moment \in Nat, ~RefusesScan(scan.startedAt, moment)
    PROVE  IsWhole(ScanSnapshot(scan.universe, scan.rows, scan.startedAt, moment))
<1>1. PICK rows, universe, start :
          /\ rows = scan.rows /\ universe = scan.universe /\ start = scan.startedAt
          /\ IsProper(universe.symbols) /\ IsList(rows) /\ start \in Nat
          /\ \A i \in DOMAIN rows : IsRowOf(rows[i], universe.symbols[i])
  BY DEF IsPartialScan
<1>2. start <= moment
  BY <1>1 DEF RefusesScan
<1>3. PICK counters : counters = Counters(rows, Len(universe.symbols))
  OBVIOUS
<1>4. /\ counters.total = Len(universe.symbols)
      /\ counters.eligible = Count(rows, "eligibility", {"eligible"})
      /\ counters.no_data = Count(rows, "eligibility", {"no_data"})
      /\ counters.insufficient = Count(rows, "eligibility", {"insufficient_evidence"})
      /\ counters.failed = Count(rows, "error", ErrorCodes)
  BY <1>3 DEF Counters
<1>5. Len(rows) = Count(rows, "eligibility", {"eligible"})
                  + Count(rows, "eligibility", {"no_data"})
                  + Count(rows, "eligibility", {"insufficient_evidence"})
                  + Count(rows, "error", ErrorCodes)
  BY <1>1, RowsAreCounted
<1>6. counters.total = counters.eligible + counters.no_data
          + counters.insufficient + counters.failed
  BY <1>1, <1>4, <1>5, Zenon
<1>7. PICK snapshot : snapshot = ScanSnapshot(universe, rows, start, moment)
  OBVIOUS
<1>8. /\ snapshot.universe = universe /\ snapshot.results = rows
      /\ snapshot.startedAt = start /\ snapshot.completedAt = moment
      /\ snapshot.counters = counters
  BY <1>3, <1>7 DEF ScanSnapshot
<1>9. \A i \in DOMAIN rows : rows[i].symbol = universe.symbols[i]
  BY <1>1 DEF IsRowOf
<1>10. IsComplete(snapshot)
  BY <1>1, <1>2, <1>6, <1>8, <1>9, Zenon DEF IsComplete
<1>11. DOMAIN rows = DOMAIN universe.symbols
  <2>1. PICK S : rows \in Seq(S)
    BY <1>1 DEF IsList
  <2>2. PICK symbols : symbols = universe.symbols /\ symbols \in Seq(Symbols)
    BY <1>1 DEF IsProper
  <2>3. Len(rows) = Len(symbols)
    BY <1>1, <2>2
  <2>4. DOMAIN rows = DOMAIN symbols
    BY <2>1, <2>2, <2>3
  <2>5. QED
    BY <2>2, <2>4
<1>12. IsRanked(snapshot)
  BY <1>1, <1>8, <1>11, ScansAreRanked DEF IsOfScan
<1>13. QED
  BY <1>1, <1>7, <1>10, <1>12 DEF IsWhole

(* A step of another panel.                                                 *)
Quiet(q) ==
    \A i \in DOMAIN q :
        /\ q[i].key # "scanSnapshot"
        /\ q[i].key = "universes" => AreUniverses(q[i].value)
LeavesScans ==
    /\ run'.at # "scanning" /\ Quiet(run'.todo)
    /\ session'.scanSnapshot = session.scanSnapshot
    /\ session'.universes = session.universes

LEMMA LeavingKeepsScans ==
    ASSUME ScanSound, LeavesScans, panel' = panel
    PROVE  ScanSound'
<1>1. PublishesWhole(run.todo)'
  BY DEF LeavesScans, Quiet, PublishesWhole
<1>2. IsPublished(session)'
  BY DEF LeavesScans, ScanSound, IsPublished
<1>3. QED
  BY <1>1, <1>2 DEF ScanSound, LeavesScans

LEMMA QuietLists ==
    /\ Quiet(<<>>)
    /\ \A k, v : k # "scanSnapshot" /\ k # "universes" => Quiet(<< Becomes(k, v) >>)
    /\ \A v : AreUniverses(v) => Quiet(<< Becomes("universes", v) >>)
    /\ \A k, l, v, w :
            /\ k # "scanSnapshot" /\ k # "universes" /\ l # "scanSnapshot" /\ l # "universes"
            => Quiet(<< Becomes(k, v), Becomes(l, w) >>)
<1>1. ASSUME NEW k, NEW v, k # "scanSnapshot", k = "universes" => AreUniverses(v)
      PROVE  Quiet(<< Becomes(k, v) >>)
  <2>1. PICK a : a = Becomes(k, v)
    OBVIOUS
  <2>2. a.key = k /\ a.value = v /\ \A i \in DOMAIN <<a>> : <<a>>[i] = a
    BY <2>1 DEF Becomes
  <2>3. QED
    BY <1>1, <2>1, <2>2 DEF Quiet
<1>2. ASSUME NEW k, NEW l, NEW v, NEW w, k # "scanSnapshot", l # "scanSnapshot",
             k # "universes", l # "universes"
      PROVE  Quiet(<< Becomes(k, v), Becomes(l, w) >>)
  <2>1. PICK a, b : a = Becomes(k, v) /\ b = Becomes(l, w)
    OBVIOUS
  <2>2. a.key = k /\ b.key = l /\ \A i \in DOMAIN <<a, b>> : <<a, b>>[i] \in {a, b}
    BY <2>1 DEF Becomes
  <2>3. QED
    BY <1>2, <2>1, <2>2 DEF Quiet
<1>3. Quiet(<<>>)
  BY DEF Quiet
<1>4. QED
  BY <1>1, <1>2, <1>3

LEMMA GoingOnLeavesScans ==
    ASSUME IsRun(run), NEW stage, stage # "scanning", NEW q, IsList(q), Quiet(q),
           GoOn(stage, q)
    PROVE  LeavesScans
<1>1. PICK r, next : r = run /\ next = run'
  OBVIOUS
<1>2. next = Gone(r, stage, q)
  BY <1>1 DEF GoOn, Gone
<1>3. next.at = stage /\ next.todo = q
  BY <1>1, <1>2, RunGoes
<1>4. QED
  BY <1>1, <1>3 DEF LeavesScans, GoOn

LEMMA EndingLeavesScans ==
    ASSUME EndRun
    PROVE  LeavesScans
BY IdleIsRun, QuietLists DEF EndRun, LeavesScans

(* Beside the scan itself, every step of the script leaves scans alone.     *)
LEMMA PressLeavesScans ==
    ASSUME DOMAIN session = SessionKeys, NEW button, Press(button)
    PROVE  LeavesScans
<1>1. run' = [pressed |-> button, at |-> "handoff", todo |-> <<>>, scan |-> NoScan]
  BY DEF Press, Idle
<1>2. run'.at = "handoff" /\ run'.todo = <<>>
  BY <1>1
<1>3. session'.scanSnapshot = session.scanSnapshot /\ session'.universes = session.universes
  BY TheKeys DEF Press
<1>4. QED
  BY <1>2, <1>3, QuietLists DEF LeavesScans

LEMMA StartingOverLeavesScans ==
    ASSUME DOMAIN session = SessionKeys, StartOver, NEW key, NEW value,
           key # "scanSnapshot", key # "universes",
           session' = [session EXCEPT ![key] = value]
    PROVE  LeavesScans
<1>1. run' = [pressed |-> None, at |-> "handoff", todo |-> <<>>, scan |-> NoScan]
  BY DEF StartOver, Idle
<1>2. run'.at = "handoff" /\ run'.todo = <<>>
  BY <1>1
<1>3. session'.scanSnapshot = session.scanSnapshot /\ session'.universes = session.universes
  BY TheKeys
<1>4. QED
  BY <1>2, <1>3, QuietLists DEF LeavesScans

LEMMA BuildLeavesScans ==
    ASSUME IsRun(run), Build
    PROVE  LeavesScans
<1>1. PICK new :
          \/ \E v : GoOn("market", << Becomes("failure", v) >>)
          \/ GoOn("ledger",
                  << Becomes("snapshot", new), Becomes("failure", None),
                     Becomes("reasoningSnapshot", None), Becomes("reasoningFailure", None) >>)
  BY Zenon DEF Build
<1>2. CASE \E v : GoOn("market", << Becomes("failure", v) >>)
  BY <1>2, ShortLists, QuietLists, GoingOnLeavesScans
<1>3. ASSUME NEW q, GoOn("ledger", q),
             q = << Becomes("snapshot", new), Becomes("failure", None),
                    Becomes("reasoningSnapshot", None), Becomes("reasoningFailure", None) >>
      PROVE  LeavesScans
  <2>1. Quiet(q)
    BY <1>3 DEF Quiet, Becomes
  <2>2. IsList(q)
    BY <1>3, ShortLists
  <2>3. QED
    BY <1>3, <2>1, <2>2, GoingOnLeavesScans
<1>4. QED
  BY <1>1, <1>2, <1>3

LEMMA ServiceLeavesScans ==
    ASSUME IsRun(run), NEW stage, NEW outcomes, NEW service, NEW snapshot, NEW failure,
           {"scanSnapshot", "universes"} \cap {service, snapshot, failure} = {},
           RefreshService(stage, service, snapshot, failure, outcomes)
    PROVE  LeavesScans
<1>1. PICK v, p, q :
          /\ p = <<>> \/ p = << Becomes(service, "composed") >>
          /\ q = << Becomes(snapshot, v), Becomes(failure, None) >> \/ q = << Becomes(failure, v) >>
          /\ GoOn("market", p \o q)
  BY Zenon DEF RefreshService
<1>2. IsList(p) /\ Quiet(p) /\ IsList(q) /\ Quiet(q)
  BY <1>1, ShortLists, QuietLists
<1>3. PICK S, T : p \in Seq(S) /\ q \in Seq(T)
  BY <1>2 DEF IsList
<1>4. p \in Seq(S \cup T) /\ q \in Seq(S \cup T)
  BY <1>3
<1>5. PICK all : all = p \o q
  OBVIOUS
<1>6. all \in Seq(S \cup T)
  BY <1>4, <1>5
<1>7. \A i \in DOMAIN all :
          \/ i \in DOMAIN p /\ all[i] = p[i]
          \/ i - Len(p) \in DOMAIN q /\ all[i] = q[i - Len(p)]
  BY <1>4, <1>5
<1>8. IsList(all) /\ Quiet(all)
  BY <1>2, <1>6, <1>7, Zenon DEF Quiet, IsList
<1>9. QED
  BY <1>1, <1>5, <1>8, GoingOnLeavesScans

LEMMA UniversesLeaveScans ==
    ASSUME IsRun(run), panel \in DOMAIN Panels,
           LoadUniverses \/ ReloadUniverses \/ SelectUniverse
    PROVE  LeavesScans
<1>1. ASSUME NEW next, next # "scanning", Load(next)
      PROVE  LeavesScans
  <2>1. PICK file \in Panels[panel].files :
            GoOn(next, IF ConfigurationFails(file) THEN <<>>
                       ELSE << Becomes("universes", Configuration(SymbolOrder, file)) >>)
    BY <1>1 DEF Load
  <2>2. CASE ConfigurationFails(file)
    BY <1>1, <2>1, <2>2, ShortLists, QuietLists, GoingOnLeavesScans
  <2>3. CASE ~ConfigurationFails(file)
    <3>1. IsFile(file)
      BY DashboardAssumption
    <3>2. PICK v : v = Configuration(SymbolOrder, file) /\ AreUniverses(v)
      BY <2>3, <3>1, ConfiguredAreUniverses
    <3>3. GoOn(next, << Becomes("universes", v) >>)
      BY <2>1, <2>3, <3>2
    <3>4. QED
      BY <1>1, <3>2, <3>3, ShortLists, QuietLists, GoingOnLeavesScans
  <2>4. QED
    BY <2>2, <2>3
<1>2. CASE LoadUniverses \/ ReloadUniverses
  <2>1. Load("reload") \/ Load("select") \/ Leave("reload") \/ Leave("select")
    BY <1>2 DEF LoadUniverses, ReloadUniverses
  <2>2. QED
    BY <1>1, <2>1, ShortLists, QuietLists, GoingOnLeavesScans DEF Leave
<1>3. CASE SelectUniverse
  <2>1. PICK v, q : /\ q = <<>> \/ q = << Becomes("universeId", v) >>
                    /\ GoOn("scan", q)
    BY <1>3, Zenon DEF SelectUniverse
  <2>2. IsList(q) /\ Quiet(q)
    BY <2>1, ShortLists, QuietLists
  <2>3. QED
    BY <2>1, <2>2, GoingOnLeavesScans
<1>4. QED
  BY <1>2, <1>3

LEMMA ExplainLeavesScans ==
    ASSUME IsRun(run), Explain
    PROVE  LeavesScans
<1>1. \/ Leave("raised")
      \/ \E v : \/ GoOn("explained", << Becomes("reasoningFailure", v) >>)
               \/ GoOn("explained", << Becomes("reasoningSnapshot", v) >>)
  BY Zenon DEF Explain, ShowFailure
<1>2. QED
  BY <1>1, ShortLists, QuietLists, GoingOnLeavesScans DEF Leave

LEMMA SimpleLeavesScans ==
    ASSUME DOMAIN session = SessionKeys, IsRun(run),
           \/ Handoff \/ Controls \/ ComposeLedger \/ Track
           \/ (Candidates \/ ComposeReasoning \/ Availability \/ Explained \/ Mint)
           \/ (Abandon \/ Raised \/ Finish)
    PROVE  LeavesScans
<1>1. ASSUME NEW stage, stage # "scanning", Leave(stage)
      PROVE  LeavesScans
  BY <1>1, ShortLists, QuietLists, GoingOnLeavesScans DEF Leave
<1>2. ASSUME NEW stage, stage # "scanning", NEW a, NEW v,
             a # "scanSnapshot", a # "universes",
             GoOn(stage, << Becomes(a, v) >>)
      PROVE  LeavesScans
  BY <1>2, ShortLists, QuietLists, GoingOnLeavesScans
<1>3. ASSUME NEW stage, stage # "scanning", NEW a, NEW v, NEW b, NEW w,
             a # "scanSnapshot", a # "universes", b # "scanSnapshot", b # "universes",
             GoOn(stage, << Becomes(a, v), Becomes(b, w) >>)
      PROVE  LeavesScans
  BY <1>3, ShortLists, QuietLists, GoingOnLeavesScans
<1>4. CASE Handoff
  <2>1. \/ Leave("controls")
        \/ GoOn("controls", << Becomes("symbolInput", session.pendingSymbol),
                               Becomes("pendingSymbol", None) >>)
    BY <1>4, Zenon DEF Handoff, Leave
  <2>2. QED
    BY <2>1, <1>1, <1>3
<1>5. CASE Controls
  <2>1. \/ GoOn("build", << Becomes("outcomeResult", None), Becomes("outcomeFailure", None) >>)
        \/ Leave("news") \/ Leave("feeds") \/ Leave("market")
    BY <1>5 DEF Controls, ClearedOutcome
  <2>2. QED
    BY <2>1, <1>1, <1>3
<1>6. CASE ComposeLedger
  BY <1>1, <1>2, <1>6 DEF ComposeLedger
<1>7. CASE Track
  BY <1>2, <1>7 DEF Track
<1>8. CASE Candidates \/ Explained \/ Mint
  BY <1>1, <1>8 DEF Candidates, Explained, Mint
<1>9. CASE ComposeReasoning
  BY <1>1, <1>2, <1>9 DEF ComposeReasoning
<1>10. CASE Availability
  <2>1. \/ GoOn("explain", << Becomes("reasoningSnapshot", None),
                              Becomes("reasoningFailure", None) >>)
        \/ Leave("paper") \/ EndRun
    BY <1>10 DEF Availability, ClearedExplanation
  <2>2. QED
    BY <2>1, <1>1, <1>3, EndingLeavesScans
<1>11. CASE Abandon \/ Raised \/ Finish
  BY <1>11, EndingLeavesScans DEF Abandon, Raised, Finish
<1>12. QED
  BY <1>4, <1>5, <1>6, <1>7, <1>8, <1>9, <1>10, <1>11

LEMMA SubmissionsLeaveScans ==
    ASSUME DOMAIN session = SessionKeys, OpenInResearch \/ SubmitOpen \/ SubmitClose
    PROVE  LeavesScans
<1>1. StartOver
  BY DEF OpenInResearch, SubmitOpen, SubmitClose
<1>2. CASE OpenInResearch
  <2>1. PICK v : session' = [session EXCEPT !["pendingSymbol"] = v]
    BY <1>2 DEF OpenInResearch
  <2>2. QED
    BY <1>1, <2>1, StartingOverLeavesScans
<1>3. CASE SubmitOpen \/ SubmitClose
  <2>1. PICK v : session' = [session EXCEPT !["paperError"] = v]
    BY <1>3 DEF SubmitOpen, SubmitClose
  <2>2. QED
    BY <1>1, <2>1, StartingOverLeavesScans
<1>4. QED
  BY <1>2, <1>3

-----------------------------------------------------------------------------
(* The steps of a scan, and an assignment.                                  *)

LEMMA AssignKeepsScans ==
    ASSUME ScreenSound, ScanSound, Assign
    PROVE  ScanSound'
<1>1. PICK s, t, r, next, q, rest :
          /\ s = session /\ t = session' /\ r = run /\ next = run' /\ q = run.todo
          /\ rest = Tail(q)
  OBVIOUS
<1>2. /\ IsRun(r) /\ IsList(q) /\ q # <<>> /\ DOMAIN s = SessionKeys
      /\ PublishesWhole(q) /\ IsPublished(s) /\ AreUniverses(s.universes)
      /\ r.at = "scanning" => IsPartialScan(r.scan)
  BY <1>1 DEF ScreenSound, ScanSound, IsRun, Assign
<1>3. PICK k, v : k = Head(q).key /\ v = Head(q).value /\ t = [s EXCEPT ![k] = v]
  BY <1>1 DEF Assign
<1>4. /\ k = "scanSnapshot" => IsWhole(v)
      /\ k = "universes" => AreUniverses(v)
  BY <1>2, <1>3, TailOfList DEF PublishesWhole
<1>5. IsPublished(t) /\ AreUniverses(t.universes)
  <2>1. "scanSnapshot" \in DOMAIN s /\ "universes" \in DOMAIN s
    BY <1>2, TheKeys
  <2>2. /\ t.scanSnapshot = IF k = "scanSnapshot" THEN v ELSE s.scanSnapshot
        /\ t.universes = IF k = "universes" THEN v ELSE s.universes
    BY <1>3, <2>1
  <2>3. QED
    BY <1>2, <1>4, <2>2 DEF IsPublished
<1>6. PublishesWhole(rest)
  BY <1>1, <1>2, TailOfList DEF PublishesWhole
<1>7. next.at = r.at /\ next.todo = rest /\ next.scan = r.scan
  <2>1. PICK pressed, at, scan : r = [pressed |-> pressed, at |-> at, todo |-> q, scan |-> scan]
    BY <1>1, <1>2 DEF IsRun
  <2>2. next = [r EXCEPT !.todo = rest]
    BY <1>1 DEF Assign
  <2>3. QED
    BY <2>1, <2>2
<1>8. panel' = panel
  BY DEF Assign
<1>9. QED
  BY <1>1, <1>2, <1>5, <1>6, <1>7, <1>8 DEF ScanSound

LEMMA ScanStepsKeepScans ==
    ASSUME ScreenSound, ScanSound, BeginScan \/ ScanSymbol \/ ScanFails \/ PublishScan
    PROVE  ScanSound'
<1>1. PICK r : r = run /\ IsRun(r)
  BY DEF ScreenSound
<1>0. /\ panel \in DOMAIN Panels /\ panel' = panel
      /\ AreUniverses(session.universes) /\ IsPublished(session)
  BY DEF ScanSound, BeginScan, ScanSymbol, ScanFails, PublishScan, Leave, GoOn
<1>2. ASSUME NEW stage, stage # "scanning", Leave(stage)
      PROVE  ScanSound'
  BY <1>0, <1>1, <1>2, ShortLists, QuietLists, GoingOnLeavesScans, LeavingKeepsScans DEF Leave
<1>3. CASE BeginScan /\ ~Leave("candidates")
  <2>1. PICK scan : /\ run' = Begun(r, scan)
                    /\ scan = [universe |-> Universe, rows |-> <<>>, startedAt |-> now]
    BY <1>1, <1>3, Zenon DEF BeginScan, Begun
  <2>2. scan.universe = Universe /\ scan.rows = <<>> /\ scan.startedAt = now
    BY <2>1
  <2>3. IsPartialScan(scan)
    <3>1. Universe # NoUniverse
      BY <1>3 DEF BeginScan
    <3>2. IsProper(Universe.symbols)
      BY <1>0, <3>1, ChosenIsProper DEF Universe
    <3>3. IsList(<<>>) /\ now \in Nat
      BY ShortLists DEF ScreenSound, Reading
    <3>4. QED
      BY <2>1, <2>2, <3>2, <3>3 DEF IsPartialScan
  <2>4. run'.scan = scan /\ run'.todo = <<>>
    <3>1. r.todo = <<>>
      BY <1>1, <1>3 DEF BeginScan, At
    <3>2. Begun(r, scan).scan = scan /\ Begun(r, scan).todo = r.todo
      BY <1>1, BegunRuns
    <3>3. QED
      BY <2>1, <3>1, <3>2
  <2>5. session' = session /\ PublishesWhole(<<>>)
    BY <1>3 DEF BeginScan, PublishesWhole
  <2>6. QED
    BY <1>0, <2>3, <2>4, <2>5 DEF ScanSound
<1>4. CASE ScanSymbol
  <2>1. PICK symbol, answer :
            /\ answer \in Panels[panel].answers
            /\ run' = Grown(r, ScanOne(symbol, ScanInterval, answer, now))
            /\ symbol = r.scan.universe.symbols[Len(r.scan.rows) + 1]
    BY <1>1, <1>4, Zenon DEF ScanSymbol, Grown
  <2>2. PICK row : row = ScanOne(symbol, ScanInterval, answer, now) /\ IsRowOf(row, symbol)
    <3>1. IsAnswer(answer)
      BY <1>0, <2>1, DashboardAssumption
    <3>2. QED
      BY <3>1, ScannedIsRow
  <2>3. run'.scan = [r.scan EXCEPT !.rows = Append(@, row)] /\ run'.todo = <<>>
    <3>1. r.todo = <<>>
      BY <1>1, <1>4 DEF ScanSymbol, At
    <3>2. /\ Grown(r, row).scan = [r.scan EXCEPT !.rows = Append(@, row)]
          /\ Grown(r, row).todo = r.todo
      BY <1>1, GrownRuns
    <3>3. run' = Grown(r, row)
      BY <2>1, <2>2
    <3>4. QED
      BY <3>1, <3>2, <3>3
  <2>4. IsPartialScan(r.scan)
    BY <1>1, <1>4 DEF ScanSymbol, At, ScanSound
  <2>5. IsPartialScan(run'.scan)
    <3>1. PICK scan : scan = r.scan
      OBVIOUS
    <3>2. IsPartialScan([scan EXCEPT !.rows = Append(@, row)])
      BY <2>1, <2>2, <2>4, <3>1, GrownIsPartial
    <3>3. QED
      BY <2>3, <3>1, <3>2
  <2>6. session' = session /\ PublishesWhole(<<>>)
    BY <1>4 DEF ScanSymbol, PublishesWhole
  <2>7. QED
    BY <1>0, <2>3, <2>5, <2>6 DEF ScanSound
<1>5. CASE ScanFails
  <2>1. GoOn("candidates", << Becomes("scanFailure", "failed") >>)
    BY <1>5 DEF ScanFails
  <2>2. QED
    BY <1>0, <1>1, <2>1, ShortLists, QuietLists, GoingOnLeavesScans, LeavingKeepsScans
<1>6. CASE PublishScan
  <2>1. PICK scan : scan = run.scan
    OBVIOUS
  <2>2. /\ IsPartialScan(scan) /\ Len(scan.rows) = Len(scan.universe.symbols)
        /\ ~RefusesScan(scan.startedAt, now) /\ now \in Nat
    BY <1>6, <2>1 DEF PublishScan, At, Scanned, ScanSound, ScreenSound, Reading
  <2>3. PICK v : /\ v = ScanSnapshot(scan.universe, scan.rows, scan.startedAt, now)
                 /\ IsWhole(v)
    BY <2>2, CompletedIsWhole
  <2>4. PICK q : /\ q = << Becomes("scanSnapshot", v), Becomes("scanFailure", None) >>
                 /\ GoOn("candidates", q)
    BY <1>6, <2>1, <2>3 DEF PublishScan
  <2>5. PublishesWhole(q) /\ IsList(q)
    <3>1. PICK a, b : a = Becomes("scanSnapshot", v) /\ b = Becomes("scanFailure", None)
      OBVIOUS
    <3>2. /\ a.key = "scanSnapshot" /\ a.value = v /\ b.key = "scanFailure"
          /\ \A i \in DOMAIN <<a, b>> : <<a, b>>[i] \in {a, b}
      BY <3>1 DEF Becomes
    <3>3. PublishesWhole(<<a, b>>)
      BY <2>3, <3>2 DEF PublishesWhole
    <3>4. QED
      BY <2>4, <3>1, <3>3, ShortLists
  <2>6. PICK next : next = run' /\ next = Gone(r, "candidates", q)
    BY <1>1, <2>4 DEF GoOn, Gone
  <2>7. next.at = "candidates" /\ next.todo = q
    BY <1>1, <2>5, <2>6, RunGoes
  <2>8. session' = session
    BY <2>4 DEF GoOn
  <2>9. QED
    BY <1>0, <2>5, <2>6, <2>7, <2>8 DEF ScanSound
<1>7. QED
  BY <1>2, <1>3, <1>4, <1>5, <1>6

(* A behaviour exercises one panel.                                         *)
LEMMA PanelStays ==
    ASSUME [Next]_dashboardVars
    PROVE  panel' = panel
BY DEF Next, Step, dashboardVars, sessionVars, Press, Assign, Abandon, Handoff, Controls,
       ComposeLedger, Track, RefreshNews, RefreshFeeds, RefreshService, LoadUniverses,
       ReloadUniverses, SelectUniverse, Load, ScanFails, PublishScan, OpenInResearch,
       Candidates, ComposeReasoning, Availability, Explain, ShowFailure, Explained, Raised,
       Finish, Build, BeginScan, ScanSymbol, Mint, SubmitOpen, SubmitClose, Leave, GoOn,
       EndRun

LEMMA ScansStaySound ==
    ASSUME ScreenSound, ScanSound, [Next]_dashboardVars
    PROVE  ScanSound'
<1>1. DOMAIN session = SessionKeys /\ IsRun(run) /\ panel \in DOMAIN Panels
  BY DEF ScreenSound, ScanSound
<1>2. LeavesScans => ScanSound'
  BY LeavingKeepsScans, PanelStays
<1>3. CASE \/ Handoff \/ Controls \/ ComposeLedger \/ Track
           \/ (Candidates \/ ComposeReasoning \/ Availability \/ Explained \/ Mint)
           \/ (Abandon \/ Raised \/ Finish)
  BY <1>1, <1>2, <1>3, SimpleLeavesScans
<1>4. CASE \E button \in Buttons : Press(button)
  BY <1>1, <1>2, <1>4, PressLeavesScans
<1>5. CASE Assign
  BY <1>5, AssignKeepsScans
<1>6. CASE RefreshNews
  <2>1. PICK outcomes : RefreshService("news", "newsService", "newsSnapshot", "newsFailure",
                                       outcomes)
    BY <1>6 DEF RefreshNews
  <2>2. QED
    BY <1>1, <1>2, <2>1, ServiceLeavesScans
<1>7. CASE RefreshFeeds
  BY <1>1, <1>2, <1>7, ServiceLeavesScans DEF RefreshFeeds
<1>8. CASE LoadUniverses \/ ReloadUniverses \/ SelectUniverse
  BY <1>1, <1>2, <1>8, UniversesLeaveScans
<1>9. CASE BeginScan \/ ScanSymbol \/ ScanFails \/ PublishScan
  BY <1>9, ScanStepsKeepScans
<1>10. CASE OpenInResearch \/ SubmitOpen \/ SubmitClose
  BY <1>1, <1>2, <1>10, SubmissionsLeaveScans
<1>11. CASE Build \/ Explain
  BY <1>1, <1>2, <1>11, BuildLeavesScans, ExplainLeavesScans
<1>12. CASE UNCHANGED sessionVars
  BY <1>12 DEF ScanSound, sessionVars
<1>13. QED
  BY <1>3, <1>4, <1>5, <1>6, <1>7, <1>8, <1>9, <1>10, <1>11, <1>12
     DEF Next, Step, dashboardVars

(* Symbols that failed, callbacks that raised, scans that were abandoned    *)
(* and a clock that was set back or not: a published scan is a whole one.   *)
(* It has one row for each symbol of its universe, in order, ends no        *)
(* earlier than it began, and every row falls under exactly one of its      *)
(* counts; the candidates it offers are exactly the rows that were assessed,*)
(* each strictly before the next (scan and ranked_rows of                   *)
(* src/application/scanner.py, order_results of src/scanner/ranking.py).    *)
THEOREM ScanStaysWhole == Spec => []ScanIsWhole
<1> DEFINE Sound == ScreenSound /\ ScanSound
<1>1. Init => Sound
  <2>1. Init => /\ session.scanSnapshot = None /\ session.universes = None
                /\ run.todo = <<>> /\ run.at = "idle" /\ panel \in DOMAIN Panels
    BY DEF Init, EmptySession, Idle
  <2>2. PublishesWhole(<<>>) /\ AreUniverses(None)
    BY DEF PublishesWhole, AreUniverses
  <2>3. QED
    BY <2>1, <2>2, InitialScreen DEF ScanSound, IsPublished
<1>2. Sound /\ [Next]_dashboardVars => Sound'
  BY ScreenStaysSound, ScansStaySound
<1>3. Sound => ScanIsWhole
  BY DEF ScanSound, IsPublished, IsWhole, ScanIsWhole
<1>4. QED
  BY <1>1, <1>2, <1>3, PTL DEF Spec
=============================================================================
