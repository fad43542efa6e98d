---------------------------- MODULE CommonProofs -----------------------------
(***************************************************************************)
(* What the proofs about several components share: least elements, sizes   *)
(* of finite sets, sums over them, rankings, and what an append leaves of  *)
(* a JSONL file.                                                           *)
(***************************************************************************)
EXTENDS JsonlFile, Ranking, Functions, SequenceTheorems, FiniteSetTheorems,
        WellFoundedInduction, TLAPS

-----------------------------------------------------------------------------
(* Numbers and sizes.                                                      *)

(* A set of natural numbers has a least element.                           *)
LEMMA LeastExists ==
    ASSUME NEW T \in SUBSET Nat, T # {}
    PROVE  \E x \in T : \A y \in T : x <= y
<1> DEFINE R == OpToRel(<, Nat)
<1>1. PICK x \in T : \A y \in T : ~(<<y, x>> \in R)
  BY NatLessThanWellFounded, WFMin, Zenon
<1>2. \A y \in T : ~(y < x)
  BY <1>1 DEF OpToRel
<1>3. \A y \in T : x <= y
  BY <1>2
<1>4. QED
  BY <1>3

(* What corresponds one to one is as many.                                 *)
LEMMA SameSize ==
    ASSUME NEW S, NEW T, IsFiniteSet(S), NEW f \in [S -> T],
           \A a, b \in S : f[a] = f[b] => a = b, \A t \in T : \E s \in S : f[s] = t
    PROVE  IsFiniteSet(T) /\ Cardinality(T) = Cardinality(S) /\ Cardinality(S) \in Nat
<1>1. f \in Bijection(S, T)
  BY DEF Bijection, Injection, Surjection, IsInjective
<1>2. QED
  BY <1>1, FS_Bijection, FS_CardinalityType DEF ExistsBijection

(* A set is as many as its two halves.                                     *)
LEMMA Halves ==
    ASSUME NEW S, IsFiniteSet(S), NEW A \in SUBSET S, NEW B \in SUBSET S, A \cap B = {}, A \cup B = S
    PROVE  /\ IsFiniteSet(A) /\ IsFiniteSet(B)
           /\ Cardinality(A) \in Nat /\ Cardinality(B) \in Nat
           /\ Cardinality(S) = Cardinality(A) + Cardinality(B)
<1>1. IsFiniteSet(A) /\ IsFiniteSet(B)
  BY FS_Subset
<1>2. Cardinality(A) \in Nat /\ Cardinality(B) \in Nat
  BY <1>1, FS_CardinalityType
<1>3. Cardinality(A \cup B) = Cardinality(A) + Cardinality(B) - Cardinality(A \cap B)
  BY <1>1, FS_Union
<1>4. Cardinality(A \cap B) = 0
  BY FS_EmptySet
<1>5. QED
  BY <1>1, <1>2, <1>3, <1>4

-----------------------------------------------------------------------------
(* Sums over finite sets.                                                  *)

Chosen(s) == CHOOSE i \in s : TRUE

(* The sums of the weights over the subsets of a set.                      *)
IsTotal(weight, S, f) ==
    f = [s \in SUBSET S |->
            IF s = {} THEN 0
            ELSE weight[Chosen(s)] + f[s \ {Chosen(s)}]]

TotalOf(weight, S) == (CHOOSE f : IsTotal(weight, S, f))[S]

(* Choosing an element of a set leaves a smaller one.                      *)
LEMMA ChosenLeaves ==
    ASSUME NEW s, IsFiniteSet(s), s # {}
    PROVE  /\ Chosen(s) \in s
           /\ IsFiniteSet(s \ {Chosen(s)})
           /\ Cardinality(s) \in Nat /\ Cardinality(s \ {Chosen(s)}) \in Nat
           /\ Cardinality(s \ {Chosen(s)}) = Cardinality(s) - 1
<1>1. Chosen(s) \in s
  BY Zenon DEF Chosen
<1>2. QED
  BY <1>1, FS_RemoveElement, FS_CardinalityType

(* The sums over the subsets of at most so many elements.                  *)
SmallSets(S, n) == {s \in SUBSET S : Cardinality(s) <= n}

IsPartialTotal(weight, S, n, f) ==
    f = [s \in SmallSets(S, n) |->
            IF s = {} THEN 0
            ELSE weight[Chosen(s)] + f[s \ {Chosen(s)}]]

LEMMA PartialTotalExists ==
    ASSUME NEW weight, NEW S, IsFiniteSet(S), NEW n \in Nat
    PROVE  \E f : IsPartialTotal(weight, S, n, f)
<1> DEFINE Missing == {m \in Nat : ~\E f : IsPartialTotal(weight, S, m, f)}
<1>0. \A s \in SUBSET S : IsFiniteSet(s) /\ Cardinality(s) \in Nat
  BY FS_Subset, FS_CardinalityType
<1>1. SUFFICES ASSUME Missing # {} PROVE FALSE
  OBVIOUS
<1>2. PICK m \in Missing : \A k \in Missing : m <= k
  <2> HIDE DEF Missing
  <2>1. Missing \in SUBSET Nat
    BY DEF Missing
  <2>2. QED
    BY <1>1, <2>1, LeastExists
<1>3. m \in Nat /\ ~\E f : IsPartialTotal(weight, S, m, f)
  OBVIOUS
<1>4. CASE m = 0
  <2>1. \A s \in SmallSets(S, m) : s = {}
    BY <1>0, <1>4, FS_EmptySet DEF SmallSets
  <2>2. IsPartialTotal(weight, S, m, [s \in SmallSets(S, m) |-> 0])
    BY <2>1 DEF IsPartialTotal
  <2>3. QED
    BY <1>3, <2>2
<1>5. CASE m # 0
  <2>1. m - 1 \in Nat /\ m - 1 \notin Missing
    BY <1>2, <1>3, <1>5
  <2>2. PICK g : IsPartialTotal(weight, S, m - 1, g)
    BY <2>1
  <2> DEFINE f == [s \in SmallSets(S, m) |->
                      IF s = {} THEN 0
                      ELSE weight[Chosen(s)] + g[s \ {Chosen(s)}]]
  <2>3. ASSUME NEW t \in SmallSets(S, m - 1)
        PROVE  f[t] = g[t]
    <3>1. t \in SmallSets(S, m)
      BY <1>0, <1>3 DEF SmallSets
    <3>2. g[t] = IF t = {} THEN 0 ELSE weight[Chosen(t)] + g[t \ {Chosen(t)}]
      BY <2>2, Zenon DEF IsPartialTotal
    <3>3. QED
      BY <3>1, <3>2, Zenon
  <2>4. ASSUME NEW s \in SmallSets(S, m), s # {}
        PROVE  f[s \ {Chosen(s)}] = g[s \ {Chosen(s)}]
    <3>1. s \ {Chosen(s)} \in SmallSets(S, m - 1)
      <4>1. s \in SUBSET S /\ Cardinality(s) <= m /\ IsFiniteSet(s)
        BY <1>0 DEF SmallSets
      <4>2. Cardinality(s) \in Nat /\ Cardinality(s \ {Chosen(s)}) = Cardinality(s) - 1
        BY <2>4, <4>1, ChosenLeaves
      <4>3. QED
        BY <1>3, <4>1, <4>2 DEF SmallSets
    <3>2. QED
      BY <2>3, <3>1
  <2>5. IsPartialTotal(weight, S, m, f)
    <3>1. \A s \in SmallSets(S, m) :
              f[s] = IF s = {} THEN 0 ELSE weight[Chosen(s)] + f[s \ {Chosen(s)}]
      BY <2>4
    <3>2. f = [s \in SmallSets(S, m) |-> f[s]]
      OBVIOUS
    <3> HIDE DEF f
    <3>3. QED
      BY <3>1, <3>2, Zenon DEF IsPartialTotal
  <2>6. QED
    BY <1>3, <2>5
<1>6. QED
  BY <1>4, <1>5

(* The sums over all subsets exist.                                        *)
LEMMA TotalExists ==
    ASSUME NEW weight, NEW S, IsFiniteSet(S)
    PROVE  \E f : IsTotal(weight, S, f)
<1>1. \A s \in SUBSET S : Cardinality(s) <= Cardinality(S)
  BY FS_Subset
<1>2. SmallSets(S, Cardinality(S)) = SUBSET S
  BY <1>1 DEF SmallSets
<1>3. PICK f : IsPartialTotal(weight, S, Cardinality(S), f)
  BY PartialTotalExists, FS_CardinalityType
<1>4. QED
  BY <1>2, <1>3, Zenon DEF IsTotal, IsPartialTotal

Unrolls(weight, S, f) ==
    /\ {} \in SUBSET S => f[{}] = 0
    /\ \A s \in SUBSET S : s # {} => f[s] = weight[Chosen(s)] + f[s \ {Chosen(s)}]

LEMMA TotalValue ==
    ASSUME NEW weight, NEW S, NEW f, IsTotal(weight, S, f)
    PROVE  Unrolls(weight, S, f)
<1>1. \A s \in SUBSET S :
          f[s] = IF s = {} THEN 0 ELSE weight[Chosen(s)] + f[s \ {Chosen(s)}]
  BY Zenon DEF IsTotal
<1>2. QED
  BY <1>1, Zenon DEF Unrolls

WeighAlike(p, q, S) == \A i \in S : p[i] = q[i]
AreNatural(weight, S) == \A i \in S : weight[i] \in Nat

(* Sums of equal weights agree.                                            *)
LEMMA TotalsAgree ==
    ASSUME NEW p, NEW q, NEW S, NEW T, S \subseteq T, IsFiniteSet(T),
           WeighAlike(p, q, S),
           NEW f, IsTotal(p, S, f), NEW g, IsTotal(q, T, g),
           NEW s \in SUBSET S
    PROVE  f[s] = g[s]
<1>0. Unrolls(p, S, f) /\ Unrolls(q, T, g)
  BY TotalValue
<1> DEFINE Differ == {t \in SUBSET S : f[t] # g[t]}
           Sizes == {Cardinality(t) : t \in Differ}
<1>1. SUFFICES ASSUME Differ # {} PROVE FALSE
  OBVIOUS
<1>2. \A t \in SUBSET S : IsFiniteSet(t) /\ Cardinality(t) \in Nat
  BY FS_Subset, FS_CardinalityType
<1>3. PICK t \in Differ : \A other \in Differ : Cardinality(t) <= Cardinality(other)
  <2>1. Sizes \in SUBSET Nat /\ Sizes # {}
    BY <1>1, <1>2
  <2>2. PICK k \in Sizes : \A l \in Sizes : k <= l
    <3> HIDE DEF Sizes
    <3>1. QED
      BY <2>1, LeastExists
  <2>3. QED
    BY <2>2
<1>4. t \in SUBSET S /\ t \in SUBSET T /\ f[t] # g[t]
  OBVIOUS
<1>5. CASE t = {}
  BY <1>0, <1>4, <1>5 DEF Unrolls
<1>6. CASE t # {}
  <2>1. /\ Chosen(t) \in t
        /\ Cardinality(t) \in Nat
        /\ Cardinality(t \ {Chosen(t)}) = Cardinality(t) - 1
    BY <1>2, <1>4, <1>6, ChosenLeaves
  <2>2. t \ {Chosen(t)} \in SUBSET S
    BY <1>4
  <2>3. t \ {Chosen(t)} \notin Differ
    BY <1>3, <2>1
  <2>4. f[t \ {Chosen(t)}] = g[t \ {Chosen(t)}]
    BY <2>2, <2>3
  <2>5. f[t] = p[Chosen(t)] + f[t \ {Chosen(t)}]
    BY <1>0, <1>4, <1>6 DEF Unrolls
  <2>6. g[t] = q[Chosen(t)] + g[t \ {Chosen(t)}]
    BY <1>0, <1>4, <1>6 DEF Unrolls
  <2>7. p[Chosen(t)] = q[Chosen(t)]
    BY <1>4, <2>1 DEF WeighAlike
  <2>8. QED
    BY <1>4, <2>4, <2>5, <2>6, <2>7
<1>7. QED
  BY <1>5, <1>6

(* A sum of natural numbers is one.                                        *)
LEMMA TotalType ==
    ASSUME NEW p, NEW S, IsFiniteSet(S), AreNatural(p, S),
           NEW f, IsTotal(p, S, f), NEW s \in SUBSET S
    PROVE  f[s] \in Nat
<1> DEFINE Strange == {t \in SUBSET S : f[t] \notin Nat}
           Sizes == {Cardinality(t) : t \in Strange}
<1>1. SUFFICES ASSUME Strange # {} PROVE FALSE
  OBVIOUS
<1>2. \A t \in SUBSET S : IsFiniteSet(t) /\ Cardinality(t) \in Nat
  BY FS_Subset, FS_CardinalityType
<1>3. PICK t \in Strange : \A other \in Strange : Cardinality(t) <= Cardinality(other)
  <2>1. Sizes \in SUBSET Nat /\ Sizes # {}
    BY <1>1, <1>2
  <2>2. PICK k \in Sizes : \A l \in Sizes : k <= l
    <3> HIDE DEF Sizes
    <3>1. QED
      BY <2>1, LeastExists
  <2>3. QED
    BY <2>2
<1>4. t \in SUBSET S /\ f[t] \notin Nat
  OBVIOUS
<1>5. /\ f[{}] = 0
      /\ \A u \in SUBSET S :
            u # {} => f[u] = p[Chosen(u)] + f[u \ {Chosen(u)}]
  <2>1. Unrolls(p, S, f)
    BY TotalValue
  <2>2. QED
    BY <2>1 DEF Unrolls
<1>6. t # {}
  BY <1>4, <1>5
<1>7. /\ Chosen(t) \in t
      /\ Cardinality(t) \in Nat
      /\ Cardinality(t \ {Chosen(t)}) = Cardinality(t) - 1
  BY <1>2, <1>4, <1>6, ChosenLeaves
<1>8. t \ {Chosen(t)} \in SUBSET S /\ t \ {Chosen(t)} \notin Strange
  BY <1>3, <1>4, <1>7
<1>9. f[t \ {Chosen(t)}] \in Nat /\ p[Chosen(t)] \in Nat
  BY <1>4, <1>7, <1>8 DEF AreNatural
<1>10. f[t] = p[Chosen(t)] + f[t \ {Chosen(t)}]
  BY <1>4, <1>5, <1>6
<1>11. QED
  BY <1>4, <1>9, <1>10

(* The order in which elements are chosen does not matter: any of them may *)
(* be taken out first.                                                     *)
LEMMA TotalTakesOut ==
    ASSUME NEW p, NEW S, IsFiniteSet(S), AreNatural(p, S),
           NEW f, IsTotal(p, S, f), NEW s \in SUBSET S, NEW x \in s
    PROVE  f[s] = p[x] + f[s \ {x}]
<1>0. {} \in SUBSET S
  OBVIOUS
<1>6. \A u \in SUBSET S :
          u # {} => f[u] = p[Chosen(u)] + f[u \ {Chosen(u)}]
  <2>1. Unrolls(p, S, f)
    BY TotalValue
  <2>2. QED
    BY <2>1 DEF Unrolls
<1> DEFINE IsOdd(t) == \E y \in t : f[t] # p[y] + f[t \ {y}]
           Odd == {t \in SUBSET S : IsOdd(t)}
           Sizes == {Cardinality(t) : t \in Odd}
<1>1. SUFFICES ASSUME Odd # {} PROVE FALSE
  OBVIOUS
<1>2. \A t \in SUBSET S : IsFiniteSet(t) /\ Cardinality(t) \in Nat
  BY FS_Subset, FS_CardinalityType
<1>3. PICK t \in Odd : \A other \in Odd : Cardinality(t) <= Cardinality(other)
  <2>1. Sizes \in SUBSET Nat /\ Sizes # {}
    BY <1>1, <1>2
  <2>2. PICK k \in Sizes : \A l \in Sizes : k <= l
    <3> HIDE DEF Sizes
    <3>1. QED
      BY <2>1, LeastExists
  <2>3. QED
    BY <2>2
<1>4. PICK y \in t : f[t] # p[y] + f[t \ {y}]
  OBVIOUS
<1>5. t \in SUBSET S /\ t # {}
  BY <1>4
<1> DEFINE c == Chosen(t)
           rest == (t \ {c}) \ {y}
<1>7. c \in t /\ f[t] = p[c] + f[t \ {c}]
  BY <1>2, <1>5, <1>6, ChosenLeaves
<1>8. c # y
  BY <1>4, <1>7
<1>9. ASSUME NEW u \in SUBSET S, Cardinality(u) < Cardinality(t), NEW z \in u
      PROVE  f[u] = p[z] + f[u \ {z}]
  <2>1. u \notin Odd
    BY <1>2, <1>3, <1>9
  <2>2. QED
    BY <2>1
<1>10. /\ Cardinality(t \ {c}) < Cardinality(t)
       /\ Cardinality(t \ {y}) < Cardinality(t)
  <2>1. \A z \in t : Cardinality(t \ {z}) = Cardinality(t) - 1 /\ Cardinality(t) \in Nat
    BY <1>2, <1>5, FS_RemoveElement
  <2>2. QED
    BY <1>4, <1>7, <2>1
<1>11. f[t \ {c}] = p[y] + f[rest]
  BY <1>5, <1>8, <1>9, <1>10
<1>12. f[t \ {y}] = p[c] + f[rest]
  <2>1. (t \ {y}) \ {c} = rest
    OBVIOUS
  <2>2. c \in t \ {y} /\ t \ {y} \in SUBSET S
    BY <1>5, <1>7, <1>8
  <2>3. f[t \ {y}] = p[c] + f[(t \ {y}) \ {c}]
    BY <1>9, <1>10, <2>2
  <2>4. QED
    BY <2>1, <2>3
<1>13. /\ f[rest] \in Nat /\ p[c] \in Nat /\ p[y] \in Nat
  <2>1. rest \in SUBSET S /\ c \in S /\ y \in S
    BY <1>5, <1>7
  <2>2. QED
    BY <2>1, TotalType DEF AreNatural
<1>14. QED
  BY <1>4, <1>7, <1>11, <1>12, <1>13

(* The sum itself: the same for equal weights, and one more element adds   *)
(* its own.                                                                *)
LEMMA TotalOfAgrees ==
    ASSUME NEW p, NEW q, NEW S, IsFiniteSet(S), WeighAlike(p, q, S)
    PROVE  TotalOf(p, S) = TotalOf(q, S)
<1>1. /\ \E f : IsTotal(p, S, f)
      /\ \E f : IsTotal(q, S, f)
  BY TotalExists
<1>2. PICK f, g : /\ f = (CHOOSE h : IsTotal(p, S, h)) /\ g = (CHOOSE h : IsTotal(q, S, h))
                  /\ IsTotal(p, S, f) /\ IsTotal(q, S, g)
  BY <1>1, Zenon
<1>3. S \subseteq S /\ S \in SUBSET S
  OBVIOUS
<1>4. f[S] = g[S]
  BY <1>2, <1>3, TotalsAgree
<1>5. QED
  BY <1>2, <1>4 DEF TotalOf

LEMMA TotalOfAdds ==
    ASSUME NEW p, NEW S, IsFiniteSet(S), AreNatural(p, S), NEW x \in S
    PROVE  /\ TotalOf(p, S) = p[x] + TotalOf(p, S \ {x})
           /\ TotalOf(p, S) \in Nat /\ TotalOf(p, S \ {x}) \in Nat
<1> DEFINE R == S \ {x}
<1>1. IsFiniteSet(R)
  BY FS_Subset
<1>2. /\ \E f : IsTotal(p, S, f)
      /\ \E f : IsTotal(p, R, f)
  BY <1>1, TotalExists
<1>3. PICK f, g : /\ f = (CHOOSE h : IsTotal(p, S, h)) /\ g = (CHOOSE h : IsTotal(p, R, h))
                  /\ IsTotal(p, S, f) /\ IsTotal(p, R, g)
  BY <1>2, Zenon
<1>4. R \subseteq S /\ R \in SUBSET R /\ S \in SUBSET S /\ R \in SUBSET S
  OBVIOUS
<1>5. g[R] = f[R]
  <2>1. WeighAlike(p, p, R)
    BY DEF WeighAlike
  <2>2. PICK r : r = R
    OBVIOUS
  <2>3. /\ r \subseteq S /\ WeighAlike(p, p, r) /\ IsTotal(p, r, g) /\ IsTotal(p, S, f)
        /\ r \in SUBSET r
    BY <1>3, <1>4, <2>1, <2>2
  <2>4. g[r] = f[r]
    BY <2>3, TotalsAgree
  <2>5. QED
    BY <2>2, <2>4
<1>6. f[S] = p[x] + f[R]
  BY <1>3, <1>4, TotalTakesOut
<1>7. f[S] \in Nat /\ f[R] \in Nat
  BY <1>3, <1>4, TotalType
<1>8. QED
  BY <1>3, <1>5, <1>6, <1>7 DEF TotalOf

(* The sums over the subsets of a set, however they are written down, give *)
(* the same total.                                                         *)
LEMMA TotalIsUnique ==
    ASSUME NEW weight, NEW S, IsFiniteSet(S), NEW f, IsTotal(weight, S, f)
    PROVE  TotalOf(weight, S) = f[S]
<1>1. PICK g : g = (CHOOSE h : IsTotal(weight, S, h)) /\ IsTotal(weight, S, g)
  BY Zenon
<1>2. WeighAlike(weight, weight, S) /\ S \subseteq S /\ S \in SUBSET S
  BY DEF WeighAlike
<1>3. g[S] = f[S]
  BY <1>1, <1>2, TotalsAgree
<1>4. QED
  BY <1>1, <1>3 DEF TotalOf

LEMMA TotalOfNothing ==
    ASSUME NEW weight
    PROVE  TotalOf(weight, {}) = 0
<1>1. \E f : IsTotal(weight, {}, f)
  BY TotalExists, FS_EmptySet
<1>2. PICK f : f = (CHOOSE h : IsTotal(weight, {}, h)) /\ IsTotal(weight, {}, f)
  BY <1>1, Zenon
<1>3. Unrolls(weight, {}, f)
  BY <1>2, TotalValue
<1>4. QED
  BY <1>2, <1>3 DEF TotalOf, Unrolls

(* Disjoint pieces are together as many as all of them.                    *)
Apart(piece, S) == \A a, b \in S : a # b => piece[a] \cap piece[b] = {}
AllFinite(piece, S) == \A a \in S : IsFiniteSet(piece[a])
Sizes(piece, S) == [a \in S |-> Cardinality(piece[a])]
Joined(piece, S) == UNION {piece[a] : a \in S}

LEMMA SizesAddUp ==
    ASSUME NEW piece, NEW S, IsFiniteSet(S), AllFinite(piece, S), Apart(piece, S)
    PROVE  /\ IsFiniteSet(Joined(piece, S))
           /\ TotalOf(Sizes(piece, S), S) = Cardinality(Joined(piece, S))
<1> DEFINE Good(s) == /\ IsFiniteSet(Joined(piece, s))
                      /\ TotalOf(Sizes(piece, S), s) = Cardinality(Joined(piece, s))
           Bad == {s \in SUBSET S : ~Good(s)}
           Counts == {Cardinality(s) : s \in Bad}
<1>1. SUFFICES ASSUME Bad # {} PROVE FALSE
  OBVIOUS
<1>2. \A s \in SUBSET S : IsFiniteSet(s) /\ Cardinality(s) \in Nat
  BY FS_Subset, FS_CardinalityType
<1>3. PICK s \in Bad : \A other \in Bad : Cardinality(s) <= Cardinality(other)
  <2>1. Counts \in SUBSET Nat /\ Counts # {}
    BY <1>1, <1>2
  <2>2. PICK k \in Counts : \A l \in Counts : k <= l
    <3> HIDE DEF Counts
    <3>1. QED
      BY <2>1, LeastExists
  <2>3. QED
    BY <2>2
<1>4. s \in SUBSET S /\ ~Good(s)
  OBVIOUS
<1>5. s # {}
  <2>1. SUFFICES ASSUME s = {} PROVE FALSE
    OBVIOUS
  <2>2. Joined(piece, s) = {}
    BY <2>1 DEF Joined
  <2>3. TotalOf(Sizes(piece, S), s) = 0
    BY <2>1, TotalOfNothing
  <2>4. QED
    BY <1>4, <2>2, <2>3, FS_EmptySet
<1>6. PICK x \in s : TRUE
  BY <1>5
<1>7. PICK rest : rest = s \ {x}
  OBVIOUS
<1>8. rest \in SUBSET S /\ Cardinality(rest) = Cardinality(s) - 1 /\ Cardinality(s) \in Nat
  BY <1>2, <1>4, <1>7, FS_RemoveElement
<1>9. Good(rest)
  <2>1. rest \notin Bad
    BY <1>2, <1>3, <1>8
  <2>2. QED
    BY <1>8, <2>1
<1>10. /\ TotalOf(Sizes(piece, S), s) = Sizes(piece, S)[x] + TotalOf(Sizes(piece, S), s \ {x})
       /\ Sizes(piece, S)[x] = Cardinality(piece[x])
  <2>1. AreNatural(Sizes(piece, S), s)
    BY <1>4, FS_CardinalityType DEF AreNatural, Sizes, AllFinite
  <2>2. IsFiniteSet(s) /\ x \in s
    BY <1>2, <1>4
  <2>3. PICK w : w = Sizes(piece, S)
    OBVIOUS
  <2>4. TotalOf(w, s) = w[x] + TotalOf(w, s \ {x})
    BY <2>1, <2>2, <2>3, TotalOfAdds
  <2>5. Sizes(piece, S)[x] = Cardinality(piece[x])
    BY <1>4, <2>2 DEF Sizes
  <2>6. QED
    BY <2>3, <2>4, <2>5
<1>11. /\ Joined(piece, s) = piece[x] \cup Joined(piece, rest)
       /\ piece[x] \cap Joined(piece, rest) = {}
       /\ IsFiniteSet(piece[x])
  <2>1. Joined(piece, s) = piece[x] \cup Joined(piece, rest)
    BY <1>7 DEF Joined
  <2>2. \A a \in rest : piece[x] \cap piece[a] = {}
    BY <1>4, <1>7, <1>8 DEF Apart
  <2>3. piece[x] \cap Joined(piece, rest) = {}
    BY <2>2 DEF Joined
  <2>4. QED
    BY <1>4, <2>1, <2>3 DEF AllFinite
<1>12. PICK A, B : A = piece[x] /\ B = Joined(piece, rest)
  OBVIOUS
<1>13. IsFiniteSet(A \cup B) /\ Cardinality(A \cup B) = Cardinality(A) + Cardinality(B)
  <2>1. IsFiniteSet(A) /\ IsFiniteSet(B) /\ A \cap B = {}
    BY <1>9, <1>11, <1>12
  <2>2. /\ IsFiniteSet(A \cup B)
        /\ Cardinality(A \cup B) = Cardinality(A) + Cardinality(B) - Cardinality(A \cap B)
    BY <2>1, FS_Union
  <2>3. Cardinality(A) \in Nat /\ Cardinality(B) \in Nat /\ Cardinality(A \cap B) = 0
    BY <2>1, FS_CardinalityType, FS_EmptySet
  <2>4. QED
    BY <2>2, <2>3
<1>14. Good(s)
  BY <1>7, <1>9, <1>10, <1>11, <1>12, <1>13
<1>15. QED
  BY <1>4, <1>14

-----------------------------------------------------------------------------
(* Rankings.                                                               *)

IsOrder(S, R) ==
    /\ \A x \in S : <<x, x>> \notin R
    /\ \A x, y, z \in S : <<x, y>> \in R /\ <<y, z>> \in R => <<x, z>> \in R
    /\ \A x, y \in S : x = y \/ <<x, y>> \in R \/ <<y, x>> \in R

Ahead(S, R, x) == {y \in S : <<y, x>> \in R}

(* What precedes has fewer ahead of it.                                    *)
LEMMA AheadGrows ==
    ASSUME NEW S, IsFiniteSet(S), NEW R, IsOrder(S, R),
           NEW x \in S, NEW y \in S, <<x, y>> \in R
    PROVE  Cardinality(Ahead(S, R, x)) < Cardinality(Ahead(S, R, y))
<1> DEFINE A == Ahead(S, R, x)
           B == Ahead(S, R, y)
<1>1. A \in SUBSET B
  BY DEF Ahead, IsOrder
<1>2. x \in B /\ x \notin A
  BY DEF Ahead, IsOrder
<1>3. IsFiniteSet(B)
  <2>1. B \in SUBSET S
    BY DEF Ahead
  <2> HIDE DEF B
  <2>2. QED
    BY <2>1, FS_Subset
<1>4. A # B
  BY <1>2
<1> HIDE DEF A, B
<1>5. Cardinality(A) <= Cardinality(B) /\ Cardinality(A) # Cardinality(B)
  BY <1>1, <1>3, <1>4, FS_Subset
<1>6. Cardinality(A) \in Nat /\ Cardinality(B) \in Nat
  BY <1>1, <1>3, FS_Subset, FS_CardinalityType
<1>7. QED
  BY <1>5, <1>6 DEF A, B

(* How many are ahead of an element tells where it is, and every position  *)
(* is taken.                                                               *)
Position(S, R) == [x \in S |-> Cardinality(Ahead(S, R, x)) + 1]

LEMMA PositionsAreTaken ==
    ASSUME NEW S, IsFiniteSet(S), NEW R, IsOrder(S, R)
    PROVE  /\ Cardinality(S) \in Nat
           /\ Position(S, R) \in [S -> 1 .. Cardinality(S)]
           /\ \A x, y \in S : Position(S, R)[x] = Position(S, R)[y] => x = y
           /\ \A k \in 1 .. Cardinality(S) : \E x \in S : Position(S, R)[x] = k
<1> DEFINE n == Cardinality(S)
           position == Position(S, R)
<1>1. n \in Nat
  BY FS_CardinalityType
<1>2. ASSUME NEW x \in S
      PROVE  position[x] \in 1 .. n
  <2>1. PICK A : A = Ahead(S, R, x)
    OBVIOUS
  <2>2. A \in SUBSET S /\ x \notin A
    BY <2>1 DEF Ahead, IsOrder
  <2>3. Cardinality(A) <= n /\ (n = Cardinality(A) => S = A) /\ Cardinality(A) \in Nat
    BY <2>2, FS_Subset, FS_CardinalityType
  <2>4. position[x] = Cardinality(A) + 1
    BY <2>1 DEF Position
  <2>5. QED
    BY <1>1, <2>2, <2>3, <2>4
<1>3. position \in [S -> 1 .. n]
  BY <1>2 DEF Position
<1>4. ASSUME NEW x \in S, NEW y \in S, position[x] = position[y]
      PROVE  x = y
  <2>1. \A z \in S : Cardinality(Ahead(S, R, z)) \in Nat
    <3>1. \A z \in S : Ahead(S, R, z) \in SUBSET S
      BY DEF Ahead
    <3>2. QED
      BY <3>1, FS_Subset, FS_CardinalityType
  <2>2. Cardinality(Ahead(S, R, x)) = Cardinality(Ahead(S, R, y))
    BY <1>4, <2>1 DEF Position
  <2>3. <<x, y>> \notin R /\ <<y, x>> \notin R
    <3>1. <<x, y>> \in R => Cardinality(Ahead(S, R, x)) < Cardinality(Ahead(S, R, y))
      BY AheadGrows
    <3>2. <<y, x>> \in R => Cardinality(Ahead(S, R, y)) < Cardinality(Ahead(S, R, x))
      BY AheadGrows
    <3>3. QED
      BY <2>1, <2>2, <3>1, <3>2
  <2>4. QED
    BY <2>3 DEF IsOrder
<1> HIDE DEF position
<1>5. position \in Injection(S, 1 .. n)
  BY <1>3, <1>4 DEF Injection, IsInjective
<1>6. IsFiniteSet(1 .. n) /\ Cardinality(1 .. n) = n
  <2>1. 1 \in Int /\ n \in Int
    BY <1>1
  <2> HIDE DEF n
  <2>2. IsFiniteSet(1 .. n) /\ Cardinality(1 .. n) = IF 1 > n THEN 0 ELSE n - 1 + 1
    BY <2>1, FS_Interval
  <2>3. QED
    BY <1>1, <2>2
<1>7. position \in Surjection(S, 1 .. n)
  BY <1>5, <1>6, FS_Injection
<1>8. \A k \in 1 .. n : \E x \in S : position[x] = k
  BY <1>7 DEF Surjection
<1>9. QED
  BY <1>1, <1>3, <1>4, <1>8 DEF position

(* Ranked sorts: the ranking of any finite set by a strict total order     *)
(* holds every element at its position, and no other, and what is earlier  *)
(* precedes (order_results of src/scanner/ranking.py, _index_timestamps of *)
(* src/evaluation/evaluate.py).                                            *)
THEOREM RankedProperties ==
    ASSUME NEW S, IsFiniteSet(S), NEW R, IsOrder(S, R)
    PROVE  /\ Cardinality(S) \in Nat
           /\ DOMAIN Ranked(S, R) = 1 .. Cardinality(S)
           /\ Ranked(S, R) \in Seq(S) /\ Len(Ranked(S, R)) = Cardinality(S)
           /\ \A k \in 1 .. Cardinality(S) :
                 Ranked(S, R)[k] \in S /\ Position(S, R)[Ranked(S, R)[k]] = k
           /\ \A x \in S : /\ Position(S, R)[x] \in 1 .. Cardinality(S)
                           /\ Ranked(S, R)[Position(S, R)[x]] = x
           /\ \A i, j \in 1 .. Cardinality(S) :
                 i < j => <<Ranked(S, R)[i], Ranked(S, R)[j]>> \in R
<1> DEFINE n == Cardinality(S)
           ranked == Ranked(S, R)
           position == Position(S, R)
<1>1. /\ n \in Nat
      /\ position \in [S -> 1 .. n]
      /\ \A x, y \in S : position[x] = position[y] => x = y
      /\ \A k \in 1 .. n : \E x \in S : position[x] = k
  BY PositionsAreTaken
<1>2. \A x \in S : Cardinality(Ahead(S, R, x)) \in Nat
  <2>1. \A z \in S : Ahead(S, R, z) \in SUBSET S
    BY DEF Ahead
  <2>2. QED
    BY <2>1, FS_Subset, FS_CardinalityType
<1>3. \A x \in S, k \in 1 .. n :
          Cardinality({y \in S : <<y, x>> \in R}) = k - 1 <=> position[x] = k
  <2>1. \A x \in S : {y \in S : <<y, x>> \in R} = Ahead(S, R, x)
    BY DEF Ahead
  <2>2. \A x \in S : position[x] = Cardinality(Ahead(S, R, x)) + 1
    BY DEF Position
  <2> HIDE DEF position
  <2>3. ASSUME NEW x \in S, NEW k \in 1 .. n
        PROVE  Cardinality({y \in S : <<y, x>> \in R}) = k - 1 <=> position[x] = k
    <3>1. PICK c \in Nat : c = Cardinality(Ahead(S, R, x))
      BY <1>2
    <3>2. Cardinality({y \in S : <<y, x>> \in R}) = c /\ position[x] = c + 1
      BY <2>1, <2>2, <3>1
    <3>3. k \in Nat
      BY <1>1
    <3>4. QED
      BY <3>1, <3>2, <3>3
  <2>4. QED
    BY <2>3
<1>4. DOMAIN ranked = 1 .. n
  BY DEF Ranked
<1>5. ASSUME NEW k \in 1 .. n
      PROVE  ranked[k] \in S /\ position[ranked[k]] = k
  <2>1. ranked[k] = CHOOSE x \in S : Cardinality({y \in S : <<y, x>> \in R}) = k - 1
    BY DEF Ranked
  <2> HIDE DEF position, ranked
  <2>2. \E x \in S : Cardinality({y \in S : <<y, x>> \in R}) = k - 1
    BY <1>1, <1>3
  <2>3. ranked[k] \in S /\ Cardinality({y \in S : <<y, ranked[k]>> \in R}) = k - 1
    BY <2>1, <2>2, Zenon
  <2>4. QED
    BY <1>3, <2>3
<1> HIDE DEF ranked
<1>6. ASSUME NEW x \in S
      PROVE  position[x] \in 1 .. n /\ ranked[position[x]] = x
  <2> HIDE DEF position
  <2>1. position[x] \in 1 .. n
    BY <1>1
  <2>2. QED
    BY <1>1, <1>5, <2>1
<1>7. ASSUME NEW i \in 1 .. n, NEW j \in 1 .. n, i < j
      PROVE  <<ranked[i], ranked[j]>> \in R
  <2>1. PICK x, y \in S : x = ranked[i] /\ y = ranked[j] /\ position[x] = i /\ position[y] = j
    BY <1>5
  <2>2. x # y
    BY <1>1, <1>7, <2>1
  <2>3. <<y, x>> \notin R
    <3>1. SUFFICES ASSUME <<y, x>> \in R PROVE FALSE
      OBVIOUS
    <3>2. Cardinality(Ahead(S, R, y)) < Cardinality(Ahead(S, R, x))
      BY <3>1, AheadGrows
    <3>3. /\ position[x] = Cardinality(Ahead(S, R, x)) + 1
          /\ position[y] = Cardinality(Ahead(S, R, y)) + 1
      BY DEF Position
    <3>4. QED
      BY <1>1, <1>2, <1>7, <2>1, <3>2, <3>3
  <2>4. QED
    BY <2>1, <2>2, <2>3 DEF IsOrder
<1>8. ranked \in Seq(S) /\ Len(ranked) = n
  <2> HIDE DEF n
  <2> DEFINE taken(k) == CHOOSE x \in S : Cardinality({y \in S : <<y, x>> \in R}) = k - 1
  <2>1. ranked = [k \in 1 .. n |-> taken(k)]
    BY DEF ranked, Ranked, n
  <2> HIDE DEF taken
  <2>2. ranked \in [1 .. n -> S]
    BY <1>5, <2>1
  <2>3. QED
    BY <1>1, <2>2
<1>9. QED
  BY <1>1, <1>4, <1>5, <1>6, <1>7, <1>8 DEF ranked

(* A number's rank among those of a finite set.                            *)
Lower(S, x) == {y \in S : y < x}

Rank(S, x) == Cardinality(Lower(S, x))

(* Ranks are strictly monotone and below the number of members.            *)
LEMMA RanksGrow ==
    ASSUME NEW S \in SUBSET Int, IsFiniteSet(S)
    PROVE  /\ \A x \in S : Rank(S, x) \in Nat /\ Rank(S, x) < Cardinality(S)
           /\ \A x, y \in S : x < y => Rank(S, x) < Rank(S, y)
           /\ \A x, y \in S : Rank(S, x) < Rank(S, y) => x < y
           /\ \A x, y \in S : Rank(S, x) = Rank(S, y) => x = y
<1>1. ASSUME NEW x \in S
      PROVE  /\ Rank(S, x) \in Nat /\ IsFiniteSet(Lower(S, x))
             /\ Rank(S, x) < Cardinality(S)
  <2>1. Lower(S, x) \in SUBSET S /\ x \notin Lower(S, x)
    BY DEF Lower
  <2>2. /\ IsFiniteSet(Lower(S, x)) /\ Cardinality(Lower(S, x)) <= Cardinality(S)
        /\ (Cardinality(S) = Cardinality(Lower(S, x)) => S = Lower(S, x))
    BY <2>1, FS_Subset
  <2>3. Cardinality(S) # Cardinality(Lower(S, x))
    BY <1>1, <2>1, <2>2
  <2>4. Cardinality(S) \in Nat /\ Cardinality(Lower(S, x)) \in Nat
    BY <2>2, FS_CardinalityType
  <2>5. QED
    BY <2>2, <2>3, <2>4 DEF Rank
<1>2. ASSUME NEW x \in S, NEW y \in S, x < y PROVE Rank(S, x) < Rank(S, y)
  <2>1. Lower(S, x) \in SUBSET Lower(S, y)
    <3>1. ASSUME NEW z \in Lower(S, x) PROVE z \in Lower(S, y)
      <4>1. z \in Int /\ x \in Int /\ y \in Int /\ z \in S /\ z < x
        BY DEF Lower
      <4>2. z < y
        BY <1>2, <4>1
      <4>3. QED
        BY <4>1, <4>2 DEF Lower
    <3>2. QED
      BY <3>1
  <2>2. x \in Lower(S, y) /\ x \notin Lower(S, x)
    BY <1>2 DEF Lower
  <2>3. /\ Cardinality(Lower(S, x)) <= Cardinality(Lower(S, y))
        /\ (Cardinality(Lower(S, y)) = Cardinality(Lower(S, x)) => Lower(S, y) = Lower(S, x))
    BY <1>1, <2>1, FS_Subset
  <2>4. Cardinality(Lower(S, y)) # Cardinality(Lower(S, x))
    BY <2>2, <2>3
  <2>5. Cardinality(Lower(S, x)) \in Nat /\ Cardinality(Lower(S, y)) \in Nat
    BY <1>1 DEF Rank
  <2>6. QED
    BY <2>3, <2>4, <2>5 DEF Rank
<1>3. ASSUME NEW x \in S, NEW y \in S, ~(x < y), x # y PROVE Rank(S, y) < Rank(S, x)
  <2>1. y < x
    BY <1>3
  <2>2. QED
    BY <1>2, <2>1
<1>4. \A x \in S : Rank(S, x) \in Nat
  BY <1>1
<1>5. \A x, y \in S : Rank(S, x) < Rank(S, y) => x < y
  BY <1>3, <1>4
<1>6. \A x, y \in S : Rank(S, x) = Rank(S, y) => x = y
  BY <1>2, <1>3, <1>4
<1>7. QED
  BY <1>1, <1>2, <1>5, <1>6

(* Every rank is taken: the ascending sequence of a set has its members in *)
(* order, each at its rank, and none between two neighbours.               *)
LEMMA AscendingIsOrdered ==
    ASSUME NEW S \in SUBSET Int, IsFiniteSet(S)
    PROVE  LET bars == Ascending(S) IN
           /\ Len(bars) = Cardinality(S) /\ Len(bars) \in Nat
           /\ DOMAIN bars = 1 .. Len(bars) /\ bars \in Seq(S)
           /\ \A i \in 1 .. Len(bars) : bars[i] \in S /\ Rank(S, bars[i]) = i - 1
           /\ \A i, j \in 1 .. Len(bars) : i < j => bars[i] < bars[j]
           /\ \A i \in 1 .. Len(bars) - 1 : \A b \in S :
                 ~(bars[i] < b /\ b < bars[i + 1])
<1> DEFINE n == Cardinality(S)
<1> DEFINE bars == Ascending(S)
<1> DEFINE rank == [x \in S |-> Rank(S, x) + 1]
<1>1. n \in Nat
  BY FS_CardinalityType
<1>2. \A x \in S : rank[x] \in 1 .. n
  <2>1. ASSUME NEW x \in S PROVE rank[x] \in 1 .. n
    <3>1. Rank(S, x) \in Nat /\ Rank(S, x) < n /\ rank[x] = Rank(S, x) + 1
      BY RanksGrow
    <3> HIDE DEF rank, n
    <3>2. QED
      BY <1>1, <3>1
  <2>2. QED
    BY <2>1
<1>3. rank \in Injection(S, 1 .. n)
  <2>1. ASSUME NEW x \in S, NEW y \in S, rank[x] = rank[y] PROVE x = y
    <3>1. Rank(S, x) \in Nat /\ Rank(S, y) \in Nat
      BY RanksGrow
    <3>2. Rank(S, x) + 1 = Rank(S, y) + 1
      BY <2>1
    <3>3. Rank(S, x) = Rank(S, y)
      BY <3>1, <3>2
    <3>4. QED
      BY <3>3, RanksGrow
  <2>2. rank \in [S -> 1 .. n]
    BY <1>2
  <2>3. QED
    BY <2>1, <2>2 DEF Injection, IsInjective
<1>4. IsFiniteSet(1 .. n) /\ Cardinality(1 .. n) = n
  <2>1. PICK one \in {1} : TRUE
    OBVIOUS
  <2>2. one \in Int /\ n \in Int
    BY <1>1
  <2>3. IsFiniteSet(one .. n) /\ Cardinality(one .. n) = IF one > n THEN 0 ELSE n - one + 1
    BY <2>2, FS_Interval
  <2>4. QED
    BY <1>1, <2>3
<1>5. rank \in Surjection(S, 1 .. n)
  BY <1>3, <1>4, FS_Injection
<1>6. ASSUME NEW i \in 1 .. n PROVE bars[i] \in S /\ Rank(S, bars[i]) = i - 1
  <2>1. PICK x \in S : rank[x] = i
    BY <1>5 DEF Surjection
  <2>2. Rank(S, x) \in Nat
    BY RanksGrow
  <2>3. Rank(S, x) + 1 = i
    BY <2>1
  <2>4. Rank(S, x) = i - 1
    BY <2>2, <2>3
  <2>5. bars[i] = CHOOSE z \in S : Cardinality({y \in S : y < z}) = i - 1
    BY DEF Ascending
  <2>6. bars[i] = CHOOSE z \in S : Rank(S, z) = i - 1
    BY <2>5 DEF Rank, Lower
  <2>7. \E z \in S : Rank(S, z) = i - 1
    BY <2>4
  <2>8. /\ (CHOOSE z \in S : Rank(S, z) = i - 1) \in S
        /\ Rank(S, CHOOSE z \in S : Rank(S, z) = i - 1) = i - 1
    BY <2>7, Zenon
  <2> HIDE DEF bars
  <2>9. QED
    BY <2>6, <2>8, Zenon
<1>7. DOMAIN bars = 1 .. n
  BY DEF Ascending
<1>8. Len(bars) = n /\ bars \in Seq(S)
  <2>1. bars = [i \in 1 .. n |-> bars[i]]
    <3> DEFINE bar(i) == CHOOSE z \in S : Cardinality({y \in S : y < z}) = i - 1
    <3>1. bars = [i \in 1 .. n |-> bar(i)]
      BY DEF Ascending
    <3> HIDE DEF bar, bars
    <3>2. QED
      BY <3>1
  <2>2. bars \in Seq(S)
    BY <1>1, <1>6, <2>1
  <2>3. QED
    BY <1>1, <1>7, <2>2
<1> HIDE DEF bars, n, rank
<1>9. ASSUME NEW i \in 1 .. n, NEW j \in 1 .. n, i < j PROVE bars[i] < bars[j]
  <2>1. Rank(S, bars[i]) < Rank(S, bars[j])
    BY <1>1, <1>6, <1>9
  <2>2. QED
    BY <1>6, <2>1, RanksGrow
<1>10. ASSUME NEW i \in 1 .. n - 1, NEW b \in S, bars[i] < b, b < bars[i + 1] PROVE FALSE
  <2>1. i \in 1 .. n /\ i + 1 \in 1 .. n
    BY <1>1
  <2>2. Rank(S, bars[i]) = i - 1 /\ Rank(S, bars[i + 1]) = i + 1 - 1
    BY <1>6, <2>1
  <2>3. Rank(S, bars[i]) < Rank(S, b) /\ Rank(S, b) < Rank(S, bars[i + 1])
    BY <1>6, <1>10, <2>1, RanksGrow
  <2>4. Rank(S, b) \in Nat
    BY RanksGrow
  <2>5. QED
    BY <1>1, <2>2, <2>3, <2>4
<1>11. /\ Len(bars) = n /\ Len(bars) \in Nat
       /\ DOMAIN bars = 1 .. Len(bars) /\ bars \in Seq(S)
       /\ \A i \in 1 .. Len(bars) : bars[i] \in S /\ Rank(S, bars[i]) = i - 1
       /\ \A i, j \in 1 .. Len(bars) : i < j => bars[i] < bars[j]
       /\ \A i \in 1 .. Len(bars) - 1 : \A b \in S :
             ~(bars[i] < b /\ b < bars[i + 1])
  BY <1>1, <1>6, <1>7, <1>8, <1>9, <1>10
<1>12. QED
  BY <1>11 DEF bars, n

(* Every member has its place, after as many as are below it.              *)
LEMMA AscendingProperties ==
    ASSUME NEW S \in SUBSET Int, IsFiniteSet(S)
    PROVE  /\ Cardinality(S) \in Nat
           /\ Ascending(S) \in Seq(S) /\ Len(Ascending(S)) = Cardinality(S)
           /\ DOMAIN Ascending(S) = 1 .. Cardinality(S)
           /\ \A x \in S : \E k \in 1 .. Cardinality(S) :
                 Ascending(S)[k] = x /\ Cardinality({y \in S : y < x}) = k - 1
           /\ \A i, j \in 1 .. Cardinality(S) : i < j => Ascending(S)[i] < Ascending(S)[j]
<1>1. PICK n, numbers : n = Cardinality(S) /\ numbers = Ascending(S)
  OBVIOUS
<1>2. /\ n \in Nat /\ Len(numbers) = n
      /\ DOMAIN numbers = 1 .. n /\ numbers \in Seq(S)
      /\ \A k \in 1 .. n : numbers[k] \in S /\ Rank(S, numbers[k]) = k - 1
      /\ \A i, j \in 1 .. n : i < j => numbers[i] < numbers[j]
  BY <1>1, AscendingIsOrdered
<1>3. ASSUME NEW x \in S
      PROVE  \E k \in 1 .. n : numbers[k] = x /\ Cardinality({y \in S : y < x}) = k - 1
  <2>1. PICK below : below = Rank(S, x)
    OBVIOUS
  <2>2. below \in Nat /\ below < n
    BY <1>1, <2>1, RanksGrow
  <2>3. PICK k \in 1 .. n : k = below + 1
    BY <1>2, <2>2
  <2>4. Rank(S, numbers[k]) = k - 1 /\ numbers[k] \in S /\ below = k - 1
    BY <1>2, <2>2, <2>3
  <2>5. numbers[k] = x
    <3>1. PICK y \in S : y = numbers[k]
      BY <2>4
    <3>2. Rank(S, y) = Rank(S, x)
      BY <2>1, <2>4, <3>1
    <3>3. y = x
      BY <3>2, RanksGrow
    <3>4. QED
      BY <3>1, <3>3
  <2>6. QED
    BY <2>1, <2>4, <2>5 DEF Rank, Lower
<1>4. QED
  BY <1>1, <1>2, <1>3

-----------------------------------------------------------------------------
(* A JSONL file.                                                           *)

(* The rows of a file are among the rows its type allows.                  *)
LEMMA RowSetType ==
    ASSUME NEW Row, NEW f \in File(Row)
    PROVE  RowSet(f) \subseteq Row
BY DEF File, RowSet

(* An append that returned: the file keeps its type and every row, and on  *)
(* a clean file the new row, and no other, joins them.                     *)
LEMMA AppendedProperties ==
    ASSUME NEW Row, NEW f \in File(Row), NEW row \in Row
    PROVE  /\ Appended(f, row) \in File(Row)
           /\ RowSet(f) \subseteq RowSet(Appended(f, row))
           /\ RowSet(Appended(f, row)) \subseteq RowSet(f) \cup {row}
           /\ f.tail = "clean" => /\ Appended(f, row).tail = "clean"
                                  /\ row \in RowSet(Appended(f, row))
           /\ f.tail # "clean" => /\ Appended(f, row).tail # "clean"
                                  /\ Appended(f, row).rows = f.rows
<1>1. f.rows \in Seq(Row) /\ f.tail \in Tails
  BY DEF File
<1>2. f = [rows |-> f.rows, tail |-> f.tail]
  BY DEF File
<1>3. CASE f.tail = "clean"
  <2>1. Appended(f, row) = [rows |-> Append(f.rows, row), tail |-> f.tail]
    BY <1>2, <1>3 DEF Appended
  <2>2. /\ Append(f.rows, row) \in Seq(Row)
        /\ Len(Append(f.rows, row)) = Len(f.rows) + 1
        /\ \A i \in 1 .. Len(f.rows) : Append(f.rows, row)[i] = f.rows[i]
        /\ Append(f.rows, row)[Len(f.rows) + 1] = row
    BY <1>1, AppendProperties
  <2>3. Appended(f, row) \in File(Row)
    BY <1>1, <2>1, <2>2 DEF File
  <2>4. RowSet(Appended(f, row)) = RowSet(f) \cup {row}
    BY <1>1, <2>1, <2>2 DEF RowSet
  <2>5. Appended(f, row).tail = "clean"
    BY <1>3, <2>1
  <2>6. QED
    BY <1>3, <2>3, <2>4, <2>5, Zenon
<1>4. CASE f.tail # "clean"
  <2>1. Appended(f, row) = [rows |-> f.rows, tail |-> "buried"]
    BY <1>2, <1>4 DEF Appended
  <2>2. QED
    BY <1>1, <1>4, <2>1 DEF File, RowSet, Tails
<1>5. QED
  BY <1>3, <1>4

(* An append cut short loses no row either, and adds at most its own; the  *)
(* file is as it was, as after the append, or damaged.                     *)
LEMMA CutShortProperties ==
    ASSUME NEW Row, NEW f \in File(Row), NEW row \in Row, NEW g \in CutShort(f, row)
    PROVE  /\ g \in File(Row)
           /\ RowSet(f) \subseteq RowSet(g)
           /\ RowSet(g) \subseteq RowSet(f) \cup {row}
           /\ \/ g = f
              \/ g = Appended(f, row)
              \/ g.rows = f.rows /\ g.tail # "clean"
<1>1. CASE g = f
  BY <1>1
<1>2. CASE g = Appended(f, row)
  BY <1>2, AppendedProperties
<1>3. CASE g = [f EXCEPT !.tail = IF @ = "clean" THEN "torn" ELSE "buried"]
  BY <1>3 DEF File, RowSet, Tails
<1>4. QED
  BY <1>1, <1>2, <1>3 DEF CutShort

(* A new key joins distinct keys.                                          *)
LEMMA AppendedKeepsKeysApart ==
    ASSUME NEW Row, NEW f \in File(Row), NEW row \in Row,
           NoRepeatedKey(f), row.key \notin Keys(f)
    PROVE  NoRepeatedKey(Appended(f, row))
<1>1. f.rows \in Seq(Row)
  BY DEF File
<1>2. CASE f.tail = "clean"
  <2>1. Appended(f, row).rows = Append(f.rows, row)
    BY <1>2 DEF Appended, File
  <2>2. /\ Append(f.rows, row) \in Seq(Row)
        /\ Len(Append(f.rows, row)) = Len(f.rows) + 1
        /\ \A i \in 1 .. Len(f.rows) : Append(f.rows, row)[i] = f.rows[i]
        /\ Append(f.rows, row)[Len(f.rows) + 1] = row
    BY <1>1, AppendProperties
  <2>3. \A i \in 1 .. Len(f.rows) : f.rows[i].key # row.key
    BY <1>1 DEF Keys
  <2>4. QED
    BY <1>1, <2>1, <2>2, <2>3 DEF NoRepeatedKey
<1>3. CASE f.tail # "clean"
  BY <1>3 DEF Appended, File, NoRepeatedKey
<1>4. QED
  BY <1>2, <1>3

(* A file without a repeated key holds as many rows as it has lines.       *)
LEMMA FileSize ==
    ASSUME NEW Row, NEW file \in File(Row)
    PROVE  /\ IsFiniteSet(RowSet(file)) /\ Cardinality(RowSet(file)) \in Nat
           /\ NoRepeatedKey(file) => Cardinality(RowSet(file)) = Len(file.rows)
<1>1. file.rows \in Seq(Row) /\ Len(file.rows) \in Nat /\ DOMAIN file.rows = 1 .. Len(file.rows)
  BY DEF File
<1>2. IsFiniteSet(DOMAIN file.rows) /\ Cardinality(DOMAIN file.rows) = Len(file.rows)
  <2>1. 1 \in Int /\ Len(file.rows) \in Int
    BY <1>1
  <2>2. /\ IsFiniteSet(1 .. Len(file.rows))
        /\ Cardinality(1 .. Len(file.rows)) = IF 1 > Len(file.rows) THEN 0 ELSE Len(file.rows) - 1 + 1
    BY <2>1, FS_Interval
  <2>3. QED
    BY <1>1, <2>2
<1> DEFINE f == [i \in DOMAIN file.rows |-> file.rows[i]]
<1>3. f \in Surjection(DOMAIN file.rows, RowSet(file))
  BY DEF RowSet, Surjection
<1>4. IsFiniteSet(RowSet(file)) /\ Cardinality(RowSet(file)) \in Nat
  BY <1>2, <1>3, FS_Surjection, FS_CardinalityType
<1>5. ASSUME NoRepeatedKey(file) PROVE Cardinality(RowSet(file)) = Len(file.rows)
  <2>1. f \in [DOMAIN file.rows -> RowSet(file)] /\ \A t \in RowSet(file) : \E i \in DOMAIN file.rows : f[i] = t
    BY DEF RowSet
  <2>2. \A i, j \in DOMAIN file.rows : f[i] = f[j] => i = j
    BY <1>5 DEF NoRepeatedKey
  <2> HIDE DEF f
  <2>3. QED
    BY <1>2, <2>1, <2>2, SameSize
<1>6. QED
  BY <1>4, <1>5
=============================================================================
