----------------------------- MODULE EngineProofs -----------------------------
(***************************************************************************)
(* Theorems about the five parts of the correlation engine that keep state *)
(* in a process: the swarm, its runs and their history, the chat, the      *)
(* predictor and the risk scorer, for any number of batches, runs,         *)
(* processes, questions, incidents, stages and hosts. The sums in them are *)
(* numbers of marks (Totals), and the first part is about those.           *)
(***************************************************************************)
EXTENDS SwarmSimulator, SwarmRuns, AgentChat, AttackPredictor, RiskScorer,
  FiniteSetTheorems, FunctionTheorems, SequenceTheorems, WellFoundedInduction, TLAPS

-----------------------------------------------------------------------------
(* Totals.                                                                  *)

\* A mark is an argument with one of the numbers up to its value.
LEMMA MarkOf ==
  ASSUME NEW I, NEW g \in [I -> Nat]
  PROVE  \A p : p \in Marks(g) <=> \E i \in I : \E k \in 1..g[i] : p = <<i, k>>
<1>1. DOMAIN g = I
  OBVIOUS
<1> SUFFICES ASSUME NEW p
             PROVE  p \in UNION {{i} \X (1..g[i]) : i \in I} <=>
                      \E i \in I : \E k \in 1..g[i] : p = <<i, k>>
  BY <1>1 DEF Marks
<1>2. ASSUME NEW i \in I
      PROVE  p \in {i} \X (1..g[i]) <=> \E k \in 1..g[i] : p = <<i, k>>
  OBVIOUS
<1> QED
  BY <1>2

\* The marks of a finite number of arguments can be counted.
LEMMA TotalIsNat ==
  ASSUME NEW I, IsFiniteSet(I), NEW g \in [I -> Nat]
  PROVE  IsFiniteSet(Marks(g)) /\ Total(g) \in Nat
<1> DEFINE Row(i) == {i} \X (1..g[i])
           rows == {Row(i) : i \in I}
           f == [i \in I |-> Row(i)]
<1>1. f \in Surjection(I, rows)
  BY DEF Surjection
<1>2. IsFiniteSet(rows)
  BY <1>1, FS_Surjection
<1>3. ASSUME NEW i \in I PROVE IsFiniteSet(Row(i))
  <2>1. IsFiniteSet({i}) /\ IsFiniteSet(1..g[i])
    <3>1. g[i] \in Int /\ 1 \in Int
      OBVIOUS
    <3> QED
      BY <3>1, FS_Singleton, FS_Interval
  <2> QED
    BY <2>1, FS_Product
<1>4. IsFiniteSet(UNION rows)
  BY <1>2, <1>3, FS_UNION
<1>5. Marks(g) = UNION rows
  BY DEF Marks
<1> QED
  BY <1>4, <1>5, FS_CardinalityType DEF Total

\* Without arguments, or with zeros only, a total is zero; with one, its value.
LEMMA TotalOfNone == \A g : DOMAIN g = {} => Total(g) = 0
<1>1. \A g : DOMAIN g = {} => Marks(g) = {}
  BY DEF Marks
<1> QED
  BY <1>1, FS_EmptySet DEF Total

LEMMA TotalOfZeros ==
  ASSUME NEW I, NEW g \in [I -> Nat], \A i \in I : g[i] = 0
  PROVE  Total(g) = 0
<1>1. Marks(g) = {}
  BY MarkOf
<1> QED
  BY <1>1, FS_EmptySet DEF Total

LEMMA TotalOfOne ==
  ASSUME NEW j, NEW g \in [{j} -> Nat]
  PROVE  Total(g) = g[j]
<1>1. Marks(g) = {j} \X (1..g[j])
  BY DEF Marks
<1>2. g[j] \in Nat
  OBVIOUS
<1>3. IsFiniteSet({j}) /\ Cardinality({j}) = 1
  BY FS_Singleton
<1>4. IsFiniteSet(1..g[j]) /\ Cardinality(1..g[j]) = g[j]
  BY <1>2, FS_Interval
<1>5. Cardinality({j} \X (1..g[j])) = 1 * g[j]
  <2>1. Cardinality({j} \X (1..g[j])) = Cardinality({j}) * Cardinality(1..g[j])
    BY <1>3, <1>4, FS_Product
  <2> QED
    BY <1>3, <1>4, <2>1
<1> QED
  BY <1>1, <1>2, <1>5 DEF Total

\* The total over a set is that over a part of it and that over the rest.
LEMMA TotalSplits ==
  ASSUME NEW I, IsFiniteSet(I), NEW J \in SUBSET I, NEW g \in [I -> Nat]
  PROVE  Total(g) = Total([i \in J |-> g[i]]) + Total([i \in I \ J |-> g[i]])
<1> DEFINE gJ == [i \in J |-> g[i]]
           gK == [i \in I \ J |-> g[i]]
<1>1. gJ \in [J -> Nat] /\ gK \in [I \ J -> Nat]
  OBVIOUS
<1>2. IsFiniteSet(J) /\ IsFiniteSet(I \ J)
  BY FS_Subset
<1>3. /\ IsFiniteSet(Marks(gJ)) /\ Total(gJ) \in Nat
      /\ IsFiniteSet(Marks(gK)) /\ Total(gK) \in Nat
  BY <1>1, <1>2, TotalIsNat
<1>4. \A p : p \in Marks(gJ) <=> \E i \in J : \E k \in 1..g[i] : p = <<i, k>>
  BY <1>1, MarkOf
<1>5. \A p : p \in Marks(gK) <=> \E i \in I \ J : \E k \in 1..g[i] : p = <<i, k>>
  BY <1>1, MarkOf
<1>6. \A p : p \in Marks(g) <=> \E i \in I : \E k \in 1..g[i] : p = <<i, k>>
  BY MarkOf
<1>7. Marks(g) = Marks(gJ) \cup Marks(gK)
  BY <1>4, <1>5, <1>6
<1>8. Marks(gJ) \cap Marks(gK) = {}
  BY <1>4, <1>5
<1>9. Cardinality(Marks(gJ) \cup Marks(gK)) = Cardinality(Marks(gJ)) + Cardinality(Marks(gK)) - 0
  <2>1. Cardinality(Marks(gJ) \cup Marks(gK)) =
          Cardinality(Marks(gJ)) + Cardinality(Marks(gK)) - Cardinality({})
    BY <1>3, <1>8, FS_Union
  <2> QED
    BY <2>1, FS_EmptySet
<1> QED
  BY <1>3, <1>7, <1>9 DEF Total

\* The total grows by the value of a new argument.
LEMMA TotalGrows ==
  ASSUME NEW I, IsFiniteSet(I), NEW j, j \notin I, NEW g \in [I \cup {j} -> Nat]
  PROVE  Total(g) = Total([i \in I |-> g[i]]) + g[j]
<1> DEFINE K == I \cup {j}
<1>1. IsFiniteSet(K) /\ I \in SUBSET K /\ K \ I = {j}
  BY FS_AddElement
<1>2. Total(g) = Total([i \in I |-> g[i]]) + Total([i \in K \ I |-> g[i]])
  BY <1>1, TotalSplits
<1>3. [i \in K \ I |-> g[i]] \in [{j} -> Nat] /\ [i \in K \ I |-> g[i]][j] = g[j]
  BY <1>1
<1> QED
  BY <1>2, <1>3, TotalOfOne

\* Added argument by argument, totals add up.
LEMMA TotalOfSum ==
  ASSUME NEW I, IsFiniteSet(I), NEW g \in [I -> Nat], NEW h \in [I -> Nat]
  PROVE  Total([i \in I |-> g[i] + h[i]]) = Total(g) + Total(h)
<1> DEFINE s == [i \in I |-> g[i] + h[i]]
           Upper == {p \in Marks(s) : p[2] > g[p[1]]}
           f == [p \in Upper |-> <<p[1], p[2] - g[p[1]]>>]
<1>1. s \in [I -> Nat]
  OBVIOUS
<1>2. /\ IsFiniteSet(Marks(s)) /\ IsFiniteSet(Marks(g)) /\ IsFiniteSet(Marks(h))
      /\ Total(g) \in Nat /\ Total(h) \in Nat
  BY <1>1, TotalIsNat
<1>3. \A p : p \in Marks(s) <=> \E i \in I : \E k \in 1..(g[i] + h[i]) : p = <<i, k>>
  BY <1>1, MarkOf
<1>4. \A p : p \in Marks(g) <=> \E i \in I : \E k \in 1..g[i] : p = <<i, k>>
  BY MarkOf
<1>5. \A p : p \in Marks(h) <=> \E i \in I : \E k \in 1..h[i] : p = <<i, k>>
  BY MarkOf
<1>6. \A p : p \in Upper <=> \E i \in I : \E k \in (g[i] + 1)..(g[i] + h[i]) : p = <<i, k>>
  <2>1. ASSUME NEW p \in Upper
        PROVE  \E i \in I : \E k \in (g[i] + 1)..(g[i] + h[i]) : p = <<i, k>>
    <3>1. PICK i \in I : \E k \in 1..(g[i] + h[i]) : p = <<i, k>>
      BY <1>3
    <3>2. PICK k \in 1..(g[i] + h[i]) : p = <<i, k>>
      BY <3>1
    <3>3. k > g[i] /\ g[i] \in Nat /\ h[i] \in Nat
      BY <3>2
    <3>4. k \in (g[i] + 1)..(g[i] + h[i])
      BY <3>3
    <3> QED
      BY <3>2, <3>4
  <2>2. ASSUME NEW i \in I, NEW k \in (g[i] + 1)..(g[i] + h[i])
        PROVE  <<i, k>> \in Upper
    <3>1. k \in 1..(g[i] + h[i]) /\ k > g[i]
      OBVIOUS
    <3> QED
      BY <1>3, <3>1
  <2> QED
    BY <2>1, <2>2
<1>7. Marks(s) = Marks(g) \cup Upper
  <2>1. \A i \in I : g[i] \in Nat /\ h[i] \in Nat
    OBVIOUS
  <2>2. \A i \in I : 1..(g[i] + h[i]) = (1..g[i]) \cup ((g[i] + 1)..(g[i] + h[i]))
    BY <2>1
  <2> QED
    BY <1>3, <1>4, <1>6, <2>2
<1>8. Marks(g) \cap Upper = {}
  BY <1>4, <1>6
<1>9. f \in Bijection(Upper, Marks(h))
  <2>1. f \in [Upper -> Marks(h)]
    <3> SUFFICES ASSUME NEW p \in Upper PROVE <<p[1], p[2] - g[p[1]]>> \in Marks(h)
      OBVIOUS
    <3>1. PICK i \in I : \E k \in (g[i] + 1)..(g[i] + h[i]) : p = <<i, k>>
      BY <1>6
    <3>2. PICK k \in (g[i] + 1)..(g[i] + h[i]) : p = <<i, k>>
      BY <3>1
    <3>3. k - g[i] \in 1..h[i]
      OBVIOUS
    <3> QED
      BY <1>5, <3>2, <3>3
  <2>2. ASSUME NEW p \in Upper, NEW q \in Upper, f[p] = f[q]
        PROVE  p = q
    <3>1. PICK i \in I : \E k \in (g[i] + 1)..(g[i] + h[i]) : p = <<i, k>>
      BY <1>6
    <3>2. PICK k \in (g[i] + 1)..(g[i] + h[i]) : p = <<i, k>>
      BY <3>1
    <3>3. PICK j \in I : \E l \in (g[j] + 1)..(g[j] + h[j]) : q = <<j, l>>
      BY <1>6
    <3>4. PICK l \in (g[j] + 1)..(g[j] + h[j]) : q = <<j, l>>
      BY <3>3
    <3>5. i = j /\ k - g[i] = l - g[j]
      BY <2>2, <3>2, <3>4
    <3> QED
      BY <3>2, <3>4, <3>5
  <2>3. ASSUME NEW q \in Marks(h)
        PROVE  \E p \in Upper : f[p] = q
    <3>1. PICK i \in I : \E k \in 1..h[i] : q = <<i, k>>
      BY <1>5
    <3>2. PICK k \in 1..h[i] : q = <<i, k>>
      BY <3>1
    <3>3. k + g[i] \in (g[i] + 1)..(g[i] + h[i]) /\ (k + g[i]) - g[i] = k
      OBVIOUS
    <3>4. <<i, k + g[i]>> \in Upper
      BY <1>6, <3>3
    <3>5. f[<<i, k + g[i]>>] = <<i, k>>
      BY <3>3, <3>4
    <3> QED
      BY <3>2, <3>4, <3>5
  <2> QED
    BY <2>1, <2>2, <2>3, Fun_IsBij
<1>10. IsFiniteSet(Upper) /\ Upper \in SUBSET Marks(s)
  BY <1>2, FS_Subset
<1>11. Cardinality(Upper) = Cardinality(Marks(h))
  BY <1>9, <1>10, FS_Bijection DEF ExistsBijection
<1>12. Cardinality(Marks(g) \cup Upper) = Cardinality(Marks(g)) + Cardinality(Upper) - 0
  <2>1. Cardinality(Marks(g) \cup Upper) = Cardinality(Marks(g)) + Cardinality(Upper) - Cardinality({})
    BY <1>2, <1>8, <1>10, FS_Union
  <2> QED
    BY <2>1, FS_EmptySet
<1>13. Total(s) = Cardinality(Marks(g)) + Cardinality(Marks(h)) - 0
  BY <1>7, <1>11, <1>12 DEF Total
<1>14. Cardinality(Marks(g)) \in Nat /\ Cardinality(Marks(h)) \in Nat
  BY <1>2 DEF Total
<1> QED
  BY <1>13, <1>14 DEF Total

\* Taken by one-to-one names, the arguments make the same total.
LEMMA TotalRenames ==
  ASSUME NEW I, IsFiniteSet(I), NEW J, NEW f \in Bijection(I, J), NEW g \in [J -> Nat]
  PROVE  Total([i \in I |-> g[f[i]]]) = Total(g)
<1> DEFINE s == [i \in I |-> g[f[i]]]
           b == [p \in Marks(s) |-> <<f[p[1]], p[2]>>]
<1>1. /\ f \in [I -> J] /\ \A i, j \in I : f[i] = f[j] => i = j
      /\ \A k \in J : \E i \in I : f[i] = k
  BY Fun_BijectionProperties
<1>2. s \in [I -> Nat]
  BY <1>1
<1>3. \A p : p \in Marks(s) <=> \E i \in I : \E k \in 1..g[f[i]] : p = <<i, k>>
  BY <1>2, MarkOf
<1>4. \A p : p \in Marks(g) <=> \E j \in J : \E k \in 1..g[j] : p = <<j, k>>
  BY MarkOf
<1>5. b \in Bijection(Marks(s), Marks(g))
  <2>1. b \in [Marks(s) -> Marks(g)]
    BY <1>1, <1>3, <1>4
  <2>2. ASSUME NEW p \in Marks(s), NEW q \in Marks(s), b[p] = b[q]
        PROVE  p = q
    BY <1>1, <1>3, <2>2
  <2>3. ASSUME NEW q \in Marks(g)
        PROVE  \E p \in Marks(s) : b[p] = q
    <3>1. PICK j \in J : \E k \in 1..g[j] : q = <<j, k>>
      BY <1>4
    <3>2. PICK k \in 1..g[j] : q = <<j, k>>
      BY <3>1
    <3>3. PICK i \in I : f[i] = j
      BY <1>1
    <3>4. <<i, k>> \in Marks(s)
      BY <1>3, <3>2, <3>3
    <3> QED
      BY <3>2, <3>3, <3>4
  <2> QED
    BY <2>1, <2>2, <2>3, Fun_IsBij
<1>6. IsFiniteSet(Marks(s))
  BY <1>2, TotalIsNat
<1> QED
  BY <1>5, <1>6, FS_Bijection DEF ExistsBijection, Total

\* f numbers the elements of S.
Enumerates(f, S) ==
  /\ f \in [1..Cardinality(S) -> S]
  /\ \A k, l \in 1..Cardinality(S) : f[k] = f[l] => k = l
  /\ \A x \in S : \E k \in 1..Cardinality(S) : f[k] = x

LEMMA FiniteIsEnumerated ==
  ASSUME NEW S, IsFiniteSet(S)
  PROVE  /\ Cardinality(S) \in Nat
         /\ Enumerates(CHOOSE f : Enumerates(f, S), S)
<1> DEFINE n == Cardinality(S)
<1>1. n \in Nat
  BY FS_CardinalityType
<1>2. IsFiniteSet(1..n) /\ Cardinality(1..n) = n
  BY <1>1, FS_Interval
<1>3. ExistsBijection(1..n, S)
  BY <1>1, <1>2, FS_SameCardinalityBij
<1>4. PICK f : f \in Bijection(1..n, S)
  BY <1>3 DEF ExistsBijection
<1>5. /\ f \in [1..n -> S] /\ \A k, l \in 1..n : f[k] = f[l] => k = l
      /\ \A x \in S : \E k \in 1..n : f[k] = x
  <2> HIDE DEF n
  <2>1. f \in [1..n -> S]
    BY <1>4, Fun_BijectionProperties
  <2>2. \A k, l \in 1..n : f[k] = f[l] => k = l
    BY <1>4 DEF Bijection, Injection, IsInjective
  <2>3. \A x \in S : \E k \in 1..n : f[k] = x
    BY <1>4 DEF Bijection, Surjection
  <2> QED
    BY <2>1, <2>2, <2>3
<1>6. Enumerates(f, S)
  BY <1>5 DEF Enumerates
<1>7. \E e : Enumerates(e, S)
  BY <1>6
<1> QED
  BY <1>1, <1>7

\* Sorted by a key, the elements of a set are counted once each.
LEMMA TotalOfParts ==
  ASSUME NEW I, IsFiniteSet(I), NEW S, IsFiniteSet(S), NEW key \in [S -> I]
  PROVE  Total([i \in I |-> Cardinality({x \in S : key[x] = i})]) = Cardinality(S)
<1> DEFINE Part(i) == {x \in S : key[x] = i}
           g == [i \in I |-> Cardinality(Part(i))]
           enum == [i \in I |-> CHOOSE f : Enumerates(f, Part(i))]
           b == [p \in Marks(g) |-> enum[p[1]][p[2]]]
<1>1. ASSUME NEW i \in I
      PROVE  g[i] \in Nat /\ g[i] = Cardinality(Part(i)) /\ Enumerates(enum[i], Part(i))
  <2>1. IsFiniteSet(Part(i))
    BY FS_Subset
  <2> QED
    BY <2>1, FiniteIsEnumerated
<1>2. g \in [I -> Nat]
  BY <1>1
<1>3. \A i : \A x : x \in Part(i) <=> x \in S /\ key[x] = i
  OBVIOUS
<1> HIDE DEF enum, g, Part
<1>4. \A p : p \in Marks(g) <=> \E i \in I : \E k \in 1..g[i] : p = <<i, k>>
  BY <1>2, MarkOf
<1>5. ASSUME NEW i \in I, NEW k \in 1..g[i]
      PROVE  /\ enum[i][k] \in S /\ key[enum[i][k]] = i
             /\ \A l \in 1..g[i] : enum[i][k] = enum[i][l] => k = l
  BY <1>1, <1>3 DEF Enumerates
<1>6. ASSUME NEW i \in I, NEW x \in Part(i)
      PROVE  \E k \in 1..g[i] : enum[i][k] = x
  BY <1>1 DEF Enumerates
<1>7. b \in Bijection(Marks(g), S)
  <2>1. b \in [Marks(g) -> S]
    BY <1>4, <1>5
  <2>2. ASSUME NEW p \in Marks(g), NEW q \in Marks(g), b[p] = b[q]
        PROVE  p = q
    <3>1. PICK i \in I : \E k \in 1..g[i] : p = <<i, k>>
      BY <1>4
    <3>2. PICK k \in 1..g[i] : p = <<i, k>>
      BY <3>1
    <3>3. PICK j \in I : \E l \in 1..g[j] : q = <<j, l>>
      BY <1>4
    <3>4. PICK l \in 1..g[j] : q = <<j, l>>
      BY <3>3
    <3>5. enum[i][k] = enum[j][l]
      BY <2>2, <3>2, <3>4
    <3>6. i = j
      BY <1>5, <3>5
    <3> QED
      BY <1>5, <3>2, <3>4, <3>5, <3>6
  <2>3. ASSUME NEW x \in S
        PROVE  \E p \in Marks(g) : b[p] = x
    <3>1. key[x] \in I /\ x \in Part(key[x])
      BY <1>3
    <3>2. PICK k \in 1..g[key[x]] : enum[key[x]][k] = x
      BY <1>6, <3>1
    <3>3. <<key[x], k>> \in Marks(g)
      BY <1>4, <3>1, <3>2
    <3> QED
      BY <3>2, <3>3
  <2> QED
    BY <2>1, <2>2, <2>3, Fun_IsBij
<1>8. IsFiniteSet(Marks(g)) /\ Cardinality(S) = Cardinality(Marks(g))
  BY <1>2, <1>7, TotalIsNat, FS_Bijection DEF ExistsBijection
<1>9. Total(g) = Cardinality(S)
  BY <1>8 DEF Total
<1> QED
  BY <1>9 DEF g, Part

\* A function on the first n naturals is a sequence of n elements.
LEMMA FunctionIsSeq ==
  ASSUME NEW n \in Nat, NEW S, NEW f \in [1..n -> S]
  PROVE  f \in Seq(S) /\ Len(f) = n /\ DOMAIN f = 1..n
<1>1. f \in Seq(S)
  BY SeqDef
<1> QED
  BY <1>1, LenProperties

LEMMA SegmentSize ==
  ASSUME NEW n \in Nat
  PROVE  IsFiniteSet(1..n) /\ Cardinality(1..n) = n
BY FS_Interval

\* The naturals are well founded.
LEMMA LeastOfNaturals ==
  ASSUME NEW T, T \subseteq Nat, T # {}
  PROVE  \E m \in T : \A k \in T : m <= k
<1> DEFINE R == OpToRel(<, Nat)
<1>1. IsWellFoundedOn(R, Nat)
  BY NatLessThanWellFounded
<1>2. \A x, y \in Nat : <<y, x>> \in R <=> y < x
  BY DEF OpToRel
<1> HIDE DEF R
<1>3. PICK m \in T : \A k \in T : ~ (<<k, m>> \in R)
  BY <1>1, WFMin
<1>4. \A k \in T : m \in Nat /\ k \in Nat /\ ~ (k < m)
  BY <1>2, <1>3
<1>5. \A k \in T : m <= k
  BY <1>4
<1> QED
  BY <1>5

LEMMA TotalOfTwo ==
  ASSUME NEW g, g \in [1..2 -> Nat]
  PROVE  Total(g) = g[1] + g[2]
<1>1. {1} \cup {2} = 1..2 /\ 2 \notin {1} /\ IsFiniteSet({1})
  <2>1. \A i : i \in 1..2 <=> i = 1 \/ i = 2
    OBVIOUS
  <2>2. {1} \cup {2} = 1..2 /\ 2 \notin {1}
    BY <2>1
  <2> QED
    BY <2>2, FS_Singleton
<1>2. Total(g) = Total([i \in {1} |-> g[i]]) + g[2]
  BY <1>1, TotalGrows
<1>3. Total([i \in {1} |-> g[i]]) = g[1]
  <2>1. [i \in {1} |-> g[i]] \in [{1} -> Nat] /\ [i \in {1} |-> g[i]][1] = g[1]
    OBVIOUS
  <2> QED
    BY <2>1, TotalOfOne
<1> QED
  BY <1>2, <1>3

-----------------------------------------------------------------------------
(* The swarm.                                                               *)

Outcome == [campaigns : Seq([path : STRING, hosts : Nat]), actions : Nat,
            successes : Nat, defenders : Nat, followers : Nat]

\* The strategies kept are of the batches so far.
KeptSoFar ==
  /\ IsFiniteSet(strategies)
  /\ \A s \in strategies : s.batch \in 1..Len(batches) /\ s.hosts \in Nat

SwarmInv ==
  /\ batches \in Seq(Outcomes) /\ progress.runs \in Nat
  /\ progress.status \in {"initializing", "running", "complete"}
  /\ progress.status = "complete" => Len(batches) = MonteCarloRuns
  /\ KeptSoFar /\ ProgressMatchesReport

LEMMA OutcomeIsTyped ==
  ASSUME NEW o \in Outcomes
  PROVE  /\ o.actions \in Nat /\ o.successes \in Nat /\ o.defenders \in Nat /\ o.followers \in Nat
         /\ DOMAIN o.campaigns = 1..Len(o.campaigns) /\ Len(o.campaigns) \in Nat
         /\ \A k \in DOMAIN o.campaigns : o.campaigns[k].hosts \in Nat
         /\ IsFiniteSet(DOMAIN o.campaigns) /\ AgentRuns(o) \in Nat
         /\ LeadersCompromised(o) \in Nat
<1>1. o \in Outcome
  BY SwarmAssumption DEF Outcome
<1>2. /\ o.campaigns \in Seq([path : STRING, hosts : Nat])
      /\ o.actions \in Nat /\ o.successes \in Nat /\ o.defenders \in Nat /\ o.followers \in Nat
  BY <1>1 DEF Outcome
<1>3. /\ DOMAIN o.campaigns = 1..Len(o.campaigns) /\ Len(o.campaigns) \in Nat
      /\ \A k \in DOMAIN o.campaigns : o.campaigns[k] \in [path : STRING, hosts : Nat]
  BY <1>2, LenProperties, ElementOfSeq
<1>4. IsFiniteSet(DOMAIN o.campaigns)
  BY <1>3, FS_Interval
<1>5. AgentRuns(o) \in Nat
  BY <1>2, <1>3 DEF AgentRuns
<1> DEFINE g == [k \in DOMAIN o.campaigns |-> o.campaigns[k].hosts]
<1>6. g \in [DOMAIN o.campaigns -> Nat]
  BY <1>3
<1>7. Total(g) \in Nat
  BY <1>4, <1>6, TotalIsNat
<1> QED
  BY <1>2, <1>3, <1>4, <1>5, <1>7 DEF LeadersCompromised

\* The successful strategies of a batch compromised what its leaders did.
LEMMA SuccessfulAccount ==
  ASSUME NEW o \in Outcomes, NEW b \in Nat
  PROVE  /\ IsFiniteSet(Successful(b, o)) /\ Compromised(Successful(b, o)) = LeadersCompromised(o)
         /\ \A s \in Successful(b, o) : s.batch = b /\ s.hosts \in Nat
<1> DEFINE K == DOMAIN o.campaigns
           g == [k \in K |-> o.campaigns[k].hosts]
           J == {k \in K : o.campaigns[k].hosts > 0}
           S == Successful(b, o)
           f == [k \in J |-> [batch |-> b, campaign |-> k, hosts |-> o.campaigns[k].hosts]]
           h == [s \in S |-> s.hosts]
<1>1. /\ IsFiniteSet(K) /\ J \in SUBSET K /\ g \in [K -> Nat]
      /\ \A k \in K : o.campaigns[k].hosts \in Nat
  BY OutcomeIsTyped
<1>2. IsFiniteSet(J)
  BY <1>1, FS_Subset
<1>3. S = {f[k] : k \in J}
  BY DEF Successful
<1>4. \A k \in J : f[k] \in S /\ f[k].batch = b /\ f[k].campaign = k /\ f[k].hosts = g[k]
  BY <1>3
<1>5. \A s \in S : s.batch = b /\ s.hosts \in Nat
  <2> SUFFICES ASSUME NEW s \in S PROVE s.batch = b /\ s.hosts \in Nat
    OBVIOUS
  <2>1. PICK k \in J : s = f[k]
    BY <1>3
  <2> QED
    BY <1>1, <1>4, <2>1
<1>6. \A k \in K \ J : g[k] = 0
  BY <1>1
<1>7. \A k \in J : h[f[k]] = g[k]
  BY <1>4
<1>8. h \in [S -> Nat]
  BY <1>5
<1>9. f \in [J -> S]
  BY <1>4
<1> HIDE DEF K, g, J, S, f, h
<1>10. f \in Bijection(J, S)
  <2>1. \A k, l \in J : f[k] = f[l] => k = l
    BY <1>4
  <2>2. \A s \in S : \E k \in J : f[k] = s
    BY <1>3
  <2> QED
    BY <1>9, <2>1, <2>2, Fun_IsBij
<1>11. IsFiniteSet(S)
  BY <1>2, <1>10, FS_Bijection DEF ExistsBijection
<1>12. Total([k \in J |-> h[f[k]]]) = Total(h)
  BY <1>2, <1>8, <1>10, TotalRenames
<1>13. [k \in J |-> h[f[k]]] = [k \in J |-> g[k]]
  BY <1>7
<1>14. Total(g) = Total([k \in J |-> g[k]]) + Total([k \in K \ J |-> g[k]])
  BY <1>1, TotalSplits
<1>15. Total([k \in K \ J |-> g[k]]) = 0
  <2>1. [k \in K \ J |-> g[k]] \in [K \ J -> Nat]
    BY <1>1
  <2> QED
    BY <1>6, <2>1, TotalOfZeros
<1>16. Total(h) \in Nat
  BY <1>8, <1>11, TotalIsNat
<1>17. Total(h) = Total(g)
  BY <1>12, <1>13, <1>14, <1>15, <1>16
<1>18. Compromised(S) = Total(h) /\ LeadersCompromised(o) = Total(g)
  BY DEF Compromised, LeadersCompromised, g, h, K
<1> QED
  BY <1>5, <1>11, <1>17, <1>18 DEF S

LEMMA CompromisedAdds ==
  ASSUME NEW S, IsFiniteSet(S), NEW T, IsFiniteSet(T), S \cap T = {},
         \A s \in S \cup T : s.hosts \in Nat
  PROVE  /\ IsFiniteSet(S \cup T) /\ Compromised(S) \in Nat /\ Compromised(T) \in Nat
         /\ Compromised(S \cup T) = Compromised(S) + Compromised(T)
<1> DEFINE U == S \cup T
           g == [s \in U |-> s.hosts]
<1>0. IsFiniteSet(U) /\ S \in SUBSET U /\ g \in [U -> Nat]
  BY FS_Union
<1>1. U \ S = T
  OBVIOUS
<1>2. Total(g) = Total([s \in S |-> g[s]]) + Total([s \in U \ S |-> g[s]])
  <2> HIDE DEF U, g
  <2> QED
    BY <1>0, TotalSplits
<1>3. [s \in S |-> g[s]] = [s \in S |-> s.hosts] /\ [s \in U \ S |-> g[s]] = [s \in T |-> s.hosts]
  BY <1>1
<1>4. [s \in S |-> s.hosts] \in [S -> Nat] /\ [s \in T |-> s.hosts] \in [T -> Nat]
  OBVIOUS
<1>5. Total([s \in S |-> s.hosts]) \in Nat /\ Total([s \in T |-> s.hosts]) \in Nat
  BY <1>4, TotalIsNat
<1> QED
  BY <1>0, <1>2, <1>3, <1>5 DEF Compromised

LEMMA SwarmStarts == SwarmInit => SwarmInv
<1> SUFFICES ASSUME SwarmInit PROVE SwarmInv
  OBVIOUS
<1>1. /\ batches = <<>> /\ strategies = {} /\ progress.runs = 0 /\ progress.status = "initializing"
      /\ <<>> \in Seq(Outcomes) /\ DOMAIN <<>> = {}
  BY EmptySeq DEF SwarmInit
<1>2. KeptSoFar
  BY <1>1, FS_EmptySet DEF KeptSoFar
<1>3. ProgressMatchesReport
  <2>1. TotalAgentRuns = 0
    BY <1>1, TotalOfNone DEF TotalAgentRuns
  <2>2. Compromised(strategies) = 0
    BY <1>1, TotalOfNone DEF Compromised
  <2>3. Total([b \in DOMAIN batches |-> LeadersCompromised(batches[b])]) = 0
    BY <1>1, TotalOfNone
  <2> QED
    BY <1>1, <2>1, <2>2, <2>3 DEF ProgressMatchesReport
<1> QED
  BY <1>1, <1>2, <1>3 DEF SwarmInv

\* What is summed over the batches grows by the new batch's share.
LEMMA AppendedTotals ==
  ASSUME NEW seq \in Seq(Outcomes), NEW o \in Outcomes
  PROVE  LET longer == Append(seq, o)
         IN /\ Total([b \in DOMAIN longer |-> AgentRuns(longer[b])]) =
                 Total([b \in DOMAIN seq |-> AgentRuns(seq[b])]) + AgentRuns(o)
            /\ Total([b \in DOMAIN longer |-> LeadersCompromised(longer[b])]) =
                 Total([b \in DOMAIN seq |-> LeadersCompromised(seq[b])]) + LeadersCompromised(o)
<1> DEFINE longer == Append(seq, o)
           n == Len(seq)
           I == DOMAIN seq
           g == [b \in DOMAIN longer |-> AgentRuns(longer[b])]
           h == [b \in DOMAIN longer |-> LeadersCompromised(longer[b])]
<1>1. /\ longer \in Seq(Outcomes) /\ Len(longer) = n + 1 /\ n \in Nat /\ I = 1..n
      /\ \A b \in I : longer[b] = seq[b] /\ seq[b] \in Outcomes
      /\ longer[n + 1] = o
  BY AppendProperties, LenProperties, ElementOfSeq
<1>2. DOMAIN longer = I \cup {n + 1} /\ n + 1 \notin I /\ IsFiniteSet(I)
  <2>1. DOMAIN longer = 1..(n + 1)
    BY <1>1, LenProperties
  <2>2. 1..(n + 1) = (1..n) \cup {n + 1} /\ n + 1 \notin 1..n
    BY <1>1
  <2>3. IsFiniteSet(1..n)
    BY <1>1, FS_Interval
  <2> QED
    BY <1>1, <2>1, <2>2, <2>3
<1>3. \A b \in I \cup {n + 1} : longer[b] \in Outcomes
  BY <1>1
<1>4. g \in [I \cup {n + 1} -> Nat] /\ h \in [I \cup {n + 1} -> Nat]
  BY <1>2, <1>3, OutcomeIsTyped
<1>5. [b \in I |-> g[b]] = [b \in I |-> AgentRuns(seq[b])] /\ g[n + 1] = AgentRuns(o)
  BY <1>1, <1>2
<1>6. [b \in I |-> h[b]] = [b \in I |-> LeadersCompromised(seq[b])] /\ h[n + 1] = LeadersCompromised(o)
  BY <1>1, <1>2
<1>7. Total(g) = Total([b \in I |-> g[b]]) + g[n + 1] /\ Total(h) = Total([b \in I |-> h[b]]) + h[n + 1]
  <2> HIDE DEF g, h, n, I
  <2> QED
    BY <1>2, <1>4, TotalGrows
<1> QED
  BY <1>5, <1>6, <1>7

LEMMA SwarmInductive == SwarmInv /\ [SwarmNext]_swarmVars => SwarmInv'
<1> SUFFICES ASSUME SwarmInv, [SwarmNext]_swarmVars PROVE SwarmInv'
  OBVIOUS
<1>1. CASE UNCHANGED swarmVars
  BY <1>1 DEF swarmVars, SwarmInv, KeptSoFar, ProgressMatchesReport, TotalAgentRuns
<1>2. CASE Aggregated
  <2>1. /\ progress.status = "running" /\ Len(batches) = MonteCarloRuns
        /\ progress' = [progress EXCEPT !.status = "complete"]
        /\ UNCHANGED <<batches, strategies>>
    BY <1>2 DEF Aggregated
  <2>2. progress'.status = "complete" /\ progress'.runs = progress.runs
    BY <2>1 DEF SwarmInv
  <2> QED
    BY <2>1, <2>2 DEF SwarmInv, KeptSoFar, ProgressMatchesReport, TotalAgentRuns
<1>3. CASE Batch
  <2> DEFINE n == Len(batches)
  <2>1. PICK o \in Outcomes :
          /\ batches' = Append(batches, o)
          /\ strategies' = strategies \cup Successful(n + 1, o)
          /\ progress' = [status |-> "running", batch |-> n + 1, runs |-> progress.runs + AgentRuns(o)]
    BY <1>3 DEF Batch
  <2>2. /\ batches \in Seq(Outcomes) /\ progress.runs \in Nat /\ progress.runs = TotalAgentRuns
        /\ Compromised(strategies) = Total([b \in DOMAIN batches |-> LeadersCompromised(batches[b])])
        /\ KeptSoFar
    BY DEF SwarmInv, ProgressMatchesReport
  <2>3. batches' \in Seq(Outcomes) /\ Len(batches') = n + 1 /\ n \in Nat
    BY <2>1, <2>2, AppendProperties, LenProperties
  <2>4. /\ AgentRuns(o) \in Nat /\ LeadersCompromised(o) \in Nat
    BY OutcomeIsTyped
  <2>5. /\ IsFiniteSet(Successful(n + 1, o))
        /\ Compromised(Successful(n + 1, o)) = LeadersCompromised(o)
        /\ \A s \in Successful(n + 1, o) : s.batch = n + 1 /\ s.hosts \in Nat
    BY <2>3, SuccessfulAccount
  <2>6. strategies \cap Successful(n + 1, o) = {}
    BY <2>2, <2>3, <2>5 DEF KeptSoFar
  <2>7. /\ IsFiniteSet(strategies')
        /\ Compromised(strategies') = Compromised(strategies) + Compromised(Successful(n + 1, o))
    BY <2>1, <2>2, <2>5, <2>6, CompromisedAdds DEF KeptSoFar
  <2>8. /\ TotalAgentRuns' = TotalAgentRuns + AgentRuns(o)
        /\ Total([b \in DOMAIN batches' |-> LeadersCompromised(batches'[b])]) =
             Total([b \in DOMAIN batches |-> LeadersCompromised(batches[b])]) + LeadersCompromised(o)
    BY <2>1, <2>2, AppendedTotals DEF TotalAgentRuns
  <2>9. progress'.runs = progress.runs + AgentRuns(o) /\ progress'.status = "running"
    BY <2>1
  <2>10. ProgressMatchesReport'
    BY <2>2, <2>5, <2>7, <2>8, <2>9 DEF ProgressMatchesReport
  <2>11. KeptSoFar'
    <3>1. \A s \in strategies' : s.batch \in 1..(n + 1) /\ s.hosts \in Nat
      BY <2>1, <2>2, <2>3, <2>5 DEF KeptSoFar
    <3> QED
      BY <2>3, <2>7, <3>1 DEF KeptSoFar
  <2>12. progress'.runs \in Nat
    BY <2>2, <2>4, <2>9
  <2> QED
    BY <2>3, <2>9, <2>10, <2>11, <2>12 DEF SwarmInv
<1> QED
  BY <1>1, <1>2, <1>3 DEF SwarmNext

LEMMA ConvergedSomewhere ==
  ASSUME NEW series, Len(series) \in Nat, CheckConvergence(series)
  PROVE  ConvergenceBatch(series) \in 3..Len(series)
<1> DEFINE closes == {i \in 3..Len(series) : Spread(SubSeq(series, i - 2, i)) < 5}
<1>1. Len(series) \in closes
  BY DEF CheckConvergence
<1>2. closes \subseteq Nat /\ closes # {}
  BY <1>1
<1>3. PICK m \in closes : \A k \in closes : m <= k
  <2> HIDE DEF closes
  <2> QED
    BY <1>2, LeastOfNaturals
<1>4. ConvergenceBatch(series) = CHOOSE i \in closes : \A j \in closes : i <= j
  BY <1>2 DEF ConvergenceBatch
<1>5. ConvergenceBatch(series) \in closes
  <2> HIDE DEF closes
  <2> QED
    BY <1>3, <1>4
<1> QED
  BY <1>5

LEMMA QuotientIsNat == \A x \in Nat, y \in Nat \ {0} : x \div y \in Nat
  OBVIOUS

LEMMA RateIsNat ==
  ASSUME NEW o \in Outcomes
  PROVE  Rate(o) \in Nat
<1>1. o.actions \in Nat /\ o.successes \in Nat
  BY OutcomeIsTyped
<1>2. CASE o.actions = 0
  BY <1>2 DEF Rate
<1>3. CASE o.actions # 0
  <2>1. 100 * o.successes \in Nat /\ o.actions \in Nat \ {0}
    BY <1>1, <1>3
  <2>2. (100 * o.successes) \div o.actions \in Nat
    BY <2>1, QuotientIsNat
  <2> QED
    BY <1>3, <2>2 DEF Rate
<1> QED
  BY <1>2, <1>3

\* Of three values that lie within five points, any two do.
LEMMA SpreadOfThree ==
  ASSUME NEW a \in Nat, NEW b \in Nat, NEW c \in Nat, NEW window,
         DOMAIN window = 1..3, window[1] = a, window[2] = b, window[3] = c, Spread(window) < 5
  PROVE  \A x, y \in {a, b, c} : x - y < 5
<1> DEFINE rates == {window[i] : i \in DOMAIN window}
           top == CHOOSE x \in rates : \A y \in rates : y <= x
           low == CHOOSE x \in rates : \A y \in rates : x <= y
<1>1. rates = {a, b, c}
  <2>1. \A i : i \in 1..3 <=> i = 1 \/ i = 2 \/ i = 3
    OBVIOUS
  <2> QED
    BY <2>1
<1>2. Spread(window) = top - low
  BY DEF Spread
<1> HIDE DEF rates
<1>3. top \in rates /\ \A y \in rates : y <= top
  <2>1. \E x \in rates : \A y \in rates : y <= x
    BY <1>1
  <2> QED
    BY <2>1
<1>4. low \in rates /\ \A y \in rates : low <= y
  <2>1. \E x \in rates : \A y \in rates : x <= y
    BY <1>1
  <2> QED
    BY <2>1
<1> HIDE DEF top, low
<1>5. top \in Nat /\ low \in Nat /\ top - low < 5
  BY <1>1, <1>2, <1>3, <1>4
<1> QED
  BY <1>1, <1>3, <1>4, <1>5

\* Of three batches that all acted, the k-th is batch k.
LEMMA NthOfThree ==
  ASSUME NEW S, S = 1..3, NEW k \in 1..3
  PROVE  Nth(S, k) = k
<1>1. \A i \in 1..3 : {j \in S : j <= i} = 1..i
  OBVIOUS
<1>2. \A i \in 1..3 : Cardinality({j \in S : j <= i}) = i
  <2>1. \A i \in 1..3 : Cardinality(1..i) = i
    BY SegmentSize
  <2> QED
    BY <1>1, <2>1
<1> QED
  BY <1>2 DEF Nth

\* Three batches that converged show no trend.
LEMMA ThreeAreStable ==
  ASSUME batches \in Seq(Outcomes), Len(batches) = 3, CheckConvergence(RateSeries)
  PROVE  LearningTrend = "stable"
<1> DEFINE rates == [i \in DOMAIN batches |-> Rate(batches[i])]
           a == Rate(batches[1])
           b == Rate(batches[2])
           c == Rate(batches[3])
<1>1. DOMAIN batches = 1..3 /\ \A i \in 1..3 : batches[i] \in Outcomes
  BY LenProperties, ElementOfSeq
<1>2. a \in Nat /\ b \in Nat /\ c \in Nat /\ DOMAIN rates = 1..3
      /\ rates[1] = a /\ rates[2] = b /\ rates[3] = c
  BY <1>1, RateIsNat
<1>3. Acting = 1..3 /\ Cardinality(Acting) = 3
  <2>1. Acting \subseteq 1..3 /\ IsFiniteSet(1..3) /\ Cardinality(1..3) = 3
    <3>1. 3 \in Nat
      OBVIOUS
    <3> QED
      BY <1>1, <3>1, SegmentSize DEF Acting
  <2>2. Cardinality(Acting) \in Nat /\ Cardinality(Acting) <= 3
        /\ (Cardinality(Acting) = 3 => Acting = 1..3)
    BY <2>1, FS_Subset, FS_CardinalityType
  <2>3. Len(RateSeries) = Cardinality(Acting)
    BY <2>2 DEF RateSeries
  <2> QED
    BY <2>2, <2>3 DEF CheckConvergence
<1>4. RateSeries = [k \in 1..3 |-> Rate(batches[k])]
  BY <1>3, NthOfThree DEF RateSeries
<1>5. /\ RateSeries \in Seq(Nat) /\ Len(RateSeries) = 3
      /\ RateSeries[1] = a /\ RateSeries[2] = b /\ RateSeries[3] = c
  <2>1. RateSeries \in [1..3 -> Nat] /\ 3 \in Nat
    BY <1>1, <1>4, RateIsNat
  <2>2. RateSeries \in Seq(Nat) /\ Len(RateSeries) = 3
    BY <2>1, FunctionIsSeq
  <2> QED
    BY <1>4, <2>2
<1> HIDE DEF rates, a, b, c
<1>6. \A x, y \in {a, b, c} : x - y < 5
  <2> DEFINE window == SubSeq(RateSeries, 1, 3)
  <2>1. window = RateSeries
    BY <1>5, SubSeqFull
  <2>2. Spread(window) < 5
    BY <1>5 DEF CheckConvergence
  <2>3. DOMAIN window = 1..3 /\ window[1] = a /\ window[2] = b /\ window[3] = c
    BY <1>5, <2>1, LenProperties
  <2> HIDE DEF window
  <2> QED
    BY <1>2, <2>2, <2>3, SpreadOfThree
<1>7. rates \in [1..3 -> Nat] /\ rates \in Seq(Nat) /\ Len(rates) = 3
  <2>1. rates \in [1..3 -> Nat] /\ 3 \in Nat
    BY <1>1, RateIsNat DEF rates
  <2> QED
    BY <2>1, FunctionIsSeq
<1> DEFINE early == SubSeq(rates, 1, 1)
           late == SubSeq(rates, 2, 3)
<1>8. Len(early) = 1 /\ Total(early) = a
  <2>1. /\ early \in Seq(Nat) /\ Len(early) = 1 /\ early[1] = rates[1]
    BY <1>7
  <2> HIDE DEF early
  <2>2. early \in [1..1 -> Nat]
    BY <2>1, LenProperties
  <2>3. 1..1 = {1}
    OBVIOUS
  <2>4. early \in [{1} -> Nat]
    BY <2>2, <2>3
  <2> QED
    BY <1>2, <2>1, <2>4, TotalOfOne
<1>9. Len(late) = 2 /\ Total(late) = b + c
  <2>1. /\ late \in Seq(Nat) /\ Len(late) = 2 /\ late[1] = rates[2] /\ late[2] = rates[3]
    BY <1>7
  <2>2. late \in [1..2 -> Nat]
    BY <2>1, LenProperties
  <2> HIDE DEF late
  <2> QED
    BY <1>2, <2>1, <2>2, TotalOfTwo
<1>10. 3 \div 2 = 1
  OBVIOUS
<1>11. LearningTrend =
         LET rise == Total(late) * Len(early) - Total(early) * Len(late)
             points == 5 * Len(early) * Len(late)
         IN IF rise > points THEN "improving"
            ELSE IF rise < -points THEN "degrading" ELSE "stable"
  BY <1>7, <1>10 DEF LearningTrend, rates
<1>12. LearningTrend = IF (b + c) * 1 - a * 2 > 5 * 1 * 2 THEN "improving"
                       ELSE IF (b + c) * 1 - a * 2 < -(5 * 1 * 2) THEN "degrading" ELSE "stable"
  BY <1>8, <1>9, <1>11
<1>13. b - a < 5 /\ c - a < 5 /\ a - b < 5 /\ a - c < 5
  BY <1>6
<1> QED
  BY <1>2, <1>12, <1>13

\* The runs counted while a caller watches and the strategies kept agree with
\* the report's own counts after every batch, and a report that claims
\* convergence names the batch and, of three batches, claims no trend.
THEOREM SwarmConsistentHolds == SwarmSpec => []SwarmConsistent
<1>1. SwarmInv => SwarmConsistent
  <2> SUFFICES ASSUME SwarmInv PROVE SwarmConsistent
    OBVIOUS
  <2>1. ConvergenceIsConsistent
    <3> SUFFICES ASSUME progress.status = "complete", CheckConvergence(RateSeries)
                 PROVE  /\ ConvergenceBatch(RateSeries) \in 3..Len(RateSeries)
                        /\ MonteCarloRuns = 3 => LearningTrend = "stable"
      BY DEF ConvergenceIsConsistent
    <3>1. batches \in Seq(Outcomes) /\ Len(batches) = MonteCarloRuns
      BY DEF SwarmInv
    <3>2. Len(RateSeries) \in Nat
      <4>1. DOMAIN batches = 1..Len(batches) /\ Len(batches) \in Nat
        BY <3>1, LenProperties
      <4>2. IsFiniteSet(Acting)
        <5>1. Acting \subseteq 1..Len(batches) /\ IsFiniteSet(1..Len(batches))
          BY <4>1, SegmentSize DEF Acting
        <5> QED
          BY <5>1, FS_Subset
      <4>3. Cardinality(Acting) \in Nat
        BY <4>2, FS_CardinalityType
      <4> QED
        BY <4>3 DEF RateSeries
    <3> QED
      BY <3>1, <3>2, ConvergedSomewhere, ThreeAreStable
  <2> QED
    BY <2>1 DEF SwarmInv, SwarmConsistent
<1> QED
  BY SwarmStarts, SwarmInductive, <1>1, PTL DEF SwarmSpec

-----------------------------------------------------------------------------
(* The runs of swarms and their history.                                    *)

Line == Runs \cup {Garbage}

HistoryTypes ==
  /\ RunsTypeOK
  /\ store \in [Processes -> Seq(Runs)] /\ lines \in Seq(Line)
  /\ cache \in [Processes -> [loaded : BOOLEAN, rows : SUBSET Runs]]

StartedSomewhere ==
  \A r \in Runs : IF run[r].phase = "idle" THEN run[r].process = NoRun /\ ~run[r].lost
                  ELSE run[r].process \in Processes /\ run[r].second \in 1..Seconds

\* Nothing will complete it any more, if it is not complete already.
Over(r) == run[r].phase \in {"complete", "failed"} \/ run[r].lost

NoTwice(file) ==
  \A i, j \in DOMAIN file : file[i] = file[j] /\ file[i] # Garbage => i = j

Entered == NoTwice(lines) /\ \A r \in Runs : Contains(lines, r) => Over(r)

\* What the next line will spoil is not the line of a complete run.
LastLine ==
  open => /\ lines # <<>>
          /\ \A r \in Runs : lines[Len(lines)] = r => run[r].phase # "complete"

Missing == {r \in Runs : run[r].phase = "complete" /\ ~Contains(lines, r)}

\* A tear still open has yet to cost its run.
Costs == Cardinality(Missing) + (IF open THEN 1 ELSE 0) <= tears

CachesKeepUp ==
  \A p \in Processes, r \in Runs :
    cache[p].loaded /\ run[r].process = p /\ run[r].phase = "complete" /\ Contains(lines, r)
      => r \in cache[p].rows

RunsInv ==
  /\ HistoryTypes /\ StartedSomewhere /\ AnswersForItsSecond
  /\ Entered /\ LastLine /\ Costs /\ CachesKeepUp

LEMMA RunsStart == RunsInit => RunsInv
<1> SUFFICES ASSUME RunsInit PROVE RunsInv
  OBVIOUS
<1>1. /\ second = 1 /\ run = [r \in Runs |-> Unstarted] /\ tasks = [p \in Processes |-> NoTasks]
      /\ store = [p \in Processes |-> <<>>] /\ cache = [p \in Processes |-> NoCache]
      /\ lines = <<>> /\ open = FALSE /\ tears = 0 /\ restarts = 0
  BY DEF RunsInit
<1>2. /\ <<>> \in Seq(Runs) /\ <<>> \in Seq(Line) /\ Len(<<>>) = 0 /\ DOMAIN <<>> = {}
  BY EmptySeq
<1>3. \A r \in Runs : run[r].phase = "idle" /\ run[r].process = NoRun /\ ~run[r].lost
  BY <1>1 DEF Unstarted
<1>4. RunsTypeOK
  <2>1. /\ 1 \in 1..Seconds /\ 0 \in 0..MaxTears /\ 0 \in 0..MaxRestarts /\ 0 \in 0..Seconds
        /\ 0 \in 0..Batches /\ 0 <= StoreSize
    BY SwarmRunsAssumption
  <2>2. Unstarted \in [phase : {"idle", "running", "complete", "failed"},
                       process : Processes \cup {NoRun}, second : 0..Seconds,
                       batches : 0..Batches, lost : BOOLEAN]
    BY <2>1 DEF Unstarted
  <2>3. tasks \in [Processes -> [1..Seconds -> Runs \cup {NoRun}]]
    BY <1>1 DEF NoTasks
  <2>4. \A p \in Processes : Len(store[p]) <= StoreSize
    BY <1>1, <1>2, <2>1
  <2> QED
    BY <1>1, <2>1, <2>2, <2>3, <2>4 DEF RunsTypeOK
<1>5. HistoryTypes
  BY <1>1, <1>2, <1>4 DEF HistoryTypes, NoCache
<1>6. Missing = {}
  BY <1>3 DEF Missing
<1>7. Costs
  <2>1. Cardinality({}) = 0
    BY FS_EmptySet
  <2> QED
    BY <1>1, <1>6, <2>1 DEF Costs
<1>8. \A r \in Runs : ~Contains(lines, r)
  BY <1>1, <1>2 DEF Contains
<1>9. Entered
  BY <1>1, <1>2, <1>8 DEF Entered, NoTwice
<1> QED
  BY <1>1, <1>3, <1>5, <1>7, <1>8, <1>9
     DEF RunsInv, StartedSomewhere, AnswersForItsSecond, LastLine, CachesKeepUp

-----------------------------------------------------------------------------
(* What a step does to a run.                                               *)

Record == [phase : {"idle", "running", "complete", "failed"}, process : Processes \cup {NoRun},
           second : 0..Seconds, batches : 0..Batches, lost : BOOLEAN]

\* The run acts: it keeps its process and second, and is not complete before.
Acts(r) ==
  \E x \in Record :
    /\ Running(r) /\ run' = [run EXCEPT ![r] = x]
    /\ x.process = run[r].process /\ x.second = run[r].second /\ x.lost = FALSE
    /\ x.phase # "idle"

Completes(r) == run'[r].phase = "complete"

LEMMA ActsOfRun ==
  ASSUME RunsInv, NEW r \in Runs, RunBatch(r) \/ RunRaises(r) \/ Finish(r) \/ WriteFails(r)
  PROVE  Acts(r) /\ (Completes(r) => Finish(r))
<1> DEFINE old == run[r]
<1>1. run \in [Runs -> Record] /\ old \in Record /\ Batches \in Nat
  BY SwarmRunsAssumption DEF RunsInv, HistoryTypes, RunsTypeOK, Record
<1>2. Running(r) /\ old.phase = "running" /\ ~old.lost
  BY DEF RunBatch, RunRaises, Finish, WriteFails, Running
<1>3. PICK x \in Record : /\ run' = [run EXCEPT ![r] = x]
                          /\ x.process = old.process /\ x.second = old.second /\ x.lost = old.lost
                          /\ x.phase # "idle" /\ (x.phase = "complete" => Finish(r))
  <2>1. CASE RunBatch(r)
    <3>1. old.batches + 1 \in 0..Batches
      <4>1. old.batches \in 0..Batches /\ old.batches < Batches
        BY <1>1, <2>1 DEF RunBatch, Record
      <4> QED
        BY <1>1, <4>1
    <3>2. [old EXCEPT !.batches = old.batches + 1] \in Record
      BY <1>1, <3>1 DEF Record
    <3>3. run' = [run EXCEPT ![r] = [old EXCEPT !.batches = old.batches + 1]]
      BY <2>1 DEF RunBatch
    <3> QED
      BY <1>1, <1>2, <3>2, <3>3 DEF Record
  <2>2. CASE RunRaises(r) \/ WriteFails(r)
    <3>1. [old EXCEPT !.phase = "failed"] \in Record
      BY <1>1 DEF Record
    <3>2. run' = [run EXCEPT ![r] = [old EXCEPT !.phase = "failed"]]
      BY <2>2 DEF RunRaises, WriteFails
    <3> QED
      BY <1>1, <3>1, <3>2 DEF Record
  <2>3. CASE Finish(r)
    <3>1. [old EXCEPT !.phase = "complete"] \in Record
      BY <1>1 DEF Record
    <3>2. run' = [run EXCEPT ![r] = [old EXCEPT !.phase = "complete"]]
      BY <2>3 DEF Finish
    <3> QED
      BY <1>1, <2>3, <3>1, <3>2 DEF Record
  <2> QED
    BY <2>1, <2>2, <2>3
<1>4. x.lost = FALSE
  BY <1>1, <1>2, <1>3 DEF Record
<1>5. run'[r] = x
  BY <1>1, <1>3
<1> QED
  BY <1>2, <1>3, <1>4, <1>5 DEF Acts, Completes

\* Process p forgets: its runs are lost, and nothing else changes about a run.
Forgets(p) ==
  \A r \in Runs : /\ run'[r] \in Record
                  /\ run'[r].phase = run[r].phase /\ run'[r].process = run[r].process
                  /\ run'[r].second = run[r].second
                  /\ run'[r].lost <=> run[r].lost \/ run[r].process = p

LEMMA ForgetsRuns ==
  ASSUME RunsInv, NEW p \in Processes, Forget(p)
  PROVE  Forgets(p) /\ run' \in [Runs -> Record]
<1>1. run \in [Runs -> Record]
  BY DEF RunsInv, HistoryTypes, RunsTypeOK, Record
<1>2. run' = [r \in Runs |-> [run[r] EXCEPT !.lost = run[r].lost \/ run[r].process = p]]
  BY DEF Forget
<1>3. ASSUME NEW r \in Runs
      PROVE  [run[r] EXCEPT !.lost = run[r].lost \/ run[r].process = p] \in Record
  <2>1. run[r] \in Record /\ (run[r].lost \/ run[r].process = p) \in BOOLEAN
    BY <1>1
  <2> QED
    BY <2>1 DEF Record
<1>4. ASSUME NEW r \in Runs
      PROVE  run'[r] = [run[r] EXCEPT !.lost = run[r].lost \/ run[r].process = p]
  BY <1>2
<1> QED
  BY <1>1, <1>2, <1>3, <1>4 DEF Forgets, Record

\* Whatever is done, a run that was started keeps its process and second, one
\* that is over stays as it is, and only finishing completes one.
Keeps(r) ==
  /\ run[r].phase # "idle" => /\ run'[r].process = run[r].process
                              /\ run'[r].second = run[r].second /\ run'[r].phase # "idle"
  /\ Over(r) => run'[r].phase = run[r].phase /\ Over(r)'
  /\ run[r].lost => run'[r].lost

LEMMA RunsKeep ==
  ASSUME RunsInv, RunsNext
  PROVE  /\ run' \in [Runs -> Record]
         /\ \A r \in Runs : Keeps(r)
         /\ \A r \in Runs : run'[r].phase = "complete" => run[r].phase = "complete" \/ Finish(r)
<1>1. run \in [Runs -> Record]
  BY DEF RunsInv, HistoryTypes, RunsTypeOK, Record
<1>2. CASE run' = run
  BY <1>1, <1>2 DEF Keeps, Over
<1>3. ASSUME NEW q \in Runs, RunBatch(q) \/ RunRaises(q) \/ Finish(q) \/ WriteFails(q)
      PROVE  /\ run' \in [Runs -> Record]
             /\ \A r \in Runs : Keeps(r)
             /\ \A r \in Runs : run'[r].phase = "complete" => run[r].phase = "complete" \/ Finish(r)
  <2>1. Acts(q) /\ (Completes(q) => Finish(q))
    BY <1>3, ActsOfRun
  <2>2. PICK x \in Record : /\ Running(q) /\ run' = [run EXCEPT ![q] = x]
                            /\ x.process = run[q].process /\ x.second = run[q].second
                            /\ x.lost = FALSE /\ x.phase # "idle"
    BY <2>1 DEF Acts
  <2>3. run'[q] = x /\ \A r \in Runs : r # q => run'[r] = run[r]
    BY <1>1, <2>2
  <2>4. run[q].phase = "running" /\ ~run[q].lost /\ ~Over(q)
    BY <2>2 DEF Running, Over
  <2>5. run' \in [Runs -> Record]
    BY <1>1, <2>2
  <2>6. Keeps(q)
    BY <2>2, <2>3, <2>4 DEF Keeps
  <2>7. \A r \in Runs : r # q => Keeps(r)
    BY <2>3 DEF Keeps, Over
  <2> QED
    BY <2>1, <2>3, <2>5, <2>6, <2>7 DEF Completes
<1>4. ASSUME NEW p \in Processes, Forget(p)
      PROVE  /\ run' \in [Runs -> Record]
             /\ \A r \in Runs : Keeps(r)
             /\ \A r \in Runs : run'[r].phase = "complete" => run[r].phase = "complete" \/ Finish(r)
  BY <1>4, ForgetsRuns DEF Forgets, Keeps, Over
<1>5. ASSUME NEW q \in Runs, NEW p \in Processes, Start(q, p)
      PROVE  /\ run' \in [Runs -> Record]
             /\ \A r \in Runs : Keeps(r)
             /\ \A r \in Runs : run'[r].phase = "complete" => run[r].phase = "complete" \/ Finish(r)
  <2>1. run' = [run EXCEPT ![q] = Started(p)] /\ run[q].phase = "idle"
    BY <1>5 DEF Start
  <2>2. Started(p) \in Record /\ Started(p).phase = "running"
    BY SwarmRunsAssumption DEF Started, Record, RunsInv, HistoryTypes, RunsTypeOK
  <2>3. run'[q] = Started(p) /\ \A r \in Runs : r # q => run'[r] = run[r]
    BY <1>1, <2>1
  <2>4. ~run[q].lost
    BY <2>1 DEF RunsInv, StartedSomewhere
  <2> QED
    BY <1>1, <2>1, <2>2, <2>3, <2>4 DEF Keeps, Over
<1>6. ASSUME NEW q \in Runs, RestartInAppend(q)
      PROVE  run[q].process \in Processes /\ Forget(run[q].process)
  BY <1>6 DEF RestartInAppend, Running, RunsInv, StartedSomewhere
<1> QED
  BY <1>2, <1>3, <1>4, <1>5, <1>6 DEF RunsNext, Tick, Restart, Trend

-----------------------------------------------------------------------------
(* What a step does to the file.                                            *)

\* The last line is spoilt, or one is added: r's, or a piece of it.
Spoilt(file) == open /\ file = [lines EXCEPT ![Len(lines)] = Garbage]
Added(file, x) == ~open /\ file = Append(lines, x)

LEMMA FileAfter ==
  ASSUME RunsInv, NEW r \in Runs, Running(r), NEW file,
         Spoilt(file) \/ Added(file, r) \/ Added(file, Garbage)
  PROVE  /\ file \in Seq(Line) /\ file # <<>> /\ NoTwice(file)
         /\ file[Len(file)] \in {r, Garbage} /\ (open => file[Len(file)] = Garbage)
         /\ \A q \in Runs : Contains(file, q) => Contains(lines, q) \/ (q = r /\ ~open)
         /\ \A q \in Runs : run[q].phase = "complete" /\ Contains(lines, q) => Contains(file, q)
         /\ Added(file, r) => Contains(file, r)
<1>1. /\ lines \in Seq(Line) /\ Len(lines) \in Nat /\ DOMAIN lines = 1..Len(lines)
      /\ Garbage \notin Runs /\ Garbage \in Line /\ r \in Line /\ NoTwice(lines)
  BY LenProperties, SwarmRunsAssumption DEF RunsInv, HistoryTypes, Line, Entered
<1>2. \A i \in 1..Len(lines) : lines[i] # r
  BY DEF RunsInv, Entered, Contains, Over, Running
<1> DEFINE n == Len(lines)
<1>3. CASE Spoilt(file)
  <2>1. open /\ lines # <<>> /\ file = [lines EXCEPT ![n] = Garbage]
        /\ \A q \in Runs : lines[n] = q => run[q].phase # "complete"
    BY <1>3 DEF Spoilt, RunsInv, LastLine
  <2>2. n \in 1..n
    BY <1>1, <2>1, EmptySeq
  <2>3. /\ file \in Seq(Line) /\ Len(file) = n
        /\ \A i \in 1..n : file[i] = IF i = n THEN Garbage ELSE lines[i]
    BY <1>1, <2>1, <2>2, ExceptSeq
  <2> HIDE DEF n
  <2>4. file # <<>> /\ file[n] = Garbage /\ DOMAIN file = 1..n
    BY <2>2, <2>3, EmptySeq, LenProperties
  <2>5. NoTwice(file)
    BY <1>1, <2>2, <2>3, <2>4 DEF NoTwice, n
  <2>6. \A q \in Runs : Contains(file, q) => Contains(lines, q)
    BY <1>1, <2>3 DEF Contains, n
  <2>7. \A q \in Runs : run[q].phase = "complete" /\ Contains(lines, q) => Contains(file, q)
    BY <2>1, <2>3 DEF Contains, n
  <2>8. ~Added(file, r)
    BY <2>1 DEF Added
  <2> QED
    BY <2>3, <2>4, <2>5, <2>6, <2>7, <2>8
<1>4. ASSUME NEW x \in {r, Garbage}, Added(file, x)
      PROVE  /\ file \in Seq(Line) /\ file # <<>> /\ NoTwice(file)
             /\ file[Len(file)] = x /\ ~open
             /\ \A q \in Runs : Contains(file, q) => Contains(lines, q) \/ q = r
             /\ \A q \in Runs : Contains(lines, q) => Contains(file, q)
             /\ Contains(file, x)
  <2>1. file = Append(lines, x) /\ ~open /\ x \in Line
    BY <1>1, <1>4 DEF Added
  <2>2. /\ file \in Seq(Line) /\ file # <<>> /\ Len(file) = n + 1
        /\ \A i \in 1..n : file[i] = lines[i]
        /\ file[n + 1] = x
    BY <1>1, <2>1, AppendProperties
  <2> HIDE DEF n
  <2>3. /\ n \in Nat /\ DOMAIN file = 1..(n + 1) /\ n + 1 \in 1..(n + 1)
        /\ \A i \in 1..(n + 1) : i \in 1..n \/ i = n + 1
        /\ \A i \in 1..n : i \in 1..(n + 1) /\ lines[i] # r
    BY <1>1, <1>2, <2>2, LenProperties DEF n
  <2>4. NoTwice(file)
    BY <1>1, <2>2, <2>3 DEF NoTwice, n
  <2>5. \A q \in Runs : Contains(file, q) => Contains(lines, q) \/ q = r
    BY <1>1, <2>2, <2>3 DEF Contains, n
  <2>6. \A q \in Runs : Contains(lines, q) => Contains(file, q)
    BY <2>2, <2>3 DEF Contains, n
  <2>7. Contains(file, x)
    BY <2>2, <2>3 DEF Contains
  <2> QED
    BY <2>1, <2>2, <2>4, <2>5, <2>6, <2>7
<1>5. CASE Added(file, r)
  BY <1>4, <1>5
<1>6. CASE Added(file, Garbage) /\ ~Added(file, r)
  <2>1. file[Len(file)] = Garbage /\ ~open
    BY <1>4, <1>6
  <2> QED
    BY <1>4, <1>6, <2>1
<1> QED
  BY <1>3, <1>5, <1>6

\* A step that appends: run r's process writes, in full or in part.
Writes(r) == Finish(r) \/ WriteFails(r) \/ RestartInAppend(r)

LEMMA FileOfWrite ==
  ASSUME RunsInv, NEW r \in Runs, Writes(r)
  PROVE  /\ Running(r)
         /\ Spoilt(lines') \/ Added(lines', r) \/ Added(lines', Garbage)
         /\ Finish(r) => ~open' /\ tears' = tears /\ (Spoilt(lines') \/ Added(lines', r))
         /\ ~Finish(r) => open' /\ tears' = tears + 1 /\ tears < MaxTears /\ run'[r].phase # "complete"
<1>1. run \in [Runs -> Record] /\ r \in Runs
  BY DEF RunsInv, HistoryTypes, RunsTypeOK, Record
<1>2. CASE Finish(r)
  <2>1. /\ Running(r) /\ lines' = Written(r) /\ open' = FALSE /\ tears' = tears
    BY <1>2 DEF Finish
  <2> QED
    BY <1>2, <2>1 DEF Written, Spoilt, Added
<1>3. CASE WriteFails(r) \/ RestartInAppend(r)
  <2>1. Running(r) /\ lines' \in TornBy(r) /\ open' = TRUE /\ tears' = tears + 1 /\ tears < MaxTears
    BY <1>3 DEF WriteFails, RestartInAppend
  <2>2. Spoilt(lines') \/ Added(lines', r) \/ Added(lines', Garbage)
    BY <2>1 DEF TornBy, Spoilt, Added
  <2>3. run'[r].phase # "complete"
    <3>1. CASE WriteFails(r)
      BY <1>1, <3>1 DEF WriteFails, Record
    <3>2. CASE RestartInAppend(r)
      <4>1. run[r].process \in Processes /\ Forget(run[r].process) /\ run[r].phase = "running"
        BY <2>1, <3>2 DEF RestartInAppend, Running, RunsInv, StartedSomewhere
      <4> QED
        BY <4>1, ForgetsRuns DEF Forgets
    <3> QED
      BY <1>3, <3>1, <3>2
  <2>4. ~Finish(r)
    BY <2>1 DEF Finish
  <2> QED
    BY <2>1, <2>2, <2>3, <2>4
<1> QED
  BY <1>2, <1>3 DEF Writes

LEMMA OthersLeaveFile ==
  ASSUME RunsNext, \A r \in Runs : ~Writes(r)
  PROVE  UNCHANGED <<lines, open, tears>>
BY DEF RunsNext, Writes, Tick, RunBatch, RunRaises, Restart, Trend, Start

\* The caches: kept, emptied, or loaded.
LEMMA CachesAfter ==
  ASSUME RunsInv, RunsNext, NEW p \in Processes
  PROVE  \/ cache'[p] = cache[p] \/ cache'[p] = NoCache \/ cache'[p] = Loaded(Load(p))
         \/ cache'[p] = Loaded(Readable(lines'))
<1>1. cache \in [Processes -> [loaded : BOOLEAN, rows : SUBSET Runs]]
  BY DEF RunsInv, HistoryTypes
<1>2. CASE cache' = cache
  BY <1>2
<1>3. ASSUME NEW q \in Processes, cache' = [cache EXCEPT ![q] = NoCache]
      PROVE  cache'[p] = cache[p] \/ cache'[p] = NoCache
  BY <1>1, <1>3
<1>4. ASSUME NEW q \in Processes, cache' = [cache EXCEPT ![q] = Loaded(Load(q))]
      PROVE  cache'[p] = cache[p] \/ cache'[p] = Loaded(Load(p))
  BY <1>1, <1>4
<1>5. ASSUME NEW q \in Processes, cache' = [cache EXCEPT ![q] = Loaded(Readable(lines'))]
      PROVE  cache'[p] = cache[p] \/ cache'[p] = Loaded(Readable(lines'))
  BY <1>1, <1>5
<1>6. \A r \in Runs : Running(r) => run[r].process \in Processes
  BY DEF Running, RunsInv, StartedSomewhere
<1>7. CASE Tick \/ \E r \in Runs : RunBatch(r) \/ RunRaises(r) \/ \E q \in Processes : Start(r, q)
  BY <1>2, <1>7 DEF Tick, RunBatch, RunRaises, Start
<1>8. ASSUME NEW r \in Runs, Finish(r)
      PROVE  cache'[p] = cache[p] \/ cache'[p] = Loaded(Readable(lines'))
  <2>1. Running(r) /\ cache' = [cache EXCEPT ![run[r].process] = Loaded(Readable(lines'))]
    BY <1>8 DEF Finish
  <2> QED
    BY <1>5, <1>6, <2>1
<1>9. ASSUME NEW r \in Runs, WriteFails(r)
      PROVE  cache'[p] = cache[p] \/ cache'[p] = Loaded(Load(p))
  <2>1. Running(r) /\ cache' = [cache EXCEPT ![run[r].process] = Loaded(Load(run[r].process))]
    BY <1>9 DEF WriteFails
  <2> QED
    BY <1>4, <1>6, <2>1
<1>10. ASSUME NEW r \in Runs, RestartInAppend(r)
       PROVE  cache'[p] = cache[p] \/ cache'[p] = NoCache
  <2>1. Running(r) /\ cache' = [cache EXCEPT ![run[r].process] = NoCache]
    BY <1>10 DEF RestartInAppend, Forget
  <2> QED
    BY <1>3, <1>6, <2>1
<1>11. CASE \E q \in Processes : Restart(q)
  BY <1>3, <1>11 DEF Restart, Forget
<1>12. CASE \E q \in Processes : Trend(q)
  BY <1>4, <1>12 DEF Trend
<1> QED
  BY <1>7, <1>8, <1>9, <1>10, <1>11, <1>12 DEF RunsNext

LEMMA LoadHas ==
  ASSUME RunsInv, NEW p \in Processes
  PROVE  /\ Load(p) \in SUBSET Runs
         /\ \A r \in Runs : run[r].process = p /\ run[r].phase = "complete" /\ Contains(lines, r)
              => r \in Load(p)
<1>1. /\ lines \in Seq(Line) /\ cache[p] \in [loaded : BOOLEAN, rows : SUBSET Runs]
      /\ Garbage \notin Runs
  BY SwarmRunsAssumption DEF RunsInv, HistoryTypes
<1>2. DOMAIN lines = 1..Len(lines) /\ \A i \in DOMAIN lines : lines[i] \in Line
  BY <1>1, LenProperties, ElementOfSeq
<1>3. Readable(lines) \in SUBSET Runs
  BY <1>2 DEF Readable, ToSet, Line
<1>4. \A r \in Runs : Contains(lines, r) => r \in Readable(lines)
  BY <1>1, <1>2 DEF Readable, ToSet, Contains
<1> QED
  BY <1>1, <1>3, <1>4 DEF Load, RunsInv, CachesKeepUp

LEMMA KeepIsBounded ==
  ASSUME NEW reports \in Seq(Runs), Len(reports) <= StoreSize, NEW r \in Runs
  PROVE  Keep(reports, r) \in Seq(Runs) /\ Len(Keep(reports, r)) <= StoreSize
<1> DEFINE all == Append(reports, r)
<1>1. /\ all \in Seq(Runs) /\ all # <<>> /\ Len(all) = Len(reports) + 1 /\ Len(reports) \in Nat
  BY AppendProperties, LenProperties
<1>2. Tail(all) \in Seq(Runs) /\ Len(Tail(all)) = Len(all) - 1
  BY <1>1, HeadTailProperties
<1>3. Keep(reports, r) = IF Len(all) > StoreSize THEN Tail(all) ELSE all
  BY DEF Keep
<1> HIDE DEF all
<1>4. StoreSize \in Nat \ {0}
  BY SwarmRunsAssumption
<1> QED
  BY <1>1, <1>2, <1>3, <1>4

LEMMA StoresAfter ==
  ASSUME RunsInv, RunsNext
  PROVE  store' \in [Processes -> Seq(Runs)] /\ \A p \in Processes : Len(store'[p]) <= StoreSize
<1>1. /\ store \in [Processes -> Seq(Runs)] /\ \A p \in Processes : Len(store[p]) <= StoreSize
      /\ <<>> \in Seq(Runs) /\ Len(<<>>) <= StoreSize
  <2>1. Len(<<>>) = 0 /\ 0 <= StoreSize /\ <<>> \in Seq(Runs)
    BY SwarmRunsAssumption, EmptySeq
  <2> QED
    BY <2>1 DEF RunsInv, HistoryTypes, RunsTypeOK
<1>2. CASE store' = store
  BY <1>1, <1>2
<1>3. ASSUME NEW p \in Processes, store' = [store EXCEPT ![p] = <<>>]
      PROVE  store' \in [Processes -> Seq(Runs)] /\ \A q \in Processes : Len(store'[q]) <= StoreSize
  BY <1>1, <1>3
<1>4. ASSUME NEW r \in Runs, NEW p \in Processes, store' = [store EXCEPT ![p] = Keep(store[p], r)]
      PROVE  store' \in [Processes -> Seq(Runs)] /\ \A q \in Processes : Len(store'[q]) <= StoreSize
  <2>1. Keep(store[p], r) \in Seq(Runs) /\ Len(Keep(store[p], r)) <= StoreSize
    BY <1>1, KeepIsBounded
  <2> QED
    BY <1>1, <1>4, <2>1
<1>5. \A r \in Runs : Running(r) => run[r].process \in Processes
  BY DEF Running, RunsInv, StartedSomewhere
<1>6. ASSUME NEW r \in Runs, Finish(r) \/ WriteFails(r)
      PROVE  store' \in [Processes -> Seq(Runs)] /\ \A q \in Processes : Len(store'[q]) <= StoreSize
  <2>1. Running(r) /\ store' = [store EXCEPT ![run[r].process] = Keep(store[run[r].process], r)]
    BY <1>6 DEF Finish, WriteFails
  <2> QED
    BY <1>4, <1>5, <2>1
<1>7. ASSUME NEW r \in Runs, RestartInAppend(r)
      PROVE  store' \in [Processes -> Seq(Runs)] /\ \A q \in Processes : Len(store'[q]) <= StoreSize
  <2>1. Running(r) /\ store' = [store EXCEPT ![run[r].process] = <<>>]
    BY <1>7 DEF RestartInAppend, Forget
  <2> QED
    BY <1>3, <1>5, <2>1
<1>8. ASSUME NEW p \in Processes, Restart(p)
      PROVE  store' \in [Processes -> Seq(Runs)] /\ \A q \in Processes : Len(store'[q]) <= StoreSize
  BY <1>3, <1>8 DEF Restart, Forget
<1> QED
  BY <1>2, <1>6, <1>7, <1>8 DEF RunsNext, Tick, Start, RunBatch, RunRaises, Trend

LEMMA TasksAfter ==
  ASSUME RunsInv, RunsNext
  PROVE  tasks' \in [Processes -> [1..Seconds -> Runs \cup {NoRun}]]
<1>1. /\ tasks \in [Processes -> [1..Seconds -> Runs \cup {NoRun}]] /\ second \in 1..Seconds
      /\ NoTasks \in [1..Seconds -> Runs \cup {NoRun}]
  BY DEF RunsInv, HistoryTypes, RunsTypeOK, NoTasks
<1>2. ASSUME NEW p \in Processes, tasks' = [tasks EXCEPT ![p] = NoTasks]
      PROVE  tasks' \in [Processes -> [1..Seconds -> Runs \cup {NoRun}]]
  BY <1>1, <1>2
<1>3. ASSUME NEW p \in Processes, NEW r \in Runs, Start(r, p)
      PROVE  tasks' \in [Processes -> [1..Seconds -> Runs \cup {NoRun}]]
  <2>1. tasks' = [tasks EXCEPT ![p] = [tasks[p] EXCEPT ![second] = r]]
    BY <1>3 DEF Start
  <2>2. [tasks[p] EXCEPT ![second] = r] \in [1..Seconds -> Runs \cup {NoRun}]
    BY <1>1
  <2> QED
    BY <1>1, <2>1, <2>2
<1>4. ASSUME NEW r \in Runs, RestartInAppend(r)
      PROVE  tasks' \in [Processes -> [1..Seconds -> Runs \cup {NoRun}]]
  <2>1. run[r].process \in Processes /\ tasks' = [tasks EXCEPT ![run[r].process] = NoTasks]
    BY <1>4 DEF RestartInAppend, Forget, Running, RunsInv, StartedSomewhere
  <2> QED
    BY <1>2, <2>1
<1>5. ASSUME NEW p \in Processes, Restart(p)
      PROVE  tasks' \in [Processes -> [1..Seconds -> Runs \cup {NoRun}]]
  BY <1>2, <1>5 DEF Restart, Forget
<1>6. CASE tasks' = tasks
  BY <1>1, <1>6
<1> QED
  BY <1>3, <1>4, <1>5, <1>6 DEF RunsNext, Tick, Finish, WriteFails, RunBatch, RunRaises, Trend

LEMMA CountersAfter ==
  ASSUME RunsInv, RunsNext
  PROVE  /\ second' \in 1..Seconds /\ open' \in BOOLEAN
         /\ tears' \in 0..MaxTears /\ restarts' \in 0..MaxRestarts
<1>1. /\ second \in 1..Seconds /\ open \in BOOLEAN
      /\ tears \in 0..MaxTears /\ restarts \in 0..MaxRestarts
      /\ MaxTears \in Nat /\ MaxRestarts \in Nat /\ Seconds \in Nat
  BY SwarmRunsAssumption DEF RunsInv, HistoryTypes, RunsTypeOK
<1>2. second' = second \/ (second < Seconds /\ second' = second + 1)
  BY DEF RunsNext, Tick, Start, RunBatch, RunRaises, Finish, WriteFails, RestartInAppend,
     Restart, Trend
<1>3. restarts' = restarts \/ (restarts < MaxRestarts /\ restarts' = restarts + 1)
  BY DEF RunsNext, Tick, Start, RunBatch, RunRaises, Finish, WriteFails, RestartInAppend,
     Restart, Trend, Forget
<1>4. /\ tears' = tears \/ (tears < MaxTears /\ tears' = tears + 1)
      /\ open' = open \/ open' = TRUE \/ open' = FALSE
  BY DEF RunsNext, Tick, Start, RunBatch, RunRaises, Finish, WriteFails, RestartInAppend,
     Restart, Trend
<1>5. second' \in 1..Seconds
  BY <1>1, <1>2
<1>6. restarts' \in 0..MaxRestarts
  BY <1>1, <1>3
<1>7. tears' \in 0..MaxTears
  BY <1>1, <1>4
<1> QED
  BY <1>1, <1>4, <1>5, <1>6, <1>7

LEMMA TypesAfter ==
  ASSUME RunsInv, RunsNext
  PROVE  HistoryTypes'
<1>1. run' \in [Runs -> Record]
  BY RunsKeep
<1>2. lines' \in Seq(Line)
  <2>1. ASSUME NEW r \in Runs, Writes(r) PROVE lines' \in Seq(Line)
    BY <2>1, FileOfWrite, FileAfter
  <2>2. CASE \A r \in Runs : ~Writes(r)
    BY <2>2, OthersLeaveFile DEF RunsInv, HistoryTypes
  <2> QED
    BY <2>1, <2>2
<1>3. Readable(lines') \in SUBSET Runs
  <2>1. DOMAIN lines' = 1..Len(lines') /\ \A i \in DOMAIN lines' : lines'[i] \in Line
    BY <1>2, LenProperties, ElementOfSeq
  <2> QED
    BY <2>1 DEF Readable, ToSet, Line
<1>4. cache' \in [Processes -> [loaded : BOOLEAN, rows : SUBSET Runs]]
  <2>1. ASSUME NEW p \in Processes PROVE cache'[p] \in [loaded : BOOLEAN, rows : SUBSET Runs]
    <3>1. cache[p] \in [loaded : BOOLEAN, rows : SUBSET Runs] /\ Load(p) \in SUBSET Runs
      BY LoadHas DEF RunsInv, HistoryTypes
    <3>2. /\ NoCache \in [loaded : BOOLEAN, rows : SUBSET Runs]
          /\ \A rows \in SUBSET Runs : Loaded(rows) \in [loaded : BOOLEAN, rows : SUBSET Runs]
      BY DEF NoCache, Loaded
    <3> QED
      BY <1>3, <3>1, <3>2, CachesAfter
  <2>2. cache' = [p \in Processes |-> cache'[p]]
    <3>1. DOMAIN cache = Processes /\ cache = [p \in Processes |-> cache[p]]
      BY DEF RunsInv, HistoryTypes
    <3>2. cache' = cache \/ \E p \in Processes : \E c : cache' = [cache EXCEPT ![p] = c]
      BY DEF RunsNext, Tick, Start, RunBatch, RunRaises, Finish, WriteFails, RestartInAppend,
         Restart, Trend, Forget, Running, RunsInv, StartedSomewhere
    <3> QED
      BY <3>1, <3>2
  <2> QED
    BY <2>1, <2>2
<1>5. RunsTypeOK'
  BY <1>1, TasksAfter, CountersAfter, StoresAfter DEF RunsTypeOK, Record
<1> QED
  BY <1>2, <1>4, <1>5, StoresAfter DEF HistoryTypes

-----------------------------------------------------------------------------
(* The parts of the invariant, one by one.                                  *)

LEMMA IdleAfter ==
  ASSUME RunsInv, RunsNext, NEW r \in Runs, run[r].phase = "idle"
  PROVE  \/ run'[r].phase = "idle" /\ run'[r].process = NoRun /\ ~run'[r].lost
         \/ \E p \in Processes : Start(r, p) /\ run'[r] = Started(p)
<1>1. run[r].process = NoRun /\ ~run[r].lost /\ NoRun \notin Processes
  BY SwarmRunsAssumption DEF RunsInv, StartedSomewhere
<1>2. run \in [Runs -> Record]
  BY DEF RunsInv, HistoryTypes, RunsTypeOK, Record
<1>3. ASSUME NEW q \in Runs, NEW p \in Processes, Start(q, p)
      PROVE  run'[r] = run[r] \/ (q = r /\ run'[r] = Started(p))
  BY <1>2, <1>3 DEF Start
<1>4. ASSUME NEW q \in Runs, RunBatch(q) \/ RunRaises(q) \/ Finish(q) \/ WriteFails(q)
      PROVE  run'[r] = run[r]
  <2>1. Acts(q)
    BY <1>4, ActsOfRun
  <2>2. q # r /\ \E x : run' = [run EXCEPT ![q] = x]
    BY <2>1 DEF Acts, Running
  <2> QED
    BY <1>2, <2>2
<1>5. ASSUME NEW p \in Processes, Forget(p)
      PROVE  run'[r].phase = "idle" /\ run'[r].process = NoRun /\ ~run'[r].lost
  BY <1>1, <1>5, ForgetsRuns DEF Forgets
<1>6. ASSUME NEW q \in Runs, RestartInAppend(q)
      PROVE  run[q].process \in Processes /\ Forget(run[q].process)
  BY <1>6 DEF RestartInAppend, Running, RunsInv, StartedSomewhere
<1>7. CASE run' = run
  BY <1>1, <1>7
<1> QED
  BY <1>1, <1>3, <1>4, <1>5, <1>6, <1>7 DEF RunsNext, Tick, Restart, Trend

LEMMA StartedAfter ==
  ASSUME RunsInv, RunsNext
  PROVE  StartedSomewhere'
<1> SUFFICES ASSUME NEW r \in Runs
             PROVE  IF run'[r].phase = "idle" THEN run'[r].process = NoRun /\ ~run'[r].lost
                    ELSE run'[r].process \in Processes /\ run'[r].second \in 1..Seconds
  BY DEF StartedSomewhere
<1>1. CASE run[r].phase # "idle"
  BY <1>1, RunsKeep DEF Keeps, RunsInv, StartedSomewhere
<1>2. CASE run[r].phase = "idle"
  <2>1. \A p \in Processes : /\ Started(p).phase = "running" /\ Started(p).process = p
                             /\ Started(p).second = second
    BY DEF Started
  <2>2. second \in 1..Seconds
    BY DEF RunsInv, HistoryTypes, RunsTypeOK
  <2> QED
    BY <1>2, <2>1, <2>2, IdleAfter
<1> QED
  BY <1>1, <1>2

LEMMA AnswersAfter ==
  ASSUME RunsInv, RunsNext
  PROVE  AnswersForItsSecond'
<1> SUFFICES ASSUME NEW r \in Runs, run'[r].phase # "idle", ~run'[r].lost
             PROVE  /\ tasks'[run'[r].process][run'[r].second] # NoRun
                    /\ run'[tasks'[run'[r].process][run'[r].second]].process = run'[r].process
                    /\ run'[tasks'[run'[r].process][run'[r].second]].second = run'[r].second
  BY DEF AnswersForItsSecond
<1>1. /\ run \in [Runs -> Record] /\ second \in 1..Seconds /\ NoRun \notin Runs
      /\ tasks \in [Processes -> [1..Seconds -> Runs \cup {NoRun}]]
  BY SwarmRunsAssumption DEF RunsInv, HistoryTypes, RunsTypeOK, Record
<1>2. ASSUME NEW p \in Processes, NEW q \in Runs, Start(q, p)
      PROVE  /\ tasks'[p][second] = q /\ run'[q] = Started(p)
             /\ \A x \in Processes, y \in 1..Seconds :
                  ~(x = p /\ y = second) => tasks'[x][y] = tasks[x][y]
             /\ \A x \in Runs : x # q => run'[x] = run[x]
             /\ run[q].phase = "idle"
  BY <1>1, <1>2 DEF Start
<1>3. \A p \in Processes : Started(p).process = p /\ Started(p).second = second
  BY DEF Started
<1>4. CASE run[r].phase = "idle"
  <2>1. PICK p \in Processes : Start(r, p) /\ run'[r] = Started(p)
    BY <1>4, IdleAfter
  <2> QED
    BY <1>1, <1>2, <1>3, <2>1
<1>5. CASE run[r].phase # "idle"
  <2>1. /\ run[r].process \in Processes /\ run[r].second \in 1..Seconds /\ ~run[r].lost
        /\ run'[r].process = run[r].process /\ run'[r].second = run[r].second
    BY <1>5, RunsKeep DEF Keeps, RunsInv, StartedSomewhere
  <2> DEFINE p == run[r].process
             s == run[r].second
  <2>2. PICK other \in Runs : /\ other = tasks[p][s] /\ run[other].process = p /\ run[other].second = s
    <3>1. tasks[p][s] \in Runs \cup {NoRun}
      BY <1>1, <2>1
    <3>2. AnswersForItsSecond
      BY DEF RunsInv
    <3>3. tasks[p][s] # NoRun /\ run[tasks[p][s]].process = p /\ run[tasks[p][s]].second = s
      BY <1>5, <2>1, <3>2 DEF AnswersForItsSecond
    <3> QED
      BY <3>1, <3>3
  <2>3. run[other].phase # "idle"
    BY <2>1, <2>2, SwarmRunsAssumption DEF RunsInv, StartedSomewhere
  <2>4. run'[other].process = p /\ run'[other].second = s
    BY <2>2, <2>3, RunsKeep DEF Keeps
  <2>5. CASE tasks'[p][s] = other
    BY <1>1, <2>1, <2>4, <2>5
  <2>6. ASSUME NEW q \in Runs, NEW x \in Processes, Start(q, x), tasks'[p][s] # other
        PROVE  tasks'[p][s] = q /\ run'[q].process = p /\ run'[q].second = s
    BY <1>2, <1>3, <2>1, <2>2, <2>6
  <2>7. ASSUME NEW x \in Processes, Forget(x)
        PROVE  tasks'[p][s] = other
    <3>1. x # p
      BY <2>1, <2>7, ForgetsRuns DEF Forgets
    <3>2. tasks' = [tasks EXCEPT ![x] = NoTasks]
      BY <2>7 DEF Forget
    <3> QED
      BY <1>1, <2>1, <2>2, <3>1, <3>2
  <2>8. ASSUME NEW q \in Runs, RestartInAppend(q)
        PROVE  run[q].process \in Processes /\ Forget(run[q].process)
    BY <2>8 DEF RestartInAppend, Running, RunsInv, StartedSomewhere
  <2>9. CASE tasks' = tasks
    BY <2>2, <2>5, <2>9
  <2>10. CASE \E q \in Runs, x \in Processes : Start(q, x)
    BY <1>1, <2>1, <2>5, <2>6, <2>10
  <2> QED
    BY <2>5, <2>7, <2>8, <2>9, <2>10
       DEF RunsNext, Tick, RunBatch, RunRaises, Finish, WriteFails, Restart, Trend
<1> QED
  BY <1>4, <1>5

LEMMA EnteredAfter ==
  ASSUME RunsInv, RunsNext
  PROVE  Entered'
<1>1. \A r \in Runs : Over(r) => Over(r)'
  BY RunsKeep DEF Keeps
<1>2. ASSUME NEW r \in Runs, Writes(r)
      PROVE  Entered'
  <2>1. /\ Running(r) /\ NoTwice(lines')
        /\ \A q \in Runs : Contains(lines', q) => Contains(lines, q) \/ q = r
    BY <1>2, FileOfWrite, FileAfter
  <2>2. Over(r)'
    <3>1. run \in [Runs -> Record]
      BY DEF RunsInv, HistoryTypes, RunsTypeOK, Record
    <3>2. CASE Finish(r) \/ WriteFails(r)
      BY <3>1, <3>2 DEF Finish, WriteFails, Over, Record
    <3>3. CASE RestartInAppend(r)
      <4>1. run[r].process \in Processes /\ Forget(run[r].process)
        BY <3>3 DEF RestartInAppend, Running, RunsInv, StartedSomewhere
      <4> QED
        BY <4>1, ForgetsRuns DEF Forgets, Over
    <3> QED
      BY <1>2, <3>2, <3>3 DEF Writes
  <2> QED
    BY <1>1, <2>1, <2>2 DEF RunsInv, Entered
<1>3. CASE \A r \in Runs : ~Writes(r)
  BY <1>1, <1>3, OthersLeaveFile DEF RunsInv, Entered
<1> QED
  BY <1>2, <1>3

LEMMA LastLineAfter ==
  ASSUME RunsInv, RunsNext
  PROVE  LastLine'
<1>1. \A q \in Runs : Over(q) => run'[q].phase = run[q].phase
  BY RunsKeep DEF Keeps
<1>2. ASSUME NEW r \in Runs, Writes(r)
      PROVE  LastLine'
  <2>1. /\ lines' # <<>> /\ lines'[Len(lines')] \in {r, Garbage}
        /\ Finish(r) => ~open' 
        /\ ~Finish(r) => run'[r].phase # "complete"
    BY <1>2, FileOfWrite, FileAfter
  <2>2. Garbage \notin Runs
    BY SwarmRunsAssumption
  <2> QED
    BY <2>1, <2>2 DEF LastLine
<1>3. CASE \A r \in Runs : ~Writes(r)
  <2>1. lines' = lines /\ open' = open
    BY <1>3, OthersLeaveFile
  <2>2. ASSUME NEW q \in Runs, open, lines[Len(lines)] = q
        PROVE  run'[q].phase # "complete"
    <3>1. lines # <<>> /\ run[q].phase # "complete" /\ lines \in Seq(Line)
      BY <2>2 DEF RunsInv, LastLine, HistoryTypes
    <3>2. Len(lines) \in 1..Len(lines)
      BY <3>1, EmptySeq, LenProperties
    <3>3. Over(q)
      BY <2>2, <3>2 DEF RunsInv, Entered, Contains
    <3> QED
      BY <1>1, <3>1, <3>3
  <2> QED
    BY <2>1, <2>2 DEF RunsInv, LastLine
<1> QED
  BY <1>2, <1>3

LEMMA CostsAfter ==
  ASSUME RunsInv, RunsNext
  PROVE  Costs'
<1>1. /\ Missing \subseteq Runs /\ IsFiniteSet(Missing) /\ Cardinality(Missing) \in Nat
      /\ tears \in Nat /\ open \in BOOLEAN /\ MaxTears \in Nat
  <2>1. Missing \subseteq Runs /\ IsFiniteSet(Runs)
    BY SwarmRunsAssumption DEF Missing
  <2>2. tears \in 0..MaxTears /\ open \in BOOLEAN /\ MaxTears \in Nat
    BY SwarmRunsAssumption DEF RunsInv, HistoryTypes, RunsTypeOK
  <2> QED
    BY <2>1, <2>2, FS_Subset, FS_CardinalityType
<1>2. Cardinality(Missing) + (IF open THEN 1 ELSE 0) <= tears
  BY DEF RunsInv, Costs
<1>3. ASSUME NEW S, S \subseteq Missing
      PROVE  Cardinality(S) \in Nat /\ Cardinality(S) <= Cardinality(Missing)
  BY <1>1, <1>3, FS_Subset, FS_CardinalityType
<1>4. ASSUME NEW r, NEW S, S \subseteq Missing \cup {r}
      PROVE  Cardinality(S) \in Nat /\ Cardinality(S) <= Cardinality(Missing) + 1
  <2>1. IsFiniteSet(Missing \cup {r}) /\ Cardinality(Missing \cup {r}) =
          IF r \in Missing THEN Cardinality(Missing) ELSE Cardinality(Missing) + 1
    BY <1>1, FS_AddElement
  <2>2. Cardinality(S) \in Nat /\ Cardinality(S) <= Cardinality(Missing \cup {r})
    BY <1>4, <2>1, FS_Subset, FS_CardinalityType
  <2> QED
    BY <1>1, <2>1, <2>2
<1>5. ASSUME NEW r \in Runs, Writes(r)
      PROVE  Costs'
  <2>1. /\ Running(r)
        /\ Spoilt(lines') \/ Added(lines', r) \/ Added(lines', Garbage)
        /\ Finish(r) => ~open' /\ tears' = tears /\ (Spoilt(lines') \/ Added(lines', r))
        /\ ~Finish(r) => open' /\ tears' = tears + 1 /\ run'[r].phase # "complete"
    BY <1>5, FileOfWrite
  <2>2. /\ \A q \in Runs : run[q].phase = "complete" /\ Contains(lines, q) => Contains(lines', q)
        /\ Added(lines', r) => Contains(lines', r)
    BY <2>1, FileAfter
  <2>3. \A q \in Runs : q # r /\ run'[q].phase = "complete" => run[q].phase = "complete"
    <3>1. ASSUME NEW q \in Runs, Finish(q), q # r PROVE run'[q].phase # "complete"
                                                   \/ run[q].phase = "complete"
      <4>1. \A x \in Runs : x # r => run'[x].phase = run[x].phase
        <5>1. run \in [Runs -> Record]
          BY DEF RunsInv, HistoryTypes, RunsTypeOK, Record
        <5>2. CASE Finish(r) \/ WriteFails(r)
          BY <5>1, <5>2 DEF Finish, WriteFails, Record
        <5>3. CASE RestartInAppend(r)
          <6>1. run[r].process \in Processes /\ Forget(run[r].process)
            BY <5>3 DEF RestartInAppend, Running, RunsInv, StartedSomewhere
          <6> QED
            BY <6>1, ForgetsRuns DEF Forgets
        <5> QED
          BY <1>5, <5>2, <5>3 DEF Writes
      <4> QED
        BY <3>1, <4>1
    <3> QED
      BY <3>1, RunsKeep
  <2>4. Missing' \subseteq Missing \cup {r}
    <3>1. Missing' = {q \in Runs : run'[q].phase = "complete" /\ ~Contains(lines', q)}
      BY DEF Missing
    <3>2. ASSUME NEW q \in Runs, q # r, run'[q].phase = "complete", ~Contains(lines', q)
          PROVE  q \in Missing
      BY <2>2, <2>3, <3>2 DEF Missing
    <3> QED
      BY <3>1, <3>2
  <2>5. CASE Finish(r) /\ open
    <3>1. Cardinality(Missing') \in Nat /\ Cardinality(Missing') <= Cardinality(Missing) + 1
      BY <1>4, <2>4
    <3> QED
      BY <1>1, <1>2, <2>1, <2>5, <3>1 DEF Costs
  <2>6. CASE Finish(r) /\ ~open
    <3>1. Missing' \subseteq Missing
      BY <2>1, <2>2, <2>4, <2>6 DEF Missing, Spoilt
    <3>2. Cardinality(Missing') \in Nat /\ Cardinality(Missing') <= Cardinality(Missing)
      BY <1>3, <3>1
    <3> QED
      BY <1>1, <1>2, <2>1, <2>6, <3>2 DEF Costs
  <2>7. CASE ~Finish(r)
    <3>1. Missing' \subseteq Missing
      BY <2>1, <2>4, <2>7 DEF Missing
    <3>2. Cardinality(Missing') \in Nat /\ Cardinality(Missing') <= Cardinality(Missing)
      BY <1>3, <3>1
    <3> QED
      BY <1>1, <1>2, <2>1, <2>7, <3>2 DEF Costs
  <2> QED
    BY <1>1, <2>5, <2>6, <2>7
<1>6. CASE \A r \in Runs : ~Writes(r)
  <2>1. lines' = lines /\ open' = open /\ tears' = tears
    BY <1>6, OthersLeaveFile
  <2>2. \A q \in Runs : run'[q].phase = "complete" => run[q].phase = "complete"
    BY <1>6, RunsKeep DEF Writes
  <2>3. Missing' \subseteq Missing
    BY <2>1, <2>2 DEF Missing
  <2>4. Cardinality(Missing') \in Nat /\ Cardinality(Missing') <= Cardinality(Missing)
    BY <1>3, <2>3
  <2> QED
    BY <1>1, <1>2, <2>1, <2>4 DEF Costs
<1> QED
  BY <1>5, <1>6

LEMMA CachesKeptUp ==
  ASSUME RunsInv, RunsNext
  PROVE  CachesKeepUp'
<1> SUFFICES ASSUME NEW p \in Processes, NEW r \in Runs, cache'[p].loaded, run'[r].process = p,
                    run'[r].phase = "complete", Contains(lines', r)
             PROVE  r \in cache'[p].rows
  BY DEF CachesKeepUp
<1>1. CASE cache'[p] = Loaded(Readable(lines'))
  <2>1. lines' \in Seq(Line) /\ Garbage \notin Runs
    BY TypesAfter, SwarmRunsAssumption DEF HistoryTypes
  <2>2. DOMAIN lines' = 1..Len(lines')
    BY <2>1, LenProperties
  <2>3. r \in Readable(lines')
    BY <2>1, <2>2 DEF Readable, ToSet, Contains
  <2> QED
    BY <1>1, <2>3 DEF Loaded
<1>2. CASE cache'[p] = NoCache
  BY <1>2 DEF NoCache
<1>3. CASE ~Finish(r)
  <2>1. run[r].phase = "complete" /\ run[r].process = p
    BY <1>3, RunsKeep DEF Keeps
  <2>2. Contains(lines, r)
    <3>1. ASSUME NEW q \in Runs, Writes(q) PROVE Contains(lines, r)
      <4>1. Contains(lines, r) \/ r = q
        BY <3>1, FileOfWrite, FileAfter
      <4>2. Running(q)
        BY <3>1, FileOfWrite
      <4> QED
        BY <2>1, <4>1, <4>2 DEF Running
    <3>2. CASE \A q \in Runs : ~Writes(q)
      BY <3>2, OthersLeaveFile
    <3> QED
      BY <3>1, <3>2
  <2>3. r \in Load(p)
    BY <2>1, <2>2, LoadHas
  <2>4. CASE cache'[p] = cache[p]
    BY <2>1, <2>2, <2>4 DEF RunsInv, CachesKeepUp
  <2>5. CASE cache'[p] = Loaded(Load(p))
    BY <2>3, <2>5 DEF Loaded
  <2> QED
    BY <1>1, <1>2, <2>4, <2>5, CachesAfter
<1>4. CASE Finish(r)
  <2>1. run[r].process = p
    BY <1>4, RunsKeep DEF Keeps, Finish, Running
  <2>2. cache \in [Processes -> [loaded : BOOLEAN, rows : SUBSET Runs]]
    BY DEF RunsInv, HistoryTypes
  <2>3. cache'[p] = Loaded(Readable(lines'))
    BY <1>4, <2>1, <2>2 DEF Finish
  <2> QED
    BY <1>1, <2>3
<1> QED
  BY <1>3, <1>4

LEMMA RunsInductive == RunsInv /\ [RunsNext]_runsVars => RunsInv'
<1> SUFFICES ASSUME RunsInv, [RunsNext]_runsVars PROVE RunsInv'
  OBVIOUS
<1>1. CASE UNCHANGED runsVars
  <2>1. Missing' = Missing /\ \A r \in Runs : Over(r)' <=> Over(r)
    BY <1>1 DEF runsVars, Missing, Over
  <2> QED
    BY <1>1, <2>1 DEF runsVars, RunsInv, HistoryTypes, RunsTypeOK, StartedSomewhere,
       AnswersForItsSecond, Entered, LastLine, Costs, CachesKeepUp
<1>2. CASE RunsNext
  BY <1>2, TypesAfter, StartedAfter, AnswersAfter, EnteredAfter, LastLineAfter, CostsAfter,
     CachesKeptUp DEF RunsInv
<1> QED
  BY <1>1, <1>2

\* Through write errors, restarts in the middle of a line and two processes that
\* append to one file, each torn line costs at most one completed run, a process
\* shows its own runs, and an id answers for a run of its second.
THEOREM HistoryConsistentHolds == RunsSpec => []HistoryConsistent
<1>1. RunsInv => HistoryConsistent
  <2> SUFFICES ASSUME RunsInv PROVE HistoryConsistent
    OBVIOUS
  <2>1. TearsCostOneEach
    <3>1. IsFiniteSet(Missing)
      BY SwarmRunsAssumption, FS_Subset DEF Missing
    <3>2. Cardinality(Missing) \in Nat /\ tears \in Nat /\ open \in BOOLEAN
      BY <3>1, FS_CardinalityType, SwarmRunsAssumption DEF RunsInv, HistoryTypes, RunsTypeOK
    <3>3. Cardinality(Missing) <= tears
      BY <3>2 DEF RunsInv, Costs
    <3> QED
      BY <3>3 DEF RunsInv, Entered, NoTwice, Missing, TearsCostOneEach
  <2>2. OwnRunsShow
    BY LoadHas DEF OwnRunsShow
  <2> QED
    BY <2>1, <2>2 DEF RunsInv, HistoryTypes, HistoryConsistent
<1> QED
  BY RunsStart, RunsInductive, <1>1, PTL DEF RunsSpec

-----------------------------------------------------------------------------
(* The chat.                                                                *)

Message == [role : {"user", "assistant"}, of : Questions]

Request == [phase : {"idle", "asked", "answered", "failed"}, sim : Simulations \cup {"none"},
            agent : Agents \cup {"none"}, history : Seq(Message)]

Answered(s, a) ==
  {q \in Questions : chat[q].phase = "answered" /\ chat[q].sim = s /\ chat[q].agent = a}

\* A session of n pairs from the given requests.
PairsOf(session, n, from) ==
  /\ Len(session) = 2 * n
  /\ \A i \in 1..n : \E q \in from :
       session[2 * i - 1] = User(q) /\ session[2 * i] = Assistant(q)

Begins(early, late) ==
  Len(early) <= Len(late) /\ \A i \in 1..Len(early) : early[i] = late[i]

ChatInv ==
  /\ ChatTypeOK /\ simulations \in Seq(Simulations)
  /\ chat \in [Questions -> Request] /\ sessions \in [Simulations -> [Agents -> Seq(Message)]]
  /\ \A q \in Questions : chat[q].phase # "idle" =>
       chat[q].sim \in Simulations /\ chat[q].agent \in Agents
  /\ \A s \in Simulations, a \in Agents :
       PairsOf(sessions[s][a], Cardinality(Answered(s, a)), Answered(s, a))
  /\ \A q \in Questions : chat[q].phase # "idle" =>
       Begins(chat[q].history, sessions[chat[q].sim][chat[q].agent])

LEMMA ChatStarts == ChatInit => ChatInv
<1> SUFFICES ASSUME ChatInit PROVE ChatInv
  OBVIOUS
<1>1. /\ simulations = <<>> /\ simulated = {}
      /\ sessions = [s \in Simulations |-> [a \in Agents |-> <<>>]]
      /\ chat = [q \in Questions |-> Unasked]
  BY DEF ChatInit
<1>2. <<>> \in Seq(Simulations) /\ <<>> \in Seq(Message) /\ Len(<<>>) = 0
  BY EmptySeq
<1>3. \A q \in Questions : chat[q].phase = "idle" /\ Unasked \in Request
  BY <1>1, <1>2 DEF Unasked, Request
<1>4. ChatTypeOK
  BY <1>1, <1>2, <1>3, ChatAssumption DEF ChatTypeOK
<1>5. \A s \in Simulations, a \in Agents : Answered(s, a) = {}
  BY <1>3 DEF Answered
<1>6. Cardinality({}) = 0
  BY FS_EmptySet
<1>7. \A s \in Simulations, a \in Agents :
        PairsOf(sessions[s][a], Cardinality(Answered(s, a)), Answered(s, a))
  <2>1. Len(<<>>) = 2 * 0 /\ 1..0 = {}
    BY <1>2
  <2>2. PairsOf(<<>>, 0, {})
    BY <2>1 DEF PairsOf
  <2> SUFFICES ASSUME NEW s \in Simulations, NEW a \in Agents
               PROVE  PairsOf(sessions[s][a], Cardinality(Answered(s, a)), Answered(s, a))
    OBVIOUS
  <2>3. sessions[s][a] = <<>> /\ Answered(s, a) = {} /\ Cardinality(Answered(s, a)) = 0
    BY <1>1, <1>5, <1>6
  <2> QED
    BY <2>2, <2>3
<1> QED
  BY <1>1, <1>2, <1>3, <1>4, <1>7 DEF ChatInv

LEMMA SimulateKeepsChat ==
  ASSUME ChatInv, NEW s \in Simulations, Simulate(s)
  PROVE  ChatInv'
<1> DEFINE all == Append(simulations, s)
<1>1. /\ simulated' = simulated \cup {s} /\ UNCHANGED <<sessions, chat>>
      /\ simulations' = IF Len(all) > StoreLimit THEN Tail(all) ELSE all
  BY DEF Simulate
<1>2. /\ all \in Seq(Simulations) /\ all # <<>> /\ Len(all) = Len(simulations) + 1
      /\ Len(simulations) \in Nat
  BY AppendProperties, LenProperties DEF ChatInv
<1>3. Tail(all) \in Seq(Simulations) /\ Len(Tail(all)) = Len(all) - 1
  BY <1>2, HeadTailProperties
<1> HIDE DEF all
<1>4. simulations' \in Seq(Simulations) /\ Len(simulations') <= StoreLimit
  <2>1. StoreLimit \in Nat \ {0} /\ Len(simulations) <= StoreLimit
    BY ChatAssumption DEF ChatInv, ChatTypeOK
  <2> QED
    BY <1>1, <1>2, <1>3, <2>1
<1>5. \A t \in Simulations, a \in Agents : Answered(t, a)' = Answered(t, a)
  BY <1>1 DEF Answered
<1>6. ChatTypeOK'
  BY <1>1, <1>4 DEF ChatInv, ChatTypeOK
<1>7. \A t \in Simulations, a \in Agents :
        PairsOf(sessions'[t][a], Cardinality(Answered(t, a)'), Answered(t, a)')
  BY <1>1, <1>5 DEF ChatInv
<1> QED
  BY <1>1, <1>4, <1>6, <1>7 DEF ChatInv

LEMMA AskKeepsChat ==
  ASSUME ChatInv, NEW q \in Questions, NEW s \in Simulations, NEW a \in Agents, Ask(q, s, a)
  PROVE  ChatInv'
<1> DEFINE asked == [phase |-> "asked", sim |-> s, agent |-> a, history |-> sessions[s][a]]
<1>1. /\ chat' = [chat EXCEPT ![q] = asked] /\ chat[q].phase = "idle"
      /\ UNCHANGED <<simulations, simulated, sessions>>
  BY DEF Ask
<1>2. /\ chat \in [Questions -> Request] /\ sessions[s][a] \in Seq(Message)
      /\ sessions \in [Simulations -> [Agents -> Seq(Message)]]
  BY DEF ChatInv
<1>3. asked \in Request
  BY <1>2 DEF Request
<1>4. chat'[q] = asked /\ \A r \in Questions : r # q => chat'[r] = chat[r]
  BY <1>1, <1>2
<1>5. \A t \in Simulations, b \in Agents : Answered(t, b)' = Answered(t, b)
  BY <1>1, <1>4 DEF Answered
<1>6. ChatTypeOK'
  BY <1>1, <1>4 DEF ChatInv, ChatTypeOK
<1>7. Begins(sessions[s][a], sessions[s][a])
  BY <1>2, LenProperties DEF Begins
<1>8. \A r \in Questions : chat'[r].phase # "idle" =>
        Begins(chat'[r].history, sessions'[chat'[r].sim][chat'[r].agent])
  BY <1>1, <1>4, <1>7 DEF ChatInv
<1>9. \A r \in Questions : chat'[r].phase # "idle" =>
        chat'[r].sim \in Simulations /\ chat'[r].agent \in Agents
  BY <1>4 DEF ChatInv
<1>10. chat' \in [Questions -> Request]
  BY <1>1, <1>2, <1>3
<1>11. \A t \in Simulations, b \in Agents :
         PairsOf(sessions'[t][b], Cardinality(Answered(t, b)'), Answered(t, b)')
  BY <1>1, <1>5 DEF ChatInv
<1> HIDE DEF asked
<1> QED
  BY <1>1, <1>6, <1>8, <1>9, <1>10, <1>11 DEF ChatInv

LEMMA NoAnswerKeepsChat ==
  ASSUME ChatInv, NEW q \in Questions, NoAnswer(q)
  PROVE  ChatInv'
<1>1. /\ chat' = [chat EXCEPT ![q].phase = "failed"] /\ chat[q].phase = "asked"
      /\ UNCHANGED <<simulations, simulated, sessions>>
  BY DEF NoAnswer
<1>2. chat \in [Questions -> Request] /\ chat[q] \in Request
  BY DEF ChatInv
<1>3. /\ chat'[q] = [chat[q] EXCEPT !.phase = "failed"] /\ chat'[q] \in Request
      /\ \A r \in Questions : r # q => chat'[r] = chat[r]
  BY <1>1, <1>2 DEF Request
<1>4. /\ chat'[q].phase = "failed"
      /\ \A r \in Questions : /\ chat'[r].sim = chat[r].sim /\ chat'[r].agent = chat[r].agent
                              /\ chat'[r].history = chat[r].history
                              /\ chat'[r].phase # "idle" => chat[r].phase # "idle"
                              /\ chat'[r].phase = "answered" <=> chat[r].phase = "answered"
                              /\ chat'[r].phase \in {"idle", "asked", "answered", "failed"}
  BY <1>1, <1>2, <1>3 DEF Request, ChatInv
<1>5. \A t \in Simulations, b \in Agents : Answered(t, b)' = Answered(t, b)
  BY <1>4 DEF Answered
<1>6. ChatTypeOK'
  BY <1>1, <1>4 DEF ChatInv, ChatTypeOK
<1>7. \A r \in Questions : chat'[r].phase # "idle" =>
        /\ chat'[r].sim \in Simulations /\ chat'[r].agent \in Agents
        /\ Begins(chat'[r].history, sessions'[chat'[r].sim][chat'[r].agent])
  BY <1>1, <1>4 DEF ChatInv
<1>8. chat' \in [Questions -> Request]
  BY <1>1, <1>2, <1>3
<1>9. \A t \in Simulations, b \in Agents :
        PairsOf(sessions'[t][b], Cardinality(Answered(t, b)'), Answered(t, b)')
  BY <1>1, <1>5 DEF ChatInv
<1> QED
  BY <1>1, <1>6, <1>7, <1>8, <1>9 DEF ChatInv

\* A session with one more pair.
LEMMA PairIsAppended ==
  ASSUME NEW session \in Seq(Message), NEW q \in Questions, NEW n \in Nat, NEW from,
         PairsOf(session, n, from)
  PROVE  /\ session \o Pair(q) \in Seq(Message) /\ Begins(session, session \o Pair(q))
         /\ PairsOf(session \o Pair(q), n + 1, from \cup {q})
<1> DEFINE longer == session \o Pair(q)
<1>1. Pair(q) \in Seq(Message) /\ Len(Pair(q)) = 2 /\ Pair(q)[1] = User(q) /\ Pair(q)[2] = Assistant(q)
  BY DEF Pair, User, Assistant, Message
<1>2. Len(session) = 2 * n /\ Len(session) \in Nat
  BY LenProperties DEF PairsOf
<1>3. /\ longer \in Seq(Message) /\ Len(longer) = Len(session) + Len(Pair(q))
      /\ \A i \in 1..Len(session) + Len(Pair(q)) :
           longer[i] = IF i <= Len(session) THEN session[i] ELSE Pair(q)[i - Len(session)]
  BY <1>1, ConcatProperties
<1> HIDE DEF longer
<1>4. \A i \in 1..(2 * n) : longer[i] = session[i]
  BY <1>1, <1>2, <1>3
<1>5. longer[2 * n + 1] = User(q) /\ longer[2 * n + 2] = Assistant(q)
  <2>1. /\ 2 * n + 1 \in 1..Len(session) + Len(Pair(q)) /\ (2 * n + 1) - Len(session) = 1
        /\ 2 * n + 2 \in 1..Len(session) + Len(Pair(q)) /\ (2 * n + 2) - Len(session) = 2
        /\ ~(2 * n + 1 <= Len(session)) /\ ~(2 * n + 2 <= Len(session))
    BY <1>1, <1>2
  <2> QED
    BY <1>1, <1>3, <2>1
<1>6. Begins(session, longer)
  BY <1>1, <1>2, <1>3, <1>4 DEF Begins
<1>7. PairsOf(longer, n + 1, from \cup {q})
  <2>1. Len(longer) = 2 * (n + 1)
    BY <1>1, <1>2, <1>3
  <2>2. ASSUME NEW i \in 1..(n + 1)
        PROVE  \E r \in from \cup {q} : longer[2 * i - 1] = User(r) /\ longer[2 * i] = Assistant(r)
    <3>1. CASE i \in 1..n
      <4>1. 2 * i - 1 \in 1..(2 * n) /\ 2 * i \in 1..(2 * n)
        BY <3>1
      <4>2. PICK r \in from : session[2 * i - 1] = User(r) /\ session[2 * i] = Assistant(r)
        BY <3>1 DEF PairsOf
      <4> QED
        BY <1>4, <4>1, <4>2
    <3>2. CASE i = n + 1
      <4>1. 2 * i - 1 = 2 * n + 1 /\ 2 * i = 2 * n + 2
        BY <3>2
      <4> QED
        BY <1>5, <4>1
    <3> QED
      BY <3>1, <3>2
  <2> QED
    BY <2>1, <2>2 DEF PairsOf
<1> QED
  BY <1>3, <1>6, <1>7 DEF longer

LEMMA AnswerKeepsChat ==
  ASSUME ChatInv, NEW q \in Questions, Answer(q)
  PROVE  ChatInv'
<1>0. PICK x \in Simulations, y \in Agents : x = chat[q].sim /\ y = chat[q].agent
  BY DEF ChatInv, Answer
<1>1. /\ chat' = [chat EXCEPT ![q].phase = "answered"] /\ chat[q].phase = "asked"
      /\ sessions' = [sessions EXCEPT ![x][y] = @ \o Pair(q)]
      /\ UNCHANGED <<simulations, simulated>>
  BY <1>0 DEF Answer
<1>2. /\ chat \in [Questions -> Request] /\ chat[q] \in Request
      /\ sessions \in [Simulations -> [Agents -> Seq(Message)]]
  BY DEF ChatInv
<1>3. /\ chat'[q] = [chat[q] EXCEPT !.phase = "answered"] /\ chat'[q] \in Request
      /\ \A r \in Questions : r # q => chat'[r] = chat[r]
  BY <1>1, <1>2 DEF Request
<1>4. /\ chat'[q].phase = "answered"
      /\ \A r \in Questions : /\ chat'[r].sim = chat[r].sim /\ chat'[r].agent = chat[r].agent
                              /\ chat'[r].history = chat[r].history
                              /\ chat'[r].phase # "idle" => chat[r].phase # "idle"
                              /\ chat'[r].phase \in {"idle", "asked", "answered", "failed"}
  BY <1>1, <1>2, <1>3 DEF Request, ChatInv
<1>5. Answered(x, y)' = Answered(x, y) \cup {q} /\ q \notin Answered(x, y)
  BY <1>0, <1>1, <1>3, <1>4 DEF Answered
<1>6. \A t \in Simulations, b \in Agents : ~(t = x /\ b = y) => Answered(t, b)' = Answered(t, b)
  BY <1>0, <1>1, <1>3, <1>4 DEF Answered
<1>7. /\ sessions'[x][y] = sessions[x][y] \o Pair(q)
      /\ \A t \in Simulations, b \in Agents : ~(t = x /\ b = y) => sessions'[t][b] = sessions[t][b]
  BY <1>1, <1>2
<1>8. IsFiniteSet(Answered(x, y))
  <2>1. Answered(x, y) \subseteq Questions
    BY DEF Answered
  <2> QED
    BY <2>1, ChatAssumption, FS_Subset
<1>9. /\ Cardinality(Answered(x, y)) \in Nat
      /\ Cardinality(Answered(x, y) \cup {q}) = Cardinality(Answered(x, y)) + 1
  <2>1. Cardinality(Answered(x, y)) \in Nat
    BY <1>8, FS_CardinalityType
  <2>2. Cardinality(Answered(x, y) \cup {q}) =
          IF q \in Answered(x, y) THEN Cardinality(Answered(x, y)) ELSE Cardinality(Answered(x, y)) + 1
    BY <1>8, FS_AddElement
  <2> QED
    BY <1>5, <2>1, <2>2
<1>10. /\ sessions'[x][y] \in Seq(Message) /\ Begins(sessions[x][y], sessions'[x][y])
       /\ PairsOf(sessions'[x][y], Cardinality(Answered(x, y)) + 1, Answered(x, y) \cup {q})
  <2>1. sessions[x][y] \in Seq(Message)
    BY <1>2
  <2>2. PairsOf(sessions[x][y], Cardinality(Answered(x, y)), Answered(x, y))
    BY <1>2 DEF ChatInv
  <2> QED
    BY <1>7, <1>9, <2>1, <2>2, PairIsAppended
<1>11. sessions' \in [Simulations -> [Agents -> Seq(Message)]]
  <2>1. \A t \in Simulations, b \in Agents : sessions'[t][b] \in Seq(Message)
    BY <1>2, <1>7, <1>10
  <2>2. sessions' = [sessions EXCEPT ![x] = [sessions[x] EXCEPT ![y] = sessions[x][y] \o Pair(q)]]
    BY <1>1
  <2>3. [sessions[x] EXCEPT ![y] = sessions[x][y] \o Pair(q)] \in [Agents -> Seq(Message)]
    BY <1>2, <1>7, <1>10
  <2> QED
    BY <1>2, <2>2, <2>3
<1>12. \A t \in Simulations, b \in Agents :
         PairsOf(sessions'[t][b], Cardinality(Answered(t, b)'), Answered(t, b)')
  <2> SUFFICES ASSUME NEW t \in Simulations, NEW b \in Agents
               PROVE  PairsOf(sessions'[t][b], Cardinality(Answered(t, b)'), Answered(t, b)')
    OBVIOUS
  <2>1. CASE t = x /\ b = y
    <3>1. /\ Answered(t, b)' = Answered(x, y) \cup {q}
          /\ Cardinality(Answered(t, b)') = Cardinality(Answered(x, y)) + 1
      BY <1>5, <1>9, <2>1
    <3> QED
      BY <1>10, <2>1, <3>1
  <2>2. CASE ~(t = x /\ b = y)
    <3>1. PairsOf(sessions[t][b], Cardinality(Answered(t, b)), Answered(t, b))
      BY DEF ChatInv
    <3>2. Answered(t, b)' = Answered(t, b) /\ sessions'[t][b] = sessions[t][b]
      BY <1>6, <1>7, <2>2
    <3>3. Cardinality(Answered(t, b)') = Cardinality(Answered(t, b))
      BY <3>2
    <3> QED
      BY <3>1, <3>2, <3>3
  <2> QED
    BY <2>1, <2>2
<1>13. \A r \in Questions : chat'[r].phase # "idle" =>
         /\ chat'[r].sim \in Simulations /\ chat'[r].agent \in Agents
         /\ Begins(chat'[r].history, sessions'[chat'[r].sim][chat'[r].agent])
  <2> SUFFICES ASSUME NEW r \in Questions, chat'[r].phase # "idle"
               PROVE  /\ chat[r].sim \in Simulations /\ chat[r].agent \in Agents
                      /\ Begins(chat[r].history, sessions'[chat[r].sim][chat[r].agent])
    BY <1>4
  <2>1. /\ chat[r].sim \in Simulations /\ chat[r].agent \in Agents
        /\ Begins(chat[r].history, sessions[chat[r].sim][chat[r].agent])
    BY <1>4 DEF ChatInv
  <2>2. CASE ~(chat[r].sim = x /\ chat[r].agent = y)
    BY <1>7, <2>1, <2>2
  <2>3. CASE chat[r].sim = x /\ chat[r].agent = y
    <3>1. /\ chat[r] \in Request /\ Len(chat[r].history) \in Nat
          /\ Len(sessions[x][y]) \in Nat /\ Len(sessions'[x][y]) \in Nat
      <4>1. chat[r] \in Request /\ chat[r].history \in Seq(Message) /\ sessions[x][y] \in Seq(Message)
        BY <1>2 DEF Request
      <4> QED
        BY <4>1, <1>10, LenProperties
    <3>2. Begins(chat[r].history, sessions[x][y]) /\ Begins(sessions[x][y], sessions'[x][y])
      BY <1>10, <2>1, <2>3
    <3>3. Begins(chat[r].history, sessions'[x][y])
      BY <3>1, <3>2 DEF Begins
    <3> QED
      BY <2>1, <2>3, <3>3
  <2> QED
    BY <2>2, <2>3
<1>14. chat' \in [Questions -> Request]
  BY <1>1, <1>2, <1>3
<1>15. ChatTypeOK'
  BY <1>1, <1>4 DEF ChatInv, ChatTypeOK
<1>16. simulations' \in Seq(Simulations)
  BY <1>1 DEF ChatInv
<1> QED
  BY <1>11, <1>12, <1>13, <1>14, <1>15, <1>16 DEF ChatInv

LEMMA ChatInductive == ChatInv /\ [ChatNext]_chatVars => ChatInv'
<1> SUFFICES ASSUME ChatInv, [ChatNext]_chatVars PROVE ChatInv'
  OBVIOUS
<1>1. CASE UNCHANGED chatVars
  <2>1. \A s \in Simulations, a \in Agents : Answered(s, a)' = Answered(s, a)
    BY <1>1 DEF chatVars, Answered
  <2> QED
    BY <1>1, <2>1 DEF chatVars, ChatInv, ChatTypeOK
<1> QED
  BY <1>1, SimulateKeepsChat, AskKeepsChat, NoAnswerKeepsChat, AnswerKeepsChat DEF ChatNext

\* With any number of questions in flight and simulations leaving the store, a
\* session is the pairs of exactly the answered requests, and what a request was
\* asked with is a beginning of it for ever.
THEOREM ChatConsistentHolds == ChatSpec => []ChatConsistent
<1>1. ChatInv => ChatConsistent
  <2> SUFFICES ASSUME ChatInv PROVE ChatConsistent
    OBVIOUS
  <2>1. SessionsArePairs
    <3> SUFFICES ASSUME NEW s \in Simulations, NEW a \in Agents
                 PROVE  LET session == sessions[s][a]
                            answered == {q \in Questions :
                               chat[q] = [chat[q] EXCEPT !.phase = "answered", !.sim = s, !.agent = a]}
                        IN /\ Len(session) = 2 * Cardinality(answered)
                           /\ \A i \in 1..(Len(session) \div 2) :
                                \E q \in answered : SubSeq(session, 2 * i - 1, 2 * i) = Pair(q)
      BY DEF SessionsArePairs
    <3> DEFINE session == sessions[s][a]
               answered == {q \in Questions :
                  chat[q] = [chat[q] EXCEPT !.phase = "answered", !.sim = s, !.agent = a]}
               n == Cardinality(Answered(s, a))
    <3>1. answered = Answered(s, a)
      BY DEF ChatInv, Request, Answered
    <3>2. session \in Seq(Message) /\ PairsOf(session, n, Answered(s, a))
      BY DEF ChatInv
    <3>3. n \in Nat
      <4>1. Answered(s, a) \subseteq Questions
        BY DEF Answered
      <4> QED
        BY <4>1, ChatAssumption, FS_Subset, FS_CardinalityType
    <3> HIDE DEF session, answered, n
    <3>4. Len(session) = 2 * n /\ Len(session) \div 2 = n
      BY <3>2, <3>3 DEF PairsOf
    <3>5. ASSUME NEW i \in 1..n
          PROVE  \E q \in Answered(s, a) : SubSeq(session, 2 * i - 1, 2 * i) = Pair(q)
      <4>1. PICK q \in Answered(s, a) :
              session[2 * i - 1] = User(q) /\ session[2 * i] = Assistant(q)
        BY <3>2 DEF PairsOf
      <4>2. /\ 2 * i - 1 \in Int /\ 2 * i \in Int /\ 2 * i - 1 <= 2 * i
            /\ \A k \in (2 * i - 1)..(2 * i) : k \in 1..Len(session)
        BY <3>3, <3>4
      <4>3. \A k \in (2 * i - 1)..(2 * i) : session[k] \in Message
        BY <3>2, <4>2, ElementOfSeq
      <4> DEFINE m == 2 * i - 1
                 k == 2 * i
                 sub == SubSeq(session, m, k)
      <4>4. m \in Int /\ k \in Int /\ k - m + 1 = 2 /\ m <= k /\ m + 1 - 1 = m /\ m + 2 - 1 = k
        BY <3>3
      <4>5. session[m] = User(q) /\ session[k] = Assistant(q) /\ \A l \in m..k : session[l] \in Message
        BY <4>1, <4>3
      <4> HIDE DEF m, k
      <4>6. /\ sub \in Seq(Message) /\ Len(sub) = IF m <= k THEN k - m + 1 ELSE 0
            /\ \A l \in 1..k - m + 1 : sub[l] = session[m + l - 1]
        BY <4>4, <4>5, SubSeqProperties
      <4> HIDE DEF sub
      <4>7. Len(sub) = 2 /\ sub[1] = User(q) /\ sub[2] = Assistant(q)
        BY <4>4, <4>5, <4>6
      <4>8. q \in Questions
        BY DEF Answered
      <4>9. Pair(q) \in Seq(Message) /\ Len(Pair(q)) = 2 /\ Pair(q)[1] = User(q) /\ Pair(q)[2] = Assistant(q)
        BY <4>8 DEF Pair, User, Assistant, Message
      <4>10. \A l \in 1..2 : l = 1 \/ l = 2
        OBVIOUS
      <4>11. sub = Pair(q)
        BY <4>6, <4>7, <4>9, <4>10, SeqEqual
      <4> QED
        BY <4>11 DEF sub, m, k
    <3> QED
      BY <3>1, <3>4, <3>5 DEF session, answered, n
  <2>2. HistoriesArePrefixes
    <3> SUFFICES ASSUME NEW q \in Questions, chat[q].phase # "idle"
                 PROVE  IsPrefix(chat[q].history, sessions[chat[q].sim][chat[q].agent])
      BY DEF HistoriesArePrefixes
    <3> DEFINE early == chat[q].history
               late == sessions[chat[q].sim][chat[q].agent]
    <3>1. early \in Seq(Message) /\ late \in Seq(Message) /\ Begins(early, late)
      BY DEF ChatInv, Request
    <3> HIDE DEF early, late
    <3>2. /\ Len(early) \in Nat /\ Len(late) \in Nat /\ Len(early) <= Len(late)
          /\ \A i \in 1..Len(early) : early[i] \in Message /\ late[i] \in Message /\ early[i] = late[i]
      BY <3>1, LenProperties, ElementOfSeq DEF Begins
    <3>3. SubSeq(early, 1, Len(early)) = SubSeq(late, 1, Len(early))
      <4> DEFINE n == Len(early)
                 e == SubSeq(early, 1, n)
                 l == SubSeq(late, 1, n)
      <4> HIDE DEF n
      <4>1. n \in Nat /\ 1 \in Int /\ n \in Int /\ n - 1 + 1 = n
            /\ \A i \in 1..n : early[i] \in Message /\ late[i] \in Message /\ early[i] = late[i]
        BY <3>2 DEF n
      <4>2. /\ e \in Seq(Message) /\ Len(e) = IF 1 <= n THEN n - 1 + 1 ELSE 0
            /\ \A i \in 1..n - 1 + 1 : e[i] = early[1 + i - 1]
        BY <4>1, SubSeqProperties
      <4>3. /\ l \in Seq(Message) /\ Len(l) = IF 1 <= n THEN n - 1 + 1 ELSE 0
            /\ \A i \in 1..n - 1 + 1 : l[i] = late[1 + i - 1]
        BY <4>1, SubSeqProperties
      <4> HIDE DEF e, l
      <4>4. Len(e) = n /\ Len(l) = n /\ \A i \in 1..n : e[i] = early[i] /\ l[i] = late[i]
        BY <4>1, <4>2, <4>3
      <4>5. e = l
        BY <4>1, <4>2, <4>3, <4>4, SeqEqual
      <4> QED
        BY <4>5 DEF e, l, n
    <3> QED
      BY <3>2, <3>3 DEF IsPrefix, early, late
  <2> QED
    BY <2>1, <2>2 DEF ChatInv, ChatConsistent
<1> QED
  BY ChatStarts, ChatInductive, <1>1, PTL DEF ChatSpec

-----------------------------------------------------------------------------
(* The predictor.                                                           *)

TrainingCall == [phase : {"idle", "selecting", "counting", "done", "failed"},
         left : SUBSET Closed, alone : BOOLEAN]

PredictorTypeOK ==
  /\ transitions \in [Stages -> [Stages -> Nat]] /\ stageTotals \in [Stages -> Nat]
  /\ trained \in BOOLEAN /\ training \in [Trainings -> TrainingCall]

\* A training no other overlapped is the only one in progress.
AloneInProgress ==
  \A t, v \in Trainings : training[t].alone /\ InProgress(v) => v = t

\* Its counts are those of the incidents it has dealt with.
CountedSoFar ==
  \A t \in Trainings : training[t].alone =>
    /\ training[t].phase = "selecting" =>
         \A s, u \in Stages : transitions[s][u] = 0
    /\ training[t].phase \in {"counting", "done"} =>
         \A s, u \in Stages :
           transitions[s][u] = Total([i \in Closed \ training[t].left |-> Steps(i, s, u)])
    /\ training[t].phase = "done" => training[t].left = {}

PredictorInv == PredictorTypeOK /\ TotalsMatch /\ AloneInProgress /\ CountedSoFar

\* The changes from a stage, sorted by where they lead, are all of them.
LEMMA StepsAddUp ==
  ASSUME NEW i \in Closed, NEW s \in Stages
  PROVE  /\ StepsFrom(i, s) \in Nat /\ \A u \in Stages : Steps(i, s, u) \in Nat
         /\ StepsFrom(i, s) = Total([u \in Stages |-> Steps(i, s, u)])
<1> DEFINE stages == AlertStages[i]
           staged == {n \in DOMAIN stages : stages[n] # NoStage}
           S == {c \in Changes(i) : stages[c[1]] = s}
           key == [c \in S |-> stages[c[2]]]
<1>1. stages \in Seq(Stages \cup {NoStage}) /\ IsFiniteSet(Stages)
  BY PredictorAssumption
<1>2. /\ Len(stages) \in Nat /\ DOMAIN stages = 1..Len(stages)
      /\ \A n \in DOMAIN stages : stages[n] \in Stages \cup {NoStage}
  BY <1>1, LenProperties, ElementOfSeq
<1>3. IsFiniteSet(staged)
  <2>1. IsFiniteSet(1..Len(stages))
    BY <1>2, FS_Interval
  <2> QED
    BY <1>2, <2>1, FS_Subset
<1>4. Changes(i) \subseteq staged \X staged
  BY DEF Changes
<1>5. IsFiniteSet(Changes(i)) /\ IsFiniteSet(S)
  BY <1>3, <1>4, FS_Product, FS_Subset
<1>6. key \in [S -> Stages]
  BY <1>2, <1>4
<1> DEFINE Part(u) == {c \in S : key[c] = u}
           Both(u) == {c \in Changes(i) : stages[c[1]] = s /\ stages[c[2]] = u}
<1>7. \A u : Part(u) = Both(u)
  OBVIOUS
<1>8. \A u : Steps(i, s, u) = Cardinality(Both(u))
  BY DEF Steps
<1>9. StepsFrom(i, s) = Cardinality(S)
  BY DEF StepsFrom
<1>10. \A u : Both(u) \subseteq Changes(i)
  OBVIOUS
<1> HIDE DEF S, key, Both
<1>11. \A u : Cardinality(Both(u)) \in Nat
  BY <1>5, <1>10, FS_Subset, FS_CardinalityType
<1>12. Total([u \in Stages |-> Cardinality(Part(u))]) = Cardinality(S)
  BY <1>1, <1>5, <1>6, TotalOfParts
<1>13. Cardinality(S) \in Nat
  BY <1>5, FS_CardinalityType
<1> HIDE DEF Part
<1>14. [u \in Stages |-> Cardinality(Part(u))] = [u \in Stages |-> Steps(i, s, u)]
  BY <1>7, <1>8
<1> QED
  BY <1>8, <1>9, <1>11, <1>12, <1>13, <1>14

LEMMA PredictorStarts == PredictorInit => PredictorInv
<1> SUFFICES ASSUME PredictorInit PROVE PredictorInv
  OBVIOUS
<1>1. \A t \in Trainings : training[t] = [phase |-> "idle", left |-> {}, alone |-> FALSE]
  BY DEF PredictorInit
<1>2. PredictorTypeOK
  BY <1>1 DEF PredictorInit, PredictorTypeOK, TrainingCall, NoCounts, NoTotals
<1>3. TotalsMatch
  <2> SUFFICES ASSUME NEW s \in Stages PROVE stageTotals[s] = Total(transitions[s])
    BY DEF TotalsMatch
  <2>1. /\ transitions[s] = [u \in Stages |-> 0] /\ stageTotals[s] = 0
        /\ transitions[s] \in [Stages -> Nat] /\ \A u \in Stages : transitions[s][u] = 0
    BY DEF PredictorInit, NoCounts, NoTotals
  <2> QED
    BY <2>1, TotalOfZeros
<1> QED
  BY <1>1, <1>2, <1>3 DEF PredictorInv, AloneInProgress, CountedSoFar, InProgress

LEMMA BeginKeepsCounts ==
  ASSUME PredictorInv, NEW t \in Trainings, BeginTraining(t)
  PROVE  PredictorInv'
<1>1. /\ transitions' = NoCounts /\ stageTotals' = NoTotals /\ trained' = trained
      /\ training' = Opened(t) /\ training[t].phase = "idle"
  BY DEF BeginTraining
<1>2. PredictorTypeOK'
  <2>1. \A u \in Trainings : Opened(t)[u] \in TrainingCall
    BY DEF Opened, PredictorInv, PredictorTypeOK, TrainingCall
  <2>2. Opened(t) \in [Trainings -> TrainingCall]
    BY <2>1 DEF Opened
  <2> QED
    BY <1>1, <2>2 DEF PredictorInv, PredictorTypeOK, NoCounts, NoTotals
<1>3. TotalsMatch'
  <2> SUFFICES ASSUME NEW s \in Stages PROVE stageTotals'[s] = Total(transitions'[s])
    BY DEF TotalsMatch
  <2>1. /\ stageTotals'[s] = 0 /\ transitions'[s] \in [Stages -> Nat]
        /\ \A u \in Stages : transitions'[s][u] = 0
    BY <1>1 DEF NoCounts, NoTotals
  <2> QED
    BY <2>1, TotalOfZeros
<1>4. \A u \in Trainings : training'[u].alone <=> u = t /\ \A v \in Trainings : ~InProgress(v)
  BY <1>1 DEF Opened
<1>5. \A u \in Trainings : u # t => training'[u].phase = training[u].phase
  BY <1>1 DEF Opened, PredictorInv, PredictorTypeOK, TrainingCall
<1>6. training'[t].phase = "selecting"
  BY <1>1 DEF Opened
<1>7. AloneInProgress'
  BY <1>4, <1>5 DEF AloneInProgress, InProgress
<1>8. CountedSoFar'
  BY <1>1, <1>4, <1>6 DEF CountedSoFar, NoCounts
<1> QED
  BY <1>2, <1>3, <1>7, <1>8 DEF PredictorInv

LEMMA SelectKeepsCounts ==
  ASSUME PredictorInv, NEW t \in Trainings, SelectIncidents(t)
  PROVE  PredictorInv'
<1>1. /\ UNCHANGED <<transitions, stageTotals>> /\ training[t].phase = "selecting"
      /\ trained' = (trained \/ Closed = {})
      /\ training' = [training EXCEPT ![t].left = Closed,
                                      ![t].phase = IF Closed = {} THEN "done" ELSE "counting"]
  BY DEF SelectIncidents
<1>2. training[t] \in TrainingCall /\ training \in [Trainings -> TrainingCall]
  BY DEF PredictorInv, PredictorTypeOK
<1>3. /\ training'[t].left = Closed /\ training'[t].alone = training[t].alone
      /\ training'[t].phase = IF Closed = {} THEN "done" ELSE "counting"
      /\ \A u \in Trainings : u # t => training'[u] = training[u]
  BY <1>1, <1>2 DEF TrainingCall
<1>4. PredictorTypeOK'
  BY <1>1, <1>2 DEF PredictorInv, PredictorTypeOK, TrainingCall
<1>5. TotalsMatch'
  BY <1>1 DEF PredictorInv, TotalsMatch
<1>6. AloneInProgress'
  BY <1>1, <1>3 DEF PredictorInv, AloneInProgress, InProgress
<1>7. CountedSoFar'
  <2> SUFFICES ASSUME NEW u \in Trainings, training'[u].alone
               PROVE  /\ training'[u].phase = "selecting" =>
                           \A s, w \in Stages : transitions'[s][w] = 0
                      /\ training'[u].phase \in {"counting", "done"} =>
                           \A s, w \in Stages : transitions'[s][w] =
                             Total([i \in Closed \ training'[u].left |-> Steps(i, s, w)])
                      /\ training'[u].phase = "done" => training'[u].left = {}
    BY DEF CountedSoFar
  <2>1. CASE u # t
    <3>1. training'[u] = training[u] /\ training[u].alone
      BY <1>3, <2>1
    <3>2. transitions' = transitions
      BY <1>1
    <3> QED
      BY <3>1, <3>2 DEF PredictorInv, CountedSoFar
  <2>2. CASE u = t
    <3>1. \A s, w \in Stages : transitions'[s][w] = 0
      BY <1>1, <1>3, <2>2 DEF PredictorInv, CountedSoFar
    <3>2. \A s, w \in Stages : Total([i \in Closed \ training'[t].left |-> Steps(i, s, w)]) = 0
      <4>1. Closed \ training'[t].left = {}
        BY <1>3
      <4> SUFFICES ASSUME NEW s \in Stages, NEW w \in Stages
                   PROVE  Total([i \in Closed \ training'[t].left |-> Steps(i, s, w)]) = 0
        OBVIOUS
      <4> DEFINE g == [i \in Closed \ training'[t].left |-> Steps(i, s, w)]
      <4>2. DOMAIN g = {}
        BY <4>1
      <4> HIDE DEF g
      <4>3. Total(g) = 0
        BY <4>2, TotalOfNone
      <4> QED
        BY <4>3 DEF g
    <3> QED
      BY <1>3, <2>2, <3>1, <3>2
  <2> QED
    BY <2>1, <2>2
<1> QED
  BY <1>4, <1>5, <1>6, <1>7 DEF PredictorInv

LEMMA CountKeepsCounts ==
  ASSUME PredictorInv, NEW t \in Trainings, CountIncident(t)
  PROVE  PredictorInv'
<1>1. PICK i \in training[t].left :
        /\ transitions' = [s \in Stages |-> [u \in Stages |-> transitions[s][u] + Steps(i, s, u)]]
        /\ stageTotals' = [s \in Stages |-> stageTotals[s] + StepsFrom(i, s)]
        /\ training' = [training EXCEPT ![t].left = @ \ {i},
                                        ![t].phase = IF training[t].left = {i} THEN "done" ELSE "counting"]
        /\ trained' = (trained \/ training[t].left = {i})
  BY DEF CountIncident
<1>2. training[t].phase = "counting"
  BY DEF CountIncident
<1>3. /\ training \in [Trainings -> TrainingCall] /\ training[t] \in TrainingCall /\ i \in Closed
      /\ training[t].left \subseteq Closed
      /\ transitions \in [Stages -> [Stages -> Nat]] /\ stageTotals \in [Stages -> Nat]
  BY DEF PredictorInv, PredictorTypeOK, TrainingCall
<1>4. /\ \A s \in Stages : StepsFrom(i, s) \in Nat
      /\ \A s, u \in Stages : Steps(i, s, u) \in Nat
      /\ \A s \in Stages : StepsFrom(i, s) = Total([u \in Stages |-> Steps(i, s, u)])
  BY <1>3, StepsAddUp
<1>5. /\ training'[t].left = training[t].left \ {i} /\ training'[t].alone = training[t].alone
      /\ training'[t].phase = IF training[t].left = {i} THEN "done" ELSE "counting"
      /\ \A u \in Trainings : u # t => training'[u] = training[u]
  BY <1>1, <1>3 DEF TrainingCall
<1>6. PredictorTypeOK'
  <2>1. transitions' \in [Stages -> [Stages -> Nat]] /\ stageTotals' \in [Stages -> Nat]
    BY <1>1, <1>3, <1>4
  <2>2. training' \in [Trainings -> TrainingCall]
    BY <1>1, <1>3 DEF TrainingCall
  <2> QED
    BY <1>1, <2>1, <2>2 DEF PredictorTypeOK
<1>7. TotalsMatch'
  <2> SUFFICES ASSUME NEW s \in Stages PROVE stageTotals'[s] = Total(transitions'[s])
    BY DEF TotalsMatch
  <2> DEFINE g == transitions[s]
             h == [u \in Stages |-> Steps(i, s, u)]
  <2>1. g \in [Stages -> Nat] /\ h \in [Stages -> Nat] /\ IsFiniteSet(Stages)
    BY <1>3, <1>4, PredictorAssumption
  <2>2. transitions'[s] = [u \in Stages |-> g[u] + h[u]]
    BY <1>1
  <2>3. stageTotals'[s] = stageTotals[s] + Total(h)
    BY <1>1, <1>4
  <2>4. stageTotals[s] = Total(g)
    BY DEF PredictorInv, TotalsMatch
  <2> HIDE DEF g, h
  <2>5. Total([u \in Stages |-> g[u] + h[u]]) = Total(g) + Total(h)
    BY <2>1, TotalOfSum
  <2> QED
    BY <2>2, <2>3, <2>4, <2>5
<1>8. AloneInProgress'
  BY <1>2, <1>5 DEF PredictorInv, AloneInProgress, InProgress
<1>9. CountedSoFar'
  <2> SUFFICES ASSUME NEW u \in Trainings, training'[u].alone
               PROVE  /\ training'[u].phase = "selecting" =>
                           \A s, w \in Stages : transitions'[s][w] = 0
                      /\ training'[u].phase \in {"counting", "done"} =>
                           \A s, w \in Stages : transitions'[s][w] =
                             Total([k \in Closed \ training'[u].left |-> Steps(k, s, w)])
                      /\ training'[u].phase = "done" => training'[u].left = {}
    BY DEF CountedSoFar
  <2>1. u = t
    BY <1>2, <1>5 DEF PredictorInv, AloneInProgress, InProgress
  <2>2. training'[t].phase # "selecting" /\ (training'[t].phase = "done" => training'[t].left = {})
    BY <1>5
  <2>3. ASSUME NEW s \in Stages, NEW w \in Stages
        PROVE  transitions'[s][w] = Total([k \in Closed \ training'[t].left |-> Steps(k, s, w)])
    <3> DEFINE before == Closed \ training[t].left
               after == before \cup {i}
               g == [k \in after |-> Steps(k, s, w)]
    <3>1. Closed \ training'[t].left = after /\ i \notin before /\ after \subseteq Closed
      BY <1>3, <1>5
    <3>2. IsFiniteSet(before)
      BY PredictorAssumption, FS_Subset
    <3>3. g \in [after -> Nat]
      BY <3>1, StepsAddUp
    <3>4. Total(g) = Total([k \in before |-> g[k]]) + g[i]
      <4> HIDE DEF g, before
      <4> QED
        BY <3>1, <3>2, <3>3, TotalGrows
    <3>5. [k \in before |-> g[k]] = [k \in before |-> Steps(k, s, w)] /\ g[i] = Steps(i, s, w)
      OBVIOUS
    <3>6. transitions[s][w] = Total([k \in before |-> Steps(k, s, w)])
      BY <1>2, <1>5, <2>1 DEF PredictorInv, CountedSoFar
    <3>7. transitions'[s][w] = transitions[s][w] + Steps(i, s, w)
      BY <1>1
    <3> QED
      BY <3>1, <3>4, <3>5, <3>6, <3>7
  <2> QED
    BY <2>1, <2>2, <2>3
<1> QED
  BY <1>6, <1>7, <1>8, <1>9 DEF PredictorInv

LEMMA FailKeepsCounts ==
  ASSUME PredictorInv, NEW t \in Trainings, TrainingFails(t)
  PROVE  PredictorInv'
<1>1. /\ UNCHANGED <<transitions, stageTotals, trained>>
      /\ training' = [training EXCEPT ![t].phase = "failed"]
  BY DEF TrainingFails
<1>2. training[t] \in TrainingCall /\ training \in [Trainings -> TrainingCall]
  BY DEF PredictorInv, PredictorTypeOK
<1>3. /\ training'[t].left = training[t].left /\ training'[t].alone = training[t].alone
      /\ training'[t].phase = "failed"
      /\ \A u \in Trainings : u # t => training'[u] = training[u]
  BY <1>1, <1>2 DEF TrainingCall
<1>4. PredictorTypeOK'
  BY <1>1, <1>2 DEF PredictorInv, PredictorTypeOK, TrainingCall
<1>5. TotalsMatch' /\ AloneInProgress'
  BY <1>1, <1>3 DEF PredictorInv, TotalsMatch, AloneInProgress, InProgress
<1>6. CountedSoFar'
  <2>1. \A u \in Trainings : training'[u].alone /\ training'[u].phase # "failed" =>
          training'[u] = training[u]
    BY <1>3
  <2> QED
    BY <1>1, <2>1 DEF PredictorInv, CountedSoFar
<1> QED
  BY <1>4, <1>5, <1>6 DEF PredictorInv

LEMMA PredictorInductive == PredictorInv /\ [PredictorNext]_predictorVars => PredictorInv'
<1> SUFFICES ASSUME PredictorInv, [PredictorNext]_predictorVars PROVE PredictorInv'
  OBVIOUS
<1>1. CASE UNCHANGED predictorVars
  BY <1>1 DEF predictorVars, PredictorInv, PredictorTypeOK, TotalsMatch, AloneInProgress,
     CountedSoFar, InProgress
<1> QED
  BY <1>1, BeginKeepsCounts, SelectKeepsCounts, CountKeepsCounts, FailKeepsCounts
     DEF PredictorNext

\* However trainings overlap, fail and are read in the middle, a stage's total
\* is the sum of its transitions, a training left alone counts each closed
\* incident once, and no stage known to the defaults goes without a prediction.
THEOREM TrainingConsistentHolds == PredictorSpec => []TrainingConsistent
<1>1. PredictorInv => TrainingConsistent
  <2> SUFFICES ASSUME PredictorInv PROVE TrainingConsistent
    OBVIOUS
  <2>1. LoneTrainingIsExact
    <3> SUFFICES ASSUME NEW t \in Trainings, training[t].phase = "done", training[t].alone
                 PROVE  \A s, u \in Stages :
                          transitions[s][u] = Total([i \in Closed |-> Steps(i, s, u)])
      BY DEF LoneTrainingIsExact
    <3>1. training[t].left = {} /\ Closed \ {} = Closed
      BY DEF PredictorInv, CountedSoFar
    <3>2. \A s, u \in Stages :
            transitions[s][u] = Total([i \in Closed \ training[t].left |-> Steps(i, s, u)])
      BY DEF PredictorInv, CountedSoFar
    <3> QED
      BY <3>1, <3>2
  <2>2. AlwaysPredicts
    <3> SUFFICES ASSUME NEW s \in Defaulted PROVE Predict(s) # {}
      BY DEF AlwaysPredicts
    <3>1. CASE trained /\ Learned(s) # {} /\ stageTotals[s] > 0
      <4>1. Predict(s) = {[stage |-> u, source |-> "learned"] : u \in Learned(s)}
        BY <3>1 DEF Predict
      <4> QED
        BY <3>1, <4>1
    <3>2. CASE ~(trained /\ Learned(s) # {} /\ stageTotals[s] > 0)
      BY <3>2 DEF Predict
    <3> QED
      BY <3>1, <3>2
  <2> QED
    BY <2>1, <2>2 DEF PredictorInv, TrainingConsistent
<1> QED
  BY PredictorStarts, PredictorInductive, <1>1, PTL DEF PredictorSpec

-----------------------------------------------------------------------------
(* The risk scorer.                                                         *)

Reported == [hit : [Archetypes -> SUBSET ScoredHosts], blocked : Nat, bypassed : Nat]

\* A refresh has not completed more than it ran.
RiskInv ==
  /\ RiskTypeOK /\ ingested \in Seq(Reports)
  /\ \A c \in Refreshes : refresh[c].completed <= refresh[c].run

LEMMA RiskStarts == RiskInit => RiskInv
<1> SUFFICES ASSUME RiskInit PROVE RiskInv
  OBVIOUS
<1>1. ingested = <<>> /\ ingested \in Seq(Reports) /\ DOMAIN ingested = {}
  BY EmptySeq DEF RiskInit
<1>2. \A c \in Refreshes : refresh[c] = [phase |-> "idle", run |-> 0, completed |-> 0]
  BY DEF RiskInit
<1>3. RiskTypeOK
  BY <1>1, RiskAssumption DEF RiskInit, RiskTypeOK
<1> QED
  BY <1>1, <1>2, <1>3 DEF RiskInv

LEMMA RiskInductive == RiskInv /\ [RiskNext]_riskVars => RiskInv'
<1> SUFFICES ASSUME RiskInv, [RiskNext]_riskVars PROVE RiskInv'
  OBVIOUS
<1> DEFINE RefreshCall == [phase : {"idle", "running", "done"}, run : 0..Simulated, completed : 0..Simulated]
<1>1. CASE UNCHANGED riskVars
  BY <1>1 DEF RiskInv, RiskTypeOK, riskVars
<1>2. ASSUME NEW c \in Refreshes,
             BeginRefresh(c) \/ SimulationIngested(c) \/ SimulationSkipped(c) \/ RefreshDone(c)
      PROVE  RiskInv'
  <2>1. /\ refresh \in [Refreshes -> RefreshCall] /\ Simulated \in Nat
        /\ refresh[c] \in RefreshCall /\ refresh[c].completed <= refresh[c].run
    BY RiskAssumption DEF RiskInv, RiskTypeOK
  <2>2. PICK call \in RefreshCall : refresh' = [refresh EXCEPT ![c] = call] /\ call.completed <= call.run
    <3> DEFINE old == refresh[c]
    <3>1. old.run \in 0..Simulated /\ old.completed \in 0..Simulated
      BY <2>1
    <3>2. CASE BeginRefresh(c)
      <4>1. [old EXCEPT !.phase = "running"] \in RefreshCall
        BY <2>1
      <4> QED
        BY <2>1, <3>2, <4>1 DEF BeginRefresh
    <3>3. CASE RefreshDone(c)
      <4>1. [old EXCEPT !.phase = "done"] \in RefreshCall
        BY <2>1
      <4> QED
        BY <2>1, <3>3, <4>1 DEF RefreshDone
    <3>4. CASE SimulationSkipped(c)
      <4>1. old.run + 1 \in 0..Simulated /\ old.completed <= old.run + 1
        BY <2>1, <3>1, <3>4 DEF SimulationSkipped
      <4>2. [old EXCEPT !.run = old.run + 1] \in RefreshCall
        BY <2>1, <4>1
      <4> QED
        BY <2>1, <3>4, <4>1, <4>2 DEF SimulationSkipped
    <3>5. CASE SimulationIngested(c)
      <4>1. old.run + 1 \in 0..Simulated /\ old.completed + 1 \in 0..Simulated
            /\ old.completed + 1 <= old.run + 1
        BY <2>1, <3>1, <3>5 DEF SimulationIngested
      <4>2. [old EXCEPT !.run = old.run + 1, !.completed = old.completed + 1] \in RefreshCall
        BY <2>1, <4>1
      <4> QED
        BY <2>1, <3>5, <4>1, <4>2 DEF SimulationIngested
    <3> QED
      BY <1>2, <3>2, <3>3, <3>4, <3>5
  <2>3. /\ refresh' \in [Refreshes -> RefreshCall]
        /\ \A d \in Refreshes : refresh'[d].completed <= refresh'[d].run
    BY <2>1, <2>2 DEF RiskInv
  <2>4. ingested' = ingested \/ \E r \in Reports : ingested' = Append(ingested, r)
    BY <1>2 DEF BeginRefresh, SimulationIngested, SimulationSkipped, RefreshDone
  <2>5. ingested' \in Seq(Reports)
    BY <2>4, AppendProperties DEF RiskInv
  <2>6. \A i \in DOMAIN ingested' : ingested'[i] \in Reports
    BY <2>5, LenProperties, ElementOfSeq
  <2> QED
    BY <2>3, <2>5, <2>6 DEF RiskInv, RiskTypeOK
<1> QED
  BY <1>1, <1>2 DEF RiskNext

\* What a score is computed from is a natural number each.
LEMMA ScoreParts ==
  ASSUME NEW history \in Seq(Reported), NEW h \in ScoredHosts
  PROVE  /\ CompromiseCount(history, h) \in Nat /\ Diversity(history, h) \in Nat
         /\ Blocked(history, h) \in Nat /\ Attempts(history, h) \in Nat
<1>1. /\ DOMAIN history = 1..Len(history) /\ Len(history) \in Nat
      /\ \A i \in DOMAIN history : history[i] \in Reported
  BY LenProperties, ElementOfSeq
<1>2. IsFiniteSet(DOMAIN history)
  BY <1>1, FS_Interval
<1>3. CompromiseCount(history, h) \in Nat
  <2>1. ASSUME NEW i \in DOMAIN history PROVE Cardinality(Hitters(history[i], h)) \in Nat
    <3>1. Hitters(history[i], h) \in SUBSET Archetypes
      BY DEF Hitters
    <3> QED
      BY <3>1, RiskAssumption, FS_Subset, FS_CardinalityType
  <2>2. [i \in DOMAIN history |-> Cardinality(Hitters(history[i], h))] \in [DOMAIN history -> Nat]
    BY <2>1
  <2> QED
    BY <1>2, <2>2, TotalIsNat DEF CompromiseCount
<1>4. Diversity(history, h) \in Nat
  <2>1. {a \in Archetypes : \E i \in DOMAIN history : h \in history[i].hit[a]} \in SUBSET Archetypes
    OBVIOUS
  <2> QED
    BY <2>1, RiskAssumption, FS_Subset, FS_CardinalityType DEF Diversity
<1>5. Relevant(history, h) \in SUBSET DOMAIN history /\ IsFiniteSet(Relevant(history, h))
  BY <1>2, FS_Subset DEF Relevant
<1>6. \A i \in Relevant(history, h) : history[i].blocked \in Nat /\ history[i].bypassed \in Nat
  BY <1>1, <1>5 DEF Reported
<1>7. Blocked(history, h) \in Nat
  <2>1. [i \in Relevant(history, h) |-> history[i].blocked] \in [Relevant(history, h) -> Nat]
    BY <1>6
  <2> QED
    BY <1>5, <2>1, TotalIsNat DEF Blocked
<1>8. Attempts(history, h) \in Nat
  <2>1. [i \in Relevant(history, h) |-> history[i].blocked + history[i].bypassed]
          \in [Relevant(history, h) -> Nat]
    BY <1>6
  <2> QED
    BY <1>5, <2>1, TotalIsNat DEF Attempts
<1> QED
  BY <1>3, <1>4, <1>7, <1>8

LEMMA ProductIsNat == \A x, y \in Nat : x * y \in Nat
OBVIOUS

\* No score is below 0 or above 100, whatever the parts come to.
LEMMA ScoreIsBounded ==
  ASSUME NEW history \in Seq(Reported), NEW h \in ScoredHosts
  PROVE  /\ 0 <= Score(history, h).num
         /\ Score(history, h).num <= 100 * Score(history, h).den
<1> DEFINE n == Len(history)
           tries == Attempts(history, h)
           a == HigherOf(tries, 1)
           base == 60 * CompromiseCount(history, h) * a
           less == IF tries = 0 THEN 0 ELSE 10 * Blocked(history, h) * n
           archetypes == Diversity(history, h)
           bonus == IF archetypes > 1 THEN LowerOf(3 * archetypes, 10) ELSE 0
           floor == HigherOf(0, base - less)
           top == 100 * n * a
           extra == bonus * n * a
<1>1. n \in Nat /\ tries \in Nat /\ archetypes \in Nat
      /\ CompromiseCount(history, h) \in Nat /\ Blocked(history, h) \in Nat
  BY ScoreParts, LenProperties
<1>2. Score(history, h) = [num |-> LowerOf(top, floor + extra), den |-> n * a]
  BY DEF Score
<1> HIDE DEF n, tries, archetypes
<1>3. a \in Nat /\ bonus \in Nat
  BY <1>1 DEF HigherOf, LowerOf
<1> HIDE DEF a, bonus
<1>4. base \in Nat /\ less \in Nat
  <2>1. 60 * CompromiseCount(history, h) \in Nat /\ 10 * Blocked(history, h) \in Nat
    BY <1>1
  <2> QED
    BY <1>1, <1>3, <2>1, ProductIsNat
<1> HIDE DEF base, less
<1>5. floor \in Nat
  BY <1>4 DEF HigherOf
<1>6. top \in Nat /\ top = 100 * (n * a)
  <2>1. 100 * n \in Nat
    BY <1>1
  <2> QED
    BY <1>1, <1>3, <2>1, ProductIsNat
<1>7. extra \in Nat
  <2>1. bonus * n \in Nat
    BY <1>1, <1>3, ProductIsNat
  <2> QED
    BY <1>3, <2>1, ProductIsNat
<1> HIDE DEF floor, top, extra
<1>8. LowerOf(top, floor + extra) \in Nat /\ LowerOf(top, floor + extra) <= top
  BY <1>5, <1>6, <1>7 DEF LowerOf
<1> QED
  BY <1>2, <1>6, <1>8

\* A report in which a host is not hit is of no account for its score.
LEMMA ScoreIsOwn ==
  ASSUME NEW history \in Seq(Reported), NEW h \in ScoredHosts
  PROVE  LET own == [i \in DOMAIN history |->
                       IF Hitters(history[i], h) # {} THEN history[i]
                       ELSE [history[i] EXCEPT !.blocked = 0, !.bypassed = 0]]
         IN Score(own, h) = Score(history, h)
<1> DEFINE own == [i \in DOMAIN history |->
                     IF Hitters(history[i], h) # {} THEN history[i]
                     ELSE [history[i] EXCEPT !.blocked = 0, !.bypassed = 0]]
<1>1. /\ DOMAIN history = 1..Len(history) /\ Len(history) \in Nat
      /\ \A i \in DOMAIN history : history[i] \in Reported
  BY LenProperties, ElementOfSeq
<1>2. ASSUME NEW i \in DOMAIN history
      PROVE  /\ own[i] \in Reported /\ own[i].hit = history[i].hit
             /\ Hitters(history[i], h) # {} => own[i] = history[i]
  BY <1>1 DEF Reported
<1>3. DOMAIN own = DOMAIN history /\ own \in Seq(Reported) /\ Len(own) = Len(history)
  <2>1. own \in [1..Len(history) -> Reported]
    BY <1>1, <1>2
  <2>2. DOMAIN own = 1..Len(history)
    BY <2>1
  <2> HIDE DEF own
  <2>3. own \in Seq(Reported)
    BY <1>1, <2>1, SeqDef
  <2>4. Len(own) = Len(history)
    BY <1>1, <2>2, <2>3, LenProperties
  <2> QED
    BY <1>1, <2>2, <2>3, <2>4
<1> HIDE DEF own
<1>4. \A i \in DOMAIN history : Hitters(own[i], h) = Hitters(history[i], h)
  BY <1>2 DEF Hitters
<1>5. CompromiseCount(own, h) = CompromiseCount(history, h)
  <2>1. [i \in DOMAIN own |-> Cardinality(Hitters(own[i], h))] =
        [i \in DOMAIN history |-> Cardinality(Hitters(history[i], h))]
    BY <1>3, <1>4
  <2> QED
    BY <2>1 DEF CompromiseCount
<1>6. Diversity(own, h) = Diversity(history, h)
  <2>1. {a \in Archetypes : \E i \in DOMAIN own : h \in own[i].hit[a]} =
        {a \in Archetypes : \E i \in DOMAIN history : h \in history[i].hit[a]}
    BY <1>2, <1>3
  <2> QED
    BY <2>1 DEF Diversity
<1>7. Relevant(own, h) = Relevant(history, h)
  BY <1>3, <1>4 DEF Relevant
<1>8. \A i \in Relevant(history, h) : own[i] = history[i]
  BY <1>2 DEF Relevant
<1>9. Blocked(own, h) = Blocked(history, h) /\ Attempts(own, h) = Attempts(history, h)
  <2>1. /\ [i \in Relevant(own, h) |-> own[i].blocked] =
             [i \in Relevant(history, h) |-> history[i].blocked]
        /\ [i \in Relevant(own, h) |-> own[i].blocked + own[i].bypassed] =
             [i \in Relevant(history, h) |-> history[i].blocked + history[i].bypassed]
    BY <1>7, <1>8
  <2> QED
    BY <2>1 DEF Blocked, Attempts
<1>10. Score(own, h) = Score(history, h)
  BY <1>3, <1>5, <1>6, <1>9 DEF Score
<1> QED
  BY <1>10 DEF own

\* Whatever is ingested, in whatever order, a host's score is between 0 and 100
\* and is not moved by simulations that did not hit the host.
THEOREM ScoresConsistentHolds == RiskSpec => []ScoresConsistent
<1>1. RiskInv => ScoresConsistent
  <2> SUFFICES ASSUME RiskInv PROVE ScoresConsistent
    OBVIOUS
  <2>1. ingested \in Seq(Reported)
    BY RiskAssumption, SeqMonotonic DEF RiskInv, Reported
  <2>2. ScoresBounded
    BY <2>1, ScoreIsBounded DEF ScoresBounded
  <2>3. NoLeak
    <3> SUFFICES ASSUME NEW h \in ScoredHosts
                 PROVE  LET own == [i \in DOMAIN ingested |->
                                      IF Hitters(ingested[i], h) # {} THEN ingested[i]
                                      ELSE [ingested[i] EXCEPT !.blocked = 0, !.bypassed = 0]]
                            s == Score(ingested, h)
                            t == Score(own, h)
                        IN s.num * t.den = t.num * s.den
      BY DEF NoLeak
    <3> QED
      BY <2>1, ScoreIsOwn
  <2> QED
    BY <2>2, <2>3 DEF RiskInv, ScoresConsistent
<1> QED
  BY RiskStarts, RiskInductive, <1>1, PTL DEF RiskSpec
=============================================================================
