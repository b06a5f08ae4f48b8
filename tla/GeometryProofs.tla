---------------------------- MODULE GeometryProofs ----------------------------
(* Proofs about Geometry and Headings: the merge of duplicate targets, the      *)
(* sector of a zone and the arc of a blob, for any number of targets and spokes *)
(* and any resolution of angles, and the heading that radars write back for     *)
(* each other, for spokes in any number and order.                              *)
EXTENDS Geometry, Headings, WellFoundedInduction, FiniteSetTheorems, TLAPS

\* A set of naturals has a least one.
LEMMA LeastExists ==
  ASSUME NEW S \in SUBSET Nat, S # {}
  PROVE  \E n \in S : \A m \in S : n <= m
  <1> DEFINE R == OpToRel(<, Nat)
  <1>1. IsWellFoundedOn(R, Nat)
    BY NatLessThanWellFounded, Zenon
  <1>2. \A x, y \in Nat : <<x, y>> \in R <=> x < y
    BY DEF OpToRel
  <1> HIDE DEF R
  <1>3. PICK n \in S : \A y \in S : <<y, n>> \notin R
    BY <1>1, WFMin, Zenon
  <1>4. n \in Nat /\ S \subseteq Nat
    OBVIOUS
  <1>5. \A m \in S : ~(m < n)
    BY <1>2, <1>3, <1>4, Zenon
  <1>6. \A m \in S : n <= m
    BY <1>4, <1>5
  <1>7. QED
    BY <1>6

-------------------------------------------------------------------------------
\* The merge of duplicates.

\* One round of the outer loop removes nothing, or the one of two nearby targets,
\* both still there, that is young.
LEMMA OneRound ==
  ASSUME NEW T, NEW order \in Seq(DOMAIN T), NEW gone, NEW a
  PROVE  \/ MergeOne(T, order, gone, a) = gone
         \/ \E b \in DOMAIN T :
               /\ a \notin gone
               /\ Mergeable(T, gone, a, b)
               /\ MergeOne(T, order, gone, a) = gone \cup {Discard(T, a, b)}
  <1> DEFINE partners == {m \in DOMAIN order : Mergeable(T, gone, a, order[m])}
             first == CHOOSE m \in partners : \A k \in partners : m <= k
  <1> SUFFICES ASSUME a \notin gone, Young(T[a]), partners # {}
               PROVE  \E b \in DOMAIN T : /\ Mergeable(T, gone, a, b)
                                          /\ MergeOne(T, order, gone, a) = gone \cup {Discard(T, a, b)}
    BY Zenon DEF MergeOne
  <1>1. first \in partners
    <2>1. partners \in SUBSET Nat
      OBVIOUS
    <2> HIDE DEF partners
    <2>2. QED
      BY <2>1, LeastExists, Zenon
  <1>2. order[first] \in DOMAIN T /\ Mergeable(T, gone, a, order[first])
    <2>1. first \in DOMAIN order /\ Mergeable(T, gone, a, order[first])
      BY <1>1, Zenon
    <2>2. QED
      BY <2>1
  <1>3. MergeOne(T, order, gone, a) = gone \cup {Discard(T, a, order[first])}
    BY Zenon DEF MergeOne
  <1>4. QED
    BY <1>2, <1>3, Zenon

\* The rounds of MergeAll: what is removed after n of them.
Rounds(T, order, f) ==
    /\ f[0] = {}
    /\ \A n \in 1 .. Len(order) : f[n] = MergeOne(T, order, f[n - 1], order[n])

LEMMA MergeAllRounds ==
  ASSUME NEW T, NEW order, Len(order) \in Nat
  PROVE  \E f : Rounds(T, order, f) /\ MergeAll(T, order) = f[Len(order)]
  <1> DEFINE Loop(m, g) == [n \in 0 .. m |-> IF n = 0 THEN {}
                                 ELSE MergeOne(T, order, g[n - 1], order[n])]
             Fails == {m \in Nat : ~\E g : g = Loop(m, g)}
             L == Len(order)
  <1>1. Fails = {}
    <2> SUFFICES ASSUME Fails # {} PROVE FALSE
      OBVIOUS
    <2>1. Fails \in SUBSET Nat
      OBVIOUS
    <2>2. PICK m \in Fails : \A k \in Fails : m <= k
      <3> HIDE DEF Fails
      <3>1. QED
        BY <2>1, LeastExists, Zenon
    <2>3. m \in Nat /\ ~\E g : g = Loop(m, g)
      OBVIOUS
    <2>4. CASE m = 0
      <3> DEFINE g == [n \in 0 .. 0 |-> {}]
      <3>1. g = Loop(0, g)
        OBVIOUS
      <3>2. QED
        BY <2>3, <2>4, <3>1, ZenonT(40)
    <2>5. CASE m # 0
      <3>1. m - 1 \in Nat /\ m - 1 < m
        BY <2>3, <2>5
      <3>2. m - 1 \notin Fails
        <4> HIDE DEF Fails
        <4>1. ~(m <= m - 1)
          BY <2>3, <3>1
        <4>2. QED
          BY <2>2, <4>1, Zenon
      <3>3. PICK g : g = Loop(m - 1, g)
        BY <3>1, <3>2
      <3> DEFINE h == [n \in 0 .. m |-> IF n = m THEN MergeOne(T, order, g[m - 1], order[m])
                                        ELSE g[n]]
      <3>4. ASSUME NEW n \in 0 .. m
            PROVE  h[n] = IF n = 0 THEN {} ELSE MergeOne(T, order, h[n - 1], order[n])
        <4>1. CASE n = m
          BY <2>3, <2>5, <4>1
        <4>2. CASE n # m
          <5>1. n \in 0 .. m - 1 /\ h[n] = g[n] /\ (n # 0 => n - 1 \in 0 .. m /\ n - 1 # m)
            BY <2>3, <4>2
          <5>2. g[n] = IF n = 0 THEN {} ELSE MergeOne(T, order, g[n - 1], order[n])
            BY <3>3, <5>1, ZenonT(40)
          <5>3. QED
            BY <5>1, <5>2
        <4>3. QED
          BY <4>1, <4>2
      <3>5. h = Loop(m, h)
        BY <3>4
      <3>6. QED
        BY <2>3, <3>5, ZenonT(40)
    <2>6. QED
      BY <2>4, <2>5
  <1> DEFINE after == CHOOSE g : g = Loop(L, g)
  <1>2. after = Loop(L, after)
    BY <1>1, ZenonT(40)
  <1>3. MergeAll(T, order) = after[L]
    BY Zenon DEF MergeAll
  <1>4. Rounds(T, order, after)
    <2> HIDE DEF after
    <2>1. after[0] = {}
      BY <1>2
    <2>2. ASSUME NEW n \in 1 .. L
          PROVE  after[n] = MergeOne(T, order, after[n - 1], order[n])
      <3>1. n \in 0 .. L /\ n # 0
        OBVIOUS
      <3>2. after[n] = IF n = 0 THEN {} ELSE MergeOne(T, order, after[n - 1], order[n])
        BY <1>2, <3>1, ZenonT(40)
      <3>3. QED
        BY <3>1, <3>2
    <2>3. QED
      BY <2>1, <2>2, Zenon DEF Rounds
  <1>5. QED
    BY <1>3, <1>4, ZenonT(40)

\* A merge that has removed gone has removed young targets only, and some of every
\* set of targets that are apart from the others are left.
KeepsClusters(gone) ==
    /\ gone \subseteq DOMAIN targets
    /\ \A i \in gone : Young(targets[i])
    /\ \A S \in SUBSET DOMAIN targets : S # {} /\ IsApart(S) => ~(S \subseteq gone)

Placed == \A i \in DOMAIN targets : targets[i].pos \in Int

\* Nearness is mutual.
LEMMA NearBoth ==
  ASSUME Placed, NEW a \in DOMAIN targets, NEW b \in DOMAIN targets, Near(a, b)
  PROVE  Near(b, a)
  <1>1. targets[a].pos \in Int /\ targets[b].pos \in Int
    BY DEF Placed
  <1>2. QED
    BY <1>1 DEF Near, Distance

\* Of two nearby targets that are left, one is removed: then the other is left, in
\* every set of targets that are apart.
LEMMA PairKeepsClusters ==
  ASSUME Placed, NEW gone, KeepsClusters(gone),
         NEW d \in DOMAIN targets, NEW e \in DOMAIN targets, d # e, e \notin gone,
         Near(d, e), Young(targets[d])
  PROVE  KeepsClusters(gone \cup {d})
  <1>1. ASSUME NEW S \in SUBSET DOMAIN targets, S # {}, IsApart(S), S \subseteq gone \cup {d}
        PROVE  FALSE
    <2>1. ~(S \subseteq gone)
      BY <1>1, Zenon DEF KeepsClusters
    <2>2. d \in S
      BY <1>1, <2>1
    <2>3. e \in S
      BY <1>1, <2>2, Zenon DEF IsApart
    <2>4. QED
      BY <1>1, <2>3
  <1>2. gone \cup {d} \subseteq DOMAIN targets
    BY DEF KeepsClusters
  <1>3. \A i \in gone \cup {d} : Young(targets[i])
    BY Zenon DEF KeepsClusters
  <1>4. \A S \in SUBSET DOMAIN targets : S # {} /\ IsApart(S) => ~(S \subseteq gone \cup {d})
    BY <1>1, Zenon
  <1>5. QED
    BY <1>2, <1>3, <1>4, Zenon DEF KeepsClusters

LEMMA RoundKeepsClusters ==
  ASSUME Placed, NEW order \in Seq(DOMAIN targets), NEW a \in DOMAIN targets, NEW gone,
         KeepsClusters(gone)
  PROVE  KeepsClusters(MergeOne(targets, order, gone, a))
  <1> DEFINE left == MergeOne(targets, order, gone, a)
  <1>1. \/ left = gone
        \/ \E b \in DOMAIN targets : /\ a \notin gone
                                     /\ Mergeable(targets, gone, a, b)
                                     /\ left = gone \cup {Discard(targets, a, b)}
    BY OneRound
  <1> SUFFICES KeepsClusters(left)
    OBVIOUS
  <1> HIDE DEF left
  <1>2. CASE left = gone
    BY <1>2
  <1>3. CASE \E b \in DOMAIN targets : /\ a \notin gone
                                       /\ Mergeable(targets, gone, a, b)
                                       /\ left = gone \cup {Discard(targets, a, b)}
    <2>1. PICK b \in DOMAIN targets : /\ a \notin gone
                                      /\ Mergeable(targets, gone, a, b)
                                      /\ left = gone \cup {Discard(targets, a, b)}
      BY <1>3
    <2>2. /\ a # b /\ b \notin gone /\ Near(a, b) /\ Young(targets[Discard(targets, a, b)])
      BY <2>1, Zenon DEF Mergeable, Near
    <2>3. Near(b, a)
      BY <2>2, NearBoth
    <2>4. CASE Discard(targets, a, b) = a
      <3>1. KeepsClusters(gone \cup {a})
        BY <2>2, <2>4, PairKeepsClusters
      <3>2. QED
        BY <2>1, <2>4, <3>1, Zenon
    <2>5. CASE Discard(targets, a, b) = b
      <3>1. KeepsClusters(gone \cup {b})
        BY <2>1, <2>2, <2>3, <2>5, PairKeepsClusters
      <3>2. QED
        BY <2>1, <2>5, <3>1, Zenon
    <2>6. QED
      BY <2>4, <2>5, Zenon DEF Discard
  <1>4. QED
    BY <1>1, <1>2, <1>3

\* The order of a HashMap's keys is a sequence of them.
LEMMA OrderIsSequence ==
  ASSUME NEW D, IsFiniteSet(D), NEW order \in Orders(D)
  PROVE  order \in Seq(D) /\ Len(order) \in Nat /\ DOMAIN order = 1 .. Len(order)
  <1>1. Cardinality(D) \in Nat
    BY FS_CardinalityType
  <1>2. order \in [1 .. Cardinality(D) -> D]
    BY Zenon DEF Orders, Bijection, Injection
  <1>3. order \in Seq(D)
    BY <1>1, <1>2
  <1>4. QED
    BY <1>3

LEMMA MergeKeepsClusters ==
  ASSUME Placed, IsFiniteSet(DOMAIN targets), NEW order \in Orders(DOMAIN targets)
  PROVE  KeepsClusters(MergeAll(targets, order))
  <1>1. order \in Seq(DOMAIN targets) /\ Len(order) \in Nat /\ DOMAIN order = 1 .. Len(order)
    BY OrderIsSequence
  <1>2. PICK f : Rounds(targets, order, f) /\ MergeAll(targets, order) = f[Len(order)]
    BY <1>1, MergeAllRounds, Zenon
  <1> DEFINE Bad == {n \in 0 .. Len(order) : ~KeepsClusters(f[n])}
  <1>3. Bad = {}
    <2> SUFFICES ASSUME Bad # {} PROVE FALSE
      OBVIOUS
    <2>1. Bad \in SUBSET Nat
      BY <1>1
    <2>2. PICK n \in Bad : \A m \in Bad : n <= m
      <3> HIDE DEF Bad
      <3>1. QED
        BY <2>1, LeastExists, Zenon
    <2>3. n \in 0 .. Len(order) /\ ~KeepsClusters(f[n])
      BY Zenon
    <2>4. KeepsClusters({})
      BY DEF KeepsClusters
    <2>5. n \in 1 .. Len(order) /\ n - 1 \in 0 .. Len(order) /\ ~(n <= n - 1)
      <3>1. f[0] = {}
        BY <1>2, Zenon DEF Rounds
      <3>2. n # 0
        BY <2>3, <2>4, <3>1, Zenon
      <3> HIDE DEF Bad
      <3>3. QED
        BY <1>1, <2>3, <3>2
    <2>6. KeepsClusters(f[n - 1])
      BY <2>2, <2>5, Zenon
    <2> HIDE DEF Bad
    <2>7. f[n] = MergeOne(targets, order, f[n - 1], order[n])
      BY <1>2, <2>5, Zenon DEF Rounds
    <2>8. order[n] \in DOMAIN targets
      BY <1>1, <2>5
    <2>9. KeepsClusters(MergeOne(targets, order, f[n - 1], order[n]))
      BY <1>1, <2>6, <2>8, RoundKeepsClusters, Zenon
    <2>10. QED
      BY <2>3, <2>7, <2>9, Zenon
  <1>4. Len(order) \in 0 .. Len(order)
    BY <1>1
  <1>5. KeepsClusters(f[Len(order)])
    BY <1>3, <1>4, Zenon
  <1>6. QED
    BY <1>2, <1>5, Zenon

\* The targets are finitely many and have positions, and what is removed was
\* removed by a merge of these targets.
MergeInv ==
    /\ IsFiniteSet(DOMAIN targets)
    /\ Placed
    /\ removed = {} \/ \E order \in Orders(DOMAIN targets) : removed = MergeAll(targets, order)

LEMMA MergeStart == GeometryInit => MergeInv
  BY FS_EmptySet DEF GeometryInit, MergeInv, Placed

LEMMA MergeStep ==
  ASSUME MergeInv, [GeometryNext]_geometryVars
  PROVE  MergeInv'
  <1>1. CASE AddTarget
    <2>1. PICK i \in TargetIds \ DOMAIN targets, pos \in Positions, n \in Updates :
             targets' = Insert(targets, i, [pos |-> pos, updates |-> n])
      BY <1>1 DEF AddTarget
    <2>2. DOMAIN targets' = DOMAIN targets \cup {i}
      BY <2>1 DEF Insert
    <2>3. IsFiniteSet(DOMAIN targets')
      BY <2>2, FS_AddElement DEF MergeInv
    <2>4. pos \in Int
      BY TrackerAssumption
    <2>5. ASSUME NEW j \in DOMAIN targets'
          PROVE  targets'[j].pos \in Int
      <3>1. CASE j = i
        BY <2>1, <2>2, <2>4, <3>1 DEF Insert
      <3>2. CASE j # i
        <4>1. j \in DOMAIN targets /\ targets'[j] = targets[j]
          BY <2>1, <2>2, <2>5, <3>2 DEF Insert
        <4>2. QED
          BY <4>1 DEF MergeInv, Placed
      <3>3. QED
        BY <3>1, <3>2
    <2>6. Placed'
      BY <2>5, Zenon DEF Placed
    <2>7. removed' = {}
      BY <1>1, Zenon DEF AddTarget
    <2>8. QED
      BY <2>3, <2>6, <2>7, Zenon DEF MergeInv
  <1>2. CASE MergeTargets
    <2>1. targets' = targets
      BY <1>2, Zenon DEF MergeTargets
    <2>2. \E order \in Orders(DOMAIN targets) : removed' = MergeAll(targets, order)
      BY <1>2, Zenon DEF MergeTargets
    <2>3. QED
      BY <2>1, <2>2, Zenon DEF MergeInv, Placed
  <1>3. CASE Touch \/ SetSector \/ UNCHANGED geometryVars
    <2>1. targets' = targets /\ removed' = removed
      BY <1>3, Zenon DEF Touch, SetSector, geometryVars
    <2>2. QED
      BY <2>1, Zenon DEF MergeInv, Placed
  <1>4. QED
    BY <1>1, <1>2, <1>3, Zenon DEF GeometryNext

\* A merge of duplicates, of any number of targets and in any order of the HashMap,
\* removes young targets only and leaves some of every set of targets that are
\* apart from the others, so of every cluster (deduplicate_targets).
THEOREM ClustersSurvive == GeometrySpec => []ClusterSurvives
  <1>1. MergeInv => ClusterSurvives
    <2> SUFFICES ASSUME MergeInv PROVE ClusterSurvives
      OBVIOUS
    <2>1. CASE removed = {}
      BY <2>1 DEF ClusterSurvives
    <2>2. CASE removed # {}
      <3>1. PICK order \in Orders(DOMAIN targets) : removed = MergeAll(targets, order)
        BY <2>2, Zenon DEF MergeInv
      <3>2. KeepsClusters(MergeAll(targets, order))
        BY MergeKeepsClusters, Zenon DEF MergeInv
      <3>3. KeepsClusters(removed)
        BY <3>1, <3>2, Zenon
      <3>4. QED
        BY <3>3, Zenon DEF KeepsClusters, ClusterSurvives
    <2>3. QED
      BY <2>1, <2>2
  <1>2. QED
    BY MergeStart, MergeStep, <1>1, PTL DEF GeometrySpec

-------------------------------------------------------------------------------
\* The sector of a zone.

\* Facts about products and remainders with any factor.
LEMMA TimesStrict ==
  ASSUME NEW k \in Nat \ {0}, NEW x \in Int, NEW y \in Int, x < y
  PROVE  x * k + k <= y * k
  OBVIOUS

LEMMA TimesCancel ==
  ASSUME NEW k \in Nat \ {0}, NEW x \in Int, NEW y \in Int, x * k < y * k
  PROVE  x < y
  OBVIOUS

LEMMA Quotient ==
  ASSUME NEW n \in Nat \ {0}, NEW x \in Int
  PROVE  /\ x \div n \in Int
         /\ x - (x \div n) * n \in 0 .. n - 1
         /\ x % n = x - (x \div n) * n
  <1>1. x = n * (x \div n) + (x % n)
    OBVIOUS
  <1>2. x \div n \in Int /\ x % n \in Int
    OBVIOUS
  <1>3. n * (x \div n) = (x \div n) * n
    BY <1>2
  <1>4. x - (x \div n) * n \in 0 .. n - 1
    OBVIOUS
  <1>5. QED
    BY <1>1, <1>2, <1>3, <1>4

LEMMA Remainder ==
  ASSUME NEW n \in Nat \ {0}, NEW q \in Int, NEW r \in 0 .. n - 1
  PROVE  (q * n + r) % n = r
  OBVIOUS

\* The fraction of an angle that a cast drops.
Rest(a) == a - Truncated(a) * StepsPerSpoke

\* A cast drops less than a spoke, towards the bow.
LEMMA CastDrops ==
  ASSUME NEW a \in Int
  PROVE  /\ Truncated(a) \in Int /\ Rest(a) \in Int
         /\ a = Truncated(a) * StepsPerSpoke + Rest(a)
         /\ a >= 0 => Truncated(a) >= 0 /\ Rest(a) \in 0 .. StepsPerSpoke - 1
         /\ a <= 0 => Truncated(a) <= 0 /\ Rest(a) \in -(StepsPerSpoke - 1) .. 0
  <1> DEFINE K == StepsPerSpoke
  <1>1. K \in Nat \ {0}
    BY ZonesAssumption
  <1> HIDE DEF K
  <1>2. CASE a >= 0
    <2>1. Truncated(a) = a \div K
      BY <1>2 DEF Truncated, K
    <2>2. a \div K \in Int /\ a - (a \div K) * K \in 0 .. K - 1
      BY <1>1, Quotient
    <2> DEFINE q == a \div K
    <2> HIDE DEF q
    <2>3. q \in Int /\ q * K \in Int /\ a - q * K \in 0 .. K - 1
      BY <1>1, <2>2 DEF q
    <2>4. q >= 0
      <3>1. ASSUME q < 0 PROVE FALSE
        <4>1. q * K + K <= 0 * K
          BY <1>1, <2>3, <3>1, TimesStrict
        <4>2. QED
          BY <1>1, <1>2, <2>3, <4>1
      <3>2. QED
        BY <2>3, <3>1
    <2>5. Truncated(a) = q /\ Rest(a) = a - q * K
      BY <2>1 DEF Rest, K, q
    <2>6. a <= 0 => q = 0 /\ a - q * K = 0
      <3>1. ASSUME q > 0, a <= 0 PROVE FALSE
        <4>1. 0 * K + K <= q * K
          BY <1>1, <2>3, <3>1, TimesStrict
        <4>2. QED
          BY <1>1, <2>3, <3>1, <4>1
      <3>2. QED
        BY <1>1, <1>2, <2>3, <2>4, <3>1
    <2>7. QED
      BY <1>1, <1>2, <2>3, <2>4, <2>5, <2>6 DEF K
  <1>3. CASE a < 0
    <2>1. Truncated(a) = -((-a) \div K)
      BY <1>3 DEF Truncated, K
    <2> DEFINE q == (-a) \div K
    <2>2. q \in Int /\ (-a) - q * K \in 0 .. K - 1
      BY <1>1, Quotient
    <2> HIDE DEF q
    <2>3. q * K \in Int /\ (-q) * K = -(q * K)
      BY <1>1, <2>2
    <2>4. q >= 0
      <3>1. ASSUME q < 0 PROVE FALSE
        <4>1. q * K + K <= 0 * K
          BY <1>1, <2>2, <3>1, TimesStrict
        <4>2. QED
          BY <1>1, <1>3, <2>2, <2>3, <4>1
      <3>2. QED
        BY <2>2, <3>1
    <2>5. Truncated(a) = -q /\ Rest(a) = a + q * K
      BY <2>1, <2>2, <2>3 DEF Rest, K, q
    <2>6. QED
      BY <1>1, <1>3, <2>2, <2>3, <2>4, <2>5 DEF K
  <1>4. QED
    BY <1>2, <1>3

LEMMA CastIsSmall ==
  ASSUME NEW a \in Int
  PROVE  /\ Truncated(a) \in Int /\ Rest(a) \in Int
         /\ a = Truncated(a) * StepsPerSpoke + Rest(a)
         /\ Rest(a) \in -(StepsPerSpoke - 1) .. StepsPerSpoke - 1
  <1>1. StepsPerSpoke \in Nat \ {0}
    BY ZonesAssumption
  <1>2. Rest(a) \in 0 .. StepsPerSpoke - 1 \/ Rest(a) \in -(StepsPerSpoke - 1) .. 0
    BY CastDrops
  <1>3. Rest(a) \in -(StepsPerSpoke - 1) .. StepsPerSpoke - 1
    BY <1>1, <1>2
  <1>4. QED
    BY <1>3, CastDrops, Zenon

\* The greater angle is cast to the greater spoke, or to the same.
LEMMA CastIsMonotone ==
  ASSUME NEW a \in Int, NEW b \in Int, a <= b
  PROVE  Truncated(a) <= Truncated(b)
  <1> DEFINE K == StepsPerSpoke
             A == Truncated(a)
             B == Truncated(b)
  <1>1. K \in Nat \ {0}
    BY ZonesAssumption
  <1>2. /\ A \in Int /\ Rest(a) \in Int /\ a = A * K + Rest(a)
        /\ a >= 0 => A >= 0 /\ Rest(a) \in 0 .. K - 1
        /\ a <= 0 => A <= 0 /\ Rest(a) \in -(K - 1) .. 0
    BY CastDrops
  <1>3. /\ B \in Int /\ Rest(b) \in Int /\ b = B * K + Rest(b)
        /\ b >= 0 => B >= 0 /\ Rest(b) \in 0 .. K - 1
        /\ b <= 0 => B <= 0 /\ Rest(b) \in -(K - 1) .. 0
    BY CastDrops
  <1> SUFFICES ASSUME B < A PROVE FALSE
    BY <1>2, <1>3
  <1> HIDE DEF A, B, K
  <1>4. B * K + K <= A * K /\ A * K \in Int /\ B * K \in Int
    BY <1>1, <1>2, <1>3, TimesStrict
  <1>5. QED
    BY <1>1, <1>2, <1>3, <1>4

\* A zone's angles are half a circle from the bow at most, and so are its spokes.
LEMMA CastIsBounded ==
  ASSUME NEW a \in Angles
  PROVE  /\ a \in Int
         /\ 2 * Truncated(a) <= SpokesPerRevolution
         /\ -SpokesPerRevolution <= 2 * Truncated(a)
  <1> DEFINE K == StepsPerSpoke
             N == SpokesPerRevolution
             A == Truncated(a)
  <1>1. K \in Nat \ {0} /\ N \in Nat \ {0}
    BY ZonesAssumption, CircleAssumption
  <1>2. N * K \in Int
    BY <1>1
  <1>3. a \in Int /\ 2 * a <= N * K /\ -(N * K) <= 2 * a
    <2> DEFINE M == N * K
    <2>1. a \in -(M \div 2) .. M \div 2
      BY DEF Angles, Steps
    <2> HIDE DEF M
    <2>2. M \in Int
      BY <1>2 DEF M
    <2>3. a \in Int /\ 2 * a <= M /\ -M <= 2 * a
      BY <2>1, <2>2
    <2>4. QED
      BY <2>3 DEF M
  <1>4. /\ A \in Int /\ Rest(a) \in Int /\ a = A * K + Rest(a)
        /\ a >= 0 => A >= 0 /\ Rest(a) \in 0 .. K - 1
        /\ a <= 0 => A <= 0 /\ Rest(a) \in -(K - 1) .. 0
    BY <1>3, CastDrops
  <1> HIDE DEF A, K, N
  <1>5. A * K \in Int /\ (2 * A) * K = 2 * (A * K) /\ (-N) * K = -(N * K)
    BY <1>1, <1>4
  <1>6. ~(N < 2 * A)
    <2>1. ASSUME N < 2 * A PROVE FALSE
      <3>1. N * K + K <= (2 * A) * K
        BY <1>1, <1>4, <2>1, TimesStrict
      <3>2. a >= 0
        BY <1>1, <1>3, <1>4, <2>1
      <3>3. QED
        BY <1>1, <1>2, <1>3, <1>4, <1>5, <3>1, <3>2
    <2>2. QED
      BY <2>1
  <1>7. ~(2 * A < -N)
    <2>1. ASSUME 2 * A < -N PROVE FALSE
      <3>1. (2 * A) * K + K <= (-N) * K
        BY <1>1, <1>4, <2>1, TimesStrict
      <3>2. a <= 0
        BY <1>1, <1>3, <1>4, <2>1
      <3>3. QED
        BY <1>1, <1>2, <1>3, <1>4, <1>5, <3>1, <3>2
    <2>2. QED
      BY <2>1
  <1>8. QED
    BY <1>1, <1>3, <1>4, <1>6, <1>7 DEF A, N

\* The remainder of a difference.
Mod(x, n) == x % n

LEMMA DifferenceRemainder ==
  ASSUME NEW n \in Nat \ {0}, NEW x \in Int, NEW a \in Int
  PROVE  /\ Mod(x, n) \in 0 .. n - 1 /\ Mod(a, n) \in 0 .. n - 1
         /\ Mod(x, n) >= Mod(a, n) => Mod(x - a, n) = Mod(x, n) - Mod(a, n)
         /\ Mod(x, n) < Mod(a, n) => Mod(x - a, n) = Mod(x, n) - Mod(a, n) + n
  <1> DEFINE q == x \div n
             t == a \div n
             r == Mod(x, n)
             p == Mod(a, n)
  <1>1. q \in Int /\ x - q * n \in 0 .. n - 1 /\ r = x - q * n
    BY Quotient DEF Mod
  <1>2. t \in Int /\ a - t * n \in 0 .. n - 1 /\ p = a - t * n
    BY Quotient DEF Mod
  <1> HIDE DEF q, t, r, p
  <1>3. q * n \in Int /\ t * n \in Int
    BY <1>1, <1>2
  <1>4. /\ (q - t) * n = q * n - t * n
        /\ (q - t - 1) * n = q * n - t * n - n
    BY <1>1, <1>2
  <1>5. r \in 0 .. n - 1 /\ p \in 0 .. n - 1
    BY <1>1, <1>2
  <1>6. ASSUME r >= p PROVE Mod(x - a, n) = r - p
    <2>1. r - p \in 0 .. n - 1 /\ q - t \in Int
      BY <1>1, <1>2, <1>5, <1>6
    <2>2. x - a = (q - t) * n + (r - p)
      BY <1>1, <1>2, <1>3, <1>4, <1>5
    <2>3. ((q - t) * n + (r - p)) % n = r - p
      BY <2>1, Remainder
    <2>4. QED
      BY <2>2, <2>3 DEF Mod
  <1>7. ASSUME r < p PROVE Mod(x - a, n) = r - p + n
    <2>1. r - p + n \in 0 .. n - 1 /\ q - t - 1 \in Int
      BY <1>1, <1>2, <1>5, <1>7
    <2>2. x - a = (q - t - 1) * n + (r - p + n)
      BY <1>1, <1>2, <1>3, <1>4, <1>5
    <2>3. ((q - t - 1) * n + (r - p + n)) % n = r - p + n
      BY <2>1, Remainder, ZenonT(40)
    <2>4. QED
      BY <2>2, <2>3 DEF Mod
  <1>8. QED
    BY <1>5, <1>6, <1>7, Zenon DEF r, p

\* in_angle, around the bow or not: as far clockwise from the start as the end or
\* less far.
LEMMA InAngle ==
  ASSUME NEW A \in Int, NEW B \in Int, NEW s \in Spokes, NEW internal,
         internal.start_spoke = A % SpokesPerRevolution,
         internal.end_spoke = B % SpokesPerRevolution
  PROVE  in_angle(internal, s) <=> Mod(s - A, SpokesPerRevolution) <= Mod(B - A, SpokesPerRevolution)
  <1> DEFINE N == SpokesPerRevolution
             p == Mod(A, N)
             e == Mod(B, N)
  <1>1. N \in Nat \ {0} /\ s \in 0 .. N - 1
    BY CircleAssumption DEF Spokes
  <1>2. Mod(s, N) = s
    BY <1>1 DEF Mod
  <1>3. /\ p \in 0 .. N - 1
        /\ s >= p => Mod(s - A, N) = s - p
        /\ s < p => Mod(s - A, N) = s - p + N
    <2>1. s \in Int
      BY <1>1
    <2>2. /\ p \in 0 .. N - 1
          /\ Mod(s, N) >= p => Mod(s - A, N) = Mod(s, N) - p
          /\ Mod(s, N) < p => Mod(s - A, N) = Mod(s, N) - p + N
      BY <1>1, <2>1, DifferenceRemainder, ZenonT(40)
    <2>3. QED
      BY <1>2, <2>2
  <1>4. /\ e \in 0 .. N - 1
        /\ e >= p => Mod(B - A, N) = e - p
        /\ e < p => Mod(B - A, N) = e - p + N
    BY <1>1, DifferenceRemainder, ZenonT(40)
  <1>5. in_angle(internal, s) <=> IF p <= e THEN s \in p .. e ELSE s >= p \/ s <= e
    BY DEF in_angle, Mod
  <1> HIDE DEF N, p, e
  <1>6. in_angle(internal, s) <=> Mod(s - A, N) <= Mod(B - A, N)
    BY <1>1, <1>3, <1>4, <1>5
  <1>7. QED
    BY <1>6 DEF N

\* How many spokes the end is from the start, of a zone that leaves two spokes out.
LEMMA SpokesOfSector ==
  ASSUME NEW a \in Angles, NEW b \in Angles, zone = Sector(a, b),
         Width(zone) < Steps - 2 * (StepsPerSpoke - 1)
  PROVE  LET D == Mod(Truncated(b) - Truncated(a), SpokesPerRevolution)
         IN  /\ D \in 0 .. SpokesPerRevolution - 1
             /\ Width(zone) \in 0 .. Steps - 1
             /\ Width(zone) = D * StepsPerSpoke + Rest(b) - Rest(a)
  <1> DEFINE K == StepsPerSpoke
             N == SpokesPerRevolution
             A == Truncated(a)
             B == Truncated(b)
             W == Width(zone)
             c == IF b < a THEN 1 ELSE 0
             E == B - A + c * N
  <1>1. K \in Nat \ {0} /\ N \in Nat \ {0} /\ N * K \in Int /\ Steps = N * K
    BY ZonesAssumption, CircleAssumption DEF Steps
  <1>2. a \in Int /\ b \in Int
    BY CastIsBounded
  <1>3. /\ A \in Int /\ Rest(a) \in Int /\ a = A * K + Rest(a)
        /\ Rest(a) \in -(K - 1) .. K - 1
    BY <1>1, <1>2, CastIsSmall
  <1>4. /\ B \in Int /\ Rest(b) \in Int /\ b = B * K + Rest(b)
        /\ Rest(b) \in -(K - 1) .. K - 1
    BY <1>1, <1>2, CastIsSmall
  <1>5. W = b - a + (IF b < a THEN N * K ELSE 0) /\ W < N * K - 2 * (K - 1)
    BY <1>1 DEF Width, Sector
  <1>6. a <= b => A <= B
    BY <1>2, CastIsMonotone
  <1>7. B - A >= -N
    BY <1>1, <1>3, <1>4, CastIsBounded
  <1>8. b - a >= -(N * K)
    <2> DEFINE M == N * K
    <2>1. a \in -(M \div 2) .. M \div 2 /\ b \in -(M \div 2) .. M \div 2
      BY DEF Angles, Steps
    <2>2. M \in Int
      BY <1>1
    <2> HIDE DEF M
    <2>3. b - a >= -M
      BY <2>1, <2>2
    <2>4. QED
      BY <2>3 DEF M
  <1> HIDE DEF A, B, K, N, W
  <1>9. /\ c \in Int /\ E \in Int /\ E >= 0
        /\ A * K \in Int /\ B * K \in Int
        /\ E * K = B * K - A * K + (IF b < a THEN N * K ELSE 0)
    BY <1>1, <1>2, <1>3, <1>4, <1>6, <1>7
  <1> HIDE DEF E, c
  <1>10. W = E * K + Rest(b) - Rest(a) /\ W \in Int /\ W >= 0
    BY <1>1, <1>2, <1>3, <1>4, <1>5, <1>8, <1>9
  <1>11. E < N
    <2>1. E * K < N * K
      BY <1>1, <1>3, <1>4, <1>5, <1>9, <1>10
    <2>2. QED
      BY <1>1, <1>9, <2>1, TimesCancel
  <1>12. Mod(B - A, N) = E
    <2>1. B - A = (-c) * N + E
      BY <1>1, <1>3, <1>4, <1>9 DEF E
    <2>2. ((-c) * N + E) % N = E
      BY <1>1, <1>9, <1>11, Remainder
    <2>3. QED
      BY <2>1, <2>2 DEF Mod
  <1>13. W < N * K
    BY <1>1, <1>5, <1>10
  <1>14. QED
    BY <1>1, <1>9, <1>10, <1>11, <1>12, <1>13 DEF A, B, K, N, W

\* A spoke is in the sector, or less than a spoke off, as many spokes from the start
\* as it is.
LEMMA SpokeOfSector ==
  ASSUME NEW a \in Angles, NEW b \in Angles, zone = Sector(a, b),
         Width(zone) < Steps - 2 * (StepsPerSpoke - 1), NEW s \in Spokes
  PROVE  LET S == Mod(s - Truncated(a), SpokesPerRevolution)
             D == Mod(Truncated(b) - Truncated(a), SpokesPerRevolution)
         IN  /\ InSector(zone, s * StepsPerSpoke) => S <= D
             /\ S <= D => \E d \in -(StepsPerSpoke - 1) .. StepsPerSpoke - 1 :
                              InSector(zone, s * StepsPerSpoke + d)
  <1> DEFINE K == StepsPerSpoke
             N == SpokesPerRevolution
             A == Truncated(a)
             B == Truncated(b)
             W == Width(zone)
             S == Mod(s - A, N)
             D == Mod(B - A, N)
             q == (s - A) \div N
             M == N * K
  <1>1. K \in Nat \ {0} /\ N \in Nat \ {0} /\ M \in Int /\ Steps = M /\ M >= K
    BY ZonesAssumption, CircleAssumption DEF Steps
  <1>2. a \in Int /\ b \in Int /\ s \in Int
    BY CastIsBounded DEF Spokes
  <1>3. /\ A \in Int /\ Rest(a) \in Int /\ a = A * K + Rest(a)
        /\ Rest(a) \in -(K - 1) .. K - 1
    BY <1>1, <1>2, CastIsSmall
  <1>4. /\ Rest(b) \in Int /\ Rest(b) \in -(K - 1) .. K - 1
    BY <1>1, <1>2, CastIsSmall
  <1>5. D \in 0 .. N - 1 /\ W \in 0 .. M - 1 /\ W = D * K + Rest(b) - Rest(a)
    BY <1>1, SpokesOfSector
  <1>6. q \in Int /\ S \in 0 .. N - 1 /\ s - A = q * N + S
    <2>1. s - A \in Int
      BY <1>2, <1>3
    <2>2. q \in Int /\ (s - A) - q * N \in 0 .. N - 1 /\ S = (s - A) - q * N
      BY <1>1, <2>1, Quotient, ZenonT(40) DEF Mod
    <2> HIDE DEF q, S
    <2>3. q * N \in Int
      BY <1>1, <2>2
    <2>4. QED
      BY <2>1, <2>2, <2>3
  <1>7. zone.start_angle = a
    BY DEF Sector
  <1>8. \A x \in Int : InSector(zone, x) <=> (x - a) % M <= W
    BY <1>1, <1>7 DEF InSector
  <1> SUFFICES /\ InSector(zone, s * K) => S <= D
               /\ S <= D => \E d \in -(K - 1) .. K - 1 : InSector(zone, s * K + d)
    OBVIOUS
  <1> HIDE DEF K, A, B, W, S, D, q
  <1>9. /\ S * K \in Int /\ D * K \in Int /\ A * K \in Int /\ s * K \in Int
        /\ s * K - A * K = q * M + S * K
    <2>1. s * K - A * K = (s - A) * K
      BY <1>1, <1>2, <1>3
    <2>2. (q * N + S) * K = q * (N * K) + S * K
      BY <1>1, <1>6
    <2>3. QED
      BY <1>1, <1>2, <1>3, <1>5, <1>6, <2>1, <2>2
  <1> HIDE DEF N, M
  <1>10. ASSUME NEW d \in Int, S * K + d - Rest(a) \in 0 .. M - 1
         PROVE  InSector(zone, s * K + d) <=> S * K + d - Rest(a) <= W
    <2> DEFINE x == s * K + d
               r == S * K + d - Rest(a)
    <2>1. q * M \in Int
      BY <1>1, <1>6
    <2>2. x - a = q * M + r /\ x \in Int
      BY <1>2, <1>3, <1>9, <2>1
    <2>3. r \in 0 .. M - 1 /\ M \in Nat \ {0}
      BY <1>1, <1>10
    <2> SUFFICES InSector(zone, x) <=> r <= W
      OBVIOUS
    <2> HIDE DEF x, r
    <2>4. (q * M + r) % M = r
      BY <1>6, <2>3, Remainder
    <2>5. QED
      BY <1>8, <2>2, <2>4
  <1>11. S > 0 => K <= S * K /\ S * K - Rest(a) \in 1 .. M - 1
    <2> SUFFICES ASSUME S > 0 PROVE K <= S * K /\ S * K - Rest(a) \in 1 .. M - 1
      OBVIOUS
    <2>1. 0 * K + K <= S * K
      BY <1>1, <1>6, TimesStrict
    <2>2. S * K + K <= M
      BY <1>1, <1>6, TimesStrict DEF M
    <2>3. QED
      BY <1>1, <1>3, <1>9, <2>1, <2>2
  <1>12. ASSUME InSector(zone, s * K) PROVE S <= D
    <2>1. CASE S = 0
      BY <1>5, <2>1
    <2>2. CASE S > 0
      <3>1. s * K + 0 = s * K /\ S * K + 0 - Rest(a) = S * K - Rest(a)
        BY <1>3, <1>9
      <3>2. S * K - Rest(a) <= W
        BY <1>10, <1>11, <1>12, <2>2, <3>1
      <3>3. ASSUME D < S PROVE FALSE
        <4>1. D * K + K <= S * K
          BY <1>1, <1>5, <1>6, <3>3, TimesStrict
        <4>2. QED
          BY <1>1, <1>3, <1>4, <1>5, <1>9, <3>2, <4>1
      <3>4. QED
        BY <1>5, <1>6, <3>3
    <2>3. QED
      BY <1>6, <2>1, <2>2
  <1>13. ASSUME S <= D
         PROVE  \E d \in -(K - 1) .. K - 1 : InSector(zone, s * K + d)
    <2>1. CASE S = 0
      <3>1. S * K + Rest(a) - Rest(a) = 0
        BY <1>1, <1>3, <2>1
      <3>2. InSector(zone, s * K + Rest(a))
        BY <1>1, <1>3, <1>5, <1>10, <3>1
      <3>3. QED
        BY <1>3, <3>2
    <2>2. CASE S = D
      <3>1. S * K + Rest(b) - Rest(a) = W
        BY <1>5, <2>2
      <3>2. InSector(zone, s * K + Rest(b))
        BY <1>4, <1>5, <1>10, <3>1
      <3>3. QED
        BY <1>4, <3>2
    <2>3. CASE S > 0 /\ S < D
      <3>1. S * K + K <= D * K
        BY <1>1, <1>5, <1>6, <2>3, TimesStrict
      <3>2. S * K + 0 - Rest(a) <= W
        BY <1>1, <1>3, <1>4, <1>5, <1>9, <3>1
      <3>3. S * K + 0 - Rest(a) \in 0 .. M - 1
        BY <1>1, <1>3, <1>9, <1>11, <2>3
      <3>4. InSector(zone, s * K + 0)
        BY <1>10, <3>2, <3>3
      <3>5. 0 \in -(K - 1) .. K - 1
        BY <1>1
      <3>6. QED
        BY <3>4, <3>5
    <2>4. QED
      BY <1>5, <1>6, <1>13, <2>1, <2>2, <2>3
  <1>14. QED
    BY <1>12, <1>13

\* The spokes of a zone whose angles become spokes by a cast and the remainder.
LEMMA CastCovers ==
  ASSUME NEW a \in Angles, NEW b \in Angles, zone = Sector(a, b),
         Width(zone) < Steps - 2 * (StepsPerSpoke - 1), NEW internal,
         internal.start_spoke = Truncated(a) % SpokesPerRevolution,
         internal.end_spoke = Truncated(b) % SpokesPerRevolution
  PROVE  Covers(internal)
  <1>1. Truncated(a) \in Int /\ Truncated(b) \in Int
    BY CastIsBounded, CastIsSmall
  <1>2. ASSUME NEW s \in Spokes
        PROVE  /\ InSector(zone, s * StepsPerSpoke) => in_angle(internal, s)
               /\ in_angle(internal, s) =>
                     \E d \in -(StepsPerSpoke - 1) .. StepsPerSpoke - 1 :
                         InSector(zone, s * StepsPerSpoke + d)
    BY <1>1, InAngle, SpokeOfSector
  <1>3. QED
    BY <1>2, Zenon DEF Covers

\* An exclusion zone covers the spokes of its sector, and at most one more at either
\* end, for any number of spokes and any resolution of its angles, negative ones
\* and sectors across the bow included, if it leaves two spokes out; so does a
\* guard zone without negative angles (zone_to_internal, to_internal, in_angle).
THEOREM ZonesAlwaysCover == GeometrySpec => []ZonesCoverTheirSector
  <1> DEFINE I == \E a, b \in Angles : zone = Sector(a, b)
  <1>1. GeometryInit => I
    <2>1. 0 \in Angles
      <3>1. Steps \in Nat
        BY ZonesAssumption, CircleAssumption DEF Steps
      <3>2. QED
        BY <3>1 DEF Angles
    <2>2. QED
      BY <2>1, Zenon DEF GeometryInit
  <1>2. I /\ [GeometryNext]_geometryVars => I'
    <2>1. Angles' = Angles
      OBVIOUS
    <2>2. SetSector => I'
      BY DEF SetSector, Sector
    <2>3. AddTarget \/ MergeTargets \/ Touch \/ UNCHANGED geometryVars => zone' = zone
      BY Zenon DEF AddTarget, MergeTargets, Touch, geometryVars
    <2>4. I /\ zone' = zone => I'
      BY DEF Sector
    <2>5. QED
      BY <2>2, <2>3, <2>4, Zenon DEF GeometryNext
  <1>3. I => ZonesCoverTheirSector
    <2> SUFFICES ASSUME I, Width(zone) < Steps - 2 * (StepsPerSpoke - 1)
                 PROVE  /\ Covers(zone_to_internal(zone, 1, 1))
                        /\ zone.start_angle >= 0 /\ zone.end_angle >= 0 =>
                              Covers(guard_to_internal(zone, 1, 1))
      BY Zenon DEF ZonesCoverTheirSector
    <2>1. PICK a, b \in Angles : zone = Sector(a, b)
      OBVIOUS
    <2>2. zone.start_angle = a /\ zone.end_angle = b
      BY <2>1 DEF Sector
    <2>3. Covers(zone_to_internal(zone, 1, 1))
      <3> DEFINE z == zone_to_internal(zone, 1, 1)
      <3>1. /\ z.start_spoke = Truncated(a) % SpokesPerRevolution
            /\ z.end_spoke = Truncated(b) % SpokesPerRevolution
        BY <2>2 DEF zone_to_internal, exclusion_spoke
      <3> HIDE DEF z
      <3>2. Covers(z)
        BY <2>1, <3>1, CastCovers
      <3>3. QED
        BY <3>2 DEF z
    <2>4. ASSUME a >= 0, b >= 0 PROVE Covers(guard_to_internal(zone, 1, 1))
      <3> DEFINE z == guard_to_internal(zone, 1, 1)
      <3>1. a \in Int /\ b \in Int
        BY CastIsBounded
      <3>2. /\ z.start_spoke = Truncated(a) % SpokesPerRevolution
            /\ z.end_spoke = Truncated(b) % SpokesPerRevolution
        BY <2>2, <2>4, <3>1 DEF guard_to_internal, guard_spoke
      <3> HIDE DEF z
      <3>3. Covers(z)
        BY <2>1, <3>2, CastCovers
      <3>4. QED
        BY <3>3 DEF z
    <2>5. QED
      BY <2>2, <2>3, <2>4
  <1>4. QED
    BY <1>1, <1>2, <1>3, PTL DEF GeometrySpec

-------------------------------------------------------------------------------
\* The arc of a blob.

\* The least and the greatest spoke of a blob.
LEMMA MinOf ==
  ASSUME NEW S \in SUBSET Nat, S # {}
  PROVE  Min(S) \in S /\ \A x \in S : Min(S) <= x
  BY LeastExists, Zenon DEF Min

LEMMA MaxOf ==
  ASSUME NEW n \in Nat, NEW S \in SUBSET (0 .. n), S # {}
  PROVE  Max(S) \in S /\ \A x \in S : Max(S) >= x
  <1> DEFINE R == {n - x : x \in S}
  <1>1. R \in SUBSET Nat /\ R # {}
    <2>1. \A x \in S : n - x \in Nat
      <3>1. \A x \in S : x \in 0 .. n
        OBVIOUS
      <3>2. QED
        BY <3>1
    <2>2. \A y \in R : y \in Nat
      BY <2>1, Zenon
    <2>3. R # {}
      BY Zenon
    <2> HIDE DEF R
    <2>4. QED
      BY <2>2, <2>3, Zenon
  <1>2. PICK r \in R : \A y \in R : r <= y
    <2> HIDE DEF R
    <2>1. QED
      BY <1>1, LeastExists
  <1>3. PICK m \in S : r = n - m
    OBVIOUS
  <1>4. \A x \in S : m >= x
    <2> SUFFICES ASSUME NEW x \in S PROVE m >= x
      OBVIOUS
    <2>1. n - m <= n - x
      BY <1>2, <1>3
    <2>2. QED
      BY <2>1
  <1>5. \E x \in S : \A y \in S : x >= y
    BY <1>4
  <1>6. QED
    BY <1>5, Zenon DEF Max

LEMMA SpokesAreNumbers ==
  ASSUME NEW T \in SUBSET Spokes
  PROVE  /\ SpokesPerRevolution \in Nat \ {0} /\ SpokesPerRevolution - 1 \in Nat
         /\ \A t \in T : t \in 0 .. SpokesPerRevolution - 1
  BY CircleAssumption DEF Spokes

\* The next spoke of a blob after one that is not its last.
LEMMA NextOf ==
  ASSUME NEW T \in SUBSET Spokes, NEW s \in T, s # Max(T)
  PROVE  /\ NextSpoke(T, s) \in T /\ NextSpoke(T, s) > s
         /\ \A t \in T : t > s => NextSpoke(T, s) <= t
         /\ GapAfter(T, s) = NextSpoke(T, s) - s - 1
         /\ GapAfter(T, s) \in 0 .. SpokesPerRevolution - 1
  <1> DEFINE R == {t \in T : t > s}
             N == SpokesPerRevolution
  <1>1. N \in Nat \ {0} /\ N - 1 \in Nat /\ \A t \in T : t \in 0 .. N - 1
    BY SpokesAreNumbers
  <1>2. Max(T) \in T /\ Max(T) >= s
    <2>1. T \in SUBSET (0 .. N - 1)
      BY DEF Spokes
    <2>2. QED
      BY <1>1, <2>1, MaxOf, Zenon
  <1>3. Max(T) > s
    <2>1. s \in 0 .. N - 1 /\ Max(T) \in 0 .. N - 1
      BY <1>1, <1>2, Zenon
    <2>2. QED
      BY <1>1, <1>2, <2>1
  <1>4. R \in SUBSET Nat /\ R # {}
    <2>1. \A t \in R : t \in Nat
      BY <1>1
    <2>2. R # {}
      BY <1>2, <1>3, Zenon
    <2> HIDE DEF R
    <2>3. QED
      BY <2>1, <2>2, Zenon
  <1>5. Min(R) \in R /\ \A x \in R : Min(R) <= x
    <2> HIDE DEF R
    <2>1. QED
      BY <1>4, MinOf, Zenon
  <1>6. NextSpoke(T, s) = Min(R)
    BY DEF NextSpoke
  <1>7. NextSpoke(T, s) \in T /\ NextSpoke(T, s) > s /\ \A t \in T : t > s => NextSpoke(T, s) <= t
    BY <1>5, <1>6
  <1> HIDE DEF N
  <1>8. NextSpoke(T, s) \in 0 .. N - 1 /\ s \in 0 .. N - 1
    BY <1>1, <1>7, Zenon
  <1>9. NextSpoke(T, s) - s - 1 \in 0 .. N - 1
    BY <1>1, <1>7, <1>8
  <1>10. QED
    BY <1>7, <1>9, Zenon DEF GapAfter, N

\* The gap across spoke 0.
LEMMA WrapOf ==
  ASSUME NEW T \in SUBSET Spokes, T # {}
  PROVE  /\ Min(T) \in T /\ \A x \in T : Min(T) <= x
         /\ Max(T) \in T /\ \A x \in T : Max(T) >= x
         /\ WrapGap(T) \in 0 .. SpokesPerRevolution - 1
         /\ WrapGap(T) = SpokesPerRevolution - Max(T) + Min(T) - 1
  <1> DEFINE N == SpokesPerRevolution
  <1>1. N \in Nat \ {0} /\ N - 1 \in Nat /\ \A t \in T : t \in 0 .. N - 1
    BY SpokesAreNumbers
  <1>2. Min(T) \in T /\ \A x \in T : Min(T) <= x
    <2>1. T \in SUBSET Nat
      BY <1>1
    <2>2. QED
      BY <2>1, MinOf, Zenon
  <1>3. Max(T) \in T /\ \A x \in T : Max(T) >= x
    <2>1. T \in SUBSET (0 .. N - 1)
      BY DEF Spokes
    <2>2. QED
      BY <1>1, <2>1, MaxOf, Zenon
  <1> HIDE DEF N
  <1>4. Min(T) <= Max(T) /\ Min(T) \in 0 .. N - 1 /\ Max(T) \in 0 .. N - 1
    BY <1>1, <1>2, <1>3, Zenon
  <1>5. N - Max(T) + Min(T) - 1 \in 0 .. N - 1
    BY <1>1, <1>4
  <1>6. QED
    BY <1>2, <1>3, <1>5, Zenon DEF WrapGap, N

\* Where the largest of the gaps between the spokes is.
LEMMA LargestGap ==
  ASSUME NEW T \in SUBSET Spokes, NEW e \in T, e # Max(T)
  PROVE  \E s \in T \ {Max(T)} :
            /\ \A t \in T \ {Max(T)} : GapAfter(T, t) <= GapAfter(T, s)
            /\ LargestInnerGap(T).gap = GapAfter(T, s)
            /\ LargestInnerGap(T).start =
                  IF GapAfter(T, s) > 0 THEN NextSpoke(T, s) ELSE Min(T)
  <1> DEFINE N == SpokesPerRevolution
             inner == T \ {Max(T)}
             gaps == {GapAfter(T, t) : t \in inner}
             G == Max(gaps)
             widest == {t \in inner : GapAfter(T, t) = G}
             Before(s) ==
                 \A t \in inner :
                     \/ GapAfter(T, t) < GapAfter(T, s)
                     \/ GapAfter(T, t) = GapAfter(T, s) /\ s <= t
  <1>1. N - 1 \in Nat /\ \A t \in inner : t \in 0 .. N - 1
    BY SpokesAreNumbers
  <1>2. \A t \in inner : GapAfter(T, t) \in 0 .. N - 1
    BY NextOf
  <1>3. gaps \in SUBSET (0 .. N - 1) /\ gaps # {}
    BY <1>2
  <1>4. G \in gaps /\ \A x \in gaps : G >= x
    <2> HIDE DEF gaps
    <2>1. QED
      BY <1>1, <1>3, MaxOf, ZenonT(40)
  <1>5. G \in Int /\ \A t \in inner : GapAfter(T, t) <= G
    BY <1>2, <1>3, <1>4
  <1>6. widest \in SUBSET Nat /\ widest # {}
    <2>1. \A t \in widest : t \in Nat
      BY <1>1
    <2>2. widest # {}
      BY <1>4, Zenon
    <2> HIDE DEF widest
    <2>3. QED
      BY <2>1, <2>2, Zenon
  <1>7. PICK s \in widest : \A t \in widest : s <= t
    <2> HIDE DEF widest
    <2>1. QED
      BY <1>6, LeastExists
  <1>8. s \in inner /\ GapAfter(T, s) = G
    OBVIOUS
  <1>9. Before(s)
    <2>1. ASSUME NEW t \in inner
          PROVE  \/ GapAfter(T, t) < GapAfter(T, s)
                 \/ GapAfter(T, t) = GapAfter(T, s) /\ s <= t
      <3>1. CASE GapAfter(T, t) = G
        BY <1>7, <1>8, <3>1
      <3>2. CASE GapAfter(T, t) # G
        <4> HIDE DEF G, inner
        <4>1. QED
          BY <1>2, <1>5, <1>8, <3>2
      <3>3. QED
        BY <3>1, <3>2
    <2> HIDE DEF inner
    <2>2. QED
      BY <2>1
  <1> DEFINE before == CHOOSE x \in inner : Before(x)
  <1>10. before \in inner /\ Before(before)
    <2> HIDE DEF Before, inner
    <2>1. QED
      BY <1>8, <1>9, Zenon
  <1>11. /\ LargestInnerGap(T).gap = GapAfter(T, before)
         /\ LargestInnerGap(T).start =
               IF GapAfter(T, before) > 0 THEN NextSpoke(T, before) ELSE Min(T)
    <2>1. LargestInnerGap(T) =
             [gap |-> GapAfter(T, before),
              start |-> IF GapAfter(T, before) > 0 THEN NextSpoke(T, before) ELSE Min(T)]
      BY DEF LargestInnerGap
    <2> HIDE DEF before
    <2>2. QED
      BY <2>1
  <1> HIDE DEF before
  <1>12. \A t \in inner : GapAfter(T, t) <= GapAfter(T, before)
    BY <1>2, <1>10
  <1>13. QED
    BY <1>10, <1>11, <1>12

\* The spoke k further than start, around the circle.
LEMMA OnArc ==
  ASSUME NEW start \in Spokes, NEW t \in Spokes, NEW extent \in 1 .. SpokesPerRevolution,
         NEW k \in 0 .. extent - 1, start + k = t \/ start + k = t + SpokesPerRevolution
  PROVE  t \in ArcFrom(start, extent)
  <1> DEFINE N == SpokesPerRevolution
  <1>1. N \in Nat \ {0} /\ start \in 0 .. N - 1 /\ t \in 0 .. N - 1
    BY CircleAssumption DEF Spokes
  <1> HIDE DEF N
  <1>2. (start + k) % N = t
    <2>1. CASE start + k = t
      <3>1. (0 * N + t) % N = t /\ 0 * N + t = t
        BY <1>1, Remainder
      <3>2. QED
        BY <2>1, <3>1
    <2>2. CASE start + k = t + N
      <3>1. (1 * N + t) % N = t /\ 1 * N + t = t + N
        BY <1>1, Remainder
      <3>2. QED
        BY <2>2, <3>1
    <2>3. QED
      BY <2>1, <2>2 DEF N
  <1>3. QED
    BY <1>2 DEF ArcFrom, N

\* What from_blob gives for a blob of more than one spoke: the arc that leaves out
\* a gap G, the largest, and starts after it.
IsArcOf(T, arc, G, start) ==
    /\ arc = Arc(SpokesPerRevolution - G, start)
    /\ start \in Spokes
    /\ G \in 0 .. SpokesPerRevolution - 1
    /\ WrapGap(T) <= G
    /\ \A t \in T \ {Max(T)} : GapAfter(T, t) <= G
    /\ T \subseteq ArcFrom(start, SpokesPerRevolution - G)

\* After the gap across spoke 0, the arc starts at the first spoke.
LEMMA ArcFromFirst ==
  ASSUME NEW T \in SUBSET Spokes, T # {}
  PROVE  /\ Min(T) \in Spokes
         /\ T \subseteq ArcFrom(Min(T), SpokesPerRevolution - WrapGap(T))
  <1> DEFINE N == SpokesPerRevolution
             W == WrapGap(T)
  <1>1. /\ Min(T) \in T /\ \A x \in T : Min(T) <= x
        /\ Max(T) \in T /\ \A x \in T : Max(T) >= x
        /\ W \in 0 .. N - 1 /\ W = N - Max(T) + Min(T) - 1
    BY WrapOf
  <1>2. N \in Nat \ {0} /\ \A t \in T : t \in 0 .. N - 1
    BY SpokesAreNumbers
  <1>3. ASSUME NEW t \in T
        PROVE  t \in ArcFrom(Min(T), N - W)
    <2>1. /\ t \in 0 .. N - 1 /\ Min(T) \in 0 .. N - 1 /\ Max(T) \in 0 .. N - 1
          /\ Min(T) <= t /\ t <= Max(T)
      BY <1>1, <1>2
    <2> HIDE DEF W, N
    <2>2. N - W \in 1 .. N /\ t - Min(T) \in 0 .. (N - W) - 1 /\ Min(T) + (t - Min(T)) = t
      BY <1>1, <1>2, <2>1
    <2>3. Min(T) \in Spokes /\ t \in Spokes
      BY <1>1
    <2>4. QED
      BY <2>2, <2>3, OnArc DEF N
  <1>4. QED
    BY <1>1, <1>3

\* After a gap between two spokes, it starts at the second.
LEMMA ArcFromNext ==
  ASSUME NEW T \in SUBSET Spokes, NEW s \in T, s # Max(T)
  PROVE  /\ NextSpoke(T, s) \in Spokes
         /\ T \subseteq ArcFrom(NextSpoke(T, s), SpokesPerRevolution - GapAfter(T, s))
  <1> DEFINE N == SpokesPerRevolution
             u == NextSpoke(T, s)
             g == GapAfter(T, s)
  <1>1. /\ u \in T /\ u > s /\ \A t \in T : t > s => u <= t
        /\ g = u - s - 1 /\ g \in 0 .. N - 1
    BY NextOf
  <1>2. N \in Nat \ {0} /\ \A t \in T : t \in 0 .. N - 1
    BY SpokesAreNumbers
  <1>3. ASSUME NEW t \in T
        PROVE  t \in ArcFrom(u, N - g)
    <2>1. /\ t \in 0 .. N - 1 /\ u \in 0 .. N - 1 /\ s \in 0 .. N - 1
          /\ t <= s \/ u <= t
      BY <1>1, <1>2
    <2>2. u \in Spokes /\ t \in Spokes
      BY <1>1
    <2> HIDE DEF u, g, N
    <2>3. N - g \in 1 .. N
      BY <1>1, <1>2
    <2>4. CASE u <= t
      <3>1. t - u \in 0 .. (N - g) - 1 /\ u + (t - u) = t
        BY <1>1, <1>2, <2>1, <2>4
      <3>2. QED
        BY <2>2, <2>3, <3>1, OnArc DEF N
    <2>5. CASE t <= s
      <3>1. t - u + N \in 0 .. (N - g) - 1 /\ u + (t - u + N) = t + N
        BY <1>1, <1>2, <2>1, <2>5
      <3>2. QED
        BY <2>2, <2>3, <3>1, OnArc DEF N
    <2>6. QED
      BY <2>1, <2>4, <2>5
  <1>4. QED
    BY <1>1, <1>3

\* from_blob takes one of the largest gaps.
LEMMA FromBlob ==
  ASSUME NEW T \in SUBSET Spokes, T # {}, Cardinality(T) # 1, NEW e \in T, e # Max(T)
  PROVE  \E G, start : IsArcOf(T, from_blob(T), G, start)
  <1> DEFINE N == SpokesPerRevolution
             W == WrapGap(T)
             I == LargestInnerGap(T)
  <1>1. PICK s \in T \ {Max(T)} :
            /\ \A t \in T \ {Max(T)} : GapAfter(T, t) <= GapAfter(T, s)
            /\ I.gap = GapAfter(T, s)
            /\ I.start = IF GapAfter(T, s) > 0 THEN NextSpoke(T, s) ELSE Min(T)
    BY LargestGap
  <1> DEFINE g == GapAfter(T, s)
  <1>2. W \in 0 .. N - 1
    BY WrapOf
  <1>3. \A t \in T \ {Max(T)} : GapAfter(T, t) \in 0 .. N - 1
    BY NextOf
  <1>4. g \in 0 .. N - 1
    BY <1>3
  <1>5. Min(T) \in Spokes /\ T \subseteq ArcFrom(Min(T), N - W)
    BY ArcFromFirst
  <1>6. NextSpoke(T, s) \in Spokes /\ T \subseteq ArcFrom(NextSpoke(T, s), N - g)
    BY ArcFromNext
  <1>7. from_blob(T) = IF W > I.gap THEN Arc(N - W, Min(T)) ELSE Arc(N - I.gap, I.start)
    BY Zenon DEF from_blob
  <1> HIDE DEF N, W, I, g
  <1>8. CASE W > g
    <2>1. from_blob(T) = Arc(N - W, Min(T))
      BY <1>1, <1>7, <1>8 DEF g
    <2>2. \A t \in T \ {Max(T)} : GapAfter(T, t) <= W
      BY <1>1, <1>2, <1>3, <1>4, <1>8 DEF g
    <2>3. W <= W
      BY <1>2
    <2>4. IsArcOf(T, from_blob(T), W, Min(T))
      BY <1>2, <1>5, <2>1, <2>2, <2>3, Zenon DEF IsArcOf, W, N
    <2>5. QED
      BY <2>4, Zenon
  <1>9. CASE ~(W > g)
    <2>1. W <= g
      BY <1>2, <1>4, <1>9
    <2>2. from_blob(T) = Arc(N - g, I.start)
      BY <1>1, <1>7, <1>9 DEF g
    <2>3. I.start \in Spokes /\ T \subseteq ArcFrom(I.start, N - g)
      <3>1. CASE g > 0
        BY <1>1, <1>6, <3>1 DEF g
      <3>2. CASE ~(g > 0)
        <4>1. g = W /\ I.start = Min(T)
          BY <1>1, <1>2, <1>4, <2>1, <3>2 DEF g
        <4>2. QED
          BY <1>5, <4>1
      <3>3. QED
        BY <3>1, <3>2
    <2>4. \A t \in T \ {Max(T)} : GapAfter(T, t) <= g
      BY <1>1, Zenon DEF g
    <2>5. IsArcOf(T, from_blob(T), g, I.start)
      BY <1>4, <2>1, <2>2, <2>3, <2>4, Zenon DEF IsArcOf, W, N
    <2>6. QED
      BY <2>5, Zenon
  <1>10. QED
    BY <1>8, <1>9

\* Every spoke of a blob has another, or itself, a gap and one further.
LEMMA Successor ==
  ASSUME NEW T \in SUBSET Spokes, NEW arc, NEW G, NEW start, IsArcOf(T, arc, G, start),
         NEW t \in T
  PROVE  \E u \in T, g \in 0 .. G :
            t + g + 1 = u \/ t + g + 1 = u + SpokesPerRevolution
  <1> DEFINE N == SpokesPerRevolution
  <1>1. N \in Nat \ {0} /\ \A x \in T : x \in 0 .. N - 1
    BY SpokesAreNumbers
  <1>2. G \in 0 .. N - 1 /\ WrapGap(T) <= G /\ \A x \in T \ {Max(T)} : GapAfter(T, x) <= G
    BY Zenon DEF IsArcOf
  <1>3. CASE t = Max(T)
    <2>1. Min(T) \in T /\ WrapGap(T) \in 0 .. N - 1 /\ WrapGap(T) = N - t + Min(T) - 1
      BY <1>3, WrapOf
    <2>2. Min(T) \in 0 .. N - 1 /\ t \in 0 .. N - 1
      BY <1>1, <2>1
    <2> HIDE DEF N
    <2>3. WrapGap(T) \in 0 .. G /\ t + WrapGap(T) + 1 = Min(T) + N
      BY <1>1, <1>2, <2>1, <2>2
    <2>4. QED
      BY <2>1, <2>3 DEF N
  <1>4. CASE t # Max(T)
    <2>1. /\ NextSpoke(T, t) \in T /\ GapAfter(T, t) = NextSpoke(T, t) - t - 1
          /\ GapAfter(T, t) \in 0 .. N - 1
      BY <1>4, NextOf
    <2>2. NextSpoke(T, t) \in 0 .. N - 1 /\ t \in 0 .. N - 1
      BY <1>1, <2>1
    <2>3. GapAfter(T, t) <= G
      BY <1>2, <1>4, Zenon
    <2> HIDE DEF N
    <2>4. GapAfter(T, t) \in 0 .. G /\ t + GapAfter(T, t) + 1 = NextSpoke(T, t)
      BY <1>1, <1>2, <2>1, <2>2, <2>3
    <2>5. QED
      BY <2>1, <2>4
  <1>5. QED
    BY <1>3, <1>4

\* An arc that leaves out more than the largest gap does not cover the blob: the
\* spoke of the blob that is the furthest along the arc has a successor, further
\* along and still on it.
LEMMA NoShorterArc ==
  ASSUME NEW T \in SUBSET Spokes, T # {}, NEW arc, NEW G, NEW start, IsArcOf(T, arc, G, start),
         NEW first \in Spokes, NEW extent \in 1 .. SpokesPerRevolution - G - 1,
         T \subseteq ArcFrom(first, extent)
  PROVE  FALSE
  <1> DEFINE N == SpokesPerRevolution
             Along(k) == (first + k) % N
             steps == {k \in 0 .. extent - 1 : Along(k) \in T}
  <1>1. N \in Nat \ {0} /\ \A x \in T : x \in 0 .. N - 1
    BY SpokesAreNumbers
  <1>2. G \in 0 .. N - 1 /\ first \in 0 .. N - 1
    BY DEF IsArcOf, Spokes
  <1>3. extent - 1 \in Nat /\ extent + G < N
    BY <1>1, <1>2
  <1>4. \A t \in T : \E k \in 0 .. extent - 1 : t = Along(k)
    BY DEF ArcFrom
  <1>5. steps \in SUBSET (0 .. extent - 1) /\ steps # {}
    BY <1>4
  <1>6. PICK k \in steps : \A j \in steps : k >= j
    <2> HIDE DEF steps
    <2>1. Max(steps) \in steps /\ \A j \in steps : Max(steps) >= j
      BY <1>3, <1>5, MaxOf, ZenonT(40)
    <2>2. QED
      BY <2>1
  <1>7. k \in 0 .. extent - 1 /\ Along(k) \in T
    OBVIOUS
  <1>8. PICK u \in T, g \in 0 .. G : Along(k) + g + 1 = u \/ Along(k) + g + 1 = u + N
    BY <1>7, Successor
  <1>9. PICK j \in 0 .. extent - 1 : u = Along(j)
    BY <1>4
  <1>10. j \in steps
    BY <1>9
  <1>11. j <= k
    BY <1>6, <1>10
  \* As numbers: both are first and their steps, less the revolution if past it.
  <1>12. \A i \in 0 .. extent - 1 : Along(i) = first + i \/ Along(i) = first + i - N
    <2> HIDE DEF N
    <2> SUFFICES ASSUME NEW i \in 0 .. extent - 1
                 PROVE  (first + i) % N = first + i \/ (first + i) % N = first + i - N
      OBVIOUS
    <2>1. CASE first + i < N
      <3>1. (0 * N + (first + i)) % N = first + i /\ 0 * N + (first + i) = first + i
        BY <1>1, <1>2, <2>1, Remainder
      <3>2. QED
        BY <3>1
    <2>2. CASE ~(first + i < N)
      <3> DEFINE r == first + i - N
      <3>1. r \in 0 .. N - 1 /\ 1 * N + r = first + i
        BY <1>1, <1>2, <1>3, <2>2
      <3> HIDE DEF r
      <3>2. (1 * N + r) % N = r
        BY <1>1, <3>1, Remainder
      <3>3. QED
        BY <3>1, <3>2 DEF r
    <2>3. QED
      BY <2>1, <2>2
  <1>13. u \in 0 .. N - 1 /\ Along(k) \in 0 .. N - 1
    BY <1>1, <1>7
  <1> HIDE DEF N, Along, steps
  <1>14. u = first + j \/ u = first + j - N
    BY <1>9, <1>12
  <1>15. Along(k) = first + k \/ Along(k) = first + k - N
    BY <1>7, <1>12
  <1>16. QED
    BY <1>1, <1>2, <1>3, <1>7, <1>8, <1>9, <1>11, <1>13, <1>14, <1>15

\* A blob of one spoke, or of more.
LEMMA OneOrMore ==
  ASSUME NEW T \in SUBSET Spokes, T # {}
  PROVE  \/ Cardinality(T) = 1 /\ T = {Min(T)}
         \/ Cardinality(T) # 1 /\ \E e \in T : e # Max(T)
  <1>1. IsFiniteSet(T)
    <2>1. IsFiniteSet(Spokes)
      BY CircleAssumption, FS_Interval DEF Spokes
    <2>2. QED
      BY <2>1, FS_Subset
  <1>2. Min(T) \in T /\ Max(T) \in T
    BY WrapOf
  <1>3. CASE Cardinality(T) = 1
    <2>1. PICK x : T = {x}
      BY <1>1, <1>3, FS_Singleton
    <2>2. QED
      BY <1>2, <1>3, <2>1
  <1>4. CASE Cardinality(T) # 1
    <2>1. ASSUME \A e \in T : e = Max(T) PROVE FALSE
      <3>1. T = {Max(T)}
        BY <1>2, <2>1
      <3>2. Cardinality({Max(T)}) = 1
        BY FS_Singleton
      <3>3. QED
        BY <1>4, <3>1, <3>2
    <2>2. QED
      BY <1>4, <2>1
  <1>5. QED
    BY <1>3, <1>4

\* The arc of a blob of more than one spoke.
LEMMA ArcOfMany ==
  ASSUME NEW T \in SUBSET Spokes, T # {}, NEW arc, NEW G, NEW from, IsArcOf(T, arc, G, from)
  PROVE  /\ \E start \in Spokes :
               /\ T \subseteq ArcFrom(start, arc.extent)
               /\ arc.center = (start + arc.extent \div 2) % SpokesPerRevolution
         /\ \A start \in Spokes, extent \in 1 .. arc.extent - 1 :
               ~(T \subseteq ArcFrom(start, extent))
  <1> DEFINE L == SpokesPerRevolution - G
  <1>1. arc = Arc(L, from) /\ from \in Spokes /\ T \subseteq ArcFrom(from, L)
    BY Zenon DEF IsArcOf
  <1>2. arc.extent = L /\ arc.center = (from + L \div 2) % SpokesPerRevolution
    BY <1>1 DEF Arc
  <1>3. \A start \in Spokes, extent \in 1 .. L - 1 : ~(T \subseteq ArcFrom(start, extent))
    BY NoShorterArc, Zenon
  <1> HIDE DEF L
  <1>4. QED
    BY <1>1, <1>2, <1>3, Zenon

\* The arc of a blob of one spoke.
LEMMA ArcOfOne ==
  ASSUME NEW t \in Spokes
  PROVE  t \in ArcFrom(t, 1) /\ t = (t + 1 \div 2) % SpokesPerRevolution
  <1> DEFINE N == SpokesPerRevolution
  <1>1. N \in Nat \ {0} /\ t \in 0 .. N - 1
    BY CircleAssumption DEF Spokes
  <1>2. 1 \in 1 .. N /\ 0 \in 0 .. 1 - 1 /\ t + 0 = t
    BY <1>1
  <1>3. t \in ArcFrom(t, 1)
    BY <1>2, OnArc
  <1> HIDE DEF N
  <1>4. (0 * N + t) % N = t /\ 0 * N + t = t
    BY <1>1, Remainder
  <1>5. t + 1 \div 2 = t
    BY <1>1
  <1>6. QED
    BY <1>3, <1>4, <1>5 DEF N

\* "The smallest circular arc on the spoke domain that covers every spoke a blob
\* touches": from_blob computes it for every blob and any number of spokes.
THEOREM ArcAlwaysSmallest == GeometrySpec => []ArcIsSmallest
  <1> DEFINE I == touched \in SUBSET Spokes
  <1>1. GeometryInit => I
    BY DEF GeometryInit
  <1>2. I /\ [GeometryNext]_geometryVars => I'
    <2>1. Spokes' = Spokes
      BY DEF Spokes
    <2>2. Touch /\ I => I'
      BY <2>1 DEF Touch
    <2>3. AddTarget \/ MergeTargets \/ SetSector \/ UNCHANGED geometryVars => touched' = touched
      BY Zenon DEF AddTarget, MergeTargets, SetSector, geometryVars
    <2>4. QED
      BY <2>1, <2>2, <2>3, Zenon DEF GeometryNext
  <1>3. I => ArcIsSmallest
    <2> SUFFICES ASSUME I, touched # {} PROVE ArcIsSmallest
      BY DEF ArcIsSmallest
    <2> DEFINE arc == from_blob(touched)
    <2>1. /\ \E start \in Spokes :
                /\ touched \subseteq ArcFrom(start, arc.extent)
                /\ arc.center = (start + arc.extent \div 2) % SpokesPerRevolution
          /\ \A start \in Spokes, extent \in 1 .. arc.extent - 1 :
                ~(touched \subseteq ArcFrom(start, extent))
      <3>1. CASE Cardinality(touched) = 1 /\ touched = {Min(touched)}
        <4> DEFINE t == Min(touched)
        <4>1. t \in Spokes /\ touched = {t}
          BY <3>1
        <4>2. arc = [extent |-> 1, center |-> t]
          BY <3>1, Zenon DEF from_blob
        <4> HIDE DEF t, arc
        <4>3. arc.extent = 1 /\ arc.center = t
          BY <4>2
        <4>4. touched \subseteq ArcFrom(t, 1) /\ t = (t + 1 \div 2) % SpokesPerRevolution
          BY <4>1, ArcOfOne
        <4>5. 1 .. 1 - 1 = {}
          OBVIOUS
        <4>6. QED
          BY <4>1, <4>3, <4>4, <4>5, Zenon
      <3>2. CASE Cardinality(touched) # 1 /\ \E e \in touched : e # Max(touched)
        <4>1. PICK G, from : IsArcOf(touched, arc, G, from)
          BY <3>2, FromBlob
        <4> HIDE DEF arc
        <4>2. QED
          BY <4>1, ArcOfMany, ZenonT(40)
      <3>3. QED
        BY <3>1, <3>2, OneOrMore
    <2>2. QED
      BY <2>1, Zenon DEF ArcIsSmallest
  <1>4. QED
    BY <1>1, <1>2, <1>3, PTL DEF GeometrySpec

-------------------------------------------------------------------------------
\* The heading that radars write back.

\* Units of a spoke.
Unit(r) == Revolution \div SpokesOf(r)

\* A ship as HeadingIsKept wants it.
Nested ==
    /\ "furuno" \notin fleet
    /\ \A r, q \in fleet : \/ Divides(SpokesOf(r), SpokesOf(q))
                           \/ Divides(SpokesOf(q), SpokesOf(r))

\* What the last sensor said, truncated to a spoke of one of the radars.
Truncates(h) == \E r \in fleet : h = Unit(r) * (told \div Unit(r))

\* HEADING_TRUE is what the last sensor said, or that truncated once, and the
\* last spoke with a bearing, if any since, was the one that wrote it.
HeadingInv ==
    /\ fleet \subseteq HeadingRadars
    /\ ship \in Courses
    /\ DOMAIN last = {"heading", "bearing", "angle"}
    /\ HEADING_TRUE # NoHeading =>
          told \in 0 .. Revolution - 1 /\ (HEADING_TRUE = told \/ Truncates(HEADING_TRUE))
    /\ last.heading # NoHeading =>
          /\ HEADING_TRUE # NoHeading
          /\ last.heading = HEADING_TRUE
          /\ Truncates(HEADING_TRUE)

\* The spokes of a revolution and the units of a spoke.
LEMMA UnitsOfSpokes ==
  ASSUME NEW r \in HeadingRadars
  PROVE  /\ \/ Unit(r) = 30 /\ SpokesOf(r) = 16
            \/ Unit(r) = 40 /\ SpokesOf(r) = 12
            \/ Unit(r) = 80 /\ SpokesOf(r) = 6
            \/ Unit(r) = 96 /\ SpokesOf(r) = 5
         /\ r \in {"navico", "emulator", "furuno"} <=> Unit(r) = 30
         /\ r \in {"garmin", "hd", "quantum"} <=> Unit(r) # 30
  BY HeadingsAssumption DEF Unit, SpokesOf, Revolution

\* Two radars of a ship whose spokes divide each other's: so do their units.
LEMMA NestedUnits ==
  ASSUME Nested, fleet \subseteq HeadingRadars, NEW r \in fleet, NEW q \in fleet
  PROVE  Unit(q) = Unit(r) \/ <<Unit(r), Unit(q)>> \in {<<40, 80>>, <<80, 40>>}
  <1>1. Divides(SpokesOf(r), SpokesOf(q)) \/ Divides(SpokesOf(q), SpokesOf(r))
    BY DEF Nested
  <1>2. r \in HeadingRadars /\ q \in HeadingRadars
    OBVIOUS
  <1>3. QED
    BY <1>1, <1>2, UnitsOfSpokes DEF Divides

\* A spoke that takes its bearing from a heading h and writes back the heading of
\* that bearing writes h truncated to a spoke.
LEMMA WriteBack ==
  ASSUME NEW r \in HeadingRadars, NEW h \in 0 .. Revolution - 1, NEW a \in {0, 5}
  PROVE  LET n == SpokesOf(r)
             bearing == (InSteps(h, n) + a) % n
         IN  /\ bearing # NoHeading
             /\ ((bearing - a) % n) * (Revolution \div n) = Unit(r) * (h \div Unit(r))
             /\ Unit(r) * (h \div Unit(r)) \in 0 .. Revolution - 1
  <1>1. CASE Unit(r) = 96 /\ SpokesOf(r) = 5
    BY <1>1 DEF InSteps, Revolution, NoHeading
  <1>2. CASE Unit(r) = 40 /\ SpokesOf(r) = 12
    BY <1>2 DEF InSteps, Revolution, NoHeading
  <1>3. CASE Unit(r) = 80 /\ SpokesOf(r) = 6
    BY <1>3 DEF InSteps, Revolution, NoHeading
  <1>4. CASE Unit(r) = 30 /\ SpokesOf(r) = 16
    BY <1>4 DEF InSteps, Revolution, NoHeading
  <1>5. QED
    BY <1>1, <1>2, <1>3, <1>4, UnitsOfSpokes, SMTT(30)

\* Truncated twice is truncated once, if the units divide each other.
LEMMA TruncatedOnce ==
  ASSUME NEW h \in 0 .. Revolution - 1, NEW u \in {30, 40, 80, 96}, NEW v \in {30, 40, 80, 96},
         v = u \/ <<u, v>> \in {<<40, 80>>, <<80, 40>>}
  PROVE  v * ((u * (h \div u)) \div v) \in {u * (h \div u), v * (h \div v)}
  <1>1. CASE v = u /\ u = 30
    BY <1>1 DEF Revolution
  <1>2. CASE v = u /\ u = 40
    BY <1>2 DEF Revolution
  <1>3. CASE v = u /\ u = 80
    BY <1>3 DEF Revolution
  <1>4. CASE v = u /\ u = 96
    BY <1>4 DEF Revolution
  <1>5. CASE u = 40 /\ v = 80
    BY <1>5 DEF Revolution
  <1>6. CASE u = 80 /\ v = 40
    BY <1>6 DEF Revolution
  <1>7. QED
    BY <1>1, <1>2, <1>3, <1>4, <1>5, <1>6

\* A spoke of a radar without a true heading of its own writes HEADING_TRUE back
\* truncated to its spokes (add_spoke).
LEMMA TruncatesAgain ==
  ASSUME Nested, HeadingInv, NEW r \in fleet, HEADING_TRUE # NoHeading
  PROVE  /\ HEADING_TRUE \in 0 .. Revolution - 1
         /\ Truncates(Unit(r) * (HEADING_TRUE \div Unit(r)))
  <1> USE DEF HeadingInv
  <1>1. r \in HeadingRadars /\ told \in 0 .. Revolution - 1
    OBVIOUS
  <1>2. CASE HEADING_TRUE = told
    BY <1>1, <1>2 DEF Truncates
  <1>3. CASE Truncates(HEADING_TRUE)
    <2>1. PICK q \in fleet : HEADING_TRUE = Unit(q) * (told \div Unit(q))
      BY <1>3 DEF Truncates
    <2>2. q \in HeadingRadars
      OBVIOUS
    <2>3. Unit(r) \in {30, 40, 80, 96} /\ Unit(q) \in {30, 40, 80, 96}
      BY <1>1, <2>2, UnitsOfSpokes
    <2>4. Unit(r) = Unit(q) \/ <<Unit(q), Unit(r)>> \in {<<40, 80>>, <<80, 40>>}
      BY NestedUnits
    <2>5. Unit(r) * (HEADING_TRUE \div Unit(r)) \in
             {Unit(q) * (told \div Unit(q)), Unit(r) * (told \div Unit(r))}
      BY <1>1, <2>1, <2>3, <2>4, TruncatedOnce
    <2>6. HEADING_TRUE \in 0 .. Revolution - 1
      BY <1>1, <2>1, <2>2, WriteBack
    <2>7. QED
      BY <2>5, <2>6 DEF Truncates
  <1>4. QED
    BY <1>2, <1>3

\* The heading a radar sends, in twice as many steps as spokes: what add_spoke
\* writes back is the heading of the ship truncated to a spoke.
LEMMA SentHeading ==
  ASSUME NEW h \in 0 .. Revolution - 1, NEW a \in {0, 5}
  PROVE  LET bearing == ((InSteps(h, 32) \div 2) + a) % 16
         IN  /\ InSteps(h, 32) # NoHeading
             /\ bearing # NoHeading
             /\ ((bearing - a) % 16) * (Revolution \div 16) = 30 * (h \div 30)
             /\ 30 * (h \div 30) # NoHeading
  BY DEF InSteps, Revolution, NoHeading

LEMMA HeadingStart == HeadingsInit => HeadingInv
  BY DEF HeadingsInit, HeadingInv

\* add_spoke, with a heading of the radar's own or with HEADING_TRUE.
LEMMA SpokeKeepsHeading ==
  ASSUME Nested, HeadingInv, NEW r \in fleet, NEW a \in {0, 5}, NEW sends \in BOOLEAN,
         AddSpoke(r, a, sends)
  PROVE  HeadingInv'
  <1> DEFINE n == SpokesOf(r)
             raw == HeadingOf(r, sends)
             bearing == to_protobuf_spoke(n, a, raw)
             heading == ((bearing - a) % n) * (Revolution \div n)
  <1>1. /\ IF bearing = NoHeading THEN UNCHANGED <<HEADING_TRUE, last>>
           ELSE /\ HEADING_TRUE' = heading
                /\ last' = [heading |-> heading, bearing |-> bearing, angle |-> a]
        /\ told' = IF sends THEN ship ELSE told
        /\ fleet' = fleet /\ ship' = ship
        /\ sends => r \in {"navico", "emulator", "furuno"}
    BY Zenon DEF AddSpoke
  <1>2. r \in HeadingRadars /\ r # "furuno" /\ ship \in 0 .. Revolution - 1
    BY HeadingsAssumption DEF HeadingInv, Nested
  <1>3. CASE sends
    <2>1. r \in {"navico", "emulator"} /\ n = 16 /\ Unit(r) = 30
      BY <1>1, <1>2, <1>3, UnitsOfSpokes, SMTT(30)
    <2>2. raw = InSteps(ship, 32)
      BY <1>3, <2>1 DEF HeadingOf, RawSteps, extract_heading_value
    <2>3. raw # NoHeading
      BY <1>2, <2>2, SentHeading
    <2>4. bearing = ((InSteps(ship, 32) \div 2) + a) % 16
      BY <2>1, <2>2, <2>3 DEF to_protobuf_spoke
    <2>5. bearing # NoHeading /\ heading = 30 * (ship \div 30) /\ heading # NoHeading
      BY <1>2, <2>1, <2>4, SentHeading
    <2> HIDE DEF bearing, heading
    <2>6. /\ HEADING_TRUE' = heading /\ told' = ship
          /\ last' = [heading |-> heading, bearing |-> bearing, angle |-> a]
      BY <1>1, <1>3, <2>5
    <2>7. Truncates(HEADING_TRUE)'
      BY <1>1, <2>1, <2>5, <2>6 DEF Truncates, Unit
    <2>8. QED
      BY <1>1, <1>2, <2>5, <2>6, <2>7, ZenonT(40) DEF HeadingInv
  <1>4. CASE ~sends
    <2>1. raw = NoHeading
      BY <1>2, <1>4, HeadingsAssumption DEF HeadingOf, extract_heading_value
    <2>2. CASE HEADING_TRUE = NoHeading
      <3>1. bearing = NoHeading
        BY <2>1, <2>2 DEF to_protobuf_spoke
      <3>2. HEADING_TRUE' = HEADING_TRUE /\ last' = last /\ told' = told
        BY <1>1, <1>4, <3>1
      <3>3. QED
        BY <1>1, <2>2, <3>2, SMTT(30) DEF HeadingInv, Truncates
    <2>3. CASE HEADING_TRUE # NoHeading
      <3>1. /\ HEADING_TRUE \in 0 .. Revolution - 1
            /\ Truncates(Unit(r) * (HEADING_TRUE \div Unit(r)))
        BY <2>3, TruncatesAgain
      <3>2. bearing = (InSteps(HEADING_TRUE, n) + a) % n
        BY <2>1, <2>3 DEF to_protobuf_spoke
      <3>3. /\ bearing # NoHeading
            /\ heading = Unit(r) * (HEADING_TRUE \div Unit(r))
            /\ heading \in 0 .. Revolution - 1
        BY <1>2, <3>1, <3>2, WriteBack, SMTT(30)
      <3>4. Truncates(heading) /\ heading # NoHeading
        BY <3>1, <3>3 DEF NoHeading
      <3> HIDE DEF bearing, heading
      <3>5. /\ HEADING_TRUE' = heading /\ told' = told
            /\ last' = [heading |-> heading, bearing |-> bearing, angle |-> a]
        BY <1>1, <1>4, <3>3
      <3>6. Truncates(HEADING_TRUE)'
        BY <1>1, <3>4, <3>5, ZenonT(40) DEF Truncates, Unit
      <3>7. told \in 0 .. Revolution - 1
        BY <2>3 DEF HeadingInv
      <3>8. QED
        BY <1>1, <1>2, <3>4, <3>5, <3>6, <3>7 DEF HeadingInv
    <2>4. QED
      BY <2>2, <2>3
  <1>5. QED
    BY <1>3, <1>4

\* Every step of a sensor, the ship and its radars keeps the invariant.
LEMMA HeadingStep ==
  ASSUME Nested, HeadingInv, [HeadingsNext]_headingVars
  PROVE  HeadingInv'
  <1>1. CASE Turn
    BY <1>1 DEF Turn, HeadingInv, Truncates
  <1>2. CASE SensorSpeaks
    BY <1>2, HeadingsAssumption DEF SensorSpeaks, HeadingInv, NoHeading
  <1>3. CASE \E r \in fleet, a \in {0, 5}, sends \in BOOLEAN : AddSpoke(r, a, sends)
    BY <1>3, SpokeKeepsHeading
  <1>4. CASE UNCHANGED headingVars
    BY <1>4 DEF headingVars, HeadingInv, Truncates
  <1>5. QED
    BY <1>1, <1>2, <1>3, <1>4 DEF HeadingsNext

\* The fleet of a ship does not change.
LEMMA FleetStays ==
  ASSUME [HeadingsNext]_headingVars
  PROVE  Nested' <=> Nested
  <1>1. fleet' = fleet
    BY DEF HeadingsNext, Turn, SensorSpeaks, AddSpoke, headingVars
  <1>2. QED
    BY <1>1 DEF Nested, Divides, SpokesOf

\* What was truncated to a spoke is less than a spoke of the coarsest radar off.
LEMMA TruncatedIsNear ==
  ASSUME HeadingInv
  PROVE  BearingIsTrue
  <1> SUFFICES ASSUME last.heading # NoHeading
               PROVE  (told - last.heading) % Revolution < Coarsest
    BY DEF BearingIsTrue
  <1>1. told \in 0 .. Revolution - 1 /\ fleet \subseteq HeadingRadars
    BY DEF HeadingInv
  <1>2. PICK r \in fleet : last.heading = Unit(r) * (told \div Unit(r))
    BY DEF HeadingInv, Truncates
  <1>3. Unit(r) \in {30, 40, 80, 96}
    BY <1>1, UnitsOfSpokes
  <1>4. /\ (told - last.heading) % Revolution < Unit(r)
        /\ (told - last.heading) % Revolution \in Int
    <2>1. CASE Unit(r) = 30
      BY <1>1, <1>2, <2>1 DEF Revolution
    <2>2. CASE Unit(r) = 40
      BY <1>1, <1>2, <2>2 DEF Revolution
    <2>3. CASE Unit(r) = 80
      BY <1>1, <1>2, <2>3 DEF Revolution
    <2>4. CASE Unit(r) = 96
      BY <1>1, <1>2, <2>4 DEF Revolution
    <2>5. QED
      BY <1>3, <2>1, <2>2, <2>3, <2>4
  <1> DEFINE units == {Unit(q) : q \in fleet}
  <1>5. units \subseteq {30, 40, 80, 96} /\ units # {}
    BY <1>1, UnitsOfSpokes
  <1>6. \E u \in units : \A v \in units : u >= v
    <2> HIDE DEF units
    <2>1. \A v \in units : v = 30 \/ v = 40 \/ v = 80 \/ v = 96
      BY <1>5
    <2>2. CASE 96 \in units
      BY <2>1, <2>2
    <2>3. CASE 96 \notin units /\ 80 \in units
      BY <2>1, <2>3
    <2>4. CASE 96 \notin units /\ 80 \notin units /\ 40 \in units
      BY <2>1, <2>4
    <2>5. CASE 96 \notin units /\ 80 \notin units /\ 40 \notin units
      <3>1. PICK u \in units : TRUE
        BY <1>5, ZenonT(40)
      <3>2. QED
        BY <2>1, <2>5, <3>1
    <2>6. QED
      BY <2>2, <2>3, <2>4, <2>5
  <1>7. \E u \in units : \A q \in fleet : u >= Unit(q)
    BY <1>6
  <1>8. Coarsest \in units /\ Coarsest >= Unit(r)
    BY <1>7 DEF Coarsest, Unit
  <1>9. Coarsest \in Int
    <2> HIDE DEF units
    <2>1. QED
      BY <1>5, <1>8
  <1>10. QED
    BY <1>3, <1>4, <1>8, <1>9

\* On a ship without Furuno whose radars' spokes divide each other's, a bearing
\* shows what the last sensor said to a spoke of the coarsest radar, after any
\* number of spokes that write headings back for each other (add_spoke,
\* to_protobuf_spoke).
THEOREM HeadingAlwaysKept == HeadingsSpec => []HeadingIsKept
  <1> DEFINE I == Nested => HeadingInv
  <1>1. HeadingsInit => I
    BY HeadingStart
  <1>2. I /\ [HeadingsNext]_headingVars => I'
    BY HeadingStep, FleetStays
  <1>3. I => HeadingIsKept
    BY TruncatedIsNear DEF HeadingIsKept, Nested
  <1>4. QED
    BY <1>1, <1>2, <1>3, PTL DEF HeadingsSpec
===============================================================================
