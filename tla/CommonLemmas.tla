---------------------------- MODULE CommonLemmas ----------------------------
(***************************************************************************)
(* Facts about ranks in finite sets of naturals: the r-th smallest member  *)
(* exists for every r below the cardinality, and different members have    *)
(* different ranks.  The free list's candidates, the checkpoint tags and   *)
(* the compacted rename lanes are all ranks.  Facts about sequences, and   *)
(* about indices that count from the head of a ring.                       *)
(***************************************************************************)
EXTENDS Integers, Sequences, FiniteSets, FiniteSetTheorems, WellFoundedInduction, TLAPS

Below(S, x) == {y \in S : y < x}

(* Every non-empty set of naturals has a least element.                    *)
LEMMA NatMin ==
  ASSUME NEW T, T \subseteq Nat, T # {}
  PROVE  \E m \in T : \A n \in T : m <= n
<1> DEFINE R == OpToRel(<, Nat)
<1>1. IsWellFoundedOn(R, Nat)
  BY NatLessThanWellFounded
<1>2. \E x \in T : \A y \in T : ~(<<y, x>> \in R)
  <2> HIDE DEF R
  <2> QED BY <1>1, WFMin
<1>3. PICK m \in T : \A y \in T : ~(<<y, m>> \in R)
  BY <1>2
<1>4. \A y \in T : ~(y < m)
  BY <1>3 DEF OpToRel
<1> QED
  BY <1>4

(* A member of a finite set of naturals ranks below the set's size, and    *)
(* adding it to what is below it counts one more.                          *)
LEMMA RankBound ==
  ASSUME NEW S, S \subseteq Nat, IsFiniteSet(S), NEW x \in S
  PROVE  /\ IsFiniteSet(Below(S, x))
         /\ Cardinality(Below(S, x)) \in Nat
         /\ Cardinality(Below(S, x)) < Cardinality(S)
         /\ IsFiniteSet(Below(S, x) \cup {x})
         /\ Cardinality(Below(S, x) \cup {x}) = Cardinality(Below(S, x)) + 1
<1>1. Below(S, x) \in SUBSET S /\ x \notin Below(S, x)
  BY DEF Below
<1>2. /\ IsFiniteSet(Below(S, x)) /\ Cardinality(Below(S, x)) \in Nat
      /\ Cardinality(S) \in Nat
      /\ Cardinality(Below(S, x)) <= Cardinality(S)
      /\ Cardinality(S) = Cardinality(Below(S, x)) => S = Below(S, x)
  BY <1>1, FS_Subset, FS_CardinalityType
<1>3. Cardinality(Below(S, x)) < Cardinality(S)
  BY <1>1, <1>2
<1> QED
  BY <1>1, <1>2, <1>3, FS_AddElement

(* Ranks grow strictly with the members.                                   *)
LEMMA RankMonotone ==
  ASSUME NEW S, S \subseteq Nat, IsFiniteSet(S), NEW x \in S, NEW y \in S, x < y
  PROVE  Cardinality(Below(S, x)) < Cardinality(Below(S, y))
<1>1. x \in Nat /\ y \in Nat /\ \A z \in S : z \in Nat
  OBVIOUS
<1>2. Below(S, x) \cup {x} \subseteq Below(S, y)
  <2>1. SUFFICES ASSUME NEW z, z \in Below(S, x) \cup {x}
                 PROVE  z \in S /\ z < y
    BY DEF Below
  <2>2. z \in S /\ z <= x
    BY <2>1, <1>1 DEF Below
  <2> QED BY <2>2, <1>1
<1>3. /\ IsFiniteSet(Below(S, y)) /\ Cardinality(Below(S, y)) \in Nat
      /\ Cardinality(Below(S, x)) \in Nat
      /\ Cardinality(Below(S, x) \cup {x}) = Cardinality(Below(S, x)) + 1
  BY RankBound
<1>4. Cardinality(Below(S, x) \cup {x}) <= Cardinality(Below(S, y))
  BY <1>2, <1>3, FS_Subset
<1> QED
  BY <1>3, <1>4

(* Different members have different ranks.                                 *)
LEMMA RankInjective ==
  ASSUME NEW S, S \subseteq Nat, IsFiniteSet(S), NEW x \in S, NEW y \in S,
         Cardinality(Below(S, x)) = Cardinality(Below(S, y))
  PROVE  x = y
<1>1. CASE x < y
  <2>1. Cardinality(Below(S, x)) < Cardinality(Below(S, y))
    BY <1>1, RankMonotone
  <2>2. Cardinality(Below(S, x)) \in Nat
    BY RankBound
  <2> QED BY <2>1, <2>2
<1>2. CASE y < x
  <2>1. Cardinality(Below(S, y)) < Cardinality(Below(S, x))
    BY <1>2, RankMonotone
  <2>2. Cardinality(Below(S, y)) \in Nat
    BY RankBound
  <2> QED BY <2>1, <2>2
<1>3. x \in Nat /\ y \in Nat
  OBVIOUS
<1> QED
  BY <1>1, <1>2, <1>3

(* Every rank below the size is the rank of a member.  By least            *)
(* counterexample: the successor, in S, of the member of rank r - 1.       *)
LEMMA RankExists ==
  ASSUME NEW S, S \subseteq Nat, IsFiniteSet(S)
  PROVE  \A r \in Nat : r < Cardinality(S) =>
           \E x \in S : Cardinality(Below(S, x)) = r
<1> DEFINE Bad == {r \in Nat : /\ r < Cardinality(S)
                               /\ ~ \E x \in S : Cardinality(Below(S, x)) = r}
<1>1. SUFFICES ASSUME Bad # {} PROVE FALSE
  OBVIOUS
<1>2. PICK r \in Bad : \A n \in Bad : r <= n
  BY <1>1, NatMin
<1>3. r \in Nat /\ r < Cardinality(S) /\ Cardinality(S) \in Nat
  BY FS_CardinalityType
<1>4. CASE r = 0
  <2>1. S # {}
    BY <1>3, FS_EmptySet
  <2>2. PICK x \in S : \A y \in S : x <= y
    BY <2>1, NatMin
  <2>3. Below(S, x) = {}
    <3>1. SUFFICES ASSUME NEW y \in Below(S, x) PROVE FALSE
      OBVIOUS
    <3>2. y \in S /\ y < x /\ y \in Nat /\ x \in Nat
      BY DEF Below
    <3> QED BY <3>2, <2>2
  <2>4. Cardinality(Below(S, x)) = 0
    BY <2>3, FS_EmptySet
  <2> QED BY <2>4, <1>4
<1>5. CASE r # 0
  <2>1. r - 1 \in Nat /\ r - 1 \notin Bad /\ r - 1 < Cardinality(S)
    BY <1>2, <1>3, <1>5
  <2>2. PICK x \in S : Cardinality(Below(S, x)) = r - 1
    BY <2>1
  <2> DEFINE Up == {y \in S : x < y}
  <2>3. /\ Cardinality(Below(S, x) \cup {x}) = r
        /\ IsFiniteSet(Below(S, x) \cup {x})
    <3>1. /\ Cardinality(Below(S, x) \cup {x}) = Cardinality(Below(S, x)) + 1
          /\ IsFiniteSet(Below(S, x) \cup {x})
      BY RankBound
    <3> QED BY <3>1, <2>2, <1>3
  <2>4. Up # {}
    <3>1. SUFFICES ASSUME Up = {} PROVE FALSE
      OBVIOUS
    <3>2. \A z \in S : z \in Below(S, x) \cup {x}
      <4>1. SUFFICES ASSUME NEW z \in S PROVE z < x \/ z = x
        BY DEF Below
      <4>2. z \in Nat /\ x \in Nat /\ ~(x < z)
        BY <3>1
      <4> QED BY <4>2
    <3>3. S = Below(S, x) \cup {x}
      BY <3>2 DEF Below
    <3> QED BY <3>3, <2>3, <1>3
  <2>5. PICK y \in Up : \A z \in Up : y <= z
    BY <2>4, NatMin
  <2>6. Below(S, y) = Below(S, x) \cup {x}
    <3>1. \A z \in S : z < y <=> z < x \/ z = x
      <4>1. SUFFICES ASSUME NEW z \in S PROVE z < y <=> z < x \/ z = x
        OBVIOUS
      <4>2. /\ z \in Nat /\ x \in Nat /\ y \in Nat
            /\ x < y
            /\ x < z => y <= z
        BY <2>5
      <4> QED BY <4>2
    <3> QED BY <3>1 DEF Below
  <2>7. Cardinality(Below(S, y)) = r /\ y \in S
    BY <2>6, <2>3
  <2> QED BY <2>7
<1> QED
  BY <1>4, <1>5

(* A non-empty finite set of naturals has a greatest element: the member   *)
(* of the highest rank.                                                    *)
LEMMA FiniteMax ==
  ASSUME NEW S, S \subseteq Nat, IsFiniteSet(S), S # {}
  PROVE  \E m \in S : \A n \in S : n <= m
<1>1. Cardinality(S) \in Nat /\ Cardinality(S) # 0
  BY FS_CardinalityType, FS_EmptySet
<1>2. Cardinality(S) - 1 \in Nat /\ Cardinality(S) - 1 < Cardinality(S)
  BY <1>1
<1>3. PICK x \in S : Cardinality(Below(S, x)) = Cardinality(S) - 1
  BY <1>2, RankExists
<1>4. ASSUME NEW y \in S, x < y PROVE FALSE
  <2>1. Cardinality(Below(S, x)) < Cardinality(Below(S, y))
    BY <1>4, RankMonotone
  <2>2. Cardinality(Below(S, y)) \in Nat /\ Cardinality(Below(S, y)) < Cardinality(S)
    BY RankBound
  <2> QED BY <2>1, <2>2, <1>1, <1>3
<1>5. ASSUME NEW y \in S PROVE y <= x
  <2>1. y \in Nat /\ x \in Nat /\ ~(x < y)
    BY <1>4
  <2> QED BY <2>1
<1> QED
  BY <1>5
-----------------------------------------------------------------------------
(* A sequence, whatever its elements.                                      *)
IsSequence(s) == s \in Seq({s[k] : k \in DOMAIN s})

(* A function over 1 .. n is a sequence of length n.                       *)
LEMMA SequenceForm ==
  ASSUME NEW n \in Nat, NEW s, s = [k \in 1 .. n |-> s[k]]
  PROVE  IsSequence(s) /\ Len(s) = n
<1> DEFINE S == {s[k] : k \in DOMAIN s}
<1>1. s \in [1 .. n -> S]
  OBVIOUS
<1>2. s \in Seq(S)
  BY <1>1
<1>3. Len(s) = n
  BY <1>1
<1>4. QED
  BY <1>2, <1>3 DEF IsSequence

(* A sequence is a function over 1 .. its length.                          *)
LEMMA SequenceIs ==
  ASSUME NEW s, IsSequence(s)
  PROVE  Len(s) \in Nat /\ DOMAIN s = 1 .. Len(s) /\ s = [k \in 1 .. Len(s) |-> s[k]]
  BY DEF IsSequence

(* Popping a sequence leaves one shorter by one.                           *)
LEMMA SequenceTail ==
  ASSUME NEW s, IsSequence(s), s # <<>>
  PROVE  IsSequence(Tail(s)) /\ Len(Tail(s)) = Len(s) - 1
<1> DEFINE S == {s[k] : k \in DOMAIN s}
<1>1. s \in Seq(S) /\ Len(s) > 0
  BY DEF IsSequence
<1>2. Tail(s) \in Seq(S) /\ Len(Tail(s)) = Len(s) - 1
  BY <1>1
<1> DEFINE t == Tail(s)
<1> HIDE DEF S, t
<1>3. Len(Tail(s)) \in Nat /\ Tail(s) = [k \in 1 .. Len(Tail(s)) |-> Tail(s)[k]]
  <2>1. t \in Seq(S) => Len(t) \in Nat /\ t = [k \in 1 .. Len(t) |-> t[k]]
    OBVIOUS
  <2>2. QED
    BY <1>2, <2>1 DEF t
<1>4. QED
  BY <1>2, <1>3, SequenceForm

(* Pushing one element, or none.                                           *)
LEMMA SequenceAppend ==
  ASSUME NEW s, IsSequence(s), NEW x
  PROVE  /\ IsSequence(s \o <<x>>) /\ Len(s \o <<x>>) = Len(s) + 1
         /\ \A k \in 1 .. Len(s) : (s \o <<x>>)[k] = s[k]
         /\ (s \o <<x>>)[Len(s) + 1] = x
         /\ s \o <<>> = s
<1> DEFINE S == {s[k] : k \in DOMAIN s} \cup {x}
<1>1. s \in Seq({s[k] : k \in DOMAIN s})
  BY DEF IsSequence
<1>2. s \in Seq(S)
  BY <1>1
<1>3. <<x>> \in Seq(S)
  OBVIOUS
<1>4. s \o <<x>> \in Seq(S) /\ Len(s \o <<x>>) = Len(s) + 1
  BY <1>2, <1>3
<1>5. s \o <<x>> = [k \in 1 .. Len(s) + 1 |-> (s \o <<x>>)[k]] /\ Len(s) + 1 \in Nat
  BY <1>2, <1>4
<1>6. IsSequence(s \o <<x>>)
  BY <1>5, SequenceForm
<1>7. s \o <<>> = s
  BY <1>2
<1>8. \A k \in 1 .. Len(s) : (s \o <<x>>)[k] = s[k]
  BY <1>2, <1>3
<1>9. (s \o <<x>>)[Len(s) + 1] = x
  BY <1>2, <1>3
<1>10. QED
  BY <1>4, <1>6, <1>7, <1>8, <1>9

(* The elements up to m less the first f.                                  *)
LEMMA SequenceCut ==
  ASSUME NEW s, IsSequence(s), NEW f \in Nat, NEW m \in Nat, f <= m, m <= Len(s)
  PROVE  /\ IsSequence(SubSeq(SubSeq(s, 1, m), 1 + f, m))
         /\ Len(SubSeq(SubSeq(s, 1, m), 1 + f, m)) = m - f
         /\ \A k \in 1 .. m - f : SubSeq(SubSeq(s, 1, m), 1 + f, m)[k] = s[k + f]
<1> DEFINE S == {s[k] : k \in DOMAIN s}
<1> DEFINE u == SubSeq(s, 1, m)
<1>1. s \in Seq(S) /\ Len(s) \in Nat
  BY DEF IsSequence
<1>2. u = [k \in 1 .. m |-> s[k]]
  BY <1>1
<1>3. u \in Seq(S) /\ Len(u) = m
  BY <1>1, <1>2
<1> HIDE DEF u
<1>4. SubSeq(u, 1 + f, m) = [k \in 1 .. m - f |-> u[k + f]]
  BY <1>3
<1>5. \A k \in 1 .. m - f : SubSeq(u, 1 + f, m)[k] = s[k + f]
  BY <1>2, <1>4
<1>6. SubSeq(u, 1 + f, m) = [k \in 1 .. m - f |-> SubSeq(u, 1 + f, m)[k]] /\ m - f \in Nat
  BY <1>4
<1>7. IsSequence(SubSeq(u, 1 + f, m)) /\ Len(SubSeq(u, 1 + f, m)) = m - f
  BY <1>6, SequenceForm
<1>8. QED
  BY <1>5, <1>7 DEF u

-----------------------------------------------------------------------------
(* Arithmetic of the ring: an index counted from the head wraps at most    *)
(* once.                                                                   *)
LEMMA RingSum ==
  ASSUME NEW D \in Nat \ {0}, NEW h \in 0 .. D - 1, NEW n \in 0 .. D
  PROVE  /\ (h + n) % D \in 0 .. D - 1
         /\ (h + n) % D = IF h + n < D THEN h + n ELSE h + n - D
  OBVIOUS

(* Moving the head leaves every index behind it where it is.               *)
LEMMA RingMove ==
  ASSUME NEW D \in Nat \ {0}, NEW h \in 0 .. D - 1, NEW f \in Nat, NEW n \in 0 .. D - 1, f <= n
  PROVE  /\ (h + f) % D \in 0 .. D - 1
         /\ (((h + f) % D) + (n - f)) % D = (h + n) % D
<1> DEFINE g == (h + f) % D
<1>1. f \in 0 .. D /\ n \in 0 .. D /\ n - f \in 0 .. D
  OBVIOUS
<1>2. g \in 0 .. D - 1 /\ g = IF h + f < D THEN h + f ELSE h + f - D
  BY <1>1, RingSum
<1> HIDE DEF g
<1>3. (g + (n - f)) % D = IF g + (n - f) < D THEN g + (n - f) ELSE g + (n - f) - D
  BY <1>1, <1>2, RingSum
<1>4. (h + n) % D = IF h + n < D THEN h + n ELSE h + n - D
  BY <1>1, RingSum
<1>5. (IF g + (n - f) < D THEN g + (n - f) ELSE g + (n - f) - D)
         = IF h + n < D THEN h + n ELSE h + n - D
  BY <1>2
<1>6. QED
  BY <1>2, <1>3, <1>4, <1>5 DEF g

(* Freeing the head leaves every other index where it is.                  *)
LEMMA RingShift ==
  ASSUME NEW D \in Nat \ {0}, NEW h \in 0 .. D - 1, NEW f \in {0, 1}, NEW n \in 0 .. D - 1, f <= n
  PROVE  /\ (h + f) % D \in 0 .. D - 1
         /\ (((h + f) % D) + (n - f)) % D = (h + n) % D
BY RingMove

(* Two places of the ring have different indices.                          *)
LEMMA RingDistinct ==
  ASSUME NEW D \in Nat \ {0}, NEW h \in 0 .. D - 1, NEW j \in Nat, NEW n \in 0 .. D - 1, j < n
  PROVE  (h + j) % D # (h + n) % D
<1>1. j \in 0 .. D /\ n \in 0 .. D
  OBVIOUS
<1>2. (h + j) % D = IF h + j < D THEN h + j ELSE h + j - D
  BY <1>1, RingSum
<1>3. (h + n) % D = IF h + n < D THEN h + n ELSE h + n - D
  BY <1>1, RingSum
<1>4. (IF h + j < D THEN h + j ELSE h + j - D) # IF h + n < D THEN h + n ELSE h + n - D
  BY <1>1
<1>5. QED
  BY <1>2, <1>3, <1>4


(* Of two places of a ring the nearer to the head has the smaller index,   *)
(* or the only one that has not wrapped.                                   *)
LEMMA RingBefore ==
  ASSUME NEW D \in Nat \ {0}, NEW h \in 0 .. D - 1,
         NEW j \in 0 .. D - 1, NEW k \in 0 .. D - 1, j < k
  PROVE  LET x == (h + j) % D
             y == (h + k) % D
         IN /\ x \in Int /\ y \in Int /\ x # y
            /\ x < h => y < h
            /\ (x < h <=> y < h) => x < y
<1> DEFINE x == (h + j) % D
<1> DEFINE y == (h + k) % D
<1>1. j \in 0 .. D /\ k \in 0 .. D
  OBVIOUS
<1>2. x = IF h + j < D THEN h + j ELSE h + j - D
  BY <1>1, RingSum
<1>3. y = IF h + k < D THEN h + k ELSE h + k - D
  BY <1>1, RingSum
<1>4. x \in 0 .. D - 1 /\ y \in 0 .. D - 1
  BY <1>1, RingSum
<1> HIDE DEF x, y
<1>5. x \in Int /\ y \in Int /\ x # y /\ (x < h => y < h) /\ ((x < h <=> y < h) => x < y)
  BY <1>2, <1>3, <1>4
<1>6. QED
  BY <1>5 DEF x, y

(* The rest of a sequence.                                                 *)
LEMMA SequenceRest ==
  ASSUME NEW s, IsSequence(s), Len(s) > 0
  PROVE  /\ IsSequence(Tail(s)) /\ Len(Tail(s)) = Len(s) - 1
         /\ DOMAIN Tail(s) = 1 .. Len(s) - 1
         /\ \A k \in 1 .. Len(s) - 1 : Tail(s)[k] = s[k + 1]
<1>1. s # <<>>
  OBVIOUS
<1>2. IsSequence(Tail(s)) /\ Len(Tail(s)) = Len(s) - 1
  BY <1>1, SequenceTail
<1>3. DOMAIN Tail(s) = 1 .. Len(s) - 1
  BY <1>2, SequenceIs
<1>4. \A k \in 1 .. Len(s) - 1 : Tail(s)[k] = s[k + 1]
  <2>1. s \in Seq({s[k] : k \in DOMAIN s})
    BY DEF IsSequence
  <2>2. QED
    BY <2>1
<1>5. QED
  BY <1>2, <1>3, <1>4

(* How far an index is behind the head, from the index alone.              *)
LEMMA RingAge ==
  ASSUME NEW D \in Nat \ {0}, NEW h \in 0 .. D - 1, NEW n \in 0 .. D - 1
  PROVE  (((h + n) % D) - h) % D = n
<1>1. n \in 0 .. D
  OBVIOUS
<1>2. (h + n) % D = IF h + n < D THEN h + n ELSE h + n - D
  BY <1>1, RingSum
<1>3. n % D = n
  OBVIOUS
<1>4. (n - D) % D = n
  OBVIOUS
<1>5. (h + n) - h = n /\ (h + n - D) - h = n - D
  OBVIOUS
<1>6. QED
  BY <1>2, <1>3, <1>4, <1>5


-----------------------------------------------------------------------------
(* Counting in a ring and behind a cut.                                    *)

(* m places that follow each other in a ring are m indices.                *)
LEMMA RingCount ==
  ASSUME NEW D \in Nat \ {0}, NEW h \in 0 .. D - 1, NEW m \in 0 .. D
  PROVE  LET S == {(h + p) % D : p \in 0 .. m - 1}
         IN  IsFiniteSet(S) /\ Cardinality(S) = m
<1> DEFINE S == {(h + p) % D : p \in 0 .. m - 1}
<1> DEFINE f == [p \in 0 .. m - 1 |-> (h + p) % D]
<1>1. ASSUME NEW a \in 0 .. m - 1, NEW b \in 0 .. m - 1, f[a] = f[b] PROVE a = b
  <2>1. a \in Nat /\ b \in Nat /\ a \in 0 .. D - 1 /\ b \in 0 .. D - 1
    OBVIOUS
  <2>2. (h + a) % D = (h + b) % D
    BY <1>1
  <2>3. ~(a < b) /\ ~(b < a)
    BY <2>1, <2>2, RingDistinct
  <2>4. QED
    BY <2>1, <2>3
<1>2. f \in Bijection(0 .. m - 1, S)
  <2>1. f \in [0 .. m - 1 -> S] /\ \A t \in S : \E p \in 0 .. m - 1 : f[p] = t
    OBVIOUS
  <2> HIDE DEF f, S
  <2>2. QED
    BY <1>1, <2>1 DEF Bijection, Injection, Surjection, IsInjective
<1>3. IsFiniteSet(0 .. m - 1) /\ Cardinality(0 .. m - 1) = m
  BY FS_Interval
<1>4. ExistsBijection(0 .. m - 1, S)
  BY <1>2 DEF ExistsBijection
<1> HIDE DEF S
<1>5. IsFiniteSet(S) /\ Cardinality(S) = m
  BY <1>3, <1>4, FS_Bijection
<1>6. QED
  BY <1>5 DEF S

(* What is left of a set of naturals behind r, counted from there.         *)
LEMMA CountRest ==
  ASSUME NEW T, T \subseteq Nat, IsFiniteSet(T), NEW r \in Nat,
         NEW U, U \subseteq Nat, \A x \in Nat : x \in U <=> x > 0 /\ x + r \in T
  PROVE  /\ IsFiniteSet(U) /\ Cardinality(U) = Cardinality(T) - Cardinality(Below(T, r + 1))
         /\ Cardinality(U) \in Nat /\ Cardinality(Below(T, r + 1)) \in Nat
<1> DEFINE A == Below(T, r + 1)
<1> DEFINE B == T \ A
<1> DEFINE f == [y \in B |-> y - r]
<1>1. \A y \in B : y \in Nat /\ y > r
  BY DEF Below
<1>2. \A y \in B : y - r \in U
  <2>1. SUFFICES ASSUME NEW y \in B PROVE y - r \in U
    OBVIOUS
  <2>2. y \in T /\ y \in Nat /\ y > r
    BY <1>1
  <2>3. y - r \in Nat /\ y - r > 0 /\ (y - r) + r = y
    BY <2>2
  <2>4. QED
    BY <2>2, <2>3
<1>3. \A x \in U : x + r \in B /\ (x + r) - r = x
  <2>1. SUFFICES ASSUME NEW x \in U PROVE x + r \in B /\ (x + r) - r = x
    OBVIOUS
  <2>2. x \in Nat /\ x > 0 /\ x + r \in T
    OBVIOUS
  <2>3. ~(x + r < r + 1)
    BY <2>2
  <2>4. QED
    BY <2>2, <2>3 DEF Below
<1>4. \A y, z \in B : f[y] = f[z] => y = z
  BY <1>1
<1>5. f \in Bijection(B, U)
  <2>1. f \in [B -> U]
    BY <1>2
  <2>2. \A x \in U : \E y \in B : f[y] = x
    BY <1>3
  <2> HIDE DEF f, B
  <2>3. QED
    BY <1>4, <2>1, <2>2 DEF Bijection, Injection, Surjection, IsInjective
<1>6. A \in SUBSET T /\ B \in SUBSET T /\ A \cup B = T /\ A \cap B = {}
  BY DEF Below
<1> HIDE DEF A, B
<1>7. /\ IsFiniteSet(A) /\ IsFiniteSet(B) /\ Cardinality(A) \in Nat /\ Cardinality(B) \in Nat
      /\ Cardinality(T) \in Nat
  BY <1>6, FS_Subset, FS_CardinalityType
<1>8. Cardinality(T) = Cardinality(A) + Cardinality(B)
  <2>1. Cardinality(A \cup B) = Cardinality(A) + Cardinality(B) - Cardinality(A \cap B)
    BY <1>7, FS_Union
  <2>2. Cardinality(A \cap B) = 0
    BY <1>6, FS_EmptySet
  <2>3. QED
    BY <1>6, <1>7, <2>1, <2>2
<1>9. IsFiniteSet(U) /\ Cardinality(U) = Cardinality(B)
  BY <1>5, <1>7, FS_Bijection DEF ExistsBijection
<1>10. QED
  BY <1>7, <1>8, <1>9 DEF A

(* Ranks behind r count from there too.                                    *)
LEMMA RankRest ==
  ASSUME NEW T, T \subseteq Nat, IsFiniteSet(T), NEW r \in Nat,
         NEW U, U \subseteq Nat, \A x \in Nat : x \in U <=> x > 0 /\ x + r \in T
  PROVE  \A k \in Nat : k > 0 =>
           Cardinality(Below(U, k)) = Cardinality(Below(T, k + r)) - Cardinality(Below(T, r + 1))
<1>1. SUFFICES ASSUME NEW k \in Nat, k > 0
               PROVE  Cardinality(Below(U, k)) = Cardinality(Below(T, k + r)) - Cardinality(Below(T, r + 1))
  OBVIOUS
<1> DEFINE V == Below(T, k + r)
<1> DEFINE W == Below(U, k)
<1>2. V \in SUBSET T /\ W \subseteq Nat /\ V \subseteq Nat
  BY DEF Below
<1>3. \A x \in Nat : x \in W <=> x > 0 /\ x + r \in V
  BY DEF Below
<1>4. Below(V, r + 1) = Below(T, r + 1)
  <2>1. ASSUME NEW y \in T, y < r + 1 PROVE y < k + r
    <3>1. y \in Nat
      OBVIOUS
    <3>2. QED
      BY <1>1, <2>1, <3>1
  <2>2. QED
    BY <2>1 DEF Below
<1>5. IsFiniteSet(V)
  BY <1>2, FS_Subset
<1> HIDE DEF V, W
<1>6. Cardinality(W) = Cardinality(V) - Cardinality(Below(V, r + 1))
  BY <1>2, <1>3, <1>5, CountRest
<1>7. QED
  BY <1>4, <1>6 DEF V, W


(* A member is up to a exactly when it ranks below the members up to a.    *)
LEMMA RankCut ==
  ASSUME NEW S, S \subseteq Nat, IsFiniteSet(S), NEW k \in S, NEW a \in Nat
  PROVE  /\ Cardinality(Below(S, k)) < Cardinality(Below(S, a + 1)) <=> k <= a
         /\ Cardinality(Below(S, k)) \in Nat /\ Cardinality(Below(S, a + 1)) \in Nat
         /\ Cardinality(Below(S, a + 1)) <= Cardinality(S)
<1> DEFINE A == Below(S, k)
<1> DEFINE B == Below(S, a + 1)
<1>1. A \in SUBSET S /\ B \in SUBSET S /\ k \notin A
  BY DEF Below
<1>2. /\ IsFiniteSet(A) /\ IsFiniteSet(B) /\ Cardinality(A) \in Nat /\ Cardinality(B) \in Nat
      /\ Cardinality(B) <= Cardinality(S)
  BY <1>1, FS_Subset, FS_CardinalityType
<1>3. k \in Nat /\ \A y \in S : y \in Nat
  OBVIOUS
<1>4. ASSUME k <= a PROVE Cardinality(A) < Cardinality(B)
  <2>1. A \cup {k} \in SUBSET B
    <3>1. ASSUME NEW y \in S, y < k \/ y = k PROVE y < a + 1
      <4>1. y \in Nat
        OBVIOUS
      <4>2. QED
        BY <1>3, <1>4, <3>1, <4>1
    <3>2. QED
      BY <3>1 DEF Below
  <2> HIDE DEF A, B
  <2>2. Cardinality(A \cup {k}) = Cardinality(A) + 1
    BY <1>1, <1>2, FS_AddElement
  <2>3. Cardinality(A \cup {k}) <= Cardinality(B)
    BY <1>2, <2>1, FS_Subset
  <2>4. QED
    BY <1>2, <2>2, <2>3
<1>5. ASSUME ~(k <= a) PROVE Cardinality(B) <= Cardinality(A)
  <2>1. B \in SUBSET A
    <3>1. ASSUME NEW y \in S, y < a + 1 PROVE y < k
      <4>1. y \in Nat
        OBVIOUS
      <4>2. QED
        BY <1>3, <1>5, <3>1, <4>1
    <3>2. QED
      BY <3>1 DEF Below
  <2> HIDE DEF A, B
  <2>2. QED
    BY <1>2, <2>1, FS_Subset
<1> HIDE DEF A, B
<1>6. QED
  BY <1>2, <1>4, <1>5 DEF A, B

(* Every index of a ring is that of a place.                               *)
LEMMA RingCover ==
  ASSUME NEW D \in Nat \ {0}, NEW h \in 0 .. D - 1, NEW n \in 0 .. D - 1
  PROVE  \E p \in 0 .. D - 1 : n = (h + p) % D
<1> DEFINE p == IF n >= h THEN n - h ELSE n - h + D
<1>1. p \in 0 .. D - 1 /\ p \in 0 .. D
  OBVIOUS
<1>2. n = IF h + p < D THEN h + p ELSE h + p - D
  OBVIOUS
<1>3. (h + p) % D = IF h + p < D THEN h + p ELSE h + p - D
  BY <1>1, RingSum
<1> HIDE DEF p
<1>4. QED
  BY <1>1, <1>2, <1>3

(* The same up to a full turn, for a head that moves by at most one.       *)
LEMMA RingTurn ==
  ASSUME NEW D \in Nat \ {0}, NEW h \in 0 .. D - 1, NEW f \in {0, 1}, NEW r \in Nat, r + f <= D
  PROVE  /\ (h + f) % D \in 0 .. D - 1
         /\ (((h + f) % D) + r) % D = (h + (r + f)) % D
<1> DEFINE g == (h + f) % D
<1>1. /\ g \in 0 .. D - 1
      /\ g = IF h + f < D THEN h + f ELSE h + f - D
  <2>1. f \in 0 .. D
    OBVIOUS
  <2>2. QED
    BY <2>1, RingSum
<1> HIDE DEF g
<1>2. r \in 0 .. D /\ r + f \in 0 .. D
  OBVIOUS
<1>3. (h + (r + f)) % D = IF h + (r + f) < D THEN h + (r + f) ELSE h + (r + f) - D
  BY <1>2, RingSum
<1>4. (g + r) % D = IF g + r < D THEN g + r ELSE g + r - D
  BY <1>1, <1>2, RingSum
<1>5. (g + r) % D = (h + (r + f)) % D
  BY <1>1, <1>2, <1>3, <1>4
<1>6. QED
  BY <1>1, <1>5 DEF g

(* The next row of a ring.                                                 *)
LEMMA RingSucc ==
  ASSUME NEW D \in Nat \ {0}, NEW h \in 0 .. D - 1, NEW p \in 0 .. D - 1
  PROVE  (((h + p) % D) + 1) % D = (h + (p + 1)) % D
<1> DEFINE g == (h + p) % D
<1>1. /\ g \in 0 .. D - 1
      /\ g = IF h + p < D THEN h + p ELSE h + p - D
  <2>1. p \in 0 .. D
    OBVIOUS
  <2>2. QED
    BY <2>1, RingSum
<1> HIDE DEF g
<1>2. p + 1 \in 0 .. D /\ 1 \in 0 .. D
  OBVIOUS
<1>3. (h + (p + 1)) % D = IF h + (p + 1) < D THEN h + (p + 1) ELSE h + (p + 1) - D
  BY <1>2, RingSum
<1>4. (g + 1) % D = IF g + 1 < D THEN g + 1 ELSE g + 1 - D
  BY <1>1, <1>2, RingSum
<1>5. (g + 1) % D = (h + (p + 1)) % D
  BY <1>1, <1>2, <1>3, <1>4
<1>6. QED
  BY <1>5 DEF g


(* Joining two sequences.                                                  *)
LEMMA SequenceJoin ==
  ASSUME NEW s, IsSequence(s), NEW t, IsSequence(t)
  PROVE  /\ Len(s \o t) = Len(s) + Len(t) /\ DOMAIN (s \o t) = 1 .. Len(s) + Len(t)
         /\ Len(s) \in Nat /\ Len(t) \in Nat
         /\ \A k \in 1 .. Len(s) : (s \o t)[k] = s[k]
         /\ \A k \in 1 .. Len(t) : (s \o t)[Len(s) + k] = t[k]
<1> DEFINE S == {s[k] : k \in DOMAIN s} \cup {t[k] : k \in DOMAIN t}
<1>1. s \in Seq({s[k] : k \in DOMAIN s}) /\ t \in Seq({t[k] : k \in DOMAIN t})
  BY DEF IsSequence
<1>2. s \in Seq(S) /\ t \in Seq(S)
  BY <1>1
<1> HIDE DEF S
<1>3. /\ Len(s) \in Nat /\ Len(t) \in Nat /\ s \o t \in Seq(S) /\ Len(s \o t) = Len(s) + Len(t)
  BY <1>2
<1>4. DOMAIN (s \o t) = 1 .. Len(s) + Len(t)
  BY <1>2, <1>3
<1>5. \A k \in 1 .. Len(s) : (s \o t)[k] = s[k]
  BY <1>2, <1>3
<1>6. \A k \in 1 .. Len(t) : (s \o t)[Len(s) + k] = t[k]
  <2>1. SUFFICES ASSUME NEW k \in 1 .. Len(t) PROVE (s \o t)[Len(s) + k] = t[k]
    OBVIOUS
  <2>2. Len(s) + k \in 1 .. Len(s) + Len(t) /\ ~(Len(s) + k <= Len(s)) /\ Len(s) + k - Len(s) = k
    BY <1>3
  <2>3. QED
    BY <1>2, <1>3, <2>2
<1>7. QED
  BY <1>3, <1>4, <1>5, <1>6

(* How far the head of a ring has come, as the distance of two indices.    *)
LEMMA RingGain ==
  ASSUME NEW D \in Nat \ {0}, NEW h \in 0 .. D - 1, NEW n \in 0 .. D - 1
  PROVE  (((h + n) % D) + D - h) % D = n
<1>1. n \in 0 .. D
  OBVIOUS
<1>2. (h + n) % D = IF h + n < D THEN h + n ELSE h + n - D
  BY <1>1, RingSum
<1>3. n % D = n
  OBVIOUS
<1>4. (n + D) % D = n
  OBVIOUS
<1>5. (h + n) + D - h = n + D /\ (h + n - D) + D - h = n
  OBVIOUS
<1>6. QED
  BY <1>2, <1>3, <1>4, <1>5
=============================================================================
