---------------------------- MODULE RenameProofs ----------------------------
(***************************************************************************)
(* Rename, for every width, register count, ROB size, number of            *)
(* checkpoints and instruction stream.                                     *)
(***************************************************************************)
EXTENDS Rename, CommonLemmas

USE SizeAssumption

-----------------------------------------------------------------------------
(***************************************************************************)
(* The ring.                                                               *)
(***************************************************************************)

(* The ring increment stays in the ring.                                   *)
LEMMA WrapType ==
  ASSUME NEW b \in Idx, NEW k \in 0 .. NumRob
  PROVE  Wrap(b, k) \in Idx
BY DEF Wrap, Idx

(* Age and Wrap are inverse to each other.                                 *)
LEMMA AgeFromFacts ==
  ASSUME NEW h \in Idx
  PROVE  /\ \A i \in Idx : AgeFrom(h, i) \in 0 .. NumRob - 1 /\ Wrap(h, AgeFrom(h, i)) = i
         /\ \A k \in 0 .. NumRob - 1 : Wrap(h, k) \in Idx /\ AgeFrom(h, Wrap(h, k)) = k
         /\ \A i, j \in Idx : AgeFrom(h, i) = AgeFrom(h, j) => i = j
BY DEF Wrap, Idx, AgeFrom

(* The same, from the head.                                                *)
LEMMA AgeFacts ==
  ASSUME head \in Idx
  PROVE  /\ \A i \in Idx : Age(i) \in 0 .. NumRob - 1 /\ Wrap(head, Age(i)) = i
         /\ \A k \in 0 .. NumRob - 1 : Wrap(head, k) \in Idx /\ Age(Wrap(head, k)) = k
         /\ \A i, j \in Idx : Age(i) = Age(j) => i = j
BY AgeFromFacts DEF Age

(* A window of c ages holds c entries.                                     *)
LEMMA WindowCard ==
  ASSUME NEW h \in Idx, NEW c \in 0 .. NumRob
  PROVE  /\ IsFiniteSet({i \in Idx : AgeFrom(h, i) < c})
         /\ Cardinality({i \in Idx : AgeFrom(h, i) < c}) = c
<1> DEFINE W == {i \in Idx : AgeFrom(h, i) < c}
           f == [k \in 1 .. c |-> Wrap(h, k - 1)]
<1>0. /\ \A i \in Idx : AgeFrom(h, i) \in 0 .. NumRob - 1 /\ Wrap(h, AgeFrom(h, i)) = i
      /\ \A k \in 0 .. NumRob - 1 : Wrap(h, k) \in Idx /\ AgeFrom(h, Wrap(h, k)) = k
  BY AgeFromFacts
<1>1. f \in [1 .. c -> W]
  BY <1>0
<1>2. \A j, k \in 1 .. c : f[j] = f[k] => j = k
  <2>1. SUFFICES ASSUME NEW j \in 1 .. c, NEW k \in 1 .. c, f[j] = f[k] PROVE j = k
    OBVIOUS
  <2>2. AgeFrom(h, Wrap(h, j - 1)) = j - 1 /\ AgeFrom(h, Wrap(h, k - 1)) = k - 1
    BY <1>0
  <2> QED BY <2>1, <2>2
<1>3. \A i \in W : \E k \in 1 .. c : f[k] = i
  <2>1. SUFFICES ASSUME NEW i \in W PROVE \E k \in 1 .. c : f[k] = i
    OBVIOUS
  <2>2. AgeFrom(h, i) + 1 \in 1 .. c /\ Wrap(h, AgeFrom(h, i)) = i
    BY <1>0
  <2>3. /\ f[AgeFrom(h, i) + 1] = Wrap(h, (AgeFrom(h, i) + 1) - 1)
        /\ (AgeFrom(h, i) + 1) - 1 = AgeFrom(h, i)
    BY <2>2, <1>0
  <2> QED BY <2>2, <2>3
<1> HIDE DEF f
<1>4. f \in Bijection(1 .. c, W)
  BY <1>1, <1>2, <1>3 DEF Bijection, Injection, Surjection, IsInjective
<1>5. ExistsBijection(1 .. c, W)
  BY <1>4 DEF ExistsBijection
<1>6. Cardinality(W) = c /\ c \in Nat
  BY <1>5, FS_CountingElements
<1> QED
  BY <1>5, <1>6, FS_NatBijection

-----------------------------------------------------------------------------
(***************************************************************************)
(* The accepted prefix of the rename stage buffer.                         *)
(***************************************************************************)

(* Slots are naturals, and there are finitely many of them.                *)
LEMMA SlotFacts ==
  /\ Slot \subseteq Nat /\ IsFiniteSet(Slot)
  /\ Occupied \subseteq Slot
  /\ \A S \in SUBSET Slot : IsFiniteSet(S)
<1>1. Slot \subseteq Nat /\ IsFiniteSet(Slot)
  BY FS_Interval DEF Slot
<1>2. \A S \in SUBSET Slot : IsFiniteSet(S)
  BY <1>1, FS_Subset
<1> QED
  BY <1>1, <1>2 DEF Occupied

(* The accepted slots are numbered 0, 1, 2, ... by their lanes, in slot    *)
(* order, and there is ROB room for all of them.                           *)
LEMMA LaneFacts ==
  ASSUME NEW limit, robFree \in 0 .. NumRob
  PROVE  LET acc == Accepted(limit)
             m   == Cardinality(acc)
         IN  /\ acc \subseteq Occupied /\ IsFiniteSet(acc)
             /\ m \in 0 .. robFree
             /\ \A s \in acc : Lane(s) \in 0 .. m - 1
             /\ \A s, x \in acc : s < x => Lane(s) < Lane(x)
             /\ \A s, x \in acc : Lane(s) = Lane(x) => s = x
             /\ \A k \in 0 .. m - 1 : \E s \in acc : Lane(s) = k
<1> DEFINE acc == Accepted(limit)
           m   == Cardinality(acc)
<1>1. acc \subseteq Occupied /\ acc \subseteq Slot /\ acc \subseteq Nat /\ IsFiniteSet(acc)
  BY SlotFacts DEF Accepted
<1>2. m \in Nat
  BY <1>1, FS_CardinalityType
<1>3. ASSUME NEW s \in acc PROVE Lane(s) = Cardinality(Below(acc, s))
  <2>1. ASSUME NEW x \in Occupied, x < s PROVE x \in acc
    <3>1. \A y \in Occupied : y <= x => y <= s
      BY <1>1, <2>1, SlotFacts
    <3> QED BY <3>1, <1>3, <2>1 DEF Accepted
  <2>2. {x \in Occupied : x < s} = Below(acc, s)
    BY <2>1, <1>1 DEF Below
  <2> QED BY <2>2 DEF Lane
<1> HIDE DEF acc
<1>4. \A s \in acc : Lane(s) \in 0 .. m - 1
  <2>1. SUFFICES ASSUME NEW s \in acc PROVE Lane(s) \in 0 .. m - 1
    OBVIOUS
  <2>2. Cardinality(Below(acc, s)) \in Nat /\ Cardinality(Below(acc, s)) < m
    BY <1>1, RankBound
  <2> QED BY <2>2, <1>2, <1>3
<1>5. \A s, x \in acc : s < x => Lane(s) < Lane(x)
  BY <1>1, <1>3, RankMonotone
<1>6. \A s, x \in acc : Lane(s) = Lane(x) => s = x
  BY <1>1, <1>3, RankInjective
<1>7. \A k \in 0 .. m - 1 : \E s \in acc : Lane(s) = k
  <2>1. SUFFICES ASSUME NEW k \in 0 .. m - 1 PROVE \E s \in acc : Lane(s) = k
    OBVIOUS
  <2>2. k \in Nat /\ k < m
    BY <1>2
  <2>3. PICK s \in acc : Cardinality(Below(acc, s)) = k
    BY <2>2, <1>1, RankExists
  <2> QED BY <2>3, <1>3
<1>8. m <= robFree
  <2>1. CASE m = 0
    BY <2>1
  <2>2. CASE m # 0
    <3>1. PICK s \in acc : Lane(s) = m - 1
      BY <2>2, <1>2, <1>7
    <3>2. LaneOk(s, limit)
      BY <1>1, SlotFacts DEF acc, Accepted
    <3>3. robFree >= Lane(s) + 1
      BY <3>2 DEF LaneOk
    <3> QED BY <3>1, <3>3, <1>2
  <2> QED BY <2>1, <2>2
<1> QED
  BY <1>1, <1>2, <1>4, <1>5, <1>6, <1>7, <1>8 DEF acc

(* An accepted branch gets a tag that is free at the start of the cycle,   *)
(* and no two accepted branches get the same one.                          *)
LEMMA TagFacts ==
  ASSUME NEW limit, cpValid \in SUBSET Tag
  PROVE  LET acc == Accepted(limit)
         IN  /\ \A s \in acc : slot[s].uop.br => NewTag(s) \in Tag \ cpValid
             /\ \A s \in acc : ~slot[s].uop.br => NewTag(s) = NoTag
             /\ \A s, x \in acc : slot[s].uop.br /\ slot[x].uop.br /\ NewTag(s) = NewTag(x)
                                    => s = x
<1> DEFINE acc == Accepted(limit)
           F == Tag \ cpValid
           B == {x \in Occupied : slot[x].uop.br}
<1>1. ASSUME NEW s \in acc, slot[s].uop.br
      PROVE  /\ NewTag(s) \in F
             /\ Cardinality({y \in F : y < NewTag(s)}) = BranchesBefore(s)
  <2>1. s \in Occupied /\ LaneOk(s, limit)
    BY SlotFacts DEF Accepted
  <2>2. HasNth(F, BranchesBefore(s))
    BY <2>1, <1>1 DEF LaneOk, CheckpointGrant
  <2> HIDE DEF F
  <2>3. /\ Nth(F, BranchesBefore(s)) \in F
        /\ Cardinality({y \in F : y < Nth(F, BranchesBefore(s))}) = BranchesBefore(s)
    BY <2>2 DEF HasNth, Nth
  <2> QED BY <2>3, <1>1 DEF NewTag, F
<1>2. ASSUME NEW s \in acc, slot[s].uop.br
      PROVE  s \in B /\ BranchesBefore(s) = Cardinality(Below(B, s))
  <2>1. s \in B
    BY <1>2 DEF Accepted
  <2>2. {x \in Occupied : x < s /\ slot[x].uop.br} = Below(B, s)
    BY DEF Below
  <2> QED BY <2>1, <2>2 DEF BranchesBefore
<1>3. B \subseteq Nat /\ IsFiniteSet(B)
  <2>1. B \in SUBSET Slot
    BY SlotFacts
  <2> QED BY <2>1, SlotFacts
<1>4. ASSUME NEW s \in acc, NEW x \in acc, slot[s].uop.br, slot[x].uop.br,
             NewTag(s) = NewTag(x)
      PROVE  s = x
  <2> HIDE DEF B
  <2>1. Cardinality(Below(B, s)) = Cardinality(Below(B, x))
    BY <1>1, <1>2, <1>4
  <2> QED BY <2>1, <1>2, <1>3, <1>4, RankInjective
<1>5. \A s \in acc : ~slot[s].uop.br => NewTag(s) = NoTag
  BY DEF NewTag
<1> QED
  BY <1>1, <1>4, <1>5

(* The latest of a non-empty set of slots is one of them.                  *)
LEMMA LatestFacts ==
  ASSUME NEW S, S \subseteq Slot, S # {}
  PROVE  Latest(S) \in S /\ \A x \in S : x <= Latest(S)
<1>1. S \subseteq Nat /\ IsFiniteSet(S)
  BY SlotFacts
<1>2. \E m \in S : \A x \in S : x <= m
  BY <1>1, FiniteMax
<1> QED
  BY <1>2 DEF Latest

-----------------------------------------------------------------------------
(***************************************************************************)
(* Types.                                                                  *)
(***************************************************************************)

(* The allocator and the map hand out physical registers.                  *)
LEMMA PregType ==
  ASSUME TypeOK, NEW acc
  PROVE  /\ 0 \in Preg
         /\ \A s : NewPreg(acc, s) \in Preg
         /\ \A d : \A a \in Arch : Source(acc, d, a) \in Preg
         /\ \A s : MapAfter(acc, s) \in [Arch -> Preg]
<1>1. 0 \in Preg
  BY DEF Preg
<1>2. Avail \subseteq Preg
  BY DEF TypeOK, Avail
<1>3. ASSUME NEW s PROVE NewPreg(acc, s) \in Preg
  <2>1. CASE Demand(slot[s].uop) /\ HasNth(Avail, PregRank(acc, s))
    <3>1. Nth(Avail, PregRank(acc, s)) \in Avail
      BY <2>1 DEF HasNth, Nth
    <3> QED BY <2>1, <3>1, <1>2 DEF NewPreg
  <2>2. CASE ~(Demand(slot[s].uop) /\ HasNth(Avail, PregRank(acc, s)))
    BY <2>2, <1>1 DEF NewPreg
  <2> QED BY <2>1, <2>2
<1>4. ASSUME NEW d, NEW a \in Arch PROVE Source(acc, d, a) \in Preg
  BY <1>3 DEF Source, TypeOK
<1>5. ASSUME NEW s PROVE MapAfter(acc, s) \in [Arch -> Preg]
  BY <1>3 DEF MapAfter, TypeOK
<1> QED
  BY <1>1, <1>3, <1>4, <1>5

(* R1 fills the buffer with well-formed slots.                             *)
LEMMA LoadedType ==
  ASSUME NEW g \in Groups
  PROVE  Loaded(g) \in [Slot -> SlotEntry \cup {NoEntry}]
<1>1. g \in Seq(Uop) /\ Len(g) \in 1 .. Width
  BY GroupAssumption
<1>2. ASSUME NEW s, NEW a PROVE NearestWriter(g, s, a) \in Dep
  <2>1. Writers(g, s, a) \subseteq Slot
    BY DEF Writers
  <2> QED BY <2>1, LatestFacts DEF NearestWriter, Dep
<1>3. ASSUME NEW s \in Slot, s < Len(g) PROVE R1Slot(g, s) \in SlotEntry
  <2>1. g[s + 1] \in Uop
    BY <1>1, <1>3 DEF Slot
  <2> QED BY <2>1, <1>2 DEF R1Slot, SlotEntry, Dep
<1> QED
  BY <1>3 DEF Loaded

-----------------------------------------------------------------------------
(***************************************************************************)
(* The ring and the branch masks.                                          *)
(***************************************************************************)
RingInv == TypeOK /\ RobWindow /\ MaskIsOlderBranches

(* The empty window: what reset and flush leave behind.                    *)
LEMMA EmptyWindow ==
  ASSUME head = 0, tail = 0, robFree = NumRob, cpValid = {},
         entry = [i \in Idx |-> NoEntry]
  PROVE  RobWindow /\ MaskIsOlderBranches
<1>1. Valid = {}
  BY DEF Valid
<1>2. Cardinality(Valid) = 0
  BY <1>1, FS_EmptySet
<1>3. \A i \in Idx : ~(Age(i) < 0)
  <2>1. head \in Idx
    BY DEF Idx
  <2> QED BY <2>1, AgeFacts
<1>4. RobWindow
  BY <1>1, <1>2, <1>3 DEF RobWindow, Wrap
<1>5. MaskIsOlderBranches
  BY <1>1 DEF MaskIsOlderBranches, Unresolved
<1> QED
  BY <1>4, <1>5

(* What one edge without recovery does to the ring: ages below n leave,    *)
(* the others keep their entries, the accepted lanes append theirs.        *)
LEMMA CycleShape ==
  ASSUME TypeOK, RobWindow,
         NEW n \in 0 .. RetireWidth, NEW t, NEW limit, NEW g, Cycle(n, t, limit, g)
  PROVE  LET acc == Accepted(limit)
             m == Cardinality(acc)
             c == NumRob - robFree
         IN  /\ n \in 0 .. c /\ m \in 0 .. robFree
             /\ head' \in Idx /\ tail' \in Idx /\ robFree' = NumRob - (c - n + m)
             /\ robFree' \in 0 .. NumRob /\ tail' = Wrap(head', c - n + m)
             /\ \A i \in Idx : Age(i)' = IF Age(i) >= n THEN Age(i) - n
                                         ELSE Age(i) - n + NumRob
             /\ \A i \in Idx : Age(i) < n => entry[i] # NoEntry /\ entry[i].complete
             /\ \A i \in Idx : (Age(i) < n \/ Age(i) >= c + m) => entry'[i] = NoEntry
             /\ \A i \in Idx : n <= Age(i) /\ Age(i) < c =>
                  entry[i] # NoEntry /\ entry'[i] = ResolveEntry(entry[i], t)
             /\ \A s \in acc : /\ RobIdx(s) \in Idx /\ Age(RobIdx(s)) = c + Lane(s)
                               /\ entry'[RobIdx(s)] = NewEntry(acc, s, t)
             /\ \A i \in Idx : c <= Age(i) /\ Age(i) < c + m =>
                  \E s \in acc : i = RobIdx(s)
<1> DEFINE acc == Accepted(limit)
           m == Cardinality(acc)
           c == NumRob - robFree
<1>1. /\ head \in Idx /\ tail \in Idx /\ robFree \in 0 .. NumRob
      /\ tail = Wrap(head, c) /\ c \in 0 .. NumRob
      /\ \A i \in Idx : entry[i] # NoEntry <=> Age(i) < c
  BY DEF TypeOK, RobWindow, Valid
<1>2. /\ acc \subseteq Occupied /\ m \in 0 .. robFree
      /\ \A s \in acc : Lane(s) \in 0 .. m - 1
      /\ \A s, x \in acc : Lane(s) = Lane(x) => s = x
      /\ \A k \in 0 .. m - 1 : \E s \in acc : Lane(s) = k
  BY <1>1, LaneFacts
<1>3. /\ CanRetire(n)
      /\ head' = Wrap(head, n) /\ tail' = Wrap(tail, m) /\ robFree' = robFree + n - m
      /\ entry' = [i \in Idx |->
           IF \E s \in acc : RobIdx(s) = i
             THEN NewEntry(acc, CHOOSE s \in acc : RobIdx(s) = i, t)
           ELSE IF i \in RetireIdx(n) \/ entry[i] = NoEntry THEN NoEntry
           ELSE ResolveEntry(entry[i], t)]
  BY DEF Cycle
<1> HIDE DEF acc, m, c
<1>4. \A i \in Idx : Age(i) < n => entry[i] # NoEntry /\ entry[i].complete
  <2>1. SUFFICES ASSUME NEW i \in Idx, Age(i) < n
                 PROVE  entry[i] # NoEntry /\ entry[i].complete
    OBVIOUS
  <2>2. Age(i) \in 0 .. n - 1 /\ Wrap(head, Age(i)) = i
    BY <2>1, <1>1, AgeFacts
  <2> QED BY <2>2, <1>3 DEF CanRetire
<1>5. n \in 0 .. c
  <2>1. CASE n = 0
    BY <2>1, <1>1
  <2>2. CASE n # 0
    <3>1. n - 1 \in 0 .. NumRob - 1
      BY <2>2
    <3>2. Wrap(head, n - 1) \in Idx /\ Age(Wrap(head, n - 1)) = n - 1
      BY <3>1, <1>1, AgeFacts
    <3>3. n - 1 < c
      BY <3>1, <3>2, <1>1, <1>4
    <3> QED BY <3>3, <1>1
  <2> QED BY <2>1, <2>2
<1>6. /\ head' \in Idx /\ tail' \in Idx
      /\ robFree' = NumRob - (c - n + m) /\ robFree' \in 0 .. NumRob
      /\ tail' = Wrap(head', c - n + m)
  <2>1. robFree = NumRob - c
    BY <1>1 DEF c
  <2> QED BY <2>1, <1>1, <1>2, <1>3, <1>5 DEF Wrap, Idx
<1>7. \A i \in Idx : Age(i)' = IF Age(i) >= n THEN Age(i) - n ELSE Age(i) - n + NumRob
  BY <1>1, <1>3, <1>5 DEF Age, AgeFrom, Wrap, Idx
<1>8. ASSUME NEW s \in acc
      PROVE  RobIdx(s) \in Idx /\ Age(RobIdx(s)) = c + Lane(s) /\ c + Lane(s) < c + m
  <2>1. robFree = NumRob - c
    BY <1>1 DEF c
  <2>2. Lane(s) \in 0 .. m - 1 /\ c + Lane(s) \in 0 .. NumRob - 1
    BY <2>1, <1>1, <1>2
  <2>3. Wrap(Wrap(head, c), Lane(s)) = Wrap(head, c + Lane(s))
    BY <2>2, <1>1 DEF Wrap, Idx
  <2> QED BY <2>2, <2>3, <1>1, <1>2, AgeFacts DEF RobIdx
<1>9. ASSUME NEW s \in acc PROVE entry'[RobIdx(s)] = NewEntry(acc, s, t)
  <2>1. \A x \in acc : RobIdx(x) = RobIdx(s) => x = s
    <3>1. SUFFICES ASSUME NEW x \in acc, RobIdx(x) = RobIdx(s) PROVE x = s
      OBVIOUS
    <3>2. c + Lane(x) = c + Lane(s)
      BY <3>1, <1>8
    <3> QED BY <3>2, <1>1, <1>2
  <2>2. (CHOOSE x \in acc : RobIdx(x) = RobIdx(s)) = s
    BY <2>1
  <2> QED BY <2>2, <1>3, <1>8
<1>10. ASSUME NEW i \in Idx, Age(i) < c \/ Age(i) >= c + m
       PROVE  ~ \E s \in acc : RobIdx(s) = i
  <2>1. SUFFICES ASSUME NEW s \in acc, RobIdx(s) = i PROVE FALSE
    OBVIOUS
  <2>2. Age(i) = c + Lane(s) /\ Lane(s) \in 0 .. m - 1
    BY <2>1, <1>2, <1>8
  <2> QED BY <2>2, <1>1, <1>2, <1>10
<1>11. \A i \in Idx : i \in RetireIdx(n) <=> Age(i) < n
  <2>1. SUFFICES ASSUME NEW i \in Idx PROVE i \in RetireIdx(n) <=> Age(i) < n
    OBVIOUS
  <2>2. Age(i) \in 0 .. NumRob - 1 /\ Wrap(head, Age(i)) = i
    BY <1>1, AgeFacts
  <2>3. ASSUME NEW k \in 0 .. n - 1 PROVE Age(Wrap(head, k)) = k
    <3>1. k \in 0 .. NumRob - 1
      OBVIOUS
    <3> QED BY <3>1, <1>1, AgeFacts
  <2> QED BY <2>2, <2>3 DEF RetireIdx
<1>12. \A i \in Idx : (Age(i) < n \/ Age(i) >= c + m) => entry'[i] = NoEntry
  <2>1. SUFFICES ASSUME NEW i \in Idx, Age(i) < n \/ Age(i) >= c + m
                 PROVE  entry'[i] = NoEntry
    OBVIOUS
  <2>2. Age(i) \in Nat /\ (Age(i) < c \/ Age(i) >= c + m)
    BY <2>1, <1>1, <1>5, AgeFacts
  <2>3. ~ \E s \in acc : RobIdx(s) = i
    BY <2>2, <1>10
  <2>4. i \in RetireIdx(n) \/ entry[i] = NoEntry
    BY <2>1, <2>2, <1>1, <1>2, <1>11
  <2> QED BY <2>3, <2>4, <1>3
<1>13. \A i \in Idx : n <= Age(i) /\ Age(i) < c =>
         entry[i] # NoEntry /\ entry'[i] = ResolveEntry(entry[i], t)
  <2>1. SUFFICES ASSUME NEW i \in Idx, n <= Age(i), Age(i) < c
                 PROVE  entry[i] # NoEntry /\ entry'[i] = ResolveEntry(entry[i], t)
    OBVIOUS
  <2>2. i \notin RetireIdx(n) /\ entry[i] # NoEntry
    BY <2>1, <1>1, <1>11, AgeFacts
  <2> QED BY <2>1, <2>2, <1>3, <1>10
<1>14. \A i \in Idx : c <= Age(i) /\ Age(i) < c + m => \E s \in acc : i = RobIdx(s)
  <2>1. SUFFICES ASSUME NEW i \in Idx, c <= Age(i), Age(i) < c + m
                 PROVE  \E s \in acc : i = RobIdx(s)
    OBVIOUS
  <2>2. Age(i) \in Nat /\ Age(i) - c \in 0 .. m - 1
    BY <2>1, <1>1, <1>2, AgeFacts
  <2>3. PICK s \in acc : Lane(s) = Age(i) - c
    BY <2>2, <1>2
  <2>4. Age(RobIdx(s)) = Age(i) /\ RobIdx(s) \in Idx
    BY <2>2, <2>3, <1>1, <1>8
  <2> QED BY <2>4, <1>1, AgeFacts
<1> QED
  BY <1>2, <1>4, <1>5, <1>6, <1>7, <1>8, <1>9, <1>12, <1>13, <1>14 DEF acc, m, c

(* The entries an edge writes are ROB entries.                             *)
LEMMA EntryType ==
  ASSUME TypeOK, NEW t \in Tag \cup {NoTag}, NEW limit
  PROVE  LET acc == Accepted(limit)
         IN  /\ \A s : LaneMask(acc, s, t) \in SUBSET Tag
             /\ \A s \in acc : NewEntry(acc, s, t) \in RobEntry
             /\ \A e \in RobEntry : ResolveEntry(e, t) \in RobEntry
<1> DEFINE acc == Accepted(limit)
<1>1. \A s \in acc : slot[s] \in SlotEntry
  <2>1. acc \subseteq Occupied /\ Occupied \subseteq Slot
    BY SlotFacts DEF Accepted
  <2> QED BY <2>1 DEF TypeOK, Occupied
<1>2. /\ 0 \in Preg
      /\ \A s : NewPreg(acc, s) \in Preg
      /\ \A d : \A a \in Arch : Source(acc, d, a) \in Preg
  BY PregType
<1>3. \A s \in acc : NewTag(s) \in Tag \cup {NoTag}
  BY TagFacts DEF TypeOK
<1>4. ASSUME NEW s PROVE LaneMask(acc, s, t) \in SUBSET Tag
  <2>1. \A x \in acc : slot[x].uop.br => NewTag(x) \in Tag
    BY TagFacts DEF TypeOK
  <2> QED BY <2>1 DEF LaneMask, TypeOK
<1>5. ASSUME NEW s \in acc PROVE NewEntry(acc, s, t) \in RobEntry
  <2>1. slot[s].uop \in Uop
    BY <1>1 DEF SlotEntry
  <2>2. OldPreg(acc, s) \in Preg
    BY <2>1, <1>2 DEF OldPreg, Uop
  <2> QED BY <2>1, <2>2, <1>2, <1>3, <1>4 DEF NewEntry, RobEntry, Uop
<1>6. ASSUME NEW e \in RobEntry PROVE ResolveEntry(e, t) \in RobEntry
  BY DEF ResolveEntry, RobEntry
<1> QED
  BY <1>4, <1>5, <1>6

(* An edge without recovery keeps every register in its type.              *)
LEMMA CycleType ==
  ASSUME TypeOK, RobWindow,
         NEW n \in 0 .. RetireWidth, NEW t \in Tag \cup {NoTag}, NEW limit,
         NEW g \in Groups \cup {<<>>}, Cycle(n, t, limit, g)
  PROVE  TypeOK'
<1> DEFINE acc == Accepted(limit)
<1>1. acc \subseteq Slot
  BY SlotFacts DEF Accepted
<1>2. /\ head' \in Idx /\ tail' \in Idx /\ robFree' \in 0 .. NumRob
  BY CycleShape
<1>3. /\ \A s : NewPreg(acc, s) \in Preg
      /\ \A s : MapAfter(acc, s) \in [Arch -> Preg]
  BY PregType
<1>4. /\ \A s : LaneMask(acc, s, t) \in SUBSET Tag
      /\ \A s \in acc : NewEntry(acc, s, t) \in RobEntry
      /\ \A e \in RobEntry : ResolveEntry(e, t) \in RobEntry
  BY EntryType
<1>8. entry' \in [Idx -> RobEntry \cup {NoEntry}]
  <2>1. entry' = [i \in Idx |->
           IF \E s \in acc : RobIdx(s) = i
             THEN NewEntry(acc, CHOOSE s \in acc : RobIdx(s) = i, t)
           ELSE IF i \in RetireIdx(n) \/ entry[i] = NoEntry THEN NoEntry
           ELSE ResolveEntry(entry[i], t)]
    BY DEF Cycle
  <2> HIDE DEF acc
  <2>2. SUFFICES ASSUME NEW i \in Idx PROVE entry'[i] \in RobEntry \cup {NoEntry}
    BY <2>1
  <2>3. entry[i] \in RobEntry \cup {NoEntry}
    BY DEF TypeOK
  <2>4. CASE \E s \in acc : RobIdx(s) = i
    <3>1. (CHOOSE s \in acc : RobIdx(s) = i) \in acc
      BY <2>4
    <3> QED BY <2>1, <2>4, <3>1, <1>4
  <2>5. CASE ~ \E s \in acc : RobIdx(s) = i
    BY <2>1, <2>3, <2>5, <1>4
  <2> QED BY <2>4, <2>5
<1>9. commMap' \in [Arch -> Preg]
  <2>1. ASSUME NEW a \in Arch, CommitPortsOf(n, a) # {}
        PROVE  entry[Wrap(head, Latest(CommitPortsOf(n, a)))].new \in Preg
    <3>1. CommitPortsOf(n, a) \subseteq 0 .. n - 1 /\ n <= NumRob
      BY DEF CommitPortsOf, CommitPorts
    <3>2. CommitPortsOf(n, a) \subseteq Nat /\ IsFiniteSet(CommitPortsOf(n, a))
      <4>1. IsFiniteSet(0 .. n - 1)
        BY FS_Interval
      <4> QED BY <3>1, <4>1, FS_Subset
    <3>3. \E k \in CommitPortsOf(n, a) : \A j \in CommitPortsOf(n, a) : j <= k
      BY <3>2, <2>1, FiniteMax
    <3>4. Latest(CommitPortsOf(n, a)) \in 0 .. n - 1
      BY <3>1, <3>3 DEF Latest
    <3>5. entry[Wrap(head, Latest(CommitPortsOf(n, a)))] # NoEntry
      BY <3>4 DEF Cycle, CanRetire
    <3>6. Wrap(head, Latest(CommitPortsOf(n, a))) \in Idx
      BY <3>1, <3>4, WrapType DEF TypeOK
    <3>7. entry[Wrap(head, Latest(CommitPortsOf(n, a)))] \in RobEntry
      BY <3>5, <3>6 DEF TypeOK
    <3> QED BY <3>7 DEF RobEntry
  <2> QED BY <2>1 DEF Cycle, CommittedMap, TypeOK
<1>10. free' \in SUBSET Preg /\ commFree' \in SUBSET Preg
  BY DEF Cycle, TypeOK, CommittedFree, Released
<1>11. specMap' \in [Arch -> Preg] /\ cpMap' \in [Tag -> [Arch -> Preg]]
  BY <1>3 DEF Cycle, TypeOK
<1>12. allocMask' \in [Tag -> SUBSET Preg]
  <2>1. ASSUME NEW c \in Tag PROVE AllocRow(acc, t, c) \in SUBSET Preg
    BY <1>3 DEF AllocRow, TypeOK
  <2> QED BY <2>1 DEF Cycle
<1>13. cpValid' \in SUBSET Tag /\ parent' \in [Tag -> SUBSET Tag]
  BY <1>4 DEF Cycle, TypeOK
<1>14. cpTail' \in [Tag -> Idx]
  <2>1. ASSUME NEW c \in Tag, Creators(acc, c) # {}
        PROVE  Wrap(RobIdx(Latest(Creators(acc, c))), 1) \in Idx
    <3>1. Creators(acc, c) \subseteq acc
      BY DEF Creators
    <3>2. Latest(Creators(acc, c)) \in acc
      BY <3>1, <2>1, <1>1, LatestFacts
    <3>3. RobIdx(Latest(Creators(acc, c))) \in Idx
      BY <3>2, CycleShape
    <3> QED BY <3>3, WrapType
  <2> QED BY <2>1 DEF Cycle, TypeOK
<1>15. slot' \in [Slot -> SlotEntry \cup {NoEntry}]
  BY LoadedType DEF Cycle, TypeOK
<1> QED
  BY <1>2, <1>8, <1>9, <1>10, <1>11, <1>12, <1>13, <1>14, <1>15 DEF TypeOK

(* An edge without recovery keeps the window and the masks: retired        *)
(* entries own no tag, appended entries are the youngest, a resolved tag   *)
(* leaves every mask.                                                      *)
LEMMA CycleMasks ==
  ASSUME TypeOK, RobWindow, MaskIsOlderBranches,
         NEW n \in 0 .. RetireWidth, NEW t \in Tag \cup {NoTag}, NEW limit,
         NEW g \in Groups \cup {<<>>}, Cycle(n, t, limit, g)
  PROVE  RobWindow' /\ MaskIsOlderBranches'
<1> DEFINE acc == Accepted(limit)
           m == Cardinality(acc)
           c == NumRob - robFree
           Old == {i \in Idx : n <= Age(i) /\ Age(i) < c}
<1>0. NoTag \notin Tag /\ NoEntry \notin RobEntry
  BY SentinelAssumption
<1>1. /\ n \in 0 .. c /\ m \in 0 .. robFree /\ c \in 0 .. NumRob
      /\ head \in Idx /\ head' \in Idx
      /\ robFree' = NumRob - (c - n + m) /\ robFree' \in 0 .. NumRob
      /\ tail' = Wrap(head', c - n + m)
      /\ robFree = NumRob - c
  BY CycleShape DEF TypeOK
<1>2. /\ \A i \in Idx : Age(i)' = IF Age(i) >= n THEN Age(i) - n ELSE Age(i) - n + NumRob
      /\ \A i \in Idx : Age(i) < n => entry[i] # NoEntry /\ entry[i].complete
      /\ \A i \in Idx : (Age(i) < n \/ Age(i) >= c + m) => entry'[i] = NoEntry
      /\ \A i \in Old : entry[i] # NoEntry /\ entry'[i] = ResolveEntry(entry[i], t)
  BY CycleShape
<1>3. /\ \A s \in acc : /\ RobIdx(s) \in Idx /\ Age(RobIdx(s)) = c + Lane(s)
                        /\ entry'[RobIdx(s)] = NewEntry(acc, s, t)
      /\ \A i \in Idx : c <= Age(i) /\ Age(i) < c + m => \E s \in acc : i = RobIdx(s)
  BY CycleShape
<1>4. /\ \A i \in Idx : Age(i) \in 0 .. NumRob - 1
      /\ \A i, j \in Idx : Age(i) = Age(j) => i = j
  BY <1>1, AgeFacts
<1>5. /\ acc \subseteq Occupied /\ acc \subseteq Nat
      /\ \A s \in acc : Lane(s) \in 0 .. m - 1
      /\ \A s, x \in acc : s < x => Lane(s) < Lane(x)
  <2>1. acc \subseteq Nat
    BY SlotFacts DEF Accepted
  <2>2. /\ acc \subseteq Occupied
        /\ \A s \in acc : Lane(s) \in 0 .. m - 1
        /\ \A s, x \in acc : s < x => Lane(s) < Lane(x)
    <3>1. robFree \in 0 .. NumRob
      BY DEF TypeOK
    <3> QED BY <3>1, LaneFacts
  <2> QED BY <2>1, <2>2
<1>6. /\ \A s \in acc : slot[s].uop.br => NewTag(s) \in Tag \ cpValid
      /\ \A s \in acc : ~slot[s].uop.br => NewTag(s) = NoTag
      /\ \A s, x \in acc : slot[s].uop.br /\ slot[x].uop.br /\ NewTag(s) = NewTag(x) => s = x
  BY TagFacts DEF TypeOK
<1>7. \A i \in Idx : entry[i] # NoEntry <=> Age(i) < c
  BY DEF RobWindow, Valid
<1>8. /\ cpValid' = (cpValid \ {t}) \cup {u \in Tag : Creators(acc, u) # {}}
      /\ parent' = [u \in Tag |->
           IF Creators(acc, u) # {} THEN LaneMask(acc, Latest(Creators(acc, u)), t)
           ELSE IF u = t THEN parent[u] ELSE parent[u] \ {t}]
      /\ cpTail' = [u \in Tag |-> IF Creators(acc, u) = {} THEN cpTail[u]
                                  ELSE Wrap(RobIdx(Latest(Creators(acc, u))), 1)]
  BY DEF Cycle
<1>9. /\ \A s \in acc : NewEntry(acc, s, t) \in RobEntry
      /\ \A e \in RobEntry : ResolveEntry(e, t) \in RobEntry
  BY EntryType
<1>10. /\ acc \subseteq Slot /\ cpValid \subseteq Tag
       /\ \A i \in Old : entry[i] \in RobEntry
  BY <1>2, SlotFacts DEF TypeOK, Accepted
<1> HIDE DEF acc, m, c
(* Who is in the next window, and in which order.                          *)
<1>11. \A i \in Old : entry'[i] # NoEntry
  BY <1>0, <1>2, <1>9, <1>10
<1>12. \A s \in acc : entry'[RobIdx(s)] # NoEntry
  BY <1>0, <1>3, <1>9
<1>13. \A i \in Idx : entry'[i] # NoEntry => i \in Old \/ \E s \in acc : i = RobIdx(s)
  <2>1. SUFFICES ASSUME NEW i \in Idx, entry'[i] # NoEntry
                 PROVE  i \in Old \/ \E s \in acc : i = RobIdx(s)
    OBVIOUS
  <2>2. ~(Age(i) < n) /\ ~(Age(i) >= c + m)
    BY <2>1, <1>2
  <2>3. Age(i) \in Nat /\ c \in Nat /\ m \in Nat /\ n \in Nat
    BY <1>1, <1>4
  <2> QED BY <2>2, <2>3, <1>3
<1>14. /\ \A i \in Old : Age(i)' = Age(i) - n
       /\ \A s \in acc : \A i : i = RobIdx(s) => Age(i)' = c + Lane(s) - n
  <2>1. \A s \in acc : c + Lane(s) >= n /\ Lane(s) \in Nat
    BY <1>1, <1>5
  <2>2. \A i \in Old : Age(i)' = Age(i) - n
    BY <1>2
  <2>3. ASSUME NEW s \in acc, NEW i, i = RobIdx(s) PROVE Age(i)' = c + Lane(s) - n
    <3>1. i \in Idx /\ Age(i) = c + Lane(s)
      BY <2>3, <1>3
    <3>2. Age(i) >= n
      BY <3>1, <2>1
    <3>3. Age(i)' = Age(i) - n
      BY <3>1, <3>2, <1>2
    <3> QED BY <3>1, <3>3, <2>1, <1>1
  <2> QED BY <2>2, <2>3
(* Who owns which tag afterwards.                                          *)
<1>15. \A i \in Old : \A u \in Tag : Owns(i, u)' <=> Owns(i, u) /\ u # t
  <2>1. SUFFICES ASSUME NEW i \in Old, NEW u \in Tag
                 PROVE  Owns(i, u)' <=> Owns(i, u) /\ u # t
    OBVIOUS
  <2>2. entry'[i] = ResolveEntry(entry[i], t) /\ entry[i] \in RobEntry
    BY <1>2, <1>10
  <2>3. /\ ResolveEntry(entry[i], t).tag = entry[i].tag
        /\ ResolveEntry(entry[i], t).resolved = (entry[i].resolved \/ entry[i].tag = t)
    BY <2>2 DEF ResolveEntry, RobEntry
  <2> QED BY <2>2, <2>3 DEF Owns
<1>16. \A s \in acc : \A i : i = RobIdx(s) =>
         \A u \in Tag : Owns(i, u)' <=> slot[s].uop.br /\ NewTag(s) = u
  <2>1. SUFFICES ASSUME NEW s \in acc, NEW i, i = RobIdx(s), NEW u \in Tag
                 PROVE  Owns(i, u)' <=> slot[s].uop.br /\ NewTag(s) = u
    OBVIOUS
  <2>2. /\ NewEntry(acc, s, t).tag = NewTag(s)
        /\ NewEntry(acc, s, t).resolved = FALSE
    BY DEF NewEntry
  <2>3. entry'[i] = NewEntry(acc, s, t)
    BY <2>1, <1>3
  <2> QED BY <2>2, <2>3, <1>0, <1>6 DEF Owns
<1>17. \A i \in Idx : \A u \in Tag : entry[i] # NoEntry /\ Owns(i, u) => i \in Old
  <2>1. SUFFICES ASSUME NEW i \in Idx, NEW u \in Tag, entry[i] # NoEntry, Owns(i, u)
                 PROVE  i \in Old
    OBVIOUS
  <2>2. ~entry[i].complete
    BY <2>1, <1>0 DEF Owns, MaskIsOlderBranches, Valid
  <2>3. ~(Age(i) < n) /\ Age(i) < c
    BY <2>1, <2>2, <1>2, <1>7
  <2> QED BY <2>3, <1>4
<1>18. /\ \A u \in cpValid : \E i \in Old : Owns(i, u)
       /\ \A i \in Old : \A u \in Tag : Owns(i, u) => u \in cpValid
       /\ \A i, j \in Old : \A u \in Tag : Owns(i, u) /\ Owns(j, u) => i = j
  <2>1. \A u \in Tag : u \in cpValid <=> \E i \in Valid : Owns(i, u)
    BY <1>10 DEF MaskIsOlderBranches, Unresolved
  <2>2. \A i \in Idx : i \in Valid <=> entry[i] # NoEntry
    BY DEF Valid
  <2>3. \A u \in cpValid, i, j \in Valid : Owns(i, u) /\ Owns(j, u) => i = j
    BY DEF MaskIsOlderBranches
  <2>4. \A i \in Old : i \in Valid
    BY <2>2, <1>2
  <2>5. \A i \in Old : \A u \in Tag : Owns(i, u) => u \in cpValid
    BY <2>1, <2>4
  <2>6. \A u \in cpValid : \E i \in Old : Owns(i, u)
    BY <2>1, <2>2, <1>10, <1>17 DEF Valid
  <2> QED BY <2>3, <2>4, <2>5, <2>6
<1>19. /\ \A s \in acc : slot[s].uop.br => /\ Creators(acc, NewTag(s)) = {s}
                                           /\ Latest(Creators(acc, NewTag(s))) = s
       /\ \A u \in cpValid : Creators(acc, u) = {}
  <2>1. ASSUME NEW s \in acc, slot[s].uop.br PROVE Creators(acc, NewTag(s)) = {s}
    BY <2>1, <1>6 DEF Creators
  <2>2. ASSUME NEW s \in acc PROVE Latest({s}) = s
    <3>1. {s} \subseteq Slot /\ {s} # {}
      BY <1>10
    <3> QED BY <3>1, LatestFacts
  <2>3. \A u \in cpValid : Creators(acc, u) = {}
    BY <1>6 DEF Creators
  <2> QED BY <2>1, <2>2, <2>3
<1>20. \A i \in Idx : i \in Valid' <=> entry'[i] # NoEntry
  BY DEF Valid
<1>21. Valid' \subseteq Idx /\ Valid \subseteq Idx
  BY DEF Valid
<1> HIDE DEF Old
<1>22. Old \subseteq Idx /\ Old \subseteq Valid
  BY <1>2, <1>4 DEF Old, Valid
<1>23. cpValid' = {u \in Tag : Unresolved(u)'}
  <2>1. \A u \in Tag : Unresolved(u)' <=> \E i \in Valid' : Owns(i, u)'
    BY DEF Unresolved
  <2>2. ASSUME NEW u \in Tag, u \in cpValid' PROVE \E i \in Valid' : Owns(i, u)'
    <3>1. CASE u \in cpValid /\ u # t
      BY <3>1, <1>11, <1>15, <1>18, <1>20, <1>22
    <3>2. CASE Creators(acc, u) # {}
      <4>1. PICK s \in acc : slot[s].uop.br /\ NewTag(s) = u
        BY <3>2 DEF Creators
      <4> QED BY <4>1, <1>3, <1>12, <1>16, <1>20
    <3> QED BY <2>2, <3>1, <3>2, <1>8
  <2>3. ASSUME NEW u \in Tag, NEW i \in Valid', Owns(i, u)' PROVE u \in cpValid'
    <3>1. CASE i \in Old
      BY <3>1, <2>3, <1>8, <1>15, <1>18
    <3>2. CASE \E s \in acc : i = RobIdx(s)
      <4>1. PICK s \in acc : i = RobIdx(s)
        BY <3>2
      <4>2. slot[s].uop.br /\ NewTag(s) = u
        BY <4>1, <2>3, <1>16
      <4> QED BY <4>2, <1>8, <1>19
    <3> QED BY <3>1, <3>2, <1>13, <1>20, <1>21
  <2>4. cpValid' \subseteq Tag
    BY <1>8, <1>10
  <2> QED BY <2>1, <2>2, <2>3, <2>4
<1>24. \A u \in cpValid', i, j \in Valid' : Owns(i, u)' /\ Owns(j, u)' => i = j
  <2>1. SUFFICES ASSUME NEW u \in Tag, NEW i \in Valid', NEW j \in Valid',
                        Owns(i, u)', Owns(j, u)'
                 PROVE  i = j
    BY <1>23
  <2>2. /\ i \in Old \/ \E s \in acc : i = RobIdx(s)
        /\ j \in Old \/ \E s \in acc : j = RobIdx(s)
    BY <1>13, <1>20, <1>21
  <2>3. CASE i \in Old /\ j \in Old
    BY <2>1, <2>3, <1>15, <1>18
  <2>4. CASE i \in Old /\ \E s \in acc : j = RobIdx(s)
    BY <2>1, <2>4, <1>6, <1>15, <1>16, <1>18
  <2>5. CASE j \in Old /\ \E s \in acc : i = RobIdx(s)
    BY <2>1, <2>5, <1>6, <1>15, <1>16, <1>18
  <2>6. CASE (\E s \in acc : i = RobIdx(s)) /\ (\E s \in acc : j = RobIdx(s))
    BY <2>1, <2>6, <1>6, <1>16
  <2> QED BY <2>2, <2>3, <2>4, <2>5, <2>6
<1>25. \A i \in Valid' : entry'[i].complete /\ entry'[i].tag # NoTag => entry'[i].resolved
  <2>1. SUFFICES ASSUME NEW i \in Valid', entry'[i].complete, entry'[i].tag # NoTag
                 PROVE  entry'[i].resolved
    OBVIOUS
  <2>2. CASE i \in Old
    <3>1. entry[i] \in RobEntry /\ entry'[i] = ResolveEntry(entry[i], t)
      BY <2>2, <1>2, <1>10 DEF Old
    <3>2. entry[i].complete /\ entry[i].tag # NoTag => entry[i].resolved
      BY <2>2, <1>22 DEF MaskIsOlderBranches
    <3> QED BY <2>1, <3>1, <3>2 DEF ResolveEntry, RobEntry
  <2>3. CASE \E s \in acc : i = RobIdx(s)
    <3>1. PICK s \in acc : i = RobIdx(s)
      BY <2>3
    <3>2. entry'[i] = NewEntry(acc, s, t)
      BY <3>1, <1>3
    <3> QED BY <2>1, <3>2 DEF NewEntry
  <2> QED BY <2>2, <2>3, <1>13, <1>20, <1>21
<1>26. \A i \in Valid' : entry'[i].mask =
         {u \in cpValid' : \E j \in Valid' : Owns(j, u)' /\ Age(j)' < Age(i)'}
  <2>1. SUFFICES ASSUME NEW i \in Valid'
                 PROVE  /\ entry'[i].mask \subseteq Tag
                        /\ \A u \in Tag : u \in entry'[i].mask <=>
                             \E j \in Valid' : Owns(j, u)' /\ Age(j)' < Age(i)'
    BY <1>23 DEF Unresolved
  <2>2. CASE i \in Old
    <3>1. entry[i] \in RobEntry /\ entry'[i] = ResolveEntry(entry[i], t)
      BY <2>2, <1>2, <1>10 DEF Old
    <3>2. entry'[i].mask = entry[i].mask \ {t} /\ entry[i].mask \subseteq Tag
      BY <3>1 DEF ResolveEntry, RobEntry
    <3>3. \A u \in Tag : u \in entry[i].mask <=>
            \E j \in Valid : Owns(j, u) /\ Age(j) < Age(i)
      BY <2>2, <1>22, <3>2 DEF MaskIsOlderBranches, Unresolved
    <3>4. ASSUME NEW u \in Tag, u \in entry[i].mask, u # t
          PROVE  \E j \in Valid' : Owns(j, u)' /\ Age(j)' < Age(i)'
      <4>1. PICK j \in Valid : Owns(j, u) /\ Age(j) < Age(i)
        BY <3>3, <3>4
      <4>2. j \in Old
        BY <4>1, <1>17, <1>21 DEF Valid
      <4>3. j \in Valid' /\ Owns(j, u)'
        BY <4>1, <4>2, <3>4, <1>11, <1>15, <1>20, <1>22
      <4>4. Age(j)' = Age(j) - n /\ Age(i)' = Age(i) - n
        BY <4>2, <2>2, <1>14
      <4> QED BY <4>1, <4>3, <4>4, <1>1, <1>4, <1>21, <1>22, <2>2
    <3>5. ASSUME NEW u \in Tag, NEW j \in Valid', Owns(j, u)', Age(j)' < Age(i)'
          PROVE  u \in entry[i].mask /\ u # t
      <4>1. CASE j \in Old
        <5>1. Owns(j, u) /\ u # t
          BY <4>1, <3>5, <1>15
        <5>2. Age(j)' = Age(j) - n /\ Age(i)' = Age(i) - n
          BY <4>1, <2>2, <1>14
        <5>3. Age(j) < Age(i)
          BY <5>2, <3>5, <1>1, <1>4, <1>22, <2>2, <4>1
        <5> QED BY <5>1, <5>3, <4>1, <3>3, <1>22
      <4>2. CASE \E s \in acc : j = RobIdx(s)
        <5>1. PICK s \in acc : j = RobIdx(s)
          BY <4>2
        <5>2. Age(j)' = c + Lane(s) - n /\ Age(i)' = Age(i) - n
          BY <5>1, <2>2, <1>14
        <5>3. Age(i) < c /\ Lane(s) \in Nat
          BY <2>2, <5>1, <1>1, <1>5 DEF Old
        <5> QED BY <5>2, <5>3, <3>5, <1>1, <1>4, <1>22, <2>2
      <4> QED BY <4>1, <4>2, <1>13, <1>20, <1>21
    <3> QED BY <3>2, <3>4, <3>5
  <2>3. CASE \E s \in acc : i = RobIdx(s)
    <3>1. PICK s \in acc : i = RobIdx(s)
      BY <2>3
    <3>2. entry'[i] = NewEntry(acc, s, t) /\ NewEntry(acc, s, t) \in RobEntry
      BY <3>1, <1>3, <1>9
    <3>3. /\ entry'[i].mask =
               (cpValid \ {t}) \cup {NewTag(x) : x \in {y \in acc : y < s /\ slot[y].uop.br}}
          /\ entry'[i].mask \subseteq Tag
      BY <3>2 DEF NewEntry, LaneMask, RobEntry
    <3>4. Age(i)' = c + Lane(s) - n /\ Lane(s) \in 0 .. m - 1
      BY <3>1, <1>5, <1>14
    <3>5. ASSUME NEW u \in Tag, u \in cpValid, u # t
          PROVE  \E j \in Valid' : Owns(j, u)' /\ Age(j)' < Age(i)'
      <4>1. PICK j \in Old : Owns(j, u)
        BY <3>5, <1>18
      <4>2. j \in Valid' /\ Owns(j, u)'
        BY <4>1, <3>5, <1>11, <1>15, <1>20, <1>22
      <4>3. Age(j)' = Age(j) - n /\ Age(j) < c /\ Age(j) \in Nat
        BY <4>1, <1>4, <1>14, <1>22 DEF Old
      <4> QED BY <4>2, <4>3, <3>4, <1>1
    <3>6. ASSUME NEW x \in acc, x < s, slot[x].uop.br, NEW u \in Tag, u = NewTag(x)
          PROVE  \E j \in Valid' : Owns(j, u)' /\ Age(j)' < Age(i)'
      <4>1. PICK j \in Idx : j = RobIdx(x)
        BY <1>3
      <4>2. j \in Valid' /\ Owns(j, u)'
        BY <4>1, <3>6, <1>12, <1>16, <1>20
      <4>3. Age(j)' = c + Lane(x) - n /\ Lane(x) < Lane(s) /\ Lane(x) \in 0 .. m - 1
        BY <4>1, <3>6, <1>5, <1>14
      <4> QED BY <4>2, <4>3, <3>4, <1>1
    <3>7. ASSUME NEW u \in Tag, NEW j \in Valid', Owns(j, u)', Age(j)' < Age(i)'
          PROVE  u \in entry'[i].mask
      <4>1. CASE j \in Old
        BY <4>1, <3>7, <3>3, <1>15, <1>18
      <4>2. CASE \E x \in acc : j = RobIdx(x)
        <5>1. PICK x \in acc : j = RobIdx(x)
          BY <4>2
        <5>2. slot[x].uop.br /\ NewTag(x) = u
          BY <5>1, <3>7, <1>16
        <5>3. Age(j)' = c + Lane(x) - n /\ Lane(x) \in 0 .. m - 1
          BY <5>1, <1>5, <1>14
        <5>4. Lane(x) < Lane(s)
          BY <5>3, <3>4, <3>7, <1>1
        <5>5. x < s
          <6>1. x \in Nat /\ s \in Nat
            BY <1>5
          <6>2. CASE s < x
            BY <6>2, <5>3, <5>4, <3>4, <1>1, <1>5
          <6>3. CASE s = x
            BY <6>3, <5>3, <5>4, <1>1
          <6> QED BY <6>1, <6>2, <6>3
        <5> QED BY <5>2, <5>5, <3>3
      <4> QED BY <4>1, <4>2, <1>13, <1>20, <1>21
    <3> QED BY <3>3, <3>5, <3>6, <3>7
  <2> QED BY <2>2, <2>3, <1>13, <1>20, <1>21
<1>27. \A u \in cpValid', i \in Valid' : Owns(i, u)' =>
         parent'[u] = entry'[i].mask /\ cpTail'[u] = Wrap(i, 1)
  <2>1. SUFFICES ASSUME NEW u \in Tag, NEW i \in Valid', Owns(i, u)'
                 PROVE  parent'[u] = entry'[i].mask /\ cpTail'[u] = Wrap(i, 1)
    BY <1>23
  <2>2. CASE i \in Old
    <3>1. Owns(i, u) /\ u # t /\ u \in cpValid /\ i \in Valid
      BY <2>1, <2>2, <1>15, <1>18, <1>22
    <3>2. parent[u] = entry[i].mask
      BY <3>1 DEF MaskIsOlderBranches
    <3>3. cpTail[u] = Wrap(i, 1)
      <4>1. PICK j \in Valid : Owns(j, u) /\ cpTail[u] = Wrap(j, 1)
        BY <3>1 DEF RobWindow
      <4> QED BY <4>1, <3>1 DEF MaskIsOlderBranches
    <3>4. Creators(acc, u) = {}
      BY <3>1, <1>19
    <3>5. entry[i] \in RobEntry /\ entry'[i] = ResolveEntry(entry[i], t)
      BY <2>2, <1>2, <1>10 DEF Old
    <3>6. entry'[i].mask = entry[i].mask \ {t}
      BY <3>5 DEF ResolveEntry, RobEntry
    <3> QED BY <3>1, <3>2, <3>3, <3>4, <3>6, <1>8
  <2>3. CASE \E s \in acc : i = RobIdx(s)
    <3>1. PICK s \in acc : i = RobIdx(s)
      BY <2>3
    <3>2. slot[s].uop.br /\ NewTag(s) = u
      BY <3>1, <2>1, <1>16
    <3>3. Creators(acc, u) = {s} /\ Latest(Creators(acc, u)) = s
      BY <3>2, <1>19
    <3>4. entry'[i].mask = LaneMask(acc, s, t)
      <4>1. entry'[i] = NewEntry(acc, s, t)
        BY <3>1, <1>3
      <4> QED BY <4>1 DEF NewEntry
    <3> QED BY <3>1, <3>3, <3>4, <1>8
  <2> QED BY <2>2, <2>3, <1>13, <1>20, <1>21
<1>28. MaskIsOlderBranches'
  BY <1>23, <1>24, <1>25, <1>26, <1>27 DEF MaskIsOlderBranches
<1>29. Valid' = {i \in Idx : Age(i)' < NumRob - robFree'}
  <2>1. SUFFICES ASSUME NEW i \in Idx
                 PROVE  entry'[i] # NoEntry <=> Age(i)' < c - n + m
    BY <1>1, <1>20, <1>21
  <2>2. ASSUME entry'[i] # NoEntry PROVE Age(i)' < c - n + m
    <3>1. CASE i \in Old
      BY <3>1, <1>1, <1>4, <1>14 DEF Old
    <3>2. CASE \E s \in acc : i = RobIdx(s)
      BY <3>2, <1>1, <1>5, <1>14
    <3> QED BY <3>1, <3>2, <2>2, <1>13
  <2>3. ASSUME Age(i)' < c - n + m PROVE entry'[i] # NoEntry
    <3>1. Age(i) >= n /\ Age(i)' = Age(i) - n
      BY <2>3, <1>1, <1>2, <1>4
    <3>2. CASE Age(i) < c
      BY <3>1, <3>2, <1>11 DEF Old
    <3>3. CASE ~(Age(i) < c)
      <4>1. PICK s \in acc : i = RobIdx(s)
        BY <3>1, <3>3, <2>3, <1>1, <1>3, <1>4
      <4> QED BY <4>1, <1>12
    <3> QED BY <3>2, <3>3
  <2> QED BY <2>2, <2>3
<1>30. Cardinality(Valid') = NumRob - robFree'
  <2>1. NumRob - robFree' \in 0 .. NumRob
    BY <1>1
  <2>2. \A i \in Idx : Age(i)' = AgeFrom(head', i)
    BY DEF Age
  <2>3. Valid' = {i \in Idx : AgeFrom(head', i) < NumRob - robFree'}
    BY <2>2, <1>29
  <2> QED BY <2>1, <2>3, <1>1, WindowCard
<1>31. RobWindow'
  <2>1. \A u \in cpValid' : \E i \in Valid' : Owns(i, u)' /\ cpTail'[u] = Wrap(i, 1)
    BY <1>23, <1>27 DEF Unresolved
  <2>2. robFree' = NumRob - Cardinality(Valid')
    BY <1>1, <1>30
  <2>3. NumRob - robFree' = c - n + m
    BY <1>1
  <2>4. tail' = Wrap(head, NumRob - robFree)'
    BY <2>3, <1>1 DEF Wrap
  <2> QED BY <2>1, <2>2, <2>4, <1>29 DEF RobWindow, Wrap
<1> QED
  BY <1>28, <1>31

(* A mispredicted branch cuts the window right behind itself.              *)
LEMMA MispredictStep ==
  ASSUME TypeOK, RobWindow, MaskIsOlderBranches, NEW t \in Tag, Mispredict(t)
  PROVE  TypeOK' /\ RobWindow' /\ MaskIsOlderBranches'
<1> DEFINE c == NumRob - robFree
<1>0. NoTag \notin Tag /\ NoEntry \notin RobEntry /\ NoTag # t
  BY SentinelAssumption
<1>1. PICK b \in Valid : Owns(b, t)
  BY DEF Mispredict, Unresolved
<1> DEFINE K == {i \in Idx : Age(i) < Age(b) + 1}
<1>2. /\ head \in Idx /\ Valid \subseteq Idx /\ c \in 0 .. NumRob
      /\ \A i \in Idx : i \in Valid <=> Age(i) < c
      /\ \A i \in Idx : Age(i) \in 0 .. NumRob - 1
      /\ \A i, j \in Idx : Age(i) = Age(j) => i = j
      /\ \A i \in Valid : entry[i] \in RobEntry
      /\ cpValid \subseteq Tag
  BY AgeFacts DEF TypeOK, RobWindow, Valid
<1>3. /\ \A u \in Tag : u \in cpValid <=> \E i \in Valid : Owns(i, u)
      /\ \A u \in cpValid, i, j \in Valid : Owns(i, u) /\ Owns(j, u) => i = j
      /\ \A i \in Valid : entry[i].complete /\ entry[i].tag # NoTag => entry[i].resolved
      /\ \A i \in Valid : \A u \in Tag : u \in entry[i].mask <=>
           \E j \in Valid : Owns(j, u) /\ Age(j) < Age(i)
      /\ \A i \in Valid : entry[i].mask \subseteq Tag
      /\ \A u \in cpValid, i \in Valid : Owns(i, u) => parent[u] = entry[i].mask
  BY <1>2 DEF MaskIsOlderBranches, Unresolved
<1>4. \A u \in cpValid, i \in Valid : Owns(i, u) => cpTail[u] = Wrap(i, 1)
  <2>1. SUFFICES ASSUME NEW u \in cpValid, NEW i \in Valid, Owns(i, u)
                 PROVE  cpTail[u] = Wrap(i, 1)
    OBVIOUS
  <2>2. PICK j \in Valid : Owns(j, u) /\ cpTail[u] = Wrap(j, 1)
    BY DEF RobWindow
  <2> QED BY <2>1, <2>2, <1>3
<1>5. /\ t \in cpValid /\ b \in Idx /\ Age(b) < c
      /\ Age(b) + 1 \in 0 .. NumRob
  BY <1>1, <1>2, <1>3
<1>6. \A i \in Valid : t \in entry[i].mask <=> Age(b) < Age(i)
  BY <1>1, <1>3, <1>5
<1>7. Valid \ Killed(t) = K /\ K \subseteq Valid /\ b \in K
  <2>1. ASSUME NEW i \in Idx PROVE i \in Valid \ Killed(t) <=> i \in K
    BY <1>2, <1>5, <1>6 DEF Killed
  <2> QED BY <2>1, <1>2, <1>5 DEF Killed
<1>8. Cardinality(K) = Age(b) + 1
  <2>1. K = {i \in Idx : AgeFrom(head, i) < Age(b) + 1}
    BY DEF Age
  <2> QED BY <2>1, <1>2, <1>5, WindowCard
<1>9. /\ head' = head /\ tail' = Wrap(b, 1) /\ robFree' = NumRob - (Age(b) + 1)
      /\ cpValid' = {u \in cpValid : u # t /\ t \notin parent[u]}
      /\ parent' = [u \in Tag |-> IF u = t \/ t \in parent[u] THEN parent[u]
                                  ELSE parent[u] \ {t}]
      /\ cpTail' = cpTail
      /\ entry' = [i \in Idx |-> IF entry[i] = NoEntry \/ i \in Killed(t) THEN NoEntry
                                 ELSE ResolveEntry(entry[i], t)]
  BY <1>1, <1>4, <1>5, <1>7, <1>8 DEF Mispredict
<1> HIDE DEF K, c
<1>10. \A i \in K : /\ entry'[i] = ResolveEntry(entry[i], t)
                    /\ entry[i] \in RobEntry /\ entry'[i] \in RobEntry
                    /\ entry'[i].mask = entry[i].mask \ {t}
                    /\ entry'[i].tag = entry[i].tag
                    /\ entry'[i].resolved = (entry[i].resolved \/ entry[i].tag = t)
                    /\ entry'[i].complete =
                         (entry[i].complete \/ (entry[i].tag = t /\ ~Demand(entry[i])))
  <2>1. SUFFICES ASSUME NEW i \in K
                 PROVE  /\ entry'[i] = ResolveEntry(entry[i], t)
                        /\ entry[i] \in RobEntry
    <3>1. ASSUME NEW e \in RobEntry
          PROVE  /\ ResolveEntry(e, t) \in RobEntry
                 /\ ResolveEntry(e, t).mask = e.mask \ {t}
                 /\ ResolveEntry(e, t).tag = e.tag
                 /\ ResolveEntry(e, t).resolved = (e.resolved \/ e.tag = t)
                 /\ ResolveEntry(e, t).complete = (e.complete \/ (e.tag = t /\ ~Demand(e)))
      BY DEF ResolveEntry, RobEntry
    <3> QED BY <2>1, <3>1
  <2>2. i \in Valid /\ i \notin Killed(t) /\ i \in Idx
    BY <1>2, <1>7
  <2> QED BY <2>2, <1>2, <1>9 DEF Valid
<1>11. Valid' = K
  <2>1. ASSUME NEW i \in Idx PROVE entry'[i] # NoEntry <=> i \in K
    <3>1. CASE i \in K
      BY <3>1, <1>0, <1>10
    <3>2. CASE i \notin K
      BY <3>2, <1>7, <1>9 DEF Valid
    <3> QED BY <3>1, <3>2
  <2> QED BY <2>1, <1>2, <1>7 DEF Valid
<1>12. \A i \in K : \A u \in Tag : Owns(i, u)' <=> Owns(i, u) /\ u # t
  BY <1>10 DEF Owns
<1>13. \A i \in Idx : Age(i)' = Age(i)
  BY <1>9 DEF Age
<1>14. \A u \in Tag : u \in cpValid' <=> \E i \in K : Owns(i, u)'
  <2>1. ASSUME NEW u \in Tag, u \in cpValid' PROVE \E i \in K : Owns(i, u)'
    <3>1. u \in cpValid /\ u # t /\ t \notin parent[u]
      BY <2>1, <1>9
    <3>2. PICK i \in Valid : Owns(i, u)
      BY <3>1, <1>3
    <3>3. t \notin entry[i].mask
      BY <3>1, <3>2, <1>3
    <3>4. i \in K
      BY <3>3, <1>7 DEF Killed
    <3> QED BY <3>1, <3>2, <3>4, <1>12
  <2>2. ASSUME NEW u \in Tag, NEW i \in K, Owns(i, u)' PROVE u \in cpValid'
    <3>1. Owns(i, u) /\ u # t /\ i \in Valid
      BY <2>2, <1>7, <1>12
    <3>2. u \in cpValid /\ parent[u] = entry[i].mask
      BY <3>1, <1>3
    <3>3. t \notin entry[i].mask
      BY <3>1, <1>7 DEF Killed
    <3> QED BY <3>1, <3>2, <3>3, <1>9
  <2> QED BY <2>1, <2>2
<1>15. cpValid' = {u \in Tag : Unresolved(u)'}
  BY <1>2, <1>9, <1>11, <1>14 DEF Unresolved
<1>16. \A u \in cpValid', i, j \in Valid' : Owns(i, u)' /\ Owns(j, u)' => i = j
  BY <1>2, <1>3, <1>7, <1>9, <1>11, <1>12
<1>17. \A i \in Valid' : entry'[i].complete /\ entry'[i].tag # NoTag => entry'[i].resolved
  BY <1>3, <1>7, <1>10, <1>11
<1>18. \A i \in Valid' : entry'[i].mask =
         {u \in cpValid' : \E j \in Valid' : Owns(j, u)' /\ Age(j)' < Age(i)'}
  <2>1. SUFFICES ASSUME NEW i \in K
                 PROVE  /\ entry'[i].mask \subseteq Tag
                        /\ \A u \in Tag : u \in entry'[i].mask <=>
                             \E j \in K : Owns(j, u)' /\ Age(j)' < Age(i)'
    BY <1>11, <1>15 DEF Unresolved
  <2>2. i \in Valid /\ i \in Idx /\ t \notin entry[i].mask
    BY <1>2, <1>7 DEF Killed
  <2>3. entry'[i].mask = entry[i].mask /\ entry[i].mask \subseteq Tag
    <3>1. entry'[i].mask = entry[i].mask \ {t}
      BY <1>10, <2>1
    <3>2. entry[i].mask \subseteq Tag
      BY <2>2, <1>3
    <3>3. entry[i].mask \ {t} = entry[i].mask
      BY <2>2
    <3> QED BY <3>1, <3>2, <3>3
  <2>4. ASSUME NEW u \in Tag, u \in entry[i].mask
        PROVE  \E j \in K : Owns(j, u)' /\ Age(j)' < Age(i)'
    <3>1. PICK j \in Valid : Owns(j, u) /\ Age(j) < Age(i)
      BY <2>2, <2>4, <1>3
    <3>2. j \in K
      BY <3>1, <2>1, <1>2, <1>5 DEF K
    <3>3. u # t
      BY <2>2, <2>4
    <3> QED BY <3>1, <3>2, <3>3, <2>2, <1>2, <1>12, <1>13
  <2>5. ASSUME NEW u \in Tag, NEW j \in K, Owns(j, u)', Age(j)' < Age(i)'
        PROVE  u \in entry[i].mask
    BY <2>2, <2>5, <1>2, <1>3, <1>7, <1>12, <1>13
  <2> QED BY <2>3, <2>4, <2>5
<1>19. \A u \in cpValid', i \in Valid' : Owns(i, u)' =>
         parent'[u] = entry'[i].mask /\ cpTail'[u] = Wrap(i, 1)
  <2>1. SUFFICES ASSUME NEW u \in cpValid', NEW i \in K, Owns(i, u)'
                 PROVE  parent'[u] = entry'[i].mask /\ cpTail'[u] = Wrap(i, 1)
    BY <1>11
  <2>2. u \in cpValid /\ u \in Tag /\ u # t /\ t \notin parent[u]
    BY <1>2, <1>9
  <2>3. Owns(i, u) /\ i \in Valid
    BY <2>1, <2>2, <1>7, <1>12
  <2>4. parent[u] = entry[i].mask /\ cpTail[u] = Wrap(i, 1)
    BY <2>2, <2>3, <1>3, <1>4
  <2>5. parent'[u] = parent[u] \ {t} /\ cpTail' = cpTail
    BY <2>2, <1>9
  <2>6. entry'[i].mask = entry[i].mask \ {t}
    BY <1>10, <2>1
  <2> QED BY <2>4, <2>5, <2>6
<1>20. MaskIsOlderBranches'
  BY <1>15, <1>16, <1>17, <1>18, <1>19 DEF MaskIsOlderBranches
<1>21. RobWindow'
  <2>1. NumRob - robFree' = Age(b) + 1
    BY <1>5, <1>9
  <2>2. robFree' = NumRob - Cardinality(Valid')
    BY <1>8, <1>9, <1>11
  <2>3. Valid' = {i \in Idx : Age(i)' < NumRob - robFree'}
    BY <2>1, <1>11, <1>13 DEF K
  <2>4. Wrap(b, 1) = Wrap(head, Age(b) + 1)
    BY <1>2, <1>5 DEF Age, AgeFrom, Wrap, Idx
  <2>5. \A u \in cpValid' : \E i \in Valid' : Owns(i, u)' /\ cpTail'[u] = Wrap(i, 1)
    BY <1>15, <1>19 DEF Unresolved
  <2>6. tail' = Wrap(head, NumRob - robFree)'
    BY <2>1, <2>4, <1>9 DEF Wrap
  <2> QED BY <2>2, <2>3, <2>5, <2>6 DEF RobWindow, Wrap
<1>22. TypeOK'
  <2>1. tail' \in Idx /\ robFree' \in 0 .. NumRob /\ head' \in Idx
    <3>1. Wrap(b, 1) \in Idx
      BY <1>5 DEF Wrap, Idx
    <3>2. NumRob - (Age(b) + 1) \in 0 .. NumRob
      BY <1>5
    <3> QED BY <3>1, <3>2, <1>2, <1>9
  <2>2. entry' \in [Idx -> RobEntry \cup {NoEntry}]
    <3>1. ASSUME NEW i \in Idx PROVE entry'[i] \in RobEntry \cup {NoEntry}
      <4>1. CASE i \in K
        BY <4>1, <1>10
      <4>2. CASE i \notin K
        BY <4>2, <1>7, <1>9 DEF Valid
      <4> QED BY <4>1, <4>2
    <3>2. entry' = [i \in Idx |-> entry'[i]]
      BY <1>9
    <3> QED BY <3>1, <3>2
  <2>3. cpValid' \in SUBSET Tag /\ parent' \in [Tag -> SUBSET Tag] /\ cpTail' \in [Tag -> Idx]
    BY <1>9 DEF TypeOK
  <2>4. /\ specMap' \in [Arch -> Preg] /\ commMap' \in [Arch -> Preg]
        /\ cpMap' \in [Tag -> [Arch -> Preg]]
        /\ free' \in SUBSET Preg /\ commFree' \in SUBSET Preg
        /\ allocMask' \in [Tag -> SUBSET Preg]
        /\ slot' \in [Slot -> SlotEntry \cup {NoEntry}]
    BY DEF Mispredict, TypeOK
  <2> QED BY <2>1, <2>2, <2>3, <2>4 DEF TypeOK
<1> QED
  BY <1>20, <1>21, <1>22

(* A flush leaves an empty window; a completion touches one bit that only  *)
(* a resolved branch may set.                                              *)
LEMMA FlushStep ==
  ASSUME TypeOK, Flush
  PROVE  TypeOK' /\ RobWindow' /\ MaskIsOlderBranches'
<1>1. TypeOK'
  BY DEF Flush, TypeOK, Idx
<1>2. Valid' = {}
  BY DEF Flush, Valid
<1>3. Cardinality(Valid') = 0
  BY <1>2, FS_EmptySet
<1>4. \A i \in Idx : ~(Age(i)' < 0)
  BY DEF Flush, Age, AgeFrom, Idx
<1>5. RobWindow'
  BY <1>2, <1>3, <1>4 DEF Flush, RobWindow, Wrap
<1>6. MaskIsOlderBranches'
  BY <1>2 DEF Flush, MaskIsOlderBranches, Unresolved
<1> QED
  BY <1>1, <1>5, <1>6

(* Completing an entry moves neither the window nor any mask.              *)
LEMMA CompleteStep ==
  ASSUME TypeOK, RobWindow, MaskIsOlderBranches, NEW k \in Idx, Complete(k)
  PROVE  TypeOK' /\ RobWindow' /\ MaskIsOlderBranches'
<1>1. /\ entry[k] \in RobEntry /\ NoEntry \notin RobEntry
      /\ entry[k].tag # NoTag => entry[k].resolved
      /\ entry' = [entry EXCEPT ![k].complete = TRUE]
      /\ UNCHANGED <<mapVars, freeVars, cpVars, head, tail, robFree, slot>>
  BY SentinelAssumption DEF Complete, TypeOK
<1>2. \A i \in Idx : (entry'[i] # NoEntry <=> entry[i] # NoEntry)
  BY <1>1 DEF TypeOK, RobEntry
<1>3. \A i \in Idx : entry[i] # NoEntry =>
        /\ entry'[i].mask = entry[i].mask /\ entry'[i].tag = entry[i].tag
        /\ entry'[i].resolved = entry[i].resolved
        /\ entry'[i].complete => entry[i].complete \/ i = k
  BY <1>1 DEF TypeOK, RobEntry
<1>4. Valid' = Valid /\ Valid \subseteq Idx
  BY <1>2 DEF Valid
<1>5. \A i \in Valid : \A u : Owns(i, u)' <=> Owns(i, u)
  BY <1>3, <1>4 DEF Owns, Valid
<1>6. \A i \in Idx : Age(i)' = Age(i)
  BY <1>1 DEF Age
<1>7. TypeOK'
  BY <1>1 DEF TypeOK, RobEntry, mapVars, freeVars, cpVars
<1>8. RobWindow'
  BY <1>1, <1>4, <1>5, <1>6 DEF RobWindow, Wrap, cpVars
<1>9. MaskIsOlderBranches'
  <2>1. cpValid' = cpValid /\ parent' = parent
    BY <1>1 DEF cpVars
  <2>2. cpValid' = {u \in Tag : Unresolved(u)'}
    BY <2>1, <1>4, <1>5 DEF MaskIsOlderBranches, Unresolved
  <2>3. \A i \in Valid : entry'[i].complete /\ entry'[i].tag # NoTag => entry'[i].resolved
    BY <1>1, <1>3, <1>4 DEF MaskIsOlderBranches, Valid
  <2>4. \A i \in Valid : entry'[i].mask =
          {u \in cpValid : \E j \in Valid : Owns(j, u)' /\ Age(j)' < Age(i)'}
    <3>1. SUFFICES ASSUME NEW i \in Valid
                   PROVE  entry'[i].mask =
                     {u \in cpValid : \E j \in Valid : Owns(j, u)' /\ Age(j)' < Age(i)'}
      OBVIOUS
    <3>2. entry'[i].mask = {u \in cpValid : \E j \in Valid : Owns(j, u) /\ Age(j) < Age(i)}
      BY <1>3, <1>4 DEF MaskIsOlderBranches, Valid
    <3> QED BY <3>2, <1>4, <1>5, <1>6
  <2>5. \A u \in cpValid, i \in Valid : Owns(i, u)' => parent'[u] = entry'[i].mask
    BY <2>1, <1>3, <1>4, <1>5 DEF MaskIsOlderBranches, Valid
  <2>6. \A u \in cpValid, i, j \in Valid : Owns(i, u)' /\ Owns(j, u)' => i = j
    BY <1>5 DEF MaskIsOlderBranches
  <2> QED BY <2>1, <2>2, <2>3, <2>4, <2>5, <2>6, <1>4 DEF MaskIsOlderBranches
<1> QED
  BY <1>7, <1>8, <1>9

-----------------------------------------------------------------------------
(* Reset leaves an empty window and no live tag (rob.sv, free_list.sv and  *)
(* branch_checkpoint_file.sv reset values).                                *)
LEMMA RingInit == Init => RingInv
<1> SUFFICES ASSUME Init PROVE RingInv
  OBVIOUS
<1>1. TypeOK
  BY DEF Init, TypeOK, Arch, Preg, Idx, Slot
<1> QED
  BY <1>1, EmptyWindow DEF Init, RingInv

(* Every edge, recovering or not, preserves the ring invariant.            *)
LEMMA RingNext == RingInv /\ [Next]_vars => RingInv'
<1> SUFFICES ASSUME RingInv, [Next]_vars PROVE RingInv'
  OBVIOUS
<1>0. TypeOK /\ RobWindow /\ MaskIsOlderBranches
  BY DEF RingInv
<1>1. ASSUME NEW n \in 0 .. RetireWidth, NEW t \in Tag \cup {NoTag}, NEW limit,
             NEW g \in Groups \cup {<<>>}, Cycle(n, t, limit, g)
      PROVE  RingInv'
  BY <1>0, <1>1, CycleType, CycleMasks DEF RingInv
<1>2. ASSUME NEW t \in Tag, Mispredict(t) PROVE RingInv'
  BY <1>0, <1>2, MispredictStep DEF RingInv
<1>3. CASE Flush
  BY <1>0, <1>3, FlushStep DEF RingInv
<1>4. ASSUME NEW i \in Idx, Complete(i) PROVE RingInv'
  BY <1>0, <1>4, CompleteStep DEF RingInv
<1>5. CASE UNCHANGED vars
  BY <1>0, <1>5 DEF RingInv, TypeOK, RobWindow, MaskIsOlderBranches, Valid, Owns, Unresolved,
     Age, Wrap, vars, mapVars, freeVars, cpVars, robVars
<1> QED
  BY <1>1, <1>2, <1>3, <1>4, <1>5 DEF Next

(* For every configuration: the registers keep their types, the reorder    *)
(* buffer stays one contiguous window through partial kills (rob.sv tail   *)
(* restore and free_count recount), and the branch masks are exactly the   *)
(* older unresolved branches (branch_checkpoint_file, rename_stage).       *)
THEOREM RingCorrect == Spec => [](TypeOK /\ RobWindow /\ MaskIsOlderBranches)
<1>1. Init => RingInv
  BY RingInit
<1>2. RingInv /\ [Next]_vars => RingInv'
  BY RingNext
<1>3. RingInv => TypeOK /\ RobWindow /\ MaskIsOlderBranches
  BY DEF RingInv
<1> QED
  BY <1>1, <1>2, <1>3, PTL DEF Spec

-----------------------------------------------------------------------------
(***************************************************************************)
(* Who holds which physical register, for every configuration of Rename.   *)
(*                                                                         *)
(* RegisterPartition is not inductive.  What every edge preserves is the   *)
(* program-order reading of the window: the speculative map, the previous  *)
(* name and the source name of every entry, and the map of every           *)
(* checkpoint are replays of older writers over the committed map; the     *)
(* names given are pairwise different; the free list is everything else;   *)
(* and a slot of the rename buffer is linked to the producers that are     *)
(* still in the buffer with it.                                            *)
(***************************************************************************)

(* The map the writers W leave behind over the map c, in a ROB with        *)
(* contents e and head h.                                                  *)
ReplayOn(c, e, h, W) ==
  [a \in Arch |->
     LET ws == {i \in W : e[i].rd = a}
     IN  IF ws = {} THEN c[a]
         ELSE e[CHOOSE i \in ws : \A j \in ws : AgeFrom(h, j) <= AgeFrom(h, i)].new]

(* i is the youngest writer of a in W.                                     *)
IsLast(e, h, W, a, i) ==
  /\ i \in W /\ e[i].rd = a
  /\ \A j \in W : e[j].rd = a => /\ AgeFrom(h, j) <= AgeFrom(h, i)
                                 /\ AgeFrom(h, i) <= AgeFrom(h, j) => j = i

(* The parts of the invariant.                                             *)
Older(i) == {j \in LiveWriters : Age(j) < Age(i)}

NamesDistinct ==
  /\ \A a, b \in Arch : commMap[a] = commMap[b] => a = b
  /\ \A i, j \in LiveWriters : entry[i].new = entry[j].new => i = j
  /\ \A i \in LiveWriters : entry[i].new \notin MapRange(commMap)
  /\ HasZeroReg => commMap[0] = 0

NamesReplayed ==
  /\ specMap = Replay(LiveWriters)
  /\ \A i \in LiveWriters : entry[i].old = Replay(Older(i))[entry[i].rd]
  /\ \A i \in Valid : entry[i].src = Replay(Older(i))[entry[i].rs]
  /\ \A i \in Valid : ~Demand(entry[i]) => entry[i].new = 0 /\ entry[i].old = 0

FreeIsRest ==
  /\ free = Preg \ (MapRange(commMap) \cup LiveNew)
  /\ commFree = Preg \ MapRange(commMap)

(* d links slot s to the producer of a: the youngest older writer of a in  *)
(* the buffer, or nothing that is still there.                             *)
Producers(s, a) ==
  {x \in Occupied : x < s /\ Demand(slot[x].uop) /\ slot[x].uop.rd = a}

Linked(s, d, a) ==
  IF Producers(s, a) = {} THEN d \notin Occupied ELSE d = Latest(Producers(s, a))

BufferLinked ==
  \A s \in Occupied :
    /\ Linked(s, slot[s].src, slot[s].uop.rs)
    /\ slot[s].uop.wen => Linked(s, slot[s].prev, slot[s].uop.rd)
    /\ slot[s].uop.fuse # "none" => ~slot[s].uop.br
    /\ slot[s].uop.fuse = "head" =>
         s + 1 \in Occupied /\ slot[s + 1].uop.fuse = "member"

NamesInv ==
  /\ NamesDistinct /\ NamesReplayed /\ FreeIsRest /\ BufferLinked
  /\ CheckpointRestorable
-----------------------------------------------------------------------------
(***************************************************************************)
(* What a replay returns.                                                  *)
(***************************************************************************)

(* A replay gives a the base name when nobody writes a, and otherwise the  *)
(* name of its youngest writer, which exists.                              *)
LEMMA ReplayBase ==
  ASSUME NEW c, NEW e, NEW h, NEW W, NEW a \in Arch, \A i \in W : e[i].rd # a
  PROVE  ReplayOn(c, e, h, W)[a] = c[a]
<1> DEFINE ws == {i \in W : e[i].rd = a}
<1>1. ws = {}
  OBVIOUS
<1> QED
  BY <1>1 DEF ReplayOn

LEMMA ReplayLast ==
  ASSUME NEW c, NEW e, NEW h, NEW W, NEW a \in Arch, NEW i, IsLast(e, h, W, a, i)
  PROVE  ReplayOn(c, e, h, W)[a] = e[i].new
<1> DEFINE ws == {j \in W : e[j].rd = a}
<1>1. i \in ws /\ \A j \in ws : AgeFrom(h, j) <= AgeFrom(h, i)
  BY DEF IsLast
<1>2. ASSUME NEW k \in ws, \A j \in ws : AgeFrom(h, j) <= AgeFrom(h, k) PROVE k = i
  BY <1>1, <1>2 DEF IsLast
<1>3. (CHOOSE k \in ws : \A j \in ws : AgeFrom(h, j) <= AgeFrom(h, k)) = i
  BY <1>1, <1>2
<1> QED
  BY <1>1, <1>3 DEF ReplayOn

LEMMA LastExists ==
  ASSUME NEW e, NEW h \in Idx, NEW W, W \subseteq Idx, NEW a, NEW k \in W, e[k].rd = a
  PROVE  \E i : IsLast(e, h, W, a, i)
<1> DEFINE ws == {i \in W : e[i].rd = a}
           ages == {AgeFrom(h, i) : i \in ws}
<1>1. IsFiniteSet(0 .. NumRob - 1) /\ 0 .. NumRob - 1 \subseteq Nat
  <2>1. NumRob - 1 \in Int
    OBVIOUS
  <2> QED BY <2>1, FS_Interval
<1>2. ages \subseteq 0 .. NumRob - 1 /\ ages # {}
  <2>1. \A i \in Idx : AgeFrom(h, i) \in 0 .. NumRob - 1
    BY AgeFromFacts
  <2> QED BY <2>1
<1>3. PICK m \in ages : \A x \in ages : x <= m
  <2>1. IsFiniteSet(ages) /\ ages \subseteq Nat
    BY <1>1, <1>2, FS_Subset
  <2> HIDE DEF ages
  <2> QED BY <2>1, <1>2, FiniteMax
<1>4. PICK i \in ws : m = AgeFrom(h, i)
  BY <1>3
<1>5. /\ \A j \in Idx : AgeFrom(h, j) \in 0 .. NumRob - 1
      /\ \A j, k2 \in Idx : AgeFrom(h, j) = AgeFrom(h, k2) => j = k2
  BY AgeFromFacts
<1> QED
  BY <1>3, <1>4, <1>5 DEF IsLast

(* The two cases of a replay.                                              *)
LEMMA ReplayCases ==
  ASSUME NEW c, NEW e, NEW h \in Idx, NEW W, W \subseteq Idx, NEW a \in Arch
  PROVE  \/ /\ \A i \in W : e[i].rd # a
            /\ ReplayOn(c, e, h, W)[a] = c[a]
         \/ \E i : IsLast(e, h, W, a, i) /\ ReplayOn(c, e, h, W)[a] = e[i].new
<1>1. CASE \A i \in W : e[i].rd # a
  BY <1>1, ReplayBase
<1>2. CASE \E k \in W : e[k].rd = a
  <2>1. PICK i : IsLast(e, h, W, a, i)
    BY <1>2, LastExists
  <2>2. ReplayOn(c, e, h, W)[a] = e[i].new
    BY <2>1, ReplayLast
  <2> QED BY <2>1, <2>2
<1> QED
  BY <1>1, <1>2

(* Two windows show the same writers of a in the same order over the same  *)
(* base name.                                                              *)
SameWriters(a, c, e, h, W, c2, e2, h2, W2) ==
  /\ h \in Idx /\ W \subseteq Idx /\ h2 \in Idx /\ W2 \subseteq Idx
  /\ c2[a] = c[a]
  /\ \A i \in Idx : i \in W2 /\ e2[i].rd = a <=> i \in W /\ e[i].rd = a
  /\ \A i \in W : e[i].rd = a => e2[i].new = e[i].new
  /\ \A i, j \in W : AgeFrom(h, i) <= AgeFrom(h, j) => AgeFrom(h2, i) <= AgeFrom(h2, j)

(* Their replays agree on a.                                               *)
LEMMA ReplaySame ==
  ASSUME NEW a \in Arch, NEW c, NEW e, NEW h, NEW W, NEW c2, NEW e2, NEW h2, NEW W2,
         SameWriters(a, c, e, h, W, c2, e2, h2, W2)
  PROVE  ReplayOn(c2, e2, h2, W2)[a] = ReplayOn(c, e, h, W)[a]
<1>0. SameWriters(a, c, e, h, W, c2, e2, h2, W2)
  OBVIOUS
<1> USE <1>0 DEF SameWriters
<1>1. CASE \A i \in W : e[i].rd # a
  <2>1. \A i \in W2 : e2[i].rd # a
    BY <1>1
  <2> QED BY <2>1, <1>1, ReplayBase
<1>2. CASE \E k \in W : e[k].rd = a
  <2>1. PICK i : IsLast(e, h, W, a, i)
    BY <1>2, LastExists
  <2>2. i \in W /\ e[i].rd = a /\ i \in W2 /\ e2[i].rd = a /\ e2[i].new = e[i].new
    BY <2>1 DEF IsLast
  <2>3. IsLast(e2, h2, W2, a, i)
    <3>1. SUFFICES ASSUME NEW j \in W2, e2[j].rd = a
                   PROVE  /\ AgeFrom(h2, j) <= AgeFrom(h2, i)
                          /\ AgeFrom(h2, i) <= AgeFrom(h2, j) => j = i
      BY <2>2 DEF IsLast
    <3>2. j \in W /\ e[j].rd = a
      BY <3>1
    <3>3. AgeFrom(h, j) <= AgeFrom(h, i)
      BY <3>2, <2>1 DEF IsLast
    <3>4. AgeFrom(h2, j) <= AgeFrom(h2, i)
      BY <3>2, <3>3, <2>2
    <3>5. /\ \A k \in Idx : AgeFrom(h2, k) \in 0 .. NumRob - 1
          /\ \A k, l \in Idx : AgeFrom(h2, k) = AgeFrom(h2, l) => k = l
      BY AgeFromFacts
    <3> QED BY <3>2, <3>4, <3>5, <2>2
  <2>4. ReplayOn(c, e, h, W)[a] = e[i].new
    BY <2>1, ReplayLast
  <2>5. ReplayOn(c2, e2, h2, W2)[a] = e2[i].new
    BY <2>3, ReplayLast
  <2> QED BY <2>2, <2>4, <2>5
<1> QED
  BY <1>1, <1>2

(* P is older than T.                                                      *)
Splits(h, P, T) ==
  /\ h \in Idx /\ P \subseteq Idx /\ T \subseteq Idx
  /\ \A i \in P, j \in T : AgeFrom(h, i) < AgeFrom(h, j)

(* A replay of an older set and then of a younger one is one replay.       *)
LEMMA ReplaySplit ==
  ASSUME NEW c, NEW e, NEW h, NEW P, NEW T, NEW a \in Arch, Splits(h, P, T)
  PROVE  ReplayOn(ReplayOn(c, e, h, P), e, h, T)[a] = ReplayOn(c, e, h, P \cup T)[a]
<1>0. /\ h \in Idx /\ P \subseteq Idx /\ T \subseteq Idx
      /\ \A i \in P, j \in T : AgeFrom(h, i) < AgeFrom(h, j)
  BY DEF Splits
<1>3. \A i \in Idx : AgeFrom(h, i) \in 0 .. NumRob - 1
  BY <1>0, AgeFromFacts
<1>1. CASE \E k \in T : e[k].rd = a
  <2>1. PICK i : IsLast(e, h, T, a, i)
    BY <1>0, <1>1, LastExists
  <2>2. IsLast(e, h, P \cup T, a, i)
    BY <2>1, <1>0, <1>3 DEF IsLast
  <2>3. ASSUME NEW d PROVE ReplayOn(d, e, h, T)[a] = e[i].new
    BY <2>1, ReplayLast
  <2>4. ReplayOn(c, e, h, P \cup T)[a] = e[i].new
    <3> DEFINE U == P \cup T
    <3>1. U \subseteq Idx /\ IsLast(e, h, U, a, i)
      BY <2>2, <1>0
    <3> HIDE DEF U
    <3>2. ReplayOn(c, e, h, U)[a] = e[i].new
      BY <3>1, ReplayLast
    <3> QED BY <3>2 DEF U
  <2> QED BY <2>3, <2>4
<1>2. CASE \A k \in T : e[k].rd # a
  <2>1. ASSUME NEW d PROVE ReplayOn(d, e, h, T)[a] = d[a]
    BY <1>2, ReplayBase
  <2>2. ReplayOn(c, e, h, P \cup T)[a] = ReplayOn(c, e, h, P)[a]
    <3>1. SameWriters(a, c, e, h, P, c, e, h, P \cup T)
      BY <1>0, <1>2 DEF SameWriters
    <3> QED BY <3>1, ReplaySame
  <2> QED BY <2>1, <2>2
<1> QED
  BY <1>1, <1>2

-----------------------------------------------------------------------------
(***************************************************************************)
(* The names along a window of writers.  c is the map below the window, P  *)
(* the writers in it.                                                      *)
(***************************************************************************)
Before(e, h, P, i) == {j \in P : AgeFrom(h, j) < AgeFrom(h, i)}

News(e, P) == {e[i].new : i \in P}
Olds(e, P) == {e[i].old : i \in P}

(* A window whose names are new and pairwise different, and whose previous *)
(* names are what program order says.                                      *)
Chained(c, e, h, P) ==
  /\ h \in Idx /\ P \subseteq Idx
  /\ \A a, b \in Arch : c[a] = c[b] => a = b
  /\ \A i \in P : e[i].rd \in Arch
  /\ \A i, j \in P : e[i].new = e[j].new => i = j
  /\ \A i \in P : \A a \in Arch : e[i].new # c[a]
  /\ \A i \in P : e[i].old = ReplayOn(c, e, h, Before(e, h, P, i))[e[i].rd]

(* The previous name of i is the name of the writer just before it, or the *)
(* base name when there is none.                                           *)
LEMMA PreviousName ==
  ASSUME NEW c, NEW e, NEW h, NEW P, Chained(c, e, h, P),
         NEW i \in P
  PROVE  \/ /\ e[i].old = c[e[i].rd]
            /\ \A j \in P : e[j].rd = e[i].rd => AgeFrom(h, i) <= AgeFrom(h, j)
         \/ \E k \in P : /\ e[i].old = e[k].new
                         /\ e[k].rd = e[i].rd
                         /\ AgeFrom(h, k) < AgeFrom(h, i)
                         /\ \A j \in P : e[j].rd = e[i].rd /\ AgeFrom(h, j) < AgeFrom(h, i)
                              => AgeFrom(h, j) <= AgeFrom(h, k)
<1>0. h \in Idx /\ P \subseteq Idx
  BY DEF Chained
<1> DEFINE B == Before(e, h, P, i)
           a == e[i].rd
<1>1. /\ B \subseteq Idx /\ a \in Arch
      /\ e[i].old = ReplayOn(c, e, h, B)[a]
  BY <1>0 DEF Before, Chained
<1>2. \A j \in Idx : AgeFrom(h, j) \in 0 .. NumRob - 1
  BY <1>0, AgeFromFacts
<1>3. \A j : j \in B <=> j \in P /\ AgeFrom(h, j) < AgeFrom(h, i)
  BY DEF Before
<1> HIDE DEF B
<1>4. CASE \A j \in B : e[j].rd # a
  <2>1. e[i].old = c[a]
    BY <1>1, <1>4, ReplayBase
  <2> QED BY <2>1, <1>0, <1>2, <1>3, <1>4
<1>5. CASE \E j \in B : e[j].rd = a
  <2>1. PICK k : IsLast(e, h, B, a, k)
    BY <1>0, <1>1, <1>5, LastExists
  <2>2. e[i].old = e[k].new
    BY <2>1, <1>1, ReplayLast
  <2> QED BY <2>1, <2>2, <1>0, <1>3 DEF IsLast
<1> QED
  BY <1>4, <1>5

(* Every name of the base map and of the window is held exactly once: by   *)
(* the map behind the window or as the previous name of one writer.        *)
LEMMA ChainPartition ==
  ASSUME NEW c, NEW e, NEW h, NEW P, Chained(c, e, h, P)
  PROVE  LET r == ReplayOn(c, e, h, P)
         IN  /\ \A a, b \in Arch : r[a] = r[b] => a = b
             /\ \A i, j \in P : e[i].old = e[j].old => i = j
             /\ MapRange(r) \cap Olds(e, P) = {}
             /\ MapRange(r) \cup Olds(e, P) = MapRange(c) \cup News(e, P)
             /\ \A i, j \in P : AgeFrom(h, i) <= AgeFrom(h, j) => e[i].old # e[j].new
<1> DEFINE r == ReplayOn(c, e, h, P)
           A(i) == AgeFrom(h, i)
<1>0. h \in Idx /\ P \subseteq Idx
  BY DEF Chained
<1>1. /\ \A i \in P : AgeFrom(h, i) \in Int
      /\ \A i, j \in P : AgeFrom(h, i) = AgeFrom(h, j) => i = j
      /\ \A i \in P : AgeFrom(h, i) > -1
  <2>1. /\ \A i \in Idx : AgeFrom(h, i) \in 0 .. NumRob - 1
        /\ \A i, j \in Idx : AgeFrom(h, i) = AgeFrom(h, j) => i = j
    BY AgeFromFacts, <1>0
  <2> QED BY <2>1, <1>0
<1>2. /\ \A a, b \in Arch : c[a] = c[b] => a = b
      /\ \A i \in P : e[i].rd \in Arch
      /\ \A i, j \in P : e[i].new = e[j].new => i = j
      /\ \A i \in P : \A a \in Arch : e[i].new # c[a]
  BY DEF Chained
<1>3. ASSUME NEW a \in Arch
      PROVE  \/ r[a] = c[a] /\ \A j \in P : e[j].rd # a
             \/ \E i \in P : /\ r[a] = e[i].new /\ e[i].rd = a
                             /\ \A j \in P : e[j].rd = a => A(j) <= A(i)
  <2>1. CASE \A j \in P : e[j].rd # a
    BY <2>1, ReplayBase
  <2>2. CASE \E j \in P : e[j].rd = a
    <3>1. PICK k : IsLast(e, h, P, a, k)
      BY <2>2, <1>0, LastExists
    <3>2. r[a] = e[k].new
      BY <3>1, ReplayLast
    <3> QED BY <3>1, <3>2 DEF IsLast
  <2> QED BY <2>1, <2>2
<1>4. ASSUME NEW i \in P
      PROVE  \/ e[i].old = c[e[i].rd] /\ \A j \in P : e[j].rd = e[i].rd => A(i) <= A(j)
             \/ \E k \in P : /\ e[i].old = e[k].new /\ e[k].rd = e[i].rd /\ A(k) < A(i)
                             /\ \A j \in P : e[j].rd = e[i].rd /\ A(j) < A(i) => A(j) <= A(k)
  BY PreviousName
<1>13. ASSUME NEW a, NEW m \in Int, NEW k \in P, e[k].rd = a, A(k) > m
      PROVE  \E i \in P : /\ e[i].rd = a /\ A(i) > m
                          /\ \A j \in P : e[j].rd = a /\ A(j) > m => A(i) <= A(j)
  <2> DEFINE later == {i \in P : e[i].rd = a /\ A(i) > m}
             ages == {A(i) : i \in later}
  <2>1. ages \subseteq Nat /\ ages # {}
    <3>1. \A i \in Idx : A(i) \in 0 .. NumRob - 1
      BY AgeFromFacts, <1>0
    <3> QED BY <3>1, <1>13, <1>0
  <2>2. PICK x \in ages : \A y \in ages : x <= y
    <3> HIDE DEF ages
    <3> QED BY <2>1, NatMin
  <2>3. PICK i \in later : x = A(i)
    BY <2>2
  <2> QED BY <2>2, <2>3
<1>5. ASSUME NEW k \in P
      PROVE  \/ r[e[k].rd] = e[k].new
             \/ \E i \in P : e[i].old = e[k].new
  <2>1. CASE \A j \in P : e[j].rd = e[k].rd => A(j) <= A(k)
    <3>1. IsLast(e, h, P, e[k].rd, k)
      BY <2>1, <1>0, <1>1 DEF IsLast
    <3> QED BY <3>1, <1>2, ReplayLast
  <2>2. CASE \E j \in P : e[j].rd = e[k].rd /\ ~(A(j) <= A(k))
    <3>1. PICK j \in P : e[j].rd = e[k].rd /\ A(j) > A(k)
      BY <2>2, <1>1
    <3>2. PICK i \in P : /\ e[i].rd = e[k].rd /\ A(i) > A(k)
                         /\ \A l \in P : e[l].rd = e[k].rd /\ A(l) > A(k)
                              => A(i) <= A(l)
      BY <3>1, <1>1, <1>13
    <3>3. e[i].old = e[k].new
      <4>1. PICK l \in P : /\ e[i].old = e[l].new /\ e[l].rd = e[i].rd /\ A(l) < A(i)
                           /\ \A m \in P : e[m].rd = e[i].rd /\ A(m) < A(i) => A(m) <= A(l)
        BY <3>2, <1>1, <1>4
      <4>2. A(k) <= A(l) /\ ~(A(l) > A(k))
        BY <4>1, <3>2, <1>1
      <4>3. l = k
        BY <4>2, <1>1
      <4> QED BY <4>1, <4>3
    <3> QED BY <3>3
  <2> QED BY <2>1, <2>2
<1>6. ASSUME NEW a \in Arch
      PROVE  \/ r[a] = c[a]
             \/ \E i \in P : e[i].old = c[a]
  <2>1. CASE \A j \in P : e[j].rd # a
    BY <2>1, <1>3
  <2>2. CASE \E j \in P : e[j].rd = a
    <3>1. PICK j \in P : e[j].rd = a /\ A(j) > -1
      BY <2>2, <1>1
    <3>2. PICK i \in P : /\ e[i].rd = a /\ A(i) > -1
                         /\ \A l \in P : e[l].rd = a /\ A(l) > -1
                              => A(i) <= A(l)
      BY <3>1, <1>13
    <3>4. e[i].old = c[a]
      BY <3>2, <1>1, <1>4
    <3> QED BY <3>4
  <2> QED BY <2>1, <2>2
<1> HIDE DEF r
<1>7. \A a, b \in Arch : r[a] = r[b] => a = b
  BY <1>2, <1>3
<1>8. ASSUME NEW i \in P, NEW j \in P, e[i].old = e[j].old PROVE i = j
  <2>1. e[i].rd = e[j].rd
    BY <1>2, <1>4, <1>8
  <2>2. ~(A(i) < A(j)) /\ ~(A(j) < A(i))
    BY <2>1, <1>1, <1>2, <1>4, <1>8
  <2> QED BY <2>2, <1>1
<1>9. ASSUME NEW a \in Arch, NEW i \in P, r[a] = e[i].old PROVE FALSE
  BY <1>1, <1>2, <1>3, <1>4, <1>9
<1>10. ASSUME NEW i \in P, NEW j \in P, A(i) <= A(j), e[i].old = e[j].new PROVE FALSE
  BY <1>1, <1>2, <1>4, <1>10
<1>11. MapRange(r) \cap {e[i].old : i \in P} = {}
  BY <1>9 DEF MapRange
<1>12. MapRange(r) \cup {e[i].old : i \in P} = MapRange(c) \cup {e[i].new : i \in P}
  <2>1. \A a \in Arch : r[a] \in MapRange(c) \cup {e[i].new : i \in P}
    BY <1>3 DEF MapRange
  <2>2. \A i \in P : e[i].old \in MapRange(c) \cup {e[k].new : k \in P}
    BY <1>2, <1>4 DEF MapRange
  <2>3. \A a \in Arch : c[a] \in MapRange(r) \cup {e[i].old : i \in P}
    BY <1>6 DEF MapRange
  <2>4. \A k \in P : e[k].new \in MapRange(r) \cup {e[i].old : i \in P}
    BY <1>2, <1>5 DEF MapRange
  <2> QED BY <2>1, <2>2, <2>3, <2>4 DEF MapRange
<1> QED
  BY <1>7, <1>8, <1>10, <1>11, <1>12 DEF r, A, News, Olds

-----------------------------------------------------------------------------
(***************************************************************************)
(* From the invariant to the properties the runs check.                    *)
(***************************************************************************)

(* Replay is ReplayOn over the machine's own map, entries and head.        *)
LEMMA ReplayIs ==
  /\ \A W : Replay(W) = ReplayOn(commMap, entry, head, W)
  /\ \A W : Replay(W)' = ReplayOn(commMap', entry', head', W)
BY DEF Replay, ReplayOn, Age

(* The live writers form a chain over the committed map.                   *)
LEMMA WindowChained ==
  ASSUME TypeOK, NamesDistinct, NamesReplayed
  PROVE  /\ Chained(commMap, entry, head, LiveWriters)
         /\ LiveWriters \subseteq Valid /\ Valid \subseteq Idx /\ head \in Idx
         /\ \A i \in Valid : entry[i] \in RobEntry
         /\ \A i \in Valid : Before(entry, head, LiveWriters, i) = Older(i)
<1>1. /\ LiveWriters \subseteq Valid /\ Valid \subseteq Idx /\ head \in Idx
      /\ \A i \in Valid : entry[i] \in RobEntry
  BY DEF LiveWriters, Valid, TypeOK
<1>2. \A i : Before(entry, head, LiveWriters, i) = Older(i)
  BY DEF Before, Older, Age
<1>3. \A i \in LiveWriters :
        entry[i].old = ReplayOn(commMap, entry, head, Older(i))[entry[i].rd]
  BY ReplayIs DEF NamesReplayed
<1>4. \A i \in LiveWriters : entry[i].rd \in Arch
  BY <1>1 DEF RobEntry
<1>5. \A i \in LiveWriters : \A a \in Arch : entry[i].new # commMap[a]
  BY DEF NamesDistinct, MapRange
<1>6. /\ \A a, b \in Arch : commMap[a] = commMap[b] => a = b
      /\ \A i, j \in LiveWriters : entry[i].new = entry[j].new => i = j
  BY DEF NamesDistinct
<1> QED
  BY <1>1, <1>2, <1>3, <1>4, <1>5, <1>6 DEF Chained

(* The invariant gives every physical register one place.                  *)
LEMMA NamesPartition ==
  ASSUME TypeOK, NamesInv
  PROVE  RegisterPartition /\ CommittedPartition
<1> DEFINE r == ReplayOn(commMap, entry, head, LiveWriters)
<1>1. /\ Chained(commMap, entry, head, LiveWriters)
      /\ LiveWriters \subseteq Idx /\ head \in Idx
      /\ \A i \in LiveWriters : entry[i] \in RobEntry
  BY WindowChained DEF NamesInv
<1>2. specMap = r
  BY ReplayIs DEF NamesInv, NamesReplayed
<1>3. /\ \A a, b \in Arch : r[a] = r[b] => a = b
      /\ \A i, j \in LiveWriters : entry[i].old = entry[j].old => i = j
      /\ MapRange(r) \cap LiveOld = {}
      /\ MapRange(r) \cup LiveOld = MapRange(commMap) \cup LiveNew
  BY <1>1, ChainPartition DEF LiveOld, LiveNew, Olds, News
<1> HIDE DEF r
<1>4. free = Preg \ (MapRange(commMap) \cup LiveNew)
  BY DEF NamesInv, FreeIsRest
<1>5. MapRange(commMap) \cup LiveNew \subseteq Preg
  <2>1. \A i \in LiveWriters : entry[i].new \in Preg
    BY <1>1 DEF RobEntry
  <2>2. \A a \in Arch : commMap[a] \in Preg
    BY DEF TypeOK
  <2> QED BY <2>1, <2>2 DEF MapRange, LiveNew
<1>6. RegisterPartition
  BY <1>2, <1>3, <1>4, <1>5 DEF RegisterPartition
<1>7. CommittedPartition
  BY DEF NamesInv, NamesDistinct, FreeIsRest, CommittedPartition
<1> QED
  BY <1>6, <1>7

(* A replay returns the name of a live writer or a committed name.         *)
LEMMA ReplayHeld ==
  ASSUME NEW c, NEW e, NEW h \in Idx, NEW W, W \subseteq Idx, NEW a \in Arch
  PROVE  ReplayOn(c, e, h, W)[a] \in MapRange(c) \cup News(e, W)
<1>1. CASE \A i \in W : e[i].rd # a
  BY <1>1, ReplayBase DEF MapRange
<1>2. CASE \E k \in W : e[k].rd = a
  <2>1. PICK i : IsLast(e, h, W, a, i)
    BY <1>2, LastExists
  <2>2. ReplayOn(c, e, h, W)[a] = e[i].new
    BY <2>1, ReplayLast
  <2> QED BY <2>1, <2>2 DEF IsLast, News
<1> QED
  BY <1>1, <1>2

(* What an in-flight instruction reads is not free.                        *)
LEMMA NamesSource ==
  ASSUME TypeOK, NamesInv
  PROVE  SourceIsNearestWriter
<1>1. SUFFICES ASSUME NEW i \in Valid
               PROVE  /\ entry[i].src = Replay(Older(i))[entry[i].rs]
                      /\ entry[i].src \notin free
  BY DEF SourceIsNearestWriter, Older
<1>2. entry[i].src = Replay(Older(i))[entry[i].rs]
  BY DEF NamesInv, NamesReplayed
<1>3. /\ head \in Idx /\ Older(i) \subseteq Idx /\ Older(i) \subseteq LiveWriters
      /\ entry[i].rs \in Arch
  <2>1. entry[i] \in RobEntry /\ Valid \subseteq Idx
    BY DEF Valid, TypeOK
  <2> QED BY <2>1 DEF RobEntry, TypeOK, Older, LiveWriters
<1>4. Replay(Older(i)) = ReplayOn(commMap, entry, head, Older(i))
  BY ReplayIs
<1>5. entry[i].src \in MapRange(commMap) \cup News(entry, Older(i))
  BY <1>2, <1>3, <1>4, ReplayHeld
<1>6. entry[i].src \in MapRange(commMap) \cup LiveNew
  BY <1>3, <1>5 DEF LiveNew, News
<1> QED
  BY <1>2, <1>6 DEF NamesInv, FreeIsRest

-----------------------------------------------------------------------------
(***************************************************************************)
(* One edge without recovery, seen from the writers: some leave at the old *)
(* end, some are kept, the demanding lanes join at the young end.          *)
(***************************************************************************)
Leaving(n)   == {i \in LiveWriters : Age(i) < n}
Kept(n)      == {i \in LiveWriters : n <= Age(i)}
Staying(n)   == {i \in Valid : n <= Age(i)}
Joining(acc) == {s \in acc : Demand(slot[s].uop)}
Places(S)    == {RobIdx(s) : s \in S}

(* Which entries the edge leaves, and in which order.                      *)
LEMMA CycleOrder ==
  ASSUME TypeOK, RobWindow,
         NEW n \in 0 .. RetireWidth, NEW t \in Tag \cup {NoTag}, NEW limit, NEW g,
         Cycle(n, t, limit, g)
  PROVE  LET acc == Accepted(limit)
         IN  /\ head \in Idx /\ head' \in Idx /\ Valid \subseteq Idx
             /\ Valid' = Staying(n) \cup Places(acc)
             /\ \A i \in Idx : i \in Valid /\ Age(i) < n => entry[i].complete
             /\ \A i \in Staying(n) : entry'[i] = ResolveEntry(entry[i], t)
             /\ \A s \in acc : RobIdx(s) \in Idx /\ entry'[RobIdx(s)] = NewEntry(acc, s, t)
             /\ \A i, j \in Staying(n) :
                  AgeFrom(head', i) <= AgeFrom(head', j) <=> Age(i) <= Age(j)
             /\ \A i \in Staying(n), s \in acc :
                  AgeFrom(head', i) < AgeFrom(head', RobIdx(s))
             /\ \A s, x \in acc :
                  AgeFrom(head', RobIdx(x)) < AgeFrom(head', RobIdx(s)) <=> x < s
             /\ \A s, x \in acc : RobIdx(x) = RobIdx(s) => x = s
             /\ \A s \in acc : RobIdx(s) \notin Staying(n)
<1> DEFINE acc == Accepted(limit)
           m == Cardinality(acc)
           c == NumRob - robFree
<1>0. NoEntry \notin RobEntry
  BY SentinelAssumption
<1>1. /\ n \in 0 .. c /\ m \in 0 .. robFree /\ c \in 0 .. NumRob
      /\ head \in Idx /\ head' \in Idx
  BY CycleShape DEF TypeOK
<1>2. /\ \A i \in Idx : Age(i)' = IF Age(i) >= n THEN Age(i) - n ELSE Age(i) - n + NumRob
      /\ \A i \in Idx : Age(i) < n => entry[i] # NoEntry /\ entry[i].complete
      /\ \A i \in Idx : (Age(i) < n \/ Age(i) >= c + m) => entry'[i] = NoEntry
      /\ \A i \in Idx : n <= Age(i) /\ Age(i) < c =>
           entry[i] # NoEntry /\ entry'[i] = ResolveEntry(entry[i], t)
  BY CycleShape
<1>3. /\ \A s \in acc : /\ RobIdx(s) \in Idx /\ Age(RobIdx(s)) = c + Lane(s)
                        /\ entry'[RobIdx(s)] = NewEntry(acc, s, t)
      /\ \A i \in Idx : c <= Age(i) /\ Age(i) < c + m => \E s \in acc : i = RobIdx(s)
  BY CycleShape
<1>4. \A i \in Idx : Age(i) \in 0 .. NumRob - 1
  BY <1>1, AgeFacts
<1>5. /\ acc \subseteq Nat
      /\ \A s \in acc : Lane(s) \in 0 .. m - 1
      /\ \A s, x \in acc : s < x => Lane(s) < Lane(x)
  <2>1. acc \subseteq Nat
    BY SlotFacts DEF Accepted
  <2>2. robFree \in 0 .. NumRob
    BY DEF TypeOK
  <2>3. /\ \A s \in acc : Lane(s) \in 0 .. m - 1
        /\ \A s, x \in acc : s < x => Lane(s) < Lane(x)
    BY <2>2, LaneFacts
  <2> QED BY <2>1, <2>3
<1>6. \A i \in Idx : i \in Valid <=> Age(i) < c
  BY DEF RobWindow, Valid
<1>7. /\ \A s \in acc : NewEntry(acc, s, t) \in RobEntry
      /\ \A e \in RobEntry : ResolveEntry(e, t) \in RobEntry
  BY EntryType
<1>8. /\ Valid \subseteq Idx /\ Valid' \subseteq Idx
      /\ \A i \in Valid : entry[i] \in RobEntry
      /\ \A i \in Idx : i \in Valid' <=> entry'[i] # NoEntry
  BY DEF Valid, TypeOK
<1> HIDE DEF acc, m, c
<1>9. \A i \in Idx : i \in Staying(n) <=> n <= Age(i) /\ Age(i) < c
  BY <1>6, <1>8 DEF Staying
<1>10. Staying(n) \subseteq Idx
  BY <1>8 DEF Staying
<1>11. \A i \in Staying(n) : entry'[i] = ResolveEntry(entry[i], t) /\ entry[i] \in RobEntry
  BY <1>2, <1>8, <1>9, <1>10 DEF Staying
<1>12. \A i \in Idx : AgeFrom(head', i) = IF Age(i) >= n THEN Age(i) - n
                                           ELSE Age(i) - n + NumRob
  BY <1>2 DEF Age
<1>13. \A i \in Staying(n) : /\ AgeFrom(head', i) = Age(i) - n
                             /\ Age(i) \in Int /\ Age(i) < c /\ Age(i) >= n
  BY <1>4, <1>9, <1>10, <1>12
<1>14. \A s \in acc : AgeFrom(head', RobIdx(s)) = c + Lane(s) - n /\ Lane(s) \in 0 .. m - 1
  <2>1. SUFFICES ASSUME NEW s \in acc PROVE AgeFrom(head', RobIdx(s)) = c + Lane(s) - n
    BY <1>5
  <2>2. RobIdx(s) \in Idx /\ Age(RobIdx(s)) = c + Lane(s) /\ Lane(s) \in 0 .. m - 1
    BY <1>3, <1>5
  <2>3. Age(RobIdx(s)) >= n
    BY <2>2, <1>1
  <2> QED BY <2>2, <2>3, <1>1, <1>12
<1>15. \A i, j \in Staying(n) : AgeFrom(head', i) <= AgeFrom(head', j) <=> Age(i) <= Age(j)
  BY <1>1, <1>13
<1>16. \A i \in Staying(n), s \in acc : AgeFrom(head', i) < AgeFrom(head', RobIdx(s))
  <2>1. SUFFICES ASSUME NEW i \in Staying(n), NEW s \in acc
                 PROVE  AgeFrom(head', i) < AgeFrom(head', RobIdx(s))
    OBVIOUS
  <2>2. AgeFrom(head', i) = Age(i) - n /\ Age(i) \in Int /\ Age(i) < c
    BY <1>13
  <2>3. AgeFrom(head', RobIdx(s)) = c + Lane(s) - n /\ Lane(s) \in Nat
    BY <1>14
  <2> QED BY <2>2, <2>3, <1>1
<1>17. ASSUME NEW s \in acc, NEW x \in acc
       PROVE  /\ AgeFrom(head', RobIdx(x)) < AgeFrom(head', RobIdx(s)) <=> x < s
              /\ RobIdx(x) = RobIdx(s) => x = s
  <2>1. /\ AgeFrom(head', RobIdx(s)) = c + Lane(s) - n /\ Lane(s) \in Nat
        /\ AgeFrom(head', RobIdx(x)) = c + Lane(x) - n /\ Lane(x) \in Nat
        /\ s \in Nat /\ x \in Nat
    BY <1>5, <1>14
  <2>2. /\ s < x => Lane(s) < Lane(x)
        /\ x < s => Lane(x) < Lane(s)
    BY <1>5
  <2>3. AgeFrom(head', RobIdx(x)) < AgeFrom(head', RobIdx(s)) <=> Lane(x) < Lane(s)
    BY <2>1, <1>1
  <2>4. RobIdx(x) = RobIdx(s) => Lane(x) = Lane(s)
    BY <1>3, <2>1, <1>1
  <2>5. s < x \/ x < s \/ x = s
    BY <2>1
  <2> QED BY <2>1, <2>2, <2>3, <2>4, <2>5
<1>18. \A s \in acc : RobIdx(s) \notin Staying(n)
  <2>1. SUFFICES ASSUME NEW s \in acc PROVE ~(Age(RobIdx(s)) < c)
    BY <1>9, <1>3
  <2>2. Age(RobIdx(s)) = c + Lane(s) /\ Lane(s) \in Nat
    BY <1>3, <1>14
  <2> QED BY <2>2, <1>1
<1>19. Valid' = Staying(n) \cup Places(acc)
  <2>1. ASSUME NEW i \in Idx, entry'[i] # NoEntry
        PROVE  i \in Staying(n) \cup Places(acc)
    <3>1. ~(Age(i) < n) /\ ~(Age(i) >= c + m)
      BY <2>1, <1>2
    <3>2. Age(i) \in Nat /\ c \in Nat /\ m \in Nat /\ n \in Nat
      BY <1>1, <1>4
    <3> QED BY <3>1, <3>2, <1>3, <1>9 DEF Places
  <2>2. \A i \in Staying(n) : entry'[i] # NoEntry
    BY <1>0, <1>7, <1>11
  <2>3. \A s \in acc : entry'[RobIdx(s)] # NoEntry
    BY <1>0, <1>3, <1>7
  <2> QED BY <2>1, <2>2, <2>3, <1>3, <1>8, <1>10 DEF Places
<1>20. \A i \in Idx : i \in Valid /\ Age(i) < n => entry[i].complete
  BY <1>2
<1> QED
  BY <1>1, <1>3, <1>8, <1>11, <1>15, <1>16, <1>17, <1>18, <1>19, <1>20 DEF acc

(* What the edge does to the fields the names depend on.                   *)
LEMMA CycleWriters ==
  ASSUME TypeOK, RobWindow,
         NEW n \in 0 .. RetireWidth, NEW t \in Tag \cup {NoTag}, NEW limit, NEW g,
         Cycle(n, t, limit, g)
  PROVE  LET acc == Accepted(limit)
         IN  /\ LiveWriters \subseteq Valid /\ Kept(n) \subseteq Staying(n)
             /\ Staying(n) \subseteq Valid
             /\ LiveWriters = Leaving(n) \cup Kept(n)
             /\ \A i \in Leaving(n), j \in Staying(n) : Age(i) < Age(j)
             /\ LiveWriters' = Kept(n) \cup Places(Joining(acc))
             /\ \A i \in Staying(n) :
                  /\ entry'[i].rd = entry[i].rd /\ entry'[i].rs = entry[i].rs
                  /\ entry'[i].new = entry[i].new /\ entry'[i].old = entry[i].old
                  /\ entry'[i].src = entry[i].src
                  /\ entry'[i].mask = entry[i].mask \ {t}
                  /\ Demand(entry'[i]) <=> Demand(entry[i])
             /\ \A s \in acc :
                  /\ entry'[RobIdx(s)].rd = slot[s].uop.rd
                  /\ entry'[RobIdx(s)].rs = slot[s].uop.rs
                  /\ entry'[RobIdx(s)].new = NewPreg(acc, s)
                  /\ entry'[RobIdx(s)].old = OldPreg(acc, s)
                  /\ entry'[RobIdx(s)].src = Source(acc, slot[s].src, slot[s].uop.rs)
                  /\ entry'[RobIdx(s)].mask = LaneMask(acc, s, t)
                  /\ Demand(entry'[RobIdx(s)]) <=> Demand(slot[s].uop)
<1> DEFINE acc == Accepted(limit)
<1>1. /\ head \in Idx /\ Valid \subseteq Idx
      /\ Valid' = Staying(n) \cup Places(acc)
      /\ \A i \in Staying(n) : entry'[i] = ResolveEntry(entry[i], t)
      /\ \A s \in acc : RobIdx(s) \in Idx /\ entry'[RobIdx(s)] = NewEntry(acc, s, t)
      /\ \A s \in acc : RobIdx(s) \notin Staying(n)
  BY CycleOrder
<1> HIDE DEF acc
<1>2. \A i \in Idx : Age(i) \in 0 .. NumRob - 1
  BY <1>1, AgeFacts
<1>3. \A i \in Valid : entry[i] \in RobEntry
  BY DEF Valid, TypeOK
<1>4. ASSUME NEW i \in Staying(n)
      PROVE  /\ entry'[i].rd = entry[i].rd /\ entry'[i].rs = entry[i].rs
             /\ entry'[i].new = entry[i].new /\ entry'[i].old = entry[i].old
             /\ entry'[i].src = entry[i].src
             /\ entry'[i].mask = entry[i].mask \ {t}
             /\ entry'[i].wen = entry[i].wen
  <2>1. entry[i] \in RobEntry
    BY <1>3 DEF Staying
  <2>2. entry'[i] = ResolveEntry(entry[i], t)
    BY <1>1
  <2> QED BY <2>1, <2>2 DEF ResolveEntry, RobEntry
<1>5. ASSUME NEW s \in acc
      PROVE  /\ entry'[RobIdx(s)].rd = slot[s].uop.rd
             /\ entry'[RobIdx(s)].rs = slot[s].uop.rs
             /\ entry'[RobIdx(s)].new = NewPreg(acc, s)
             /\ entry'[RobIdx(s)].old = OldPreg(acc, s)
             /\ entry'[RobIdx(s)].src = Source(acc, slot[s].src, slot[s].uop.rs)
             /\ entry'[RobIdx(s)].mask = LaneMask(acc, s, t)
             /\ entry'[RobIdx(s)].wen = slot[s].uop.wen
  <2>1. entry'[RobIdx(s)] = NewEntry(acc, s, t)
    BY <1>1
  <2> QED BY <2>1 DEF NewEntry
<1>6. LiveWriters' = {i \in Staying(n) \cup Places(acc) : Demand(entry'[i])}
  BY <1>1 DEF LiveWriters
<1>7. \A i \in Staying(n) : Demand(entry'[i]) <=> Demand(entry[i])
  BY <1>4 DEF Demand
<1>8. \A s \in acc : Demand(entry'[RobIdx(s)]) <=> Demand(slot[s].uop)
  BY <1>5 DEF Demand
<1>9. /\ LiveWriters \subseteq Valid /\ Staying(n) \subseteq Valid
      /\ Kept(n) = {i \in Staying(n) : Demand(entry[i])}
      /\ LiveWriters = Leaving(n) \cup Kept(n)
  BY <1>1, <1>2 DEF LiveWriters, Kept, Staying, Leaving
<1>10. LiveWriters' = Kept(n) \cup Places(Joining(acc))
  BY <1>6, <1>7, <1>8, <1>9 DEF Places, Joining
<1>11. \A i \in Leaving(n), j \in Staying(n) : Age(i) < Age(j)
  <2>1. SUFFICES ASSUME NEW i \in Leaving(n), NEW j \in Staying(n) PROVE Age(i) < Age(j)
    OBVIOUS
  <2>2. Age(i) < n /\ n <= Age(j) /\ Age(i) \in Int /\ Age(j) \in Int
    BY <1>1, <1>2, <1>9 DEF Leaving, Staying
  <2> QED BY <2>2
<1> QED
  BY <1>4, <1>5, <1>7, <1>8, <1>9, <1>10, <1>11 DEF acc

(* Two ports that retire the same register: the younger one wins.          *)
LEMMA CycleCommits ==
  ASSUME TypeOK, RobWindow,
         NEW n \in 0 .. RetireWidth, NEW t \in Tag \cup {NoTag}, NEW limit, NEW g,
         Cycle(n, t, limit, g)
  PROVE  /\ commMap' = ReplayOn(commMap, entry, head, Leaving(n))
         /\ \A k \in 0 .. n - 1 : Wrap(head, k) \in Valid /\ Age(Wrap(head, k)) = k
         /\ \A i \in Leaving(n) : Age(i) \in 0 .. n - 1 /\ Wrap(head, Age(i)) = i
<1> DEFINE P == Leaving(n)
<1>1. head \in Idx /\ Valid \subseteq Idx /\ P \subseteq Idx
  BY DEF TypeOK, Valid, LiveWriters, Leaving
<1>2. /\ \A i \in Idx : Age(i) \in 0 .. NumRob - 1 /\ Wrap(head, Age(i)) = i
      /\ \A k \in 0 .. NumRob - 1 : Wrap(head, k) \in Idx /\ Age(Wrap(head, k)) = k
  BY <1>1, AgeFacts
<1>3. \A k \in 0 .. n - 1 : Wrap(head, k) \in Valid /\ Age(Wrap(head, k)) = k
  <2>1. SUFFICES ASSUME NEW k \in 0 .. n - 1
                 PROVE  Wrap(head, k) \in Valid /\ Age(Wrap(head, k)) = k
    OBVIOUS
  <2>2. k \in 0 .. NumRob - 1
    OBVIOUS
  <2>3. entry[Wrap(head, k)] # NoEntry
    BY DEF Cycle, CanRetire
  <2> QED BY <2>2, <2>3, <1>2 DEF Valid
<1>4. \A i \in P : Age(i) \in 0 .. n - 1 /\ Wrap(head, Age(i)) = i
  <2>1. \A i \in P : Age(i) < n
    BY DEF Leaving
  <2> QED BY <2>1, <1>1, <1>2
<1>5. \A k \in 0 .. n - 1 : Wrap(head, k) \in P <=> Demand(entry[Wrap(head, k)])
  BY <1>3 DEF Leaving, LiveWriters
<1>6. \A a, k : k \in CommitPortsOf(n, a) <=>
        k \in 0 .. n - 1 /\ Wrap(head, k) \in P /\ entry[Wrap(head, k)].rd = a
  BY <1>5 DEF CommitPortsOf, CommitPorts, Demand
<1>7. commMap' = [a \in Arch |-> IF CommitPortsOf(n, a) = {} THEN commMap[a]
                   ELSE entry[Wrap(head, Latest(CommitPortsOf(n, a)))].new]
  BY DEF Cycle, CommittedMap
<1> HIDE DEF P
<1>8. ASSUME NEW a \in Arch PROVE commMap'[a] = ReplayOn(commMap, entry, head, P)[a]
  <2> DEFINE cp == CommitPortsOf(n, a)
  <2>1. CASE cp = {}
    <3>1. \A i \in P : entry[i].rd # a
      BY <2>1, <1>4, <1>6
    <3> QED BY <2>1, <3>1, <1>7, ReplayBase
  <2>2. CASE cp # {}
    <3>1. cp \subseteq 0 .. n - 1 /\ IsFiniteSet(0 .. n - 1) /\ 0 .. n - 1 \subseteq Nat
      BY <1>6, FS_Interval
    <3>2. PICK k \in cp : \A j \in cp : j <= k
      <4>1. IsFiniteSet(cp) /\ cp \subseteq Nat
        BY <3>1, FS_Subset
      <4> HIDE DEF cp
      <4> QED BY <4>1, <2>2, FiniteMax
    <3>3. \A j \in cp : j \in Nat
      BY <3>1
    <3>4. Latest(cp) = k
      BY <3>2, <3>3 DEF Latest
    <3>5. IsLast(entry, head, P, a, Wrap(head, k))
      <4>1. SUFFICES ASSUME NEW j \in P, entry[j].rd = a
                     PROVE  /\ AgeFrom(head, j) <= AgeFrom(head, Wrap(head, k))
                            /\ AgeFrom(head, Wrap(head, k)) <= AgeFrom(head, j) =>
                                 j = Wrap(head, k)
        BY <3>2, <1>6 DEF IsLast
      <4>2. Age(j) \in cp /\ Wrap(head, Age(j)) = j
        BY <4>1, <1>4, <1>6
      <4>3. Age(j) <= k /\ Age(Wrap(head, k)) = k /\ k \in Nat /\ Age(j) \in Nat
        BY <4>2, <3>1, <3>2, <1>3
      <4> QED BY <4>2, <4>3 DEF Age
    <3>6. commMap'[a] = entry[Wrap(head, k)].new
      BY <2>2, <3>4, <1>7
    <3> QED BY <3>5, <3>6, ReplayLast
  <2> QED BY <2>1, <2>2
<1>9. commMap' = ReplayOn(commMap, entry, head, P)
  BY <1>7, <1>8 DEF ReplayOn
<1> QED
  BY <1>3, <1>4, <1>9 DEF P

-----------------------------------------------------------------------------
(***************************************************************************)
(* The accepted lanes: what they are given and what they read.             *)
(***************************************************************************)

(* The lanes of acc before slot s that take a register, and the map after  *)
(* the lanes L.                                                            *)
Ahead(acc, s) == {x \in Joining(acc) : x < s}
UpTo(acc, s)  == {x \in Joining(acc) : x <= s}

LaneMap(acc, L, a) ==
  LET ws == {x \in L : slot[x].uop.rd = a}
  IN  IF ws = {} THEN specMap[a] ELSE NewPreg(acc, Latest(ws))

(* Acceptance is a prefix of the buffer.                                   *)
LEMMA PrefixClosed ==
  ASSUME NEW limit, NEW s \in Accepted(limit), NEW x \in Occupied, x <= s
  PROVE  x \in Accepted(limit)
<1>1. s \in Nat /\ x \in Nat /\ \A y \in Occupied : y \in Nat
  BY SlotFacts DEF Accepted
<1>2. \A y \in Occupied : y <= x => y <= s
  BY <1>1
<1> QED
  BY <1>2 DEF Accepted

(* Every lane that takes a register gets a free one of its own.            *)
LEMMA AllocFacts ==
  ASSUME TypeOK, NEW limit
  PROVE  LET acc == Accepted(limit)
         IN  /\ \A s \in Joining(acc) : NewPreg(acc, s) \in Avail
             /\ \A s, x \in Joining(acc) : NewPreg(acc, s) = NewPreg(acc, x) => s = x
             /\ Taken(acc) = {NewPreg(acc, s) : s \in Joining(acc)}
<1> DEFINE acc == Accepted(limit)
           D == Joining(acc)
           F == Avail
<1>1. F \subseteq Nat /\ IsFiniteSet(F) /\ Cardinality(F) \in Nat
  <2>1. IsFiniteSet(Preg) /\ Preg \subseteq Nat
    BY FS_Interval DEF Preg
  <2>2. F \subseteq Preg
    BY DEF Avail, TypeOK
  <2> QED BY <2>1, <2>2, FS_Subset, FS_CardinalityType
<1>2. D \subseteq acc /\ D \subseteq Nat /\ IsFiniteSet(D) /\ D \subseteq Occupied
  <2>1. acc \subseteq Occupied /\ Occupied \subseteq Slot /\ Slot \subseteq Nat
    BY SlotFacts DEF Accepted
  <2>2. D \subseteq acc
    BY DEF Joining
  <2> QED BY <2>1, <2>2, SlotFacts
<1>3. \A s \in D : PregRank(acc, s) = Cardinality(Below(D, s))
  <2>1. \A s : {x \in acc : x < s /\ Demand(slot[x].uop)} = Below(D, s)
    BY DEF Below, Joining
  <2> QED BY <2>1 DEF PregRank
<1>4. ASSUME NEW s \in D
      PROVE  PregRank(acc, s) \in Nat /\ PregRank(acc, s) < Cardinality(F)
  <2>1. Cardinality(Below(D, s)) \in Nat /\
        Cardinality(Below(D, s) \cup {s}) = Cardinality(Below(D, s)) + 1
    <3> HIDE DEF D
    <3> QED BY <1>2, RankBound
  <2>2. {x \in Occupied : x <= s /\ Demand(slot[x].uop)} = Below(D, s) \cup {s}
    <3>1. \A x \in Occupied : x <= s => x \in acc
      BY <1>2, PrefixClosed
    <3>2. \A x \in Occupied : x \in Nat
      BY SlotFacts
    <3>3. s \in acc /\ s \in Nat /\ s \in Occupied /\ Demand(slot[s].uop)
      BY <1>2 DEF Joining
    <3>4. ASSUME NEW x \in Occupied
          PROVE  x <= s /\ Demand(slot[x].uop) <=> x \in Below(D, s) \cup {s}
      BY <3>1, <3>2, <3>3 DEF Below, Joining
    <3>5. Below(D, s) \cup {s} \subseteq Occupied
      BY <1>2, <3>3 DEF Below
    <3> QED BY <3>4, <3>5
  <2>3. LaneOk(s, limit)
    BY <1>2, SlotFacts DEF Accepted
  <2>4. Cardinality(F) >= PregNeed(s)
    BY <2>3 DEF LaneOk
  <2>5. PregNeed(s) = Cardinality(Below(D, s)) + 1 /\ PregRank(acc, s) = Cardinality(Below(D, s))
    BY <2>1, <2>2, <1>3 DEF PregNeed
  <2> HIDE DEF D, F, acc
  <2> QED BY <2>1, <2>4, <2>5, <1>1
<1>5. ASSUME NEW s \in D
      PROVE  /\ NewPreg(acc, s) \in F
             /\ Cardinality(Below(F, NewPreg(acc, s))) = PregRank(acc, s)
  <2>1. PICK p \in F : Cardinality(Below(F, p)) = PregRank(acc, s)
    <3> HIDE DEF F
    <3> QED BY <1>1, <1>4, RankExists
  <2>2. HasNth(F, PregRank(acc, s))
    BY <2>1 DEF HasNth, Below
  <2>3. /\ Nth(F, PregRank(acc, s)) \in F
        /\ Cardinality(Below(F, Nth(F, PregRank(acc, s)))) = PregRank(acc, s)
    <3> HIDE DEF F
    <3> QED BY <2>2 DEF HasNth, Nth, Below
  <2>4. Demand(slot[s].uop)
    BY DEF Joining
  <2> QED BY <2>2, <2>3, <2>4 DEF NewPreg
<1>6. ASSUME NEW s \in D, NEW x \in D, NewPreg(acc, s) = NewPreg(acc, x) PROVE s = x
  <2>1. Cardinality(Below(D, s)) = Cardinality(Below(D, x))
    BY <1>3, <1>5, <1>6
  <2> HIDE DEF D
  <2> QED BY <2>1, <1>2, <1>6, RankInjective
<1>7. Taken(acc) = {NewPreg(acc, s) : s \in D}
  BY DEF Taken, Joining
<1> QED
  BY <1>5, <1>6, <1>7

(* The link R1 stored tells R2 the map before the lane (r2_dependency).    *)
LEMMA LinkedSource ==
  ASSUME NEW limit, NEW s \in Accepted(limit), NEW d, NEW a, Linked(s, d, a)
  PROVE  Source(Accepted(limit), d, a) =
           LaneMap(Accepted(limit), Ahead(Accepted(limit), s), a)
<1> DEFINE acc == Accepted(limit)
           ws == {x \in Ahead(acc, s) : slot[x].uop.rd = a}
<1>1. Producers(s, a) = ws
  <2>1. s \in Nat /\ acc \subseteq Occupied /\ \A x \in Occupied : x \in Nat
    BY SlotFacts DEF Accepted
  <2>2. \A x \in Occupied : x < s => x \in acc
    BY <2>1, PrefixClosed
  <2> QED BY <2>1, <2>2 DEF Producers, Ahead, Joining
<1>2. CASE ws = {}
  BY <1>1, <1>2 DEF Linked, Source, LaneMap
<1>3. CASE ws # {}
  <2>1. ws \subseteq Slot /\ ws \subseteq Occupied
    BY SlotFacts DEF Ahead, Joining, Accepted
  <2>2. d = Latest(ws) /\ Latest(ws) \in ws
    <3>1. d = Latest(ws)
      BY <1>1, <1>3 DEF Linked
    <3> HIDE DEF ws
    <3> QED BY <3>1, <2>1, <1>3, LatestFacts
  <2>3. d # NoDep
    BY <2>1, <2>2, SentinelAssumption
  <2> QED BY <2>1, <2>2, <2>3, <1>3 DEF Source, LaneMap
<1> QED
  BY <1>2, <1>3

(* The map behind slot s is the map after the lanes up to s.               *)
LEMMA MapAfterIs ==
  ASSUME NEW acc, NEW s, NEW a \in Arch
  PROVE  MapAfter(acc, s)[a] = LaneMap(acc, UpTo(acc, s), a)
<1>1. MapWriters(acc, s, a) = {x \in UpTo(acc, s) : slot[x].uop.rd = a}
  BY DEF MapWriters, UpTo, Joining
<1> QED
  BY <1>1 DEF MapAfter, LaneMap

(* Kept writers over the committed map of the next state are the leaving   *)
(* and the kept ones over today's.                                         *)
LEMMA ReplayKept ==
  ASSUME TypeOK, RobWindow,
         NEW n \in 0 .. RetireWidth, NEW t \in Tag \cup {NoTag}, NEW limit, NEW g,
         Cycle(n, t, limit, g),
         NEW T, T \subseteq Kept(n), NEW a \in Arch
  PROVE  ReplayOn(commMap', entry', head', T)[a] =
           ReplayOn(commMap, entry, head, Leaving(n) \cup T)[a]
<1> DEFINE P == Leaving(n)
           c == ReplayOn(commMap, entry, head, P)
<1>1. /\ head \in Idx /\ head' \in Idx
      /\ P \subseteq Idx /\ T \subseteq Idx /\ T \subseteq Staying(n)
      /\ commMap' = c
  BY CycleOrder, CycleWriters, CycleCommits DEF Leaving
<1>2. /\ \A i \in Staying(n) : entry'[i].rd = entry[i].rd /\ entry'[i].new = entry[i].new
      /\ \A i \in P, j \in Staying(n) : AgeFrom(head, i) < AgeFrom(head, j)
  BY CycleWriters DEF Age
<1>3. \A i, j \in Staying(n) : AgeFrom(head, i) <= AgeFrom(head, j)
                                => AgeFrom(head', i) <= AgeFrom(head', j)
  BY CycleOrder DEF Age
<1>4. ReplayOn(c, entry, head, T)[a] = ReplayOn(commMap, entry, head, P \cup T)[a]
  <2>1. \A i \in P, j \in T : AgeFrom(head, i) < AgeFrom(head, j)
    BY <1>1, <1>2
  <2>2. Splits(head, P, T)
    BY <2>1, <1>1 DEF Splits
  <2> HIDE DEF P
  <2> QED BY <2>2, ReplaySplit
<1>5. ReplayOn(commMap', entry', head', T)[a] = ReplayOn(commMap', entry, head, T)[a]
  <2>1. \A i \in T : entry'[i].rd = entry[i].rd /\ entry'[i].new = entry[i].new
    BY <1>1, <1>2
  <2>2. \A i, j \in T : AgeFrom(head, i) <= AgeFrom(head, j)
                         => AgeFrom(head', i) <= AgeFrom(head', j)
    BY <1>1, <1>3
  <2>3. head \in Idx /\ head' \in Idx /\ T \subseteq Idx
    BY <1>1
  <2>4. SameWriters(a, commMap', entry, head, T, commMap', entry', head', T)
    BY <2>1, <2>2, <2>3 DEF SameWriters
  <2> QED BY <2>4, ReplaySame
<1> QED
  BY <1>1, <1>4, <1>5

(* Joining lanes on top of all kept writers read as the lanes' map over    *)
(* the speculative map.                                                    *)
LEMMA ReplayJoined ==
  ASSUME TypeOK, RobWindow, specMap = Replay(LiveWriters),
         NEW n \in 0 .. RetireWidth, NEW t \in Tag \cup {NoTag}, NEW limit, NEW g,
         Cycle(n, t, limit, g),
         NEW L, L \subseteq Joining(Accepted(limit)), NEW a \in Arch
  PROVE  ReplayOn(commMap', entry', head', Kept(n) \cup Places(L))[a] =
           LaneMap(Accepted(limit), L, a)
<1> DEFINE acc == Accepted(limit)
           K == Kept(n)
           U == K \cup Places(L)
           ws == {x \in L : slot[x].uop.rd = a}
<1>1. /\ head \in Idx /\ head' \in Idx /\ Valid \subseteq Idx
      /\ K \subseteq Staying(n) /\ Staying(n) \subseteq Valid
      /\ LiveWriters = Leaving(n) \cup K
      /\ L \subseteq acc /\ acc \subseteq Slot /\ acc \subseteq Nat
      /\ \A s \in acc : RobIdx(s) \in Idx
      /\ \A s, x \in acc : RobIdx(x) = RobIdx(s) => x = s
  BY CycleOrder, CycleWriters, SlotFacts DEF Joining, Accepted
<1>2. \A s \in acc : /\ entry'[RobIdx(s)].rd = slot[s].uop.rd
                     /\ entry'[RobIdx(s)].new = NewPreg(acc, s)
  BY CycleWriters
<1>3. /\ \A i \in Staying(n), s \in acc : AgeFrom(head', i) < AgeFrom(head', RobIdx(s))
      /\ \A s, x \in acc : AgeFrom(head', RobIdx(x)) < AgeFrom(head', RobIdx(s)) <=> x < s
  BY CycleOrder
<1>4. \A i \in Idx : AgeFrom(head', i) \in Int
  <2>1. \A i \in Idx : AgeFrom(head', i) \in 0 .. NumRob - 1
    BY <1>1, AgeFromFacts
  <2> QED BY <2>1
<1> HIDE DEF acc, K
<1>5. U \subseteq Idx
  BY <1>1 DEF Places
<1>6. CASE ws # {}
  <2>1. PICK z \in ws : Latest(ws) = z /\ \A x \in ws : x <= z
    <3>1. ws \subseteq Slot
      BY <1>1
    <3> HIDE DEF ws
    <3> QED BY <3>1, <1>6, LatestFacts
  <2>2. z \in acc /\ z \in L /\ slot[z].uop.rd = a
    BY <2>1, <1>1
  <2>3. IsLast(entry', head', U, a, RobIdx(z))
    <3>1. RobIdx(z) \in U /\ entry'[RobIdx(z)].rd = a
      BY <2>2, <1>2 DEF Places
    <3>2. ASSUME NEW j \in K
          PROVE  AgeFrom(head', j) < AgeFrom(head', RobIdx(z))
      BY <2>2, <1>1, <1>3
    <3>3. ASSUME NEW x \in L, entry'[RobIdx(x)].rd = a
          PROVE  x = z \/ AgeFrom(head', RobIdx(x)) < AgeFrom(head', RobIdx(z))
      <4>1. x \in ws /\ x \in acc /\ x \in Nat /\ z \in Nat
        BY <3>3, <2>2, <1>1, <1>2
      <4>2. x = z \/ x < z
        BY <4>1, <2>1
      <4> QED BY <4>1, <4>2, <2>2, <1>3
    <3>4. SUFFICES ASSUME NEW j \in U, entry'[j].rd = a
                   PROVE  j = RobIdx(z) \/ AgeFrom(head', j) < AgeFrom(head', RobIdx(z))
      <4>1. \A j \in U : AgeFrom(head', j) \in Int
        BY <1>4, <1>5
      <4> HIDE DEF U
      <4> QED BY <3>1, <4>1 DEF IsLast
    <3> QED BY <3>2, <3>3, <3>4 DEF Places
  <2> HIDE DEF U
  <2>4. ReplayOn(commMap', entry', head', U)[a] = entry'[RobIdx(z)].new
    BY <2>3, ReplayLast
  <2> QED BY <2>1, <2>2, <2>4, <1>2, <1>6 DEF LaneMap, acc, U, K
<1>7. CASE ws = {}
  <2>1. ReplayOn(commMap', entry', head', U)[a] = ReplayOn(commMap', entry', head', K)[a]
    <3>1. \A i \in Idx : i \in U /\ entry'[i].rd = a <=> i \in K /\ entry'[i].rd = a
      BY <1>1, <1>2, <1>7 DEF Places
    <3>2. K \subseteq Idx
      BY <1>1
    <3> HIDE DEF U
    <3>3. SameWriters(a, commMap', entry', head', K, commMap', entry', head', U)
      BY <3>1, <3>2, <1>1, <1>5 DEF SameWriters
    <3> QED BY <3>3, ReplaySame
  <2>2. ReplayOn(commMap', entry', head', K)[a] =
          ReplayOn(commMap, entry, head, Leaving(n) \cup K)[a]
    <3>1. Kept(n) \subseteq Kept(n)
      OBVIOUS
    <3> QED BY <3>1, ReplayKept DEF K
  <2>3. specMap[a] = ReplayOn(commMap, entry, head, LiveWriters)[a]
    BY ReplayIs
  <2> QED BY <2>1, <2>2, <2>3, <1>1, <1>7 DEF LaneMap, acc, U, K
<1> QED
  BY <1>6, <1>7

-----------------------------------------------------------------------------
(***************************************************************************)
(* The edge without recovery preserves the invariant, part by part.        *)
(***************************************************************************)

(* The leaving writers are a chain of their own: the committed map they    *)
(* leave behind and the names they release are what the window below held. *)
LEMMA LeavingChain ==
  ASSUME TypeOK, RobWindow, NamesInv,
         NEW n \in 0 .. RetireWidth, NEW t \in Tag \cup {NoTag}, NEW limit, NEW g,
         Cycle(n, t, limit, g)
  PROVE  /\ \A a, b \in Arch : commMap'[a] = commMap'[b] => a = b
         /\ MapRange(commMap') \cap Olds(entry, Leaving(n)) = {}
         /\ MapRange(commMap') \cup Olds(entry, Leaving(n)) =
              MapRange(commMap) \cup News(entry, Leaving(n))
         /\ \A i, j \in Leaving(n) : Age(i) <= Age(j) => entry[i].old # entry[j].new
         /\ HasZeroReg => commMap'[0] = 0
<1> DEFINE P == Leaving(n)
<1>1. /\ Chained(commMap, entry, head, LiveWriters)
      /\ \A i \in LiveWriters : Before(entry, head, LiveWriters, i) = Older(i)
      /\ P \subseteq LiveWriters /\ LiveWriters \subseteq Idx /\ head \in Idx
  BY WindowChained DEF NamesInv, Leaving
<1>2. \A i \in P : Before(entry, head, P, i) = Before(entry, head, LiveWriters, i)
  <2>1. SUFFICES ASSUME NEW i \in P, NEW j \in LiveWriters, AgeFrom(head, j) < AgeFrom(head, i)
                 PROVE  j \in P
    BY <1>1 DEF Before
  <2>2. /\ Age(j) < Age(i) /\ Age(i) < n
        /\ Age(j) \in 0 .. NumRob - 1 /\ Age(i) \in 0 .. NumRob - 1
    BY <2>1, <1>1, AgeFacts DEF Age, Leaving
  <2>3. Age(j) < n
    BY <2>2
  <2> QED BY <2>3 DEF Leaving
<1>3. Chained(commMap, entry, head, P)
  BY <1>1, <1>2 DEF Chained
<1>4. commMap' = ReplayOn(commMap, entry, head, P)
  BY CycleCommits
<1>5. /\ \A a, b \in Arch : commMap'[a] = commMap'[b] => a = b
      /\ MapRange(commMap') \cap Olds(entry, P) = {}
      /\ MapRange(commMap') \cup Olds(entry, P) = MapRange(commMap) \cup News(entry, P)
      /\ \A i, j \in P : AgeFrom(head, i) <= AgeFrom(head, j) => entry[i].old # entry[j].new
  BY <1>3, <1>4, ChainPartition
<1>6. HasZeroReg => commMap'[0] = 0
  <2>1. SUFFICES ASSUME HasZeroReg PROVE commMap'[0] = 0
    OBVIOUS
  <2>2. 0 \in Arch /\ commMap[0] = 0
    BY <2>1 DEF Arch, NamesInv, NamesDistinct
  <2>3. \A i \in P : entry[i].rd # 0
    BY <2>1, <1>1 DEF LiveWriters, Demand
  <2> QED BY <2>2, <2>3, <1>4, ReplayBase
<1> QED
  BY <1>5, <1>6 DEF Age

(* The names of the writers in the next window.                            *)
LEMMA CycleDistinct ==
  ASSUME TypeOK, RobWindow, NamesInv,
         NEW n \in 0 .. RetireWidth, NEW t \in Tag \cup {NoTag}, NEW limit, NEW g,
         Cycle(n, t, limit, g)
  PROVE  /\ NamesDistinct'
         /\ LiveNew' = News(entry, Kept(n)) \cup Taken(Accepted(limit))
         /\ LiveNew = News(entry, Leaving(n)) \cup News(entry, Kept(n))
         /\ News(entry, Kept(n)) \cap (MapRange(commMap) \cup News(entry, Leaving(n))) = {}
         /\ Taken(Accepted(limit)) \subseteq Avail
<1> DEFINE acc == Accepted(limit)
           P == Leaving(n)
           K == Kept(n)
           D == Joining(acc)
<1>1. /\ K \subseteq Staying(n) /\ LiveWriters = P \cup K
      /\ LiveWriters' = K \cup Places(D)
      /\ \A i \in Staying(n) : entry'[i].new = entry[i].new
      /\ \A s \in acc : entry'[RobIdx(s)].new = NewPreg(acc, s)
      /\ LiveWriters \subseteq Idx
      /\ D \subseteq acc
  BY CycleWriters DEF Joining, LiveWriters, Valid
<1>2. P \cap K = {}
  <2>1. \A i \in Idx : Age(i) \in 0 .. NumRob - 1
    BY AgeFacts DEF TypeOK
  <2> QED BY <2>1, <1>1 DEF Leaving, Kept
<1>3. /\ \A s \in D : NewPreg(acc, s) \in Avail
      /\ \A s, x \in D : NewPreg(acc, s) = NewPreg(acc, x) => s = x
      /\ Taken(acc) = {NewPreg(acc, s) : s \in D}
  BY AllocFacts
<1>4. /\ \A i, j \in LiveWriters : entry[i].new = entry[j].new => i = j
      /\ \A i \in LiveWriters : entry[i].new \notin MapRange(commMap)
      /\ free = Preg \ (MapRange(commMap) \cup LiveNew)
      /\ Avail \subseteq free
  BY DEF NamesInv, NamesDistinct, FreeIsRest, Avail
<1>5. /\ \A a, b \in Arch : commMap'[a] = commMap'[b] => a = b
      /\ MapRange(commMap') \subseteq MapRange(commMap) \cup News(entry, P)
      /\ HasZeroReg => commMap'[0] = 0
  BY LeavingChain
<1> HIDE DEF acc, P, K, D
<1>6. /\ \A i \in K : entry'[i].new = entry[i].new /\ i \in LiveWriters
      /\ \A s \in D : entry'[RobIdx(s)].new = NewPreg(acc, s)
  BY <1>1
<1>7. /\ News(entry, K) \cap (MapRange(commMap) \cup News(entry, P)) = {}
      /\ LiveNew = News(entry, P) \cup News(entry, K)
  BY <1>1, <1>2, <1>4 DEF News, LiveNew
<1>8. LiveNew' = News(entry, K) \cup Taken(acc)
  BY <1>1, <1>3, <1>6 DEF News, LiveNew, Places
<1>9. \A s \in D : NewPreg(acc, s) \notin MapRange(commMap) \cup LiveNew
  BY <1>3, <1>4
<1>10. \A i, j \in LiveWriters' : entry'[i].new = entry'[j].new => i = j
  <2>1. SUFFICES ASSUME NEW i \in K \cup Places(D), NEW j \in K \cup Places(D),
                        entry'[i].new = entry'[j].new
                 PROVE  i = j
    BY <1>1
  <2>2. CASE i \in K /\ j \in K
    BY <2>1, <2>2, <1>4, <1>6
  <2>3. CASE i \in K /\ \E s \in D : j = RobIdx(s)
    BY <2>1, <2>3, <1>6, <1>9 DEF LiveNew
  <2>4. CASE j \in K /\ \E s \in D : i = RobIdx(s)
    BY <2>1, <2>4, <1>6, <1>9 DEF LiveNew
  <2>5. CASE (\E s \in D : i = RobIdx(s)) /\ \E s \in D : j = RobIdx(s)
    BY <2>1, <2>5, <1>3, <1>6
  <2> QED BY <2>1, <2>2, <2>3, <2>4, <2>5 DEF Places
<1>11. \A i \in LiveWriters' : entry'[i].new \notin MapRange(commMap')
  <2>1. \A i \in K : entry'[i].new \notin MapRange(commMap')
    BY <1>5, <1>6, <1>7 DEF News
  <2>2. \A s \in D : entry'[RobIdx(s)].new \notin MapRange(commMap')
    BY <1>5, <1>6, <1>7, <1>9
  <2> QED BY <2>1, <2>2, <1>1 DEF Places
<1>12. MapRange(commMap)' = MapRange(commMap')
  BY DEF MapRange
<1>13. NamesDistinct'
  BY <1>5, <1>10, <1>11, <1>12 DEF NamesDistinct
<1>14. Taken(acc) \subseteq Avail
  BY <1>3
<1> QED
  BY <1>7, <1>8, <1>13, <1>14 DEF acc, P, K

(* Retirement releases exactly the names nobody holds any more, in the     *)
(* speculative and in the committed bitmap.                                *)
LEMMA CycleFree ==
  ASSUME TypeOK, RobWindow, NamesInv,
         NEW n \in 0 .. RetireWidth, NEW t \in Tag \cup {NoTag}, NEW limit, NEW g,
         Cycle(n, t, limit, g)
  PROVE  FreeIsRest'
<1> DEFINE acc == Accepted(limit)
           P == Leaving(n)
           K == Kept(n)
<1>1. /\ MapRange(commMap') \cap Olds(entry, P) = {}
      /\ MapRange(commMap') \cup Olds(entry, P) = MapRange(commMap) \cup News(entry, P)
      /\ \A i, j \in P : Age(i) <= Age(j) => entry[i].old # entry[j].new
      /\ HasZeroReg => 0 \in MapRange(commMap')
  <2>1. HasZeroReg => commMap'[0] = 0 /\ 0 \in Arch
    BY LeavingChain DEF Arch
  <2> QED BY <2>1, LeavingChain DEF MapRange
<1>2. /\ LiveNew' = News(entry, K) \cup Taken(acc)
      /\ LiveNew = News(entry, P) \cup News(entry, K)
      /\ News(entry, K) \cap (MapRange(commMap) \cup News(entry, P)) = {}
      /\ Taken(acc) \subseteq free
  BY CycleDistinct DEF Avail
<1>3. /\ free = Preg \ (MapRange(commMap) \cup LiveNew)
      /\ commFree = Preg \ MapRange(commMap)
      /\ \A i \in Valid : ~Demand(entry[i]) => entry[i].new = 0 /\ entry[i].old = 0
  BY DEF NamesInv, FreeIsRest, NamesReplayed
<1>4. /\ \A k \in 0 .. n - 1 : Wrap(head, k) \in Valid /\ Age(Wrap(head, k)) = k
      /\ \A i \in P : Age(i) \in 0 .. n - 1 /\ Wrap(head, Age(i)) = i
  BY CycleCommits
<1>5. /\ \A k \in CommitPorts(n) :
           \/ Wrap(head, k) \in P
           \/ HasZeroReg /\ entry[Wrap(head, k)].new = 0 /\ entry[Wrap(head, k)].old = 0
      /\ \A i \in P : Age(i) \in CommitPorts(n)
      /\ \A k \in CommitPorts(n) : k \in 0 .. n - 1
  <2>1. ASSUME NEW k \in CommitPorts(n)
        PROVE  \/ Wrap(head, k) \in P
               \/ HasZeroReg /\ entry[Wrap(head, k)].new = 0 /\ entry[Wrap(head, k)].old = 0
    <3>1. k \in 0 .. n - 1 /\ entry[Wrap(head, k)].wen
      BY DEF CommitPorts
    <3>2. Wrap(head, k) \in Valid /\ Age(Wrap(head, k)) < n
      BY <3>1, <1>4
    <3>3. CASE Demand(entry[Wrap(head, k)])
      BY <3>2, <3>3 DEF Leaving, LiveWriters
    <3>4. CASE ~Demand(entry[Wrap(head, k)])
      <4>1. HasZeroReg
        BY <3>1, <3>4 DEF Demand
      <4> QED BY <4>1, <3>2, <3>4, <1>3
    <3> QED BY <3>3, <3>4
  <2>2. \A i \in P : entry[i].wen
    BY DEF Leaving, LiveWriters, Demand
  <2> QED BY <2>1, <2>2, <1>4 DEF CommitPorts
<1>6. /\ commFree' = CommittedFree(n)
      /\ free' = (free \ Taken(acc)) \cup Released(n)
  BY DEF Cycle
<1>7. Olds(entry, P) \subseteq Preg /\ MapRange(commMap') \subseteq Preg
  <2>1. /\ \A i \in P : entry[i] \in RobEntry
        /\ MapRange(commMap) \subseteq Preg
    BY DEF Leaving, LiveWriters, Valid, TypeOK, MapRange
  <2>2. News(entry, P) \subseteq Preg
    BY <2>1 DEF News, RobEntry
  <2> QED BY <2>1, <2>2, <1>1
<1> HIDE DEF acc, P, K
<1>8. Released(n) = Olds(entry, P)
  <2>1. ASSUME NEW p \in Released(n) PROVE p \in Olds(entry, P)
    BY <1>5 DEF Released, Olds
  <2>2. ASSUME NEW i \in P PROVE entry[i].old \in Released(n)
    <3>1. entry[i].old \in Olds(entry, P)
      BY DEF Olds
    <3>2. HasZeroReg => entry[i].old # 0
      BY <3>1, <1>1
    <3>3. Age(i) \in CommitPorts(n) /\ entry[Wrap(head, Age(i))].old = entry[i].old
      BY <1>4, <1>5
    <3> QED BY <3>1, <3>2, <3>3, <1>7 DEF Released
  <2> QED BY <2>1, <2>2 DEF Olds
<1>9. free' = Preg \ (MapRange(commMap') \cup LiveNew')
  BY <1>1, <1>2, <1>3, <1>6, <1>7, <1>8
<1>10. commFree' = Preg \ MapRange(commMap')
  <2>1. ASSUME NEW p \in CommittedFree(n) PROVE p \in Preg \ MapRange(commMap')
    <3>1. p \in Preg /\ (HasZeroReg => p # 0)
      BY DEF CommittedFree
    <3>2. CASE /\ p \in commFree
               /\ \A k \in CommitPorts(n) : entry[Wrap(head, k)].new # p
      <4>1. p \notin News(entry, P)
        BY <3>2, <1>4, <1>5 DEF News
      <4> QED BY <3>1, <3>2, <4>1, <1>1, <1>3
    <3>3. CASE \E k \in CommitPorts(n) : entry[Wrap(head, k)].old = p
      BY <3>1, <3>3, <1>1, <1>5 DEF Olds
    <3> QED BY <3>2, <3>3 DEF CommittedFree
  <2>2. ASSUME NEW p \in Preg, p \notin MapRange(commMap') PROVE p \in CommittedFree(n)
    <3>1. HasZeroReg => p # 0
      BY <2>2, <1>1
    <3>2. CASE p \in Olds(entry, P)
      <4>1. PICK i \in P : entry[i].old = p
        BY <3>2 DEF Olds
      <4>2. Age(i) \in CommitPorts(n) /\ entry[Wrap(head, Age(i))].old = p
        BY <4>1, <1>4, <1>5
      <4>3. ASSUME NEW j \in CommitPorts(n), j >= Age(i), entry[Wrap(head, j)].new = p
            PROVE  FALSE
        <5>1. Wrap(head, j) \in P
          BY <4>3, <3>1, <1>5
        <5>2. Age(Wrap(head, j)) = j /\ j \in Nat /\ Age(i) \in Nat
          BY <4>3, <1>4, <1>5
        <5> QED BY <5>1, <5>2, <4>1, <4>3, <1>1
      <4> QED BY <4>2, <4>3, <3>1 DEF CommittedFree
    <3>3. CASE p \notin Olds(entry, P)
      <4>1. p \notin MapRange(commMap) /\ p \notin News(entry, P)
        BY <3>3, <2>2, <1>1
      <4>2. \A k \in CommitPorts(n) : entry[Wrap(head, k)].new # p
        BY <4>1, <3>1, <1>5 DEF News
      <4> QED BY <4>1, <4>2, <3>1, <1>3 DEF CommittedFree
    <3> QED BY <3>2, <3>3
  <2>3. CommittedFree(n) \subseteq Preg
    BY DEF CommittedFree
  <2> QED BY <2>1, <2>2, <2>3, <1>6
<1> QED
  BY <1>9, <1>10 DEF FreeIsRest, MapRange

(* Who is older, after the edge.                                           *)
LEMMA CycleOlder ==
  ASSUME TypeOK, RobWindow,
         NEW n \in 0 .. RetireWidth, NEW t \in Tag \cup {NoTag}, NEW limit, NEW g,
         Cycle(n, t, limit, g)
  PROVE  LET acc == Accepted(limit)
         IN  /\ \A i \in Staying(n) :
                  /\ Older(i)' = {j \in Kept(n) : Age(j) < Age(i)}
                  /\ Older(i) = Leaving(n) \cup {j \in Kept(n) : Age(j) < Age(i)}
             /\ \A s \in acc : \A i : i = RobIdx(s) =>
                  Older(i)' = Kept(n) \cup Places(Ahead(acc, s))
<1> DEFINE acc == Accepted(limit)
           K == Kept(n)
           P == Leaving(n)
           D == Joining(acc)
<1>1. /\ head \in Idx /\ head' \in Idx /\ Valid \subseteq Idx
      /\ \A s \in acc : RobIdx(s) \in Idx
      /\ \A i, j \in Staying(n) :
           AgeFrom(head', i) <= AgeFrom(head', j) <=> Age(i) <= Age(j)
      /\ \A i \in Staying(n), s \in acc : AgeFrom(head', i) < AgeFrom(head', RobIdx(s))
      /\ \A s, x \in acc : AgeFrom(head', RobIdx(x)) < AgeFrom(head', RobIdx(s)) <=> x < s
  BY CycleOrder
<1>2. /\ K \subseteq Staying(n) /\ Staying(n) \subseteq Valid
      /\ LiveWriters = P \cup K /\ LiveWriters' = K \cup Places(D)
      /\ \A i \in P, j \in Staying(n) : Age(i) < Age(j)
  BY CycleWriters
<1>3. D \subseteq acc
  BY DEF Joining
<1>4. /\ \A i \in Idx : Age(i) \in Int /\ AgeFrom(head', i) \in Int
  <2>1. \A i \in Idx : Age(i) \in 0 .. NumRob - 1
    BY <1>1, AgeFacts
  <2>2. \A i \in Idx : AgeFrom(head', i) \in 0 .. NumRob - 1
    BY <1>1, AgeFromFacts
  <2> QED BY <2>1, <2>2
<1> HIDE DEF acc, K, P, D
<1>5. \A i : Older(i)' = {j \in K \cup Places(D) : AgeFrom(head', j) < AgeFrom(head', i)}
  BY <1>2 DEF Older, Age
<1>6. ASSUME NEW i \in Staying(n)
      PROVE  /\ Older(i)' = {j \in K : Age(j) < Age(i)}
             /\ Older(i) = P \cup {j \in K : Age(j) < Age(i)}
  <2>1. ASSUME NEW j \in K PROVE AgeFrom(head', j) < AgeFrom(head', i) <=> Age(j) < Age(i)
    <3>1. i \in Idx /\ j \in Idx /\ j \in Staying(n)
      BY <1>1, <1>2
    <3>2. AgeFrom(head', i) <= AgeFrom(head', j) <=> Age(i) <= Age(j)
      BY <3>1, <1>1
    <3> QED BY <3>1, <3>2, <1>4
  <2>2. ASSUME NEW s \in D PROVE ~(AgeFrom(head', RobIdx(s)) < AgeFrom(head', i))
    <3>1. AgeFrom(head', i) < AgeFrom(head', RobIdx(s))
      BY <1>1, <1>3
    <3>2. RobIdx(s) \in Idx /\ i \in Idx
      BY <1>1, <1>2, <1>3
    <3>3. AgeFrom(head', RobIdx(s)) \in Int /\ AgeFrom(head', i) \in Int
      BY <3>2, <1>4
    <3> QED BY <3>1, <3>3
  <2>3. Older(i)' = {j \in K : Age(j) < Age(i)}
    BY <2>1, <2>2, <1>5 DEF Places
  <2>4. Older(i) = P \cup {j \in K : Age(j) < Age(i)}
    BY <1>2 DEF Older
  <2> QED BY <2>3, <2>4
<1>7. ASSUME NEW s \in acc, NEW i, i = RobIdx(s)
      PROVE  Older(i)' = K \cup Places(Ahead(acc, s))
  <2>1. \A j \in K : AgeFrom(head', j) < AgeFrom(head', i)
    BY <1>1, <1>2, <1>7
  <2>2. \A x \in D : AgeFrom(head', RobIdx(x)) < AgeFrom(head', i) <=> x < s
    BY <1>1, <1>3, <1>7
  <2> QED BY <2>1, <2>2, <1>5 DEF Places, Ahead, D
<1> QED
  BY <1>6, <1>7 DEF acc, K, P

(* Maps, previous names and sources stay replays.                          *)
LEMMA CycleReplayed ==
  ASSUME TypeOK, RobWindow, NamesInv,
         NEW n \in 0 .. RetireWidth, NEW t \in Tag \cup {NoTag}, NEW limit, NEW g,
         Cycle(n, t, limit, g)
  PROVE  NamesReplayed'
<1> DEFINE acc == Accepted(limit)
           K == Kept(n)
           D == Joining(acc)
           R(W) == ReplayOn(commMap', entry', head', W)
<1>1. /\ K \subseteq Staying(n) /\ Staying(n) \subseteq Valid /\ LiveWriters \subseteq Valid
      /\ LiveWriters' = K \cup Places(D)
      /\ \A i \in Staying(n) :
           /\ entry'[i].rd = entry[i].rd /\ entry'[i].rs = entry[i].rs
           /\ entry'[i].new = entry[i].new /\ entry'[i].old = entry[i].old
           /\ entry'[i].src = entry[i].src
           /\ Demand(entry'[i]) <=> Demand(entry[i])
      /\ \A s \in acc :
           /\ entry'[RobIdx(s)].rd = slot[s].uop.rd
           /\ entry'[RobIdx(s)].rs = slot[s].uop.rs
           /\ entry'[RobIdx(s)].new = NewPreg(acc, s)
           /\ entry'[RobIdx(s)].old = OldPreg(acc, s)
           /\ entry'[RobIdx(s)].src = Source(acc, slot[s].src, slot[s].uop.rs)
           /\ Demand(entry'[RobIdx(s)]) <=> Demand(slot[s].uop)
  BY CycleWriters
<1>2. /\ Valid' = Staying(n) \cup Places(acc)
      /\ K \subseteq LiveWriters /\ D \subseteq acc
      /\ acc \subseteq Slot /\ acc \subseteq Occupied /\ Slot \subseteq Nat
      /\ \A i \in Valid : entry[i] \in RobEntry
      /\ \A s \in acc : slot[s] \in SlotEntry
  <2>1. \A i \in Valid : entry[i] \in RobEntry
    BY DEF Valid, TypeOK
  <2>2. \A s \in Occupied : slot[s] \in SlotEntry
    BY SlotFacts DEF Occupied, TypeOK
  <2>3. acc \subseteq Slot /\ acc \subseteq Occupied /\ Slot \subseteq Nat
    BY SlotFacts DEF Accepted
  <2> QED BY <2>1, <2>2, <2>3, CycleOrder DEF Joining, Kept
<1>3. /\ specMap = Replay(LiveWriters)
      /\ \A i \in LiveWriters : entry[i].old = Replay(Older(i))[entry[i].rd]
      /\ \A i \in Valid : entry[i].src = Replay(Older(i))[entry[i].rs]
      /\ \A i \in Valid : ~Demand(entry[i]) => entry[i].new = 0 /\ entry[i].old = 0
      /\ BufferLinked
  BY DEF NamesInv, NamesReplayed
<1>4. \A T \in SUBSET K, a \in Arch :
        R(T)[a] = ReplayOn(commMap, entry, head, Leaving(n) \cup T)[a]
  BY ReplayKept
<1>5. \A L \in SUBSET D, a \in Arch : R(K \cup Places(L))[a] = LaneMap(acc, L, a)
  BY <1>3, ReplayJoined
<1>6. /\ \A i \in Staying(n) : /\ Older(i)' = {j \in K : Age(j) < Age(i)}
                               /\ Older(i) = Leaving(n) \cup {j \in K : Age(j) < Age(i)}
      /\ \A s \in acc : \A i : i = RobIdx(s) => Older(i)' = K \cup Places(Ahead(acc, s))
  BY CycleOlder
<1>7. \A W : Replay(W)' = R(W)
  BY ReplayIs
<1>8. specMap' = R(LiveWriters')
  <2>1. specMap' = MapAfter(acc, Width - 1)
    BY DEF Cycle
  <2>2. UpTo(acc, Width - 1) = D
    <3>1. \A x \in D : x \in Slot
      BY <1>2
    <3>2. \A x \in D : x <= Width - 1
      BY <3>1 DEF Slot
    <3> QED BY <3>2 DEF UpTo
  <2>3. ASSUME NEW a \in Arch PROVE specMap'[a] = R(LiveWriters')[a]
    BY <2>1, <2>2, <1>1, <1>5, MapAfterIs
  <2> QED BY <2>1, <2>3 DEF MapAfter, ReplayOn
<1> HIDE DEF acc, K, D, R
<1>9. ASSUME NEW i \in Staying(n), NEW a \in Arch
      PROVE  Replay(Older(i))[a] = R(Older(i)')[a]
  <2> DEFINE T == {j \in K : Age(j) < Age(i)}
  <2>1. T \in SUBSET K /\ Older(i)' = T /\ Older(i) = Leaving(n) \cup T
    BY <1>6
  <2>2. Replay(Older(i)) = ReplayOn(commMap, entry, head, Older(i))
    BY ReplayIs
  <2> HIDE DEF T
  <2> QED BY <2>1, <2>2, <1>4
<1>10. ASSUME NEW s \in acc, NEW d, NEW a \in Arch, NEW i, i = RobIdx(s), Linked(s, d, a)
       PROVE  Source(acc, d, a) = R(Older(i)')[a]
  <2>1. Source(acc, d, a) = LaneMap(acc, Ahead(acc, s), a)
    BY <1>10, LinkedSource DEF acc
  <2>2. Ahead(acc, s) \in SUBSET D
    BY DEF Ahead, D
  <2>3. Older(i)' = K \cup Places(Ahead(acc, s))
    BY <1>6, <1>10
  <2> QED BY <2>1, <2>2, <2>3, <1>5
<1>11. \A i \in LiveWriters' : entry'[i].old = R(Older(i)')[entry'[i].rd]
  <2>1. ASSUME NEW i \in K PROVE entry'[i].old = R(Older(i)')[entry'[i].rd]
    <3>1. i \in Staying(n) /\ i \in LiveWriters /\ entry[i].rd \in Arch
      BY <1>1, <1>2 DEF RobEntry
    <3> QED BY <3>1, <1>1, <1>3, <1>9
  <2>2. ASSUME NEW s \in D, NEW i, i = RobIdx(s)
        PROVE  entry'[i].old = R(Older(i)')[entry'[i].rd]
    <3>1. s \in acc /\ s \in Occupied /\ Demand(slot[s].uop) /\ slot[s].uop.rd \in Arch
      BY <1>2 DEF D, Joining, SlotEntry, Uop
    <3>2. Linked(s, slot[s].prev, slot[s].uop.rd)
      BY <3>1, <1>3 DEF BufferLinked, Demand
    <3>3. OldPreg(acc, s) = Source(acc, slot[s].prev, slot[s].uop.rd)
      BY <3>1 DEF OldPreg
    <3> QED BY <3>1, <3>2, <3>3, <2>2, <1>1, <1>10
  <2> QED BY <2>1, <2>2, <1>1 DEF Places
<1>12. \A i \in Valid' : entry'[i].src = R(Older(i)')[entry'[i].rs]
  <2>1. ASSUME NEW i \in Staying(n) PROVE entry'[i].src = R(Older(i)')[entry'[i].rs]
    <3>1. i \in Valid /\ entry[i].rs \in Arch
      BY <1>1, <1>2 DEF RobEntry
    <3> QED BY <3>1, <1>1, <1>3, <1>9
  <2>2. ASSUME NEW s \in acc, NEW i, i = RobIdx(s)
        PROVE  entry'[i].src = R(Older(i)')[entry'[i].rs]
    <3>1. s \in Occupied /\ slot[s].uop.rs \in Arch
      BY <1>2 DEF SlotEntry, Uop
    <3>2. Linked(s, slot[s].src, slot[s].uop.rs)
      BY <3>1, <1>3 DEF BufferLinked
    <3> QED BY <3>1, <3>2, <2>2, <1>1, <1>10
  <2> QED BY <2>1, <2>2, <1>2 DEF Places
<1>13. \A i \in Valid' : ~Demand(entry'[i]) => entry'[i].new = 0 /\ entry'[i].old = 0
  <2>1. \A i \in Staying(n) : ~Demand(entry'[i]) => entry'[i].new = 0 /\ entry'[i].old = 0
    BY <1>1, <1>3
  <2>2. \A s \in acc : ~Demand(slot[s].uop) => NewPreg(acc, s) = 0 /\ OldPreg(acc, s) = 0
    BY DEF NewPreg, OldPreg
  <2> QED BY <2>1, <2>2, <1>1, <1>2 DEF Places
<1> QED
  BY <1>7, <1>8, <1>11, <1>12, <1>13 DEF NamesReplayed

(***************************************************************************)
(* The checkpoints across the edge.  Young(u): the writers behind the      *)
(* branch that owns u.                                                     *)
(***************************************************************************)
Young(u) == {i \in LiveWriters : u \in entry[i].mask}

(* A checkpoint that stays: nothing behind its branch retires, every lane  *)
(* that joins is behind it.                                                *)
LEMMA CycleYoungOld ==
  ASSUME TypeOK, RobWindow, MaskIsOlderBranches,
         NEW n \in 0 .. RetireWidth, NEW t \in Tag \cup {NoTag}, NEW limit, NEW g,
         Cycle(n, t, limit, g), NEW u \in cpValid, u # t
  PROVE  LET acc == Accepted(limit)
             K == {i \in Kept(n) : u \in entry[i].mask}
             S == {i \in Kept(n) : u \notin entry[i].mask}
         IN  /\ Creators(acc, u) = {}
             /\ Young(u) = K
             /\ LiveWriters \ Young(u) = Leaving(n) \cup S
             /\ Young(u)' = K \cup Places(Joining(acc))
             /\ LiveWriters' \ Young(u)' = S
             /\ \A s \in acc : u \in LaneMask(acc, s, t)
<1> DEFINE acc == Accepted(limit)
           D == Joining(acc)
<1>1. /\ LiveWriters \subseteq Valid /\ Kept(n) \subseteq Staying(n)
      /\ Staying(n) \subseteq Valid
      /\ LiveWriters = Leaving(n) \cup Kept(n)
      /\ LiveWriters' = Kept(n) \cup Places(D)
      /\ \A i \in Staying(n) : entry'[i].mask = entry[i].mask \ {t}
      /\ \A s \in acc : entry'[RobIdx(s)].mask = LaneMask(acc, s, t)
  BY CycleWriters
<1>2. /\ \A i \in Idx : i \in Valid /\ Age(i) < n => entry[i].complete
      /\ Valid \subseteq Idx /\ head \in Idx
      /\ \A s \in acc : RobIdx(s) \in Idx /\ RobIdx(s) \notin Staying(n)
  BY CycleOrder
<1>3. \A i \in Idx : Age(i) \in 0 .. NumRob - 1
  BY <1>2, AgeFacts
<1>4. D \subseteq acc
  BY DEF Joining
<1>5. u \in Tag /\ NoTag \notin Tag
  BY SentinelAssumption DEF TypeOK
<1>6. Creators(acc, u) = {}
  <2>1. \A s \in acc : slot[s].uop.br => NewTag(s) \in Tag \ cpValid
    BY TagFacts DEF TypeOK
  <2> QED BY <2>1 DEF Creators
<1>7. \A s \in acc : u \in LaneMask(acc, s, t)
  BY DEF LaneMask
<1>8. \A i \in Leaving(n) : u \notin entry[i].mask
  <2>1. SUFFICES ASSUME NEW i \in Leaving(n), u \in entry[i].mask PROVE FALSE
    OBVIOUS
  <2>2. i \in Valid /\ i \in Idx /\ Age(i) < n
    BY <1>1, <1>2 DEF Leaving
  <2>3. PICK j \in Valid : Owns(j, u) /\ Age(j) < Age(i)
    BY <2>1, <2>2 DEF MaskIsOlderBranches
  <2>4. entry[j].complete
    <3>1. j \in Idx /\ Age(j) < n
      BY <2>2, <2>3, <1>2, <1>3
    <3> QED BY <3>1, <1>2
  <2> QED BY <2>3, <2>4, <1>5 DEF MaskIsOlderBranches, Owns
<1>9. Young(u)' = {i \in LiveWriters' : u \in entry'[i].mask}
  BY DEF Young
<1> HIDE DEF acc, D
<1>10. \A s \in D : u \in entry'[RobIdx(s)].mask
  BY <1>1, <1>4, <1>7
<1>11. \A i \in Kept(n) : u \in entry'[i].mask <=> u \in entry[i].mask
  BY <1>1
<1>12. \A s \in D : RobIdx(s) \notin Kept(n)
  BY <1>1, <1>2, <1>4
<1>13. Young(u)' = {i \in Kept(n) : u \in entry[i].mask} \cup Places(D)
  BY <1>1, <1>9, <1>10, <1>11 DEF Places
<1>14. LiveWriters' \ Young(u)' = {i \in Kept(n) : u \notin entry[i].mask}
  BY <1>1, <1>12, <1>13 DEF Places
<1>15. /\ Young(u) = {i \in Kept(n) : u \in entry[i].mask}
       /\ LiveWriters \ Young(u) = Leaving(n) \cup {i \in Kept(n) : u \notin entry[i].mask}
  BY <1>1, <1>8 DEF Young
<1> QED
  BY <1>6, <1>7, <1>13, <1>14, <1>15 DEF acc, D

(* Lane s creates checkpoint u on this edge: behind it are the lanes       *)
(* behind s.                                                               *)
CreatedBy(n, t, acc, u, s) ==
  /\ Latest(Creators(acc, u)) = s
  /\ u # t
  /\ \A x \in acc : u \in LaneMask(acc, x, t) <=> s < x
  /\ Young(u)' = Places({x \in Joining(acc) : s < x})
  /\ LiveWriters' \ Young(u)' = Kept(n) \cup Places(UpTo(acc, s))

LEMMA CycleYoungNew ==
  ASSUME TypeOK, RobWindow, MaskIsOlderBranches,
         NEW n \in 0 .. RetireWidth, NEW t \in Tag \cup {NoTag}, NEW limit, NEW g,
         Cycle(n, t, limit, g), NEW u \in Tag, Creators(Accepted(limit), u) # {}
  PROVE  \E s \in Accepted(limit) : CreatedBy(n, t, Accepted(limit), u, s)
<1> DEFINE acc == Accepted(limit)
           D == Joining(acc)
<1>1. /\ Kept(n) \subseteq Staying(n) /\ Staying(n) \subseteq Valid
      /\ LiveWriters' = Kept(n) \cup Places(D)
      /\ \A i \in Staying(n) : entry'[i].mask = entry[i].mask \ {t}
      /\ \A s \in acc : entry'[RobIdx(s)].mask = LaneMask(acc, s, t)
  <2>1. Kept(n) \subseteq Staying(n) /\ Staying(n) \subseteq Valid
    BY CycleWriters
  <2>2. LiveWriters' = Kept(n) \cup Places(D)
    BY CycleWriters
  <2>3. \A i \in Staying(n) : entry'[i].mask = entry[i].mask \ {t}
    BY CycleWriters, Z3
  <2>4. \A s \in acc : entry'[RobIdx(s)].mask = LaneMask(acc, s, t)
    BY CycleWriters, Z3
  <2> QED BY <2>1, <2>2, <2>3, <2>4
<1>2. /\ \A s \in acc : RobIdx(s) \notin Staying(n)
      /\ \A s, x \in acc : RobIdx(x) = RobIdx(s) => x = s
  BY CycleOrder
<1>3. /\ D \subseteq acc /\ acc \subseteq Slot /\ acc \subseteq Nat /\ NoTag \notin Tag
  BY SlotFacts, SentinelAssumption DEF Joining, Accepted
<1>4. /\ \A s \in acc : slot[s].uop.br => NewTag(s) \in Tag \ cpValid
      /\ \A s, x \in acc : slot[s].uop.br /\ slot[x].uop.br /\ NewTag(s) = NewTag(x) => s = x
  BY TagFacts DEF TypeOK
<1>5. t = NoTag \/ t \in cpValid
  BY DEF Cycle, MaskIsOlderBranches
<1>6. PICK s \in acc : slot[s].uop.br /\ NewTag(s) = u
  BY DEF Creators
<1>7. Creators(acc, u) = {s}
  BY <1>4, <1>6 DEF Creators
<1>8. Latest(Creators(acc, u)) = s
  <2>1. {s} \subseteq Slot /\ {s} # {}
    BY <1>3
  <2>2. Latest({s}) \in {s}
    BY <2>1, LatestFacts
  <2> QED BY <2>2, <1>7
<1>9. u \notin cpValid /\ u # t
  BY <1>3, <1>4, <1>5, <1>6
<1>10. \A x \in acc : u \in LaneMask(acc, x, t) <=> s < x
  BY <1>4, <1>6, <1>9 DEF LaneMask
<1>11. \A i \in Valid : u \notin entry[i].mask
  BY <1>9 DEF MaskIsOlderBranches
<1>12. Young(u)' = {i \in LiveWriters' : u \in entry'[i].mask}
  BY DEF Young
<1> HIDE DEF acc, D
<1>13. \A i \in Kept(n) : u \notin entry'[i].mask
  BY <1>1, <1>11
<1>14. \A x \in D : u \in entry'[RobIdx(x)].mask <=> s < x
  BY <1>1, <1>3, <1>10
<1>15. Young(u)' = Places({x \in D : s < x})
  BY <1>1, <1>12, <1>13, <1>14 DEF Places
<1>16. \A x \in D : x <= s <=> ~(s < x)
  BY <1>3
<1>17. LiveWriters' \ Young(u)' = Kept(n) \cup Places({x \in D : x <= s})
  <2>1. \A x \in D : RobIdx(x) \notin Kept(n)
    BY <1>1, <1>2, <1>3
  <2>2. \A x, y \in D : RobIdx(x) = RobIdx(y) => x = y
    BY <1>2, <1>3
  <2>3. \A x \in D : RobIdx(x) \in Places({y \in D : s < y}) <=> s < x
    BY <2>2 DEF Places
  <2>4. \A i \in Kept(n) : i \notin Places({y \in D : s < y})
    BY <2>1 DEF Places
  <2>5. LiveWriters' = Kept(n) \cup Places(D)
    BY <1>1
  <2>6. \A i : i \in LiveWriters' /\ i \notin Young(u)' <=>
               i \in Kept(n) \/ \E x \in D : i = RobIdx(x) /\ x <= s
    BY <2>3, <2>4, <2>5, <1>15, <1>16 DEF Places
  <2> QED BY <2>6 DEF Places
<1>18. CreatedBy(n, t, acc, u, s)
  BY <1>8, <1>9, <1>10, <1>15, <1>17 DEF CreatedBy, D, UpTo
<1> QED
  BY <1>18 DEF acc

(* What CheckpointRestorable asks of one tag.                              *)
Restorable(u) ==
  /\ cpMap[u] = Replay(LiveWriters \ Young(u))
  /\ News(entry, Young(u)) \subseteq allocMask[u]
  /\ allocMask[u] \subseteq News(entry, Young(u)) \cup free

LEMMA RestorableIs ==
  CheckpointRestorable <=> \A u \in cpValid : Restorable(u)
BY DEF CheckpointRestorable, Restorable, Young, News

LEMMA CycleCheckpoints ==
  ASSUME TypeOK, RobWindow, MaskIsOlderBranches, NamesInv,
         NEW n \in 0 .. RetireWidth, NEW t \in Tag \cup {NoTag}, NEW limit, NEW g,
         Cycle(n, t, limit, g)
  PROVE  CheckpointRestorable'
<1> DEFINE acc == Accepted(limit)
           D == Joining(acc)
           R(W) == ReplayOn(commMap', entry', head', W)
<1>1. /\ cpMap' = [c \in Tag |-> IF Creators(acc, c) = {} THEN cpMap[c]
                                 ELSE MapAfter(acc, Latest(Creators(acc, c)))]
      /\ allocMask' = [c \in Tag |-> AllocRow(acc, t, c)]
      /\ cpValid' = (cpValid \ {t}) \cup {c \in Tag : Creators(acc, c) # {}}
      /\ free' = (free \ Taken(acc)) \cup Released(n)
  BY DEF Cycle
<1>2. \A W : Replay(W)' = R(W) /\ Replay(W) = ReplayOn(commMap, entry, head, W)
  BY ReplayIs
<1>3. /\ D \subseteq acc /\ cpValid \subseteq Tag
      /\ Taken(acc) = {NewPreg(acc, s) : s \in D}
      /\ \A s \in acc : entry'[RobIdx(s)].new = NewPreg(acc, s)
      /\ \A i \in Kept(n) : entry'[i].new = entry[i].new
  BY AllocFacts, CycleWriters DEF Joining, TypeOK
<1>4. specMap = Replay(LiveWriters) /\ CheckpointRestorable
  BY DEF NamesInv, NamesReplayed
<1>5. \A L \in SUBSET D : News(entry', Places(L)) = {NewPreg(acc, x) : x \in L}
  BY <1>3 DEF News, Places
<1>6. \A u : Restorable(u)' <=>
        /\ cpMap'[u] = R(LiveWriters' \ Young(u)')
        /\ News(entry', Young(u)') \subseteq allocMask'[u]
        /\ allocMask'[u] \subseteq News(entry', Young(u)') \cup free'
  <2>1. \A u : Restorable(u)' <=>
        /\ cpMap'[u] = Replay(LiveWriters \ Young(u))'
        /\ News(entry', Young(u)') \subseteq allocMask'[u]
        /\ allocMask'[u] \subseteq News(entry', Young(u)') \cup free'
    BY DEF Restorable, News
  <2>2. \A u : Replay(LiveWriters \ Young(u))' = R(LiveWriters' \ Young(u)')
    BY DEF Replay, ReplayOn, Age
  <2> QED BY <2>1, <2>2
<1>7. ASSUME NEW u \in cpValid, u # t PROVE Restorable(u)'
  <2> DEFINE K == {i \in Kept(n) : u \in entry[i].mask}
             S == {i \in Kept(n) : u \notin entry[i].mask}
  <2>1. /\ Creators(acc, u) = {}
        /\ Young(u) = K
        /\ LiveWriters \ Young(u) = Leaving(n) \cup S
        /\ Young(u)' = K \cup Places(D)
        /\ LiveWriters' \ Young(u)' = S
        /\ \A s \in acc : u \in LaneMask(acc, s, t)
    BY <1>7, CycleYoungOld
  <2>2. Restorable(u) /\ u \in Tag
    BY <1>3, <1>4, RestorableIs
  <2>3. cpMap'[u] = R(S)
    <3>1. cpMap'[u] = ReplayOn(commMap, entry, head, Leaving(n) \cup S)
      BY <2>1, <2>2, <1>1, <1>2 DEF Restorable
    <3>2. S \subseteq Kept(n)
      OBVIOUS
    <3> HIDE DEF S, acc
    <3>3. ASSUME NEW a \in Arch
          PROVE  R(S)[a] = ReplayOn(commMap, entry, head, Leaving(n) \cup S)[a]
      BY <3>2, ReplayKept
    <3>4. \A c, e, h, W : ReplayOn(c, e, h, W) = [a \in Arch |-> ReplayOn(c, e, h, W)[a]]
      BY DEF ReplayOn
    <3> QED BY <3>1, <3>3, <3>4
  <2>4. allocMask'[u] = allocMask[u] \cup Taken(acc)
    <3>1. allocMask'[u] = AllocRow(acc, t, u)
      BY <1>1, <2>2
    <3>2. {x \in acc : Demand(slot[x].uop) /\ u \in LaneMask(acc, x, t)} = D
      BY <2>1 DEF Joining
    <3> HIDE DEF acc, D
    <3>3. AllocRow(acc, t, u) = allocMask[u] \cup {NewPreg(acc, s) : s \in D}
      BY <1>7, <2>1, <3>2 DEF AllocRow
    <3> QED BY <3>1, <3>3, <1>3
  <2>5. News(entry', Young(u)') = News(entry, K) \cup Taken(acc)
    <3>1. News(entry', K) = News(entry, K)
      BY <1>3 DEF News
    <3>2. News(entry', Places(D)) = Taken(acc)
      BY <1>3, <1>5
    <3> HIDE DEF K
    <3> QED BY <3>1, <3>2, <2>1 DEF News
  <2> HIDE DEF acc, K, S, D, R
  <2>6. /\ News(entry, K) \subseteq allocMask[u]
        /\ allocMask[u] \subseteq News(entry, K) \cup free
    BY <2>1, <2>2 DEF Restorable
  <2> QED BY <2>1, <2>3, <2>4, <2>5, <2>6, <1>1, <1>6
<1>8. ASSUME NEW u \in Tag, Creators(acc, u) # {} PROVE Restorable(u)'
  <2>1. PICK s \in acc : CreatedBy(n, t, acc, u, s)
    BY <1>8, CycleYoungNew
  <2> USE <2>1 DEF CreatedBy
  <2>2. cpMap'[u] = R(LiveWriters' \ Young(u)')
    <3>1. cpMap'[u] = MapAfter(acc, s)
      BY <2>1, <1>1, <1>8
    <3> DEFINE L == UpTo(acc, s)
               m == MapAfter(acc, s)
    <3>2. L \subseteq D
      BY DEF UpTo
    <3>3. \A a \in Arch : m[a] = LaneMap(acc, L, a)
      BY MapAfterIs
    <3>4. m = [a \in Arch |-> m[a]]
      BY DEF MapAfter
    <3> HIDE DEF L, m
    <3>5. \A a \in Arch : R(Kept(n) \cup Places(L))[a] = LaneMap(acc, L, a)
      BY <3>2, <1>4, ReplayJoined
    <3>6. R(Kept(n) \cup Places(L)) = m
      BY <3>3, <3>4, <3>5 DEF ReplayOn
    <3> QED BY <3>1, <3>6, <2>1 DEF L, m
  <2>3. allocMask'[u] = News(entry', Young(u)')
    <3>1. allocMask'[u] = AllocRow(acc, t, u)
      BY <1>1, <1>8
    <3>2. {x \in acc : Demand(slot[x].uop) /\ u \in LaneMask(acc, x, t)}
            = {x \in D : s < x}
      BY <2>1 DEF Joining
    <3>5. Young(u)' = Places({x \in D : s < x})
      BY <2>1
    <3> HIDE DEF acc, D
    <3>3. AllocRow(acc, t, u) = {NewPreg(acc, x) : x \in {y \in D : s < y}}
      BY <1>8, <2>1, <3>2 DEF AllocRow
    <3>4. {x \in D : s < x} \in SUBSET D
      OBVIOUS
    <3> QED BY <3>1, <3>3, <3>4, <3>5, <1>5
  <2> HIDE DEF acc, D, R
  <2> QED BY <2>2, <2>3, <1>6
<1>9. \A u \in cpValid' : Restorable(u)'
  BY <1>1, <1>7, <1>8
<1> QED
  BY <1>9 DEF CheckpointRestorable, Restorable, Young, News

(* R1 fills a slot for every micro-op of its group.                        *)
LEMMA R1SlotReal ==
  ASSUME NEW g \in Groups, NEW s \in Slot, s < Len(g)
  PROVE  R1Slot(g, s) # NoEntry
<1>1. g[s + 1] \in Uop
  <2>1. g \in Seq(Uop) /\ Len(g) \in 1 .. Width
    BY GroupAssumption
  <2> QED BY <2>1 DEF Slot
<1>2. ASSUME NEW a PROVE NearestWriter(g, s, a) \in Dep
  <2>1. Writers(g, s, a) \subseteq Slot
    BY DEF Writers
  <2> QED BY <2>1, LatestFacts DEF NearestWriter, Dep
<1>3. R1Slot(g, s) \in SlotEntry
  BY <1>1, <1>2 DEF R1Slot, SlotEntry, Dep
<1> QED
  BY <1>3, SentinelAssumption

(* A group R1 loads is linked: NearestWriter finds the producers.          *)
LEMMA LoadedLinked ==
  ASSUME NEW g \in Groups, slot' = Loaded(g)
  PROVE  BufferLinked'
<1>1. g \in Seq(Uop) /\ Len(g) \in 1 .. Width /\ WellPaired(g)
  BY GroupAssumption
<1>2. /\ Slot \subseteq Nat /\ \A s \in Slot : s + 1 \in Slot \/ s + 1 = Width
      /\ NoDep \notin Slot /\ NoEntry \notin SlotEntry
  BY SlotFacts, SentinelAssumption DEF Slot
<1>3. \A s \in Slot : slot'[s] = IF s < Len(g) THEN R1Slot(g, s) ELSE NoEntry
  BY DEF Loaded
<1>4. \A s \in Slot : s < Len(g) => R1Slot(g, s) # NoEntry
  BY R1SlotReal
<1>5. Occupied' = {s \in Slot : s < Len(g)}
  BY <1>3, <1>4 DEF Occupied
<1>6. \A s \in Occupied' : slot'[s] = R1Slot(g, s) /\ slot'[s].uop = g[s + 1]
  BY <1>3, <1>5 DEF R1Slot
<1>7. ASSUME NEW s \in Occupied', NEW a
      PROVE  Linked(s, NearestWriter(g, s, a), a)'
  <2>1. Producers(s, a)' = Writers(g, s, a)
    <3>1. s \in Nat /\ Len(g) \in Nat /\ s < Len(g)
      BY <1>1, <1>2, <1>5
    <3>2. \A x \in Slot : x < s => x \in Occupied'
      BY <3>1, <1>2, <1>5
    <3>3. Producers(s, a)' =
            {x \in Occupied' : x < s /\ Demand(g[x + 1]) /\ g[x + 1].rd = a}
      BY <1>6 DEF Producers, Demand
    <3> QED BY <3>2, <3>3, <1>5 DEF Writers
  <2> QED BY <2>1, <1>2, <1>5 DEF Linked, NearestWriter
<1>8. ASSUME NEW s \in Occupied'
      PROVE  /\ slot'[s].uop.fuse # "none" => ~slot'[s].uop.br
             /\ slot'[s].uop.fuse = "head" =>
                  s + 1 \in Occupied' /\ slot'[s + 1].uop.fuse = "member"
  <2>1. s \in Nat /\ s + 1 \in 1 .. Len(g) /\ Len(g) \in Nat /\ Len(g) <= Width
    BY <1>1, <1>2, <1>5
  <2>2. /\ g[s + 1].fuse # "none" => ~g[s + 1].br
        /\ g[s + 1].fuse = "head" => s + 1 < Len(g) /\ g[(s + 1) + 1].fuse = "member"
    BY <2>1, <1>1 DEF WellPaired
  <2>3. s + 1 < Len(g) => s + 1 \in Occupied'
    BY <2>1, <1>5 DEF Slot
  <2> QED BY <2>2, <2>3, <1>6
<1>9. \A s \in Occupied' :
        /\ slot'[s].src = NearestWriter(g, s, slot'[s].uop.rs)
        /\ slot'[s].uop.wen => slot'[s].prev = NearestWriter(g, s, slot'[s].uop.rd)
  <2>1. SUFFICES ASSUME NEW s \in Occupied'
                 PROVE  /\ slot'[s].src = NearestWriter(g, s, slot'[s].uop.rs)
                        /\ slot'[s].uop.wen =>
                             slot'[s].prev = NearestWriter(g, s, slot'[s].uop.rd)
    OBVIOUS
  <2>2. slot'[s] = R1Slot(g, s) /\ slot'[s].uop = g[s + 1]
    BY <1>6
  <2>3. /\ R1Slot(g, s).src = NearestWriter(g, s, g[s + 1].rs)
        /\ g[s + 1].wen => R1Slot(g, s).prev = NearestWriter(g, s, g[s + 1].rd)
    BY DEF R1Slot
  <2> QED BY <2>2, <2>3
<1>10. ASSUME NEW s \in Occupied'
       PROVE  /\ \A d, a : d = NearestWriter(g, s, a) => Linked(s, d, a)'
  BY <1>7
<1> QED
  BY <1>8, <1>9, <1>10 DEF BufferLinked

(* A prefix leaves the buffer: what stays is still linked.                 *)
LEMMA DrainedLinked ==
  ASSUME BufferLinked, NEW limit,
         slot' = [s \in Slot |-> IF s \in Accepted(limit) THEN NoEntry ELSE slot[s]]
  PROVE  BufferLinked'
<1> DEFINE acc == Accepted(limit)
<1>1. /\ Slot \subseteq Nat /\ Occupied \subseteq Slot /\ acc \subseteq Occupied
  BY SlotFacts DEF Accepted
<1>2. \A s \in acc : \A x \in Occupied : x <= s => x \in acc
  BY PrefixClosed
<1>3. slot' = [s \in Slot |-> IF s \in acc THEN NoEntry ELSE slot[s]]
  OBVIOUS
<1> HIDE DEF acc
<1>4. Occupied' = Occupied \ acc
  BY <1>1, <1>3 DEF Occupied
<1>5. \A s \in Occupied' : slot'[s] = slot[s] /\ s \in Slot /\ s \in Occupied /\ s \in Nat
  BY <1>1, <1>3, <1>4
<1>6. ASSUME NEW s, NEW a PROVE Producers(s, a)' = Producers(s, a) \ acc
  BY <1>4, <1>5 DEF Producers, Demand
<1>7. ASSUME NEW s \in Occupied', NEW d, NEW a, Linked(s, d, a)
      PROVE  Linked(s, d, a)'
  <2> DEFINE Q == Producers(s, a)
  <2>1. Q \subseteq Slot /\ Q \subseteq Occupied
    BY <1>1 DEF Producers
  <2>2. Linked(s, d, a)' <=> IF Q \ acc = {} THEN d \notin Occupied'
                             ELSE d = Latest(Q \ acc)
    BY <1>6 DEF Linked
  <2>3. IF Q = {} THEN d \notin Occupied ELSE d = Latest(Q)
    BY <1>7 DEF Linked
  <2> HIDE DEF Q
  <2>4. CASE Q = {}
    BY <2>2, <2>3, <2>4, <1>4
  <2>5. CASE Q # {}
    <3>1. d \in Q /\ \A x \in Q : x <= d
      BY <2>1, <2>3, <2>5, LatestFacts
    <3>2. CASE d \in acc
      <4>1. Q \ acc = {}
        BY <3>1, <3>2, <2>1, <1>2
      <4> QED BY <4>1, <3>2, <2>2, <1>4
    <3>3. CASE d \notin acc
      <4> DEFINE T == Q \ acc
      <4>1. d \in T /\ T \subseteq Q /\ T \subseteq Slot
        BY <3>1, <3>3, <2>1
      <4> HIDE DEF T
      <4>2. Latest(T) \in T /\ d <= Latest(T)
        BY <4>1, LatestFacts
      <4>3. Latest(T) <= d /\ Latest(T) \in Nat /\ d \in Nat
        BY <4>1, <4>2, <3>1, <1>1
      <4>4. d = Latest(T)
        BY <4>2, <4>3
      <4> QED BY <4>1, <4>4, <2>2 DEF T
    <3> QED BY <3>2, <3>3
  <2> QED BY <2>4, <2>5
<1>8. ASSUME NEW s \in Occupied', slot[s].uop.fuse = "head"
      PROVE  s + 1 \in Occupied' /\ slot'[s + 1].uop.fuse = "member"
  <2>1. s + 1 \in Occupied /\ slot[s + 1].uop.fuse = "member"
    BY <1>5, <1>8 DEF BufferLinked
  <2>2. s + 1 \notin acc
    BY <1>2, <1>4, <1>5
  <2> QED BY <2>1, <2>2, <1>4, <1>5
<1>9. ASSUME NEW s \in Occupied'
      PROVE  /\ Linked(s, slot[s].src, slot[s].uop.rs)
             /\ slot[s].uop.wen => Linked(s, slot[s].prev, slot[s].uop.rd)
             /\ slot[s].uop.fuse # "none" => ~slot[s].uop.br
  BY <1>5 DEF BufferLinked
<1>10. ASSUME NEW s \in Occupied'
       PROVE  /\ \A d, a : d = slot[s].src /\ a = slot[s].uop.rs => Linked(s, d, a)'
              /\ slot[s].uop.wen =>
                   \A d, a : d = slot[s].prev /\ a = slot[s].uop.rd => Linked(s, d, a)'
  BY <1>7, <1>9
<1> QED
  BY <1>5, <1>8, <1>9, <1>10 DEF BufferLinked

LEMMA CycleBuffer ==
  ASSUME NamesInv,
         NEW n, NEW t, NEW limit, NEW g \in Groups \cup {<<>>}, Cycle(n, t, limit, g)
  PROVE  BufferLinked'
<1>1. CASE g # <<>>
  <2>1. g \in Groups /\ slot' = Loaded(g)
    BY <1>1 DEF Cycle
  <2> QED BY <2>1, LoadedLinked
<1>2. CASE g = <<>>
  <2>1. slot' = [s \in Slot |-> IF s \in Accepted(limit) THEN NoEntry ELSE slot[s]]
    BY <1>2 DEF Cycle
  <2>2. BufferLinked
    BY DEF NamesInv
  <2> QED BY <2>1, <2>2, DrainedLinked
<1> QED
  BY <1>1, <1>2

-----------------------------------------------------------------------------
(***************************************************************************)
(* The recovering edges and the writeback.                                 *)
(***************************************************************************)

(* An empty buffer is linked.                                              *)
LEMMA EmptyBuffer ==
  ASSUME slot' = [s \in Slot |-> NoEntry]
  PROVE  BufferLinked'
<1>1. Occupied' = {}
  BY DEF Occupied
<1> QED
  BY <1>1 DEF BufferLinked

(* What a misprediction leaves in the window: the entries whose mask does  *)
(* not name the branch, with everything older than any of them.            *)
LEMMA MispredictShape ==
  ASSUME TypeOK, RobWindow, MaskIsOlderBranches, NEW t \in Tag, Mispredict(t)
  PROVE  /\ t \in cpValid
         /\ Valid' = {i \in Valid : t \notin entry[i].mask}
         /\ LiveWriters' = LiveWriters \ Young(t)
         /\ \A i \in Valid', j \in Valid : Age(j) < Age(i) => j \in Valid'
         /\ \A i \in Valid' :
              /\ entry'[i].rd = entry[i].rd /\ entry'[i].rs = entry[i].rs
              /\ entry'[i].new = entry[i].new /\ entry'[i].old = entry[i].old
              /\ entry'[i].src = entry[i].src
              /\ entry'[i].mask = entry[i].mask
              /\ Demand(entry'[i]) <=> Demand(entry[i])
         /\ \A u \in cpValid' : u \in cpValid /\ u # t /\ Young(t) \subseteq Young(u)
<1>0. NoEntry \notin RobEntry
  BY SentinelAssumption
<1>1. /\ cpValid' = {c \in cpValid : c # t /\ t \notin parent[c]}
      /\ entry' = [i \in Idx |-> IF entry[i] = NoEntry \/ i \in Killed(t) THEN NoEntry
                                 ELSE ResolveEntry(entry[i], t)]
  BY DEF Mispredict
<1>2. /\ Valid \subseteq Idx /\ head \in Idx
      /\ \A i \in Valid : entry[i] \in RobEntry
      /\ \A i \in Idx : Age(i) \in 0 .. NumRob - 1
  BY AgeFacts DEF Valid, TypeOK
<1>3. t \in cpValid
  BY DEF Mispredict, MaskIsOlderBranches
<1>4. \A i \in Valid : \A u \in cpValid :
        u \in entry[i].mask <=> \E j \in Valid : Owns(j, u) /\ Age(j) < Age(i)
  BY DEF MaskIsOlderBranches
<1>5. ASSUME NEW i \in Valid, t \notin entry[i].mask
      PROVE  /\ entry'[i] = ResolveEntry(entry[i], t) /\ entry'[i] # NoEntry
             /\ entry'[i].rd = entry[i].rd /\ entry'[i].rs = entry[i].rs
             /\ entry'[i].new = entry[i].new /\ entry'[i].old = entry[i].old
             /\ entry'[i].src = entry[i].src
             /\ entry'[i].mask = entry[i].mask
             /\ entry'[i].wen = entry[i].wen
  <2>1. entry[i] \in RobEntry /\ i \in Idx
    BY <1>2
  <2>2. entry'[i] = ResolveEntry(entry[i], t)
    BY <2>1, <1>1, <1>5 DEF Valid, Killed
  <2>3. ResolveEntry(entry[i], t) \in RobEntry
    BY <2>1 DEF ResolveEntry, RobEntry
  <2>4. /\ ResolveEntry(entry[i], t).rd = entry[i].rd
        /\ ResolveEntry(entry[i], t).rs = entry[i].rs
        /\ ResolveEntry(entry[i], t).new = entry[i].new
        /\ ResolveEntry(entry[i], t).old = entry[i].old
        /\ ResolveEntry(entry[i], t).src = entry[i].src
        /\ ResolveEntry(entry[i], t).mask = entry[i].mask \ {t}
        /\ ResolveEntry(entry[i], t).wen = entry[i].wen
    BY <2>1 DEF ResolveEntry, RobEntry
  <2>5. entry[i].mask \ {t} = entry[i].mask
    BY <1>5
  <2> QED BY <2>2, <2>3, <2>4, <2>5, <1>0
<1>6. Valid' = {i \in Valid : t \notin entry[i].mask}
  <2>1. Valid' = {i \in Idx : entry'[i] # NoEntry}
    BY DEF Valid
  <2>2. \A i \in Idx : entry'[i] # NoEntry => i \in Valid /\ t \notin entry[i].mask
    BY <1>1 DEF Killed, Valid
  <2> QED BY <2>1, <2>2, <1>2, <1>5
<1>7. \A i \in Valid' : Demand(entry'[i]) <=> Demand(entry[i])
  BY <1>5, <1>6 DEF Demand
<1>8. LiveWriters' = LiveWriters \ Young(t)
  <2>1. LiveWriters' = {i \in Valid' : Demand(entry'[i])}
    BY DEF LiveWriters
  <2>2. Young(t) = {i \in Valid : Demand(entry[i]) /\ t \in entry[i].mask}
    BY DEF Young, LiveWriters
  <2> QED BY <2>1, <2>2, <1>6, <1>7 DEF LiveWriters
<1>9. \A i \in Valid', j \in Valid : Age(j) < Age(i) => j \in Valid'
  <2>1. SUFFICES ASSUME NEW i \in Valid, NEW j \in Valid, Age(j) < Age(i),
                        t \in entry[j].mask
                 PROVE  t \in entry[i].mask
    BY <1>6
  <2>2. PICK b \in Valid : Owns(b, t) /\ Age(b) < Age(j)
    BY <2>1, <1>3, <1>4
  <2>3. Age(b) < Age(i)
    BY <2>1, <2>2, <1>2
  <2> QED BY <2>2, <2>3, <1>3, <1>4
<1>10. ASSUME NEW u \in cpValid' PROVE u \in cpValid /\ u # t /\ Young(t) \subseteq Young(u)
  <2>1. u \in cpValid /\ u # t /\ t \notin parent[u]
    BY <1>1
  <2>2. PICK o \in Valid : Owns(o, u)
    BY <2>1 DEF MaskIsOlderBranches, Unresolved
  <2>3. t \notin entry[o].mask
    BY <2>1, <2>2 DEF MaskIsOlderBranches
  <2>4. ASSUME NEW i \in Valid, t \in entry[i].mask PROVE u \in entry[i].mask
    <3>1. PICK b \in Valid : Owns(b, t) /\ Age(b) < Age(i)
      BY <2>4, <1>3, <1>4
    <3>2. ~(Age(b) < Age(o))
      BY <2>3, <3>1, <1>3, <1>4
    <3>3. Age(o) < Age(i)
      BY <3>1, <3>2, <1>2
    <3> QED BY <3>3, <2>1, <2>2, <1>4
  <2> QED BY <2>1, <2>4 DEF Young, LiveWriters
<1> QED
  BY <1>3, <1>5, <1>6, <1>7, <1>8, <1>9, <1>10

LEMMA MispredictNames ==
  ASSUME TypeOK, RobWindow, MaskIsOlderBranches, NamesInv,
         NEW t \in Tag, Mispredict(t)
  PROVE  NamesInv'
<1> DEFINE L == LiveWriters \ Young(t)
           R(W) == ReplayOn(commMap', entry', head', W)
<1>1. /\ t \in cpValid
      /\ Valid' = {i \in Valid : t \notin entry[i].mask}
      /\ LiveWriters' = L
      /\ \A i \in Valid', j \in Valid : Age(j) < Age(i) => j \in Valid'
      /\ \A i \in Valid' :
           /\ entry'[i].rd = entry[i].rd /\ entry'[i].rs = entry[i].rs
           /\ entry'[i].new = entry[i].new /\ entry'[i].old = entry[i].old
           /\ entry'[i].src = entry[i].src
           /\ entry'[i].mask = entry[i].mask
           /\ Demand(entry'[i]) <=> Demand(entry[i])
      /\ \A u \in cpValid' : u \in cpValid /\ u # t /\ Young(t) \subseteq Young(u)
  BY MispredictShape
<1>2. /\ specMap' = cpMap[t] /\ free' = free \cup allocMask[t]
      /\ allocMask' = [allocMask EXCEPT ![t] = {}]
      /\ slot' = [s \in Slot |-> NoEntry]
      /\ commMap' = commMap /\ cpMap' = cpMap /\ commFree' = commFree /\ head' = head
  BY DEF Mispredict
<1>3. /\ NamesDistinct /\ NamesReplayed /\ FreeIsRest
      /\ \A u \in cpValid : Restorable(u)
  BY RestorableIs DEF NamesInv
<1>4. /\ L \subseteq LiveWriters /\ Valid \subseteq Idx /\ head \in Idx
      /\ L \subseteq Valid' /\ LiveWriters \subseteq Valid
      /\ Valid' \subseteq Valid
      /\ \A i \in Valid : entry[i] \in RobEntry
      /\ cpValid \subseteq Tag /\ allocMask \in [Tag -> SUBSET Preg]
  <2>1. L \subseteq Valid'
    BY <1>1 DEF LiveWriters
  <2>2. Valid' \subseteq Valid
    BY <1>1
  <2> QED BY <2>1, <2>2 DEF LiveWriters, Valid, TypeOK
<1>5. \A W : Replay(W)' = R(W) /\ Replay(W) = ReplayOn(commMap, entry, head, W)
  BY ReplayIs
<1> HIDE DEF L
<1>6. ASSUME NEW W \in SUBSET L, NEW a \in Arch PROVE R(W)[a] = Replay(W)[a]
  <2>1. \A i \in W : entry'[i].rd = entry[i].rd /\ entry'[i].new = entry[i].new
    BY <1>1, <1>4
  <2>2. W \subseteq Idx
    BY <1>4
  <2>3. SameWriters(a, commMap, entry, head, W, commMap', entry', head', W)
    BY <2>1, <2>2, <1>2, <1>4 DEF SameWriters
  <2> QED BY <2>3, <1>5, ReplaySame
<1>7. \A W \in SUBSET L : R(W) = Replay(W)
  <2>1. \A W : /\ R(W) = [a \in Arch |-> R(W)[a]]
               /\ Replay(W) = [a \in Arch |-> Replay(W)[a]]
    BY DEF ReplayOn, Replay
  <2> HIDE DEF R
  <2> QED BY <2>1, <1>6
<1>8. ASSUME NEW i \in Valid' PROVE Older(i)' = Older(i) /\ Older(i) \in SUBSET L
  <2>1. Older(i)' = {j \in L : Age(j) < Age(i)}
    BY <1>1, <1>2 DEF Older, Age
  <2>2. ASSUME NEW j \in LiveWriters, Age(j) < Age(i) PROVE j \in L
    <3>1. j \in Valid'
      BY <2>2, <1>1, <1>4
    <3> QED BY <3>1, <2>2, <1>1 DEF L, Young
  <2> QED BY <2>1, <2>2, <1>4 DEF Older
<1>9. NamesDistinct'
  <2>1. \A i \in L : entry'[i].new = entry[i].new /\ i \in LiveWriters
    BY <1>1, <1>4
  <2> QED BY <2>1, <1>1, <1>2, <1>3 DEF NamesDistinct, MapRange
<1>10. NamesReplayed'
  <2>1. specMap' = R(LiveWriters')
    BY <1>1, <1>2, <1>3, <1>7 DEF Restorable, L
  <2>2. \A i \in LiveWriters' : entry'[i].old = R(Older(i)')[entry'[i].rd]
    BY <1>1, <1>3, <1>4, <1>7, <1>8 DEF NamesReplayed
  <2>3. \A i \in Valid' : entry'[i].src = R(Older(i)')[entry'[i].rs]
    BY <1>1, <1>3, <1>4, <1>7, <1>8 DEF NamesReplayed
  <2>4. \A i \in Valid' : ~Demand(entry'[i]) => entry'[i].new = 0 /\ entry'[i].old = 0
    BY <1>1, <1>3, <1>4 DEF NamesReplayed
  <2> QED BY <2>1, <2>2, <2>3, <2>4, <1>5 DEF NamesReplayed
<1>11. /\ LiveNew' = News(entry, L)
       /\ LiveNew = News(entry, L) \cup News(entry, Young(t))
       /\ News(entry, L) \cap News(entry, Young(t)) = {}
       /\ News(entry, Young(t)) \cap MapRange(commMap) = {}
       /\ News(entry, Young(t)) \subseteq Preg
  <2>1. \A i \in L : entry'[i].new = entry[i].new
    BY <1>1, <1>4
  <2>2. LiveNew' = News(entry, L)
    BY <2>1, <1>1 DEF LiveNew, News
  <2>3. Young(t) \subseteq LiveWriters /\ LiveWriters = L \cup Young(t) /\ L \cap Young(t) = {}
    BY DEF Young, L
  <2>4. \A i, j \in LiveWriters : entry[i].new = entry[j].new => i = j
    BY <1>3 DEF NamesDistinct
  <2>5. \A i \in LiveWriters : entry[i].new \notin MapRange(commMap) /\ entry[i].new \in Preg
    BY <1>3, <1>4 DEF NamesDistinct, RobEntry
  <2> QED BY <2>2, <2>3, <2>4, <2>5 DEF LiveNew, News
<1>12. /\ News(entry, Young(t)) \subseteq allocMask[t]
       /\ allocMask[t] \subseteq News(entry, Young(t)) \cup free
  BY <1>1, <1>3 DEF Restorable
<1>13. FreeIsRest'
  <2>1. /\ free = Preg \ (MapRange(commMap) \cup LiveNew)
        /\ commFree = Preg \ MapRange(commMap)
    BY <1>3 DEF FreeIsRest
  <2>2. free' = Preg \ (MapRange(commMap) \cup LiveNew')
    BY <2>1, <1>2, <1>11, <1>12
  <2> QED BY <2>1, <2>2, <1>2 DEF FreeIsRest, MapRange
<1>14. ASSUME NEW u \in cpValid' PROVE Restorable(u)'
  <2>1. u \in cpValid /\ u # t /\ Young(t) \subseteq Young(u) /\ Restorable(u) /\ u \in Tag
    BY <1>1, <1>3, <1>4
  <2>2. Young(u)' = Young(u) \ Young(t)
    <3>1. Young(u)' = {i \in L : u \in entry'[i].mask}
      BY <1>1 DEF Young
    <3>2. Young(u)' = {i \in L : u \in entry[i].mask}
      BY <3>1, <1>1, <1>4
    <3> QED BY <3>2 DEF Young, L
  <2>3. LiveWriters' \ Young(u)' = LiveWriters \ Young(u) /\ LiveWriters \ Young(u) \in SUBSET L
    BY <2>1, <2>2, <1>1 DEF L
  <2>4. cpMap'[u] = R(LiveWriters' \ Young(u)')
    BY <2>1, <2>3, <1>2, <1>7 DEF Restorable
  <2>5. News(entry', Young(u)') = News(entry, Young(u) \ Young(t))
    <3>1. Young(u) \ Young(t) \subseteq L
      BY DEF Young, L
    <3>2. \A i \in Young(u) \ Young(t) : entry'[i].new = entry[i].new
      BY <3>1, <1>1, <1>4
    <3> QED BY <3>2, <2>2 DEF News
  <2>6. News(entry, Young(u)) =
          News(entry, Young(u) \ Young(t)) \cup News(entry, Young(t))
    BY <2>1 DEF News
  <2>7. allocMask'[u] = allocMask[u]
    BY <2>1, <1>2, <1>4
  <2>8. /\ News(entry, Young(u)) \subseteq allocMask[u]
        /\ allocMask[u] \subseteq News(entry, Young(u)) \cup free
    BY <2>1 DEF Restorable
  <2>9. /\ News(entry', Young(u)') \subseteq allocMask'[u]
        /\ allocMask'[u] \subseteq News(entry', Young(u)') \cup free'
    BY <2>5, <2>6, <2>7, <2>8, <1>2, <1>12
  <2>10. Replay(LiveWriters \ Young(u))' = R(LiveWriters' \ Young(u)')
    BY DEF Replay, ReplayOn, Age
  <2> QED BY <2>4, <2>9, <2>10 DEF Restorable, News
<1>15. CheckpointRestorable'
  BY <1>14 DEF CheckpointRestorable, Restorable, Young, News
<1>16. BufferLinked'
  BY <1>2, EmptyBuffer
<1> QED
  BY <1>9, <1>10, <1>13, <1>15, <1>16 DEF NamesInv

(* A flush restarts from the committed names.                              *)
LEMMA FlushNames ==
  ASSUME TypeOK, NamesInv, Flush
  PROVE  NamesInv'
<1>1. /\ specMap' = commMap /\ free' = commFree /\ commMap' = commMap
      /\ commFree' = commFree /\ cpValid' = {}
      /\ entry' = [i \in Idx |-> NoEntry]
      /\ slot' = [s \in Slot |-> NoEntry]
  BY DEF Flush
<1>2. Valid' = {} /\ LiveWriters' = {} /\ LiveNew' = {}
  BY <1>1 DEF Valid, LiveWriters, LiveNew
<1>3. NamesDistinct'
  BY <1>1, <1>2 DEF NamesInv, NamesDistinct, MapRange
<1>4. NamesReplayed'
  <2>1. \A a \in Arch : ReplayOn(commMap', entry', head', {})[a] = commMap[a]
    BY <1>1, ReplayBase
  <2>2. commMap = [a \in Arch |-> commMap[a]]
    BY DEF TypeOK
  <2>3. ReplayOn(commMap', entry', head', {}) = commMap
    <3> DEFINE r == ReplayOn(commMap', entry', head', {})
    <3>1. r = [a \in Arch |-> r[a]]
      BY DEF ReplayOn
    <3> HIDE DEF r
    <3> QED BY <3>1, <2>1, <2>2 DEF r
  <2>4. specMap' = Replay(LiveWriters)'
    BY <2>3, <1>1, <1>2 DEF Replay, ReplayOn, Age
  <2> QED BY <2>4, <1>2 DEF NamesReplayed
<1>5. FreeIsRest'
  BY <1>1, <1>2 DEF NamesInv, FreeIsRest, MapRange
<1>6. BufferLinked'
  BY <1>1, EmptyBuffer
<1>7. CheckpointRestorable'
  BY <1>1 DEF CheckpointRestorable
<1> QED
  BY <1>3, <1>4, <1>5, <1>6, <1>7 DEF NamesInv

(* A completion touches no name.                                           *)
LEMMA CompleteNames ==
  ASSUME TypeOK, NamesInv, NEW k \in Idx, Complete(k)
  PROVE  NamesInv'
<1>1. /\ entry[k] \in RobEntry /\ NoEntry \notin RobEntry
      /\ entry' = [entry EXCEPT ![k].complete = TRUE]
      /\ specMap' = specMap /\ commMap' = commMap /\ cpMap' = cpMap
      /\ free' = free /\ commFree' = commFree /\ allocMask' = allocMask
      /\ cpValid' = cpValid /\ head' = head /\ slot' = slot
  BY SentinelAssumption DEF Complete, TypeOK, mapVars, freeVars, cpVars
<1>2. \A i \in Idx : (entry'[i] # NoEntry <=> entry[i] # NoEntry)
  <2>1. entry'[k] \in RobEntry /\ \A i \in Idx : i # k => entry'[i] = entry[i]
    BY <1>1 DEF TypeOK, RobEntry
  <2> QED BY <2>1, <1>1
<1>3. Valid' = Valid /\ Valid \subseteq Idx /\ head \in Idx
  BY <1>2 DEF Valid, TypeOK
<1>4. \A i \in Valid :
        /\ entry'[i].rd = entry[i].rd /\ entry'[i].rs = entry[i].rs
        /\ entry'[i].new = entry[i].new /\ entry'[i].old = entry[i].old
        /\ entry'[i].src = entry[i].src /\ entry'[i].mask = entry[i].mask
        /\ entry'[i].wen = entry[i].wen
  BY <1>1, <1>3 DEF TypeOK, RobEntry, Valid
<1>5. LiveWriters' = LiveWriters /\ LiveWriters \subseteq Valid
      /\ \A i \in Valid : Demand(entry'[i]) <=> Demand(entry[i])
  BY <1>3, <1>4 DEF LiveWriters, Demand
<1>6. \A i : Older(i)' = Older(i) /\ Older(i) \in SUBSET LiveWriters
  BY <1>1, <1>5 DEF Older, Age
<1>7. \A W \in SUBSET LiveWriters : Replay(W)' = Replay(W)
  <2>1. SUFFICES ASSUME NEW W \in SUBSET LiveWriters
                 PROVE  ReplayOn(commMap', entry', head', W) = ReplayOn(commMap, entry, head, W)
    BY ReplayIs
  <2>2. ASSUME NEW a \in Arch
        PROVE  ReplayOn(commMap', entry', head', W)[a] = ReplayOn(commMap, entry, head, W)[a]
    <3>1. SameWriters(a, commMap, entry, head, W, commMap', entry', head', W)
      BY <1>1, <1>3, <1>4, <1>5 DEF SameWriters
    <3> QED BY <3>1, ReplaySame
  <2> QED BY <2>2 DEF ReplayOn
<1>8. LiveNew' = LiveNew /\ \A u : Young(u)' = Young(u)
  BY <1>4, <1>5 DEF LiveNew, Young
<1>9. NamesDistinct'
  BY <1>1, <1>4, <1>5 DEF NamesInv, NamesDistinct, MapRange
<1>10. NamesReplayed'
  <2>1. specMap' = Replay(LiveWriters)'
    <3>1. Replay(LiveWriters)' = ReplayOn(commMap', entry', head', LiveWriters')
      BY DEF Replay, ReplayOn, Age
    <3>2. Replay(LiveWriters) = ReplayOn(commMap', entry', head', LiveWriters)
      BY <1>7, ReplayIs
    <3> QED BY <3>1, <3>2, <1>1, <1>5 DEF NamesInv, NamesReplayed
  <2>2. ASSUME NEW i \in Valid, NEW a \in Arch
        PROVE  ReplayOn(commMap', entry', head', Older(i)')[a] = Replay(Older(i))[a]
    BY <1>6, <1>7, ReplayIs
  <2>3. \A i \in Valid : entry[i].rd \in Arch /\ entry[i].rs \in Arch
    BY DEF TypeOK, Valid, RobEntry
  <2>4. \A i \in LiveWriters' : entry'[i].old =
          ReplayOn(commMap', entry', head', Older(i)')[entry'[i].rd]
    BY <2>2, <2>3, <1>4, <1>5 DEF NamesInv, NamesReplayed
  <2>5. \A i \in Valid' : entry'[i].src =
          ReplayOn(commMap', entry', head', Older(i)')[entry'[i].rs]
    BY <2>2, <2>3, <1>3, <1>4 DEF NamesInv, NamesReplayed
  <2>6. \A i \in Valid' : ~Demand(entry'[i]) => entry'[i].new = 0 /\ entry'[i].old = 0
    BY <1>3, <1>4, <1>5 DEF NamesInv, NamesReplayed
  <2>7. \A i : Replay(Older(i))' = ReplayOn(commMap', entry', head', Older(i)')
    BY DEF Replay, ReplayOn, Age
  <2> QED BY <2>1, <2>4, <2>5, <2>6, <2>7 DEF NamesReplayed
<1>11. FreeIsRest'
  BY <1>1, <1>8 DEF NamesInv, FreeIsRest, MapRange
<1>12. BufferLinked'
  <2>1. Occupied' = Occupied
    BY <1>1 DEF Occupied
  <2>2. \A s, a : Producers(s, a)' = Producers(s, a)
    BY <2>1, <1>1 DEF Producers, Demand
  <2>3. \A s, d, a : Linked(s, d, a)' <=> Linked(s, d, a)
    BY <2>1, <2>2 DEF Linked
  <2> QED BY <2>1, <2>3, <1>1 DEF NamesInv, BufferLinked
<1>13. ASSUME NEW u \in cpValid PROVE Restorable(u)'
  <2>1. Restorable(u)
    BY RestorableIs DEF NamesInv
  <2>2. LiveWriters' \ Young(u)' = LiveWriters \ Young(u)
        /\ LiveWriters \ Young(u) \in SUBSET LiveWriters
    BY <1>5, <1>8
  <2>3. Replay(LiveWriters \ Young(u))' =
          ReplayOn(commMap', entry', head', LiveWriters' \ Young(u)')
    BY DEF Replay, ReplayOn, Age
  <2>4. ReplayOn(commMap', entry', head', LiveWriters \ Young(u)) =
          Replay(LiveWriters \ Young(u))
    BY <2>2, <1>7, ReplayIs
  <2>5. News(entry', Young(u)') = News(entry, Young(u))
    <3>1. \A i \in Young(u) : entry'[i].new = entry[i].new
      BY <1>4, <1>5 DEF Young
    <3> QED BY <3>1, <1>8 DEF News
  <2> QED BY <2>1, <2>2, <2>3, <2>4, <2>5, <1>1 DEF Restorable, News
<1>14. CheckpointRestorable'
  BY <1>1, <1>13 DEF CheckpointRestorable, Restorable, Young, News
<1> QED
  BY <1>9, <1>10, <1>11, <1>12, <1>14 DEF NamesInv

-----------------------------------------------------------------------------
(* Reset: the identity map, the rest free, nothing in flight.              *)
LEMMA NamesInit == Init => NamesInv
<1> SUFFICES ASSUME Init PROVE NamesInv
  OBVIOUS
<1>1. Valid = {} /\ LiveWriters = {} /\ LiveNew = {} /\ Occupied = {}
  BY DEF Init, Valid, LiveWriters, LiveNew, Occupied
<1>2. commMap = [a \in Arch |-> a] /\ specMap = commMap /\ MapRange(commMap) = Arch
  BY DEF Init, MapRange
<1>3. NamesDistinct
  BY <1>1, <1>2 DEF NamesDistinct, Arch
<1>4. NamesReplayed
  <2>1. \A a \in Arch : ReplayOn(commMap, entry, head, {})[a] = commMap[a]
    BY ReplayBase
  <2>2. specMap = Replay({})
    <3>1. Replay({}) = [a \in Arch |-> Replay({})[a]]
      BY DEF Replay
    <3>2. \A a \in Arch : Replay({})[a] = a
      BY <2>1, <1>2, ReplayIs
    <3> QED BY <3>1, <3>2, <1>2
  <2> QED BY <2>2, <1>1 DEF NamesReplayed
<1>5. FreeIsRest
  <2>1. MapRange(commMap) \cup LiveNew = Arch
    BY <1>1, <1>2
  <2>2. NumArch .. NumPhys - 1 = Preg \ Arch
    BY DEF Preg, Arch
  <2>3. free = NumArch .. NumPhys - 1 /\ commFree = NumArch .. NumPhys - 1
    BY DEF Init
  <2> QED BY <2>1, <2>2, <2>3, <1>2 DEF FreeIsRest
<1>6. BufferLinked /\ CheckpointRestorable
  BY <1>1 DEF Init, BufferLinked, CheckpointRestorable
<1> QED
  BY <1>3, <1>4, <1>5, <1>6 DEF NamesInv

(* Every edge, recovering or not, preserves the invariant.                 *)
LEMMA NamesNext == RingInv /\ NamesInv /\ [Next]_vars => NamesInv'
<1> SUFFICES ASSUME RingInv, NamesInv, [Next]_vars PROVE NamesInv'
  OBVIOUS
<1>0. TypeOK /\ RobWindow /\ MaskIsOlderBranches
  BY DEF RingInv
<1>1. ASSUME NEW n \in 0 .. RetireWidth, NEW t \in Tag \cup {NoTag}, NEW limit,
             NEW g \in Groups \cup {<<>>}, Cycle(n, t, limit, g)
      PROVE  NamesInv'
  <2>1. NamesDistinct'
    BY <1>0, <1>1, CycleDistinct
  <2>2. NamesReplayed'
    BY <1>0, <1>1, CycleReplayed
  <2>3. FreeIsRest'
    BY <1>0, <1>1, CycleFree
  <2>4. BufferLinked'
    BY <1>1, CycleBuffer
  <2>5. CheckpointRestorable'
    BY <1>0, <1>1, CycleCheckpoints
  <2> QED BY <2>1, <2>2, <2>3, <2>4, <2>5 DEF NamesInv
<1>2. ASSUME NEW t \in Tag, Mispredict(t) PROVE NamesInv'
  BY <1>0, <1>2, MispredictNames
<1>3. CASE Flush
  BY <1>0, <1>3, FlushNames
<1>4. ASSUME NEW i \in Idx, Complete(i) PROVE NamesInv'
  BY <1>0, <1>4, CompleteNames
<1>5. CASE UNCHANGED vars
  <2>1. /\ specMap' = specMap /\ commMap' = commMap /\ cpMap' = cpMap
        /\ free' = free /\ commFree' = commFree /\ allocMask' = allocMask
        /\ cpValid' = cpValid /\ head' = head /\ entry' = entry /\ slot' = slot
    BY <1>5 DEF vars, mapVars, freeVars, cpVars, robVars
  <2>2. Valid' = Valid /\ LiveWriters' = LiveWriters /\ LiveNew' = LiveNew
    BY <2>1 DEF Valid, LiveWriters, LiveNew, Demand
  <2>3. (\A i : Older(i)' = Older(i)) /\ \A u : Young(u)' = Young(u)
    BY <2>1, <2>2 DEF Older, Young, Age
  <2>4. /\ Replay(LiveWriters)' = Replay(LiveWriters)
        /\ \A i : Replay(Older(i))' = Replay(Older(i))
        /\ \A u : Replay(LiveWriters \ Young(u))' = Replay(LiveWriters \ Young(u))
    <3>1. /\ Replay(LiveWriters)' = ReplayOn(commMap', entry', head', LiveWriters')
          /\ \A i : Replay(Older(i))' = ReplayOn(commMap', entry', head', Older(i)')
          /\ \A u : Replay(LiveWriters \ Young(u))' =
               ReplayOn(commMap', entry', head', LiveWriters' \ Young(u)')
      BY DEF Replay, ReplayOn, Age
    <3> QED BY <3>1, <2>1, <2>2, <2>3, ReplayIs
  <2>5. NamesDistinct' /\ NamesReplayed' /\ FreeIsRest'
    BY <2>1, <2>2, <2>4 DEF NamesInv, NamesDistinct, NamesReplayed, FreeIsRest, MapRange, Demand
  <2>6. BufferLinked'
    <3>1. Occupied' = Occupied
      BY <2>1 DEF Occupied
    <3>2. \A s, a : Producers(s, a)' = Producers(s, a)
      BY <3>1, <2>1 DEF Producers, Demand
    <3>3. \A s, d, a : Linked(s, d, a)' <=> Linked(s, d, a)
      BY <3>1, <3>2 DEF Linked
    <3> QED BY <3>1, <3>3, <2>1 DEF NamesInv, BufferLinked
  <2>7. \A u \in cpValid : Restorable(u)'
    <3>1. \A u \in cpValid : Restorable(u)
      BY RestorableIs DEF NamesInv
    <3>2. \A u : News(entry, Young(u))' = News(entry, Young(u))
      BY <2>1, <2>3 DEF News
    <3>3. SUFFICES ASSUME NEW u \in cpValid PROVE Restorable(u)'
      OBVIOUS
    <3>4. cpMap'[u] = Replay(LiveWriters \ Young(u))'
      BY <3>1, <2>1, <2>4 DEF Restorable
    <3>5. /\ News(entry, Young(u))' \subseteq allocMask'[u]
          /\ allocMask'[u] \subseteq News(entry, Young(u))' \cup free'
      BY <3>1, <3>2, <2>1 DEF Restorable
    <3> QED BY <3>4, <3>5 DEF Restorable
  <2>8. CheckpointRestorable'
    BY <2>1, <2>7 DEF CheckpointRestorable, Restorable, Young, News
  <2> QED BY <2>5, <2>6, <2>8 DEF NamesInv
<1> QED
  BY <1>1, <1>2, <1>3, <1>4, <1>5 DEF Next

LEMMA NamesCorrect == Spec => [](TypeOK /\ NamesInv)
<1>1. Init => RingInv /\ NamesInv
  BY RingInit, NamesInit
<1>2. RingInv /\ NamesInv /\ [Next]_vars => (RingInv /\ NamesInv)'
  BY RingNext, NamesNext
<1>3. RingInv /\ NamesInv => TypeOK /\ NamesInv
  BY DEF RingInv
<1> QED
  BY <1>1, <1>2, <1>3, PTL DEF Spec

(* For every configuration and every order of retirement, branch kills and *)
(* flushes: each physical register is in exactly one of the free list, the *)
(* speculative map and the previous names of in-flight writers             *)
(* (free_list.sv, rename_map_table.sv, old_preg in rob.sv).                *)
THEOREM PartitionCorrect == Spec => []RegisterPartition
<1>1. TypeOK /\ NamesInv => RegisterPartition
  BY NamesPartition
<1> QED
  BY <1>1, NamesCorrect, PTL

(* For every configuration the committed bitmap is the complement of the   *)
(* committed map, so a flush on any edge leaks nothing (free_list.sv       *)
(* committed ports, in order).                                             *)
THEOREM CommittedCorrect == Spec => []CommittedPartition
<1>1. TypeOK /\ NamesInv => CommittedPartition
  BY NamesPartition
<1> QED
  BY <1>1, NamesCorrect, PTL

(* For every configuration the source a ROB entry was renamed to is the    *)
(* name of the nearest older in-flight writer, or the committed one, and   *)
(* is not free (r2_dependency, rename_map_table.sv).                       *)
THEOREM SourceCorrect == Spec => []SourceIsNearestWriter
<1>1. TypeOK /\ NamesInv => SourceIsNearestWriter
  BY NamesSource
<1> QED
  BY <1>1, NamesCorrect, PTL

(* For every configuration every live checkpoint restores the map and the  *)
(* free list of the moment its branch was renamed, over retirements and    *)
(* resolutions since (cpMap, allocMask, branch_checkpoint_file.sv).        *)
THEOREM CheckpointCorrect == Spec => []CheckpointRestorable
<1>1. TypeOK /\ NamesInv => CheckpointRestorable
  BY DEF NamesInv
<1> QED
  BY <1>1, NamesCorrect, PTL

-----------------------------------------------------------------------------
(***************************************************************************)
(* A fused pair leaves the buffer together.                                *)
(***************************************************************************)

(* The next slot is the next lane, and needs what its head needed and its  *)
(* own destination.                                                        *)
LEMMA NextLane ==
  ASSUME NEW s \in Occupied, s + 1 \in Occupied
  PROVE  /\ Lane(s) \in Nat /\ PregNeed(s) \in Nat
         /\ Lane(s + 1) = Lane(s) + 1
         /\ \A m \in Occupied : Lane(m) = Lane(s + 1) => m = s + 1
         /\ PregNeed(s + 1) = PregNeed(s) + (IF Demand(slot[s + 1].uop) THEN 1 ELSE 0)
<1>1. Occupied \subseteq Nat /\ IsFiniteSet(Occupied) /\ Occupied \in SUBSET Slot
  <2>1. Occupied \subseteq Slot /\ Slot \subseteq Nat
    BY SlotFacts
  <2>2. Occupied \in SUBSET Slot
    BY <2>1
  <2> QED BY <2>1, <2>2, SlotFacts
<1>2. \A x \in Occupied : Lane(x) = Cardinality(Below(Occupied, x))
  <2>1. \A x \in Occupied : {y \in Occupied : y < x} = Below(Occupied, x)
    BY DEF Below
  <2> QED BY <2>1 DEF Lane
<1> DEFINE A == {x \in Occupied : x < s}
           B == {x \in Occupied : x <= s /\ Demand(slot[x].uop)}
<1>3. /\ IsFiniteSet(A) /\ IsFiniteSet(B) /\ s \notin A /\ s + 1 \notin B
      /\ A \cup {s} = {x \in Occupied : x < s + 1}
      /\ {x \in Occupied : x <= s + 1 /\ Demand(slot[x].uop)} =
           IF Demand(slot[s + 1].uop) THEN B \cup {s + 1} ELSE B
  <2>1. A \in SUBSET Slot /\ B \in SUBSET Slot
    BY <1>1
  <2>2. IsFiniteSet(A) /\ IsFiniteSet(B)
    BY <2>1, SlotFacts
  <2>3. \A x \in Occupied : /\ x < s + 1 <=> x < s \/ x = s
                            /\ x <= s + 1 <=> x <= s \/ x = s + 1
    BY <1>1
  <2>4. ~(s < s) /\ ~(s + 1 <= s)
    BY <1>1
  <2> QED BY <2>2, <2>3, <2>4
<1>4. Lane(s) = Cardinality(A) /\ PregNeed(s) = Cardinality(B)
  BY DEF Lane, PregNeed
<1>5. Lane(s + 1) = Cardinality(A \cup {s})
  BY <1>3 DEF Lane
<1>6. PregNeed(s + 1) = Cardinality(IF Demand(slot[s + 1].uop) THEN B \cup {s + 1} ELSE B)
  BY <1>3 DEF PregNeed
<1> HIDE DEF A, B
<1>7. /\ Cardinality(A) \in Nat /\ Cardinality(B) \in Nat
      /\ Cardinality(A \cup {s}) = Cardinality(A) + 1
      /\ Cardinality(B \cup {s + 1}) = Cardinality(B) + 1
  BY <1>3, FS_CardinalityType, FS_AddElement
<1>8. \A m \in Occupied : Lane(m) = Lane(s + 1) => m = s + 1
  <2>1. ASSUME NEW m \in Occupied, NEW k \in Occupied, Lane(m) = Lane(k) PROVE m = k
    <3>1. Cardinality(Below(Occupied, m)) = Cardinality(Below(Occupied, k))
      BY <2>1, <1>2
    <3> QED BY <3>1, <1>1, RankInjective
  <2> QED BY <2>1
<1>9. PregNeed(s + 1) = PregNeed(s) + (IF Demand(slot[s + 1].uop) THEN 1 ELSE 0)
  <2>1. CASE Demand(slot[s + 1].uop)
    BY <2>1, <1>4, <1>6, <1>7
  <2>2. CASE ~Demand(slot[s + 1].uop)
    BY <2>2, <1>4, <1>6, <1>7
  <2> QED BY <2>1, <2>2
<1> QED
  BY <1>4, <1>5, <1>7, <1>8, <1>9

(* An accepted head has room for its member, so the prefix goes on.        *)
LEMMA MemberAccepted ==
  ASSUME BufferLinked, NEW limit, NEW s \in Accepted(limit), slot[s].uop.fuse = "head"
  PROVE  s + 1 \in Accepted(limit)
<1>1. /\ s \in Occupied /\ s + 1 \in Occupied
      /\ slot[s + 1].uop.fuse = "member" /\ ~slot[s + 1].uop.br
  <2>1. s \in Occupied
    BY DEF Accepted
  <2>2. s + 1 \in Occupied /\ slot[s + 1].uop.fuse = "member"
    BY <2>1 DEF BufferLinked
  <2> QED BY <2>1, <2>2 DEF BufferLinked
<1>2. /\ Occupied \subseteq Nat
      /\ \A x \in Occupied : x <= s => LaneOk(x, limit)
  BY SlotFacts DEF Accepted
<1>3. PairRoom(s, limit)
  <2>1. LaneOk(s, limit)
    BY <1>1, <1>2
  <2> QED BY <2>1 DEF LaneOk
<1>4. /\ Lane(s) \in Nat /\ PregNeed(s) \in Nat
      /\ Lane(s + 1) = Lane(s) + 1
      /\ \A m \in Occupied : Lane(m) = Lane(s + 1) => m = s + 1
      /\ PregNeed(s + 1) = PregNeed(s) + (IF Demand(slot[s + 1].uop) THEN 1 ELSE 0)
  BY <1>1, NextLane
<1>5. /\ robFree >= Lane(s) + 2 /\ limit >= Lane(s) + 2
      /\ Cardinality(Avail) >= PregNeed(s + 1)
  BY <1>3, <1>4 DEF PairRoom
<1>6. LaneOk(s + 1, limit)
  <2>1. Lane(s + 1) + 1 = Lane(s) + 2
    BY <1>4
  <2> QED BY <2>1, <1>1, <1>5 DEF LaneOk
<1>7. \A x \in Occupied : x <= s + 1 => LaneOk(x, limit)
  <2>1. \A x \in Occupied : x <= s + 1 => x <= s \/ x = s + 1
    BY <1>1, <1>2
  <2> QED BY <2>1, <1>2, <1>6
<1> QED
  BY <1>1, <1>7 DEF Accepted

(* For every configuration no edge takes the head of a fused multiply pair *)
(* out of the rename buffer without its member (the pair admission of      *)
(* rename_stage.sv).                                                       *)
THEOREM FusedCorrect == Spec => FusedPairAtomic
<1> DEFINE Pair == \A s, m \in Slot :
       (/\ slot[s] # NoEntry /\ slot[s].uop.fuse = "head"
        /\ m = s + 1 /\ slot'[s] = NoEntry)
       => slot'[m] = NoEntry
<1>1. NamesInv /\ [Next]_vars => [Pair]_vars
  <2>1. SUFFICES ASSUME NamesInv, Next, NEW s \in Slot, s + 1 \in Slot,
                        slot[s] # NoEntry, slot[s].uop.fuse = "head", slot'[s] = NoEntry
                 PROVE  slot'[s + 1] = NoEntry
    OBVIOUS
  <2>2. s \in Occupied /\ BufferLinked
    BY <2>1 DEF Occupied, NamesInv
  <2>3. ASSUME NEW n, NEW t, NEW limit, NEW g \in Groups \cup {<<>>}, Cycle(n, t, limit, g)
        PROVE  slot'[s + 1] = NoEntry
    <3>1. CASE g # <<>>
      <4>1. g \in Groups /\ slot' = Loaded(g)
        BY <2>3, <3>1 DEF Cycle
      <4>2. ~(s < Len(g))
        BY <4>1, <2>1, R1SlotReal DEF Loaded
      <4>3. ~(s + 1 < Len(g))
        BY <4>1, <4>2, <2>1, GroupAssumption DEF Slot
      <4> QED BY <4>1, <4>3, <2>1 DEF Loaded
    <3>2. CASE g = <<>>
      <4>1. slot' = [x \in Slot |-> IF x \in Accepted(limit) THEN NoEntry ELSE slot[x]]
        BY <2>3, <3>2 DEF Cycle
      <4>2. s \in Accepted(limit)
        BY <4>1, <2>1
      <4>3. s + 1 \in Accepted(limit)
        BY <4>2, <2>1, <2>2, MemberAccepted
      <4> QED BY <4>1, <4>3, <2>1
    <3> QED BY <3>1, <3>2
  <2>4. ASSUME NEW t \in Tag, Mispredict(t) PROVE slot'[s + 1] = NoEntry
    BY <2>1, <2>4 DEF Mispredict
  <2>5. CASE Flush
    BY <2>1, <2>5 DEF Flush
  <2>6. ASSUME NEW i \in Idx, Complete(i) PROVE slot'[s + 1] = NoEntry
    BY <2>1, <2>6 DEF Complete
  <2> QED BY <2>1, <2>3, <2>4, <2>5, <2>6 DEF Next
<1> HIDE DEF Pair
<1>2. Spec => [][Pair]_vars
  BY <1>1, NamesCorrect, PTL DEF Spec
<1> QED
  BY <1>2 DEF Pair, FusedPairAtomic
=============================================================================
