---------------------------- MODULE RenameRefines ----------------------------
(***************************************************************************)
(* Register renaming implements the program-order window: the ring read    *)
(* from the head is the window, an edge without recovery is Advance, a     *)
(* mispredicted branch is Cut, a flush is Restart and a completion is      *)
(* not seen.                                                               *)
(***************************************************************************)
EXTENDS RenameProofs, SequenceTheorems

(* A part of a sequence, as a function.                                    *)
LEMMA SubSeqFun ==
  ASSUME NEW S, NEW w \in Seq(S), NEW m \in 0 .. Len(w), NEW n \in m .. Len(w)
  PROVE  /\ Len(SubSeq(w, m + 1, n)) = n - m
         /\ SubSeq(w, m + 1, n) = [k \in 1 .. n - m |-> w[m + k]]
<1> DEFINE a == m + 1
           u == SubSeq(w, a, n)
<1>1. /\ a \in Int /\ n \in Int /\ m \in Int /\ a = m + 1 /\ n >= m
      /\ \A i \in a .. n : w[i] \in S
  OBVIOUS
<1> HIDE DEF a
<1>2. /\ u \in Seq(S)
      /\ Len(u) = IF a <= n THEN n - a + 1 ELSE 0
      /\ \A i \in 1 .. n - a + 1 : u[i] = w[a + i - 1]
  BY <1>1, SubSeqProperties
<1> HIDE DEF u
<1>3. Len(u) = n - m /\ n - a + 1 = n - m
  BY <1>1, <1>2
<1>4. \A i \in 1 .. n - m : u[i] = w[m + i]
  <2>1. \A i \in 1 .. n - m : u[i] = w[a + i - 1]
    BY <1>2, <1>3
  <2>2. \A i \in Int : a + i - 1 = m + i
    BY <1>1
  <2> QED BY <2>1, <2>2
<1> QED
  BY <1>2, <1>3, <1>4 DEF u, a

USE SizeAssumption

(* What the window shows of a ROB entry, and the L entries from head h.    *)
Item(e) ==
  [wen |-> Demand(e), rd |-> e.rd, new |-> e.new, rs |-> e.rs, src |-> e.src,
   open |-> e.tag # NoTag /\ ~e.resolved]

WindowOf(e, h, L) == [k \in 1 .. L |-> Item(e[Wrap(h, k - 1)])]

(* The writers among the L entries from head h.                            *)
WritersIn(e, h, L) == {i \in Idx : AgeFrom(h, i) < L /\ Demand(e[i])}

-----------------------------------------------------------------------------
(***************************************************************************)
(* Reading a ring as a sequence.                                           *)
(***************************************************************************)

(* The oldest n of a window are a window.                                  *)
LEMMA WindowPrefix ==
  ASSUME NEW e, NEW h, NEW L \in Nat, NEW n \in 0 .. L
  PROVE  /\ Len(WindowOf(e, h, L)) = L
         /\ SubSeq(WindowOf(e, h, L), 1, n) = WindowOf(e, h, n)
<1> DEFINE w == WindowOf(e, h, L)
           S == {Item(e[Wrap(h, k - 1)]) : k \in 1 .. L}
<1>1. w \in [1 .. L -> S]
  BY DEF WindowOf
<1>2. \A k \in 1 .. n : w[0 + k] = Item(e[Wrap(h, k - 1)])
  BY DEF WindowOf
<1> HIDE DEF w, S
<1>3. w \in Seq(S) /\ Len(w) = L
  BY <1>1
<1>4. SubSeq(w, 0 + 1, n) = [k \in 1 .. n - 0 |-> w[0 + k]]
  BY <1>3, SubSeqFun
<1>5. [k \in 1 .. n - 0 |-> w[0 + k]] = WindowOf(e, h, n)
  BY <1>2 DEF WindowOf
<1> QED
  BY <1>3, <1>4, <1>5 DEF w

(* The k-th item that writes a stands for the writer of age k - 1.         *)
Corresponds(e, h, L, a) ==
  /\ \A k \in PW!WritersOf(WindowOf(e, h, L), a) :
       /\ k \in 1 .. L /\ Wrap(h, k - 1) \in WritersIn(e, h, L)
       /\ AgeFrom(h, Wrap(h, k - 1)) = k - 1
       /\ e[Wrap(h, k - 1)].rd = a
       /\ WindowOf(e, h, L)[k].new = e[Wrap(h, k - 1)].new
  /\ \A i \in WritersIn(e, h, L) : e[i].rd = a =>
       /\ AgeFrom(h, i) + 1 \in PW!WritersOf(WindowOf(e, h, L), a)
       /\ Wrap(h, AgeFrom(h, i)) = i

(* Items and writers correspond.                                           *)
LEMMA WindowWriters ==
  ASSUME NEW e, NEW h \in Idx, NEW L \in 0 .. NumRob, NEW a
  PROVE  Corresponds(e, h, L, a)
<1> DEFINE w == WindowOf(e, h, L)
           W == WritersIn(e, h, L)
<1>1. /\ \A i \in Idx : AgeFrom(h, i) \in 0 .. NumRob - 1 /\ Wrap(h, AgeFrom(h, i)) = i
      /\ \A k \in 0 .. NumRob - 1 : Wrap(h, k) \in Idx /\ AgeFrom(h, Wrap(h, k)) = k
  BY AgeFromFacts
<1>2. /\ DOMAIN w = 1 .. L
      /\ \A k \in 1 .. L : /\ w[k].wen <=> Demand(e[Wrap(h, k - 1)])
                           /\ w[k].rd = e[Wrap(h, k - 1)].rd
                           /\ w[k].new = e[Wrap(h, k - 1)].new
  BY DEF WindowOf, Item
<1> HIDE DEF w
<1>3. ASSUME NEW k \in PW!WritersOf(w, a)
      PROVE  /\ k \in 1 .. L /\ Wrap(h, k - 1) \in W
             /\ AgeFrom(h, Wrap(h, k - 1)) = k - 1
             /\ e[Wrap(h, k - 1)].rd = a /\ w[k].new = e[Wrap(h, k - 1)].new
  <2>1. k \in 1 .. L /\ w[k].wen /\ w[k].rd = a
    BY <1>2, <1>3 DEF PW!WritersOf
  <2>2. k - 1 \in 0 .. NumRob - 1 /\ k - 1 < L
    BY <2>1
  <2> QED BY <2>1, <2>2, <1>1, <1>2 DEF WritersIn
<1>4. ASSUME NEW i \in W, e[i].rd = a
      PROVE  AgeFrom(h, i) + 1 \in PW!WritersOf(w, a) /\ Wrap(h, AgeFrom(h, i)) = i
  <2> DEFINE k == AgeFrom(h, i) + 1
  <2>1. i \in Idx /\ AgeFrom(h, i) < L /\ Demand(e[i])
    BY DEF WritersIn
  <2>2. k \in 1 .. L /\ k - 1 = AgeFrom(h, i) /\ Wrap(h, AgeFrom(h, i)) = i
    BY <2>1, <1>1
  <2> HIDE DEF k
  <2>3. w[k].wen /\ w[k].rd = a
    BY <2>1, <2>2, <1>2, <1>4
  <2>4. k \in PW!WritersOf(w, a)
    BY <2>2, <2>3, <1>2 DEF PW!WritersOf
  <2> QED BY <2>2, <2>4 DEF k
<1> QED
  BY <1>3, <1>4 DEF w, Corresponds

(* The replay of the window is the replay of its writers.                  *)
LEMMA ReplaySeq ==
  ASSUME NEW c, NEW e, NEW h \in Idx, NEW L \in 0 .. NumRob
  PROVE  PW!ReplayOver(c, WindowOf(e, h, L)) = ReplayOn(c, e, h, WritersIn(e, h, L))
<1> DEFINE w == WindowOf(e, h, L)
           W == WritersIn(e, h, L)
           r == ReplayOn(c, e, h, W)
<1>1. W \subseteq Idx
  BY DEF WritersIn
<1>2. \A i \in Idx : AgeFrom(h, i) \in 0 .. NumRob - 1
  BY AgeFromFacts
<1>3. ASSUME NEW a \in Arch PROVE PW!ReplayOver(c, w)[a] = r[a]
  <2> DEFINE ks == PW!WritersOf(w, a)
  <2>1. /\ \A k \in ks : /\ k \in 1 .. L /\ Wrap(h, k - 1) \in W
                         /\ AgeFrom(h, Wrap(h, k - 1)) = k - 1
                         /\ e[Wrap(h, k - 1)].rd = a /\ w[k].new = e[Wrap(h, k - 1)].new
        /\ \A i \in W : e[i].rd = a => AgeFrom(h, i) + 1 \in ks /\ Wrap(h, AgeFrom(h, i)) = i
    <3>1. Corresponds(e, h, L, a)
      BY WindowWriters
    <3> QED BY <3>1 DEF Corresponds
  <2>2. PW!ReplayOver(c, w)[a] =
          IF ks = {} THEN c[a] ELSE w[CHOOSE k \in ks : \A j \in ks : j <= k].new
    BY DEF PW!ReplayOver
  <2> HIDE DEF ks, w, W, r
  <2>3. CASE \A i \in W : e[i].rd # a
    <3>1. ks = {}
      BY <2>1, <2>3
    <3>2. r[a] = c[a]
      BY <1>1, <2>3, ReplayBase DEF r
    <3> QED BY <3>1, <3>2, <2>2
  <2>4. CASE \E i \in W : e[i].rd = a
    <3>1. PICK i : IsLast(e, h, W, a, i)
      BY <1>1, <2>4, LastExists
    <3>2. r[a] = e[i].new
      BY <3>1, ReplayLast DEF r
    <3> DEFINE k == AgeFrom(h, i) + 1
    <3>3. i \in W /\ e[i].rd = a /\ i \in Idx /\ AgeFrom(h, i) \in Int
      BY <3>1, <1>1, <1>2 DEF IsLast
    <3>4. k \in ks /\ k - 1 = AgeFrom(h, i) /\ Wrap(h, k - 1) = i
      BY <3>3, <2>1
    <3>5. ASSUME NEW j \in ks PROVE j <= k
      <4>1. /\ j \in Int /\ Wrap(h, j - 1) \in W /\ e[Wrap(h, j - 1)].rd = a
            /\ AgeFrom(h, Wrap(h, j - 1)) = j - 1
        BY <2>1
      <4>2. j - 1 <= AgeFrom(h, i)
        BY <4>1, <3>1 DEF IsLast
      <4> QED BY <4>1, <4>2, <3>3
    <3> HIDE DEF k
    <3>6. (CHOOSE l \in ks : \A j \in ks : j <= l) = k
      <4>1. \A l \in ks : l \in Int
        BY <2>1
      <4> QED BY <4>1, <3>4, <3>5
    <3>7. w[k].new = e[i].new
      BY <3>4, <2>1
    <3> QED BY <3>2, <3>4, <3>6, <3>7, <2>2
  <2> QED BY <2>3, <2>4
<1>4. /\ PW!ReplayOver(c, w) = [a \in Arch |-> PW!ReplayOver(c, w)[a]]
      /\ r = [a \in Arch |-> r[a]]
  BY DEF PW!ReplayOver, ReplayOn
<1> HIDE DEF r, w
<1> QED
  BY <1>3, <1>4 DEF r, w

(* The names a window holds.                                               *)
LEMMA HeldSeq ==
  ASSUME NEW c, NEW e, NEW h \in Idx, NEW L \in 0 .. NumRob
  PROVE  PW!Held(c, WindowOf(e, h, L)) = MapRange(c) \cup News(e, WritersIn(e, h, L))
<1> DEFINE w == WindowOf(e, h, L)
           W == WritersIn(e, h, L)
<1>1. /\ \A i \in Idx : AgeFrom(h, i) \in 0 .. NumRob - 1 /\ Wrap(h, AgeFrom(h, i)) = i
      /\ \A k \in 0 .. NumRob - 1 : Wrap(h, k) \in Idx /\ AgeFrom(h, Wrap(h, k)) = k
  BY AgeFromFacts
<1>2. /\ DOMAIN w = 1 .. L
      /\ \A k \in 1 .. L : /\ w[k].wen <=> Demand(e[Wrap(h, k - 1)])
                           /\ w[k].new = e[Wrap(h, k - 1)].new
  BY DEF WindowOf, Item
<1> HIDE DEF w
<1>3. ASSUME NEW k \in 1 .. L, w[k].wen PROVE w[k].new \in News(e, W)
  <2>1. k - 1 \in 0 .. NumRob - 1 /\ k - 1 < L
    OBVIOUS
  <2>2. Wrap(h, k - 1) \in W
    BY <2>1, <1>1, <1>2, <1>3 DEF WritersIn
  <2> QED BY <2>2, <1>2 DEF News
<1>4. ASSUME NEW i \in W
      PROVE  \E k \in 1 .. L : w[k].wen /\ w[k].new = e[i].new
  <2>1. i \in Idx /\ AgeFrom(h, i) < L /\ Demand(e[i])
    BY DEF WritersIn
  <2>2. /\ AgeFrom(h, i) + 1 \in 1 .. L
        /\ Wrap(h, (AgeFrom(h, i) + 1) - 1) = i
    BY <2>1, <1>1
  <2> QED BY <2>1, <2>2, <1>2
<1>5. {w[k].new : k \in {j \in DOMAIN w : w[j].wen}} = News(e, W)
  <2>1. \A x \in News(e, W) : \E k \in 1 .. L : w[k].wen /\ w[k].new = x
    BY <1>4 DEF News
  <2> HIDE DEF W
  <2> QED BY <2>1, <1>2, <1>3
<1> QED
  BY <1>5 DEF PW!Held, MapRange, w

(* The machine's window and writers, before and after a step.              *)
LEMMA WindowIs ==
  /\ Window = WindowOf(entry, head, NumRob - robFree)
  /\ Window' = WindowOf(entry', head', NumRob - robFree')
BY DEF Window, WindowOf, Item
-----------------------------------------------------------------------------
(***************************************************************************)
(* The branch that resolves on an edge.                                    *)
(***************************************************************************)

(* e is the unresolved branch that owns t.                                 *)
Resolves(e, t) == t # NoTag /\ e.tag = t /\ ~e.resolved

(* Resolution closes that branch and changes nothing else the window shows.*)
LEMMA ResolveItem ==
  ASSUME NEW e \in RobEntry, NEW t \in Tag \cup {NoTag}
  PROVE  Item(ResolveEntry(e, t)) =
           IF Resolves(e, t) THEN [Item(e) EXCEPT !.open = FALSE] ELSE Item(e)
<1> DEFINE f == ResolveEntry(e, t)
<1>1. /\ f.wen = e.wen /\ f.rd = e.rd /\ f.new = e.new /\ f.rs = e.rs
      /\ f.src = e.src /\ f.tag = e.tag
      /\ f.resolved <=> e.resolved \/ e.tag = t
  BY DEF ResolveEntry, RobEntry
<1>2. Demand(f) = Demand(e)
  BY <1>1 DEF Demand
<1> HIDE DEF f
<1>5. [Item(e) EXCEPT !.open = FALSE] =
        [wen |-> Demand(e), rd |-> e.rd, new |-> e.new, rs |-> e.rs, src |-> e.src,
         open |-> FALSE]
  <2> DEFINE d == Demand(e)
             o == e.tag # NoTag /\ ~e.resolved
             closed == FALSE
  <2>1. Item(e) = [wen |-> d, rd |-> e.rd, new |-> e.new, rs |-> e.rs, src |-> e.src,
                   open |-> o]
    BY DEF Item
  <2> HIDE DEF d, o, closed
  <2>2. [Item(e) EXCEPT !.open = closed] =
          [wen |-> d, rd |-> e.rd, new |-> e.new, rs |-> e.rs, src |-> e.src,
           open |-> closed]
    BY <2>1
  <2> QED BY <2>2 DEF d, closed
<1>3. CASE Resolves(e, t)
  <2>1. (f.tag # NoTag /\ ~f.resolved) = FALSE
    BY <1>1, <1>3 DEF Resolves
  <2>2. Item(f) = [Item(e) EXCEPT !.open = FALSE]
    BY <2>1, <1>1, <1>2, <1>5 DEF Item
  <2> QED BY <2>2, <1>3 DEF f
<1>4. CASE ~Resolves(e, t)
  <2>1. (f.tag # NoTag /\ ~f.resolved) = (e.tag # NoTag /\ ~e.resolved)
    BY <1>1, <1>4 DEF Resolves
  <2>2. Item(f) = Item(e)
    BY <2>1, <1>1, <1>2 DEF Item
  <2> QED BY <2>2, <1>4 DEF f
<1> QED
  BY <1>3, <1>4

(* The place in the window of the branch that resolves, 0 for none.        *)
IsPlace(j, t) ==
  /\ j \in 0 .. NumRob - robFree
  /\ \A k \in 1 .. NumRob - robFree : Resolves(entry[Wrap(head, k - 1)], t) <=> k = j

(* There is one such place, because a live tag has one unresolved owner.   *)
LEMMA PlaceExists ==
  ASSUME TypeOK, RobWindow, MaskIsOlderBranches,
         NEW t \in Tag \cup {NoTag}, t = NoTag \/ Unresolved(t)
  PROVE  \E j : /\ IsPlace(j, t) /\ (j = 0 <=> t = NoTag)
                /\ j # 0 => /\ Owns(Wrap(head, j - 1), t)
                            /\ Wrap(head, j - 1) \in Valid
                            /\ Age(Wrap(head, j - 1)) = j - 1
<1> DEFINE c == NumRob - robFree
<1>1. /\ \A i \in Idx : Age(i) \in 0 .. NumRob - 1 /\ Wrap(head, Age(i)) = i
      /\ \A k \in 0 .. NumRob - 1 : Wrap(head, k) \in Idx /\ Age(Wrap(head, k)) = k
  BY AgeFacts DEF TypeOK
<1>2. /\ c \in 0 .. NumRob /\ Valid \subseteq Idx
      /\ \A i \in Idx : i \in Valid <=> Age(i) < c
  BY DEF TypeOK, RobWindow, Valid
<1> HIDE DEF c
<1>3. CASE t = NoTag
  <2>1. IsPlace(0, t)
    BY <1>2, <1>3 DEF IsPlace, Resolves, c
  <2> QED BY <2>1, <1>3
<1>4. CASE t # NoTag
  <2>1. PICK o \in Valid : Owns(o, t)
    BY <1>4 DEF Unresolved
  <2>2. t \in cpValid
    BY <2>1, <1>4 DEF MaskIsOlderBranches, Unresolved
  <2>3. \A i \in Valid : Owns(i, t) => i = o
    BY <2>1, <2>2 DEF MaskIsOlderBranches
  <2> DEFINE j == Age(o) + 1
  <2>4. j \in 1 .. c /\ j - 1 = Age(o) /\ Wrap(head, j - 1) = o
    BY <1>1, <1>2
  <2> HIDE DEF j
  <2>5. ASSUME NEW k \in 1 .. c PROVE Resolves(entry[Wrap(head, k - 1)], t) <=> k = j
    <3>1. k - 1 \in 0 .. NumRob - 1 /\ k - 1 < c
      BY <1>2
    <3>2. Wrap(head, k - 1) \in Valid /\ Age(Wrap(head, k - 1)) = k - 1
      BY <3>1, <1>1, <1>2
    <3>3. Resolves(entry[Wrap(head, k - 1)], t) <=> Wrap(head, k - 1) = o
      BY <3>2, <2>1, <2>3, <1>4 DEF Resolves, Owns
    <3>4. Wrap(head, k - 1) = o <=> k = j
      BY <3>2, <2>4
    <3> QED BY <3>3, <3>4
  <2>6. IsPlace(j, t)
    BY <2>4, <2>5, <1>2 DEF IsPlace, c
  <2> QED BY <2>1, <2>4, <2>6, <1>4
<1> QED
  BY <1>3, <1>4

(* A part of the window with that branch closed.                           *)
ClosedPart(j, t, m, n) ==
  /\ Len(SubSeq(PW!Settled(Window, j), m + 1, n)) = n - m
  /\ SubSeq(PW!Settled(Window, j), m + 1, n) =
       [k \in 1 .. n - m |-> Item(ResolveEntry(entry[Wrap(head, m + k - 1)], t))]

(* Settling the place of t and resolving t show the same.                  *)
LEMMA SettledPart ==
  ASSUME TypeOK, RobWindow, NEW t \in Tag \cup {NoTag}, NEW j, IsPlace(j, t),
         NEW m \in 0 .. NumRob - robFree, NEW n \in m .. NumRob - robFree
  PROVE  ClosedPart(j, t, m, n)
<1> DEFINE c == NumRob - robFree
           F(k) == Item(ResolveEntry(entry[Wrap(head, k - 1)], t))
           w == PW!Settled(Window, j)
           S == {F(k) : k \in 1 .. c}
<1>1. c \in 0 .. NumRob /\ m \in 0 .. c /\ n \in m .. c
  BY DEF TypeOK
<1>2. Window = [k \in 1 .. c |-> Item(entry[Wrap(head, k - 1)])]
  BY WindowIs DEF WindowOf
<1>3. ASSUME NEW k \in 1 .. c
      PROVE  entry[Wrap(head, k - 1)] \in RobEntry
  <2>1. k - 1 \in 0 .. NumRob - 1 /\ k - 1 < c
    BY <1>1
  <2>2. Wrap(head, k - 1) \in Idx /\ Age(Wrap(head, k - 1)) = k - 1
    BY <2>1, AgeFacts DEF TypeOK
  <2>3. Wrap(head, k - 1) \in Valid
    BY <2>1, <2>2 DEF RobWindow
  <2> QED BY <2>2, <2>3 DEF Valid, TypeOK
<1>4. ASSUME NEW k \in 1 .. c PROVE w[k] = F(k)
  <2>1. w[k] = IF k = j THEN [Window[k] EXCEPT !.open = FALSE] ELSE Window[k]
    BY <1>2 DEF PW!Settled
  <2>2. Window[k] = Item(entry[Wrap(head, k - 1)])
    BY <1>2
  <2>3. Resolves(entry[Wrap(head, k - 1)], t) <=> k = j
    BY DEF IsPlace
  <2> QED BY <2>1, <2>2, <2>3, <1>3, ResolveItem
<1>5. w \in [1 .. c -> S]
  <2>1. w = [k \in 1 .. c |-> w[k]]
    BY <1>2 DEF PW!Settled
  <2>2. \A k \in 1 .. c : w[k] \in S
    BY <1>4
  <2> HIDE DEF w, S
  <2> QED BY <2>1, <2>2
<1> HIDE DEF w, S
<1>6. w \in Seq(S) /\ Len(w) = c
  BY <1>1, <1>5
<1>7. /\ Len(SubSeq(w, m + 1, n)) = n - m
      /\ SubSeq(w, m + 1, n) = [k \in 1 .. n - m |-> w[m + k]]
  BY <1>1, <1>6, SubSeqFun
<1>8. \A k \in 1 .. n - m : w[m + k] = F(m + k)
  BY <1>1, <1>4
<1> HIDE DEF F
<1>9. SubSeq(w, m + 1, n) = [k \in 1 .. n - m |-> F(m + k)]
  BY <1>7, <1>8
<1> QED
  BY <1>7, <1>9 DEF w, F, ClosedPart
-----------------------------------------------------------------------------
(***************************************************************************)
(* An edge without recovery is Advance.                                    *)
(***************************************************************************)

(* The length of the window and its writers.                               *)
LEMMA WindowFacts ==
  ASSUME TypeOK, RobWindow
  PROVE  /\ NumRob - robFree \in 0 .. NumRob /\ head \in Idx
         /\ Len(Window) = NumRob - robFree /\ DOMAIN Window = 1 .. NumRob - robFree
         /\ LiveWriters = WritersIn(entry, head, NumRob - robFree)
         /\ \A k \in 1 .. NumRob - robFree :
              /\ Window[k] = Item(entry[Wrap(head, k - 1)])
              /\ Wrap(head, k - 1) \in Valid /\ Age(Wrap(head, k - 1)) = k - 1
<1> DEFINE c == NumRob - robFree
<1>1. c \in 0 .. NumRob /\ head \in Idx /\ Valid = {i \in Idx : Age(i) < c}
  <2>1. c \in 0 .. NumRob /\ head \in Idx
    BY DEF TypeOK
  <2>2. Valid = {i \in Idx : Age(i) < c}
    BY DEF RobWindow
  <2> QED BY <2>1, <2>2
<1>2. \A k \in 0 .. NumRob - 1 : Wrap(head, k) \in Idx /\ Age(Wrap(head, k)) = k
  BY <1>1, AgeFacts
<1>3. Window = WindowOf(entry, head, c)
  BY WindowIs
<1> HIDE DEF c
<1>4. c \in Nat /\ 0 \in 0 .. c
  BY <1>1
<1>5. Len(Window) = c
  BY <1>3, <1>4, WindowPrefix
<1>6. DOMAIN Window = 1 .. c /\ \A k \in 1 .. c : Window[k] = Item(entry[Wrap(head, k - 1)])
  BY <1>3 DEF WindowOf
<1>7. ASSUME NEW k \in 1 .. c
      PROVE  Wrap(head, k - 1) \in Valid /\ Age(Wrap(head, k - 1)) = k - 1
  <2>1. k - 1 \in 0 .. NumRob - 1 /\ k - 1 < c
    BY <1>1
  <2> QED BY <2>1, <1>1, <1>2
<1>8. LiveWriters = WritersIn(entry, head, c)
  BY <1>1 DEF LiveWriters, WritersIn, Age
<1> QED
  BY <1>1, <1>5, <1>6, <1>7, <1>8 DEF c

(* The branch that resolves was open.                                      *)
LEMMA PlaceOpen ==
  ASSUME TypeOK, RobWindow, NEW t \in Tag \cup {NoTag}, NEW j, IsPlace(j, t), j # 0
  PROVE  Window[j].open
<1> DEFINE e == entry[Wrap(head, j - 1)]
<1>1. j \in 1 .. NumRob - robFree
  <2>1. NumRob - robFree \in Nat /\ j \in 0 .. NumRob - robFree
    BY WindowFacts DEF IsPlace
  <2> QED BY <2>1
<1>2. Window[j] = Item(e) /\ Resolves(e, t)
  BY <1>1, WindowFacts DEF IsPlace
<1> HIDE DEF e
<1>3. Item(e).open <=> e.tag # NoTag /\ ~e.resolved
  BY DEF Item
<1>4. Window[j].open = Item(e).open
  BY <1>2
<1> QED
  BY <1>2, <1>3, <1>4 DEF Resolves

(* What retires is closed, and moves into the committed map.               *)
LEMMA CycleRetires ==
  ASSUME TypeOK, RobWindow, MaskIsOlderBranches,
         NEW n \in 0 .. RetireWidth, NEW t \in Tag \cup {NoTag}, NEW limit, NEW g,
         Cycle(n, t, limit, g)
  PROVE  /\ n \in 0 .. NumRob - robFree
         /\ \A k \in 1 .. n : ~Window[k].open
         /\ commMap' = PW!ReplayOver(commMap, SubSeq(Window, 1, n))
<1> DEFINE c == NumRob - robFree
<1>1. n \in 0 .. c
  BY CycleShape
<1>2. /\ c \in 0 .. NumRob /\ head \in Idx
      /\ \A k \in 1 .. c : /\ Window[k] = Item(entry[Wrap(head, k - 1)])
                           /\ Wrap(head, k - 1) \in Valid /\ Age(Wrap(head, k - 1)) = k - 1
      /\ LiveWriters = WritersIn(entry, head, c)
  BY WindowFacts
<1>3. \A i \in Idx : Age(i) < n => entry[i].complete
  BY CycleShape
<1> HIDE DEF c
<1>4. ASSUME NEW k \in 1 .. n PROVE ~Window[k].open
  <2> DEFINE i == Wrap(head, k - 1)
  <2>1. /\ k \in 1 .. c /\ k - 1 < n
    BY <1>1, <1>2
  <2>2. i \in Valid /\ i \in Idx /\ Age(i) < n /\ Window[k] = Item(entry[i])
    BY <2>1, <1>2 DEF Valid
  <2> HIDE DEF i
  <2>3. entry[i].tag # NoTag => entry[i].resolved
    BY <2>2, <1>3 DEF MaskIsOlderBranches
  <2>4. Window[k].open <=> entry[i].tag # NoTag /\ ~entry[i].resolved
    <3> DEFINE e == entry[i]
    <3>1. Item(e).open <=> e.tag # NoTag /\ ~e.resolved
      BY DEF Item
    <3> HIDE DEF e
    <3>2. Window[k].open = Item(e).open
      BY <2>2 DEF e
    <3> QED BY <3>1, <3>2 DEF e
  <2> QED BY <2>3, <2>4
<1>5. Leaving(n) = WritersIn(entry, head, n)
  <2>1. \A i \in Idx : Age(i) \in 0 .. NumRob - 1
    BY <1>2, AgeFacts
  <2>2. \A i \in Idx : Age(i) < n => Age(i) < c
    BY <2>1, <1>1, <1>2
  <2> QED BY <2>2, <1>2 DEF Leaving, WritersIn, Age
<1>6. SubSeq(Window, 1, n) = WindowOf(entry, head, n)
  <2>1. c \in Nat /\ Window = WindowOf(entry, head, c)
    BY <1>2, WindowIs DEF c
  <2> QED BY <2>1, <1>1, WindowPrefix
<1>7. commMap' = ReplayOn(commMap, entry, head, Leaving(n))
  BY CycleCommits
<1>8. n \in 0 .. NumRob
  BY <1>1, <1>2
<1> QED
  BY <1>1, <1>2, <1>4, <1>5, <1>6, <1>7, <1>8, ReplaySeq DEF c

(* What stays is the rest of the window, with the resolved branch closed.  *)
LEMMA CycleKeeps ==
  ASSUME TypeOK, RobWindow,
         NEW n \in 0 .. RetireWidth, NEW t \in Tag \cup {NoTag}, NEW limit, NEW g,
         Cycle(n, t, limit, g), NEW j, IsPlace(j, t)
  PROVE  LET kept == SubSeq(PW!Settled(Window, j), n + 1, Len(Window))
         IN  /\ Len(kept) = NumRob - robFree - n
             /\ Len(Window') >= Len(kept)
             /\ Len(Window') = NumRob - robFree'
             /\ SubSeq(Window', 1, Len(kept)) = kept
<1> DEFINE c == NumRob - robFree
           d == NumRob - robFree'
           kept == SubSeq(PW!Settled(Window, j), n + 1, c)
           F(k) == Item(ResolveEntry(entry[Wrap(head, n + k - 1)], t))
<1>1. /\ c \in 0 .. NumRob /\ head \in Idx /\ Len(Window) = c
  BY WindowFacts
<1>2. /\ n \in 0 .. c /\ d \in c - n .. NumRob /\ head' \in Idx
      /\ \A i \in Idx : Age(i)' = IF Age(i) >= n THEN Age(i) - n ELSE Age(i) - n + NumRob
      /\ \A i \in Idx : n <= Age(i) /\ Age(i) < c => entry'[i] = ResolveEntry(entry[i], t)
  <2>1. /\ n \in 0 .. c /\ head' \in Idx
        /\ \A i \in Idx : Age(i)' = IF Age(i) >= n THEN Age(i) - n ELSE Age(i) - n + NumRob
        /\ \A i \in Idx : n <= Age(i) /\ Age(i) < c => entry'[i] = ResolveEntry(entry[i], t)
    BY CycleShape
  <2> DEFINE m == Cardinality(Accepted(limit))
  <2>2. m \in 0 .. robFree /\ robFree' = NumRob - (c - n + m)
    BY CycleShape
  <2>3. d \in c - n .. NumRob
    <3>1. robFree \in 0 .. NumRob /\ c = NumRob - robFree
      BY DEF TypeOK
    <3> HIDE DEF m, c
    <3>2. d = c - n + m
      BY <2>1, <2>2, <3>1
    <3> HIDE DEF d
    <3> QED BY <2>1, <2>2, <3>1, <3>2
  <2> QED BY <2>1, <2>3
<1>8. \A i \in Idx : AgeFrom(head', i) = IF Age(i) >= n THEN Age(i) - n
                                          ELSE Age(i) - n + NumRob
  BY <1>2 DEF Age
<1>3. Len(kept) = c - n /\ kept = [k \in 1 .. c - n |-> F(k)]
  <2>1. n \in 0 .. c /\ c \in n .. c
    BY <1>1, <1>2
  <2>2. ClosedPart(j, t, n, c)
    BY <2>1, SettledPart
  <2> QED BY <2>2 DEF ClosedPart
<1>4. /\ Len(Window') = d
      /\ SubSeq(Window', 1, c - n) = WindowOf(entry', head', c - n)
  <2>1. Window' = WindowOf(entry', head', d)
    BY WindowIs
  <2>2. d \in Nat /\ c - n \in 0 .. d
    BY <1>1, <1>2
  <2> HIDE DEF d
  <2> QED BY <2>1, <2>2, WindowPrefix
<1> HIDE DEF c, d, kept
<1>5. ASSUME NEW k \in 1 .. c - n PROVE Item(entry'[Wrap(head', k - 1)]) = F(k)
  <2> DEFINE i == Wrap(head, n + k - 1)
  <2>0. n \in 0 .. c /\ c \in 0 .. NumRob
    BY <1>1, <1>2
  <2>1. n + k - 1 \in 0 .. NumRob - 1 /\ n + k - 1 < c /\ n + k - 1 >= n /\ n + k - 1 - n = k - 1
    BY <2>0
  <2>2. i \in Idx /\ Age(i) = n + k - 1
    BY <2>1, <1>1, AgeFacts
  <2> HIDE DEF i
  <2>3. entry'[i] = ResolveEntry(entry[i], t)
    BY <2>1, <2>2, <1>2
  <2>4. AgeFrom(head', i) = k - 1
    BY <2>1, <2>2, <1>8
  <2>5. Wrap(head', k - 1) = i
    BY <2>2, <2>4, <1>2, AgeFromFacts
  <2> QED BY <2>3, <2>5 DEF i
<1> HIDE DEF F
<1>6. WindowOf(entry', head', c - n) = kept
  BY <1>3, <1>5 DEF WindowOf
<1>7. d >= c - n
  BY <1>1, <1>2
<1> QED
  BY <1>1, <1>3, <1>4, <1>6, <1>7 DEF c, d, kept
(* The same behind the edge.                                               *)
LEMMA WindowNext ==
  ASSUME TypeOK', RobWindow'
  PROVE  /\ NumRob - robFree' \in 0 .. NumRob /\ head' \in Idx
         /\ Valid' = {i \in Idx : AgeFrom(head', i) < NumRob - robFree'}
         /\ LiveWriters' = WritersIn(entry', head', NumRob - robFree')
         /\ \A i \in Idx : Older(i)' = {x \in LiveWriters' : AgeFrom(head', x) < AgeFrom(head', i)}
         /\ \A k \in 1 .. NumRob - robFree' :
              /\ Window'[k] = Item(entry'[Wrap(head', k - 1)])
              /\ Wrap(head', k - 1) \in Valid'
              /\ AgeFrom(head', Wrap(head', k - 1)) = k - 1
<1> DEFINE c == NumRob - robFree'
<1>1. c \in 0 .. NumRob /\ head' \in Idx
  <2>1. robFree' \in 0 .. NumRob /\ head' \in Idx
    BY DEF TypeOK
  <2>2. \A r \in 0 .. NumRob : NumRob - r \in 0 .. NumRob
    OBVIOUS
  <2> QED BY <2>1, <2>2
<1>2. Valid' = {i \in Idx : AgeFrom(head', i) < c}
  BY DEF RobWindow, Age
<1>3. \A k \in 0 .. NumRob - 1 : Wrap(head', k) \in Idx /\ AgeFrom(head', Wrap(head', k)) = k
  BY <1>1, AgeFromFacts
<1>4. Window' = WindowOf(entry', head', c)
  BY WindowIs
<1> HIDE DEF c
<1>5. \A k \in 1 .. c : Window'[k] = Item(entry'[Wrap(head', k - 1)])
  BY <1>4 DEF WindowOf
<1>6. ASSUME NEW k \in 1 .. c
      PROVE  /\ Wrap(head', k - 1) \in Valid'
             /\ AgeFrom(head', Wrap(head', k - 1)) = k - 1
  <2>1. k - 1 \in 0 .. NumRob - 1 /\ k - 1 < c
    BY <1>1
  <2> QED BY <2>1, <1>2, <1>3
<1>7. LiveWriters' = WritersIn(entry', head', c)
  BY <1>2 DEF LiveWriters, WritersIn
<1>8. \A i \in Idx : Older(i)' = {x \in LiveWriters' : AgeFrom(head', x) < AgeFrom(head', i)}
  BY DEF Older, Age
<1> QED
  BY <1>1, <1>2, <1>5, <1>6, <1>7, <1>8 DEF c

(* The maps are the replays of the window behind the edge.                 *)
LEMMA NextMaps ==
  ASSUME TypeOK', RobWindow', NamesInv'
  PROVE  specMap' = PW!ReplayOver(commMap', Window')
<1>1. /\ NumRob - robFree' \in 0 .. NumRob /\ head' \in Idx
      /\ LiveWriters' = WritersIn(entry', head', NumRob - robFree')
  BY WindowNext
<1>2. specMap' = ReplayOn(commMap', entry', head', LiveWriters')
  <2>1. specMap' = Replay(LiveWriters)'
    BY DEF NamesInv, NamesReplayed
  <2> QED BY <2>1 DEF Replay, ReplayOn, Age
<1> QED
  BY <1>1, <1>2, WindowIs, ReplaySeq

(* An appended instruction reads the nearest older writer, and takes a     *)
(* name that nobody held or holds.                                         *)
Appends(k) ==
  LET older == SubSeq(Window', 1, k - 1)
  IN  /\ Window'[k].src = PW!ReplayOver(commMap', older)[Window'[k].rs]
      /\ Window'[k].wen =>
           Window'[k].new \notin PW!Held(commMap, Window) \cup PW!Held(commMap', older)

(* Every lane accepted on the edge appends such an instruction.            *)
LEMMA CycleAppends ==
  ASSUME TypeOK, RobWindow, NamesInv, TypeOK', RobWindow', NamesInv',
         NEW n \in 0 .. RetireWidth, NEW t \in Tag \cup {NoTag}, NEW limit, NEW g,
         Cycle(n, t, limit, g),
         NEW k \in NumRob - robFree - n + 1 .. NumRob - robFree'
  PROVE  Appends(k)
<1> DEFINE acc == Accepted(limit)
           c == NumRob - robFree
           d == NumRob - robFree'
           older == SubSeq(Window', 1, k - 1)
           O == WritersIn(entry', head', k - 1)
<1>1. /\ c \in 0 .. NumRob /\ head \in Idx /\ n \in 0 .. c /\ n \in Int
      /\ Window = WindowOf(entry, head, c)
      /\ LiveWriters = WritersIn(entry, head, c)
  BY WindowFacts, WindowIs, CycleRetires, CycleShape
<1>2. /\ d \in 0 .. NumRob /\ head' \in Idx
      /\ Window' = WindowOf(entry', head', d)
      /\ Valid' \subseteq Idx
      /\ Valid' = {x \in Idx : AgeFrom(head', x) < d}
      /\ LiveWriters' = WritersIn(entry', head', d)
      /\ \A x \in Idx : Older(x)' = {y \in LiveWriters' : AgeFrom(head', y) < AgeFrom(head', x)}
  BY WindowNext, WindowIs
<1>3. k \in 1 .. d /\ k - 1 \in 0 .. d /\ k - 1 \in 0 .. NumRob /\ k - 1 >= c - n
  <2>1. c \in Int /\ d \in Int /\ n \in Int /\ k \in c - n + 1 .. d /\ c - n >= 0
    BY <1>1, <1>2
  <2> HIDE DEF c, d
  <2> QED BY <2>1, <1>2
<1>4. PICK i \in Idx : /\ Window'[k] = Item(entry'[i])
                      /\ i \in Valid' /\ AgeFrom(head', i) = k - 1
  BY <1>2, <1>3, WindowNext
<1> HIDE DEF c, d
<1>5. older = WindowOf(entry', head', k - 1)
  BY <1>2, <1>3, WindowPrefix
<1> HIDE DEF older
<1>6. Older(i)' = O
  <2>1. Older(i)' = {y \in LiveWriters' : AgeFrom(head', y) < k - 1}
    BY <1>2, <1>4
  <2>2. \A x \in Idx : AgeFrom(head', x) \in 0 .. NumRob - 1
    BY <1>2, AgeFromFacts
  <2>3. \A x \in Idx : AgeFrom(head', x) < k - 1 => AgeFrom(head', x) < d
    BY <2>2, <1>2, <1>3
  <2> QED BY <2>1, <2>3, <1>2 DEF WritersIn
<1>7. /\ PW!ReplayOver(commMap', older) = ReplayOn(commMap', entry', head', O)
      /\ PW!Held(commMap', older) = MapRange(commMap') \cup News(entry', O)
      /\ PW!Held(commMap, Window) = MapRange(commMap) \cup News(entry, LiveWriters)
  <2>1. PW!ReplayOver(commMap', older) = ReplayOn(commMap', entry', head', O)
    BY <1>2, <1>3, <1>5, ReplaySeq
  <2>2. PW!Held(commMap', older) = MapRange(commMap') \cup News(entry', O)
    BY <1>2, <1>3, <1>5, HeldSeq
  <2>3. PW!Held(commMap, Window) = MapRange(commMap) \cup News(entry, LiveWriters)
    BY <1>1, HeldSeq
  <2> QED BY <2>1, <2>2, <2>3
<1> HIDE DEF O
<1>8. entry'[i].src = ReplayOn(commMap', entry', head', O)[entry'[i].rs]
  <2>1. entry'[i].src = Replay(Older(i))'[entry'[i].rs]
    BY <1>4 DEF NamesInv, NamesReplayed
  <2>2. Replay(Older(i))' = ReplayOn(commMap', entry', head', Older(i)')
    BY DEF Replay, ReplayOn, Age
  <2> QED BY <2>1, <2>2, <1>6
<1>9. ASSUME Demand(entry'[i])
      PROVE  /\ entry'[i].new \notin MapRange(commMap')
             /\ entry'[i].new \notin News(entry', O)
             /\ entry'[i].new \notin MapRange(commMap) \cup News(entry, LiveWriters)
  <2>1. i \in LiveWriters'
    BY <1>4, <1>9 DEF LiveWriters
  <2>2. /\ \A x, y \in LiveWriters' : entry'[x].new = entry'[y].new => x = y
        /\ \A x \in LiveWriters' : entry'[x].new \notin MapRange(commMap')
    BY DEF NamesInv, NamesDistinct, MapRange
  <2>3. O \subseteq LiveWriters' /\ i \notin O
    <3>1. O = {y \in LiveWriters' : AgeFrom(head', y) < AgeFrom(head', i)}
      BY <1>2, <1>6
    <3>2. ~(k - 1 < k - 1)
      BY <1>3
    <3> QED BY <3>1, <3>2, <1>4
  <2>4. entry'[i].new \notin News(entry', O)
    BY <2>1, <2>2, <2>3 DEF News
  <2>5. PICK s \in Joining(acc) : i = RobIdx(s)
    <3>1. /\ Valid' = Staying(n) \cup Places(acc)
          /\ LiveWriters' = Kept(n) \cup Places(Joining(acc))
          /\ Kept(n) \subseteq Staying(n) /\ Staying(n) \subseteq Valid
      BY CycleOrder, CycleWriters
    <3>2. i \notin Staying(n)
      <4>1. SUFFICES ASSUME i \in Staying(n) PROVE FALSE
        OBVIOUS
      <4>2. i \in Idx /\ n <= Age(i) /\ Age(i) < c /\ Age(i) \in Int
        <5>1. \A x \in Idx : Age(x) \in 0 .. NumRob - 1
          BY <1>1, AgeFacts
        <5>2. Valid = {x \in Idx : Age(x) < c}
          BY DEF RobWindow, c
        <5> QED BY <4>1, <5>1, <5>2, <3>1 DEF Staying
      <4>3. Age(i)' = Age(i) - n
        BY <4>2, CycleShape
      <4>4. Age(i)' = k - 1
        BY <1>4 DEF Age
      <4> QED BY <4>2, <4>3, <4>4, <1>1, <1>3
    <3> QED BY <2>1, <3>1, <3>2 DEF Places
  <2>6. s \in acc
    BY DEF Joining
  <2>7. entry'[i].new = NewPreg(acc, s)
    BY <2>5, <2>6, CycleWriters
  <2>8. NewPreg(acc, s) \in Avail
    BY AllocFacts
  <2>9. entry'[i].new \in free
    BY <2>7, <2>8 DEF Avail
  <2>10. free = Preg \ (MapRange(commMap) \cup News(entry, LiveWriters))
    BY DEF NamesInv, FreeIsRest, LiveNew, News
  <2> QED BY <2>1, <2>2, <2>4, <2>9, <2>10
<1>10. /\ Window'[k].src = entry'[i].src /\ Window'[k].rs = entry'[i].rs
       /\ Window'[k].new = entry'[i].new
       /\ Window'[k].wen <=> Demand(entry'[i])
  <2> DEFINE e == entry'[i]
  <2>1. /\ Item(e).src = e.src /\ Item(e).rs = e.rs /\ Item(e).new = e.new
        /\ Item(e).wen <=> Demand(e)
    BY DEF Item
  <2> HIDE DEF e
  <2>2. Window'[k] = Item(e)
    BY <1>4 DEF e
  <2>3. Window'[k].wen = Item(e).wen
    BY <2>2
  <2> QED BY <2>1, <2>2, <2>3 DEF e
<1> QED
  BY <1>7, <1>8, <1>9, <1>10 DEF Appends, older
(* Together: retirement, resolution and allocation on one edge.            *)
LEMMA CycleAdvance ==
  ASSUME RingInv, NamesInv, RingInv', NamesInv',
         NEW n \in 0 .. RetireWidth, NEW t \in Tag \cup {NoTag}, NEW limit, NEW g,
         Cycle(n, t, limit, g)
  PROVE  PW!Advance
<1>0. /\ TypeOK /\ RobWindow /\ MaskIsOlderBranches
      /\ TypeOK' /\ RobWindow'
  BY DEF RingInv
<1>1. PICK j : /\ IsPlace(j, t) /\ (j = 0 <=> t = NoTag)
               /\ j # 0 => /\ Owns(Wrap(head, j - 1), t)
                           /\ Wrap(head, j - 1) \in Valid
  <2>1. t = NoTag \/ Unresolved(t)
    BY DEF Cycle
  <2> QED BY <1>0, <2>1, PlaceExists
<1>2. /\ n \in 0 .. Len(Window) /\ j \in 0 .. Len(Window)
      /\ Len(Window) = NumRob - robFree
  BY <1>0, <1>1, WindowFacts, CycleRetires DEF IsPlace
<1>3. /\ \A k \in 1 .. n : ~Window[k].open
      /\ commMap' = PW!ReplayOver(commMap, SubSeq(Window, 1, n))
  BY <1>0, CycleRetires
<1>4. ASSUME j # 0 PROVE Window[j].open
  BY <1>0, <1>1, <1>4, PlaceOpen
<1> DEFINE kept == SubSeq(PW!Settled(Window, j), n + 1, Len(Window))
<1>5. /\ Len(kept) = NumRob - robFree - n
      /\ Len(Window') >= Len(kept)
      /\ Len(Window') = NumRob - robFree'
      /\ SubSeq(Window', 1, Len(kept)) = kept
  BY <1>0, <1>1, CycleKeeps
<1>6. \A k \in NumRob - robFree - n + 1 .. NumRob - robFree' : Appends(k)
  BY <1>0, CycleAppends
<1>7. specMap' = PW!ReplayOver(commMap', Window')
  BY <1>0, NextMaps
<1> HIDE DEF kept
<1>8. \A k \in Len(kept) + 1 .. Len(Window') :
        LET older == SubSeq(Window', 1, k - 1)
        IN  /\ Window'[k].src = PW!ReplayOver(commMap', older)[Window'[k].rs]
            /\ Window'[k].wen =>
                 Window'[k].new \notin PW!Held(commMap, Window) \cup PW!Held(commMap', older)
  BY <1>5, <1>6 DEF Appends
<1> QED
  BY <1>2, <1>3, <1>4, <1>5, <1>7, <1>8 DEF PW!Advance, kept

-----------------------------------------------------------------------------
(***************************************************************************)
(* Recovery is Cut or Restart; a completion is not seen.                   *)
(***************************************************************************)

(* A kill by mask cuts the window right behind its branch.                 *)
LEMMA MispredictCut ==
  ASSUME RingInv, NamesInv, RingInv', NamesInv', NEW t \in Tag, Mispredict(t)
  PROVE  PW!Cut
<1>0. /\ TypeOK /\ RobWindow /\ MaskIsOlderBranches
      /\ TypeOK' /\ RobWindow' /\ t # NoTag
  BY SentinelAssumption DEF RingInv
<1>1. PICK j : /\ IsPlace(j, t) /\ j # 0
               /\ Owns(Wrap(head, j - 1), t) /\ Wrap(head, j - 1) \in Valid
               /\ Age(Wrap(head, j - 1)) = j - 1
  <2>1. Unresolved(t)
    BY DEF Mispredict
  <2> QED BY <1>0, <2>1, PlaceExists
<1> DEFINE o == Wrap(head, j - 1)
           c == NumRob - robFree
<1>2. /\ Len(Window) = c /\ c \in 0 .. NumRob /\ j \in 1 .. c
      /\ head \in Idx /\ head' = head /\ commMap' = commMap
  BY <1>0, <1>1, WindowFacts DEF IsPlace, Mispredict
<1>3. Window[j].open
  BY <1>0, <1>1, PlaceOpen
<1>4. /\ Valid' = {i \in Valid : t \notin entry[i].mask} /\ t \in cpValid
      /\ \A i \in Valid : i \notin Killed(t) => entry'[i] = ResolveEntry(entry[i], t)
      /\ \A i \in Valid : i \notin Killed(t) <=> t \notin entry[i].mask
  <2>1. \A i \in Valid : i \notin Killed(t) => entry'[i] = ResolveEntry(entry[i], t)
    BY DEF Mispredict, Valid
  <2>2. \A i \in Valid : i \notin Killed(t) <=> t \notin entry[i].mask
    BY DEF Killed
  <2> QED BY <2>1, <2>2, <1>0, MispredictShape
<1>5. \A i \in Valid : t \in entry[i].mask <=> Age(o) < Age(i)
  BY <1>0, <1>1, <1>4 DEF MaskIsOlderBranches
<1>6. /\ Valid = {i \in Idx : Age(i) < c}
      /\ \A i \in Idx : Age(i) \in 0 .. NumRob - 1
      /\ \A k \in 0 .. NumRob - 1 : Wrap(head, k) \in Idx /\ Age(Wrap(head, k)) = k
  BY <1>0, <1>2, AgeFacts DEF RobWindow
<1> HIDE DEF c
<1>7. \A i \in Idx : i \in Valid /\ t \notin entry[i].mask <=> Age(i) < j
  BY <1>1, <1>2, <1>5, <1>6
<1>8. NumRob - robFree' = j
  <2>1. Valid' = {i \in Idx : AgeFrom(head, i) < j}
    BY <1>4, <1>6, <1>7 DEF Age
  <2>2. Cardinality(Valid') = j
    <3>1. j \in 0 .. NumRob
      BY <1>2
    <3>2. Cardinality({i \in Idx : AgeFrom(head, i) < j}) = j
      BY <3>1, <1>2, WindowCard
    <3> QED BY <3>2, <2>1
  <2>3. robFree' = NumRob - Cardinality(Valid')
    BY <1>0 DEF RobWindow
  <2> QED BY <2>2, <2>3, <1>2
<1>9. Window' = SubSeq(PW!Settled(Window, j), 1, j)
  <2>1. ClosedPart(j, t, 0, j)
    BY <1>0, <1>1, <1>2, SettledPart DEF c
  <2>2. SubSeq(PW!Settled(Window, j), 1, j) =
          [k \in 1 .. j |-> Item(ResolveEntry(entry[Wrap(head, k - 1)], t))]
    <3>1. SubSeq(PW!Settled(Window, j), 0 + 1, j) =
            [k \in 1 .. j - 0 |-> Item(ResolveEntry(entry[Wrap(head, 0 + k - 1)], t))]
      BY <2>1 DEF ClosedPart
    <3>2. j \in Int
      BY <1>2
    <3> QED BY <3>1, <3>2
  <2>3. Window' = [k \in 1 .. j |-> Item(entry'[Wrap(head, k - 1)])]
    BY <1>2, <1>8, WindowIs DEF WindowOf
  <2>4. ASSUME NEW k \in 1 .. j
        PROVE  entry'[Wrap(head, k - 1)] = ResolveEntry(entry[Wrap(head, k - 1)], t)
    <3>1. k - 1 \in 0 .. NumRob - 1 /\ k - 1 < j
      BY <1>2
    <3>2. Wrap(head, k - 1) \in Idx /\ Age(Wrap(head, k - 1)) < j
      BY <3>1, <1>6
    <3> QED BY <3>2, <1>4, <1>7
  <2> QED BY <2>2, <2>3, <2>4
<1>10. specMap' = PW!ReplayOver(commMap, Window')
  BY <1>0, <1>2, NextMaps
<1>11. j \in 1 .. Len(Window)
  BY <1>2
<1> QED
  BY <1>2, <1>3, <1>9, <1>10, <1>11 DEF PW!Cut

(* A flush empties the window over the committed map.                      *)
LEMMA FlushRestart ==
  ASSUME Flush
  PROVE  PW!Restart
<1>1. specMap' = commMap /\ commMap' = commMap /\ robFree' = NumRob
  BY DEF Flush
<1>2. Window' = <<>>
  <2>1. NumRob - robFree' = 0 /\ 1 .. 0 = {}
    BY <1>1
  <2>2. Window' = [k \in 1 .. 0 |-> Item(entry'[Wrap(head', k - 1)])]
    BY <2>1, WindowIs DEF WindowOf
  <2> QED BY <2>1, <2>2
<1> QED
  BY <1>1, <1>2 DEF PW!Restart

(* The window does not show completion.                                    *)
LEMMA CompleteHidden ==
  ASSUME TypeOK, RobWindow, NEW i \in Idx, Complete(i)
  PROVE  UNCHANGED PW!pwVars
<1>1. /\ entry' = [entry EXCEPT ![i].complete = TRUE] /\ entry[i] \in RobEntry
      /\ specMap' = specMap /\ commMap' = commMap /\ head' = head /\ robFree' = robFree
  BY DEF Complete, mapVars, TypeOK
<1>2. ASSUME NEW x \in Idx PROVE Item(entry'[x]) = Item(entry[x])
  <2>1. CASE x # i
    BY <2>1, <1>1 DEF TypeOK
  <2>2. CASE x = i
    <3> DEFINE e == entry[i]
               f == [e EXCEPT !.complete = TRUE]
    <3>1. entry'[x] = f
      BY <2>2, <1>1 DEF TypeOK
    <3>2. /\ f.wen = e.wen /\ f.rd = e.rd /\ f.new = e.new /\ f.rs = e.rs
          /\ f.src = e.src /\ f.tag = e.tag /\ f.resolved = e.resolved
      BY <1>1 DEF RobEntry
    <3> HIDE DEF f
    <3>3. Item(f) = Item(e)
      BY <3>2 DEF Item, Demand
    <3> QED BY <3>1, <3>3, <2>2
  <2> QED BY <2>1, <2>2
<1>3. Window' = Window
  <2>1. /\ NumRob - robFree \in 0 .. NumRob
        /\ \A k \in 1 .. NumRob - robFree : Wrap(head, k - 1) \in Idx
    BY WindowFacts DEF Valid
  <2> QED BY <2>1, <1>1, <1>2, WindowIs DEF WindowOf
<1> QED
  BY <1>1, <1>3 DEF PW!pwVars

-----------------------------------------------------------------------------
(***************************************************************************)
(* The refinement.                                                         *)
(***************************************************************************)
(* Reset shows an empty window.                                            *)
LEMMA InitWindow == Init => PW!PWInit
<1> SUFFICES ASSUME Init PROVE PW!PWInit
  OBVIOUS
<1>1. /\ specMap = [a \in Arch |-> a] /\ commMap = [a \in Arch |-> a] /\ robFree = NumRob
  BY DEF Init
<1>2. Arch \subseteq Preg
  BY DEF Arch, Preg
<1>3. Window = <<>>
  <2>1. NumRob - robFree = 0 /\ 1 .. 0 = {}
    BY <1>1
  <2>2. Window = [k \in 1 .. 0 |-> Item(entry[Wrap(head, k - 1)])]
    BY <2>1, WindowIs DEF WindowOf
  <2> QED BY <2>1, <2>2
<1> QED
  BY <1>1, <1>2, <1>3 DEF PW!PWInit

(* Every step is a step of the window or is not seen.                      *)
LEMMA NextWindow ==
  RingInv /\ NamesInv /\ RingInv' /\ NamesInv' /\ [Next]_vars
    => [PW!PWNext]_(PW!pwVars)
<1> SUFFICES ASSUME RingInv, NamesInv, RingInv', NamesInv', [Next]_vars
             PROVE  PW!PWNext \/ UNCHANGED PW!pwVars
  OBVIOUS
<1>1. ASSUME NEW n \in 0 .. RetireWidth, NEW t \in Tag \cup {NoTag}, NEW limit, NEW g,
             Cycle(n, t, limit, g)
      PROVE  PW!PWNext
  BY <1>1, CycleAdvance DEF PW!PWNext
<1>2. ASSUME NEW t \in Tag, Mispredict(t) PROVE PW!PWNext
  BY <1>2, MispredictCut DEF PW!PWNext
<1>3. CASE Flush
  BY <1>3, FlushRestart DEF PW!PWNext
<1>4. ASSUME NEW i \in Idx, Complete(i) PROVE UNCHANGED PW!pwVars
  BY <1>4, CompleteHidden DEF RingInv
<1>5. CASE UNCHANGED vars
  <2>1. /\ specMap' = specMap /\ commMap' = commMap
        /\ head' = head /\ robFree' = robFree /\ entry' = entry
    BY <1>5 DEF vars, mapVars, robVars
  <2> QED BY <2>1, WindowIs DEF PW!pwVars
<1> QED
  BY <1>1, <1>2, <1>3, <1>4, <1>5 DEF Next

(* For every configuration: free list, map table, checkpoints, branch      *)
(* masks and the ring together behave like a program-order window over a   *)
(* committed map (rename_map_table.sv, free_list.sv, rob.sv,               *)
(* branch_checkpoint_file.sv).                                             *)
THEOREM RefinesProgramWindow == Spec => ImplementsProgramWindow
<1>1. Init => RingInv /\ NamesInv
  BY RingInit, NamesInit
<1>2. RingInv /\ NamesInv /\ [Next]_vars => RingInv' /\ NamesInv'
  BY RingNext, NamesNext
<1> QED
  BY <1>1, <1>2, InitWindow, NextWindow, PTL DEF Spec, ImplementsProgramWindow, PW!PWSpec
=============================================================================
