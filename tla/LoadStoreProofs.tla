-------------------------- MODULE LoadStoreProofs ---------------------------
(***************************************************************************)
(* The store queue and what memory shows of it, and the reservations of    *)
(* the result FIFO, for all sizes of ROB, queues and FIFO, all programs    *)
(* and every pattern of resolutions, flushes, replays and drains.          *)
(*                                                                         *)
(* The argument is about places in the store ring: counted from the head,  *)
(* the committed stores come first, then the stores of the ROB in program  *)
(* order, then free rows.  A recovery cuts ROB, ring and pipeline at one   *)
(* place although each of them reads the branch mask of its own records.   *)
(***************************************************************************)
EXTENDS LoadStore, CommonLemmas, TLAPS

(* A record is the function of its fields.                                 *)
RecordIs(e) == e = [x \in DOMAIN e |-> e[x]]
EntryFields == {"pc", "m", "iss", "done", "val", "q"}
OpFields    == {"op", "pc", "rob", "q", "gen", "m", "why", "snap", "conf", "tag", "val", "dec"}
PcsOfKind(op) == {p \in Pc : Op(p) = op}
StoreRow == [pc : PcsOfKind("st"), rob : 0 .. NumRob - 1, m : BOOLEAN, exec : BOOLEAN,
             committed : BOOLEAN, ready : BOOLEAN, wait : BOOLEAN]
Stores   == OfKind("st")

(* The row of a place of the ring; the place of a store of the ROB behind  *)
(* c committed ones.                                                       *)
RingRow(p)  == (sqHead + p) % NumSq
Place(c, k) == c + Cardinality(Below(Stores, k))

(* The ROB window.                                                         *)
RobForm ==
  /\ IsSequence(rob) /\ Len(rob) <= NumRob /\ head \in 0 .. NumRob - 1
  /\ fetch \in Pc \cup {0}
  /\ \A k \in DOMAIN rob :
       /\ DOMAIN rob[k] = EntryFields /\ RecordIs(rob[k]) /\ rob[k].pc \in Pc
       /\ rob[k].m \in BOOLEAN /\ rob[k].iss \in BOOLEAN /\ rob[k].done \in BOOLEAN

(* At most one branch is open, and what is behind it carries its tag.      *)
MaskForm ==
  /\ \A a, b \in OpenBranch : a = b
  /\ \A k \in DOMAIN rob : rob[k].m <=> \E b \in OpenBranch : b < k

(* The ring holds c committed stores and those of the ROB.                 *)
CommittedForm(c) ==
  \A p \in 0 .. NumSq - 1 : p < c =>
    /\ sq[RingRow(p)] \in StoreRow /\ sq[RingRow(p)].committed /\ ~sq[RingRow(p)].m
HeldForm(c) ==
  \A k \in Stores :
    LET e == sq[RingRow(Place(c, k))] IN
    /\ e \in StoreRow /\ ~e.committed /\ e.rob = Index(k) /\ e.pc = rob[k].pc
    /\ e.m <=> rob[k].m
    /\ rob[k].q = RingRow(Place(c, k))
    /\ e.ready \/ e.wait => rob[k].iss /\ ~rob[k].done
    /\ rob[k].done => rob[k].iss
FreeForm(c) ==
  \A p \in 0 .. NumSq - 1 : c + Cardinality(Stores) <= p => sq[RingRow(p)] = NoRow
CountForm(c) ==
  /\ c \in Nat /\ c + Cardinality(Stores) <= NumSq
  /\ sqHead \in 0 .. NumSq - 1 /\ DOMAIN sq = 0 .. NumSq - 1
  /\ sqCount = c + Cardinality(Stores) /\ sqTail = RingRow(sqCount)

(* The open branch has saved the tail in front of the stores behind it.    *)
SavedForm(c) == \A b \in OpenBranch : ck.sq = RingRow(Place(c, b))

(* A store in the pipe is one of the ROB that waits for it alone.          *)
Owns(k, j) ==
  /\ Index(j) = pipe[k].rob /\ rob[j].q = pipe[k].q
  /\ rob[j].iss /\ ~rob[j].done /\ (rob[j].m => pipe[k].m)
  /\ ~sq[rob[j].q].ready /\ ~sq[rob[j].q].wait
StoresInPipe == {k \in 1 .. 6 : pipe[k].op = "st"}
DrainsInPipe == {k \in 1 .. 6 : pipe[k].op = "drain"}
PipeForm ==
  /\ DOMAIN pipe = 1 .. 6
  /\ \A k \in 1 .. 6 : /\ DOMAIN pipe[k] = OpFields
                       /\ pipe[k].op \in {"none", "ld", "st", "drain", "install"}
OwnersForm ==
  /\ \A k \in StoresInPipe : \E j \in Stores : Owns(k, j)
  /\ \A k, l \in StoresInPipe : pipe[k].rob = pipe[l].rob => k = l
DrainForm(c) ==
  /\ \A k \in DrainsInPipe : c > 0 /\ pipe[k].pc = sq[sqHead].pc
  /\ \A k, l \in DrainsInPipe : k = l

(* Loads and their results have the pc of a load, or none yet.             *)
LoadPcs == PcsOfKind("ld") \cup {0}
LoadRow == [pc : LoadPcs, rob : 0 .. NumRob - 1, m : BOOLEAN, ready : BOOLEAN, exec : BOOLEAN,
            why : Reasons]
ResultFields == {"ok", "pc", "rob", "m", "val"}
RowsForm ==
  /\ DOMAIN lq = 0 .. NumLq - 1 /\ lqHead \in 0 .. NumLq - 1
  /\ \A n \in LqRows : lq[n] \in LoadRow
LoadOpsForm ==
  /\ \A k \in 1 .. 6 : pipe[k].op = "ld" =>
       pipe[k].pc \in LoadPcs /\ pipe[k].rob \in 0 .. NumRob - 1 /\ pipe[k].why \in Reasons
  /\ pipe[6].op = "ld" => pipe[6].dec \in Reasons \cup {"ok"}
ResultsForm ==
  /\ IsSequence(fifo)
  /\ \A k \in DOMAIN fifo : DOMAIN fifo[k] = ResultFields /\ fifo[k].pc \in LoadPcs
  /\ w1 # NoRow => w1.pc \in LoadPcs
LoadsForm == RowsForm /\ LoadOpsForm /\ ResultsForm

StoresAt(c) ==
  /\ CountForm(c) /\ CommittedForm(c) /\ HeldForm(c) /\ FreeForm(c)
  /\ SavedForm(c) /\ DrainForm(c)
StoreInv ==
  /\ RobForm /\ MaskForm /\ PipeForm /\ OwnersForm /\ LoadsForm
  /\ \E c \in 0 .. NumSq : StoresAt(c)


-----------------------------------------------------------------------------
(* What recovery leaves of the window, and the window before retirement.   *)
Alive(i)  == Cardinality(Survivors(i))
Window(i) == IF i.alloc THEN Alive(i) + 1 ELSE Alive(i)

(* The inputs of a cycle.                                                  *)
LEMMA InputsForm ==
  ASSUME NEW i \in Inputs
  PROVE  /\ i.flush \in BOOLEAN /\ i.alloc \in BOOLEAN /\ i.res \in {"none", "ok", "miss"}
         /\ i.res # "none" => OpenBranch # {}
         /\ i.alloc => Room
         /\ i.issue # 0 => i.issue \in DOMAIN rob /\ Op(rob[i.issue].pc) # "br" /\ ~rob[i.issue].iss
         /\ i.install # "none" => CanInstall /\ i.install \in {"M"} \cup Grants
BY DEF Inputs

(* Sizes.                                                                  *)
LEMMA Sizes ==
  /\ NumRob \in Nat \ {0} /\ NumLq \in Nat \ {0} /\ NumSq \in Nat \ {0} /\ Fifo \in Nat \ {0}
  /\ RetireWidth \in Nat \ {0} /\ RetireWidth < NumRob /\ Pc \subseteq Nat \ {0}
  /\ \A p \in Pc : Op(p) \in {"ld", "st", "br"} /\ Succ[p] \in Pc \cup {0} /\ Alt[p] \in Pc \cup {0}
BY LoadStoreSizes DEF Pc, Op

(* Retirement takes completed entries from the head, in a recovery none.   *)
LEMMA RetiredForm ==
  ASSUME RobForm, NEW i \in Inputs
  PROVE  /\ Retired(i) \in Nat /\ Retired(i) <= Len(rob) /\ Retired(i) <= RetireWidth
         /\ \A k \in 1 .. Retired(i) : rob[k].done
         /\ Recovers(i) => Retired(i) = 0
<1> DEFINE T == {n \in 0 .. RetireWidth : n <= Len(rob) /\ \A k \in 1 .. n : rob[k].done}
<1> DEFINE P(n) == /\ n <= Len(rob) /\ \A k \in 1 .. n : rob[k].done
                   /\ n = RetireWidth \/ n = Len(rob) \/ ~rob[n + 1].done
<1>1. Len(rob) \in Nat /\ RetireWidth \in Nat
  BY SequenceIs, Sizes DEF RobForm
<1>2. \E m \in T : \A n \in T : n <= m
  <2>1. T \subseteq Nat /\ 0 \in T
    BY <1>1
  <2>2. IsFiniteSet(T)
    <3>1. IsFiniteSet(0 .. RetireWidth)
      BY <1>1, FS_Interval
    <3>2. QED
      BY <3>1, FS_Subset
  <2> HIDE DEF T
  <2>3. QED
    BY <2>1, <2>2, FiniteMax
<1>3. PICK m \in T : \A n \in T : n <= m
  BY <1>2
<1>4. P(m)
  <2>1. SUFFICES ASSUME m # RetireWidth, m # Len(rob), rob[m + 1].done PROVE FALSE
    OBVIOUS
  <2>2. m + 1 \in 0 .. RetireWidth /\ m + 1 <= Len(rob) /\ m \in Nat
    BY <1>1, <2>1
  <2>3. \A k \in 1 .. m + 1 : k \in 1 .. m \/ k = m + 1
    BY <2>2
  <2>4. m + 1 \in T
    BY <2>1, <2>2, <2>3
  <2>5. QED
    BY <1>3, <2>2, <2>4
<1>5. m \in 0 .. RetireWidth
  OBVIOUS
<1> HIDE DEF P
<1> DEFINE x == CHOOSE n \in 0 .. RetireWidth : P(n)
<1>6. x \in 0 .. RetireWidth /\ P(x)
  BY <1>4, <1>5
<1>7. Retired(i) = IF Recovers(i) THEN 0 ELSE x
  BY Zenon DEF Retired, P
<1> HIDE DEF x
<1>8. QED
  BY <1>1, <1>6, <1>7 DEF P


(* Recovery cuts the window: at its head, behind the branch, or nowhere.   *)
LEMMA AliveForm ==
  ASSUME RobForm, MaskForm, NEW i \in Inputs, Sensible(i)
  PROVE  /\ Alive(i) \in 0 .. Len(rob) /\ Len(rob) \in Nat /\ DOMAIN rob = 1 .. Len(rob)
         /\ \A k \in DOMAIN rob : Killed(rob[k].m, i) <=> k > Alive(i)
         /\ i.flush => Alive(i) = 0
         /\ i.res = "miss" => Alive(i) \in OpenBranch
         /\ ~Recovers(i) => Alive(i) = Len(rob)
         /\ Retired(i) <= Alive(i)
<1>1. Len(rob) \in Nat /\ DOMAIN rob = 1 .. Len(rob)
  BY SequenceIs DEF RobForm
<1>2. Recovers(i) => Retired(i) = 0
  BY RetiredForm
<1>3. Retired(i) \in Nat /\ Retired(i) <= Len(rob)
  BY RetiredForm
<1>4. i.flush \in BOOLEAN /\ (i.res # "none" => OpenBranch # {})
  BY InputsForm
<1>5. \A n \in 0 .. Len(rob) : Survivors(i) = 1 .. n => Alive(i) = n
  BY <1>1, FS_Interval DEF Alive
<1>6. CASE i.flush
  <2>1. Survivors(i) = {}
    BY <1>6 DEF Survivors, Killed
  <2>2. Alive(i) = 0
    BY <2>1, FS_EmptySet DEF Alive
  <2>3. i.res # "miss" /\ Recovers(i)
    BY <1>6 DEF Sensible, Recovers
  <2>4. \A k \in DOMAIN rob : Killed(rob[k].m, i) <=> k > 0
    BY <1>1, <1>6 DEF Killed
  <2>5. QED
    BY <1>1, <1>2, <1>6, <2>2, <2>3, <2>4
<1>7. CASE ~i.flush /\ i.res = "miss"
  <2>1. PICK b : b \in OpenBranch
    BY <1>4, <1>7
  <2>2. b \in DOMAIN rob /\ b \in 1 .. Len(rob) /\ b \in 0 .. Len(rob)
    BY <1>1, <2>1 DEF OpenBranch
  <2>3. \A k \in DOMAIN rob : Killed(rob[k].m, i) <=> b < k
    BY <1>7, <2>1 DEF Killed, MaskForm
  <2>4. Survivors(i) = 1 .. b
    BY <1>1, <2>2, <2>3 DEF Survivors
  <2>5. Alive(i) = b
    BY <1>5, <2>2, <2>4
  <2>6. Recovers(i)
    BY <1>7 DEF Recovers
  <2>7. QED
    BY <1>1, <1>2, <1>7, <2>1, <2>2, <2>3, <2>5, <2>6
<1>8. CASE ~i.flush /\ i.res # "miss"
  <2>1. \A k \in DOMAIN rob : ~Killed(rob[k].m, i)
    BY <1>8 DEF Killed
  <2>2. Survivors(i) = 1 .. Len(rob)
    BY <1>1, <2>1 DEF Survivors
  <2>3. Alive(i) = Len(rob)
    <3>1. Len(rob) \in 0 .. Len(rob)
      BY <1>1
    <3>2. QED
      BY <1>5, <2>2, <3>1
  <2>4. QED
    BY <1>1, <1>3, <1>8, <2>1, <2>3
<1>9. QED
  BY <1>6, <1>7, <1>8

(* An entry after the writes of a cycle, before retirement moves it.       *)
Written(i, k) ==
  LET e == IF k <= Alive(i) THEN [rob[k] EXCEPT !.iss = @ \/ (Issues(i) /\ k = i.issue)]
           ELSE NewEntry(i)
  IN  Completed(i, Index(k), e)

(* The ROB after a cycle.                                                  *)
LEMMA RobNext ==
  ASSUME RobForm, MaskForm, NEW i \in Inputs, Sensible(i), Rob(i)
  PROVE  /\ Window(i) \in Nat /\ Window(i) <= NumRob /\ Retired(i) <= Window(i)
         /\ IsSequence(rob') /\ Len(rob') = Window(i) - Retired(i)
         /\ \A k \in 1 .. Len(rob') : rob'[k] = Written(i, k + Retired(i))
         /\ i.alloc => Alive(i) = Len(rob) /\ ~Recovers(i)
         /\ head' = IF i.flush THEN 0 ELSE (head + Retired(i)) % NumRob
<1> DEFINE live == SubSeq(rob, 1, Cardinality(Survivors(i)))
<1> DEFINE old == [k \in DOMAIN live |-> IF Issues(i) /\ k = i.issue
                                           THEN [live[k] EXCEPT !.iss = TRUE] ELSE live[k]]
<1> DEFINE all == IF i.alloc THEN Append(old, NewEntry(i)) ELSE old
<1> DEFINE dn == [k \in DOMAIN all |-> Completed(i, Index(k), all[k])]
<1>1. rob' = IF i.flush THEN <<>> ELSE SubSeq(dn, Retired(i) + 1, Len(dn))
  BY Zenon DEF Rob
<1>2. head' = IF i.flush THEN 0 ELSE (head + Retired(i)) % NumRob
  BY Zenon DEF Rob
<1>3. /\ Alive(i) \in 0 .. Len(rob) /\ Len(rob) \in Nat /\ DOMAIN rob = 1 .. Len(rob)
      /\ Retired(i) <= Alive(i) /\ (~Recovers(i) => Alive(i) = Len(rob))
      /\ (i.flush => Alive(i) = 0)
  BY AliveForm
<1>4. Retired(i) \in Nat /\ Len(rob) <= NumRob /\ NumRob \in Nat
  BY RetiredForm, Sizes DEF RobForm
<1>5. i.alloc => ~Recovers(i) /\ Len(rob) < NumRob
  BY InputsForm DEF Sensible, Room
<1>6. /\ IsSequence(live) /\ Len(live) = Alive(i) /\ DOMAIN live = 1 .. Alive(i)
      /\ \A k \in 1 .. Alive(i) : live[k] = rob[k]
  <2>1. live = SubSeq(rob, 1, Alive(i))
    BY DEF Alive
  <2> HIDE DEF live
  <2>2. rob \in Seq({rob[k] : k \in DOMAIN rob})
    BY DEF RobForm, IsSequence
  <2>3. live = [k \in 1 .. Alive(i) |-> rob[k]]
    BY <1>3, <2>1, <2>2
  <2>4. live = [k \in 1 .. Alive(i) |-> live[k]] /\ Alive(i) \in Nat
    BY <1>3, <2>3
  <2>5. QED
    BY <2>3, <2>4, SequenceForm
<1>7. /\ IsSequence(old) /\ Len(old) = Alive(i) /\ DOMAIN old = 1 .. Alive(i)
      /\ \A k \in 1 .. Alive(i) : old[k] = IF Issues(i) /\ k = i.issue
                                             THEN [rob[k] EXCEPT !.iss = TRUE] ELSE rob[k]
  <2> HIDE DEF live
  <2>1. old = [k \in 1 .. Alive(i) |-> old[k]] /\ Alive(i) \in Nat
    BY <1>3, <1>6
  <2>2. \A k \in 1 .. Alive(i) : old[k] = IF Issues(i) /\ k = i.issue
                                             THEN [rob[k] EXCEPT !.iss = TRUE] ELSE rob[k]
    BY <1>6
  <2> HIDE DEF old
  <2>3. QED
    BY <2>1, <2>2, SequenceForm
<1> HIDE DEF live, old
<1>8. /\ Window(i) \in Nat /\ IsSequence(all) /\ Len(all) = Window(i) /\ DOMAIN all = 1 .. Window(i)
      /\ \A k \in 1 .. Window(i) : all[k] = IF k <= Alive(i) THEN old[k] ELSE NewEntry(i)
  <2>1. CASE ~i.alloc
    BY <1>3, <1>7, <2>1 DEF Window
  <2>2. CASE i.alloc
    <3>1. all = old \o <<NewEntry(i)>>
      <4>1. old \in Seq({old[k] : k \in DOMAIN old})
        BY <1>7 DEF IsSequence
      <4>2. QED
        BY <2>2, <4>1
    <3>2. /\ IsSequence(all) /\ Len(all) = Alive(i) + 1
          /\ \A k \in 1 .. Alive(i) : all[k] = old[k]
          /\ all[Alive(i) + 1] = NewEntry(i)
      <4> DEFINE x == NewEntry(i)
      <4> HIDE DEF x
      <4>1. /\ IsSequence(old \o <<x>>) /\ Len(old \o <<x>>) = Len(old) + 1
            /\ \A k \in 1 .. Len(old) : (old \o <<x>>)[k] = old[k]
            /\ (old \o <<x>>)[Len(old) + 1] = x
        BY <1>7, SequenceAppend
      <4>2. all = old \o <<x>>
        BY <3>1 DEF x
      <4> HIDE DEF all
      <4>3. QED
        BY <1>7, <4>1, <4>2 DEF x
    <3>3. Window(i) = Alive(i) + 1 /\ Alive(i) \in Nat
      BY <1>3, <2>2 DEF Window
    <3> HIDE DEF all
    <3>4. DOMAIN all = 1 .. Window(i)
      BY <3>2, <3>3, SequenceIs
    <3>5. QED
      BY <3>2, <3>3, <3>4
  <2>3. QED
    BY <2>1, <2>2
<1> HIDE DEF all
<1>9. \A k \in 1 .. Window(i) : dn[k] = Written(i, k)
  <2>1. SUFFICES ASSUME NEW k \in 1 .. Window(i) PROVE dn[k] = Written(i, k)
    OBVIOUS
  <2>2. dn[k] = Completed(i, Index(k), all[k])
    BY <1>8
  <2>3. all[k] = IF k <= Alive(i) THEN [rob[k] EXCEPT !.iss = @ \/ (Issues(i) /\ k = i.issue)] ELSE NewEntry(i)
    <3>1. CASE ~(k <= Alive(i))
      BY <1>8, <3>1
    <3>2. CASE k <= Alive(i)
      <4>1. k \in DOMAIN rob /\ k \in 1 .. Alive(i)
        BY <1>3, <1>8, <3>2
      <4>2. DOMAIN rob[k] = EntryFields /\ rob[k].iss \in BOOLEAN
        BY <4>1 DEF RobForm
      <4>3. rob[k] = [x \in DOMAIN rob[k] |-> rob[k][x]]
        BY <4>1 DEF RobForm, RecordIs
      <4>4. Issues(i) /\ k = i.issue => [rob[k] EXCEPT !.iss = TRUE] = [rob[k] EXCEPT !.iss = @ \/ (Issues(i) /\ k = i.issue)]
        OBVIOUS
      <4>5. ~(Issues(i) /\ k = i.issue) => rob[k] = [rob[k] EXCEPT !.iss = @ \/ (Issues(i) /\ k = i.issue)]
        BY <4>2, <4>3
      <4>6. QED
        BY <1>7, <1>8, <3>2, <4>1, <4>4, <4>5
    <3>3. QED
      BY <3>1, <3>2
  <2>4. QED
    BY <2>2, <2>3, Zenon DEF Written
<1>10. IsSequence(dn) /\ Len(dn) = Window(i)
  <2>1. dn = [k \in 1 .. Window(i) |-> dn[k]]
    BY <1>8
  <2> HIDE DEF dn
  <2>2. QED
    BY <1>8, <2>1, SequenceForm
<1> HIDE DEF dn
<1>11. Window(i) <= NumRob /\ Retired(i) <= Window(i)
  BY <1>3, <1>4, <1>5 DEF Window
<1>12. CASE i.flush
  <2>1. Recovers(i)
    BY <1>12 DEF Recovers
  <2>2. Retired(i) = 0 /\ ~i.alloc /\ Window(i) = 0
    BY <1>3, <1>5, <1>12, <2>1, RetiredForm, InputsForm DEF Window
  <2>3. rob' = <<>> /\ IsSequence(<<>>) /\ Len(<<>>) = 0
    BY <1>1, <1>12 DEF IsSequence
  <2>4. QED
    BY <1>2, <1>11, <1>12, <2>2, <2>3
<1>13. CASE ~i.flush
  <2>1. rob' = SubSeq(dn, Retired(i) + 1, Window(i))
    BY <1>1, <1>10, <1>13
  <2>2. SubSeq(dn, 1, Window(i)) = dn
    BY <1>10 DEF IsSequence
  <2>3. /\ IsSequence(rob') /\ Len(rob') = Window(i) - Retired(i)
        /\ \A k \in 1 .. Window(i) - Retired(i) : rob'[k] = dn[k + Retired(i)]
    <3>1. Retired(i) + 1 = 1 + Retired(i)
      BY <1>4
    <3>2. rob' = SubSeq(SubSeq(dn, 1, Window(i)), 1 + Retired(i), Window(i))
      BY <2>1, <2>2, <3>1, Zenon
    <3>3. Window(i) <= Len(dn)
      BY <1>8, <1>10
    <3>4. QED
      BY <1>4, <1>8, <1>10, <1>11, <3>2, <3>3, SequenceCut
  <2>4. \A k \in 1 .. Len(rob') : k + Retired(i) \in 1 .. Window(i)
    BY <1>4, <1>8, <1>11, <2>3
  <2>5. QED
    BY <1>2, <1>3, <1>5, <1>8, <1>9, <1>11, <2>3, <2>4
<1>14. QED
  BY <1>12, <1>13


(* What completes an entry.                                                *)
ByResult(i, r) == w1 # NoRow /\ ~Killed(w1.m, i) /\ w1.rob = r
ByStore(i, r)  == Executes(i) /\ pipe[6].rob = r

(* The fields of an entry after the writes.                                *)
LEMMA WrittenForm ==
  ASSUME RobForm, MaskForm, NEW i \in Inputs, Sensible(i), NEW k \in 1 .. Window(i)
  PROVE  LET e == Written(i, k) IN
         /\ DOMAIN e = EntryFields /\ RecordIs(e)
         /\ e.pc \in Pc /\ e.m \in BOOLEAN /\ e.iss \in BOOLEAN /\ e.done \in BOOLEAN
         /\ k <= Alive(i) =>
              /\ k \in DOMAIN rob /\ e.pc = rob[k].pc /\ e.q = rob[k].q
              /\ e.m = Clean(rob[k].m, i)
              /\ e.iss <=> rob[k].iss \/ (Issues(i) /\ k = i.issue)
         /\ k > Alive(i) =>
              /\ i.alloc /\ ~Recovers(i) /\ k = Len(rob) + 1 /\ Room /\ e.pc = fetch
              /\ e.q = NewEntry(i).q /\ e.m = Clean(NewMask(i), i) /\ ~e.iss
         /\ e.done <=> \/ k <= Alive(i) /\ rob[k].done
                       \/ ByResult(i, Index(k)) \/ ByStore(i, Index(k))
                       \/ i.res # "none" /\ Op(e.pc) = "br"
<1> DEFINE b == IF k <= Alive(i) THEN [rob[k] EXCEPT !.iss = @ \/ (Issues(i) /\ k = i.issue)] ELSE NewEntry(i)
<1> DEFINE e == Written(i, k)
<1> DEFINE dn == b.done \/ ByResult(i, Index(k)) \/ ByStore(i, Index(k)) \/ (i.res # "none" /\ Op(b.pc) = "br")
<1> DEFINE vl == IF ByResult(i, Index(k)) THEN w1.val ELSE b.val
<1>1. e = [b EXCEPT !.done = dn, !.val = vl, !.m = Clean(b.m, i)]
  BY Zenon DEF Written, Completed, ByResult, ByStore
<1>2. /\ Alive(i) \in 0 .. Len(rob) /\ Len(rob) \in Nat /\ DOMAIN rob = 1 .. Len(rob)
      /\ ~Recovers(i) => Alive(i) = Len(rob)
  BY AliveForm
<1>3. i.alloc \in BOOLEAN /\ (i.alloc => ~Recovers(i) /\ Room)
  BY InputsForm DEF Sensible
<1>4. k > Alive(i) => i.alloc /\ ~Recovers(i) /\ k = Len(rob) + 1 /\ Room
  BY <1>2, <1>3 DEF Window
<1>5. k <= Alive(i) => k \in DOMAIN rob
  BY <1>2
<1>6. /\ DOMAIN b = EntryFields /\ b.pc \in Pc /\ b.iss \in BOOLEAN /\ b.done \in BOOLEAN /\ b.m \in BOOLEAN
      /\ k <= Alive(i) =>
           /\ b.pc = rob[k].pc /\ b.q = rob[k].q /\ b.m = rob[k].m /\ b.done = rob[k].done
           /\ b.iss <=> rob[k].iss \/ (Issues(i) /\ k = i.issue)
      /\ k > Alive(i) => b.pc = fetch /\ b.q = NewEntry(i).q /\ b.m = NewMask(i) /\ ~b.iss /\ ~b.done
  <2>1. CASE k <= Alive(i)
    <3>1. /\ DOMAIN rob[k] = EntryFields /\ rob[k].pc \in Pc
          /\ rob[k].m \in BOOLEAN /\ rob[k].iss \in BOOLEAN /\ rob[k].done \in BOOLEAN
      BY <1>5, <2>1 DEF RobForm
    <3> DEFINE x == rob[k].iss \/ (Issues(i) /\ k = i.issue)
    <3>2. x \in BOOLEAN /\ b = [rob[k] EXCEPT !.iss = x]
      BY <2>1
    <3> HIDE DEF b, x
    <3>3. /\ DOMAIN b = EntryFields /\ b.pc = rob[k].pc /\ b.q = rob[k].q /\ b.m = rob[k].m
          /\ b.done = rob[k].done /\ b.iss = x
      BY <3>1, <3>2 DEF EntryFields
    <3>4. ~(k > Alive(i))
      BY <1>2, <2>1
    <3>5. QED
      BY <3>1, <3>2, <3>3, <3>4 DEF x
  <2>2. CASE ~(k <= Alive(i))
    <3>1. k > Alive(i)
      BY <1>2, <2>2
    <3>2. fetch \in Pc
      BY <1>4, <3>1 DEF Room, RobForm
    <3>3. b = NewEntry(i) /\ NewMask(i) \in BOOLEAN
      BY <2>2 DEF NewMask
    <3> HIDE DEF b
    <3>4. /\ DOMAIN b = EntryFields /\ b.pc = fetch /\ b.m = NewMask(i) /\ b.iss = FALSE /\ b.done = FALSE
          /\ b.q = NewEntry(i).q
      BY <3>3 DEF NewEntry, EntryFields
    <3>5. QED
      BY <2>2, <3>2, <3>3, <3>4
  <2>3. QED
    BY <2>1, <2>2
<1>7. dn \in BOOLEAN /\ Clean(b.m, i) \in BOOLEAN
  BY DEF Clean
<1> HIDE DEF b, vl
<1>8. /\ DOMAIN e = EntryFields /\ e.pc = b.pc /\ e.q = b.q /\ e.iss = b.iss /\ e.done = dn
      /\ e.m = Clean(b.m, i)
  <2> HIDE DEF dn, e
  <2>1. QED
    BY <1>1, <1>6 DEF EntryFields
<1>9. RecordIs(e)
  <2> HIDE DEF dn, e
  <2>1. QED
    BY <1>1 DEF RecordIs
<1> HIDE DEF e
<1>10. e.done <=> \/ k <= Alive(i) /\ rob[k].done
                  \/ ByResult(i, Index(k)) \/ ByStore(i, Index(k))
                  \/ i.res # "none" /\ Op(e.pc) = "br"
  <2>1. b.done <=> k <= Alive(i) /\ rob[k].done
    BY <1>2, <1>6
  <2>2. QED
    BY <1>8, <2>1
<1> HIDE DEF dn
<1>11. QED
  BY <1>4, <1>5, <1>6, <1>7, <1>8, <1>9, <1>10 DEF e


-----------------------------------------------------------------------------
(* Different places of the window have different ROB indices.              *)
LEMMA IndexDistinct ==
  ASSUME RobForm, NEW j \in 1 .. NumRob, NEW k \in 1 .. NumRob
  PROVE  /\ Index(k) \in 0 .. NumRob - 1
         /\ Index(j) = Index(k) => j = k
<1>1. NumRob \in Nat \ {0} /\ head \in 0 .. NumRob - 1
  BY Sizes DEF RobForm
<1>2. /\ j - 1 \in 0 .. NumRob - 1 /\ k - 1 \in 0 .. NumRob - 1 /\ j - 1 \in Nat /\ k - 1 \in Nat
      /\ k - 1 \in 0 .. NumRob
  BY <1>1
<1>3. head + j - 1 = head + (j - 1) /\ head + k - 1 = head + (k - 1)
  BY <1>1
<1>4. Index(j) = (head + (j - 1)) % NumRob /\ Index(k) = (head + (k - 1)) % NumRob
  BY <1>3 DEF Index
<1>5. Index(k) \in 0 .. NumRob - 1
  BY <1>1, <1>2, <1>4, RingSum
<1>6. j - 1 < k - 1 => Index(j) # Index(k)
  BY <1>1, <1>2, <1>4, RingDistinct
<1>7. k - 1 < j - 1 => Index(j) # Index(k)
  BY <1>1, <1>2, <1>4, RingDistinct
<1>8. QED
  BY <1>2, <1>5, <1>6, <1>7

(* Retirement leaves each entry its ROB index.                             *)
LEMMA IndexNext ==
  ASSUME RobForm, MaskForm, NEW i \in Inputs, Sensible(i), Rob(i), ~i.flush,
         NEW k \in 1 .. NumRob, k + Retired(i) <= NumRob
  PROVE  Index(k)' = Index(k + Retired(i)) /\ head' \in 0 .. NumRob - 1
<1> DEFINE R == Retired(i)
<1>1. NumRob \in Nat \ {0} /\ head \in 0 .. NumRob - 1
  BY Sizes DEF RobForm
<1>2. R \in Nat
  BY RetiredForm
<1>3. head' = (head + R) % NumRob
  BY RobNext
<1> HIDE DEF R
<1>4. /\ k + R - 1 \in 0 .. NumRob - 1 /\ R <= k + R - 1
      /\ (k + R - 1) - R = k - 1
  BY <1>1, <1>2 DEF R
<1>5. /\ (head + R) % NumRob \in 0 .. NumRob - 1
      /\ (((head + R) % NumRob) + (k - 1)) % NumRob = (head + (k + R - 1)) % NumRob
  <2> DEFINE n == k + R - 1
  <2>1. n \in 0 .. NumRob - 1 /\ R <= n /\ n - R = k - 1
    BY <1>4
  <2> HIDE DEF n
  <2>2. /\ (head + R) % NumRob \in 0 .. NumRob - 1
        /\ (((head + R) % NumRob) + (n - R)) % NumRob = (head + n) % NumRob
    BY <1>1, <1>2, <2>1, RingMove
  <2>3. QED
    BY <2>1, <2>2 DEF n
<1>6. head' + k - 1 = head' + (k - 1) /\ head + (k + R) - 1 = head + (k + R - 1)
  BY <1>1, <1>2, <1>3, <1>5
<1>7. Index(k)' = (head' + (k - 1)) % NumRob
  BY <1>6 DEF Index
<1>8. Index(k + R) = (head + (k + R - 1)) % NumRob
  BY <1>6 DEF Index
<1>9. QED
  BY <1>3, <1>5, <1>7, <1>8 DEF R


(* A result completes a load of the window, a store's capture the store it *)
(* is for, and neither of them anything else.                              *)
LEMMA CompletesOwn ==
  ASSUME RobForm, MaskForm, PipeForm, OwnersForm, LoadsForm, ResultFindsOwner,
         NEW i \in Inputs, Sensible(i), NEW k \in 1 .. Window(i), Window(i) <= NumRob
  PROVE  /\ ByResult(i, Index(k)) => k <= Alive(i) /\ Op(rob[k].pc) = "ld"
         /\ ByStore(i, Index(k)) =>
              /\ k <= Alive(i) /\ k \in Stores /\ Owns(6, k)
              /\ StoreDone(i) /\ pipe[6].dec = "ok"
<1>1. /\ Alive(i) \in 0 .. Len(rob) /\ Len(rob) \in Nat /\ DOMAIN rob = 1 .. Len(rob) /\ Len(rob) <= NumRob
      /\ \A j \in DOMAIN rob : Killed(rob[j].m, i) <=> j > Alive(i)
      /\ ~Recovers(i) => Alive(i) = Len(rob)
  BY AliveForm DEF RobForm
<1>2. k > Alive(i) => k = Len(rob) + 1 /\ Len(rob) < NumRob /\ Alive(i) = Len(rob)
  BY <1>1, InputsForm DEF Window, Sensible, Room
<1>3. k \in 1 .. NumRob /\ NumRob \in Nat
  <2>1. Window(i) \in Nat
    BY <1>1 DEF Window
  <2>2. QED
    BY <2>1, Sizes
<1>4. ASSUME ByResult(i, Index(k)) PROVE k <= Alive(i) /\ Op(rob[k].pc) = "ld"
  <2>1. w1 # NoRow /\ w1.rob = Index(k) /\ w1.pc \in LoadPcs
    BY <1>4 DEF ByResult, LoadsForm, ResultsForm
  <2>2. k <= Alive(i)
    BY <1>1, <1>2, <2>1 DEF ResultFindsOwner, NoLateResult
  <2>3. k \in DOMAIN rob
    BY <1>1, <2>2
  <2>4. rob[k].pc = w1.pc /\ rob[k].pc \in Pc
    BY <2>1, <2>3 DEF ResultFindsOwner, NoLateResult, RobForm
  <2>5. w1.pc # 0
    BY <2>4, Sizes
  <2>6. QED
    BY <2>1, <2>2, <2>4, <2>5 DEF LoadPcs, PcsOfKind
<1>5. ASSUME ByStore(i, Index(k))
      PROVE  /\ k <= Alive(i) /\ k \in Stores /\ Owns(6, k)
             /\ StoreDone(i) /\ pipe[6].dec = "ok"
  <2>1. StoreDone(i) /\ pipe[6].dec = "ok" /\ pipe[6].rob = Index(k)
    BY <1>5 DEF ByStore, Executes
  <2>2. pipe[6].op = "st" /\ ~Killed(pipe[6].m, i) /\ 6 \in StoresInPipe
    BY <2>1 DEF StoreDone, StoresInPipe
  <2>3. PICK j \in Stores : Owns(6, j)
    BY <2>2 DEF OwnersForm
  <2>4. j \in DOMAIN rob /\ j \in 1 .. NumRob /\ Index(j) = Index(k) /\ (rob[j].m => pipe[6].m)
    BY <1>1, <2>1, <2>3, Sizes DEF Stores, OfKind, Owns
  <2>5. j = k
    BY <1>3, <2>4, IndexDistinct
  <2>6. ~Killed(rob[j].m, i)
    BY <2>2, <2>4 DEF Killed
  <2>7. QED
    BY <1>1, <2>1, <2>3, <2>4, <2>5, <2>6
<1>6. QED
  BY <1>4, <1>5

(* The window stays one.                                                   *)
LEMMA RobStep ==
  ASSUME RobForm, MaskForm, NEW i \in Inputs, Sensible(i), Rob(i)
  PROVE  RobForm'
<1> DEFINE R == Retired(i)
<1>1. /\ Window(i) \in Nat /\ Window(i) <= NumRob /\ R <= Window(i) /\ R \in Nat
      /\ IsSequence(rob') /\ Len(rob') = Window(i) - R
      /\ \A k \in 1 .. Len(rob') : rob'[k] = Written(i, k + R)
      /\ head' = IF i.flush THEN 0 ELSE (head + R) % NumRob
      /\ DOMAIN rob' = 1 .. Len(rob')
  BY RobNext, RetiredForm, SequenceIs
<1>2. head' \in 0 .. NumRob - 1 /\ Len(rob') <= NumRob
  <2>1. NumRob \in Nat \ {0} /\ head \in 0 .. NumRob - 1
    BY Sizes DEF RobForm
  <2>2. (head + R) % NumRob \in 0 .. NumRob - 1
    <3>1. R \in Nat
      BY <1>1
    <3> HIDE DEF R
    <3>2. QED
      BY <2>1, <3>1
  <2>3. head' = IF i.flush THEN 0 ELSE (head + R) % NumRob
    BY <1>1
  <2>4. Len(rob') = Window(i) - R /\ Window(i) \in Nat /\ R \in Nat /\ Window(i) <= NumRob
    BY <1>1
  <2> HIDE DEF R
  <2>5. QED
    BY <2>1, <2>2, <2>3, <2>4
<1>3. ASSUME NEW k \in DOMAIN rob'
      PROVE  /\ DOMAIN rob'[k] = EntryFields /\ RecordIs(rob'[k]) /\ rob'[k].pc \in Pc
             /\ rob'[k].m \in BOOLEAN /\ rob'[k].iss \in BOOLEAN /\ rob'[k].done \in BOOLEAN
  <2>1. k + R \in 1 .. Window(i) /\ rob'[k] = Written(i, k + R)
    BY <1>1, <1>3
  <2>2. QED
    BY <2>1, WrittenForm
<1>4. fetch' \in Pc \cup {0}
  <2>1. fetch' = IF i.flush THEN (IF rob = <<>> THEN fetch ELSE rob[1].pc)
                 ELSE IF i.res = "miss" THEN Alt[rob[CHOOSE k \in OpenBranch : TRUE].pc]
                 ELSE IF i.alloc THEN Succ[fetch] ELSE fetch
    BY Zenon DEF Rob
  <2>2. i.res = "miss" => (CHOOSE k \in OpenBranch : TRUE) \in DOMAIN rob
    BY InputsForm DEF OpenBranch
  <2>3. rob # <<>> => 1 \in DOMAIN rob
    BY SequenceIs DEF RobForm, IsSequence
  <2>4. i.alloc => fetch \in Pc
    BY InputsForm DEF Room, RobForm
  <2>5. \A k \in DOMAIN rob : rob[k].pc \in Pc
    BY DEF RobForm
  <2>6. fetch \in Pc \cup {0}
    BY DEF RobForm
  <2>7. QED
    BY <2>1, <2>2, <2>3, <2>4, <2>5, <2>6, Sizes
<1>5. QED
  BY <1>1, <1>2, <1>3, <1>4 DEF RobForm

(* The open branch of the next cycle: the present one if it is not         *)
(* resolved, or a new one behind everything.                               *)
LEMMA OpenNext ==
  ASSUME RobForm, MaskForm, PipeForm, OwnersForm, LoadsForm, ResultFindsOwner,
         NEW i \in Inputs, Sensible(i), Rob(i), NEW k \in Nat
  PROVE  k \in OpenBranch' <=>
           /\ k > 0 /\ i.res = "none" /\ ~i.flush
           /\ \/ k + Retired(i) \in OpenBranch
              \/ i.alloc /\ Op(fetch) = "br" /\ k + Retired(i) = Len(rob) + 1
<1> DEFINE R == Retired(i)
<1>1. /\ Window(i) \in Nat /\ Window(i) <= NumRob /\ R <= Window(i) /\ R \in Nat
      /\ Len(rob') = Window(i) - R /\ DOMAIN rob' = 1 .. Len(rob')
      /\ \A n \in 1 .. Len(rob') : rob'[n] = Written(i, n + R)
  BY RobNext, RetiredForm, SequenceIs
<1>2. /\ Alive(i) \in 0 .. Len(rob) /\ Len(rob) \in Nat /\ DOMAIN rob = 1 .. Len(rob)
      /\ (i.flush => Alive(i) = 0) /\ (~Recovers(i) => Alive(i) = Len(rob))
  BY AliveForm
<1>3. /\ i.alloc \in BOOLEAN /\ (i.alloc => ~Recovers(i)) /\ i.flush \in BOOLEAN
      /\ i.res \in {"none", "ok", "miss"}
  BY InputsForm DEF Sensible
<1>4. i.flush => Window(i) = 0
  BY <1>2, <1>3 DEF Window, Recovers
<1>5. k \in OpenBranch' <=> k \in DOMAIN rob' /\ Op(rob'[k].pc) = "br" /\ ~rob'[k].done
  BY DEF OpenBranch, Op
<1>6. ASSUME k \in DOMAIN rob'
      PROVE  /\ Op(rob'[k].pc) = "br" /\ ~rob'[k].done <=>
                  /\ i.res = "none"
                  /\ \/ k + R \in OpenBranch
                     \/ i.alloc /\ Op(fetch) = "br" /\ k + R = Len(rob) + 1
  <2> DEFINE n == k + R
  <2>1. n \in 1 .. Window(i) /\ rob'[k] = Written(i, n)
    BY <1>1, <1>6
  <2> DEFINE e == Written(i, n)
  <2>2. /\ e.pc \in Pc /\ e.done \in BOOLEAN
        /\ n <= Alive(i) => n \in DOMAIN rob /\ e.pc = rob[n].pc
        /\ n > Alive(i) => i.alloc /\ ~Recovers(i) /\ n = Len(rob) + 1 /\ e.pc = fetch
        /\ e.done <=> \/ n <= Alive(i) /\ rob[n].done
                      \/ ByResult(i, Index(n)) \/ ByStore(i, Index(n))
                      \/ i.res # "none" /\ Op(e.pc) = "br"
    BY <2>1, WrittenForm
  <2>3. /\ ByResult(i, Index(n)) => n <= Alive(i) /\ Op(rob[n].pc) = "ld"
        /\ ByStore(i, Index(n)) => n <= Alive(i) /\ Op(rob[n].pc) = "st"
    BY <1>1, <2>1, CompletesOwn DEF Stores, OfKind
  <2> HIDE DEF n, e
  <2>4. Op(e.pc) = "br" => ~ByResult(i, Index(n)) /\ ~ByStore(i, Index(n))
    BY <2>2, <2>3
  <2>5. n \in OpenBranch <=> n \in DOMAIN rob /\ Op(rob[n].pc) = "br" /\ ~rob[n].done
    BY DEF OpenBranch
  <2>6. n \in Nat /\ (n <= Alive(i) \/ n > Alive(i))
    BY <1>1, <1>2, <2>1
  <2>7. CASE n <= Alive(i)
    <3>1. n # Len(rob) + 1
      BY <1>2, <2>6, <2>7
    <3>2. QED
      BY <1>3, <2>1, <2>2, <2>4, <2>5, <2>7, <3>1 DEF n, e
  <2>8. CASE n > Alive(i)
    <3>1. n \notin DOMAIN rob /\ ~(n <= Alive(i))
      BY <1>2, <2>2, <2>6, <2>8
    <3>2. QED
      BY <1>3, <2>1, <2>2, <2>4, <2>5, <2>8, <3>1 DEF n, e
  <2>9. QED
    BY <2>6, <2>7, <2>8
<1>7. ASSUME k > 0, i.res = "none", ~i.flush,
             \/ k + R \in OpenBranch
             \/ i.alloc /\ k + R = Len(rob) + 1
      PROVE  k \in DOMAIN rob'
  <2>1. Alive(i) = Len(rob)
    BY <1>2, <1>7 DEF Recovers
  <2>2. Len(rob) <= Window(i) /\ (i.alloc => Len(rob) + 1 <= Window(i))
    BY <1>2, <2>1 DEF Window
  <2>3. k + R <= Window(i)
    BY <1>1, <1>2, <1>7, <2>2 DEF OpenBranch
  <2>4. QED
    BY <1>1, <1>7, <2>3
<1>8. k \in DOMAIN rob' => k > 0 /\ ~i.flush
  BY <1>1, <1>3, <1>4
<1> HIDE DEF R
<1>9. QED
  BY <1>3, <1>5, <1>6, <1>7, <1>8 DEF R


(* The tags stay those of what is behind the open branch.                  *)
LEMMA MaskStep ==
  ASSUME RobForm, MaskForm, PipeForm, OwnersForm, LoadsForm, ResultFindsOwner,
         NEW i \in Inputs, Sensible(i), Rob(i)
  PROVE  MaskForm'
<1> DEFINE R == Retired(i)
<1>1. /\ Window(i) \in Nat /\ R <= Window(i) /\ R \in Nat
      /\ Len(rob') = Window(i) - R /\ DOMAIN rob' = 1 .. Len(rob')
      /\ \A n \in 1 .. Len(rob') : rob'[n] = Written(i, n + R)
      /\ \A n \in 1 .. R : rob[n].done /\ R <= Len(rob)
  BY RobNext, RetiredForm, SequenceIs
<1>2. /\ Alive(i) \in 0 .. Len(rob) /\ Len(rob) \in Nat /\ DOMAIN rob = 1 .. Len(rob)
      /\ (i.flush => Alive(i) = 0) /\ (~Recovers(i) => Alive(i) = Len(rob))
  BY AliveForm
<1>3. /\ i.alloc \in BOOLEAN /\ (i.alloc => ~Recovers(i) /\ Room) /\ i.flush \in BOOLEAN
      /\ i.res \in {"none", "ok", "miss"}
  BY InputsForm DEF Sensible
<1>4. \A k \in OpenBranch' : k \in Nat
  BY <1>1 DEF OpenBranch
<1>5. \A k \in Nat : k \in OpenBranch' <=>
        /\ k > 0 /\ i.res = "none" /\ ~i.flush
        /\ k + R \in OpenBranch \/ (i.alloc /\ Op(fetch) = "br" /\ k + R = Len(rob) + 1)
  BY OpenNext
<1>6. i.alloc /\ Op(fetch) = "br" => OpenBranch = {}
  BY <1>3 DEF Room
<1>7. \A b \in OpenBranch : b \in DOMAIN rob /\ b \in Nat /\ b > R
  <2>1. SUFFICES ASSUME NEW b \in OpenBranch PROVE b \in DOMAIN rob /\ b \in Nat /\ b > R
    OBVIOUS
  <2>2. b \in DOMAIN rob /\ ~rob[b].done
    BY DEF OpenBranch
  <2>3. QED
    BY <1>1, <1>2, <2>2
<1>8. \A a, b \in OpenBranch : a = b
  BY DEF MaskForm
<1>9. ASSUME NEW a \in OpenBranch', NEW b \in OpenBranch' PROVE a = b
  BY <1>1, <1>2, <1>4, <1>5, <1>6, <1>8
<1>10. ASSUME NEW k \in DOMAIN rob'
       PROVE  rob'[k].m <=> \E b \in OpenBranch' : b < k
  <2> DEFINE n == k + R
  <2>1. n \in 1 .. Window(i) /\ rob'[k] = Written(i, n) /\ k \in Nat /\ n \in Nat
    BY <1>1, <1>10
  <2>2. /\ n <= Alive(i) => n \in DOMAIN rob /\ rob'[k].m = Clean(rob[n].m, i)
        /\ n > Alive(i) => i.alloc /\ ~Recovers(i) /\ n = Len(rob) + 1 /\ rob'[k].m = Clean(NewMask(i), i)
    BY <2>1, WrittenForm
  <2>3. CASE i.res # "none" \/ i.flush
    <3>1. OpenBranch' = {}
      BY <1>4, <1>5, <2>3
    <3>2. i.res # "none" => \A x : ~Clean(x, i)
      BY DEF Clean
    <3>3. ~i.flush
      BY <1>1, <1>2, <1>3, <1>10 DEF Recovers, Window
    <3>4. QED
      BY <1>2, <2>1, <2>2, <2>3, <3>1, <3>2, <3>3
  <2>4. CASE i.res = "none" /\ ~i.flush
    <3>1. \A x : Clean(x, i) <=> x
      BY <2>4 DEF Clean
    <3>2. (\E b \in OpenBranch' : b < k) <=> \E b \in OpenBranch : b < n
      <4>1. ASSUME NEW b \in OpenBranch', b < k PROVE \E a \in OpenBranch : a < n
        <5>1. b \in Nat /\ b + R < n
          BY <1>1, <1>4, <2>1, <4>1
        <5>2. b + R # Len(rob) + 1
          BY <1>2, <2>1, <2>2, <5>1, <1>3 DEF Window
        <5>3. QED
          BY <1>5, <4>1, <5>1, <5>2
      <4>2. ASSUME NEW a \in OpenBranch, a < n PROVE \E b \in OpenBranch' : b < k
        <5>1. a - R \in Nat /\ a - R > 0 /\ (a - R) + R = a /\ a - R < k
          <6>1. a \in Nat /\ a > R /\ R \in Nat /\ k \in Nat /\ a < k + R
            BY <1>1, <1>7, <2>1, <4>2
          <6> HIDE DEF R
          <6>2. QED
            BY <6>1
        <5>2. QED
          BY <1>5, <2>4, <5>1
      <4>3. QED
        BY <4>1, <4>2
    <3>3. CASE n <= Alive(i)
      <4>1. n \in DOMAIN rob /\ (rob'[k].m <=> rob[n].m)
        BY <2>2, <3>1, <3>3
      <4>2. QED
        BY <3>2, <4>1 DEF MaskForm
    <3>4. CASE n > Alive(i)
      <4>1. n = Len(rob) + 1 /\ (rob'[k].m <=> OpenBranch # {})
        BY <2>2, <2>4, <3>1, <3>4 DEF NewMask
      <4>2. \A b \in OpenBranch : b < n
        BY <1>2, <1>7, <4>1
      <4>3. QED
        BY <3>2, <4>1, <4>2
    <3>5. QED
      BY <1>2, <2>1, <3>3, <3>4
  <2>5. QED
    BY <1>3, <2>3, <2>4
<1>11. QED
  BY <1>9, <1>10 DEF MaskForm


-----------------------------------------------------------------------------
(* The stores of the ROB, and of the window before retirement.             *)
WindowStores(i) == {k \in 1 .. Window(i) : Op(Written(i, k).pc) = "st"}
RetiredStores(i) == Cardinality(Below(Stores, Retired(i) + 1))
AliveStores(i)   == Cardinality(Below(Stores, Alive(i) + 1))

LEMMA StoresFinite ==
  ASSUME RobForm
  PROVE  /\ Stores \subseteq Nat /\ IsFiniteSet(Stores) /\ Cardinality(Stores) \in Nat
         /\ \A k \in Stores : k \in 1 .. Len(rob) /\ Len(rob) \in Nat
         /\ \A k \in Nat : /\ IsFiniteSet(Below(Stores, k)) /\ Cardinality(Below(Stores, k)) \in Nat
                           /\ Cardinality(Below(Stores, k)) <= Cardinality(Stores)
<1>1. Len(rob) \in Nat /\ DOMAIN rob = 1 .. Len(rob)
  BY SequenceIs DEF RobForm
<1>2. \A k \in Stores : k \in 1 .. Len(rob)
  BY <1>1 DEF Stores, OfKind
<1>3. IsFiniteSet(1 .. Len(rob))
  BY <1>1, FS_Interval
<1>4. IsFiniteSet(Stores) /\ Cardinality(Stores) \in Nat
  BY <1>2, <1>3, FS_Subset, FS_CardinalityType
<1>5. Stores \subseteq Nat
  BY <1>1, <1>2
<1>6. ASSUME NEW k \in Nat
      PROVE  /\ IsFiniteSet(Below(Stores, k)) /\ Cardinality(Below(Stores, k)) \in Nat
             /\ Cardinality(Below(Stores, k)) <= Cardinality(Stores)
  <2>1. Below(Stores, k) \in SUBSET Stores
    BY DEF Below
  <2>2. QED
    BY <1>4, <2>1, FS_Subset, FS_CardinalityType
<1>7. QED
  BY <1>1, <1>2, <1>4, <1>5, <1>6

(* The window's stores are those recovery leaves and a new one.            *)
LEMMA WindowForm ==
  ASSUME RobForm, MaskForm, NEW i \in Inputs, Sensible(i), Rob(i)
  PROVE  /\ WindowStores(i) \subseteq Nat /\ IsFiniteSet(WindowStores(i))
         /\ \A k \in Nat : k \in WindowStores(i) <=>
              \/ k <= Alive(i) /\ k \in Stores
              \/ Allocs(i, "st") /\ k = Len(rob) + 1
         /\ Allocs(i, "st") => Alive(i) = Len(rob)
         /\ \A k \in Nat : k <= Alive(i) + 1 => Below(WindowStores(i), k) = Below(Stores, k)
         /\ Cardinality(WindowStores(i)) = AliveStores(i) + (IF Allocs(i, "st") THEN 1 ELSE 0)
<1> DEFINE S == WindowStores(i)
<1> DEFINE L == Alive(i)
<1>1. Window(i) \in Nat /\ (i.alloc => L = Len(rob) /\ ~Recovers(i))
  BY RobNext
<1>2. L \in 0 .. Len(rob) /\ Len(rob) \in Nat /\ DOMAIN rob = 1 .. Len(rob)
  BY AliveForm
<1>3. i.alloc \in BOOLEAN
  BY InputsForm
<1>4. \A k \in Nat : k \in S <=> (k <= L /\ k \in Stores) \/ (Allocs(i, "st") /\ k = Len(rob) + 1)
  <2>1. SUFFICES ASSUME NEW k \in Nat
                 PROVE  k \in S <=> (k <= L /\ k \in Stores) \/ (Allocs(i, "st") /\ k = Len(rob) + 1)
    OBVIOUS
  <2>2. CASE k \in 1 .. Window(i)
    <3>1. /\ k <= L => k \in DOMAIN rob /\ Written(i, k).pc = rob[k].pc
          /\ k > L => i.alloc /\ k = Len(rob) + 1 /\ Written(i, k).pc = fetch
      BY <2>2, WrittenForm
    <3>2. k \in S <=> Op(Written(i, k).pc) = "st"
      BY <2>2 DEF WindowStores
    <3>3. k \in Stores <=> k \in DOMAIN rob /\ Op(rob[k].pc) = "st"
      BY DEF Stores, OfKind
    <3>4. CASE k <= L
      BY <1>2, <3>1, <3>2, <3>3, <3>4
    <3>5. CASE k > L
      BY <1>2, <3>1, <3>2, <3>3, <3>5 DEF Allocs
    <3>6. QED
      BY <1>2, <3>4, <3>5
  <2>3. CASE k \notin 1 .. Window(i)
    <3>1. k \notin S
      BY <2>3 DEF WindowStores
    <3>2. ~(k <= L /\ k \in Stores)
      BY <1>1, <1>2, <1>3, <2>3 DEF Window, Stores, OfKind
    <3>3. ~(Allocs(i, "st") /\ k = Len(rob) + 1)
      BY <1>1, <1>2, <2>3 DEF Window, Allocs
    <3>4. QED
      BY <3>1, <3>2, <3>3
  <2>4. QED
    BY <2>2, <2>3
<1>5. S \subseteq Nat /\ IsFiniteSet(S)
  <2>1. S \in SUBSET (1 .. Window(i))
    BY DEF WindowStores
  <2>2. IsFiniteSet(1 .. Window(i))
    BY <1>1, FS_Interval
  <2>3. QED
    BY <1>1, <2>1, <2>2, FS_Subset
<1>6. Allocs(i, "st") => L = Len(rob)
  BY <1>1 DEF Allocs
<1>7. \A k \in Stores : k \in Nat
  BY StoresFinite
<1> HIDE DEF S
<1>8. ASSUME NEW k \in Nat, k <= L + 1 PROVE Below(S, k) = Below(Stores, k)
  <2>1. ASSUME NEW x \in Nat, x < k PROVE x \in S <=> x \in Stores
    <3>1. x <= L /\ x # Len(rob) + 1
      BY <1>2, <1>8, <2>1
    <3>2. QED
      BY <1>4, <3>1
  <2>2. QED
    BY <1>5, <1>7, <2>1 DEF Below
<1>9. Cardinality(S) = AliveStores(i) + (IF Allocs(i, "st") THEN 1 ELSE 0)
  <2> DEFINE B == Below(Stores, L + 1)
  <2>1. L + 1 \in Nat
    BY <1>2
  <2>2. IsFiniteSet(B) /\ Cardinality(B) \in Nat /\ AliveStores(i) = Cardinality(B)
    BY <2>1, StoresFinite DEF AliveStores
  <2>3. \A x \in Nat : x \in B <=> x <= L /\ x \in Stores
    BY <1>2, <1>7 DEF Below
  <2>4. B \subseteq Nat
    BY <1>7 DEF Below
  <2> HIDE DEF B
  <2>5. CASE ~Allocs(i, "st")
    <3>1. S = B
      BY <1>4, <1>5, <2>3, <2>4, <2>5
    <3>2. QED
      BY <2>2, <2>5, <3>1
  <2>6. CASE Allocs(i, "st")
    <3> DEFINE n == Len(rob) + 1
    <3>1. n \in Nat /\ n \notin B
      BY <1>2, <2>3
    <3>2. \A x \in Nat : x \in S <=> x \in B \/ x = n
      BY <1>4, <2>3, <2>6
    <3> HIDE DEF n
    <3>3. S = B \cup {n}
      BY <1>5, <2>4, <3>1, <3>2
    <3>4. QED
      BY <2>2, <2>6, <3>1, <3>3, FS_AddElement
  <2>7. QED
    BY <2>5, <2>6
<1>10. QED
  BY <1>4, <1>5, <1>6, <1>8, <1>9 DEF S

(* The stores of the next ROB and their ranks.                             *)
LEMMA StoresNext ==
  ASSUME RobForm, MaskForm, NEW i \in Inputs, Sensible(i), Rob(i)
  PROVE  /\ \A x \in Nat : x \in Stores' <=> x > 0 /\ x + Retired(i) \in WindowStores(i)
         /\ Stores' \subseteq Nat
         /\ RetiredStores(i) \in Nat /\ RetiredStores(i) <= AliveStores(i)
         /\ AliveStores(i) \in Nat /\ AliveStores(i) <= Cardinality(Stores)
         /\ Cardinality(Stores') = Cardinality(WindowStores(i)) - RetiredStores(i)
         /\ \A x \in Nat : x > 0 =>
              Cardinality(Below(Stores', x)) = Cardinality(Below(WindowStores(i), x + Retired(i))) - RetiredStores(i)
<1> DEFINE R == Retired(i)
<1> DEFINE W == WindowStores(i)
<1>1. /\ Window(i) \in Nat /\ R <= Window(i) /\ R \in Nat
      /\ Len(rob') = Window(i) - R /\ DOMAIN rob' = 1 .. Len(rob')
      /\ \A n \in 1 .. Len(rob') : rob'[n] = Written(i, n + R)
  BY RobNext, RetiredForm, SequenceIs
<1>2. Alive(i) \in 0 .. Len(rob) /\ Len(rob) \in Nat /\ R <= Alive(i)
  BY AliveForm
<1>3. \A x \in Nat : x \in Stores' <=> x > 0 /\ x + R \in W
  <2>1. SUFFICES ASSUME NEW x \in Nat PROVE x \in Stores' <=> x > 0 /\ x + R \in W
    OBVIOUS
  <2>2. x \in Stores' <=> x \in DOMAIN rob' /\ Op(rob'[x].pc) = "st"
    BY DEF Stores, OfKind, Op
  <2>3. x + R \in W <=> x + R \in 1 .. Window(i) /\ Op(Written(i, x + R).pc) = "st"
    BY DEF WindowStores
  <2>4. x \in DOMAIN rob' <=> x > 0 /\ x + R \in 1 .. Window(i)
    BY <1>1
  <2>5. x \in DOMAIN rob' => rob'[x] = Written(i, x + R)
    BY <1>1
  <2>6. QED
    BY <2>2, <2>3, <2>4, <2>5
<1>4. Stores' \subseteq Nat
  BY <1>1 DEF Stores, OfKind
<1>5. W \subseteq Nat /\ IsFiniteSet(W) /\ Below(W, R + 1) = Below(Stores, R + 1)
  <2>1. R + 1 \in Nat /\ R + 1 <= Alive(i) + 1
    BY <1>1, <1>2
  <2>2. QED
    BY <2>1, WindowForm
<1> HIDE DEF R, W
<1> DEFINE U == Stores'
<1> HIDE DEF U
<1>6. U \subseteq Nat /\ \A x \in Nat : x \in U <=> x > 0 /\ x + R \in W
  BY <1>3, <1>4 DEF U
<1>7. RetiredStores(i) = Cardinality(Below(W, R + 1))
  BY <1>5 DEF RetiredStores, R
<1>8. Cardinality(U) = Cardinality(W) - RetiredStores(i)
  <2>1. R \in Nat
    BY <1>1
  <2>2. Cardinality(U) = Cardinality(W) - Cardinality(Below(W, R + 1))
    BY <1>5, <1>6, <2>1, CountRest
  <2>3. QED
    BY <1>7, <2>2
<1>9. \A x \in Nat : x > 0 => Cardinality(Below(U, x)) = Cardinality(Below(W, x + R)) - RetiredStores(i)
  <2>1. R \in Nat
    BY <1>1
  <2>2. \A x \in Nat : x > 0 => Cardinality(Below(U, x)) = Cardinality(Below(W, x + R)) - Cardinality(Below(W, R + 1))
    <3>1. ASSUME NEW V, V = U, NEW X, X = W, NEW n, n = R
          PROVE  \A x \in Nat : x > 0 =>
                   Cardinality(Below(V, x)) = Cardinality(Below(X, x + n)) - Cardinality(Below(X, n + 1))
      <4>1. /\ X \subseteq Nat /\ IsFiniteSet(X) /\ n \in Nat /\ V \subseteq Nat
            /\ \A y \in Nat : y \in V <=> y > 0 /\ y + n \in X
        BY <1>5, <1>6, <2>1, <3>1

      <4>2. QED
        BY ONLY <4>1, RankRest, Zenon
    <3>2. QED
      BY <3>1
  <2>3. QED
    BY <1>7, <2>2
<1>10. /\ RetiredStores(i) \in Nat /\ RetiredStores(i) <= AliveStores(i)
       /\ AliveStores(i) \in Nat /\ AliveStores(i) <= Cardinality(Stores)
  <2>1. R + 1 \in Nat /\ Alive(i) + 1 \in Nat /\ R + 1 <= Alive(i) + 1
    BY <1>1, <1>2 DEF R
  <2>2. Below(Stores, R + 1) \in SUBSET Below(Stores, Alive(i) + 1)
    BY <2>1, StoresFinite DEF Below
  <2>3. IsFiniteSet(Below(Stores, Alive(i) + 1))
    BY <2>1, StoresFinite
  <2>4. RetiredStores(i) <= AliveStores(i)
    BY <2>2, <2>3, FS_Subset DEF RetiredStores, AliveStores, R
  <2>5. QED
    BY <2>1, <2>4, StoresFinite DEF RetiredStores, AliveStores, R
<1>11. QED
  BY <1>6, <1>8, <1>9, <1>10 DEF R, U, W


-----------------------------------------------------------------------------
(* Places of the store ring.                                               *)
LEMMA RingForm ==
  ASSUME NEW c, CountForm(c)
  PROVE  /\ NumSq \in Nat \ {0} /\ \A p \in 0 .. NumSq - 1 : RingRow(p) \in 0 .. NumSq - 1
         /\ \A p, q \in 0 .. NumSq - 1 : RingRow(p) = RingRow(q) => p = q
         /\ \A n \in 0 .. NumSq - 1 : \E p \in 0 .. NumSq - 1 : n = RingRow(p)
         /\ RingRow(0) = sqHead
<1>1. NumSq \in Nat \ {0} /\ sqHead \in 0 .. NumSq - 1
  BY Sizes DEF CountForm
<1>2. \A p \in 0 .. NumSq - 1 : p \in 0 .. NumSq
  BY <1>1
<1>3. \A p \in 0 .. NumSq - 1 : RingRow(p) \in 0 .. NumSq - 1
  BY <1>1, <1>2, RingSum DEF RingRow
<1>4. ASSUME NEW p \in 0 .. NumSq - 1, NEW q \in 0 .. NumSq - 1, RingRow(p) = RingRow(q) PROVE p = q
  <2>1. p \in Nat /\ q \in Nat
    BY <1>1
  <2>2. p < q => RingRow(p) # RingRow(q)
    BY <1>1, <2>1, RingDistinct DEF RingRow
  <2>3. q < p => RingRow(q) # RingRow(p)
    BY <1>1, <2>1, RingDistinct DEF RingRow
  <2>4. QED
    BY <1>4, <2>1, <2>2, <2>3
<1>5. \A n \in 0 .. NumSq - 1 : \E p \in 0 .. NumSq - 1 : n = RingRow(p)
  BY <1>1, RingCover DEF RingRow
<1>6. RingRow(0) = sqHead
  BY <1>1 DEF RingRow
<1>7. QED
  BY <1>1, <1>3, <1>4, <1>5, <1>6

(* Places of the stores: behind the committed ones, one for each, and in   *)
(* front of a cut for the stores in front of it.                           *)
LEMMA PlaceForm ==
  ASSUME RobForm, NEW c, CountForm(c)
  PROVE  /\ \A k \in Stores : /\ Place(c, k) \in 0 .. NumSq - 1 /\ Place(c, k) \in Nat
                              /\ c <= Place(c, k) /\ Place(c, k) < c + Cardinality(Stores)
         /\ \A j, k \in Stores : Place(c, j) = Place(c, k) => j = k
         /\ \A p \in Nat : c <= p /\ p < c + Cardinality(Stores) => \E k \in Stores : p = Place(c, k)
         /\ \A k \in Stores : \A a \in Nat :
              Place(c, k) < c + Cardinality(Below(Stores, a + 1)) <=> k <= a
<1>1. /\ c \in Nat /\ c + Cardinality(Stores) <= NumSq /\ NumSq \in Nat
      /\ Stores \subseteq Nat /\ IsFiniteSet(Stores) /\ Cardinality(Stores) \in Nat
  BY StoresFinite, Sizes DEF CountForm
<1>2. \A k \in Stores : /\ Cardinality(Below(Stores, k)) \in Nat
                        /\ Cardinality(Below(Stores, k)) < Cardinality(Stores)
  BY <1>1, RankBound
<1>3. \A k \in Stores : /\ Place(c, k) \in 0 .. NumSq - 1 /\ Place(c, k) \in Nat
                        /\ c <= Place(c, k) /\ Place(c, k) < c + Cardinality(Stores)
  BY <1>1, <1>2 DEF Place
<1>4. ASSUME NEW j \in Stores, NEW k \in Stores, Place(c, j) = Place(c, k) PROVE j = k
  <2>1. Cardinality(Below(Stores, j)) = Cardinality(Below(Stores, k))
    BY <1>1, <1>2, <1>4 DEF Place
  <2>2. QED
    BY <1>1, <2>1, RankInjective
<1>5. ASSUME NEW p \in Nat, c <= p, p < c + Cardinality(Stores) PROVE \E k \in Stores : p = Place(c, k)
  <2>1. p - c \in Nat /\ p - c < Cardinality(Stores) /\ p = c + (p - c)
    BY <1>1, <1>5
  <2>2. PICK k \in Stores : Cardinality(Below(Stores, k)) = p - c
    BY <1>1, <2>1, RankExists
  <2>3. QED
    BY <2>1, <2>2 DEF Place
<1>6. ASSUME NEW k \in Stores, NEW a \in Nat
      PROVE  Place(c, k) < c + Cardinality(Below(Stores, a + 1)) <=> k <= a
  <2>1. /\ Cardinality(Below(Stores, k)) < Cardinality(Below(Stores, a + 1)) <=> k <= a
        /\ Cardinality(Below(Stores, k)) \in Nat /\ Cardinality(Below(Stores, a + 1)) \in Nat
    BY <1>1, RankCut
  <2>2. QED
    BY <1>1, <2>1 DEF Place
<1>7. QED
  BY <1>3, <1>4, <1>5, <1>6

(* Where a place of the ring lies.                                         *)
LEMMA PlaceCases ==
  ASSUME RobForm, NEW c, CountForm(c), NEW p \in 0 .. NumSq - 1
  PROVE  p < c \/ (\E k \in Stores : p = Place(c, k)) \/ c + Cardinality(Stores) <= p
<1>1. c \in Nat /\ Cardinality(Stores) \in Nat /\ NumSq \in Nat /\ p \in Nat
  BY StoresFinite, Sizes DEF CountForm
<1>2. QED
  BY <1>1, PlaceForm

(* No store's row is free.                                                 *)
LEMMA RowTaken ==
  ASSUME NEW e \in StoreRow
  PROVE  /\ e # NoRow /\ e.pc \in PcsOfKind("st") /\ e.rob \in 0 .. NumRob - 1
         /\ e.m \in BOOLEAN /\ e.committed \in BOOLEAN /\ e.ready \in BOOLEAN /\ e.wait \in BOOLEAN
         /\ e.exec \in BOOLEAN
<1>1. StoreRow \subseteq [pc : Nat, rob : Nat, m : BOOLEAN, exec : BOOLEAN, committed : BOOLEAN,
                          ready : BOOLEAN, wait : BOOLEAN]
  <2>1. PcsOfKind("st") \subseteq Nat /\ 0 .. NumRob - 1 \subseteq Nat
    <3>1. Pc \subseteq Nat /\ NumRob \in Nat
      BY Sizes
    <3>2. PcsOfKind("st") \subseteq Pc
      BY Zenon DEF PcsOfKind
    <3>3. 0 .. NumRob - 1 \subseteq Nat
      BY <3>1
    <3>4. QED
      BY <3>1, <3>2, <3>3
  <2>2. QED
    BY <2>1 DEF StoreRow
<1>2. e # NoRow
  BY <1>1, FreeRow
<1>3. QED
  BY <1>2 DEF StoreRow

(* Rows by their place.                                                    *)
LEMMA RowForm ==
  ASSUME RobForm, NEW c, StoresAt(c)
  PROVE  /\ \A p \in 0 .. NumSq - 1 : p < c =>
              /\ RingRow(p) \in SqRows /\ sq[RingRow(p)] \in StoreRow
              /\ sq[RingRow(p)].committed /\ ~sq[RingRow(p)].m
         /\ \A k \in Stores :
              /\ RingRow(Place(c, k)) \in SqRows /\ sq[RingRow(Place(c, k))] \in StoreRow
              /\ ~sq[RingRow(Place(c, k))].committed
         /\ \A p \in 0 .. NumSq - 1 : RingRow(p) \in SqRows <=> p < c + Cardinality(Stores)
<1>1. /\ \A p \in 0 .. NumSq - 1 : RingRow(p) \in 0 .. NumSq - 1
      /\ NumSq \in Nat /\ c \in Nat /\ Cardinality(Stores) \in Nat
  BY RingForm, StoresFinite, Sizes DEF StoresAt, CountForm
<1>2. \A n \in 0 .. NumSq - 1 : n \in SqRows <=> sq[n] # NoRow
  BY DEF SqRows
<1>3. ASSUME NEW p \in 0 .. NumSq - 1, p < c
      PROVE  /\ RingRow(p) \in SqRows /\ sq[RingRow(p)] \in StoreRow
             /\ sq[RingRow(p)].committed /\ ~sq[RingRow(p)].m
  BY <1>1, <1>2, <1>3, RowTaken DEF StoresAt, CommittedForm
<1>4. ASSUME NEW k \in Stores
      PROVE  /\ RingRow(Place(c, k)) \in SqRows /\ sq[RingRow(Place(c, k))] \in StoreRow
             /\ ~sq[RingRow(Place(c, k))].committed
  <2>1. sq[RingRow(Place(c, k))] \in StoreRow /\ ~sq[RingRow(Place(c, k))].committed
    BY <1>4 DEF StoresAt, HeldForm
  <2>2. Place(c, k) \in 0 .. NumSq - 1
    BY PlaceForm DEF StoresAt
  <2>3. QED
    BY <1>1, <1>2, <2>1, <2>2, RowTaken
<1>5. ASSUME NEW p \in 0 .. NumSq - 1 PROVE RingRow(p) \in SqRows <=> p < c + Cardinality(Stores)
  <2>1. CASE p < c
    BY <1>1, <1>3, <2>1
  <2>2. CASE \E k \in Stores : p = Place(c, k)
    <3>1. PICK k \in Stores : p = Place(c, k)
      BY <2>2
    <3>2. p < c + Cardinality(Stores)
      BY <3>1, PlaceForm DEF StoresAt
    <3>3. QED
      BY <1>4, <3>1, <3>2
  <2>3. CASE c + Cardinality(Stores) <= p
    <3>1. sq[RingRow(p)] = NoRow
      BY <2>3 DEF StoresAt, FreeForm
    <3>2. QED
      BY <1>1, <1>2, <2>3, <3>1
  <2>4. QED
    BY <2>1, <2>2, <2>3, PlaceCases DEF StoresAt
<1>6. QED
  BY <1>3, <1>4, <1>5

(* The first places of the ring, counted.                                  *)
LEMMA RowsCount ==
  ASSUME NEW c, CountForm(c), NEW T, T \subseteq 0 .. NumSq - 1, NEW m \in 0 .. NumSq,
         \A p \in 0 .. NumSq - 1 : RingRow(p) \in T <=> p < m
  PROVE  Cardinality(T) = m
<1>1. /\ NumSq \in Nat \ {0} /\ sqHead \in 0 .. NumSq - 1
      /\ \A p \in 0 .. NumSq - 1 : RingRow(p) \in 0 .. NumSq - 1
      /\ \A n \in 0 .. NumSq - 1 : \E p \in 0 .. NumSq - 1 : n = RingRow(p)
  BY RingForm DEF CountForm
<1> DEFINE S == {(sqHead + p) % NumSq : p \in 0 .. m - 1}
<1>2. \A p \in 0 .. NumSq - 1 : p < m <=> p \in 0 .. m - 1
  BY <1>1
<1>3. \A p \in 0 .. m - 1 : p \in 0 .. NumSq - 1
  BY <1>1
<1>4. T = S
  <2>1. \A n \in T : n \in S
    BY <1>1, <1>2 DEF RingRow
  <2>2. \A n \in S : n \in T
    BY <1>2, <1>3 DEF RingRow
  <2>3. QED
    BY <2>1, <2>2
<1>5. Cardinality(S) = m
  BY <1>1, RingCount
<1>6. QED
  BY <1>4, <1>5


-----------------------------------------------------------------------------
(* Recovery's cut of the ring: committed rows stay, others while their     *)
(* store does, and what stays is counted.                                  *)
LEMMA KeptForm ==
  ASSUME RobForm, MaskForm, NEW c, StoresAt(c), NEW i \in Inputs, Sensible(i)
  PROVE  /\ \A p \in 0 .. NumSq - 1 : SqKeeps(RingRow(p), i) <=> p < c + AliveStores(i)
         /\ Kept(i) = c + AliveStores(i)
         /\ AliveStores(i) \in Nat /\ AliveStores(i) <= Cardinality(Stores)
         /\ ~Recovers(i) => AliveStores(i) = Cardinality(Stores)
<1>1. /\ Alive(i) \in Nat /\ \A k \in DOMAIN rob : Killed(rob[k].m, i) <=> k > Alive(i)
      /\ Len(rob) \in Nat /\ DOMAIN rob = 1 .. Len(rob) /\ (~Recovers(i) => Alive(i) = Len(rob))
  BY AliveForm
<1>2. /\ AliveStores(i) \in Nat /\ AliveStores(i) <= Cardinality(Stores) /\ Cardinality(Stores) \in Nat
      /\ c \in Nat /\ c + Cardinality(Stores) <= NumSq /\ NumSq \in Nat
      /\ DOMAIN sq = 0 .. NumSq - 1
  <2>1. Alive(i) + 1 \in Nat
    BY <1>1
  <2>2. QED
    BY <2>1, StoresFinite, Sizes DEF AliveStores, StoresAt, CountForm
<1>3. ~Recovers(i) => AliveStores(i) = Cardinality(Stores)
  <2>1. SUFFICES ASSUME Alive(i) = Len(rob) PROVE Below(Stores, Alive(i) + 1) = Stores
    BY <1>1 DEF AliveStores
  <2>2. \A k \in Stores : k < Alive(i) + 1
    BY <1>1, <2>1, StoresFinite
  <2>3. QED
    BY <2>2 DEF Below
<1>4. ASSUME NEW p \in 0 .. NumSq - 1 PROVE SqKeeps(RingRow(p), i) <=> p < c + AliveStores(i)
  <2>1. CASE p < c
    <3>1. sq[RingRow(p)] # NoRow /\ sq[RingRow(p)].committed /\ ~sq[RingRow(p)].m
      BY <2>1, RowForm DEF SqRows
    <3>2. QED
      BY <1>2, <2>1, <3>1 DEF SqKeeps
  <2>2. CASE \E k \in Stores : p = Place(c, k)
    <3>1. PICK k \in Stores : p = Place(c, k)
      BY <2>2
    <3>2. /\ sq[RingRow(p)] # NoRow /\ ~sq[RingRow(p)].committed
          /\ sq[RingRow(p)].m <=> rob[k].m
      BY <3>1, RowForm DEF SqRows, StoresAt, HeldForm
    <3>3. k \in DOMAIN rob
      BY DEF Stores, OfKind
    <3>4. SqKeeps(RingRow(p), i) <=> ~i.flush /\ ~Killed(rob[k].m, i)
      BY <3>2 DEF SqKeeps, Killed
    <3>5. SqKeeps(RingRow(p), i) <=> ~(k > Alive(i))
      BY <1>1, <3>3, <3>4 DEF Killed
    <3>6. p < c + AliveStores(i) <=> k <= Alive(i)
      BY <1>1, <3>1, PlaceForm DEF StoresAt, AliveStores
    <3>7. QED
      BY <1>1, <3>3, <3>5, <3>6
  <2>3. CASE c + Cardinality(Stores) <= p
    <3>1. sq[RingRow(p)] = NoRow
      BY <2>3 DEF StoresAt, FreeForm
    <3>2. ~(p < c + AliveStores(i))
      BY <1>2, <2>3
    <3>3. QED
      BY <3>1, <3>2 DEF SqKeeps
  <2>4. QED
    BY <2>1, <2>2, <2>3, PlaceCases DEF StoresAt
<1>5. Kept(i) = c + AliveStores(i)
  <2> DEFINE T == {n \in SqRows : SqKeeps(n, i)}
  <2> DEFINE m == c + AliveStores(i)
  <2>1. T \subseteq 0 .. NumSq - 1 /\ m \in 0 .. NumSq
    BY <1>2 DEF SqRows
  <2>2. \A p \in 0 .. NumSq - 1 : RingRow(p) \in T <=> p < m
    <3>1. SUFFICES ASSUME NEW p \in 0 .. NumSq - 1 PROVE RingRow(p) \in T <=> p < m
      OBVIOUS
    <3>2. RingRow(p) \in T <=> SqKeeps(RingRow(p), i)
      <4>1. RingRow(p) \in 0 .. NumSq - 1
        BY RingForm DEF StoresAt
      <4>2. QED
        BY <4>1 DEF SqRows, SqKeeps
    <3>3. QED
      BY <1>4, <3>2
  <2> HIDE DEF T, m
  <2>3. Cardinality(T) = m
    BY <2>1, <2>2, RowsCount DEF StoresAt
  <2>4. QED
    BY <2>3 DEF T, m, Kept
<1>6. QED
  BY <1>2, <1>3, <1>4, <1>5

(* The stores that retire are the first behind the committed ones.         *)
LEMMA CommitsForm ==
  ASSUME RobForm, MaskForm, NEW c, StoresAt(c), NEW i \in Inputs, Sensible(i)
  PROVE  \A p \in 0 .. NumSq - 1 :
           RingRow(p) \in SqCommitted(i) <=> c <= p /\ p < c + RetiredStores(i)
<1> DEFINE R == Retired(i)
<1>1. R \in Nat /\ R <= Len(rob) /\ Len(rob) \in Nat /\ DOMAIN rob = 1 .. Len(rob)
  BY RetiredForm, SequenceIs DEF RobForm
<1>2. c \in Nat /\ Cardinality(Stores) \in Nat /\ NumSq \in Nat /\ RetiredStores(i) \in Nat
      /\ RetiredStores(i) <= Cardinality(Stores) /\ c + Cardinality(Stores) <= NumSq
  <2>1. R + 1 \in Nat
    BY <1>1
  <2>2. QED
    BY <2>1, StoresFinite, Sizes DEF RetiredStores, StoresAt, CountForm
<1>3. \A k \in Stores : /\ Place(c, k) \in 0 .. NumSq - 1 /\ c <= Place(c, k)
                        /\ Place(c, k) < c + RetiredStores(i) <=> k <= R
  BY <1>1, PlaceForm DEF StoresAt, RetiredStores
<1>4. \A k \in Stores : rob[k].q = RingRow(Place(c, k)) /\ k \in 1 .. Len(rob)
  BY StoresFinite DEF StoresAt, HeldForm
<1>5. \A n : n \in SqCommitted(i) <=> \E k \in Stores : k <= R /\ n = rob[k].q
  <2>1. \A k : k \in 1 .. R /\ Op(rob[k].pc) = "st" <=> k \in Stores /\ k <= R
    BY <1>1 DEF Stores, OfKind
  <2>2. QED
    BY <2>1 DEF SqCommitted
<1>6. ASSUME NEW p \in 0 .. NumSq - 1
      PROVE  RingRow(p) \in SqCommitted(i) <=> c <= p /\ p < c + RetiredStores(i)
  <2>1. ASSUME RingRow(p) \in SqCommitted(i) PROVE c <= p /\ p < c + RetiredStores(i)
    <3>1. PICK k \in Stores : k <= R /\ RingRow(p) = RingRow(Place(c, k))
      BY <1>4, <1>5, <2>1
    <3>2. p = Place(c, k)
      BY <1>3, <3>1, RingForm DEF StoresAt
    <3>3. QED
      BY <1>3, <3>1, <3>2
  <2>2. ASSUME c <= p, p < c + RetiredStores(i) PROVE RingRow(p) \in SqCommitted(i)
    <3>1. p \in Nat /\ p < c + Cardinality(Stores)
      BY <1>2, <2>2
    <3>2. PICK k \in Stores : p = Place(c, k)
      BY <2>2, <3>1, PlaceForm DEF StoresAt
    <3>3. k <= R
      BY <1>3, <2>2, <3>2
    <3>4. QED
      BY <1>4, <1>5, <3>2, <3>3
  <2>3. QED
    BY <2>1, <2>2
<1>7. QED
  BY <1>6

-----------------------------------------------------------------------------
(* The head of the store ring moves by the store that is written.          *)
Drained == IF PsWrite THEN 1 ELSE 0

LEMMA RingNext ==
  ASSUME NEW c, CountForm(c), NEW i \in Inputs, StoreQueue(i)
  PROVE  /\ Drained \in {0, 1} /\ sqHead' \in 0 .. NumSq - 1 /\ DOMAIN sq' = 0 .. NumSq - 1
         /\ \A r \in Nat : r + Drained <= NumSq => RingRow(r)' = RingRow(r + Drained)
<1>1. NumSq \in Nat \ {0} /\ sqHead \in 0 .. NumSq - 1
  BY Sizes DEF CountForm
<1>2. DOMAIN sq' = 0 .. NumSq - 1
  BY DEF StoreQueue
<1>3. sqHead' = (sqHead + Drained) % NumSq
  <2>1. sqHead' = IF PsWrite THEN (sqHead + 1) % NumSq ELSE sqHead
    BY DEF StoreQueue
  <2>2. sqHead = (sqHead + 0) % NumSq
    BY <1>1
  <2>3. QED
    BY <2>1, <2>2, Zenon DEF Drained
<1>4. Drained \in {0, 1}
  BY DEF Drained
<1>5. ASSUME NEW d \in {0, 1}, d = Drained, NEW r \in Nat, r + d <= NumSq
      PROVE  /\ (sqHead + d) % NumSq \in 0 .. NumSq - 1
             /\ (((sqHead + d) % NumSq) + r) % NumSq = (sqHead + (r + d)) % NumSq
  BY <1>1, <1>5, RingTurn
<1>6. sqHead' \in 0 .. NumSq - 1
  <2>1. 0 + Drained <= NumSq /\ 0 \in Nat
    BY <1>1, <1>4
  <2>2. QED
    BY <1>3, <1>4, <1>5, <2>1
<1>7. ASSUME NEW r \in Nat, r + Drained <= NumSq PROVE RingRow(r)' = RingRow(r + Drained)
  <2>1. RingRow(r)' = (sqHead' + r) % NumSq
    BY DEF RingRow
  <2>2. RingRow(r + Drained) = (sqHead + (r + Drained)) % NumSq
    BY DEF RingRow
  <2>3. (((sqHead + Drained) % NumSq) + r) % NumSq = (sqHead + (r + Drained)) % NumSq
    BY <1>4, <1>5, <1>7
  <2>4. QED
    BY <1>3, <2>1, <2>2, <2>3
<1>8. QED
  BY <1>2, <1>4, <1>6, <1>7

(* What a cycle does to a row that stays.                                  *)
LEMMA SqRowForm ==
  ASSUME NEW i \in Inputs, NEW n, sq[n] \in StoreRow
  PROVE  LET e == SqRow(n, i) IN
         /\ e \in StoreRow /\ e.pc = sq[n].pc /\ e.rob = sq[n].rob
         /\ e.committed <=> sq[n].committed \/ n \in SqCommitted(i)
         /\ e.m <=> sq[n].m /\ i.res = "none" /\ ~i.flush
         /\ e.ready \/ e.wait =>
              /\ ~i.flush
              /\ \/ StoreDone(i) /\ pipe[6].q = n /\ pipe[6].dec = "retry"
                 \/ /\ ~(StoreDone(i) /\ pipe[6].q = n)
                    /\ ~(SqReplay(i) /\ n = OldestOf(SqReady, SqAge))
                    /\ sq[n].ready \/ sq[n].wait
<1> DEFINE r == sq[n]
<1> DEFINE mask == Clean(r.m, i) /\ ~i.flush
<1> DEFINE com == r.committed \/ n \in SqCommitted(i)
<1> DEFINE rdy == r.ready \/ r.wait
<1> DEFINE woken == [r EXCEPT !.m = mask, !.ready = rdy, !.committed = com]
<1> DEFINE rep == SqReplay(i) /\ n = OldestOf(SqReady, SqAge)
<1> DEFINE replayed == IF rep THEN [woken EXCEPT !.ready = FALSE, !.wait = FALSE] ELSE woken
<1> DEFINE hit == StoreDone(i) /\ pipe[6].q = n
<1> DEFINE again == pipe[6].dec = "retry"
<1> DEFINE ok == pipe[6].dec = "ok"
<1> DEFINE e == SqRow(n, i)
<1>1. e = IF i.flush THEN [woken EXCEPT !.ready = FALSE, !.wait = FALSE]
          ELSE IF hit THEN [replayed EXCEPT !.wait = again, !.ready = again, !.exec = @ \/ ok]
          ELSE replayed
  BY Zenon DEF SqRow
<1>2. r \in StoreRow /\ mask \in BOOLEAN /\ com \in BOOLEAN /\ rdy \in BOOLEAN /\ again \in BOOLEAN /\ ok \in BOOLEAN
  BY DEF Clean
<1>3. r.exec \in BOOLEAN
  BY <1>2, RowTaken
<1>4. i.flush \in BOOLEAN
  BY InputsForm
<1> HIDE DEF r, mask, com, rdy, again, ok, rep, hit, e
<1>5. /\ woken \in StoreRow /\ woken.pc = r.pc /\ woken.rob = r.rob /\ woken.m = mask
      /\ woken.committed = com /\ woken.ready = rdy /\ woken.wait = r.wait /\ woken.exec = r.exec
  BY <1>2 DEF StoreRow
<1> DEFINE w == woken
<1>6. /\ w \in StoreRow /\ w.pc = r.pc /\ w.rob = r.rob /\ w.m = mask
      /\ w.committed = com /\ w.ready = rdy /\ w.wait = r.wait
  BY <1>5
<1>7. /\ replayed = IF rep THEN [w EXCEPT !.ready = FALSE, !.wait = FALSE] ELSE w
      /\ e = IF i.flush THEN [w EXCEPT !.ready = FALSE, !.wait = FALSE]
             ELSE IF hit THEN [replayed EXCEPT !.wait = again, !.ready = again, !.exec = @ \/ ok]
             ELSE replayed
  BY <1>1
<1> HIDE DEF w
<1> DEFINE p == replayed
<1> HIDE DEF p
<1>8. /\ p = IF rep THEN [w EXCEPT !.ready = FALSE, !.wait = FALSE] ELSE w
      /\ e = IF i.flush THEN [w EXCEPT !.ready = FALSE, !.wait = FALSE]
             ELSE IF hit THEN [p EXCEPT !.wait = again, !.ready = again, !.exec = @ \/ ok]
             ELSE p
  BY <1>7 DEF p
<1>9. /\ p \in StoreRow /\ p.pc = r.pc /\ p.rob = r.rob /\ p.m = mask /\ p.committed = com
      /\ p.ready \/ p.wait => ~rep /\ (rdy \/ r.wait)
  BY <1>6, <1>8 DEF StoreRow
<1>10. CASE i.flush
  <2>1. e = [w EXCEPT !.ready = FALSE, !.wait = FALSE]
    BY <1>8, <1>10
  <2>2. e \in StoreRow /\ e.pc = r.pc /\ e.rob = r.rob /\ e.m = mask /\ e.committed = com /\ ~e.ready /\ ~e.wait
    BY <1>6, <2>1 DEF StoreRow
  <2>3. QED
    BY <2>2 DEF mask, com, Clean, r, e
<1>11. CASE ~i.flush /\ hit
  <2> DEFINE x == p.exec \/ ok
  <2>1. e = [p EXCEPT !.wait = again, !.ready = again, !.exec = x] /\ x \in BOOLEAN
    BY <1>8, <1>11
  <2> HIDE DEF x
  <2>2. e \in StoreRow /\ e.pc = r.pc /\ e.rob = r.rob /\ e.m = mask /\ e.committed = com /\ e.ready = again /\ e.wait = again
    BY <1>2, <1>9, <2>1 DEF StoreRow
  <2>3. QED
    BY <1>11, <2>2 DEF mask, com, Clean, r, e, again, hit
<1>12. CASE ~i.flush /\ ~hit
  <2>1. e = p
    BY <1>8, <1>12
  <2>2. QED
    BY <1>9, <1>12, <2>1 DEF mask, com, Clean, r, e, hit, rep, rdy
<1>13. QED
  BY <1>4, <1>10, <1>11, <1>12

(* The rows of the next ring, by their place in the present one.           *)
LEMMA RowsNext ==
  ASSUME RobForm, MaskForm, NEW c, StoresAt(c), NEW i \in Inputs, Sensible(i), StoreQueue(i),
         NEW p \in 0 .. NumSq - 1
  PROVE  /\ Allocs(i, "st") =>
              /\ AliveStores(i) = Cardinality(Stores) /\ c + AliveStores(i) < NumSq
              /\ sqTail = RingRow(c + AliveStores(i))
              /\ p = c + AliveStores(i) =>
                   sq'[RingRow(p)] = [pc |-> fetch, rob |-> Index(Len(rob) + 1), m |-> NewMask(i),
                                      exec |-> FALSE, committed |-> FALSE, ready |-> FALSE, wait |-> FALSE]
         /\ p < c + AliveStores(i) /\ ~(PsWrite /\ p = 0) => sq'[RingRow(p)] = SqRow(RingRow(p), i)
         /\ (PsWrite /\ p = 0 /\ c > 0) \/ (p >= c + AliveStores(i) /\ ~(Allocs(i, "st") /\ p = c + AliveStores(i)))
              => sq'[RingRow(p)] = NoRow
<1> DEFINE n == RingRow(p)
<1>1. /\ n \in 0 .. NumSq - 1 /\ NumSq \in Nat \ {0}
      /\ \A a, b \in 0 .. NumSq - 1 : RingRow(a) = RingRow(b) => a = b
      /\ RingRow(0) = sqHead
  BY RingForm DEF StoresAt
<1>2. /\ SqKeeps(n, i) <=> p < c + AliveStores(i)
      /\ AliveStores(i) \in Nat /\ (~Recovers(i) => AliveStores(i) = Cardinality(Stores))
  BY KeptForm
<1>3. c \in Nat /\ sqCount = c + Cardinality(Stores) /\ sqTail = RingRow(sqCount)
  BY DEF StoresAt, CountForm
<1>4. Allocs(i, "st") => /\ AliveStores(i) = Cardinality(Stores) /\ c + AliveStores(i) < NumSq
                         /\ sqTail = RingRow(c + AliveStores(i))
  <2>1. SUFFICES ASSUME Allocs(i, "st")
                 PROVE  AliveStores(i) = Cardinality(Stores) /\ sqCount < NumSq
    BY <1>3
  <2>2. ~Recovers(i) /\ Room /\ Op(fetch) = "st"
    BY <2>1, InputsForm DEF Allocs, Sensible
  <2>3. sqCount < NumSq
    BY <2>2 DEF Room
  <2>4. QED
    BY <1>2, <2>2, <2>3
<1>5. Allocs(i, "st") => (n = sqTail <=> p = c + AliveStores(i))
  <2>1. SUFFICES ASSUME Allocs(i, "st") PROVE n = sqTail <=> p = c + AliveStores(i)
    OBVIOUS
  <2>2. c + AliveStores(i) \in 0 .. NumSq - 1
    BY <1>1, <1>2, <1>3, <1>4, <2>1
  <2>3. QED
    BY <1>1, <1>4, <2>1, <2>2
<1>6. n = sqHead <=> p = 0
  <2>1. 0 \in 0 .. NumSq - 1
    BY <1>1
  <2>2. QED
    BY <1>1, <2>1
<1> HIDE DEF n
<1>7. sq'[n] = IF Allocs(i, "st") /\ n = sqTail
                THEN [pc |-> fetch, rob |-> Index(Len(rob) + 1), m |-> NewMask(i), exec |-> FALSE,
                      committed |-> FALSE, ready |-> FALSE, wait |-> FALSE]
              ELSE IF ~SqKeeps(n, i) \/ (PsWrite /\ n = sqHead) THEN NoRow
              ELSE SqRow(n, i)
  BY <1>1, Zenon DEF StoreQueue
<1>8. ASSUME Allocs(i, "st"), p = c + AliveStores(i)
      PROVE  sq'[n] = [pc |-> fetch, rob |-> Index(Len(rob) + 1), m |-> NewMask(i), exec |-> FALSE,
                       committed |-> FALSE, ready |-> FALSE, wait |-> FALSE]
  BY <1>5, <1>7, <1>8, Zenon
<1>9. ASSUME p < c + AliveStores(i), ~(PsWrite /\ p = 0) PROVE sq'[n] = SqRow(n, i)
  <2>1. ~(Allocs(i, "st") /\ n = sqTail)
    BY <1>2, <1>3, <1>5, <1>9
  <2>2. QED
    BY <1>2, <1>6, <1>7, <1>9, <2>1, Zenon
<1>10. ASSUME PsWrite, p = 0, c > 0 PROVE sq'[n] = NoRow
  <2>1. ~(Allocs(i, "st") /\ n = sqTail)
    BY <1>2, <1>3, <1>5, <1>10
  <2>2. QED
    BY <1>6, <1>7, <1>10, <2>1, Zenon
<1>11. ASSUME p >= c + AliveStores(i), ~(Allocs(i, "st") /\ p = c + AliveStores(i)) PROVE sq'[n] = NoRow
  <2>1. ~(Allocs(i, "st") /\ n = sqTail)
    BY <1>5, <1>11
  <2>2. ~SqKeeps(n, i)
    BY <1>2, <1>3, <1>11
  <2>3. QED
    BY <1>7, <2>1, <2>2, Zenon
<1>12. QED
  BY <1>4, <1>8, <1>9, <1>10, <1>11 DEF n

(* The places of the next ring: c1 stores are committed then.              *)
LEMMA PlaceNext ==
  ASSUME RobForm, MaskForm, NEW c, StoresAt(c), NEW i \in Inputs, Sensible(i), Rob(i),
         NEW c1, c1 = c + RetiredStores(i) - Drained
  PROVE  /\ Drained \in {0, 1} /\ Drained <= c /\ c \in Nat /\ c1 \in Nat
         /\ c1 + Cardinality(Stores') = c + Cardinality(WindowStores(i)) - Drained
         /\ Cardinality(Stores') \in Nat /\ Cardinality(WindowStores(i)) \in Nat
         /\ c + Cardinality(WindowStores(i)) <= NumSq
         /\ \A x \in Nat : x > 0 =>
              /\ Place(c1, x)' \in Nat
              /\ Place(c1, x)' + Drained = c + Cardinality(Below(WindowStores(i), x + Retired(i)))
         /\ \A x \in Nat : x > 0 /\ x + Retired(i) <= Alive(i) + 1 =>
              Place(c1, x)' + Drained = Place(c, x + Retired(i))
<1> DEFINE W == WindowStores(i)
<1> DEFINE R == Retired(i)
<1>1. Drained \in {0, 1} /\ Drained <= c /\ c \in Nat
  <2>1. c \in Nat
    BY DEF StoresAt, CountForm
  <2>2. PsWrite => c > 0
    BY DEF PsWrite, StoresAt, DrainForm, DrainsInPipe
  <2>3. QED
    BY <2>1, <2>2 DEF Drained
<1>2. /\ RetiredStores(i) \in Nat /\ Cardinality(Stores') = Cardinality(W) - RetiredStores(i)
      /\ \A x \in Nat : x > 0 =>
            Cardinality(Below(Stores', x)) = Cardinality(Below(W, x + R)) - RetiredStores(i)
      /\ RetiredStores(i) <= AliveStores(i) /\ AliveStores(i) \in Nat
      /\ AliveStores(i) <= Cardinality(Stores)
  BY StoresNext
<1>3. /\ Cardinality(W) = AliveStores(i) + (IF Allocs(i, "st") THEN 1 ELSE 0)
      /\ W \subseteq Nat /\ IsFiniteSet(W)
      /\ \A k \in Nat : k <= Alive(i) + 1 => Below(W, k) = Below(Stores, k)
  BY WindowForm
<1>4. Cardinality(Stores) \in Nat /\ c + Cardinality(Stores) <= NumSq /\ NumSq \in Nat
      /\ sqCount = c + Cardinality(Stores)
  BY StoresFinite, Sizes DEF StoresAt, CountForm
<1>5. Allocs(i, "st") => sqCount < NumSq
  BY InputsForm DEF Allocs, Room
<1>6. c + Cardinality(W) <= NumSq /\ Cardinality(W) \in Nat
  BY <1>1, <1>2, <1>3, <1>4, <1>5
<1>7. c1 \in Nat /\ c1 + Cardinality(Stores') = c + Cardinality(W) - Drained /\ Cardinality(Stores') \in Nat
  BY <1>1, <1>2, <1>3, <1>6
<1>8. R \in Nat
  BY RetiredForm
<1>9. ASSUME NEW x \in Nat, x > 0
      PROVE  /\ Place(c1, x)' \in Nat
             /\ Place(c1, x)' + Drained = c + Cardinality(Below(W, x + R))
  <2>1. Place(c1, x)' = c1 + Cardinality(Below(Stores', x))
    BY DEF Place, Below
  <2>2. Cardinality(Below(Stores', x)) = Cardinality(Below(W, x + R)) - RetiredStores(i)
    BY <1>2, <1>9
  <2>3. IsFiniteSet(Below(W, x + R)) /\ Cardinality(Below(W, x + R)) \in Nat
    <3>1. Below(W, x + R) \in SUBSET W
      BY DEF Below
    <3>2. QED
      BY <1>3, <3>1, FS_Subset, FS_CardinalityType
  <2>4. Place(c1, x)' + Drained = c + Cardinality(Below(W, x + R))
    BY <1>1, <1>2, <2>1, <2>2, <2>3
  <2>5. Cardinality(Below(W, x + R)) >= RetiredStores(i)
    <3>1. R + 1 \in Nat /\ R + 1 <= x + R /\ R <= Alive(i)
      BY <1>8, <1>9, AliveForm
    <3>2. Below(W, R + 1) = Below(Stores, R + 1)
      <4>1. R + 1 <= Alive(i) + 1
        BY <1>8, <3>1, AliveForm
      <4>2. QED
        BY <1>3, <3>1, <4>1
    <3>3. Below(W, R + 1) \in SUBSET Below(W, x + R)
      BY <1>3, <1>8, <3>1 DEF Below
    <3>4. RetiredStores(i) = Cardinality(Below(W, R + 1))
      BY <3>2 DEF RetiredStores
    <3>5. Cardinality(Below(W, R + 1)) <= Cardinality(Below(W, x + R))
      BY <2>3, <3>3, FS_Subset
    <3>6. QED
      BY <1>2, <2>3, <3>4, <3>5
  <2>6. QED
    BY <1>2, <1>7, <2>1, <2>2, <2>3, <2>4, <2>5
<1>10. ASSUME NEW x \in Nat, x > 0, x + R <= Alive(i) + 1
       PROVE  Place(c1, x)' + Drained = Place(c, x + R)
  <2>1. Below(W, x + R) = Below(Stores, x + R)
    BY <1>3, <1>8, <1>10
  <2>2. QED
    BY <1>9, <1>10, <2>1 DEF Place
<1>11. QED
  BY <1>1, <1>6, <1>7, <1>9, <1>10 DEF W, R

(* Counter and tail of the next ring.                                      *)
LEMMA CountStep ==
  ASSUME RobForm, MaskForm, NEW c, StoresAt(c), NEW i \in Inputs, Sensible(i), Rob(i), StoreQueue(i),
         NEW c1, c1 = c + RetiredStores(i) - Drained
  PROVE  CountForm(c1)'
<1> DEFINE N == Cardinality(WindowStores(i))
<1> DEFINE d == Drained
<1>1. /\ d \in {0, 1} /\ d <= c /\ c \in Nat /\ c1 \in Nat /\ N \in Nat /\ Cardinality(Stores') \in Nat
      /\ c1 + Cardinality(Stores') = c + N - d /\ c + N <= NumSq
  BY PlaceNext
<1>2. /\ sqHead' \in 0 .. NumSq - 1 /\ DOMAIN sq' = 0 .. NumSq - 1
      /\ \A r \in Nat : r + d <= NumSq => RingRow(r)' = RingRow(r + d)
  BY RingNext DEF StoresAt
<1>3. N = AliveStores(i) + (IF Allocs(i, "st") THEN 1 ELSE 0)
  BY WindowForm
<1>4. /\ Kept(i) = c + AliveStores(i) /\ AliveStores(i) \in Nat
      /\ (~Recovers(i) => AliveStores(i) = Cardinality(Stores))
      /\ sqCount = c + Cardinality(Stores) /\ sqTail = RingRow(sqCount) /\ NumSq \in Nat \ {0}
      /\ sqHead \in 0 .. NumSq - 1
  BY KeptForm, Sizes DEF StoresAt, CountForm
<1>5. Allocs(i, "st") => ~Recovers(i) /\ sqCount < NumSq
  BY InputsForm DEF Allocs, Room, Sensible
<1> HIDE DEF N, d
<1>6. sqCount' = c + N - d
  <2>1. sqCount' = (IF Recovers(i) THEN Kept(i) ELSE sqCount) + (IF Allocs(i, "st") THEN 1 ELSE 0) - d
    BY DEF StoreQueue, d, Drained
  <2>2. (IF Recovers(i) THEN Kept(i) ELSE sqCount) = c + AliveStores(i)
    BY <1>4
  <2>3. QED
    BY <1>1, <1>3, <1>4, <2>1, <2>2
<1>7. sqTail' = RingRow(c + N)
  <2>1. sqTail' = SqTail(i)
    BY DEF StoreQueue
  <2>2. CASE i.flush
    <3>1. SqTail(i) = RingRow(Kept(i)) /\ Recovers(i)
      BY <2>2 DEF SqTail, RingRow, Recovers
    <3>2. QED
      BY <1>1, <1>3, <1>4, <1>5, <2>1, <3>1
  <2>3. CASE ~i.flush /\ i.res = "miss"
    <3>1. SqTail(i) = ck.sq /\ Recovers(i)
      BY <2>3 DEF SqTail, Recovers
    <3>2. Alive(i) \in OpenBranch /\ Alive(i) \in Nat
      BY <2>3, AliveForm
    <3>3. ck.sq = RingRow(Place(c, Alive(i)))
      BY <3>2 DEF StoresAt, SavedForm
    <3>4. Below(Stores, Alive(i) + 1) = Below(Stores, Alive(i))
      <4>1. Alive(i) \notin Stores
        BY <3>2 DEF OpenBranch, Stores, OfKind
      <4>2. \A x \in Stores : x < Alive(i) + 1 <=> x < Alive(i)
        <5>1. \A x \in Stores : x \in Nat /\ x # Alive(i)
          BY <4>1, StoresFinite
        <5>2. QED
          BY <3>2, <5>1
      <4>3. QED
        BY <4>2 DEF Below
    <3>5. Place(c, Alive(i)) = c + AliveStores(i)
      BY <3>4 DEF Place, AliveStores
    <3>6. c + N = c + AliveStores(i)
      BY <1>1, <1>3, <1>4, <1>5, <3>1
    <3>7. QED
      BY <2>1, <3>1, <3>3, <3>5, <3>6
  <2>4. CASE ~Recovers(i) /\ Allocs(i, "st")
    <3>1. SqTail(i) = (sqTail + 1) % NumSq
      BY <2>4 DEF SqTail, Recovers
    <3>2. sqCount \in 0 .. NumSq - 1 /\ c + N = sqCount + 1
      BY <1>1, <1>3, <1>4, <1>5, <2>4
    <3>3. (((sqHead + sqCount) % NumSq) + 1) % NumSq = (sqHead + (sqCount + 1)) % NumSq
      BY <1>4, <3>2, RingSucc
    <3>4. QED
      BY <1>4, <2>1, <3>1, <3>2, <3>3 DEF RingRow
  <2>5. CASE ~Recovers(i) /\ ~Allocs(i, "st")
    <3>1. SqTail(i) = sqTail
      BY <2>5 DEF SqTail, Recovers
    <3>2. c + N = sqCount
      BY <1>1, <1>3, <1>4, <2>5
    <3>3. QED
      BY <1>4, <2>1, <3>1, <3>2
  <2>6. QED
    BY <2>2, <2>3, <2>4, <2>5, InputsForm DEF Recovers
<1>8. sqTail' = RingRow(sqCount)'
  <2>1. ASSUME NEW r, r = c + N - d PROVE RingRow(r)' = RingRow(c + N)
    <3>1. r \in Nat /\ r + d = c + N
      BY <1>1, <2>1
    <3>2. QED
      BY <1>1, <1>2, <3>1
  <2>2. RingRow(sqCount)' = (sqHead' + sqCount') % NumSq
    BY DEF RingRow
  <2>3. \A r : r = c + N - d => (sqHead' + r) % NumSq = RingRow(c + N)
    BY <2>1 DEF RingRow
  <2>4. QED
    BY <1>6, <1>7, <2>2, <2>3
<1>9. c1 + Cardinality(Stores') <= NumSq
  BY <1>1, <1>4
<1>10. QED
  BY <1>1, <1>2, <1>6, <1>8, <1>9 DEF CountForm, Stores, OfKind

(* A row of the next ring, by its place there.                             *)
LEMMA RowNext ==
  ASSUME RobForm, MaskForm, NEW c, StoresAt(c), NEW i \in Inputs, Sensible(i), StoreQueue(i),
         NEW r \in Nat, r + Drained < c + AliveStores(i)
  PROVE  /\ r + Drained \in 0 .. NumSq - 1
         /\ sq[RingRow(r + Drained)] \in StoreRow
         /\ sq'[RingRow(r)'] = SqRow(RingRow(r + Drained), i)
<1> DEFINE q == r + Drained
<1>1. /\ Drained \in {0, 1}
      /\ \A x \in Nat : x + Drained <= NumSq => RingRow(x)' = RingRow(x + Drained)
  BY RingNext DEF StoresAt
<1>2. /\ c \in Nat /\ c + Cardinality(Stores) <= NumSq /\ Cardinality(Stores) \in Nat
      /\ AliveStores(i) \in Nat /\ AliveStores(i) <= Cardinality(Stores) /\ NumSq \in Nat
  BY KeptForm, StoresFinite, Sizes DEF StoresAt, CountForm
<1>3. q \in 0 .. NumSq - 1 /\ r + Drained <= NumSq
  BY <1>1, <1>2
<1>4. ~(PsWrite /\ q = 0)
  BY <1>1 DEF Drained
<1>5. sq'[RingRow(q)] = SqRow(RingRow(q), i)
  BY <1>3, <1>4, RowsNext
<1>6. sq[RingRow(q)] \in StoreRow
  <2>1. CASE q < c
    BY <1>3, <2>1, RowForm
  <2>2. CASE ~(q < c)
    <3>1. q \in Nat /\ c <= q /\ q < c + Cardinality(Stores)
      BY <1>1, <1>2, <2>2
    <3>2. PICK k \in Stores : q = Place(c, k)
      BY <3>1, PlaceForm DEF StoresAt
    <3>3. QED
      BY <3>2, RowForm
  <2>3. QED
    BY <2>1, <2>2
<1>7. QED
  BY <1>1, <1>3, <1>5, <1>6

(* The committed stores stay, but for the one written, and the retiring    *)
(* ones join them.                                                         *)
LEMMA CommittedStep ==
  ASSUME RobForm, MaskForm, NEW c, StoresAt(c), NEW i \in Inputs, Sensible(i), Rob(i), StoreQueue(i),
         NEW c1, c1 = c + RetiredStores(i) - Drained
  PROVE  CommittedForm(c1)'
<1>1. /\ Drained \in {0, 1} /\ Drained <= c /\ c \in Nat /\ c1 \in Nat
      /\ RetiredStores(i) \in Nat /\ RetiredStores(i) <= AliveStores(i) /\ AliveStores(i) \in Nat
      /\ AliveStores(i) <= Cardinality(Stores) /\ Cardinality(Stores) \in Nat
  BY PlaceNext, StoresNext, StoresFinite
<1>2. SUFFICES ASSUME NEW p \in 0 .. NumSq - 1, p < c1
               PROVE  /\ sq'[RingRow(p)'] \in StoreRow
                      /\ sq'[RingRow(p)'].committed /\ ~sq'[RingRow(p)'].m
  BY DEF CommittedForm
<1> DEFINE q == p + Drained
<1> DEFINE n == RingRow(q)
<1>3. p \in Nat /\ q < c + RetiredStores(i) /\ q \in Nat /\ p + Drained < c + AliveStores(i)
      /\ q < c + Cardinality(Stores)
  BY <1>1, <1>2
<1>4. q \in 0 .. NumSq - 1 /\ sq[n] \in StoreRow /\ sq'[RingRow(p)'] = SqRow(n, i)
  BY <1>3, RowNext
<1>5. sq[n].committed \/ n \in SqCommitted(i)
  <2>1. q < c => sq[n].committed
    BY <1>4, RowForm
  <2>2. c <= q => n \in SqCommitted(i)
    BY <1>3, <1>4, CommitsForm
  <2>3. QED
    BY <1>1, <1>3, <2>1, <2>2
<1>6. ~sq[n].m
  <2>1. CASE q < c
    BY <1>4, <2>1, RowForm
  <2>2. CASE c <= q
    <3>1. PICK k \in Stores : q = Place(c, k)
      BY <1>3, <2>2, PlaceForm DEF StoresAt
    <3>2. Retired(i) \in Nat /\ \A x \in 1 .. Retired(i) : rob[x].done
      BY RetiredForm
    <3>3. k <= Retired(i)
      BY <1>3, <3>1, <3>2, PlaceForm DEF StoresAt, RetiredStores
    <3>4. sq[n].m <=> rob[k].m
      BY <3>1 DEF StoresAt, HeldForm
    <3>5. ~rob[k].m
      <4>1. SUFFICES ASSUME NEW b \in OpenBranch, b < k PROVE FALSE
        <5>1. k \in DOMAIN rob
          BY DEF Stores, OfKind
        <5>2. QED
          BY <5>1 DEF MaskForm
      <4>2. b \in DOMAIN rob /\ ~rob[b].done /\ DOMAIN rob = 1 .. Len(rob) /\ Len(rob) \in Nat /\ k \in Nat
        BY SequenceIs, StoresFinite DEF OpenBranch, RobForm
      <4>3. b \in 1 .. Retired(i)
        BY <3>2, <3>3, <4>1, <4>2
      <4>4. QED
        BY <3>2, <4>2, <4>3
    <3>6. QED
      BY <3>4, <3>5
  <2>3. QED
    BY <1>1, <1>3, <2>1, <2>2
<1> HIDE DEF n
<1>7. QED
  BY <1>4, <1>5, <1>6, SqRowForm

(* Behind the stores the ring is free.                                     *)
LEMMA FreeStep ==
  ASSUME RobForm, MaskForm, NEW c, StoresAt(c), NEW i \in Inputs, Sensible(i), Rob(i), StoreQueue(i),
         NEW c1, c1 = c + RetiredStores(i) - Drained
  PROVE  FreeForm(c1)'
<1> DEFINE N == Cardinality(WindowStores(i))
<1> DEFINE d == Drained
<1>1. /\ d \in {0, 1} /\ d <= c /\ c \in Nat /\ N \in Nat
      /\ c1 + Cardinality(Stores') = c + N - d
  BY PlaceNext
<1>2. N = AliveStores(i) + (IF Allocs(i, "st") THEN 1 ELSE 0) /\ AliveStores(i) \in Nat
  BY WindowForm, KeptForm
<1>3. /\ NumSq \in Nat \ {0} /\ RingRow(0) = sqHead /\ sqHead \in 0 .. NumSq - 1
      /\ \A r \in Nat : r + d <= NumSq => RingRow(r)' = RingRow(r + d)
  BY RingNext, RingForm DEF StoresAt, CountForm
<1> HIDE DEF N, d
<1>4. SUFFICES ASSUME NEW p \in 0 .. NumSq - 1, c + N - d <= p
               PROVE  sq'[RingRow(p)'] = NoRow
  <2>1. FreeForm(c1)' = \A p \in 0 .. NumSq - 1 : c1 + Cardinality(Stores') <= p => sq'[RingRow(p)'] = NoRow
    BY DEF FreeForm
  <2>2. QED
    BY <1>1, <1>4, <2>1
<1>5. p \in Nat /\ p + d <= NumSq /\ c + N <= p + d /\ RingRow(p)' = RingRow(p + d)
  BY <1>1, <1>3, <1>4
<1>6. CASE p + d < NumSq
  <2>1. p + d \in 0 .. NumSq - 1
    BY <1>1, <1>3, <1>5, <1>6
  <2>2. p + d >= c + AliveStores(i) /\ ~(Allocs(i, "st") /\ p + d = c + AliveStores(i))
    BY <1>1, <1>2, <1>5
  <2>3. sq'[RingRow(p + d)] = NoRow
    BY <2>1, <2>2, RowsNext
  <2>4. QED
    BY <1>5, <2>3
<1>7. CASE p + d = NumSq
  <2>1. d = 1 /\ PsWrite /\ c > 0
    BY <1>1, <1>3, <1>4, <1>7 DEF d, Drained
  <2>2. RingRow(p + d) = RingRow(0)
    BY <1>3, <1>7 DEF RingRow
  <2>3. 0 \in 0 .. NumSq - 1
    BY <1>3
  <2>4. sq'[RingRow(0)] = NoRow
    BY <2>1, <2>3, RowsNext
  <2>5. QED
    BY <1>5, <2>2, <2>4
<1>8. QED
  BY <1>1, <1>3, <1>5, <1>6, <1>7

(* A row of a store of the ROB is its row only.                            *)
LEMMA OwnerByRow ==
  ASSUME RobForm, OwnersForm, NEW c, StoresAt(c), NEW k \in Stores,
         NEW l \in StoresInPipe, pipe[l].q = RingRow(Place(c, k))
  PROVE  Owns(l, k)
<1>1. PICK j \in Stores : Owns(l, j)
  BY DEF OwnersForm
<1>2. rob[j].q = RingRow(Place(c, j))
  BY DEF StoresAt, HeldForm
<1>3. RingRow(Place(c, j)) = RingRow(Place(c, k))
  BY <1>1, <1>2 DEF Owns
<1>4. j = k
  BY <1>3, RingForm, PlaceForm DEF StoresAt
<1>5. QED
  BY <1>1, <1>4

(* A store of the next ROB is one of the window.                           *)
LEMMA StoreFate ==
  ASSUME RobForm, MaskForm, NEW i \in Inputs, Sensible(i), Rob(i), NEW x \in Stores'
  PROVE  /\ x \in Nat /\ x > 0 /\ ~i.flush /\ Retired(i) \in Nat
         /\ x + Retired(i) \in 1 .. Window(i) /\ x + Retired(i) \in WindowStores(i)
         /\ rob'[x] = Written(i, x + Retired(i))
         /\ Index(x)' = Index(x + Retired(i))
<1>1. /\ Stores' \subseteq Nat
      /\ \A y \in Nat : y \in Stores' <=> y > 0 /\ y + Retired(i) \in WindowStores(i)
  BY StoresNext
<1>2. /\ Window(i) \in Nat /\ Window(i) <= NumRob /\ Len(rob') = Window(i) - Retired(i)
      /\ \A k \in 1 .. Len(rob') : rob'[k] = Written(i, k + Retired(i))
      /\ i.alloc => ~Recovers(i)
  BY RobNext
<1>3. Retired(i) \in Nat
  BY RetiredForm
<1>4. x \in Nat /\ x > 0 /\ x + Retired(i) \in WindowStores(i)
  BY <1>1
<1>5. x + Retired(i) \in 1 .. Window(i) /\ x \in 1 .. Len(rob')
  <2>1. x + Retired(i) \in 1 .. Window(i)
    BY <1>4 DEF WindowStores
  <2>2. QED
    BY <1>2, <1>3, <1>4, <2>1
<1>6. ~i.flush
  <2>1. SUFFICES ASSUME i.flush PROVE Window(i) = 0
    BY <1>5
  <2>2. Alive(i) = 0 /\ ~i.alloc
    BY <1>2, <2>1, AliveForm DEF Recovers
  <2>3. QED
    BY <2>2 DEF Window
<1>7. Index(x)' = Index(x + Retired(i))
  <2>1. x \in 1 .. NumRob /\ x + Retired(i) <= NumRob
    BY <1>2, <1>3, <1>4, <1>5, Sizes
  <2>2. QED
    BY <1>6, <2>1, IndexNext
<1>8. QED
  BY <1>2, <1>3, <1>4, <1>5, <1>6, <1>7

(* A store completes when its capture does, and then for good.             *)
LEMMA StoreDoneForm ==
  ASSUME RobForm, MaskForm, PipeForm, OwnersForm, LoadsForm, ResultFindsOwner,
         NEW i \in Inputs, Sensible(i), Rob(i), NEW k \in WindowStores(i)
  PROVE  /\ Written(i, k).done =>
              /\ k <= Alive(i) /\ k \in Stores
              /\ rob[k].done \/ (Owns(6, k) /\ StoreDone(i) /\ pipe[6].dec = "ok")
         /\ Owns(6, k) /\ StoreDone(i) /\ pipe[6].dec = "ok" => Written(i, k).done
<1>1. Window(i) <= NumRob /\ Window(i) \in Nat
  BY RobNext
<1>2. k \in 1 .. Window(i) /\ Op(Written(i, k).pc) = "st"
  BY DEF WindowStores
<1>3. Written(i, k).done <=> \/ k <= Alive(i) /\ rob[k].done
                             \/ ByResult(i, Index(k)) \/ ByStore(i, Index(k))
                             \/ i.res # "none" /\ Op(Written(i, k).pc) = "br"
  BY <1>2, WrittenForm
<1>4. k <= Alive(i) => Written(i, k).pc = rob[k].pc /\ k \in DOMAIN rob
  BY <1>2, WrittenForm
<1>5. k <= Alive(i) => k \in Stores
  BY <1>2, <1>4 DEF Stores, OfKind
<1>6. ~ByResult(i, Index(k))
  BY <1>1, <1>2, <1>4, CompletesOwn
<1>7. ByStore(i, Index(k)) => k <= Alive(i) /\ k \in Stores /\ Owns(6, k) /\ StoreDone(i) /\ pipe[6].dec = "ok"
  BY <1>1, <1>2, CompletesOwn
<1>8. Owns(6, k) /\ StoreDone(i) /\ pipe[6].dec = "ok" => ByStore(i, Index(k))
  BY DEF Owns, ByStore, Executes
<1>9. QED
  BY <1>2, <1>3, <1>5, <1>6, <1>7, <1>8

(* The stores of the ROB keep their rows, and a new one takes the tail's.  *)
LEMMA HeldStep ==
  ASSUME RobForm, MaskForm, PipeForm, OwnersForm, LoadsForm, ResultFindsOwner,
         NEW c, StoresAt(c), NEW i \in Inputs, Sensible(i), Rob(i), StoreQueue(i),
         NEW c1, c1 = c + RetiredStores(i) - Drained
  PROVE  HeldForm(c1)'
<1>1. SUFFICES ASSUME NEW x \in Stores'
               PROVE  LET e == sq'[RingRow(Place(c1, x))'] IN
                      /\ e \in StoreRow /\ ~e.committed /\ e.rob = Index(x)' /\ e.pc = rob'[x].pc
                      /\ e.m <=> rob'[x].m
                      /\ rob'[x].q = RingRow(Place(c1, x))'
                      /\ e.ready \/ e.wait => rob'[x].iss /\ ~rob'[x].done
                      /\ rob'[x].done => rob'[x].iss
  BY DEF HeldForm
<1> DEFINE R == Retired(i)
<1> DEFINE k == x + R
<1> DEFINE p == Place(c1, x)'
<1>2. /\ x \in Nat /\ x > 0 /\ ~i.flush /\ R \in Nat /\ k \in 1 .. Window(i) /\ k \in WindowStores(i)
      /\ rob'[x] = Written(i, k) /\ Index(x)' = Index(k)
  BY StoreFate
<1>3. /\ Drained \in {0, 1} /\ c \in Nat /\ p \in Nat /\ Drained <= c
      /\ k <= Alive(i) + 1 => p + Drained = Place(c, k)
  BY <1>2, PlaceNext
<1>4. /\ NumSq \in Nat
      /\ \A r \in Nat : r + Drained <= NumSq => RingRow(r)' = RingRow(r + Drained)
  BY RingNext, Sizes DEF StoresAt
<1>5. RingRow(Place(c1, x))' = (sqHead' + p) % NumSq
  BY DEF RingRow
<1>6. ASSUME p + Drained <= NumSq PROVE RingRow(Place(c1, x))' = RingRow(p + Drained)
  <2>1. \A r : RingRow(r)' = (sqHead' + r) % NumSq
    BY DEF RingRow
  <2>2. \A r \in Nat : r + Drained <= NumSq => (sqHead' + r) % NumSq = RingRow(r + Drained)
    BY <1>4, <2>1
  <2>3. QED
    BY <1>3, <1>5, <1>6, <2>2
<1>7. Alive(i) \in Nat /\ Alive(i) <= Len(rob) /\ Len(rob) \in Nat
  BY AliveForm
<1> HIDE DEF p
<1>8. CASE k <= Alive(i)
  <2> DEFINE n == RingRow(Place(c, k))
  <2>1. k \in DOMAIN rob /\ k \in Stores
    <3>1. k \in Stores
      BY <1>2, <1>7, <1>8, WindowForm
    <3>2. QED
      BY <3>1 DEF Stores, OfKind
  <2>2. p + Drained = Place(c, k) /\ Place(c, k) \in 0 .. NumSq - 1
    <3>1. k <= Alive(i) + 1
      BY <1>2, <1>7, <1>8
    <3>2. Place(c, k) \in 0 .. NumSq - 1
      BY <2>1, PlaceForm DEF StoresAt
    <3>3. QED
      BY <1>3, <3>1, <3>2
  <2>3. RingRow(Place(c1, x))' = n
    BY <1>4, <1>6, <2>2
  <2>4. /\ sq[n] \in StoreRow /\ ~sq[n].committed /\ sq[n].rob = Index(k) /\ sq[n].pc = rob[k].pc
        /\ sq[n].m <=> rob[k].m
        /\ rob[k].q = n
        /\ sq[n].ready \/ sq[n].wait => rob[k].iss /\ ~rob[k].done
        /\ rob[k].done => rob[k].iss
    BY <2>1 DEF StoresAt, HeldForm
  <2>5. /\ rob'[x].pc = rob[k].pc /\ rob'[x].q = rob[k].q /\ rob'[x].m = Clean(rob[k].m, i)
        /\ rob[k].iss => rob'[x].iss
    BY <1>2, <1>8, WrittenForm
  <2>6. sq'[n] = SqRow(n, i)
    <3>1. p + Drained < c + AliveStores(i)
      BY <1>7, <1>8, <2>1, <2>2, PlaceForm DEF StoresAt, AliveStores
    <3>2. ~(PsWrite /\ Place(c, k) = 0)
      BY <1>3, <2>1, <2>2, PlaceForm DEF StoresAt, Drained
    <3>3. QED
      BY <2>2, <3>1, <3>2, RowsNext
  <2>7. n \notin SqCommitted(i)
    <3>1. ~(Place(c, k) < c + RetiredStores(i))
      <4>1. ~(k <= R)
        BY <1>2
      <4>2. QED
        BY <1>2, <2>1, <4>1, PlaceForm DEF StoresAt, RetiredStores
    <3>2. QED
      BY <2>2, <3>1, CommitsForm
  <2>8. LET e == SqRow(n, i) IN
        /\ e \in StoreRow /\ e.pc = sq[n].pc /\ e.rob = sq[n].rob
        /\ e.committed <=> sq[n].committed \/ n \in SqCommitted(i)
        /\ e.m <=> sq[n].m /\ i.res = "none" /\ ~i.flush
        /\ e.ready \/ e.wait =>
              \/ StoreDone(i) /\ pipe[6].q = n /\ pipe[6].dec = "retry"
              \/ ~(StoreDone(i) /\ pipe[6].q = n) /\ (sq[n].ready \/ sq[n].wait)
    BY <2>4, SqRowForm
  <2>9. rob'[x].done => rob[k].done \/ (Owns(6, k) /\ StoreDone(i) /\ pipe[6].dec = "ok")
    BY <1>2, StoreDoneForm
  <2>10. StoreDone(i) /\ pipe[6].q = n => Owns(6, k)
    <3>1. StoreDone(i) => 6 \in StoresInPipe
      BY DEF StoreDone, StoresInPipe
    <3>2. QED
      BY <2>1, <3>1, OwnerByRow
  <2>11. Owns(6, k) => rob[k].iss /\ ~rob[k].done /\ pipe[6].q = n /\ ~sq[n].ready /\ ~sq[n].wait
    BY <2>4 DEF Owns
  <2>12. rob'[x].done => rob'[x].iss
    BY <2>4, <2>5, <2>9, <2>11
  <2> DEFINE e == SqRow(n, i)
  <2> HIDE DEF n
  <2>13. e.ready \/ e.wait => rob'[x].iss /\ ~rob'[x].done
    <3>1. ASSUME StoreDone(i), pipe[6].q = n, pipe[6].dec = "retry" PROVE rob'[x].iss /\ ~rob'[x].done
      BY <2>5, <2>9, <2>10, <2>11, <3>1
    <3>2. ASSUME ~(StoreDone(i) /\ pipe[6].q = n), sq[n].ready \/ sq[n].wait PROVE rob'[x].iss /\ ~rob'[x].done
      BY <2>4, <2>5, <2>9, <2>11, <3>2
    <3>3. QED
      BY <2>8, <3>1, <3>2
  <2>14. e.m <=> rob'[x].m
    BY <1>2, <2>4, <2>5, <2>8 DEF Clean
  <2>15. e \in StoreRow /\ ~e.committed /\ e.rob = Index(x)' /\ e.pc = rob'[x].pc
    BY <1>2, <2>4, <2>5, <2>7, <2>8
  <2>16. sq'[RingRow(Place(c1, x))'] = e /\ rob'[x].q = RingRow(Place(c1, x))'
    BY <2>3, <2>4, <2>5, <2>6
  <2> HIDE DEF e
  <2>17. QED
    BY <2>12, <2>13, <2>14, <2>15, <2>16
<1>9. CASE k > Alive(i)
  <2>1. /\ i.alloc /\ ~Recovers(i) /\ k = Len(rob) + 1 /\ Room /\ rob'[x].pc = fetch
        /\ rob'[x].q = NewEntry(i).q /\ rob'[x].m = Clean(NewMask(i), i) /\ ~rob'[x].iss
        /\ Op(fetch) = "st" /\ Alive(i) = Len(rob) /\ i.flush = FALSE
    <3>1. /\ i.alloc /\ ~Recovers(i) /\ k = Len(rob) + 1 /\ Room /\ rob'[x].pc = fetch
          /\ rob'[x].q = NewEntry(i).q /\ rob'[x].m = Clean(NewMask(i), i) /\ ~rob'[x].iss
      BY <1>2, <1>9, WrittenForm
    <3>2. Op(rob'[x].pc) = "st"
      BY <1>2 DEF WindowStores
    <3>3. QED
      BY <1>2, <3>1, <3>2, AliveForm, InputsForm
  <2>2. Allocs(i, "st")
    BY <2>1 DEF Allocs
  <2>3. /\ AliveStores(i) = Cardinality(Stores) /\ c + AliveStores(i) < NumSq
        /\ sqTail = RingRow(c + AliveStores(i)) /\ AliveStores(i) \in Nat
    <3>1. NumSq \in Nat \ {0}
      BY Sizes
    <3>2. 0 \in 0 .. NumSq - 1
      BY <3>1
    <3>3. AliveStores(i) \in Nat
      BY KeptForm
    <3>4. QED
      BY <2>2, <3>2, <3>3, RowsNext
  <2>4. p + Drained = c + AliveStores(i) /\ c + AliveStores(i) \in 0 .. NumSq - 1
    <3>1. k = Alive(i) + 1
      BY <2>1
    <3>2. p + Drained = Place(c, Alive(i) + 1)
      BY <1>3, <1>7, <3>1
    <3>3. QED
      BY <1>3, <1>4, <2>3, <3>2 DEF Place, AliveStores
  <2>5. sq'[RingRow(c + AliveStores(i))] =
          [pc |-> fetch, rob |-> Index(Len(rob) + 1), m |-> NewMask(i),
           exec |-> FALSE, committed |-> FALSE, ready |-> FALSE, wait |-> FALSE]
    BY <2>2, <2>4, RowsNext
  <2>6. RingRow(Place(c1, x))' = RingRow(c + AliveStores(i))
    BY <1>3, <1>4, <1>6, <2>3, <2>4
  <2>7. fetch \in PcsOfKind("st") /\ NewMask(i) \in BOOLEAN /\ Index(Len(rob) + 1) \in 0 .. NumRob - 1
    <3>1. fetch \in Pc
      BY <2>1 DEF Room, RobForm
    <3>2. Len(rob) + 1 \in 1 .. NumRob
      BY <1>7, <2>1, Sizes DEF Room
    <3>3. QED
      BY <2>1, <3>1, <3>2, IndexDistinct DEF PcsOfKind, NewMask
  <2>8. rob'[x].q = sqTail
    BY <2>1 DEF NewEntry
  <2>9. Clean(NewMask(i), i) <=> NewMask(i)
    BY DEF Clean, NewMask
  <2>10. ~rob'[x].done
    BY <1>2, <1>7, <1>9, StoreDoneForm
  <2> DEFINE e == sq'[RingRow(Place(c1, x))']
  <2>11. /\ e \in StoreRow /\ e.committed = FALSE /\ e.rob = Index(Len(rob) + 1) /\ e.pc = fetch
         /\ e.m = NewMask(i) /\ e.ready = FALSE /\ e.wait = FALSE
    <3>1. e = [pc |-> fetch, rob |-> Index(Len(rob) + 1), m |-> NewMask(i),
               exec |-> FALSE, committed |-> FALSE, ready |-> FALSE, wait |-> FALSE]
      BY <2>5, <2>6
    <3> HIDE DEF e
    <3>2. QED
      BY <2>7, <3>1 DEF StoreRow
  <2> HIDE DEF e
  <2>12. e.rob = Index(x)' /\ rob'[x].q = RingRow(Place(c1, x))'
    BY <1>2, <2>1, <2>3, <2>6, <2>8, <2>11
  <2>13. QED
    BY <2>1, <2>9, <2>10, <2>11, <2>12 DEF e
<1>10. QED
  BY <1>2, <1>7, <1>8, <1>9

(* The saved tail stays in front of what is behind the open branch.        *)
LEMMA SavedStep ==
  ASSUME RobForm, MaskForm, PipeForm, OwnersForm, LoadsForm, ResultFindsOwner,
         NEW c, StoresAt(c), NEW i \in Inputs, Sensible(i), Rob(i), StoreQueue(i),
         NEW c1, c1 = c + RetiredStores(i) - Drained
  PROVE  SavedForm(c1)'
<1>1. SUFFICES ASSUME NEW b \in OpenBranch' PROVE ck'.sq = RingRow(Place(c1, b))'
  BY DEF SavedForm
<1> DEFINE R == Retired(i)
<1> DEFINE k == b + R
<1> DEFINE p == Place(c1, b)'
<1>2. b \in Nat /\ b > 0 /\ R \in Nat
  <2>1. Len(rob') \in Nat /\ DOMAIN rob' = 1 .. Len(rob')
    BY RobNext, SequenceIs
  <2>2. b \in DOMAIN rob'
    BY DEF OpenBranch
  <2>3. QED
    BY <2>1, <2>2, RetiredForm
<1>3. /\ i.res = "none" /\ ~i.flush
      /\ \/ k \in OpenBranch
         \/ i.alloc /\ Op(fetch) = "br" /\ k = Len(rob) + 1
  BY <1>2, OpenNext
<1>4. Alive(i) = Len(rob) /\ Len(rob) \in Nat /\ DOMAIN rob = 1 .. Len(rob)
  BY <1>3, AliveForm DEF Recovers
<1>5. k <= Len(rob) + 1
  BY <1>2, <1>3, <1>4 DEF OpenBranch
<1>6. p \in Nat /\ Drained \in {0, 1} /\ p + Drained = Place(c, k)
  BY <1>2, <1>4, <1>5, PlaceNext
<1>7. Place(c, k) <= NumSq
  <2>1. /\ Cardinality(Below(Stores, k)) \in Nat /\ Cardinality(Stores) \in Nat
        /\ Cardinality(Below(Stores, k)) <= Cardinality(Stores)
    <3>1. k \in Nat
      BY <1>2
    <3> HIDE DEF k
    <3>2. QED
      BY <3>1, StoresFinite
  <2>2. QED
    BY <2>1, Sizes DEF Place, StoresAt, CountForm
<1>8. RingRow(Place(c1, b))' = RingRow(Place(c, k))
  <2>1. RingRow(Place(c1, b))' = (sqHead' + p) % NumSq
    BY DEF RingRow
  <2>2. \A r \in Nat : r + Drained <= NumSq => RingRow(r)' = RingRow(r + Drained)
    BY RingNext DEF StoresAt
  <2>3. \A r : RingRow(r)' = (sqHead' + r) % NumSq
    BY DEF RingRow
  <2>4. \A r \in Nat : r + Drained <= NumSq => (sqHead' + r) % NumSq = RingRow(r + Drained)
    BY <2>2, <2>3
  <2> HIDE DEF p
  <2>5. p + Drained <= NumSq
    BY <1>6, <1>7
  <2>6. QED
    BY <1>6, <2>1, <2>4, <2>5
<1>9. ck' = IF i.alloc /\ Op(fetch) = "br" THEN [lq |-> lqTail, sq |-> sqTail] ELSE ck
  BY DEF Rob
<1> HIDE DEF p
<1>10. CASE k \in OpenBranch
  <2>1. ~(i.alloc /\ Op(fetch) = "br")
    BY <1>10, InputsForm DEF Room
  <2>2. QED
    BY <1>8, <1>9, <1>10, <2>1 DEF StoresAt, SavedForm
<1>11. CASE i.alloc /\ Op(fetch) = "br" /\ k = Len(rob) + 1
  <2>1. ck'.sq = sqTail
    BY <1>9, <1>11
  <2>2. Below(Stores, k) = Stores
    <3>1. \A x \in Stores : x < Len(rob) + 1
      BY StoresFinite
    <3>2. QED
      BY <1>11, <3>1 DEF Below
  <2>3. Place(c, k) = sqCount /\ sqTail = RingRow(sqCount)
    BY <2>2 DEF Place, StoresAt, CountForm
  <2>4. QED
    BY <1>8, <2>1, <2>3
<1>12. QED
  BY <1>3, <1>10, <1>11


-----------------------------------------------------------------------------
(* The pipeline.                                                           *)

(* A stage keeps the operation, or drops it.                               *)
LEMMA StageForm ==
  ASSUME PipeForm, NEW k \in 1 .. 6, NEW i \in Inputs
  PROVE  LET o == pipe[k]
             e == Stage(k, o, i)
         IN  /\ DOMAIN e = OpFields /\ e.op \in {o.op, "none"}
             /\ e.op # "none" => e.pc = o.pc /\ e.rob = o.rob /\ e.q = o.q /\ e.m = o.m
             /\ e.op = "ld" => e.why \in {o.why, "none"}
             /\ k = 5 /\ e.op \in {"ld", "st"} => e.dec = Decision(o)
             /\ e.op = "install" => e.tag = o.tag
<1> DEFINE o == pipe[k]
<1>1. DOMAIN o = OpFields /\ o.op \in {"none", "ld", "st", "drain", "install"}
  BY DEF PipeForm
<1> DEFINE e == Stage(k, o, i)
<1> DEFINE Same(x) == /\ DOMAIN x = OpFields /\ x.op = o.op /\ x.pc = o.pc /\ x.rob = o.rob
                      /\ x.q = o.q /\ x.m = o.m
<1>2. DOMAIN Bubble = OpFields /\ Bubble.op = "none"
  BY DEF Bubble, OpFields
<1> DEFINE v2 == [o EXCEPT !.gen = lqGen[o.q], !.why = "none"]
<1> DEFINE v3 == [o EXCEPT !.snap = TagChange(i), !.conf = Conflict(o), !.tag = cached[LineOf(o)],
                          !.val = IF o.op = "ld" THEN [b \in Prog[o.pc].bytes |-> mem[LineOf(o)][b]] ELSE @]
<1> DEFINE v4 == [(IF o.op = "ld" THEN Query(o) ELSE o) EXCEPT !.snap = @ \/ TagChange(i)]
<1> DEFINE v5 == [o EXCEPT !.dec = Decision(o), !.snap = FALSE, !.conf = FALSE, !.tag = "I",
                           !.val = IF Decision(o) = "ok" THEN @ ELSE <<>>]
<1> DEFINE v6 == IF Decision(o) = "ok" THEN [o EXCEPT !.snap = FALSE, !.tag = "I"] ELSE Bubble
<1> DEFINE c2 == k = 2 /\ o.op = "ld"
<1> DEFINE c3 == k = 3 /\ o.op \in {"ld", "st", "drain"}
<1> DEFINE c4 == k = 4 /\ o.op \in {"ld", "st", "drain"}
<1> DEFINE c5 == k = 5 /\ o.op \in {"ld", "st"}
<1> DEFINE c6 == k = 5 /\ o.op = "drain"
<1> DEFINE c7 == k = 5 /\ o.op \in {"none", "install"}
<1>20. e = CASE c2 -> v2 [] c3 -> v3 [] c4 -> v4 [] c5 -> v5 [] c6 -> v6 [] c7 -> Bubble [] OTHER -> o
  BY Zenon DEF Stage
<1>21. /\ c2 => k = 2 /\ o.op = "ld"
       /\ c3 => k = 3 /\ o.op \in {"ld", "st", "drain"}
       /\ c4 => k = 4 /\ o.op \in {"ld", "st", "drain"}
       /\ c5 => k = 5 /\ o.op \in {"ld", "st"}
       /\ c6 => k = 5 /\ o.op = "drain"
       /\ c7 => k = 5 /\ o.op \in {"none", "install"}
       /\ k = 5 => c5 \/ c6 \/ c7
  BY <1>1
<1>22. /\ c2 => ~c3 /\ ~c4 /\ ~c5 /\ ~c6 /\ ~c7
       /\ c3 => ~c4 /\ ~c5 /\ ~c6 /\ ~c7
       /\ c4 => ~c5 /\ ~c6 /\ ~c7
       /\ c5 => ~c6 /\ ~c7
       /\ c6 => ~c7
  OBVIOUS
<1> HIDE DEF e, v2, v3, v4, v5, v6, c2, c3, c4, c5, c6, c7
<1>23. /\ c2 => e = v2
       /\ c3 => e = v3
       /\ c4 => e = v4
       /\ c5 => e = v5
       /\ c6 => e = v6
       /\ c7 => e = Bubble
       /\ ~c2 /\ ~c3 /\ ~c4 /\ ~c5 /\ ~c6 /\ ~c7 => e = o
  <2>1. ASSUME c2 PROVE e = v2
    BY ONLY <1>20, <1>22, <2>1
  <2>2. ASSUME c3 PROVE e = v3
    BY ONLY <1>20, <1>22, <2>2
  <2>3. ASSUME c4 PROVE e = v4
    BY ONLY <1>20, <1>22, <2>3
  <2>4. ASSUME c5 PROVE e = v5
    BY ONLY <1>20, <1>22, <2>4
  <2>5. ASSUME c6 PROVE e = v6
    BY ONLY <1>20, <1>22, <2>5
  <2>6. ASSUME c7 PROVE e = Bubble
    BY ONLY <1>20, <1>22, <2>6
  <2>7. ASSUME ~c2, ~c3, ~c4, ~c5, ~c6, ~c7 PROVE e = o
    BY ONLY <1>20, <2>7
  <2>8. QED
    BY ONLY <2>1, <2>2, <2>3, <2>4, <2>5, <2>6, <2>7, Zenon
<1>3. CASE c2
  <2>1. e = [o EXCEPT !.gen = lqGen[o.q], !.why = "none"]
    BY <1>3, <1>23 DEF v2
  <2> HIDE DEF o, e
  <2>2. Same(e) /\ e.why = "none"
    BY <1>1, <2>1 DEF OpFields
  <2>3. QED
    BY <1>3, <1>21, <2>2 DEF e, o
<1>4. CASE c3
  <2> DEFINE a == TagChange(i)
  <2> DEFINE b == Conflict(o)
  <2> DEFINE t == cached[LineOf(o)]
  <2> DEFINE v == IF o.op = "ld" THEN [y \in Prog[o.pc].bytes |-> mem[LineOf(o)][y]] ELSE o.val
  <2>1. e = [o EXCEPT !.snap = a, !.conf = b, !.tag = t, !.val = v]
    BY <1>4, <1>23, Zenon DEF v3
  <2> HIDE DEF o, e, a, b, t, v
  <2>2. Same(e) /\ e.why = o.why
    BY <1>1, <2>1 DEF OpFields
  <2>3. QED
    BY <1>4, <1>21, <2>2 DEF e, o
<1>5. CASE c4
  <2> DEFINE w == IF o.op = "ld" THEN Query(o) ELSE o
  <2> DEFINE s == w.snap \/ TagChange(i)
  <2>1. e = [w EXCEPT !.snap = s]
    BY <1>5, <1>23, Zenon DEF v4
  <2>2. Same(w) /\ w.why = o.why
    <3> DEFINE f == [y \in DOMAIN o.val |-> sq[YoungestOf(Overlaps(o), SqAge)].pc]
    <3>1. Query(o) \in {o, [o EXCEPT !.dec = "block"], [o EXCEPT !.dec = "fwd", !.val = f]}
      BY Zenon DEF Query
    <3> DEFINE z == Query(o)
    <3> HIDE DEF f, o, z
    <3>2. Same(o)
      BY <1>1
    <3>3. z = [o EXCEPT !.dec = "block"] => Same(z) /\ z.why = o.why
      BY <1>1 DEF OpFields
    <3>4. z = [o EXCEPT !.dec = "fwd", !.val = f] => Same(z) /\ z.why = o.why
      BY <1>1 DEF OpFields
    <3> HIDE DEF Same
    <3>5. Same(z) /\ z.why = o.why
      BY <3>1, <3>2, <3>3, <3>4 DEF z
    <3>6. QED
      BY <3>2, <3>5 DEF z
  <2> HIDE DEF o, e, s, w
  <2>3. Same(e) /\ e.why = o.why
    BY <1>1, <2>1, <2>2 DEF OpFields
  <2>4. QED
    BY <1>5, <1>21, <2>3 DEF e, o
<1>6. CASE c5
  <2> DEFINE d == Decision(o)
  <2> DEFINE v == IF d = "ok" THEN o.val ELSE <<>>
  <2>1. e = [o EXCEPT !.dec = d, !.snap = FALSE, !.conf = FALSE, !.tag = "I", !.val = v]
    BY <1>6, <1>23, Zenon DEF v5
  <2> HIDE DEF o, e, d, v
  <2>2. Same(e) /\ e.why = o.why /\ e.dec = d
    BY <1>1, <2>1 DEF OpFields
  <2>3. QED
    BY <1>6, <1>21, <2>2 DEF e, o, d
<1>7. CASE c6
  <2>1. e \in {[o EXCEPT !.snap = FALSE, !.tag = "I"], Bubble}
    BY <1>7, <1>23, Zenon DEF v6
  <2> HIDE DEF o, e
  <2>2. e # Bubble => Same(e)
    BY <1>1, <2>1 DEF OpFields
  <2>3. QED
    BY <1>2, <1>7, <1>21, <2>2 DEF e, o
<1>8. CASE c7
  <2>1. e = Bubble
    BY <1>8, <1>23
  <2> HIDE DEF e
  <2>2. QED
    BY <1>2, <1>8, <1>21, <2>1 DEF e
<1>9. CASE ~c2 /\ ~c3 /\ ~c4 /\ ~c5 /\ ~c6 /\ ~c7
  <2>1. e = o
    BY <1>9, <1>23
  <2> HIDE DEF e
  <2>2. QED
    BY <1>1, <1>9, <1>21, <2>1 DEF e
<1> HIDE DEF e
<1>10. QED
  BY <1>3, <1>4, <1>5, <1>6, <1>7, <1>8, <1>9 DEF e

LEMMA LeavesForm ==
  ASSUME PipeForm, NEW k \in 1 .. 6, NEW i \in Inputs
  PROVE  LET o == pipe[k]
             e == Leaves(k, i)
         IN  /\ DOMAIN e = OpFields /\ e.op \in {"none", "ld", "st", "drain", "install"}
             /\ e.op \in {o.op, "none"}
             /\ e.op # "none" => e.pc = o.pc /\ e.rob = o.rob /\ e.q = o.q /\ e.m = Clean(o.m, i)
             /\ e.op \in {"ld", "st"} => ~Killed(o.m, i)
             /\ e.op = "ld" => e.why \in {o.why, "none"}
             /\ k = 5 /\ e.op \in {"ld", "st"} => e.dec = Decision(o)
             /\ e.op = "install" => e.tag = o.tag
<1> DEFINE o == pipe[k]
<1> DEFINE e == Leaves(k, i)
<1> DEFINE s == Stage(k, o, i)
<1>1. /\ DOMAIN s = OpFields /\ s.op \in {o.op, "none"}
      /\ s.op # "none" => s.pc = o.pc /\ s.rob = o.rob /\ s.q = o.q /\ s.m = o.m
      /\ s.op = "ld" => s.why \in {o.why, "none"}
      /\ k = 5 /\ s.op \in {"ld", "st"} => s.dec = Decision(o)
      /\ s.op = "install" => s.tag = o.tag
  BY StageForm
<1>2. o.op \in {"none", "ld", "st", "drain", "install"}
  BY DEF PipeForm
<1>3. CASE o.op \in {"ld", "st"} /\ Killed(o.m, i)
  <2>1. e = Bubble
    BY <1>3 DEF Leaves
  <2>2. DOMAIN Bubble = OpFields /\ Bubble.op = "none"
    BY DEF Bubble, OpFields
  <2> HIDE DEF e
  <2>3. QED
    BY <2>1, <2>2 DEF e
<1>4. CASE ~(o.op \in {"ld", "st"} /\ Killed(o.m, i))
  <2> DEFINE m == Clean(s.m, i)
  <2>1. e = [s EXCEPT !.m = m]
    BY <1>4, Zenon DEF Leaves
  <2>2. s.op # "none" => m = Clean(o.m, i)
    BY <1>1
  <2> HIDE DEF e, s, m
  <2>3. /\ DOMAIN e = OpFields /\ e.op = s.op /\ e.pc = s.pc /\ e.rob = s.rob /\ e.q = s.q
        /\ e.m = m /\ e.why = s.why /\ e.dec = s.dec /\ e.tag = s.tag
    BY <1>1, <2>1 DEF OpFields
  <2>4. QED
    BY <1>1, <1>2, <1>4, <2>2, <2>3 DEF e
<1>5. QED
  BY <1>3, <1>4

(* The oldest of some rows is one of them.                                 *)
LEMMA OldestIn ==
  ASSUME NEW D \in Nat \ {0}, NEW h \in 0 .. D - 1, NEW S, S \subseteq 0 .. D - 1, S # {}
  PROVE  \E n \in S : \A x \in S : (n + D - h) % D <= (x + D - h) % D
<1> DEFINE age(n) == (n + D - h) % D
<1>1. \A n \in S : age(n) \in Nat
  OBVIOUS
<1> HIDE DEF age
<1> DEFINE T == {age(n) : n \in S}
<1>2. T \subseteq Nat /\ T # {}
  BY <1>1
<1>3. PICK m \in T : \A y \in T : m <= y
  <2> HIDE DEF T
  <2>1. QED
    BY <1>2, NatMin
<1>4. PICK n \in S : m = age(n)
  BY <1>3
<1>5. \A x \in S : age(n) <= age(x)
  BY <1>3, <1>4
<1>6. QED
  BY <1>5 DEF age

LEMMA OldestRows ==
  /\ NumSq \in Nat \ {0} /\ sqHead \in 0 .. NumSq - 1 /\ SqReady # {} => OldestOf(SqReady, SqAge) \in SqReady
  /\ NumLq \in Nat \ {0} /\ lqHead \in 0 .. NumLq - 1 /\ LqReady # {} => OldestOf(LqReady, LqAge) \in LqReady
<1>1. SqReady \subseteq 0 .. NumSq - 1 /\ LqReady \subseteq 0 .. NumLq - 1
  BY DEF SqReady, SqRows, LqReady, LqRows
<1>2. ASSUME NumSq \in Nat \ {0}, sqHead \in 0 .. NumSq - 1, SqReady # {}
      PROVE  OldestOf(SqReady, SqAge) \in SqReady
  <2>1. \E n \in SqReady : \A x \in SqReady : SqAge(n) <= SqAge(x)
    BY <1>1, <1>2, OldestIn DEF SqAge
  <2>2. QED
    BY <2>1 DEF OldestOf
<1>3. ASSUME NumLq \in Nat \ {0}, lqHead \in 0 .. NumLq - 1, LqReady # {}
      PROVE  OldestOf(LqReady, LqAge) \in LqReady
  <2>1. \E n \in LqReady : \A x \in LqReady : LqAge(n) <= LqAge(x)
    BY <1>1, <1>3, OldestIn DEF LqAge
  <2>2. QED
    BY <2>1 DEF OldestOf
<1>4. QED
  BY <1>2, <1>3

(* What enters the pipe.                                                   *)
LEMMA EnteringForm ==
  ASSUME RobForm, RowsForm, sqHead \in 0 .. NumSq - 1, NEW i \in Inputs
  PROVE  LET e == Entering(i) IN
         /\ DOMAIN e = OpFields /\ e.op \in {"none", "ld", "st", "drain", "install"}
         /\ e.op = "install" => e.tag = i.install /\ i.install # "none"
         /\ e.op = "drain" => DrainFire(i) /\ e.pc = sq[sqHead].pc
         /\ e.op \in {"ld", "st"} => Available(i)
         /\ e.op = "ld" =>
              \/ \E n \in LqReady : e.pc = lq[n].pc /\ e.rob = lq[n].rob /\ e.why = lq[n].why
              \/ /\ Issues(i) /\ Op(rob[i.issue].pc) = "ld"
                 /\ e.pc = rob[i.issue].pc /\ e.rob = Index(i.issue) /\ e.why = "none"
         /\ e.op = "st" =>
              \/ /\ SqReplay(i) /\ OldestOf(SqReady, SqAge) \in SqReady
                 /\ LET n == OldestOf(SqReady, SqAge)
                    IN  e.rob = sq[n].rob /\ e.q = n /\ e.m = sq[n].m
              \/ /\ Issues(i) /\ Op(rob[i.issue].pc) = "st"
                 /\ e.rob = Index(i.issue) /\ e.q = rob[i.issue].q
                 /\ e.m = Clean(rob[i.issue].m, i)
<1> DEFINE e == Entering(i)
<1> DEFINE v1 == [Bubble EXCEPT !.op = "install", !.tag = i.install]
<1> DEFINE v2 == [Bubble EXCEPT !.op = "drain", !.pc = sq[sqHead].pc, !.q = sqHead]
<1> DEFINE l == OldestOf(LqReady, LqAge)
<1> DEFINE v3 == [Bubble EXCEPT !.op = "ld", !.pc = lq[l].pc, !.rob = lq[l].rob, !.q = l,
                                !.m = lq[l].m, !.why = lq[l].why]
<1> DEFINE s == OldestOf(SqReady, SqAge)
<1> DEFINE v4 == [Bubble EXCEPT !.op = "st", !.pc = sq[s].pc, !.rob = sq[s].rob, !.q = s, !.m = sq[s].m]
<1> DEFINE v5 == [Bubble EXCEPT !.op = Op(rob[i.issue].pc), !.pc = rob[i.issue].pc,
                   !.rob = Index(i.issue), !.q = rob[i.issue].q,
                   !.m = Clean(rob[i.issue].m, i)]
<1>1. e = IF i.install # "none" THEN v1
          ELSE IF DrainFire(i) THEN v2
          ELSE IF LqReplay(i) THEN v3
          ELSE IF SqReplay(i) THEN v4
          ELSE IF Issues(i) THEN v5 ELSE Bubble
  BY Zenon DEF Entering
<1>2. DOMAIN Bubble = OpFields /\ Bubble.op = "none" /\ Bubble.why = "none"
  BY DEF Bubble, OpFields
<1>3. /\ LqReplay(i) => Available(i) /\ l \in LqReady
      /\ SqReplay(i) => Available(i) /\ s \in SqReady
      /\ Issues(i) => Available(i)
  BY OldestRows, Sizes DEF LqReplay, SqReplay, Issues, RowsForm
<1>4. Issues(i) => Op(rob[i.issue].pc) \in {"ld", "st"}
  <2>1. SUFFICES ASSUME Issues(i) PROVE Op(rob[i.issue].pc) \in {"ld", "st"}
    OBVIOUS
  <2>2. i.issue \in DOMAIN rob /\ Op(rob[i.issue].pc) # "br"
    BY <2>1, InputsForm DEF Issues
  <2>3. rob[i.issue].pc \in Pc
    BY <2>2 DEF RobForm
  <2>4. QED
    BY <2>2, <2>3, Sizes
<1> HIDE DEF e
<1>5. v1.op = "install" /\ v1.tag = i.install /\ DOMAIN v1 = OpFields
  BY <1>2 DEF OpFields
<1>6. v2.op = "drain" /\ v2.pc = sq[sqHead].pc /\ DOMAIN v2 = OpFields
  BY <1>2 DEF OpFields
<1>7. v3.op = "ld" /\ v3.pc = lq[l].pc /\ v3.rob = lq[l].rob /\ v3.why = lq[l].why /\ DOMAIN v3 = OpFields
  BY <1>2 DEF OpFields
<1>8. v4.op = "st" /\ v4.rob = sq[s].rob /\ v4.q = s /\ v4.m = sq[s].m /\ DOMAIN v4 = OpFields
  BY <1>2 DEF OpFields
<1>9. /\ v5.op = Op(rob[i.issue].pc) /\ v5.pc = rob[i.issue].pc /\ v5.rob = Index(i.issue) /\ v5.why = "none"
      /\ v5.q = rob[i.issue].q /\ v5.m = Clean(rob[i.issue].m, i) /\ DOMAIN v5 = OpFields
  BY <1>2 DEF OpFields
<1> HIDE DEF v1, v2, v3, v4, v5
<1>10. CASE i.install # "none"
  BY <1>1, <1>5, <1>10 DEF e
<1>11. CASE i.install = "none" /\ DrainFire(i)
  BY <1>1, <1>6, <1>11 DEF e
<1>12. CASE i.install = "none" /\ ~DrainFire(i) /\ LqReplay(i)
  <2>1. e = v3
    BY <1>1, <1>12
  <2>2. QED
    BY <1>3, <1>7, <1>12, <2>1 DEF e
<1>13. CASE i.install = "none" /\ ~DrainFire(i) /\ ~LqReplay(i) /\ SqReplay(i)
  <2>1. e = v4
    BY <1>1, <1>13
  <2>2. QED
    BY <1>3, <1>8, <1>13, <2>1 DEF e
<1>14. CASE i.install = "none" /\ ~DrainFire(i) /\ ~LqReplay(i) /\ ~SqReplay(i) /\ Issues(i)
  <2>1. e = v5
    BY <1>1, <1>14
  <2>2. QED
    BY <1>3, <1>4, <1>9, <1>14, <2>1 DEF e
<1>15. CASE i.install = "none" /\ ~DrainFire(i) /\ ~LqReplay(i) /\ ~SqReplay(i) /\ ~Issues(i)
  <2>1. e = Bubble
    BY <1>1, <1>15
  <2>2. QED
    BY <1>2, <2>1 DEF e
<1>16. QED
  BY <1>10, <1>11, <1>12, <1>13, <1>14, <1>15

(* The stages of the next cycle.                                           *)
LEMMA PipeStep ==
  ASSUME PipeForm, RobForm, RowsForm, sqHead \in 0 .. NumSq - 1, NEW i \in Inputs, Pipeline(i)
  PROVE  /\ PipeForm' /\ pipe'[1] = Entering(i)
         /\ \A k \in 1 .. 5 : pipe'[k + 1] = Leaves(k, i)
<1>1. pipe' = [k \in 1 .. 6 |-> IF k = 1 THEN Entering(i) ELSE Leaves(k - 1, i)]
  BY DEF Pipeline
<1>2. pipe'[1] = Entering(i)
  BY <1>1
<1>3. \A k \in 1 .. 5 : pipe'[k + 1] = Leaves(k, i)
  <2>1. \A k \in 1 .. 5 : k + 1 \in 1 .. 6 /\ k + 1 # 1 /\ k + 1 - 1 = k
    OBVIOUS
  <2>2. QED
    BY <1>1, <2>1
<1>4. \A k \in 1 .. 6 : k = 1 \/ \E j \in 1 .. 5 : k = j + 1
  <2>1. \A k \in 2 .. 6 : k - 1 \in 1 .. 5 /\ k = (k - 1) + 1
    OBVIOUS
  <2>2. QED
    BY <2>1
<1>5. DOMAIN pipe' = 1 .. 6
  BY <1>1
<1>6. ASSUME NEW k \in 1 .. 6
      PROVE  DOMAIN pipe'[k] = OpFields /\ pipe'[k].op \in {"none", "ld", "st", "drain", "install"}
  <2>1. CASE k = 1
    BY <1>2, <2>1, EnteringForm
  <2>2. CASE k # 1
    <3>1. PICK j \in 1 .. 5 : k = j + 1
      BY <1>4, <2>2
    <3>2. pipe'[k] = Leaves(j, i) /\ j \in 1 .. 6
      BY <1>3, <3>1
    <3>3. QED
      BY <3>2, LeavesForm
  <2>3. QED
    BY <2>1, <2>2
<1>7. QED
  BY <1>2, <1>3, <1>5, <1>6 DEF PipeForm

(* One drain at a time is in the pipe, for the store at the head.          *)
LEMMA DrainStep ==
  ASSUME RobForm, MaskForm, PipeForm, LoadsForm,
         NEW c, StoresAt(c), NEW i \in Inputs, Sensible(i), Rob(i), StoreQueue(i), Pipeline(i),
         NEW c1, c1 = c + RetiredStores(i) - Drained
  PROVE  DrainForm(c1)'
<1>1. /\ pipe'[1] = Entering(i) /\ \A k \in 1 .. 5 : pipe'[k + 1] = Leaves(k, i)
  BY PipeStep DEF StoresAt, CountForm, LoadsForm
<1>2. \A k \in 1 .. 6 : k = 1 \/ \E j \in 1 .. 5 : k = j + 1
  <2>1. \A k \in 2 .. 6 : k - 1 \in 1 .. 5 /\ k = (k - 1) + 1
    OBVIOUS
  <2>2. QED
    BY <2>1
<1>3. pipe'[1].op = "drain" => DrainFire(i) /\ pipe'[1].pc = sq[sqHead].pc
  BY <1>1, EnteringForm DEF StoresAt, CountForm, LoadsForm
<1>4. \A j \in 1 .. 5 : pipe'[j + 1].op = "drain" => pipe[j].op = "drain" /\ pipe'[j + 1].pc = pipe[j].pc
  <2>1. SUFFICES ASSUME NEW j \in 1 .. 5, pipe'[j + 1].op = "drain"
                 PROVE  pipe[j].op = "drain" /\ pipe'[j + 1].pc = pipe[j].pc
    OBVIOUS
  <2>2. j \in 1 .. 6 /\ pipe'[j + 1] = Leaves(j, i)
    BY <1>1
  <2>3. QED
    BY <2>1, <2>2, LeavesForm
<1>5. /\ Drained \in {0, 1} /\ c \in Nat /\ c1 \in Nat
      /\ RetiredStores(i) \in Nat /\ RetiredStores(i) <= AliveStores(i) /\ AliveStores(i) \in Nat
  BY PlaceNext, StoresNext
<1>6. DrainFire(i) => ~InPipe({"drain"}, 1 .. 6)
  BY DEF DrainFire
<1>7. \A k, l \in 1 .. 6 : pipe[k].op = "drain" /\ pipe[l].op = "drain" => k = l
  BY DEF StoresAt, DrainForm, DrainsInPipe
<1>8. \A j \in 1 .. 6 : pipe[j].op = "drain" => c > 0 /\ pipe[j].pc = sq[sqHead].pc
  BY DEF StoresAt, DrainForm, DrainsInPipe
<1>9. DrainFire(i) => c > 0 /\ \A j \in 1 .. 6 : pipe[j].op # "drain"
  <2>1. SUFFICES ASSUME DrainFire(i) PROVE c > 0
    BY <1>6 DEF InPipe
  <2>2. sq[sqHead] # NoRow /\ sq[sqHead].committed
    BY <2>1 DEF DrainFire, DrainReq
  <2>3. 0 \in 0 .. NumSq - 1 /\ sqHead = RingRow(0)
    BY RingForm DEF StoresAt
  <2>4. SUFFICES ASSUME c = 0 PROVE FALSE
    BY <1>5
  <2>5. (\E k \in Stores : 0 = Place(c, k)) \/ c + Cardinality(Stores) <= 0
    BY <2>3, <2>4, PlaceCases DEF StoresAt
  <2>6. QED
    BY <2>2, <2>3, <2>5 DEF StoresAt, HeldForm, FreeForm
<1>10. ASSUME c > 0, Drained = 0 PROVE c1 > 0 /\ sq'[sqHead'].pc = sq[sqHead].pc
  <2>1. c1 > 0
    BY <1>5, <1>10
  <2>2. 0 + Drained < c + AliveStores(i) /\ 0 \in Nat
    BY <1>5, <1>10
  <2>3. /\ sq[RingRow(0)] \in StoreRow /\ sq'[RingRow(0)'] = SqRow(RingRow(0), i)
    <3>1. /\ sq[RingRow(0 + Drained)] \in StoreRow
          /\ sq'[RingRow(0)'] = SqRow(RingRow(0 + Drained), i)
      BY <2>2, RowNext
    <3>2. 0 + Drained = 0
      BY <1>10
    <3>3. QED
      BY <3>1, <3>2
  <2>4. RingRow(0) = sqHead
    BY RingForm DEF StoresAt
  <2>5. RingRow(0)' = sqHead'
    <3>1. sqHead' \in 0 .. NumSq - 1 /\ NumSq \in Nat \ {0}
      BY RingNext, Sizes DEF StoresAt
    <3>2. RingRow(0)' = (sqHead' + 0) % NumSq
      BY DEF RingRow
    <3>3. QED
      BY <3>1, <3>2
  <2>6. SqRow(sqHead, i).pc = sq[sqHead].pc
    BY <2>3, <2>4, SqRowForm
  <2>7. QED
    BY <2>1, <2>3, <2>4, <2>5, <2>6
<1>11. ASSUME NEW k \in 1 .. 6, pipe'[k].op = "drain" PROVE c1 > 0 /\ pipe'[k].pc = sq'[sqHead'].pc
  <2>1. CASE k = 1
    <3>1. DrainFire(i) /\ pipe'[1].pc = sq[sqHead].pc
      BY <1>3, <1>11, <2>1
    <3>2. c > 0 /\ Drained = 0
      BY <1>9, <3>1 DEF Drained, PsWrite
    <3>3. QED
      BY <1>10, <2>1, <3>1, <3>2
  <2>2. CASE k # 1
    <3>1. PICK j \in 1 .. 5 : k = j + 1
      BY <1>2, <2>2
    <3>2. pipe[j].op = "drain" /\ pipe'[k].pc = pipe[j].pc
      BY <1>4, <1>11, <3>1
    <3>3. j \in 1 .. 6 /\ 6 \in 1 .. 6 /\ j # 6
      OBVIOUS
    <3>4. pipe[6].op # "drain"
      BY <1>7, <3>2, <3>3
    <3>5. c > 0 /\ Drained = 0 /\ pipe[j].pc = sq[sqHead].pc
      BY <1>8, <3>2, <3>3, <3>4 DEF Drained, PsWrite
    <3>6. QED
      BY <1>10, <3>2, <3>5
  <2>3. QED
    BY <2>1, <2>2
<1>12. ASSUME NEW k \in 1 .. 6, NEW l \in 1 .. 6, pipe'[k].op = "drain", pipe'[l].op = "drain" PROVE k = l
  <2>1. \A m \in 1 .. 6 : pipe'[m].op = "drain" =>
           (m = 1 /\ DrainFire(i)) \/ \E j \in 1 .. 5 : m = j + 1 /\ pipe[j].op = "drain"
    BY <1>2, <1>3, <1>4
  <2>2. \A j \in 1 .. 5 : j \in 1 .. 6
    OBVIOUS
  <2>3. QED
    BY <1>7, <1>9, <1>12, <2>1, <2>2
<1>13. QED
  BY <1>11, <1>12 DEF DrainForm, DrainsInPipe

(* An issued store that does not leave the pipe keeps waiting for it.      *)
LEMMA OwnerStays ==
  ASSUME RobForm, MaskForm, PipeForm, OwnersForm, LoadsForm, ResultFindsOwner,
         NEW c, StoresAt(c), NEW i \in Inputs, Sensible(i), Rob(i), StoreQueue(i),
         NEW j \in Stores, j <= Alive(i), ~rob[j].done,
         rob[j].iss \/ (Issues(i) /\ j = i.issue),
         ~(StoreDone(i) /\ Owns(6, j)),
         \/ ~sq[rob[j].q].ready /\ ~sq[rob[j].q].wait
         \/ SqReplay(i) /\ rob[j].q = OldestOf(SqReady, SqAge)
  PROVE  \E x \in Stores' :
           /\ Index(x)' = Index(j) /\ rob'[x].q = rob[j].q /\ rob'[x].iss /\ ~rob'[x].done
           /\ rob'[x].m = Clean(rob[j].m, i)
           /\ ~sq'[rob'[x].q].ready /\ ~sq'[rob'[x].q].wait
<1> DEFINE R == Retired(i)
<1>1. /\ R \in Nat /\ R <= Len(rob) /\ \A k \in 1 .. R : rob[k].done
      /\ j \in 1 .. Len(rob) /\ Len(rob) \in Nat
  BY RetiredForm, StoresFinite
<1>2. PICK x \in Nat : x > 0 /\ x + R = j
  <2>1. j \notin 1 .. R
    BY <1>1
  <2> HIDE DEF R
  <2>2. j - R \in Nat /\ j - R > 0 /\ (j - R) + R = j
    BY <1>1, <2>1
  <2>3. QED
    BY <2>2
<1>3. j \in WindowStores(i)
  BY <1>1, WindowForm
<1>4. x \in Stores'
  BY <1>2, <1>3, StoresNext
<1>5. /\ ~i.flush /\ j \in 1 .. Window(i) /\ rob'[x] = Written(i, j) /\ Index(x)' = Index(j)
  BY <1>2, <1>4, StoreFate
<1>6. /\ Written(i, j).q = rob[j].q /\ Written(i, j).m = Clean(rob[j].m, i)
      /\ Written(i, j).iss
  BY <1>5, WrittenForm
<1>7. ~Written(i, j).done
  BY <1>3, StoreDoneForm
<1> DEFINE n == RingRow(Place(c, j))
<1>8. /\ rob[j].q = n /\ sq[n] \in StoreRow
  BY DEF StoresAt, HeldForm
<1>9. Place(c, j) \in 0 .. NumSq - 1 /\ Place(c, j) < c + AliveStores(i) /\ c <= Place(c, j)
  <2>1. Alive(i) \in Nat
    BY AliveForm
  <2>2. QED
    BY <2>1, PlaceForm DEF StoresAt, AliveStores
<1>10. sq'[n] = SqRow(n, i)
  <2>1. PsWrite => c > 0
    BY DEF PsWrite, StoresAt, DrainForm, DrainsInPipe
  <2>2. c \in Nat
    BY DEF StoresAt, CountForm
  <2>3. ~(PsWrite /\ Place(c, j) = 0)
    BY <1>9, <2>1, <2>2
  <2>4. QED
    BY <1>9, <2>3, RowsNext
<1>11. StoreDone(i) => pipe[6].q # n
  <2>1. StoreDone(i) => 6 \in StoresInPipe
    BY DEF StoreDone, StoresInPipe
  <2>2. QED
    BY <2>1, OwnerByRow
<1> HIDE DEF n
<1>12. ~SqRow(n, i).ready /\ ~SqRow(n, i).wait
  BY <1>8, <1>11, SqRowForm
<1>13. QED
  BY <1>4, <1>5, <1>6, <1>7, <1>8, <1>10, <1>12

(* Every store in the pipe has its owner, and none has two.                *)
LEMMA OwnersStep ==
  ASSUME RobForm, MaskForm, PipeForm, OwnersForm, LoadsForm, ResultFindsOwner,
         NEW c, StoresAt(c), NEW i \in Inputs, Sensible(i), Rob(i), StoreQueue(i), Pipeline(i)
  PROVE  OwnersForm'
<1>1. /\ pipe'[1] = Entering(i) /\ \A k \in 1 .. 5 : pipe'[k + 1] = Leaves(k, i)
  BY PipeStep DEF StoresAt, CountForm, LoadsForm
<1>2. \A k \in 1 .. 6 : k = 1 \/ \E j \in 1 .. 5 : k = j + 1
  <2>1. \A k \in 2 .. 6 : k - 1 \in 1 .. 5 /\ k = (k - 1) + 1
    OBVIOUS
  <2>2. QED
    BY <2>1
<1>3. /\ Alive(i) \in 0 .. Len(rob) /\ Len(rob) \in Nat /\ DOMAIN rob = 1 .. Len(rob) /\ Len(rob) <= NumRob
      /\ \A j \in DOMAIN rob : Killed(rob[j].m, i) <=> j > Alive(i)
      /\ ~Recovers(i) => Alive(i) = Len(rob)
      /\ NumRob \in Nat
  BY AliveForm, Sizes DEF RobForm
<1>4. \A j, l \in 1 .. NumRob : Index(j) = Index(l) => j = l
  BY IndexDistinct
<1>5. \A j \in Stores : j \in DOMAIN rob /\ j \in 1 .. NumRob
  BY <1>3, StoresFinite DEF Stores, OfKind
<1>6. \A k \in StoresInPipe : \A j, l \in Stores : Owns(k, j) /\ Index(l) = pipe[k].rob => j = l
  BY <1>4, <1>5 DEF Owns
<1> DEFINE Stays(x, j) ==
             /\ Index(x)' = Index(j) /\ rob'[x].q = rob[j].q /\ rob'[x].iss /\ ~rob'[x].done
             /\ rob'[x].m = Clean(rob[j].m, i)
             /\ ~sq'[rob'[x].q].ready /\ ~sq'[rob'[x].q].wait
<1> DEFINE New(j) == /\ j \in Stores /\ pipe'[1].rob = Index(j) /\ pipe'[1].q = rob[j].q
                     /\ Clean(rob[j].m, i) => pipe'[1].m
                     /\ \A k \in StoresInPipe : ~Owns(k, j)
<1>7. ASSUME pipe'[1].op = "st" PROVE \E j : New(j) /\ \E x \in Stores' : Stays(x, j)
  <2>1. /\ Available(i)
        /\ \/ /\ SqReplay(i) /\ OldestOf(SqReady, SqAge) \in SqReady
              /\ LET n == OldestOf(SqReady, SqAge)
                 IN  pipe'[1].rob = sq[n].rob /\ pipe'[1].q = n /\ pipe'[1].m = sq[n].m
           \/ /\ Issues(i) /\ Op(rob[i.issue].pc) = "st"
              /\ pipe'[1].rob = Index(i.issue) /\ pipe'[1].q = rob[i.issue].q
              /\ pipe'[1].m = Clean(rob[i.issue].m, i)
    BY <1>1, <1>7, EnteringForm DEF StoresAt, CountForm, LoadsForm
  <2>2. ~Recovers(i)
    BY <2>1 DEF Available, Recovers
  <2>3. \A j \in Stores : j <= Alive(i)
    BY <1>3, <1>5, <2>2
  <2>4. ASSUME NEW n \in SqReady, SqReplay(i), n = OldestOf(SqReady, SqAge),
               pipe'[1].rob = sq[n].rob, pipe'[1].q = n, pipe'[1].m = sq[n].m
        PROVE  \E j : New(j) /\ \E x \in Stores' : Stays(x, j)
    <3>1. n \in SqRows /\ sq[n].ready /\ ~sq[n].committed /\ n \in 0 .. NumSq - 1
      BY DEF SqReady, SqRows
    <3>2. PICK p \in 0 .. NumSq - 1 : n = RingRow(p)
      BY <3>1, RingForm DEF StoresAt
    <3>3. ~(p < c) /\ p < c + Cardinality(Stores)
      BY <3>1, <3>2, RowForm
    <3>4. c + Cardinality(Stores) \in Nat /\ p \in Nat
      <4>1. c \in Nat /\ Cardinality(Stores) \in Nat /\ NumSq \in Nat
        BY StoresFinite, Sizes DEF StoresAt, CountForm
      <4>2. QED
        BY <4>1
    <3>5. PICK j \in Stores : p = Place(c, j)
      <4>1. ~(c + Cardinality(Stores) <= p)
        BY <3>3, <3>4
      <4>2. QED
        BY <3>3, <4>1, PlaceCases DEF StoresAt
    <3>6. /\ sq[n].rob = Index(j) /\ rob[j].q = n /\ (sq[n].m <=> rob[j].m)
          /\ rob[j].iss /\ ~rob[j].done
      BY <3>1, <3>2, <3>5 DEF StoresAt, HeldForm
    <3>7. \A k \in 1 .. 6 : ~Owns(k, j)
      BY <3>1, <3>6 DEF Owns
    <3>8. New(j)
      BY <2>4, <3>6, <3>7 DEF Clean, StoresInPipe
    <3>9. \E x \in Stores' : Stays(x, j)
      BY <2>3, <2>4, <3>6, <3>7, OwnerStays
    <3>10. QED
      BY <3>8, <3>9
  <2>5. ASSUME Issues(i), Op(rob[i.issue].pc) = "st",
               pipe'[1].rob = Index(i.issue), pipe'[1].q = rob[i.issue].q,
               pipe'[1].m = Clean(rob[i.issue].m, i)
        PROVE  \E j : New(j) /\ \E x \in Stores' : Stays(x, j)
    <3> DEFINE j == i.issue
    <3>1. j \in DOMAIN rob /\ ~rob[j].iss
      BY <2>5, InputsForm DEF Issues
    <3>2. j \in Stores
      BY <2>5, <3>1 DEF Stores, OfKind
    <3>3. ~rob[j].done /\ ~sq[rob[j].q].ready /\ ~sq[rob[j].q].wait
      BY <3>1, <3>2 DEF StoresAt, HeldForm
    <3>4. \A k \in 1 .. 6 : ~Owns(k, j)
      BY <3>1 DEF Owns
    <3>5. New(j)
      BY <2>5, <3>2, <3>4 DEF StoresInPipe
    <3>6. \E x \in Stores' : Stays(x, j)
      BY <2>3, <2>5, <3>2, <3>3, <3>4, OwnerStays
    <3>7. QED
      BY <3>5, <3>6
  <2>6. QED
    BY <2>1, <2>4, <2>5
<1> DEFINE Old(k, j) == /\ k \in StoresInPipe /\ j \in Stores /\ Owns(k, j)
                        /\ pipe'[k + 1].rob = pipe[k].rob /\ pipe'[k + 1].q = pipe[k].q
                        /\ pipe'[k + 1].m = Clean(pipe[k].m, i)
<1>8. ASSUME NEW k \in 1 .. 5, pipe'[k + 1].op = "st"
      PROVE  \E j : Old(k, j) /\ \E x \in Stores' : Stays(x, j)
  <2>1. k \in 1 .. 6 /\ 6 \in 1 .. 6 /\ k # 6
    OBVIOUS
  <2>2. /\ pipe[k].op = "st" /\ ~Killed(pipe[k].m, i)
        /\ pipe'[k + 1].rob = pipe[k].rob /\ pipe'[k + 1].q = pipe[k].q
        /\ pipe'[k + 1].m = Clean(pipe[k].m, i)
    BY <1>1, <1>8, <2>1, LeavesForm
  <2>3. k \in StoresInPipe
    BY <2>1, <2>2 DEF StoresInPipe
  <2>4. PICK j \in Stores : Owns(k, j)
    BY <2>3 DEF OwnersForm
  <2>5. Old(k, j)
    BY <2>2, <2>3, <2>4
  <2>6. ~rob[j].done /\ rob[j].iss /\ ~sq[rob[j].q].ready /\ ~sq[rob[j].q].wait /\ (rob[j].m => pipe[k].m)
        /\ Index(j) = pipe[k].rob
    BY <2>4 DEF Owns
  <2>7. j <= Alive(i)
    <3>1. ~Killed(rob[j].m, i)
      BY <2>2, <2>6 DEF Killed
    <3>2. j \in DOMAIN rob
      BY <1>5
    <3>3. QED
      BY <1>3, <3>1, <3>2
  <2>8. ~(StoreDone(i) /\ Owns(6, j))
    <3>1. SUFFICES ASSUME StoreDone(i), Owns(6, j) PROVE FALSE
      OBVIOUS
    <3>2. 6 \in StoresInPipe /\ pipe[6].rob = pipe[k].rob
      BY <2>1, <2>6, <3>1 DEF StoreDone, StoresInPipe, Owns
    <3>3. QED
      BY <2>1, <2>3, <3>2 DEF OwnersForm
  <2>9. \E x \in Stores' : Stays(x, j)
    BY <2>6, <2>7, <2>8, OwnerStays
  <2>10. QED
    BY <2>5, <2>9
<1>9. ASSUME NEW k \in StoresInPipe' PROVE \E x \in Stores' : Owns(k, x)'
  <2>1. k \in 1 .. 6 /\ pipe'[k].op = "st"
    BY DEF StoresInPipe
  <2>2. CASE k = 1
    <3>1. PICK j : New(j) /\ \E x \in Stores' : Stays(x, j)
      BY <1>7, <2>1, <2>2
    <3>2. PICK x \in Stores' : Stays(x, j)
      BY <3>1
    <3>3. /\ Index(x)' = pipe'[k].rob /\ rob'[x].q = pipe'[k].q /\ rob'[x].iss /\ ~rob'[x].done
          /\ rob'[x].m => pipe'[k].m
          /\ ~sq'[rob'[x].q].ready /\ ~sq'[rob'[x].q].wait
      BY <2>2, <3>1, <3>2
    <3>4. QED
      BY <3>3 DEF Owns
  <2>3. CASE k # 1
    <3>1. PICK l \in 1 .. 5 : k = l + 1
      BY <1>2, <2>1, <2>3
    <3>2. PICK j : Old(l, j) /\ \E x \in Stores' : Stays(x, j)
      BY <1>8, <2>1, <3>1
    <3>3. PICK x \in Stores' : Stays(x, j)
      BY <3>2
    <3>4. Index(j) = pipe[l].rob /\ rob[j].q = pipe[l].q /\ (rob[j].m => pipe[l].m)
      BY <3>2 DEF Owns
    <3>5. /\ Index(x)' = pipe'[k].rob /\ rob'[x].q = pipe'[k].q /\ rob'[x].iss /\ ~rob'[x].done
          /\ rob'[x].m => pipe'[k].m
          /\ ~sq'[rob'[x].q].ready /\ ~sq'[rob'[x].q].wait
      BY <3>1, <3>2, <3>3, <3>4 DEF Clean
    <3>6. QED
      BY <3>5 DEF Owns
  <2>4. QED
    BY <2>2, <2>3
<1>10. ASSUME NEW k \in StoresInPipe', NEW l \in StoresInPipe', pipe'[k].rob = pipe'[l].rob PROVE k = l
  <2>1. k \in 1 .. 6 /\ pipe'[k].op = "st" /\ l \in 1 .. 6 /\ pipe'[l].op = "st"
    BY DEF StoresInPipe
  <2>2. ASSUME NEW a \in 1 .. 5, pipe'[a + 1].op = "st"
        PROVE  a \in StoresInPipe /\ pipe'[a + 1].rob = pipe[a].rob /\ \E j \in Stores : Owns(a, j)
    BY <1>8, <2>2
  <2>3. ASSUME NEW a \in 1 .. 5, pipe'[a + 1].op = "st", pipe'[1].op = "st" PROVE pipe'[1].rob # pipe'[a + 1].rob
    <3>1. PICK j : New(j)
      BY <1>7, <2>3
    <3>2. a \in StoresInPipe /\ pipe'[a + 1].rob = pipe[a].rob
      BY <2>2, <2>3
    <3>3. PICK y \in Stores : Owns(a, y)
      BY <2>2, <2>3
    <3>4. SUFFICES ASSUME Index(j) = pipe[a].rob PROVE FALSE
      BY <3>1, <3>2
    <3>5. j = y
      BY <1>6, <3>1, <3>2, <3>3, <3>4
    <3>6. QED
      BY <3>1, <3>2, <3>3, <3>5
  <2>4. \A m \in 1 .. 6 : m = 1 \/ \E a \in 1 .. 5 : m = a + 1
    BY <1>2
  <2>5. CASE k = 1 \/ l = 1
    BY <1>10, <2>1, <2>3, <2>4, <2>5
  <2>6. CASE k # 1 /\ l # 1
    <3>1. PICK a \in 1 .. 5 : k = a + 1
      BY <2>1, <2>4, <2>6
    <3>2. PICK b \in 1 .. 5 : l = b + 1
      BY <2>1, <2>4, <2>6
    <3>3. a \in StoresInPipe /\ b \in StoresInPipe /\ pipe[a].rob = pipe[b].rob
      BY <1>10, <2>1, <2>2, <3>1, <3>2
    <3>4. a = b
      BY <3>3 DEF OwnersForm
    <3>5. QED
      BY <3>1, <3>2, <3>4
  <2>7. QED
    BY <2>5, <2>6
<1>11. QED
  BY <1>9, <1>10 DEF OwnersForm

-----------------------------------------------------------------------------
(* The load queue, the loads in the pipe and their results.                *)
LEMMA LqRowForm ==
  ASSUME LoadOpsForm, NEW i \in Inputs, NEW n, lq[n] \in LoadRow
  PROVE  LqRow(n, i) \in LoadRow
<1> DEFINE r == lq[n]
<1> DEFINE m0 == Clean(r.m, i)
<1> DEFINE r0 == r.ready \/ Wakes(r.why, i)
<1> DEFINE woken == [r EXCEPT !.m = m0, !.ready = r0]
<1> DEFINE rep == LqReplay(i) /\ n = OldestOf(LqReady, LqAge)
<1> DEFINE replayed == IF rep THEN [woken EXCEPT !.ready = FALSE, !.why = "none"] ELSE woken
<1> DEFINE o == pipe[2]
<1> DEFINE cap == o.op = "ld" /\ o.q = n /\ ~Killed(o.m, i)
<1> DEFINE m1 == Clean(o.m, i)
<1> DEFINE captured == IF cap THEN [replayed EXCEPT !.pc = o.pc, !.rob = o.rob, !.m = m1,
                                                   !.why = o.why, !.ready = FALSE]
                       ELSE replayed
<1> DEFINE hit == LoadDone(i) /\ pipe[6].q = n /\ pipe[6].gen = lqGen[n]
<1> DEFINE w == IF pipe[6].dec = "ok" THEN "none" ELSE pipe[6].dec
<1> DEFINE ok == pipe[6].dec = "ok"
<1> DEFINE rd == pipe[6].dec = "retry" \/ Wakes(pipe[6].dec, i)
<1>1. LqRow(n, i) = IF hit THEN [captured EXCEPT !.why = w, !.exec = ok, !.ready = rd] ELSE captured
  BY Zenon DEF LqRow, Updated
<1>2. r \in LoadRow /\ m0 \in BOOLEAN /\ r0 \in BOOLEAN /\ m1 \in BOOLEAN /\ ok \in BOOLEAN /\ rd \in BOOLEAN
  BY DEF Clean
<1>3. cap => o.pc \in LoadPcs /\ o.rob \in 0 .. NumRob - 1 /\ o.why \in Reasons
  BY DEF LoadOpsForm
<1>4. hit => w \in Reasons
  <2>1. SUFFICES ASSUME hit PROVE pipe[6].dec \in Reasons \cup {"ok"}
    BY DEF Reasons
  <2>2. QED
    BY <2>1 DEF LoadOpsForm, LoadDone
<1> DEFINE opc == o.pc
<1> DEFINE orob == o.rob
<1> DEFINE owhy == o.why
<1>5. /\ cap => opc \in LoadPcs /\ orob \in 0 .. NumRob - 1 /\ owhy \in Reasons
      /\ captured = IF cap THEN [replayed EXCEPT !.pc = opc, !.rob = orob, !.m = m1,
                                                 !.why = owhy, !.ready = FALSE]
                    ELSE replayed
  BY <1>3
<1> HIDE DEF r, m0, r0, rep, o, cap, m1, hit, w, ok, rd, opc, orob, owhy
<1>6. woken \in LoadRow
  BY <1>2 DEF LoadRow
<1>7. replayed \in LoadRow
  <2> DEFINE x == woken
  <2>1. x \in LoadRow /\ replayed = IF rep THEN [x EXCEPT !.ready = FALSE, !.why = "none"] ELSE x
    BY <1>6
  <2>2. "none" \in Reasons
    BY DEF Reasons
  <2> HIDE DEF x, replayed
  <2>3. QED
    BY <2>1, <2>2 DEF LoadRow
<1>8. captured \in LoadRow
  <2> HIDE DEF replayed, captured
  <2>1. QED
    BY <1>2, <1>5, <1>7 DEF LoadRow
<1>9. QED
  <2> DEFINE e == LqRow(n, i)
  <2> HIDE DEF captured, e
  <2>1. e = IF hit THEN [captured EXCEPT !.why = w, !.exec = ok, !.ready = rd] ELSE captured
    BY <1>1 DEF e
  <2>2. e \in LoadRow
    BY <1>2, <1>4, <1>8, <2>1 DEF LoadRow
  <2>3. QED
    BY <2>2 DEF e

(* The retired operations of a kind, counted.                              *)
LEMMA RetiredOfNat ==
  ASSUME RobForm, NEW i \in Inputs, NEW op
  PROVE  RetiredOf(op, i) \in Nat
<1>1. Retired(i) \in Nat
  BY RetiredForm
<1>2. IsFiniteSet(1 .. Retired(i))
  BY <1>1, FS_Interval
<1>3. {k \in 1 .. Retired(i) : Op(rob[k].pc) = op} \in SUBSET (1 .. Retired(i))
  OBVIOUS
<1>4. QED
  BY <1>2, <1>3, FS_Subset, FS_CardinalityType DEF RetiredOf

LEMMA RowsStep ==
  ASSUME RobForm, LoadsForm, NEW i \in Inputs, Sensible(i), LoadQueue(i)
  PROVE  RowsForm'
<1> DEFINE fresh == [pc |-> 0, rob |-> Index(Len(rob) + 1), m |-> NewMask(i),
                     ready |-> FALSE, exec |-> FALSE, why |-> "none"]
<1>1. /\ DOMAIN lq' = 0 .. NumLq - 1
      /\ \A n \in 0 .. NumLq - 1 :
           lq'[n] = IF Allocs(i, "ld") /\ n = lqTail THEN fresh
                    ELSE IF lq[n] = NoRow \/ n \in LqReleased(i) \/ Killed(lq[n].m, i) THEN NoRow
                    ELSE LqRow(n, i)
      /\ lqHead' = IF i.flush THEN 0 ELSE (lqHead + RetiredOf("ld", i)) % NumLq
  BY DEF LoadQueue
<1>2. Allocs(i, "ld") => fresh \in LoadRow
  <2>1. SUFFICES ASSUME Allocs(i, "ld") PROVE fresh \in LoadRow
    OBVIOUS
  <2>2. Len(rob) < NumRob /\ Len(rob) \in Nat
    BY <2>1, InputsForm, SequenceIs DEF Allocs, Room, RobForm
  <2>3. Len(rob) + 1 \in 1 .. NumRob
    BY <2>2, Sizes
  <2>4. Index(Len(rob) + 1) \in 0 .. NumRob - 1
    BY <2>3, IndexDistinct
  <2>5. NewMask(i) \in BOOLEAN /\ 0 \in LoadPcs /\ "none" \in Reasons
    BY DEF NewMask, LoadPcs, Reasons
  <2>6. QED
    BY <2>4, <2>5 DEF LoadRow
<1>3. lqHead' \in 0 .. NumLq - 1
  <2>1. NumLq \in Nat \ {0} /\ lqHead \in 0 .. NumLq - 1 /\ RetiredOf("ld", i) \in Nat
    BY Sizes, RetiredOfNat DEF LoadsForm, RowsForm
  <2>2. (lqHead + RetiredOf("ld", i)) % NumLq \in 0 .. NumLq - 1
    BY <2>1
  <2>3. QED
    BY <1>1, <2>1, <2>2
<1> HIDE DEF fresh
<1>4. ASSUME NEW n \in 0 .. NumLq - 1, lq'[n] # NoRow PROVE lq'[n] \in LoadRow
  <2>1. CASE Allocs(i, "ld") /\ n = lqTail
    BY <1>1, <1>2, <2>1
  <2>2. CASE ~(Allocs(i, "ld") /\ n = lqTail)
    <3>1. lq[n] # NoRow /\ lq'[n] = LqRow(n, i)
      BY <1>1, <1>4, <2>2
    <3>2. lq[n] \in LoadRow
      BY <3>1 DEF LoadsForm, RowsForm, LqRows
    <3>3. QED
      BY <3>1, <3>2, LqRowForm DEF LoadsForm
  <2>3. QED
    BY <2>1, <2>2
<1>5. QED
  BY <1>1, <1>3, <1>4 DEF RowsForm, LqRows

(* What S2 answers.                                                        *)
LEMMA DecisionForm ==
  ASSUME NEW o
  PROVE  /\ Decision(o) \in Reasons \cup {"ok"}
         /\ o.op = "drain" => Decision(o) \in {"ok", "mshr", "wb", "retry", "full"}
<1>1. Missed(o) \in {"mshr", "wb", "retry", "full"}
  BY Zenon DEF Missed
<1> DEFINE again == o.op \in {"ld", "st", "drain"} /\ (o.snap \/ Mutation)
<1> DEFINE ld == IF o.conf THEN "retry"
                 ELSE IF o.dec = "block" THEN "sq"
                 ELSE IF o.dec = "fwd" \/ (o.tag # "I" /\ ~Locked(LineOf(o))) THEN "ok"
                 ELSE Missed(o)
<1> DEFINE dr == IF o.tag = "M" /\ ~Locked(LineOf(o)) THEN "ok" ELSE Missed(o)
<1>2. Decision(o) = IF again THEN "retry"
                    ELSE CASE o.op = "st" -> "ok" [] o.op = "ld" -> ld [] o.op = "drain" -> dr [] OTHER -> "none"
  BY Zenon DEF Decision
<1>3. ld \in {"ok", "sq", "mshr", "wb", "retry", "full"} /\ dr \in {"ok", "mshr", "wb", "retry", "full"}
  BY <1>1, Zenon
<1> HIDE DEF again, ld, dr
<1>4. QED
  BY <1>2, <1>3 DEF Reasons

LEMMA LoadOpsStep ==
  ASSUME RobForm, PipeForm, LoadsForm, sqHead \in 0 .. NumSq - 1, NEW i \in Inputs, Pipeline(i)
  PROVE  LoadOpsForm'
<1>1. /\ pipe'[1] = Entering(i) /\ \A k \in 1 .. 5 : pipe'[k + 1] = Leaves(k, i)
  BY PipeStep DEF LoadsForm
<1>2. \A k \in 1 .. 6 : k = 1 \/ \E j \in 1 .. 5 : k = j + 1
  <2>1. \A k \in 2 .. 6 : k - 1 \in 1 .. 5 /\ k = (k - 1) + 1
    OBVIOUS
  <2>2. QED
    BY <2>1
<1>3. "none" \in Reasons
  BY DEF Reasons
<1>4. ASSUME pipe'[1].op = "ld"
      PROVE  pipe'[1].pc \in LoadPcs /\ pipe'[1].rob \in 0 .. NumRob - 1 /\ pipe'[1].why \in Reasons
  <2>1. \/ \E n \in LqReady : pipe'[1].pc = lq[n].pc /\ pipe'[1].rob = lq[n].rob /\ pipe'[1].why = lq[n].why
        \/ /\ Issues(i) /\ Op(rob[i.issue].pc) = "ld"
           /\ pipe'[1].pc = rob[i.issue].pc /\ pipe'[1].rob = Index(i.issue) /\ pipe'[1].why = "none"
    BY <1>1, <1>4, EnteringForm DEF LoadsForm
  <2>2. ASSUME NEW n \in LqReady, pipe'[1].pc = lq[n].pc, pipe'[1].rob = lq[n].rob, pipe'[1].why = lq[n].why
        PROVE  pipe'[1].pc \in LoadPcs /\ pipe'[1].rob \in 0 .. NumRob - 1 /\ pipe'[1].why \in Reasons
    <3>1. lq[n] \in LoadRow
      BY DEF LqReady, LoadsForm, RowsForm
    <3>2. lq[n].pc \in LoadPcs /\ lq[n].rob \in 0 .. NumRob - 1 /\ lq[n].why \in Reasons
      BY <3>1 DEF LoadRow
    <3>3. QED
      BY <2>2, <3>2
  <2>3. ASSUME Issues(i), Op(rob[i.issue].pc) = "ld", pipe'[1].pc = rob[i.issue].pc,
               pipe'[1].rob = Index(i.issue), pipe'[1].why = "none"
        PROVE  pipe'[1].pc \in LoadPcs /\ pipe'[1].rob \in 0 .. NumRob - 1 /\ pipe'[1].why \in Reasons
    <3>1. i.issue \in DOMAIN rob
      BY <2>3, InputsForm DEF Issues
    <3>2. rob[i.issue].pc \in Pc /\ i.issue \in 1 .. NumRob
      BY <3>1, SequenceIs, Sizes DEF RobForm
    <3>3. Index(i.issue) \in 0 .. NumRob - 1
      BY <3>2, IndexDistinct
    <3>4. QED
      BY <1>3, <2>3, <3>2, <3>3 DEF LoadPcs, PcsOfKind
  <2>4. QED
    BY <2>1, <2>2, <2>3
<1>5. ASSUME NEW k \in 1 .. 5, pipe'[k + 1].op = "ld"
      PROVE  /\ pipe'[k + 1].pc \in LoadPcs /\ pipe'[k + 1].rob \in 0 .. NumRob - 1 /\ pipe'[k + 1].why \in Reasons
             /\ k = 5 => pipe'[k + 1].dec = Decision(pipe[k])
  <2>1. k \in 1 .. 6 /\ pipe'[k + 1] = Leaves(k, i)
    BY <1>1
  <2>2. /\ pipe[k].op = "ld" /\ pipe'[k + 1].pc = pipe[k].pc /\ pipe'[k + 1].rob = pipe[k].rob
        /\ pipe'[k + 1].why \in {pipe[k].why, "none"}
        /\ k = 5 => pipe'[k + 1].dec = Decision(pipe[k])
    BY <1>5, <2>1, LeavesForm
  <2>3. pipe[k].pc \in LoadPcs /\ pipe[k].rob \in 0 .. NumRob - 1 /\ pipe[k].why \in Reasons
    BY <2>1, <2>2 DEF LoadsForm, LoadOpsForm
  <2>4. QED
    BY <1>3, <2>2, <2>3
<1>6. ASSUME pipe'[6].op = "ld" PROVE pipe'[6].dec \in Reasons \cup {"ok"}
  <2>1. 5 \in 1 .. 5 /\ 5 + 1 = 6
    OBVIOUS
  <2>2. pipe'[6].dec = Decision(pipe[5])
    BY <1>5, <1>6, <2>1
  <2>3. QED
    BY <2>2, DecisionForm
<1>7. QED
  BY <1>2, <1>4, <1>5, <1>6 DEF LoadOpsForm

LEMMA ResultsStep ==
  ASSUME ResultsForm, LoadOpsForm, NEW i \in Inputs, Results(i)
  PROVE  /\ ResultsForm' /\ Len(fifo) \in Nat /\ Len(fifo') \in Nat
         /\ Len(fifo') <= Len(fifo) + (IF pipe[6].op = "ld" THEN 1 ELSE 0)
<1> DEFINE kept == IF Pops(i) THEN Tail(fifo) ELSE fifo
<1> DEFINE mapped == [k \in DOMAIN kept |-> [kept[k] EXCEPT !.ok = @ /\ ~Killed(kept[k].m, i),
                                                            !.m = Clean(@, i)]]
<1> DEFINE Good(s) == /\ IsSequence(s)
                      /\ \A k \in DOMAIN s : DOMAIN s[k] = ResultFields /\ s[k].pc \in LoadPcs
<1>1. /\ fifo' = IF i.flush THEN <<>> ELSE mapped \o Pushed(i)
      /\ w1' = IF Pops(i) /\ ~ResultKilled(fifo[1], i)
                 THEN [fifo[1] EXCEPT !.m = Clean(@, i)] ELSE NoRow
  BY Zenon DEF Results
<1>2. /\ Good(fifo) /\ Len(fifo) \in Nat /\ DOMAIN fifo = 1 .. Len(fifo)
  BY SequenceIs DEF ResultsForm
<1>3. Pops(i) => Len(fifo) > 0
  <2>1. SUFFICES ASSUME Len(fifo) = 0 PROVE fifo = <<>>
    BY <1>2 DEF Pops
  <2>2. fifo = [k \in 1 .. 0 |-> fifo[k]]
    BY <1>2, <2>1, SequenceIs
  <2>3. QED
    BY <2>2
<1>4. Good(kept) /\ Len(kept) \in Nat /\ DOMAIN kept = 1 .. Len(kept) /\ Len(kept) <= Len(fifo)
  <2>1. CASE Pops(i)
    <3> DEFINE t == Tail(fifo)
    <3>1. /\ IsSequence(t) /\ Len(t) = Len(fifo) - 1 /\ DOMAIN t = 1 .. Len(fifo) - 1
          /\ \A k \in 1 .. Len(fifo) - 1 : t[k] = fifo[k + 1]
      BY <1>2, <1>3, <2>1, SequenceRest
    <3> HIDE DEF t
    <3>2. \A k \in DOMAIN t : k + 1 \in DOMAIN fifo /\ t[k] = fifo[k + 1]
      BY <1>2, <3>1
    <3>3. Good(t) /\ Len(t) \in Nat /\ DOMAIN t = 1 .. Len(t) /\ Len(t) <= Len(fifo)
      BY <1>2, <1>3, <2>1, <3>1, <3>2
    <3>4. kept = t
      BY <2>1 DEF t
    <3> HIDE DEF kept
    <3>5. QED
      BY <3>3, <3>4
  <2>2. CASE ~Pops(i)
    <3>1. kept = fifo
      BY <2>2
    <3> HIDE DEF kept
    <3>2. QED
      BY <1>2, <3>1
  <2>3. QED
    BY <2>1, <2>2
<1> HIDE DEF kept
<1>5. Good(mapped) /\ Len(mapped) = Len(kept)
  <2>1. mapped = [k \in 1 .. Len(kept) |-> mapped[k]]
    BY <1>4
  <2>2. ASSUME NEW k \in DOMAIN kept
        PROVE  DOMAIN mapped[k] = ResultFields /\ mapped[k].pc \in LoadPcs
    <3> DEFINE a == kept[k].ok /\ ~Killed(kept[k].m, i)
    <3> DEFINE b == Clean(kept[k].m, i)
    <3>1. mapped[k] = [kept[k] EXCEPT !.ok = a, !.m = b]
      BY <2>2
    <3>2. DOMAIN kept[k] = ResultFields /\ kept[k].pc \in LoadPcs
      BY <1>4, <2>2
    <3> HIDE DEF mapped, a, b
    <3>3. QED
      BY <3>1, <3>2 DEF ResultFields
  <2>3. DOMAIN mapped = DOMAIN kept
    OBVIOUS
  <2> HIDE DEF mapped
  <2>4. QED
    BY <1>4, <2>1, <2>2, <2>3, SequenceForm
<1> HIDE DEF mapped
<1> DEFINE r == [ok |-> TRUE, pc |-> pipe[6].pc, rob |-> pipe[6].rob,
                 m |-> Clean(pipe[6].m, i), val |-> pipe[6].val]
<1>6. /\ Pushed(i) = IF LoadDone(i) /\ pipe[6].dec = "ok" THEN <<r>> ELSE <<>>
      /\ LoadDone(i) => pipe[6].op = "ld" /\ pipe[6].pc \in LoadPcs
  BY DEF Pushed, LoadDone, LoadOpsForm
<1>7. LoadDone(i) => DOMAIN r = ResultFields /\ r.pc \in LoadPcs
  BY <1>6 DEF ResultFields
<1> HIDE DEF r
<1> DEFINE f == mapped \o Pushed(i)
<1>8. Good(f) /\ Len(f) \in Nat /\ Len(f) <= Len(fifo) + (IF pipe[6].op = "ld" THEN 1 ELSE 0)
  <2>1. CASE LoadDone(i) /\ pipe[6].dec = "ok"
    <3>1. f = mapped \o <<r>>
      BY <1>6, <2>1
    <3>2. /\ IsSequence(mapped \o <<r>>) /\ Len(mapped \o <<r>>) = Len(mapped) + 1
          /\ \A k \in 1 .. Len(mapped) : (mapped \o <<r>>)[k] = mapped[k]
          /\ (mapped \o <<r>>)[Len(mapped) + 1] = r
      BY <1>5, SequenceAppend
    <3> HIDE DEF f
    <3>3. /\ IsSequence(f) /\ Len(f) = Len(mapped) + 1
          /\ \A k \in 1 .. Len(mapped) : f[k] = mapped[k]
          /\ f[Len(mapped) + 1] = r
      BY <3>1, <3>2
    <3>4. DOMAIN f = 1 .. Len(mapped) + 1 /\ DOMAIN mapped = 1 .. Len(mapped) /\ Len(mapped) \in Nat
      BY <1>5, <3>3, SequenceIs
    <3>5. ASSUME NEW k \in DOMAIN f PROVE DOMAIN f[k] = ResultFields /\ f[k].pc \in LoadPcs
      <4>1. k \in 1 .. Len(mapped) \/ k = Len(mapped) + 1
        BY <3>4
      <4>2. QED
        BY <1>5, <1>7, <2>1, <3>3, <3>4, <4>1
    <3>6. QED
      BY <1>2, <1>4, <1>5, <1>6, <2>1, <3>3, <3>4, <3>5
  <2>2. CASE ~(LoadDone(i) /\ pipe[6].dec = "ok")
    <3>1. Pushed(i) = <<>>
      BY <1>6, <2>2
    <3>2. mapped \o <<>> = mapped
      BY <1>5, SequenceAppend
    <3>3. f = mapped
      BY <3>1, <3>2
    <3> HIDE DEF f
    <3>4. QED
      BY <1>2, <1>4, <1>5, <3>3
  <2>3. QED
    BY <2>1, <2>2
<1> HIDE DEF f
<1>9. Good(<<>>) /\ Len(<<>>) = 0
  BY DEF IsSequence
<1>10. w1' # NoRow => w1'.pc \in LoadPcs
  <2>1. SUFFICES ASSUME Pops(i), w1' = [fifo[1] EXCEPT !.m = Clean(@, i)] PROVE w1'.pc \in LoadPcs
    BY <1>1
  <2>2. 1 \in DOMAIN fifo
    BY <1>2, <1>3, <2>1
  <2>3. DOMAIN fifo[1] = ResultFields /\ fifo[1].pc \in LoadPcs
    BY <1>2, <2>2
  <2>4. QED
    BY <2>1, <2>3 DEF ResultFields
<1>11. fifo' = IF i.flush THEN <<>> ELSE f
  BY <1>1 DEF f
<1>12. Good(fifo') /\ Len(fifo') \in Nat /\ Len(fifo') <= Len(fifo) + (IF pipe[6].op = "ld" THEN 1 ELSE 0)
  BY <1>2, <1>8, <1>9, <1>11
<1>13. QED
  BY <1>2, <1>10, <1>12 DEF ResultsForm

(* The operations in the pipe and the results behind it never exceed the   *)
(* FIFO: an operation enters with a reservation.                           *)
Reserved == PipeForm /\ Len(fifo) + Inflight <= Fifo

LEMMA ReservedStep ==
  ASSUME RobForm, LoadsForm, sqHead \in 0 .. NumSq - 1, Reserved, NEW i \in Inputs, Results(i), Pipeline(i)
  PROVE  Reserved'
<1> DEFINE S == {k \in 1 .. 6 : pipe[k].op \in {"ld", "st"}}
<1>1. /\ pipe'[1] = Entering(i) /\ \A k \in 1 .. 5 : pipe'[k + 1] = Leaves(k, i) /\ PipeForm'
  BY PipeStep DEF LoadsForm, Reserved
<1>2. /\ Len(fifo) \in Nat /\ Len(fifo') \in Nat
      /\ Len(fifo') <= Len(fifo) + (IF pipe[6].op = "ld" THEN 1 ELSE 0)
  BY ResultsStep DEF LoadsForm
<1>3. IsFiniteSet(1 .. 6)
  <2>1. 1 \in Int /\ 6 \in Int
    OBVIOUS
  <2>2. QED
    BY ONLY <2>1, FS_Interval, Zenon
<1> DEFINE T == S'
<1>4. /\ IsFiniteSet(S) /\ Cardinality(S) \in Nat /\ IsFiniteSet(T) /\ T \subseteq Nat /\ S \subseteq Nat
  <2>1. S \in SUBSET (1 .. 6) /\ T \in SUBSET (1 .. 6)
    OBVIOUS
  <2>2. S \subseteq Nat /\ T \subseteq Nat
    OBVIOUS
  <2> HIDE DEF S, T
  <2>3. IsFiniteSet(S) /\ IsFiniteSet(T)
    BY <1>3, <2>1, FS_Subset
  <2>4. QED
    BY <2>2, <2>3, FS_CardinalityType
<1>5. Inflight = Cardinality(S) /\ Inflight' = Cardinality(T)
  BY DEF Inflight
<1> DEFINE U == {x \in Nat : x > 0 /\ x + 1 \in T}
<1>6. U \subseteq S /\ 6 \notin U
  <2>1. ASSUME NEW x \in U PROVE x \in S /\ x # 6
    <3>1. x \in 1 .. 5 /\ x \in 1 .. 6 /\ pipe'[x + 1].op \in {"ld", "st"}
      OBVIOUS
    <3>2. pipe'[x + 1] = Leaves(x, i)
      BY <1>1, <3>1
    <3>3. Leaves(x, i).op \in {pipe[x].op, "none"}
      BY <3>1, LeavesForm DEF Reserved
    <3>4. pipe[x].op \in {"ld", "st"}
      BY <3>1, <3>2, <3>3
    <3>5. QED
      BY <3>1, <3>4
  <2>2. QED
    BY <2>1
<1>7. 1 \in T => Available(i)
  <2>1. SUFFICES ASSUME 1 \in T PROVE Available(i)
    OBVIOUS
  <2>2. Entering(i).op \in {"ld", "st"}
    BY <1>1, <2>1
  <2>3. QED
    BY <2>2, EnteringForm DEF LoadsForm
<1>8. pipe[6].op = "ld" => 6 \in S
  OBVIOUS
<1>9. 0 \notin T
  OBVIOUS
<1>10. Cardinality(T) = Cardinality(U) + Cardinality(Below(T, 2)) /\ IsFiniteSet(U)
       /\ Cardinality(U) \in Nat /\ Cardinality(Below(T, 2)) \in Nat
  <2>1. ASSUME NEW V, V = T, NEW Y, Y = U
        PROVE  /\ Cardinality(Y) = Cardinality(V) - Cardinality(Below(V, 1 + 1)) /\ IsFiniteSet(Y)
               /\ Cardinality(Y) \in Nat /\ Cardinality(Below(V, 1 + 1)) \in Nat
    <3>1. /\ V \subseteq Nat /\ IsFiniteSet(V) /\ 1 \in Nat /\ Y \subseteq Nat
          /\ \A x \in Nat : x \in Y <=> x > 0 /\ x + 1 \in V
      <4>1. V \subseteq Nat /\ IsFiniteSet(V)
        BY <1>4, <2>1
      <4>2. Y = {x \in Nat : x > 0 /\ x + 1 \in V}
        BY <2>1
      <4>3. QED
        BY <4>1, <4>2
    <3>2. QED
      BY ONLY <3>1, CountRest, Zenon
  <2> HIDE DEF T, U
  <2>2. Cardinality(T) \in Nat
    BY <1>4, FS_CardinalityType
  <2>3. 1 + 1 = 2
    OBVIOUS
  <2>4. QED
    BY <2>1, <2>2, <2>3
<1> HIDE DEF T, U, S
<1>11. Cardinality(Below(T, 2)) <= IF 1 \in T THEN 1 ELSE 0
  <2>1. CASE 1 \in T
    <3>1. Below(T, 2) \subseteq {1}
      <4>1. \A x \in Nat : x < 2 => x = 0 \/ x = 1
        OBVIOUS
      <4>2. QED
        BY <1>4, <1>9, <4>1 DEF Below
    <3>2. IsFiniteSet({1}) /\ Cardinality({1}) = 1
      BY FS_Singleton
    <3>3. QED
      BY <2>1, <3>1, <3>2, FS_Subset
  <2>2. CASE 1 \notin T
    <3>1. Below(T, 2) = {}
      <4>1. \A x \in Nat : x < 2 => x = 0 \/ x = 1
        OBVIOUS
      <4>2. QED
        BY <1>4, <1>9, <2>2, <4>1 DEF Below
    <3>2. QED
      BY <2>2, <3>1, FS_EmptySet
  <2>3. QED
    BY <2>1, <2>2
<1>12. Cardinality(U) + (IF pipe[6].op = "ld" THEN 1 ELSE 0) <= Cardinality(S)
  <2>1. CASE pipe[6].op = "ld"
    <3>1. IsFiniteSet(S \ {6}) /\ Cardinality(S \ {6}) = Cardinality(S) - 1
      BY <1>4, <1>8, <2>1, FS_RemoveElement
    <3>2. U \in SUBSET (S \ {6})
      BY <1>6
    <3>3. Cardinality(U) <= Cardinality(S \ {6})
      BY <3>1, <3>2, FS_Subset
    <3>4. QED
      BY <1>4, <1>10, <2>1, <3>1, <3>3
  <2>2. CASE pipe[6].op # "ld"
    <3>1. Cardinality(U) <= Cardinality(S)
      BY <1>4, <1>6, FS_Subset
    <3>2. QED
      BY <1>4, <1>10, <2>2, <3>1
  <2>3. QED
    BY <2>1, <2>2
<1>13. /\ Len(fifo) + Cardinality(S) <= Fifo
       /\ Available(i) => Len(fifo) + Cardinality(S) < Fifo
  BY <1>5 DEF Reserved, Available
<1>14. Len(fifo') + Cardinality(T) <= Fifo
  <2>1. Fifo \in Nat
    BY Sizes
  <2> DEFINE a == IF pipe[6].op = "ld" THEN 1 ELSE 0
  <2> DEFINE b == Cardinality(Below(T, 2))
  <2> DEFINE u == Cardinality(U)
  <2>2. a \in Nat /\ Len(fifo') <= Len(fifo) + a /\ u + a <= Cardinality(S) /\ u \in Nat /\ b \in Nat
        /\ Cardinality(T) = u + b /\ Cardinality(S) \in Nat
    BY <1>2, <1>4, <1>10, <1>12
  <2>3. b = 0 \/ (b = 1 /\ Len(fifo) + Cardinality(S) < Fifo)
    BY <1>7, <1>10, <1>11, <1>13
  <2> HIDE DEF a, b, u
  <2>4. QED
    BY <1>2, <1>13, <2>1, <2>2, <2>3
<1>15. QED
  BY <1>1, <1>5, <1>14 DEF Reserved


-----------------------------------------------------------------------------
(* The invariant over a cycle.                                             *)
LEMMA StoreInvCycle ==
  ASSUME StoreInv, ResultFindsOwner, NEW i \in Inputs, Cycle(i)
  PROVE  StoreInv'
<1>1. /\ RobForm /\ MaskForm /\ PipeForm /\ OwnersForm
      /\ LoadsForm /\ RowsForm /\ LoadOpsForm /\ ResultsForm
  BY DEF StoreInv, LoadsForm
<1>2. PICK c \in 0 .. NumSq : StoresAt(c)
  BY DEF StoreInv
<1>3. /\ Sensible(i) /\ Rob(i) /\ StoreQueue(i) /\ Pipeline(i) /\ Results(i) /\ LoadQueue(i)
  BY DEF Cycle
<1>4. sqHead \in 0 .. NumSq - 1
  BY <1>2 DEF StoresAt, CountForm
<1>5. RobForm' /\ MaskForm' /\ PipeForm' /\ OwnersForm'
  BY <1>1, <1>2, <1>3, <1>4, RobStep, MaskStep, PipeStep, OwnersStep
<1>6. LoadsForm'
  BY <1>1, <1>3, <1>4, RowsStep, LoadOpsStep, ResultsStep DEF LoadsForm
<1>7. PICK c1 : c1 = c + RetiredStores(i) - Drained
  OBVIOUS
<1>8. StoresAt(c1)'
  <2>1. CountForm(c1)' /\ CommittedForm(c1)' /\ FreeForm(c1)'
    BY <1>1, <1>2, <1>3, <1>7, CountStep, CommittedStep, FreeStep
  <2>2. HeldForm(c1)' /\ SavedForm(c1)' /\ DrainForm(c1)'
    BY <1>1, <1>2, <1>3, <1>7, HeldStep, SavedStep, DrainStep
  <2>3. QED
    BY <2>1, <2>2 DEF StoresAt
<1>9. c1 \in 0 .. NumSq
  <2>1. c1 \in Nat /\ c1 + Cardinality(Stores') <= NumSq
    BY <1>8 DEF StoresAt, CountForm
  <2>2. Cardinality(Stores') \in Nat
    BY <1>1, <1>2, <1>3, <1>7, PlaceNext
  <2>3. NumSq \in Nat
    BY Sizes
  <2>4. QED
    BY <2>1, <2>2, <2>3
<1>10. QED
  BY <1>5, <1>6, <1>8, <1>9 DEF StoreInv

LEMMA StoreInvStutters ==
  ASSUME StoreInv, UNCHANGED vars
  PROVE  StoreInv'
<1> USE DEF vars
<1>1. RobForm' /\ MaskForm' /\ PipeForm'
  BY DEF StoreInv, RobForm, MaskForm, PipeForm, OpenBranch
<1>2. OwnersForm'
  <2>1. StoresInPipe' = StoresInPipe /\ Stores' = Stores
    BY DEF StoresInPipe, Stores, OfKind
  <2>2. \A k, j : Owns(k, j)' <=> Owns(k, j)
    BY DEF Owns, Index
  <2>3. OwnersForm
    BY DEF StoreInv
  <2>4. pipe' = pipe
    OBVIOUS
  <2>5. QED
    BY ONLY <2>1, <2>2, <2>3, <2>4 DEF OwnersForm
<1>3. LoadsForm'
  BY DEF StoreInv, LoadsForm, RowsForm, LoadOpsForm, ResultsForm, LqRows
<1>4. \A c \in 0 .. NumSq : StoresAt(c) => StoresAt(c)'
  <2>1. SUFFICES ASSUME NEW c \in 0 .. NumSq, StoresAt(c) PROVE StoresAt(c)'
    OBVIOUS
  <2>2. Stores' = Stores /\ OpenBranch' = OpenBranch /\ DrainsInPipe' = DrainsInPipe
    BY DEF Stores, OfKind, OpenBranch, DrainsInPipe
  <2>3. \A p : RingRow(p)' = RingRow(p) /\ Index(p)' = Index(p)
    BY DEF RingRow, Index
  <2>4. \A k : Place(c, k)' = Place(c, k)
    BY <2>2 DEF Place
  <2>5. sq' = sq /\ sqHead' = sqHead /\ sqCount' = sqCount /\ sqTail' = sqTail /\ rob' = rob
        /\ pipe' = pipe /\ ck' = ck
    OBVIOUS
  <2>6. CountForm(c) /\ CommittedForm(c) /\ HeldForm(c) /\ FreeForm(c) /\ SavedForm(c) /\ DrainForm(c)
    BY <2>1 DEF StoresAt
  <2>7. CountForm(c)' /\ CommittedForm(c)' /\ FreeForm(c)' /\ DrainForm(c)'
    BY ONLY <2>2, <2>3, <2>5, <2>6 DEF CountForm, CommittedForm, FreeForm, DrainForm
  <2>8. SavedForm(c)'
    BY ONLY <2>2, <2>3, <2>4, <2>5, <2>6 DEF SavedForm
  <2>9. HeldForm(c)'
    BY ONLY <2>2, <2>3, <2>4, <2>5, <2>6 DEF HeldForm
  <2>10. QED
    BY <2>7, <2>8, <2>9 DEF StoresAt
<1>5. QED
  BY <1>1, <1>2, <1>3, <1>4 DEF StoreInv

LEMMA StoreInvInit ==
  ASSUME Init
  PROVE  StoreInv
<1>1. /\ rob = <<>> /\ head = 0 /\ fetch \in Starts
      /\ lq = [n \in 0 .. NumLq - 1 |-> NoRow] /\ lqHead = 0
      /\ sq = [n \in 0 .. NumSq - 1 |-> NoRow] /\ sqHead = 0 /\ sqTail = 0 /\ sqCount = 0
      /\ pipe = [k \in 1 .. 6 |-> Bubble] /\ fifo = <<>> /\ w1 = NoRow
  BY DEF Init
<1>2. NumRob \in Nat \ {0} /\ NumLq \in Nat \ {0} /\ NumSq \in Nat \ {0}
  BY Sizes
<1>3. Len(<<>>) = 0 /\ DOMAIN <<>> = {} /\ IsSequence(<<>>)
  BY DEF IsSequence
<1>4. OpenBranch = {} /\ Stores = {}
  BY <1>1, <1>3 DEF OpenBranch, Stores, OfKind
<1>5. RobForm /\ MaskForm
  BY <1>1, <1>2, <1>3, <1>4, LoadStoreSizes DEF RobForm, MaskForm
<1>6. PipeForm /\ StoresInPipe = {} /\ DrainsInPipe = {} /\ \A k \in 1 .. 6 : pipe[k].op = "none"
  <2>1. DOMAIN Bubble = OpFields /\ Bubble.op = "none"
    BY DEF Bubble, OpFields
  <2>2. DOMAIN pipe = 1 .. 6 /\ \A k \in 1 .. 6 : pipe[k] = Bubble
    BY <1>1
  <2>3. QED
    BY ONLY <2>1, <2>2 DEF PipeForm, StoresInPipe, DrainsInPipe
<1>7. OwnersForm
  BY <1>6 DEF OwnersForm
<1>8. LoadsForm
  <2>1. LqRows = {}
    BY <1>1 DEF LqRows
  <2>2. RowsForm
    BY <1>1, <1>2, <2>1 DEF RowsForm
  <2>3. 6 \in 1 .. 6
    OBVIOUS
  <2>4. LoadOpsForm
    BY <1>6, <2>3 DEF LoadOpsForm
  <2>5. ResultsForm
    BY <1>1, <1>3 DEF ResultsForm
  <2>6. QED
    BY <2>2, <2>4, <2>5 DEF LoadsForm
<1>9. StoresAt(0)
  <2>1. Cardinality(Stores) = 0
    BY <1>4, FS_EmptySet
  <2>2. DOMAIN sq = 0 .. NumSq - 1 /\ \A n \in 0 .. NumSq - 1 : sq[n] = NoRow
    BY <1>1
  <2>3. \A p \in 0 .. NumSq - 1 : RingRow(p) = p
    <3>1. ASSUME NEW p \in 0 .. NumSq - 1 PROVE (0 + p) % NumSq = p
      <4>1. 0 \in 0 .. NumSq - 1 /\ p \in 0 .. NumSq /\ 0 + p = p /\ p < NumSq
        BY <1>2
      <4>2. QED
        BY <1>2, <4>1, RingSum
    <3>2. QED
      BY <1>1, <3>1 DEF RingRow
  <2>4. 0 \in 0 .. NumSq - 1
    BY <1>2
  <2>5. CountForm(0)
    BY <1>1, <1>2, <2>1, <2>2, <2>3, <2>4 DEF CountForm
  <2>6. CommittedForm(0) /\ FreeForm(0)
    BY <1>2, <2>2, <2>3 DEF CommittedForm, FreeForm
  <2>7. HeldForm(0) /\ SavedForm(0) /\ DrainForm(0)
    BY <1>4, <1>6 DEF HeldForm, SavedForm, DrainForm
  <2>8. QED
    BY <2>5, <2>6, <2>7 DEF StoresAt
<1>10. QED
  <2>1. 0 \in 0 .. NumSq
    BY <1>2
  <2>2. QED
    BY <1>5, <1>6, <1>7, <1>8, <1>9, <2>1 DEF StoreInv


(* The committed rows are the c at the head of the ring.                   *)
LEMMA CommittedIs ==
  ASSUME RobForm, NEW c, c \in 0 .. NumSq, StoresAt(c)
  PROVE  CommittedCount = c /\ Cardinality(SqRows) = c + Cardinality(Stores)
<1>1. CountForm(c)
  BY DEF StoresAt
<1>2. NumSq \in Nat /\ Cardinality(Stores) \in Nat /\ c \in Nat /\ c + Cardinality(Stores) <= NumSq
  BY <1>1, Sizes, StoresFinite DEF CountForm
<1>3. SqRows \subseteq 0 .. NumSq - 1
  BY DEF SqRows
<1>4. Cardinality(SqRows) = c + Cardinality(Stores)
  <2>1. c + Cardinality(Stores) \in 0 .. NumSq
    BY <1>2
  <2>2. \A p \in 0 .. NumSq - 1 : RingRow(p) \in SqRows <=> p < c + Cardinality(Stores)
    BY RowForm
  <2>3. QED
    BY <1>1, <1>3, <2>1, <2>2, RowsCount
<1>5. CommittedCount = c
  <2> DEFINE T == {n \in SqRows : sq[n].committed}
  <2>1. T \subseteq 0 .. NumSq - 1
    BY <1>3
  <2>2. ASSUME NEW p \in 0 .. NumSq - 1 PROVE RingRow(p) \in T <=> p < c
    <3>1. CASE p < c
      BY <3>1, RowForm
    <3>2. CASE \E k \in Stores : p = Place(c, k)
      <4>1. PICK k \in Stores : p = Place(c, k)
        BY <3>2
      <4>2. ~sq[RingRow(p)].committed /\ c <= p
        BY <1>1, <4>1, RowForm, PlaceForm
      <4>3. QED
        BY <1>2, <4>2
    <3>3. CASE c + Cardinality(Stores) <= p
      <4>1. RingRow(p) \notin SqRows
        BY <1>2, <3>3, RowForm
      <4>2. QED
        BY <1>2, <3>3, <4>1
    <3>4. QED
      BY <1>1, <3>1, <3>2, <3>3, PlaceCases
  <2>3. Cardinality(T) = c
    <3> HIDE DEF T
    <3>1. QED
      BY <1>1, <2>1, <2>2, RowsCount
  <2>4. QED
    BY <2>3 DEF CommittedCount
<1>6. QED
  BY <1>4, <1>5

LEMMA StoresFollow ==
  ASSUME StoreInv
  PROVE  StoresFollowRob
<1>1. RobForm
  BY DEF StoreInv
<1>2. PICK c \in 0 .. NumSq : StoresAt(c)
  BY DEF StoreInv
<1>3. CommittedCount = c /\ Cardinality(SqRows) = c + Cardinality(Stores)
  BY <1>1, <1>2, CommittedIs
<1>4. CountForm(c) /\ HeldForm(c)
  BY <1>2 DEF StoresAt
<1>5. /\ sqCount = Cardinality(SqRows) /\ sqTail = (sqHead + sqCount) % NumSq
      /\ sqCount = CommittedCount + Cardinality(Stores)
  BY <1>3, <1>4 DEF CountForm, RingRow
<1>6. ASSUME NEW k \in Stores
      PROVE  LET n == (sqHead + CommittedCount + NumBefore(Stores, k)) % NumSq
             IN  sq[n] # NoRow /\ sq[n].rob = Index(k) /\ rob[k].q = n /\ ~sq[n].committed
  <2> DEFINE n == (sqHead + CommittedCount + NumBefore(Stores, k)) % NumSq
  <2>1. NumBefore(Stores, k) = Cardinality(Below(Stores, k))
    BY DEF NumBefore, Below
  <2>2. n = RingRow(Place(c, k))
    <3>1. /\ sqHead \in Nat /\ c \in Nat /\ Cardinality(Below(Stores, k)) \in Nat
      <4>1. sqHead \in Nat /\ c \in Nat
        BY <1>4, Sizes DEF CountForm
      <4>2. k \in Nat
        BY <1>1, StoresFinite
      <4>3. QED
        BY <1>1, <4>1, <4>2, StoresFinite
    <3>2. sqHead + c + Cardinality(Below(Stores, k)) = sqHead + (c + Cardinality(Below(Stores, k)))
      BY <3>1
    <3>3. QED
      BY <1>3, <2>1, <3>2 DEF RingRow, Place
  <2>3. /\ sq[RingRow(Place(c, k))] \in StoreRow
        /\ ~sq[RingRow(Place(c, k))].committed /\ sq[RingRow(Place(c, k))].rob = Index(k)
        /\ rob[k].q = RingRow(Place(c, k))
    BY <1>4 DEF HeldForm
  <2>4. sq[RingRow(Place(c, k))] # NoRow
    BY <2>3, RowTaken
  <2> HIDE DEF n
  <2>5. sq[n] # NoRow /\ sq[n].rob = Index(k) /\ rob[k].q = n /\ ~sq[n].committed
    BY <2>2, <2>3, <2>4
  <2>6. QED
    BY <2>5 DEF n
<1>7. QED
  BY <1>5, <1>6 DEF StoresFollowRob, Stores

(* While results find their owners, the invariant holds.                   *)
LEMMA StoreInvAlways == Spec /\ []ResultFindsOwner => []StoreInv
<1>1. Init => StoreInv
  BY StoreInvInit
<1>2. StoreInv /\ ResultFindsOwner /\ [Next]_vars => StoreInv'
  BY StoreInvCycle, StoreInvStutters DEF Next
<1>3. QED
  BY <1>1, <1>2, PTL DEF Spec

(* Rename, retirement, recovery, flush and drain keep the store queue the  *)
(* stores of the ROB in program order behind the committed ones, as long   *)
(* as no late result reaches an index that was given away.                 *)
THEOREM StoresFollowRobTheorem == Spec /\ []ResultFindsOwner => []StoresFollowRob
BY StoreInvAlways, StoresFollow, PTL


-----------------------------------------------------------------------------
(* Types.  An install carries the state its line is granted.               *)
TailsForm == lqTail \in 0 .. NumLq - 1 /\ ck.lq \in 0 .. NumLq - 1
DrainerForm == dc \in [busy : BOOLEAN, wait : Reasons \ {"sq"}]
TagsForm ==
  /\ \A k \in 1 .. 6 : pipe[k].op = "install" => pipe[k].tag \in {"S", "M"}
  /\ \A l \in Line : cached[l] \in {"I", "S", "M"}
TypesForm == TailsForm /\ DrainerForm /\ TagsForm /\ Reserved

LEMMA TailsStep ==
  ASSUME TailsForm, NEW i \in Inputs, LoadQueue(i), Rob(i)
  PROVE  TailsForm'
<1>1. NumLq \in Nat \ {0}
  BY Sizes
<1>2. lqTail' = IF i.flush THEN 0
                ELSE IF i.res = "miss" THEN ck.lq
                ELSE IF Allocs(i, "ld") THEN (lqTail + 1) % NumLq ELSE lqTail
  BY Zenon DEF LoadQueue
<1>3. ck' = IF i.alloc /\ Op(fetch) = "br" THEN [lq |-> lqTail, sq |-> sqTail] ELSE ck
  BY Zenon DEF Rob
<1>4. lqTail \in 0 .. NumLq - 1 /\ ck.lq \in 0 .. NumLq - 1
  BY DEF TailsForm
<1>5. 0 \in 0 .. NumLq - 1 /\ (lqTail + 1) % NumLq \in 0 .. NumLq - 1
  BY <1>1, <1>4
<1>6. lqTail' \in 0 .. NumLq - 1
  BY <1>2, <1>4, <1>5
<1>7. ck'.lq \in {lqTail, ck.lq}
  BY <1>3
<1>8. QED
  BY <1>4, <1>6, <1>7 DEF TailsForm

LEMMA DrainerStep ==
  ASSUME DrainerForm, NEW i \in Inputs, Drain(i)
  PROVE  DrainerForm'
<1> DEFINE b == DrainFire(i) \/ (dc.busy /\ ~PsWrite /\ ~DrainRetry)
<1> DEFINE w == IF DrainRetry
                  THEN (IF Wakes(Decision(pipe[5]), i) THEN "none" ELSE Decision(pipe[5]))
                ELSE IF dc.wait = "retry" \/ Wakes(dc.wait, i) THEN "none" ELSE dc.wait
<1>1. dc' = [busy |-> b, wait |-> w]
  BY Zenon DEF Drain
<1>2. b \in BOOLEAN
  <2>1. DrainFire(i) \in BOOLEAN /\ dc.busy \in BOOLEAN
    BY DEF DrainFire, DrainerForm
  <2> DEFINE x == DrainFire(i)
  <2> DEFINE y == dc.busy
  <2> DEFINE z == ~PsWrite /\ ~DrainRetry
  <2>2. z \in BOOLEAN
    OBVIOUS
  <2>3. b = (x \/ (y /\ z))
    OBVIOUS
  <2> HIDE DEF x, y, z, b
  <2>4. QED
    BY <2>3
<1>3. w \in Reasons \ {"sq"}
  <2>1. DrainRetry => Decision(pipe[5]) \in {"mshr", "wb", "retry", "full"}
    <3>1. pipe[5].op = "drain" => Decision(pipe[5]) \in {"ok", "mshr", "wb", "retry", "full"}
      BY DecisionForm
    <3>2. QED
      BY <3>1 DEF DrainRetry
  <2>2. {"mshr", "wb", "retry", "full", "none"} \subseteq Reasons \ {"sq"}
    BY DEF Reasons
  <2>3. dc.wait \in Reasons \ {"sq"}
    BY DEF DrainerForm
  <2>4. QED
    BY ONLY <2>1, <2>2, <2>3
<1> HIDE DEF b, w
<1>4. QED
  BY <1>1, <1>2, <1>3 DEF DrainerForm

LEMMA TagsStep ==
  ASSUME TagsForm, RobForm, RowsForm, PipeForm, sqHead \in 0 .. NumSq - 1,
         NEW i \in Inputs, Pipeline(i), Cache(i)
  PROVE  TagsForm'
<1>1. /\ pipe'[1] = Entering(i)
      /\ \A k \in 1 .. 5 : pipe'[k + 1] = Leaves(k, i)
  BY PipeStep
<1>2. ASSUME NEW k \in 1 .. 6, pipe'[k].op = "install" PROVE pipe'[k].tag \in {"S", "M"}
  <2>1. CASE k = 1
    <3>1. Entering(i).tag = i.install /\ i.install # "none"
      BY <1>1, <1>2, <2>1, EnteringForm
    <3>2. i.install \in {"M"} \cup Grants
      BY <3>1, InputsForm
    <3>3. QED
      BY <1>1, <2>1, <3>1, <3>2, LoadStoreSizes
  <2>2. CASE k # 1
    <3>1. k - 1 \in 1 .. 5 /\ (k - 1) + 1 = k /\ k - 1 \in 1 .. 6
      BY <2>2
    <3> DEFINE j == k - 1
    <3> HIDE DEF j
    <3>2. j \in 1 .. 6 /\ pipe'[k] = Leaves(j, i)
      BY <1>1, <3>1 DEF j
    <3>3. Leaves(j, i).op = "install"
      BY <1>2, <3>2
    <3>4. pipe[j].op = "install" /\ Leaves(j, i).tag = pipe[j].tag
      BY <3>2, <3>3, LeavesForm
    <3>5. QED
      BY <3>2, <3>4 DEF TagsForm
  <2>3. QED
    BY <2>1, <2>2
<1>3. ASSUME NEW l \in Line PROVE cached'[l] \in {"I", "S", "M"}
  <2>1. cached' = [x \in Line |->
                    IF Install /\ mshr.line = x THEN (IF mshr.getm THEN "M" ELSE pipe[3].tag)
                    ELSE IF Evicts(i) /\ x = i.victim THEN "I" ELSE cached[x]]
    BY Zenon DEF Cache
  <2>2. Install => pipe[3].tag \in {"S", "M"}
    BY DEF Install, TagsForm
  <2>3. cached[l] \in {"I", "S", "M"}
    BY DEF TagsForm
  <2>4. QED
    BY <2>1, <2>2, <2>3
<1>4. QED
  BY <1>2, <1>3 DEF TagsForm

LEMMA TypesCycle ==
  ASSUME StoreInv, TypesForm, NEW i \in Inputs, Cycle(i)
  PROVE  TypesForm'
<1>1. RobForm /\ PipeForm /\ LoadsForm /\ RowsForm
  BY DEF StoreInv, LoadsForm
<1>2. sqHead \in 0 .. NumSq - 1
  BY DEF StoreInv, StoresAt, CountForm
<1>3. /\ Rob(i) /\ Pipeline(i) /\ Results(i) /\ LoadQueue(i) /\ Drain(i) /\ Cache(i)
  BY DEF Cycle
<1>4. TailsForm' /\ DrainerForm'
  BY <1>3, TailsStep, DrainerStep DEF TypesForm
<1>5. TagsForm' /\ Reserved'
  BY <1>1, <1>2, <1>3, TagsStep, ReservedStep DEF TypesForm
<1>6. QED
  BY <1>4, <1>5 DEF TypesForm

LEMMA TypesStutter ==
  ASSUME TypesForm, UNCHANGED vars
  PROVE  TypesForm'
<1>1. PipeForm' /\ Reserved'
  BY DEF vars, TypesForm, Reserved, PipeForm, Inflight
<1>2. TailsForm' /\ DrainerForm' /\ TagsForm'
  BY DEF vars, TypesForm, TailsForm, DrainerForm, TagsForm
<1>3. QED
  BY <1>1, <1>2 DEF TypesForm

LEMMA TypesInit ==
  ASSUME Init
  PROVE  TypesForm
<1>1. /\ lqTail = 0 /\ ck = [lq |-> 0, sq |-> 0] /\ dc = [busy |-> FALSE, wait |-> "none"]
      /\ pipe = [k \in 1 .. 6 |-> Bubble] /\ fifo = <<>>
      /\ cached = [l \in Line |-> IF l \in Warm THEN "M" ELSE "I"]
  BY DEF Init
<1>2. NumLq \in Nat \ {0} /\ Fifo \in Nat
  BY Sizes
<1>3. TailsForm
  BY <1>1, <1>2 DEF TailsForm
<1>4. DrainerForm
  BY <1>1 DEF DrainerForm, Reasons
<1>5. Bubble.op = "none"
  BY DEF Bubble
<1>6. \A k \in 1 .. 6 : pipe[k].op = "none"
  BY <1>1, <1>5
<1>7. TagsForm
  BY <1>1, <1>6 DEF TagsForm
<1>8. Inflight = 0
  <2>1. {k \in 1 .. 6 : pipe[k].op \in {"ld", "st"}} = {}
    BY <1>6
  <2>2. QED
    BY <2>1, FS_EmptySet DEF Inflight
<1>9. PipeForm
  BY StoreInvInit DEF StoreInv
<1>10. Len(fifo) = 0
  BY <1>1
<1>11. QED
  BY <1>2, <1>3, <1>4, <1>7, <1>8, <1>9, <1>10 DEF TypesForm, Reserved

LEMMA TypesHold ==
  ASSUME StoreInv, TypesForm
  PROVE  LsTypeOK
<1>1. Len(rob) <= NumRob /\ head \in 0 .. NumRob - 1 /\ fetch \in Pc \cup {0}
  BY DEF StoreInv, RobForm
<1>2. lqHead \in 0 .. NumLq - 1 /\ lqTail \in 0 .. NumLq - 1
  BY DEF StoreInv, LoadsForm, RowsForm, TypesForm, TailsForm
<1>3. sqHead \in 0 .. NumSq - 1 /\ sqTail \in 0 .. NumSq - 1 /\ sqCount \in 0 .. NumSq
  <2>1. PICK c : CountForm(c)
    BY DEF StoreInv, StoresAt
  <2>2. NumSq \in Nat \ {0} /\ Cardinality(Stores) \in Nat
    BY Sizes, StoresFinite DEF StoreInv
  <2>3. sqHead \in 0 .. NumSq - 1 /\ sqCount \in 0 .. NumSq /\ sqTail = (sqHead + sqCount) % NumSq
    <3> DEFINE m == Cardinality(Stores)
    <3>1. /\ c \in Nat /\ c + m <= NumSq /\ sqHead \in 0 .. NumSq - 1
          /\ sqCount = c + m /\ sqTail = (sqHead + sqCount) % NumSq
      BY <2>1 DEF CountForm, RingRow
    <3>2. m \in Nat /\ NumSq \in Nat
      BY <2>2
    <3> HIDE DEF m
    <3>3. QED
      BY <3>1, <3>2
  <2>4. sqTail \in 0 .. NumSq - 1
    BY <2>2, <2>3, RingSum
  <2>5. QED
    BY <2>3, <2>4
<1>4. dc \in [busy : BOOLEAN, wait : Reasons \ {"sq"}] /\ \A l \in Line : cached[l] \in {"I", "S", "M"}
  BY DEF TypesForm, DrainerForm, TagsForm
<1>5. \A n \in LqRows : lq[n].why \in Reasons /\ lq[n].rob \in 0 .. NumRob - 1
  BY DEF StoreInv, LoadsForm, RowsForm, LoadRow
<1>6. Len(fifo) <= Fifo
  <2>1. Len(fifo) \in Nat
    BY SequenceIs DEF StoreInv, LoadsForm, ResultsForm
  <2>2. Inflight \in Nat
    <3> DEFINE S == {k \in 1 .. 6 : pipe[k].op \in {"ld", "st"}}
    <3>1. 1 \in Int /\ 6 \in Int
      OBVIOUS
    <3>2. IsFiniteSet(1 .. 6)
      BY ONLY <3>1, FS_Interval, Zenon
    <3>3. S \in SUBSET (1 .. 6)
      OBVIOUS
    <3>4. Inflight = Cardinality(S)
      BY DEF Inflight
    <3> HIDE DEF S
    <3>5. QED
      BY <3>2, <3>3, <3>4, FS_Subset, FS_CardinalityType
  <2>3. Len(fifo) + Inflight <= Fifo /\ Fifo \in Nat
    BY Sizes DEF TypesForm, Reserved
  <2>4. QED
    BY <2>1, <2>2, <2>3
<1>7. QED
  BY <1>1, <1>2, <1>3, <1>4, <1>5, <1>6 DEF LsTypeOK

(* Registers keep their types, and no result finds the FIFO full: an       *)
(* operation enters the pipe with a reservation, the drop of a killed      *)
(* result gives its reservation back once.                                 *)
THEOREM LsTypeTheorem == Spec /\ []ResultFindsOwner => []LsTypeOK
<1>1. Init => TypesForm
  BY TypesInit
<1>2. TypesForm /\ StoreInv /\ [Next]_vars => TypesForm'
  BY TypesCycle, TypesStutter DEF Next
<1>3. StoreInv /\ TypesForm => LsTypeOK
  BY TypesHold
<1>4. QED
  BY <1>1, <1>2, <1>3, StoreInvAlways, PTL DEF Spec


-----------------------------------------------------------------------------
(* What memory shows behind the store queue.                               *)
Matches(p, l, b) == Op(p) = "st" /\ Prog[p].line = l /\ b \in Prog[p].bytes
Hits(s, l, b)    == {k \in DOMAIN s : Matches(s[k], l, b)}

(* The stores drained and to be drained after the retirement of a cycle.   *)
Retiring(i) == Draining \o PcsBefore(Retired(i) + 1)

LEMMA OverlayAt ==
  ASSUME NEW s, NEW l \in Line, NEW b \in Byte
  PROVE  Overlay(s)[l][b] = IF Hits(s, l, b) = {} THEN mem[l][b] ELSE LastIn(Hits(s, l, b), s)
<1>1. Overlay(s) = [x \in Line |-> [y \in Byte |->
                      IF Hits(s, x, y) = {} THEN mem[x][y] ELSE LastIn(Hits(s, x, y), s)]]
  BY Zenon DEF Overlay, Hits, Matches
<1>2. QED
  BY <1>1

(* The last of a set is its greatest.                                      *)
LEMMA LastIs ==
  ASSUME NEW S, S \subseteq Nat, NEW m \in S, \A j \in S : j <= m, NEW s
  PROVE  LastIn(S, s) = s[m]
<1> DEFINE x == CHOOSE k \in S : \A j \in S : j <= k
<1>1. x \in S /\ \A j \in S : j <= x
  OBVIOUS
<1>2. LastIn(S, s) = s[x]
  BY DEF LastIn
<1> HIDE DEF x
<1>3. x = m
  <2>1. x \in Nat /\ m \in Nat /\ x <= m /\ m <= x
    BY <1>1
  <2>2. QED
    BY <2>1
<1>4. QED
  BY <1>2, <1>3

(* A map that keeps the order, meets every hit but one before all others,  *)
(* and finds the same value, leads to the same last hit.                   *)
Moves(V, W, D, E, f) ==
  /\ V \subseteq Nat /\ IsFiniteSet(V) /\ V # {} /\ W \subseteq Nat
  /\ \A k \in V : f[k] \in W /\ D[k] = E[f[k]]
  /\ \A j, k \in V : j <= k => f[j] <= f[k]
  /\ \A x \in W : (\E k \in V : x = f[k]) \/ (\A k \in V : x <= f[k])

LEMMA LastMoves ==
  ASSUME NEW V, NEW W, NEW D, NEW E, NEW f, Moves(V, W, D, E, f)
  PROVE  LastIn(V, D) = LastIn(W, E)
<1> USE DEF Moves
<1>1. PICK m \in V : \A j \in V : j <= m
  BY FiniteMax
<1>2. LastIn(V, D) = D[m]
  <2>1. V \subseteq Nat /\ m \in V
    OBVIOUS
  <2>2. QED
    BY ONLY <1>1, <2>1, LastIs, Zenon
<1>3. \A x \in W : x <= f[m]
  BY <1>1
<1>4. f[m] \in W
  OBVIOUS
<1>5. LastIn(W, E) = E[f[m]]
  <2> DEFINE y == f[m]
  <2>1. y \in W /\ \A x \in W : x <= y
    BY <1>3, <1>4
  <2> HIDE DEF y
  <2>2. LastIn(W, E) = E[y]
    <3>1. W \subseteq Nat
      OBVIOUS
    <3>2. QED
      BY ONLY <2>1, <3>1, LastIs, Zenon
  <2>3. QED
    BY <2>2 DEF y
<1>6. QED
  BY <1>2, <1>5

LEMMA RetiringForm ==
  ASSUME RobForm, NEW c \in 0 .. NumSq, StoresAt(c), NEW n \in Nat, n <= Len(rob)
  PROVE  LET E == Draining \o PcsBefore(n + 1) IN
         /\ DOMAIN E = 1 .. c + n
         /\ \A k \in 1 .. c : E[k] = sq[RingRow(k - 1)].pc
         /\ \A j \in 1 .. n : E[c + j] = rob[j].pc
<1>1. CommittedCount = c /\ c \in Nat /\ sqHead \in Nat /\ Len(rob) \in Nat
  BY CommittedIs, Sizes, SequenceIs DEF StoresAt, CountForm, RobForm
<1> DEFINE D == Draining
<1> DEFINE P == PcsBefore(n + 1)
<1>2. D = [k \in 1 .. c |-> sq[(sqHead + k - 1) % NumSq].pc]
  BY <1>1 DEF Draining
<1>3. \A k \in 1 .. c : D[k] = sq[RingRow(k - 1)].pc
  <2>1. SUFFICES ASSUME NEW k \in 1 .. c PROVE D[k] = sq[RingRow(k - 1)].pc
    OBVIOUS
  <2>2. sqHead + k - 1 = sqHead + (k - 1)
    BY <1>1
  <2>3. D[k] = sq[(sqHead + k - 1) % NumSq].pc
    BY <1>2
  <2> HIDE DEF D
  <2>4. QED
    BY <2>2, <2>3 DEF RingRow
<1>4. D = [k \in 1 .. c |-> D[k]]
  BY <1>2
<1>5. P = [k \in 1 .. n |-> P[k]] /\ \A k \in 1 .. n : P[k] = rob[k].pc
  <2> DEFINE s == SubSeq(rob, 1, n)
  <2>1. rob \in Seq({rob[k] : k \in DOMAIN rob})
    BY DEF RobForm, IsSequence
  <2>2. s = [k \in 1 .. n |-> rob[k]]
    BY <1>1, <2>1
  <2>3. n + 1 - 1 = n
    OBVIOUS
  <2>4. P = [k \in DOMAIN s |-> s[k].pc]
    BY <2>3 DEF PcsBefore, PcsOf
  <2> HIDE DEF s, P
  <2>5. QED
    BY <2>2, <2>4
<1> HIDE DEF D, P
<1>6. IsSequence(D) /\ Len(D) = c
  BY <1>1, <1>4, SequenceForm
<1>7. IsSequence(P) /\ Len(P) = n
  BY <1>5, SequenceForm
<1>8. /\ DOMAIN (D \o P) = 1 .. c + n
      /\ \A k \in 1 .. c : (D \o P)[k] = D[k]
      /\ \A k \in 1 .. n : (D \o P)[c + k] = P[k]
  <2> DEFINE J(s, t) == /\ DOMAIN (s \o t) = 1 .. Len(s) + Len(t)
                        /\ \A k \in 1 .. Len(s) : (s \o t)[k] = s[k]
                        /\ \A k \in 1 .. Len(t) : (s \o t)[Len(s) + k] = t[k]
  <2>1. ASSUME NEW s, IsSequence(s), NEW t, IsSequence(t) PROVE J(s, t)
    BY ONLY <2>1, SequenceJoin
  <2>2. J(D, P)
    <3> HIDE DEF J
    <3>1. QED
      BY ONLY <1>6, <1>7, <2>1, Zenon
  <2>3. /\ DOMAIN (D \o P) = 1 .. Len(D) + Len(P)
        /\ \A k \in 1 .. Len(D) : (D \o P)[k] = D[k]
        /\ \A k \in 1 .. Len(P) : (D \o P)[Len(D) + k] = P[k]
    BY ONLY <2>2
  <2>4. QED
    BY ONLY <1>6, <1>7, <2>3, Zenon
<1>9. /\ DOMAIN (D \o P) = 1 .. c + n
      /\ \A k \in 1 .. c : (D \o P)[k] = sq[RingRow(k - 1)].pc
      /\ \A j \in 1 .. n : (D \o P)[c + j] = rob[j].pc
  BY <1>3, <1>5, <1>8
<1>10. QED
  BY <1>9 DEF D, P


LEMMA DrainingNext ==
  ASSUME RobForm, MaskForm, NEW c \in 0 .. NumSq, StoresAt(c),
         NEW i \in Inputs, Sensible(i), Rob(i), StoreQueue(i),
         NEW c1, c1 = c + RetiredStores(i) - Drained, CommittedCount' = c1
  PROVE  /\ c1 \in Nat /\ DOMAIN Draining' = 1 .. c1
         /\ \A k \in 1 .. c1 :
              /\ k - 1 + Drained \in 0 .. NumSq - 1
              /\ k - 1 + Drained < c + RetiredStores(i)
              /\ Draining'[k] = sq[RingRow(k - 1 + Drained)].pc
<1>1. Drained \in {0, 1} /\ Drained <= c /\ c \in Nat /\ c1 \in Nat
  BY PlaceNext
<1>2. /\ RetiredStores(i) \in Nat /\ RetiredStores(i) <= AliveStores(i) /\ AliveStores(i) \in Nat
  BY StoresNext
<1>3. Draining' = [k \in 1 .. c1 |-> sq'[(sqHead' + k - 1) % NumSq].pc]
  BY Zenon DEF Draining
<1>4. sqHead' \in Nat /\ CountForm(c)
  BY RingNext, Sizes DEF StoresAt
<1>5. ASSUME NEW k \in 1 .. c1
      PROVE  /\ k - 1 + Drained \in 0 .. NumSq - 1
             /\ k - 1 + Drained < c + RetiredStores(i)
             /\ Draining'[k] = sq[RingRow(k - 1 + Drained)].pc
  <2> DEFINE r == k - 1
  <2>1. r \in Nat /\ r + Drained < c + RetiredStores(i)
    BY <1>1, <1>2
  <2>2. r + Drained < c + AliveStores(i)
    BY <1>1, <1>2, <2>1
  <2>3. sqHead' + k - 1 = sqHead' + r
    BY <1>1, <1>4
  <2>4. Draining'[k] = sq'[(sqHead' + r) % NumSq].pc
    BY <1>3, <2>3
  <2> HIDE DEF r
  <2>5. /\ r + Drained \in 0 .. NumSq - 1 /\ sq[RingRow(r + Drained)] \in StoreRow
        /\ sq'[RingRow(r)'] = SqRow(RingRow(r + Drained), i)
    BY <2>1, <2>2, RowNext
  <2>6. SqRow(RingRow(r + Drained), i).pc = sq[RingRow(r + Drained)].pc
    BY <2>5, SqRowForm
  <2>7. RingRow(r)' = (sqHead' + r) % NumSq
    BY DEF RingRow
  <2>8. Draining'[k] = sq[RingRow(r + Drained)].pc
    BY <2>4, <2>5, <2>6, <2>7
  <2>9. QED
    BY <2>1, <2>5, <2>8 DEF r
<1>6. QED
  BY <1>1, <1>3, <1>5

(* The entry that drained, or retires, from where it is in the ring.       *)
LEMMA DrainsMove ==
  ASSUME RobForm, MaskForm, NEW c \in 0 .. NumSq, StoresAt(c),
         NEW i \in Inputs, Sensible(i), Rob(i), StoreQueue(i),
         NEW c1, c1 = c + RetiredStores(i) - Drained, CommittedCount' = c1,
         NEW l, NEW b, NEW D, D = Draining', NEW E, E = Retiring(i)
  PROVE  LET V == Hits(D, l, b)
             W == Hits(E, l, b)
         IN  /\ V # {} => W # {} /\ LastIn(V, D) = LastIn(W, E)
             /\ V = {} => W = {} \/ (Drained = 1 /\ W = {1})
             /\ Drained = 1 => (1 \in W <=> Matches(sq[sqHead].pc, l, b)) /\ E[1] = sq[sqHead].pc
<1> DEFINE V == Hits(D, l, b)
<1> DEFINE W == Hits(E, l, b)
<1> DEFINE d == Drained
<1> DEFINE R == Retired(i)
<1> DEFINE r == RetiredStores(i)
<1> DEFINE S == Stores
<1> DEFINE At(p) == CHOOSE j \in S : p = Place(c, j)
<1> DEFINE f == [k \in V |-> IF k + d <= c THEN k + d ELSE c + At(k - 1 + d)]
<1>1. d \in {0, 1} /\ d <= c /\ c \in Nat /\ c1 \in Nat /\ c1 = c + r - d
  BY PlaceNext
<1>2. /\ r \in Nat /\ R \in Nat /\ R <= Len(rob) /\ CountForm(c)
      /\ r <= Cardinality(S) /\ Cardinality(S) \in Nat
  <2>1. r \in Nat /\ R \in Nat /\ R <= Len(rob) /\ CountForm(c)
    BY StoresNext, RetiredForm DEF StoresAt
  <2>2. r <= Cardinality(S) /\ Cardinality(S) \in Nat
    <3>1. R + 1 \in Nat
      BY <2>1
    <3>2. QED
      BY <3>1, StoresFinite DEF RetiredStores
  <2>3. QED
    BY <2>1, <2>2
<1>3. /\ DOMAIN E = 1 .. c + R
      /\ \A k \in 1 .. c : E[k] = sq[RingRow(k - 1)].pc
      /\ \A j \in 1 .. R : E[c + j] = rob[j].pc
  BY <1>2, RetiringForm DEF Retiring
<1>4. /\ DOMAIN D = 1 .. c1
      /\ \A k \in 1 .. c1 : /\ k - 1 + d \in 0 .. NumSq - 1 /\ k - 1 + d < c + r
                            /\ D[k] = sq[RingRow(k - 1 + d)].pc
  BY DrainingNext
<1>5. S \subseteq Nat /\ (\A j \in S : j \in 1 .. Len(rob)) /\ Len(rob) \in Nat
  BY StoresFinite, SequenceIs DEF RobForm
<1>6. V \subseteq 1 .. c1 /\ W \subseteq 1 .. c + R
  BY <1>3, <1>4 DEF Hits
<1>7. ASSUME NEW p \in Nat, c <= p, p < c + r
      PROVE  /\ At(p) \in S /\ p = Place(c, At(p)) /\ At(p) \in 1 .. R
             /\ sq[RingRow(p)].pc = rob[At(p)].pc
  <2>1. \E j \in S : p = Place(c, j)
    <3> DEFINE m == Cardinality(Stores)
    <3>1. \A q \in Nat : c <= q /\ q < c + m => \E j \in Stores : q = Place(c, j)
      BY <1>2, PlaceForm
    <3>2. p < c + m
      <4>1. r \in Nat /\ m \in Nat /\ r <= m /\ p < c + r /\ c \in Nat /\ p \in Nat
        BY <1>1, <1>2, <1>7
      <4> HIDE DEF r, m
      <4>2. QED
        BY <4>1
    <3> HIDE DEF m
    <3>3. QED
      BY <1>7, <3>1, <3>2
  <2>2. At(p) \in S /\ p = Place(c, At(p))
    BY <2>1
  <2> HIDE DEF At
  <2>3. At(p) <= R
    <3>1. Place(c, At(p)) < c + Cardinality(Below(Stores, R + 1))
      BY <1>7, <2>2 DEF RetiredStores
    <3>2. QED
      BY <1>2, <2>2, <3>1, PlaceForm
  <2>4. At(p) \in 1 .. R
    <3>1. At(p) \in 1 .. Len(rob) /\ R \in Nat /\ Len(rob) \in Nat
      BY <1>2, <1>5, <2>2
    <3> HIDE DEF R
    <3>2. QED
      BY <2>3, <3>1
  <2>5. sq[RingRow(p)].pc = rob[At(p)].pc
    BY <2>2 DEF StoresAt, HeldForm
  <2>6. QED
    BY <2>2, <2>4, <2>5
<1> HIDE DEF At
<1>8. ASSUME NEW j \in S, NEW k \in S, j < k
      PROVE  Place(c, j) < Place(c, k)
  <2>1. Cardinality(Below(S, j)) < Cardinality(Below(S, k))
    BY <1>8, RankMonotone, StoresFinite
  <2>2. Cardinality(Below(S, j)) \in Nat /\ Cardinality(Below(S, k)) \in Nat
    BY <1>5, StoresFinite
  <2>3. QED
    BY <1>1, <2>1, <2>2 DEF Place
<1> HIDE DEF V, W, R, r, d, S
<1>9. ASSUME NEW k \in V
      PROVE  /\ k \in Nat /\ k \in 1 .. c1
             /\ k + d <= c => f[k] = k + d /\ k + d \in 1 .. c
             /\ ~(k + d <= c) => /\ f[k] = c + At(k - 1 + d) /\ k - 1 + d \in Nat /\ c <= k - 1 + d
                                 /\ k - 1 + d < c + r
                                 /\ At(k - 1 + d) \in S /\ At(k - 1 + d) \in 1 .. R
                                 /\ k - 1 + d = Place(c, At(k - 1 + d))
             /\ f[k] \in Nat /\ f[k] \in DOMAIN E /\ E[f[k]] = D[k] /\ d < f[k]
  <2>1. k \in Nat /\ k \in 1 .. c1
    BY <1>6
  <2>2. k - 1 + d < c + r /\ D[k] = sq[RingRow(k - 1 + d)].pc
    BY <1>4, <2>1
  <2>3. f[k] = IF k + d <= c THEN k + d ELSE c + At(k - 1 + d)
    OBVIOUS
  <2> HIDE DEF f
  <2>4. CASE k + d <= c
    <3> DEFINE x == k + d
    <3>1. f[k] = x /\ x \in 1 .. c /\ x - 1 = k - 1 + d /\ d < x /\ x \in 1 .. c + R /\ x \in Nat
      <4>1. d \in {0, 1} /\ c \in Nat /\ R \in Nat /\ k \in Nat /\ k > 0
        BY <1>1, <1>2, <2>1
      <4>2. x \in 1 .. c /\ x - 1 = k - 1 + d /\ d < x /\ x \in 1 .. c + R /\ x \in Nat
        BY ONLY <2>4, <4>1
      <4>3. QED
        BY <2>3, <2>4, <4>2
    <3>2. E[x] = sq[RingRow(x - 1)].pc
      BY <1>3, <3>1
    <3> HIDE DEF x
    <3>3. E[f[k]] = D[k] /\ f[k] \in DOMAIN E
      BY <1>3, <2>2, <3>1, <3>2
    <3>4. QED
      BY <2>1, <2>4, <3>1, <3>3 DEF x
  <2>5. CASE ~(k + d <= c)
    <3> DEFINE p == k - 1 + d
    <3>1. p \in Nat /\ c <= p /\ p < c + r
      BY <1>1, <2>1, <2>2, <2>5
    <3>2. D[k] = sq[RingRow(p)].pc /\ f[k] = c + At(p)
      BY <2>2, <2>3, <2>5
    <3> HIDE DEF p
    <3>3. /\ At(p) \in S /\ p = Place(c, At(p)) /\ At(p) \in 1 .. R
          /\ sq[RingRow(p)].pc = rob[At(p)].pc
      BY <1>7, <3>1
    <3>4. E[c + At(p)] = rob[At(p)].pc
      BY <1>3, <3>3
    <3>5. c + At(p) \in Nat /\ c + At(p) \in 1 .. c + R /\ d < c + At(p)
      <4> DEFINE a == At(p)
      <4>1. a \in 1 .. R /\ R \in Nat
        BY <1>2, <3>3
      <4> HIDE DEF a
      <4>2. c + a \in Nat /\ c + a \in 1 .. c + R /\ d < c + a
        BY <1>1, <4>1
      <4>3. QED
        BY <4>2 DEF a
    <3>6. QED
      BY <1>3, <2>1, <2>5, <3>1, <3>2, <3>3, <3>4, <3>5 DEF p
  <2>6. QED
    BY <2>4, <2>5
<1> HIDE DEF f
<1>10. ASSUME NEW k \in V PROVE f[k] \in W
  BY <1>9, <1>10 DEF V, W, Hits
<1>11. ASSUME NEW j \in V, NEW k \in V, j <= k PROVE f[j] <= f[k]
  <2>1. j \in Nat /\ k \in Nat /\ d \in Nat /\ c \in Nat
    BY <1>1, <1>9
  <2>2. CASE k + d <= c
    <3>1. j + d <= c
      BY <1>11, <2>1, <2>2
    <3>2. f[j] = j + d /\ f[k] = k + d
      BY <1>9, <2>2, <3>1
    <3>3. QED
      BY <1>11, <2>1, <3>2
  <2>3. CASE ~(k + d <= c) /\ j + d <= c
    <3> DEFINE y == At(k - 1 + d)
    <3>1. f[j] = j + d /\ f[k] = c + y /\ y \in 1 .. R /\ R \in Nat
      BY <1>2, <1>9, <2>3
    <3> HIDE DEF y
    <3>2. QED
      BY <2>1, <2>3, <3>1
  <2>4. CASE ~(k + d <= c) /\ ~(j + d <= c)
    <3> DEFINE x == At(j - 1 + d)
    <3> DEFINE y == At(k - 1 + d)
    <3>1. /\ f[j] = c + x /\ f[k] = c + y /\ x \in S /\ y \in S /\ x \in 1 .. R /\ y \in 1 .. R
          /\ j - 1 + d = Place(c, x) /\ k - 1 + d = Place(c, y)
      BY <1>9, <2>4
    <3> HIDE DEF x, y
    <3>2. y < x => Place(c, y) < Place(c, x)
      BY <1>8, <3>1
    <3>3. ~(y < x)
      BY <1>11, <2>1, <3>1, <3>2
    <3>4. QED
      BY <1>2, <2>1, <3>1, <3>3
  <2>5. QED
    BY <2>2, <2>3, <2>4
<1>12. ASSUME NEW x \in W, ~(x = 1 /\ d = 1) PROVE \E k \in V : x = f[k]
  <2>1. x \in Nat /\ x \in 1 .. c + R /\ Matches(E[x], l, b)
    BY <1>6 DEF W, Hits
  <2>2. CASE x <= c
    <3> DEFINE k == x - d
    <3>1. k \in 1 .. c1 /\ k \in Nat /\ k - 1 + d = x - 1 /\ k + d = x /\ x \in 1 .. c
      <4>1. /\ d \in {0, 1} /\ c \in Nat /\ r \in Nat /\ c1 = c + r - d /\ x \in Nat /\ x > 0
        <5>1. c \in Nat /\ R \in Nat /\ r \in Nat
          BY <1>1, <1>2
        <5>2. x > 0 /\ x \in Nat
          BY <2>1, <5>1
        <5>3. QED
          BY <1>1, <5>1, <5>2
      <4>2. QED
        BY ONLY <1>12, <2>2, <4>1
    <3> HIDE DEF k
    <3>2. D[k] = sq[RingRow(x - 1)].pc
      BY <1>4, <3>1
    <3>3. D[k] = E[x]
      BY <1>3, <3>1, <3>2
    <3>4. k \in V
      BY <1>4, <2>1, <3>1, <3>3 DEF V, Hits
    <3>5. QED
      BY <1>9, <2>2, <3>1, <3>4
  <2>3. CASE ~(x <= c)
    <3> DEFINE j == x - c
    <3>1. j \in 1 .. R /\ j \in Nat /\ c + j = x
      BY <1>1, <1>2, <2>1, <2>3
    <3> HIDE DEF j
    <3>2. E[x] = rob[j].pc
      BY <1>3, <3>1
    <3>3. j \in S
      <4>1. Op(rob[j].pc) = "st"
        BY <2>1, <3>2 DEF Matches
      <4>2. j \in DOMAIN rob
        <5>1. j \in 1 .. Len(rob)
          BY <1>2, <1>5, <3>1
        <5>2. QED
          BY <5>1, SequenceIs DEF RobForm
      <4>3. QED
        BY <4>1, <4>2 DEF S, Stores, OfKind
    <3> DEFINE p == Place(c, j)
    <3>4. p \in Nat /\ c <= p /\ p < c + r
      <4>1. /\ Place(c, j) \in Nat /\ c <= Place(c, j)
            /\ Place(c, j) < c + Cardinality(Below(Stores, R + 1)) <=> j <= R
        BY <1>2, <3>3, PlaceForm DEF S
      <4>2. QED
        BY <3>1, <4>1 DEF RetiredStores, R, r
    <3> HIDE DEF p
    <3>5. At(p) = j
      <4>1. At(p) \in S /\ p = Place(c, At(p))
        BY <1>7, <3>4
      <4>2. QED
        BY <1>2, <3>3, <4>1, PlaceForm DEF S, p
    <3>6. sq[RingRow(p)].pc = E[x]
      BY <1>7, <3>2, <3>4, <3>5
    <3> DEFINE k == p + 1 - d
    <3>7. k \in 1 .. c1 /\ k \in Nat /\ k - 1 + d = p /\ ~(k + d <= c)
      <4>1. /\ d \in {0, 1} /\ d <= c /\ c \in Nat /\ r \in Nat /\ c1 = c + r - d
            /\ p \in Nat /\ c <= p /\ p < c + r
        BY <1>1, <1>2, <3>4
      <4>2. QED
        BY ONLY <4>1
    <3> HIDE DEF k
    <3>8. D[k] = E[x]
      BY <1>4, <3>6, <3>7
    <3>9. k \in V
      BY <1>4, <2>1, <3>7, <3>8 DEF V, Hits
    <3>10. QED
      BY <1>9, <3>1, <3>5, <3>7, <3>9
  <2>4. QED
    BY <2>2, <2>3
<1>13. V # {} => LastIn(V, D) = LastIn(W, E)
  <2>1. SUFFICES ASSUME V # {} PROVE LastIn(V, D) = LastIn(W, E)
    OBVIOUS
  <2>2. V \subseteq Nat /\ W \subseteq Nat /\ IsFiniteSet(V)
    <3>1. V \subseteq Nat /\ W \subseteq Nat /\ V \in SUBSET (1 .. c1)
      BY <1>6
    <3>2. IsFiniteSet(1 .. c1)
      BY <1>1, FS_Interval
    <3>3. QED
      BY <3>1, <3>2, FS_Subset
  <2>3. \A k \in V : f[k] \in W /\ D[k] = E[f[k]]
    BY <1>9, <1>10
  <2>4. \A x \in W : (\E k \in V : x = f[k]) \/ (\A k \in V : x <= f[k])
    <3>1. SUFFICES ASSUME NEW x \in W, ~(\E k \in V : x = f[k]), NEW k \in V PROVE x <= f[k]
      OBVIOUS
    <3>2. x = 1 /\ d = 1
      BY <1>12, <3>1
    <3>3. f[k] \in Nat /\ d < f[k]
      BY <1>9
    <3>4. QED
      BY <3>2, <3>3
  <2>5. \A j, k \in V : j <= k => f[j] <= f[k]
    BY <1>11
  <2>6. QED
    <3>1. Moves(V, W, D, E, f)
      BY <2>1, <2>2, <2>3, <2>4, <2>5 DEF Moves
    <3>2. ASSUME NEW v, NEW w, NEW g, Moves(v, w, D, E, g) PROVE LastIn(v, D) = LastIn(w, E)
      BY <3>2, LastMoves
    <3>3. QED
      BY ONLY <3>1, <3>2, Zenon
<1>14. V = {} => W = {} \/ (d = 1 /\ W = {1})
  BY <1>12
<1>15. d = 1 => (1 \in W <=> Matches(sq[sqHead].pc, l, b)) /\ E[1] = sq[sqHead].pc
  <2>1. SUFFICES ASSUME d = 1 PROVE (1 \in W <=> Matches(sq[sqHead].pc, l, b)) /\ E[1] = sq[sqHead].pc
    OBVIOUS
  <2>2. 1 \in 1 .. c /\ 1 \in 1 .. c + R /\ 1 - 1 = 0
    BY <1>1, <1>2, <2>1
  <2>3. E[1] = sq[RingRow(0)].pc
    BY <1>3, <2>2
  <2>4. RingRow(0) = sqHead
    BY <1>2, RingForm
  <2>5. QED
    BY <1>3, <2>2, <2>3, <2>4 DEF W, Hits
<1>16. QED
  BY <1>10, <1>13, <1>14, <1>15 DEF V, W, d


(* A drain writes what the store at the head of the ring showed already.   *)
LEMMA VisibleNext ==
  ASSUME RobForm, MaskForm, PipeForm, NEW c \in 0 .. NumSq, StoresAt(c),
         NEW i \in Inputs, Sensible(i), Rob(i), StoreQueue(i), Cache(i),
         NEW c1, c1 = c + RetiredStores(i) - Drained, CommittedCount' = c1, DOMAIN mem = Line
  PROVE  Visible' = Overlay(Retiring(i))
<1> DEFINE E == Retiring(i)
<1> DEFINE A(l, b) == IF Hits(Draining', l, b) = {} THEN mem'[l][b]
                      ELSE LastIn(Hits(Draining', l, b), Draining')
<1> DEFINE B(l, b) == IF Hits(E, l, b) = {} THEN mem[l][b] ELSE LastIn(Hits(E, l, b), E)
<1>1. Visible' = [l \in Line |-> [b \in Byte |-> A(l, b)]]
  BY Zenon DEF Visible, Overlay, Hits, Matches
<1>2. Overlay(E) = [l \in Line |-> [b \in Byte |-> B(l, b)]]
  BY Zenon DEF Overlay, Hits, Matches
<1>3. ASSUME NEW l \in Line, NEW b \in Byte PROVE A(l, b) = B(l, b)
  <2>1. PICK D : D = Draining'
    OBVIOUS
  <2>2. PICK F : F = E
    OBVIOUS
  <2> DEFINE V == Hits(D, l, b)
  <2> DEFINE W == Hits(F, l, b)
  <2>3. /\ V # {} => W # {} /\ LastIn(V, D) = LastIn(W, F)
        /\ V = {} => W = {} \/ (Drained = 1 /\ W = {1})
        /\ Drained = 1 => (1 \in W <=> Matches(sq[sqHead].pc, l, b)) /\ F[1] = sq[sqHead].pc
    BY <2>1, <2>2, DrainsMove
  <2>4. DrainsInPipe # {} => sq[sqHead] \in StoreRow
    <3>1. SUFFICES ASSUME NEW k \in DrainsInPipe PROVE sq[sqHead] \in StoreRow
      OBVIOUS
    <3>2. c > 0 /\ CountForm(c) /\ CommittedForm(c)
      BY DEF StoresAt, DrainForm
    <3>3. 0 \in 0 .. NumSq - 1 /\ 0 < c /\ RingRow(0) = sqHead
      BY <3>2, RingForm, Sizes
    <3>4. QED
      BY <3>2, <3>3 DEF CommittedForm
  <2>5. A(l, b) = (IF V = {} THEN mem'[l][b] ELSE LastIn(V, D))
    BY <2>1
  <2>6. B(l, b) = (IF W = {} THEN mem[l][b] ELSE LastIn(W, F))
    BY <2>2
  <2>7. PsWrite <=> Drained = 1
    BY DEF Drained
  <2>8. PsWrite => pipe[6].pc = sq[sqHead].pc
    <3>1. SUFFICES ASSUME PsWrite PROVE pipe[6].pc = sq[sqHead].pc
      OBVIOUS
    <3>2. 6 \in DrainsInPipe
      BY <3>1 DEF PsWrite, DrainsInPipe
    <3>3. QED
      BY <3>2 DEF StoresAt, DrainForm
  <2>9. mem' = IF PsWrite
                 THEN [mem EXCEPT ![LineOf(pipe[6])] =
                         [x \in Byte |-> IF x \in Prog[pipe[6].pc].bytes THEN pipe[6].pc ELSE @[x]]]
                 ELSE mem
    BY Zenon DEF Cache
  <2> DEFINE p == pipe[6].pc
  <2>10. Matches(sq[sqHead].pc, l, b) /\ PsWrite => mem'[l][b] = p
    <3>1. SUFFICES ASSUME Matches(p, l, b), PsWrite PROVE mem'[l][b] = p
      BY <2>8
    <3>2. LineOf(pipe[6]) = l /\ b \in Prog[pipe[6].pc].bytes
      BY <3>1 DEF LineOf, Matches
    <3>3. mem' = [mem EXCEPT ![l] = [x \in Byte |-> IF x \in Prog[p].bytes THEN p ELSE @[x]]]
      BY <2>9, <3>1, <3>2
    <3>4. QED
      BY <3>2, <3>3
  <2>11. ~(Matches(sq[sqHead].pc, l, b) /\ PsWrite) => mem'[l][b] = mem[l][b]
    <3>1. CASE ~PsWrite
      BY <2>9, <3>1
    <3>2. CASE PsWrite /\ LineOf(pipe[6]) # l
      BY <2>9, <3>2
    <3>3. CASE PsWrite /\ LineOf(pipe[6]) = l /\ ~Matches(p, l, b)
      <4>1. Op(p) = "st"
        <5>1. 6 \in DrainsInPipe
          BY <3>3 DEF PsWrite, DrainsInPipe
        <5>2. sq[sqHead].pc \in PcsOfKind("st")
          BY <2>4, <5>1, RowTaken
        <5>3. QED
          BY <2>8, <3>3, <5>2 DEF PcsOfKind
      <4>2. b \notin Prog[p].bytes
        BY <3>3, <4>1 DEF Matches, LineOf
      <4>3. mem' = [mem EXCEPT ![l] = [x \in Byte |-> IF x \in Prog[p].bytes THEN p ELSE @[x]]]
        BY <2>9, <3>3
      <4>4. QED
        BY <4>2, <4>3
    <3>4. QED
      BY <2>8, <3>1, <3>2, <3>3
  <2> HIDE DEF V, W, A, B, p
  <2>12. CASE V # {}
    BY <2>3, <2>4, <2>5, <2>6, <2>12
  <2>13. CASE V = {} /\ W = {}
    <3>1. ~(Matches(sq[sqHead].pc, l, b) /\ PsWrite)
      BY <2>3, <2>7, <2>13
    <3>2. QED
      BY <2>5, <2>6, <2>11, <2>13, <3>1
  <2>14. CASE V = {} /\ W # {}
    <3>1. Drained = 1 /\ W = {1}
      BY <2>3, <2>14
    <3>2. Matches(sq[sqHead].pc, l, b) /\ PsWrite /\ F[1] = p
      BY <2>3, <2>7, <2>8, <3>1 DEF p
    <3>3. LastIn(W, F) = F[1]
      BY <3>1 DEF LastIn
    <3>4. QED
      BY <2>5, <2>6, <2>10, <2>14, <3>2, <3>3
  <2>15. QED
    BY <2>12, <2>13, <2>14
<1> HIDE DEF A, B, E
<1>4. [l \in Line |-> [b \in Byte |-> A(l, b)]] = [l \in Line |-> [b \in Byte |-> B(l, b)]]
  BY <1>3
<1>5. QED
  BY <1>1, <1>2, <1>4 DEF E


MemForm == DOMAIN mem = Line /\ flushes \in Nat

LEMMA CommittedOf == StoreInv => \E c \in 0 .. NumSq : CommittedCount = c /\ sqCount = c + Cardinality(Stores)
<1>1. SUFFICES ASSUME StoreInv
               PROVE  \E c \in 0 .. NumSq : CommittedCount = c /\ sqCount = c + Cardinality(Stores)
  OBVIOUS
<1>2. PICK c \in 0 .. NumSq : StoresAt(c)
  BY <1>1 DEF StoreInv
<1>3. CommittedCount = c
  BY <1>1, <1>2, CommittedIs DEF StoreInv
<1>4. sqCount = c + Cardinality(Stores)
  BY <1>2 DEF StoresAt, CountForm
<1>5. QED
  BY <1>3, <1>4

(* The step of the property.                                               *)
ShownOnce ==
  LET n == IF flushes' # flushes THEN 0 ELSE (head' + NumRob - head) % NumRob
  IN  Visible' = Overlay(Draining \o PcsBefore(n + 1))

LEMMA ShownCycle ==
  ASSUME StoreInv, MemForm, StoreInv', NEW i \in Inputs, Cycle(i),
         NEW a \in 0 .. NumSq, CommittedCount' = a, sqCount' = a + Cardinality(Stores')
  PROVE  ShownOnce
<1>1. RobForm /\ MaskForm /\ PipeForm
  BY DEF StoreInv
<1>2. PICK c \in 0 .. NumSq : StoresAt(c)
  BY DEF StoreInv
<1>3. Sensible(i) /\ Rob(i) /\ StoreQueue(i) /\ Cache(i) /\ flushes' = IF i.flush THEN flushes + 1 ELSE flushes
  BY DEF Cycle
<1>4. PICK c1 : c1 = c + RetiredStores(i) - Drained
  OBVIOUS
<1>5. CommittedCount' = c1
  <2>1. sqCount' = c1 + Cardinality(Stores')
    <3>1. CountForm(c1)'
      BY <1>1, <1>2, <1>3, <1>4, CountStep
    <3>2. QED
      BY <3>1 DEF CountForm
  <2>2. c1 \in Nat /\ Cardinality(Stores') \in Nat
    BY <1>1, <1>2, <1>3, <1>4, PlaceNext
  <2> DEFINE m == Cardinality(Stores')
  <2>3. a + m = c1 + m /\ m \in Nat /\ a \in Nat
    BY <2>1, <2>2, Sizes
  <2> HIDE DEF m
  <2>4. a = c1
    BY <2>2, <2>3
  <2>5. QED
    BY <2>4
<1>6. Visible' = Overlay(Retiring(i))
  BY <1>1, <1>2, <1>3, <1>4, <1>5, VisibleNext DEF MemForm
<1>7. (IF flushes' # flushes THEN 0 ELSE (head' + NumRob - head) % NumRob) = Retired(i)
  <2>1. i.flush \in BOOLEAN /\ Retired(i) \in Nat /\ Retired(i) <= RetireWidth /\ (Recovers(i) => Retired(i) = 0)
    BY <1>1, InputsForm, RetiredForm
  <2>2. CASE i.flush
    <3>1. flushes' # flushes
      BY <1>3, <2>2 DEF MemForm
    <3>2. Retired(i) = 0
      BY <2>1, <2>2 DEF Recovers
    <3>3. QED
      BY <3>1, <3>2
  <2>3. CASE ~i.flush
    <3>1. flushes' = flushes /\ head' = (head + Retired(i)) % NumRob
      BY <1>1, <1>3, <2>3, RobNext
    <3>2. head \in 0 .. NumRob - 1 /\ NumRob \in Nat \ {0} /\ RetireWidth \in Nat /\ RetireWidth < NumRob
      BY <1>1, Sizes DEF RobForm
    <3> DEFINE R == Retired(i)
    <3>3. R \in 0 .. NumRob - 1
      BY <2>1, <3>2
    <3> HIDE DEF R
    <3>4. (((head + R) % NumRob) + NumRob - head) % NumRob = R
      BY <3>2, <3>3, RingGain
    <3>5. QED
      BY <3>1, <3>4 DEF R
  <2>4. QED
    BY <2>1, <2>2, <2>3
<1>8. QED
  BY <1>6, <1>7 DEF ShownOnce, Retiring

LEMMA MemCycle ==
  ASSUME MemForm, NEW i \in Inputs, Cycle(i)
  PROVE  MemForm'
<1>1. flushes' = IF i.flush THEN flushes + 1 ELSE flushes
  BY DEF Cycle
<1>2. mem' = IF PsWrite
               THEN [mem EXCEPT ![LineOf(pipe[6])] =
                       [b \in Byte |-> IF b \in Prog[pipe[6].pc].bytes THEN pipe[6].pc ELSE @[b]]]
               ELSE mem
  BY Zenon DEF Cycle, Cache
<1>3. DOMAIN mem' = DOMAIN mem
  BY <1>2
<1>4. QED
  BY <1>1, <1>3 DEF MemForm

(* Memory behind the store queue changes by the stores that retire, each   *)
(* once and in order: no recovery drops a committed store, none drains     *)
(* twice, and a drain shows nothing new.                                   *)
THEOREM StoresOnceTheorem == Spec /\ []ResultFindsOwner => StoresOnce
<1>1. Init => MemForm
  BY DEF Init, MemForm
<1>2. MemForm /\ [Next]_vars => MemForm'
  <2>1. MemForm /\ UNCHANGED vars => MemForm'
    BY DEF MemForm, vars
  <2>2. QED
    BY <2>1, MemCycle DEF Next
<1>3. (StoreInv => \E c \in 0 .. NumSq : CommittedCount = c /\ sqCount = c + Cardinality(Stores))'
  BY CommittedOf, PTL
<1>4. StoreInv /\ StoreInv' /\ MemForm /\ [Next]_vars => [ShownOnce]_vars
  <2>1. SUFFICES ASSUME StoreInv, StoreInv', MemForm, NEW i \in Inputs, Cycle(i) PROVE ShownOnce
    BY DEF Next
  <2>2. PICK a \in 0 .. NumSq : CommittedCount' = a /\ sqCount' = a + Cardinality(Stores')
    BY <1>3, <2>1
  <2>3. QED
    BY <2>1, <2>2, ShownCycle
<1>5. StoresOnce <=> [][ShownOnce]_vars
  BY DEF StoresOnce, ShownOnce
<1>6. QED
  BY <1>1, <1>2, <1>4, <1>5, StoreInvAlways, PTL DEF Spec
=============================================================================
