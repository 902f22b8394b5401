----------------------------- MODULE FetchProofs -----------------------------
(***************************************************************************)
(* The return queue between the FTQ and F0, for every depth of both, every *)
(* program and every pattern of answers, slow results and redirects.       *)
(*                                                                         *)
(* The argument is about places.  The entries of the FTQ are, in order,    *)
(* those whose instructions are delivered, those whose beats wait for F1,  *)
(* those the return queue holds and those not yet requested; a redirect is *)
(* for a live entry and cuts all of these at one place, although each of   *)
(* them compares ring indices on its own.  What the instructions are is    *)
(* opaque here.                                                            *)
(***************************************************************************)
EXTENDS Fetch, CommonLemmas, TLAPS

(* The fields of an FTQ entry, of a beat and of a return slot; the ring id *)
(* of the k-th live entry.                                                 *)
EntryFields == {"id", "region", "entry", "pred", "age", "issued", "done", "got"}
BeatFields  == {"items", "id", "pred", "region", "top", "last", "edgePend"}
SlotFields  == {"state", "id", "region"}
RingAt(h, n)  == (h + n) % FtqDepth
IdAt(h, g, k) == [idx |-> RingAt(h, k - 1), gen |-> g[RingAt(h, k - 1)]]

(* ftq_q: at most FtqDepth live entries, and every entry carries the id of *)
(* its place in the ring.                                                  *)
QueueForm ==
  /\ IsSequence(ftq) /\ Len(ftq) <= FtqDepth
  /\ ftqHead \in 0 .. FtqDepth - 1 /\ DOMAIN gen = 0 .. FtqDepth - 1
  /\ \A k \in DOMAIN ftq : DOMAIN ftq[k] = EntryFields /\ ftq[k].id = IdAt(ftqHead, gen, k)

(* Slots and their data; the live slots are those in the order.            *)
SlotsForm ==
  /\ DOMAIN slots = 0 .. RqDepth - 1 /\ DOMAIN payload = 0 .. RqDepth - 1
  /\ \A s \in 0 .. RqDepth - 1 :
       /\ DOMAIN slots[s] = SlotFields /\ slots[s].state \in {"free", "pend", "ready", "zombie"}
       /\ payload[s] \in BOOLEAN
Ordered == {order[n] : n \in DOMAIN order}
Owned   == \A s \in DOMAIN slots : s \in Ordered <=> slots[s].state \in {"pend", "ready"}

(* The return queue holds the entries behind the first d, as far as they   *)
(* are requested, in their order.                                          *)
OrderForm(d) ==
  /\ IsSequence(order) /\ d + Len(order) <= Len(ftq)
  /\ \A k \in DOMAIN ftq : ftq[k].issued <=> k <= d + Len(order)
  /\ \A n \in DOMAIN order : /\ order[n] \in DOMAIN slots
                             /\ slots[order[n]].id = ftq[d + n].id
                             /\ slots[order[n]].region = ftq[d + n].region

(* The output snapshot is the first of these with its data and the present *)
(* prediction of its entry.                                                *)
BriefOf(e) == [pred |-> e.pred, region |-> e.region, entry |-> e.entry, top |-> RasTop[e.region]]
OutForm(d) ==
  out # None => /\ Len(order) > 0 /\ out.id = ftq[d + 1].id /\ out.brief = BriefOf(ftq[d + 1])
                /\ out.exc = payload[order[1]] /\ slots[order[1]].state = "ready"

(* An instruction and a request name an entry and a slot.                  *)
Names(x, id) == x.id = id /\ ~(x.slot < 0)

(* A beat is for one of the first d entries, and all its instructions with *)
(* it; a later beat is for a later entry.                                  *)
BeatForm(b) == /\ DOMAIN b = BeatFields /\ IsSequence(b.items)
               /\ \A m \in DOMAIN b.items : Names(b.items[m], b.id)
BeatsForm(d) ==
  /\ IsSequence(beats)
  /\ \A n \in DOMAIN beats : BeatForm(beats[n]) /\ \E k \in 1 .. d : beats[n].id = ftq[k].id
  /\ \A m, n \in DOMAIN beats : \A j, k \in DOMAIN ftq :
       m < n /\ beats[m].id = ftq[j].id /\ beats[n].id = ftq[k].id => j < k

(* What is delivered lies before every beat.                               *)
DoneForm(d) ==
  \A k \in DOMAIN ftq : ftq[k].done # 0 =>
     k <= d /\ \A n \in DOMAIN beats : \A j \in DOMAIN ftq : beats[n].id = ftq[j].id => k < j

(* The redirects execution and F1 may ask for are for live entries.        *)
GotForm == \A k \in DOMAIN ftq : \A x \in ftq[k].got : Names(x, ftq[k].id)
PdForm  == pd # None => ~pd.all /\ \E k \in DOMAIN ftq : Names(pd, ftq[k].id)

FetchInv ==
  /\ QueueForm /\ SlotsForm /\ Owned /\ GotForm /\ PdForm
  /\ \E d \in 0 .. Len(ftq) : OrderForm(d) /\ OutForm(d) /\ BeatsForm(d) /\ DoneForm(d)
-----------------------------------------------------------------------------
(* The queue and its ids.                                                  *)

(* The sizes of the FTQ: at most FtqDepth entries, the head an index.      *)
LEMMA Placed ==
  ASSUME QueueForm
  PROVE  /\ Len(ftq) \in Nat /\ DOMAIN ftq = 1 .. Len(ftq) /\ Len(ftq) <= FtqDepth
         /\ FtqDepth \in Nat \ {0} /\ ftqHead \in 0 .. FtqDepth - 1
         /\ DOMAIN ftq \subseteq Nat
<1>1. Len(ftq) \in Nat /\ DOMAIN ftq = 1 .. Len(ftq) /\ Len(ftq) <= FtqDepth
  BY SequenceIs DEF QueueForm
<1>2. FtqDepth \in Nat \ {0} /\ ftqHead \in 0 .. FtqDepth - 1
  BY FetchSizes DEF QueueForm
<1>3. QED
  BY <1>1, <1>2

(* FeBefore, which compares indices relative to the head, is the order of  *)
(* the queue.                                                              *)
LEMMA RingOrder ==
  ASSUME QueueForm, NEW j \in DOMAIN ftq, NEW k \in DOMAIN ftq, j < k
  PROVE  /\ ftq[j].id.idx # ftq[k].id.idx
         /\ \A s, t : FeBefore(ftq[j].id, s, ftq[k].id, t)
         /\ \A s, t : ~FeBefore(ftq[k].id, s, ftq[j].id, t)
<1>1. /\ FtqDepth \in Nat \ {0} /\ ftqHead \in 0 .. FtqDepth - 1
      /\ j - 1 \in 0 .. FtqDepth - 1 /\ k - 1 \in 0 .. FtqDepth - 1 /\ j - 1 < k - 1
  BY Placed
<1> DEFINE x == (ftqHead + (j - 1)) % FtqDepth
<1> DEFINE y == (ftqHead + (k - 1)) % FtqDepth
<1>2. ftq[j].id.idx = x /\ ftq[k].id.idx = y
  <2>1. ftq[j].id = IdAt(ftqHead, gen, j) /\ ftq[k].id = IdAt(ftqHead, gen, k)
    BY DEF QueueForm
  <2>2. QED
    BY <2>1 DEF IdAt, RingAt
<1>3. /\ x \in Int /\ y \in Int /\ x # y
      /\ x < ftqHead => y < ftqHead
      /\ (x < ftqHead <=> y < ftqHead) => x < y
  BY <1>1, RingBefore
<1> HIDE DEF x, y
<1>4. ASSUME NEW s, NEW t PROVE FeBefore(ftq[j].id, s, ftq[k].id, t)
  BY <1>2, <1>3 DEF FeBefore
<1>5. ~(y < x) \/ ~(x < ftqHead <=> y < ftqHead)
  BY <1>3
<1>6. ASSUME NEW s, NEW t PROVE ~FeBefore(ftq[k].id, s, ftq[j].id, t)
  BY <1>2, <1>3, <1>5 DEF FeBefore
<1>7. QED
  BY <1>2, <1>3, <1>4, <1>6

(* An id names one live entry.                                             *)
LEMMA LiveOne ==
  ASSUME QueueForm, NEW k \in DOMAIN ftq
  PROVE  /\ \A j \in DOMAIN ftq : ftq[j].id = ftq[k].id => j = k
         /\ EntryOf(ftq[k].id) = {k} /\ Max(EntryOf(ftq[k].id)) = k
<1>1. ASSUME NEW j \in DOMAIN ftq, ftq[j].id = ftq[k].id PROVE j = k
  BY <1>1, Placed, RingOrder
<1>2. EntryOf(ftq[k].id) = {k}
  BY <1>1 DEF EntryOf
<1>3. k \in Int /\ Max({k}) = k
  BY Placed DEF Max
<1>4. QED
  BY <1>1, <1>2, <1>3

-----------------------------------------------------------------------------
(* Redirects.                                                              *)

(* A request is for a live entry; a redirect is one, or flushes all.       *)
Asks(r) == ~r.all /\ \E k \in DOMAIN ftq : Names(r, ftq[k].id)
Cuts(a) == a = None \/ a = Sys \/ Asks(a)

(* The least of a set of numbers is one of them.                           *)
LEMMA MinIn ==
  ASSUME NEW S, S \subseteq Nat, S # {}
  PROVE  Min(S) \in S /\ \A n \in S : Min(S) <= n
<1>1. \E m \in S : \A n \in S : m <= n
  BY NatMin
<1>2. Min(S) = CHOOSE m \in S : \A n \in S : m <= n
  BY DEF Min
<1>3. QED
  BY <1>1, <1>2

(* What a cycle brings comes from the sets Inputs ranges over.             *)
LEMMA InputForm ==
  ASSUME NEW i \in Inputs
  PROVE  /\ i.slow \in Slows /\ i.resp \in Answers /\ i.exec \in Reports
         /\ i.retire \in Retires
  BY DEF Inputs

(* A slow result is one for a live entry, and its exit is a slot.          *)
LEMMA SlowInput ==
  ASSUME QueueForm, NEW i \in Inputs, i.slow # None
  PROVE  i.slow.k \in DOMAIN ftq /\ i.slow.pred.slot \in 0 .. Slots - 1
<1> DEFINE P == PredsAt(ftq[Min(SlowOf)].region * Slots + ftq[Min(SlowOf)].entry)
<1>1. SlowOf # {} /\ i.slow \in {[k |-> Min(SlowOf), pred |-> p] : p \in P}
  <2>1. Slows = IF SlowOf = {} THEN {None} ELSE {[k |-> Min(SlowOf), pred |-> p] : p \in P}
    BY Zenon DEF Slows
  <2> HIDE DEF P
  <2>2. i.slow \in Slows
    BY InputForm
  <2>3. QED
    BY <2>1, <2>2
<1>2. SlowOf \subseteq DOMAIN ftq /\ SlowOf \subseteq Nat
  BY Placed DEF SlowOf
<1>3. Min(SlowOf) \in DOMAIN ftq
  BY <1>1, <1>2, MinIn
<1>4. ASSUME NEW pc, NEW p \in PredsAt(pc) PROVE p.slot \in 0 .. Slots - 1
  <2>1. PICK w \in Preds : p = [w[2] EXCEPT !.next = PredNext(RegionOf(pc), w[2])]
    BY <1>4 DEF PredsAt
  <2>2. p.slot = w[2].slot
    BY <2>1, PredictionSlots
  <2>3. QED
    BY <2>2, PredictionSlots
<1>5. QED
  BY <1>1, <1>3, <1>4

(* A report of execution names a delivered instruction of a live entry.    *)
LEMMA ExecInput ==
  ASSUME GotForm, NEW i \in Inputs, i.exec # None
  PROVE  Asks(i.exec)
<1>1. i.exec \in ExecRequests
  BY InputForm DEF Reports
<1>2. PICK d \in UNION {ftq[k].got : k \in DOMAIN ftq} :
         \E t : i.exec = [src |-> 2, id |-> d.id, slot |-> d.slot, all |-> FALSE, target |-> t]
  BY <1>1 DEF ExecRequests
<1>3. PICK k \in DOMAIN ftq : d \in ftq[k].got
  BY <1>2
<1>4. Names(d, ftq[k].id)
  BY <1>3 DEF GotForm
<1>5. i.exec.id = d.id /\ i.exec.slot = d.slot /\ ~i.exec.all
  BY <1>2
<1>6. QED
  BY <1>4, <1>5 DEF Asks, Names

(* A slow result's request names a live entry and a slot of it.            *)
LEMMA SlowAsks ==
  ASSUME QueueForm, NEW i \in Inputs, SlowOverride(i) # None
  PROVE  Asks(SlowOverride(i))
<1>1. i.slow # None /\ SlowOverride(i) = Override(i.slow.k, i.slow.pred)
  BY DEF SlowOverride
<1>2. i.slow.k \in DOMAIN ftq /\ i.slow.pred.slot \in 0 .. Slots - 1 /\ Last \in Nat
  BY <1>1, SlowInput, FetchSizes DEF Last
<1> DEFINE o == Override(i.slow.k, i.slow.pred)
<1>3. /\ o.id = ftq[i.slow.k].id /\ ~o.all
      /\ o.slot = IF i.slow.pred.valid THEN i.slow.pred.slot ELSE Last
  BY DEF Override
<1> HIDE DEF o
<1>4. ~(o.slot < 0)
  BY <1>2, <1>3
<1>5. QED
  BY <1>1, <1>2, <1>3, <1>4 DEF Asks, Names, o

(* The accepted request is for a live entry, or flushes everything.        *)
LEMMA AcceptForm ==
  ASSUME QueueForm, GotForm, PdForm, NEW i \in Inputs
  PROVE  Cuts(Accept(i))
<1>1. pd = None \/ Asks(pd)
  BY DEF PdForm, Asks
<1>2. Stronger(pd, SlowOverride(i)) = None \/ Asks(Stronger(pd, SlowOverride(i)))
  BY <1>1, SlowAsks DEF Stronger
<1>3. Candidate(i) = None \/ Asks(Candidate(i))
  BY <1>2, ExecInput DEF Candidate, Stronger
<1>4. QED
  BY <1>3 DEF Accept, Cuts

(* The place a request cuts the queue at.                                  *)
Keep(a) == IF a = None THEN Len(ftq)
           ELSE IF a.all \/ EntryOf(a.id) = {} THEN 0 ELSE Max(EntryOf(a.id))

(* Every comparison with a request agrees with that place.                 *)
LEMMA CutAt ==
  ASSUME QueueForm, NEW a, Cuts(a)
  PROVE  /\ Keep(a) \in 0 .. Len(ftq) /\ (a = None => Keep(a) = Len(ftq))
         /\ \A p \in DOMAIN ftq : KilledBy(a, ftq[p].id, 0) <=> p > Keep(a)
         /\ \A p \in DOMAIN ftq : p > Keep(a) => \A t : KilledBy(a, ftq[p].id, t)
         /\ (a # None /\ ~a.all) => Keep(a) \in DOMAIN ftq /\ a.id = ftq[Keep(a)].id
<1>1. Len(ftq) \in Nat /\ DOMAIN ftq = 1 .. Len(ftq)
  BY Placed
<1>2. CASE a = None
  <2>1. Keep(a) = Len(ftq)
    BY <1>2 DEF Keep
  <2>2. \A p \in DOMAIN ftq : ~(p > Keep(a))
    BY <1>1, <2>1
  <2>3. \A id, t : ~KilledBy(a, id, t)
    BY <1>2 DEF KilledBy
  <2>4. QED
    BY <1>1, <1>2, <2>1, <2>2, <2>3
<1>3. CASE a # None /\ a.all
  <2>1. Keep(a) = 0
    BY <1>3 DEF Keep
  <2>2. \A id, t : KilledBy(a, id, t)
    BY <1>3 DEF KilledBy
  <2>3. \A p \in DOMAIN ftq : p > Keep(a)
    BY <1>1, <2>1
  <2>4. QED
    BY <1>1, <1>3, <2>1, <2>2, <2>3
<1>4. CASE a # None /\ ~a.all
  <2>1. Asks(a)
    BY <1>4 DEF Sys, Cuts
  <2>2. PICK k \in DOMAIN ftq : Names(a, ftq[k].id)
    BY <2>1 DEF Asks
  <2>3. Keep(a) = k
    BY <1>4, <2>2, LiveOne DEF Keep, Names
  <2>4. ASSUME NEW p \in DOMAIN ftq, p > k, NEW t PROVE KilledBy(a, ftq[p].id, t)
    <3>1. FeBefore(ftq[k].id, a.slot, ftq[p].id, t)
      BY <2>4, <1>1, RingOrder
    <3>2. QED
      BY <3>1, <1>4, <2>2 DEF KilledBy, Names
  <2>5. ASSUME NEW p \in DOMAIN ftq, ~(p > k) PROVE ~KilledBy(a, ftq[p].id, 0)
    <3>1. CASE p = k
      BY <3>1, <1>4, <2>2 DEF KilledBy, FeBefore, Names
    <3>2. CASE p < k
      <4>1. ~FeBefore(ftq[k].id, a.slot, ftq[p].id, 0)
        BY <3>2, RingOrder
      <4>2. QED
        BY <4>1, <1>4, <2>2 DEF KilledBy, Names
    <3>3. QED
      BY <3>1, <3>2, <2>5, <1>1
  <2>6. QED
    BY <1>1, <1>4, <2>2, <2>3, <2>4, <2>5 DEF Names
<1>5. QED
  BY <1>2, <1>3, <1>4

-----------------------------------------------------------------------------
(* FtqStep's entry k in stages: its timers and its slow result, its        *)
(* request, what F1 delivers of it, the correction of its exit.            *)
Timed(i, k) ==
  [ftq[k] EXCEPT !.pred = IF i.slow # None /\ i.slow.k = k THEN i.slow.pred ELSE @,
                 !.age = Min({3, @ + 1}),
                 !.done = IF @ = 0 THEN 0 ELSE Min({CommitDelay, @ + 1})]
Asked(i, r, k) == IF r # None /\ r.k = k THEN [Timed(i, k) EXCEPT !.issued = TRUE] ELSE Timed(i, k)
Handed(i, r, g, k) ==
  IF g # <<>> /\ g[1].id = ftq[k].id
  THEN [Asked(i, r, k) EXCEPT !.done = IF g[Len(g)].last THEN 1 ELSE 0,
                              !.got = @ \cup Mispredictable(g)]
  ELSE Asked(i, r, k)
Told(i, a, r, g, k) ==
  IF a # None /\ ~a.all /\ a.id = ftq[k].id
  THEN [Handed(i, r, g, k) EXCEPT !.pred.next = a.target, !.got = {x \in @ : x.slot < a.slot}]
  ELSE Handed(i, r, g, k)
Freed(i) == IF i.retire THEN 1 ELSE 0
ToldUpTo(i, a, r, g, m) == [k \in 1 .. m |-> Told(i, a, r, g, k)]

(* FtqStep in these names.                                                 *)
LEMMA FtqStepForm ==
  ASSUME NEW i, NEW a, NEW r, NEW g, FtqStep(i, a, r, g)
  PROVE  /\ ftq' = SubSeq(ToldUpTo(i, a, r, g, Keep(a)), 1 + Freed(i), Keep(a))
                     \o (IF AllocFire(a) THEN <<NewEntry(i.fast)>> ELSE <<>>)
         /\ ftqHead' = (ftqHead + Freed(i)) % FtqDepth
         /\ gen' = IF AllocFire(a) THEN [gen EXCEPT ![NewEntry(i.fast).id.idx] = @ + 1] ELSE gen
<1>1. ToldUpTo(i, a, r, g, Keep(a)) =
        [k \in 1 .. Keep(a) |->
           LET e == ftq[k]
               s == [e EXCEPT !.pred = IF i.slow # None /\ i.slow.k = k THEN i.slow.pred ELSE @,
                              !.age = Min({3, @ + 1}),
                              !.done = IF @ = 0 THEN 0 ELSE Min({CommitDelay, @ + 1})]
               d == IF r # None /\ r.k = k THEN [s EXCEPT !.issued = TRUE] ELSE s
               h == IF g # <<>> /\ g[1].id = e.id
                    THEN [d EXCEPT !.done = IF g[Len(g)].last THEN 1 ELSE 0,
                                   !.got = @ \cup Mispredictable(g)] ELSE d
           IN IF a # None /\ ~a.all /\ a.id = e.id
              THEN [h EXCEPT !.pred.next = a.target, !.got = {x \in @ : x.slot < a.slot}]
              ELSE h]
  BY ZenonT(60) DEF ToldUpTo, Told, Handed, Asked, Timed
<1>2. gen' = IF AllocFire(a)
             THEN [gen EXCEPT ![(IF AllocFire(a) THEN <<NewEntry(i.fast)>> ELSE <<>>)[1].id.idx] = @ + 1]
             ELSE gen
  BY ZenonT(60) DEF FtqStep
<1>3. /\ ftq' = SubSeq(ToldUpTo(i, a, r, g, Keep(a)), 1 + Freed(i), Keep(a))
                  \o (IF AllocFire(a) THEN <<NewEntry(i.fast)>> ELSE <<>>)
      /\ ftqHead' = (ftqHead + Freed(i)) % FtqDepth
  BY <1>1, ZenonT(60) DEF FtqStep, Keep, Freed
<1>4. gen' = IF AllocFire(a) THEN [gen EXCEPT ![NewEntry(i.fast).id.idx] = @ + 1] ELSE gen
  BY <1>2
<1>5. QED
  BY <1>3, <1>4

(* What a cycle may change of an entry.                                    *)
LEMMA EntryUpdate ==
  ASSUME NEW i, NEW a, NEW r, NEW g, NEW k, DOMAIN ftq[k] = EntryFields
  PROVE  /\ DOMAIN Told(i, a, r, g, k) = EntryFields
         /\ \A f \in {"id", "region", "entry"} : Told(i, a, r, g, k)[f] = ftq[k][f]
         /\ a = None => Told(i, a, r, g, k).pred =
              (IF i.slow # None /\ i.slow.k = k THEN i.slow.pred ELSE ftq[k].pred)
         /\ Told(i, a, r, g, k).issued <=> (ftq[k].issued \/ (r # None /\ r.k = k))
         /\ Told(i, a, r, g, k).done # 0 =>
              ftq[k].done # 0 \/ (g # <<>> /\ g[1].id = ftq[k].id)
         /\ \A x \in Told(i, a, r, g, k).got :
              x \in ftq[k].got \/ (g # <<>> /\ g[1].id = ftq[k].id /\ x \in Mispredictable(g))
<1> DEFINE T == Timed(i, k)
<1> DEFINE A == Asked(i, r, k)
<1> DEFINE H == Handed(i, r, g, k)
<1> DEFINE W == Told(i, a, r, g, k)
<1>1. /\ DOMAIN T = EntryFields
      /\ \A f \in EntryFields \ {"pred", "age", "done"} : T[f] = ftq[k][f]
      /\ T.pred = IF i.slow # None /\ i.slow.k = k THEN i.slow.pred ELSE ftq[k].pred
      /\ T.done # 0 => ftq[k].done # 0
  BY DEF Timed, EntryFields
<1>2. /\ DOMAIN A = EntryFields
      /\ \A f \in EntryFields \ {"issued"} : A[f] = T[f]
      /\ A.issued <=> (T.issued \/ (r # None /\ r.k = k))
  <2> HIDE DEF T
  <2>1. A = IF r # None /\ r.k = k THEN [T EXCEPT !.issued = TRUE] ELSE T
    BY DEF Asked, T
  <2>2. QED
    BY <1>1, <2>1 DEF EntryFields
<1>3. /\ DOMAIN H = EntryFields
      /\ \A f \in EntryFields \ {"done", "got"} : H[f] = A[f]
      /\ H.done # 0 => A.done # 0 \/ (g # <<>> /\ g[1].id = ftq[k].id)
      /\ \A x \in H.got : x \in A.got \/ (g # <<>> /\ g[1].id = ftq[k].id /\ x \in Mispredictable(g))
  <2> HIDE DEF A
  <2>1. CASE g # <<>> /\ g[1].id = ftq[k].id
    <3>1. H = [A EXCEPT !.done = IF g[Len(g)].last THEN 1 ELSE 0, !.got = @ \cup Mispredictable(g)]
      BY <2>1 DEF Handed, A
    <3>2. DOMAIN H = EntryFields /\ \A f \in EntryFields \ {"done", "got"} : H[f] = A[f]
      BY <1>2, <3>1 DEF EntryFields
    <3>3. H.got = A.got \cup Mispredictable(g)
      BY <1>2, <3>1 DEF EntryFields
    <3>4. QED
      BY <2>1, <3>2, <3>3
  <2>2. CASE ~(g # <<>> /\ g[1].id = ftq[k].id)
    <3>1. H = A
      BY <2>2 DEF Handed, A
    <3>2. QED
      BY <3>1, <1>2
  <2>3. QED
    BY <2>1, <2>2
<1>4. /\ DOMAIN W = EntryFields
      /\ \A f \in EntryFields \ {"pred", "got"} : W[f] = H[f]
      /\ a = None => W.pred = H.pred
      /\ \A x \in W.got : x \in H.got
  <2> HIDE DEF H
  <2>1. CASE a # None /\ ~a.all /\ a.id = ftq[k].id
    <3> DEFINE P == [H.pred EXCEPT !.next = a.target]
    <3> DEFINE G == {x \in H.got : x.slot < a.slot}
    <3>1. W = [H EXCEPT !.pred = P, !.got = G]
      BY <2>1 DEF Told, H
    <3> HIDE DEF P
    <3>2. DOMAIN W = EntryFields /\ \A f \in EntryFields \ {"pred", "got"} : W[f] = H[f]
      <4> HIDE DEF G
      <4>1. QED
        BY <1>3, <3>1 DEF EntryFields
    <3>3. W.got = G
      <4> HIDE DEF G
      <4>1. QED
        BY <1>3, <3>1 DEF EntryFields
    <3>4. QED
      BY <2>1, <3>2, <3>3
  <2>2. CASE ~(a # None /\ ~a.all /\ a.id = ftq[k].id)
    <3>1. W = H
      BY <2>2 DEF Told, H
    <3>2. QED
      BY <3>1, <1>3
  <2>3. QED
    BY <2>1, <2>2
<1> HIDE DEF T, A, H, W
<1>5. /\ {"id", "region", "entry", "pred", "issued", "done", "got"} \subseteq EntryFields
      /\ \A f \in {"id", "region", "entry"} : f \in EntryFields \ {"pred", "age", "done", "issued", "got"}
  BY DEF EntryFields
<1>6. DOMAIN W = EntryFields /\ \A f \in {"id", "region", "entry"} : W[f] = ftq[k][f]
  BY <1>1, <1>2, <1>3, <1>4, <1>5
<1>7. a = None => W.pred = IF i.slow # None /\ i.slow.k = k THEN i.slow.pred ELSE ftq[k].pred
  BY <1>1, <1>2, <1>3, <1>4, <1>5
<1>8. W.issued <=> (ftq[k].issued \/ (r # None /\ r.k = k))
  <2>1. W.issued = H.issued /\ H.issued = A.issued /\ T.issued = ftq[k].issued
    BY <1>1, <1>2, <1>3, <1>4, <1>5
  <2>2. QED
    BY <2>1, <1>2
<1>9. W.done # 0 => ftq[k].done # 0 \/ (g # <<>> /\ g[1].id = ftq[k].id)
  <2>1. W.done = H.done /\ A.done = T.done
    BY <1>2, <1>3, <1>4, <1>5
  <2>2. QED
    BY <2>1, <1>1, <1>3
<1>10. \A x \in W.got : x \in ftq[k].got \/ (g # <<>> /\ g[1].id = ftq[k].id /\ x \in Mispredictable(g))
  <2>1. A.got = T.got /\ T.got = ftq[k].got
    BY <1>1, <1>2, <1>5
  <2>2. QED
    BY <2>1, <1>3, <1>4
<1>11. QED
  BY <1>6, <1>7, <1>8, <1>9, <1>10 DEF W

Grown(a) == IF AllocFire(a) THEN 1 ELSE 0

(* What a cycle leaves of the queue.                                       *)
LEMMA Kept ==
  ASSUME QueueForm, NEW i \in Inputs, NEW a, Cuts(a), Sensible(i, a)
  PROVE  /\ Keep(a) \in Nat /\ Keep(a) <= Len(ftq) /\ Freed(i) \in {0, 1} /\ Freed(i) <= Keep(a)
         /\ Grown(a) \in {0, 1}
         /\ AllocFire(a) => a = None /\ Keep(a) = Len(ftq) /\ Len(ftq) < FtqDepth
         /\ a = None => Keep(a) = Len(ftq)
         /\ i.retire <=> Freed(i) = 1
         /\ i.retire => a = None /\ ftq[1].id \notin Updated(i) /\ 1 \in DOMAIN ftq
<1>1. Keep(a) \in 0 .. Len(ftq) /\ (a = None => Keep(a) = Len(ftq))
  BY CutAt
<1>2. Len(ftq) \in Nat /\ DOMAIN ftq = 1 .. Len(ftq)
  BY Placed
<1>3. i.retire \in Retires
  BY InputForm
<1>4. i.retire => Retirable /\ a = None /\ ftq[1].id \notin Updated(i)
  BY <1>3 DEF Retires, Sensible
<1>5. Retirable => Len(ftq) >= 1 /\ 1 \in DOMAIN ftq
  BY <1>2 DEF Retirable
<1>6. Freed(i) \in {0, 1} /\ (i.retire <=> Freed(i) = 1) /\ (~i.retire => Freed(i) = 0)
  BY DEF Freed
<1>7. Freed(i) <= Keep(a)
  BY <1>1, <1>2, <1>4, <1>5, <1>6
<1>8. Grown(a) \in {0, 1} /\ (AllocFire(a) => a = None /\ Len(ftq) < FtqDepth)
  BY DEF Grown, AllocFire
<1>9. QED
  BY <1>1, <1>2, <1>4, <1>5, <1>6, <1>7, <1>8

(* The queue after a cycle: the kept entries less the freed one, brought   *)
(* up to date, and the allocated one.                                      *)
LEMMA FtqNext ==
  ASSUME QueueForm, NEW i \in Inputs, NEW a, Cuts(a), Sensible(i, a),
         NEW r, NEW g, FtqStep(i, a, r, g)
  PROVE  /\ IsSequence(ftq') /\ Len(ftq') = Keep(a) - Freed(i) + Grown(a)
         /\ \A k \in 1 .. Keep(a) - Freed(i) :
              k + Freed(i) \in DOMAIN ftq /\ ftq'[k] = Told(i, a, r, g, k + Freed(i))
         /\ AllocFire(a) => ftq'[Keep(a) - Freed(i) + 1] = NewEntry(i.fast)
<1> DEFINE m == Keep(a)
<1> DEFINE f == Freed(i)
<1> DEFINE u == ToldUpTo(i, a, r, g, m)
<1> DEFINE c == SubSeq(u, 1 + f, m)
<1>1. Len(ftq) \in Nat /\ DOMAIN ftq = 1 .. Len(ftq)
  BY Placed
<1>2. m \in Nat /\ m <= Len(ftq) /\ f \in Nat /\ f <= m
  BY Kept
<1>3. ftq' = c \o (IF AllocFire(a) THEN <<NewEntry(i.fast)>> ELSE <<>>)
  BY FtqStepForm
<1>4. u = [k \in 1 .. m |-> Told(i, a, r, g, k)]
  BY DEF ToldUpTo
<1> HIDE DEF m, f, u
<1>5. \A k \in 1 .. m : u[k] = Told(i, a, r, g, k)
  BY <1>4
<1>6. u = [k \in 1 .. m |-> u[k]]
  BY <1>4
<1>7. IsSequence(u) /\ Len(u) = m
  BY <1>2, <1>6, SequenceForm
<1>8. SubSeq(u, 1, m) = u
  <2>1. u \in Seq({u[k] : k \in DOMAIN u})
    BY <1>7 DEF IsSequence
  <2>2. QED
    BY <2>1, <1>7
<1>9. /\ IsSequence(c) /\ Len(c) = m - f
      /\ \A k \in 1 .. m - f : c[k] = u[k + f]
  <2>1. /\ IsSequence(SubSeq(SubSeq(u, 1, m), 1 + f, m))
        /\ Len(SubSeq(SubSeq(u, 1, m), 1 + f, m)) = m - f
        /\ \A k \in 1 .. m - f : SubSeq(SubSeq(u, 1, m), 1 + f, m)[k] = u[k + f]
    BY <1>2, <1>7, SequenceCut
  <2>2. QED
    BY <1>8, <2>1
<1>10. \A k \in 1 .. m - f : k + f \in DOMAIN ftq /\ k + f \in 1 .. m
  BY <1>1, <1>2
<1> HIDE DEF c
<1>11. CASE AllocFire(a)
  <2>1. ftq' = c \o <<NewEntry(i.fast)>>
    BY <1>3, <1>11
  <2>2. /\ IsSequence(ftq') /\ Len(ftq') = m - f + 1
        /\ \A k \in 1 .. m - f : ftq'[k] = c[k]
        /\ ftq'[m - f + 1] = NewEntry(i.fast)
    BY <2>1, <1>9, SequenceAppend
  <2>3. QED
    BY <2>2, <1>5, <1>9, <1>10, <1>11 DEF m, f, Grown
<1>12. CASE ~AllocFire(a)
  <2>1. ftq' = c
    BY <1>3, <1>12, <1>9, SequenceAppend
  <2>2. m - f + 0 = m - f
    BY <1>2
  <2>3. QED
    BY <2>1, <2>2, <1>5, <1>9, <1>10, <1>12 DEF m, f, Grown
<1>13. QED
  BY <1>11, <1>12

(* A cycle keeps the queue's form: an id stays with its entry although the *)
(* head moves, and a new entry's generation is new.                        *)
LEMMA QueueFormStep ==
  ASSUME QueueForm, NEW i \in Inputs, NEW a, Cuts(a), Sensible(i, a),
         NEW r, NEW g, FtqStep(i, a, r, g)
  PROVE  QueueForm'
<1> DEFINE f == Freed(i)
<1> DEFINE n == Keep(a) - f
<1>1. /\ FtqDepth \in Nat \ {0} /\ ftqHead \in 0 .. FtqDepth - 1 /\ Len(ftq) <= FtqDepth
      /\ DOMAIN gen = 0 .. FtqDepth - 1 /\ Len(ftq) \in Nat /\ DOMAIN ftq = 1 .. Len(ftq)
  BY Placed DEF QueueForm
<1>2. /\ Keep(a) \in Nat /\ Keep(a) <= Len(ftq) /\ f \in {0, 1} /\ f <= Keep(a)
      /\ Grown(a) \in {0, 1}
      /\ AllocFire(a) => Keep(a) = Len(ftq) /\ Len(ftq) < FtqDepth
  BY Kept
<1>3. n \in Nat /\ n <= Len(ftq) /\ n + f = Keep(a)
  BY <1>1, <1>2
<1>4. IsSequence(ftq') /\ Len(ftq') = n + Grown(a)
  BY FtqNext
<1>14. \A k \in 1 .. n : k + f \in DOMAIN ftq /\ ftq'[k] = Told(i, a, r, g, k + f)
  BY FtqNext
<1>15. AllocFire(a) => ftq'[n + 1] = NewEntry(i.fast)
  BY FtqNext
<1> DEFINE tail == (ftqHead + Len(ftq)) % FtqDepth
<1>18. DOMAIN NewEntry(i.fast) = EntryFields
       /\ NewEntry(i.fast).id = [idx |-> tail, gen |-> gen[tail] + 1]
  BY DEF NewEntry, EntryFields
<1>6. ftqHead' = (ftqHead + f) % FtqDepth
  BY FtqStepForm
<1>19. gen' = IF AllocFire(a) THEN [gen EXCEPT ![NewEntry(i.fast).id.idx] = @ + 1] ELSE gen
  BY FtqStepForm
<1> HIDE DEF n, f, tail
<1>20. NewEntry(i.fast).id.idx = tail
  BY <1>18
<1>8. gen' = IF AllocFire(a) THEN [gen EXCEPT ![tail] = @ + 1] ELSE gen
  BY <1>19, <1>20
<1>5. Len(ftq') <= FtqDepth /\ DOMAIN ftq' = 1 .. n + Grown(a)
  <2>1. n + Grown(a) <= FtqDepth
    BY <1>1, <1>2, <1>3 DEF Grown
  <2>2. QED
    BY <2>1, <1>4, SequenceIs
<1>16. f \in 0 .. FtqDepth
  BY <1>1, <1>2
<1>7. ftqHead' \in 0 .. FtqDepth - 1
  BY <1>1, <1>16, <1>6, RingSum
<1>9. DOMAIN gen' = 0 .. FtqDepth - 1
  BY <1>1, <1>8
<1>17. ASSUME NEW j \in 0 .. FtqDepth - 1, f <= j
       PROVE  RingAt(ftqHead', j - f) = RingAt(ftqHead, j)
  BY <1>1, <1>2, <1>6, <1>17, RingShift DEF RingAt
<1>10. ASSUME NEW k \in 1 .. n
       PROVE  DOMAIN ftq'[k] = EntryFields /\ ftq'[k].id = IdAt(ftqHead', gen', k)
  <2>1. k + f \in DOMAIN ftq /\ ftq'[k] = Told(i, a, r, g, k + f)
    BY <1>14
  <2>2. /\ DOMAIN ftq[k + f] = EntryFields
        /\ ftq[k + f].id = IdAt(ftqHead, gen, k + f)
    BY <2>1 DEF QueueForm
  <2>3. DOMAIN ftq'[k] = EntryFields /\ ftq'[k].id = IdAt(ftqHead, gen, k + f)
    BY <2>1, <2>2, EntryUpdate
  <2> DEFINE j == (k + f) - 1
  <2>4. /\ j \in 0 .. FtqDepth - 1 /\ j \in 0 .. FtqDepth /\ f <= j /\ j - f = k - 1
        /\ j < Len(ftq) /\ j \in Nat
    BY <1>1, <1>2, <1>3, <2>1
  <2>8. IdAt(ftqHead, gen, k + f) = [idx |-> RingAt(ftqHead, j), gen |-> gen[RingAt(ftqHead, j)]]
    BY DEF IdAt
  <2> HIDE DEF j
  <2>5. RingAt(ftqHead', k - 1) = RingAt(ftqHead, j)
    BY <1>17, <2>4
  <2>6. gen'[RingAt(ftqHead, j)] = gen[RingAt(ftqHead, j)]
    <3>1. CASE ~AllocFire(a)
      BY <3>1, <1>8
    <3>2. CASE AllocFire(a)
      <4>2. Len(ftq) \in 0 .. FtqDepth - 1
        BY <3>2, <1>1, <1>2
      <4>3. RingAt(ftqHead, j) # tail
        BY <4>2, <2>4, <1>1, RingDistinct DEF RingAt, tail
      <4>4. RingAt(ftqHead, j) \in DOMAIN gen
        BY <1>1, <2>4, RingSum DEF RingAt
      <4>5. QED
        BY <3>2, <1>8, <4>3, <4>4
    <3>3. QED
      BY <3>1, <3>2
  <2>7. QED
    BY <2>3, <2>5, <2>6, <2>8 DEF IdAt
<1>11. ASSUME AllocFire(a)
       PROVE  DOMAIN ftq'[n + 1] = EntryFields /\ ftq'[n + 1].id = IdAt(ftqHead', gen', n + 1)
  <2>2. DOMAIN ftq'[n + 1] = EntryFields /\ ftq'[n + 1].id = [idx |-> tail, gen |-> gen[tail] + 1]
    BY <1>11, <1>15, <1>18
  <2>10. Len(ftq) \in Nat /\ FtqDepth \in Nat /\ f \in Nat /\ n \in Nat /\ Keep(a) = Len(ftq)
         /\ Len(ftq) < FtqDepth
    BY <1>1, <1>2, <1>3, <1>11
  <2>3. Len(ftq) \in 0 .. FtqDepth - 1 /\ f <= Len(ftq) /\ Len(ftq) - f = n /\ (n + 1) - 1 = n
        /\ Len(ftq) \in 0 .. FtqDepth
    BY <2>10, <1>2, <1>3
  <2>4. RingAt(ftqHead', n) = tail
    BY <1>17, <2>3 DEF RingAt, tail
  <2>6. tail \in DOMAIN gen
    BY <1>1, <2>3, RingSum DEF tail
  <2>7. gen'[tail] = gen[tail] + 1
    BY <1>8, <1>11, <2>6
  <2>8. IdAt(ftqHead', gen', n + 1) = [idx |-> tail, gen |-> gen'[tail]]
    BY <2>3, <2>4 DEF IdAt
  <2>9. QED
    BY <2>2, <2>7, <2>8
<1>12. \A k \in DOMAIN ftq' : DOMAIN ftq'[k] = EntryFields /\ ftq'[k].id = IdAt(ftqHead', gen', k)
  <2>1. SUFFICES ASSUME NEW k \in DOMAIN ftq'
                 PROVE  DOMAIN ftq'[k] = EntryFields /\ ftq'[k].id = IdAt(ftqHead', gen', k)
    OBVIOUS
  <2>2. k \in 1 .. n \/ (AllocFire(a) /\ k = n + 1)
    BY <1>3, <1>5, <1>2 DEF Grown
  <2>3. QED
    BY <2>2, <1>10, <1>11
<1>13. QED
  BY <1>4, <1>5, <1>7, <1>9, <1>12 DEF QueueForm, IsSequence

-----------------------------------------------------------------------------
(* Beats.                                                                  *)

(* What a mask leaves: as many as are live, in their order.                *)
At(live, n) == CHOOSE k \in live : Cardinality(Below(live, k)) = n - 1

(* Masked keeps the live positions, as many as there are, in their order.  *)
LEMMA MaskedForm ==
  ASSUME NEW s, NEW live, IsFiniteSet(live), live \subseteq Nat
  PROVE  /\ IsSequence(Masked(s, live)) /\ Len(Masked(s, live)) = Cardinality(live)
         /\ Cardinality(live) \in Nat
         /\ \A n \in 1 .. Cardinality(live) : At(live, n) \in live /\ Masked(s, live)[n] = s[At(live, n)]
         /\ \A m, n \in 1 .. Cardinality(live) : m < n => At(live, m) < At(live, n)
<1> DEFINE c == Cardinality(live)
<1>1. c \in Nat
  BY FS_CardinalityType
<1>2. Masked(s, live) = [n \in 1 .. c |-> s[At(live, n)]]
  BY Zenon DEF Masked, At, Below
<1>3. ASSUME NEW n \in 1 .. c
      PROVE  At(live, n) \in live /\ Cardinality(Below(live, At(live, n))) = n - 1
  <2>1. n - 1 \in Nat /\ n - 1 < c
    BY <1>1
  <2>2. \E k \in live : Cardinality(Below(live, k)) = n - 1
    BY <2>1, RankExists
  <2>3. QED
    BY <2>2 DEF At
<1> HIDE DEF c
<1>4. \A n \in 1 .. c : Masked(s, live)[n] = s[At(live, n)]
  BY <1>2
<1>5. Masked(s, live) = [n \in 1 .. c |-> Masked(s, live)[n]]
  BY <1>2
<1>6. IsSequence(Masked(s, live)) /\ Len(Masked(s, live)) = c
  BY <1>1, <1>5, SequenceForm
<1>7. ASSUME NEW m \in 1 .. c, NEW n \in 1 .. c, m < n PROVE At(live, m) < At(live, n)
  <2> DEFINE x == At(live, m)
  <2> DEFINE y == At(live, n)
  <2>1. /\ x \in live /\ y \in live /\ x \in Nat /\ y \in Nat
        /\ Cardinality(Below(live, x)) = m - 1 /\ Cardinality(Below(live, y)) = n - 1
    BY <1>3
  <2> HIDE DEF x, y
  <2>2. CASE y < x
    <3>1. Cardinality(Below(live, y)) < Cardinality(Below(live, x))
      BY <2>1, <2>2, RankMonotone
    <3>2. QED
      BY <2>1, <3>1, <1>7, <1>1
  <2>3. CASE x = y
    BY <2>1, <2>3, <1>7, <1>1
  <2>4. QED
    BY <2>1, <2>2, <2>3 DEF x, y
<1>8. QED
  BY <1>1, <1>3, <1>4, <1>6, <1>7 DEF c

(* A set of places of a sequence is finite.                                *)
LEMMA PlacesFinite ==
  ASSUME NEW s, IsSequence(s), NEW S, S \subseteq DOMAIN s
  PROVE  IsFiniteSet(S) /\ S \subseteq Nat /\ Cardinality(S) <= Len(s) /\ Cardinality(S) \in Nat
<1>1. Len(s) \in Nat /\ DOMAIN s = 1 .. Len(s)
  BY SequenceIs
<1>2. IsFiniteSet(1 .. Len(s)) /\ Cardinality(1 .. Len(s)) = Len(s)
  <2>1. 1 \in Int /\ Len(s) \in Int
    BY <1>1
  <2>2. IsFiniteSet(1 .. Len(s)) /\ Cardinality(1 .. Len(s)) = IF 1 > Len(s) THEN 0 ELSE Len(s) - 1 + 1
    BY <2>1, FS_Interval
  <2>3. QED
    BY <1>1, <2>2
<1>3. IsFiniteSet(S) /\ Cardinality(S) <= Len(s)
  BY <1>1, <1>2, FS_Subset
<1>4. QED
  BY <1>1, <1>3, FS_CardinalityType

(* A redirect leaves of a beat a beat of the same entry; if it leaves      *)
(* anything, the entry is one it keeps.                                    *)
LEMMA SurvivorForm ==
  ASSUME QueueForm, NEW a, Cuts(a), NEW b, BeatForm(b)
  PROVE  /\ BeatForm(Survivor(a, b)) /\ Survivor(a, b).id = b.id
         /\ Keeps(a, b) => \A k \in DOMAIN ftq : b.id = ftq[k].id => k <= Keep(a)
<1> DEFINE live == {n \in DOMAIN b.items : ~KilledBy(a, b.items[n].id, b.items[n].slot)}
<1> DEFINE w == Survivor(a, b)
<1>1. DOMAIN b = BeatFields /\ IsSequence(b.items) /\ \A m \in DOMAIN b.items : Names(b.items[m], b.id)
  BY DEF BeatForm
<1>2. live \subseteq DOMAIN b.items /\ IsFiniteSet(live) /\ live \subseteq Nat
  BY <1>1, PlacesFinite
<1>3. \A n \in live : ~KilledBy(a, b.items[n].id, b.items[n].slot)
  OBVIOUS
<1>4. w = [b EXCEPT !.items = Masked(@, live), !.last = @ \/ live # DOMAIN b.items,
                    !.edgePend = @ /\ ~KilledBy(a, b.id, Last)]
  BY Zenon DEF Survivor
<1> HIDE DEF live, w
<1>5. DOMAIN w = BeatFields /\ w.items = Masked(b.items, live) /\ w.id = b.id
  <2> DEFINE x == b.last \/ live # DOMAIN b.items
  <2> DEFINE y == b.edgePend /\ ~KilledBy(a, b.id, Last)
  <2> DEFINE z == Masked(b.items, live)
  <2>1. w = [b EXCEPT !.items = z, !.last = x, !.edgePend = y]
    BY <1>4
  <2> HIDE DEF x, y, z
  <2>2. DOMAIN w = BeatFields /\ w.items = z /\ w.id = b.id
    BY <1>1, <2>1 DEF BeatFields
  <2>3. QED
    BY <2>2 DEF z
<1>6. /\ IsSequence(w.items)
      /\ \A n \in DOMAIN w.items : At(live, n) \in live /\ w.items[n] = b.items[At(live, n)]
  <2>1. /\ IsSequence(w.items) /\ Len(w.items) = Cardinality(live)
        /\ \A n \in 1 .. Cardinality(live) : At(live, n) \in live /\ w.items[n] = b.items[At(live, n)]
    BY <1>2, <1>5, MaskedForm
  <2>2. QED
    BY <2>1, SequenceIs
<1>7. BeatForm(w)
  BY <1>1, <1>2, <1>5, <1>6 DEF BeatForm
<1>8. ASSUME Keeps(a, b), NEW k \in DOMAIN ftq, b.id = ftq[k].id PROVE k <= Keep(a)
  <2>1. Keep(a) \in Int /\ k \in Int /\ (k > Keep(a) => \A t : KilledBy(a, b.id, t))
    <3>1. Keep(a) \in 0 .. Len(ftq) /\ Len(ftq) \in Nat /\ k \in Int
      BY CutAt, Placed
    <3>2. k > Keep(a) => \A t : KilledBy(a, ftq[k].id, t)
      BY CutAt
    <3>3. QED
      BY <1>8, <3>1, <3>2
  <2>2. CASE w.items # <<>>
    <3>1. live # {}
      <4>1. SUFFICES ASSUME live = {} PROVE FALSE
        OBVIOUS
      <4>2. Len(w.items) = 0
        BY <1>2, <1>5, <4>1, MaskedForm, FS_EmptySet
      <4>3. w.items = <<>>
        BY <4>2, <1>6 DEF IsSequence
      <4>4. QED
        BY <4>3, <2>2
    <3>2. PICK n \in live : TRUE
      BY <3>1
    <3>3. ~KilledBy(a, b.id, b.items[n].slot)
      BY <3>2, <1>1, <1>2, <1>3 DEF Names
    <3>4. QED
      BY <2>1, <3>3
  <2>3. CASE ~KilledBy(a, b.id, Last)
    BY <2>1, <2>3
  <2>4. QED
    BY <2>2, <2>3, <1>8 DEF Keeps, w
<1>9. QED
  BY <1>5, <1>7, <1>8 DEF w

(* The beat of a region is for the entry of the snapshot.                  *)
LEMMA BeatOfForm ==
  ASSUME NEW o
  PROVE  BeatForm(BeatOf(o)) /\ BeatOf(o).id = o.id
<1> DEFINE p == o.brief.pred
<1> DEFINE size(h) == IF h < 0 THEN 2 ELSE Code[o.brief.region * Slots + h].len
<1> DEFINE bad(h) == o.exc \/ (h >= 0 /\ size(h) = 1 /\ ~Code[o.brief.region * Slots + h].legal)
<1> DEFINE ends(h) == bad(h) \/ (p.valid /\ h + size(h) - 1 >= ExitOf(p))
<1> DEFINE reach == {h \in StartAt(o) : \A g \in StartAt(o) : g < h => ~ends(g)}
<1> DEFINE half == {h \in reach : h = Last /\ size(h) = 2 /\ ~o.exc}
<1> DEFINE at == {n \in 1 .. Slots + 1 : n - 2 \in reach \ half}
<1> DEFINE lanes == Masked([n \in 1 .. Slots + 1 |-> n - 2], at)
<1> DEFINE items == [n \in 1 .. Len(lanes) |->
                       Item(o, lanes[n], IF o.exc THEN 0 ELSE size(lanes[n]), bad(lanes[n]))]
<1>1. BeatOf(o) = [items |-> items, id |-> o.id, pred |-> p, region |-> o.brief.region,
                   top |-> o.brief.top, last |-> TRUE, edgePend |-> half # {}]
  BY ZenonT(60) DEF BeatOf
<1> HIDE DEF p, reach, half
<1>2. at \subseteq Nat /\ IsFiniteSet(at)
  <2>1. Slots + 1 \in Int /\ 1 \in Int
    BY FetchSizes
  <2>2. IsFiniteSet(1 .. Slots + 1)
    BY <2>1, FS_Interval
  <2>3. at \subseteq 1 .. Slots + 1
    OBVIOUS
  <2> HIDE DEF at
  <2>4. IsFiniteSet(at)
    BY <2>2, <2>3, FS_Subset
  <2>5. QED
    BY <2>3, <2>4
<1> HIDE DEF at
<1>3. Len(lanes) \in Nat
  BY <1>2, MaskedForm
<1> HIDE DEF lanes
<1>4. \A n \in 1 .. Len(lanes) : Names(items[n], o.id)
  <2>1. \A pos, len, exc : Names(Item(o, pos, len, exc), o.id)
    BY DEF Item, Names
  <2>2. QED
    BY <2>1
<1>5. items = [n \in 1 .. Len(lanes) |-> items[n]] /\ DOMAIN items = 1 .. Len(lanes)
  OBVIOUS
<1> HIDE DEF items
<1>6. IsSequence(items) /\ \A n \in DOMAIN items : Names(items[n], o.id)
  BY <1>3, <1>4, <1>5, SequenceForm
<1> DEFINE b == BeatOf(o)
<1>7. DOMAIN b = BeatFields /\ b.items = items /\ b.id = o.id
  BY <1>1 DEF BeatFields
<1> HIDE DEF b
<1>8. QED
  BY <1>6, <1>7 DEF BeatForm, b

(* What F1 delivers of a beat and the correction it asks for are for the   *)
(* beat's entry.                                                           *)
LEMMA F1Form ==
  ASSUME NEW b, BeatForm(b)
  PROVE  /\ F1(b).req # None => ~F1(b).req.all /\ Names(F1(b).req, b.id)
         /\ \A n \in DOMAIN F1(b).out : Names(F1(b).out[n], b.id)
         /\ F1(b).out # <<>> => F1(b).out[1].id = b.id
         /\ \A x \in Mispredictable(F1(b).out) : Names(x, b.id)
<1> DEFINE fix == [n \in DOMAIN b.items |-> LaneFix(b, n)]
<1> DEFINE e == Emitted(b, fix)
<1> DEFINE c == Cardinality(e)
<1> DEFINE req == F1Req(b, fix, e)
<1> DEFINE ds == F1Out(b, fix, c, req)
<1>1. F1(b).req = req /\ F1(b).out = ds
  BY Zenon DEF F1
<1>2. IsSequence(b.items) /\ \A m \in DOMAIN b.items : Names(b.items[m], b.id)
  BY DEF BeatForm
<1>3. e \subseteq DOMAIN b.items
  <2>1. e = LET stop(n) == fix[n] # None \/ b.items[n].exc \/ Covers(b.items[n], b.pred)
            IN {n \in DOMAIN b.items : \A m \in 1 .. n - 1 : ~stop(m)}
    BY Zenon DEF Emitted
  <2> HIDE DEF fix, e
  <2>2. QED
    BY <2>1
<1> HIDE DEF fix, e
<1>4. c \in Nat /\ c <= Len(b.items) /\ IsFiniteSet(e) /\ e \subseteq Nat
  BY <1>2, <1>3, PlacesFinite
<1>5. Len(b.items) \in Nat /\ DOMAIN b.items = 1 .. Len(b.items)
  BY <1>2, SequenceIs
<1> HIDE DEF c
<1>6. req # None => ~req.all /\ Names(req, b.id)
  <2> DEFINE asking == {n \in e : fix[n] # None}
  <2> DEFINE it == b.items[Min(asking)]
  <2>1. CASE asking # {}
    <3>1. req = Predecode(it.id, it.slot, fix[Min(asking)].target, fix[Min(asking)], it.pc, Seq0(it))
      BY <2>1, ZenonT(60) DEF F1Req
    <3>2. Min(asking) \in DOMAIN b.items
      <4>1. asking \subseteq e
        OBVIOUS
      <4> HIDE DEF asking
      <4>2. QED
        BY <1>3, <1>4, <2>1, <4>1, MinIn
    <3>3. Names(it, b.id)
      BY <1>2, <3>2
    <3> HIDE DEF it, asking
    <3>4. ~req.all /\ req.id = it.id /\ req.slot = it.slot
      BY <3>1 DEF Predecode
    <3>5. QED
      BY <3>3, <3>4 DEF Names
  <2>2. CASE ~(asking # {}) /\ req # None
    <3>1. req = Predecode(b.id, Last, (b.region * Slots + Slots) % Pcs,
                          Fix(FALSE, 0, "none", FALSE), 0, 0)
      BY <2>2, ZenonT(60) DEF F1Req
    <3>2. Last \in Nat
      BY FetchSizes DEF Last
    <3> HIDE DEF asking, req
    <3>3. ~req.all /\ req.id = b.id /\ req.slot = Last
      BY <3>1 DEF Predecode
    <3>4. QED
      BY <3>2, <3>3 DEF Names
  <2>3. QED
    BY <2>1, <2>2
<1> HIDE DEF req
<1>7. DOMAIN ds = 1 .. c /\ \A n \in DOMAIN ds : Names(ds[n], b.id)
  <2>1. ds = [n \in 1 .. c |-> [Delivery(b.items[n], b.pred, fix[n]) EXCEPT
                                   !.last = n = c /\ (b.last \/ req # None)]]
    BY Zenon DEF F1Out
  <2> HIDE DEF ds
  <2>2. ASSUME NEW n \in 1 .. c PROVE Names(ds[n], b.id)
    <3> DEFINE y == Delivery(b.items[n], b.pred, fix[n])
    <3> DEFINE z == n = c /\ (b.last \/ req # None)
    <3>1. ds[n] = [y EXCEPT !.last = z]
      BY <2>1
    <3>2. /\ y.id = b.items[n].id /\ y.slot = b.items[n].slot
          /\ "last" # "id" /\ "last" # "slot" /\ {"id", "slot"} \subseteq DOMAIN y
      BY DEF Delivery
    <3>3. Names(b.items[n], b.id)
      BY <1>2, <1>4, <1>5
    <3> HIDE DEF y, z
    <3>4. ds[n].id = y.id /\ ds[n].slot = y.slot
      BY <3>1, <3>2
    <3>5. QED
      BY <3>2, <3>3, <3>4 DEF Names
  <2>3. DOMAIN ds = 1 .. c
    BY <2>1
  <2>4. QED
    BY <2>2, <2>3
<1>8. ds # <<>> => 1 \in DOMAIN ds
  <2>1. ds = [n \in 1 .. c |-> ds[n]]
    BY Zenon DEF F1Out
  <2> HIDE DEF ds
  <2>2. c = 0 => ds = <<>>
    BY <2>1
  <2>3. QED
    BY <1>4, <1>7, <2>2
<1> HIDE DEF ds
<1>9. ASSUME NEW x \in Mispredictable(ds) PROVE Names(x, b.id)
  <2> DEFINE S == {n \in DOMAIN ds : ~ds[n].exc /\ ds[n].word.op \in {"br", "jalr"}}
  <2>1. PICK n \in S :
          x = [id |-> ds[n].id, slot |-> ds[n].slot, word |-> ds[n].word, next |-> ds[n].next,
               seq |-> (ds[n].pc + ds[n].word.len) % Pcs]
    BY <1>9 DEF Mispredictable
  <2>2. Names(ds[n], b.id)
    BY <1>7, <2>1
  <2>3. x.id = ds[n].id /\ x.slot = ds[n].slot
    BY <2>1
  <2>4. QED
    BY <2>2, <2>3 DEF Names
<1>10. QED
  BY <1>1, <1>6, <1>7, <1>8, <1>9 DEF Names

-----------------------------------------------------------------------------
(* A cycle.                                                                *)

Beat(i, a)  == IF FirePush(i, a) THEN BeatOf(out) ELSE None
Lanes(i, a) == IF FirePop(i, a) THEN F1(beats[1]) ELSE None
Given(i, a) == IF FirePop(i, a) THEN Lanes(i, a).out ELSE <<>>

(* A slot's owner, and the slot with the answer of the cycle.              *)
Taken(r, s)  == r # None /\ r.slot = s
Owner(r, s)  == IF Taken(r, s) THEN ftq[r.k].id ELSE slots[s].id
Filled(r, s) == IF Taken(r, s) THEN [state |-> "pend", id |-> ftq[r.k].id, region |-> ftq[r.k].region]
                ELSE slots[s]
Answered(i, r, s) ==
  IF i.resp # None /\ i.resp.slot = s
  THEN [Filled(r, s) EXCEPT !.state = IF @ = "zombie" THEN "free" ELSE "ready"] ELSE Filled(r, s)
Dying(a, r, s) == (slots[s].state \in {"pend", "ready"} \/ Taken(r, s)) /\ KilledBy(a, Owner(r, s), 0)
Queued(r)       == IF r = None THEN order ELSE Append(order, r.slot)
Alive(a, r)     == {n \in DOMAIN Queued(r) : ~KilledBy(a, Owner(r, Queued(r)[n]), 0)}

(* Tick in these names.                                                    *)
LEMMA TickForm ==
  ASSUME NEW i, NEW a, Tick(i, a)
  PROVE  /\ QueueStep(i, a, Reserve(i, a), FirePush(i, a))
         /\ BeatStep(a, Beat(i, a), Lanes(i, a), FirePush(i, a), FirePop(i, a))
         /\ FtqStep(i, a, Reserve(i, a), Given(i, a))
         /\ cycle' = QueueInputs(i, a, Reserve(i, a))
  BY ZenonT(60) DEF Tick, Beat, Lanes, Given

(* The return queue's step, with the helpers of QueueStep under their names*)
(* here.                                                                   *)
LEMMA QueueStepForm ==
  ASSUME NEW i, NEW a, NEW r, QueueStep(i, a, r, FirePush(i, a))
  PROVE  /\ slots' = [s \in DOMAIN slots |->
                        IF FirePush(i, a) /\ s = order[1] THEN [Answered(i, r, s) EXCEPT !.state = "free"]
                        ELSE IF Dying(a, r, s)
                        THEN [Answered(i, r, s) EXCEPT !.state = DeadState(@)]
                        ELSE Answered(i, r, s)]
         /\ payload' = IF i.resp = None THEN payload
                       ELSE [payload EXCEPT ![i.resp.slot] = slots[i.resp.slot].region \in Fault]
         /\ order' = IF FirePush(i, a) THEN Tail(Queued(r))
                     ELSE SubSeq(Queued(r), 1, Cardinality(Alive(a, r)))
         /\ out' = IF a # None \/ (out # None /\ Refreshed(i, out.id)) THEN None
                   ELSE IF (out = None \/ FirePush(i, a)) /\ SnapshotReady(i)
                   THEN [id |-> slots[Snapshot].id, exc |-> payload[Snapshot],
                         brief |-> Brief(slots[Snapshot].id)]
                   ELSE IF FirePush(i, a) THEN None ELSE out
<1> DEFINE new == IF r = None THEN None ELSE ftq[r.k]
<1> DEFINE owner(n) == IF r # None /\ r.slot = n THEN new.id ELSE slots[n].id
<1> DEFINE filled(n) == IF r # None /\ r.slot = n
                        THEN [state |-> "pend", id |-> new.id, region |-> new.region] ELSE slots[n]
<1>1. \A n : owner(n) = Owner(r, n) /\ filled(n) = Filled(r, n)
  BY DEF Owner, Filled, Taken
<1> HIDE DEF owner, filled
<1> DEFINE answered(n) == IF i.resp # None /\ i.resp.slot = n
           THEN [filled(n) EXCEPT !.state = IF @ = "zombie" THEN "free" ELSE "ready"] ELSE filled(n)
<1>2. \A n : answered(n) = Answered(i, r, n)
  BY <1>1, Zenon DEF Answered
<1> HIDE DEF answered
<1> DEFINE killed(n) == (slots[n].state \in {"pend", "ready"} \/ (r # None /\ r.slot = n))
                          /\ KilledBy(a, owner(n), 0)
<1>3. \A n : killed(n) <=> Dying(a, r, n)
  BY <1>1 DEF Dying, Taken
<1> DEFINE survivors == {n \in DOMAIN Queued(r) : ~KilledBy(a, owner(Queued(r)[n]), 0)}
<1>4. survivors = Alive(a, r)
  BY <1>1 DEF Alive
<1> HIDE DEF killed, survivors
<1>5. slots' = [n \in DOMAIN slots |->
                 IF FirePush(i, a) /\ n = order[1] THEN [answered(n) EXCEPT !.state = "free"]
                 ELSE IF killed(n) THEN [answered(n) EXCEPT !.state = DeadState(@)]
                 ELSE answered(n)]
  BY ZenonT(60) DEF QueueStep, answered, filled, killed, owner, new
<1>6. slots' = [s \in DOMAIN slots |->
                 IF FirePush(i, a) /\ s = order[1] THEN [Answered(i, r, s) EXCEPT !.state = "free"]
                 ELSE IF Dying(a, r, s) THEN [Answered(i, r, s) EXCEPT !.state = DeadState(@)]
                 ELSE Answered(i, r, s)]
  BY <1>2, <1>3, <1>5
<1>7. order' = IF FirePush(i, a) THEN Tail(Queued(r))
               ELSE SubSeq(Queued(r), 1, Cardinality(survivors))
  BY ZenonT(60) DEF QueueStep, survivors, Queued, owner, new
<1>8. QED
  BY <1>4, <1>6, <1>7, Zenon DEF QueueStep

(* The request of a cycle: the first entry not yet requested, in a slot    *)
(* that is free.                                                           *)
LEMMA ReserveForm ==
  ASSUME QueueForm, SlotsForm, NEW d \in 0 .. Len(ftq), OrderForm(d), NEW i, NEW a,
         Reserve(i, a) # None
  PROVE  /\ a = None /\ Reserve(i, a).slot \in DOMAIN slots
         /\ slots[Reserve(i, a).slot].state = "free"
         /\ Reserve(i, a).k = d + Len(order) + 1 /\ Reserve(i, a).k \in DOMAIN ftq
         /\ Len(order) \in Nat /\ d \in Nat
<1> DEFINE r == Reserve(i, a)
<1>1. a = None /\ Demand # {} /\ FreeSlots # {} /\ r = [slot |-> Min(FreeSlots), k |-> Min(Demand)]
  BY DEF Reserve
<1>2. FreeSlots \subseteq Nat /\ FreeSlots \subseteq DOMAIN slots
  BY FetchSizes DEF FreeSlots, SlotsForm
<1>3. Min(FreeSlots) \in FreeSlots
  BY <1>1, <1>2, MinIn
<1>4. Demand \subseteq DOMAIN ftq /\ DOMAIN ftq = 1 .. Len(ftq) /\ Len(ftq) \in Nat
  BY Placed DEF Demand
<1>5. Min(Demand) \in Demand
  <2>1. Demand \subseteq Nat
    BY <1>4
  <2>2. QED
    BY <1>1, <2>1, MinIn
<1>6. Len(order) \in Nat /\ d \in Nat /\ d + Len(order) <= Len(ftq)
  BY <1>4, SequenceIs DEF OrderForm
<1>7. \A k \in DOMAIN ftq : ftq[k].issued <=> k <= d + Len(order)
  BY DEF OrderForm
<1>8. Min(Demand) = d + Len(order) + 1
  <2> DEFINE k == Min(Demand)
  <2>1. k \in DOMAIN ftq /\ ~ftq[k].issued /\ \A n \in 1 .. k - 1 : ftq[n].issued
    BY <1>5 DEF Demand
  <2> HIDE DEF k
  <2>2. k > d + Len(order)
    BY <2>1, <1>4, <1>6, <1>7
  <2>3. ASSUME k > d + Len(order) + 1 PROVE FALSE
    <3>1. d + Len(order) + 1 \in 1 .. k - 1 /\ d + Len(order) + 1 \in DOMAIN ftq
      BY <2>1, <2>3, <1>4, <1>6
    <3>2. d + Len(order) + 1 <= d + Len(order)
      BY <3>1, <2>1, <1>7
    <3>3. QED
      BY <3>2, <1>6
  <2>4. QED
    BY <2>1, <2>2, <2>3, <1>4, <1>6 DEF k
<1>9. QED
  BY <1>1, <1>2, <1>3, <1>4, <1>5, <1>6, <1>8 DEF FreeSlots

Live(state) == state \in {"pend", "ready"}

(* A slot with the reservation and the answer of the cycle.                *)
LEMMA AnsweredForm ==
  ASSUME SlotsForm, NEW i \in Inputs, NEW r,
         r # None => r.slot \in DOMAIN slots /\ slots[r.slot].state = "free", NEW s \in DOMAIN slots
  PROVE  LET w == Answered(i, r, s)
             hit == i.resp # None /\ i.resp.slot = s
         IN /\ DOMAIN w = SlotFields /\ w.id = Owner(r, s)
            /\ w.region = IF Taken(r, s) THEN ftq[r.k].region ELSE slots[s].region
            /\ w.state = IF hit THEN (IF slots[s].state = "zombie" THEN "free" ELSE "ready")
                         ELSE IF Taken(r, s) THEN "pend" ELSE slots[s].state
            /\ hit => slots[s].state \in {"pend", "zombie"} /\ ~Taken(r, s)
            /\ Taken(r, s) => slots[s].state = "free"
<1> DEFINE w == Answered(i, r, s)
<1>1. /\ DOMAIN slots = 0 .. RqDepth - 1 /\ DOMAIN slots[s] = SlotFields
      /\ slots[s].state \in {"free", "pend", "ready", "zombie"}
  BY DEF SlotsForm
<1>3. i.resp # None => i.resp.slot \in DOMAIN slots /\ slots[i.resp.slot].state \in {"pend", "zombie"}
  <2>1. i.resp \in Answers
    BY InputForm
  <2>2. QED
    BY <2>1 DEF Answers
<1>4. /\ DOMAIN Filled(r, s) = SlotFields /\ Filled(r, s).id = Owner(r, s)
      /\ Filled(r, s).region = IF Taken(r, s) THEN ftq[r.k].region ELSE slots[s].region
      /\ Filled(r, s).state = IF Taken(r, s) THEN "pend" ELSE slots[s].state
  BY <1>1 DEF Filled, Owner, SlotFields
<1>5. Taken(r, s) => slots[s].state = "free"
  BY DEF Taken
<1> DEFINE hit == i.resp # None /\ i.resp.slot = s
<1>6. hit => slots[s].state \in {"pend", "zombie"} /\ ~Taken(r, s)
  BY <1>3, <1>5
<1>7. /\ DOMAIN w = SlotFields /\ w.id = Owner(r, s)
      /\ w.region = IF Taken(r, s) THEN ftq[r.k].region ELSE slots[s].region
      /\ w.state = IF hit THEN (IF slots[s].state = "zombie" THEN "free" ELSE "ready")
                   ELSE IF Taken(r, s) THEN "pend" ELSE slots[s].state
  <2> DEFINE F == Filled(r, s)
  <2>1. w = IF hit THEN [F EXCEPT !.state = IF F.state = "zombie" THEN "free" ELSE "ready"] ELSE F
    BY DEF Answered
  <2> HIDE DEF w, F, hit
  <2>2. /\ DOMAIN F = SlotFields /\ F.id = Owner(r, s)
        /\ F.region = IF Taken(r, s) THEN ftq[r.k].region ELSE slots[s].region
        /\ F.state = IF Taken(r, s) THEN "pend" ELSE slots[s].state
    BY <1>4 DEF F
  <2>3. CASE hit
    <3>1. w = [F EXCEPT !.state = IF F.state = "zombie" THEN "free" ELSE "ready"]
      BY <2>1, <2>3
    <3>2. QED
      BY <3>1, <2>2, <2>3, <1>6 DEF SlotFields
  <2>4. CASE ~hit
    BY <2>1, <2>2, <2>4
  <2>5. QED
    BY <2>3, <2>4
<1>8. QED
  BY <1>5, <1>6, <1>7 DEF hit

(* A cycle of a slot.                                                      *)
LEMMA SlotNext ==
  ASSUME SlotsForm, NEW i \in Inputs, NEW a, NEW r,
         r # None => r.slot \in DOMAIN slots /\ slots[r.slot].state = "free",
         QueueStep(i, a, r, FirePush(i, a)), NEW s \in DOMAIN slots
  PROVE  /\ DOMAIN slots' = DOMAIN slots /\ DOMAIN slots'[s] = SlotFields
         /\ slots'[s].state \in {"free", "pend", "ready", "zombie"}
         /\ slots'[s].id = Owner(r, s)
         /\ slots'[s].region = IF Taken(r, s) THEN ftq[r.k].region ELSE slots[s].region
         /\ Live(slots'[s].state) <=>
              /\ Live(slots[s].state) \/ Taken(r, s)
              /\ ~(FirePush(i, a) /\ s = order[1]) /\ ~KilledBy(a, Owner(r, s), 0)
         /\ slots[s].state = "ready" /\ Live(slots'[s].state) => slots'[s].state = "ready"
         /\ DOMAIN payload' = DOMAIN payload /\ payload'[s] \in BOOLEAN
         /\ slots[s].state = "ready" => payload'[s] = payload[s]
<1> DEFINE w == Answered(i, r, s)
<1>1. /\ DOMAIN slots = 0 .. RqDepth - 1 /\ DOMAIN slots[s] = SlotFields
      /\ DOMAIN payload = 0 .. RqDepth - 1
      /\ slots[s].state \in {"free", "pend", "ready", "zombie"} /\ payload[s] \in BOOLEAN
  BY DEF SlotsForm
<1>2. /\ DOMAIN slots' = DOMAIN slots
      /\ slots'[s] = IF FirePush(i, a) /\ s = order[1] THEN [w EXCEPT !.state = "free"]
                     ELSE IF Dying(a, r, s) THEN [w EXCEPT !.state = DeadState(@)] ELSE w
  BY QueueStepForm
<1>3. i.resp # None => i.resp.slot \in DOMAIN slots /\ slots[i.resp.slot].state \in {"pend", "zombie"}
  <2>1. i.resp \in Answers
    BY InputForm
  <2>2. QED
    BY <2>1 DEF Answers
<1> DEFINE hit == i.resp # None /\ i.resp.slot = s
<1>7. /\ DOMAIN w = SlotFields /\ w.id = Owner(r, s)
      /\ w.region = IF Taken(r, s) THEN ftq[r.k].region ELSE slots[s].region
      /\ w.state = IF hit THEN (IF slots[s].state = "zombie" THEN "free" ELSE "ready")
                   ELSE IF Taken(r, s) THEN "pend" ELSE slots[s].state
  BY AnsweredForm
<1>5. Taken(r, s) => slots[s].state = "free"
  BY AnsweredForm
<1>6. hit => slots[s].state \in {"pend", "zombie"} /\ ~Taken(r, s)
  BY AnsweredForm
<1> DEFINE z == IF FirePush(i, a) /\ s = order[1] THEN "free"
                ELSE IF Dying(a, r, s) THEN DeadState(w.state) ELSE w.state
<1>8. /\ DOMAIN slots'[s] = SlotFields /\ slots'[s].id = w.id /\ slots'[s].region = w.region
      /\ slots'[s].state = z
  <2> HIDE DEF w
  <2>1. QED
    BY <1>2, <1>7 DEF SlotFields
<1>9. Dying(a, r, s) <=> (Live(slots[s].state) \/ Taken(r, s)) /\ KilledBy(a, Owner(r, s), 0)
  BY DEF Dying, Live
<1> HIDE DEF w, hit
<1>10. /\ z \in {"free", "pend", "ready", "zombie"}
       /\ Live(z) <=> /\ Live(slots[s].state) \/ Taken(r, s)
                      /\ ~(FirePush(i, a) /\ s = order[1]) /\ ~KilledBy(a, Owner(r, s), 0)
       /\ slots[s].state = "ready" /\ Live(z) => z = "ready"
  <2>1. CASE FirePush(i, a) /\ s = order[1]
    BY <2>1 DEF Live
  <2>2. CASE ~(FirePush(i, a) /\ s = order[1]) /\ Dying(a, r, s)
    BY <2>2, <1>1, <1>5, <1>6, <1>7, <1>9 DEF Live, DeadState
  <2>3. CASE ~(FirePush(i, a) /\ s = order[1]) /\ ~Dying(a, r, s)
    BY <2>3, <1>1, <1>5, <1>6, <1>7, <1>9 DEF Live
  <2>4. QED
    BY <2>1, <2>2, <2>3
<1> HIDE DEF z
<1>11. /\ DOMAIN payload' = DOMAIN payload /\ payload'[s] \in BOOLEAN
       /\ slots[s].state = "ready" => payload'[s] = payload[s]
  <2>1. payload' = IF i.resp = None THEN payload
                   ELSE [payload EXCEPT ![i.resp.slot] = slots[i.resp.slot].region \in Fault]
    BY QueueStepForm
  <2> DEFINE v == slots[i.resp.slot].region \in Fault
  <2>2. v \in BOOLEAN
    OBVIOUS
  <2> HIDE DEF v
  <2>3. CASE i.resp = None
    BY <1>1, <2>1, <2>3
  <2>4. CASE i.resp # None
    <3>1. payload' = [payload EXCEPT ![i.resp.slot] = v]
      BY <2>1, <2>4 DEF v
    <3>2. DOMAIN payload' = DOMAIN payload
      BY <3>1
    <3>3. payload'[s] = IF i.resp.slot = s THEN v ELSE payload[s]
      BY <1>1, <3>1
    <3>4. slots[s].state = "ready" => i.resp.slot # s
      BY <1>3, <2>4
    <3>5. QED
      BY <1>1, <2>2, <3>2, <3>3, <3>4
  <2>5. QED
    BY <2>3, <2>4
<1>12. QED
  BY <1>2, <1>7, <1>8, <1>10, <1>11

-----------------------------------------------------------------------------
(* Places after a cycle: the kept entries move down by the freed one, and  *)
(* the new one has a new id.                                               *)
LEMMA EntryNext ==
  ASSUME QueueForm, NEW i \in Inputs, NEW a, Cuts(a), Sensible(i, a),
         NEW r, NEW g, FtqStep(i, a, r, g)
  PROVE  /\ \A k \in DOMAIN ftq : k <= Keep(a) /\ Freed(i) < k =>
              k - Freed(i) \in DOMAIN ftq' /\ ftq'[k - Freed(i)] = Told(i, a, r, g, k)
         /\ \A k \in DOMAIN ftq' :
              \/ /\ k + Freed(i) \in DOMAIN ftq /\ k + Freed(i) <= Keep(a)
                 /\ ftq'[k] = Told(i, a, r, g, k + Freed(i))
              \/ AllocFire(a) /\ k = Keep(a) - Freed(i) + 1 /\ ftq'[k] = NewEntry(i.fast)
         /\ \A p \in DOMAIN ftq : \A j \in DOMAIN ftq' :
              ftq'[j].id = ftq[p].id => p = j + Freed(i)
         /\ Len(ftq') \in Nat /\ DOMAIN ftq' = 1 .. Len(ftq')
<1> DEFINE f == Freed(i)
<1> DEFINE m == Keep(a)
<1>1. /\ IsSequence(ftq') /\ Len(ftq') = m - f + Grown(a)
      /\ \A k \in 1 .. m - f : k + f \in DOMAIN ftq /\ ftq'[k] = Told(i, a, r, g, k + f)
      /\ AllocFire(a) => ftq'[m - f + 1] = NewEntry(i.fast)
  BY FtqNext
<1>2. /\ m \in Nat /\ m <= Len(ftq) /\ f \in {0, 1} /\ f <= m /\ Grown(a) \in {0, 1}
      /\ AllocFire(a) => m = Len(ftq) /\ Len(ftq) < FtqDepth
  BY Kept
<1>3. /\ DOMAIN ftq = 1 .. Len(ftq) /\ Len(ftq) \in Nat /\ FtqDepth \in Nat \ {0}
      /\ ftqHead \in 0 .. FtqDepth - 1
  BY Placed
<1>4. DOMAIN ftq' = 1 .. Len(ftq') /\ Len(ftq') \in Nat
  BY <1>1, SequenceIs
<1> HIDE DEF f, m
<1>5. ASSUME NEW k \in DOMAIN ftq, k <= m, f < k
      PROVE  k - f \in DOMAIN ftq' /\ ftq'[k - f] = Told(i, a, r, g, k)
  <2>7. k \in Nat
    BY <1>3
  <2>8. m \in Nat /\ f \in Nat
    BY <1>2
  <2>3. k \in Nat /\ m \in Nat /\ f \in Nat /\ k <= m /\ f < k
    BY <2>7, <2>8, <1>5
  <2>4. k - f \in 1 .. m - f /\ (k - f) + f = k
    BY <2>3
  <2>5. m - f \in Nat /\ Len(ftq') = m - f + Grown(a) /\ Grown(a) \in Nat
    BY <1>1, <1>2
  <2>1. k - f \in 1 .. m - f /\ k - f \in DOMAIN ftq' /\ (k - f) + f = k
    BY <2>4, <2>5, <1>4
  <2>2. ftq'[k - f] = Told(i, a, r, g, (k - f) + f)
    BY <1>1, <2>1
  <2>6. QED
    BY <2>1, <2>2
<1>6. ASSUME NEW k \in DOMAIN ftq'
      PROVE  \/ k \in 1 .. m - f /\ k + f \in DOMAIN ftq /\ k + f <= m /\ ftq'[k] = Told(i, a, r, g, k + f)
             \/ AllocFire(a) /\ k = m - f + 1 /\ ftq'[k] = NewEntry(i.fast)
  <2>1. k \in 1 .. m - f \/ (AllocFire(a) /\ k = m - f + 1)
    BY <1>1, <1>2, <1>4 DEF Grown
  <2>2. k \in 1 .. m - f => k + f <= m
    BY <1>2
  <2>3. QED
    BY <2>1, <2>2, <1>1
<1>7. ASSUME NEW p \in DOMAIN ftq, AllocFire(a) PROVE NewEntry(i.fast).id # ftq[p].id
  <2>1. NewEntry(i.fast).id.idx = (ftqHead + Len(ftq)) % FtqDepth
    BY DEF NewEntry
  <2>2. ftq[p].id = IdAt(ftqHead, gen, p)
    BY DEF QueueForm
  <2>3. p - 1 \in Nat /\ Len(ftq) \in 0 .. FtqDepth - 1 /\ p - 1 < Len(ftq)
    BY <1>2, <1>3, <1>7
  <2>4. (ftqHead + (p - 1)) % FtqDepth # (ftqHead + Len(ftq)) % FtqDepth
    BY <2>3, <1>3, RingDistinct
  <2>5. ftq[p].id.idx = (ftqHead + (p - 1)) % FtqDepth
    BY <2>2 DEF IdAt, RingAt
  <2>6. QED
    BY <2>1, <2>4, <2>5
<1>8. ASSUME NEW p \in DOMAIN ftq, NEW j \in DOMAIN ftq', ftq'[j].id = ftq[p].id
      PROVE  p = j + f
  <2>1. ~(ftq'[j] = NewEntry(i.fast) /\ AllocFire(a))
    BY <1>7, <1>8
  <2>2. j + f \in DOMAIN ftq /\ ftq'[j] = Told(i, a, r, g, j + f)
    BY <2>1, <1>6
  <2>3. DOMAIN ftq[j + f] = EntryFields
    BY <2>2 DEF QueueForm
  <2>4. ftq'[j].id = ftq[j + f].id
    BY <2>2, <2>3, EntryUpdate
  <2>5. QED
    BY <2>2, <2>4, <1>8, LiveOne
<1>9. QED
  BY <1>4, <1>5, <1>6, <1>8 DEF f, m

-----------------------------------------------------------------------------
(* The return queue's order.                                               *)

(* The order with the cycle's request behind it.                           *)
QueuedForm(d, r) ==
  LET q == Queued(r)
  IN /\ IsSequence(q) /\ d + Len(q) <= Len(ftq)
     /\ \A n \in DOMAIN q : /\ q[n] \in DOMAIN slots /\ Owner(r, q[n]) = ftq[d + n].id
                            /\ (IF Taken(r, q[n]) THEN ftq[r.k].region ELSE slots[q[n]].region)
                                 = ftq[d + n].region
                            /\ Live(slots[q[n]].state) \/ Taken(r, q[n])
     /\ \A n \in DOMAIN order : n \in DOMAIN q /\ q[n] = order[n] /\ ~Taken(r, order[n])
     /\ \A s \in DOMAIN slots :
          Live(slots[s].state) \/ Taken(r, s) => \E n \in DOMAIN q : q[n] = s
     /\ \A k \in DOMAIN ftq : ftq[k].issued \/ (r # None /\ r.k = k) <=> k <= d + Len(q)

(* The order with the reservation of the cycle behind it: as OrderForm has it,*)
(* one entry further when there is one.                                    *)
LEMMA QueuedNext ==
  ASSUME QueueForm, SlotsForm, Owned, NEW d \in 0 .. Len(ftq), OrderForm(d), NEW i, NEW a
  PROVE  QueuedForm(d, Reserve(i, a))
<1> DEFINE r == Reserve(i, a)
<1> DEFINE q == Queued(r)
<1>1. Len(ftq) \in Nat /\ DOMAIN ftq = 1 .. Len(ftq) /\ d \in Nat
  BY Placed
<1>2. /\ IsSequence(order) /\ d + Len(order) <= Len(ftq)
      /\ \A k \in DOMAIN ftq : ftq[k].issued <=> k <= d + Len(order)
      /\ \A n \in DOMAIN order : /\ order[n] \in DOMAIN slots
                                 /\ slots[order[n]].id = ftq[d + n].id
                                 /\ slots[order[n]].region = ftq[d + n].region
  BY DEF OrderForm
<1>3. Len(order) \in Nat /\ DOMAIN order = 1 .. Len(order)
  BY <1>2, SequenceIs
<1>4. \A s \in DOMAIN slots : Live(slots[s].state) <=> \E n \in DOMAIN order : order[n] = s
  BY DEF Owned, Ordered, Live
<1>5. r # None => /\ r.slot \in DOMAIN slots /\ slots[r.slot].state = "free"
                  /\ r.k = d + Len(order) + 1 /\ r.k \in DOMAIN ftq
  BY ReserveForm
<1> HIDE DEF r
<1>6. CASE r = None
  <2>1. q = order /\ \A s : ~Taken(r, s) /\ Owner(r, s) = slots[s].id
    BY <1>6 DEF Queued, Taken, Owner
  <2> HIDE DEF q
  <2>2. QED
    BY <1>2, <1>4, <1>6, <2>1 DEF QueuedForm, q, r
<1>7. CASE r # None
  <2> DEFINE L == Len(order)
  <2>1. q = order \o <<r.slot>>
    <3> DEFINE x == r.slot
    <3> DEFINE S == {order[k] : k \in DOMAIN order} \cup {x}
    <3>1. order \in Seq(S) /\ x \in S
      <4>1. order \in Seq({order[k] : k \in DOMAIN order})
        BY <1>2 DEF IsSequence
      <4>2. QED
        BY <4>1
    <3>2. q = Append(order, x)
      BY <1>7 DEF Queued
    <3> HIDE DEF x, S, q
    <3>3. Append(order, x) = order \o <<x>>
      BY <3>1
    <3>4. QED
      BY <3>2, <3>3 DEF x
  <2> HIDE DEF q
  <2>2. /\ IsSequence(q) /\ Len(q) = L + 1
        /\ \A k \in 1 .. L : q[k] = order[k]
        /\ q[L + 1] = r.slot
    BY <2>1, <1>2, SequenceAppend
  <2>3. DOMAIN q = 1 .. L + 1
    BY <2>2, SequenceIs
  <2>4. \A n \in DOMAIN order : ~Taken(r, order[n])
    BY <1>4, <1>5, <1>2 DEF Taken, Live
  <2>5. Taken(r, r.slot) /\ \A s : Taken(r, s) => s = r.slot
    BY <1>7 DEF Taken
  <2>6. ASSUME NEW n \in DOMAIN q
        PROVE  /\ q[n] \in DOMAIN slots /\ Owner(r, q[n]) = ftq[d + n].id
               /\ (IF Taken(r, q[n]) THEN ftq[r.k].region ELSE slots[q[n]].region) = ftq[d + n].region
               /\ Live(slots[q[n]].state) \/ Taken(r, q[n])
    <3>1. CASE n \in DOMAIN order
      <4>1. q[n] = order[n] /\ ~Taken(r, q[n])
        BY <3>1, <1>3, <2>2, <2>4
      <4>2. QED
        BY <4>1, <3>1, <1>2, <1>4 DEF Owner
    <3>2. CASE n = L + 1
      <4>1. q[n] = r.slot /\ d + n = r.k /\ Taken(r, q[n])
        BY <3>2, <1>1, <1>3, <1>5, <1>7, <2>2, <2>5
      <4>2. QED
        BY <4>1, <1>5, <1>7 DEF Owner
    <3>3. QED
      BY <3>1, <3>2, <2>3, <1>3
  <2>7. \A n \in DOMAIN order : n \in DOMAIN q /\ q[n] = order[n]
    BY <1>3, <2>2, <2>3
  <2>8. ASSUME NEW s \in DOMAIN slots, Live(slots[s].state) \/ Taken(r, s)
        PROVE  \E n \in DOMAIN q : q[n] = s
    <3>1. CASE Live(slots[s].state)
      BY <3>1, <1>4, <2>7
    <3>2. CASE Taken(r, s)
      <4>1. L + 1 \in DOMAIN q /\ q[L + 1] = s
        BY <3>2, <1>3, <2>2, <2>3, <2>5
      <4>2. QED
        BY <4>1
    <3>3. QED
      BY <3>1, <3>2, <2>8
  <2>9. \A k \in DOMAIN ftq : ftq[k].issued \/ r.k = k <=> k <= d + (L + 1)
    <3>1. SUFFICES ASSUME NEW k \in DOMAIN ftq PROVE ftq[k].issued \/ r.k = k <=> k <= d + (L + 1)
      OBVIOUS
    <3>2. k \in Nat /\ (ftq[k].issued <=> k <= d + L) /\ r.k = d + L + 1 /\ d \in Nat /\ L \in Nat
      BY <1>1, <1>2, <1>3, <1>5, <1>7
    <3> HIDE DEF L
    <3>3. QED
      BY <3>2
  <2>10. d + (L + 1) <= Len(ftq)
    BY <1>1, <1>3, <1>5, <1>7
  <2>11. QED
    BY <1>7, <2>2, <2>4, <2>6, <2>7, <2>8, <2>9, <2>10 DEF QueuedForm, q, r
<1>8. QED
  BY <1>6, <1>7

(* How many of them a redirect leaves, and whether the first is taken.     *)
Kept0(a, d) == IF d <= Keep(a) THEN d ELSE Keep(a)
Cut(a, d, r) == IF Keep(a) <= d THEN 0
                ELSE IF Keep(a) - d <= Len(Queued(r)) THEN Keep(a) - d ELSE Len(Queued(r))
Pushed(i, a) == IF FirePush(i, a) THEN 1 ELSE 0

(* What a redirect leaves of the order is a prefix: the entries up to      *)
(* Keep(a), less the d the queue has already handed on.                    *)
LEMMA CutForm ==
  ASSUME QueueForm, NEW d \in 0 .. Len(ftq), NEW r, QueuedForm(d, r), NEW a, Cuts(a)
  PROVE  /\ Cut(a, d, r) \in Nat /\ Cut(a, d, r) <= Len(Queued(r)) /\ Len(Queued(r)) \in Nat
         /\ Kept0(a, d) \in Nat /\ Kept0(a, d) <= d
         /\ Kept0(a, d) + Cut(a, d, r) <= Keep(a)
         /\ \A n \in DOMAIN Queued(r) : n <= Cut(a, d, r) <=> d + n <= Keep(a)
         /\ Cut(a, d, r) # 0 => Kept0(a, d) = d
         /\ a = None => Cut(a, d, r) = Len(Queued(r)) /\ Kept0(a, d) = d
         /\ \A k \in DOMAIN ftq : k <= Keep(a) =>
              (k <= d + Len(Queued(r)) <=> k <= Kept0(a, d) + Cut(a, d, r))
         /\ \A k \in DOMAIN ftq : k <= Keep(a) => (k <= d <=> k <= Kept0(a, d))
<1> DEFINE N == Len(Queued(r))
<1> DEFINE m == Keep(a)
<1>1. d \in Nat /\ Len(ftq) \in Nat /\ DOMAIN ftq = 1 .. Len(ftq)
  BY Placed
<1>2. m \in 0 .. Len(ftq) /\ (a = None => m = Len(ftq))
  BY CutAt
<1>3. N \in Nat /\ DOMAIN Queued(r) = 1 .. N /\ d + N <= Len(ftq)
  BY SequenceIs DEF QueuedForm
<1> DEFINE l == IF m <= d THEN 0 ELSE IF m - d <= N THEN m - d ELSE N
<1> DEFINE c == IF d <= m THEN d ELSE m
<1>4. l = Cut(a, d, r) /\ c = Kept0(a, d)
  BY DEF Cut, Kept0
<1> HIDE DEF N, m
<1>5. m \in Nat /\ m <= Len(ftq)
  <2>1. m \in 0 .. Len(ftq) /\ Len(ftq) \in Nat
    BY <1>1, <1>2, Zenon
  <2>2. QED
    BY <2>1
<1>6. l \in Nat /\ l <= N /\ c \in Nat /\ c <= d /\ c + l <= m
  BY <1>1, <1>3, <1>5
<1>7. \A n \in Nat \ {0} : n <= N => (n <= l <=> d + n <= m)
  BY <1>1, <1>3, <1>5
<1>8. l # 0 => c = d
  BY <1>1, <1>3, <1>5
<1>9. a = None => l = N /\ c = d
  BY <1>1, <1>2, <1>3, <1>5
<1>10. \A k \in Nat \ {0} : k <= m => ((k <= d + N <=> k <= c + l) /\ (k <= d <=> k <= c))
  BY <1>1, <1>3, <1>5
<1> HIDE DEF l, c
<1>11. \A n \in DOMAIN Queued(r) : n \in Nat \ {0} /\ n <= N
  BY <1>3
<1>12. \A k \in DOMAIN ftq : k \in Nat \ {0}
  BY <1>1
<1>13. QED
  BY <1>3, <1>4, <1>6, <1>7, <1>8, <1>9, <1>10, <1>11, <1>12 DEF N, m

(* The order after a cycle.                                                *)
LEMMA OrderNext ==
  ASSUME QueueForm, NEW d \in 0 .. Len(ftq), OrderForm(d), OutForm(d), NEW i, NEW a, Cuts(a),
         NEW r, QueuedForm(d, r), QueueStep(i, a, r, FirePush(i, a))
  PROVE  /\ IsSequence(order') /\ Len(order') = Cut(a, d, r) - Pushed(i, a)
         /\ DOMAIN order' = 1 .. Cut(a, d, r) - Pushed(i, a)
         /\ \A n \in DOMAIN order' : /\ n + Pushed(i, a) \in DOMAIN Queued(r)
                                     /\ n + Pushed(i, a) <= Cut(a, d, r)
                                     /\ order'[n] = Queued(r)[n + Pushed(i, a)]
         /\ Pushed(i, a) \in {0, 1} /\ Pushed(i, a) <= Cut(a, d, r)
         /\ FirePush(i, a) => a = None /\ out # None
<1> DEFINE q == Queued(r)
<1> DEFINE l == Cut(a, d, r)
<1>1. /\ l \in Nat /\ l <= Len(q) /\ Len(q) \in Nat
      /\ \A n \in DOMAIN q : n <= l <=> d + n <= Keep(a)
      /\ a = None => l = Len(q)
  BY CutForm
<1>2. /\ IsSequence(q) /\ DOMAIN q = 1 .. Len(q)
      /\ \A n \in DOMAIN q : Owner(r, q[n]) = ftq[d + n].id
      /\ d + Len(q) <= Len(ftq)
      /\ \A n \in DOMAIN order : n \in DOMAIN q /\ q[n] = order[n]
  BY SequenceIs DEF QueuedForm
<1>3. order' = IF FirePush(i, a) THEN Tail(q) ELSE SubSeq(q, 1, Cardinality(Alive(a, r)))
  BY QueueStepForm
<1>4. Alive(a, r) = {n \in DOMAIN q : ~KilledBy(a, Owner(r, q[n]), 0)}
  BY DEF Alive
<1> HIDE DEF q, l
<1>10. Len(q) \in Nat /\ DOMAIN q = 1 .. Len(q) /\ l \in Nat /\ l <= Len(q)
  BY <1>1, <1>2, Zenon
<1>11. \A n \in DOMAIN q : n <= l <=> d + n <= Keep(a)
  BY <1>1
<1>12. \A n \in DOMAIN q : Owner(r, q[n]) = ftq[d + n].id
  BY <1>2
<1>5. Alive(a, r) = 1 .. l
  <2>1. ASSUME NEW n \in DOMAIN q PROVE ~KilledBy(a, Owner(r, q[n]), 0) <=> n <= l
    <3>1. d + n \in DOMAIN ftq /\ Keep(a) \in Int /\ d + n \in Int
      <4>1. Len(ftq) \in Nat /\ DOMAIN ftq = 1 .. Len(ftq) /\ d \in Nat /\ Keep(a) \in 0 .. Len(ftq)
        BY Placed, CutAt
      <4>2. n \in Nat \ {0} /\ n <= Len(q)
        BY <1>10
      <4>3. d + Len(q) <= Len(ftq) /\ d \in Nat /\ Len(ftq) \in Nat /\ Len(q) \in Nat
        BY <1>2, <1>10, <4>1
      <4>4. d + n \in 1 .. Len(ftq) /\ d + n \in Int
        BY <4>2, <4>3
      <4>5. Keep(a) \in Int
        BY <4>1
      <4>6. QED
        BY <4>1, <4>4, <4>5
    <3>2. KilledBy(a, ftq[d + n].id, 0) <=> d + n > Keep(a)
      BY <3>1, CutAt
    <3>3. Owner(r, q[n]) = ftq[d + n].id /\ (n <= l <=> d + n <= Keep(a))
      BY <1>11, <1>12
    <3>4. QED
      BY <3>1, <3>2, <3>3
  <2>2. \A n \in 1 .. l : n \in DOMAIN q
    BY <1>10
  <2>3. \A n \in DOMAIN q : n <= l => n \in 1 .. l
    BY <1>10
  <2>4. \A n \in 1 .. l : n <= l
    BY <1>10
  <2>5. \A n : n \in Alive(a, r) <=> n \in 1 .. l
    BY <1>4, <2>1, <2>2, <2>3, <2>4
  <2>6. QED
    BY <2>5
<1>6. Cardinality(Alive(a, r)) = l
  <2>1. 1 \in Int /\ l \in Int
    BY <1>1
  <2>2. Cardinality(1 .. l) = IF 1 > l THEN 0 ELSE l - 1 + 1
    BY <2>1, FS_Interval
  <2>3. QED
    BY <1>1, <1>5, <2>2
<1>7. CASE ~FirePush(i, a)
  <2>1. order' = SubSeq(q, 1, l)
    BY <1>3, <1>6, <1>7
  <2>2. q \in Seq({q[k] : k \in DOMAIN q})
    BY <1>2 DEF IsSequence
  <2>3. SubSeq(q, 1, l) = [n \in 1 .. l |-> q[n]]
    BY <1>1, <2>2
  <2>4. order' = [n \in 1 .. l |-> order'[n]] /\ DOMAIN order' = 1 .. l
        /\ \A n \in 1 .. l : order'[n] = q[n]
    BY <2>1, <2>3
  <2>5. IsSequence(order') /\ Len(order') = l
    BY <2>4, <1>1, SequenceForm
  <2>6. Pushed(i, a) = 0
    BY <1>7 DEF Pushed
  <2>7. l - 0 = l /\ \A n \in 1 .. l : n + 0 = n /\ n + 0 <= l /\ n \in DOMAIN q
    BY <1>10
  <2>8. QED
    BY <2>4, <2>5, <2>6, <2>7, <1>1, <1>7 DEF q, l
<1>8. CASE FirePush(i, a)
  <2>1. a = None /\ out # None
    BY <1>8 DEF FirePush, DeqValid
  <2>2. Len(order) > 0 /\ Len(order) \in Nat /\ DOMAIN order = 1 .. Len(order)
    BY <2>1, SequenceIs DEF OutForm, OrderForm
  <2>3. 1 \in DOMAIN order
    BY <2>2
  <2>10. 1 \in DOMAIN q
    BY <2>3, <1>2
  <2>4. Len(q) > 0
    BY <2>10, <1>10
  <2>5. order' = Tail(q)
    BY <1>3, <1>8
  <2>6. /\ IsSequence(order') /\ Len(order') = Len(q) - 1 /\ DOMAIN order' = 1 .. Len(q) - 1
        /\ \A k \in 1 .. Len(q) - 1 : order'[k] = q[k + 1]
    BY <2>4, <2>5, <1>2, SequenceRest
  <2>7. Pushed(i, a) = 1 /\ l = Len(q)
    BY <1>8, <2>1, <1>1 DEF Pushed
  <2>8. \A n \in 1 .. Len(q) - 1 : n + 1 \in DOMAIN q /\ n + 1 <= Len(q)
    BY <1>10
  <2>9. QED
    BY <2>1, <2>4, <2>6, <2>7, <2>8, <1>1, <1>8 DEF q, l
<1>9. QED
  BY <1>7, <1>8

-----------------------------------------------------------------------------
(* A cycle keeps the invariant, d being the place behind the last entry    *)
(* handed to F0.                                                           *)

PlacesHold(d) ==
  /\ QueueForm /\ SlotsForm /\ Owned /\ GotForm /\ PdForm
  /\ d \in 0 .. Len(ftq) /\ OrderForm(d) /\ OutForm(d) /\ BeatsForm(d) /\ DoneForm(d)

Cycle(i, a) == i \in Inputs /\ Cuts(a) /\ Sensible(i, a) /\ Tick(i, a)

(* The place after the cycle.                                              *)
PlaceNext(i, a, d) == Kept0(a, d) + Pushed(i, a) - Freed(i)

(* An entry that leaves is delivered, with every beat of it.               *)
LEMMA RetireForm ==
  ASSUME NEW d, PlacesHold(d), NEW i, NEW a, Cycle(i, a)
  PROVE  /\ Freed(i) \in {0, 1} /\ (Freed(i) = 1 => d >= 1 /\ a = None)
         /\ \A n \in DOMAIN beats : \A k \in DOMAIN ftq : beats[n].id = ftq[k].id => Freed(i) < k
         /\ Freed(i) = 1 => ftq[1].id \notin Updated(i)
         /\ i.retire <=> Freed(i) = 1
<1>1. QueueForm /\ DoneForm(d) /\ d \in 0 .. Len(ftq) /\ i \in Inputs /\ Cuts(a) /\ Sensible(i, a)
  BY DEF PlacesHold, Cycle
<1>2. DOMAIN ftq = 1 .. Len(ftq) /\ Len(ftq) \in Nat /\ d \in Nat
  BY <1>1, Placed
<1>3. /\ Freed(i) \in {0, 1} /\ (i.retire <=> Freed(i) = 1)
      /\ i.retire => a = None /\ ftq[1].id \notin Updated(i)
  BY <1>1, Kept
<1>4. \A k \in DOMAIN ftq : k \in Nat /\ 0 < k
  BY <1>2
<1>5. CASE Freed(i) = 0
  BY <1>3, <1>4, <1>5
<1>6. CASE Freed(i) = 1
  <2>1. Retirable
    <3>1. i.retire \in Retires
      BY <1>1, InputForm
    <3>2. QED
      BY <3>1, <1>3, <1>6 DEF Retires
  <2>2. PICK k \in DOMAIN ftq : ftq[k].done = CommitDelay
    BY <2>1 DEF Retirable
  <2>3. ftq[k].done # 0
    BY <2>2, FetchSizes
  <2>4. k <= d /\ \A n \in DOMAIN beats : \A j \in DOMAIN ftq : beats[n].id = ftq[j].id => k < j
    BY <2>3, <1>1 DEF DoneForm
  <2>5. d >= 1
    BY <2>4, <1>2, <1>4
  <2>6. ASSUME NEW n \in DOMAIN beats, NEW j \in DOMAIN ftq, beats[n].id = ftq[j].id
        PROVE  1 < j
    <3>1. k < j
      BY <2>4, <2>6
    <3>2. QED
      BY <3>1, <1>4
  <2>7. QED
    BY <2>5, <2>6, <1>3, <1>6
<1>7. QED
  BY <1>3, <1>5, <1>6

(* The pieces of the cycle.                                                *)
LEMMA CycleForm ==
  ASSUME NEW d, PlacesHold(d), NEW i, NEW a, Cycle(i, a)
  PROVE  LET r == Reserve(i, a) IN
         /\ QueuedForm(d, r)
         /\ QueueStep(i, a, r, FirePush(i, a))
         /\ BeatStep(a, Beat(i, a), Lanes(i, a), FirePush(i, a), FirePop(i, a))
         /\ FtqStep(i, a, r, Given(i, a)) /\ cycle' = QueueInputs(i, a, r)
         /\ r # None => /\ a = None /\ r.slot \in DOMAIN slots /\ slots[r.slot].state = "free"
                        /\ r.k = d + Len(order) + 1 /\ r.k \in DOMAIN ftq
         /\ QueueForm'
<1> DEFINE r == Reserve(i, a)
<1>1. /\ QueueForm /\ SlotsForm /\ Owned /\ OrderForm(d) /\ d \in 0 .. Len(ftq)
      /\ i \in Inputs /\ Cuts(a) /\ Sensible(i, a) /\ Tick(i, a)
  BY DEF PlacesHold, Cycle
<1>2. QueuedForm(d, r)
  BY <1>1, QueuedNext
<1>3. /\ QueueStep(i, a, r, FirePush(i, a))
      /\ BeatStep(a, Beat(i, a), Lanes(i, a), FirePush(i, a), FirePop(i, a))
      /\ FtqStep(i, a, r, Given(i, a)) /\ cycle' = QueueInputs(i, a, r)
  BY <1>1, TickForm
<1>4. r # None => /\ a = None /\ r.slot \in DOMAIN slots /\ slots[r.slot].state = "free"
                  /\ r.k = d + Len(order) + 1 /\ r.k \in DOMAIN ftq
  BY <1>1, ReserveForm
<1>5. QueueForm'
  BY <1>1, <1>3, QueueFormStep
<1>6. QED
  BY <1>2, <1>3, <1>4, <1>5

(* The slots after a cycle; the order's are the live ones.                 *)
LEMMA SlotsStep ==
  ASSUME NEW d, PlacesHold(d), NEW i, NEW a, Cycle(i, a)
  PROVE  SlotsForm' /\ Owned'
<1> DEFINE r == Reserve(i, a)
<1> DEFINE q == Queued(r)
<1> DEFINE e == Pushed(i, a)
<1> DEFINE l == Cut(a, d, r)
<1>1. /\ QueueForm /\ SlotsForm /\ Owned /\ OrderForm(d) /\ OutForm(d) /\ d \in 0 .. Len(ftq)
      /\ i \in Inputs /\ Cuts(a) /\ Sensible(i, a)
  BY DEF PlacesHold, Cycle
<1>2. /\ QueuedForm(d, r) /\ QueueStep(i, a, r, FirePush(i, a))
      /\ r # None => a = None /\ r.slot \in DOMAIN slots /\ slots[r.slot].state = "free"
  BY CycleForm
<1> HIDE DEF r
<1>3. \A s \in DOMAIN slots :
        /\ DOMAIN slots' = DOMAIN slots /\ DOMAIN slots'[s] = SlotFields
        /\ slots'[s].state \in {"free", "pend", "ready", "zombie"}
        /\ Live(slots'[s].state) <=>
              /\ Live(slots[s].state) \/ Taken(r, s)
              /\ ~(FirePush(i, a) /\ s = order[1]) /\ ~KilledBy(a, Owner(r, s), 0)
        /\ DOMAIN payload' = DOMAIN payload /\ payload'[s] \in BOOLEAN
  BY <1>1, <1>2, SlotNext
<1>4. DOMAIN slots = 0 .. RqDepth - 1 /\ DOMAIN payload = 0 .. RqDepth - 1 /\ 0 \in DOMAIN slots
  BY <1>1, FetchSizes DEF SlotsForm
<1>5. SlotsForm'
  BY <1>3, <1>4 DEF SlotsForm
<1>6. /\ DOMAIN order' = 1 .. l - e /\ e \in {0, 1} /\ e <= l
      /\ \A n \in DOMAIN order' : n + e \in DOMAIN q /\ n + e <= l /\ order'[n] = q[n + e]
      /\ FirePush(i, a) => a = None /\ out # None
  BY <1>1, <1>2, OrderNext
<1>7. /\ l \in Nat /\ Len(q) \in Nat /\ l <= Len(q)
      /\ \A n \in DOMAIN q : n <= l <=> d + n <= Keep(a)
  BY <1>1, <1>2, CutForm
<1>8. /\ IsSequence(q) /\ d + Len(q) <= Len(ftq)
      /\ \A n \in DOMAIN q : q[n] \in DOMAIN slots /\ Owner(r, q[n]) = ftq[d + n].id
                             /\ (Live(slots[q[n]].state) \/ Taken(r, q[n]))
      /\ \A n \in DOMAIN order : n \in DOMAIN q /\ q[n] = order[n]
      /\ \A s \in DOMAIN slots :
           Live(slots[s].state) \/ Taken(r, s) => \E n \in DOMAIN q : q[n] = s
  BY <1>2 DEF QueuedForm
<1>9. DOMAIN q = 1 .. Len(q)
  BY <1>8, SequenceIs
<1>10. FirePush(i, a) => 1 \in DOMAIN q /\ q[1] = order[1]
  <2>1. FirePush(i, a) => Len(order) > 0
    BY <1>1, <1>6 DEF OutForm
  <2>2. DOMAIN order = 1 .. Len(order) /\ Len(order) \in Nat
    BY <1>1, SequenceIs DEF OrderForm
  <2>3. FirePush(i, a) => 1 \in DOMAIN order
    BY <2>1, <2>2
  <2>4. QED
    BY <2>3, <1>8
<1> HIDE DEF q, e, l
<1>16. Len(ftq) \in Nat /\ DOMAIN ftq = 1 .. Len(ftq) /\ d \in Nat /\ Len(q) \in Nat /\ DOMAIN q = 1 .. Len(q)
       /\ d + Len(q) <= Len(ftq)
  <2>1. Len(ftq) \in Nat /\ DOMAIN ftq = 1 .. Len(ftq)
    BY <1>1, Placed
  <2>2. d \in Nat
    BY <1>1, <2>1
  <2>3. QED
    BY <2>1, <2>2, <1>7, <1>8, <1>9, Zenon
<1>11. \A n \in DOMAIN q : d + n \in DOMAIN ftq /\ n \in Nat /\ n >= 1
  <2>1. d \in Nat
    BY <1>1, Placed
  <2>2. QED
    BY <1>16, <2>1
<1>12. ASSUME NEW m \in DOMAIN q, NEW n \in DOMAIN q, q[m] = q[n] PROVE m = n
  <2>1. ftq[d + m].id = ftq[d + n].id
    BY <1>8, <1>12
  <2>2. d + m = d + n
    BY <2>1, <1>1, <1>11, LiveOne
  <2>3. d \in Nat
    BY <1>16
  <2>4. QED
    BY <2>2, <2>3, <1>11
<1>13. ASSUME NEW n \in DOMAIN q
       PROVE  ~KilledBy(a, Owner(r, q[n]), 0) <=> n <= l
  <2>1. d + n \in DOMAIN ftq /\ Owner(r, q[n]) = ftq[d + n].id
    BY <1>8, <1>11
  <2>2. KilledBy(a, ftq[d + n].id, 0) <=> d + n > Keep(a)
    BY <2>1, <1>1, CutAt
  <2>3. Keep(a) \in Int /\ d + n \in Int
    <3>1. Keep(a) \in 0 .. Len(ftq)
      BY <1>1, CutAt
    <3>2. QED
      BY <3>1, <2>1, <1>16
  <2>4. QED
    BY <2>1, <2>2, <2>3, <1>7
<1>14. \A s \in DOMAIN slots : (\E n \in DOMAIN order' : order'[n] = s) <=> Live(slots'[s].state)
  <2>1. SUFFICES ASSUME NEW s \in DOMAIN slots
                 PROVE  (\E n \in DOMAIN order' : order'[n] = s) <=> Live(slots'[s].state)
    OBVIOUS
  <2>2. ASSUME NEW n \in DOMAIN order', order'[n] = s PROVE Live(slots'[s].state)
    <3> DEFINE p == n + e
    <3>1. p \in DOMAIN q /\ p <= l /\ q[p] = s /\ n >= 1 /\ n \in Nat
      BY <2>2, <1>6, <1>7
    <3>2. FirePush(i, a) => p # 1
      BY <3>1 DEF e, Pushed
    <3> HIDE DEF p
    <3>3. ~(FirePush(i, a) /\ s = order[1])
      BY <3>1, <3>2, <1>10, <1>12
    <3>4. (Live(slots[s].state) \/ Taken(r, s)) /\ ~KilledBy(a, Owner(r, s), 0)
      BY <3>1, <1>8, <1>13
    <3>5. QED
      BY <3>3, <3>4, <1>3
  <2>3. ASSUME Live(slots'[s].state) PROVE \E n \in DOMAIN order' : order'[n] = s
    <3>1. /\ Live(slots[s].state) \/ Taken(r, s)
          /\ ~(FirePush(i, a) /\ s = order[1]) /\ ~KilledBy(a, Owner(r, s), 0)
      BY <2>3, <1>3
    <3>2. PICK p \in DOMAIN q : q[p] = s
      BY <3>1, <1>8
    <3>3. p <= l /\ p \in Nat /\ p >= 1
      BY <3>1, <3>2, <1>13, <1>11
    <3>4. FirePush(i, a) => p # 1
      BY <3>1, <3>2, <1>10
    <3>5. p - e \in 1 .. l - e /\ (p - e) + e = p
      BY <3>3, <3>4, <1>6, <1>7 DEF e, Pushed
    <3>6. p - e \in DOMAIN order' /\ order'[p - e] = s
      BY <3>2, <3>5, <1>6
    <3>7. QED
      BY <3>6
  <2>4. QED
    BY <2>2, <2>3
<1>15. Owned'
  <2>1. DOMAIN slots' = DOMAIN slots
    BY <1>3, <1>4
  <2>2. \A s : s \in Ordered' <=> \E n \in DOMAIN order' : order'[n] = s
    BY DEF Ordered
  <2>3. \A s \in DOMAIN slots : s \in Ordered' <=> slots'[s].state \in {"pend", "ready"}
    BY <2>2, <1>14 DEF Live
  <2>4. QED
    BY <2>1, <2>3 DEF Owned
<1>17. QED
  BY <1>5, <1>15

(* The numbers of a cycle.                                                 *)
LEMMA CycleSizes ==
  ASSUME NEW d, PlacesHold(d), NEW i, NEW a, Cycle(i, a), NEW c, c = PlaceNext(i, a, d)
  PROVE  LET r == Reserve(i, a)
             l == Cut(a, d, r)
         IN /\ d \in Nat /\ c \in Nat /\ c \in 0 .. Len(ftq') /\ Keep(a) \in Nat /\ l \in Nat
            /\ Freed(i) \in {0, 1} /\ Pushed(i, a) \in {0, 1} /\ Pushed(i, a) <= l
            /\ Kept0(a, d) \in Nat /\ c + Freed(i) = Kept0(a, d) + Pushed(i, a)
            /\ Kept0(a, d) + l <= Keep(a)
            /\ l # 0 => Kept0(a, d) = d
            /\ DOMAIN order' = 1 .. l - Pushed(i, a) /\ Len(order') = l - Pushed(i, a)
            /\ c + Len(order') + Freed(i) = Kept0(a, d) + l
            /\ Len(ftq') \in Nat /\ c + Len(order') <= Len(ftq')
<1> DEFINE r == Reserve(i, a)
<1> DEFINE l == Cut(a, d, r)
<1> DEFINE e == Pushed(i, a)
<1> DEFINE f == Freed(i)
<1> DEFINE z == Kept0(a, d)
<1> DEFINE m == Keep(a)
<1>1. /\ QueueForm /\ SlotsForm /\ Owned /\ OrderForm(d) /\ OutForm(d) /\ d \in 0 .. Len(ftq)
      /\ i \in Inputs /\ Cuts(a) /\ Sensible(i, a)
  BY DEF PlacesHold, Cycle
<1>2. /\ QueuedForm(d, r) /\ QueueStep(i, a, r, FirePush(i, a))
      /\ FtqStep(i, a, r, Given(i, a))
  BY CycleForm
<1> HIDE DEF r
<1>3. /\ l \in Nat /\ z \in Nat /\ z + l <= m /\ (l # 0 => z = d) /\ (a = None => z = d)
  BY <1>1, <1>2, CutForm
<1>4. /\ Len(order') = l - e /\ DOMAIN order' = 1 .. l - e /\ e \in {0, 1} /\ e <= l
  BY <1>1, <1>2, OrderNext
<1>5. f \in {0, 1} /\ (f = 1 => d >= 1 /\ a = None)
  BY RetireForm
<1>6. m \in Nat /\ f <= m /\ Grown(a) \in {0, 1}
  BY <1>1, Kept
<1>7. Len(ftq') = m - f + Grown(a)
  BY <1>1, <1>2, FtqNext
<1>8. d \in Nat
  <2>1. Len(ftq) \in Nat
    BY <1>1, Placed
  <2>2. QED
    BY <1>1, <2>1
<1>9. c = z + e - f
  BY DEF PlaceNext
<1> HIDE DEF l, e, f, z, m
<1>10. z >= f
  BY <1>3, <1>5, <1>8
<1>11. c \in Nat /\ c + f = z + e
  BY <1>3, <1>4, <1>5, <1>9, <1>10
<1> DEFINE N == Len(order')
<1>17. N = l - e /\ e <= l /\ c + f = z + e
  BY <1>4, <1>11
<1>18. l \in Nat /\ e \in Nat /\ f \in Nat /\ z \in Nat /\ c \in Nat
  <2>1. e \in Nat
    BY <1>4
  <2>2. f \in Nat
    BY <1>5
  <2>3. QED
    BY <2>1, <2>2, <1>3, <1>11, Zenon
<1> HIDE DEF N
<1>12. N \in Nat /\ c + N + f = z + l
  <2>1. N \in Nat
    BY <1>17, <1>18
  <2>2. c + N + f = (c + f) + N
    BY <2>1, <1>18
  <2>3. (z + e) + (l - e) = z + l
    BY <1>18
  <2>4. QED
    BY <2>1, <2>2, <2>3, <1>17
<1>13. Len(ftq') \in Nat /\ m - f <= Len(ftq')
  BY <1>5, <1>6, <1>7
<1>19. z + l <= m /\ m \in Nat
  BY <1>3, <1>6
<1>14. c + N <= Len(ftq')
  <2>1. c + N <= m - f
    BY <1>12, <1>18, <1>19
  <2>2. QED
    BY <2>1, <1>12, <1>13, <1>18, <1>19
<1>15. c \in 0 .. Len(ftq')
  BY <1>12, <1>13, <1>14, <1>18
<1>16. QED
  BY <1>3, <1>4, <1>5, <1>6, <1>8, <1>11, <1>12, <1>13, <1>14, <1>15 DEF r, l, e, f, z, m, N

(* The order after a cycle holds the entries behind the new place.         *)
LEMMA OrderStep ==
  ASSUME NEW d, PlacesHold(d), NEW i, NEW a, Cycle(i, a), NEW c, c = PlaceNext(i, a, d)
  PROVE  OrderForm(c)'
<1> DEFINE r == Reserve(i, a)
<1> DEFINE q == Queued(r)
<1> DEFINE g == Given(i, a)
<1> DEFINE l == Cut(a, d, r)
<1> DEFINE e == Pushed(i, a)
<1> DEFINE f == Freed(i)
<1> DEFINE z == Kept0(a, d)
<1> DEFINE m == Keep(a)
<1>1. /\ QueueForm /\ SlotsForm /\ Owned /\ OrderForm(d) /\ OutForm(d) /\ d \in 0 .. Len(ftq)
      /\ i \in Inputs /\ Cuts(a) /\ Sensible(i, a)
  BY DEF PlacesHold, Cycle
<1>2. /\ QueuedForm(d, r) /\ QueueStep(i, a, r, FirePush(i, a)) /\ FtqStep(i, a, r, g)
      /\ r # None => r.slot \in DOMAIN slots /\ slots[r.slot].state = "free"
  BY CycleForm
<1>3. /\ d \in Nat /\ c \in Nat /\ m \in Nat /\ l \in Nat /\ z \in Nat
      /\ f \in {0, 1} /\ e \in {0, 1} /\ c + f = z + e /\ z + l <= m /\ (l # 0 => z = d)
      /\ DOMAIN order' = 1 .. l - e /\ Len(order') = l - e
      /\ c + Len(order') + f = z + l /\ c + Len(order') <= Len(ftq')
  BY CycleSizes
<1> HIDE DEF r, g
<1>4. /\ \A k \in DOMAIN ftq : k <= m /\ f < k =>
           k - f \in DOMAIN ftq' /\ ftq'[k - f] = Told(i, a, r, g, k)
      /\ \A k \in DOMAIN ftq' :
           \/ k + f \in DOMAIN ftq /\ k + f <= m /\ ftq'[k] = Told(i, a, r, g, k + f)
           \/ AllocFire(a) /\ k = m - f + 1 /\ ftq'[k] = NewEntry(i.fast)
      /\ Len(ftq') \in Nat /\ DOMAIN ftq' = 1 .. Len(ftq')
  BY <1>1, <1>2, EntryNext
<1>5. \A n \in DOMAIN order' : n + e \in DOMAIN q /\ n + e <= l /\ order'[n] = q[n + e]
  BY <1>1, <1>2, OrderNext
<1>6. IsSequence(order')
  BY <1>1, <1>2, OrderNext
<1>7. /\ \A n \in DOMAIN q : /\ q[n] \in DOMAIN slots /\ Owner(r, q[n]) = ftq[d + n].id
                             /\ (IF Taken(r, q[n]) THEN ftq[r.k].region ELSE slots[q[n]].region)
                                  = ftq[d + n].region
      /\ \A k \in DOMAIN ftq : ftq[k].issued \/ (r # None /\ r.k = k) <=> k <= d + Len(q)
  BY <1>2 DEF QueuedForm
<1>8. /\ \A n \in DOMAIN q : n <= l <=> d + n <= m
      /\ \A k \in DOMAIN ftq : k <= m => (k <= d + Len(q) <=> k <= z + l)
  BY <1>1, <1>2, CutForm
<1>9. \A k \in DOMAIN ftq : DOMAIN ftq[k] = EntryFields
  BY <1>1 DEF QueueForm
<1>10. DOMAIN ftq = 1 .. Len(ftq) /\ Len(ftq) \in Nat /\ IsSequence(q) /\ d + Len(q) <= Len(ftq)
  BY <1>1, <1>2, Placed DEF QueuedForm
<1>11. DOMAIN q = 1 .. Len(q) /\ Len(q) \in Nat
  BY <1>10, SequenceIs
<1> DEFINE N == Len(order')
<1> HIDE DEF q, l, e, f, z, m, N
<1>16. /\ d \in Nat /\ c \in Nat /\ m \in Nat /\ l \in Nat /\ z \in Nat /\ f \in Nat /\ e \in Nat
       /\ c + f = z + e /\ z + l <= m
  <2>1. e \in Nat
    BY <1>3
  <2>2. f \in Nat
    BY <1>3
  <2>3. QED
    BY <2>1, <2>2, <1>3, Zenon
<1>17. N \in Nat /\ c + N + f = z + l
  BY <1>3, <1>16 DEF N
<1>12. ASSUME NEW n \in DOMAIN order'
       PROVE  /\ order'[n] \in DOMAIN slots'
              /\ slots'[order'[n]].id = ftq'[c + n].id /\ slots'[order'[n]].region = ftq'[c + n].region
  <2> DEFINE p == n + e
  <2>1. p \in DOMAIN q /\ p <= l /\ order'[n] = q[p] /\ n >= 1 /\ n \in Nat /\ p \in Nat /\ p >= 1
    BY <1>3, <1>5
  <2>2. q[p] \in DOMAIN slots /\ Owner(r, q[p]) = ftq[d + p].id
        /\ (IF Taken(r, q[p]) THEN ftq[r.k].region ELSE slots[q[p]].region) = ftq[d + p].region
    BY <2>1, <1>7
  <2>3. d + p <= m /\ z = d
    BY <2>1, <1>3, <1>8
  <2>4. f < d + p /\ (d + p) - f = c + n
    <3>1. f = 1 => d >= 1
      BY RetireForm DEF f
    <3>2. f = 1 \/ f = 0
      BY <1>3
    <3>3. n \in Nat /\ n >= 1 /\ z = d
      BY <2>1, <2>3
    <3>4. QED
      BY <3>1, <3>2, <3>3, <1>16
  <2> HIDE DEF p
  <2>5. d + p \in DOMAIN ftq
    <3>1. p \in Nat /\ p >= 1 /\ p <= Len(q)
      BY <2>1, <1>11
    <3>2. QED
      BY <3>1, <1>3, <1>10, <1>11
  <2>6. ftq'[c + n] = Told(i, a, r, g, d + p)
    BY <2>3, <2>4, <2>5, <1>4
  <2>7. ftq'[c + n].id = ftq[d + p].id /\ ftq'[c + n].region = ftq[d + p].region
    BY <2>5, <2>6, <1>9, EntryUpdate
  <2>8. /\ DOMAIN slots' = DOMAIN slots /\ slots'[q[p]].id = Owner(r, q[p])
        /\ slots'[q[p]].region = IF Taken(r, q[p]) THEN ftq[r.k].region ELSE slots[q[p]].region
    BY <2>2, <1>1, <1>2, SlotNext
  <2>9. QED
    BY <2>1, <2>2, <2>7, <2>8
<1>13. ASSUME NEW k \in DOMAIN ftq'
       PROVE  ftq'[k].issued <=> k <= c + Len(order')
  <2>1. k \in Nat
    BY <1>4
  <2>2. CASE k + f \in DOMAIN ftq /\ k + f <= m /\ ftq'[k] = Told(i, a, r, g, k + f)
    <3>1. Told(i, a, r, g, k + f).issued <=> (ftq[k + f].issued \/ (r # None /\ r.k = k + f))
      BY <2>2, <1>9, EntryUpdate
    <3>2. ftq'[k].issued <=> k + f <= z + l
      BY <2>2, <3>1, <1>7, <1>8
    <3>3. k + f <= z + l <=> k <= c + N
      BY <2>1, <1>16, <1>17
    <3>4. QED
      BY <3>2, <3>3 DEF N
  <2>3. CASE AllocFire(a) /\ k = m - f + 1 /\ ftq'[k] = NewEntry(i.fast)
    <3>1. ~NewEntry(i.fast).issued
      BY DEF NewEntry
    <3>2. ~(k <= c + N)
      BY <2>3, <1>16, <1>17
    <3>3. QED
      BY <2>3, <3>1, <3>2 DEF N
  <2>4. QED
    BY <2>2, <2>3, <1>4
<1>14. c + Len(order') <= Len(ftq')
  BY <1>3
<1>15. QED
  BY <1>6, <1>12, <1>13, <1>14 DEF OrderForm, IsSequence

(* A slow result refreshes the entry it is for.                            *)
LEMMA SlowUpdates ==
  ASSUME NEW i, NEW k, ftq[k].id \notin Updated(i)
  PROVE  ~(i.slow # None /\ i.slow.k = k)
BY DEF Updated

(* The entry on offer after a cycle, p being its place in the order: its   *)
(* answer and its prediction are as they were.                             *)
LEMMA HeadNext ==
  ASSUME NEW d, PlacesHold(d), NEW i, NEW a, Cycle(i, a), a = None,
         NEW c, c = PlaceNext(i, a, d),
         NEW p \in DOMAIN order, p = Pushed(i, a) + 1,
         slots[order[p]].state = "ready", ftq[d + p].id \notin Updated(i)
  PROVE  /\ Len(order') > 0 /\ order'[1] = order[p]
         /\ slots'[order[p]].state = "ready" /\ payload'[order[p]] = payload[order[p]]
         /\ d + p \in DOMAIN ftq
         /\ ftq'[c + 1].id = ftq[d + p].id /\ BriefOf(ftq'[c + 1]) = BriefOf(ftq[d + p])
<1> DEFINE r == Reserve(i, a)
<1> DEFINE q == Queued(r)
<1> DEFINE g == Given(i, a)
<1> DEFINE l == Cut(a, d, r)
<1> DEFINE e == Pushed(i, a)
<1> DEFINE f == Freed(i)
<1>1. /\ QueueForm /\ SlotsForm /\ Owned /\ OrderForm(d) /\ OutForm(d) /\ d \in 0 .. Len(ftq)
      /\ i \in Inputs /\ Cuts(a) /\ Sensible(i, a)
  BY DEF PlacesHold, Cycle
<1>2. /\ QueuedForm(d, r) /\ QueueStep(i, a, r, FirePush(i, a)) /\ FtqStep(i, a, r, g)
      /\ r # None => r.slot \in DOMAIN slots /\ slots[r.slot].state = "free"
  BY CycleForm
<1>3. /\ d \in Nat /\ c \in Nat /\ c + f = Kept0(a, d) + e
      /\ DOMAIN order' = 1 .. l - e /\ Len(order') = l - e
  BY CycleSizes
<1>4. l = Len(q) /\ Kept0(a, d) = d /\ l \in Nat
  BY <1>1, <1>2, CutForm
<1>5. f \in {0, 1} /\ e \in {0, 1} /\ (f = 1 => d >= 1)
  BY RetireForm DEF Pushed
<1> HIDE DEF r, g
<1>6. IsSequence(q) /\ p \in DOMAIN q /\ q[p] = order[p] /\ d + Len(q) <= Len(ftq)
  BY <1>2 DEF QueuedForm
<1>7. DOMAIN q = 1 .. Len(q)
  BY <1>6, SequenceIs
<1>8. \A n \in DOMAIN order' : order'[n] = q[n + e]
  BY <1>1, <1>2, OrderNext
<1> HIDE DEF q, l, e, f
<1>20. e \in Nat /\ f \in Nat /\ l \in Nat /\ d \in Nat /\ c \in Nat /\ p = e + 1
  <2>1. e \in Nat
    BY <1>5
  <2>2. f \in Nat
    BY <1>5
  <2>3. QED
    BY <2>1, <2>2, <1>3, <1>4, Zenon DEF e
<1>9. p <= l
  <2>1. p \in 1 .. l
    BY <1>4, <1>6, <1>7
  <2>2. QED
    BY <2>1, <1>20
<1>10. l - e \in Nat /\ l - e >= 1 /\ 1 + e = p
  BY <1>9, <1>20
<1>11. Len(order') > 0 /\ 1 \in DOMAIN order' /\ order'[1] = order[p]
  BY <1>3, <1>6, <1>8, <1>10
<1>12. order[p] \in DOMAIN slots
  BY <1>1 DEF OrderForm
<1>13. Live(slots'[order[p]].state)
  <2>1. order[p] \in Ordered'
    BY <1>11 DEF Ordered
  <2>2. SlotsForm' /\ Owned'
    BY SlotsStep
  <2>3. order[p] \in DOMAIN slots'
    BY <1>1, <1>12, <2>2 DEF SlotsForm
  <2>4. QED
    BY <2>1, <2>2, <2>3 DEF Owned, Live
<1>14. slots'[order[p]].state = "ready" /\ payload'[order[p]] = payload[order[p]]
  BY <1>1, <1>2, <1>12, <1>13, SlotNext
<1>15. d + p \in DOMAIN ftq
  <2>1. DOMAIN ftq = 1 .. Len(ftq) /\ Len(ftq) \in Nat
    BY <1>1, Placed
  <2>2. d + l <= Len(ftq)
    BY <1>4, <1>6
  <2>3. QED
    BY <2>1, <2>2, <1>9, <1>20
<1>16. f < d + p /\ (d + p) - f = c + 1
  <2>1. f = 0 \/ d >= 1
    BY <1>5
  <2>2. f <= 1
    BY <1>5
  <2>3. c + f = d + e
    BY <1>3, <1>4
  <2>4. f < d + p
    BY <2>1, <2>2, <1>20
  <2>5. QED
    BY <2>3, <2>4, <1>20
<1>17. Keep(a) = Len(ftq) /\ d + p <= Keep(a)
  <2>1. Keep(a) = Len(ftq)
    BY <1>1, Kept
  <2>2. d + p <= Len(ftq)
    BY <1>1, <1>15, Placed
  <2>3. QED
    BY <2>1, <2>2
<1>18. ftq'[c + 1] = Told(i, a, r, g, d + p)
  <2>1. \A k \in DOMAIN ftq : k <= Keep(a) /\ f < k =>
          k - f \in DOMAIN ftq' /\ ftq'[k - f] = Told(i, a, r, g, k)
    BY <1>1, <1>2, EntryNext DEF f
  <2> DEFINE k == d + p
  <2>2. k \in DOMAIN ftq /\ k <= Keep(a) /\ f < k /\ k - f = c + 1
    BY <1>15, <1>16, <1>17
  <2> HIDE DEF k
  <2>3. ftq'[c + 1] = Told(i, a, r, g, k)
    BY <2>1, <2>2
  <2>4. QED
    BY <2>3 DEF k
<1>19. /\ ftq'[c + 1].id = ftq[d + p].id /\ ftq'[c + 1].region = ftq[d + p].region
       /\ ftq'[c + 1].entry = ftq[d + p].entry /\ ftq'[c + 1].pred = ftq[d + p].pred
  <2>1. DOMAIN ftq[d + p] = EntryFields
    BY <1>1, <1>15 DEF QueueForm
  <2>2. ~(i.slow # None /\ i.slow.k = d + p)
    BY SlowUpdates
  <2> DEFINE W == Told(i, a, r, g, d + p)
  <2>3. /\ \A x \in {"id", "region", "entry"} : W[x] = ftq[d + p][x]
        /\ a = None => W.pred = IF i.slow # None /\ i.slow.k = d + p THEN i.slow.pred ELSE ftq[d + p].pred
    BY <2>1, EntryUpdate
  <2> HIDE DEF W
  <2>4. W.id = ftq[d + p].id /\ W.region = ftq[d + p].region /\ W.entry = ftq[d + p].entry
    BY <2>3
  <2>5. W.pred = ftq[d + p].pred
    BY <2>2, <2>3
  <2>6. QED
    BY <2>4, <2>5, <1>18 DEF W
<1>21. QED
  BY <1>11, <1>14, <1>15, <1>19 DEF BriefOf

(* The snapshot of a cycle, taken or kept.                                 *)
LEMMA OutStep ==
  ASSUME NEW d, PlacesHold(d), NEW i, NEW a, Cycle(i, a), NEW c, c = PlaceNext(i, a, d)
  PROVE  OutForm(c)'
<1>1. /\ QueueForm /\ OrderForm(d) /\ OutForm(d) /\ QueueStep(i, a, Reserve(i, a), FirePush(i, a))
  BY CycleForm DEF PlacesHold
<1>2. out' = IF a # None \/ (out # None /\ Refreshed(i, out.id)) THEN None
             ELSE IF (out = None \/ FirePush(i, a)) /\ SnapshotReady(i)
             THEN [id |-> slots[Snapshot].id, exc |-> payload[Snapshot],
                   brief |-> Brief(slots[Snapshot].id)]
             ELSE IF FirePush(i, a) THEN None ELSE out
  BY <1>1, QueueStepForm
<1>3. SUFFICES ASSUME out' # None
               PROVE  /\ Len(order') > 0 /\ out'.id = ftq'[c + 1].id
                      /\ out'.brief = BriefOf(ftq'[c + 1])
                      /\ out'.exc = payload'[order'[1]] /\ slots'[order'[1]].state = "ready"
  BY DEF OutForm, BriefOf
<1>4. a = None /\ ~(out # None /\ Refreshed(i, out.id))
  BY <1>2, <1>3
<1>5. DOMAIN order = 1 .. Len(order) /\ Len(order) \in Nat
  BY <1>1, SequenceIs DEF OrderForm
<1>6. \A n \in DOMAIN order : slots[order[n]].id = ftq[d + n].id
  BY <1>1 DEF OrderForm
<1>7. FirePush(i, a) => out # None
  BY DEF FirePush, DeqValid
<1>8. CASE (out = None \/ FirePush(i, a)) /\ SnapshotReady(i)
  <2> DEFINE p == Ahead
  <2>1. p = Pushed(i, a) + 1 /\ p \in {1, 2}
    BY <1>7, <1>8 DEF Ahead, Pushed
  <2>2. Len(order) >= p /\ slots[order[p]].state = "ready" /\ ~Refreshed(i, slots[order[p]].id)
    BY <1>8 DEF SnapshotReady, Snapshot
  <2> HIDE DEF p
  <2>3. p \in DOMAIN order
    BY <2>1, <2>2, <1>5
  <2>4. ftq[d + p].id \notin Updated(i)
    BY <2>2, <2>3, <1>6 DEF Refreshed
  <2>5. /\ Len(order') > 0 /\ order'[1] = order[p]
        /\ slots'[order[p]].state = "ready" /\ payload'[order[p]] = payload[order[p]]
        /\ d + p \in DOMAIN ftq
        /\ ftq'[c + 1].id = ftq[d + p].id /\ BriefOf(ftq'[c + 1]) = BriefOf(ftq[d + p])
    BY <2>1, <2>2, <2>3, <2>4, <1>4, HeadNext
  <2>6. out' = [id |-> slots[order[p]].id, exc |-> payload[order[p]], brief |-> Brief(slots[order[p]].id)]
    BY <1>2, <1>4, <1>8 DEF Snapshot, p
  <2>7. slots[order[p]].id = ftq[d + p].id
    BY <2>3, <1>6
  <2>8. Brief(ftq[d + p].id) = BriefOf(ftq[d + p])
    BY <2>5, <1>1, LiveOne DEF Brief, BriefOf
  <2>9. QED
    BY <2>5, <2>6, <2>7, <2>8
<1>9. CASE ~((out = None \/ FirePush(i, a)) /\ SnapshotReady(i))
  <2>1. out' = out /\ ~FirePush(i, a) /\ out # None
    BY <1>2, <1>3, <1>4, <1>9
  <2>2. /\ Len(order) > 0 /\ out.id = ftq[d + 1].id /\ out.brief = BriefOf(ftq[d + 1])
        /\ out.exc = payload[order[1]] /\ slots[order[1]].state = "ready"
    BY <2>1, <1>1 DEF OutForm
  <2>3. 1 \in DOMAIN order /\ 1 = Pushed(i, a) + 1
    BY <2>1, <2>2, <1>5 DEF Pushed
  <2>4. ftq[d + 1].id \notin Updated(i)
    BY <2>1, <2>2, <1>4 DEF Refreshed
  <2>5. /\ Len(order') > 0 /\ order'[1] = order[1]
        /\ slots'[order[1]].state = "ready" /\ payload'[order[1]] = payload[order[1]]
        /\ ftq'[c + 1].id = ftq[d + 1].id /\ BriefOf(ftq'[c + 1]) = BriefOf(ftq[d + 1])
    BY <2>2, <2>3, <2>4, <1>4, HeadNext
  <2>6. QED
    BY <2>1, <2>2, <2>5
<1>10. QED
  BY <1>8, <1>9

(* The beats after a cycle come, in their order, from those before it, of  *)
(* entries a redirect keeps, and the pushed one.                           *)
Source(i, a, n, s) ==
  /\ BeatForm(beats'[n])
  /\ \/ /\ s \in DOMAIN beats /\ beats'[n].id = beats[s].id /\ (FirePop(i, a) => 1 < s)
        /\ \A k \in DOMAIN ftq : beats[s].id = ftq[k].id => k <= Keep(a)
     \/ s = Len(beats) + 1 /\ FirePush(i, a) /\ beats'[n].id = out.id

(* Every beat in the decode queue after a cycle is one from before, not    *)
(* cut, or the one just taken from the return queue; their order is kept.  *)
LEMMA BeatsNext ==
  ASSUME NEW d, PlacesHold(d), NEW i, NEW a, Cycle(i, a)
  PROVE  /\ IsSequence(beats') /\ Len(beats) \in Nat /\ DOMAIN beats = 1 .. Len(beats)
         /\ DOMAIN beats' \subseteq Nat
         /\ \E src : /\ \A n \in DOMAIN beats' : src[n] \in Nat /\ Source(i, a, n, src[n])
                     /\ \A m, n \in DOMAIN beats' : m < n => src[m] < src[n]
<1>1. /\ QueueForm /\ BeatsForm(d) /\ Cuts(a)
      /\ BeatStep(a, Beat(i, a), Lanes(i, a), FirePush(i, a), FirePop(i, a))
  BY CycleForm DEF PlacesHold, Cycle
<1>2. /\ IsSequence(beats) /\ \A n \in DOMAIN beats : BeatForm(beats[n])
  BY <1>1 DEF BeatsForm
<1>3. Len(beats) \in Nat /\ DOMAIN beats = 1 .. Len(beats)
  BY <1>2, SequenceIs
<1>4. CASE a # None
  <2> DEFINE S == {n \in DOMAIN beats : Keeps(a, beats[n])}
  <2> DEFINE live == Masked(beats, S)
  <2> DEFINE src == [n \in 1 .. Cardinality(S) |-> At(S, n)]
  <2>1. beats' = [n \in DOMAIN live |-> Survivor(a, live[n])]
    BY <1>1, <1>4, ZenonT(60) DEF BeatStep
  <2>2. S \subseteq DOMAIN beats /\ IsFiniteSet(S) /\ S \subseteq Nat
    BY <1>2, PlacesFinite
  <2>3. /\ IsSequence(live) /\ Len(live) = Cardinality(S) /\ Cardinality(S) \in Nat
        /\ \A n \in 1 .. Cardinality(S) : At(S, n) \in S /\ live[n] = beats[At(S, n)]
        /\ \A m, n \in 1 .. Cardinality(S) : m < n => At(S, m) < At(S, n)
    BY <2>2, MaskedForm
  <2>4. \A n \in S : Keeps(a, beats[n])
    OBVIOUS
  <2> DEFINE C == Cardinality(S)
  <2> HIDE DEF S
  <2>5. DOMAIN live = 1 .. C
    BY <2>3, SequenceIs
  <2> HIDE DEF live
  <2>6. DOMAIN beats' = 1 .. C /\ C \in Nat /\ \A n \in 1 .. C : beats'[n] = Survivor(a, live[n])
    BY <2>1, <2>3, <2>5
  <2> HIDE DEF C
  <2>7. beats' = [n \in 1 .. C |-> beats'[n]]
    BY <2>1, <2>5, <2>6
  <2>8. IsSequence(beats') /\ DOMAIN beats' \subseteq Nat
    BY <2>6, <2>7, SequenceForm
  <2>9. ASSUME NEW n \in DOMAIN beats' PROVE src[n] \in Nat /\ Source(i, a, n, src[n])
    <3>1. src[n] \in S /\ beats'[n] = Survivor(a, beats[src[n]])
      BY <2>3, <2>6 DEF C
    <3>2. src[n] \in Nat /\ src[n] \in DOMAIN beats /\ Keeps(a, beats[src[n]])
      BY <3>1, <2>2, <2>4
    <3>3. ~FirePop(i, a)
      BY <1>4 DEF FirePop
    <3> HIDE DEF src
    <3>4. /\ BeatForm(beats'[n]) /\ beats'[n].id = beats[src[n]].id
          /\ \A k \in DOMAIN ftq : beats[src[n]].id = ftq[k].id => k <= Keep(a)
      BY <1>1, <1>2, <3>1, <3>2, SurvivorForm
    <3>5. QED
      BY <3>2, <3>3, <3>4 DEF Source
  <2>10. \A m, n \in DOMAIN beats' : m < n => src[m] < src[n]
    BY <2>3, <2>6 DEF C
  <2>11. QED
    BY <1>3, <2>8, <2>9, <2>10
<1>5. CASE a = None
  <2> DEFINE t == IF FirePop(i, a) THEN Tail(beats) ELSE beats
  <2> DEFINE o == IF FirePop(i, a) THEN 1 ELSE 0
  <2> DEFINE b == BeatOf(out)
  <2>1. beats' = t \o (IF FirePush(i, a) THEN <<b>> ELSE <<>>)
    BY <1>1, <1>5, ZenonT(60) DEF BeatStep, Beat
  <2>2. FirePop(i, a) => beats # <<>> /\ Len(beats) > 0
    <3>1. FirePop(i, a) => beats # <<>>
      BY DEF FirePop
    <3>2. Len(beats) = 0 => beats = <<>>
      BY <1>2 DEF IsSequence
    <3>3. QED
      BY <1>3, <3>1, <3>2
  <2>3. /\ IsSequence(t) /\ Len(t) = Len(beats) - o /\ o \in {0, 1} /\ o <= Len(beats)
        /\ DOMAIN t = 1 .. Len(beats) - o
        /\ \A n \in 1 .. Len(beats) - o : t[n] = beats[n + o]
    <3>1. CASE FirePop(i, a)
      <4>1. /\ IsSequence(Tail(beats)) /\ Len(Tail(beats)) = Len(beats) - 1
            /\ DOMAIN Tail(beats) = 1 .. Len(beats) - 1
            /\ \A k \in 1 .. Len(beats) - 1 : Tail(beats)[k] = beats[k + 1]
        BY <3>1, <2>2, <1>2, SequenceRest
      <4>2. t = Tail(beats) /\ o = 1
        BY <3>1
      <4> HIDE DEF t, o
      <4>3. QED
        BY <4>1, <4>2, <3>1, <2>2, <1>3
    <3>2. CASE ~FirePop(i, a)
      <4>1. t = beats /\ o = 0
        BY <3>2
      <4>2. Len(beats) - 0 = Len(beats) /\ \A n \in 1 .. Len(beats) : n + 0 = n
        BY <1>3
      <4> HIDE DEF t, o
      <4>3. QED
        BY <4>1, <4>2, <1>2, <1>3
    <3>3. QED
      BY <3>1, <3>2
  <2> DEFINE N == Len(beats) - o
  <2>4. N \in Nat /\ N + o = Len(beats) /\ Len(t) = N /\ DOMAIN t = 1 .. N /\ o \in Nat
    BY <2>3, <1>3
  <2>5. FirePop(i, a) => o = 1
    OBVIOUS
  <2>6. \A k \in DOMAIN ftq : k <= Keep(a)
    <3>1. Keep(a) = Len(ftq) /\ DOMAIN ftq = 1 .. Len(ftq) /\ Len(ftq) \in Nat
      BY <1>1, <1>5, CutAt, Placed
    <3>2. QED
      BY <3>1
  <2> HIDE DEF t, o, N
  <2>7. ASSUME NEW n \in 1 .. N, beats'[n] = t[n]
        PROVE  n + o \in Nat /\ Source(i, a, n, n + o)
    <3>1. n + o \in DOMAIN beats /\ n + o \in Nat /\ (o = 1 => 1 < n + o)
      BY <2>4, <1>3
    <3>2. beats'[n] = beats[n + o]
      BY <2>3, <2>7 DEF N
    <3>3. QED
      BY <3>1, <3>2, <2>5, <2>6, <1>2 DEF Source
  <2>8. CASE ~FirePush(i, a)
    <3> DEFINE src == [n \in 1 .. N |-> n + o]
    <3>1. beats' = t
      BY <2>1, <2>3, <2>8, SequenceAppend
    <3>2. IsSequence(beats') /\ DOMAIN beats' = 1 .. N /\ 1 .. N \subseteq Nat
      BY <3>1, <2>3, <2>4
    <3>3. \A n \in DOMAIN beats' : src[n] \in Nat /\ Source(i, a, n, src[n])
      BY <3>1, <3>2, <2>7
    <3>4. \A m, n \in DOMAIN beats' : m < n => src[m] < src[n]
      BY <3>2, <2>4
    <3>5. QED
      BY <1>3, <3>2, <3>3, <3>4
  <2>9. CASE FirePush(i, a)
    <3> DEFINE src == [n \in 1 .. N + 1 |-> n + o]
    <3>1. beats' = t \o <<b>>
      BY <2>1, <2>9
    <3>2. /\ IsSequence(beats') /\ Len(beats') = N + 1
          /\ \A n \in 1 .. N : beats'[n] = t[n]
          /\ beats'[N + 1] = b
      BY <3>1, <2>3, <2>4, SequenceAppend
    <3>3. DOMAIN beats' = 1 .. N + 1
      BY <3>2, SequenceIs
    <3>4. Source(i, a, N + 1, (N + 1) + o) /\ (N + 1) + o \in Nat
      <4>1. (N + 1) + o = Len(beats) + 1 /\ Len(beats) + 1 \in Nat
        BY <2>4, <1>3
      <4>2. BeatForm(b) /\ b.id = out.id
        BY BeatOfForm
      <4>3. QED
        BY <4>1, <4>2, <3>2, <2>9 DEF Source
    <3>5. ASSUME NEW n \in DOMAIN beats' PROVE src[n] \in Nat /\ Source(i, a, n, src[n])
      <4>1. n \in 1 .. N \/ n = N + 1
        BY <3>3, <2>4
      <4>2. src[n] = n + o
        BY <3>3
      <4> HIDE DEF src
      <4>3. CASE n \in 1 .. N
        BY <4>2, <4>3, <3>2, <2>7
      <4>4. CASE n = N + 1
        BY <4>2, <4>4, <3>4
      <4>5. QED
        BY <4>1, <4>3, <4>4
    <3>6. \A m, n \in DOMAIN beats' : m < n => src[m] < src[n]
      BY <3>3, <2>4
    <3>7. DOMAIN beats' \subseteq Nat
      BY <3>3, <2>4
    <3>8. QED
      BY <1>3, <3>2, <3>5, <3>6, <3>7
  <2>10. QED
    BY <2>8, <2>9
<1>6. QED
  BY <1>4, <1>5

(* The beat F1 takes.                                                      *)
LEMMA PopForm ==
  ASSUME NEW d, PlacesHold(d), NEW i, NEW a, FirePop(i, a)
  PROVE  /\ 1 \in DOMAIN beats /\ BeatForm(beats[1]) /\ a = None
         /\ \E k \in DOMAIN ftq : k <= d /\ beats[1].id = ftq[k].id
         /\ Given(i, a) = F1(beats[1]).out /\ Lanes(i, a) = F1(beats[1])
<1>1. QueueForm /\ BeatsForm(d) /\ d \in 0 .. Len(ftq)
  BY DEF PlacesHold
<1>2. IsSequence(beats) /\ beats # <<>> /\ a = None
  BY <1>1 DEF BeatsForm, FirePop
<1>3. Len(beats) \in Nat /\ DOMAIN beats = 1 .. Len(beats)
  BY <1>2, SequenceIs
<1>4. Len(beats) = 0 => beats = <<>>
  BY <1>2 DEF IsSequence
<1>5. 1 \in DOMAIN beats
  BY <1>2, <1>3, <1>4
<1>6. BeatForm(beats[1]) /\ \E k \in 1 .. d : beats[1].id = ftq[k].id
  BY <1>1, <1>5 DEF BeatsForm
<1>7. DOMAIN ftq = 1 .. Len(ftq) /\ Len(ftq) \in Nat
  BY <1>1, Placed
<1>8. \A k \in 1 .. d : k \in DOMAIN ftq /\ k <= d
  BY <1>1, <1>7
<1>9. QED
  BY <1>2, <1>5, <1>6, <1>8 DEF Given, Lanes

(* The places of those beats before the cycle, in their order, and c after *)
(* it.                                                                     *)
LEMMA BeatPlaces ==
  ASSUME NEW d, PlacesHold(d), NEW i, NEW a, Cycle(i, a), NEW c, c = PlaceNext(i, a, d)
  PROVE  /\ IsSequence(beats') /\ DOMAIN beats' \subseteq Nat
         /\ \A n \in DOMAIN beats' : BeatForm(beats'[n])
         /\ \E place :
              /\ \A n \in DOMAIN beats' :
                   /\ place[n] \in DOMAIN ftq /\ beats'[n].id = ftq[place[n]].id
                   /\ Freed(i) < place[n] /\ place[n] <= Keep(a) /\ place[n] - Freed(i) \in 1 .. c
                   /\ \A k \in DOMAIN ftq : ftq[k].done # 0 => k < place[n]
                   /\ FirePop(i, a) =>
                        \A k \in DOMAIN ftq : ftq[k].id = beats[1].id => k < place[n]
              /\ \A m, n \in DOMAIN beats' : m < n => place[m] < place[n]
<1> DEFINE f == Freed(i)
<1> DEFINE e == Pushed(i, a)
<1> DEFINE z == Kept0(a, d)
<1>1. /\ QueueForm /\ OrderForm(d) /\ OutForm(d) /\ BeatsForm(d) /\ DoneForm(d) /\ Cuts(a)
      /\ d \in 0 .. Len(ftq) /\ i \in Inputs /\ Sensible(i, a)
  BY DEF PlacesHold, Cycle
<1>2. /\ IsSequence(beats') /\ Len(beats) \in Nat /\ DOMAIN beats = 1 .. Len(beats)
      /\ DOMAIN beats' \subseteq Nat
  BY BeatsNext
<1>3. PICK src : /\ \A n \in DOMAIN beats' : src[n] \in Nat /\ Source(i, a, n, src[n])
                 /\ \A m, n \in DOMAIN beats' : m < n => src[m] < src[n]
  BY BeatsNext
<1>4. /\ \A n \in DOMAIN beats : \E k \in 1 .. d : beats[n].id = ftq[k].id
      /\ \A m, n \in DOMAIN beats : \A j, k \in DOMAIN ftq :
           m < n /\ beats[m].id = ftq[j].id /\ beats[n].id = ftq[k].id => j < k
  BY <1>1 DEF BeatsForm
<1>5. /\ d \in Nat /\ c \in Nat /\ c + f = z + e /\ f \in Nat /\ z \in Nat /\ e \in Nat
  <2>1. f \in {0, 1} /\ e \in {0, 1} /\ d \in Nat /\ c \in Nat /\ z \in Nat /\ c + f = z + e
    BY CycleSizes
  <2>2. f \in Nat
    BY <2>1
  <2>3. e \in Nat
    BY <2>1
  <2>4. QED
    BY <2>1, <2>2, <2>3, Zenon
<1>6. /\ f = 1 => d >= 1
      /\ \A n \in DOMAIN beats : \A k \in DOMAIN ftq : beats[n].id = ftq[k].id => f < k
      /\ f \in {0, 1}
  BY RetireForm
<1>7. DOMAIN ftq = 1 .. Len(ftq) /\ Len(ftq) \in Nat /\ d <= Len(ftq)
  <2>1. DOMAIN ftq = 1 .. Len(ftq) /\ Len(ftq) \in Nat
    BY <1>1, Placed
  <2>2. QED
    BY <2>1, <1>1
<1>8. \A k \in 1 .. d : k \in DOMAIN ftq /\ k \in Nat /\ k >= 1 /\ k <= d
  BY <1>5, <1>7
<1>9. /\ \A k \in DOMAIN ftq : k <= Keep(a) => (k <= d <=> k <= z)
      /\ a = None => z = d
  BY <1>1, CycleForm, CutForm
<1>10. FirePush(i, a) =>
         /\ a = None /\ e = 1 /\ d + 1 \in DOMAIN ftq /\ out.id = ftq[d + 1].id /\ d + 1 <= Keep(a)
  <2>1. FirePush(i, a) => a = None /\ out # None /\ e = 1
    BY DEF FirePush, DeqValid, Pushed
  <2>2. out # None => Len(order) > 0 /\ out.id = ftq[d + 1].id
    BY <1>1 DEF OutForm
  <2>3. Len(order) \in Nat /\ d + Len(order) <= Len(ftq)
    BY <1>1, SequenceIs DEF OrderForm
  <2>4. Len(order) > 0 => d + 1 \in DOMAIN ftq /\ d + 1 <= Len(ftq)
    BY <2>3, <1>5, <1>7
  <2>5. a = None => Keep(a) = Len(ftq)
    BY <1>1, CutAt
  <2>6. QED
    BY <2>1, <2>2, <2>4, <2>5
<1> HIDE DEF f, e, z
<1> DEFINE Old(n, s, p) ==
     /\ s \in DOMAIN beats /\ beats[s].id = ftq[p].id /\ p <= d /\ (FirePop(i, a) => 1 < s)
<1> DEFINE New(n, s, p) == s = Len(beats) + 1 /\ p = d + 1
<1> DEFINE At2(n, p) ==
     /\ p \in DOMAIN ftq /\ beats'[n].id = ftq[p].id
     /\ f < p /\ p <= Keep(a) /\ p - f \in 1 .. c /\ (Old(n, src[n], p) \/ New(n, src[n], p))
<1>11. ASSUME NEW n \in DOMAIN beats' PROVE \E p : At2(n, p)
  <2>1. Source(i, a, n, src[n])
    BY <1>3
  <2> DEFINE s == src[n]
  <2> HIDE DEF s
  <2>2. CASE /\ s \in DOMAIN beats /\ beats'[n].id = beats[s].id /\ (FirePop(i, a) => 1 < s)
             /\ \A k \in DOMAIN ftq : beats[s].id = ftq[k].id => k <= Keep(a)
    <3>1. PICK k \in 1 .. d : beats[s].id = ftq[k].id
      BY <2>2, <1>4
    <3>2. k \in DOMAIN ftq /\ k \in Nat /\ k <= d /\ k <= Keep(a) /\ f < k
      BY <2>2, <3>1, <1>6, <1>8
    <3>3. k <= z
      BY <3>2, <1>9
    <3>4. k - f \in 1 .. c
      BY <3>2, <3>3, <1>5
    <3>5. At2(n, k)
      BY <2>2, <3>1, <3>2, <3>4 DEF s
    <3>6. QED
      BY <3>5
  <2>3. CASE s = Len(beats) + 1 /\ FirePush(i, a) /\ beats'[n].id = out.id
    <3>1. f < d + 1
      BY <1>5, <1>6
    <3>2. (d + 1) - f \in 1 .. c
      BY <2>3, <3>1, <1>5, <1>9, <1>10
    <3>3. At2(n, d + 1)
      BY <2>3, <3>1, <3>2, <1>10 DEF s
    <3>4. QED
      BY <3>3
  <2>4. QED
    BY <2>1, <2>2, <2>3 DEF Source, s
<1> DEFINE place == [n \in DOMAIN beats' |-> CHOOSE p : At2(n, p)]
<1>12. ASSUME NEW n \in DOMAIN beats' PROVE At2(n, place[n])
  <2>1. place[n] = CHOOSE p : At2(n, p)
    OBVIOUS
  <2> HIDE DEF place, At2
  <2>2. QED
    BY <2>1, <1>11, Zenon
<1>13. \A n \in DOMAIN beats' : BeatForm(beats'[n])
  BY <1>3 DEF Source
<1> HIDE DEF place
<1>14. ASSUME NEW n \in DOMAIN beats', NEW k \in DOMAIN ftq, ftq[k].done # 0
       PROVE  k < place[n]
  <2>1. k <= d /\ \A s \in DOMAIN beats : \A j \in DOMAIN ftq : beats[s].id = ftq[j].id => k < j
    BY <1>1, <1>14 DEF DoneForm
  <2>2. k \in Nat
    BY <1>7
  <2>3. At2(n, place[n])
    BY <1>12
  <2>4. CASE Old(n, src[n], place[n])
    BY <2>1, <2>3, <2>4
  <2>5. CASE New(n, src[n], place[n])
    BY <2>1, <2>2, <2>5, <1>5
  <2>6. QED
    BY <2>3, <2>4, <2>5
<1>15. ASSUME NEW n \in DOMAIN beats', FirePop(i, a), NEW k \in DOMAIN ftq, ftq[k].id = beats[1].id
       PROVE  k < place[n]
  <2>1. 1 \in DOMAIN beats
    BY <1>15, PopForm
  <2>2. k \in Nat /\ k <= d
    <3>1. PICK j \in DOMAIN ftq : j <= d /\ beats[1].id = ftq[j].id
      BY <1>15, PopForm
    <3>2. j = k
      BY <3>1, <1>1, <1>15, LiveOne
    <3>3. QED
      BY <3>1, <3>2, <1>7
  <2>3. At2(n, place[n])
    BY <1>12
  <2>4. CASE Old(n, src[n], place[n])
    BY <2>1, <2>3, <2>4, <1>4, <1>15
  <2>5. CASE New(n, src[n], place[n])
    BY <2>2, <2>5, <1>5
  <2>6. QED
    BY <2>3, <2>4, <2>5
<1>16. ASSUME NEW m \in DOMAIN beats', NEW n \in DOMAIN beats', m < n
       PROVE  place[m] < place[n]
  <2>1. At2(m, place[m]) /\ At2(n, place[n]) /\ src[m] < src[n] /\ src[m] \in Nat /\ src[n] \in Nat
    BY <1>3, <1>12, <1>16
  <2>2. CASE Old(m, src[m], place[m]) /\ Old(n, src[n], place[n])
    BY <2>1, <2>2, <1>4
  <2>3. CASE Old(m, src[m], place[m]) /\ New(n, src[n], place[n])
    <3>1. place[m] \in Nat /\ place[m] <= d /\ place[n] = d + 1
      BY <2>1, <2>3, <1>7
    <3>2. QED
      BY <3>1, <1>5
  <2>4. CASE New(m, src[m], place[m])
    <3>1. src[m] = Len(beats) + 1
      BY <2>4
    <3>2. src[n] \in DOMAIN beats \/ src[n] = Len(beats) + 1
      BY <2>1
    <3>3. QED
      BY <2>1, <3>1, <3>2, <1>2
  <2>5. QED
    BY <2>1, <2>2, <2>3, <2>4
<1>17. \A n \in DOMAIN beats' :
          /\ place[n] \in DOMAIN ftq /\ beats'[n].id = ftq[place[n]].id
          /\ f < place[n] /\ place[n] <= Keep(a) /\ place[n] - f \in 1 .. c
  BY <1>12
<1>18. QED
  BY <1>2, <1>13, <1>14, <1>15, <1>16, <1>17 DEF f

(* The beats' entries after a cycle, and what is delivered before them.    *)
LEMMA BeatsStep ==
  ASSUME NEW d, PlacesHold(d), NEW i, NEW a, Cycle(i, a), NEW c, c = PlaceNext(i, a, d)
  PROVE  BeatsForm(c)' /\ DoneForm(c)'
<1> DEFINE r == Reserve(i, a)
<1> DEFINE g == Given(i, a)
<1> DEFINE f == Freed(i)
<1> DEFINE z == Kept0(a, d)
<1> DEFINE m == Keep(a)
<1>1. /\ QueueForm /\ BeatsForm(d) /\ DoneForm(d) /\ d \in 0 .. Len(ftq)
      /\ i \in Inputs /\ Cuts(a) /\ Sensible(i, a) /\ FtqStep(i, a, r, g)
  BY CycleForm DEF PlacesHold, Cycle
<1>2. /\ IsSequence(beats') /\ DOMAIN beats' \subseteq Nat
      /\ \A n \in DOMAIN beats' : BeatForm(beats'[n])
  BY BeatPlaces
<1>3. PICK place :
        /\ \A n \in DOMAIN beats' :
             /\ place[n] \in DOMAIN ftq /\ beats'[n].id = ftq[place[n]].id
             /\ f < place[n] /\ place[n] <= m /\ place[n] - f \in 1 .. c
             /\ \A k \in DOMAIN ftq : ftq[k].done # 0 => k < place[n]
             /\ FirePop(i, a) =>
                  \A k \in DOMAIN ftq : ftq[k].id = beats[1].id => k < place[n]
        /\ \A s, n \in DOMAIN beats' : s < n => place[s] < place[n]
  BY BeatPlaces
<1>4. f \in Nat /\ c \in Nat /\ z \in Nat /\ z <= c + f
  <2>1. f \in {0, 1} /\ Pushed(i, a) \in {0, 1} /\ c \in Nat /\ z \in Nat /\ c + f = z + Pushed(i, a)
    BY CycleSizes
  <2>2. f \in Nat
    BY <2>1
  <2>3. Pushed(i, a) \in Nat
    BY <2>1
  <2>4. QED
    BY <2>1, <2>2, <2>3
<1>12. \A k \in DOMAIN ftq : k <= m => (k <= d <=> k <= z)
  BY <1>1, CycleForm, CutForm
<1> HIDE DEF r, f, m, z
<1>5. /\ \A k \in DOMAIN ftq : k <= m /\ f < k =>
           k - f \in DOMAIN ftq' /\ ftq'[k - f] = Told(i, a, r, g, k)
      /\ \A k \in DOMAIN ftq' :
           \/ k + f \in DOMAIN ftq /\ k + f <= m /\ ftq'[k] = Told(i, a, r, g, k + f)
           \/ AllocFire(a) /\ k = m - f + 1 /\ ftq'[k] = NewEntry(i.fast)
      /\ \A p \in DOMAIN ftq : \A j \in DOMAIN ftq' : ftq'[j].id = ftq[p].id => p = j + f
      /\ DOMAIN ftq' = 1 .. Len(ftq') /\ Len(ftq') \in Nat
  BY <1>1, EntryNext DEF f, m
<1>6. \A k \in DOMAIN ftq : DOMAIN ftq[k] = EntryFields
  BY <1>1 DEF QueueForm
<1>7. DOMAIN ftq = 1 .. Len(ftq) /\ Len(ftq) \in Nat
  BY <1>1, Placed
<1>13. \A k \in DOMAIN ftq' : k \in Nat
  BY <1>5
<1>14. \A k \in DOMAIN ftq : k \in Nat
  BY <1>7
<1>8. ASSUME NEW n \in DOMAIN beats', NEW j \in DOMAIN ftq', beats'[n].id = ftq'[j].id
      PROVE  place[n] = j + f
  BY <1>3, <1>5, <1>8
<1>9. BeatsForm(c)'
  <2>1. ASSUME NEW n \in DOMAIN beats' PROVE \E k \in 1 .. c : beats'[n].id = ftq'[k].id
    <3> DEFINE p == place[n]
    <3>1. p \in DOMAIN ftq /\ beats'[n].id = ftq[p].id /\ f < p /\ p <= m /\ p - f \in 1 .. c
      BY <1>3
    <3> HIDE DEF p
    <3>2. ftq'[p - f].id = ftq[p].id
      BY <3>1, <1>5, <1>6, EntryUpdate
    <3>3. QED
      BY <3>1, <3>2
  <2>2. ASSUME NEW s \in DOMAIN beats', NEW n \in DOMAIN beats', NEW j \in DOMAIN ftq',
               NEW k \in DOMAIN ftq', s < n, beats'[s].id = ftq'[j].id, beats'[n].id = ftq'[k].id
        PROVE  j < k
    <3>1. place[s] = j + f /\ place[n] = k + f /\ place[s] < place[n]
      BY <2>2, <1>3, <1>8
    <3>2. j \in Nat /\ k \in Nat
      BY <1>13
    <3>3. QED
      BY <3>1, <3>2, <1>4
  <2>3. QED
    BY <1>2, <2>1, <2>2 DEF BeatsForm, IsSequence, BeatForm, Names
<1>10. DoneForm(c)'
  <2>1. SUFFICES ASSUME NEW k \in DOMAIN ftq', ftq'[k].done # 0
                 PROVE  /\ k <= c
                        /\ \A n \in DOMAIN beats' : \A j \in DOMAIN ftq' :
                             beats'[n].id = ftq'[j].id => k < j
    BY DEF DoneForm
  <2> DEFINE p == k + f
  <2>2. p \in DOMAIN ftq /\ p <= m /\ ftq'[k] = Told(i, a, r, g, p)
    <3>1. NewEntry(i.fast).done = 0
      BY DEF NewEntry
    <3>2. QED
      BY <3>1, <2>1, <1>5
  <2>3. k \in Nat
    BY <1>13
  <2>4. ftq[p].done # 0 \/ (g # <<>> /\ g[1].id = ftq[p].id)
    <3> HIDE DEF p
    <3>1. QED
      BY <2>1, <2>2, <1>6, EntryUpdate
  <2>5. p <= d /\ \A n \in DOMAIN beats' : p < place[n]
    <3> HIDE DEF p
    <3>1. CASE ftq[p].done # 0
      BY <3>1, <2>2, <1>1, <1>3 DEF DoneForm
    <3>2. CASE g # <<>> /\ g[1].id = ftq[p].id
      <4>1. FirePop(i, a)
        BY <3>2 DEF Given
      <4>2. BeatForm(beats[1]) /\ g = F1(beats[1]).out
        BY <4>1, PopForm
      <4>3. g[1].id = beats[1].id
        BY <4>2, <3>2, F1Form
      <4>4. PICK j \in DOMAIN ftq : j <= d /\ beats[1].id = ftq[j].id
        BY <4>1, PopForm
      <4>5. j = p
        BY <4>3, <4>4, <3>2, <2>2, <1>1, LiveOne
      <4>6. QED
        BY <4>1, <4>3, <4>4, <4>5, <3>2, <2>2, <1>3
    <3>3. QED
      BY <3>1, <3>2, <2>4
  <2>6. p <= z
    BY <2>2, <2>5, <1>12
  <2>7. k <= c
    BY <2>3, <2>6, <1>4
  <2>8. ASSUME NEW n \in DOMAIN beats', NEW j \in DOMAIN ftq', beats'[n].id = ftq'[j].id
        PROVE  k < j
    <3>1. place[n] = j + f /\ p < place[n]
      BY <2>5, <2>8, <1>8
    <3>2. j \in Nat
      BY <1>13
    <3>3. QED
      BY <3>1, <3>2, <2>3, <1>4
  <2>9. QED
    BY <2>7, <2>8
<1>11. QED
  BY <1>9, <1>10

(* Requests of execution and F1 stay for live entries.                     *)
LEMMA AsksStep ==
  ASSUME NEW d, PlacesHold(d), NEW i, NEW a, Cycle(i, a)
  PROVE  GotForm' /\ PdForm'
<1> DEFINE r == Reserve(i, a)
<1> DEFINE g == Given(i, a)
<1> DEFINE f == Freed(i)
<1>1. /\ QueueForm /\ GotForm /\ i \in Inputs /\ Cuts(a) /\ Sensible(i, a) /\ FtqStep(i, a, r, g)
      /\ BeatStep(a, Beat(i, a), Lanes(i, a), FirePush(i, a), FirePop(i, a))
  BY CycleForm DEF PlacesHold, Cycle
<1> HIDE DEF r, f
<1>2. /\ \A k \in DOMAIN ftq : k <= Keep(a) /\ f < k =>
           k - f \in DOMAIN ftq' /\ ftq'[k - f] = Told(i, a, r, g, k)
      /\ \A k \in DOMAIN ftq' :
           \/ k + f \in DOMAIN ftq /\ k + f <= Keep(a) /\ ftq'[k] = Told(i, a, r, g, k + f)
           \/ AllocFire(a) /\ k = Keep(a) - f + 1 /\ ftq'[k] = NewEntry(i.fast)
  BY <1>1, EntryNext DEF f
<1>3. \A k \in DOMAIN ftq : DOMAIN ftq[k] = EntryFields
  BY <1>1 DEF QueueForm
<1>4. GotForm'
  <2>1. SUFFICES ASSUME NEW k \in DOMAIN ftq', NEW x \in ftq'[k].got
                 PROVE  Names(x, ftq'[k].id)
    BY DEF GotForm, Names
  <2> DEFINE p == k + f
  <2>2. p \in DOMAIN ftq /\ ftq'[k] = Told(i, a, r, g, p)
    <3>1. NewEntry(i.fast).got = {}
      BY DEF NewEntry
    <3>2. QED
      BY <3>1, <2>1, <1>2
  <2> HIDE DEF p
  <2>3. /\ ftq'[k].id = ftq[p].id
        /\ x \in ftq[p].got \/ (g # <<>> /\ g[1].id = ftq[p].id /\ x \in Mispredictable(g))
    BY <2>1, <2>2, <1>3, EntryUpdate
  <2>4. CASE x \in ftq[p].got
    BY <2>2, <2>3, <2>4, <1>1 DEF GotForm
  <2>5. CASE g # <<>> /\ g[1].id = ftq[p].id /\ x \in Mispredictable(g)
    <3>1. FirePop(i, a)
      BY <2>5 DEF Given
    <3>2. BeatForm(beats[1]) /\ g = F1(beats[1]).out
      BY <3>1, PopForm
    <3>3. g[1].id = beats[1].id /\ Names(x, beats[1].id)
      BY <3>2, <2>5, F1Form
    <3>4. QED
      BY <3>3, <2>3, <2>5
  <2>6. QED
    BY <2>3, <2>4, <2>5
<1>5. PdForm'
  <2>1. SUFFICES ASSUME pd' # None
                 PROVE  ~pd'.all /\ \E k \in DOMAIN ftq' : Names(pd', ftq'[k].id)
    BY DEF PdForm, Names
  <2>2. FirePop(i, a) /\ pd' = Lanes(i, a).req
    <3>1. pd' = IF FirePop(i, a) THEN Lanes(i, a).req ELSE None
      BY <1>1, Zenon DEF BeatStep
    <3>2. QED
      BY <2>1, <3>1
  <2>3. BeatForm(beats[1]) /\ pd' = F1(beats[1]).req /\ a = None /\ 1 \in DOMAIN beats
    BY <2>2, PopForm
  <2>4. ~pd'.all /\ Names(pd', beats[1].id)
    BY <2>1, <2>3, F1Form
  <2>5. PICK k \in DOMAIN ftq : k <= d /\ beats[1].id = ftq[k].id
    BY <2>2, PopForm
  <2>6. f < k
    BY <2>3, <2>5, RetireForm DEF f
  <2>7. k <= Keep(a)
    <3>1. Keep(a) = Len(ftq)
      BY <1>1, <2>3, CutAt
    <3>2. DOMAIN ftq = 1 .. Len(ftq) /\ Len(ftq) \in Nat
      BY <1>1, Placed
    <3>3. QED
      BY <3>1, <3>2
  <2>8. k - f \in DOMAIN ftq' /\ ftq'[k - f] = Told(i, a, r, g, k)
    BY <2>6, <2>7, <1>2
  <2>9. ftq'[k - f].id = ftq[k].id
    BY <2>8, <1>3, EntryUpdate
  <2>10. QED
    BY <2>4, <2>5, <2>8, <2>9
<1>6. QED
  BY <1>4, <1>5
-----------------------------------------------------------------------------
(* The invariant holds of every behaviour.                                 *)

(* The invariant holds of the empty frontend after reset.                  *)
LEMMA FetchInvInit == Init => FetchInv
<1>1. SUFFICES ASSUME Init PROVE FetchInv
  OBVIOUS
<1>2. /\ ftq = <<>> /\ ftqHead = 0 /\ gen = [n \in 0 .. FtqDepth - 1 |-> 0]
      /\ slots = [n \in 0 .. RqDepth - 1 |-> [state |-> "free", id |-> [idx |-> 0, gen |-> 0],
                                              region |-> 0]]
      /\ payload = [n \in 0 .. RqDepth - 1 |-> FALSE] /\ order = <<>> /\ out = None
      /\ beats = <<>> /\ pd = None
  BY <1>1 DEF Init
<1>3. IsSequence(<<>>) /\ Len(<<>>) = 0 /\ DOMAIN <<>> = {}
  <2>1. IsSequence(<<>>)
    BY DEF IsSequence
  <2>2. Len(<<>>) = 0
    OBVIOUS
  <2>3. DOMAIN <<>> = {}
    OBVIOUS
  <2>4. QED
    BY <2>1, <2>2, <2>3
<1>4. QueueForm
  BY <1>2, <1>3, FetchSizes DEF QueueForm
<1>5. SlotsForm
  BY <1>2 DEF SlotsForm, SlotFields
<1>6. Owned
  <2>1. Ordered = {}
    BY <1>2, <1>3 DEF Ordered
  <2>2. \A s \in DOMAIN slots : slots[s].state = "free"
    BY <1>2
  <2>3. QED
    BY <2>1, <2>2 DEF Owned
<1>7. GotForm /\ PdForm
  BY <1>2, <1>3 DEF GotForm, PdForm
<1>8. OrderForm(0) /\ OutForm(0) /\ BeatsForm(0) /\ DoneForm(0)
  BY <1>2, <1>3 DEF OrderForm, OutForm, BeatsForm, DoneForm
<1>9. 0 \in 0 .. Len(ftq)
  BY <1>2, <1>3
<1>10. QED
  BY <1>4, <1>5, <1>6, <1>7, <1>8, <1>9 DEF FetchInv

(* The step of the invariant, d and c being the places.                    *)
LEMMA FetchInvCycle ==
  ASSUME NEW d, PlacesHold(d), NEW i, NEW a, Cycle(i, a), NEW c, c = PlaceNext(i, a, d)
  PROVE  FetchInv'
<1>1. QueueForm'
  BY CycleForm
<1>2. SlotsForm' /\ Owned'
  BY SlotsStep
<1>3. GotForm' /\ PdForm'
  BY AsksStep
<1>4. c \in 0 .. Len(ftq')
  BY CycleSizes
<1>5. OrderForm(c)' /\ OutForm(c)' /\ BeatsForm(c)' /\ DoneForm(c)'
  BY OrderStep, OutStep, BeatsStep
<1>6. QED
  BY <1>1, <1>2, <1>3, <1>4, <1>5 DEF FetchInv

(* FetchInv names the place FetchInvCycle speaks of.                       *)
LEMMA FetchInvPlace ==
  ASSUME FetchInv
  PROVE  \E d : PlacesHold(d)
BY DEF FetchInv, PlacesHold

(* A step of Next is a cycle.                                              *)
LEMMA NextCycle ==
  ASSUME NEW d, PlacesHold(d), Next
  PROVE  \E i, a : Cycle(i, a)
<1>1. PICK i \in Inputs : \E a \in {Accept(i)} : Sensible(i, a) /\ Tick(i, a)
  BY Zenon DEF Next
<1>2. Cuts(Accept(i))
  BY AcceptForm DEF PlacesHold
<1>3. Cycle(i, Accept(i))
  BY <1>1, <1>2 DEF Cycle
<1>4. QED
  BY <1>3

(* Every cycle keeps the invariant, with the place PlaceNext gives.        *)
LEMMA FetchInvNext == FetchInv /\ [Next]_fetchVars => FetchInv'
<1>1. SUFFICES ASSUME FetchInv, [Next]_fetchVars PROVE FetchInv'
  OBVIOUS
<1>2. CASE Next
  <2>1. PICK d : PlacesHold(d)
    BY <1>1, FetchInvPlace
  <2>2. PICK i, a : Cycle(i, a)
    BY <1>2, <2>1, NextCycle
  <2>3. \E c : c = PlaceNext(i, a, d)
    OBVIOUS
  <2>4. PICK c : c = PlaceNext(i, a, d)
    BY <2>3
  <2>5. QED
    BY <2>1, <2>2, <2>4, FetchInvCycle
<1>3. CASE UNCHANGED fetchVars
  BY <1>1, <1>3
  DEF fetchVars, FetchInv, QueueForm, SlotsForm, Owned, Ordered, GotForm, PdForm, OrderForm, OutForm,
      BeatsForm, DoneForm
<1>4. QED
  BY <1>1, <1>2, <1>3

(* The invariant holds throughout.                                         *)
LEMMA FetchInvAlways == Spec => []FetchInv
<1>1. QED
  BY FetchInvInit, FetchInvNext, PTL DEF Spec

(* The order being the entries behind the first d, each is found where it  *)
(* is, and the snapshot is that of the first of them.                      *)
LEMMA FreshAt ==
  ASSUME NEW d, PlacesHold(d)
  PROVE  SnapshotFresh
<1>1. QueueForm /\ OrderForm(d) /\ OutForm(d) /\ d \in 0 .. Len(ftq)
  BY DEF PlacesHold
<1>2. /\ Len(order) \in Nat /\ DOMAIN order = 1 .. Len(order) /\ d + Len(order) <= Len(ftq)
      /\ DOMAIN ftq = 1 .. Len(ftq) /\ Len(ftq) \in Nat
  BY <1>1, SequenceIs, Placed DEF OrderForm
<1>3. d \in Nat
  BY <1>1, <1>2
<1>4. \A n \in DOMAIN order : d + n \in DOMAIN ftq
  BY <1>2, <1>3
<1>5. ASSUME NEW n \in DOMAIN order
      PROVE  EntryOf(slots[order[n]].id) # {} /\ Max(EntryOf(slots[order[n]].id)) = d + n
  <2>1. slots[order[n]].id = ftq[d + n].id
    BY <1>1 DEF OrderForm
  <2>2. QED
    BY <2>1, <1>1, <1>4, LiveOne
<1>6. ASSUME NEW n \in 1 .. Len(order) - 1
      PROVE  Max(EntryOf(slots[order[n]].id)) + 1 = Max(EntryOf(slots[order[n + 1]].id))
  <2>1. n \in DOMAIN order /\ n + 1 \in DOMAIN order /\ (d + n) + 1 = d + (n + 1)
    BY <1>2, <1>3
  <2>2. QED
    BY <2>1, <1>5
<1>7. ASSUME out # None
      PROVE  order # <<>> /\ slots[order[1]].id = out.id /\ out.brief = Brief(out.id)
  <2>1. Len(order) > 0 /\ out.id = ftq[d + 1].id /\ out.brief = BriefOf(ftq[d + 1])
    BY <1>1, <1>7 DEF OutForm
  <2>2. 1 \in DOMAIN order /\ order # <<>>
    BY <2>1, <1>2
  <2>3. slots[order[1]].id = out.id
    BY <2>1, <2>2, <1>1 DEF OrderForm
  <2>4. Brief(ftq[d + 1].id) = BriefOf(ftq[d + 1])
    BY <2>2, <1>1, <1>4, LiveOne DEF Brief, BriefOf
  <2>5. QED
    BY <2>1, <2>2, <2>3, <2>4
<1>8. QED
  BY <1>5, <1>6, <1>7 DEF SnapshotFresh

(* Every snapshot the return queue offers F0 is fresh: whatever redirects, *)
(* kills, slow results and late answers come in between, it is of the oldest*)
(* undelivered entry and holds the FTQ's prediction of now                 *)
(* ("no stale alloc/slow/fix merge is delivered", fetch_return_queue.sv).  *)
THEOREM SnapshotFreshTheorem == Spec => []SnapshotFresh
<1>1. FetchInv => SnapshotFresh
  BY FetchInvPlace, FreshAt
<1>2. QED
  BY <1>1, FetchInvAlways, PTL

-----------------------------------------------------------------------------
(* The return queue and its order model: what a slot, the slots and the    *)
(* output are to the model.                                                *)
Image(e, p) ==
  IF e.state = "free" THEN None
  ELSE [id |-> e.id, pc |-> e.region, data |-> IF e.state = "ready" THEN p ELSE NoData,
        zombie |-> e.state = "zombie"]
SlotsSeen == [n \in DOMAIN slots |-> Image(slots[n], payload[n])]
OutSeen   == IF out = None THEN None
             ELSE [id |-> out.id, pc |-> out.brief.region, data |-> out.exc, zombie |-> FALSE]

(* The model's cycle over these.                                           *)
LEMMA ReturnTickForm ==
  ASSUME NEW q,
         q.reserve # None => RM!Ready(q) /\ SlotsSeen[q.reserve.slot] = None,
         q.resp # None => /\ RM!Reserved(q)[q.resp.slot] # None
                          /\ RM!Reserved(q)[q.resp.slot].data = NoData
                          /\ RM!Reserved(q)[q.resp.slot].id = q.resp.id,
         \A n \in RM!Live(q) : 1 .. n \subseteq RM!Live(q),
         SlotsSeen' = IF RM!Taken(q) THEN [RM!Cut(q) EXCEPT ![RM!Kept(q)[1]] = None] ELSE RM!Cut(q),
         order' = IF RM!Taken(q) THEN Tail(RM!Kept(q)) ELSE RM!Kept(q),
         OutSeen' = RM!NextOutput(q)
  PROVE  RM!ReturnTick(q)
BY ZenonT(60) DEF RM!ReturnTick, SlotsSeen, OutSeen, Image

(* The model's operators over these.                                       *)
LEMMA ModelForm ==
  ASSUME NEW q
  PROVE  /\ RM!Reserved(q) = IF q.reserve = None THEN SlotsSeen
               ELSE [SlotsSeen EXCEPT ![q.reserve.slot] = RM!Entry(q.reserve.id, q.reserve.pc)]
         /\ RM!Cut(q) = [s \in DOMAIN SlotsSeen |-> IF RM!Dead(q, s) THEN RM!Remains(RM!Answered(q)[s])
                                                   ELSE RM!Answered(q)[s]]
         /\ RM!Ready(q) <=> q.kill = None /\ \E s \in DOMAIN SlotsSeen : SlotsSeen[s] = None
         /\ RM!Deq(q) <=> OutSeen # None /\ q.kill = None /\ ~RM!Refresh(q, OutSeen)
         /\ RM!BriefEntry = LET n == IF OutSeen # None THEN 2 ELSE 1
                            IN IF Len(order) >= n THEN SlotsSeen[order[n]] ELSE None
         /\ RM!NextOutput(q) =
              LET c == RM!BriefEntry IN
              IF q.kill # None \/ RM!Refresh(q, OutSeen) THEN None
              ELSE IF /\ OutSeen = None \/ RM!Taken(q)
                      /\ c # None /\ c.data # NoData
                      /\ q.briefDone = c.id /\ ~RM!Refresh(q, c)
                   THEN c
              ELSE IF RM!Taken(q) THEN None ELSE OutSeen
<1>1. RM!Reserved(q) = IF q.reserve = None THEN SlotsSeen
               ELSE [SlotsSeen EXCEPT ![q.reserve.slot] = RM!Entry(q.reserve.id, q.reserve.pc)]
  BY Zenon DEF RM!Reserved, SlotsSeen, Image
<1>2. RM!Cut(q) = [s \in DOMAIN SlotsSeen |-> IF RM!Dead(q, s) THEN RM!Remains(RM!Answered(q)[s])
                                             ELSE RM!Answered(q)[s]]
  BY Zenon DEF RM!Cut, SlotsSeen, Image
<1>3. RM!Ready(q) <=> q.kill = None /\ \E s \in DOMAIN SlotsSeen : SlotsSeen[s] = None
  BY Zenon DEF RM!Ready, SlotsSeen, Image
<1>4. RM!Deq(q) <=> OutSeen # None /\ q.kill = None /\ ~RM!Refresh(q, OutSeen)
  BY Zenon DEF RM!Deq, OutSeen
<1>5. RM!BriefEntry = LET n == IF OutSeen # None THEN 2 ELSE 1
                      IN IF Len(order) >= n THEN SlotsSeen[order[n]] ELSE None
  BY Zenon DEF RM!BriefEntry, SlotsSeen, OutSeen, Image
<1>6. RM!NextOutput(q) =
        LET c == RM!BriefEntry IN
        IF q.kill # None \/ RM!Refresh(q, OutSeen) THEN None
        ELSE IF /\ OutSeen = None \/ RM!Taken(q)
                /\ c # None /\ c.data # NoData
                /\ q.briefDone = c.id /\ ~RM!Refresh(q, c)
             THEN c
        ELSE IF RM!Taken(q) THEN None ELSE OutSeen
  BY Zenon DEF RM!NextOutput, OutSeen
<1>7. QED
  BY <1>1, <1>2, <1>3, <1>4, <1>5, <1>6, Zenon


(* What a cycle brings the queue, r being its reservation.                 *)
Brings(i, a, r, q) == r = Reserve(i, a) /\ q = QueueInputs(i, a, r)

(* A record is not the absent value.                                       *)
LEMMA SomeRecord ==
  /\ \A x, y, z : [slot |-> x, id |-> y, pc |-> z] # None
  /\ \A x, y, z : [slot |-> x, id |-> y, data |-> z] # None
  /\ \A x, y : [idx |-> x, gen |-> y] # None
  /\ \A x, y, z, u : [id |-> x, pc |-> y, data |-> z, zombie |-> u] # None
  /\ \A x, y, z : [id |-> x, exc |-> y, brief |-> z] # None
  /\ \A x, y : [slot |-> x, k |-> y] # None
<1>1. DOMAIN None = {}
  BY DEF None
<1>2. \A x, y, z : DOMAIN [slot |-> x, id |-> y, pc |-> z] # {}
  OBVIOUS
<1>3. \A x, y, z : DOMAIN [slot |-> x, id |-> y, data |-> z] # {}
  OBVIOUS
<1>4. \A x, y : DOMAIN [idx |-> x, gen |-> y] # {}
  OBVIOUS
<1>5. \A x, y, z, u : DOMAIN [id |-> x, pc |-> y, data |-> z, zombie |-> u] # {}
  OBVIOUS
<1>6. \A x, y, z : DOMAIN [id |-> x, exc |-> y, brief |-> z] # {}
  OBVIOUS
<1>7. \A x, y : DOMAIN [slot |-> x, k |-> y] # {}
  OBVIOUS
<1>8. QED
  BY <1>1, <1>2, <1>3, <1>4, <1>5, <1>6, <1>7

(* The fields of QueueInputs, one by one.                                  *)
LEMMA KillSeen ==
  ASSUME NEW i, NEW a, NEW r, NEW q, Brings(i, a, r, q)
  PROVE  q.kill = a /\ q.head = ftqHead /\ q.updated = Updated(i)
<1>1. q.kill = a
  BY Zenon DEF Brings, QueueInputs
<1>2. q.head = ftqHead
  BY Zenon DEF Brings, QueueInputs
<1>3. q.updated = Updated(i)
  BY Zenon DEF Brings, QueueInputs
<1>4. QED
  BY <1>1, <1>2, <1>3

(* The reservation, as the model is told of it.                            *)
LEMMA ReserveSeen ==
  ASSUME NEW i, NEW a, NEW r, NEW q, Brings(i, a, r, q)
  PROVE  /\ q.reserve = None <=> r = None
         /\ r # None => /\ q.reserve.slot = r.slot /\ q.reserve.id = ftq[r.k].id
                        /\ q.reserve.pc = ftq[r.k].region
<1> DEFINE v == [slot |-> r.slot, id |-> ftq[r.k].id, pc |-> ftq[r.k].region]
<1>1. q.reserve = IF r = None THEN None ELSE v
  BY Zenon DEF Brings, QueueInputs
<1>2. v # None
  BY SomeRecord
<1>3. v.slot = r.slot /\ v.id = ftq[r.k].id /\ v.pc = ftq[r.k].region
  OBVIOUS
<1> HIDE DEF v
<1>4. QED
  BY <1>1, <1>2, <1>3

(* The answer, as the model is told of it.                                 *)
LEMMA AnswerSeen ==
  ASSUME NEW i, NEW a, NEW r, NEW q, Brings(i, a, r, q)
  PROVE  /\ q.resp = None <=> i.resp = None
         /\ i.resp # None => /\ q.resp.slot = i.resp.slot /\ q.resp.id = slots[i.resp.slot].id
                             /\ q.resp.data = (slots[i.resp.slot].region \in Fault)
<1> DEFINE f == slots[i.resp.slot].region \in Fault
<1> DEFINE v == [slot |-> i.resp.slot, id |-> slots[i.resp.slot].id, data |-> f]
<1>1. q.resp = IF i.resp = None THEN None ELSE v
  BY Zenon DEF Brings, QueueInputs
<1>2. v # None
  BY SomeRecord
<1> HIDE DEF f
<1>3. v.slot = i.resp.slot /\ v.id = slots[i.resp.slot].id /\ v.data = f
  OBVIOUS
<1> HIDE DEF v
<1>4. QED
  BY <1>1, <1>2, <1>3, Zenon DEF f

(* The summary of the FTQ, as the model is told of it.                     *)
LEMMA BriefSeen ==
  ASSUME NEW i, NEW a, NEW r, NEW q, Brings(i, a, r, q)
  PROVE  q.briefDone = IF /\ Len(order) >= Ahead
                          /\ \E k \in EntryOf(slots[Snapshot].id) : SlowDone(k)
                       THEN slots[Snapshot].id ELSE None
BY Zenon DEF Brings, QueueInputs

(* The consumer, as the model is told of it.                               *)
LEMMA ReadySeen ==
  ASSUME NEW i, NEW a, NEW r, NEW q, Brings(i, a, r, q)
  PROVE  q.deqReady <=> boundary = None /\ Len(beats) < 2
<1> DEFINE t == boundary = None /\ Len(beats) < 2
<1>1. q.deqReady = t
  <2> HIDE DEF t
  <2>1. QED
    BY Zenon DEF Brings, QueueInputs, t
<1>2. QED
  BY <1>1, Zenon

(* An occupied slot to the model.                                          *)
LEMMA ImageForm ==
  ASSUME NEW e, NEW p
  PROVE  /\ Image(e, p) = None <=> e.state = "free"
         /\ e.state # "free" =>
              /\ Image(e, p) = [id |-> e.id, pc |-> e.region, data |-> Image(e, p).data,
                                zombie |-> Image(e, p).zombie]
              /\ Image(e, p).id = e.id /\ Image(e, p).pc = e.region
              /\ Image(e, p).data = IF e.state = "ready" THEN p ELSE NoData
              /\ Image(e, p).zombie <=> e.state = "zombie"
         /\ \A f, g : /\ f.state = e.state /\ f.id = e.id /\ f.region = e.region
                      /\ f.state = "ready" => g = p
                      => Image(f, g) = Image(e, p)
<1> DEFINE v(f, g) == [id |-> f.id, pc |-> f.region, data |-> IF f.state = "ready" THEN g ELSE NoData,
                       zombie |-> f.state = "zombie"]
<1>1. \A f, g : Image(f, g) = IF f.state = "free" THEN None ELSE v(f, g)
  BY Zenon DEF Image
<1>2. v(e, p) # None
  BY SomeRecord
<1>3. Image(e, p) = None <=> e.state = "free"
  BY <1>1, <1>2
<1>4. ASSUME e.state # "free"
      PROVE  /\ Image(e, p) = [id |-> e.id, pc |-> e.region, data |-> Image(e, p).data,
                               zombie |-> Image(e, p).zombie]
             /\ Image(e, p).id = e.id /\ Image(e, p).pc = e.region
             /\ Image(e, p).data = IF e.state = "ready" THEN p ELSE NoData
             /\ Image(e, p).zombie <=> e.state = "zombie"
  <2>1. Image(e, p) = v(e, p)
    BY <1>1, <1>4
  <2> DEFINE z == e.state = "zombie"
  <2> DEFINE y == IF e.state = "ready" THEN p ELSE NoData
  <2>2. v(e, p) = [id |-> e.id, pc |-> e.region, data |-> y, zombie |-> z]
    BY Zenon
  <2> HIDE DEF v, z, y
  <2>3. Image(e, p) = [id |-> e.id, pc |-> e.region, data |-> y, zombie |-> z]
    BY <2>1, <2>2
  <2>4. /\ Image(e, p).id = e.id /\ Image(e, p).pc = e.region /\ Image(e, p).data = y
        /\ Image(e, p).zombie = z
    BY <2>3
  <2>5. Image(e, p) = [id |-> e.id, pc |-> e.region, data |-> Image(e, p).data,
                       zombie |-> Image(e, p).zombie]
    BY <2>3, <2>4
  <2>6. Image(e, p).zombie <=> e.state = "zombie"
    BY <2>4, Zenon DEF z
  <2>7. QED
    BY <2>4, <2>5, <2>6 DEF y
<1>5. ASSUME NEW f, NEW g, f.state = e.state, f.id = e.id, f.region = e.region,
             f.state = "ready" => g = p
      PROVE  Image(f, g) = Image(e, p)
  <2>1. CASE f.state = "ready"
    <3>1. g = p
      BY <1>5, <2>1
    <3>2. v(f, g) = v(e, p)
      BY <1>5, <3>1, Zenon
    <3>3. QED
      BY <1>1, <1>5, <3>2
  <2>2. CASE f.state # "ready"
    <3>1. v(f, g) = v(e, p)
      BY <1>5, <2>2
    <3>2. QED
      BY <1>1, <1>5, <3>1
  <2>3. QED
    BY <2>1, <2>2
<1>6. QED
  BY <1>3, <1>4, <1>5

(* A reservation makes the model's entry, an answer frees a zombie and     *)
(* fills any other: what the slot's next contents are to the model.        *)
LEMMA EntrySeen ==
  /\ \A e, p : e.state = "pend" => Image(e, p) = RM!Entry(e.id, e.region)
  /\ \A q, e, f, p, v : /\ e.state \in {"pend", "zombie"} /\ f.id = e.id /\ f.region = e.region
                        /\ f.state = (IF e.state = "zombie" THEN "free" ELSE "ready")
                        /\ q.resp.data = v
                        => RM!Response(q, Image(e, p)) = Image(f, v)
  /\ \A e, f, p : /\ e.state \in {"pend", "ready"} /\ f.state = DeadState(e.state)
                  /\ f.id = e.id /\ f.region = e.region /\ p \in BOOLEAN
                  => RM!Remains(Image(e, p)) = Image(f, p)
<1>1. ASSUME NEW e, NEW p, e.state = "pend" PROVE Image(e, p) = RM!Entry(e.id, e.region)
  <2>1. Image(e, p) = [id |-> e.id, pc |-> e.region, data |-> NoData, zombie |-> e.state = "zombie"]
    BY <1>1 DEF Image
  <2>2. (e.state = "zombie") = FALSE
    BY <1>1
  <2>3. QED
    BY <2>1, <2>2 DEF RM!Entry
<1>2. ASSUME NEW q, NEW e, NEW f, NEW p, NEW v, e.state \in {"pend", "zombie"},
             f.id = e.id, f.region = e.region, q.resp.data = v,
             f.state = (IF e.state = "zombie" THEN "free" ELSE "ready")
      PROVE  RM!Response(q, Image(e, p)) = Image(f, v)
  <2>1. CASE e.state = "zombie"
    <3>1. Image(f, v) = None /\ Image(e, p).zombie
      BY <1>2, <2>1, ImageForm
    <3>2. QED
      BY <3>1 DEF RM!Response
  <2>2. CASE e.state = "pend"
    <3> DEFINE x == [id |-> e.id, pc |-> e.region, data |-> NoData, zombie |-> FALSE]
    <3>1. Image(e, p) = x
      BY <1>1, <2>2 DEF RM!Entry
    <3>2. ~x.zombie /\ [x EXCEPT !.data = v] = [id |-> e.id, pc |-> e.region, data |-> v, zombie |-> FALSE]
      <4>1. \A y, z : LET u == [id |-> e.id, pc |-> e.region, data |-> y, zombie |-> z]
                      IN /\ u.zombie = z
                         /\ [u EXCEPT !.data = v] = [id |-> e.id, pc |-> e.region, data |-> v, zombie |-> z]
        OBVIOUS
      <4>2. QED
        BY <4>1, Zenon
    <3>3. RM!Response(q, x) = [x EXCEPT !.data = v]
      BY <3>2, <1>2 DEF RM!Response
    <3>4. f.state = "ready" /\ f.state # "zombie" /\ f.state # "free"
      BY <1>2, <2>2
    <3>5. (f.state = "zombie") = FALSE
      BY <3>4
    <3>6. Image(f, v) = [id |-> e.id, pc |-> e.region, data |-> v, zombie |-> FALSE]
      BY <3>4, <3>5, <1>2 DEF Image
    <3>7. QED
      BY <3>1, <3>2, <3>3, <3>6
  <2>3. QED
    BY <1>2, <2>1, <2>2
<1>3. ASSUME NEW e, NEW f, NEW p, e.state \in {"pend", "ready"}, f.state = DeadState(e.state),
             f.id = e.id, f.region = e.region, p \in BOOLEAN
      PROVE  RM!Remains(Image(e, p)) = Image(f, p)
  <2>1. CASE e.state = "ready"
    <3>1. f.state = "free"
      BY <1>3, <2>1 DEF DeadState
    <3>2. Image(f, p) = None /\ Image(e, p).data = p
      BY <2>1, <3>1, ImageForm
    <3>3. p # NoData
      BY <1>3, NoDataAssumption
    <3>4. QED
      BY <3>2, <3>3 DEF RM!Remains
  <2>2. CASE e.state = "pend"
    <3> DEFINE x == [id |-> e.id, pc |-> e.region, data |-> NoData, zombie |-> FALSE]
    <3>1. Image(e, p) = x
      BY <1>1, <2>2 DEF RM!Entry
    <3>2. x.data = NoData /\ [x EXCEPT !.zombie = TRUE] = [id |-> e.id, pc |-> e.region, data |-> NoData, zombie |-> TRUE]
      <4>1. \A y, z, t : LET u == [id |-> e.id, pc |-> e.region, data |-> y, zombie |-> z]
                         IN /\ u.data = y
                            /\ [u EXCEPT !.zombie = t] = [id |-> e.id, pc |-> e.region, data |-> y, zombie |-> t]
        OBVIOUS
      <4>2. QED
        BY <4>1, Zenon
    <3>3. RM!Remains(x) = [x EXCEPT !.zombie = TRUE]
      BY <3>2 DEF RM!Remains
    <3>4. f.state = "zombie"
      BY <1>3, <2>2 DEF DeadState
    <3>5. (f.state = "zombie") = TRUE
      BY <3>4
    <3>6. Image(f, p) = [id |-> e.id, pc |-> e.region, data |-> NoData, zombie |-> TRUE]
      BY <3>4, <3>5, <1>3 DEF Image
    <3>7. QED
      BY <3>1, <3>2, <3>3, <3>6
  <2>3. QED
    BY <1>3, <2>1, <2>2
<1>4. QED
  BY <1>1, <1>2, <1>3

(* An answer is for a slot that waits for one, and that is not the one     *)
(* being reserved.                                                         *)
LEMMA AnswerIn ==
  ASSUME NEW i \in Inputs, i.resp # None, NEW r,
         r # None => slots[r.slot].state = "free"
  PROVE  /\ i.resp.slot \in DOMAIN slots /\ slots[i.resp.slot].state \in {"pend", "zombie"}
         /\ ~Taken(r, i.resp.slot) /\ Filled(r, i.resp.slot) = slots[i.resp.slot]
<1>1. i.resp \in Answers
  BY InputForm
<1>2. i.resp.slot \in DOMAIN slots /\ slots[i.resp.slot].state \in {"pend", "zombie"}
  BY <1>1 DEF Answers
<1>3. ~Taken(r, i.resp.slot)
  BY <1>2 DEF Taken
<1>4. QED
  BY <1>2, <1>3 DEF Filled

(* The slots with the reservation and with the answer of the cycle.        *)
LEMMA SlotsSeenForm ==
  ASSUME NEW d, PlacesHold(d), NEW i, NEW a, Cycle(i, a), NEW r, NEW q, Brings(i, a, r, q)
  PROVE  /\ DOMAIN SlotsSeen = DOMAIN slots
         /\ \A s \in DOMAIN slots : SlotsSeen[s] = Image(slots[s], payload[s])
         /\ \A s \in DOMAIN slots : RM!Reserved(q)[s] = Image(Filled(r, s), payload[s])
         /\ \A s \in DOMAIN slots : RM!Answered(q)[s] = Image(Answered(i, r, s), payload'[s])
<1>1. /\ SlotsForm /\ i \in Inputs /\ QueueStep(i, a, r, FirePush(i, a))
      /\ r # None => r.slot \in DOMAIN slots /\ slots[r.slot].state = "free"
  BY CycleForm DEF PlacesHold, Cycle, Brings
<1>2. /\ q.reserve = None <=> r = None
      /\ r # None => q.reserve.slot = r.slot /\ q.reserve.id = ftq[r.k].id /\ q.reserve.pc = ftq[r.k].region
      /\ q.resp = None <=> i.resp = None
      /\ i.resp # None => q.resp.slot = i.resp.slot
  BY ReserveSeen, AnswerSeen
<1>3. DOMAIN SlotsSeen = DOMAIN slots /\ \A s \in DOMAIN slots : SlotsSeen[s] = Image(slots[s], payload[s])
  BY DEF SlotsSeen
<1>4. /\ DOMAIN RM!Reserved(q) = DOMAIN slots
      /\ \A s \in DOMAIN slots : RM!Reserved(q)[s] = Image(Filled(r, s), payload[s])
  <2>1. RM!Reserved(q) = IF q.reserve = None THEN SlotsSeen
               ELSE [SlotsSeen EXCEPT ![q.reserve.slot] = RM!Entry(q.reserve.id, q.reserve.pc)]
    BY ModelForm
  <2>2. CASE r = None
    <3>1. RM!Reserved(q) = SlotsSeen
      BY <2>1, <2>2, <1>2
    <3>2. \A s : Filled(r, s) = slots[s]
      BY <2>2 DEF Filled, Taken
    <3>3. QED
      BY <3>1, <3>2, <1>3
  <2>3. CASE r # None
    <3> DEFINE e == [state |-> "pend", id |-> ftq[r.k].id, region |-> ftq[r.k].region]
    <3>1. RM!Reserved(q) = [SlotsSeen EXCEPT ![r.slot] = RM!Entry(ftq[r.k].id, ftq[r.k].region)]
      <4>1. q.reserve # None
        BY <2>3, <1>2
      <4>2. q.reserve.slot = r.slot /\ q.reserve.id = ftq[r.k].id /\ q.reserve.pc = ftq[r.k].region
        BY <2>3, <1>2
      <4>3. RM!Reserved(q) = [SlotsSeen EXCEPT ![q.reserve.slot] = RM!Entry(q.reserve.id, q.reserve.pc)]
        BY <2>1, <4>1, Zenon
      <4>4. QED
        BY <4>2, <4>3, Zenon
    <3>2. /\ e.state = "pend" /\ e.id = ftq[r.k].id /\ e.region = ftq[r.k].region
          /\ \A s : Filled(r, s) = IF r.slot = s THEN e ELSE slots[s]
      BY <2>3 DEF Filled, Taken
    <3> HIDE DEF e
    <3>3. \A p : Image(e, p) = RM!Entry(ftq[r.k].id, ftq[r.k].region)
      BY <3>2, EntrySeen
    <3>4. ASSUME NEW s \in DOMAIN slots PROVE RM!Reserved(q)[s] = Image(Filled(r, s), payload[s])
      BY <3>1, <3>2, <3>3, <1>3
    <3>5. DOMAIN RM!Reserved(q) = DOMAIN slots
      BY <3>1, <1>3
    <3>6. QED
      BY <3>4, <3>5
  <2>4. QED
    BY <2>2, <2>3
<1>5. /\ RM!Answered(q) = IF q.resp = None THEN RM!Reserved(q)
                          ELSE [RM!Reserved(q) EXCEPT
                                  ![q.resp.slot] = RM!Response(q, RM!Reserved(q)[q.resp.slot])]
  BY DEF RM!Answered
<1>6. payload' = IF i.resp = None THEN payload
                 ELSE [payload EXCEPT ![i.resp.slot] = slots[i.resp.slot].region \in Fault]
  BY <1>1, QueueStepForm
<1>7. ASSUME NEW s \in DOMAIN slots PROVE RM!Answered(q)[s] = Image(Answered(i, r, s), payload'[s])
  <2>1. CASE i.resp = None
    <3>1. RM!Answered(q)[s] = RM!Reserved(q)[s] /\ payload'[s] = payload[s]
      BY <2>1, <1>2, <1>5, <1>6
    <3>2. Answered(i, r, s) = Filled(r, s)
      BY <2>1 DEF Answered
    <3>3. QED
      BY <3>1, <3>2, <1>4
  <2>2. CASE i.resp # None /\ i.resp.slot # s
    <3>1. RM!Answered(q)[s] = RM!Reserved(q)[s]
      <4>1. q.resp # None /\ q.resp.slot # s
        BY <2>2, <1>2
      <4>2. QED
        BY <4>1, <1>4, <1>5
    <3>2. Answered(i, r, s) = Filled(r, s)
      BY <2>2 DEF Answered
    <3>3. payload'[s] = payload[s]
      <4> DEFINE v == slots[i.resp.slot].region \in Fault
      <4>1. payload' = [payload EXCEPT ![i.resp.slot] = v]
        BY <1>6, <2>2
      <4> HIDE DEF v
      <4>2. s \in DOMAIN payload
        BY <1>1 DEF SlotsForm
      <4>3. QED
        BY <4>1, <4>2, <2>2
    <3>4. QED
      BY <3>1, <3>2, <3>3, <1>4
  <2>3. CASE i.resp # None /\ i.resp.slot = s
    <3> DEFINE v == slots[i.resp.slot].region \in Fault
    <3>1. slots[s].state \in {"pend", "zombie"} /\ Filled(r, s) = slots[s]
      BY <2>3, <1>1, AnswerIn
    <3>2. payload'[s] = v
      <4>1. payload' = [payload EXCEPT ![i.resp.slot] = v]
        BY <1>6, <2>3
      <4> HIDE DEF v
      <4>2. s \in DOMAIN payload
        BY <1>1 DEF SlotsForm
      <4>3. QED
        BY <4>1, <4>2, <2>3
    <3>3. Answered(i, r, s) = [slots[s] EXCEPT !.state = IF slots[s].state = "zombie" THEN "free" ELSE "ready"]
      BY <2>3, <3>1 DEF Answered
    <3>4. DOMAIN slots[s] = SlotFields
      BY <1>1 DEF SlotsForm
    <3>5. /\ Answered(i, r, s).id = slots[s].id /\ Answered(i, r, s).region = slots[s].region
          /\ Answered(i, r, s).state = IF slots[s].state = "zombie" THEN "free" ELSE "ready"
      BY <3>3, <3>4 DEF SlotFields
    <3>6. q.resp # None /\ q.resp.slot = s
      BY <2>3, <1>2
    <3>7. q.resp.data = v
      BY <2>3, AnswerSeen, Zenon
    <3> HIDE DEF v
    <3>8. RM!Answered(q)[s] = RM!Response(q, RM!Reserved(q)[s])
      BY <3>6, <1>4, <1>5
    <3>9. RM!Reserved(q)[s] = Image(slots[s], payload[s])
      BY <3>1, <1>4
    <3>10. RM!Response(q, Image(slots[s], payload[s])) = Image(Answered(i, r, s), v)
      BY <3>1, <3>5, <3>7, EntrySeen
    <3>11. QED
      BY <3>2, <3>8, <3>9, <3>10
  <2>4. QED
    BY <2>1, <2>2, <2>3
<1>8. QED
  BY <1>3, <1>4, <1>7


(* The model kills by the distance from the head what fe_before kills.     *)
LEMMA KilledSeen ==
  ASSUME QueueForm, NEW a, Cuts(a), NEW q, q.kill = a, q.head = ftqHead,
         NEW p \in DOMAIN ftq, NEW e, e.id = ftq[p].id
  PROVE  RM!Killed(q, e) <=> KilledBy(a, ftq[p].id, 0)
<1>1. ASSUME NEW k \in DOMAIN ftq PROVE RM!Age(ftq[k].id, ftqHead) = k - 1
  <2>1. /\ FtqDepth \in Nat \ {0} /\ ftqHead \in 0 .. FtqDepth - 1 /\ k - 1 \in 0 .. FtqDepth - 1
    BY Placed
  <2>2. ftq[k].id = IdAt(ftqHead, gen, k)
    BY DEF QueueForm
  <2>3. ftq[k].id.idx = (ftqHead + (k - 1)) % FtqDepth
    BY <2>2 DEF IdAt, RingAt
  <2>4. (((ftqHead + (k - 1)) % FtqDepth) - ftqHead) % FtqDepth = k - 1
    BY <2>1, RingAge
  <2>5. QED
    BY <2>3, <2>4 DEF RM!Age
<1>2. RM!Killed(q, e) <=> a # None /\ (a.all \/ RM!Age(e.id, ftqHead) > RM!Age(a.id, ftqHead))
  BY DEF RM!Killed
<1>3. CASE a = None
  BY <1>2, <1>3 DEF KilledBy
<1>4. CASE a # None /\ a.all
  BY <1>2, <1>4 DEF KilledBy
<1>5. CASE a # None /\ ~a.all
  <2>1. Keep(a) \in DOMAIN ftq /\ a.id = ftq[Keep(a)].id
    BY <1>5, CutAt
  <2>2. KilledBy(a, ftq[p].id, 0) <=> p > Keep(a)
    BY CutAt
  <2>3. RM!Age(e.id, ftqHead) = p - 1
    BY <1>1
  <2>4. RM!Age(a.id, ftqHead) = Keep(a) - 1
    BY <1>1, <2>1
  <2>5. p \in Nat /\ Keep(a) \in Nat
    BY <2>1, Placed
  <2>6. p - 1 > Keep(a) - 1 <=> p > Keep(a)
    BY <2>5
  <2>7. QED
    BY <1>2, <1>5, <2>2, <2>3, <2>4, <2>6
<1>6. QED
  BY <1>3, <1>4, <1>5

(* A kill is seen at the same slots and takes a suffix of the order.       *)
LEMMA DeadSeen ==
  ASSUME NEW d, PlacesHold(d), NEW i, NEW a, Cycle(i, a), NEW r, NEW q, Brings(i, a, r, q)
  PROVE  /\ RM!Queued(q) = Queued(r)
         /\ \A s \in DOMAIN slots : RM!Dead(q, s) <=> Dying(a, r, s)
         /\ RM!Live(q) = Alive(a, r) /\ RM!Live(q) = 1 .. Cut(a, d, r)
<1>1. /\ QueueForm /\ SlotsForm /\ i \in Inputs /\ Cuts(a) /\ QueuedForm(d, r) /\ d \in 0 .. Len(ftq)
      /\ r # None => r.slot \in DOMAIN slots /\ slots[r.slot].state = "free"
  BY CycleForm DEF PlacesHold, Cycle, Brings
<1>2. /\ q.kill = a /\ q.head = ftqHead
      /\ q.reserve = None <=> r = None
      /\ r # None => q.reserve.slot = r.slot
  BY KillSeen, ReserveSeen
<1>3. RM!Queued(q) = Queued(r)
  BY <1>2 DEF RM!Queued, Queued
<1> DEFINE u == Queued(r)
<1>4. /\ \A n \in DOMAIN u : /\ u[n] \in DOMAIN slots /\ Owner(r, u[n]) = ftq[d + n].id
                             /\ Live(slots[u[n]].state) \/ Taken(r, u[n])
      /\ \A s \in DOMAIN slots : Live(slots[s].state) \/ Taken(r, s) => \E n \in DOMAIN u : u[n] = s
  BY <1>1 DEF QueuedForm
<1>5. /\ Cut(a, d, r) \in Nat /\ Cut(a, d, r) <= Len(u) /\ Len(u) \in Nat
      /\ \A n \in DOMAIN u : n <= Cut(a, d, r) <=> d + n <= Keep(a)
  BY <1>1, CutForm
<1>6. DOMAIN u = 1 .. Len(u) /\ d + Len(u) <= Len(ftq)
  BY <1>1, SequenceIs DEF QueuedForm
<1>7. \A n \in DOMAIN u : d + n \in DOMAIN ftq
  BY <1>1, <1>5, <1>6, Placed
<1> HIDE DEF u
<1>8. ASSUME NEW s \in DOMAIN slots, NEW n \in DOMAIN u, u[n] = s
      PROVE  /\ RM!Killed(q, RM!Answered(q)[s]) <=> KilledBy(a, ftq[d + n].id, 0)
             /\ Owner(r, s) = ftq[d + n].id
  <2> DEFINE w == Answered(i, r, s)
  <2>1. RM!Answered(q)[s] = Image(w, payload'[s])
    BY SlotsSeenForm
  <2>2. /\ w.id = Owner(r, s)
        /\ w.state = IF i.resp # None /\ i.resp.slot = s
                     THEN (IF slots[s].state = "zombie" THEN "free" ELSE "ready")
                     ELSE IF Taken(r, s) THEN "pend" ELSE slots[s].state
        /\ Taken(r, s) => slots[s].state = "free"
    BY <1>1, AnsweredForm
  <2>3. Owner(r, s) = ftq[d + n].id /\ (Live(slots[s].state) \/ Taken(r, s))
    BY <1>4, <1>8
  <2> HIDE DEF w
  <2>4. w.state # "free"
    BY <2>2, <2>3 DEF Live
  <2>5. RM!Answered(q)[s].id = ftq[d + n].id
    BY <2>1, <2>2, <2>3, <2>4, ImageForm
  <2>6. d + n \in DOMAIN ftq
    BY <1>7
  <2>7. QED
    BY <2>3, <2>5, <2>6, <1>1, <1>2, KilledSeen
<1>9. ASSUME NEW s \in DOMAIN slots PROVE RM!Dead(q, s) <=> Dying(a, r, s)
  <2>1. RM!Dead(q, s) <=> /\ a # None /\ s \in {u[n] : n \in DOMAIN u}
                          /\ RM!Killed(q, RM!Answered(q)[s])
    BY <1>2, <1>3, Zenon DEF RM!Dead, u
  <2>2. Dying(a, r, s) <=> (Live(slots[s].state) \/ Taken(r, s)) /\ KilledBy(a, Owner(r, s), 0)
    BY DEF Dying, Live
  <2>3. CASE \E n \in DOMAIN u : u[n] = s
    <3>1. PICK n \in DOMAIN u : u[n] = s
      BY <2>3
    <3>2. KilledBy(a, Owner(r, s), 0) => a # None
      BY DEF KilledBy
    <3>3. QED
      BY <2>1, <2>2, <3>1, <3>2, <1>4, <1>8
  <2>4. CASE ~\E n \in DOMAIN u : u[n] = s
    BY <2>1, <2>2, <2>4, <1>4
  <2>5. QED
    BY <2>3, <2>4
<1>10. ASSUME NEW n \in DOMAIN u
       PROVE  /\ RM!Dead(q, u[n]) <=> KilledBy(a, Owner(r, u[n]), 0)
              /\ RM!Dead(q, u[n]) <=> ~(n <= Cut(a, d, r))
  <2>1. u[n] \in DOMAIN slots /\ (Live(slots[u[n]].state) \/ Taken(r, u[n]))
    BY <1>4
  <2>2. RM!Dead(q, u[n]) <=> KilledBy(a, Owner(r, u[n]), 0)
    BY <1>9, <2>1 DEF Dying, Live
  <2>3. Owner(r, u[n]) = ftq[d + n].id /\ d + n \in DOMAIN ftq
    BY <1>4, <1>7
  <2>4. KilledBy(a, ftq[d + n].id, 0) <=> d + n > Keep(a)
    BY <2>3, <1>1, CutAt
  <2>5. d + n \in Nat /\ Keep(a) \in Nat
    <3>1. Keep(a) \in 0 .. Len(ftq) /\ Len(ftq) \in Nat
      BY <1>1, CutAt, Placed
    <3>2. QED
      BY <2>3, <3>1, <1>1, Placed
  <2>6. n <= Cut(a, d, r) <=> d + n <= Keep(a)
    BY <1>5
  <2>7. QED
    BY <2>2, <2>3, <2>4, <2>5, <2>6
<1>11. RM!Live(q) = {n \in DOMAIN u : ~RM!Dead(q, u[n])}
  BY <1>3, Zenon DEF RM!Live, u
<1>12. Alive(a, r) = {n \in DOMAIN u : ~KilledBy(a, Owner(r, u[n]), 0)}
  BY DEF Alive, u
<1>13. RM!Live(q) = Alive(a, r)
  BY <1>10, <1>11, <1>12
<1>14. RM!Live(q) = 1 .. Cut(a, d, r)
  <2>1. \A n : n \in 1 .. Cut(a, d, r) => n \in DOMAIN u /\ n <= Cut(a, d, r)
    BY <1>5, <1>6
  <2>2. \A n \in DOMAIN u : n <= Cut(a, d, r) => n \in 1 .. Cut(a, d, r)
    BY <1>5, <1>6
  <2>3. \A n : n \in RM!Live(q) <=> n \in 1 .. Cut(a, d, r)
    BY <1>10, <1>11, <2>1, <2>2
  <2>4. QED
    BY <2>3
<1>15. QED
  BY <1>3, <1>9, <1>13, <1>14 DEF u


(* The model hands its output on when the RTL does.                        *)
LEMMA TakenSeen ==
  ASSUME NEW i, NEW a, NEW r, NEW q, Brings(i, a, r, q)
  PROVE  /\ OutSeen = None <=> out = None
         /\ \A e : RM!Refresh(q, e) <=> e # None /\ Refreshed(i, e.id)
         /\ RM!Refresh(q, OutSeen) <=> out # None /\ Refreshed(i, out.id)
         /\ RM!Taken(q) <=> FirePush(i, a)
<1> DEFINE v == [id |-> out.id, pc |-> out.brief.region, data |-> out.exc, zombie |-> FALSE]
<1>1. OutSeen = IF out = None THEN None ELSE v
  BY Zenon DEF OutSeen
<1>2. v # None
  BY SomeRecord
<1>3. v.id = out.id
  OBVIOUS
<1> HIDE DEF v
<1>4. OutSeen = None <=> out = None
  BY <1>1, <1>2
<1>5. q.kill = a /\ q.updated = Updated(i)
  BY KillSeen
<1>6. \A e : RM!Refresh(q, e) <=> e # None /\ Refreshed(i, e.id)
  BY <1>5 DEF RM!Refresh, Refreshed
<1>7. RM!Refresh(q, OutSeen) <=> out # None /\ Refreshed(i, out.id)
  BY <1>1, <1>2, <1>3, <1>6
<1>8. RM!Deq(q) <=> OutSeen # None /\ q.kill = None /\ ~RM!Refresh(q, OutSeen)
  BY ModelForm, Zenon
<1>9. RM!Taken(q) <=> RM!Deq(q) /\ q.deqReady
  BY Zenon DEF RM!Taken
<1>10. q.deqReady <=> boundary = None /\ Len(beats) < 2
  BY ReadySeen
<1>11. FirePush(i, a) <=> out # None /\ a = None /\ ~Refreshed(i, out.id) /\ boundary = None /\ Len(beats) < 2
  BY Zenon DEF FirePush, DeqValid
<1>12. RM!Taken(q) <=> FirePush(i, a)
  BY <1>4, <1>5, <1>7, <1>8, <1>9, <1>10, <1>11, Zenon
<1>13. QED
  BY <1>4, <1>6, <1>7, <1>12

(* The order after a cycle; when F0 takes the output nothing is killed.    *)
LEMMA OrderSeen ==
  ASSUME NEW d, PlacesHold(d), NEW i, NEW a, Cycle(i, a), NEW r, NEW q, Brings(i, a, r, q)
  PROVE  /\ order' = IF RM!Taken(q) THEN Tail(RM!Kept(q)) ELSE RM!Kept(q)
         /\ FirePush(i, a) => RM!Kept(q)[1] = order[1] /\ order[1] \in DOMAIN slots
<1>1. /\ QueueForm /\ OrderForm(d) /\ OutForm(d) /\ d \in 0 .. Len(ftq) /\ Cuts(a)
      /\ QueuedForm(d, r) /\ QueueStep(i, a, r, FirePush(i, a))
  BY CycleForm DEF PlacesHold, Cycle, Brings
<1>2. RM!Queued(q) = Queued(r) /\ RM!Live(q) = Alive(a, r) /\ RM!Live(q) = 1 .. Cut(a, d, r)
  BY DeadSeen
<1>3. RM!Kept(q) = SubSeq(Queued(r), 1, Cardinality(Alive(a, r)))
  BY <1>2, Zenon DEF RM!Kept, RM!Cardinality, Cardinality
<1>4. order' = IF FirePush(i, a) THEN Tail(Queued(r))
               ELSE SubSeq(Queued(r), 1, Cardinality(Alive(a, r)))
  BY <1>1, QueueStepForm
<1>5. RM!Taken(q) <=> FirePush(i, a)
  BY TakenSeen
<1>6. ASSUME FirePush(i, a)
      PROVE  RM!Kept(q) = Queued(r) /\ Queued(r)[1] = order[1] /\ order[1] \in DOMAIN slots
  <2>1. a = None /\ out # None
    BY <1>6 DEF FirePush, DeqValid
  <2>2. /\ Cut(a, d, r) = Len(Queued(r)) /\ Len(Queued(r)) \in Nat
    BY <1>1, <2>1, CutForm
  <2>3. Cardinality(Alive(a, r)) = Len(Queued(r))
    <3>1. 1 \in Int /\ Len(Queued(r)) \in Int
      BY <2>2
    <3>2. Cardinality(1 .. Len(Queued(r))) = IF 1 > Len(Queued(r)) THEN 0 ELSE Len(Queued(r)) - 1 + 1
      BY <3>1, FS_Interval
    <3>3. Alive(a, r) = 1 .. Len(Queued(r))
      BY <1>2, <2>2
    <3>4. QED
      BY <2>2, <3>2, <3>3
  <2>4. IsSequence(Queued(r))
    BY <1>1 DEF QueuedForm
  <2>5. SubSeq(Queued(r), 1, Len(Queued(r))) = Queued(r)
    <3> DEFINE u == Queued(r)
    <3>1. u \in Seq({u[k] : k \in DOMAIN u})
      BY <2>4 DEF IsSequence
    <3> HIDE DEF u
    <3>2. SubSeq(u, 1, Len(u)) = u
      BY <3>1
    <3>3. QED
      BY <3>2 DEF u
  <2>6. Len(order) > 0 /\ Len(order) \in Nat /\ DOMAIN order = 1 .. Len(order)
    BY <1>1, <2>1, SequenceIs DEF OutForm, OrderForm
  <2>7. 1 \in DOMAIN order
    BY <2>6
  <2>8. Queued(r)[1] = order[1] /\ order[1] \in DOMAIN slots
    BY <1>1, <2>7 DEF QueuedForm, OrderForm
  <2>9. QED
    BY <1>3, <2>3, <2>5, <2>8
<1>7. CASE FirePush(i, a)
  BY <1>4, <1>5, <1>6, <1>7
<1>8. CASE ~FirePush(i, a)
  BY <1>3, <1>4, <1>5, <1>8
<1>9. QED
  BY <1>7, <1>8


(* The slots after a cycle.                                                *)
LEMMA CutSeen ==
  ASSUME NEW d, PlacesHold(d), NEW i, NEW a, Cycle(i, a), NEW r, NEW q, Brings(i, a, r, q)
  PROVE  SlotsSeen' = IF RM!Taken(q) THEN [RM!Cut(q) EXCEPT ![RM!Kept(q)[1]] = None] ELSE RM!Cut(q)
<1>1. /\ QueueForm /\ SlotsForm /\ i \in Inputs /\ Cuts(a) /\ QueueStep(i, a, r, FirePush(i, a))
      /\ r # None => r.slot \in DOMAIN slots /\ slots[r.slot].state = "free"
  BY CycleForm DEF PlacesHold, Cycle, Brings
<1>2. DOMAIN slots' = DOMAIN slots
  BY <1>1, QueueStepForm
<1>3. SlotsSeen' = [s \in DOMAIN slots |-> Image(slots'[s], payload'[s])]
  <2>1. SlotsSeen' = [s \in DOMAIN slots' |-> Image(slots'[s], payload'[s])]
    BY Zenon DEF SlotsSeen, Image
  <2>2. QED
    BY <1>2, <2>1
<1>4. RM!Taken(q) <=> FirePush(i, a)
  BY TakenSeen
<1>5. /\ RM!Cut(q) = [s \in DOMAIN slots |-> RM!Cut(q)[s]]
      /\ \A s \in DOMAIN slots : RM!Cut(q)[s] =
           IF RM!Dead(q, s) THEN RM!Remains(RM!Answered(q)[s]) ELSE RM!Answered(q)[s]
  <2>1. RM!Cut(q) = [s \in DOMAIN SlotsSeen |->
                       IF RM!Dead(q, s) THEN RM!Remains(RM!Answered(q)[s]) ELSE RM!Answered(q)[s]]
    BY ModelForm, Zenon
  <2>2. DOMAIN SlotsSeen = DOMAIN slots
    BY SlotsSeenForm
  <2>3. QED
    BY <2>1, <2>2
<1>6. ASSUME NEW s \in DOMAIN slots
      PROVE  Image(slots'[s], payload'[s]) = IF FirePush(i, a) /\ s = order[1] THEN None ELSE RM!Cut(q)[s]
  <2> DEFINE w == Answered(i, r, s)
  <2> DEFINE y == slots'[s]
  <2>1. /\ DOMAIN w = SlotFields
        /\ w.state = IF i.resp # None /\ i.resp.slot = s
                     THEN (IF slots[s].state = "zombie" THEN "free" ELSE "ready")
                     ELSE IF Taken(r, s) THEN "pend" ELSE slots[s].state
        /\ i.resp # None /\ i.resp.slot = s => slots[s].state \in {"pend", "zombie"} /\ ~Taken(r, s)
        /\ Taken(r, s) => slots[s].state = "free"
    BY <1>1, AnsweredForm
  <2>2. y = IF FirePush(i, a) /\ s = order[1] THEN [w EXCEPT !.state = "free"]
            ELSE IF Dying(a, r, s) THEN [w EXCEPT !.state = DeadState(w.state)] ELSE w
    BY <1>1, QueueStepForm
  <2>3. RM!Answered(q)[s] = Image(w, payload'[s])
    BY SlotsSeenForm
  <2>4. RM!Dead(q, s) <=> Dying(a, r, s)
    BY DeadSeen
  <2>5. payload'[s] \in BOOLEAN
    BY <1>1, SlotNext
  <2>6. Dying(a, r, s) => Live(slots[s].state) \/ Taken(r, s)
    BY DEF Dying, Live
  <2> HIDE DEF w, y
  <2>7. CASE FirePush(i, a) /\ s = order[1]
    <3>1. y = [w EXCEPT !.state = "free"]
      BY <2>2, <2>7
    <3>2. y.state = "free"
      BY <3>1, <2>1 DEF SlotFields
    <3>3. QED
      BY <2>7, <3>2, ImageForm DEF y
  <2>8. CASE ~(FirePush(i, a) /\ s = order[1]) /\ Dying(a, r, s)
    <3>1. w.state \in {"pend", "ready"}
      BY <2>1, <2>6, <2>8 DEF Live
    <3>2. y = [w EXCEPT !.state = DeadState(w.state)]
      BY <2>2, <2>8
    <3>3. y.state = DeadState(w.state) /\ y.id = w.id /\ y.region = w.region
      BY <3>2, <2>1 DEF SlotFields
    <3>4. RM!Remains(Image(w, payload'[s])) = Image(y, payload'[s])
      BY <3>1, <3>3, <2>5, EntrySeen
    <3>5. RM!Cut(q)[s] = RM!Remains(RM!Answered(q)[s])
      BY <1>5, <2>4, <2>8
    <3>6. QED
      BY <2>3, <2>8, <3>4, <3>5 DEF y
  <2>9. CASE ~(FirePush(i, a) /\ s = order[1]) /\ ~Dying(a, r, s)
    <3>1. y = w
      BY <2>2, <2>9
    <3>2. RM!Cut(q)[s] = RM!Answered(q)[s]
      BY <1>5, <2>4, <2>9
    <3>3. QED
      BY <2>3, <2>9, <3>1, <3>2 DEF y
  <2>10. QED
    BY <2>7, <2>8, <2>9
<1>7. CASE FirePush(i, a)
  <2>1. RM!Kept(q)[1] = order[1] /\ order[1] \in DOMAIN slots
    BY <1>7, OrderSeen
  <2>2. [RM!Cut(q) EXCEPT ![order[1]] = None] =
          [s \in DOMAIN slots |-> IF s = order[1] THEN None ELSE RM!Cut(q)[s]]
    BY <1>5, <2>1
  <2>3. SlotsSeen' = [s \in DOMAIN slots |-> IF s = order[1] THEN None ELSE RM!Cut(q)[s]]
    BY <1>3, <1>6, <1>7
  <2>4. QED
    BY <1>4, <1>7, <2>1, <2>2, <2>3
<1>8. CASE ~FirePush(i, a)
  BY <1>3, <1>4, <1>5, <1>6, <1>8
<1>9. QED
  BY <1>7, <1>8

(* The output after a cycle: the model's brief entry is the slot the RTL   *)
(* reads ahead.                                                            *)
LEMMA OutputSeen ==
  ASSUME NEW d, PlacesHold(d), NEW i, NEW a, Cycle(i, a), NEW r, NEW q, Brings(i, a, r, q)
  PROVE  OutSeen' = RM!NextOutput(q)
<1>1. /\ QueueForm /\ SlotsForm /\ OrderForm(d) /\ d \in 0 .. Len(ftq)
      /\ QueueStep(i, a, r, FirePush(i, a))
  BY CycleForm DEF PlacesHold, Cycle, Brings
<1> DEFINE s == slots[Snapshot]
<1> DEFINE p == payload[Snapshot]
<1> DEFINE c == RM!BriefEntry
<1>2. out' = IF a # None \/ (out # None /\ Refreshed(i, out.id)) THEN None
             ELSE IF (out = None \/ FirePush(i, a)) /\ SnapshotReady(i)
             THEN [id |-> s.id, exc |-> p, brief |-> Brief(s.id)]
             ELSE IF FirePush(i, a) THEN None ELSE out
  BY <1>1, QueueStepForm
<1>3. /\ OutSeen = None <=> out = None
      /\ \A e : RM!Refresh(q, e) <=> e # None /\ Refreshed(i, e.id)
      /\ RM!Refresh(q, OutSeen) <=> out # None /\ Refreshed(i, out.id)
      /\ RM!Taken(q) <=> FirePush(i, a)
  BY TakenSeen
<1>4. c = IF Len(order) >= Ahead THEN SlotsSeen[Snapshot] ELSE None
  <2>1. c = LET n == IF OutSeen # None THEN 2 ELSE 1
            IN IF Len(order) >= n THEN SlotsSeen[order[n]] ELSE None
    BY ModelForm, Zenon
  <2>2. Ahead = IF OutSeen # None THEN 2 ELSE 1
    BY <1>3, Zenon DEF Ahead
  <2>3. QED
    BY <2>1, <2>2, Zenon DEF Snapshot
<1>5. q.kill = a
  BY KillSeen
<1>6. q.briefDone = IF Len(order) >= Ahead /\ \E k \in EntryOf(s.id) : SlowDone(k) THEN s.id ELSE None
  BY BriefSeen, Zenon
<1>7. SnapshotReady(i) <=> /\ Len(order) >= Ahead /\ s.state = "ready"
                           /\ \E k \in EntryOf(s.id) : SlowDone(k)
                           /\ ~Refreshed(i, s.id)
  BY Zenon DEF SnapshotReady
<1>8. ASSUME Len(order) >= Ahead
      PROVE  /\ c = Image(s, p) /\ p # NoData /\ s.id # None
             /\ Brief(s.id).region = s.region
  <2>1. Ahead \in {1, 2}
    BY DEF Ahead
  <2>2. Len(order) \in Nat /\ DOMAIN order = 1 .. Len(order)
    BY <1>1, SequenceIs DEF OrderForm
  <2>3. Ahead \in DOMAIN order
    BY <1>8, <2>1, <2>2
  <2>4. Snapshot \in DOMAIN slots /\ s.id = ftq[d + Ahead].id /\ s.region = ftq[d + Ahead].region
    BY <1>1, <2>3 DEF OrderForm, Snapshot
  <2>5. d + Ahead \in DOMAIN ftq
    <3>1. d + Len(order) <= Len(ftq) /\ Len(ftq) \in Nat /\ DOMAIN ftq = 1 .. Len(ftq)
      BY <1>1, Placed DEF OrderForm
    <3>2. d \in Nat
      BY <1>1, <3>1
    <3>3. Ahead \in Nat /\ Ahead >= 1 /\ Ahead <= Len(order)
      BY <1>8, <2>1
    <3>4. QED
      BY <3>1, <3>2, <3>3, <2>2
  <2>6. c = Image(s, p)
    BY <1>4, <1>8, <2>4, SlotsSeenForm
  <2>7. p \in BOOLEAN
    BY <1>1, <2>4 DEF SlotsForm
  <2>8. ftq[d + Ahead].id = IdAt(ftqHead, gen, d + Ahead)
    BY <1>1, <2>5 DEF QueueForm
  <2>9. s.id # None
    BY <2>4, <2>8, SomeRecord DEF IdAt
  <2>10. Brief(s.id).region = s.region
    <3>1. Max(EntryOf(ftq[d + Ahead].id)) = d + Ahead
      BY <1>1, <2>5, LiveOne
    <3>2. Brief(s.id).region = ftq[Max(EntryOf(s.id))].region
      BY DEF Brief
    <3>3. QED
      BY <2>4, <3>1, <3>2
  <2>11. p # NoData
    BY <2>7, NoDataAssumption
  <2>12. QED
    BY <2>6, <2>7, <2>9, <2>10, <2>11
<1> HIDE DEF c, s, p
<1>9. c # None /\ c.data # NoData /\ q.briefDone = c.id /\ ~RM!Refresh(q, c) <=> SnapshotReady(i)
  <2>1. CASE ~(Len(order) >= Ahead)
    BY <1>4, <1>7, <2>1
  <2>2. CASE Len(order) >= Ahead /\ s.state = "free"
    <3>1. c = None
      BY <1>8, <2>2, ImageForm
    <3>2. QED
      BY <1>7, <2>2, <3>1
  <2>3. CASE Len(order) >= Ahead /\ s.state # "free"
    <3>1. c # None /\ c.id = s.id /\ c.data = IF s.state = "ready" THEN p ELSE NoData
      BY <1>8, <2>3, ImageForm
    <3>2. c.data # NoData <=> s.state = "ready"
      BY <1>8, <2>3, <3>1
    <3>3. q.briefDone = c.id <=> \E k \in EntryOf(s.id) : SlowDone(k)
      BY <1>6, <1>8, <2>3, <3>1
    <3>4. RM!Refresh(q, c) <=> Refreshed(i, s.id)
      BY <1>3, <3>1
    <3>5. QED
      BY <1>7, <2>3, <3>1, <3>2, <3>3, <3>4
  <2>4. QED
    BY <2>1, <2>2, <2>3
<1>10. OutSeen' = IF out' = None THEN None
                  ELSE [id |-> out'.id, pc |-> out'.brief.region, data |-> out'.exc, zombie |-> FALSE]
  BY Zenon DEF OutSeen
<1>11. RM!NextOutput(q) =
         IF a # None \/ (out # None /\ Refreshed(i, out.id)) THEN None
         ELSE IF (out = None \/ FirePush(i, a)) /\ SnapshotReady(i) THEN c
         ELSE IF FirePush(i, a) THEN None ELSE OutSeen
  <2>1. RM!NextOutput(q) =
          IF q.kill # None \/ RM!Refresh(q, OutSeen) THEN None
          ELSE IF /\ OutSeen = None \/ RM!Taken(q)
                  /\ c # None /\ c.data # NoData /\ q.briefDone = c.id /\ ~RM!Refresh(q, c)
               THEN c
          ELSE IF RM!Taken(q) THEN None ELSE OutSeen
    BY ModelForm, Zenon DEF c
  <2>2. QED
    BY <1>3, <1>5, <1>9, <2>1, Zenon
<1>12. CASE a # None \/ (out # None /\ Refreshed(i, out.id))
  BY <1>2, <1>10, <1>11, <1>12
<1>13. CASE ~(a # None \/ (out # None /\ Refreshed(i, out.id))) /\ (out = None \/ FirePush(i, a)) /\ SnapshotReady(i)
  <2> DEFINE y == [id |-> s.id, exc |-> p, brief |-> Brief(s.id)]
  <2>1. out' = y
    BY <1>2, <1>13, Zenon
  <2>2. y # None /\ y.id = s.id /\ y.exc = p /\ y.brief = Brief(s.id)
    BY SomeRecord
  <2> HIDE DEF y
  <2>3. Len(order) >= Ahead /\ s.state = "ready"
    BY <1>7, <1>13
  <2>4. OutSeen' = [id |-> s.id, pc |-> s.region, data |-> p, zombie |-> FALSE]
    <3>1. OutSeen' = [id |-> y.id, pc |-> y.brief.region, data |-> y.exc, zombie |-> FALSE]
      BY <1>10, <2>1, <2>2
    <3>2. y.brief.region = s.region
      BY <1>8, <2>2, <2>3
    <3>3. QED
      BY <2>2, <3>1, <3>2, Zenon
  <2>5. (s.state = "zombie") = FALSE /\ s.state # "free"
    BY <2>3
  <2>6. Image(s, p) = [id |-> s.id, pc |-> s.region, data |-> p, zombie |-> FALSE]
    BY <2>3, <2>5 DEF Image
  <2>7. RM!NextOutput(q) = Image(s, p)
    BY <1>8, <1>11, <1>13, <2>3
  <2>8. QED
    BY <2>4, <2>6, <2>7
<1>14. CASE ~(a # None \/ (out # None /\ Refreshed(i, out.id))) /\ ~((out = None \/ FirePush(i, a)) /\ SnapshotReady(i))
  <2>1. out' = IF FirePush(i, a) THEN None ELSE out
    BY <1>2, <1>14, Zenon
  <2>2. RM!NextOutput(q) = IF FirePush(i, a) THEN None ELSE OutSeen
    BY <1>11, <1>14, Zenon
  <2>3. CASE FirePush(i, a)
    BY <1>10, <2>1, <2>2, <2>3
  <2>4. CASE ~FirePush(i, a)
    <3>1. out' = out
      BY <2>1, <2>4
    <3>2. OutSeen' = OutSeen
      BY <1>10, <3>1, Zenon DEF OutSeen
    <3>3. QED
      BY <2>2, <2>4, <3>2
  <2>5. QED
    BY <2>3, <2>4
<1>15. QED
  BY <1>12, <1>13, <1>14

(* A reserved slot is free, an answer meets the request it is for.         *)
LEMMA MeetsSeen ==
  ASSUME NEW d, PlacesHold(d), NEW i, NEW a, Cycle(i, a), NEW r, NEW q, Brings(i, a, r, q)
  PROVE  /\ q.reserve # None => RM!Ready(q) /\ SlotsSeen[q.reserve.slot] = None
         /\ q.resp # None => /\ RM!Reserved(q)[q.resp.slot] # None
                             /\ RM!Reserved(q)[q.resp.slot].data = NoData
                             /\ RM!Reserved(q)[q.resp.slot].id = q.resp.id
<1>1. /\ SlotsForm /\ i \in Inputs
      /\ r # None => a = None /\ r.slot \in DOMAIN slots /\ slots[r.slot].state = "free"
  BY CycleForm DEF PlacesHold, Cycle, Brings
<1>2. /\ q.kill = a
      /\ q.reserve = None <=> r = None
      /\ r # None => q.reserve.slot = r.slot
      /\ q.resp = None <=> i.resp = None
      /\ i.resp # None => q.resp.slot = i.resp.slot /\ q.resp.id = slots[i.resp.slot].id
  BY KillSeen, ReserveSeen, AnswerSeen
<1>3. /\ DOMAIN SlotsSeen = DOMAIN slots
      /\ \A s \in DOMAIN slots : SlotsSeen[s] = Image(slots[s], payload[s])
      /\ \A s \in DOMAIN slots : RM!Reserved(q)[s] = Image(Filled(r, s), payload[s])
  BY SlotsSeenForm
<1>4. ASSUME q.reserve # None
      PROVE  RM!Ready(q) /\ SlotsSeen[q.reserve.slot] = None
  <2>1. r # None /\ a = None /\ r.slot \in DOMAIN slots /\ slots[r.slot].state = "free"
    BY <1>1, <1>2, <1>4
  <2>2. SlotsSeen[r.slot] = None
    BY <1>3, <2>1, ImageForm
  <2>3. RM!Ready(q) <=> q.kill = None /\ \E s \in DOMAIN SlotsSeen : SlotsSeen[s] = None
    BY ModelForm, Zenon
  <2>4. QED
    BY <1>2, <1>3, <2>1, <2>2, <2>3
<1>5. ASSUME q.resp # None
      PROVE  /\ RM!Reserved(q)[q.resp.slot] # None
             /\ RM!Reserved(q)[q.resp.slot].data = NoData
             /\ RM!Reserved(q)[q.resp.slot].id = q.resp.id
  <2> DEFINE n == i.resp.slot
  <2>1. i.resp # None /\ q.resp.slot = n /\ q.resp.id = slots[n].id
    BY <1>2, <1>5
  <2>2. n \in DOMAIN slots /\ slots[n].state \in {"pend", "zombie"} /\ Filled(r, n) = slots[n]
    BY <1>1, <2>1, AnswerIn
  <2> HIDE DEF n
  <2>3. RM!Reserved(q)[n] = Image(slots[n], payload[n])
    BY <1>3, <2>2
  <2>4. /\ Image(slots[n], payload[n]) # None
        /\ Image(slots[n], payload[n]).data = NoData /\ Image(slots[n], payload[n]).id = slots[n].id
    BY <2>2, ImageForm
  <2>5. QED
    BY <2>1, <2>3, <2>4
<1>6. QED
  BY <1>4, <1>5

(* Every cycle of the return queue is a cycle of its order model, for      *)
(* every depth, program and pattern of answers, kills and refreshes: in    *)
(* particular a reservation finds its slot free, an answer meets the       *)
(* request it is for, and a kill takes a suffix of the order               *)
(* (fetch_return_queue.sv against fetch_return_queue_model.py).            *)
THEOREM QueueImplementsModelTheorem == Spec => QueueImplementsModel
<1>1. ASSUME FetchInv, Next PROVE RM!ReturnTick(cycle')
  <2>1. PICK d : PlacesHold(d)
    BY <1>1, FetchInvPlace
  <2>2. PICK i, a : Cycle(i, a)
    BY <1>1, <2>1, NextCycle
  <2>3. \E r, q : Brings(i, a, r, q)
    BY DEF Brings
  <2>4. PICK r, q : Brings(i, a, r, q)
    BY <2>3
  <2>5. cycle' = q
    BY <2>1, <2>2, <2>4, CycleForm DEF Brings
  <2>6. \A n \in RM!Live(q) : 1 .. n \subseteq RM!Live(q)
    <3>1. RM!Live(q) = 1 .. Cut(a, d, r)
      BY <2>1, <2>2, <2>4, DeadSeen
    <3>2. Cut(a, d, r) \in Nat
      BY <2>1, <2>2, <2>4, CycleForm, CutForm DEF PlacesHold, Cycle, Brings
    <3>3. QED
      BY <3>1, <3>2
  <2>7. order' = IF RM!Taken(q) THEN Tail(RM!Kept(q)) ELSE RM!Kept(q)
    BY <2>1, <2>2, <2>4, OrderSeen
  <2>8. RM!ReturnTick(q)
    BY <2>1, <2>2, <2>4, <2>6, <2>7, MeetsSeen, CutSeen, OutputSeen, ReturnTickForm
  <2>9. QED
    BY <2>5, <2>8, Zenon DEF RM!ReturnTick
<1>2. FetchInv /\ [Next]_fetchVars => [RM!ReturnTick(cycle')]_fetchVars
  BY <1>1
<1>3. QED
  BY <1>2, FetchInvAlways, PTL DEF Spec, QueueImplementsModel

=============================================================================
