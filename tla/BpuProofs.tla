----------------------------- MODULE BpuProofs -----------------------------
(***************************************************************************)
(* The front of the core is one path, for every depth of the fetch target  *)
(* queue and of the training queue, every program and every pattern of     *)
(* redirects: the inductive invariant of Bpu and what follows from it.     *)
(*                                                                         *)
(* The argument is about places.  The stages p1, p2 and slowQ hold the     *)
(* youngest entries of the queue in order, so a redirect, which is never   *)
(* for an entry younger than slowQ's, empties them all, and a commit,      *)
(* which waits for the slow result, never overtakes them.  TAGE's and the  *)
(* BTB's contents, the history and its folds are opaque here.              *)
(***************************************************************************)
EXTENDS Bpu, CommonLemmas, TLAPS

(* The fields of an FTQ entry, and the ring id of the k-th live one: the   *)
(* index counts from the head, the generation is what the slot's counter   *)
(* holds.                                                                  *)
EntryFields == {"id", "region", "entry", "snap", "ckpt", "calls", "trust", "meta", "out",
                "inject", "event", "next"}
RingAt(h, n)  == (h + n) % FtqDepth
IdAt(h, g, k) == [idx |-> RingAt(h, k - 1), gen |-> g[RingAt(h, k - 1)]]

(* ftq_q: at most FtqDepth live entries, and every entry carries the id of *)
(* its place in the ring.                                                  *)
QueueForm ==
  /\ IsSequence(ftq) /\ Len(ftq) <= FtqDepth
  /\ ftqHead \in 0 .. FtqDepth - 1 /\ DOMAIN gen = 0 .. FtqDepth - 1
  /\ \A k \in DOMAIN ftq : DOMAIN ftq[k] = EntryFields /\ ftq[k].id = IdAt(ftqHead, gen, k)

(* The query pipeline holds the youngest entries in order: p1 the last     *)
(* one, p2 the one before it, slowQ the one before that, with no gap       *)
(* between them; the Served entries in front of those have their slow      *)
(* result.                                                                 *)
Place(q)  == IF q = None THEN 0 ELSE 1
At2       == Len(ftq) - Place(p1)
At3       == At2 - Place(p2)
Served    == At3 - Place(slowQ)
(* Entry k has the id and the region a stage holds.                        *)
AtPlace(k, id, region) == k \in DOMAIN ftq /\ ftq[k].id = id /\ ftq[k].region = region

(* What a stage holds is the entry at its place.  This is what makes it    *)
(* safe that the arbiter and the slow write-back look at the index alone.  *)
StagesInOrder ==
  /\ p1 # None    => AtPlace(Len(ftq), p1.id, p1.fast.region)
  /\ p2 # None    => AtPlace(At2, p2.id, p2.fast.region)
  /\ slowQ # None => /\ AtPlace(At3, slowQ.id, slowQ.pred.region) /\ slowQ.meta # None
                     /\ slowQ.override # None => slowQ.override.id = slowQ.id /\ ~slowQ.override.all

(* Closed entries have had their slow result, which is the meta the        *)
(* training packet takes along.                                            *)
ServedClosed ==
  /\ closed \in Nat /\ closed <= Served
  /\ \A k \in 1 .. Served : ftq[k].meta # None

(* The SRAM queries of BTB and TAGE advance with the pipeline.             *)
RowsInStep ==
  /\ (p1 = None) <=> (tS1 = NoQuery)
  /\ (p1 = None) <=> (bS1 = NoQuery)
  /\ p1 # None => tS1 = TM!Query(p1.fast.region, p1.folds)
  /\ p2 # None => btbQ # None /\ tS2 # NoQuery /\ tS2.q = TM!Query(p2.fast.region, p2.folds)

(* The hand-over in flight has a place in the queue and a closed entry.    *)
HandoverRoom ==
  /\ handover \in BOOLEAN /\ IsSequence(trainQ)
  /\ handover => Len(trainQ) < TrainDepth /\ closed > 0

(* A recovery under way has read the snapshot of its own region.           *)
RecoverKept ==
  /\ (recover = None) <=> (saved = None)
  /\ recover # None => saved.id = recover.id

(* The predictor stands at the end of the path: the last entry, as         *)
(* corrected, leads to predPc under hist; while a recovery is under way    *)
(* the snapshot it will restore, with the branch it will replay, is the    *)
(* last entry's.                                                           *)
PathEnd ==
  (ftq # <<>> /\ ftq[Len(ftq)].next # NoPc) =>
     LET e == ftq[Len(ftq)] IN
     /\ e.next = predPc
     /\ recover = None => After(e) = hist
     /\ recover # None => /\ saved.snap = e.snap
                          /\ e.inject = recover.inject /\ e.event = recover.event
(* Each entry but the last leads to the next one.                          *)
PathLinked ==
  \A k \in 1 .. Len(ftq) - 1 :
       ftq[k].next # NoPc =>
         /\ ftq[k + 1].region = ftq[k].next \div Slots
         /\ ftq[k + 1].entry = ftq[k].next % Slots
         /\ After(ftq[k]) = ftq[k + 1].snap

-----------------------------------------------------------------------------
(* FtqStep's entry k in stages: with its slow result, with the outcome it  *)
(* is told, with the successor an accepted request gives it; how many are  *)
(* closed (Done), kept (Keep), freed (Freed) in the cycle.                 *)
Slowed(k) ==
  IF slowQ # None /\ slowQ.id = ftq[k].id /\ ~(TrainFire /\ k = 1)
  THEN [ftq[k] EXCEPT !.meta = slowQ.meta] ELSE ftq[k]
Told(i, k) ==
  IF i.commit # None /\ k = closed + 1 THEN [Slowed(k) EXCEPT !.out = i.commit]
  ELSE IF i.core # None /\ Accept(i) = i.core.r /\ k \in Live(Accept(i).id)
  THEN [Slowed(k) EXCEPT !.out = i.core.out]
  ELSE Slowed(k)
Done(i) == closed + (IF i.commit # None THEN 1 ELSE 0)
OnPath(i, k) ==
  IF Accept(i) # None /\ ~Accept(i).all /\ k \in Live(Accept(i).id)
  THEN [Told(i, k) EXCEPT !.inject = Accept(i).inject, !.event = Accept(i).event,
                          !.next = Accept(i).target]
  ELSE IF Accept(i) # None /\ Accept(i).all /\ k = Done(i)
  THEN [Told(i, k) EXCEPT !.next = NoPc]
  ELSE Told(i, k)
Keep(i) ==
  IF Accept(i) = None THEN Len(ftq)
  ELSE Max({Done(i)} \cup (IF Accept(i).all THEN {} ELSE
                           IF Live(Accept(i).id) = {} THEN {Len(ftq)} ELSE Live(Accept(i).id)))
Freed == IF TrainFire THEN 1 ELSE 0
Corrected(i) == [k \in DOMAIN ftq |-> OnPath(i, k)]

(* FtqStep in these names.                                                 *)
LEMMA FtqStepForm ==
  ASSUME NEW i, FtqStep(i)
  PROVE  /\ ftq' = SubSeq(SubSeq(Corrected(i), 1, Keep(i)), 1 + Freed, Keep(i))
                     \o (IF AllocFire(i) THEN <<NewEntry(FastPrediction)>> ELSE <<>>)
         /\ ftqHead' = (ftqHead + Freed) % FtqDepth
         /\ closed' = Done(i) - Freed
         /\ gen' = IF AllocFire(i) THEN [gen EXCEPT ![NewId.idx] = @ + 1] ELSE gen
<1> DEFINE a == Accept(i)
<1> DEFINE slowed == [k \in DOMAIN ftq |->
                   IF slowQ # None /\ slowQ.id = ftq[k].id /\ ~(TrainFire /\ k = 1)
                   THEN [ftq[k] EXCEPT !.meta = slowQ.meta] ELSE ftq[k]]
<1> DEFINE told == [k \in DOMAIN ftq |->
                   IF i.commit # None /\ k = closed + 1
                   THEN [slowed[k] EXCEPT !.out = i.commit]
                   ELSE IF i.core # None /\ a = i.core.r /\ k \in Live(a.id)
                   THEN [slowed[k] EXCEPT !.out = i.core.out]
                   ELSE slowed[k]]
<1> DEFINE done == closed + (IF i.commit # None THEN 1 ELSE 0)
<1> DEFINE onPath == [k \in DOMAIN ftq |->
                   IF a # None /\ ~a.all /\ k \in Live(a.id)
                   THEN [told[k] EXCEPT !.inject = a.inject, !.event = a.event,
                                        !.next = a.target]
                   ELSE IF a # None /\ a.all /\ k = done
                   THEN [told[k] EXCEPT !.next = NoPc]
                   ELSE told[k]]
<1> DEFINE keep == IF a = None THEN Len(ftq)
                ELSE Max({done} \cup (IF a.all THEN {} ELSE
                                      IF Live(a.id) = {} THEN {Len(ftq)} ELSE Live(a.id)))
<1> DEFINE freed == IF TrainFire THEN 1 ELSE 0
<1>1. \A k \in DOMAIN ftq : slowed[k] = Slowed(k)
  BY DEF Slowed
<1> HIDE DEF slowed
<1>2. \A k \in DOMAIN ftq : told[k] = Told(i, k)
  BY <1>1 DEF Told
<1> HIDE DEF told
<1>3. onPath = Corrected(i)
  <2>1. \A k \in DOMAIN ftq : onPath[k] = OnPath(i, k)
    BY <1>2 DEF OnPath, Done
  <2>2. onPath = [k \in DOMAIN ftq |-> onPath[k]]
    OBVIOUS
  <2> HIDE DEF onPath
  <2>3. QED
    BY <2>1, <2>2 DEF Corrected
<1>4. keep = Keep(i) /\ freed = Freed /\ done = Done(i)
  BY DEF Keep, Freed, Done
<1>5. /\ ftq' = SubSeq(SubSeq(onPath, 1, keep), 1 + freed, keep)
                 \o (IF AllocFire(i) THEN <<NewEntry(FastPrediction)>> ELSE <<>>)
      /\ ftqHead' = (ftqHead + freed) % FtqDepth
      /\ closed' = done - freed
      /\ gen' = IF AllocFire(i) THEN [gen EXCEPT ![NewId.idx] = @ + 1] ELSE gen
  BY ZenonT(60) DEF FtqStep, told, slowed
<1> HIDE DEF onPath, keep, freed, done
<1>6. QED
  BY <1>3, <1>4, <1>5

(* What a cycle may change of an entry: its meta by its own slow result,   *)
(* its successor by the accepted request; never its id, region, entry slot *)
(* or snapshot.                                                            *)
LEMMA EntryUpdate ==
  ASSUME NEW i, NEW k \in DOMAIN ftq, DOMAIN ftq[k] = EntryFields
  PROVE  /\ DOMAIN OnPath(i, k) = EntryFields
         /\ \A f \in EntryFields \ {"meta", "out", "inject", "event", "next"} :
              OnPath(i, k)[f] = ftq[k][f]
         /\ OnPath(i, k).meta = IF slowQ # None /\ slowQ.id = ftq[k].id /\ ~(TrainFire /\ k = 1)
                                THEN slowQ.meta ELSE ftq[k].meta
         /\ OnPath(i, k).next =
              IF Accept(i) # None /\ ~Accept(i).all /\ k \in Live(Accept(i).id)
              THEN Accept(i).target
              ELSE IF Accept(i) # None /\ Accept(i).all /\ k = Done(i) THEN NoPc
              ELSE ftq[k].next
         /\ OnPath(i, k).inject =
              IF Accept(i) # None /\ ~Accept(i).all /\ k \in Live(Accept(i).id)
              THEN Accept(i).inject ELSE ftq[k].inject
         /\ OnPath(i, k).event =
              IF Accept(i) # None /\ ~Accept(i).all /\ k \in Live(Accept(i).id)
              THEN Accept(i).event ELSE ftq[k].event
<1>1. /\ DOMAIN Slowed(k) = EntryFields
      /\ \A f \in EntryFields \ {"meta"} : Slowed(k)[f] = ftq[k][f]
      /\ Slowed(k).meta = IF slowQ # None /\ slowQ.id = ftq[k].id /\ ~(TrainFire /\ k = 1)
                          THEN slowQ.meta ELSE ftq[k].meta
  BY DEF Slowed, EntryFields
<1>2. /\ DOMAIN Told(i, k) = EntryFields
      /\ \A f \in EntryFields \ {"out"} : Told(i, k)[f] = Slowed(k)[f]
  BY <1>1 DEF Told
<1>3. /\ DOMAIN OnPath(i, k) = EntryFields
      /\ \A f \in EntryFields \ {"inject", "event", "next"} : OnPath(i, k)[f] = Told(i, k)[f]
  BY <1>2 DEF OnPath
<1>4. /\ OnPath(i, k).next =
              IF Accept(i) # None /\ ~Accept(i).all /\ k \in Live(Accept(i).id)
              THEN Accept(i).target
              ELSE IF Accept(i) # None /\ Accept(i).all /\ k = Done(i) THEN NoPc
              ELSE Told(i, k).next
  BY <1>2 DEF OnPath, EntryFields
<1>5. /\ OnPath(i, k).inject =
              IF Accept(i) # None /\ ~Accept(i).all /\ k \in Live(Accept(i).id)
              THEN Accept(i).inject ELSE Told(i, k).inject
  BY <1>2 DEF OnPath, EntryFields
<1>6. /\ OnPath(i, k).event =
              IF Accept(i) # None /\ ~Accept(i).all /\ k \in Live(Accept(i).id)
              THEN Accept(i).event ELSE Told(i, k).event
  BY <1>2 DEF OnPath, EntryFields
<1>7. /\ "meta" \in EntryFields /\ "next" \in EntryFields /\ "inject" \in EntryFields
      /\ "event" \in EntryFields
  BY DEF EntryFields
<1>8. QED
  BY <1>1, <1>2, <1>3, <1>4, <1>5, <1>6, <1>7

-----------------------------------------------------------------------------
(* The part of the invariant the queue's shape depends on.                 *)
Structure == QueueForm /\ StagesInOrder /\ ServedClosed

(* The core's request is one for entry k, which is open and published.     *)
CoreAt(i, k) ==
  /\ k \in DOMAIN ftq /\ k > closed /\ Published(ftq[k])
  /\ i.core.r.id = ftq[k].id /\ ~i.core.r.all

(* What the core reports concerns a live, open, published entry; the entry *)
(* it commits also has its slow result written.                            *)
LEMMA InputForm ==
  ASSUME NEW i \in Inputs
  PROVE  /\ i.core # None => \E k \in DOMAIN ftq : CoreAt(i, k)
         /\ i.commit # None => /\ closed < Len(ftq) /\ Published(ftq[closed + 1])
                               /\ slowQ = None \/ slowQ.id # ftq[closed + 1].id
<1>1. /\ i.core \in {None} \cup CoreRequests
      /\ i.commit # None => /\ closed < Len(ftq) /\ Published(ftq[closed + 1])
                            /\ slowQ = None \/ slowQ.id # ftq[closed + 1].id
  <2> DEFINE May == /\ commits < MaxCommit /\ closed < Len(ftq)
                    /\ Published(ftq[closed + 1])
                    /\ slowQ = None \/ slowQ.id # ftq[closed + 1].id
  <2>1. PICK h \in Holds, c \in Reports, s \in Flushes, o \in Commits :
          i = [core |-> c, sys |-> s, commit |-> o, hold |-> h]
    BY DEF Inputs
  <2>2. i.core \in Reports /\ i.commit \in Commits
    BY <2>1
  <2>3. i.core \in {None} \cup CoreRequests
    BY <2>2 DEF Reports
  <2>4. i.commit # None => May
    <3>1. ASSUME ~May PROVE Commits = {None}
      BY <3>1 DEF Commits
    <3>2. QED
      BY <2>2, <3>1
  <2>5. QED
    BY <2>3, <2>4 DEF May
<1>2. ASSUME i.core \in CoreRequests PROVE \E k \in DOMAIN ftq : CoreAt(i, k)
  <2> DEFINE At(k, o) == IF o.cfi.type # "none" THEN o.cfi.slot
                         ELSE IF o.commit # {} THEN Max(o.commit) ELSE Last
  <2> DEFINE Asks(k, src, o) ==
               [r |-> Request(src, ftq[k].id, At(k, o), PathOf(ftq[k], o)), out |-> o]
  <2> DEFINE All(k) == {Asks(k, src, o) : src \in {1, 2}, o \in Outcomes(ftq[k])}
  <2> DEFINE May == {n \in DOMAIN ftq : n > closed /\ Published(ftq[n]) /\ ftq[n].out = None}
  <2>1. i.core \in UNION {All(k) : k \in May}
    BY <1>2 DEF CoreRequests
  <2> HIDE DEF All
  <2>2. PICK k \in May : i.core \in All(k)
    BY <2>1
  <2> HIDE DEF Asks
  <2>3. PICK src \in {1, 2}, o \in Outcomes(ftq[k]) : i.core = Asks(k, src, o)
    BY <2>2 DEF All
  <2> HIDE DEF At
  <2>5. i.core.r.id = ftq[k].id /\ ~i.core.r.all
    BY <2>3 DEF Request, Asks
  <2>6. QED
    BY <2>2, <2>5 DEF CoreAt
<1>3. QED
  BY <1>1, <1>2

(* The accepted request is the system event's, the core's or the slow      *)
(* result's.                                                               *)
LEMMA AcceptForm ==
  ASSUME NEW i, Accept(i) # None
  PROVE  \/ Accept(i) = Sys /\ i.sys
         \/ i.core # None /\ Accept(i) = i.core.r
         \/ slowQ # None /\ slowQ.override # None /\ Accept(i) = slowQ.override
<1>1. Accept(i) = Candidate(i) /\ Candidate(i) # None
  BY DEF Accept
<1>2. \/ Candidate(i) = Sys /\ i.sys
      \/ i.core # None /\ Candidate(i) = i.core.r
      \/ slowQ # None /\ Candidate(i) = slowQ.override
  BY <1>1 DEF Candidate
<1>3. QED
  BY <1>1, <1>2

(* The stages' places are within the queue.                                *)
LEMMA Placed ==
  ASSUME Structure
  PROVE  /\ Len(ftq) \in Nat /\ DOMAIN ftq = 1 .. Len(ftq)
         /\ Place(p1) \in {0, 1} /\ Place(p2) \in {0, 1} /\ Place(slowQ) \in {0, 1}
         /\ At2 \in Nat /\ At3 \in Nat /\ Served \in Nat
         /\ At3 <= At2 /\ At2 <= Len(ftq) /\ Served <= At3
<1>1. Len(ftq) \in Nat /\ DOMAIN ftq = 1 .. Len(ftq)
  BY SequenceIs DEF Structure, QueueForm
<1>2. Place(p1) \in {0, 1} /\ Place(p2) \in {0, 1} /\ Place(slowQ) \in {0, 1}
  BY DEF Place
<1>3. Served \in Int /\ closed \in Nat /\ closed <= Served
  BY <1>1, <1>2 DEF Structure, ServedClosed, Served, At3, At2
<1>4. QED
  BY <1>1, <1>2, <1>3 DEF Served, At3, At2

(* FeBefore, which compares indices relative to the head, is the order of  *)
(* the queue, and no two live entries share an index.                      *)
LEMMA RingOrder ==
  ASSUME QueueForm, NEW j \in DOMAIN ftq, NEW k \in DOMAIN ftq, j < k
  PROVE  /\ ftq[j].id.idx # ftq[k].id.idx
         /\ \A s, t : FeBefore(ftq[j].id, s, ftq[k].id, t)
<1>1. /\ DOMAIN ftq = 1 .. Len(ftq) /\ Len(ftq) \in Nat /\ Len(ftq) <= FtqDepth
      /\ FtqDepth \in Nat \ {0} /\ ftqHead \in 0 .. FtqDepth - 1
  BY SequenceIs, BpuSizes DEF QueueForm
<1>2. j \in Nat /\ k \in Nat /\ j - 1 \in 0 .. FtqDepth /\ k - 1 \in 0 .. FtqDepth
      /\ k - 1 < FtqDepth
  BY <1>1
<1> DEFINE x == RingAt(ftqHead, j - 1)
<1> DEFINE y == RingAt(ftqHead, k - 1)
<1>3. x = IF ftqHead + (j - 1) < FtqDepth THEN ftqHead + (j - 1)
                      ELSE ftqHead + (j - 1) - FtqDepth
  BY <1>1, <1>2, RingSum DEF RingAt
<1>4. y = IF ftqHead + (k - 1) < FtqDepth THEN ftqHead + (k - 1)
                      ELSE ftqHead + (k - 1) - FtqDepth
  BY <1>1, <1>2, RingSum DEF RingAt
<1>5. ftq[j].id.idx = RingAt(ftqHead, j - 1) /\ ftq[k].id.idx = RingAt(ftqHead, k - 1)
  <2>1. ftq[j].id = IdAt(ftqHead, gen, j) /\ ftq[k].id = IdAt(ftqHead, gen, k)
    BY DEF QueueForm
  <2>2. QED
    BY <2>1 DEF IdAt
<1> HIDE DEF x, y
<1>6. /\ x # y
      /\ x < ftqHead => y < ftqHead
      /\ (x < ftqHead /\ y < ftqHead) => x < y
      /\ (~(x < ftqHead) /\ ~(y < ftqHead)) => x < y
  <2>1. \/ x = ftqHead + (j - 1) /\ ftqHead + (j - 1) < FtqDepth
        \/ x = ftqHead + (j - 1) - FtqDepth /\ ~(ftqHead + (j - 1) < FtqDepth)
    BY <1>3
  <2>2. \/ y = ftqHead + (k - 1) /\ ftqHead + (k - 1) < FtqDepth
        \/ y = ftqHead + (k - 1) - FtqDepth /\ ~(ftqHead + (k - 1) < FtqDepth)
    BY <1>4
  <2>6. ftqHead \in Int /\ j \in Int /\ k \in Int /\ FtqDepth \in Int
    BY <1>1, <1>2
  <2>3. x \in Int /\ y \in Int /\ ftqHead \in Int /\ j \in Int /\ k \in Int /\ FtqDepth \in Int
    <3>1. x \in Int
      BY <2>1, <2>6
    <3>2. y \in Int
      BY <2>2, <2>6
    <3>3. QED
      BY <3>1, <3>2, <2>6
  <2>4. ftqHead >= 0 /\ ftqHead < FtqDepth /\ k - 1 < FtqDepth /\ j - 1 >= 0 /\ j < k
    BY <1>1, <1>2
  <2>5. QED
    BY <2>1, <2>2, <2>3, <2>4
<1>7. ASSUME NEW s, NEW t PROVE FeBefore(ftq[j].id, s, ftq[k].id, t)
  <2>1. ftq[j].id.idx = x /\ ftq[k].id.idx = y
    BY <1>5 DEF x, y
  <2>2. CASE x < ftqHead
    BY <2>1, <2>2, <1>6 DEF FeBefore
  <2>3. CASE ~(x < ftqHead)
    BY <2>1, <2>3, <1>6 DEF FeBefore
  <2>4. QED
    BY <2>2, <2>3
<1>8. QED
  BY <1>5, <1>6, <1>7 DEF x, y

(* An id names one live entry.                                             *)
LEMMA LiveOne ==
  ASSUME QueueForm, NEW k \in DOMAIN ftq
  PROVE  Live(ftq[k].id) = {k}
<1>1. DOMAIN ftq \subseteq Nat
  BY SequenceIs DEF QueueForm
<1>2. ASSUME NEW j \in DOMAIN ftq, ftq[j].id = ftq[k].id PROVE j = k
  BY <1>1, <1>2, RingOrder
<1>3. QED
  BY <1>2 DEF Live

(* The larger of two numbers in order.                                     *)
LEMMA MaxPair ==
  ASSUME NEW x \in Int, NEW y \in Int, x <= y
  PROVE  Max({x} \cup {y}) = y /\ Max({y}) = y
  BY DEF Max

-----------------------------------------------------------------------------
(* The accepted request kills what p1 and p2 hold.                         *)
Killed(i) ==
  /\ p1 # None => KilledBy(Accept(i), p1.id, Last)
  /\ p2 # None => KilledBy(Accept(i), p2.id, Last)

(* A commit closes an entry whose slow result has been written.            *)
LEMMA DoneServed ==
  ASSUME Structure, NEW i \in Inputs
  PROVE  Done(i) \in Nat /\ Done(i) <= Served /\ closed <= Done(i)
<1>1. closed \in Nat /\ closed <= Served
  BY DEF Structure, ServedClosed
<1>2. CASE i.commit = None
  BY <1>1, <1>2 DEF Done
<1>3. CASE i.commit # None
  <2>1. /\ closed < Len(ftq) /\ Published(ftq[closed + 1])
        /\ slowQ = None \/ slowQ.id # ftq[closed + 1].id
    BY <1>3, InputForm
  <2>2. closed + 1 \in DOMAIN ftq
    BY <2>1, <1>1, Placed
  <2>3. closed # Served
    <3>1. SUFFICES ASSUME closed = Served PROVE FALSE
      OBVIOUS
    <3>2. CASE slowQ # None
      <4>1. Served + 1 = At3 /\ ftq[At3].id = slowQ.id
        BY <3>2, Placed DEF Served, Place, Structure, StagesInOrder, AtPlace
      <4>2. QED
        BY <4>1, <3>1, <2>1, <3>2
    <3>3. CASE slowQ = None /\ p2 # None
      <4>1. Served + 1 = At2 /\ ftq[At2].id = p2.id
        BY <3>3, Placed DEF Served, At3, Place, Structure, StagesInOrder, AtPlace
      <4>2. QED
        BY <4>1, <3>1, <2>1, <3>3 DEF Published
    <3>4. CASE slowQ = None /\ p2 = None /\ p1 # None
      <4>1. Served + 1 = Len(ftq) /\ ftq[Len(ftq)].id = p1.id
        BY <3>4, Placed DEF Served, At3, At2, Place, Structure, StagesInOrder, AtPlace
      <4>2. QED
        BY <4>1, <3>1, <2>1, <3>4 DEF Published
    <3>5. CASE slowQ = None /\ p2 = None /\ p1 = None
      <4>1. Served = Len(ftq)
        BY <3>5, Placed DEF Served, At3, At2, Place
      <4>2. QED
        BY <4>1, <3>1, <2>1, <1>1
    <3>6. QED
      BY <3>2, <3>3, <3>4, <3>5
  <2>4. Done(i) = closed + 1
    BY <1>3 DEF Done
  <2>5. QED
    BY <1>1, <2>3, <2>4, Placed
<1>4. QED
  BY <1>2, <1>3

(* A request that is no flush is for a live entry, open and older than     *)
(* what p1 and p2 hold.                                                    *)
LEMMA AcceptPlace ==
  ASSUME Structure, NEW i \in Inputs, Accept(i) # None, ~Accept(i).all
  PROVE  \E k \in DOMAIN ftq :
           /\ Accept(i).id = ftq[k].id /\ k > closed /\ k <= At3 /\ Done(i) <= k
           /\ Published(ftq[k])
<1>1. ~(Accept(i) = Sys)
  BY DEF Sys
<1>2. CASE i.core # None /\ Accept(i) = i.core.r
  <2>1. PICK k \in DOMAIN ftq : CoreAt(i, k)
    BY <1>2, InputForm
  <2>2. Accept(i).id = ftq[k].id /\ k > closed /\ Published(ftq[k]) /\ k \in Nat
    BY <2>1, <1>2, Placed DEF CoreAt
  <2>3. ~(p1 # None /\ k = Len(ftq)) /\ ~(p2 # None /\ k = At2)
    BY <2>2 DEF Published, Structure, StagesInOrder, AtPlace
  <2>4. k <= At3
    <3>1. k <= Len(ftq)
      BY <2>1, Placed
    <3>2. k <= At2
      BY <3>1, <2>2, <2>3, Placed DEF At2, Place
    <3>3. QED
      BY <3>2, <2>2, <2>3, Placed DEF At3, Place
  <2>5. Done(i) <= k
    BY <2>2, Placed DEF Done, Structure, ServedClosed
  <2>6. QED
    BY <2>1, <2>2, <2>4, <2>5
<1>3. CASE slowQ # None /\ slowQ.override # None /\ Accept(i) = slowQ.override
  <2>1. At3 \in DOMAIN ftq /\ Accept(i).id = ftq[At3].id
    BY <1>3 DEF Structure, StagesInOrder, AtPlace
  <2>2. At3 = Served + 1
    BY <1>3, Placed DEF Served, Place
  <2>3. closed < At3 /\ Done(i) <= At3
    BY <2>2, DoneServed, Placed DEF Structure, ServedClosed
  <2>4. Published(ftq[At3])
    <3>1. p1 # None => p1.id # ftq[At3].id
      <4>1. SUFFICES ASSUME p1 # None PROVE p1.id # ftq[At3].id
        OBVIOUS
      <4>2. Len(ftq) \in DOMAIN ftq /\ ftq[Len(ftq)].id = p1.id
        BY <4>1 DEF Structure, StagesInOrder, AtPlace
      <4>3. At3 < Len(ftq)
        BY <4>1, Placed DEF At3, At2, Place
      <4>4. QED
        BY <2>1, <4>2, <4>3, RingOrder DEF Structure
    <3>2. p2 # None => p2.id # ftq[At3].id
      <4>1. SUFFICES ASSUME p2 # None PROVE p2.id # ftq[At3].id
        OBVIOUS
      <4>2. At2 \in DOMAIN ftq /\ ftq[At2].id = p2.id
        BY <4>1 DEF Structure, StagesInOrder, AtPlace
      <4>3. At3 < At2
        BY <4>1, Placed DEF At3, Place
      <4>4. QED
        BY <2>1, <4>2, <4>3, RingOrder DEF Structure
    <3>3. QED
      BY <3>1, <3>2 DEF Published
  <2>5. QED
    BY <2>1, <2>3, <2>4, Placed
<1>4. QED
  BY <1>1, <1>2, <1>3, AcceptForm

(* Such a request cuts the queue right behind its entry, not before a      *)
(* closed one, and kills p1 and p2.                                        *)
LEMMA AcceptCuts ==
  ASSUME Structure, NEW i \in Inputs, Accept(i) # None, ~Accept(i).all,
         NEW k \in DOMAIN ftq, Accept(i).id = ftq[k].id
  PROVE  /\ Live(Accept(i).id) = {k} /\ Keep(i) = k /\ Max({k}) = k
         /\ k > closed /\ k <= At3 /\ Done(i) <= k /\ Killed(i)
<1>1. Live(Accept(i).id) = {k}
  BY LiveOne DEF Structure
<1>2. PICK j \in DOMAIN ftq :
           /\ Accept(i).id = ftq[j].id /\ j > closed /\ j <= At3 /\ Done(i) <= j
           /\ Published(ftq[j])
  BY AcceptPlace
<1>3. j = k
  BY <1>1, <1>2 DEF Live
<1>4. k \in Int /\ Done(i) \in Int
  BY Placed, DoneServed
<1>5. Keep(i) = k /\ Max({k}) = k
  BY <1>1, <1>2, <1>3, <1>4, MaxPair DEF Keep
<1>6. p1 # None => KilledBy(Accept(i), p1.id, Last)
  <2>1. SUFFICES ASSUME p1 # None PROVE KilledBy(Accept(i), p1.id, Last)
    OBVIOUS
  <2>2. Len(ftq) \in DOMAIN ftq /\ ftq[Len(ftq)].id = p1.id
    BY <2>1 DEF Structure, StagesInOrder, AtPlace
  <2>3. k < Len(ftq)
    BY <2>1, <1>2, <1>3, <1>4, Placed DEF At3, At2, Place
  <2>4. FeBefore(Accept(i).id, Accept(i).slot, p1.id, Last)
    BY <2>2, <2>3, RingOrder DEF Structure
  <2>5. QED
    BY <2>4 DEF KilledBy
<1>7. p2 # None => KilledBy(Accept(i), p2.id, Last)
  <2>1. SUFFICES ASSUME p2 # None PROVE KilledBy(Accept(i), p2.id, Last)
    OBVIOUS
  <2>2. At2 \in DOMAIN ftq /\ ftq[At2].id = p2.id
    BY <2>1 DEF Structure, StagesInOrder, AtPlace
  <2>3. k < At2
    BY <2>1, <1>2, <1>3, <1>4, Placed DEF At3, Place
  <2>4. FeBefore(Accept(i).id, Accept(i).slot, p2.id, Last)
    BY <2>2, <2>3, RingOrder DEF Structure
  <2>5. QED
    BY <2>4 DEF KilledBy
<1>8. QED
  BY <1>1, <1>2, <1>3, <1>5, <1>6, <1>7 DEF Killed

(* A flush keeps the closed entries alone and kills p1 and p2.             *)
LEMMA FlushCuts ==
  ASSUME Structure, NEW i \in Inputs, Accept(i) # None, Accept(i).all
  PROVE  Keep(i) = Done(i) /\ Killed(i)
<1>1. Keep(i) = Max({Done(i)} \cup {})
  BY DEF Keep
<1>2. Keep(i) = Done(i)
  BY <1>1, MaxPair, DoneServed
<1>3. QED
  BY <1>2 DEF Killed, KilledBy

-----------------------------------------------------------------------------
(* An entry is allocated in the cycle, or none.                            *)
Grown(i) == IF AllocFire(i) THEN 1 ELSE 0

(* The cut is within the queue, and never frees what it has not kept; an   *)
(* allocation meets neither a cut nor a recovery.                          *)
LEMMA Kept ==
  ASSUME Structure, HandoverRoom, NEW i \in Inputs
  PROVE  /\ Keep(i) \in Nat /\ Keep(i) <= Len(ftq) /\ Done(i) <= Keep(i)
         /\ Freed \in {0, 1} /\ Freed <= closed /\ Freed <= Keep(i)
         /\ Grown(i) \in {0, 1}
         /\ AllocFire(i) => Accept(i) = None /\ Keep(i) = Len(ftq) /\ recover = None
                            /\ Len(ftq) < FtqDepth
<1>1. Freed \in {0, 1} /\ Freed <= closed /\ Grown(i) \in {0, 1}
  BY DEF Freed, Grown, TrainFire, HandoverRoom, Structure, ServedClosed
<1>2. Done(i) \in Nat /\ Done(i) <= Served /\ closed <= Done(i) /\ closed \in Nat
  BY DoneServed DEF Structure, ServedClosed
<1>3. Keep(i) \in Nat /\ Keep(i) <= Len(ftq) /\ Done(i) <= Keep(i)
  <2>1. CASE Accept(i) = None
    BY <2>1, <1>2, Placed DEF Keep
  <2>2. CASE Accept(i) # None /\ Accept(i).all
    BY <2>2, <1>2, Placed, FlushCuts
  <2>3. CASE Accept(i) # None /\ ~Accept(i).all
    <3>1. PICK k \in DOMAIN ftq : Accept(i).id = ftq[k].id
      BY <2>3, AcceptPlace
    <3>2. Keep(i) = k /\ Done(i) <= k
      BY <2>3, <3>1, AcceptCuts
    <3>3. QED
      BY <3>1, <3>2, Placed
  <2>4. QED
    BY <2>1, <2>2, <2>3
<1>4. AllocFire(i) => Accept(i) = None /\ Keep(i) = Len(ftq) /\ recover = None
                     /\ Len(ftq) < FtqDepth
  BY DEF AllocFire, Keep
<1>5. QED
  BY <1>1, <1>2, <1>3, <1>4

(* The queue after a cycle: the kept entries less the freed one,           *)
(* corrected, and the allocated one.                                       *)
LEMMA FtqNext ==
  ASSUME Structure, HandoverRoom, NEW i \in Inputs, FtqStep(i)
  PROVE  /\ IsSequence(ftq') /\ Len(ftq') = Keep(i) - Freed + Grown(i)
         /\ \A k \in 1 .. Keep(i) - Freed :
              k + Freed \in DOMAIN ftq /\ ftq'[k] = OnPath(i, k + Freed)
         /\ AllocFire(i) => ftq'[Keep(i) - Freed + 1] = NewEntry(FastPrediction)
<1> DEFINE u == Corrected(i)
<1> DEFINE m == Keep(i)
<1> DEFINE c == SubSeq(SubSeq(u, 1, m), 1 + Freed, m)
<1>1. Len(ftq) \in Nat /\ DOMAIN ftq = 1 .. Len(ftq)
  BY Placed
<1>2. \A k \in DOMAIN ftq : u[k] = OnPath(i, k)
  BY DEF Corrected
<1>3. u = [k \in 1 .. Len(ftq) |-> u[k]]
  BY <1>1 DEF Corrected
<1> HIDE DEF u
<1>4. IsSequence(u) /\ Len(u) = Len(ftq)
  BY <1>1, <1>3, SequenceForm
<1>5. m \in Nat /\ m <= Len(ftq) /\ Freed \in Nat /\ Freed <= m
  BY Kept
<1> HIDE DEF m
<1>6. /\ IsSequence(c) /\ Len(c) = m - Freed
      /\ \A k \in 1 .. m - Freed : c[k] = u[k + Freed]
  BY <1>4, <1>5, SequenceCut
<1>7. ftq' = c \o (IF AllocFire(i) THEN <<NewEntry(FastPrediction)>> ELSE <<>>)
  BY FtqStepForm DEF m, u
<1>8. \A k \in 1 .. m - Freed : k + Freed \in DOMAIN ftq
  BY <1>1, <1>5
<1> HIDE DEF c
<1>9. CASE AllocFire(i)
  <2>1. ftq' = c \o <<NewEntry(FastPrediction)>>
    BY <1>7, <1>9
  <2>2. /\ IsSequence(ftq') /\ Len(ftq') = m - Freed + 1
        /\ \A k \in 1 .. m - Freed : ftq'[k] = c[k]
        /\ ftq'[m - Freed + 1] = NewEntry(FastPrediction)
    BY <2>1, <1>6, SequenceAppend
  <2>3. QED
    BY <2>2, <1>2, <1>6, <1>8, <1>9 DEF m, Grown
<1>10. CASE ~AllocFire(i)
  <2>1. ftq' = c
    BY <1>7, <1>10, <1>6, SequenceAppend
  <2>2. m - Freed + 0 = m - Freed
    BY <1>5
  <2>3. QED
    BY <2>1, <2>2, <1>2, <1>6, <1>8, <1>10 DEF m, Grown
<1>11. QED
  BY <1>9, <1>10

(* A cycle keeps the queue's form: an id stays with its entry although the *)
(* head moves, and a new entry's generation is new.                        *)
LEMMA QueueFormStep ==
  ASSUME Structure, HandoverRoom, NEW i \in Inputs, FtqStep(i)
  PROVE  QueueForm'
<1> DEFINE n == Keep(i) - Freed
<1>1. /\ FtqDepth \in Nat \ {0} /\ ftqHead \in 0 .. FtqDepth - 1 /\ Len(ftq) <= FtqDepth
      /\ DOMAIN gen = 0 .. FtqDepth - 1 /\ Len(ftq) \in Nat /\ DOMAIN ftq = 1 .. Len(ftq)
  BY BpuSizes, Placed DEF Structure, QueueForm
<1>2. /\ Keep(i) \in Nat /\ Keep(i) <= Len(ftq) /\ Freed \in {0, 1} /\ Freed <= Keep(i)
      /\ Grown(i) \in {0, 1}
      /\ AllocFire(i) => Keep(i) = Len(ftq) /\ Len(ftq) < FtqDepth
  BY Kept
<1>3. n \in Nat /\ n <= Len(ftq) /\ n + Freed = Keep(i)
  BY <1>1, <1>2
<1>4. IsSequence(ftq') /\ Len(ftq') = n + Grown(i)
  BY FtqNext
<1>14. \A k \in 1 .. n : k + Freed \in DOMAIN ftq /\ ftq'[k] = OnPath(i, k + Freed)
  BY FtqNext
<1>15. AllocFire(i) => ftq'[n + 1] = NewEntry(FastPrediction)
  BY FtqNext
<1> HIDE DEF n
<1>5. Len(ftq') <= FtqDepth /\ DOMAIN ftq' = 1 .. n + Grown(i)
  <2>1. n + Grown(i) <= FtqDepth
    BY <1>1, <1>2, <1>3 DEF Grown
  <2>2. QED
    BY <2>1, <1>4, SequenceIs
<1>6. ftqHead' = (ftqHead + Freed) % FtqDepth
  BY FtqStepForm
<1>16. Freed \in 0 .. FtqDepth
  BY <1>1, <1>2
<1>7. ftqHead' \in 0 .. FtqDepth - 1
  BY <1>1, <1>16, <1>6, RingSum
<1>8. gen' = IF AllocFire(i) THEN [gen EXCEPT ![NewId.idx] = @ + 1] ELSE gen
  BY FtqStepForm
<1>9. DOMAIN gen' = 0 .. FtqDepth - 1
  BY <1>1, <1>8
<1>17. ASSUME NEW j \in 0 .. FtqDepth - 1, Freed <= j
       PROVE  RingAt(ftqHead', j - Freed) = RingAt(ftqHead, j)
  BY <1>1, <1>2, <1>6, <1>17, RingShift DEF RingAt
<1>10. ASSUME NEW k \in 1 .. n
       PROVE  DOMAIN ftq'[k] = EntryFields /\ ftq'[k].id = IdAt(ftqHead', gen', k)
  <2>1. k + Freed \in DOMAIN ftq /\ ftq'[k] = OnPath(i, k + Freed)
    BY <1>14
  <2>2. /\ DOMAIN ftq[k + Freed] = EntryFields
        /\ ftq[k + Freed].id = IdAt(ftqHead, gen, k + Freed)
    BY <2>1 DEF Structure, QueueForm
  <2>3. DOMAIN ftq'[k] = EntryFields /\ ftq'[k].id = IdAt(ftqHead, gen, k + Freed)
    BY <2>1, <2>2, EntryUpdate DEF EntryFields
  <2> DEFINE j == (k + Freed) - 1
  <2>4. /\ j \in 0 .. FtqDepth - 1 /\ j \in 0 .. FtqDepth /\ Freed <= j /\ j - Freed = k - 1
        /\ j < Len(ftq) /\ j \in Nat
    BY <1>1, <1>2, <1>3, <2>1
  <2>8. IdAt(ftqHead, gen, k + Freed) = [idx |-> RingAt(ftqHead, j), gen |-> gen[RingAt(ftqHead, j)]]
    BY DEF IdAt
  <2> HIDE DEF j
  <2>5. RingAt(ftqHead', k - 1) = RingAt(ftqHead, j)
    BY <1>17, <2>4
  <2>6. gen'[RingAt(ftqHead, j)] = gen[RingAt(ftqHead, j)]
    <3>1. CASE ~AllocFire(i)
      BY <3>1, <1>8
    <3>2. CASE AllocFire(i)
      <4>1. NewId.idx = (ftqHead + Len(ftq)) % FtqDepth
        BY DEF NewId, Tail0
      <4>2. Len(ftq) \in 0 .. FtqDepth - 1
        BY <3>2, <1>1, <1>2
      <4>3. RingAt(ftqHead, j) # NewId.idx
        BY <4>1, <4>2, <2>4, <1>1, RingDistinct DEF RingAt
      <4>4. RingAt(ftqHead, j) \in DOMAIN gen
        BY <1>1, <2>4, RingSum DEF RingAt
      <4>5. QED
        BY <3>2, <1>8, <4>3, <4>4
    <3>3. QED
      BY <3>1, <3>2
  <2>7. QED
    BY <2>3, <2>5, <2>6, <2>8 DEF IdAt
<1>11. ASSUME AllocFire(i)
       PROVE  DOMAIN ftq'[n + 1] = EntryFields /\ ftq'[n + 1].id = IdAt(ftqHead', gen', n + 1)
  <2>1. ftq'[n + 1] = NewEntry(FastPrediction)
    BY <1>11, <1>15
  <2>2. DOMAIN ftq'[n + 1] = EntryFields /\ ftq'[n + 1].id = NewId
    BY <2>1 DEF NewEntry, EntryFields
  <2>10. Len(ftq) \in Nat /\ FtqDepth \in Nat /\ Freed \in Nat /\ n \in Nat /\ Keep(i) = Len(ftq)
         /\ Len(ftq) < FtqDepth
    BY <1>1, <1>2, <1>3, <1>11
  <2>3. Len(ftq) \in 0 .. FtqDepth - 1 /\ Freed <= Len(ftq) /\ Len(ftq) - Freed = n /\ (n + 1) - 1 = n
        /\ Len(ftq) \in 0 .. FtqDepth
    BY <2>10, <1>2, <1>3
  <2> DEFINE at == RingAt(ftqHead, Len(ftq))
  <2>4. RingAt(ftqHead', n) = at
    BY <1>17, <2>3
  <2>5. NewId = [idx |-> at, gen |-> gen[at] + 1]
    BY DEF NewId, Tail0, RingAt
  <2>6. at \in DOMAIN gen
    BY <1>1, <2>3, RingSum DEF RingAt
  <2> HIDE DEF at
  <2>7. gen'[at] = gen[at] + 1
    BY <1>8, <1>11, <2>5, <2>6
  <2>8. IdAt(ftqHead', gen', n + 1) = [idx |-> at, gen |-> gen'[at]]
    BY <2>3, <2>4 DEF IdAt
  <2>9. QED
    BY <2>2, <2>5, <2>7, <2>8
<1>12. \A k \in DOMAIN ftq' : DOMAIN ftq'[k] = EntryFields /\ ftq'[k].id = IdAt(ftqHead', gen', k)
  <2>1. SUFFICES ASSUME NEW k \in DOMAIN ftq'
                 PROVE  DOMAIN ftq'[k] = EntryFields /\ ftq'[k].id = IdAt(ftqHead', gen', k)
    OBVIOUS
  <2>2. k \in 1 .. n \/ (AllocFire(i) /\ k = n + 1)
    BY <1>3, <1>5, <1>2 DEF Grown
  <2>3. QED
    BY <2>2, <1>10, <1>11
<1>13. QED
  BY <1>4, <1>5, <1>7, <1>9, <1>12 DEF QueueForm, IsSequence

-----------------------------------------------------------------------------
(* A register with a field is not an empty one.                            *)
LEMMA Valid ==
  ASSUME NEW r, NEW f, f \in DOMAIN r
  PROVE  r # None /\ r # NoQuery /\ r # NoTrain
  BY DEF None, NoQuery, NoTrain

(* The slow result carries the id and region of what p2 held, and its      *)
(* redirect is for that id.                                                *)
LEMMA SlowForm ==
  /\ Slow # None /\ Slow.id = p2.id /\ Slow.pred.region = p2.fast.region /\ Slow.meta # None
  /\ Slow.override # None => Slow.override.id = p2.id /\ ~Slow.override.all
<1> DEFINE c == SlowCheck(p2.fast, btbQ, TakenSlots, p2.ckpt)
<1> DEFINE at == IF c.pred.taken THEN c.pred.slot ELSE Last
<1> DEFINE over == IF ~c.override THEN None ELSE Request(0, p2.id, at, c.pred)
<1>1. c.pred.region = p2.fast.region
  BY ZenonT(60) DEF SlowCheck
<1>2. over # None => over.id = p2.id /\ ~over.all
  <2> HIDE DEF c, at
  <2>1. QED
    BY DEF Request
<1>3. Slow = [id |-> p2.id, pred |-> c.pred, meta |-> TageResponse(tS2), override |-> over]
  BY DEF Slow
<1> HIDE DEF c, at, over
<1>4. TageResponse(tS2) # None
  <2> DEFINE m == TageResponse(tS2)
  <2>1. DOMAIN m = TM!SlotSet
    BY ZenonT(60) DEF TageResponse
  <2>2. 0 \in TM!SlotSet
    BY PredictorSizes DEF TM!SlotSet
  <2>3. QED
    BY <2>1, <2>2, Valid
<1>5. Slow # None
  BY <1>3, Valid
<1>6. QED
  BY <1>1, <1>2, <1>3, <1>4, <1>5

(* The query pipeline advances by one stage, or drops what is killed.      *)
LEMMA QueryNext ==
  ASSUME NEW i, QueryStep(i)
  PROVE  /\ p1' = IF AllocFire(i) THEN [id |-> NewId, fast |-> FastPrediction,
                                        ckpt |-> Checkpoint, folds |-> hist.folds] ELSE None
         /\ p1' # None <=> AllocFire(i)
         /\ p2' = IF p1 = None \/ KilledBy(Accept(i), p1.id, Last) THEN None ELSE p1
         /\ slowQ' = IF p2 = None \/ KilledBy(Accept(i), p2.id, Last) THEN None ELSE Slow
         /\ predPc' = IF Accept(i) # None THEN Accept(i).target
                      ELSE IF AllocFire(i) THEN FastPrediction.next ELSE predPc
<1>1. p1' = IF AllocFire(i) THEN [id |-> NewId, fast |-> FastPrediction,
                                  ckpt |-> Checkpoint, folds |-> hist.folds] ELSE None
  BY DEF QueryStep
<1>2. p1' # None <=> AllocFire(i)
  <2>1. [id |-> NewId, fast |-> FastPrediction, ckpt |-> Checkpoint, folds |-> hist.folds] # None
    BY Valid
  <2>2. QED
    BY <1>1, <2>1
<1>3. QED
  BY <1>1, <1>2 DEF QueryStep

(* Id, region, entry slot and snapshot stay with an entry.                 *)
LEMMA Carried ==
  ASSUME Structure, NEW i, NEW k \in DOMAIN ftq
  PROVE  /\ OnPath(i, k).id = ftq[k].id /\ OnPath(i, k).region = ftq[k].region
         /\ OnPath(i, k).entry = ftq[k].entry /\ OnPath(i, k).snap = ftq[k].snap
  BY EntryUpdate DEF Structure, QueueForm, EntryFields

(* Up to the stage that publishes, every entry has its slow result after   *)
(* the cycle.                                                              *)
LEMMA MetaArrives ==
  ASSUME Structure, NEW i, NEW k \in 1 .. At3, ~(TrainFire /\ k = 1)
  PROVE  OnPath(i, k).meta # None
<1>1. k \in DOMAIN ftq /\ k \in Nat /\ At3 \in Nat
  BY Placed
<1>2. OnPath(i, k).meta = IF slowQ # None /\ slowQ.id = ftq[k].id THEN slowQ.meta ELSE ftq[k].meta
  BY <1>1, EntryUpdate DEF Structure, QueueForm
<1>3. k \in 1 .. Served => ftq[k].meta # None
  BY DEF Structure, ServedClosed
<1>4. k \notin 1 .. Served => slowQ # None /\ slowQ.id = ftq[k].id
  <2>1. SUFFICES ASSUME k \notin 1 .. Served PROVE slowQ # None /\ slowQ.id = ftq[k].id
    OBVIOUS
  <2>2. Served # At3
    BY <1>1, <2>1, Placed
  <2>3. slowQ # None /\ Served = At3 - 1
    BY <2>2, Placed DEF Served, Place
  <2>4. k = At3
    BY <1>1, <2>1, <2>3
  <2>5. QED
    BY <2>3, <2>4 DEF Structure, StagesInOrder, AtPlace
<1>5. slowQ # None => slowQ.meta # None
  BY DEF Structure, StagesInOrder
<1>6. QED
  BY <1>2, <1>3, <1>4, <1>5


(* Without a redirect every stage hands on, in the coordinates of the      *)
(* queue after the cycle.                                                  *)
LEMMA StagesAdvance ==
  ASSUME Structure, HandoverRoom, NEW i \in Inputs, FtqStep(i), QueryStep(i), Accept(i) = None
  PROVE  /\ Len(ftq') = (Len(ftq) - Freed) + Grown(i)
         /\ p2' = p1 /\ Place(p1)' = Grown(i)
         /\ At2' = Len(ftq) - Freed /\ At3' = At2 - Freed /\ Served' = At3 - Freed
         /\ slowQ' = IF p2 = None THEN None ELSE Slow
<1>1. Keep(i) = Len(ftq)
  BY DEF Keep
<1>2. Len(ftq') = (Len(ftq) - Freed) + Grown(i)
  BY <1>1, FtqNext
<1>3. p2' = p1 /\ slowQ' = IF p2 = None THEN None ELSE Slow
  BY QueryNext DEF KilledBy
<1>4. Place(p1)' = Grown(i) /\ Place(p2)' = Place(p1) /\ Place(slowQ)' = Place(p2)
  BY <1>3, QueryNext, SlowForm DEF Place, Grown
<1>5. /\ Len(ftq) \in Nat /\ Freed \in {0, 1} /\ Grown(i) \in {0, 1}
      /\ Place(p1) \in {0, 1} /\ Place(p2) \in {0, 1}
  BY Placed, Kept
<1>6. /\ At2' = Len(ftq') - Place(p1)' /\ At3' = At2' - Place(p2)'
      /\ Served' = At3' - Place(slowQ)' /\ At2 = Len(ftq) - Place(p1) /\ At3 = At2 - Place(p2)
  BY DEF At2, At3, Served
<1>7. At2' = Len(ftq) - Freed
  BY <1>2, <1>4, <1>5, <1>6
<1>8. At3' = At2 - Freed
  <2>1. At3' = At2' - Place(p1) /\ At2 = Len(ftq) - Place(p1)
    BY <1>3, <1>4, <1>6
  <2>2. Len(ftq) \in Int /\ Freed \in Int /\ Place(p1) \in Int
    BY <1>5
  <2>3. \A l, f, p \in Int : (l - f) - p = (l - p) - f
    OBVIOUS
  <2>4. QED
    BY <2>1, <2>2, <2>3, <1>7
<1>9. Served' = At3 - Freed
  <2>1. At2 \in Int
    BY Placed
  <2>2. Served' = At3' - Place(p2) /\ At3 = At2 - Place(p2)
    BY <1>4, <1>6
  <2>3. QED
    BY <2>1, <2>2, <1>5, <1>8
<1>10. QED
  BY <1>2, <1>3, <1>4, <1>7, <1>8, <1>9

(* A redirect empties the pipeline, and what it keeps has its slow result. *)
LEMMA StagesCut ==
  ASSUME Structure, HandoverRoom, NEW i \in Inputs, FtqStep(i), QueryStep(i), Accept(i) # None
  PROVE  /\ p1' = None /\ p2' = None /\ slowQ' = None
         /\ Len(ftq') = Keep(i) - Freed /\ Served' = Keep(i) - Freed /\ Keep(i) <= At3
<1>1. ~AllocFire(i) /\ Grown(i) = 0
  BY DEF AllocFire, Grown
<1>2. Killed(i) /\ Keep(i) <= At3
  <2>1. CASE Accept(i).all
    BY <2>1, FlushCuts, DoneServed, Placed
  <2>2. CASE ~Accept(i).all
    <3>1. PICK k \in DOMAIN ftq : Accept(i).id = ftq[k].id
      BY <2>2, AcceptPlace
    <3>2. QED
      BY <2>2, <3>1, AcceptCuts
  <2>3. QED
    BY <2>1, <2>2
<1>3. p1' = None /\ p2' = None /\ slowQ' = None
  BY <1>1, <1>2, QueryNext DEF Killed
<1>4. Keep(i) \in Nat /\ Freed \in {0, 1}
  BY Kept
<1>5. Len(ftq') = Keep(i) - Freed
  <2>1. Len(ftq') = Keep(i) - Freed + Grown(i)
    BY FtqNext
  <2>2. QED
    BY <1>1, <1>4, <2>1
<1>6. Served' = Len(ftq') - Place(p1)' - Place(p2)' - Place(slowQ)'
  BY DEF Served, At3, At2
<1>7. Place(p1)' = 0 /\ Place(p2)' = 0 /\ Place(slowQ)' = 0
  BY <1>3 DEF Place
<1>8. Served' = Keep(i) - Freed
  BY <1>4, <1>5, <1>6, <1>7
<1>9. QED
  BY <1>2, <1>3, <1>5, <1>8

(* Without a redirect an open entry is still there, one place nearer to    *)
(* the head if the head was freed.                                         *)
LEMMA NextPlace ==
  ASSUME Structure, HandoverRoom, NEW i \in Inputs, FtqStep(i), Accept(i) = None,
         NEW k \in DOMAIN ftq, k > closed
  PROVE  /\ k - Freed \in DOMAIN ftq' /\ ftq'[k - Freed].id = ftq[k].id
         /\ ftq'[k - Freed].region = ftq[k].region
<1>1. k \in Nat /\ Len(ftq) \in Nat /\ k <= Len(ftq) /\ closed \in Nat
  BY Placed DEF Structure, ServedClosed
<1>2. Freed \in {0, 1} /\ Freed <= closed /\ Grown(i) \in {0, 1}
  BY Kept
<1>3. Keep(i) = Len(ftq)
  BY DEF Keep
<1> DEFINE j == k - Freed
<1>4. j \in 1 .. Len(ftq) - Freed /\ j + Freed = k /\ j \in Nat /\ j <= Len(ftq) - Freed
  BY <1>1, <1>2
<1> HIDE DEF j
<1>5. ftq'[j] = OnPath(i, k)
  BY <1>3, <1>4, FtqNext
<1>6. j \in DOMAIN ftq'
  <2>1. IsSequence(ftq') /\ Len(ftq') = (Len(ftq) - Freed) + Grown(i)
    BY <1>3, FtqNext
  <2>2. DOMAIN ftq' = 1 .. Len(ftq')
    BY <2>1, SequenceIs
  <2>3. j <= Len(ftq') /\ j >= 1 /\ Len(ftq') \in Int
    BY <1>1, <1>2, <1>4, <2>1
  <2>4. QED
    BY <1>4, <2>2, <2>3
<1>7. QED
  BY <1>5, <1>6, Carried DEF j

(* A cycle keeps the stages at their places.                               *)
LEMMA StagesInOrderStep ==
  ASSUME Structure, HandoverRoom, NEW i \in Inputs, FtqStep(i), QueryStep(i)
  PROVE  StagesInOrder'
<1>1. CASE Accept(i) # None
  BY <1>1, StagesCut DEF StagesInOrder
<1>2. CASE Accept(i) = None
  <2>1. /\ Len(ftq') = (Len(ftq) - Freed) + Grown(i) /\ p2' = p1
        /\ At2' = Len(ftq) - Freed /\ At3' = At2 - Freed
        /\ slowQ' = IF p2 = None THEN None ELSE Slow
    BY <1>2, StagesAdvance
  <2>2. ASSUME p1' # None
        PROVE  Len(ftq') \in DOMAIN ftq' /\ ftq'[Len(ftq')].id = p1'.id
               /\ ftq'[Len(ftq')].region = p1'.fast.region
    <3>1. /\ AllocFire(i) /\ p1' = [id |-> NewId, fast |-> FastPrediction,
                                     ckpt |-> Checkpoint, folds |-> hist.folds]
      BY <2>2, QueryNext
    <3>2. Keep(i) = Len(ftq) /\ Grown(i) = 1
      BY <1>2, <3>1 DEF Keep, Grown
    <3>3. Len(ftq') = (Len(ftq) - Freed) + 1
      BY <2>1, <3>2
    <3>4. ftq'[Len(ftq')] = NewEntry(FastPrediction)
      BY <3>1, <3>2, <3>3, FtqNext
    <3>5. Len(ftq') \in DOMAIN ftq'
      <4>1. Len(ftq) \in Nat /\ Freed \in {0, 1} /\ Freed <= Len(ftq)
        BY Placed, Kept, <3>2
      <4>2. IsSequence(ftq') /\ Len(ftq') \in Nat \ {0}
        BY <4>1, <3>3, FtqNext
      <4>3. QED
        BY <4>2, SequenceIs
    <3>6. QED
      BY <3>1, <3>4, <3>5 DEF NewEntry
  <2>3. ASSUME p2' # None
        PROVE  At2' \in DOMAIN ftq' /\ ftq'[At2'].id = p2'.id
               /\ ftq'[At2'].region = p2'.fast.region
    <3>1. Len(ftq) \in DOMAIN ftq /\ ftq[Len(ftq)].id = p1.id /\ ftq[Len(ftq)].region = p1.fast.region
      BY <2>1, <2>3 DEF Structure, StagesInOrder, AtPlace
    <3>2. Len(ftq) > closed
      BY <2>1, <2>3, Placed DEF Structure, ServedClosed, At2, Place
    <3>3. QED
      BY <1>2, <2>1, <3>1, <3>2, NextPlace
  <2>4. ASSUME slowQ' # None
        PROVE  At3' \in DOMAIN ftq' /\ ftq'[At3'].id = slowQ'.id
               /\ ftq'[At3'].region = slowQ'.pred.region
    <3>1. p2 # None /\ slowQ' = Slow
      BY <2>1, <2>4
    <3>2. At2 \in DOMAIN ftq /\ ftq[At2].id = p2.id /\ ftq[At2].region = p2.fast.region
      BY <3>1 DEF Structure, StagesInOrder, AtPlace
    <3>3. At2 > closed
      BY <3>1, Placed DEF Structure, ServedClosed, At3, Place
    <3>4. ftq'[At3'].id = ftq[At2].id /\ ftq'[At3'].region = ftq[At2].region /\ At3' \in DOMAIN ftq'
      BY <1>2, <2>1, <3>2, <3>3, NextPlace
    <3>5. QED
      BY <3>1, <3>2, <3>4, SlowForm
  <2>5. slowQ' # None => /\ slowQ'.meta # None
                         /\ slowQ'.override # None => slowQ'.override.id = slowQ'.id
                                                       /\ ~slowQ'.override.all
    BY <2>1, SlowForm
  <2>6. QED
    BY <2>2, <2>3, <2>4, <2>5 DEF StagesInOrder, AtPlace
<1>3. QED
  BY <1>1, <1>2

(* A cycle keeps the closed entries among those served.                    *)
LEMMA ServedClosedStep ==
  ASSUME Structure, HandoverRoom, NEW i \in Inputs, FtqStep(i), QueryStep(i)
  PROVE  ServedClosed'
<1>1. closed' = Done(i) - Freed
  BY FtqStepForm
<1>2. /\ Done(i) \in Nat /\ Freed \in {0, 1} /\ Freed <= closed /\ closed <= Done(i)
      /\ Done(i) <= Served /\ closed \in Nat /\ Done(i) <= Keep(i)
      /\ Keep(i) \in Nat /\ At3 \in Nat /\ Served <= At3 /\ Served \in Nat
  BY DoneServed, Kept, Placed DEF Structure, ServedClosed
<1>3. PICK m \in Nat : /\ Served' = m - Freed /\ m <= At3 /\ Done(i) <= m /\ m <= Keep(i)
  <2>1. CASE Accept(i) = None
    <3>1. Served' = At3 - Freed /\ Keep(i) = Len(ftq)
      BY <2>1, StagesAdvance DEF Keep
    <3>2. At3 <= Len(ftq)
      BY Placed
    <3>3. QED
      BY <3>1, <3>2, <1>2
  <2>2. CASE Accept(i) # None
    BY <2>2, <1>2, StagesCut
  <2>3. QED
    BY <2>1, <2>2
<1>4. closed' \in Nat /\ closed' <= Served'
  BY <1>1, <1>2, <1>3
<1>5. ASSUME NEW k \in 1 .. m - Freed PROVE ftq'[k].meta # None
  <2>1. k \in 1 .. Keep(i) - Freed /\ k + Freed \in 1 .. At3
    BY <1>2, <1>3
  <2>2. ftq'[k] = OnPath(i, k + Freed)
    BY <2>1, FtqNext
  <2>3. ~(TrainFire /\ k + Freed = 1)
    BY <2>1 DEF Freed
  <2>4. QED
    BY <2>1, <2>2, <2>3, MetaArrives
<1>6. QED
  BY <1>3, <1>4, <1>5 DEF ServedClosed

-----------------------------------------------------------------------------
(* A cycle keeps the SRAM queries beside their regions.                    *)
LEMMA RowsInStepStep ==
  ASSUME RowsInStep, NEW i, QueryStep(i)
  PROVE  RowsInStep'
<1> DEFINE r == IF AllocFire(i) THEN <<FastPrediction.region>> ELSE NoQuery
<1>1. /\ BtbTick(r, TrainIn) /\ TageTick(r, hist.folds, TrainIn)
      /\ btbQ' = IF bS1 = NoQuery \/ (p1 # None /\ KilledBy(Accept(i), p1.id, Last)) THEN None
                 ELSE BtbResponse
  BY ZenonT(60) DEF QueryStep
<1>2. AllocFire(i) <=> r # NoQuery
  BY DEF NoQuery
<1>3. AllocFire(i) => r[1] = FastPrediction.region
  OBVIOUS
<1> HIDE DEF r
<1>4. /\ tS1' = IF r = NoQuery THEN NoQuery ELSE TM!Query(r[1], hist.folds)
      /\ tS2' = IF tS1 = NoQuery THEN NoQuery ELSE QueryRead(tS1)
  BY <1>1 DEF TageTick
<1>5. (bS1' = NoQuery) <=> (r = NoQuery)
  <2>1. PICK w : bS1' = IF r = NoQuery THEN NoQuery
              ELSE [tag |-> BM!TagOf(r[1]), valid |-> WrittenTable(w).valid[BM!SetOf(r[1])],
                    ways |-> WrittenTable(w).data[BM!SetOf(r[1])]]
    BY <1>1 DEF BtbTick
  <2>2. [tag |-> BM!TagOf(r[1]), valid |-> WrittenTable(w).valid[BM!SetOf(r[1])],
         ways |-> WrittenTable(w).data[BM!SetOf(r[1])]] # NoQuery
    BY Valid
  <2>3. QED
    BY <2>1, <2>2
<1>6. \A n, f : TM!Query(n, f) # NoQuery
  BY Valid DEF TM!Query
<1>7. \A q : QueryRead(q).q = q /\ QueryRead(q) # NoQuery
  <2>1. ASSUME NEW q PROVE QueryRead(q).q = q /\ QueryRead(q) # NoQuery
    <3>1. QueryRead(q).q = q /\ "q" \in DOMAIN QueryRead(q)
      BY DEF QueryRead
    <3>2. QED
      BY <3>1, Valid
  <2>2. QED
    BY <2>1
<1>8. BtbResponse # None
  <2>1. "hit" \in DOMAIN BtbResponse
    BY DEF BtbResponse
  <2>2. QED
    BY <2>1, Valid
<1>9. /\ (p1' = None) <=> ~AllocFire(i)
      /\ p1' # None => p1'.fast = FastPrediction /\ p1'.folds = hist.folds
      /\ p2' # None => p1 # None /\ p2' = p1 /\ ~KilledBy(Accept(i), p1.id, Last)
  BY QueryNext
<1>10. (p1' = None) <=> (tS1' = NoQuery)
  BY <1>2, <1>4, <1>6, <1>9
<1>11. (p1' = None) <=> (bS1' = NoQuery)
  BY <1>2, <1>5, <1>9
<1>12. p1' # None => tS1' = TM!Query(p1'.fast.region, p1'.folds)
  BY <1>2, <1>3, <1>4, <1>9
<1>13. p2' # None => btbQ' # None /\ tS2' # NoQuery
                     /\ tS2'.q = TM!Query(p2'.fast.region, p2'.folds)
  BY <1>1, <1>4, <1>7, <1>8, <1>9 DEF RowsInStep
<1>14. QED
  BY <1>10, <1>11, <1>12, <1>13 DEF RowsInStep

(* The training queue pops one packet if TAGE takes it and gains the one   *)
(* handed over.                                                            *)
LEMMA TrainQueueNext ==
  ASSUME IsSequence(trainQ), TrainStep
  PROVE  /\ IsSequence(trainQ')
         /\ Len(trainQ') = (IF TrainPop THEN Len(trainQ) - 1 ELSE Len(trainQ)) + Freed
         /\ Len(trainQ) \in Nat
<1> DEFINE t == IF TrainPop THEN Tail(trainQ) ELSE trainQ
<1>1. trainQ' = t \o (IF TrainFire THEN <<HeadPacket>> ELSE <<>>)
  BY DEF TrainStep
<1>2. /\ IsSequence(t) /\ Len(t) = IF TrainPop THEN Len(trainQ) - 1 ELSE Len(trainQ)
  BY SequenceTail DEF TrainPop
<1>3. Len(trainQ) \in Nat /\ Len(t) \in Nat
  BY <1>2, SequenceIs
<1> HIDE DEF t
<1>4. CASE TrainFire
  <2>1. trainQ' = t \o <<HeadPacket>>
    BY <1>1, <1>4
  <2>2. QED
    BY <2>1, <1>2, <1>3, <1>4, SequenceAppend DEF Freed
<1>5. CASE ~TrainFire
  <2>1. trainQ' = t
    BY <1>1, <1>2, <1>5, SequenceAppend
  <2>2. Len(t) + Freed = Len(t)
    BY <1>3, <1>5 DEF Freed
  <2>3. QED
    BY <2>1, <2>2, <1>2, <1>3
<1>6. QED
  BY <1>4, <1>5

(* A cycle reserves before it hands over: with one packet in hand the next *)
(* needs one place and one closed entry more.                              *)
LEMMA HandoverRoomStep ==
  ASSUME Structure, HandoverRoom, NEW i \in Inputs, FtqStep(i), TrainStep
  PROVE  HandoverRoom'
<1>1. IsSequence(trainQ') /\ Len(trainQ) \in Nat
      /\ Len(trainQ') = (IF TrainPop THEN Len(trainQ) - 1 ELSE Len(trainQ)) + Freed
  BY TrainQueueNext DEF HandoverRoom
<1>2. handover' = \A n \in {Len(ftq), closed, TrainDepth - Len(trainQ)} : n > InHand
  BY DEF TrainStep
<1>3. handover' \in BOOLEAN
  BY <1>2
<1>4. InHand = Freed /\ Freed \in {0, 1} /\ closed' = Done(i) - Freed /\ Done(i) \in Nat
      /\ closed <= Done(i) /\ closed \in Nat /\ TrainDepth \in Nat
  BY Kept, DoneServed, FtqStepForm, BpuSizes
     DEF InHand, Freed, TrainFire, Structure, ServedClosed
<1>5. ASSUME handover' PROVE Len(trainQ') < TrainDepth /\ closed' > 0
  <2>1. closed > Freed /\ TrainDepth - Len(trainQ) > Freed
    BY <1>2, <1>4, <1>5
  <2>2. closed' > 0
    BY <1>4, <2>1
  <2>3. Len(trainQ') <= Len(trainQ) + Freed
    BY <1>1, <1>4
  <2>4. Len(trainQ') \in Int
    BY <1>1, <1>4
  <2>5. QED
    BY <1>1, <1>4, <2>1, <2>2, <2>3, <2>4
<1>6. QED
  BY <1>1, <1>3, <1>5 DEF HandoverRoom, IsSequence

(* A recovery ends in the cycle after its snapshot was read, unless        *)
(* another request replaces both.                                          *)
LEMMA RecoverKeptStep ==
  ASSUME Structure, RecoverKept, NEW i \in Inputs, RecoverStep(i)
  PROVE  RecoverKept'
<1> DEFINE a == Accept(i)
<1>1. recover' = IF a # None THEN (IF a.all THEN None ELSE a)
                 ELSE IF recover # None /\ Restores(i) THEN None ELSE recover
  BY DEF RecoverStep
<1>2. saved' = IF a = None \/ a.all \/ Live(a.id) = {} THEN None
              ELSE [id |-> a.id, snap |-> ftq[Max(Live(a.id))].snap,
                    ckpt |-> ftq[Max(Live(a.id))].ckpt, calls |-> ftq[Max(Live(a.id))].calls,
                    trust |-> ftq[Max(Live(a.id))].trust]
  BY DEF RecoverStep
<1>3. CASE a # None /\ ~a.all
  <2>1. PICK k \in DOMAIN ftq : a.id = ftq[k].id
    BY <1>3, AcceptPlace
  <2>2. Live(a.id) # {}
    BY <2>1 DEF Live
  <2> HIDE DEF a
  <2>3. saved'.id = a.id /\ saved' # None
    BY <1>2, <1>3, <2>2, Valid
  <2>4. recover' = a
    BY <1>1, <1>3
  <2>5. QED
    BY <1>3, <2>3, <2>4 DEF RecoverKept
<1>4. CASE a # None /\ a.all
  BY <1>1, <1>2, <1>4 DEF RecoverKept
<1>5. CASE a = None
  <2>1. saved' = None
    BY <1>2, <1>5
  <2>2. recover # None => Restores(i)
    BY <1>5 DEF RecoverKept, Restores
  <2>3. recover' = None
    BY <1>1, <1>5, <2>2
  <2>4. QED
    BY <2>1, <2>3 DEF RecoverKept
<1>6. QED
  BY <1>3, <1>4, <1>5

-----------------------------------------------------------------------------
(* The fast prediction is for the region and slot of predPc.               *)
LEMMA FastForm ==
  /\ FastPrediction.region = predPc \div Slots /\ FastPrediction.entry = predPc % Slots
<1> DEFINE f == Lookup(predPc)
<1>1. f.region = predPc \div Slots /\ f.entry = predPc % Slots
       /\ "region" \in DOMAIN f /\ "entry" \in DOMAIN f
  BY DEF Lookup
<1> HIDE DEF f
<1>2. FastPrediction = IF f.taken /\ Pops(f.ras) /\ count > 0 THEN [f EXCEPT !.next = entries[idx]]
                       ELSE f
  BY DEF FastPrediction, f
<1>3. QED
  BY <1>1, <1>2

(* Without redirect and recovery the predictor moves on exactly when it    *)
(* allocates, to where the new entry leads.                                *)
LEMMA PathAdvances ==
  ASSUME Structure, HandoverRoom, RecoverKept, PathEnd, NEW i \in Inputs,
         QueryStep(i), RecoverStep(i), Accept(i) = None, recover = None
  PROVE  /\ recover' = None
         /\ AllocFire(i) => predPc' = FastPrediction.next /\ hist' = After(NewEntry(FastPrediction))
         /\ ~AllocFire(i) => predPc' = predPc /\ hist' = hist
<1>1. saved = None /\ ~Restores(i)
  BY DEF RecoverKept, Restores
<1>2. recover' = None
  BY <1>1 DEF RecoverStep
<1>3. hist' = IF AllocFire(i) /\ FastPrediction.taken
              THEN IF FastPrediction.type = "br"
                   THEN AppendEvent(hist, EncodeEvent(BranchPc(FastPrediction), FastPrediction.next))
                   ELSE hist
              ELSE hist
  BY <1>1 DEF RecoverStep
<1> DEFINE f == FastPrediction
<1> DEFINE e == NewEntry(f)
<1>4. /\ e.snap = hist /\ e.inject = (f.taken /\ f.type = "br")
      /\ e.event = EncodeEvent(BranchPc(f), f.next)
  BY DEF NewEntry
<1>5. predPc' = IF AllocFire(i) THEN f.next ELSE predPc
  BY QueryNext
<1> HIDE DEF f, e
<1>6. AllocFire(i) => hist' = After(e)
  BY <1>3, <1>4 DEF After, f
<1>7. QED
  BY <1>2, <1>3, <1>5, <1>6 DEF e, f

(* A recovery restores the snapshot and replays the winner's branch.       *)
LEMMA PathRestored ==
  ASSUME RecoverKept, NEW i, QueryStep(i), RecoverStep(i), Accept(i) = None, recover # None
  PROVE  /\ recover' = None /\ predPc' = predPc /\ ~AllocFire(i)
         /\ hist' = IF recover.inject THEN AppendEvent(saved.snap, recover.event) ELSE saved.snap
<1>1. Restores(i) /\ Winner(i) = recover
  BY DEF Restores, Winner, RecoverKept
<1>2. hist' = Replayed(recover)
  BY <1>1 DEF RecoverStep
<1>3. recover' = None
  BY <1>1 DEF RecoverStep
<1>4. ~AllocFire(i)
  BY DEF AllocFire
<1>5. QED
  BY <1>2, <1>3, <1>4, QueryNext DEF Replayed

(* Without a redirect an entry leads where it led.                         *)
LEMMA SameEnd ==
  ASSUME Structure, NEW i, NEW k \in DOMAIN ftq, Accept(i) = None
  PROVE  /\ OnPath(i, k).next = ftq[k].next /\ OnPath(i, k).inject = ftq[k].inject
         /\ OnPath(i, k).event = ftq[k].event /\ OnPath(i, k).snap = ftq[k].snap
         /\ After(OnPath(i, k)) = After(ftq[k])
<1>1. /\ OnPath(i, k).next = ftq[k].next /\ OnPath(i, k).inject = ftq[k].inject
      /\ OnPath(i, k).event = ftq[k].event
  BY EntryUpdate DEF Structure, QueueForm
<1>2. OnPath(i, k).snap = ftq[k].snap
  BY Carried
<1>3. QED
  BY <1>1, <1>2 DEF After

(* A cycle leaves the predictor at the end of the path: by allocating,     *)
(* restoring, cutting or flushing.                                         *)
LEMMA PathEndStep ==
  ASSUME Structure, HandoverRoom, RecoverKept, PathEnd, NEW i \in Inputs,
         FtqStep(i), QueryStep(i), RecoverStep(i)
  PROVE  PathEnd'
<1> DEFINE n == Keep(i) - Freed
<1>1. /\ IsSequence(ftq') /\ Len(ftq') = n + Grown(i)
      /\ \A k \in 1 .. n : k + Freed \in DOMAIN ftq /\ ftq'[k] = OnPath(i, k + Freed)
      /\ AllocFire(i) => ftq'[n + 1] = NewEntry(FastPrediction)
  BY FtqNext
<1>2. Keep(i) \in Nat /\ Freed \in {0, 1} /\ Freed <= Keep(i) /\ Grown(i) \in {0, 1}
      /\ Keep(i) <= Len(ftq) /\ Len(ftq) \in Nat
  BY Kept, Placed
<1>3. n \in Nat /\ n + Freed = Keep(i)
  BY <1>2
<1> HIDE DEF n
<1>4. SUFFICES ASSUME ftq' # <<>>, ftq'[Len(ftq')].next # NoPc
               PROVE  /\ ftq'[Len(ftq')].next = predPc'
                      /\ recover' = None => After(ftq'[Len(ftq')]) = hist'
                      /\ recover' # None => /\ saved'.snap = ftq'[Len(ftq')].snap
                                            /\ ftq'[Len(ftq')].inject = recover'.inject
                                            /\ ftq'[Len(ftq')].event = recover'.event
  BY DEF PathEnd, After
<1>5. ~AllocFire(i) => n \in 1 .. n /\ ftq'[Len(ftq')] = OnPath(i, Keep(i)) /\ Keep(i) \in DOMAIN ftq
  <2>1. SUFFICES ASSUME ~AllocFire(i)
                 PROVE  n \in 1 .. n /\ ftq'[Len(ftq')] = OnPath(i, Keep(i)) /\ Keep(i) \in DOMAIN ftq
    OBVIOUS
  <2>2. Len(ftq') = n
    BY <1>1, <1>3, <2>1 DEF Grown
  <2>3. n # 0
    <3>1. n = 0 => DOMAIN ftq' = 1 .. 0 /\ ftq' = [k \in 1 .. 0 |-> ftq'[k]]
      BY <2>2, <1>1, SequenceIs
    <3>2. n = 0 => ftq' = <<>>
      BY <3>1
    <3>3. QED
      BY <3>2, <1>4
  <2>4. n \in 1 .. n
    BY <1>3, <2>3
  <2>5. QED
    BY <1>1, <1>3, <2>2, <2>4
<1>6. CASE AllocFire(i)
  <2>1. Len(ftq') = n + 1 /\ ftq'[Len(ftq')] = NewEntry(FastPrediction)
    BY <1>1, <1>6 DEF Grown
  <2>2. Accept(i) = None /\ recover = None
    BY <1>6 DEF AllocFire
  <2>3. NewEntry(FastPrediction).next = FastPrediction.next
    BY DEF NewEntry
  <2>4. QED
    BY <1>6, <2>1, <2>2, <2>3, PathAdvances
<1>7. CASE ~AllocFire(i) /\ Accept(i) = None
  <2>1. Keep(i) = Len(ftq) /\ Len(ftq) \in DOMAIN ftq /\ ftq'[Len(ftq')] = OnPath(i, Len(ftq))
    BY <1>5, <1>7 DEF Keep
  <2> DEFINE e == ftq[Len(ftq)]
  <2> DEFINE f == ftq'[Len(ftq')]
  <2>2. /\ f.next = e.next /\ f.inject = e.inject
        /\ f.event = e.event /\ f.snap = e.snap /\ After(f) = After(e)
    BY <1>7, <2>1, SameEnd
  <2>3. ftq # <<>>
    BY <2>1
  <2>4. /\ e.next = predPc
        /\ recover = None => After(e) = hist
        /\ recover # None => /\ saved.snap = e.snap
                             /\ e.inject = recover.inject /\ e.event = recover.event
    BY <2>2, <2>3, <1>4 DEF PathEnd
  <2> HIDE DEF e
  <2>5. CASE recover = None
    <3>1. recover' = None /\ predPc' = predPc /\ hist' = hist
      BY <1>7, <2>5, PathAdvances
    <3>2. QED
      BY <2>2, <2>4, <2>5, <3>1
  <2>6. CASE recover # None
    <3>1. /\ recover' = None /\ predPc' = predPc
          /\ hist' = IF recover.inject THEN AppendEvent(saved.snap, recover.event) ELSE saved.snap
      BY <1>7, <2>6, PathRestored
    <3>2. After(e) = hist'
      BY <2>4, <2>6, <3>1 DEF After
    <3>3. QED
      BY <2>2, <2>4, <3>1, <3>2
  <2>7. QED
    BY <2>5, <2>6
<1>8. CASE Accept(i) # None /\ Accept(i).all
  <2>1. ~AllocFire(i)
    BY <1>8 DEF AllocFire
  <2>2. Keep(i) = Done(i)
    BY <1>8, FlushCuts
  <2>3. Keep(i) \in DOMAIN ftq /\ ftq'[Len(ftq')] = OnPath(i, Keep(i))
    BY <2>1, <1>5
  <2>4. OnPath(i, Keep(i)).next = NoPc
    BY <1>8, <2>2, <2>3, EntryUpdate DEF Structure, QueueForm
  <2>5. QED
    BY <2>3, <2>4, <1>4
<1>9. CASE Accept(i) # None /\ ~Accept(i).all
  <2>1. ~AllocFire(i)
    BY <1>9 DEF AllocFire
  <2>2. PICK k \in DOMAIN ftq : Accept(i).id = ftq[k].id
    BY <1>9, AcceptPlace
  <2>3. Keep(i) = k /\ Live(Accept(i).id) = {k} /\ Max({k}) = k
    BY <1>9, <2>2, AcceptCuts
  <2>4. ftq'[Len(ftq')] = OnPath(i, k)
    BY <1>5, <2>1, <2>3
  <2>5. /\ OnPath(i, k).next = Accept(i).target
        /\ OnPath(i, k).inject = Accept(i).inject
        /\ OnPath(i, k).event = Accept(i).event
    BY <1>9, <2>2, <2>3, EntryUpdate DEF Structure, QueueForm
  <2>6. OnPath(i, k).snap = ftq[k].snap
    BY <2>2, Carried
  <2>7. predPc' = Accept(i).target
    BY <1>9, QueryNext
  <2>8. recover' = Accept(i)
    BY <1>9 DEF RecoverStep
  <2>9. saved'.snap = ftq[k].snap
    <3> DEFINE m == Max(Live(Accept(i).id))
    <3>1. m = k
      BY <2>3
    <3>2. saved' = [id |-> Accept(i).id, snap |-> ftq[m].snap, ckpt |-> ftq[m].ckpt,
                    calls |-> ftq[m].calls, trust |-> ftq[m].trust]
      BY <1>9, <2>3 DEF RecoverStep
    <3> HIDE DEF m
    <3>3. QED
      BY <3>1, <3>2
  <2>10. QED
    BY <1>9, <2>4, <2>5, <2>6, <2>7, <2>8, <2>9
<1>10. QED
  BY <1>6, <1>7, <1>8, <1>9

(* An entry in front of the cut leads where it led.                        *)
LEMMA InnerEntry ==
  ASSUME Structure, NEW i \in Inputs, NEW m \in DOMAIN ftq, m < Keep(i)
  PROVE  /\ OnPath(i, m).next = ftq[m].next /\ After(OnPath(i, m)) = After(ftq[m])
<1>1. /\ OnPath(i, m).next =
              IF Accept(i) # None /\ ~Accept(i).all /\ m \in Live(Accept(i).id)
              THEN Accept(i).target
              ELSE IF Accept(i) # None /\ Accept(i).all /\ m = Done(i) THEN NoPc
              ELSE ftq[m].next
      /\ OnPath(i, m).inject =
              IF Accept(i) # None /\ ~Accept(i).all /\ m \in Live(Accept(i).id)
              THEN Accept(i).inject ELSE ftq[m].inject
      /\ OnPath(i, m).event =
              IF Accept(i) # None /\ ~Accept(i).all /\ m \in Live(Accept(i).id)
              THEN Accept(i).event ELSE ftq[m].event
  BY EntryUpdate DEF Structure, QueueForm
<1>2. OnPath(i, m).snap = ftq[m].snap /\ m \in Nat
  BY Carried, Placed
<1>3. Accept(i) # None /\ ~Accept(i).all => m \notin Live(Accept(i).id)
  <2>1. SUFFICES ASSUME Accept(i) # None, ~Accept(i).all PROVE m \notin Live(Accept(i).id)
    OBVIOUS
  <2>2. PICK k \in DOMAIN ftq : Accept(i).id = ftq[k].id
    BY <2>1, AcceptPlace
  <2>3. Keep(i) = k /\ Live(Accept(i).id) = {k}
    BY <2>1, <2>2, AcceptCuts
  <2>4. m # k
    BY <1>2, <2>3
  <2>5. QED
    BY <2>3, <2>4
<1>4. Accept(i) # None /\ Accept(i).all => m # Done(i)
  BY <1>2, FlushCuts
<1>5. /\ OnPath(i, m).next = ftq[m].next /\ OnPath(i, m).inject = ftq[m].inject
      /\ OnPath(i, m).event = ftq[m].event
  BY <1>1, <1>3, <1>4
<1>6. QED
  BY <1>2, <1>5 DEF After

(* A cycle keeps the entries linked; the new one starts where predPc and   *)
(* hist stood.                                                             *)
LEMMA PathLinkedStep ==
  ASSUME Structure, HandoverRoom, RecoverKept, PathEnd, PathLinked, NEW i \in Inputs,
         FtqStep(i), QueryStep(i), RecoverStep(i)
  PROVE  PathLinked'
<1> DEFINE n == Keep(i) - Freed
<1>1. /\ Len(ftq') = n + Grown(i)
      /\ \A k \in 1 .. n : k + Freed \in DOMAIN ftq /\ ftq'[k] = OnPath(i, k + Freed)
      /\ AllocFire(i) => ftq'[n + 1] = NewEntry(FastPrediction)
  BY FtqNext
<1>2. Keep(i) \in Nat /\ Freed \in {0, 1} /\ Freed <= Keep(i) /\ Grown(i) \in {0, 1}
      /\ Keep(i) <= Len(ftq) /\ Len(ftq) \in Nat /\ DOMAIN ftq = 1 .. Len(ftq)
  BY Kept, Placed
<1>3. n \in Nat /\ n + Freed = Keep(i)
  BY <1>2
<1> HIDE DEF n
<1>4. SUFFICES ASSUME NEW k \in 1 .. Len(ftq') - 1, ftq'[k].next # NoPc
               PROVE  /\ ftq'[k + 1].region = ftq'[k].next \div Slots
                      /\ ftq'[k + 1].entry = ftq'[k].next % Slots
                      /\ After(ftq'[k]) = ftq'[k + 1].snap
  BY DEF PathLinked, After
<1>5. CASE k < n
  <2> DEFINE m == k + Freed
  <2>1. k \in 1 .. n /\ k + 1 \in 1 .. n /\ (k + 1) + Freed = m + 1
    BY <1>2, <1>3, <1>5
  <2>2. m \in DOMAIN ftq /\ m + 1 \in DOMAIN ftq
        /\ ftq'[k] = OnPath(i, m) /\ ftq'[k + 1] = OnPath(i, m + 1)
    BY <1>1, <2>1
  <2>3. m < Keep(i) /\ m \in 1 .. Len(ftq) - 1
    BY <1>2, <1>3, <1>5
  <2> HIDE DEF m
  <2>4. OnPath(i, m).next = ftq[m].next /\ After(OnPath(i, m)) = After(ftq[m])
    BY <2>2, <2>3, InnerEntry
  <2>5. /\ OnPath(i, m + 1).region = ftq[m + 1].region /\ OnPath(i, m + 1).entry = ftq[m + 1].entry
        /\ OnPath(i, m + 1).snap = ftq[m + 1].snap
    BY <2>2, Carried
  <2>6. /\ ftq[m + 1].region = ftq[m].next \div Slots
        /\ ftq[m + 1].entry = ftq[m].next % Slots
        /\ After(ftq[m]) = ftq[m + 1].snap
    BY <2>2, <2>3, <2>4, <1>4 DEF PathLinked
  <2>7. QED
    BY <2>2, <2>4, <2>5, <2>6
<1>6. CASE ~(k < n)
  <2>1. Grown(i) = 1 /\ k = n /\ k \in 1 .. n
    BY <1>1, <1>2, <1>3, <1>6
  <2>2. AllocFire(i)
    BY <2>1 DEF Grown
  <2>3. Accept(i) = None /\ recover = None /\ Keep(i) = Len(ftq)
    BY <2>2 DEF AllocFire, Keep
  <2>4. k + Freed = Len(ftq) /\ Len(ftq) \in DOMAIN ftq
    BY <1>1, <1>3, <2>1, <2>3
  <2>5. ftq'[k] = OnPath(i, Len(ftq)) /\ ftq'[k + 1] = NewEntry(FastPrediction)
    BY <1>1, <2>1, <2>2, <2>4
  <2>6. /\ OnPath(i, Len(ftq)).next = ftq[Len(ftq)].next
        /\ After(OnPath(i, Len(ftq))) = After(ftq[Len(ftq)])
    BY <2>3, <2>4, SameEnd
  <2>7. ftq # <<>>
    BY <2>4
  <2>8. ftq[Len(ftq)].next = predPc /\ After(ftq[Len(ftq)]) = hist
    BY <1>4, <2>3, <2>5, <2>6, <2>7 DEF PathEnd
  <2>9. /\ NewEntry(FastPrediction).region = predPc \div Slots
        /\ NewEntry(FastPrediction).entry = predPc % Slots
        /\ NewEntry(FastPrediction).snap = hist
    BY FastForm DEF NewEntry
  <2>10. QED
    BY <2>5, <2>6, <2>8, <2>9
<1>7. QED
  BY <1>5, <1>6

-----------------------------------------------------------------------------
(* The inductive invariant.                                                *)
BpuInv == Structure /\ RowsInStep /\ HandoverRoom /\ RecoverKept /\ PathEnd /\ PathLinked

(* It holds after reset.                                                   *)
LEMMA BpuInvInit == Init => BpuInv
<1> SUFFICES ASSUME Init PROVE BpuInv
  OBVIOUS
<1>1. /\ ftq = <<>> /\ ftqHead = 0 /\ gen = [n \in 0 .. FtqDepth - 1 |-> 0] /\ closed = 0
      /\ handover = FALSE /\ p1 = None /\ p2 = None /\ slowQ = None /\ trainQ \in Warmup
      /\ recover = None /\ saved = None /\ tS1 = NoQuery /\ bS1 = NoQuery
  BY DEF Init, TageInit, BtbInit
<1>2. FtqDepth \in Nat \ {0}
  BY BpuSizes
<1>3. IsSequence(<<>>) /\ Len(<<>>) = 0 /\ DOMAIN <<>> = {}
  BY DEF IsSequence
<1>4. IsSequence(trainQ)
  BY <1>1, WarmupAssumption DEF IsSequence
<1>5. QueueForm
  BY <1>1, <1>2, <1>3 DEF QueueForm
<1>6. Served = 0
  BY <1>1, <1>3 DEF Served, At3, At2, Place
<1>7. StagesInOrder /\ ServedClosed
  BY <1>1, <1>6 DEF StagesInOrder, ServedClosed
<1>8. RowsInStep /\ HandoverRoom /\ RecoverKept
  BY <1>1, <1>4 DEF RowsInStep, HandoverRoom, RecoverKept
<1>9. PathEnd /\ PathLinked
  BY <1>1, <1>3 DEF PathEnd, PathLinked
<1>10. QED
  BY <1>5, <1>7, <1>8, <1>9 DEF BpuInv, Structure

(* Every cycle keeps it.                                                   *)
LEMMA BpuInvNext == BpuInv /\ [Next]_bpuVars => BpuInv'
<1> SUFFICES ASSUME BpuInv, [Next]_bpuVars PROVE BpuInv'
  OBVIOUS
<1>1. ASSUME NEW i \in Inputs, Tick(i) PROVE BpuInv'
  <2>1. FtqStep(i) /\ QueryStep(i) /\ TrainStep /\ RecoverStep(i)
    BY <1>1 DEF Tick
  <2>2. Structure /\ RowsInStep /\ HandoverRoom /\ RecoverKept /\ PathEnd /\ PathLinked
    BY DEF BpuInv
  <2>3. QueueForm'
    BY <2>1, <2>2, QueueFormStep
  <2>4. StagesInOrder'
    BY <2>1, <2>2, StagesInOrderStep
  <2>5. ServedClosed'
    BY <2>1, <2>2, ServedClosedStep
  <2>6. RowsInStep'
    BY <2>1, <2>2, RowsInStepStep
  <2>7. HandoverRoom'
    BY <2>1, <2>2, HandoverRoomStep
  <2>8. RecoverKept'
    BY <2>1, <2>2, RecoverKeptStep
  <2>9. PathEnd'
    BY <2>1, <2>2, PathEndStep
  <2>10. PathLinked'
    BY <2>1, <2>2, PathLinkedStep
  <2>11. QED
    BY <2>3, <2>4, <2>5, <2>6, <2>7, <2>8, <2>9, <2>10 DEF BpuInv, Structure
<1>2. CASE UNCHANGED bpuVars
  <2>1. UNCHANGED <<predPc, hist, ftq, ftqHead, gen, closed, handover, p1, p2, btbQ, slowQ,
                    trainQ, recover, saved, tS1, tS2, bS1>>
    BY <1>2 DEF bpuVars, tageVars, btbVars
  <2>2. QueueForm' = QueueForm
    BY <2>1 DEF QueueForm, IdAt, RingAt, IsSequence
  <2>3. At2' = At2 /\ At3' = At3 /\ Served' = Served
    BY <2>1 DEF Served, At3, At2, Place
  <2>4. StagesInOrder' = StagesInOrder /\ ServedClosed' = ServedClosed
    BY <2>1, <2>3 DEF StagesInOrder, ServedClosed, AtPlace
  <2>5. RowsInStep' = RowsInStep
    BY <2>1 DEF RowsInStep
  <2>6. HandoverRoom' = HandoverRoom /\ RecoverKept' = RecoverKept
    BY <2>1 DEF HandoverRoom, RecoverKept, IsSequence
  <2>7. PathEnd' = PathEnd /\ PathLinked' = PathLinked
    BY <2>1 DEF PathEnd, PathLinked, After
  <2>8. QED
    BY <2>2, <2>4, <2>5, <2>6, <2>7 DEF BpuInv, Structure
<1>3. QED
  BY <1>1, <1>2 DEF Next

(* So it always holds.                                                     *)
LEMMA BpuInvAlways == Spec => []BpuInv
  BY BpuInvInit, BpuInvNext, PTL DEF Spec

(* bpu.sv's alignment of its query pipeline: a slow result is computed     *)
(* from rows read for its own region and history, and published while its  *)
(* entry is still in the FTQ, for every depth of the queue.                *)
THEOREM SlowMeetsRegionTheorem == Spec => []SlowMeetsRegion
<1>1. BpuInv => SlowMeetsRegion
  BY DEF BpuInv, RowsInStep, Structure, StagesInOrder, AtPlace, SlowMeetsRegion
<1>2. QED
  BY <1>1, BpuInvAlways, PTL

(* The FTQ is one path under one history, and the predictor stands at its  *)
(* end, through overrides, redirects, recoveries that replace each other   *)
(* and flushes.                                                            *)
THEOREM PathFollowedTheorem == Spec => []PathFollowed
<1>1. BpuInv => PathFollowed
  BY DEF BpuInv, PathLinked, PathEnd, PathFollowed
<1>2. QED
  BY <1>1, BpuInvAlways, PTL

(* ftq.sv's H1: an entry handed over for training has a reserved place, is *)
(* still the closed head, and has its slow meta.                           *)
THEOREM HandoverKeptTheorem == Spec => []HandoverKept
<1>1. BpuInv => HandoverKept
  <2>1. SUFFICES ASSUME BpuInv, handover
                 PROVE  Len(trainQ) < TrainDepth /\ closed > 0 /\ ftq[1].meta # None
    BY DEF HandoverKept
  <2>2. Len(trainQ) < TrainDepth /\ closed > 0
    BY <2>1 DEF BpuInv, HandoverRoom
  <2>3. 1 \in 1 .. Served
    BY <2>1, <2>2, Placed DEF BpuInv, Structure, ServedClosed
  <2>4. QED
    BY <2>1, <2>2, <2>3 DEF BpuInv, Structure, ServedClosed
<1>2. QED
  BY <1>1, BpuInvAlways, PTL

(* A packet TAGE refuses because of a row conflict is taken at the next    *)
(* edge.                                                                   *)
THEOREM TrainDelayedOnceTheorem == Spec => TrainDelayedOnce
<1>1. ASSUME BpuInv, [Next]_bpuVars
      PROVE  [(trainQ # <<>> /\ ~TrainPop) => TrainPop']_bpuVars
  <2>1. SUFFICES ASSUME NEW i \in Inputs, Tick(i), trainQ # <<>>, ~TrainPop PROVE TrainPop'
    BY <1>1 DEF Next
  <2>2. TrainStep /\ QueryStep(i)
    BY <2>1 DEF Tick
  <2>3. tT1' = NoTrain
    <3>1. TrainIn = NoTrain
      BY <2>1 DEF TrainIn
    <3>2. PICK r : TageTick(r, hist.folds, TrainIn)
      BY <2>2 DEF QueryStep
    <3>3. QED
      BY <3>1, <3>2 DEF TageTick
  <2>4. trainQ' # <<>>
    <3>1. IsSequence(trainQ)
      BY <1>1 DEF BpuInv, HandoverRoom
    <3>2. Len(trainQ) \in Nat /\ Len(trainQ) # 0
      <4>1. Len(trainQ) = 0 => trainQ = [k \in 1 .. 0 |-> trainQ[k]]
        BY <3>1, SequenceIs
      <4>2. QED
        BY <3>1, <4>1, <2>1, SequenceIs
    <3>3. Len(trainQ') = Len(trainQ) + Freed /\ Freed \in {0, 1}
      BY <2>1, <2>2, <3>1, TrainQueueNext DEF Freed
    <3>4. Len(trainQ') # Len(<<>>)
      BY <3>2, <3>3
    <3>5. QED
      BY <3>4
  <2>5. QED
    BY <2>3, <2>4 DEF TrainPop, TageTrainReady, Conflict
<1>2. QED
  BY <1>1, BpuInvAlways, PTL DEF Spec, TrainDelayedOnce
-----------------------------------------------------------------------------
(* The return address stack: the top trust entries of the ring are those   *)
(* of the unbounded ghost stack, and every checkpoint vouches for the top  *)
(* it was taken of, which is what repair gives back.  That the checkpoint  *)
(* a recovery uses is the redirected entry's rests on the places above.    *)
(*                                                                         *)
(* The uBTB, further down: the choice T0 makes ahead of the write in       *)
(* flight still stands when T1 carries it out, so two overlapping cycles   *)
(* are one step of the contract.  Nothing is assumed of the packets.       *)

(* The k-th entry of a ring of D entries, counted from the top x.          *)
LEMMA RingBack ==
  ASSUME NEW D \in Nat \ {0}, NEW x \in 0 .. D - 1, NEW k \in 1 .. D
  PROVE  /\ (x - k + 1) % D \in 0 .. D - 1
         /\ (x - k + 1) % D = IF x + 1 >= k THEN x + 1 - k ELSE x + 1 - k + D
<1>1. x \in Int /\ k \in Int /\ D \in Int /\ x - k + 1 \in Int
  OBVIOUS
<1>2. CASE x + 1 >= k
  BY <1>1, <1>2
<1>3. CASE ~(x + 1 >= k)
  BY <1>1, <1>3
<1>4. QED
  BY <1>2, <1>3

(* One place up, one place down, and back.                                 *)
LEMMA RingSteps ==
  ASSUME NEW D \in Nat \ {0}, NEW x \in 0 .. D - 1
  PROVE  /\ (x + 1) % D \in 0 .. D - 1 /\ (x + 1) % D = IF x + 1 = D THEN 0 ELSE x + 1
         /\ (x - 1) % D \in 0 .. D - 1 /\ (x - 1) % D = IF x = 0 THEN D - 1 ELSE x - 1
         /\ (x - 1 + 1) % D = x
<1>1. x \in Int /\ D \in Int /\ x - 1 \in Int
  OBVIOUS
<1>2. (x + 1) % D = IF x + 1 = D THEN 0 ELSE x + 1
  OBVIOUS
<1>3. (x - 1) % D = IF x = 0 THEN D - 1 ELSE x - 1
  <2>1. CASE x = 0
    BY <1>1, <2>1
  <2>2. CASE x # 0
    BY <1>1, <2>2
  <2>3. QED
    BY <2>1, <2>2
<1>4. x - 1 + 1 = x /\ x % D = x
  OBVIOUS
<1>5. QED
  BY <1>2, <1>3, <1>4

(* Trust in a stack: the top t of the n entries of ring E at x are the top *)
(* of s.                                                                   *)
Trusted(E, x, n, s, t) ==
  /\ DOMAIN E = 0 .. Depth - 1 /\ x \in 0 .. Depth - 1 /\ n \in 0 .. Depth
  /\ IsSequence(s) /\ t \in Nat /\ t <= n
  /\ \A k \in 1 .. t : k <= Len(s) /\ E[(x - k + 1) % Depth] = s[k]

(* An element put in front moves the others one place back.                *)
LEMMA PushedSequence ==
  ASSUME NEW s, IsSequence(s), NEW a
  PROVE  /\ IsSequence(<<a>> \o s) /\ Len(<<a>> \o s) = Len(s) + 1
         /\ (<<a>> \o s)[1] = a
         /\ \A k \in 2 .. Len(s) + 1 : (<<a>> \o s)[k] = s[k - 1]
<1> DEFINE S == {s[k] : k \in DOMAIN s} \cup {a}
<1> DEFINE u == <<a>> \o s
<1>1. s \in Seq({s[k] : k \in DOMAIN s})
  BY DEF IsSequence
<1>2. s \in Seq(S) /\ <<a>> \in Seq(S)
  BY <1>1
<1>3. u \in Seq(S) /\ Len(u) = Len(s) + 1 /\ Len(s) \in Nat
  BY <1>2
<1>4. u = [k \in 1 .. Len(s) + 1 |-> u[k]] /\ Len(s) + 1 \in Nat
  BY <1>3
<1>5. IsSequence(u)
  BY <1>4, SequenceForm
<1>6. u[1] = a
  BY <1>2
<1>7. \A k \in 2 .. Len(s) + 1 : u[k] = s[k - 1]
  BY <1>2
<1>8. QED
  BY <1>3, <1>5, <1>6, <1>7

(* The first element taken away moves the others one place forward.        *)
LEMMA PoppedSequence ==
  ASSUME NEW s, IsSequence(s), s # <<>>
  PROVE  /\ IsSequence(Tail(s)) /\ Len(Tail(s)) = Len(s) - 1
         /\ \A k \in 1 .. Len(s) - 1 : Tail(s)[k] = s[k + 1]
<1>1. s \in Seq({s[k] : k \in DOMAIN s})
  BY DEF IsSequence
<1>2. \A k \in 1 .. Len(s) - 1 : Tail(s)[k] = s[k + 1]
  BY <1>1
<1>3. QED
  BY <1>2, SequenceTail

(* The stack an action leaves, with every entry vouched for.               *)
Popped(s, a)      == IF Pops(a) /\ s # <<>> THEN Tail(s) ELSE s
Left(t, a)        == IF Pops(a) /\ t > 0 THEN t - 1 ELSE t
StackOf(s, a, at) == IF Pushes(a) THEN <<at>> \o Popped(s, a) ELSE Popped(s, a)
TrustOf(t, a)     == IF ~Pushes(a) THEN Left(t, a)
                     ELSE IF Left(t, a) = Depth THEN Depth ELSE Left(t, a) + 1

(* The ghosts after an action, as the two operators above give them.       *)
LEMMA GhostForm ==
  ASSUME NEW s, NEW t, NEW a, NEW at, GhostAct(s, t, a, at)
  PROVE  calls' = StackOf(s, a, at) /\ trust' = TrustOf(t, a)
  BY DEF GhostAct, StackOf, TrustOf, Popped, Left

(* An action leaves the unbounded stack a sequence.                        *)
LEMMA StackForm ==
  ASSUME NEW s, IsSequence(s), NEW a, NEW at
  PROVE  IsSequence(StackOf(s, a, at))
<1>1. IsSequence(Popped(s, a))
  BY PoppedSequence DEF Popped
<1>2. QED
  BY <1>1, PushedSequence DEF StackOf

(* A push vouches for one entry more, up to the depth of the ring: what it *)
(* overwrites is below every trusted entry.                                *)
LEMMA PushTrusted ==
  ASSUME NEW E, NEW x, NEW n, NEW s, NEW t, NEW at, Trusted(E, x, n, s, t)
  PROVE  Trusted([E EXCEPT ![(x + 1) % Depth] = at], (x + 1) % Depth,
                 IF n = Depth THEN Depth ELSE n + 1, <<at>> \o s,
                 IF t = Depth THEN Depth ELSE t + 1)
<1> DEFINE up == (x + 1) % Depth
<1> DEFINE F == [E EXCEPT ![up] = at]
<1> DEFINE m == IF n = Depth THEN Depth ELSE n + 1
<1> DEFINE r == IF t = Depth THEN Depth ELSE t + 1
<1> DEFINE u == <<at>> \o s
<1>1. /\ Depth \in Nat \ {0} /\ DOMAIN E = 0 .. Depth - 1 /\ x \in 0 .. Depth - 1
      /\ n \in 0 .. Depth /\ IsSequence(s) /\ t \in Nat /\ t <= n
      /\ \A k \in 1 .. t : k <= Len(s) /\ E[(x - k + 1) % Depth] = s[k]
  BY RasSize DEF Trusted
<1>2. up \in 0 .. Depth - 1 /\ up = IF x + 1 = Depth THEN 0 ELSE x + 1
  BY <1>1, RingSteps
<1>3. m \in 0 .. Depth /\ r \in Nat /\ r <= m /\ r <= Depth /\ r <= t + 1
  BY <1>1
<1>4. /\ IsSequence(u) /\ Len(u) = Len(s) + 1 /\ u[1] = at
      /\ \A k \in 2 .. Len(s) + 1 : u[k] = s[k - 1]
  BY <1>1, PushedSequence
<1>5. Len(s) \in Nat
  BY <1>1, SequenceIs
<1>6. DOMAIN F = 0 .. Depth - 1 /\ F[up] = at /\ \A y \in 0 .. Depth - 1 : y # up => F[y] = E[y]
  BY <1>1, <1>2
<1> HIDE DEF up, F, m, r, u
<1>7. ASSUME NEW k \in 1 .. r PROVE k <= Len(u) /\ F[(up - k + 1) % Depth] = u[k]
  <2>1. k \in 1 .. Depth /\ k \in Nat
    BY <1>3, <1>1
  <2>2. CASE k = 1
    <3>1. (up - 1 + 1) % Depth = up
      BY <1>1, <1>2, RingSteps
    <3>2. QED
      BY <2>2, <3>1, <1>4, <1>5, <1>6
  <2>3. CASE k # 1
    <3>1. k - 1 \in 1 .. t /\ k - 1 \in 1 .. Depth
      BY <1>1, <1>3, <2>1, <2>3
    <3> DEFINE y == (up - k + 1) % Depth
    <3> DEFINE z == (x - (k - 1) + 1) % Depth
    <3>2. y \in 0 .. Depth - 1 /\ y = IF up + 1 >= k THEN up + 1 - k ELSE up + 1 - k + Depth
      BY <1>1, <1>2, <2>1, RingBack
    <3>3. z \in 0 .. Depth - 1
          /\ z = IF x + 1 >= k - 1 THEN x + 1 - (k - 1) ELSE x + 1 - (k - 1) + Depth
      BY <1>1, <3>1, RingBack
    <3>4. k - 1 <= Len(s) /\ E[z] = s[k - 1]
      BY <1>1, <3>1
    <3> HIDE DEF y, z
    <3>5. y = z /\ y # up
      BY <1>1, <1>2, <2>1, <2>3, <3>2, <3>3
    <3>6. k \in 2 .. Len(s) + 1
      BY <2>1, <2>3, <3>4, <1>5
    <3>7. F[y] = u[k]
      BY <1>4, <1>6, <3>2, <3>4, <3>5, <3>6
    <3>8. QED
      BY <3>6, <3>7, <1>4, <1>5 DEF y
  <2>4. QED
    BY <2>2, <2>3
<1>8. Trusted(F, up, m, u, r)
  BY <1>2, <1>3, <1>4, <1>6, <1>7 DEF Trusted
<1>9. QED
  BY <1>8 DEF F, up, m, u, r

(* A pop gives up the top.                                                 *)
LEMMA PopTrusted ==
  ASSUME NEW E, NEW x, NEW n, NEW s, NEW t, n # 0, Trusted(E, x, n, s, t)
  PROVE  Trusted(E, (x - 1) % Depth, n - 1, IF s # <<>> THEN Tail(s) ELSE s,
                 IF t > 0 THEN t - 1 ELSE t)
<1> DEFINE down == (x - 1) % Depth
<1> DEFINE r == IF t > 0 THEN t - 1 ELSE t
<1> DEFINE u == IF s # <<>> THEN Tail(s) ELSE s
<1>1. /\ Depth \in Nat \ {0} /\ DOMAIN E = 0 .. Depth - 1 /\ x \in 0 .. Depth - 1
      /\ n \in 1 .. Depth /\ IsSequence(s) /\ t \in Nat /\ t <= n
      /\ \A k \in 1 .. t : k <= Len(s) /\ E[(x - k + 1) % Depth] = s[k]
  BY RasSize DEF Trusted
<1>2. down \in 0 .. Depth - 1 /\ down = IF x = 0 THEN Depth - 1 ELSE x - 1
  BY <1>1, RingSteps
<1>3. n - 1 \in 0 .. Depth /\ r \in Nat /\ r <= n - 1
  BY <1>1
<1>4. IsSequence(u)
  BY <1>1, PoppedSequence
<1>5. ASSUME NEW k \in 1 .. r PROVE k <= Len(u) /\ E[(down - k + 1) % Depth] = u[k]
  <2>1. t > 0 /\ k \in Nat /\ k + 1 \in 1 .. t /\ k + 1 \in 1 .. Depth /\ k \in 1 .. Depth
    BY <1>1
  <2>2. k + 1 <= Len(s) /\ E[(x - (k + 1) + 1) % Depth] = s[k + 1] /\ Len(s) \in Nat
    BY <1>1, <2>1, SequenceIs
  <2>3. s # <<>>
    BY <2>1, <2>2
  <2>4. u = Tail(s)
    BY <2>3
  <2>5. Len(u) = Len(s) - 1 /\ \A j \in 1 .. Len(s) - 1 : u[j] = s[j + 1]
    BY <1>1, <2>3, <2>4, PoppedSequence
  <2>6. k \in 1 .. Len(s) - 1
    BY <2>1, <2>2
  <2> DEFINE y == (down - k + 1) % Depth
  <2> DEFINE z == (x - (k + 1) + 1) % Depth
  <2>7. y = IF down + 1 >= k THEN down + 1 - k ELSE down + 1 - k + Depth
    BY <1>1, <1>2, <2>1, RingBack
  <2>8. z = IF x + 1 >= k + 1 THEN x + 1 - (k + 1) ELSE x + 1 - (k + 1) + Depth
    BY <1>1, <2>1, RingBack
  <2> HIDE DEF y, z, down, u
  <2>13. x \in Int /\ k \in Int /\ Depth \in Int /\ x >= 0 /\ x < Depth /\ k >= 1 /\ k < Depth
         /\ down = IF x = 0 THEN Depth - 1 ELSE x - 1
    BY <1>1, <1>2, <2>1
  <2>9. y = z
    <3>1. CASE x = 0
      BY <2>13, <2>7, <2>8, <3>1
    <3>2. CASE x # 0
      BY <2>13, <2>7, <2>8, <3>2
    <3>3. QED
      BY <3>1, <3>2
  <2>10. E[z] = s[k + 1]
    BY <2>2 DEF z
  <2>11. E[y] = u[k] /\ k <= Len(u)
    BY <2>2, <2>5, <2>6, <2>9, <2>10
  <2>12. QED
    BY <2>11 DEF y
<1> HIDE DEF down, r, u
<1>6. Trusted(E, down, n - 1, u, r)
  BY <1>1, <1>2, <1>3, <1>4, <1>5 DEF Trusted
<1>7. QED
  BY <1>6 DEF down, r, u

(* A pop and push in one replaces the top.                                 *)
LEMMA TopTrusted ==
  ASSUME NEW E, NEW x, NEW n, NEW s, NEW t, NEW at, n # 0, Trusted(E, x, n, s, t)
  PROVE  Trusted([E EXCEPT ![x] = at], x, n, <<at>> \o (IF s # <<>> THEN Tail(s) ELSE s),
                 IF (IF t > 0 THEN t - 1 ELSE t) = Depth THEN Depth
                 ELSE (IF t > 0 THEN t - 1 ELSE t) + 1)
<1> DEFINE F == [E EXCEPT ![x] = at]
<1> DEFINE r == IF (IF t > 0 THEN t - 1 ELSE t) = Depth THEN Depth
                ELSE (IF t > 0 THEN t - 1 ELSE t) + 1
<1> DEFINE v == IF s # <<>> THEN Tail(s) ELSE s
<1> DEFINE u == <<at>> \o v
<1>1. /\ Depth \in Nat \ {0} /\ DOMAIN E = 0 .. Depth - 1 /\ x \in 0 .. Depth - 1
      /\ n \in 1 .. Depth /\ IsSequence(s) /\ t \in Nat /\ t <= n
      /\ \A k \in 1 .. t : k <= Len(s) /\ E[(x - k + 1) % Depth] = s[k]
  BY RasSize DEF Trusted
<1>2. r = IF t > 0 THEN t ELSE 1
  <2>1. CASE t > 0
    <3>1. t - 1 # Depth /\ (t - 1) + 1 = t
      BY <1>1
    <3>2. QED
      BY <2>1, <3>1
  <2>2. CASE ~(t > 0)
    <3>1. t = 0 /\ Depth # 0 /\ t + 1 = 1
      BY <1>1, <2>2
    <3>2. QED
      BY <2>2, <3>1
  <2>3. QED
    BY <2>1, <2>2
<1> HIDE DEF r
<1>3. r \in Nat /\ r <= n /\ r <= Depth
  <2>1. t \in Nat /\ n \in Nat /\ Depth \in Nat /\ 1 <= n /\ n <= Depth /\ t <= n
    BY <1>1
  <2>2. r = t \/ r = 1
    BY <1>2
  <2>3. QED
    BY <2>1, <2>2
<1>4. IsSequence(v)
  BY <1>1, PoppedSequence
<1>5. /\ IsSequence(u) /\ Len(u) = Len(v) + 1 /\ u[1] = at /\ Len(v) \in Nat
      /\ \A k \in 2 .. Len(v) + 1 : u[k] = v[k - 1]
  <2> HIDE DEF v
  <2>1. /\ IsSequence(<<at>> \o v) /\ Len(<<at>> \o v) = Len(v) + 1 /\ (<<at>> \o v)[1] = at
        /\ \A k \in 2 .. Len(v) + 1 : (<<at>> \o v)[k] = v[k - 1]
    BY <1>4, PushedSequence
  <2>2. Len(v) \in Nat
    BY <1>4, SequenceIs
  <2>3. QED
    BY <2>1, <2>2
<1>6. DOMAIN F = 0 .. Depth - 1 /\ F[x] = at /\ \A y \in 0 .. Depth - 1 : y # x => F[y] = E[y]
  BY <1>1
<1> HIDE DEF F, u
<1>7. ASSUME NEW k \in 1 .. r PROVE k <= Len(u) /\ F[(x - k + 1) % Depth] = u[k]
  <2>1. k \in 1 .. Depth /\ k \in Nat
    BY <1>1, <1>3
  <2>2. CASE k = 1
    <3>1. (x - 1 + 1) % Depth = x
      BY <1>1, RingSteps
    <3>2. QED
      BY <2>2, <3>1, <1>5, <1>6
  <2>3. CASE k # 1
    <3>1. k \in 1 .. t /\ t > 1
      BY <1>1, <1>2, <2>1, <2>3
    <3>2. k <= Len(s) /\ E[(x - k + 1) % Depth] = s[k] /\ Len(s) \in Nat
      BY <1>1, <3>1, SequenceIs
    <3>3. s # <<>>
      BY <2>1, <3>2
    <3>4. v = Tail(s)
      BY <3>3
    <3>5. Len(v) = Len(s) - 1 /\ \A j \in 1 .. Len(s) - 1 : v[j] = s[j + 1]
      BY <1>1, <3>3, <3>4, PoppedSequence
    <3>6. k \in 2 .. Len(v) + 1 /\ k - 1 \in 1 .. Len(s) - 1 /\ (k - 1) + 1 = k
      BY <2>1, <2>3, <3>2, <3>5
    <3> DEFINE y == (x - k + 1) % Depth
    <3>7. y \in 0 .. Depth - 1 /\ y = IF x + 1 >= k THEN x + 1 - k ELSE x + 1 - k + Depth
      BY <1>1, <2>1, RingBack
    <3>8. E[y] = s[k]
      BY <3>2
    <3> HIDE DEF y, v
    <3>9. y # x
      <4>1. x \in Int /\ k \in Int /\ Depth \in Int /\ k # 1 /\ k >= 1 /\ k <= Depth
            /\ x >= 0 /\ x < Depth
        BY <1>1, <2>1, <2>3, <1>3
      <4>2. x + 1 - k # x
        BY <4>1
      <4>3. ~(x + 1 >= k) => x + 1 - k + Depth # x
        BY <4>1
      <4>4. QED
        BY <3>7, <4>2, <4>3
    <3>10. u[k] = v[k - 1] /\ v[k - 1] = s[k]
      BY <1>5, <3>5, <3>6
    <3>11. F[y] = u[k]
      BY <1>6, <3>7, <3>8, <3>9, <3>10
    <3>12. k <= Len(u)
      BY <1>5, <3>6
    <3>13. QED
      BY <3>11, <3>12 DEF y
  <2>4. QED
    BY <2>2, <2>3
<1>8. Trusted(F, x, n, u, r)
  BY <1>1, <1>3, <1>5, <1>6, <1>7 DEF Trusted
<1>9. QED
  BY <1>8 DEF F, u, r

(* One action on a trusted ring leaves a trusted ring.                     *)
LEMMA ActTrusted ==
  ASSUME NEW st, NEW s, NEW t, NEW a, NEW at,
         st = [entries |-> st.entries, idx |-> st.idx, count |-> st.count],
         Trusted(st.entries, st.idx, st.count, s, t)
  PROVE  Trusted(Act(st, a, at).entries, Act(st, a, at).idx, Act(st, a, at).count,
                 StackOf(s, a, at), TrustOf(t, a))
<1> DEFINE up == (st.idx + 1) % Depth
<1> DEFINE q == Act(st, a, at)
<1> DEFINE u == StackOf(s, a, at)
<1> DEFINE r == TrustOf(t, a)
<1> SUFFICES Trusted(q.entries, q.idx, q.count, u, r)
  OBVIOUS
<1>1. CASE a = "push"
  <2>1. q = [entries |-> [st.entries EXCEPT ![up] = at], idx |-> up,
             count |-> IF st.count = Depth THEN Depth ELSE st.count + 1]
    BY <1>1 DEF Act
  <2>2. u = <<at>> \o s /\ r = IF t = Depth THEN Depth ELSE t + 1
    BY <1>1 DEF StackOf, TrustOf, Popped, Left, Pushes, Pops
  <2> HIDE DEF q, u, r
  <2>3. q.entries = [st.entries EXCEPT ![up] = at] /\ q.idx = up
        /\ q.count = IF st.count = Depth THEN Depth ELSE st.count + 1
    BY <2>1
  <2>4. Trusted([st.entries EXCEPT ![up] = at], up,
                IF st.count = Depth THEN Depth ELSE st.count + 1, <<at>> \o s,
                IF t = Depth THEN Depth ELSE t + 1)
    BY PushTrusted
  <2>5. QED
    BY <2>2, <2>3, <2>4
<1>2. CASE a = "pop"
  <2>1. q = IF st.count = 0 THEN st
            ELSE [st EXCEPT !.idx = (st.idx - 1) % Depth, !.count = @ - 1]
    BY <1>2 DEF Act
  <2>2. u = (IF s # <<>> THEN Tail(s) ELSE s) /\ r = IF t > 0 THEN t - 1 ELSE t
    BY <1>2 DEF StackOf, TrustOf, Popped, Left, Pushes, Pops
  <2>3. IsSequence(u)
    BY StackForm DEF Trusted
  <2> HIDE DEF q, u, r
  <2>4. CASE st.count = 0
    <3>1. t = 0
      BY <2>4 DEF Trusted
    <3>2. q = st /\ r = 0
      BY <2>1, <2>2, <2>4, <3>1
    <3>3. Trusted(st.entries, st.idx, st.count, u, 0)
      BY <2>3, <3>1 DEF Trusted
    <3>4. QED
      BY <3>2, <3>3
  <2>5. CASE st.count # 0
    <3>1. q.entries = st.entries /\ q.idx = (st.idx - 1) % Depth /\ q.count = st.count - 1
      <4>1. q = [st EXCEPT !.idx = (st.idx - 1) % Depth, !.count = @ - 1]
        BY <2>1, <2>5
      <4>2. QED
        BY <4>1
    <3>2. QED
      BY <2>2, <2>5, <3>1, PopTrusted
  <2>6. QED
    BY <2>4, <2>5
<1>3. CASE a = "poppush"
  <2>1. q = [entries |-> [st.entries EXCEPT ![IF st.count = 0 THEN up ELSE st.idx] = at],
             idx |-> IF st.count = 0 THEN up ELSE st.idx,
             count |-> IF st.count = 0 THEN 1 ELSE st.count]
    BY <1>3 DEF Act
  <2>2. CASE st.count # 0
    <3>1. u = <<at>> \o (IF s # <<>> THEN Tail(s) ELSE s)
          /\ r = IF (IF t > 0 THEN t - 1 ELSE t) = Depth THEN Depth
                 ELSE (IF t > 0 THEN t - 1 ELSE t) + 1
      BY <1>3 DEF StackOf, TrustOf, Popped, Left, Pushes, Pops
    <3> HIDE DEF q, u, r
    <3>2. q.entries = [st.entries EXCEPT ![st.idx] = at] /\ q.idx = st.idx /\ q.count = st.count
      BY <2>1, <2>2
    <3>3. Trusted([st.entries EXCEPT ![st.idx] = at], st.idx, st.count,
                  <<at>> \o (IF s # <<>> THEN Tail(s) ELSE s),
                  IF (IF t > 0 THEN t - 1 ELSE t) = Depth THEN Depth
                  ELSE (IF t > 0 THEN t - 1 ELSE t) + 1)
      BY <2>2, TopTrusted
    <3>4. QED
      BY <3>1, <3>2, <3>3
  <2>3. CASE st.count = 0
    <3>1. t = 0 /\ IsSequence(s) /\ Depth \in Nat \ {0}
      BY <2>3, RasSize DEF Trusted
    <3>2. IsSequence(Popped(s, a)) /\ u = <<at>> \o Popped(s, a)
      BY <1>3, <3>1, PoppedSequence DEF Popped, StackOf, Pushes
    <3>3. r = 1
      BY <1>3, <3>1 DEF TrustOf, Left, Pushes
    <3> HIDE DEF q, u, r, up
    <3>4. Trusted(st.entries, st.idx, 0, Popped(s, a), 0)
      BY <2>3, <3>1, <3>2 DEF Trusted
    <3>5. Trusted([st.entries EXCEPT ![up] = at], up, IF 0 = Depth THEN Depth ELSE 0 + 1,
                  <<at>> \o Popped(s, a), IF 0 = Depth THEN Depth ELSE 0 + 1)
      BY <3>4, PushTrusted DEF up
    <3>6. q.entries = [st.entries EXCEPT ![up] = at] /\ q.idx = up /\ q.count = 1
      BY <2>1, <2>3
    <3>7. (IF 0 = Depth THEN Depth ELSE 0 + 1) = 1
      BY <3>1
    <3>8. QED
      BY <3>2, <3>3, <3>5, <3>6, <3>7
  <2>4. QED
    BY <2>2, <2>3
<1>4. CASE a \notin {"push", "pop", "poppush"}
  <2>1. q = st
    BY <1>4 DEF Act
  <2>2. u = s /\ r = t
    BY <1>4 DEF StackOf, TrustOf, Popped, Left, Pushes, Pops
  <2> HIDE DEF q, u, r
  <2>3. QED
    BY <2>1, <2>2
<1>5. QED
  BY <1>1, <1>2, <1>3, <1>4

-----------------------------------------------------------------------------
(* A checkpoint c of a stack s with t trusted entries vouches for the top. *)
Vouches(c, s, t) ==
  /\ c.idx \in 0 .. Depth - 1 /\ c.count \in 0 .. Depth /\ t \in Nat /\ t <= c.count
  /\ IsSequence(s)
  /\ t > 0 => Len(s) > 0 /\ c.addr = s[1]

(* The ring, as the ghosts vouch for it.                                   *)
StackTrusted == Trusted(entries, idx, count, calls, trust)

(* Every checkpoint, in the queue or saved for a recovery, vouches for the *)
(* stack it was taken of.                                                  *)
CheckpointsVouch ==
  /\ \A k \in DOMAIN ftq : Vouches(ftq[k].ckpt, ftq[k].calls, ftq[k].trust)
  /\ saved # None => Vouches(saved.ckpt, saved.calls, saved.trust)

(* The checkpoint of a trusted stack vouches for its top.                  *)
LEMMA CheckpointTaken ==
  ASSUME StackTrusted
  PROVE  Vouches(Checkpoint, calls, trust)
<1>1. /\ Depth \in Nat \ {0} /\ idx \in 0 .. Depth - 1 /\ count \in 0 .. Depth
      /\ IsSequence(calls) /\ trust \in Nat /\ trust <= count
      /\ \A k \in 1 .. trust : k <= Len(calls) /\ entries[(idx - k + 1) % Depth] = calls[k]
  BY RasSize DEF StackTrusted, Trusted
<1>2. Checkpoint.idx = idx /\ Checkpoint.count = count
      /\ Checkpoint.addr = IF count > 0 THEN entries[idx] ELSE 0
  BY DEF Checkpoint
<1>3. ASSUME trust > 0 PROVE Len(calls) > 0 /\ Checkpoint.addr = calls[1]
  <2>1. 1 \in 1 .. trust /\ count > 0
    BY <1>1, <1>3
  <2>2. (idx - 1 + 1) % Depth = idx
    BY <1>1, RingSteps
  <2>3. Len(calls) \in Nat /\ 1 <= Len(calls) /\ entries[(idx - 1 + 1) % Depth] = calls[1]
    BY <1>1, <2>1, SequenceIs
  <2>4. QED
    BY <1>2, <2>1, <2>2, <2>3
<1>4. QED
  BY <1>1, <1>2, <1>3 DEF Vouches

(* Repair writes the one saved entry back: the top is trusted again, what  *)
(* is below it no longer.                                                  *)
LEMMA RepairTrusted ==
  ASSUME DOMAIN entries = 0 .. Depth - 1, NEW c, NEW s, NEW t, Vouches(c, s, t)
  PROVE  Trusted(Repaired(c).entries, Repaired(c).idx, Repaired(c).count, s,
                 IF t > 0 THEN 1 ELSE 0)
<1>1. /\ Depth \in Nat \ {0} /\ c.idx \in 0 .. Depth - 1 /\ c.count \in 0 .. Depth
      /\ t \in Nat /\ t <= c.count /\ IsSequence(s) /\ (t > 0 => Len(s) > 0 /\ c.addr = s[1])
  BY RasSize DEF Vouches
<1> DEFINE E == IF c.count = 0 THEN entries ELSE [entries EXCEPT ![c.idx] = c.addr]
<1>2. Repaired(c).entries = E /\ Repaired(c).idx = c.idx /\ Repaired(c).count = c.count
  BY DEF Repaired
<1>3. DOMAIN E = 0 .. Depth - 1 /\ (c.count # 0 => E[c.idx] = c.addr)
  BY <1>1
<1>4. (c.idx - 1 + 1) % Depth = c.idx
  BY <1>1, RingSteps
<1> HIDE DEF E
<1>5. CASE t > 0
  <2>1. c.count # 0 /\ 1 <= c.count
    BY <1>1, <1>5
  <2>2. Len(s) \in Nat /\ 1 <= Len(s)
    BY <1>1, <1>5, SequenceIs
  <2>3. \A k \in 1 .. 1 : k <= Len(s) /\ E[(c.idx - k + 1) % Depth] = s[k]
    <3>1. E[(c.idx - 1 + 1) % Depth] = s[1]
      BY <1>1, <1>3, <1>4, <1>5, <2>1
    <3>2. \A k \in 1 .. 1 : k = 1
      OBVIOUS
    <3>3. QED
      BY <2>2, <3>1, <3>2
  <2>4. Trusted(E, c.idx, c.count, s, 1)
    BY <1>1, <1>3, <2>1, <2>3 DEF Trusted
  <2>5. QED
    BY <1>2, <1>5, <2>4
<1>6. CASE ~(t > 0)
  <2>1. Trusted(E, c.idx, c.count, s, 0)
    BY <1>1, <1>3 DEF Trusted
  <2>2. QED
    BY <1>2, <1>6, <2>1
<1>7. QED
  BY <1>5, <1>6

(* A cycle restores and replays, or acts on a prediction, or leaves the    *)
(* stack alone.                                                            *)
LEMMA StackTrustedStep ==
  ASSUME StackTrusted, CheckpointsVouch, NEW i, RecoverStep(i)
  PROVE  StackTrusted'
<1>1. CASE Restores(i)
  <2> DEFINE w == Winner(i)
  <2> DEFINE t == IF saved.trust > 0 THEN 1 ELSE 0
  <2>1. RasRecover(saved.ckpt, saved.calls, saved.trust, w.fix, w.push)
    BY <1>1 DEF RecoverStep
  <2>2. Vouches(saved.ckpt, saved.calls, saved.trust)
    BY <1>1 DEF Restores, CheckpointsVouch
  <2> DEFINE r == Repaired(saved.ckpt)
  <2> DEFINE q == Act(r, w.fix, w.push)
  <2>3. Trusted(r.entries, r.idx, r.count, saved.calls, t)
    BY <2>2, RepairTrusted DEF StackTrusted, Trusted
  <2>4. r = [entries |-> r.entries, idx |-> r.idx, count |-> r.count]
    BY DEF Repaired
  <2>5. entries' = q.entries /\ idx' = q.idx /\ count' = q.count
        /\ GhostAct(saved.calls, t, w.fix, w.push)
    BY <2>1 DEF RasRecover, SetRing
  <2> HIDE DEF r, q, t, w
  <2>6. calls' = StackOf(saved.calls, w.fix, w.push) /\ trust' = TrustOf(t, w.fix)
    BY <2>5, GhostForm
  <2>7. Trusted(q.entries, q.idx, q.count, StackOf(saved.calls, w.fix, w.push), TrustOf(t, w.fix))
    BY <2>3, <2>4, ActTrusted DEF q
  <2>8. QED
    BY <2>5, <2>6, <2>7 DEF StackTrusted
<1>2. CASE ~Restores(i) /\ AllocFire(i) /\ FastPrediction.taken
  <2> DEFINE a == FastPrediction.ras
  <2> DEFINE at == PushPc(FastPrediction)
  <2> DEFINE q == Act(Ring, a, at)
  <2>1. RasOp(a, at)
    BY <1>2 DEF RecoverStep
  <2>2. /\ Ring = [entries |-> Ring.entries, idx |-> Ring.idx, count |-> Ring.count]
        /\ Ring.entries = entries /\ Ring.idx = idx /\ Ring.count = count
    BY DEF Ring
  <2>3. /\ entries' = q.entries /\ idx' = q.idx /\ count' = q.count
        /\ GhostAct(calls, trust, a, at)
    BY <2>1 DEF RasOp, SetRing
  <2> HIDE DEF a, at
  <2>4. Trusted(q.entries, q.idx, q.count, StackOf(calls, a, at), TrustOf(trust, a))
    BY <2>2, ActTrusted DEF StackTrusted
  <2> HIDE DEF q
  <2>5. calls' = StackOf(calls, a, at) /\ trust' = TrustOf(trust, a)
    BY <2>3, GhostForm
  <2>6. QED
    BY <2>3, <2>4, <2>5 DEF StackTrusted
<1>3. CASE ~Restores(i) /\ ~(AllocFire(i) /\ FastPrediction.taken)
  <2>1. UNCHANGED rasVars
    BY <1>3 DEF RecoverStep, RasStay
  <2>2. QED
    BY <2>1 DEF rasVars, StackTrusted
<1>4. QED
  BY <1>1, <1>2, <1>3

(* An entry keeps its checkpoint; the one saved for a recovery is that of  *)
(* the entry the redirect names.                                           *)
LEMMA CheckpointsVouchStep ==
  ASSUME Structure, HandoverRoom, StackTrusted, CheckpointsVouch, NEW i \in Inputs,
         FtqStep(i), RecoverStep(i)
  PROVE  CheckpointsVouch'
<1>1. ASSUME NEW k \in DOMAIN ftq'
      PROVE  Vouches(ftq'[k].ckpt, ftq'[k].calls, ftq'[k].trust)
  <2> DEFINE n == Keep(i) - Freed
  <2>1. /\ IsSequence(ftq') /\ Len(ftq') = n + Grown(i)
        /\ \A j \in 1 .. n : j + Freed \in DOMAIN ftq /\ ftq'[j] = OnPath(i, j + Freed)
        /\ AllocFire(i) => ftq'[n + 1] = NewEntry(FastPrediction)
    BY FtqNext
  <2>2. n \in Nat /\ Grown(i) \in {0, 1}
    BY Kept
  <2> HIDE DEF n
  <2>3. k \in 1 .. n \/ (AllocFire(i) /\ k = n + 1)
    <3>1. k \in 1 .. n + Grown(i)
      BY <2>1, SequenceIs
    <3>2. QED
      BY <2>2, <3>1 DEF Grown
  <2>4. CASE k \in 1 .. n
    <3> DEFINE m == k + Freed
    <3>1. m \in DOMAIN ftq /\ ftq'[k] = OnPath(i, m)
      BY <2>1, <2>4
    <3> HIDE DEF m
    <3>2. /\ OnPath(i, m).ckpt = ftq[m].ckpt /\ OnPath(i, m).calls = ftq[m].calls
          /\ OnPath(i, m).trust = ftq[m].trust
      BY <3>1, EntryUpdate DEF Structure, QueueForm, EntryFields
    <3>3. QED
      BY <3>1, <3>2 DEF CheckpointsVouch
  <2>5. CASE AllocFire(i) /\ k = n + 1
    <3>1. ftq'[k].ckpt = Checkpoint /\ ftq'[k].calls = calls /\ ftq'[k].trust = trust
      BY <2>1, <2>5 DEF NewEntry
    <3>2. QED
      BY <3>1, CheckpointTaken
  <2>6. QED
    BY <2>3, <2>4, <2>5
<1>2. ASSUME saved' # None PROVE Vouches(saved'.ckpt, saved'.calls, saved'.trust)
  <2> DEFINE a == Accept(i)
  <2> DEFINE m == Max(Live(a.id))
  <2>1. saved' = IF a = None \/ a.all \/ Live(a.id) = {} THEN None
                 ELSE [id |-> a.id, snap |-> ftq[m].snap, ckpt |-> ftq[m].ckpt,
                       calls |-> ftq[m].calls, trust |-> ftq[m].trust]
    BY DEF RecoverStep
  <2>2. a # None /\ ~a.all
    BY <1>2, <2>1
  <2>3. PICK k \in DOMAIN ftq : a.id = ftq[k].id
    BY <2>2, AcceptPlace
  <2>4. m = k
    BY <2>2, <2>3, AcceptCuts
  <2> HIDE DEF m, a
  <2>5. saved'.ckpt = ftq[k].ckpt /\ saved'.calls = ftq[k].calls /\ saved'.trust = ftq[k].trust
    BY <1>2, <2>1, <2>4
  <2>6. QED
    BY <2>3, <2>5 DEF CheckpointsVouch
<1>3. QED
  BY <1>1, <1>2 DEF CheckpointsVouch, Vouches, IsSequence

(* The stack is trusted in every reachable state.                          *)
LEMMA StackAlways == Spec => [](StackTrusted /\ CheckpointsVouch)
<1>1. Init => StackTrusted /\ CheckpointsVouch
  <2>1. SUFFICES ASSUME Init PROVE StackTrusted /\ CheckpointsVouch
    OBVIOUS
  <2>2. /\ entries = [n \in 0 .. Depth - 1 |-> 0] /\ idx = Depth - 1 /\ count = 0
        /\ calls = <<>> /\ trust = 0 /\ ftq = <<>> /\ saved = None
    BY <2>1 DEF Init, RasInit
  <2>3. Depth \in Nat \ {0} /\ IsSequence(<<>>) /\ DOMAIN <<>> = {}
    BY RasSize DEF IsSequence
  <2>4. StackTrusted
    BY <2>2, <2>3 DEF StackTrusted, Trusted
  <2>5. CheckpointsVouch
    BY <2>2, <2>3 DEF CheckpointsVouch
  <2>6. QED
    BY <2>4, <2>5
<1>2. ASSUME BpuInv, StackTrusted, CheckpointsVouch, [Next]_bpuVars
      PROVE  StackTrusted' /\ CheckpointsVouch'
  <2>1. ASSUME NEW i \in Inputs, Tick(i) PROVE StackTrusted' /\ CheckpointsVouch'
    BY <1>2, <2>1, StackTrustedStep, CheckpointsVouchStep DEF Tick, BpuInv
  <2>2. CASE UNCHANGED bpuVars
    <3>1. UNCHANGED <<entries, idx, count, calls, trust, ftq, saved>>
      BY <2>2 DEF bpuVars, rasVars
    <3>2. StackTrusted'
      BY <1>2, <3>1 DEF StackTrusted
    <3>3. CheckpointsVouch' = CheckpointsVouch
      BY <3>1 DEF CheckpointsVouch
    <3>4. QED
      BY <1>2, <3>2, <3>3
  <2>3. QED
    BY <1>2, <2>1, <2>2 DEF Next
<1>3. QED
  BY <1>1, <1>2, BpuInvAlways, PTL DEF Spec

(* Returns are predicted from addresses the path really pushed, for every  *)
(* depth of the ring and every interleaving of predictions, overrides and  *)
(* recoveries: the trusted top of ras.sv agrees with a stack that neither  *)
(* overflows nor forgets.                                                  *)
THEOREM RasTopTrustedTheorem == Spec => []RasTopTrusted
<1>1. StackTrusted => RasTopTrusted
  BY DEF StackTrusted, Trusted, RasTopTrusted
<1>2. QED
  BY <1>1, StackAlways, PTL


-----------------------------------------------------------------------------
(* The uBTB.                                                               *)

(* The fields of a row, and those the contract keeps.                      *)
ContractFields == {"tag", "br", "jal", "owner", "slot", "type", "ras", "target", "ctr"}
RowFields      == ContractFields \cup {"rvc", "edge"}

(* The rows that hold a tag, and the row a packet of that tag goes to.     *)
Hits(t)  == {n \in uValid : uRow[n].tag = t}
Empty    == UM!EntrySet \ uValid
RowOf(t) == IF Hits(t) # {} THEN Min(Hits(t)) ELSE IF Empty # {} THEN Min(Empty) ELSE uReplace

(* Every row has a row's fields.                                           *)
RowsForm ==
  /\ DOMAIN uRow = UM!EntrySet /\ \A n \in UM!EntrySet : DOMAIN uRow[n] = RowFields
  /\ uValid \subseteq UM!EntrySet /\ uReplace \in UM!EntrySet

(* The write of the last edge is in the table.                             *)
WrittenThrough == uWb # NoTrain => uWb.row \in UM!EntrySet /\ uWb.data = uRow[uWb.row]

(* What T0 chose, looking through the write of T1, is what T1 would choose *)
(* from the table as it finds it; and the row's contents, with the write   *)
(* of the last edge forwarded, are those of the table.                     *)
Seen == IF uWb # NoTrain /\ uWb.row = uT1.row THEN uWb.data ELSE uT1.old
ChoiceStands ==
  uT1 # NoTrain =>
    /\ uT1.p # NoTrain /\ uT1.tag = UM!TagOf(uT1.p.region)
    /\ uT1.row = RowOf(uT1.tag) /\ uT1.matched = (Hits(uT1.tag) # {})
    /\ uT1.replace = (Hits(uT1.tag) = {} /\ Empty = {})
    /\ uT1.write = (UM!Trains(uT1.p) /\ (Hits(uT1.tag) # {} \/ UM!HasCfi(uT1.p)))
    /\ Seen = uRow[uT1.row]

UbtbInv == RowsForm /\ WrittenThrough /\ ChoiceStands

(* The smallest element of a set of entries is in it.                      *)
LEMMA MinOfEntries ==
  ASSUME NEW S, S \subseteq UM!EntrySet, S # {}
  PROVE  Min(S) \in S
<1>1. UM!EntrySet \subseteq Nat
  BY PredictorSizes DEF UM!EntrySet
<1>2. PICK m \in S : \A n \in S : m <= n
  BY <1>1, NatMin
<1>3. QED
  BY <1>2, Zenon DEF Min

(* A tag's row is one of the table's.                                      *)
LEMMA RowInTable ==
  ASSUME RowsForm, NEW t
  PROVE  RowOf(t) \in UM!EntrySet
<1>1. Hits(t) \subseteq UM!EntrySet /\ Empty \subseteq UM!EntrySet /\ uReplace \in UM!EntrySet
  BY DEF RowsForm, Hits, Empty
<1>2. CASE Hits(t) # {}
  BY <1>1, <1>2, MinOfEntries DEF RowOf
<1>3. CASE Hits(t) = {} /\ Empty # {}
  BY <1>1, <1>3, MinOfEntries DEF RowOf
<1>4. CASE Hits(t) = {} /\ Empty = {}
  BY <1>1, <1>4 DEF RowOf
<1>5. QED
  BY <1>2, <1>3, <1>4

(* A valid packet's register is not the empty one.                         *)
LEMMA ChosenIs ==
  ASSUME NEW p
  PROVE  /\ Choose(p) # NoTrain
         /\ Choose(p).p = p /\ Choose(p).tag = UM!TagOf(p.region)
  BY DEF Choose, NoTrain

(* The counter of the owner after a taken CFI, and after a packet without. *)
Mine(e, m)         == m /\ e.owner /\ e.type = "br"
TakenCtr(e, m, p)  == IF p.cfi.type # "br" THEN 0
                      ELSE IF Mine(e, m) /\ e.slot = p.cfi.slot
                           THEN (IF e.ctr = 3 THEN 3 ELSE e.ctr + 1) ELSE 2
PassedCtr(e, m, p) == IF Mine(e, m) /\ e.slot \in p.commit
                      THEN (IF e.ctr = 0 THEN 0 ELSE e.ctr - 1) ELSE e.ctr
SlotIf(p, type)    == IF p.cfi.type = type THEN {p.cfi.slot} ELSE {}

(* A row with a field replaced keeps its fields and, seen through the      *)
(* contract, is the contract's row with that field replaced.               *)
With(e, f, v) == [e EXCEPT ![f] = v]

(* Replacing a field leaves the others.                                    *)
LEMMA WithKeeps ==
  ASSUME NEW e, NEW f, NEW v
  PROVE  /\ DOMAIN With(e, f, v) = DOMAIN e
         /\ \A g \in DOMAIN e : g # f => With(e, f, v)[g] = e[g]
  BY DEF With

(* The contract leaves out two fields and changes none.                    *)
LEMMA ContractForm ==
  ASSUME NEW e, DOMAIN e = RowFields
  PROVE  DOMAIN Contract(e) = ContractFields /\ \A f \in ContractFields : Contract(e)[f] = e[f]
<1>1. RowFields \ {"rvc", "edge"} = ContractFields
  BY DEF RowFields, ContractFields
<1>2. QED
  BY <1>1 DEF Contract

(* Replacing a field and leaving the two out commute.                      *)
LEMMA ContractWith ==
  ASSUME NEW e, DOMAIN e = RowFields, NEW f \in ContractFields, NEW v
  PROVE  Contract(With(e, f, v)) = With(Contract(e), f, v)
<1>1. DOMAIN With(e, f, v) = RowFields
  BY WithKeeps
<1>2. /\ DOMAIN Contract(With(e, f, v)) = ContractFields
      /\ \A g \in ContractFields : Contract(With(e, f, v))[g] = With(e, f, v)[g]
      /\ DOMAIN Contract(e) = ContractFields
      /\ \A g \in ContractFields : Contract(e)[g] = e[g]
  BY <1>1, ContractForm
<1>3. \A g \in ContractFields : With(e, f, v)[g] = With(Contract(e), f, v)[g]
  BY <1>2 DEF With, RowFields
<1>4. DOMAIN With(Contract(e), f, v) = ContractFields
  BY <1>2, WithKeeps
<1>5. /\ Contract(With(e, f, v)) = [g \in ContractFields |-> Contract(With(e, f, v))[g]]
      /\ With(Contract(e), f, v) = [g \in ContractFields |-> With(Contract(e), f, v)[g]]
  BY <1>2, <1>4 DEF With, Contract
<1>6. QED
  BY <1>2, <1>3, <1>5

(* What a taken CFI and a packet without one make of a row.                *)
Branched(e, p)    == With(With(e, "br", e.br \cup p.commit \cup SlotIf(p, "br")),
                          "jal", e.jal \cup SlotIf(p, "jal"))
Owned(e, ctr, p)  == With(With(With(e, "ctr", ctr), "owner", TRUE), "slot", p.cfi.slot)
Aimed(e, p)       == With(With(With(e, "type", p.cfi.type), "ras", p.cfi.ras),
                          "target", p.cfi.target)
Passed(e, ctr, p) == With(With(e, "br", e.br \cup p.commit), "ctr", ctr)

(* The contract's rule as a chain of replaced fields.                      *)
LEMMA LearnForm ==
  ASSUME NEW e, ContractFields \subseteq DOMAIN e, NEW m, NEW p
  PROVE  /\ UM!HasCfi(p) =>
              UM!Learn(e, m, p) = Aimed(Owned(Branched(e, p), TakenCtr(e, m, p), p), p)
         /\ ~UM!HasCfi(p) => UM!Learn(e, m, p) = Passed(e, PassedCtr(e, m, p), p)
<1>1. CASE UM!HasCfi(p)
  BY <1>1 DEF UM!Learn, ContractFields, SlotIf, TakenCtr, Mine, With, Branched, Owned, Aimed
<1>2. CASE ~UM!HasCfi(p)
  BY <1>2 DEF UM!Learn, ContractFields, PassedCtr, Mine, With, Passed
<1>3. QED
  BY <1>1, <1>2

(* A learning row stays a row of its tag.                                  *)
LEMMA LearnKeeps ==
  ASSUME NEW e, ContractFields \subseteq DOMAIN e, NEW m, NEW p
  PROVE  DOMAIN UM!Learn(e, m, p) = DOMAIN e /\ UM!Learn(e, m, p).tag = e.tag
<1>1. \A a, f, v : "tag" \in DOMAIN a /\ f # "tag"
                     => DOMAIN With(a, f, v) = DOMAIN a /\ With(a, f, v).tag = a.tag
  BY WithKeeps
<1>2. "tag" \in DOMAIN e
  BY DEF ContractFields
<1>3. CASE UM!HasCfi(p)
  <2> DEFINE a == Branched(e, p)
  <2> DEFINE b == Owned(a, TakenCtr(e, m, p), p)
  <2>1. DOMAIN a = DOMAIN e /\ a.tag = e.tag
    BY <1>1, <1>2 DEF Branched
  <2> HIDE DEF a
  <2>2. DOMAIN b = DOMAIN a /\ b.tag = a.tag
    <3> DEFINE c == With(a, "ctr", TakenCtr(e, m, p))
    <3> DEFINE d == With(c, "owner", TRUE)
    <3>1. DOMAIN c = DOMAIN a /\ c.tag = a.tag
      BY <1>1, <1>2, <2>1
    <3> HIDE DEF c
    <3>2. DOMAIN d = DOMAIN c /\ d.tag = c.tag
      BY <1>2, <2>1, <3>1, SMT DEF With
    <3> HIDE DEF d
    <3>3. DOMAIN With(d, "slot", p.cfi.slot) = DOMAIN d /\ With(d, "slot", p.cfi.slot).tag = d.tag
      BY <1>1, <1>2, <2>1, <3>1, <3>2
    <3>4. b = With(d, "slot", p.cfi.slot)
      BY Zenon DEF c, d, Owned
    <3>5. QED
      BY <3>1, <3>2, <3>3, <3>4
  <2> HIDE DEF b
  <2>3. DOMAIN Aimed(b, p) = DOMAIN b /\ Aimed(b, p).tag = b.tag
    BY <1>1, <1>2, <2>1, <2>2 DEF Aimed
  <2>4. UM!Learn(e, m, p) = Aimed(b, p)
    BY <1>3, LearnForm DEF a, b
  <2>5. QED
    BY <2>1, <2>2, <2>3, <2>4
<1>4. CASE ~UM!HasCfi(p)
  <2>1. DOMAIN Passed(e, PassedCtr(e, m, p), p) = DOMAIN e
        /\ Passed(e, PassedCtr(e, m, p), p).tag = e.tag
    BY <1>1, <1>2 DEF Passed
  <2>2. QED
    BY <1>4, <2>1, LearnForm
<1>5. QED
  BY <1>3, <1>4

(* T1 is the contract's rule on the row it takes up.                       *)
TakenUp == [(IF uT1.matched THEN Seen ELSE Unwritten)
              EXCEPT !.tag = uT1.tag, !.rvc = uT1.p.cfi.rvc, !.edge = uT1.p.cfi.edge]

(* The two are written alike.                                              *)
LEMMA WrittenIs == Written = UM!Learn(TakenUp, uT1.matched, uT1.p)
  BY Zenon DEF Written, TakenUp, Seen, UM!Learn

(* The contents T1 writes have the packet's tag and a row's fields.        *)
LEMMA WrittenForm ==
  ASSUME UbtbInv, uT1 # NoTrain
  PROVE  /\ DOMAIN TakenUp = RowFields /\ TakenUp.tag = uT1.tag
         /\ DOMAIN Written = RowFields /\ Written.tag = uT1.tag
<1>1. uT1.row \in UM!EntrySet /\ DOMAIN Seen = RowFields
  BY RowInTable DEF UbtbInv, ChoiceStands, RowsForm
<1>2. DOMAIN Unwritten = RowFields
  BY DEF Unwritten, RowFields, ContractFields
<1> DEFINE base == IF uT1.matched THEN Seen ELSE Unwritten
<1>3. DOMAIN base = RowFields
  BY <1>1, <1>2
<1> HIDE DEF base
<1>4. DOMAIN TakenUp = RowFields /\ TakenUp.tag = uT1.tag
  BY <1>3 DEF RowFields, ContractFields, TakenUp, base
<1>5. ContractFields \subseteq DOMAIN TakenUp
  BY <1>4 DEF RowFields
<1> DEFINE q == UM!Learn(TakenUp, uT1.matched, uT1.p)
<1>6. DOMAIN q = DOMAIN TakenUp /\ q.tag = TakenUp.tag
  BY <1>5, LearnKeeps
<1> HIDE DEF q
<1>7. Written = q
  BY WrittenIs DEF q
<1>8. QED
  BY <1>4, <1>6, <1>7


(* The contract's rule commutes with leaving the two fields out.           *)
LEMMA ContractLearn ==
  ASSUME NEW e, DOMAIN e = RowFields, NEW m, NEW p
  PROVE  Contract(UM!Learn(e, m, p)) = UM!Learn(Contract(e), m, p)
<1> DEFINE c == Contract(e)
<1>1. DOMAIN c = ContractFields /\ \A f \in ContractFields : c[f] = e[f]
  BY ContractForm
<1> HIDE DEF c
<1>2. /\ c.br = e.br /\ c.jal = e.jal /\ c.ctr = e.ctr /\ c.owner = e.owner
      /\ c.slot = e.slot /\ c.type = e.type
  BY <1>1 DEF ContractFields
<1>3. ContractFields \subseteq DOMAIN e /\ ContractFields \subseteq DOMAIN c
  BY <1>1 DEF RowFields
<1>4. \A a, f, v : DOMAIN a = RowFields /\ f \in ContractFields
                     => DOMAIN With(a, f, v) = RowFields
                        /\ Contract(With(a, f, v)) = With(Contract(a), f, v)
  BY ContractWith, WithKeeps
<1>5. CASE UM!HasCfi(p)
  <2> DEFINE t == TakenCtr(e, m, p)
  <2>1. TakenCtr(c, m, p) = t
    BY <1>2, Zenon DEF TakenCtr, Mine
  <2> HIDE DEF t
  <2> DEFINE a == Branched(e, p)
  <2> DEFINE b == Owned(a, t, p)
  <2>2. DOMAIN a = RowFields /\ Contract(a) = Branched(c, p)
    <3> DEFINE x == With(e, "br", e.br \cup p.commit \cup SlotIf(p, "br"))
    <3> DEFINE y == With(c, "br", e.br \cup p.commit \cup SlotIf(p, "br"))
    <3>1. DOMAIN x = RowFields /\ Contract(x) = y
      BY <1>4 DEF c, ContractFields
    <3> HIDE DEF x, y
    <3>2. /\ DOMAIN With(x, "jal", e.jal \cup SlotIf(p, "jal")) = RowFields
          /\ Contract(With(x, "jal", e.jal \cup SlotIf(p, "jal")))
             = With(y, "jal", e.jal \cup SlotIf(p, "jal"))
      BY <1>4, <3>1 DEF ContractFields
    <3>3. a = With(x, "jal", e.jal \cup SlotIf(p, "jal"))
      BY Zenon DEF x, Branched
    <3>4. Branched(c, p) = With(y, "jal", e.jal \cup SlotIf(p, "jal"))
      BY <1>2, Zenon DEF y, Branched
    <3>5. QED
      BY <3>2, <3>3, <3>4
  <2> HIDE DEF a
  <2>3. DOMAIN b = RowFields /\ Contract(b) = Owned(Branched(c, p), t, p)
    <3> DEFINE k == Branched(c, p)
    <3> DEFINE x == With(a, "ctr", t)
    <3> DEFINE y == With(x, "owner", TRUE)
    <3> DEFINE x2 == With(k, "ctr", t)
    <3> DEFINE y2 == With(x2, "owner", TRUE)
    <3>1. DOMAIN x = RowFields /\ Contract(x) = x2
      BY <1>4, <2>2 DEF ContractFields
    <3> HIDE DEF x, x2
    <3>2. DOMAIN y = RowFields
      BY <3>1, SMT DEF With
    <3>3. Contract(y) = With(Contract(x), "owner", TRUE)
      <4>1. "owner" \in ContractFields
        BY DEF ContractFields
      <4>2. QED
        BY <3>1, <4>1, ContractWith, Zenon
    <3> HIDE DEF y
    <3>4. DOMAIN With(y, "slot", p.cfi.slot) = RowFields
          /\ Contract(With(y, "slot", p.cfi.slot)) = With(Contract(y), "slot", p.cfi.slot)
      BY <1>4, <3>2 DEF ContractFields
    <3>5. b = With(y, "slot", p.cfi.slot)
      BY Zenon DEF x, y, Owned
    <3>6. Contract(y) = y2
      BY <3>1, <3>3, Zenon
    <3> HIDE DEF y2
    <3>7. Owned(k, t, p) = With(y2, "slot", p.cfi.slot)
      BY Zenon DEF y2, x2, Owned
    <3>8. QED
      BY <3>4, <3>5, <3>6, <3>7, Zenon
  <2> HIDE DEF b
  <2>4. Contract(Aimed(b, p)) = Aimed(Contract(b), p)
    <3> DEFINE x == With(b, "type", p.cfi.type)
    <3> DEFINE y == With(x, "ras", p.cfi.ras)
    <3>1. DOMAIN x = RowFields /\ Contract(x) = With(Contract(b), "type", p.cfi.type)
      BY <1>4, <2>3 DEF ContractFields
    <3> HIDE DEF x
    <3>2. DOMAIN y = RowFields /\ Contract(y) = With(Contract(x), "ras", p.cfi.ras)
      BY <1>4, <3>1 DEF ContractFields
    <3> HIDE DEF y
    <3>3. Contract(With(y, "target", p.cfi.target)) = With(Contract(y), "target", p.cfi.target)
      BY <1>4, <3>2 DEF ContractFields
    <3>4. Aimed(b, p) = With(y, "target", p.cfi.target)
      BY Zenon DEF x, y, Aimed
    <3>5. QED
      BY <3>1, <3>2, <3>3, <3>4, Zenon DEF Aimed
  <2>5. UM!Learn(e, m, p) = Aimed(b, p)
    BY <1>3, <1>5, LearnForm DEF a, b, t
  <2>6. UM!Learn(c, m, p) = Aimed(Owned(Branched(c, p), TakenCtr(c, m, p), p), p)
    BY <1>3, <1>5, LearnForm
  <2>7. QED
    BY <2>1, <2>3, <2>4, <2>5, <2>6, Zenon DEF c
<1>6. CASE ~UM!HasCfi(p)
  <2> DEFINE t == PassedCtr(e, m, p)
  <2>1. PassedCtr(c, m, p) = t
    BY <1>2, Zenon DEF PassedCtr, Mine
  <2> HIDE DEF t
  <2> DEFINE x == With(e, "br", e.br \cup p.commit)
  <2> DEFINE y == With(c, "br", e.br \cup p.commit)
  <2>2. DOMAIN x = RowFields /\ Contract(x) = y
    BY <1>4 DEF c, ContractFields
  <2> HIDE DEF x, y
  <2>3. Contract(With(x, "ctr", t)) = With(y, "ctr", t)
    BY <1>4, <2>2 DEF ContractFields
  <2>4. Passed(e, t, p) = With(x, "ctr", t) /\ Passed(c, t, p) = With(y, "ctr", t)
    BY <1>2, Zenon DEF x, y, Passed
  <2>5. UM!Learn(e, m, p) = Passed(e, t, p)
    BY <1>3, <1>6, LearnForm DEF t
  <2>6. UM!Learn(c, m, p) = Passed(c, PassedCtr(c, m, p), p)
    BY <1>3, <1>6, LearnForm
  <2>7. QED
    BY <2>1, <2>3, <2>4, <2>5, <2>6, Zenon DEF c
<1>7. QED
  BY <1>5, <1>6


(* The row taken up is the one the contract learns on.                     *)
LEMMA TakenUpContract ==
  ASSUME UbtbInv, uT1 # NoTrain
  PROVE  Contract(TakenUp) = IF uT1.matched THEN Contract(uRow[uT1.row])
                             ELSE UM!NewEntry(uT1.tag)
<1> DEFINE q == Contract(TakenUp)
<1>1. DOMAIN q = ContractFields /\ \A f \in ContractFields : q[f] = TakenUp[f]
  BY WrittenForm, ContractForm
<1>2. q = [f \in ContractFields |-> q[f]]
  BY <1>1 DEF Contract
<1> HIDE DEF q
<1>3. CASE uT1.matched
  <2>1. Hits(uT1.tag) # {} /\ uT1.row = RowOf(uT1.tag) /\ Seen = uRow[uT1.row]
    BY <1>3 DEF UbtbInv, ChoiceStands
  <2>2. Hits(uT1.tag) \subseteq UM!EntrySet
    BY DEF Hits, UbtbInv, RowsForm
  <2>3. uT1.row \in Hits(uT1.tag)
    BY <2>1, <2>2, MinOfEntries DEF RowOf
  <2>4. Seen.tag = uT1.tag /\ DOMAIN Seen = RowFields
    BY <2>1, <2>2, <2>3 DEF Hits, UbtbInv, RowsForm
  <2>5. TakenUp = [Seen EXCEPT !.tag = uT1.tag, !.rvc = uT1.p.cfi.rvc, !.edge = uT1.p.cfi.edge]
    BY <1>3 DEF TakenUp
  <2>6. \A f \in ContractFields : TakenUp[f] = Seen[f]
    BY <2>4, <2>5 DEF RowFields, ContractFields
  <2>7. DOMAIN Contract(Seen) = ContractFields
        /\ \A f \in ContractFields : Contract(Seen)[f] = Seen[f]
    BY <2>4, ContractForm
  <2>8. Contract(Seen) = [f \in ContractFields |-> Contract(Seen)[f]]
    BY <2>7 DEF Contract
  <2>9. \A f \in ContractFields : q[f] = Contract(Seen)[f]
    BY <1>1, <2>6, <2>7
  <2>10. q = Contract(Seen)
    BY <1>2, <2>8, <2>9
  <2>11. QED
    BY <1>3, <2>1, <2>10 DEF q
<1>4. CASE ~uT1.matched
  <2> DEFINE r == UM!NewEntry(uT1.tag)
  <2>1. TakenUp = [Unwritten EXCEPT !.tag = uT1.tag, !.rvc = uT1.p.cfi.rvc,
                                    !.edge = uT1.p.cfi.edge]
    BY <1>4 DEF TakenUp
  <2>2. DOMAIN r = ContractFields /\ r = [f \in ContractFields |-> r[f]]
    BY DEF UM!NewEntry, ContractFields
  <2>3. \A f \in ContractFields : TakenUp[f] = r[f]
    <3>1. \A f \in ContractFields \ {"tag"} : TakenUp[f] = Unwritten[f]
      <4>1. DOMAIN Unwritten = RowFields
        BY DEF Unwritten, RowFields, ContractFields
      <4>2. QED
        BY <2>1, <4>1 DEF RowFields, ContractFields
    <3>2. TakenUp.tag = uT1.tag
      BY WrittenForm
    <3>3. r.tag = uT1.tag
      BY DEF UM!NewEntry
    <3>4. Unwritten.owner = r.owner
      BY DEF UM!NewEntry, Unwritten
    <3>5. /\ Unwritten.br = r.br /\ Unwritten.jal = r.jal /\ Unwritten.slot = r.slot
          /\ Unwritten.type = r.type /\ Unwritten.ras = r.ras
          /\ Unwritten.target = r.target /\ Unwritten.ctr = r.ctr
      BY DEF UM!NewEntry, Unwritten
    <3> HIDE DEF r
    <3>6. QED
      BY <3>1, <3>2, <3>3, <3>4, <3>5 DEF ContractFields
  <2> HIDE DEF r
  <2>4. q = r
    BY <1>1, <1>2, <2>2, <2>3
  <2>5. QED
    BY <1>4, <2>4 DEF q, r
<1>5. QED
  BY <1>3, <1>4

(* What T1 writes, seen through the contract, is what the contract learns. *)
LEMMA WrittenContract ==
  ASSUME UbtbInv, uT1 # NoTrain
  PROVE  Contract(Written)
         = UM!Learn(IF uT1.matched THEN Contract(uRow[uT1.row]) ELSE UM!NewEntry(uT1.tag),
                    uT1.matched, uT1.p)
<1>1. DOMAIN TakenUp = RowFields
  BY WrittenForm
<1>2. Contract(UM!Learn(TakenUp, uT1.matched, uT1.p))
      = UM!Learn(Contract(TakenUp), uT1.matched, uT1.p)
  BY <1>1, ContractLearn
<1>3. QED
  BY <1>2, WrittenIs, TakenUpContract, Zenon

-----------------------------------------------------------------------------
(* One packet through T0 and T1 keeps the invariant.                       *)
LEMMA UbtbInvInit == UbtbInit => UbtbInv
<1> SUFFICES ASSUME UbtbInit PROVE UbtbInv
  OBVIOUS
<1>1. /\ uRow = [n \in UM!EntrySet |-> Unwritten] /\ uValid = {} /\ uReplace = 0
      /\ uT1 = NoTrain /\ uWb = NoTrain
  BY DEF UbtbInit
<1>2. DOMAIN Unwritten = RowFields
  BY DEF Unwritten, RowFields, ContractFields
<1>3. 0 \in UM!EntrySet
  BY PredictorSizes DEF UM!EntrySet
<1>4. RowsForm
  BY <1>1, <1>2, <1>3 DEF RowsForm
<1>5. QED
  BY <1>1, <1>4 DEF UbtbInv, WrittenThrough, ChoiceStands

(* A write puts a row in the place of a row.                               *)
LEMMA RowsFormStep ==
  ASSUME UbtbInv, NEW p, UbtbTick(p)
  PROVE  RowsForm'
<1>1. /\ DOMAIN uRow = UM!EntrySet /\ \A n \in UM!EntrySet : DOMAIN uRow[n] = RowFields
      /\ uValid \subseteq UM!EntrySet /\ uReplace \in UM!EntrySet
  BY DEF UbtbInv, RowsForm
<1>2. /\ uRow' = IF UbtbWrites THEN [uRow EXCEPT ![uT1.row] = Written] ELSE uRow
      /\ uValid' = uValid \cup (IF UbtbWrites THEN {uT1.row} ELSE {})
      /\ uReplace' = IF UbtbWrites /\ uT1.replace THEN (uT1.row + 1) % Entries ELSE uReplace
  BY DEF UbtbTick
<1>3. CASE UbtbWrites
  <2>1. uT1 # NoTrain
    BY <1>3 DEF UbtbWrites
  <2>2. uT1.row \in UM!EntrySet /\ DOMAIN Written = RowFields
    BY <2>1, RowInTable, WrittenForm DEF UbtbInv, ChoiceStands
  <2>3. (uT1.row + 1) % Entries \in UM!EntrySet
    BY <2>2, PredictorSizes DEF UM!EntrySet
  <2>4. DOMAIN uRow' = UM!EntrySet /\ \A n \in UM!EntrySet : DOMAIN uRow'[n] = RowFields
    BY <1>1, <1>2, <1>3, <2>2
  <2>5. uValid' \subseteq UM!EntrySet /\ uReplace' \in UM!EntrySet
    BY <1>1, <1>2, <1>3, <2>2, <2>3
  <2>6. QED
    BY <2>4, <2>5 DEF RowsForm
<1>4. CASE ~UbtbWrites
  <2>1. uRow' = uRow /\ uValid' = uValid /\ uReplace' = uReplace
    BY <1>2, <1>4
  <2>2. QED
    BY <1>1, <2>1 DEF RowsForm
<1>5. QED
  BY <1>3, <1>4


(* The write register holds the row the table holds.                       *)
LEMMA WrittenThroughStep ==
  ASSUME UbtbInv, NEW p, UbtbTick(p)
  PROVE  WrittenThrough'
<1>1. /\ uWb' = IF UbtbWrites THEN [row |-> uT1.row, data |-> Written] ELSE NoTrain
      /\ uRow' = IF UbtbWrites THEN [uRow EXCEPT ![uT1.row] = Written] ELSE uRow
  BY DEF UbtbTick
<1>2. CASE UbtbWrites
  <2>1. uT1 # NoTrain
    BY <1>2 DEF UbtbWrites
  <2>2. uT1.row \in UM!EntrySet /\ DOMAIN uRow = UM!EntrySet
    BY <2>1, RowInTable DEF UbtbInv, ChoiceStands, RowsForm
  <2>3. uWb'.row = uT1.row /\ uWb'.data = Written /\ uRow'[uT1.row] = Written
    BY <1>1, <1>2, <2>2
  <2>4. QED
    BY <2>2, <2>3 DEF WrittenThrough
<1>3. CASE ~UbtbWrites
  BY <1>1, <1>3 DEF WrittenThrough
<1>4. QED
  BY <1>2, <1>3

(* The table as T0 sees it through the write of T1.                        *)
AheadValid == uValid \cup (IF UbtbWrites THEN {uT1.row} ELSE {})
AheadHits(t) ==
  {n \in AheadValid : (IF UbtbWrites /\ uT1.row = n THEN uT1.tag ELSE uRow[n].tag) = t}
AheadEmpty == UM!EntrySet \ AheadValid
AheadNext  == IF UbtbWrites /\ uT1.replace THEN (uT1.row + 1) % Entries ELSE uReplace
AheadRow(t) == IF AheadHits(t) # {} THEN Min(AheadHits(t))
               ELSE IF AheadEmpty # {} THEN Min(AheadEmpty) ELSE AheadNext

(* T0's choice in the words of the table ahead.                            *)
LEMMA ChooseForm ==
  ASSUME NEW p
  PROVE  LET t == UM!TagOf(p.region) IN
         Choose(p) = [p |-> p, tag |-> t, row |-> AheadRow(t), matched |-> AheadHits(t) # {},
                      replace |-> AheadHits(t) = {} /\ AheadEmpty = {},
                      old |-> uRow[AheadRow(t)],
                      write |-> UM!Trains(p) /\ (AheadHits(t) # {} \/ UM!HasCfi(p))]
  BY ZenonT(60) DEF Choose, AheadRow, AheadHits, AheadEmpty, AheadNext, AheadValid

(* It is the table of the next cycle.                                      *)
LEMMA AheadIs ==
  ASSUME UbtbInv, NEW p, UbtbTick(p), NEW t
  PROVE  /\ AheadValid = uValid' /\ AheadNext = uReplace'
         /\ AheadHits(t) = {n \in uValid' : uRow'[n].tag = t}
<1>1. AheadValid = uValid' /\ AheadNext = uReplace'
  BY DEF UbtbTick, AheadValid, AheadNext
<1>2. AheadValid \subseteq UM!EntrySet /\ DOMAIN uRow = UM!EntrySet
  <2>1. UbtbWrites => uT1.row \in UM!EntrySet
    BY RowInTable DEF UbtbInv, ChoiceStands, UbtbWrites
  <2>2. QED
    BY <2>1 DEF AheadValid, UbtbInv, RowsForm
<1>3. ASSUME NEW n \in AheadValid
      PROVE  (IF UbtbWrites /\ uT1.row = n THEN uT1.tag ELSE uRow[n].tag) = uRow'[n].tag
  <2>1. uRow' = IF UbtbWrites THEN [uRow EXCEPT ![uT1.row] = Written] ELSE uRow
    BY DEF UbtbTick
  <2>2. CASE UbtbWrites
    <3>1. Written.tag = uT1.tag
      BY <2>2, WrittenForm DEF UbtbWrites
    <3>2. uRow' = [uRow EXCEPT ![uT1.row] = Written]
      BY <2>1, <2>2
    <3>3. CASE uT1.row = n
      <4>1. uRow'[n] = Written
        BY <1>2, <1>3, <3>2, <3>3
      <4>2. QED
        BY <2>2, <3>1, <3>3, <4>1
    <3>4. CASE uT1.row # n
      <4>1. uRow'[n] = uRow[n]
        BY <1>2, <1>3, <3>2, <3>4
      <4>2. QED
        BY <3>4, <4>1
    <3>5. QED
      BY <3>3, <3>4
  <2>3. CASE ~UbtbWrites
    BY <2>1, <2>3
  <2>4. QED
    BY <2>2, <2>3
<1>4. QED
  BY <1>1, <1>3 DEF AheadHits

(* What T0 chooses stands when T1 gets it.                                 *)
LEMMA ChoiceStandsStep ==
  ASSUME UbtbInv, NEW p, UbtbTick(p)
  PROVE  ChoiceStands'
<1> SUFFICES ASSUME uT1' # NoTrain PROVE ChoiceStands'
  BY DEF ChoiceStands
<1> DEFINE t == UM!TagOf(p.region)
<1> DEFINE r == AheadRow(t)
<1>1. p # NoTrain /\ uT1' = Choose(p)
  BY DEF UbtbTick
<1>2. /\ uT1'.p = p /\ uT1'.tag = t /\ uT1'.row = r /\ uT1'.matched = (AheadHits(t) # {})
      /\ uT1'.replace = (AheadHits(t) = {} /\ AheadEmpty = {})
      /\ uT1'.old = uRow[r]
      /\ uT1'.write = (UM!Trains(p) /\ (AheadHits(t) # {} \/ UM!HasCfi(p)))
  <2> HIDE DEF r
  <2>1. Choose(p) = [p |-> p, tag |-> t, row |-> r, matched |-> AheadHits(t) # {},
                      replace |-> AheadHits(t) = {} /\ AheadEmpty = {},
                      old |-> uRow[r],
                      write |-> UM!Trains(p) /\ (AheadHits(t) # {} \/ UM!HasCfi(p))]
    BY ChooseForm DEF r
  <2> HIDE DEF t
  <2>2. QED
    BY <1>1, <2>1
<1> HIDE DEF t
<1>3. AheadEmpty = UM!EntrySet \ uValid' /\ AheadNext = uReplace'
      /\ AheadHits(t) = {n \in uValid' : uRow'[n].tag = t}
  BY AheadIs DEF AheadEmpty
<1>4. r = IF {n \in uValid' : uRow'[n].tag = t} # {} THEN Min({n \in uValid' : uRow'[n].tag = t})
          ELSE IF UM!EntrySet \ uValid' # {} THEN Min(UM!EntrySet \ uValid') ELSE uReplace'
  BY <1>3, Zenon DEF AheadRow
<1> HIDE DEF r
<1>5. (IF uWb' # NoTrain /\ uWb'.row = uT1'.row THEN uWb'.data ELSE uT1'.old) = uRow'[uT1'.row]
  <2>1. WrittenThrough'
    BY WrittenThroughStep
  <2>2. CASE uWb' # NoTrain /\ uWb'.row = uT1'.row
    BY <2>1, <2>2 DEF WrittenThrough
  <2>3. CASE ~(uWb' # NoTrain /\ uWb'.row = uT1'.row)
    <3>1. /\ uWb' = IF UbtbWrites THEN [row |-> uT1.row, data |-> Written] ELSE NoTrain
          /\ uRow' = IF UbtbWrites THEN [uRow EXCEPT ![uT1.row] = Written] ELSE uRow
      BY DEF UbtbTick
    <3>2. CASE UbtbWrites
      <4>1. [row |-> uT1.row, data |-> Written] # NoTrain
        BY DEF NoTrain
      <4>2. uWb' # NoTrain /\ uWb'.row = uT1.row
        BY <3>1, <3>2, <4>1
      <4>3. uT1.row # r /\ uRow' = [uRow EXCEPT ![uT1.row] = Written]
        BY <1>2, <2>3, <3>1, <3>2, <4>2
      <4>4. uRow'[r] = uRow[r]
        BY <4>3, SMT
      <4>5. QED
        BY <1>2, <2>3, <4>4
    <3>3. CASE ~UbtbWrites
      BY <1>2, <2>3, <3>1, <3>3
    <3>4. QED
      BY <3>2, <3>3
  <2>4. QED
    BY <2>2, <2>3
<1>6. uT1'.matched = ({n \in uValid' : uRow'[n].tag = t} # {})
      /\ uT1'.replace = ({n \in uValid' : uRow'[n].tag = t} = {} /\ UM!EntrySet \ uValid' = {})
      /\ uT1'.write = (UM!Trains(p) /\ ({n \in uValid' : uRow'[n].tag = t} # {} \/ UM!HasCfi(p)))
  BY <1>2, <1>3, Zenon
<1>7. uT1'.p # NoTrain /\ uT1'.tag = UM!TagOf(uT1'.p.region)
  BY <1>1, <1>2 DEF t
<1>8. QED
  BY <1>2, <1>4, <1>5, <1>6, <1>7, Zenon DEF ChoiceStands, RowOf, Hits, Empty, Seen


-----------------------------------------------------------------------------
(* The table the contract sees.                                            *)
Shown == [n \in DOMAIN uRow |-> IF n \in uValid THEN Contract(uRow[n]) ELSE NoEntry]

(* Its rows are the valid ones.                                            *)
LEMMA ShownIs ==
  ASSUME RowsForm
  PROVE  /\ DOMAIN Shown = UM!EntrySet
         /\ \A n \in UM!EntrySet : Shown[n] = IF n \in uValid THEN Contract(uRow[n]) ELSE NoEntry
         /\ \A n \in uValid : Shown[n] # NoEntry /\ Shown[n].tag = uRow[n].tag
<1>1. DOMAIN Shown = UM!EntrySet
      /\ \A n \in UM!EntrySet : Shown[n] = IF n \in uValid THEN Contract(uRow[n]) ELSE NoEntry
  BY DEF Shown, RowsForm
<1>2. ASSUME NEW n \in uValid PROVE Shown[n] # NoEntry /\ Shown[n].tag = uRow[n].tag
  <2>1. n \in UM!EntrySet /\ DOMAIN uRow[n] = RowFields
    BY DEF RowsForm
  <2>2. Shown[n] = Contract(uRow[n])
    BY <1>1, <2>1
  <2>3. DOMAIN Contract(uRow[n]) = ContractFields
        /\ \A f \in ContractFields : Contract(uRow[n])[f] = uRow[n][f]
    BY <2>1, ContractForm
  <2>4. "tag" \in ContractFields
    BY DEF ContractFields
  <2>5. DOMAIN NoEntry = {}
    BY DEF NoEntry
  <2>6. QED
    BY <2>2, <2>3, <2>4, <2>5
<1>3. QED
  BY <1>1, <1>2

(* Rows that match and rows that are free, for the contract as for T0.     *)
LEMMA ShownHits ==
  ASSUME RowsForm, NEW t
  PROVE  /\ {n \in UM!EntrySet : Shown[n] # NoEntry /\ Shown[n].tag = t} = Hits(t)
         /\ {n \in UM!EntrySet : Shown[n] = NoEntry} = Empty
<1>1. uValid \subseteq UM!EntrySet
  BY DEF RowsForm
<1>2. \A n \in UM!EntrySet : n \notin uValid => Shown[n] = NoEntry
  BY ShownIs
<1>3. \A n \in uValid : Shown[n] # NoEntry /\ Shown[n].tag = uRow[n].tag
  BY ShownIs
<1>4. QED
  BY <1>1, <1>2, <1>3 DEF Hits, Empty

(* The contract's training rule, applied to the table it sees.             *)
LEMMA TrainForm ==
  ASSUME RowsForm, NEW p
  PROVE  LET t == UM!TagOf(p.region)  n == RowOf(t)
             old == IF Hits(t) # {} THEN Shown[n] ELSE UM!NewEntry(t)
         IN UM!Train(Shown, uReplace, p)
            = IF ~UM!Trains(p) \/ (Hits(t) = {} /\ ~UM!HasCfi(p))
              THEN [table |-> Shown, replace |-> uReplace]
              ELSE [table   |-> [Shown EXCEPT ![n] = UM!Learn(old, Hits(t) # {}, p)],
                    replace |-> IF Hits(t) = {} /\ Empty = {} THEN (n + 1) % Entries
                                ELSE uReplace]
<1> DEFINE t == UM!TagOf(p.region)
<1>1. /\ {n \in UM!EntrySet : Shown[n] # UM!NoEntry /\ Shown[n].tag = t} = Hits(t)
      /\ {n \in UM!EntrySet : Shown[n] = UM!NoEntry} = Empty
  <2>1. UM!NoEntry = NoEntry
    BY DEF UM!NoEntry, NoEntry
  <2>2. QED
    BY <2>1, ShownHits
<1>2. UM!Min(Hits(t)) = Min(Hits(t)) /\ UM!Min(Empty) = Min(Empty)
  BY Zenon DEF UM!Min, Min
<1>3. QED
  BY <1>1, <1>2, ZenonT(60) DEF UM!Train, RowOf

(* One cycle of ubtb.sv is one packet of the contract.                     *)
LEMMA UbtbStep ==
  ASSUME UbtbInv, NEW p, UbtbTick(p)
  PROVE  UM!Tick(IF uT1 = NoTrain THEN NoTrain ELSE uT1.p)
<1> DEFINE v == IF uT1 = NoTrain THEN NoTrain ELSE uT1.p
<1> DEFINE T == UM!Train(Shown, uReplace, v)
<1>1. SUFFICES Shown' = T.table /\ uReplace' = T.replace
  BY DEF UM!Tick, Shown
<1>2. RowsForm /\ RowsForm'
  BY RowsFormStep DEF UbtbInv
<1>3. /\ uRow' = IF UbtbWrites THEN [uRow EXCEPT ![uT1.row] = Written] ELSE uRow
      /\ uValid' = uValid \cup (IF UbtbWrites THEN {uT1.row} ELSE {})
      /\ uReplace' = IF UbtbWrites /\ uT1.replace THEN (uT1.row + 1) % Entries ELSE uReplace
  BY DEF UbtbTick
<1>4. CASE ~UbtbWrites
  <2>1. uRow' = uRow /\ uValid' = uValid /\ uReplace' = uReplace
    BY <1>3, <1>4
  <2>2. Shown' = Shown
    BY <2>1, Zenon DEF Shown
  <2>3. ~UM!Trains(v) \/ (Hits(UM!TagOf(v.region)) = {} /\ ~UM!HasCfi(v))
    <3>1. CASE uT1 = NoTrain
      <4>1. v = UM!NoTrain
        BY <3>1 DEF UM!NoTrain, NoTrain
      <4>2. QED
        BY <4>1 DEF UM!Trains
    <3>2. CASE uT1 # NoTrain
      BY <1>4, <3>2 DEF UbtbWrites, UbtbInv, ChoiceStands
    <3>3. QED
      BY <3>1, <3>2
  <2> HIDE DEF v
  <2>4. T = [table |-> Shown, replace |-> uReplace]
    BY <1>2, <2>3, TrainForm, Zenon
  <2> HIDE DEF T
  <2>5. QED
    BY <2>1, <2>2, <2>4
<1>5. CASE UbtbWrites
  <2> DEFINE t == uT1.tag
  <2> DEFINE n == uT1.row
  <2>1. uT1 # NoTrain /\ uT1.write
    BY <1>5 DEF UbtbWrites
  <2>2. /\ v = uT1.p /\ t = UM!TagOf(v.region) /\ n = RowOf(t)
        /\ uT1.matched = (Hits(t) # {}) /\ uT1.replace = (Hits(t) = {} /\ Empty = {})
        /\ UM!Trains(v) /\ (Hits(t) # {} \/ UM!HasCfi(v))
    BY <2>1 DEF UbtbInv, ChoiceStands
  <2>3. n \in UM!EntrySet
    BY <1>2, <2>2, RowInTable
  <2> DEFINE old == IF Hits(t) # {} THEN Shown[n] ELSE UM!NewEntry(t)
  <2> DEFINE new == UM!Learn(old, Hits(t) # {}, v)
  <2>4. T = [table   |-> [Shown EXCEPT ![n] = new],
             replace |-> IF Hits(t) = {} /\ Empty = {} THEN (n + 1) % Entries ELSE uReplace]
    <3> HIDE DEF v, t, n
    <3>1. QED
      BY <1>2, <2>2, TrainForm, Zenon
  <2>5. Contract(Written) = new
    <3>1. Contract(Written)
          = UM!Learn(IF uT1.matched THEN Contract(uRow[n]) ELSE UM!NewEntry(t), uT1.matched, v)
      BY <2>1, <2>2, WrittenContract, Zenon
    <3>2. (IF uT1.matched THEN Contract(uRow[n]) ELSE UM!NewEntry(t)) = old
      <4>1. CASE Hits(t) # {}
        <5>1. n \in uValid
          <6>1. Hits(t) \subseteq UM!EntrySet /\ Hits(t) \subseteq uValid
            BY <1>2 DEF Hits, RowsForm
          <6>2. n \in Hits(t)
            BY <2>2, <4>1, <6>1, MinOfEntries DEF RowOf
          <6>3. QED
            BY <6>1, <6>2
        <5>2. Shown[n] = Contract(uRow[n])
          BY <1>2, <2>3, <5>1, ShownIs
        <5>3. QED
          BY <2>2, <4>1, <5>2
      <4>2. CASE Hits(t) = {}
        BY <2>2, <4>2
      <4>3. QED
        BY <4>1, <4>2
    <3> HIDE DEF v, t, n, old
    <3>3. QED
      BY <2>2, <3>1, <3>2, Zenon
  <2> HIDE DEF v, t, old, new, T
  <2>6. uRow' = [uRow EXCEPT ![n] = Written] /\ uValid' = uValid \cup {n}
    BY <1>3, <1>5
  <2>7. uReplace' = IF Hits(t) = {} /\ Empty = {} THEN (n + 1) % Entries ELSE uReplace
    BY <1>3, <1>5, <2>2
  <2> HIDE DEF n
  <2>8. Shown' = [Shown EXCEPT ![n] = new]
    <3>1. DOMAIN uRow = UM!EntrySet /\ DOMAIN uRow' = UM!EntrySet
      BY <1>2 DEF RowsForm
    <3>2. Shown' = [k \in UM!EntrySet |-> IF k \in uValid' THEN Contract(uRow'[k]) ELSE NoEntry]
      BY <3>1, Zenon DEF Shown
    <3>3. Shown = [k \in UM!EntrySet |-> IF k \in uValid THEN Contract(uRow[k]) ELSE NoEntry]
      BY <3>1, Zenon DEF Shown
    <3>4. [Shown EXCEPT ![n] = new]
          = [k \in UM!EntrySet |-> IF k = n THEN new
                                   ELSE IF k \in uValid THEN Contract(uRow[k]) ELSE NoEntry]
      BY <2>3, <3>3
    <3>5. \A k \in UM!EntrySet :
            (IF k \in uValid' THEN Contract(uRow'[k]) ELSE NoEntry)
            = IF k = n THEN new ELSE IF k \in uValid THEN Contract(uRow[k]) ELSE NoEntry
      BY <2>3, <2>5, <2>6, <3>1
    <3>6. QED
      BY <3>2, <3>4, <3>5
  <2>9. QED
    BY <2>4, <2>7, <2>8
<1>6. QED
  BY <1>4, <1>5


(* The uBTB's invariant holds in every reachable state.                    *)
LEMMA UbtbAlways == Spec => []UbtbInv
<1>1. Init => UbtbInv
  BY UbtbInvInit DEF Init
<1>2. ASSUME UbtbInv, [Next]_bpuVars PROVE UbtbInv'
  <2>1. ASSUME NEW i \in Inputs, Tick(i) PROVE UbtbInv'
    <3>1. UbtbTick(t1Train)
      BY <2>1 DEF Tick, TrainStep
    <3>2. RowsForm' /\ WrittenThrough' /\ ChoiceStands'
      BY <1>2, <3>1, RowsFormStep, WrittenThroughStep, ChoiceStandsStep
    <3>3. QED
      BY <3>2 DEF UbtbInv
  <2>2. CASE UNCHANGED bpuVars
    <3>1. UNCHANGED <<uRow, uValid, uReplace, uT1, uWb>>
      BY <2>2 DEF bpuVars, ubtbVars
    <3>2. UbtbInv' = UbtbInv
      BY <3>1, Zenon DEF UbtbInv, RowsForm, WrittenThrough, ChoiceStands, RowOf, Hits, Empty, Seen
    <3>3. QED
      BY <1>2, <3>2
  <2>3. QED
    BY <1>2, <2>1, <2>2 DEF Next
<1>3. QED
  BY <1>1, <1>2, PTL DEF Spec

(* ubtb.sv keeps the table of ubtb_model.py: looking through the write in  *)
(* flight when it picks the row, and forwarding the write before it when   *)
(* it updates the row, make the two-cycle update the one-cycle rule of the *)
(* contract, for every number of entries and every run of packets.         *)
THEOREM UbtbImplementsModelTheorem == Spec => UbtbImplementsModel
<1>1. UbtbInv /\ [Next]_bpuVars
        => [UM!Tick(IF uT1 = NoTrain THEN NoTrain ELSE uT1.p)]_bpuVars
  <2>1. ASSUME UbtbInv, NEW i \in Inputs, Tick(i)
        PROVE  UM!Tick(IF uT1 = NoTrain THEN NoTrain ELSE uT1.p)
    <3>1. UbtbTick(t1Train)
      BY <2>1 DEF Tick, TrainStep
    <3>2. QED
      BY <2>1, <3>1, UbtbStep
  <2>2. QED
    BY <2>1 DEF Next
<1>2. QED
  BY <1>1, UbtbAlways, PTL DEF Spec, UbtbImplementsModel
=============================================================================
