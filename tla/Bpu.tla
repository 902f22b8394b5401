-------------------------------- MODULE Bpu --------------------------------
(***************************************************************************)
(* Prediction, its correction and its training: bpu.sv with its predictors,*)
(* bpu_slow_check, redirect_arbiter, history_snapshot_store and the parts  *)
(* of ftq.sv that allocate, cut, correct and hand over entries.            *)
(*                                                                         *)
(* A step is a clock cycle.  The inputs i are what the rest of the core    *)
(* does in it: an instruction of a region that is being executed redirects *)
(* (exec, or the predecoder), a system event flushes everything, the       *)
(* oldest open region commits.  Program gives for every region the         *)
(* outcomes it may have: its committed and its taken branches and its      *)
(* taken CFI, if any.  Regions are fetched, decoded and executed more      *)
(* slowly than their slow prediction takes, so only a region whose slow    *)
(* prediction is published redirects or commits.                           *)
(*                                                                         *)
(* Fields calls, trust, event and next of an FTQ entry are ghosts: the     *)
(* stack at the entry, and what the path does after it.                    *)
(***************************************************************************)
EXTENDS Tage, MainBtb, Ubtb, Ras, History

CONSTANTS
  FtqDepth, TrainDepth,   \* ftq.entries, ftq.train_queue_depth
  BootPc, SysTarget,
  Program, Warmup,        \* outcomes per region; what the training queue may start with
  MaxAlloc, MaxCommit, MaxRedirect,
  NoPc                    \* after a path that a flush has ended

ASSUME BpuSizes == {FtqDepth, TrainDepth} \subseteq Nat \ {0}
ASSUME WarmupAssumption ==
  \A w \in Warmup : w \in Seq({w[n] : n \in DOMAIN w}) /\ Len(w) <= TrainDepth

VARIABLES
  predPc, hist,
  ftq, ftqHead, gen, closed, handover,   \* live entries oldest first, head_q, gen_q, closed_count_q, ho_busy_q
  p1, p2, btbQ, slowQ,
  trainQ, t1Train,
  recover, saved,         \* recover_q; the snapshot and checkpoint read for it
  allocs, commits, redirects   \* bounds

bpuVars == <<predPc, hist, ftq, ftqHead, gen, closed, handover, p1, p2, btbQ, slowQ,
             trainQ, t1Train, recover, saved, allocs, commits, redirects,
             tageVars, btbVars, ubtbVars, rasVars>>

(* No request, no result: a register whose valid bit is clear.             *)
None == <<>>

Pcs      == 0 .. 2^PcBits - 1
Last     == Slots - 1
Wrap(pc) == pc % 2^PcBits
Start(r) == r * Slots

(* o3_types_pkg: program age relative to the FTQ head.                     *)
FeBefore(a, aSlot, b, bSlot) ==
  IF a.idx = b.idx THEN aSlot < bSlot
  ELSE IF (a.idx < ftqHead) # (b.idx < ftqHead) THEN ~(a.idx < ftqHead)
  ELSE a.idx < b.idx

(* Slip: indices compared without the wrap.                                *)
KilledBySlip(kill, id, slot) ==
  /\ kill # None
  /\ kill.all \/ kill.id.idx < id.idx \/ (kill.id.idx = id.idx /\ kill.slot < slot)

KilledBy(kill, id, slot) ==
  /\ kill # None
  /\ \/ kill.all \/ FeBefore(kill.id, kill.slot, id, slot)

Live(id)  == {k \in DOMAIN ftq : ftq[k].id = id}
-----------------------------------------------------------------------------
(* The fast prediction: the uBTB, with returns redirected to the RAS top.  *)

FastPrediction ==
  LET f == Lookup(predPc)
  IN IF f.taken /\ Pops(f.ras) /\ count > 0 THEN [f EXCEPT !.next = entries[idx]] ELSE f

BranchPc(p) == Wrap(IF p.edge THEN Start(p.region) - 1 ELSE Start(p.region) + p.slot)
PushPc(p)   == Wrap(BranchPc(p) + (IF p.rvc THEN 1 ELSE 2))

(* Slip: candidates before the entry slot count too.                       *)
CandidateSlotsSlip(fast) == 0 .. Last

CandidateSlots(fast) == fast.entry .. Last

(* The slow check: the first candidate at or after the entry slot decides; *)
(* only the owner has a target.                                            *)
SlowCheck(fast, b, taken, ckpt) ==
  LET e    == b.e
      in   == CandidateSlots(fast)
      br   == IF b.hit THEN e.br \cap in ELSE {}
      jal  == IF b.hit THEN e.jal \cap in ELSE {}
      cand == (br \cap taken) \cup jal
                \cup (IF b.hit /\ e.type = "jalr" THEN {e.slot} \cap in ELSE {})
      owner == cand # {} /\ e.slot = Min(cand) /\ e.type # "none"
      target == IF Pops(e.ras) /\ ckpt.count > 0 THEN ckpt.addr ELSE e.target
      fall == Wrap(Start(fast.region) + Slots)
      differ == IF owner
                THEN \/ ~fast.taken \/ e.slot # fast.slot \/ e.type # fast.type
                     \/ e.ras # fast.ras \/ e.rvc # fast.rvc \/ e.edge # fast.edge
                     \/ target # fast.next
                ELSE fast.taken \/ fall # fast.next
  IN [pred |-> [region |-> fast.region, entry |-> fast.entry, br |-> br, jal |-> jal,
                taken |-> owner, slot |-> IF owner THEN e.slot ELSE 0,
                type |-> IF owner THEN e.type ELSE "none",
                ras |-> IF owner THEN e.ras ELSE "none",
                next |-> IF owner THEN target ELSE fall,
                rvc |-> owner /\ e.rvc, edge |-> owner /\ e.edge],
      override |-> differ]

(* The same, as bpu_model.py states it: enumerate the candidates, select   *)
(* the oldest with its own target, compare the published fields.           *)
SlowPrediction(fast, b, taken, ckpt) ==
  LET e     == b.e
      in    == fast.entry .. Last
      fall  == [region |-> fast.region, entry |-> fast.entry, br |-> {}, jal |-> {},
                taken |-> FALSE, slot |-> 0, type |-> "none", ras |-> "none",
                next |-> Wrap(Start(fast.region) + Slots), rvc |-> FALSE, edge |-> FALSE]
      known == IF b.hit THEN [fall EXCEPT !.br = e.br \cap in, !.jal = e.jal \cap in] ELSE fall
      choices == {s \in in : /\ b.hit
                             /\ \/ s \in (known.br \cap taken) \cup known.jal
                                \/ e.type = "jalr" /\ e.slot = s}
      p == IF choices # {} /\ Min(choices) = e.slot /\ e.type # "none"
           THEN [known EXCEPT !.taken = TRUE, !.slot = e.slot, !.type = e.type, !.ras = e.ras,
                              !.next = IF Pops(e.ras) /\ ckpt.count > 0 THEN ckpt.addr
                                       ELSE e.target,
                              !.rvc = e.rvc, !.edge = e.edge]
           ELSE known
      compared == IF p.taken THEN {"slot", "type", "ras", "next", "rvc", "edge"} ELSE {"next"}
  IN [pred |-> p,
      override |-> p.taken # fast.taken \/ \E f \in compared : p[f] # fast[f]]

TakenSlots == {s \in TM!SlotSet : TageResponse(tS2)[s].final}

(* The redirect a request makes: cut after (id, slot), continue at target, *)
(* replay the region's history and RAS action as corrected.                *)
Request(src, id, slot, p) ==
  [src |-> src, id |-> id, slot |-> slot, all |-> FALSE, target |-> p.next,
   inject |-> p.taken /\ p.type = "br", event |-> EncodeEvent(BranchPc(p), p.next),
   fix |-> p.ras, push |-> PushPc(p)]

Slow ==
  LET c == SlowCheck(p2.fast, btbQ, TakenSlots, p2.ckpt)
  IN [id |-> p2.id, pred |-> c.pred, meta |-> TageResponse(tS2),
      override |-> IF ~c.override THEN None
                   ELSE Request(0, p2.id, IF c.pred.taken THEN c.pred.slot ELSE Last, c.pred)]
-----------------------------------------------------------------------------
(* What the core reports of an entry, and the path an outcome takes.       *)

NoCfi == [type |-> "none", slot |-> 0, ras |-> "none", target |-> 0, rvc |-> FALSE,
          edge |-> FALSE]
Quiet == [commit |-> {}, taken |-> {}, cfi |-> NoCfi]

Outcomes(e) ==
  LET after == {o \in Program[e.region] :
                  /\ \A s \in o.commit : s >= e.entry
                  /\ o.cfi.type = "none" \/ o.cfi.slot >= e.entry}
  IN IF e.out # None THEN {e.out} ELSE IF after = {} THEN {Quiet} ELSE after

PathOf(e, o) ==
  [region |-> e.region, taken |-> o.cfi.type # "none", slot |-> o.cfi.slot,
   type |-> o.cfi.type, ras |-> o.cfi.ras, rvc |-> o.cfi.rvc, edge |-> o.cfi.edge,
   next |-> IF o.cfi.type = "none" THEN Wrap(Start(e.region) + Slots) ELSE o.cfi.target]

Published(e) == \A q \in {p1, p2} : q = None \/ q.id # e.id

Sys == [src |-> 3, id |-> [idx |-> 0, gen |-> 0], slot |-> 0, all |-> TRUE,
        target |-> SysTarget, inject |-> FALSE, event |-> 0, fix |-> "none", push |-> 0]

(* The redirect requests execution and predecode may make.                 *)
CoreRequests ==
  UNION {{[r |-> Request(src, ftq[k].id, IF o.cfi.type # "none" THEN o.cfi.slot
                                         ELSE IF o.commit # {} THEN Max(o.commit) ELSE Last,
                         PathOf(ftq[k], o)), out |-> o]
            : src \in {1, 2}, o \in Outcomes(ftq[k])}
         : k \in {k \in DOMAIN ftq : k > closed /\ Published(ftq[k]) /\ ftq[k].out = None}}

Reports == {None} \cup (IF redirects < MaxRedirect THEN CoreRequests ELSE {})
Flushes == {FALSE} \cup (IF redirects < MaxRedirect THEN {TRUE} ELSE {})
Commits == {None} \cup (IF /\ commits < MaxCommit /\ closed < Len(ftq)
                           /\ Published(ftq[closed + 1])
                           /\ slowQ = None \/ slowQ.id # ftq[closed + 1].id
                        THEN Outcomes(ftq[closed + 1]) ELSE {})
Holds   == IF allocs = 0 THEN BOOLEAN ELSE {FALSE}

Inputs ==
  {[core |-> c, sys |-> s, commit |-> o, hold |-> h] :
     h \in Holds, c \in Reports, s \in Flushes, o \in Commits}

(* redirect_arbiter: a system event first, else the oldest request, the    *)
(* later pipeline stage first at one position; while a recovery is under   *)
(* way only an older one is accepted.                                      *)
Beats(a, b) == \/ FeBefore(a.id, a.slot, b.id, b.slot)
               \/ a.id = b.id /\ a.slot = b.slot /\ a.src > b.src

Candidate(i) ==
  LET slow == IF slowQ = None THEN None ELSE slowQ.override
  IN IF i.sys THEN Sys
     ELSE IF i.core # None /\ (slow = None \/ Beats(i.core.r, slow)) THEN i.core.r
     ELSE slow

Accept(i) ==
  LET c == Candidate(i)
  IN IF c # None /\ (c.all \/ recover = None \/ Beats(c, recover)) THEN c ELSE None
-----------------------------------------------------------------------------
(* The training path: FTQ head, queue, tables.                             *)

TrainFire == handover
TrainPop  == trainQ # <<>> /\ TageTrainReady(trainQ[1])
TrainIn   == IF TrainPop THEN trainQ[1] ELSE NoTrain

HeadPacket ==
  LET e == ftq[1]
  IN [region |-> e.region, folds |-> e.snap.folds, meta |-> e.meta,
      commit |-> e.out.commit, taken |-> e.out.taken, cfi |-> e.out.cfi]

(* Slip: the entry in hand is counted again.                                *)
InHandSlip == 0

(* H1: the entry read in the last cycle is on its way to the queue, so the *)
(* next one needs an entry, a closed entry and a place (train_free_i) more.*)
InHand == IF handover THEN 1 ELSE 0

TrainStep ==
  /\ handover' = \A n \in {Len(ftq), closed, TrainDepth - Len(trainQ)} : n > InHand
  /\ trainQ' = (IF TrainPop THEN Tail(trainQ) ELSE trainQ)
                 \o (IF TrainFire THEN <<HeadPacket>> ELSE <<>>)
  /\ t1Train' = TrainIn
  /\ UbtbTick(t1Train)
-----------------------------------------------------------------------------
AllocFire(i) ==
  /\ ~i.hold /\ recover = None /\ Accept(i) = None
  /\ Len(ftq) < FtqDepth
  /\ allocs < MaxAlloc

Tail0(n) == (ftqHead + n) % FtqDepth
NewId    == [idx |-> Tail0(Len(ftq)), gen |-> gen[Tail0(Len(ftq))] + 1]

NewEntry(fast) ==
  [id |-> NewId, region |-> fast.region, entry |-> fast.entry, snap |-> hist,
   ckpt |-> Checkpoint, calls |-> calls, trust |-> trust, meta |-> None, out |-> None,
   inject |-> fast.taken /\ fast.type = "br",
   event |-> EncodeEvent(BranchPc(fast), fast.next), next |-> fast.next]

(* The entries after this cycle's slow result, commit, cut and correction. *)
FtqStep(i) ==
  LET a      == Accept(i)
      slowed == [k \in DOMAIN ftq |->
                   IF slowQ # None /\ slowQ.id = ftq[k].id /\ ~(TrainFire /\ k = 1)
                   THEN [ftq[k] EXCEPT !.meta = slowQ.meta] ELSE ftq[k]]
      told   == [k \in DOMAIN ftq |->
                   IF i.commit # None /\ k = closed + 1
                   THEN [slowed[k] EXCEPT !.out = i.commit]
                   ELSE IF i.core # None /\ a = i.core.r /\ k \in Live(a.id)
                   THEN [slowed[k] EXCEPT !.out = i.core.out]
                   ELSE slowed[k]]
      done   == closed + (IF i.commit # None THEN 1 ELSE 0)
      onPath == [k \in DOMAIN ftq |->
                   IF a # None /\ ~a.all /\ k \in Live(a.id)
                   THEN [told[k] EXCEPT !.inject = a.inject, !.event = a.event,
                                        !.next = a.target]
                   ELSE IF a # None /\ a.all /\ k = done
                   THEN [told[k] EXCEPT !.next = NoPc]
                   ELSE told[k]]
      keep   == IF a = None THEN Len(ftq)
                ELSE Max({done} \cup (IF a.all THEN {} ELSE
                                      IF Live(a.id) = {} THEN {Len(ftq)} ELSE Live(a.id)))
      kept   == SubSeq(onPath, 1, keep)
      fire   == AllocFire(i)
      freed  == IF TrainFire THEN 1 ELSE 0
  IN
  /\ ftq' = SubSeq(kept, 1 + freed, keep) \o (IF fire THEN <<NewEntry(FastPrediction)>> ELSE <<>>)
  /\ ftqHead' = (ftqHead + freed) % FtqDepth
  /\ closed' = done - freed
  /\ gen' = IF fire THEN [gen EXCEPT ![NewId.idx] = @ + 1] ELSE gen

QueryStep(i) ==
  LET a    == Accept(i)
      fire == AllocFire(i)
      fast == FastPrediction
  IN
  /\ predPc' = IF a # None THEN a.target ELSE IF fire THEN fast.next ELSE predPc
  /\ p1' = IF fire THEN [id |-> NewId, fast |-> fast, ckpt |-> Checkpoint,
                         folds |-> hist.folds] ELSE None
  /\ p2' = IF p1 = None \/ KilledBy(a, p1.id, Last) THEN None ELSE p1
  /\ btbQ' = IF bS1 = NoQuery \/ (p1 # None /\ KilledBy(a, p1.id, Last)) THEN None
             ELSE BtbResponse
  /\ slowQ' = IF p2 = None \/ KilledBy(a, p2.id, Last) THEN None ELSE Slow
  /\ BtbTick(IF fire THEN <<fast.region>> ELSE NoQuery, TrainIn)
  /\ TageTick(IF fire THEN <<fast.region>> ELSE NoQuery, hist.folds, TrainIn)

(* R0: the winner is kept and its snapshot and checkpoint are read.  R1:   *)
(* both are restored and the winner's action replayed, unless a different  *)
(* region's request has just replaced it.                                  *)
Restores(i) ==
  LET a == Accept(i)
  IN saved # None /\ saved.id = (IF a # None /\ ~a.all THEN a.id ELSE recover.id)

Winner(i) == IF Accept(i) # None THEN Accept(i) ELSE recover

(* Slip: the winner's own branch is not replayed.                           *)
ReplayedSlip(w) == saved.snap

Replayed(w) == IF w.inject THEN AppendEvent(saved.snap, w.event) ELSE saved.snap

RecoverStep(i) ==
  LET a    == Accept(i)
      w    == Winner(i)
      fast == FastPrediction
  IN
  /\ recover' = IF a # None THEN (IF a.all THEN None ELSE a)
                ELSE IF recover # None /\ Restores(i) THEN None ELSE recover
  /\ saved' = IF a = None \/ a.all \/ Live(a.id) = {} THEN None
              ELSE LET e == ftq[Max(Live(a.id))]
                   IN [id |-> a.id, snap |-> e.snap, ckpt |-> e.ckpt,
                       calls |-> e.calls, trust |-> e.trust]
  /\ IF Restores(i)
     THEN /\ hist' = Replayed(w)
          /\ RasRecover(saved.ckpt, saved.calls, saved.trust, w.fix, w.push)
     ELSE IF AllocFire(i) /\ fast.taken
     THEN /\ hist' = IF fast.type = "br"
                     THEN AppendEvent(hist, EncodeEvent(BranchPc(fast), fast.next)) ELSE hist
          /\ RasOp(fast.ras, PushPc(fast))
     ELSE hist' = hist /\ RasStay

Tick(i) ==
  /\ FtqStep(i) /\ QueryStep(i) /\ TrainStep /\ RecoverStep(i)
  /\ allocs' = allocs + (IF AllocFire(i) THEN 1 ELSE 0)
  /\ commits' = commits + (IF i.commit # None THEN 1 ELSE 0)
  /\ redirects' = redirects + (IF i.core # None \/ i.sys THEN 1 ELSE 0)

(* Warmup: what the training queue may hold when prediction starts, left   *)
(* over from before the last flush.                                        *)
Init ==
  /\ predPc = BootPc /\ hist = NoHistory
  /\ ftq = <<>> /\ ftqHead = 0 /\ gen = [n \in 0 .. FtqDepth - 1 |-> 0]
  /\ closed = 0 /\ handover = FALSE
  /\ p1 = None /\ p2 = None /\ btbQ = None /\ slowQ = None
  /\ trainQ \in Warmup /\ t1Train = NoTrain /\ recover = None /\ saved = None
  /\ allocs = 0 /\ commits = 0 /\ redirects = 0
  /\ TageInit(TM!ResetBase, TM!ResetTagged) /\ BtbInit /\ UbtbInit /\ RasInit

Next == \E i \in Inputs : Tick(i)

Spec == Init /\ [][Next]_bpuVars

-----------------------------------------------------------------------------
(* Properties.                                                             *)

QueryIn == IF p1' # None THEN <<p1'.fast.region>> ELSE NoQuery

(* tage.sv applies every training packet as tage_model.py does: reading,   *)
(* updating in halves and writing in different cycles, with forwarding and *)
(* back pressure, leaves the tables and every query's rows as if each      *)
(* packet were applied in one piece.  It also keeps the tables of the      *)
(* frozen reference, fed each packet one edge before it is written         *)
(* (test_tage.py consecutive_rows_match_frozen_legacy_bitwise).            *)
TageImplementsModel ==
  /\ [][TM!Tick(QueryIn, hist.folds, IF trainQ = <<>> THEN NoTrain ELSE trainQ[1])]_bpuVars
  /\ LT!Reset /\ [][LT!Tick(QueryIn, hist.folds, PacketOf(tT2))]_bpuVars

(* main_btb.sv keeps the table of btb_model.py and hands every query the   *)
(* rows that model would, whatever write is in flight; and it keeps the    *)
(* table of the frozen reference, fed each packet one edge before it is    *)
(* written (test_main_btb.py consecutive_same_set_matches_frozen_legacy).  *)
BtbImplementsModel ==
  /\ [][BM!Tick(QueryIn, TrainIn)]_bpuVars
  /\ AsLegacyBtb(NoTrain) = LB!Reset
  /\ [][\E now \in {EdgeWrite}, next \in {EdgeWrite'} :
        AsLegacyBtb(next)' = LB!Ticked(AsLegacyBtb(now), QueryIn, TrainIn)]_bpuVars

(* ubtb.sv, which picks the row before the previous packet has written,    *)
(* keeps the table of ubtb_model.py.                                       *)
UbtbImplementsModel == [][UM!Tick(IF uT1 = NoTrain THEN NoTrain ELSE uT1.p)]_bpuVars

(* Packets, queries, reads and responses have the reference models' form.  *)
InRange ==
  /\ TrainIn # NoTrain => LT!IsTrain(TrainIn) /\ LB!IsTrain(TrainIn)
  /\ Contract(Lookup(predPc)) \in UM!Prediction
  /\ tS1 # NoQuery => tS1 \in LT!Lookup
  /\ tS2 # NoQuery => tS2 \in LT!Read /\ TageResponse(tS2) \in LT!Response
  /\ bS1 # NoQuery => [tag |-> bS1.tag, ways |-> PlainRow(bS1.valid, bS1.ways)] \in LB!PendingRead

(* The directions, targets and overrides computed in parallel hardware are *)
(* those of the reference models: the uBTB's first hit, provider and       *)
(* alternative of TAGE, the BTB response, and bpu_slow_check against       *)
(* slow_prediction; the history's incremental folds are the folds of its   *)
(* events.                                                                 *)
ResponsesExact ==
  /\ InRange
  /\ \A t \in TM!TableSet : \A k \in DOMAIN FoldWidth : hist.folds[t][k] = DirectFold(hist, t, k)
  /\ Contract(Lookup(predPc)) = UM!Visible(predPc)
  /\ tS2 # NoQuery => /\ TageResponse(tS2) = TM!Predict(tS2)
                      /\ TageResponse(tS2) = LT!Predict(tS2)
  /\ bS1 # NoQuery =>
       LET shown == IF BtbResponse.hit THEN Plain(BtbResponse.e).response ELSE BM!Miss
           read == [tag |-> bS1.tag, ways |-> PlainRow(bS1.valid, bS1.ways)]
       IN shown = BM!Visible(read) /\ shown = LB!Visible(read)
  /\ p2 # None => /\ btbQ # None /\ tS2 # NoQuery
                  /\ SlowCheck(p2.fast, btbQ, TakenSlots, p2.ckpt)
                       = SlowPrediction(p2.fast, btbQ, TakenSlots, p2.ckpt)

(* Returns are predicted from addresses the path really pushed: the        *)
(* trusted top of the ring agrees with the stack of an unbounded, fully    *)
(* repaired RAS, through overflow, underflow and recovery (which vouches   *)
(* only for the saved top).                                                *)
RasTopTrusted ==
  /\ trust <= count
  /\ \A k \in 1 .. trust : k <= Len(calls) /\ entries[(idx - k + 1) % Depth] = calls[k]

(* The FTQ is one path: each entry starts where its predecessor, as        *)
(* corrected so far, leaves off, under the history the predecessor leaves; *)
(* once no recovery is under way the predictor itself stands at the end of *)
(* that path.                                                              *)
After(e) == IF e.inject THEN AppendEvent(e.snap, e.event) ELSE e.snap
PathFollowed ==
  /\ \A k \in 1 .. Len(ftq) - 1 :
       ftq[k].next # NoPc =>
         /\ ftq[k + 1].region = ftq[k].next \div Slots
         /\ ftq[k + 1].entry = ftq[k].next % Slots
         /\ After(ftq[k]) = ftq[k + 1].snap
  /\ (ftq # <<>> /\ recover = None /\ ftq[Len(ftq)].next # NoPc) =>
         /\ ftq[Len(ftq)].next = predPc
         /\ After(ftq[Len(ftq)]) = hist

(* A slow result meets its own region: when it is checked, the BTB and     *)
(* TAGE rows beside it were read for that region and history, and when it  *)
(* is published its FTQ entry is still there and is that region (bpu.sv    *)
(* asserts the alignment; the arbiter does not look at generations).       *)
SlowMeetsRegion ==
  /\ p2 # None => /\ btbQ # None /\ tS2 # NoQuery
                  /\ tS2.q = TM!Query(p2.fast.region, p2.folds)
  /\ slowQ # None => \E k \in DOMAIN ftq : /\ ftq[k].id = slowQ.id
                                            /\ ftq[k].region = slowQ.pred.region

(* The training hand-over: an entry is read for training only with a place *)
(* in the queue reserved for it, and is still the head when it arrives     *)
(* (ftq.sv asserts both at H1).                                            *)
HandoverKept == handover => Len(trainQ) < TrainDepth /\ closed > 0 /\ ftq[1].meta # None

(* Back pressure by TAGE's row conflicts costs a packet at most one cycle: *)
(* what T1 held when it was refused has moved on at the next edge.         *)
TrainDelayedOnce == [][(trainQ # <<>> /\ ~TrainPop) => TrainPop']_bpuVars
=============================================================================
