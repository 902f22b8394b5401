------------------------------- MODULE Fetch -------------------------------
(***************************************************************************)
(* Instruction fetch from the FTQ to the fetch buffer: the demand side of  *)
(* ftq.sv, fetch_return_queue.sv, ifu_f0.sv (whole regions, f0_slots = 8), *)
(* ifu_decode_queue.sv and ifu_f1.sv, under the kills redirect_arbiter     *)
(* makes of their requests, execution's and the system's.                  *)
(*                                                                         *)
(* A step is a clock cycle; i holds what the rest does in it.  Memory is   *)
(* Code: what the half word at a pc is if an instruction starts there, so  *)
(* a region entered in the middle of an instruction decodes differently,   *)
(* as it does in the machine.  The predictions are any of Preds.           *)
(*                                                                         *)
(* want, sent and cycle are ghosts: the pc the next delivered instruction  *)
(* must have, what the last cycle delivered and what it brought the return *)
(* queue.  Nothing depends on the last two, so FetchView leaves them out.  *)
(***************************************************************************)
EXTENDS PredecodeModel, FiniteSets, FiniteSetsExt

CONSTANTS
  Code, Fault,            \* pc -> instruction; regions whose fetch faults
  Preds, RasTop,          \* <<region, prediction it may get>>; region -> RAS top at its entry
  FtqDepth, RqDepth,
  BootPc, SysTarget, JumpTargets,
  CommitDelay,            \* cycles from delivery to commit, at least
  RetireHalf,             \* may an entry commit while its last half word waits in F0?
  MaxAlloc, MaxRedirect,
  NoData                  \* the data of a slot before its answer

ASSUME FetchSizes == {Slots, FtqDepth, RqDepth, CommitDelay} \subseteq Nat \ {0}
ASSUME PredictionSlots ==
  \A w \in Preds : "slot" \in DOMAIN w[2] /\ w[2].slot \in 0 .. Slots - 1
ASSUME NoDataAssumption == NoData \notin BOOLEAN

VARIABLES
  ftq, ftqHead, gen, predPc,        \* live entries oldest first, head_q, gen_q, the BPU's pc
  slots, payload, order, out,       \* slots_q, response_mem, ord_q with count_q, the output snapshot
  pend,                             \* F0's pending half word
  beats, boundary,                  \* ifu_decode_queue; boundary_wait_q with its id
  pd, recover,                      \* F1's registered request; the recovery under way
  want, sent, cycle,
  allocs, redirects                 \* bounds

fetchVars == <<ftq, ftqHead, gen, predPc, slots, payload, order, out, pend, beats,
               boundary, pd, recover, want, sent, cycle, allocs, redirects>>
FetchView == <<ftq, ftqHead, gen, predPc, slots, payload, order, out, pend, beats,
               boundary, pd, recover, want, allocs, redirects>>

Last == Slots - 1
RegionOf(pc) == pc \div Slots

FeBefore(a, aSlot, b, bSlot) ==
  IF a.idx = b.idx THEN aSlot < bSlot
  ELSE IF (a.idx < ftqHead) # (b.idx < ftqHead) THEN ~(a.idx < ftqHead)
  ELSE a.idx < b.idx

(* Slip: indices compared without the wrap.                                *)
KilledBySlip(kill, id, slot) ==
  /\ kill # None
  /\ kill.all \/ kill.id.idx < id.idx \/ (kill.id.idx = id.idx /\ kill.slot < slot)

KilledBy(kill, id, slot) ==
  /\ kill # None
  /\ kill.all \/ FeBefore(kill.id, kill.slot, id, slot)

EntryOf(id) == {k \in DOMAIN ftq : ftq[k].id = id}
-----------------------------------------------------------------------------
(* Redirects.                                                              *)

PredNext(r, p) == IF p.valid THEN p.target ELSE (r * Slots + Slots) % Pcs
PredsAt(pc) ==
  {[p EXCEPT !.next = PredNext(RegionOf(pc), p)] :
     p \in {w[2] : w \in {w \in Preds : /\ w[1] = RegionOf(pc)
                                        /\ ~w[2].valid \/ w[2].slot >= pc % Slots}}}

(* A slow result that differs cuts behind its exit.                        *)
Override(k, p) == [src |-> 0, id |-> ftq[k].id, slot |-> IF p.valid THEN p.slot ELSE Last,
                   all |-> FALSE, target |-> p.next]
(* The entry whose slow prediction arrives: three cycles after its own.    *)
SlowOf == {k \in DOMAIN ftq : ftq[k].age = 2}
SlowDone(k) == ftq[k].age = 3

(* A delivered branch or indirect jump may go elsewhere.                   *)
ExecRequests ==
  UNION {{[src |-> 2, id |-> d.id, slot |-> d.slot, all |-> FALSE, target |-> t]
            : t \in (IF d.word.op = "br" THEN {d.word.target, d.seq} ELSE JumpTargets) \ {d.next}}
         : d \in UNION {ftq[k].got : k \in DOMAIN ftq}}

Sys == [src |-> 3, id |-> [idx |-> 0, gen |-> 0], slot |-> 0, all |-> TRUE, target |-> SysTarget]

Beats(a, b) == \/ FeBefore(a.id, a.slot, b.id, b.slot)
               \/ a.id = b.id /\ a.slot = b.slot /\ a.src > b.src

SlowOverride(i) ==
  IF i.slow = None \/ i.slow.pred = ftq[i.slow.k].pred THEN None
  ELSE Override(i.slow.k, i.slow.pred)

Stronger(a, b) == IF a # None /\ (b = None \/ Beats(a, b)) THEN a ELSE b
Candidate(i)   == Stronger(i.exec, Stronger(pd, SlowOverride(i)))

Accept(i) ==
  LET c == Candidate(i)
  IN IF i.sys THEN Sys
     ELSE IF c # None /\ recover # None /\ ~Beats(c, recover) THEN None
     ELSE c
-----------------------------------------------------------------------------
(* The return queue.                                                       *)

FreeSlots == {n \in DOMAIN slots : slots[n].state = "free"}

(* While an output is held, the region behind it is read ahead.            *)
Ahead    == IF out # None THEN 2 ELSE 1
Snapshot == order[Ahead]

Demand == {k \in DOMAIN ftq : ~ftq[k].issued /\ \A n \in 1 .. k - 1 : ftq[n].issued}

(* The requests of the cycle that reach the queue.                         *)
Reserve(i, a) ==
  IF i.grant /\ Demand # {} /\ FreeSlots # {} /\ a = None
  THEN [slot |-> Min(FreeSlots), k |-> Min(Demand)] ELSE None

Updated(i) == (IF i.slow = None THEN {} ELSE {ftq[i.slow.k].id})
                \cup (IF i.exec = None THEN {} ELSE {i.exec.id})

Refreshed(i, id) == id \in Updated(i)

DeqValid(i, a) == out # None /\ a = None /\ ~Refreshed(i, out.id)

Brief(id) == LET k == Max(EntryOf(id))
             IN [pred |-> ftq[k].pred, region |-> ftq[k].region, entry |-> ftq[k].entry,
                 top |-> RasTop[ftq[k].region]]

SnapshotReady(i) ==
  /\ Len(order) >= Ahead /\ slots[Snapshot].state = "ready"
  /\ \E k \in EntryOf(slots[Snapshot].id) : SlowDone(k)
  /\ ~Refreshed(i, slots[Snapshot].id)

(* Slip: a killed request gives its slot up at once.                       *)
DeadStateSlip(state) == "free"

DeadState(state) == IF state = "pend" THEN "zombie" ELSE "free"

QueueStep(i, a, r, fire) ==
  LET new == IF r = None THEN None ELSE ftq[r.k]
      owner(n) == IF r # None /\ r.slot = n THEN new.id ELSE slots[n].id
      answered(n) ==
        LET s == IF r # None /\ r.slot = n
                 THEN [state |-> "pend", id |-> new.id, region |-> new.region] ELSE slots[n]
        IN IF i.resp # None /\ i.resp.slot = n
           THEN [s EXCEPT !.state = IF @ = "zombie" THEN "free" ELSE "ready"] ELSE s
      killed(n) == (slots[n].state \in {"pend", "ready"} \/ (r # None /\ r.slot = n))
                     /\ KilledBy(a, owner(n), 0)
      queued == IF r = None THEN order ELSE Append(order, r.slot)
      survivors == {n \in DOMAIN queued : ~KilledBy(a, owner(queued[n]), 0)}
  IN
  /\ slots' = [n \in DOMAIN slots |->
                 IF fire /\ n = order[1] THEN [answered(n) EXCEPT !.state = "free"]
                 ELSE IF killed(n) THEN [answered(n) EXCEPT !.state = DeadState(@)]
                 ELSE answered(n)]
  /\ payload' = IF i.resp = None THEN payload
                ELSE [payload EXCEPT ![i.resp.slot] = slots[i.resp.slot].region \in Fault]
  /\ order' = IF fire THEN Tail(queued) ELSE SubSeq(queued, 1, Cardinality(survivors))
  /\ out' = IF a # None \/ (out # None /\ Refreshed(i, out.id)) THEN None
            ELSE IF (out = None \/ fire) /\ SnapshotReady(i)
            THEN [id |-> slots[Snapshot].id, exc |-> payload[Snapshot],
                  brief |-> Brief(slots[Snapshot].id)]
            ELSE IF fire THEN None ELSE out
-----------------------------------------------------------------------------
(* F0: the instructions of a region.                                       *)

(* What a mask of live positions leaves of a sequence.                     *)
Masked(s, live) ==
  [n \in 1 .. Cardinality(live) |->
     s[CHOOSE k \in live : Cardinality({m \in live : m < k}) = n - 1]]

(* The pending half word is completed by the region behind it.             *)
EdgeStart(o) == pend # None /\ o.brief.region = pend.next /\ o.brief.entry = 0

Item(o, pos, len, exc) ==
  LET pc == (o.brief.region * Slots + pos) % Pcs
  IN [id |-> o.id, slot |-> IF pos < 0 THEN 0 ELSE pos, edge |-> pos < 0, pc |-> pc,
      len |-> len, exc |-> exc, word |-> Code[pc]]

(* Where instructions start, from the lengths of the half words.           *)
StartAt(o) ==
  LET first == IF EdgeStart(o) THEN 1 ELSE o.brief.entry
      short(h) == Code[o.brief.region * Slots + h].len = 1
      at[h \in 0 .. Last] ==
        \/ h = first
        \/ h - 1 >= first /\ at[h - 1] /\ short(h - 1)
        \/ h - 2 >= first /\ at[h - 2] /\ ~short(h - 2)
  IN {h \in 0 .. Last : at[h]} \cup (IF EdgeStart(o) THEN {-1} ELSE {})

(* The beat of a region: up to a fault, the predicted exit, or a long      *)
(* instruction that starts in the last half word, which is kept back.      *)
BeatOf(o) ==
  LET p      == o.brief.pred
      size(h) == IF h < 0 THEN 2 ELSE Code[o.brief.region * Slots + h].len
      bad(h)  == o.exc \/ (h >= 0 /\ size(h) = 1 /\ ~Code[o.brief.region * Slots + h].legal)
      ends(h) == bad(h) \/ (p.valid /\ h + size(h) - 1 >= ExitOf(p))
      reach  == {h \in StartAt(o) : \A g \in StartAt(o) : g < h => ~ends(g)}
      half   == {h \in reach : h = Last /\ size(h) = 2 /\ ~o.exc}
      lanes  == Masked([n \in 1 .. Slots + 1 |-> n - 2],
                       {n \in 1 .. Slots + 1 : n - 2 \in reach \ half})
  IN [items |-> [n \in 1 .. Len(lanes) |->
                   Item(o, lanes[n], IF o.exc THEN 0 ELSE size(lanes[n]), bad(lanes[n]))],
      id |-> o.id, pred |-> p, region |-> o.brief.region, top |-> o.brief.top,
      last |-> TRUE, edgePend |-> half # {}]

PendStep(a, b, fire) ==
  LET kept == IF ~fire THEN pend
              ELSE IF b.edgePend THEN [id |-> out.id, next |-> (b.region + 1) % (Pcs \div Slots)]
              ELSE None
  IN pend' = IF kept # None /\ KilledBy(a, kept.id, Last) THEN None ELSE kept
-----------------------------------------------------------------------------
(* The decode queue and F1.                                                *)

FirePush(i, a) == /\ DeqValid(i, a) /\ boundary = None /\ Len(beats) < 2
FirePop(i, a)  == a = None /\ beats # <<>> /\ i.ready

(* Slip: corrections of instructions before the exit are not made.         *)
LaneFixSlip(b, n) == LET f == Correction(b.items[n], b.pred, b.top)
                     IN IF ~Covers(b.items[n], b.pred) THEN None ELSE f

(* All lanes are decoded at once; a lane is emitted if none before it      *)
(* stops the beat.                                                         *)
LaneFix(b, n) == Correction(b.items[n], b.pred, b.top)

Emitted(b, fix) ==
  LET stop(n) == fix[n] # None \/ b.items[n].exc \/ Covers(b.items[n], b.pred)
  IN {n \in DOMAIN b.items : \A m \in 1 .. n - 1 : ~stop(m)}

F1Req(b, fix, emitted) ==
  LET asking == {n \in emitted : fix[n] # None}
      lost   == /\ b.last /\ b.edgePend
                /\ b.pred.valid /\ ~b.pred.edge /\ b.pred.slot = Last
                /\ \A n \in emitted : ~b.items[n].exc
  IN IF asking # {}
     THEN LET n == Min(asking) IN LET it == b.items[n] IN
          Predecode(it.id, it.slot, fix[n].target, fix[n], it.pc, Seq0(it))
     ELSE IF lost
     THEN Predecode(b.id, Last, (b.region * Slots + Slots) % Pcs,
                    Fix(FALSE, 0, "none", FALSE), 0, 0)
     ELSE None

F1Out(b, fix, count, req) ==
  [n \in 1 .. count |-> [Delivery(b.items[n], b.pred, fix[n]) EXCEPT
                           !.last = n = count /\ (b.last \/ req # None)]]

F1(b) ==
  LET fix     == [n \in DOMAIN b.items |-> LaneFix(b, n)]
      emitted == Emitted(b, fix)
      req     == F1Req(b, fix, emitted)
  IN [req |-> req, out |-> F1Out(b, fix, Cardinality(emitted), req)]

Survivor(a, b) ==
  LET live == {n \in DOMAIN b.items : ~KilledBy(a, b.items[n].id, b.items[n].slot)}
  IN [b EXCEPT !.items = Masked(@, live), !.last = @ \/ live # DOMAIN b.items,
               !.edgePend = @ /\ ~KilledBy(a, b.id, Last)]

Keeps(a, b) == \/ Survivor(a, b).items # <<>>
               \/ b.items = <<>> /\ ~KilledBy(a, b.id, Last)

(* Slip: F0 does not wait for the owner of the half word.                  *)
BoundaryNextSlip(a, b, push, pop) == None

BoundaryNext(a, b, push, pop) ==
  IF a # None THEN (IF boundary # None /\ KilledBy(a, boundary, Last) THEN None ELSE boundary)
  ELSE IF push /\ b.edgePend THEN out.id
  ELSE IF pop /\ beats[1].edgePend /\ beats[1].id = boundary THEN None ELSE boundary

BeatStep(a, b, f1, push, pop) ==
  /\ beats' = IF a # None
              THEN LET live == Masked(beats, {n \in DOMAIN beats : Keeps(a, beats[n])})
                   IN [n \in DOMAIN live |-> Survivor(a, live[n])]
              ELSE (IF pop THEN Tail(beats) ELSE beats) \o (IF push THEN <<b>> ELSE <<>>)
  /\ boundary' = BoundaryNext(a, b, push, pop)
  /\ pd' = IF pop THEN f1.req ELSE None
-----------------------------------------------------------------------------
(* The FTQ, and the ghosts.                                                *)

NewEntry(p) ==
  LET n == (ftqHead + Len(ftq)) % FtqDepth
  IN [id |-> [idx |-> n, gen |-> gen[n] + 1], region |-> RegionOf(predPc), entry |-> predPc % Slots,
      pred |-> p, age |-> 0, issued |-> FALSE, done |-> 0, got |-> {}]

AllocFire(a) == /\ a = None /\ recover = None
                /\ Len(ftq) < FtqDepth /\ allocs < MaxAlloc

(* The deliveries execution may still redirect.                            *)
Mispredictable(ds) ==
  {[id |-> d.id, slot |-> d.slot, word |-> d.word, next |-> d.next,
    seq |-> (d.pc + d.word.len) % Pcs] :
     d \in {ds[n] : n \in {n \in DOMAIN ds : ~ds[n].exc /\ ds[n].word.op \in {"br", "jalr"}}}}

FtqStep(i, a, r, given) ==
  LET told(k) ==
        LET e == ftq[k]
            s == [e EXCEPT !.pred = IF i.slow # None /\ i.slow.k = k THEN i.slow.pred ELSE @,
                           !.age = Min({3, @ + 1}),
                           !.done = IF @ = 0 THEN 0 ELSE Min({CommitDelay, @ + 1})]
            d == IF r # None /\ r.k = k THEN [s EXCEPT !.issued = TRUE] ELSE s
            g == IF given # <<>> /\ given[1].id = e.id
                 THEN [d EXCEPT !.done = IF given[Len(given)].last THEN 1 ELSE 0,
                                !.got = @ \cup Mispredictable(given)] ELSE d
        IN IF a # None /\ ~a.all /\ a.id = e.id
           THEN [g EXCEPT !.pred.next = a.target, !.got = {x \in @ : x.slot < a.slot}]
           ELSE g
      keep == IF a = None THEN Len(ftq)
              ELSE IF a.all \/ EntryOf(a.id) = {} THEN 0 ELSE Max(EntryOf(a.id))
      kept == [k \in 1 .. keep |-> told(k)]
      freed == IF i.retire THEN 1 ELSE 0
      new == IF AllocFire(a) THEN <<NewEntry(i.fast)>> ELSE <<>>
  IN
  /\ ftq' = SubSeq(kept, 1 + freed, keep) \o new
  /\ ftqHead' = (ftqHead + freed) % FtqDepth
  /\ gen' = IF AllocFire(a) THEN [gen EXCEPT ![new[1].id.idx] = @ + 1] ELSE gen
  /\ predPc' = IF a # None THEN a.target ELSE IF AllocFire(a) THEN i.fast.next ELSE predPc
  /\ recover' = IF a # None /\ ~a.all THEN a ELSE None

(* What the return queue sees of a cycle.                                  *)
QueueInputs(i, a, r) ==
  [kill |-> a, head |-> ftqHead, updated |-> Updated(i),
   deqReady |-> boundary = None /\ Len(beats) < 2,
   briefDone |-> IF /\ Len(order) >= Ahead
                    /\ \E k \in EntryOf(slots[Snapshot].id) : SlowDone(k)
                 THEN slots[Snapshot].id ELSE None,
   reserve |-> IF r = None THEN None
               ELSE [slot |-> r.slot, id |-> ftq[r.k].id, pc |-> ftq[r.k].region],
   resp |-> IF i.resp = None THEN None
            ELSE [slot |-> i.resp.slot, id |-> slots[i.resp.slot].id,
                  data |-> slots[i.resp.slot].region \in Fault]]

Tick(i, a) ==
  LET push  == FirePush(i, a)
      pop   == FirePop(i, a)
      r     == Reserve(i, a)
      beat  == IF push THEN BeatOf(out) ELSE None
      f1    == IF pop THEN F1(beats[1]) ELSE None
      given == IF pop THEN f1.out ELSE <<>>
  IN
  /\ QueueStep(i, a, r, push) /\ PendStep(a, beat, push)
  /\ BeatStep(a, beat, f1, push, pop) /\ FtqStep(i, a, r, given)
  /\ want' = IF a # None /\ a.src >= 2 THEN a.target
             ELSE IF given = <<>> THEN want
             ELSE LET d == given[Len(given)] IN IF d.exc THEN NoPc ELSE d.next
  /\ sent' = given /\ cycle' = QueueInputs(i, a, r)
  /\ allocs' = allocs + (IF AllocFire(a) THEN 1 ELSE 0)
  /\ redirects' = redirects + (IF i.exec # None \/ i.sys THEN 1 ELSE 0)

(* A head entry may leave once its instructions, or those of an entry      *)
(* behind it, are delivered (a commit closes every older entry) and no     *)
(* correction of them is on its way.  RetireHalf tells the two cases of a  *)
(* region whose last half word still waits for the next region apart.      *)
Retirable == /\ \E k \in DOMAIN ftq : ftq[k].done = CommitDelay
             /\ pd = None \/ pd.id # ftq[1].id
             /\ recover = None \/ recover.id # ftq[1].id
             /\ RetireHalf \/ pend = None \/ pend.id # ftq[1].id

Slows   == IF SlowOf = {} THEN {None}
           ELSE LET k == Min(SlowOf)
                IN {[k |-> k, pred |-> p] :
                      p \in PredsAt(ftq[k].region * Slots + ftq[k].entry)}
Answers == {None} \cup {[slot |-> n] :
                          n \in {n \in DOMAIN slots : slots[n].state \in {"pend", "zombie"}}}
Reports == {None} \cup (IF redirects < MaxRedirect THEN ExecRequests ELSE {})
Flushes == {FALSE} \cup (IF redirects < MaxRedirect THEN {TRUE} ELSE {})
Retires == {FALSE} \cup (IF Retirable THEN {TRUE} ELSE {})

Inputs ==
  {[fast |-> f, slow |-> s, resp |-> r, exec |-> e, sys |-> y, ready |-> rd, grant |-> TRUE,
    retire |-> t] :
     f \in PredsAt(predPc), s \in Slows, r \in Answers, e \in Reports, y \in Flushes,
     rd \in BOOLEAN, t \in Retires}

Init ==
  /\ ftq = <<>> /\ ftqHead = 0 /\ gen = [n \in 0 .. FtqDepth - 1 |-> 0] /\ predPc = BootPc
  /\ slots = [n \in 0 .. RqDepth - 1 |-> [state |-> "free", id |-> [idx |-> 0, gen |-> 0],
                                          region |-> 0]]
  /\ payload = [n \in 0 .. RqDepth - 1 |-> FALSE] /\ order = <<>> /\ out = None
  /\ pend = None /\ beats = <<>> /\ boundary = None /\ pd = None /\ recover = None
  /\ want = BootPc /\ sent = <<>> /\ cycle = None /\ allocs = 0 /\ redirects = 0

(* A redirect of execution and the retirement of its entry exclude each    *)
(* other; so do an unused prediction and a choice of it.                   *)
Sensible(i, a) ==
  /\ i.retire => a = None /\ ftq[1].id \notin Updated(i)
  /\ ~AllocFire(a) => i.fast = CHOOSE p \in PredsAt(predPc) : TRUE
  /\ beats = <<>> => ~i.ready

Next == \E i \in Inputs : \E a \in {Accept(i)} : Sensible(i, a) /\ Tick(i, a)

Spec == Init /\ [][Next]_fetchVars
-----------------------------------------------------------------------------
(* Properties.                                                             *)

RM == INSTANCE ReturnModel WITH
  slots <- [n \in DOMAIN slots |->
              IF slots[n].state = "free" THEN None
              ELSE [id |-> slots[n].id, pc |-> slots[n].region,
                    data |-> IF slots[n].state = "ready" THEN payload[n] ELSE NoData,
                    zombie |-> slots[n].state = "zombie"]],
  output <- (IF out = None THEN None
             ELSE [id |-> out.id, pc |-> out.brief.region, data |-> out.exc, zombie |-> FALSE]),
  NoEntry <- None

(* Every cycle of the return queue is a cycle of its order model, whose    *)
(* assertions (a reserved slot is free, a response meets the request it    *)
(* answers, a kill takes a suffix of the order) therefore hold too.        *)
QueueImplementsModel == [][RM!ReturnTick(cycle')]_fetchVars

(* F1's parallel lanes deliver and correct what the item-by-item reference *)
(* model does, on every beat the pipeline produces, and those are beats    *)
(* the model is made for: instructions of one region that follow one       *)
(* another from an entry or a completed half word, whatever was killed.    *)
F1Exact ==
  /\ \A n \in DOMAIN beats : IsBeat(beats[n]) /\ Consecutive(beats[n])
  /\ beats # <<>> => F1(beats[1]) = Evaluate(beats[1])

(* The fetch buffer receives one path: every delivered instruction starts  *)
(* where the one before it, as predicted or corrected, leads, or where     *)
(* execution's latest redirect points, whatever responses, kills, slow     *)
(* predictions and half words split over two regions intervene.            *)
PathDelivered ==
  [][/\ sent' # <<>> /\ want # NoPc => sent'[1].pc = want
     /\ \A n \in 1 .. Len(sent') - 1 : sent'[n + 1].pc = sent'[n].next]_fetchVars

(* The return queue holds the issued, undelivered entries of the FTQ in    *)
(* their order, the snapshot on offer is its head, and the prediction in   *)
(* it is the one the FTQ holds now ("no stale alloc/slow/fix merge is      *)
(* delivered", fetch_return_queue.sv).                                     *)
SnapshotFresh ==
  /\ \A n \in DOMAIN order : EntryOf(slots[order[n]].id) # {}
  /\ \A n \in 1 .. Len(order) - 1 :
       Max(EntryOf(slots[order[n]].id)) + 1 = Max(EntryOf(slots[order[n + 1]].id))
  /\ out # None => /\ order # <<>> /\ slots[order[1]].id = out.id
                   /\ out.brief = Brief(out.id)
=============================================================================
