-------------------------------- MODULE Home --------------------------------
(***************************************************************************)
(* The single-hart L2 home (l2_home.sv, l2_slots.sv, l2_probe_engine.sv).  *)
(*                                                                         *)
(* A three-stage pipeline: S0 chooses a Put, else a task of a slow slot,   *)
(* else a new request, and reads the set's directory row; S1 finds the way *)
(* and reads the line; S2 makes every effect.  A request that needs a      *)
(* probe or memory moves to a slow slot, which owns its set until it       *)
(* answers; Puts still enter an owned set.  Clients: 0 the L1D, 1 the L1I  *)
(* (reads, never in the directory), 2 DMA.  The state is one cycle's       *)
(* registers; HomeTick is the clock edge.                                  *)
(***************************************************************************)
EXTENDS MemEngine

CONSTANT PutBuffers     \* Put credits of the L1D

VARIABLE home

PutId == 0 .. PutBuffers - 1

NoMeta == [valid |-> FALSE, dirty |-> FALSE, line |-> 0,
           state |-> "N", sharer |-> FALSE]

HomeInit ==
    home = [s1 |-> None, s2 |-> None,
            dir  |-> [s \in SetIdx |-> [w \in Way |-> NoMeta]],
            tree |-> [s \in SetIdx |-> 0],
            data |-> [s \in SetIdx |-> [w \in Way |-> NoData]],
            inPipe |-> [c \in Clients |-> FALSE],
            slotWait |-> [c \in Clients |-> FALSE],
            rr |-> [req |-> 0, put |-> 0, task |-> 0, probe |-> 0, read |-> 0],
            put |-> [i \in PutId |-> None],
            putPipe |-> [i \in PutId |-> FALSE],
            answer |-> None,
            slot |-> [n \in Slot |-> [st |-> "Idle", served |-> FALSE, work |-> None]],
            probeHold |-> None, readHold |-> None, probe |-> None,
            out |-> [c \in Clients |-> <<>>]]

-----------------------------------------------------------------------------
(* S0: what may enter the pipeline.                                        *)

InFlight(s) ==
    \/ home.s1 # None /\ home.s1.set = s
    \/ home.s2 # None /\ home.s2.set = s

SlotSet(n) == SetOf(home.slot[n].work.req.addr)

Protected(s) ==
    InFlight(s) \/ \E n \in Slot : home.slot[n].st # "Idle" /\ SlotSet(n) = s

PutsReady ==
    {i \in PutId : /\ home.put[i] # None
                   /\ ~home.putPipe[i]
                   /\ ~InFlight(SetOf(home.put[i].addr))}

TasksReady ==
    {n \in Slot : /\ home.slot[n].st \in {"Evict", "Install", "Replay"}
                  /\ ~InFlight(SlotSet(n))}

RequestsReady(req) ==
    {c \in Clients : /\ req[c] # None
                     /\ ~home.inPipe[c]
                     /\ ~home.slotWait[c]
                     /\ ~Protected(SetOf(req[c].addr))}

(* A request's work before a slot has it.                                  *)
NewWork(c, req) ==
    [client |-> c, req |-> req, isProbe |-> FALSE, way |-> 0, victim |-> None,
     probeOp |-> "Inv", owner |-> FALSE, collected |-> FALSE, err |-> FALSE,
     refill |-> NoData]

(* The choice of S0 with the directory row it reads.                       *)
Chosen(req) ==
    LET Entry(kind, s, id, work, put) ==
            [kind |-> kind, set |-> s, id |-> id, work |-> work, put |-> put,
             row |-> home.dir[s], tree |-> home.tree[s]]
    IN  IF PutsReady # {}
        THEN LET i == RoundRobin(PutsReady, home.rr.put, PutBuffers)
             IN  Entry("Put", SetOf(home.put[i].addr), i, None, home.put[i])
        ELSE IF TasksReady # {}
        THEN LET n == RoundRobin(TasksReady, home.rr.task, Slots)
             IN  Entry(home.slot[n].st, SlotSet(n), n, home.slot[n].work, None)
        ELSE IF RequestsReady(req) # {}
        THEN LET c == RoundRobin(RequestsReady(req), home.rr.req, 3)
             IN  Entry("Req", SetOf(req[c].addr), c, NewWork(c, req[c]), None)
        ELSE None

(* S1: the way that holds the line, or the one the slot owns.              *)
Located(s) ==
    LET line == IF s.kind = "Put" THEN s.put.addr ELSE s.work.req.addr
        hits == {w \in Way : s.row[w].valid /\ s.row[w].line = line}
        way == IF s.kind \in {"Evict", "Install", "Replay"} THEN s.work.way
               ELSE IF hits # {} THEN Max(hits) ELSE 0
    IN  [kind |-> s.kind, set |-> s.set, id |-> s.id, work |-> s.work,
         put |-> s.put, row |-> s.row, tree |-> s.tree,
         hit |-> hits # {}, way |-> way, line |-> home.data[s.set][way]]

-----------------------------------------------------------------------------
(* S2: the effects, as one record.                                         *)

NoEffect ==
    [rsp |-> None, client |-> 0, meta |-> None, data |-> None, touch |-> FALSE,
     alloc |-> None, accept |-> FALSE, reject |-> FALSE,
     done |-> None, owner |-> FALSE, push |-> None, release |-> FALSE]

(* The request `work.req` answered from directory entry `base` and line    *)
(* content `contents`: the grant, the read data or the masked write.       *)
Finish(base, contents, work) ==
    LET op == work.req.op
        meta == CASE op \in {"GetS", "GetM"} ->
                       [base EXCEPT !.state = "U", !.sharer = TRUE]
                  [] op = "Read" -> base
                  [] op = "MaskWrite" -> [base EXCEPT !.dirty = TRUE]
        answer == CASE op = "GetM" /\ base.state = "S" -> "AckE"
                    [] op = "GetM" /\ base.state # "S" -> "DataE"
                    [] op = "GetS" -> "DataE"
                    [] op = "Read" -> "ReadData"
                    [] op = "MaskWrite" -> "WriteAck"
    IN  [NoEffect EXCEPT
            !.rsp = Response(answer, work.req.id, FALSE, contents),
            !.client = work.client,
            !.meta = meta,
            !.touch = TRUE,
            !.data = IF op = "MaskWrite"
                     THEN Merge(contents, work.req.mask, work.req.data)
                     ELSE None]

PutEffect(s) ==
    LET base == s.row[s.way]
    IN  [NoEffect EXCEPT
            !.rsp = Response("PutAck", s.put.id, FALSE, NoData),
            !.meta = [base EXCEPT !.sharer = FALSE, !.state = "N",
                                  !.dirty = @ \/ s.put.dirty],
            !.data = IF s.put.dirty THEN s.put.data ELSE None]

(* A write that probes an owner but not a sharer.                          *)
NeedsSlotSlip(s) ==
    \/ ~s.hit
    \/ s.work.req.op \in {"Read", "MaskWrite"} /\ s.row[s.way].state = "U"

NeedsSlot(s) ==
    \/ ~s.hit
    \/ s.work.req.op = "Read" /\ s.row[s.way].state = "U"
    \/ s.work.req.op = "MaskWrite" /\ s.row[s.way].state # "N"

(* A miss, a read of an owned line and a write of a held line go to a      *)
(* slot, if one is free; otherwise the request waits for a release.        *)
ReqEffect(s) ==
    LET base == s.row[s.way]
        op == s.work.req.op
        invalid == {w \in Way : ~s.row[w].valid}
        victim == IF invalid # {} THEN Min(invalid) ELSE s.tree
        free == \E n \in Slot : home.slot[n].st = "Idle"
    IN  IF ~NeedsSlot(s) THEN [Finish(base, s.line, s.work) EXCEPT !.accept = TRUE]
        ELSE IF ~free THEN [NoEffect EXCEPT !.reject = TRUE]
        ELSE [NoEffect EXCEPT
                !.accept = TRUE,
                !.alloc = [s.work EXCEPT
                    !.isProbe = s.hit,
                    !.way = IF s.hit THEN s.way ELSE victim,
                    !.victim = IF ~s.hit /\ s.row[victim].valid
                               THEN s.row[victim].line ELSE None,
                    !.probeOp = IF op = "Read" THEN "Down" ELSE "Inv",
                    !.owner = base.state = "U"]]

(* The directory entry and line content a slot's task works on: the probe  *)
(* answer, when one was collected, applied to what the row says.           *)
Collected(s) ==
    LET old == s.row[s.way]
        base == IF ~s.work.collected THEN old
                ELSE IF s.work.probeOp = "Inv"
                THEN [old EXCEPT !.sharer = FALSE, !.state = "N"]
                ELSE [old EXCEPT !.state = IF old.sharer THEN "S" ELSE "N"]
        dirty == s.work.collected /\ home.answer.dirty
    IN  [base |-> [base EXCEPT !.dirty = @ \/ dirty],
         contents |-> IF dirty THEN home.answer.data ELSE s.line]

EvictEffect(s) ==
    LET base == Collected(s).base
    IN  IF base.sharer
        THEN [NoEffect EXCEPT !.done = "NeedProbe", !.owner = base.state = "U"]
        ELSE IF base.dirty /\ ~WbFree THEN [NoEffect EXCEPT !.done = "Retry"]
        ELSE [NoEffect EXCEPT
                !.done = "EvictDone",
                !.meta = NoMeta,
                !.push = IF base.dirty
                         THEN [addr |-> s.work.victim, data |-> Collected(s).contents]
                         ELSE None,
                !.release = s.work.collected]

InstallEffect(s) ==
    IF s.work.err
    THEN [NoEffect EXCEPT
            !.done = "Finished",
            !.client = s.work.client,
            !.rsp = Response(CASE s.work.req.op = "Read" -> "ReadData"
                               [] s.work.req.op = "MaskWrite" -> "WriteAck"
                               [] OTHER -> "DataE", s.work.req.id, TRUE, NoData)]
    ELSE LET base == [NoMeta EXCEPT !.valid = TRUE, !.line = s.work.req.addr]
             f == Finish(base, s.work.refill, s.work)
         IN  [f EXCEPT !.done = "Finished",
                       !.data = IF @ = None THEN s.work.refill ELSE @]

ReplayEffect(s) ==
    LET c == Collected(s)
        f == Finish(c.base, c.contents, s.work)
    IN  [f EXCEPT !.done = "Finished", !.release = TRUE,
                  !.data = IF @ = None /\ home.answer.dirty THEN c.contents ELSE @]

Effect ==
    IF home.s2 = None THEN NoEffect
    ELSE CASE home.s2.kind = "Put" -> PutEffect(home.s2)
           [] home.s2.kind = "Req" -> ReqEffect(home.s2)
           [] home.s2.kind = "Evict" -> EvictEffect(home.s2)
           [] home.s2.kind = "Install" -> InstallEffect(home.s2)
           [] home.s2.kind = "Replay" -> ReplayEffect(home.s2)

-----------------------------------------------------------------------------
(* The wires of the home; none depends on this cycle's inputs.             *)

RequestReady(c) ==
    /\ home.s2 # None
    /\ home.s2.kind = "Req"
    /\ home.s2.work.client = c
    /\ Effect.accept

ResponseOut(c) == IF home.out[c] = <<>> THEN None ELSE Head(home.out[c])

ProbeAddr(work) == IF work.isProbe THEN work.req.addr ELSE work.victim

(* A victim's probe tagged with the write that needs its way.              *)
DmaWriteProbeSlip(work) == work.client = 2 /\ work.req.op = "MaskWrite"

DmaWriteProbe(work) ==
    /\ work.isProbe
    /\ work.client = 2
    /\ work.req.op = "MaskWrite"
    /\ work.probeOp = "Inv"

SnoopOut ==
    IF home.probe # None /\ ~home.probe.sent
    THEN LET work == home.probe.work
         IN  [op |-> work.probeOp, owner |-> work.owner, addr |-> ProbeAddr(work),
              dmaWrite |-> DmaWriteProbe(work)]
    ELSE None

ReadOffer ==
    IF home.readHold = None THEN None
    ELSE [slot |-> home.readHold, addr |-> home.slot[home.readHold].work.req.addr]

-----------------------------------------------------------------------------
(* The slow slots at the clock edge.                                       *)
SlotNext(n, e, granted, answered, readFire, readDone) ==
    LET slot == home.slot[n]
        mine == home.s2 # None /\ e.done # None /\ home.s2.id = n
        To(st) == [slot EXCEPT !.st = st, !.work.collected = FALSE]
    IN  IF e.alloc # None /\ n = Min({m \in Slot : home.slot[m].st = "Idle"})
        THEN   [st |-> IF e.alloc.isProbe THEN "ProbeWait"
                       ELSE IF e.alloc.victim # None THEN "Evict" ELSE "MemRead",
                served |-> FALSE, work |-> e.alloc]
        ELSE IF granted = n THEN [slot EXCEPT !.st = "InPipe"]
        ELSE IF mine /\ e.done = "NeedProbe"
        THEN   [To("ProbeWait") EXCEPT !.served = FALSE, !.work.probeOp = "Inv",
                                       !.work.owner = e.owner]
        ELSE IF mine /\ e.done = "EvictDone" THEN To("MemRead")
        ELSE IF mine /\ e.done = "Retry" THEN [slot EXCEPT !.st = "Evict"]
        ELSE IF mine /\ e.done = "Finished"
        THEN   [st |-> "Idle", served |-> FALSE, work |-> None]
        ELSE IF home.probeHold # None /\ home.probeHold.slot = n /\ home.probe = None
        THEN   [slot EXCEPT !.served = TRUE]
        ELSE IF answered /\ home.probe.slot = n
        THEN   [slot EXCEPT !.st = IF slot.work.isProbe THEN "Replay" ELSE "Evict",
                            !.work.collected = TRUE]
        ELSE IF readFire /\ home.readHold = n THEN [slot EXCEPT !.st = "ReadWait"]
        ELSE IF readDone # None /\ readDone.slot = n
        THEN   [slot EXCEPT !.st = "Install", !.work.err = readDone.err,
                            !.work.refill = readDone.data]
        ELSE slot

(* The probe engine keeps its job from acceptance until S2 consumes the    *)
(* answer.                                                                 *)
ProbeNext(e, answered, snpFire) ==
    IF e.release THEN None
    ELSE IF home.probe = None
    THEN IF home.probeHold = None THEN None
         ELSE [slot |-> home.probeHold.slot, work |-> home.probeHold.work,
               sent |-> FALSE, done |-> FALSE]
    ELSE [home.probe EXCEPT !.sent = @ \/ snpFire, !.done = @ \/ answered]

(* One clock edge.  req, up: what the clients present; rspReady, snpReady: *)
(* what they accept; arReady and r: the AXI read side.                     *)
HomeTick(req, rspReady, up, snpReady, arReady, r) ==
    \E e \in {Effect}, s0 \in {Chosen(req)} :
    LET granted == IF s0 # None /\ s0.kind \notin {"Put", "Req"} THEN s0.id ELSE None
        isAnswer == up # None /\ up.op # "Put"
        answered == isAnswer /\ home.probe # None /\ ~home.probe.done
        snpFire == SnoopOut # None /\ snpReady
        readFire == AxiAr(ReadOffer, e.push) # None /\ arReady
        probeWait == {n \in Slot : home.slot[n].st = "ProbeWait" /\ ~home.slot[n].served}
        readWait == {n \in Slot : home.slot[n].st = "MemRead"}
        s2 == home.s2
        OutNext(c) ==
            LET popped == IF home.out[c] # <<>> /\ rspReady[c]
                          THEN Tail(home.out[c]) ELSE home.out[c]
            IN  IF e.rsp # None /\ e.client = c THEN Append(popped, e.rsp) ELSE popped
    IN  home' =
         [s1 |-> s0,
          s2 |-> IF home.s1 = None THEN None ELSE Located(home.s1),
          dir |-> IF e.meta = None THEN home.dir
                  ELSE [home.dir EXCEPT ![s2.set][s2.way] = e.meta],
          tree |-> IF e.touch THEN [home.tree EXCEPT ![s2.set] = Touch(s2.way)]
                   ELSE home.tree,
          data |-> IF e.data = None THEN home.data
                   ELSE [home.data EXCEPT ![s2.set][s2.way] = e.data],
          inPipe |-> [c \in Clients |->
                        IF s0 # None /\ s0.kind = "Req" /\ s0.id = c THEN TRUE
                        ELSE IF s2 # None /\ s2.kind = "Req" /\ s2.id = c THEN FALSE
                        ELSE home.inPipe[c]],
          slotWait |-> [c \in Clients |->
                          IF e.done = "Finished" THEN FALSE
                          ELSE home.slotWait[c] \/ (e.reject /\ s2.id = c)],
          rr |-> [req |-> IF s0 # None /\ s0.kind = "Req" THEN (s0.id + 1) % 3
                          ELSE home.rr.req,
                  put |-> IF s0 # None /\ s0.kind = "Put"
                          THEN (s0.id + 1) % PutBuffers ELSE home.rr.put,
                  task |-> IF granted # None THEN (granted + 1) % Slots
                           ELSE home.rr.task,
                  probe |-> IF home.probeHold # None /\ home.probe = None
                            THEN (home.probeHold.slot + 1) % Slots ELSE home.rr.probe,
                  read |-> IF readFire THEN (home.readHold + 1) % Slots
                           ELSE home.rr.read],
          put |-> [i \in PutId |->
                     IF up # None /\ up.op = "Put" /\ up.id = i THEN up
                     ELSE IF s2 # None /\ s2.kind = "Put" /\ s2.id = i THEN None
                     ELSE home.put[i]],
          putPipe |-> [i \in PutId |->
                         IF s2 # None /\ s2.kind = "Put" /\ s2.id = i THEN FALSE
                         ELSE home.putPipe[i] \/
                              (s0 # None /\ s0.kind = "Put" /\ s0.id = i)],
          answer |-> IF isAnswer THEN up ELSE IF e.release THEN None ELSE home.answer,
          slot |-> [n \in Slot |->
                      SlotNext(n, e, granted, answered, readFire, ReadDone(r))],
          probeHold |-> IF home.probeHold # None
                        THEN IF home.probe = None THEN None ELSE home.probeHold
                        ELSE IF probeWait = {} THEN None
                        ELSE LET n == RoundRobin(probeWait, home.rr.probe, Slots)
                             IN  [slot |-> n, work |-> home.slot[n].work],
          readHold |-> IF home.readHold # None
                       THEN IF readFire THEN None ELSE home.readHold
                       ELSE IF readWait = {} THEN None
                       ELSE RoundRobin(readWait, home.rr.read, Slots),
          probe |-> ProbeNext(e, answered, snpFire),
          out |-> [c \in Clients |-> OutNext(c)]]

HomeIdle ==
    /\ home.s1 = None /\ home.s2 = None
    /\ \A n \in Slot : home.slot[n].st = "Idle"
    /\ \A i \in PutId : home.put[i] = None
    /\ home.probe = None
    /\ \A c \in Clients : home.out[c] = <<>>
=============================================================================
