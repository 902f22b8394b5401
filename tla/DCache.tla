------------------------------- MODULE DCache -------------------------------
(***************************************************************************)
(* The L1 data cache's line machinery (dcache.sv, dcache_mshr.sv,          *)
(* dcache_writeback.sv, dcache_probe.sv): two unstalled lanes S0/S1/S2,    *)
(* whole-line operations that reserve their S0 slot `Reservation` cycles   *)
(* ahead, line-only MSHRs, Put buffers for every valid victim, one pending *)
(* store (PS) and one received snoop.  A request's decision is made in S2  *)
(* from the tags and words it read in S0; a lane whose set changed in      *)
(* between replays.                                                        *)
(*                                                                         *)
(* Requests: Load, Sta, Amo (an atomic read-modify-write of the head unit) *)
(* from the core, Store, Ptw and Ad through the internal port of lane 1.   *)
(* Left out: flushes and branch kills, LR/SC, permissions, sub-word sizes. *)
(***************************************************************************)
EXTENDS MemTypes

CONSTANTS
    Mshrs,          \* line transactions
    PutSlots,       \* write-back buffers
    Reserve,        \* MSHRs kept free for the oldest instruction
    Reservation     \* cycles between a reservation and its S0

ASSUME DCacheAssumption ==
    /\ Mshrs \in Nat \ {0}
    /\ PutSlots \in Nat \ {0}
    /\ Reserve \in Nat
    /\ Reservation \in Nat \ {0, 1}

VARIABLE dc

Lane == {0, 1}
Ip == 1                             \* the lane of the internal port
Mshr == 0 .. Mshrs - 1
PutSlot == 0 .. PutSlots - 1
LastStage == Reservation

NoTag == [state |-> "I", line |-> 0]
NoWait == [valid |-> FALSE, inpipe |-> FALSE, wait |-> FALSE,
           reason |-> "None", mshr |-> 0, err |-> FALSE, req |-> None]

DcInit ==
    dc = [tag |-> [s \in SetIdx |-> [w \in Way |-> NoTag]],
          data |-> [s \in SetIdx |-> [w \in Way |-> NoData]],
          plru |-> [s \in SetIdx |-> 0],
          locked |-> [s \in SetIdx |-> [w \in Way |-> FALSE]],
          s1 |-> [p \in Lane |-> None], s2 |-> [p \in Lane |-> None],
          launch |-> [l \in 1 .. Reservation |-> None],
          lread |-> None, lresult |-> None,
          ilaunch |-> [l \in 1 .. Reservation |-> None],
          int |-> NoWait, ps |-> None,
          ms |-> [n \in Mshr |-> None], sendHold |-> None,
          wb |-> [k \in PutSlot |-> None], putHold |-> None,
          pr |-> None,
          live |-> [n \in Mshr |-> FALSE], hold |-> None]

-----------------------------------------------------------------------------
(* What a request asks for.                                                *)

Writes(r) == r.src \in {"Store", "Ad", "Amo"}
WantsM(r) == Writes(r) \/ r.src = "Sta"
Internal(r) == r.src \in {"Store", "Ptw", "Ad"}
Privileged(r) == Internal(r) \/ r.head

(* This cycle's line-operation events.                                     *)
PsWrite == dc.ps # None /\ dc.launch[LastStage] = None
InstallDone == dc.launch[LastStage] # None /\ dc.launch[LastStage].kind = "Install"
ProbeDone == dc.lresult # None /\ dc.lresult.kind = "Probe"
WbDone == dc.lresult # None /\ dc.lresult.kind = "Wb"

-----------------------------------------------------------------------------
PutPending(line) == \E k \in PutSlot : dc.wb[k] # None /\ dc.wb[k].line = line

(* A snoop that passes a line granted and not yet installed.               *)
MshrHoldsSlip(m, snp) == m # None /\ m.line = snp.addr /\ m.st = "Wait" /\ ~m.atomic

MshrHolds(m, snp) ==
    /\ m # None
    /\ m.line = snp.addr
    /\ m.st = "Install" \/ (m.st = "Wait" /\ ~m.atomic)
    /\ ~(m.upgrade /\ m.st = "Wait" /\ ~snp.owner)

(* The received snoop waits for protocol completions of its own line only. *)
ProbeHold ==
    LET line == dc.pr.snp.addr
        OnLine(r) == r # None /\ Writes(r) /\ r.line = line
    IN  \/ dc.hold = line
        \/ dc.ps # None /\ dc.ps.req.line = line
        \/ \E n \in Mshr : MshrHolds(dc.ms[n], dc.pr.snp)
        \/ PutPending(line)
        \/ \E p \in Lane : \/ dc.s1[p] # None /\ OnLine(dc.s1[p].req)
                           \/ dc.s2[p] # None /\ OnLine(dc.s2[p].req)
        \/ \E l \in 1 .. Reservation : OnLine(dc.ilaunch[l])

(* The whole-line operation that reserves a bank slot in this cycle.       *)
LineChoose ==
    LET installs == {n \in Mshr : dc.ms[n] # None /\ dc.ms[n].st = "Install"
                                                  /\ ~dc.ms[n].issued}
        reads == {k \in PutSlot : dc.wb[k] # None /\ dc.wb[k].st = "Read"}
        Op(kind, line, id, way) ==
            [kind |-> kind, line |-> line, id |-> id, way |-> way]
    IN  IF \/ \E l \in 1 .. Reservation : dc.launch[l] # None
           \/ dc.lread # None \/ dc.lresult # None
           \/ dc.ps # None \/ dc.int.inpipe
        THEN None
        ELSE IF dc.pr # None /\ dc.pr.st = "Pending" /\ ~ProbeHold
        THEN Op("Probe", dc.pr.snp.addr, 0, 0)
        ELSE IF installs # {}
        THEN LET n == Min(installs) IN Op("Install", dc.ms[n].line, n, dc.ms[n].way)
        ELSE IF reads # {}
        THEN LET k == Min(reads) IN Op("Wb", dc.wb[k].line, k, dc.wb[k].way)
        ELSE None

FullLineBusy == LineChoose # None

(* The internal port: a retained request first, else PTW, AD, store.       *)
InternalChoose(ptw, ad, st) ==
    IF FullLineBusy \/ dc.int.inpipe THEN None
    ELSE IF dc.int.valid THEN IF dc.int.wait THEN None ELSE dc.int.req
    ELSE IF ptw # None THEN ptw
    ELSE IF ad # None THEN ad
    ELSE st

PortReady(req, ptw, ad, st) ==
    req # None /\ ~dc.int.valid /\ InternalChoose(ptw, ad, st) = req

(* The set whose tags change under the lanes in this cycle or for which a  *)
(* probe has reserved its tag snapshot; the later clauses of the code win. *)
MutationSet ==
    LET probes == {l \in 1 .. Reservation :
                      dc.launch[l] # None /\ dc.launch[l].kind = "Probe"}
    IN  IF PsWrite THEN SetOf(dc.ps.req.line)
        ELSE IF InstallDone THEN SetOf(dc.launch[LastStage].line)
        ELSE IF ProbeDone THEN SetOf(dc.lresult.line)
        ELSE IF dc.lread # None /\ dc.lread.kind = "Probe" THEN SetOf(dc.lread.line)
        ELSE IF probes # {} THEN SetOf(dc.launch[Max(probes)].line)
        ELSE IF LineChoose # None /\ LineChoose.kind = "Probe"
        THEN SetOf(LineChoose.line)
        ELSE None

-----------------------------------------------------------------------------
LaneReady(p) ==
    dc.launch[LastStage] = None /\ ~(p = Ip /\ dc.ilaunch[LastStage] # None)

(* S0: the requests entering the lanes, with the words they conflict on.   *)
Entering(cpu) ==
    [p \in Lane |-> IF p = Ip /\ dc.ilaunch[LastStage] # None THEN dc.ilaunch[LastStage]
                    ELSE cpu[p]]

StageZero(cpu) ==
    LET enter == Entering(cpu)
        SameWord(a, b) == a.line = b.line /\ a.word = b.word
        Older(s, r) == s # None /\ WantsM(s.req) /\ SameWord(s.req, r)
        Conflict(r) ==
            /\ ~WantsM(r)
            /\ \/ \E q \in Lane : Older(dc.s1[q], r) \/ Older(dc.s2[q], r)
               \/ dc.ps # None /\ SameWord(dc.ps.req, r)
        younger == IF enter[Ip] # None /\ Internal(enter[Ip]) THEN 0 ELSE 1
        Bank(p) ==
            /\ enter[0] # None /\ enter[1] # None
            /\ enter[0].word = enter[1].word
            /\ SetOf(enter[0].line) # SetOf(enter[1].line)
            /\ p = younger
        Stage(p) ==
            LET r == enter[p]
                s == SetOf(r.line)
            IN  [req |-> r, conflict |-> Conflict(r), bank |-> Bank(p),
                 snap |-> FALSE, row |-> dc.tag[s],
                 words |-> [w \in Way |-> dc.data[s][w][r.word]]]
    IN  [p \in Lane |-> IF enter[p] = None THEN None ELSE Stage(p)]

-----------------------------------------------------------------------------
(* S2: the decision on one lane.  `first` is lane 0's decision when lane 1 *)
(* is decided; a lane without a request decides NoDecision.                *)

NoDecision == [req |-> None, status |-> "Ok", reason |-> "None", mshr |-> 0,
               data |-> 0, fail |-> FALSE, way |-> None, alloc |-> None, ps |-> FALSE]

FreeMshrs == {n \in Mshr : dc.ms[n] = None}
FreePuts == {k \in PutSlot : dc.wb[k] = None}

(* The way a miss would fill: an upgrade keeps its way; otherwise the      *)
(* lowest unlocked invalid way, else the first unlocked from the PLRU's.   *)
Victim(row, set, upgrade, hitWay) ==
    LET open == {w \in Way : ~dc.locked[set][w]}
        empty == {w \in open : row[w].state = "I"}
    IN  IF upgrade THEN hitWay
        ELSE IF empty # {} THEN Min(empty)
        ELSE IF open # {} THEN RoundRobin(open, dc.plru[set], 2)
        ELSE None

Transaction(r, row, v, upgrade) ==
    [line |-> r.line, getm |-> WantsM(r), atomic |-> r.src = "Amo", way |-> v,
     upgrade |-> upgrade,
     victim |-> IF ~upgrade /\ row[v].state # "I" THEN row[v] ELSE None]

Decide(p, first) ==
    LET s == dc.s2[p]
        r == s.req
        set == SetOf(r.line)
        hits == {w \in Way : /\ s.row[w].state # "I"
                             /\ ~dc.locked[set][w]
                             /\ s.row[w].line = r.line}
        hit == hits # {}
        way == IF hit THEN Max(hits) ELSE 0
        state == IF hit THEN s.row[way].state ELSE "I"
        upgrade == hit /\ state = "S" /\ WantsM(r)
        v == Victim(s.row, set, upgrade, way)
        mutation == MutationSet # None
        same == {n \in Mshr : dc.ms[n] # None /\ dc.ms[n].line = r.line}
                  \cup (IF first.alloc # None /\ first.alloc.line = r.line
                        THEN {Min(FreeMshrs)} ELSE {})
        sameWb == PutPending(r.line)
        needsPut == v # None /\ s.row[v].state # "I" /\ ~upgrade
        canAlloc ==
            /\ v # None /\ first.alloc = None /\ ~mutation /\ dc.ps = None
            /\ Cardinality(FreeMshrs) >=
                 IF Privileged(r) THEN 1 ELSE 1 + IF Mshrs = 1 THEN 0 ELSE Reserve
            /\ needsPut => FreePuts # {}
            /\ r.src = "Sta" =>
                 Cardinality(FreeMshrs) >= 2 + IF Mshrs = 1 THEN 0 ELSE Reserve
        Base == [NoDecision EXCEPT !.req = r, !.data = s.words[way],
                                   !.way = IF hit THEN way ELSE None]
        Replay(reason) == [Base EXCEPT !.status = "Replay", !.reason = reason]
        Miss(n) == [Base EXCEPT !.status = "Miss", !.reason = "Mshr", !.mshr = n]
        txn == Transaction(r, s.row, v, upgrade)
    IN  IF s = None THEN NoDecision
        ELSE IF Internal(r) /\ dc.int.err THEN [Base EXCEPT !.status = "Error"]
        ELSE IF s.snap \/ MutationSet = set THEN Replay("Snap")
        ELSE IF s.conflict THEN Replay("Conflict")
        ELSE IF s.bank THEN Replay("Bank")
        ELSE IF r.src = "Sta"
        THEN IF (~hit \/ state = "S") /\ same = {} /\ ~sameWb /\ canAlloc
             THEN [Base EXCEPT !.alloc = txn] ELSE Base
        ELSE IF hit /\ (~WantsM(r) \/ state \in {"E", "M"})
        THEN IF ~WantsM(r) THEN Base
             ELSE IF \/ dc.ps # None \/ first.ps \/ mutation
                     \/ dc.launch[LastStage - 1] # None
             THEN Replay("Conflict")
             ELSE IF r.src = "Ad" /\ s.words[way] # r.expect
             THEN [Base EXCEPT !.fail = TRUE]
             ELSE [Base EXCEPT !.ps = TRUE]
        ELSE IF same # {} THEN Miss(Max(same))
        ELSE IF sameWb THEN Replay("WbLine")
        ELSE IF canAlloc THEN [Miss(Min(FreeMshrs)) EXCEPT !.alloc = txn]
        ELSE IF mutation \/ dc.ps # None \/ first.alloc # None THEN Replay("Conflict")
        ELSE IF needsPut /\ FreePuts = {} THEN Replay("WbLine")
        ELSE Replay("MshrFull")

Decisions ==
    LET d0 == Decide(0, NoDecision)
        d1 == Decide(1, d0)
    IN  [p \in Lane |-> IF p = 0 THEN d0 ELSE d1]

-----------------------------------------------------------------------------
(* The wires of the cache; none depends on this cycle's link inputs.       *)

L2Request ==
    IF dc.sendHold = None THEN None
    ELSE LET m == dc.ms[dc.sendHold]
         IN  Request(IF m.getm THEN "GetM" ELSE "GetS", m.line, dc.sendHold, {}, NoData)

(* The home always accepts the up channel, so the choice is never held.    *)
ChooseProbe == dc.pr # None /\ dc.pr.st = "Answer"

UpOut ==
    IF ChooseProbe THEN dc.pr.ack
    ELSE IF dc.putHold = None THEN None
    ELSE LET b == dc.wb[dc.putHold]
         IN  UpMessage("Put", b.dirty, b.line, dc.putHold, b.data)

SnoopReady == dc.pr = None

(* Slip: the event names no MSHR.                                          *)
WakeSlip(rsp) ==
    [mshr |-> None, err |-> InstallDone /\ dc.launch[LastStage].err,
     free |-> InstallDone, wbFree |-> rsp # None /\ rsp.op = "PutAck"]

Wake(rsp) ==
    [mshr |-> IF InstallDone THEN dc.launch[LastStage].id ELSE None,
     err |-> InstallDone /\ dc.launch[LastStage].err,
     free |-> InstallDone,
     wbFree |-> rsp # None /\ rsp.op = "PutAck"]

(* A request that leaves S2, or PS, for good or to be retried by its       *)
(* owner; an internal request other than a store is retried in here.       *)
Answers(ds) ==
    LET Leaves(d) ==
            /\ d.req # None
            /\ ~d.ps
            /\ ~Internal(d.req) \/ d.status \in {"Ok", "Error"} \/ d.req.src = "Store"
        Out(d) == [req |-> d.req, status |-> d.status, reason |-> d.reason,
                   mshr |-> d.mshr, data |-> d.data, fail |-> d.fail]
    IN  {Out(ds[p]) : p \in {q \in Lane : Leaves(ds[q])}}
        \cup (IF PsWrite
              THEN {[req |-> dc.ps.req, status |-> "Ok", reason |-> "None",
                     mshr |-> 0, data |-> dc.ps.old, fail |-> FALSE]}
              ELSE {})

-----------------------------------------------------------------------------
(* The registers at the clock edge, part by part.                          *)

(* A failed fill installed all the same.                                   *)
InstalledStateSlip(op) == IF op.grantE THEN "E" ELSE "S"

InstalledState(op) == IF op.err THEN "I" ELSE IF op.grantE THEN "E" ELSE "S"

(* The tag write of this cycle.                                            *)
TagChange(ds) ==
    LET allocs == {p \in Lane : ds[p].alloc # None /\ ds[p].alloc.victim # None}
        op == dc.launch[LastStage]
    IN  IF InstallDone
        THEN [set |-> SetOf(op.line), way |-> op.way,
              tag |-> [state |-> InstalledState(op), line |-> op.line]]
        ELSE IF ProbeDone /\ dc.lresult.state # "I"
        THEN [set |-> SetOf(dc.lresult.line), way |-> dc.lresult.way,
              tag |-> [state |-> IF dc.pr.snp.op = "Inv" THEN "I" ELSE "S",
                       line |-> dc.lresult.line]]
        ELSE IF PsWrite
        THEN [set |-> SetOf(dc.ps.req.line), way |-> dc.ps.way,
              tag |-> [state |-> "M", line |-> dc.ps.req.line]]
        ELSE IF allocs # {}
        THEN LET t == ds[Min(allocs)].alloc
             IN  [set |-> SetOf(t.line), way |-> t.way,
                  tag |-> [t.victim EXCEPT !.state = "I"]]
        ELSE None

(* A stage that trusts the tags it read.                                   *)
AdvanceSlip(stage, change) == stage

(* A stage moves on; it is marked when its set changes on the same edge.   *)
Advance(stage, change) ==
    IF stage = None THEN None
    ELSE LET s == SetOf(stage.req.line)
             dma == ProbeDone /\ dc.pr.snp.op = "Inv" /\ dc.pr.snp.dmaWrite
         IN  [stage EXCEPT !.snap = \/ @
                                    \/ change # None /\ change.set = s
                                    \/ dma /\ SetOf(dc.lresult.line) = s]

(* The line operation reads tags and banks at its S0 edge and is complete  *)
(* two edges later.                                                        *)
LineRead ==
    LET op == dc.launch[LastStage]
    IN  IF op = None \/ InstallDone THEN None
        ELSE [kind |-> op.kind, line |-> op.line, id |-> op.id, way |-> op.way,
              row |-> dc.tag[SetOf(op.line)], lines |-> dc.data[SetOf(op.line)]]

LineResult ==
    IF dc.lread = None THEN None
    ELSE LET op == dc.lread
             ways == {w \in Way : op.row[w].state # "I" /\ op.row[w].line = op.line}
             way == IF op.kind = "Wb" THEN op.way
                    ELSE IF ways # {} THEN Max(ways) ELSE 0
         IN  [kind |-> op.kind, line |-> op.line, id |-> op.id, way |-> way,
              state |-> IF op.kind = "Probe" /\ ways # {} THEN op.row[way].state ELSE "I",
              data |-> op.lines[way]]

(* An install carries the transaction's response from its choice on.       *)
Launch(op) ==
    IF op = None \/ op.kind # "Install" THEN op
    ELSE LET m == dc.ms[op.id]
         IN  [kind |-> op.kind, line |-> op.line, id |-> op.id, way |-> op.way,
              err |-> m.err, grantE |-> m.grantE, ackE |-> m.ackE,
              atomic |-> m.atomic, refill |-> m.refill]

MshrNext(n, ds, reqFire, rsp) ==
    LET m == dc.ms[n]
        allocs == {p \in Lane : ds[p].alloc # None}
        done == InstallDone /\ dc.launch[LastStage].id = n
        gone == IF InstallDone /\ m # None /\ m.age > dc.ms[dc.launch[LastStage].id].age
                THEN 1 ELSE 0
        active == Mshrs - Cardinality(FreeMshrs)
    IN  IF allocs # {} /\ n = Min(FreeMshrs)
        THEN   LET t == ds[Min(allocs)].alloc
               IN  [st |-> IF t.victim # None THEN "WbRead" ELSE "Send",
                    line |-> t.line, getm |-> t.getm, upgrade |-> t.upgrade,
                    atomic |-> t.atomic, way |-> t.way,
                    wbId |-> IF t.victim # None THEN Min(FreePuts) ELSE None,
                    err |-> FALSE, grantE |-> FALSE, ackE |-> FALSE,
                    issued |-> FALSE, refill |-> NoData,
                    age |-> active - IF InstallDone THEN 1 ELSE 0]
        ELSE IF m = None \/ done THEN None
        ELSE IF WbDone /\ m # None /\ m.st = "WbRead" /\ m.wbId = dc.lresult.id
        THEN   [m EXCEPT !.st = "Send", !.age = @ - gone]
        ELSE IF reqFire /\ dc.sendHold = n THEN [m EXCEPT !.st = "Wait", !.age = @ - gone]
        ELSE IF rsp # None /\ rsp.op # "PutAck" /\ rsp.id = n
        THEN   [m EXCEPT !.st = "Install", !.err = rsp.err, !.grantE = rsp.op # "DataS",
                         !.ackE = rsp.op = "AckE", !.refill = rsp.data, !.age = @ - gone]
        ELSE   [m EXCEPT !.age = @ - gone,
                         !.issued = \/ @
                                    \/ /\ LineChoose # None
                                       /\ LineChoose.kind = "Install"
                                       /\ LineChoose.id = n]

PutNext(k, ds, rsp) ==
    LET b == dc.wb[k]
        allocs == {p \in Lane : ds[p].alloc # None /\ ds[p].alloc.victim # None}
    IN  IF allocs # {} /\ k = Min(FreePuts)
        THEN   LET t == ds[Min(allocs)].alloc
               IN  [st |-> "Read", line |-> t.victim.line,
                    dirty |-> t.victim.state = "M", way |-> t.way, data |-> NoData]
        ELSE IF b = None THEN None
        ELSE IF LineChoose # None /\ LineChoose.kind = "Wb" /\ LineChoose.id = k
        THEN   [b EXCEPT !.st = "ReadWait"]
        ELSE IF WbDone /\ dc.lresult.id = k
        THEN   [b EXCEPT !.st = "Send", !.data = dc.lresult.data]
        ELSE IF dc.putHold = k /\ ~ChooseProbe THEN [b EXCEPT !.st = "WaitAck"]
        ELSE IF rsp # None /\ rsp.op = "PutAck" /\ rsp.id = k THEN None
        ELSE b

SnoopNext(snp) ==
    IF dc.pr = None
    THEN   IF snp = None THEN None ELSE [st |-> "Pending", snp |-> snp, ack |-> None]
    ELSE IF LineChoose # None /\ LineChoose.kind = "Probe" THEN [dc.pr EXCEPT !.st = "ReadWait"]
    ELSE IF ProbeDone
    THEN   [dc.pr EXCEPT !.st = "Answer",
                !.ack = UpMessage(IF dc.pr.snp.op = "Inv" THEN "InvAck" ELSE "DownAck",
                                  dc.lresult.state = "M", dc.pr.snp.addr, 0,
                                  dc.lresult.data)]
    ELSE IF ChooseProbe THEN None
    ELSE dc.pr

(* The retained internal request: it leaves for PS or with an answer, or   *)
(* waits for the event its refusal names.                                  *)
InternalNext(chosen, d, wake) ==
    LET Woken(reason, mshr) ==
            CASE reason = "Mshr" -> wake.mshr = mshr
              [] reason = "MshrFull" -> wake.free
              [] reason = "WbLine" -> wake.wbFree
              [] OTHER -> FALSE
        refused == d.req # None /\ Internal(d.req) /\ d.status # "Ok"
        finished == /\ d.req # None /\ Internal(d.req)
                    /\ \/ d.status = "Error"
                       \/ d.req.src = "Store" /\ d.status # "Ok"
                       \/ d.status = "Ok" /\ (d.req.src = "Ptw" \/ d.fail)
    IN  IF finished \/ (PsWrite /\ Internal(dc.ps.req)) THEN NoWait
        ELSE IF refused
        THEN [dc.int EXCEPT !.inpipe = FALSE, !.wait = ~Woken(d.reason, d.mshr),
                            !.reason = d.reason, !.mshr = d.mshr,
                            !.err = @ \/ (d.reason = "Mshr" /\ wake.mshr = d.mshr
                                                            /\ wake.err)]
        ELSE IF chosen # None
        THEN [valid |-> TRUE, inpipe |-> TRUE, wait |-> FALSE, reason |-> "None",
              mshr |-> 0, err |-> dc.int.err, req |-> chosen]
        ELSE IF dc.int.wait
        THEN IF dc.int.reason \notin {"Mshr", "MshrFull", "WbLine"}
                \/ Woken(dc.int.reason, dc.int.mshr)
             THEN [dc.int EXCEPT !.wait = FALSE,
                      !.err = @ \/ (dc.int.reason = "Mshr" /\ wake.err)]
             ELSE dc.int
        ELSE dc.int

DataNext ==
    LET op == dc.launch[LastStage]
    IN  IF InstallDone /\ ~op.err /\ ~op.ackE
        THEN [dc.data EXCEPT ![SetOf(op.line)][op.way] = op.refill]
        ELSE IF PsWrite
        THEN [dc.data EXCEPT ![SetOf(dc.ps.req.line)][dc.ps.way][dc.ps.req.word] =
                                 dc.ps.new]
        ELSE dc.data

(* The PLRU bits: an install points away from its way, then each lane that *)
(* hit, unless the tags moved in this cycle.                               *)
PlruNext(ds) ==
    [s \in SetIdx |->
        LET touching == {p \in Lane : /\ ds[p].req # None
                                      /\ ds[p].status = "Ok"
                                      /\ ds[p].way # None
                                      /\ MutationSet = None
                                      /\ SetOf(ds[p].req.line) = s}
            op == dc.launch[LastStage]
        IN  IF touching # {} THEN Touch(ds[Max(touching)].way)
            ELSE IF InstallDone /\ ~op.err /\ SetOf(op.line) = s THEN Touch(op.way)
            ELSE dc.plru[s]]

LockedNext(ds) ==
    [s \in SetIdx |-> [w \in Way |->
        IF \E p \in Lane : /\ ds[p].alloc # None
                           /\ SetOf(ds[p].alloc.line) = s
                           /\ ds[p].alloc.way = w
        THEN TRUE
        ELSE dc.locked[s][w] /\ ~(/\ InstallDone
                                  /\ SetOf(dc.launch[LastStage].line) = s
                                  /\ dc.launch[LastStage].way = w)]]

PsNext(ds) ==
    LET lanes == {p \in Lane : ds[p].ps}
    IN  IF lanes # {}
        THEN LET d == ds[Min(lanes)]
             IN  [req |-> d.req, way |-> d.way, old |-> d.data,
                  new |-> IF d.req.src = "Amo" THEN d.data + d.req.val ELSE d.req.val]
        ELSE IF PsWrite THEN None ELSE dc.ps

(* A live atomic transaction guards its line from the install until the    *)
(* retried atomic is decided.                                              *)
LiveNext(ds) ==
    [n \in Mshr |->
        IF InstallDone /\ dc.launch[LastStage].id = n THEN FALSE
        ELSE \/ dc.live[n]
             \/ \E p \in Lane : /\ ds[p].req # None
                                /\ ds[p].req.src = "Amo"
                                /\ ds[p].status = "Miss"
                                /\ ds[p].mshr = n
                                /\ \/ dc.ms[n] # None /\ dc.ms[n].atomic
                                   \/ ds[p].alloc # None]

HoldNext(ds) ==
    IF /\ InstallDone
       /\ dc.launch[LastStage].atomic
       /\ dc.live[dc.launch[LastStage].id]
       /\ ~dc.launch[LastStage].err
    THEN dc.launch[LastStage].line
    ELSE IF \E p \in Lane : /\ ds[p].req # None
                            /\ ds[p].req.src = "Amo"
                            /\ ds[p].req.line = dc.hold
    THEN None
    ELSE dc.hold

(* One clock edge.  cpu: the core's requests in S0; ptw, ad, st: the       *)
(* internal port's; reqReady, rsp, snp: the link to the home.              *)
DcTick(cpu, ptw, ad, st, reqReady, rsp, snp) ==
    \E ds \in {Decisions}, s0 \in {StageZero(cpu)} :
    LET change == TagChange(ds)
        chosen == InternalChoose(ptw, ad, st)
        internalLane == IF ds[Ip].req # None THEN ds[Ip] ELSE NoDecision
        sends == {n \in Mshr : dc.ms[n] # None /\ dc.ms[n].st = "Send"}
        putsReady == {k \in PutSlot : dc.wb[k] # None /\ dc.wb[k].st = "Send"}
        reqFire == dc.sendHold # None /\ reqReady
        putFire == dc.putHold # None /\ ~ChooseProbe
    IN  dc' =
         [tag |-> IF change = None THEN dc.tag
                  ELSE [dc.tag EXCEPT ![change.set][change.way] = change.tag],
          data |-> DataNext, plru |-> PlruNext(ds), locked |-> LockedNext(ds),
          s1 |-> [p \in Lane |-> Advance(s0[p], change)],
          s2 |-> [p \in Lane |-> Advance(dc.s1[p], change)],
          launch |-> [l \in 1 .. Reservation |->
                        IF l = 1 THEN Launch(LineChoose) ELSE dc.launch[l - 1]],
          lread |-> LineRead, lresult |-> LineResult,
          ilaunch |-> [l \in 1 .. Reservation |->
                         IF l = 1 THEN chosen ELSE dc.ilaunch[l - 1]],
          int |-> InternalNext(chosen, internalLane, Wake(rsp)),
          ps |-> PsNext(ds),
          ms |-> [n \in Mshr |-> MshrNext(n, ds, reqFire, rsp)],
          sendHold |-> IF dc.sendHold # None THEN IF reqFire THEN None ELSE dc.sendHold
                       ELSE IF sends = {} THEN None
                       ELSE CHOOSE n \in sends :
                               \A m \in sends : dc.ms[n].age <= dc.ms[m].age,
          wb |-> [k \in PutSlot |-> PutNext(k, ds, rsp)],
          putHold |-> IF dc.putHold # None THEN IF putFire THEN None ELSE dc.putHold
                      ELSE IF putsReady = {} THEN None ELSE Min(putsReady),
          pr |-> SnoopNext(snp),
          live |-> LiveNext(ds), hold |-> HoldNext(ds)]

DcIdle ==
    /\ \A n \in Mshr : dc.ms[n] = None
    /\ \A k \in PutSlot : dc.wb[k] = None
    /\ dc.ps = None /\ ~dc.int.valid /\ dc.pr = None
    /\ \A p \in Lane : dc.s1[p] = None /\ dc.s2[p] = None
=============================================================================
