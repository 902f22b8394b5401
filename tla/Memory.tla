------------------------------- MODULE Memory -------------------------------
(***************************************************************************)
(* The memory system in the three surroundings the repository tests it in: *)
(* the L2 home with an L1D proxy ("home"), the L1D with a behavioural L2   *)
(* ("cache"), and the two connected ("system").  A scenario fixes what the *)
(* agents do; when they do it, how the channels stall and in which order   *)
(* the memory answers is open.  One step is one clock cycle.               *)
(***************************************************************************)
EXTENDS HomeBench, CacheBench, SystemBench

CONSTANT Scenarios      \* what the agents do, see MCMemory

VARIABLE bench

homeVars == <<home, engine, ram, router>>
vars == <<bench, home, engine, ram, router, hb, dc, drv, gold, cb, sb>>

Init ==
    \E s \in Scenarios :
        /\ bench = s.bench
        /\ HomeInit /\ EngineInit /\ RamInit(s.routed) /\ DcInit
        /\ HomeBenchInit(s.proxy)
        /\ StubInit(s.snoops)
        /\ ObserverInit(s.clients)
        /\ DriverInit(s.programs)

-----------------------------------------------------------------------------
(* The choices a cycle leaves open.  Only a channel that offers something  *)
(* can stall.                                                              *)

Picks == {None} \cup {n \in Slot : ram.read[n] # None}

AxiStalls ==
    (IF ram.b # <<>> THEN {"b"} ELSE {})
    \cup (IF AxiAr(ReadOffer, Effect.push) # None THEN {"ar"} ELSE {})
    \cup (IF AxiAw # None THEN {"aw"} ELSE {})
    \cup (IF AxiW # None THEN {"w"} ELSE {})
    \cup (IF ResponseOut(2) # None THEN {"dma"} ELSE {})

Ready == {a \in Agents : CanBegin(a)}
CacheBegins == Ready \cup (IF CanSnoop THEN {"snp"} ELSE {})
SystemBegins == Ready \cup {ClientName(c) : c \in {x \in {1, 2} : CanAsk(x)}}

StubAnswers ==
    (IF cb.gets # <<>> THEN {"Get"} ELSE {}) \cup (IF cb.acks # <<>> THEN {"Ack"} ELSE {})

HomeStep ==
    /\ bench = "home"
    /\ \E go \in SUBSET CanGo, answer \in IF hb.probe = None THEN {FALSE} ELSE BOOLEAN,
          stall \in SUBSET AxiStalls, pick \in Picks :
          HomeBenchTick(go, answer, stall, pick)
    /\ UNCHANGED <<bench, dc, drv, gold, cb, sb>>

CacheStep ==
    /\ bench = "cache"
    /\ \E go \in SUBSET CacheBegins, which \in StubAnswers \cup {"None"},
          stall \in IF L2Request = None THEN {{}} ELSE SUBSET {"req"} :
          CacheBenchTick(go, stall, which)
    /\ UNCHANGED <<bench, home, engine, ram, router, hb, sb>>

SystemStep ==
    /\ bench = "system"
    /\ \E go \in SUBSET SystemBegins,
          stall \in SUBSET AxiStalls, pick \in Picks :
          SystemBenchTick(go, stall, pick)
    /\ UNCHANGED <<bench, hb, cb>>

Next == HomeStep \/ CacheStep \/ SystemStep

(* A cycle in which nothing that can move is held back.                    *)
EagerPick(pick) == pick # None \/ Picks = {None}
Eager ==
    \/ /\ bench = "home"
       /\ \E pick \in Picks : EagerPick(pick) /\ HomeBenchTick(CanGo, TRUE, {}, pick)
       /\ UNCHANGED <<bench, dc, drv, gold, cb, sb>>
    \/ /\ bench = "cache"
       /\ \E which \in IF StubAnswers = {} THEN {"None"} ELSE StubAnswers :
             CacheBenchTick(CacheBegins, {}, which)
       /\ UNCHANGED <<bench, home, engine, ram, router, hb, sb>>
    \/ /\ bench = "system"
       /\ \E pick \in Picks :
             /\ EagerPick(pick)
             /\ SystemBenchTick(SystemBegins, {}, pick)
       /\ UNCHANGED <<bench, hb, cb>>

Spec == Init /\ [][Next]_vars
FairSpec == Spec /\ WF_vars(Eager)

-----------------------------------------------------------------------------
(* What the home hands to its clients.                                     *)

(* A fill matches a Get under way and what the L1D then holds: an AckE     *)
(* upgrades a shared copy, anything else carries the line's golden value   *)
(* to an L1D without a copy, and only a line without memory is an error.   *)
GrantOk(rsp, sent, puts, held, golden) ==
    IF rsp.op = "PutAck" THEN \E p \in puts : p.id = rsp.id
    ELSE \E t \in sent :
            /\ t.id = rsp.id
            /\ rsp.err <=> t.line \in Bad
            /\ ~rsp.err => IF held[t.line] = "S"
                           THEN rsp.op = "AckE" /\ t.op = "GetM"
                           ELSE /\ rsp.op = "DataE"
                                /\ held[t.line] = "I"
                                /\ rsp.data = golden[t.line]

(* The home's responses to the L1D (Bench.tick 284-303, SystemBench.tick   *)
(* 153-168).                                                               *)
GrantsLegal ==
    LET rsp == ResponseOut(0)
    IN  rsp # None =>
          /\ bench = "home" =>
               GrantOk(rsp, hb.out[0], {p \in hb.puts : p.sent}, hb.held, hb.arch)
          /\ bench = "system" => GrantOk(rsp, sb.sent, sb.puts, sb.held, gold)

ReadOk(rsp, out) ==
    \E t \in out :
        /\ t.id = rsp.id
        /\ rsp.err <=> t.line \in Bad
        /\ rsp.op = IF t.op = "Read" THEN "ReadData" ELSE "WriteAck"
        /\ rsp.op = "ReadData" /\ ~rsp.err => rsp.data \in t.legal

(* The permission under which S2 answers a read or a masked write.         *)
AnswerSafe(held) ==
    Effect.client # 0 /\ ~Effect.rsp.err =>
        held[home.s2.work.req.addr] \in
            IF Effect.rsp.op = "ReadData" THEN {"I", "S"} ELSE {"I"}

(* The home's responses to the I client and to DMA (Bench.tick 304-323).   *)
ReadsLegal ==
    /\ \A c \in {1, 2} :
          ResponseOut(c) # None =>
              /\ bench = "home" => ReadOk(ResponseOut(c), hb.out[c])
              /\ bench = "system" => ReadOk(ResponseOut(c), sb.out[c])
    /\ Effect.rsp # None =>
          /\ bench = "home" => AnswerSafe(hb.held)
          /\ bench = "system" => AnswerSafe(sb.held)

(* Every grant, upgrade and PutAck of the home belongs to one transaction, *)
(* never makes a second owner and never carries stale data, whatever the   *)
(* order of Puts, probes, refills and write-backs.  What the I client and  *)
(* DMA read is a value the line had while the read was under way, and the  *)
(* home decides no read while the L1D owns the line and no write while it  *)
(* has a copy.  (A decided response may wait for DMA while a later grant   *)
(* passes it.)                                                             *)
ResponsesLegal == GrantsLegal /\ ReadsLegal

(* A snoop is tagged as a DMA write's exactly when one is under way on the *)
(* line, goes down only to an owner, and names the owner the L1D is        *)
(* (Bench.tick 222-223, 350-358).                                          *)
SnoopOk(snp, dma, held, probe) ==
    /\ snp.dmaWrite <=> (snp.op = "Inv" /\ \E t \in dma : t.op = "MaskWrite" /\ t.line = snp.addr)
    /\ snp.op = "Down" => snp.owner
    /\ held[snp.addr] = "X" => snp.owner
    /\ held[snp.addr] = "S" => ~snp.owner
    /\ probe = None

SnoopsLegal ==
    SnoopOut # None =>
        /\ bench = "home" => SnoopOk(SnoopOut, hb.out[2], hb.held, hb.probe)
        /\ bench = "system" => SnoopOk(SnoopOut, sb.out[2], sb.held, sb.probe)

-----------------------------------------------------------------------------
(* What the L1D does on the link and for the core.                         *)

(* The L1D's own copies.                                                   *)
CopyOf(l) == {w \in Way : dc.tag[SetOf(l)][w].state # "I" /\ dc.tag[SetOf(l)][w].line = l}
Copies ==
    [l \in Lines |->
        IF CopyOf(l) = {} THEN "I"
        ELSE IF \E w \in CopyOf(l) : dc.tag[SetOf(l)][w].state = "S" THEN "S" ELSE "X"]

AnswerOk(u, held, puts, probe) ==
    /\ u.dirty => held[u.addr] = "X" /\ u.data = gold[u.addr]
    /\ u.op = "Put" => held[u.addr] # "I" /\ u.id \notin puts
    /\ u.op # "Put" =>
         /\ probe # None
         /\ probe.addr = u.addr
         /\ u.op = IF probe.op = "Inv" THEN "InvAck" ELSE "DownAck"

GetOk(q, held, sent, putLines) ==
    /\ \A t \in sent : t.id # q.id /\ t.line # q.addr
    /\ held[q.addr] # "X"
    /\ q.op = "GetS" => held[q.addr] = "I"
    /\ q.addr \notin putLines

MessagesOk ==
    /\ UpOut # None =>
         /\ bench = "cache" => AnswerOk(UpOut, cb.held, ToSet(cb.acks), cb.snp)
         /\ bench = "system" =>
              AnswerOk(UpOut, sb.held, {p.id : p \in sb.puts}, sb.probe)
    /\ L2Request # None =>
         /\ bench = "cache" => GetOk(L2Request, cb.held, cb.sent, {})
         /\ bench = "system" =>
              GetOk(L2Request, sb.held, sb.sent, {p.line : p \in sb.puts})

(* What a channel offers and is not taken it offers again: the Get and the *)
(* snoop on the link ...                                                   *)
LinkHolds ==
    /\ L2Request # None =>
         \/ \E t \in cb'.sent \cup sb'.sent : t.id = L2Request.id
         \/ L2Request' = L2Request
    /\ SnoopOut # None => \/ hb'.probe # None \/ sb'.probe # None
                          \/ SnoopOut' = SnoopOut

(* ... AR, AW and W of the AXI port, and the response to DMA.              *)
AxiHolds ==
    /\ \A ar \in {AxiAr(ReadOffer, Effect.push)} \ {None} :
          engine'.rd[ar.id] # None \/ AxiAr(ReadOffer, Effect.push)' = ar
    /\ AxiAw # None => engine'.send = None \/ engine'.send.aw \/ AxiAw' = AxiAw
    /\ AxiW # None => \/ engine'.send = None \/ engine'.send.beat # engine.send.beat
                      \/ AxiW' = AxiW
    /\ ResponseOut(2) # None => \/ hb'.out[2] # hb.out[2] \/ sb'.out[2] # sb.out[2]
                                \/ ResponseOut(2)' = ResponseOut(2)

(* The L1D tells the load queue of a line DMA takes away in the cycle in   *)
(* which its tag becomes I.                                                *)
DmaBroadcast ==
    ProbeDone /\ dc.pr.snp.op = "Inv" /\ dc.pr.snp.dmaWrite => CopyOf(dc.pr.snp.addr)' = {}

(* The L1D's messages (CacheBench.tick 207-240, SystemBench.tick 179-208): *)
(* a dirty payload is the golden line of the owner, a Put gives up a copy  *)
(* that is held, a probe is answered once and as asked, and no line is     *)
(* asked for while the L1D owns it or its Put is unacknowledged.  No       *)
(* message changes or is withdrawn while it is stalled, and the broadcast  *)
(* of a DMA write goes with the line.                                      *)
LinkObeyed == [][MessagesOk /\ LinkHolds /\ AxiHolds /\ DmaBroadcast]_vars

(* A lane reserved at issue is still free when its request gets to S0.     *)
ReservationKept ==
    \A p \in Lane : CpuWire[p] # None => LaneReady(p)

(* Every value the cache returns to a load, a page walk, an atomic or an   *)
(* A/D update is the architectural one in the cycle it answers, and an A/D *)
(* update writes exactly when its entry still has the expected value.  No  *)
(* reserved lane is taken away on the way (SystemBench.tick 123-125), and  *)
(* nothing is answered that is not in the pipeline, or twice.              *)
LoadsExact ==
    /\ ReservationKept
    /\ \A answers \in {Answers(Decisions)} :
          /\ \A x \in answers :
                /\ drv[x.req.agent].st = "Pipe"
                /\ \A y \in answers : y.req.agent = x.req.agent => y = x
          /\ \A x \in answers :
                x.status = "Ok" /\ x.req.src \notin {"Store", "Sta"} =>
                    /\ x.data = Golden(x.req)
                    /\ x.req.src = "Ad" => (x.fail <=> x.data # x.req.expect)

-----------------------------------------------------------------------------
(* The system at rest.                                                     *)

Quiet ==
    CASE bench = "home" -> HomeBenchIdle
      [] bench = "cache" -> CacheBenchIdle
      [] bench = "system" -> SystemBenchIdle

DirEntries == {home.dir[s][w] : s \in SetIdx, w \in Way}
Directory ==
    [l \in Lines |->
        IF \E e \in DirEntries : e.valid /\ e.line = l /\ e.state = "S" THEN "S"
        ELSE IF \E e \in DirEntries : e.valid /\ e.line = l /\ e.state = "U" THEN "X"
        ELSE "I"]

(* Where the home keeps a line: its own copy or the RAM's.                 *)
HomeValue(l) ==
    LET ways == {w \in Way : home.dir[SetOf(l)][w].valid /\ home.dir[SetOf(l)][w].line = l}
    IN  IF ways = {} THEN ram.mem[l] ELSE home.data[SetOf(l)][Max(ways)]

(* The directory in every cycle: a state for the sharers, a line once.     *)
DirConsistent ==
    \A s \in SetIdx : \A w \in Way :
        /\ home.dir[s][w].state = "N" <=> ~home.dir[s][w].sharer
        /\ home.dir[s][w].valid => SetOf(home.dir[s][w].line) = s
        /\ \A v \in Way \ {w} : home.dir[s][w].valid /\ home.dir[s][v].valid =>
                                   home.dir[s][w].line # home.dir[s][v].line

(* The final readback of the proxy bench, and of the connected system.     *)
HomeAtRest ==
    /\ Directory = hb.held
    /\ \A l \in Lines : hb.arch[l] = IF hb.copies[l].st = "M" THEN hb.copies[l].data
                                     ELSE HomeValue(l)

SystemAtRest ==
    /\ Directory = sb.held /\ sb.held = Copies
    /\ \A l \in Lines :
          /\ Cardinality(CopyOf(l)) <= 1
          /\ \A w \in CopyOf(l) : dc.data[SetOf(l)][w] = gold[l]
          /\ Copies[l] # "X" => HomeValue(l) = gold[l]

(* At rest the directory, the granted permissions and the L1D's copies are *)
(* the same map, no tag is held twice, and the one place that answers for  *)
(* a line holds its golden value (Bench.finish, SystemBench.finish).       *)
DirectoryExact ==
    /\ DirConsistent
    /\ Quiet /\ bench = "home" => HomeAtRest
    /\ Quiet /\ bench = "system" => SystemAtRest

Finished ==
    /\ Quiet
    /\ DriverIdle
    /\ hb.script = [d |-> <<>>, i |-> <<>>, dma |-> <<>>]
    /\ cb.script = <<>>
    /\ sb.script = [i |-> <<>>, dma |-> <<>>]

(* Every operation the agents begin ends and the whole system comes to     *)
(* rest: no order of probes, Puts, refills, write-backs and retries leaves *)
(* a request, a credit or a waiter behind.  A write to an address without  *)
(* memory stops the machine instead.                                       *)
Drains == <>(engine.fatal \/ Finished)
=============================================================================
