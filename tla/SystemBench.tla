---------------------------- MODULE SystemBench -----------------------------
(***************************************************************************)
(* The L1D and the L2 home connected, as in the product and as             *)
(* system_agents.py runs them (SystemBench.tick): core agents on the L1D,  *)
(* an I client and a DMA client on the home, the AXI RAM or the router     *)
(* behind it, and an observer that follows the permissions by handshakes   *)
(* alone.  A DMA write is golden from the home's write of the line on, and *)
(* a core write from the cache's.                                          *)
(***************************************************************************)
EXTENDS Home, AxiRam, CpuDriver

VARIABLE sb

(* script: [i: lines to read, dma: operations].                            *)
ObserverInit(script) ==
    sb = [script |-> script, present |-> [c \in {1, 2} |-> None],
          out |-> [c \in {1, 2} |-> {}],
          sent |-> {}, puts |-> {}, held |-> [l \in Lines |-> "I"], probe |-> None]

FetchCredits == 4
ClientName(c) == IF c = 1 THEN "i" ELSE "dma"

(* The line reads of the I client and the DMA operations, as presented.    *)
CanAsk(c) ==
    CASE c = 1 -> /\ sb.script.i # <<>>
                  /\ sb.present[1] = None
                  /\ Cardinality(sb.out[1]) < FetchCredits
      [] c = 2 -> sb.script.dma # <<>> /\ sb.present[2] = None /\ sb.out[2] = {}

Asked(c, go) ==
    IF ~(ClientName(c) \in go /\ CanAsk(c)) THEN sb.present[c]
    ELSE IF c = 1
    THEN [op |-> "Read", line |-> Head(sb.script.i), mask |-> {}, data |-> NoData,
          id |-> Min({n \in 0 .. FetchCredits - 1 : \A t \in sb.out[1] : t.id # n}),
          legal |-> {gold[Head(sb.script.i)]}]
    ELSE LET op == Head(sb.script.dma)
         IN  [op |-> op.op, line |-> op.line, mask |-> op.mask, data |-> op.data,
              id |-> 0, legal |-> {gold[op.line]}]

ClientRequest(t) ==
    IF t = None THEN None ELSE Request(t.op, t.line, t.id, t.mask, t.data)

-----------------------------------------------------------------------------
(* Sampling: permissions change only at wire events, in the order of       *)
(* SystemBench.tick.                                                       *)

GrantSeen(s, rsp) ==
    IF rsp.op = "PutAck" THEN [s EXCEPT !.puts = {p \in @ : p.id # rsp.id}]
    ELSE LET t == CHOOSE x \in s.sent : x.id = rsp.id
         IN  [s EXCEPT !.sent = @ \ {t},
                       !.held[t.line] = IF rsp.err THEN @
                                        ELSE IF rsp.op = "DataS" THEN "S" ELSE "X"]

UpSeen(s, u) ==
    CASE u.op = "Put" ->
           [s EXCEPT !.held[u.addr] = "I", !.puts = @ \cup {[id |-> u.id, line |-> u.addr]}]
      [] u.op = "InvAck" -> [s EXCEPT !.held[u.addr] = "I", !.probe = None]
      [] u.op = "DownAck" ->
           [s EXCEPT !.held[u.addr] = IF @ = "I" THEN "I" ELSE "S", !.probe = None]

GetSeen(s, q) ==
    [s EXCEPT !.sent = @ \cup {[id |-> q.id, line |-> q.addr, op |-> q.op]}]

(* The architectural memory after this cycle: a core write in the cache, a *)
(* DMA write in the home.                                                  *)
DmaWrites == Effect.rsp # None /\ Effect.rsp.op = "WriteAck" /\ ~Effect.rsp.err

NextGold ==
    IF DmaWrites
    THEN LET t == home.s2.work.req
         IN  [StoredGold EXCEPT ![t.addr] = Merge(@, t.mask, t.data)]
    ELSE StoredGold

(* A pending read may return every value its line has had since it began.  *)
StillLegal(t, golden) ==
    IF t = None THEN None ELSE [t EXCEPT !.legal = @ \cup {golden[t.line]}]

(* One cycle.  go: the agents that begin an operation; stall: the channels *)
(* that hold back; pick: the read id the RAM answers.                      *)
SystemBenchTick(go, stall, pick) ==
    \E asked \in {[c \in {1, 2} |-> Asked(c, go)]}, golden \in {NextGold} :
    LET req == [c \in Clients |-> IF c = 0 THEN L2Request ELSE ClientRequest(asked[c])]
        rspReady == [c \in Clients |-> c # 2 \/ "dma" \notin stall]
        push == Effect.push
        ar == AxiAr(ReadOffer, push)
        arReady == ar # None /\ ArReady(ar, "ar" \notin stall)
        awReady == AxiAw # None /\ AwReady(AxiAw, "aw" \notin stall)
        wReady == WReady("w" \notin stall)
        r == RChannel(pick)
        b == BChannel("b" \notin stall)
        Seen(s) ==
            LET s1 == IF ResponseOut(0) # None THEN GrantSeen(s, ResponseOut(0)) ELSE s
                s2 == IF UpOut # None THEN UpSeen(s1, UpOut) ELSE s1
                s3 == IF SnoopOut # None /\ SnoopReady
                      THEN [s2 EXCEPT !.probe = SnoopOut] ELSE s2
            IN  IF L2Request # None /\ RequestReady(0) THEN GetSeen(s3, L2Request) ELSE s3
        Left(c) == IF ResponseOut(c) # None /\ rspReady[c]
                   THEN {t \in sb.out[c] : t.id # ResponseOut(c).id} ELSE sb.out[c]
        Accepted(c) == asked[c] # None /\ RequestReady(c)
    IN  /\ sb' = [Seen(sb) EXCEPT
                    !.script.i = IF "i" \in go /\ CanAsk(1) THEN Tail(@) ELSE @,
                    !.script.dma = IF "dma" \in go /\ CanAsk(2) THEN Tail(@) ELSE @,
                    !.present = [c \in {1, 2} |->
                        IF Accepted(c) THEN None ELSE StillLegal(asked[c], golden)],
                    !.out = [c \in {1, 2} |->
                        {StillLegal(t, golden) : t \in Left(c) \cup
                            (IF Accepted(c) THEN {asked[c]} ELSE {})}]]
        /\ HomeTick(req, rspReady, UpOut, SnoopReady, arReady, r)
        /\ EngineTick(ReadOffer, push, arReady, awReady, wReady, r, b)
        /\ RamTick(IF arReady THEN ar ELSE None, IF awReady THEN AxiAw ELSE None,
                   IF wReady THEN AxiW ELSE None, pick, r, b)
        /\ DcTick(CpuWire, PortWire("ptw", go), PortWire("ad", go), PortWire("st", go),
                  RequestReady(0), ResponseOut(0), SnoopOut)
        /\ DriverTick(go, ResponseOut(0))
        /\ gold' = golden

SystemBenchIdle ==
    /\ DcIdle /\ HomeIdle /\ EngineIdle /\ RamIdle
    /\ sb.sent = {} /\ sb.puts = {} /\ sb.probe = None
    /\ \A c \in {1, 2} : sb.present[c] = None /\ sb.out[c] = {}
=============================================================================
