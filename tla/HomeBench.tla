----------------------------- MODULE HomeBench ------------------------------
(***************************************************************************)
(* The L2 home under the agents of mem_agents.py (class Bench): an L1D     *)
(* proxy that holds whole copies and answers probes, an I client and a DMA *)
(* client that work through scripts, the architectural memory, and the     *)
(* permissions as the channel handshakes grant them.  When a scripted      *)
(* operation starts, when the proxy answers and how long the RAM takes are *)
(* free choices; an operation waits no longer than until the bench is idle.*)
(***************************************************************************)
EXTENDS Home, AxiRam

VARIABLE hb

NoCopy == [st |-> "I", data |-> NoData]

(* script: [d: the proxy's operations, i: lines to read, dma: operations]. *)
HomeBenchInit(script) ==
    hb = [script |-> script,
          present |-> [c \in Clients |-> None],
          out |-> [c \in Clients |-> {}],
          copies |-> [l \in Lines |-> NoCopy],
          held |-> [l \in Lines |-> "I"],
          puts |-> {}, upq |-> <<>>, probe |-> None,
          arch |-> [l \in Lines |-> Initial(l)]]

(* Bench.line_busy: a transaction of the line is somewhere under way.      *)
LineBusy(h, line) ==
    \/ h.probe # None /\ h.probe.addr = line
    \/ \E t \in h.out[0] : t.line = line
    \/ \E p \in h.puts : p.line = line
    \/ \E t \in h.out[2] \cup {h.present[2]} : t # None /\ t.line = line

(* A transaction, with the values a read of its line may return.           *)
Txn(h, op, line, id, mask, data) ==
    [op |-> op, line |-> line, id |-> id, mask |-> mask, data |-> data,
     legal |-> {h.arch[line]}]

(* The golden value of a line moves, and with it what pending reads of the *)
(* line may return.                                                        *)
Written(h, line, data) ==
    LET Now(t) == IF t # None /\ t.line = line THEN [t EXCEPT !.legal = @ \cup {data}] ELSE t
    IN  [h EXCEPT !.arch[line] = data,
                  !.present = [c \in Clients |-> Now(h.present[c])],
                  !.out = [c \in Clients |-> {Now(t) : t \in h.out[c]}]]

HomeBenchIdle ==
    /\ HomeIdle /\ EngineIdle /\ RamIdle
    /\ \A c \in Clients : hb.present[c] = None /\ hb.out[c] = {}
    /\ hb.puts = {} /\ hb.upq = <<>> /\ hb.probe = None

-----------------------------------------------------------------------------
(* Driving: what each agent starts in this cycle.                          *)

(* The proxy's next operation, applied to its state; an operation whose    *)
(* line is busy or whose port is taken has to wait (None).                 *)
ProxyStep(h) ==
    LET op == Head(h.script.d)
        copy == h.copies[op.line]
        next == [h EXCEPT !.script.d = Tail(@)]
        freeId == Min({i \in 0 .. 3 : \A t \in h.out[0] : t.id # i})
    IN  IF h.script.d = <<>> THEN None
        ELSE IF LineBusy(h, op.line) THEN None
        ELSE CASE op.k = "Get" ->
                    IF copy.st \in {"E", "M"} \/ (copy.st = "S" /\ ~op.write) THEN next
                    ELSE IF h.present[0] # None THEN None
                    ELSE [next EXCEPT !.present[0] =
                            Txn(h, IF op.write THEN "GetM" ELSE "GetS", op.line, freeId, {}, NoData)]
               [] op.k = "Store" ->
                    IF copy.st \notin {"E", "M"} THEN next
                    ELSE LET data == [copy.data EXCEPT ![op.word] = op.val]
                         IN  [Written(next, op.line, data) EXCEPT
                                !.copies[op.line] = [st |-> "M", data |-> data]]
               [] op.k = "Put" ->
                    IF copy.st = "I" THEN next
                    ELSE IF \E p \in h.puts : p.id = op.id THEN None
                    ELSE [next EXCEPT
                            !.puts = @ \cup {[line |-> op.line, id |-> op.id, sent |-> FALSE]},
                            !.upq = Append(@, UpMessage("Put", copy.st = "M", op.line,
                                                        op.id, copy.data))]

(* The I client: up to four reads, none of a line a DMA write is on.       *)
FetchStep(h) ==
    LET line == Head(h.script.i)
        writes == {t \in h.out[2] \cup {h.present[2]} : t # None /\ t.op = "MaskWrite"}
        freeId == Min({i \in 0 .. 3 : \A t \in h.out[1] : t.id # i})
    IN  IF h.script.i = <<>> \/ h.present[1] # None \/ Cardinality(h.out[1]) = 4 THEN None
        ELSE IF \E t \in writes : t.line = line THEN None
        ELSE [h EXCEPT !.script.i = Tail(@),
                       !.present[1] = Txn(h, "Read", line, freeId, {}, NoData)]

(* The DMA client: one transaction, on a line nothing else is under way on *)
(* or presented: its write is golden only from its acknowledgement on.     *)
DmaStep(h) ==
    LET op == Head(h.script.dma)
        reads == {t \in h.out[1] \cup {h.present[1]} : t # None /\ t.line = op.line}
        gets == {t \in {h.present[0]} : t # None /\ t.line = op.line}
    IN  IF h.script.dma = <<>> \/ h.present[2] # None \/ h.out[2] # {} THEN None
        ELSE IF LineBusy(h, op.line) \/ gets # {} \/ (op.op = "MaskWrite" /\ reads # {})
        THEN None
        ELSE [h EXCEPT !.script.dma = Tail(@),
                       !.present[2] = Txn(h, op.op, op.line, 0, op.mask, op.data)]

(* The agents in `go` take their steps, one after the other.               *)
Driven(go) ==
    LET Take(h, step, c) == IF c \in go /\ step # None THEN step ELSE h
        h1 == Take(hb, ProxyStep(hb), 0)
        h2 == Take(h1, FetchStep(h1), 1)
    IN  Take(h2, DmaStep(h2), 2)

CanGo ==
    {c \in Clients : CASE c = 0 -> ProxyStep(hb) # None
                       [] c = 1 -> FetchStep(hb) # None
                       [] c = 2 -> DmaStep(hb) # None}

(* A received probe waits for the line's grant or PutAck, then is answered *)
(* from the copy.                                                          *)
MayAnswer(h) ==
    /\ h.probe # None
    /\ h.upq = <<>>
    /\ \A t \in h.out[0] : t.line # h.probe.addr
    /\ \A p \in h.puts : p.line # h.probe.addr

ProbeAnswer(h) ==
    LET copy == h.copies[h.probe.addr]
    IN  UpMessage(IF h.probe.op = "Inv" THEN "InvAck" ELSE "DownAck",
                  copy.st = "M", h.probe.addr, 0, copy.data)

UpWire(h, answer) ==
    IF h.upq # <<>> THEN Head(h.upq)
    ELSE IF answer /\ MayAnswer(h) THEN ProbeAnswer(h) ELSE None

-----------------------------------------------------------------------------
(* Sampling, in the order of Bench.tick: responses, then the up channel,   *)
(* then the snoop, then accepted requests.                                 *)

GrantTaken(h, rsp) ==
    IF rsp.op = "PutAck"
    THEN [h EXCEPT !.puts = {p \in @ : p.id # rsp.id}]
    ELSE LET t == CHOOSE x \in h.out[0] : x.id = rsp.id
             done == [h EXCEPT !.out[0] = @ \ {t}]
             data == IF rsp.op = "AckE" THEN h.copies[t.line].data ELSE rsp.data
         IN  IF rsp.err THEN done
             ELSE [done EXCEPT
                    !.held[t.line] = IF rsp.op = "DataS" THEN "S" ELSE "X",
                    !.copies[t.line] = [st |-> IF rsp.op = "DataS" THEN "S" ELSE "E",
                                        data |-> data]]

(* A DMA write is architecturally done when it is acknowledged.            *)
ReadTaken(h, c, rsp) ==
    LET t == CHOOSE x \in h.out[c] : x.id = rsp.id
        done == [h EXCEPT !.out[c] = @ \ {t}]
    IN  IF t.op = "MaskWrite" /\ ~rsp.err
        THEN Written(done, t.line, Merge(h.arch[t.line], t.mask, t.data))
        ELSE done

UpTaken(h, u) ==
    LET left == [h EXCEPT !.upq = IF @ = <<>> THEN @ ELSE Tail(@)]
        Gone(x) == [x EXCEPT !.held[u.addr] = "I", !.copies[u.addr] = NoCopy]
    IN  CASE u.op = "Put" ->
               [Gone(left) EXCEPT !.puts = {IF p.id = u.id THEN [p EXCEPT !.sent = TRUE]
                                            ELSE p : p \in @}]
          [] u.op = "InvAck" -> [Gone(left) EXCEPT !.probe = None]
          [] u.op = "DownAck" ->
               [left EXCEPT !.probe = None,
                            !.held[u.addr] = IF @ = "I" THEN "I" ELSE "S",
                            !.copies[u.addr] = IF h.held[u.addr] = "I" THEN @
                                               ELSE [st |-> "S", data |-> u.data]]

RequestTaken(h, c) ==
    [h EXCEPT !.out[c] = @ \cup {h.present[c]}, !.present[c] = None]

(* One cycle.  go, answer: the agents' choices; stall: the channels that   *)
(* hold back; pick: the read id the RAM answers.                           *)
HomeBenchTick(go, answer, stall, pick) ==
    \E h \in {Driven(go)} : \E up \in {UpWire(h, answer)} :
    LET req == [c \in Clients |->
                  IF h.present[c] = None THEN None
                  ELSE Request(h.present[c].op, h.present[c].line, h.present[c].id,
                               h.present[c].mask, h.present[c].data)]
        rspReady == [c \in Clients |-> c # 2 \/ "dma" \notin stall]
        snpReady == h.probe = None /\ "snp" \notin stall
        push == Effect.push
        ar == AxiAr(ReadOffer, push)
        arReady == ar # None /\ ArReady(ar, "ar" \notin stall)
        awReady == AxiAw # None /\ AwReady(AxiAw, "aw" \notin stall)
        wReady == WReady("w" \notin stall)
        r == RChannel(pick)
        b == BChannel("b" \notin stall)
        Fired(c) == ResponseOut(c) # None /\ rspReady[c]
        Accepted(c) == req[c] # None /\ RequestReady(c)
    IN  \E h1 \in {IF Fired(0) THEN GrantTaken(h, ResponseOut(0)) ELSE h} :
        \E h2 \in {IF Fired(1) THEN ReadTaken(h1, 1, ResponseOut(1)) ELSE h1} :
        \E h3 \in {IF Fired(2) THEN ReadTaken(h2, 2, ResponseOut(2)) ELSE h2} :
        \E h4 \in {IF up # None THEN UpTaken(h3, up) ELSE h3} :
        \E h5 \in {IF SnoopOut # None /\ snpReady
                   THEN [h4 EXCEPT !.probe = SnoopOut] ELSE h4} :
        \E h6 \in {IF Accepted(0) THEN RequestTaken(h5, 0) ELSE h5} :
        \E h7 \in {IF Accepted(1) THEN RequestTaken(h6, 1) ELSE h6} :
        /\ hb' = IF Accepted(2) THEN RequestTaken(h7, 2) ELSE h7
        /\ HomeTick(req, rspReady, up, snpReady, arReady, r)
        /\ EngineTick(ReadOffer, push, arReady, awReady, wReady, r, b)
        /\ RamTick(IF arReady THEN ar ELSE None, IF awReady THEN AxiAw ELSE None,
                   IF wReady THEN AxiW ELSE None, pick, r, b)
=============================================================================
