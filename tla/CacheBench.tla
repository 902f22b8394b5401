----------------------------- MODULE CacheBench -----------------------------
(***************************************************************************)
(* The L1D against the behavioural L2 of l8a_agents.py (CacheBench.tick):  *)
(* a directory that answers a Get from the permission it has recorded, a   *)
(* memory that only Puts and probe answers change, and snoops sent by      *)
(* script.  Gets and Puts are each answered in order, at any later time.   *)
(***************************************************************************)
EXTENDS CpuDriver

CONSTANTS
    Shared,         \* lines a GetS of which is granted shared
    Faulty          \* lines whose Get is answered with an error

VARIABLE cb

StubInit(snoops) ==
    cb = [script |-> snoops, gets |-> <<>>, acks |-> <<>>, sent |-> {},
          held |-> [l \in Lines |-> "I"],
          mem |-> [l \in Lines |-> Initial(l)], snp |-> None]

(* The next scripted snoop, with the owner bit the directory has.  A home  *)
(* sends none for a line whose Get it has accepted and not answered, nor   *)
(* to an L1D without a copy, and Down only to an owner: such an entry of   *)
(* the script is dropped.                                                  *)
CanSnoop ==
    /\ cb.snp = None
    /\ cb.script # <<>>
    /\ \A t \in cb.sent : t.line # Head(cb.script).addr

Snooping(go) ==
    LET q == Head(cb.script)
        owner == cb.held[q.addr] = "X"
    IN  IF ~("snp" \in go /\ CanSnoop) THEN cb
        ELSE IF cb.held[q.addr] = "I" \/ (q.op = "Down" /\ ~owner) THEN [cb EXCEPT !.script = Tail(@)]
        ELSE [cb EXCEPT !.script = Tail(@),
                        !.snp = [op |-> q.op, owner |-> owner, addr |-> q.addr,
                                 dmaWrite |-> q.dmaWrite, sent |-> FALSE]]

SnoopWire(c) ==
    IF c.snp = None \/ c.snp.sent THEN None
    ELSE [op |-> c.snp.op, owner |-> c.snp.owner, addr |-> c.snp.addr,
          dmaWrite |-> c.snp.dmaWrite]

(* The response the stub gives in this cycle.                              *)
StubResponse(which) ==
    CASE which = "Get" /\ cb.gets # <<>> -> Head(cb.gets)
      [] which = "Ack" /\ cb.acks # <<>> -> Response("PutAck", Head(cb.acks), FALSE, NoData)
      [] OTHER -> None

-----------------------------------------------------------------------------
(* Sampling, in the order of CacheBench.tick: Get, up channel, response,   *)
(* snoop.                                                                  *)

GetTaken(c, q) ==
    LET op == IF q.op = "GetM" /\ c.held[q.addr] = "S" THEN "AckE"
              ELSE IF q.op = "GetS" /\ q.addr \in Shared THEN "DataS" ELSE "DataE"
    IN  [c EXCEPT !.sent = @ \cup {[id |-> q.id, line |-> q.addr, op |-> q.op]},
                  !.gets = Append(@, Response(op, q.id, q.addr \in Faulty, c.mem[q.addr]))]

StubUp(c, u) ==
    LET written == [c EXCEPT !.mem[u.addr] = IF u.dirty THEN u.data ELSE @]
    IN  CASE u.op = "Put" ->
               [written EXCEPT !.held[u.addr] = "I", !.acks = Append(@, u.id)]
          [] u.op = "InvAck" -> [written EXCEPT !.held[u.addr] = "I", !.snp = None]
          [] u.op = "DownAck" ->
               [written EXCEPT !.held[u.addr] = IF @ = "I" THEN "I" ELSE "S", !.snp = None]

ResponseGiven(c, rsp) ==
    IF rsp.op = "PutAck" THEN [c EXCEPT !.acks = Tail(@)]
    ELSE LET t == CHOOSE x \in c.sent : x.id = rsp.id
         IN  [c EXCEPT !.gets = Tail(@), !.sent = @ \ {t},
                       !.held[t.line] = IF rsp.err THEN @
                                        ELSE IF rsp.op = "DataS" THEN "S" ELSE "X"]

(* A Get waits for the snoop of its line.                                  *)
Snooped(c, q) == q # None /\ c.snp # None /\ c.snp.addr = q.addr

(* One cycle.  go: the agents that begin an operation; stall: whether the  *)
(* stub accepts no request; which: the kind of response it gives.          *)
CacheBenchTick(go, stall, which) ==
    LET c0 == Snooping(go)
        q == L2Request
        reqReady == "req" \notin stall /\ ~Snooped(c0, q)
        rsp == StubResponse(which)
        snp == SnoopWire(c0)
        u == UpOut
        c1 == IF q # None /\ reqReady THEN GetTaken(c0, q) ELSE c0
        c2 == IF u # None THEN StubUp(c1, u) ELSE c1
        c3 == IF rsp # None THEN ResponseGiven(c2, rsp) ELSE c2
    IN  /\ cb' = IF snp # None /\ SnoopReady THEN [c3 EXCEPT !.snp.sent = TRUE] ELSE c3
        /\ DcTick(CpuWire, PortWire("ptw", go), PortWire("ad", go), PortWire("st", go),
                  reqReady, rsp, snp)
        /\ DriverTick(go, rsp)
        /\ gold' = StoredGold

CacheBenchIdle ==
    /\ DcIdle
    /\ cb.gets = <<>> /\ cb.acks = <<>> /\ cb.sent = {} /\ cb.snp = None
=============================================================================
