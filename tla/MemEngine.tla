----------------------------- MODULE MemEngine ------------------------------
(***************************************************************************)
(* The AXI line engine under the L2 home (l2_mem_engine.sv): one read id   *)
(* per slow slot, each assembled on its own, and write buffers that keep a *)
(* written-back line until its B response.  A read of a buffered line      *)
(* waits; AW and W are sent by one serializer.                             *)
(***************************************************************************)
EXTENDS MemTypes

CONSTANTS
    Slots,          \* slow slots of the home, each with its own read id
    WriteBuffers    \* written-back lines kept until B

VARIABLE engine

Slot == 0 .. Slots - 1
WriteBuffer == 0 .. WriteBuffers - 1

EngineInit ==
    engine = [rd    |-> [n \in Slot |-> None],
              wb    |-> [k \in WriteBuffer |-> None],
              send  |-> None,
              fatal |-> FALSE]

WbFree == \E k \in WriteBuffer : engine.wb[k] = None

(* A read that only looks at the write handed over in this cycle.          *)
RawBlockSlip(addr, push) == push # None /\ push.addr = addr

(* A read waits for B of a write to its line, also for a write being       *)
(* handed over in this very cycle.                                         *)
RawBlock(addr, push) ==
    \/ \E k \in WriteBuffer : engine.wb[k] # None /\ engine.wb[k].addr = addr
    \/ push # None /\ push.addr = addr

(* The three request channels of the AXI port.                             *)
AxiAr(read, push) ==
    IF /\ read # None
       /\ ~RawBlock(read.addr, push)
       /\ engine.rd[read.slot] = None
    THEN [id |-> read.slot, addr |-> read.addr]
    ELSE None

AxiAw ==
    IF engine.send # None /\ ~engine.send.aw
    THEN [id |-> engine.send.buf, addr |-> engine.wb[engine.send.buf].addr]
    ELSE None

AxiW ==
    IF engine.send # None /\ engine.send.beat < Words
    THEN [data |-> engine.wb[engine.send.buf].data[engine.send.beat],
          last |-> engine.send.beat = Words - 1]
    ELSE None

(* The last beat of a read hands the assembled line to its slot.           *)
ReadDone(r) ==
    IF r # None /\ r.last
    THEN LET rd == engine.rd[r.id]
         IN  [slot |-> r.id,
              data |-> [rd.data EXCEPT ![rd.beat] = r.data],
              err  |-> rd.err \/ r.err]
    ELSE None

(* One clock edge.  `read`: the slot whose read is offered; `push`: a line *)
(* handed over for writing; the rest is the AXI port's side.               *)
EngineTick(read, push, arReady, awReady, wReady, r, b) ==
    LET ar == AxiAr(read, push)
        arFire == ar # None /\ arReady
        awFire == AxiAw # None /\ awReady
        wFire == AxiW # None /\ wReady
        freeBuf == Min({k \in WriteBuffer : engine.wb[k] = None})
        unsent == {k \in WriteBuffer :
                      engine.wb[k] # None /\ ~engine.wb[k].sent}
        sendDone == /\ engine.send # None
                    /\ engine.send.aw \/ awFire
                    /\ engine.send.beat = Words \/ (wFire /\ AxiW.last)
        ReadNext(n) ==
            IF arFire /\ ar.id = n THEN [err |-> FALSE, data |-> NoData, beat |-> 0]
            ELSE IF r # None /\ r.id = n
            THEN IF r.last THEN None
                 ELSE [err  |-> engine.rd[n].err \/ r.err,
                       data |-> [engine.rd[n].data EXCEPT ![engine.rd[n].beat] = r.data],
                       beat |-> engine.rd[n].beat + 1]
            ELSE engine.rd[n]
        WbNext(k) ==
            IF push # None /\ k = freeBuf
            THEN [sent |-> FALSE, addr |-> push.addr, data |-> push.data]
            ELSE IF b # None /\ b.id = k /\ ~b.err THEN None
            ELSE IF sendDone /\ engine.send.buf = k
            THEN [engine.wb[k] EXCEPT !.sent = TRUE]
            ELSE engine.wb[k]
    IN  engine' =
          [rd    |-> [n \in Slot |-> ReadNext(n)],
           wb    |-> [k \in WriteBuffer |-> WbNext(k)],
           send  |-> IF engine.send = None
                     THEN IF unsent # {}
                          THEN [buf |-> Min(unsent), aw |-> FALSE, beat |-> 0]
                          ELSE None
                     ELSE IF sendDone THEN None
                     ELSE [engine.send EXCEPT !.aw = @ \/ awFire,
                                              !.beat = @ + IF wFire THEN 1 ELSE 0],
           fatal |-> engine.fatal \/ (b # None /\ b.err)]

EngineIdle ==
    /\ \A n \in Slot : engine.rd[n] = None
    /\ \A k \in WriteBuffer : engine.wb[k] = None
=============================================================================
