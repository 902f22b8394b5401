------------------------------- MODULE AxiRam -------------------------------
(***************************************************************************)
(* The memory behind the line engine's AXI port: the RAM agent of the test *)
(* benches (Bench.tick of mem_agents.py, SystemBench.tick), which answers  *)
(* read ids in any order and applies a write when its address and all its  *)
(* beats have arrived; and, in the product, O3AxiRouter in front of it,    *)
(* which lets one read and one write through at a time and answers the     *)
(* addresses outside every region itself.                                  *)
(***************************************************************************)
EXTENDS MemEngine

CONSTANTS
    Dram,       \* lines of main_ram; the other good lines are on the low exit
    Rom,        \* low lines that may only be read
    Bad         \* lines in no region; the bare RAM answers them with an error

ASSUME AxiRamAssumption == Dram \cap (Rom \cup Bad) = {} /\ Rom \cap Bad = {}

VARIABLES
    ram,        \* the RAM agent
    router      \* the router's two machines; None: the bench's bare RAM

RouterIdle == [rd |-> [st |-> "Idle", id |-> 0, left |-> 0],
               wr |-> [st |-> "Idle", id |-> 0, left |-> 0, done |-> FALSE]]

RamInit(routed) ==
    /\ ram = [mem |-> [l \in Lines |-> Initial(l)],
              read |-> [n \in Slot |-> None],
              aw |-> <<>>, w |-> <<>>, b |-> <<>>]
    /\ router = IF routed THEN RouterIdle ELSE None

-----------------------------------------------------------------------------
(* The exit an address takes.                                              *)
ReadExit(line) ==
    IF line \in Dram THEN "Dram" ELSE IF line \notin Bad THEN "Low" ELSE "Error"
WriteExit(line) ==
    IF line \in Dram THEN "Dram" ELSE IF line \notin Bad \cup Rom THEN "Low" ELSE "Error"

(* The port's side of the handshakes.  `ready` is whether the target       *)
(* accepts, `pick` the read id whose beat the RAM offers, None for none.   *)
ArReady(ar, ready) ==
    IF router = None THEN ready
    ELSE router.rd.st = "Idle" /\ (ReadExit(ar.addr) = "Error" \/ ready)

AwReady(aw, ready) ==
    IF router = None THEN ready
    ELSE router.wr.st = "Idle" /\ (WriteExit(aw.addr) = "Error" \/ ready)

WReady(ready) ==
    IF router = None THEN ready
    ELSE CASE router.wr.st \in {"Dram", "Low"} -> ready /\ ~router.wr.done
           [] router.wr.st = "ErrorW" -> TRUE
           [] OTHER -> FALSE

RamBeat(pick) ==
    LET t == ram.read[pick]
    IN  [id |-> pick, data |-> t.data[t.beat], last |-> t.beat = Words - 1,
         err |-> t.line \in Bad /\ t.beat = 1]

RChannel(pick) ==
    IF router # None /\ router.rd.st = "Error"
    THEN [id |-> router.rd.id, data |-> 0, err |-> TRUE, last |-> router.rd.left = 1]
    ELSE IF pick = None THEN None ELSE RamBeat(pick)

BChannel(ready) ==
    IF router # None /\ router.wr.st = "ErrorB" THEN [id |-> router.wr.id, err |-> TRUE]
    ELSE IF ready /\ ram.b # <<>> THEN [id |-> Head(ram.b), err |-> FALSE]
    ELSE None

-----------------------------------------------------------------------------
(* The router's machines at the clock edge, given what fired.              *)
RouterReadNext(ar, r) ==
    CASE router.rd.st = "Idle" ->
           IF ar = None THEN router.rd
           ELSE [st |-> ReadExit(ar.addr), id |-> ar.id, left |-> Words]
      [] router.rd.st = "Error" ->
           IF router.rd.left = 1 THEN RouterIdle.rd ELSE [router.rd EXCEPT !.left = @ - 1]
      [] OTHER -> IF r # None /\ r.last THEN RouterIdle.rd ELSE router.rd

RouterWriteNext(aw, w, b) ==
    LET wr == router.wr
    IN  CASE wr.st = "Idle" ->
               IF aw = None THEN wr
               ELSE [st |-> IF WriteExit(aw.addr) = "Error" THEN "ErrorW"
                            ELSE WriteExit(aw.addr),
                     id |-> aw.id, left |-> Words, done |-> FALSE]
          [] wr.st = "ErrorW" ->
               IF w = None THEN wr
               ELSE [wr EXCEPT !.left = @ - 1,
                               !.st = IF wr.left = 1 THEN "ErrorB" ELSE @]
          [] wr.st = "ErrorB" -> RouterIdle.wr
          [] OTHER -> IF b # None THEN RouterIdle.wr
                      ELSE [wr EXCEPT !.done = @ \/ (w # None /\ w.last)]

(* What reaches the RAM: an address or a beat that the router keeps does   *)
(* not.                                                                    *)
Through(x, exit) == IF x = None \/ (router # None /\ exit = "Error") THEN None ELSE x

(* One clock edge; ar, aw, w, r, b are what fired on the port.             *)
RamTick(ar, aw, w, pick, r, b) ==
    LET arT == Through(ar, IF ar = None THEN "None" ELSE ReadExit(ar.addr))
        awT == Through(aw, IF aw = None THEN "None" ELSE WriteExit(aw.addr))
        wT == Through(w, IF router # None /\ router.wr.st = "ErrorW"
                         THEN "Error" ELSE "Dram")
        aws == IF awT = None THEN ram.aw ELSE Append(ram.aw, awT)
        ws == IF wT = None THEN ram.w ELSE Append(ram.w, wT)
        complete == aws # <<>> /\ Len(ws) >= Words
        bs == IF b # None /\ ~b.err THEN Tail(ram.b) ELSE ram.b
    IN  /\ ram' =
            [mem |-> IF complete
                     THEN [ram.mem EXCEPT ![Head(aws).addr] = [x \in Word |-> ws[x + 1].data]]
                     ELSE ram.mem,
             read |-> [n \in Slot |->
                        IF arT # None /\ arT.id = n
                        THEN [line |-> arT.addr, data |-> ram.mem[arT.addr], beat |-> 0]
                        ELSE IF pick = n
                        THEN IF ram.read[n].beat = Words - 1 THEN None
                             ELSE [ram.read[n] EXCEPT !.beat = @ + 1]
                        ELSE ram.read[n]],
             aw |-> IF complete THEN Tail(aws) ELSE aws,
             w |-> IF complete THEN SubSeq(ws, Words + 1, Len(ws)) ELSE ws,
             b |-> IF complete THEN Append(bs, Head(aws).id) ELSE bs]
        /\ router' = IF router = None THEN None
                     ELSE [rd |-> RouterReadNext(ar, r), wr |-> RouterWriteNext(aw, w, b)]

RamIdle ==
    /\ \A n \in Slot : ram.read[n] = None
    /\ ram.aw = <<>> /\ ram.w = <<>> /\ ram.b = <<>>
    /\ router \in {None, RouterIdle}
=============================================================================
