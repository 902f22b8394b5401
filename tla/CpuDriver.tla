----------------------------- MODULE CpuDriver ------------------------------
(***************************************************************************)
(* The cache's core side as the benches drive it (CacheBench.issue, load,  *)
(* store of l8a_agents.py, SystemBench.loads and sta): two lane agents     *)
(* that reserve their S0 slot, and agents of the store, page-walk and      *)
(* A/D-update ports.  Each works through a program; a refused operation    *)
(* waits for the event its refusal names and is issued again.  `gold` is   *)
(* the architectural memory.                                               *)
(***************************************************************************)
EXTENDS DCache

CONSTANT Together   \* may a lane enter beside a write to another line of its set

VARIABLES drv, gold

LaneAgents == <<"c0", "c1">>
CpuAgents == {"c0", "c1"}
PortAgents == {"st", "ptw", "ad"}
Agents == CpuAgents \cup PortAgents

LaneOf(a) == IF a = "c0" THEN 0 ELSE 1
AgentIdle(program) ==
    [left |-> program, st |-> "Ready", count |-> 0, reason |-> "None", mshr |-> 0]

(* programs: for each agent, the sequence of its requests.                 *)
DriverInit(programs) ==
    /\ drv = [a \in Agents |-> AgentIdle(programs[a])]
    /\ gold = [l \in Lines |-> Initial(l)]

DriverIdle == \A a \in Agents : drv[a].left = <<>>

-----------------------------------------------------------------------------
(* Wires.  `go`: the agents that begin their next operation in this cycle. *)

CanBegin(a) == drv[a].left # <<>> /\ drv[a].st = "Ready"

PortWire(a, go) ==
    IF /\ drv[a].left # <<>>
       /\ drv[a].st \in {"Ask", "Retry"} \/ (drv[a].st = "Ready" /\ a \in go)
    THEN Head(drv[a].left) ELSE None

(* A reserved request reaches S0 a fixed number of cycles later.           *)
CpuWire ==
    [p \in Lane |-> LET d == drv[LaneAgents[p + 1]]
                    IN  IF d.st = "Res" /\ d.count = 1 THEN Head(d.left) ELSE None]

PortChosen(go) ==
    InternalChoose(PortWire("ptw", go), PortWire("ad", go), PortWire("st", go))

(* The LSU reserves a lane unless a line operation, or on the last lane    *)
(* the internal port, takes the same slot.                                 *)
LaneFree(p, go) == ~FullLineBusy /\ (p = Ip => PortChosen(go) = None)

Begins(a, go) ==
    /\ drv[a].left # <<>>
    /\ drv[a].st = "Retry" \/ (drv[a].st = "Ready" /\ a \in go)
    /\ LaneFree(LaneOf(a), go)

(* The requests that will be decided beside lane agent a's: the internal   *)
(* one beside lane 0, lane 0's beside lane 1.                              *)
Beside(a, go) ==
    IF a = "c0" THEN {r \in {PortChosen(go)} : r # None}
    ELSE IF Begins("c0", go) THEN {Head(drv["c0"].left)} ELSE {}

Clashes(a, go) ==
    LET r == Head(drv[a].left)
    IN  \E q \in Beside(a, go) : /\ Writes(q) \/ Writes(r)
                                 /\ SetOf(q.line) = SetOf(r.line)
                                 /\ q.line # r.line

-----------------------------------------------------------------------------
(* The agents at the clock edge.                                           *)

WokenBy(reason, mshr, wake) ==
    CASE reason = "Mshr" -> wake.mshr = mshr
      [] reason = "MshrFull" -> wake.free
      [] reason = "WbLine" -> wake.wbFree
      [] OTHER -> TRUE

NextOp(d) == AgentIdle(Tail(d.left))

(* A store is simply tried again unless it waits for its own line.         *)
Waiting(a, d, reason, mshr, wake) ==
    IF WokenBy(reason, mshr, wake) \/ (a = "st" /\ reason # "Mshr")
    THEN IF reason = "Mshr" /\ wake.err THEN NextOp(d)
         ELSE [AgentIdle(d.left) EXCEPT !.st = "Retry"]
    ELSE [d EXCEPT !.st = "Wait", !.reason = reason, !.mshr = mshr]

(* A port holds its request until it is taken; a lane counts down from its *)
(* reservation to S0.                                                      *)
PortNext(a, go) ==
    LET ready == PortReady(PortWire(a, go), PortWire("ptw", go),
                           PortWire("ad", go), PortWire("st", go))
    IN  IF PortWire(a, go) = None THEN drv[a]
        ELSE [drv[a] EXCEPT !.st = IF ready THEN "Pipe" ELSE "Ask"]

LaneNext(a, go) ==
    LET d == drv[a]
    IN  IF d.st = "Res"
        THEN IF d.count = 1 THEN [d EXCEPT !.st = "Pipe", !.count = 0]
             ELSE [d EXCEPT !.count = @ - 1]
        ELSE IF Begins(a, go) /\ (Together \/ ~Clashes(a, go))
        THEN [d EXCEPT !.st = "Res", !.count = Reservation]
        ELSE d

AgentNext(a, go, answers, wake) ==
    LET d == drv[a]
        mine == {x \in answers : x.req.agent = a}
        x == CHOOSE y \in mine : TRUE
    IN  IF mine # {}
        THEN IF x.status \in {"Ok", "Error"} THEN NextOp(d)
             ELSE Waiting(a, d, x.reason, x.mshr, wake)
        ELSE IF d.st = "Wait" THEN Waiting(a, d, d.reason, d.mshr, wake)
        ELSE IF a \in PortAgents THEN PortNext(a, go) ELSE LaneNext(a, go)

DriverTick(go, rsp) ==
    \E answers \in {Answers(Decisions)} :
        drv' = [a \in Agents |-> AgentNext(a, go, answers, Wake(rsp))]

Golden(req) == gold[req.line][req.word]

(* The architectural memory after this cycle's cache write.                *)
StoredGold ==
    IF PsWrite THEN [gold EXCEPT ![dc.ps.req.line][dc.ps.req.word] = dc.ps.new] ELSE gold
=============================================================================
