---------------------------- MODULE ReturnModel ----------------------------
(***************************************************************************)
(* The order model of the fetch return queue                               *)
(* (sim/cocotb/fetch_return_queue/fetch_return_queue_model.py): slots,     *)
(* the program order of the live ones, and a copy of the entry on offer.   *)
(* A killed request without data stays in its slot as a zombie until its   *)
(* response frees it.                                                      *)
(***************************************************************************)
EXTENDS Integers, Sequences, FiniteSets

CONSTANTS FtqDepth, NoEntry, NoData, None

VARIABLES slots, order, output

(* What a cycle brings: a reservation, a response, the FTQ id whose        *)
(* summary is final, a consumer, a kill with the age origin, prediction    *)
(* updates.  Each is None or a record.                                     *)
Entry(id, pc) == [id |-> id, pc |-> pc, data |-> NoData, zombie |-> FALSE]

BriefEntry ==
  LET n == IF output # NoEntry THEN 2 ELSE 1
  IN IF Len(order) >= n THEN slots[order[n]] ELSE NoEntry

Refresh(i, e) == e # NoEntry /\ e.id \in i.updated

Ready(i) == i.kill = None /\ \E s \in DOMAIN slots : slots[s] = NoEntry
Deq(i)   == output # NoEntry /\ i.kill = None /\ ~Refresh(i, output)
Taken(i) == Deq(i) /\ i.deqReady

NextOutput(i) ==
  LET c == BriefEntry IN
  IF i.kill # None \/ Refresh(i, output) THEN NoEntry
  ELSE IF /\ output = NoEntry \/ Taken(i)
          /\ c # NoEntry /\ c.data # NoData
          /\ i.briefDone = c.id /\ ~Refresh(i, c)
       THEN c
  ELSE IF Taken(i) THEN NoEntry ELSE output

Age(id, head) == (id.idx - head) % FtqDepth

Killed(i, e) ==
  /\ i.kill # None
  /\ \/ i.kill.all \/ Age(e.id, i.head) > Age(i.kill.id, i.head)

(* One cycle: reserve, respond, kill, dequeue, in that order.              *)
Reserved(i) == IF i.reserve = None THEN slots
               ELSE [slots EXCEPT ![i.reserve.slot] = Entry(i.reserve.id, i.reserve.pc)]
Queued(i)   == IF i.reserve = None THEN order ELSE Append(order, i.reserve.slot)

Response(i, e) == IF e.zombie THEN NoEntry ELSE [e EXCEPT !.data = i.resp.data]
Answered(i) == IF i.resp = None THEN Reserved(i)
               ELSE [Reserved(i) EXCEPT ![i.resp.slot] = Response(i, @)]

Dead(i, s)  == /\ i.kill # None /\ s \in {Queued(i)[n] : n \in DOMAIN Queued(i)}
               /\ Killed(i, Answered(i)[s])
Remains(e)  == IF e.data = NoData THEN [e EXCEPT !.zombie = TRUE] ELSE NoEntry
Cut(i)      == [s \in DOMAIN slots |-> IF Dead(i, s) THEN Remains(Answered(i)[s])
                                       ELSE Answered(i)[s]]
Live(i)     == {n \in DOMAIN Queued(i) : ~Dead(i, Queued(i)[n])}
Kept(i)     == SubSeq(Queued(i), 1, Cardinality(Live(i)))

ReturnTick(i) ==
  /\ i.reserve # None => Ready(i) /\ slots[i.reserve.slot] = NoEntry
  /\ i.resp # None => LET e == Reserved(i)[i.resp.slot]
                      IN e # NoEntry /\ e.data = NoData /\ e.id = i.resp.id
  /\ \A n \in Live(i) : 1 .. n \subseteq Live(i)
  /\ slots' = IF Taken(i) THEN [Cut(i) EXCEPT ![Kept(i)[1]] = NoEntry] ELSE Cut(i)
  /\ order' = IF Taken(i) THEN Tail(Kept(i)) ELSE Kept(i)
  /\ output' = NextOutput(i)
=============================================================================
