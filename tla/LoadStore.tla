----------------------------- MODULE LoadStore ------------------------------
(***************************************************************************)
(* Loads and stores between rename and the data cache: load_queue,         *)
(* store_queue, load_store_unit and the S0..S2 pipeline of the dcache with *)
(* one MSHR and one writeback buffer, for one memory pipe (mem_pipes = 1)  *)
(* and untranslated addresses (satp mode Bare).                            *)
(*                                                                         *)
(* A step is one clock cycle.  Everything that uses the cache's port is an *)
(* operation in pipe, which shifts on every edge without stalling:         *)
(*   1 RR   replay_rr_q / mem_regread     4 S1   store queue query         *)
(*   2 AG   address, queue capture        5 S2   cache decision            *)
(*   3 S0   tag and bank read, install    6 S3   queue update, PS write    *)
(* A drain is a committed store's write, an install a refill of the MSHR.  *)
(* Then a load's result waits in fifo for a writeback port and passes the  *)
(* writeback transport w1 to the ROB.                                      *)
(*                                                                         *)
(* A program gives each pc an operation; stores write their pc, so a value *)
(* names the store it comes from.  One checkpoint tag: m says that a       *)
(* record's branch mask holds it.                                          *)
(***************************************************************************)
EXTENDS Integers, Sequences, FiniteSets

CONSTANTS
  NumRob, NumLq, NumSq,
  RetireWidth,
  Fifo,       \* result reservations of the pipe (completion FIFO depth)
  Gens,       \* generations of a load queue row (2^LQ_GEN_W)
  Prog,       \* pc -> [op, line, bytes]
  Succ, Alt,  \* the next pc, and a mispredicted branch's; 0 ends the program
  Starts,     \* first pcs: one program for each
  Byte, Line,
  Ways,       \* of the one cache set the lines share
  Warm,       \* lines cached at the start
  Grants,     \* states a read miss may be granted: "S", "M" (E or M)
  MaxFlush,   \* bound: global flushes
  NoRow, NoLine

Pc == DOMAIN Prog
Op(p) == Prog[p].op

ASSUME LoadStoreSizes ==
  /\ {NumRob, NumLq, NumSq, RetireWidth, Fifo, Gens, Ways} \subseteq Nat \ {0}
  /\ RetireWidth < NumRob
  /\ Pc \subseteq Nat \ {0} /\ MaxFlush \in Nat
  /\ Prog \in [Pc -> [op : {"ld", "st", "br"}, line : Line, bytes : SUBSET Byte]]
  /\ Starts \subseteq Pc /\ Succ \in [Pc -> Pc \cup {0}] /\ Alt \in [Pc -> Pc \cup {0}]
  /\ Warm \subseteq Line /\ Cardinality(Warm) <= Ways /\ Grants \subseteq {"S", "M"}

(* A free row is no store's.                                               *)
ASSUME FreeRow ==
  NoRow \notin [pc : Nat, rob : Nat, m : BOOLEAN, exec : BOOLEAN, committed : BOOLEAN,
                ready : BOOLEAN, wait : BOOLEAN]

VARIABLES
  rob, head, fetch,        \* the ROB window, oldest first; next pc to rename
  lq, lqGen, lqHead, lqTail,
  sq, sqHead, sqTail, sqCount,
  ck,                      \* queue tails saved by the branch's checkpoint
  dc,                      \* the drain's dc_inflight_q, dc_wait_q with its reason
  pipe, fifo, w1,
  mem, cached, mshr, wb,   \* memory as the cache sees it; tag states; one MSHR; one WB slot
  flushes

vars == <<rob, head, fetch, lq, lqGen, lqHead, lqTail, sq, sqHead, sqTail, sqCount,
          ck, dc, pipe, fifo, w1, mem, cached, mshr, wb, flushes>>

Reasons == {"none", "mshr", "full", "wb", "sq", "retry"}
Bubble == [op |-> "none", pc |-> 0, rob |-> 0, q |-> 0, gen |-> 0, m |-> FALSE,
           why |-> "none", snap |-> FALSE, conf |-> FALSE, tag |-> "I", val |-> <<>>,
           dec |-> "none"]

Index(k)    == (head + k - 1) % NumRob
Dist(r)     == (r + NumRob - head) % NumRob
LqAge(n)    == (n + NumLq - lqHead) % NumLq
SqAge(n)    == (n + NumSq - sqHead) % NumSq
LqRows      == {n \in 0 .. NumLq - 1 : lq[n] # NoRow}
SqRows      == {n \in 0 .. NumSq - 1 : sq[n] # NoRow}
OldestOf(S, age(_)) == CHOOSE n \in S : \A x \in S : age(n) <= age(x)
YoungestOf(S, age(_)) == CHOOSE n \in S : \A x \in S : age(x) <= age(n)

(* The unresolved branch, if any: one checkpoint.                          *)
OpenBranch  == {k \in DOMAIN rob : Op(rob[k].pc) = "br" /\ ~rob[k].done}
InPipe(S, K) == \E k \in K : pipe[k].op \in S

Killed(m, i) == i.flush \/ (i.res = "miss" /\ m)
Clean(m, i)  == m /\ i.res = "none"

-----------------------------------------------------------------------------
(***************************************************************************)
(* The cache in this cycle.                                                *)
(***************************************************************************)
LineOf(o) == Prog[o.pc].line

(* Store write of a drain that was accepted in S2 (ps_write), and refill.  *)
PsWrite == pipe[6].op = "drain"
Install == pipe[3].op = "install"

(* external_mutation: all lines share a set.                               *)
Mutation == PsWrite \/ Install

Locked(l)    == mshr # NoLine /\ mshr.line = l
NeedVictim   == Cardinality({l \in Line : cached[l] # "I"}) >= Ways
Upgrade(o)   == o.tag = "S" /\ ~Locked(LineOf(o))
CanAlloc(o)  == mshr = NoLine /\ ~Mutation /\ (NeedVictim /\ ~Upgrade(o) => wb = NoLine)

(* What S2 answers when the line is not there in the state it needs.       *)
Missed(o) ==
  IF Locked(LineOf(o)) THEN "mshr"
  ELSE IF wb = LineOf(o) THEN "wb"
  ELSE IF CanAlloc(o) THEN "mshr"
  ELSE IF Mutation THEN "retry"
  ELSE IF NeedVictim /\ ~Upgrade(o) /\ wb # NoLine THEN "wb"
  ELSE "full"

Decision(o) ==
  IF o.op \in {"ld", "st", "drain"} /\ (o.snap \/ Mutation) THEN "retry"
  ELSE CASE o.op = "st" -> "ok"
         [] o.op = "ld" -> IF o.conf THEN "retry"
                           ELSE IF o.dec = "block" THEN "sq"
                           ELSE IF o.dec = "fwd" \/ (o.tag # "I" /\ ~Locked(LineOf(o))) THEN "ok"
                           ELSE Missed(o)
         [] o.op = "drain" -> IF o.tag = "M" /\ ~Locked(LineOf(o)) THEN "ok" ELSE Missed(o)
         [] OTHER -> "none"

(* S2 allocates the MSHR; a full set loses a line to the writeback slot.   *)
Allocates(i) ==
  /\ pipe[5].op \in {"ld", "drain"} /\ ~(pipe[5].op = "ld" /\ Killed(pipe[5].m, i))
  /\ Decision(pipe[5]) = "mshr" /\ mshr = NoLine
Evicts(i)    == Allocates(i) /\ NeedVictim /\ ~Upgrade(pipe[5])
TagChange(i) == Mutation \/ Evicts(i)

-----------------------------------------------------------------------------
(***************************************************************************)
(* Store queue query of the load in S1.                                    *)
(***************************************************************************)
Older(o) == {n \in SqRows : sq[n].committed \/ Dist(sq[n].rob) < Dist(o.rob)}
Overlaps(o) == {n \in Older(o) : /\ sq[n].exec /\ Prog[sq[n].pc].line = LineOf(o)
                                 /\ Prog[sq[n].pc].bytes \cap Prog[o.pc].bytes # {}}

(* Slip: a partly covering store does not hold the load back.              *)
BlockedUnknownOnly(o) == \E n \in Older(o) : ~sq[n].exec
Blocked(o) ==
  \/ \E n \in Older(o) : ~sq[n].exec
  \/ /\ Overlaps(o) # {}
     /\ ~(Prog[o.pc].bytes \subseteq Prog[sq[YoungestOf(Overlaps(o), SqAge)].pc].bytes)

Query(o) ==
  IF Blocked(o) THEN [o EXCEPT !.dec = "block"]
  ELSE IF Overlaps(o) = {} THEN o
  ELSE [o EXCEPT !.dec = "fwd",
                 !.val = [b \in DOMAIN @ |-> sq[YoungestOf(Overlaps(o), SqAge)].pc]]

-----------------------------------------------------------------------------
(***************************************************************************)
(* Entry of the pipe.                                                      *)
(***************************************************************************)

(* A refill takes a port slot that no line operation or drain is near.     *)
CanInstall == mshr # NoLine /\ ~InPipe({"install"}, 1 .. 5) /\ ~InPipe({"drain"}, 1 .. 6)

DrainReq == /\ sq[sqHead] # NoRow /\ sq[sqHead].committed /\ sq[sqHead].exec
            /\ ~dc.busy /\ dc.wait = "none"
DrainFire(i) == DrainReq /\ i.install = "none" /\ ~InPipe({"drain"}, 1 .. 6)

(* Slip: the reservation forgets the operations behind AG.                 *)
InflightToAg == Cardinality({k \in 1 .. 2 : pipe[k].op \in {"ld", "st"}})
Inflight == Cardinality({k \in 1 .. 6 : pipe[k].op \in {"ld", "st"}})

Available(i) ==
  /\ Len(fifo) + Inflight < Fifo
  /\ i.install = "none" /\ ~DrainFire(i)
  /\ ~i.flush /\ i.res # "miss"

LqReady == {n \in LqRows : lq[n].ready}
SqReady == {n \in SqRows : sq[n].ready /\ ~sq[n].committed}
LqReplay(i) == Available(i) /\ LqReady # {}
SqReplay(i) == Available(i) /\ LqReady = {} /\ SqReady # {}
Issues(i)   == Available(i) /\ LqReady = {} /\ SqReady = {} /\ i.issue # 0

(* A replay record is the row as it stands: neither its mask nor its wait  *)
(* reason is updated on this edge.                                         *)
Entering(i) ==
  IF i.install # "none" THEN [Bubble EXCEPT !.op = "install", !.tag = i.install]
  ELSE IF DrainFire(i) THEN [Bubble EXCEPT !.op = "drain", !.pc = sq[sqHead].pc, !.q = sqHead]
  ELSE IF LqReplay(i) THEN
    LET n == OldestOf(LqReady, LqAge)
    IN  [Bubble EXCEPT !.op = "ld", !.pc = lq[n].pc, !.rob = lq[n].rob, !.q = n,
                       !.m = lq[n].m, !.why = lq[n].why]
  ELSE IF SqReplay(i) THEN
    LET n == OldestOf(SqReady, SqAge)
    IN  [Bubble EXCEPT !.op = "st", !.pc = sq[n].pc, !.rob = sq[n].rob, !.q = n, !.m = sq[n].m]
  ELSE IF Issues(i) THEN
    [Bubble EXCEPT !.op = Op(rob[i.issue].pc), !.pc = rob[i.issue].pc,
                   !.rob = Index(i.issue), !.q = rob[i.issue].q,
                   !.m = Clean(rob[i.issue].m, i)]
  ELSE Bubble

(* Store-word hazard of a load in S0; a word is a line here.               *)
Conflict(o) == /\ o.op = "ld"
               /\ \E k \in 4 .. 6 : /\ pipe[k].op \in (IF k = 6 THEN {"drain"} ELSE {"st", "drain"})
                                    /\ LineOf(pipe[k]) = LineOf(o)

(* What a stage does to the operation that leaves it.                      *)
Stage(k, o, i) ==
  CASE k = 2 /\ o.op = "ld" -> [o EXCEPT !.gen = lqGen[o.q], !.why = "none"]
    [] k = 3 /\ o.op \in {"ld", "st", "drain"} ->
         [o EXCEPT !.snap = TagChange(i), !.conf = Conflict(o), !.tag = cached[LineOf(o)],
                   !.val = IF o.op = "ld" THEN [b \in Prog[o.pc].bytes |-> mem[LineOf(o)][b]]
                           ELSE @]
    [] k = 4 /\ o.op \in {"ld", "st", "drain"} ->
         [(IF o.op = "ld" THEN Query(o) ELSE o) EXCEPT !.snap = @ \/ TagChange(i)]
    [] k = 5 /\ o.op \in {"ld", "st"} ->
         [o EXCEPT !.dec = Decision(o), !.snap = FALSE, !.conf = FALSE, !.tag = "I",
                   !.val = IF Decision(o) = "ok" THEN @ ELSE <<>>]
    [] k = 5 /\ o.op = "drain" ->
         IF Decision(o) = "ok" THEN [o EXCEPT !.snap = FALSE, !.tag = "I"] ELSE Bubble
    [] k = 5 /\ o.op \in {"none", "install"} -> Bubble
    [] OTHER -> o

(* Slip: an operation leaves S2 although a mispredict kills it.            *)
LeavesUnkilled(k, i) ==
  IF k # 5 /\ pipe[k].op \in {"ld", "st"} /\ Killed(pipe[k].m, i) THEN Bubble
  ELSE [Stage(k, pipe[k], i) EXCEPT !.m = Clean(@, i)]
Leaves(k, i) ==
  IF pipe[k].op \in {"ld", "st"} /\ Killed(pipe[k].m, i) THEN Bubble
  ELSE [Stage(k, pipe[k], i) EXCEPT !.m = Clean(@, i)]

Pipeline(i) ==
  pipe' = [k \in 1 .. 6 |-> IF k = 1 THEN Entering(i) ELSE Leaves(k - 1, i)]

-----------------------------------------------------------------------------
(***************************************************************************)
(* S3, results and wakes.                                                  *)
(***************************************************************************)
LoadDone(i)  == pipe[6].op = "ld" /\ ~Killed(pipe[6].m, i)
StoreDone(i) == pipe[6].op = "st" /\ ~Killed(pipe[6].m, i)
Executes(i)  == StoreDone(i) /\ pipe[6].dec = "ok"
DrainRetry   == pipe[5].op = "drain" /\ Decision(pipe[5]) # "ok"

(* backend.sv, sq_changed: a drain response, a resolution, an execution.   *)
SqChanged(i) == PsWrite \/ DrainRetry \/ i.res # "none" \/ Executes(i)

(* Slip: an install wakes nobody.                                          *)
WakesNotByLine(why, i) ==
  \/ why = "wb" /\ i.ack
  \/ why = "sq" /\ SqChanged(i)

(* One MSHR: its install is the wake of its waiters and of mshr_free.      *)
Wakes(why, i) ==
  \/ why \in {"mshr", "full"} /\ Install
  \/ why = "wb" /\ i.ack
  \/ why = "sq" /\ SqChanged(i)

(* Results leave the FIFO when killed, or when a writeback port takes one. *)
ResultKilled(r, i) == ~r.ok \/ Killed(r.m, i)
Pops(i) == fifo # <<>> /\ (ResultKilled(fifo[1], i) \/ i.pop)
Pushed(i) ==
  IF LoadDone(i) /\ pipe[6].dec = "ok"
    THEN <<[ok |-> TRUE, pc |-> pipe[6].pc, rob |-> pipe[6].rob,
            m |-> Clean(pipe[6].m, i), val |-> pipe[6].val]>>
    ELSE <<>>
Results(i) ==
  /\ fifo' = IF i.flush THEN <<>>
             ELSE LET kept == IF Pops(i) THEN Tail(fifo) ELSE fifo
                  IN  [k \in DOMAIN kept |->
                         [kept[k] EXCEPT !.ok = @ /\ ~Killed(kept[k].m, i),
                                         !.m = Clean(@, i)]] \o Pushed(i)
  /\ w1' = IF Pops(i) /\ ~ResultKilled(fifo[1], i)
             THEN [fifo[1] EXCEPT !.m = Clean(@, i)] ELSE NoRow

-----------------------------------------------------------------------------
(***************************************************************************)
(* Rename, retirement and the ROB.                                         *)
(***************************************************************************)
Recovers(i) == i.flush \/ i.res = "miss"

Retired(i) ==
  IF Recovers(i) THEN 0
  ELSE CHOOSE n \in 0 .. RetireWidth :
         /\ n <= Len(rob) /\ \A k \in 1 .. n : rob[k].done
         /\ n = RetireWidth \/ n = Len(rob) \/ ~rob[n + 1].done
RetiredOf(op, i) == Cardinality({k \in 1 .. Retired(i) : Op(rob[k].pc) = op})

Allocs(i, op) == i.alloc /\ Op(fetch) = op
NewMask(i) == OpenBranch # {} /\ i.res = "none"
NewEntry(i) ==
  [pc |-> fetch, m |-> NewMask(i), iss |-> FALSE, done |-> FALSE, val |-> <<>>,
   q |-> CASE Op(fetch) = "ld" -> lqTail [] Op(fetch) = "st" -> sqTail [] OTHER -> 0]

(* Completion ports name a ROB index and nothing else.                     *)
Completed(i, r, e) ==
  LET byResult == w1 # NoRow /\ ~Killed(w1.m, i) /\ w1.rob = r
      byStore  == Executes(i) /\ pipe[6].rob = r
      byBranch == i.res # "none" /\ Op(e.pc) = "br"
  IN  [e EXCEPT !.done = @ \/ byResult \/ byStore \/ byBranch,
                !.val = IF byResult THEN w1.val ELSE @, !.m = Clean(@, i)]

(* Recovery counts the entries without the tag; the window keeps as many.  *)
Survivors(i) == {k \in DOMAIN rob : ~Killed(rob[k].m, i)}

Rob(i) ==
  LET live == SubSeq(rob, 1, Cardinality(Survivors(i)))
      old  == [k \in DOMAIN live |-> IF Issues(i) /\ k = i.issue
                                       THEN [live[k] EXCEPT !.iss = TRUE] ELSE live[k]]
      all  == IF i.alloc THEN Append(old, NewEntry(i)) ELSE old
      done == [k \in DOMAIN all |-> Completed(i, Index(k), all[k])]
  IN  /\ rob' = IF i.flush THEN <<>> ELSE SubSeq(done, Retired(i) + 1, Len(done))
      /\ head' = IF i.flush THEN 0 ELSE (head + Retired(i)) % NumRob
      /\ fetch' = IF i.flush THEN (IF rob = <<>> THEN fetch ELSE rob[1].pc)
                  ELSE IF i.res = "miss" THEN Alt[rob[CHOOSE k \in OpenBranch : TRUE].pc]
                  ELSE IF i.alloc THEN Succ[fetch] ELSE fetch
      /\ ck' = IF i.alloc /\ Op(fetch) = "br" THEN [lq |-> lqTail, sq |-> sqTail] ELSE ck

-----------------------------------------------------------------------------
(***************************************************************************)
(* Load queue.                                                             *)
(***************************************************************************)

Updated(r, i) ==
  [r EXCEPT !.why = IF pipe[6].dec = "ok" THEN "none" ELSE pipe[6].dec,
            !.exec = pipe[6].dec = "ok",
            !.ready = pipe[6].dec = "retry" \/ Wakes(pipe[6].dec, i)]

(* The wake, the replay, the capture from AG and the update from S3, in    *)
(* the order in which the always block lets them overwrite each other.     *)
LqRow(n, i) ==
  LET woken    == [lq[n] EXCEPT !.m = Clean(@, i), !.ready = @ \/ Wakes(lq[n].why, i)]
      replayed == IF LqReplay(i) /\ n = OldestOf(LqReady, LqAge)
                    THEN [woken EXCEPT !.ready = FALSE, !.why = "none"] ELSE woken
      o        == pipe[2]
      captured == IF o.op = "ld" /\ o.q = n /\ ~Killed(o.m, i)
                    THEN [replayed EXCEPT !.pc = o.pc, !.rob = o.rob, !.m = Clean(o.m, i),
                                          !.why = o.why, !.ready = FALSE]
                    ELSE replayed
  IN  IF LoadDone(i) /\ pipe[6].q = n /\ pipe[6].gen = lqGen[n]
        THEN Updated(captured, i) ELSE captured

(* Slip: a row is released for every retired instruction.                  *)
LqReleasedByAll(i) == {(lqHead + k) % NumLq : k \in 0 .. Retired(i) - 1}
LqReleased(i) == {(lqHead + k) % NumLq : k \in 0 .. RetiredOf("ld", i) - 1}

LoadQueue(i) ==
  LET new(n) == Allocs(i, "ld") /\ n = lqTail
  IN  /\ lq' = [n \in 0 .. NumLq - 1 |->
                  IF new(n) THEN [pc |-> 0, rob |-> Index(Len(rob) + 1), m |-> NewMask(i),
                                  ready |-> FALSE, exec |-> FALSE, why |-> "none"]
                  ELSE IF lq[n] = NoRow \/ n \in LqReleased(i) \/ Killed(lq[n].m, i) THEN NoRow
                  ELSE LqRow(n, i)]
      /\ lqGen' = [n \in 0 .. NumLq - 1 |-> IF new(n) THEN (lqGen[n] + 1) % Gens ELSE lqGen[n]]
      /\ lqHead' = IF i.flush THEN 0 ELSE (lqHead + RetiredOf("ld", i)) % NumLq
      /\ lqTail' = IF i.flush THEN 0
                   ELSE IF i.res = "miss" THEN ck.lq
                   ELSE IF Allocs(i, "ld") THEN (lqTail + 1) % NumLq ELSE lqTail

-----------------------------------------------------------------------------
(***************************************************************************)
(* Store queue and drain.                                                  *)
(***************************************************************************)
SqCommitted(i) == {rob[k].q : k \in {j \in 1 .. Retired(i) : Op(rob[j].pc) = "st"}}

SqRow(n, i) ==
  LET woken    == [sq[n] EXCEPT !.m = Clean(@, i) /\ ~i.flush, !.ready = @ \/ sq[n].wait,
                                !.committed = @ \/ n \in SqCommitted(i)]
      replayed == IF SqReplay(i) /\ n = OldestOf(SqReady, SqAge)
                    THEN [woken EXCEPT !.ready = FALSE, !.wait = FALSE] ELSE woken
  IN  IF i.flush THEN [woken EXCEPT !.ready = FALSE, !.wait = FALSE]
      ELSE IF StoreDone(i) /\ pipe[6].q = n
        THEN [replayed EXCEPT !.wait = pipe[6].dec = "retry", !.ready = pipe[6].dec = "retry",
                              !.exec = @ \/ pipe[6].dec = "ok"]
      ELSE replayed

(* Slip: a flush removes committed stores too.                             *)
SqKeepsNone(n, i) == sq[n] # NoRow /\ ~Killed(sq[n].m, i)
SqKeeps(n, i) ==
  sq[n] # NoRow /\ IF i.flush THEN sq[n].committed ELSE ~(Killed(sq[n].m, i) /\ ~sq[n].committed)
Kept(i) == Cardinality({n \in SqRows : SqKeeps(n, i)})

(* Slip: recovery leaves the tail behind the wrong path.                   *)
SqTailKept(i) == IF i.flush THEN (sqHead + Kept(i)) % NumSq
                 ELSE IF Allocs(i, "st") THEN (sqTail + 1) % NumSq ELSE sqTail
SqTail(i) == IF i.flush THEN (sqHead + Kept(i)) % NumSq
             ELSE IF i.res = "miss" THEN ck.sq
             ELSE IF Allocs(i, "st") THEN (sqTail + 1) % NumSq ELSE sqTail

StoreQueue(i) ==
  /\ sq' = [n \in 0 .. NumSq - 1 |->
              IF Allocs(i, "st") /\ n = sqTail
                THEN [pc |-> fetch, rob |-> Index(Len(rob) + 1), m |-> NewMask(i), exec |-> FALSE,
                      committed |-> FALSE, ready |-> FALSE, wait |-> FALSE]
              ELSE IF ~SqKeeps(n, i) \/ (PsWrite /\ n = sqHead) THEN NoRow
              ELSE SqRow(n, i)]
  /\ sqHead' = IF PsWrite THEN (sqHead + 1) % NumSq ELSE sqHead
  /\ sqTail' = SqTail(i)
  /\ sqCount' = (IF Recovers(i) THEN Kept(i) ELSE sqCount)
                + (IF Allocs(i, "st") THEN 1 ELSE 0) - (IF PsWrite THEN 1 ELSE 0)

Drain(i) ==
  dc' = [busy |-> DrainFire(i) \/ (dc.busy /\ ~PsWrite /\ ~DrainRetry),
         wait |-> IF DrainRetry
                    THEN (IF Wakes(Decision(pipe[5]), i) THEN "none" ELSE Decision(pipe[5]))
                  ELSE IF dc.wait = "retry" \/ Wakes(dc.wait, i) THEN "none" ELSE dc.wait]

-----------------------------------------------------------------------------
(* Tags, refills, evictions and the store write.                           *)
Cache(i) ==
  /\ mem' = IF PsWrite
              THEN [mem EXCEPT ![LineOf(pipe[6])] =
                      [b \in Byte |-> IF b \in Prog[pipe[6].pc].bytes THEN pipe[6].pc ELSE @[b]]]
              ELSE mem
  /\ mshr' = IF Allocates(i) THEN [line |-> LineOf(pipe[5]), getm |-> pipe[5].op = "drain"]
             ELSE IF Install THEN NoLine ELSE mshr
  /\ cached' = [l \in Line |->
                  IF Install /\ mshr.line = l THEN (IF mshr.getm THEN "M" ELSE pipe[3].tag)
                  ELSE IF Evicts(i) /\ l = i.victim THEN "I" ELSE cached[l]]
  /\ wb' = IF Evicts(i) THEN i.victim ELSE IF i.ack THEN NoLine ELSE wb

-----------------------------------------------------------------------------
(***************************************************************************)
(* What the rest of the core and the memory do in a cycle.                 *)
(***************************************************************************)
Room == /\ fetch # 0 /\ Len(rob) < NumRob
        /\ CASE Op(fetch) = "ld" -> Cardinality(LqRows) < NumLq
             [] Op(fetch) = "st" -> sqCount < NumSq
             [] OTHER -> OpenBranch = {}

Inputs ==
  [flush   : IF flushes < MaxFlush THEN BOOLEAN ELSE {FALSE},
   res     : {"none"} \cup (IF OpenBranch = {} THEN {} ELSE {"ok", "miss"}),
   alloc   : IF Room THEN BOOLEAN ELSE {FALSE},
   issue   : {0} \cup {k \in DOMAIN rob : Op(rob[k].pc) # "br" /\ ~rob[k].iss},
   install : {"none"} \cup (IF ~CanInstall THEN {} ELSE IF mshr.getm THEN {"M"} ELSE Grants),
   ack     : IF wb # NoLine THEN BOOLEAN ELSE {FALSE},
   victim  : IF pipe[5].op \in {"ld", "drain"} /\ NeedVictim /\ wb = NoLine
               THEN {l \in Line : cached[l] # "I"} ELSE {NoLine},
   pop     : IF fifo # <<>> THEN BOOLEAN ELSE {FALSE}]

Sensible(i) ==
  /\ Recovers(i) => ~i.alloc
  /\ i.flush => i.res = "none"
  /\ i.issue # 0 => Issues(i)

Init ==
  /\ rob = <<>> /\ head = 0 /\ fetch \in Starts
  /\ lq = [n \in 0 .. NumLq - 1 |-> NoRow] /\ lqGen = [n \in 0 .. NumLq - 1 |-> 0]
  /\ lqHead = 0 /\ lqTail = 0
  /\ sq = [n \in 0 .. NumSq - 1 |-> NoRow] /\ sqHead = 0 /\ sqTail = 0 /\ sqCount = 0
  /\ ck = [lq |-> 0, sq |-> 0] /\ dc = [busy |-> FALSE, wait |-> "none"]
  /\ pipe = [k \in 1 .. 6 |-> Bubble] /\ fifo = <<>> /\ w1 = NoRow
  /\ mem = [l \in Line |-> [b \in Byte |-> 0]]
  /\ cached = [l \in Line |-> IF l \in Warm THEN "M" ELSE "I"]
  /\ mshr = NoLine /\ wb = NoLine /\ flushes = 0

Cycle(i) ==
  /\ Sensible(i)
  /\ flushes' = IF i.flush THEN flushes + 1 ELSE flushes
  /\ Cache(i) /\ Results(i) /\ Rob(i) /\ Pipeline(i)
  /\ LoadQueue(i) /\ StoreQueue(i) /\ Drain(i)

Next == \E i \in Inputs : Cycle(i)

Spec == Init /\ [][Next]_vars

(* The clock ticks; rename, issue, branch execution, refills, writeback    *)
(* acknowledgements and writeback ports come when they are waited for.     *)
FairSpec ==
  /\ Spec
  /\ WF_vars(Next)
  /\ WF_vars(\E i \in Inputs : i.alloc /\ Cycle(i))
  /\ WF_vars(\E i \in Inputs : i.issue # 0 /\ Cycle(i))
  /\ WF_vars(\E i \in Inputs : i.res # "none" /\ Cycle(i))
  /\ WF_vars(\E i \in Inputs : i.install # "none" /\ Cycle(i))
  /\ WF_vars(\E i \in Inputs : i.ack /\ Cycle(i))
  /\ WF_vars(\E i \in Inputs : i.pop /\ Cycle(i))

-----------------------------------------------------------------------------
(***************************************************************************)
(* Properties.                                                             *)
(***************************************************************************)

(* Registers hold values of their types; the result FIFO never overflows   *)
(* (load_store_unit asserts a free slot on every push): an operation is    *)
(* admitted only with a reservation for its result.                        *)
LsTypeOK ==
  /\ Len(rob) <= NumRob /\ head \in 0 .. NumRob - 1 /\ fetch \in Pc \cup {0}
  /\ lqHead \in 0 .. NumLq - 1 /\ lqTail \in 0 .. NumLq - 1
  /\ sqHead \in 0 .. NumSq - 1 /\ sqTail \in 0 .. NumSq - 1 /\ sqCount \in 0 .. NumSq
  /\ dc \in [busy : BOOLEAN, wait : Reasons \ {"sq"}]
  /\ \A n \in LqRows : lq[n].why \in Reasons /\ lq[n].rob \in 0 .. NumRob - 1
  /\ \A l \in Line : cached[l] \in {"I", "S", "M"}
  /\ Len(fifo) <= Fifo

LastIn(S, s) == IF S = {} THEN 0 ELSE s[CHOOSE k \in S : \A j \in S : j <= k]
(* Memory after the stores among the pcs in s.                             *)
Overlay(s) ==
  [l \in Line |-> [b \in Byte |->
     LET ws == {k \in DOMAIN s : Op(s[k]) = "st" /\ Prog[s[k]].line = l /\ b \in Prog[s[k]].bytes}
     IN  IF ws = {} THEN mem[l][b] ELSE LastIn(ws, s)]]
PcsOf(s) == [k \in DOMAIN s |-> s[k].pc]
CommittedCount == Cardinality({n \in SqRows : sq[n].committed})
Draining == [k \in 1 .. CommittedCount |-> sq[(sqHead + k - 1) % NumSq].pc]
Visible  == Overlay(Draining)
PcsBefore(k) == PcsOf(SubSeq(rob, 1, k - 1))

(* A completed load holds what the program order says: the bytes of the    *)
(* youngest older stores, committed, in the queue or already in the cache, *)
(* however query, forwarding, drain and cache pipeline overlapped.         *)
LoadValueInOrder ==
  \A k \in DOMAIN rob : Op(rob[k].pc) = "ld" /\ rob[k].done =>
    rob[k].val = [b \in Prog[rob[k].pc].bytes |->
                    Overlay(Draining \o PcsBefore(k))[Prog[rob[k].pc].line][b]]

(* What memory shows to an observer behind the store queue changes only by *)
(* retiring stores, each once and in order: recovery neither drops a       *)
(* committed store nor lets one drain twice.                               *)
StoresOnce ==
  [][LET n == IF flushes' # flushes THEN 0 ELSE (head' + NumRob - head) % NumRob
     IN  Visible' = Overlay(Draining \o PcsBefore(n + 1))]_vars

OfKind(op) == {k \in DOMAIN rob : Op(rob[k].pc) = op}
NumBefore(S, k) == Cardinality({j \in S : j < k})

(* The load ring is the loads of the ROB in program order, and the tail is *)
(* behind them, whatever replays, captures, partial kills and releases     *)
(* write the rows.                                                         *)
LoadsFollowRob ==
  LET loads == OfKind("ld") IN
  /\ Cardinality(LqRows) = Cardinality(loads)
  /\ lqTail = (lqHead + Cardinality(loads)) % NumLq
  /\ \A k \in loads :
       LET n == (lqHead + NumBefore(loads, k)) % NumLq
       IN  lq[n] # NoRow /\ lq[n].rob = Index(k) /\ rob[k].q = n

(* The store ring is the committed stores, then those of the ROB in        *)
(* program order; count and tail agree with it, after recoveries too.      *)
StoresFollowRob ==
  LET stores == OfKind("st") IN
  /\ sqCount = Cardinality(SqRows) /\ sqTail = (sqHead + sqCount) % NumSq
  /\ sqCount = CommittedCount + Cardinality(stores)
  /\ \A k \in stores :
       LET n == (sqHead + CommittedCount + NumBefore(stores, k)) % NumSq
       IN  sq[n] # NoRow /\ sq[n].rob = Index(k) /\ rob[k].q = n /\ ~sq[n].committed

(* A late answer does not reach an index that was given away: the entry    *)
(* with the ROB index of a result is the instruction that computed it.     *)
NoLateResult ==
  w1 # NoRow => \A k \in DOMAIN rob : Index(k) = w1.rob => rob[k].pc = w1.pc

(* A result on its way to the ROB meets its own instruction, neither one   *)
(* that took the index over nor one allocated on the edge of its arrival.  *)
ResultFindsOwner ==
  /\ NoLateResult
  /\ w1 # NoRow /\ Len(rob) < NumRob => Index(Len(rob) + 1) # w1.rob

(* Every program ends: no load sleeps for ever and every store drains.     *)
ProgramEnds == <>(fetch = 0 /\ rob = <<>> /\ sqCount = 0)
=============================================================================
