---------------------------- MODULE CommitProofs ----------------------------
(***************************************************************************)
(* The precise boundary, for every program, machine size and interrupt     *)
(* pattern.  The proofs suppose of the behaviour what the comment on       *)
(* heu_irq_hold_q promises, InterruptNotReplaying: that is the one thing   *)
(* which can break the boundary, and without MMIO it cannot fail.          *)
(***************************************************************************)
EXTENDS Commit, SequenceTheorems, CommonLemmas

USE CommitSizes

-----------------------------------------------------------------------------
(***************************************************************************)
(* The inductive invariant.                                                *)
(***************************************************************************)

MicroOp == [pc : Pc, pred : Pc]
Entry   == [pc : Pc, pred : Pc, succ : Pc, written : BOOLEAN, complete : BOOLEAN,
            exc : BOOLEAN, needsD : BOOLEAN, order : BOOLEAN]
Trap    == [type : {"exc", "irq", "xret"}, epc : Pc]
Ring    == 0 .. NumRob - 1

TypesInv ==
  /\ rob \in Seq(Entry) /\ Len(rob) <= NumRob /\ head \in Ring
  /\ r1 \in Seq(MicroOp) /\ fetchPc \in Pc /\ npc \in Pc /\ blocked \in BOOLEAN
  /\ cc \in [serialDone : BOOLEAN, csrDone : BOOLEAN, syncSent : BOOLEAN, refetch : BOOLEAN,
             sfSent : BOOLEAN, sfDone : BOOLEAN, dSent : BOOLEAN]
  /\ csrReq \in BOOLEAN /\ cancel \in BOOLEAN
  /\ trapQ \in Trap \cup {NoTrap} /\ trapPc \in Pc \cup {NoPc} /\ packet \in Pc \cup {NoPc}
  /\ csr \in [ie : BOOLEAN, mpie : BOOLEAN, mepc : Pc]
  /\ sq \in Nat
  /\ fe \in [state : {"idle", "wait", "inv", "done"}, kind : {"refetch", "fencei", "sfence"}]
  /\ heu \in [state : {"idle", "check", "mmio", "wait", "result", "exc"},
              irrev : BOOLEAN, idx : Ring]
  /\ w1 \in Ring \cup {NoIdx}
  /\ bus \in {"idle", "issue", "resp", "error"}

(* A recovery goes through its stages in order, and owns an empty machine  *)
(* from the cycle after the cancellation on.                               *)
RecoveryInv ==
  /\ trapQ # NoTrap => cancel
  /\ trapPc # NoPc => ~cancel
  /\ cancel => trapQ # NoTrap \/ packet # NoPc
  /\ packet # NoPc => npc = packet
  /\ TrapBusy => cc = Idle
  /\ TrapBusy /\ ~cancel => rob = <<>> /\ r1 = <<>> /\ ~csrReq /\ ~blocked

(* What the path goes on with behind the ROB.                              *)
Behind == IF r1 = <<>> THEN fetchPc ELSE r1[1].pc

PathInv ==
  /\ npc = IF rob = <<>> THEN Behind ELSE rob[1].pc
  /\ \A k \in DOMAIN rob :
       (IF rob[k].complete THEN rob[k].succ ELSE rob[k].pred)
         = IF k < Len(rob) THEN rob[k + 1].pc ELSE Behind
  /\ \A k \in DOMAIN r1 : r1[k].pred = IF k < Len(r1) THEN r1[k + 1].pc ELSE fetchPc

(* What blocks younger instructions is the youngest, and rename is shut.   *)
BlockInv ==
  /\ \A k \in DOMAIN rob : BlockYounger(rob[k].pc) => k = Len(rob) /\ r1 = <<>> /\ blocked
  /\ \A k \in DOMAIN r1 : BlockYounger(r1[k].pc) => k = Len(r1) /\ blocked

(* What an entry's flags say of its instruction.                           *)
Honest(e) ==
  /\ e.pred \in Targets[e.pc]
  /\ e.succ \in Targets[e.pc] /\ (Kind[e.pc] # "br" => e.succ = Succ[e.pc])
  /\ Kind[e.pc] = "bad" \/ (Kind[e.pc] = "csrBad" /\ e.complete) => e.exc
  /\ e.exc => e.complete /\ Kind[e.pc] \in {"bad", "ld", "st", "csrBad", "mmio"}
  /\ e.needsD => e.complete /\ Kind[e.pc] = "st"
  /\ e.order => e.written /\ Kind[e.pc] = "ld"

EntriesInv ==
  /\ \A k \in DOMAIN rob : Honest(rob[k])
  /\ \A k \in DOMAIN r1 : r1[k].pred \in Targets[r1[k].pc]

(* The CSR port and the head unit work for the head.                       *)
PortsInv ==
  /\ csrReq /\ ~cancel => HeadIs(CsrKinds)
  /\ bus # "idle" => heu.state = "wait"
  /\ heu.irrev => heu.state \in {"wait", "result", "exc"}
  /\ heu.state \in {"wait", "result"} => heu.irrev
  /\ heu.state # "idle" => w1 = NoIdx
  /\ cancel => ~Irreversible
  /\ HeuOwnsHead

(* The bookkeeping of commit_ctrl is about the head.                       *)
BookInv ==
  /\ cc.sfSent => HeadIs({"sfence"}) /\ sq = 0
  /\ cc.sfDone => cc.sfSent
  /\ cc.dSent => HeadIs({"st"}) /\ Oldest.complete
  /\ fe.kind # "refetch" =>
       /\ fe.state # "idle" /\ cc.syncSent /\ ~cc.serialDone
       /\ HeadIs({fe.kind}) /\ sq = 0 /\ (fe.kind = "sfence" => cc.sfDone)

CommitInv ==
  /\ TypesInv /\ RecoveryInv /\ EntriesInv /\ PortsInv /\ BookInv
  /\ ~TrapBusy => PathInv /\ BlockInv
-----------------------------------------------------------------------------
(***************************************************************************)
(* Prefixes and the ring.                                                  *)
(***************************************************************************)

(* A set of positions that is closed downwards is a prefix, and its size   *)
(* is its length.                                                          *)
LEMMA PrefixSet ==
  ASSUME NEW N \in Nat, NEW S, S \subseteq 1 .. N,
         \A n \in S : \A m \in 1 .. n : m \in S
  PROVE  Cardinality(S) \in 0 .. N /\ S = 1 .. Cardinality(S)
<1>1. CASE S = {}
  BY <1>1, FS_EmptySet
<1>2. CASE S # {}
  <2>1. IsFiniteSet(1 .. N)
    BY FS_Interval
  <2>2. IsFiniteSet(S) /\ S \subseteq Nat
    <3>1. \A x \in 1 .. N : x \in Nat
      OBVIOUS
    <3> QED BY <2>1, <3>1, FS_Subset
  <2>3. PICK m \in S : \A n \in S : n <= m
    BY <1>2, <2>2, FiniteMax
  <2>4. S = 1 .. m /\ m \in 1 .. N
    <3>1. m \in 1 .. N /\ \A x \in 1 .. m : x \in S
      BY <2>3
    <3>2. \A x \in S : x \in 1 .. m
      BY <2>3, <3>1
    <3> QED BY <3>1, <3>2
  <2>5. Cardinality(1 .. m) = m
    BY <2>4, FS_Interval
  <2> QED BY <2>4, <2>5
<1> QED BY <1>1, <1>2

(* A non-empty set of positions has a first one.                           *)
LEMMA FirstOf ==
  ASSUME NEW T, T \subseteq Nat, T # {}
  PROVE  \E m \in T : \A j \in T : m <= j
BY NatMin

(* The head's ring index is the head's only.                               *)
LEMMA IndexFacts ==
  ASSUME head \in Ring
  PROVE  /\ Index(1) = head
         /\ \A k \in 1 .. NumRob : Index(k) \in Ring /\ (Index(k) = head => k = 1)
<1>1. /\ head \in Nat /\ NumRob \in Nat \ {0} /\ head < NumRob
  BY DEF Ring
<1>2. Index(1) = head
  BY <1>1 DEF Index
<1>3. ASSUME NEW k \in 1 .. NumRob
      PROVE  Index(k) \in Ring /\ (Index(k) = head => k = 1)
  <2>1. CASE head + k - 1 < NumRob
    <3>1. Index(k) = head + k - 1
      BY <1>1, <2>1 DEF Index
    <3> QED BY <3>1, <2>1, <1>1 DEF Ring
  <2>2. CASE ~(head + k - 1 < NumRob)
    <3>1. Index(k) = head + k - 1 - NumRob
      BY <1>1, <2>2 DEF Index
    <3> QED BY <3>1, <2>2, <1>1 DEF Ring
  <2> QED BY <2>1, <2>2
<1> QED BY <1>2, <1>3

(* Retirement leaves the head in the ring.                                 *)
LEMMA HeadAdvance ==
  ASSUME head \in Ring, NEW n \in 0 .. NumRob
  PROVE  (head + n) % NumRob \in Ring
BY DEF Ring

(* What is left of a sequence when its first n are gone.                   *)
LEMMA RestOfSeq ==
  ASSUME NEW S, NEW s \in Seq(S), NEW n \in 0 .. Len(s)
  PROVE  /\ SubSeq(s, n + 1, Len(s)) \in Seq(S)
         /\ Len(SubSeq(s, n + 1, Len(s))) = Len(s) - n
         /\ \A k \in 1 .. Len(s) - n : SubSeq(s, n + 1, Len(s))[k] = s[n + k]
<1> DEFINE a == n + 1
           L == Len(s)
           u == SubSeq(s, a, L)
<1>1. a \in Int /\ L \in Int /\ n \in Nat /\ n <= L /\ \A k \in a .. L : s[k] \in S
  OBVIOUS
<1>2. a = n + 1
  OBVIOUS
<1> HIDE DEF a, L
<1>3. /\ u \in Seq(S) /\ Len(u) = IF a <= L THEN L - a + 1 ELSE 0
      /\ \A k \in 1 .. L - a + 1 : u[k] = s[a + k - 1]
  BY <1>1, SubSeqProperties
<1> HIDE DEF u
<1>4. Len(u) = L - n /\ L - a + 1 = L - n
  BY <1>1, <1>2, <1>3
<1>5. \A k \in Int : a + k - 1 = n + k
  BY <1>1, <1>2
<1>6. \A k \in 1 .. L - n : u[k] = s[n + k]
  BY <1>3, <1>4, <1>5
<1>7. u \in Seq(S) /\ Len(u) = L - n /\ \A k \in 1 .. L - n : u[k] = s[n + k]
  BY <1>3, <1>4, <1>6
<1>8. u = SubSeq(s, n + 1, Len(s)) /\ L = Len(s)
  BY DEF u, a, L
<1> QED BY <1>7, <1>8

-----------------------------------------------------------------------------
(***************************************************************************)
(* What the inputs of a cycle may be, given the state.                     *)
(***************************************************************************)

(* A predicted path from p.                                                *)
PathFrom(g, p) ==
  /\ g \in Seq(MicroOp) /\ g # <<>> /\ g[1].pc = p
  /\ \A k \in 1 .. Len(g) : /\ g[k].pred \in Targets[g[k].pc]
                            /\ k < Len(g) => g[k].pred = g[k + 1].pc

(* Every pc that may follow another is a pc.                               *)
LEMMA TargetType ==
  ASSUME NEW p \in Pc
  PROVE  Targets[p] \subseteq Pc /\ Succ[p] \in Pc /\ Succ[p] \in Targets[p]
<1>1. Succ \in [Pc -> Pc] /\ Targets \in [Pc -> SUBSET Pc]
  BY ProgramAssumption
<1>2. Succ[p] \in Targets[p]
  BY ProgramAssumption
<1> QED BY <1>1, <1>2

(* Only a branch may go on where its successor is not.                     *)
LEMMA PlainTarget ==
  ASSUME NEW p \in Pc, Kind[p] # "br" PROVE Targets[p] = {Succ[p]}
BY ProgramAssumption

(* The decode queue shows a predicted path from fetchPc.                   *)
LEMMA ShownFacts ==
  ASSUME fetchPc \in Pc, NEW g \in Shown
  PROVE  PathFrom(g, fetchPc)
<1>1. PICK n \in 1 .. Width : g \in {MicroOps(w, n) : w \in PathsFrom(fetchPc, n)}
  BY DEF Shown, ShownFrom
<1>0. PICK w \in PathsFrom(fetchPc, n) : g = [k \in 1 .. n |-> [pc |-> w[k], pred |-> w[k + 1]]]
  BY <1>1 DEF MicroOps
<1>2. /\ n \in Nat \ {0} /\ w \in [1 .. n + 1 -> Pc] /\ w[1] = fetchPc
      /\ \A k \in 1 .. n : w[k + 1] \in Targets[w[k]]
  BY DEF PathsFrom
<1>3. \A k \in 1 .. n : k \in 1 .. n + 1 /\ k + 1 \in 1 .. n + 1
  BY <1>2
<1>4. g \in [1 .. n -> MicroOp]
  BY <1>0, <1>2, <1>3 DEF MicroOp
<1>5. g \in Seq(MicroOp) /\ Len(g) = n
  BY <1>2, <1>4
<1>6. \A k \in 1 .. n : g[k].pc = w[k] /\ g[k].pred = w[k + 1]
  BY <1>0
<1>7. \A k \in 1 .. n : /\ g[k].pred \in Targets[g[k].pc]
                        /\ k < n => g[k].pred = g[k + 1].pc
  <2>1. SUFFICES ASSUME NEW k \in 1 .. n
                 PROVE  /\ g[k].pred \in Targets[g[k].pc]
                        /\ k < n => g[k].pred = g[k + 1].pc
    OBVIOUS
  <2>2. g[k].pred \in Targets[g[k].pc]
    BY <1>2, <1>6
  <2>3. k < n => k + 1 \in 1 .. n
    BY <1>2
  <2> QED BY <1>6, <2>2, <2>3
<1>8. g # <<>> /\ g[1].pc = fetchPc
  <2>1. 1 \in 1 .. n /\ n # 0
    BY <1>2
  <2>2. g[1].pc = fetchPc
    BY <1>2, <1>6, <2>1
  <2>3. g # <<>>
    BY <1>5, <2>1
  <2> QED BY <2>2, <2>3
<1> QED BY <1>5, <1>7, <1>8 DEF PathFrom

(* The first part of a path is a path.                                     *)
LEMMA PathPrefix ==
  ASSUME NEW g, NEW p, PathFrom(g, p), NEW m \in 1 .. Len(g)
  PROVE  /\ PathFrom(SubSeq(g, 1, m), p)
         /\ Len(SubSeq(g, 1, m)) = m
         /\ \A k \in 1 .. m : SubSeq(g, 1, m)[k] = g[k]
<1> DEFINE u == SubSeq(g, 1, m)
<1>1. /\ g \in Seq(MicroOp) /\ g[1].pc = p /\ m \in Nat \ {0} /\ Len(g) \in Nat
      /\ \A k \in 1 .. Len(g) : /\ g[k].pred \in Targets[g[k].pc]
                                /\ k < Len(g) => g[k].pred = g[k + 1].pc
  BY DEF PathFrom
<1>2. \A k \in 1 .. m : g[k] \in MicroOp
  BY <1>1
<1>3. /\ u \in Seq(MicroOp) /\ Len(u) = m
      /\ \A k \in 1 .. m : u[k] = g[k]
  <2>1. /\ u \in Seq(MicroOp)
        /\ Len(u) = IF 1 <= m THEN m - 1 + 1 ELSE 0
        /\ \A k \in 1 .. m - 1 + 1 : u[k] = g[1 + k - 1]
    BY <1>1, <1>2, SubSeqProperties
  <2> HIDE DEF u
  <2>2. m - 1 + 1 = m /\ \A k \in 1 .. m : 1 + k - 1 = k
    BY <1>1
  <2> QED BY <2>1, <2>2, <1>1
<1> HIDE DEF u
<1>4. \A k \in 1 .. m : /\ u[k].pred \in Targets[u[k].pc]
                        /\ k < m => u[k].pred = u[k + 1].pc
  <2>1. SUFFICES ASSUME NEW k \in 1 .. m
                 PROVE  /\ u[k].pred \in Targets[u[k].pc]
                        /\ k < m => u[k].pred = u[k + 1].pc
    OBVIOUS
  <2>2. k \in 1 .. Len(g) /\ (k < m => k + 1 \in 1 .. m /\ k < Len(g))
    BY <1>1
  <2> QED BY <1>1, <1>3, <2>2
<1>5. u # <<>> /\ u[1].pc = p
  BY <1>1, <1>3
<1>6. PathFrom(u, p)
  BY <1>3, <1>4, <1>5 DEF PathFrom
<1> QED BY <1>3, <1>6 DEF u

(* The entry gate passes a path on whose only blocker, if any, is last.    *)
LEMMA GateFacts ==
  ASSUME NEW g, NEW p, PathFrom(g, p)
  PROVE  /\ PathFrom(GatePass(g), p)
         /\ \A k \in 1 .. Len(GatePass(g)) :
              BlockYounger(GatePass(g)[k].pc) => k = Len(GatePass(g))
<1> DEFINE T == {k \in DOMAIN g : BlockYounger(g[k].pc)}
<1>1. DOMAIN g = 1 .. Len(g) /\ Len(g) \in Nat
  BY DEF PathFrom
<1>2. CASE T = {}
  <2>1. GatePass(g) = g
    BY <1>2 DEF GatePass
  <2>2. \A k \in 1 .. Len(g) : ~BlockYounger(g[k].pc)
    BY <1>1, <1>2
  <2> QED BY <2>1, <2>2
<1>3. CASE T # {}
  <2> DEFINE First(k) == BlockYounger(g[k].pc) /\ \A j \in 1 .. k - 1 : ~BlockYounger(g[j].pc)
             m == CHOOSE k \in DOMAIN g : First(k)
  <2>1. \E k \in DOMAIN g : First(k)
    <3>1. T \subseteq Nat
      BY <1>1
    <3>2. PICK k \in T : \A j \in T : k <= j
      BY <3>1, <1>3, FirstOf
    <3>3. \A j \in 1 .. k - 1 : j \in 1 .. Len(g) /\ ~(k <= j)
      BY <1>1
    <3>4. \A j \in 1 .. k - 1 : ~BlockYounger(g[j].pc)
      BY <3>2, <3>3, <1>1
    <3> QED BY <3>4
  <2>2. m \in 1 .. Len(g) /\ First(m)
    BY <2>1, <1>1
  <2>3. GatePass(g) = SubSeq(g, 1, m)
    BY <1>3 DEF GatePass
  <2> HIDE DEF m
  <2> DEFINE u == SubSeq(g, 1, m)
  <2>4. /\ PathFrom(u, p) /\ Len(u) = m
        /\ \A k \in 1 .. m : u[k] = g[k]
    BY <2>2, PathPrefix
  <2> HIDE DEF u
  <2>5. ASSUME NEW k \in 1 .. m, BlockYounger(u[k].pc) PROVE k = m
    <3>1. k \in 1 .. m - 1 \/ k = m
      BY <1>1, <2>2
    <3> QED BY <3>1, <2>2, <2>4, <2>5
  <2>6. GatePass(g) = u
    BY <2>3 DEF u
  <2> QED BY <2>4, <2>5, <2>6
<1> QED BY <1>2, <1>3

InputOk(i) ==
  /\ i.group = <<>> \/ (~blocked /\ ~TrapBusy /\ i.group \in Shown)
  /\ i.alloc \in 0 .. Len(r1) /\ Len(rob) + i.alloc <= NumRob
  /\ \A k \in DOMAIN i.exec :
       /\ k \in Executing({"alu", "ld", "st"})
       /\ i.exec[k] = "fault" => KindAt(k) \in {"ld", "st"}
       /\ i.exec[k] = "dirty" => KindAt(k) = "st"
  /\ i.resolve.at # 0 => /\ i.resolve.at \in Executing({"br"})
                         /\ i.resolve.to \in Targets[rob[i.resolve.at].pc]
  /\ i.dma \subseteq LiveLoads
  /\ i.drain \in BOOLEAN /\ (i.drain => sq > 0)
  /\ i.dAck # "none" => cc.dSent

LEMMA InputFacts ==
  ASSUME TypesInv, NEW i \in Inputs
  PROVE  InputOk(i)
<1>1. /\ rob \in Seq(Entry) /\ Len(rob) \in Nat /\ Len(rob) <= NumRob /\ Len(r1) \in Nat
  BY DEF TypesInv
<1>2. i.group = <<>> \/ (~blocked /\ ~TrapBusy /\ i.group \in Shown)
  BY DEF Inputs
<1>3. i.alloc \in 0 .. Len(r1) /\ Len(rob) + i.alloc <= NumRob
  <2>1. i.alloc \in IF TrapBusy THEN {0} ELSE {n \in 0 .. Len(r1) : Room(n)}
    BY DEF Inputs
  <2> QED BY <1>1, <2>1 DEF Room
<1>4. i.exec \in Executions
  BY DEF Inputs
<1>5. ASSUME NEW k \in DOMAIN i.exec
      PROVE  /\ k \in Executing({"alu", "ld", "st"})
             /\ i.exec[k] = "fault" => KindAt(k) \in {"ld", "st"}
             /\ i.exec[k] = "dirty" => KindAt(k) = "st"
  <2>1. k \in Executing({"alu", "ld", "st"}) /\ i.exec[k] \in Outcomes(k)
    BY <1>4 DEF Executions
  <2> QED BY <2>1 DEF Outcomes
<1>6. i.resolve.at # 0 => /\ i.resolve.at \in Executing({"br"})
                          /\ i.resolve.to \in Targets[rob[i.resolve.at].pc]
  <2>1. i.resolve \in Resolutions
    BY DEF Inputs
  <2>2. CASE i.resolve = NoBranch
    BY <2>2 DEF NoBranch
  <2>3. CASE i.resolve # NoBranch
    <3>1. PICK k \in Executing({"br"}) : i.resolve \in {[at |-> k, to |-> p] : p \in Targets[rob[k].pc]}
      BY <2>1, <2>3 DEF Resolutions
    <3>2. PICK p \in Targets[rob[k].pc] : i.resolve = [at |-> k, to |-> p]
      BY <3>1
    <3> QED BY <3>2
  <2> QED BY <2>2, <2>3
<1>7. i.dma \subseteq LiveLoads
  BY DEF Inputs
<1>8. i.drain \in BOOLEAN /\ (i.drain => sq > 0)
  <2>1. i.drain \in IF sq > 0 THEN BOOLEAN ELSE {FALSE}
    BY DEF Inputs
  <2> QED BY <2>1
<1>9. i.dAck # "none" => cc.dSent
  <2>1. i.dAck \in IF cc.dSent /\ NeedsD /\ ~Oldest.exc THEN {"none", "ok", "fault"} ELSE {"none"}
    BY DEF Inputs
  <2> QED BY <2>1
<1> QED BY <1>2, <1>3, <1>5, <1>6, <1>7, <1>8, <1>9 DEF InputOk

-----------------------------------------------------------------------------
(***************************************************************************)
(* What an edge does to an entry.                                          *)
(***************************************************************************)

(* Where the path goes on behind an entry.                                 *)
After(e) == IF e.complete THEN e.succ ELSE e.pred

(* The retiring prefix.                                                    *)
RetireOk(i) ==
  /\ RetireCount(i) \in 0 .. Len(rob) /\ RetireCount(i) <= RetireWidth
  /\ \A k \in 1 .. RetireCount(i) : Retirable(k, i)
  /\ RetireCount(i) > 0 => ~CommitBlock(i) /\ ~Mispredict(i)

LEMMA RetireFacts ==
  ASSUME TypesInv, NEW i
  PROVE  RetireOk(i)
<1>1. Len(rob) \in Nat /\ RetireWidth \in Nat
  BY DEF TypesInv
<1>2. CASE CommitBlock(i) \/ Mispredict(i)
  <2>1. RetireCount(i) = 0
    BY <1>2 DEF RetireCount
  <2> QED BY <1>1, <2>1 DEF RetireOk
<1>3. CASE ~(CommitBlock(i) \/ Mispredict(i))
  <2> DEFINE S == {n \in 1 .. RetireWidth : n <= Len(rob) /\ \A k \in 1 .. n : Retirable(k, i)}
  <2>1. RetireCount(i) = Cardinality(S)
    BY <1>3 DEF RetireCount
  <2>2. S \subseteq 1 .. Len(rob) /\ S \subseteq 1 .. RetireWidth
    BY <1>1
  <2>3. ASSUME NEW n \in S, NEW m \in 1 .. n PROVE m \in S
    <3>1. n \in 1 .. RetireWidth /\ n <= Len(rob) /\ \A k \in 1 .. n : Retirable(k, i)
      OBVIOUS
    <3>2. m \in 1 .. RetireWidth /\ m <= Len(rob) /\ \A k \in 1 .. m : k \in 1 .. n
      BY <1>1, <3>1
    <3> QED BY <3>1, <3>2
  <2>4. \A n \in S : \A k \in 1 .. n : Retirable(k, i)
    OBVIOUS
  <2> HIDE DEF S
  <2>5. Cardinality(S) \in 0 .. Len(rob) /\ S = 1 .. Cardinality(S)
    BY <1>1, <2>2, <2>3, PrefixSet
  <2>6. Cardinality(S) <= RetireWidth
    <3> DEFINE n == Cardinality(S)
    <3>1. n \in Nat /\ (n > 0 => n \in S)
      BY <1>1, <2>5
    <3> HIDE DEF n
    <3>2. n <= RetireWidth
      BY <1>1, <2>2, <3>1
    <3> QED BY <3>2 DEF n
  <2>7. \A k \in 1 .. Cardinality(S) : Retirable(k, i)
    <3>1. SUFFICES ASSUME NEW k \in 1 .. Cardinality(S) PROVE Retirable(k, i)
      OBVIOUS
    <3>2. k \in S /\ k \in 1 .. k
      BY <2>5
    <3> QED BY <3>2, <2>4
  <2> QED BY <1>3, <2>1, <2>5, <2>6, <2>7 DEF RetireOk
<1> QED BY <1>2, <1>3

(* The fields of an entry that an edge rewrites.                           *)
Rewritten(e, w, s, c, x, d, o) ==
  [e EXCEPT !.written = w, !.succ = s, !.complete = c, !.exc = x, !.needsD = d, !.order = o]

LEMMA RewrittenFields ==
  ASSUME NEW e \in Entry, NEW w \in BOOLEAN, NEW s \in Pc, NEW c \in BOOLEAN,
         NEW x \in BOOLEAN, NEW d \in BOOLEAN, NEW o \in BOOLEAN, NEW f,
         f = Rewritten(e, w, s, c, x, d, o)
  PROVE  /\ f \in Entry /\ f.pc = e.pc /\ f.pred = e.pred /\ f.written = w
         /\ f.succ = s /\ f.complete = c /\ f.exc = x /\ f.needsD = d /\ f.order = o
<1>1. f \in Entry
  <2>1. f = [pc |-> e.pc, pred |-> e.pred, succ |-> s, written |-> w, complete |-> c,
             exc |-> x, needsD |-> d, order |-> o]
    BY DEF Entry, Rewritten
  <2>2. e.pc \in Pc /\ e.pred \in Pc
    BY DEF Entry
  <2> QED BY <2>1, <2>2 DEF Entry
<1>2. f.pc = e.pc /\ f.pred = e.pred
  BY DEF Entry, Rewritten
<1>3. f.written = w /\ f.succ = s /\ f.complete = c
  BY DEF Entry, Rewritten
<1>4. f.exc = x /\ f.needsD = d /\ f.order = o
  BY DEF Entry, Rewritten
<1> QED BY <1>1, <1>2, <1>3, <1>4

(* Completion or exception from the head unit reaches index x.             *)
FromHeu(x, i) == (w1 = x /\ ~cancel) \/ (HeuExc(i) /\ heu.idx = x)

LEMMA LateFacts ==
  ASSUME NEW e \in Entry, NEW x, NEW i
  PROVE  /\ Late(e, x, i) \in Entry
         /\ Late(e, x, i).pc = e.pc /\ Late(e, x, i).pred = e.pred /\ Late(e, x, i).succ = e.succ
         /\ Late(e, x, i).written = e.written /\ Late(e, x, i).needsD = e.needsD
         /\ Late(e, x, i).order = e.order
         /\ Late(e, x, i).complete <=> e.complete \/ FromHeu(x, i)
         /\ Late(e, x, i).exc <=> e.exc \/ (HeuExc(i) /\ heu.idx = x)
         /\ ~FromHeu(x, i) => Late(e, x, i) = e
<1> DEFINE c == e.complete \/ (w1 = x /\ ~cancel) \/ (HeuExc(i) /\ heu.idx = x)
           y == e.exc \/ (HeuExc(i) /\ heu.idx = x)
           f == [e EXCEPT !.complete = c, !.exc = y]
<1>1. Late(e, x, i) = f
  BY DEF Late
<1>2. /\ c \in BOOLEAN /\ y \in BOOLEAN /\ (c <=> e.complete \/ FromHeu(x, i))
      /\ (y <=> e.exc \/ (HeuExc(i) /\ heu.idx = x))
  BY DEF FromHeu
<1>3. ~FromHeu(x, i) => c = e.complete /\ y = e.exc
  BY DEF FromHeu, Entry
<1> HIDE DEF c, y
<1>4. /\ f \in Entry /\ f.pc = e.pc /\ f.pred = e.pred /\ f.succ = e.succ
      /\ f.written = e.written /\ f.needsD = e.needsD /\ f.order = e.order
      /\ f.complete = c /\ f.exc = y
  BY <1>2 DEF Entry
<1>5. c = e.complete /\ y = e.exc => f = e
  <2> HIDE DEF f
  <2>1. ASSUME NEW a \in Entry, NEW b \in Entry, a.pc = b.pc, a.pred = b.pred,
               a.succ = b.succ, a.written = b.written, a.complete = b.complete,
               a.exc = b.exc, a.needsD = b.needsD, a.order = b.order
        PROVE  a = b
    BY <2>1 DEF Entry
  <2> QED BY <1>4, <2>1
<1> QED BY <1>1, <1>2, <1>3, <1>4, <1>5

Ran(k, i)    == k \in DOMAIN i.exec /\ i.exec[k] \in {"ok", "dirty"}
Faults(k, i) == ExcOpen(i) /\ k \in LsuExc(i)
Answers(k)   == k = 1 /\ CsrAnswer

(* An entry field by field after the edge.                                 *)
Fields(k, i, f) ==
  /\ f \in Entry /\ f.pc = rob[k].pc /\ f.pred = rob[k].pred /\ f.written
  /\ f.succ = IF i.resolve.at = k THEN i.resolve.to ELSE rob[k].succ
  /\ f.complete <=> \/ rob[k].complete \/ Ran(k, i) \/ i.resolve.at = k
                    \/ Faults(k, i) \/ Answers(k) \/ FromHeu(Index(k), i)
  /\ f.exc <=> \/ rob[k].exc \/ Faults(k, i) \/ (Answers(k) /\ CsrIllegal)
               \/ (HeuExc(i) /\ heu.idx = Index(k))
  /\ f.needsD => rob[k].needsD \/ (Ran(k, i) /\ i.exec[k] = "dirty")
  /\ f.order <=> Ordered(k, i)

LEMMA UpdatedFields ==
  ASSUME TypesInv, NEW i, InputOk(i), NEW k \in DOMAIN rob
  PROVE  Fields(k, i, Updated(k, i))
<1>1. rob \in Seq(Entry) /\ rob[k] \in Entry
  <2>1. rob \in Seq(Entry)
    BY DEF TypesInv
  <2> QED BY <2>1
<1>2. i.resolve.at = k => i.resolve.to \in Pc
  <2>1. SUFFICES ASSUME i.resolve.at = k PROVE i.resolve.to \in Pc
    OBVIOUS
  <2>2. k # 0
    BY <1>1
  <2>3. i.resolve.to \in Targets[rob[k].pc]
    BY <2>1, <2>2 DEF InputOk
  <2>4. rob[k].pc \in Pc
    BY <1>1 DEF Entry
  <2> QED BY <2>3, <2>4, TargetType
<1> DEFINE w == TRUE
           s == IF i.resolve.at = k THEN i.resolve.to ELSE rob[k].succ
           c == rob[k].complete \/ Ran(k, i) \/ i.resolve.at = k \/ Faults(k, i) \/ Answers(k)
           x == rob[k].exc \/ Faults(k, i) \/ (Answers(k) /\ CsrIllegal)
           d == (rob[k].needsD \/ (Ran(k, i) /\ i.exec[k] = "dirty")) /\ ~(k = 1 /\ i.dAck = "ok")
           o == Ordered(k, i)
           e == Rewritten(rob[k], w, s, c, x, d, o)
<1>3. /\ w \in BOOLEAN /\ s \in Pc /\ c \in BOOLEAN /\ x \in BOOLEAN /\ d \in BOOLEAN
      /\ o \in BOOLEAN
  <2>1. o \in BOOLEAN
    <3>1. rob[k].order \in BOOLEAN
      BY <1>1 DEF Entry
    <3> QED BY <3>1 DEF Ordered
  <2>2. s \in Pc
    BY <1>1, <1>2 DEF Entry
  <2> QED BY <2>1, <2>2
<1>4. Updated(k, i) = Late(e, Index(k), i)
  BY DEF Updated, Ran, Faults, Answers, Rewritten
<1> HIDE DEF w, s, c, x, d, o
<1>5. /\ e \in Entry /\ e.pc = rob[k].pc /\ e.pred = rob[k].pred /\ e.written = w
      /\ e.succ = s /\ e.complete = c /\ e.exc = x /\ e.needsD = d /\ e.order = o
  BY <1>1, <1>3, RewrittenFields
<1> HIDE DEF e
<1>6. /\ Late(e, Index(k), i) \in Entry
      /\ Late(e, Index(k), i).pc = e.pc /\ Late(e, Index(k), i).pred = e.pred
      /\ Late(e, Index(k), i).succ = e.succ
      /\ Late(e, Index(k), i).written = e.written /\ Late(e, Index(k), i).needsD = e.needsD
      /\ Late(e, Index(k), i).order = e.order
      /\ Late(e, Index(k), i).complete <=> e.complete \/ FromHeu(Index(k), i)
      /\ Late(e, Index(k), i).exc <=> e.exc \/ (HeuExc(i) /\ heu.idx = Index(k))
  BY <1>5, LateFacts
<1> DEFINE f == Late(e, Index(k), i)
<1>7. /\ f \in Entry /\ f.pc = rob[k].pc /\ f.pred = rob[k].pred /\ f.written = w /\ f.succ = s
      /\ f.complete <=> c \/ FromHeu(Index(k), i)
      /\ f.exc <=> x \/ (HeuExc(i) /\ heu.idx = Index(k))
      /\ f.needsD = d /\ f.order = o
  BY <1>5, <1>6
<1> HIDE DEF f
<1>8. Fields(k, i, f)
  BY <1>7 DEF Fields, w, s, c, x, d, o
<1> QED BY <1>4, <1>8 DEF f

(* What the head ports write, they write into the head.                    *)
LEMMA PortFacts ==
  ASSUME TypesInv, PortsInv, ~cancel, NEW i, NEW k \in DOMAIN rob
  PROVE  /\ Answers(k) => Kind[rob[k].pc] \in CsrKinds
         /\ Answers(k) /\ CsrIllegal => Kind[rob[k].pc] = "csrBad"
         /\ FromHeu(Index(k), i) => k = 1 /\ Kind[rob[k].pc] = "mmio" /\ ~rob[k].complete
         /\ HeuExc(i) /\ heu.idx = Index(k) => FromHeu(Index(k), i)
<1>1. Answers(k) => Kind[rob[k].pc] \in CsrKinds
  BY DEF Answers, CsrAnswer, PortsInv, HeadIs, Oldest
<1>2. Answers(k) /\ CsrIllegal => Kind[rob[k].pc] = "csrBad"
  BY DEF Answers, CsrIllegal, Oldest
<1>3. FromHeu(Index(k), i) => k = 1 /\ Kind[rob[k].pc] = "mmio" /\ ~rob[k].complete
  <2>1. k \in 1 .. NumRob
    <3>1. DOMAIN rob = 1 .. Len(rob) /\ Len(rob) \in Nat /\ Len(rob) <= NumRob
      BY DEF TypesInv
    <3> QED BY <3>1
  <2>2. Index(k) \in Ring /\ (Index(k) = head => k = 1)
    <3>1. head \in Ring
      BY DEF TypesInv
    <3> QED BY <2>1, <3>1, IndexFacts
  <2>3. Index(k) # NoIdx
    BY <2>2, NothingIsNothing DEF Ring
  <2>4. w1 = Index(k) => w1 = head /\ HeadIs({"mmio"}) /\ ~Oldest.complete
    BY <2>3 DEF PortsInv, HeuOwnsHead
  <2>5. HeuExc(i) => heu.idx = head /\ HeadIs({"mmio"}) /\ ~Oldest.complete
    BY DEF HeuExc, PortsInv, HeuOwnsHead
  <2> QED BY <2>2, <2>4, <2>5 DEF FromHeu, HeadIs, Oldest
<1>4. HeuExc(i) /\ heu.idx = Index(k) => FromHeu(Index(k), i)
  BY DEF FromHeu
<1> QED BY <1>1, <1>2, <1>3, <1>4

(* Only a load or a store faults.                                          *)
LEMMA FaultFacts ==
  ASSUME BookInv, NEW i, InputOk(i), NEW k \in DOMAIN rob, Faults(k, i)
  PROVE  Kind[rob[k].pc] \in {"ld", "st"}
<1>1. CASE k \in DOMAIN i.exec /\ i.exec[k] = "fault"
  BY <1>1 DEF InputOk, KindAt
<1>2. CASE k = 1 /\ i.dAck = "fault"
  <2>1. cc.dSent
    BY <1>2 DEF InputOk
  <2> QED BY <2>1, <1>2 DEF BookInv, HeadIs, Oldest
<1> QED BY <1>1, <1>2 DEF Faults, LsuExc

(* The path through an entry changes only where a branch resolves.         *)
Kept(k, i, f) ==
  /\ f \in Entry /\ Honest(f) /\ f.pc = rob[k].pc /\ f.pred = rob[k].pred /\ f.written
  /\ rob[k].complete => f.complete
  /\ After(f) = IF i.resolve.at = k THEN i.resolve.to ELSE After(rob[k])
  /\ f.order <=> Ordered(k, i)
  /\ Kind[rob[k].pc] = "mmio" =>
       /\ f.complete <=> rob[k].complete \/ FromHeu(Index(k), i)
       /\ f.exc <=> rob[k].exc \/ (HeuExc(i) /\ heu.idx = Index(k))

LEMMA UpdateFacts ==
  ASSUME TypesInv, PortsInv, BookInv, EntriesInv, ~cancel,
         NEW i, InputOk(i), NEW k \in DOMAIN rob
  PROVE  Kept(k, i, Updated(k, i))
<1> DEFINE f == Updated(k, i)
           e == rob[k]
<1>1. Fields(k, i, f)
  BY UpdatedFields
<1> HIDE DEF f
<1>2. e \in Entry /\ e.pc \in Pc /\ Honest(e)
  <2>1. rob \in Seq(Entry)
    BY DEF TypesInv
  <2>2. e \in Entry
    BY <2>1
  <2>3. Honest(e)
    BY DEF EntriesInv
  <2> QED BY <2>2, <2>3 DEF Entry
<1>3. /\ Answers(k) => Kind[e.pc] \in CsrKinds
      /\ Answers(k) /\ CsrIllegal => Kind[e.pc] = "csrBad"
      /\ FromHeu(Index(k), i) => k = 1 /\ Kind[e.pc] = "mmio" /\ ~e.complete
      /\ HeuExc(i) /\ heu.idx = Index(k) => FromHeu(Index(k), i)
  BY PortFacts
<1>4. Faults(k, i) => Kind[e.pc] \in {"ld", "st"}
  BY FaultFacts
<1>5. /\ Ran(k, i) => Kind[e.pc] \in {"alu", "ld", "st"}
      /\ Ran(k, i) /\ i.exec[k] = "dirty" => Kind[e.pc] = "st"
  BY DEF Ran, InputOk, Executing, KindAt
<1>6. i.resolve.at = k => Kind[e.pc] = "br"
  <2>1. k # 0
    <3>1. rob \in Seq(Entry)
      BY DEF TypesInv
    <3> QED BY <3>1
  <2> QED BY <2>1 DEF InputOk, Executing, KindAt
<1>7. Ordered(k, i) => Kind[e.pc] = "ld"
  <2>1. e.order => Kind[e.pc] = "ld"
    BY <1>2 DEF Honest
  <2>2. k \in i.dma => Kind[e.pc] = "ld"
    BY DEF InputOk, LiveLoads, KindAt
  <2> QED BY <2>1, <2>2 DEF Ordered
<1>8. "br" \notin CsrKinds /\ "mmio" \notin CsrKinds
  BY DEF CsrKinds
<1>9. Honest(f)
  <2>1. f.pred \in Targets[f.pc] /\ (Kind[f.pc] # "br" => f.succ = Succ[f.pc])
    BY <1>1, <1>2, <1>6 DEF Fields, Honest
  <2>2. f.succ \in Targets[f.pc]
    <3>1. i.resolve.at = k => i.resolve.to \in Targets[e.pc]
      <4>1. k # 0
        <5>1. rob \in Seq(Entry)
          BY DEF TypesInv
        <5> QED BY <5>1
      <4> QED BY <4>1 DEF InputOk
    <3> QED BY <1>1, <1>2, <3>1 DEF Fields, Honest
  <2>3. /\ Kind[f.pc] = "bad" => f.exc
        /\ Kind[f.pc] = "csrBad" /\ f.complete => f.exc
    <3>1. CASE Kind[e.pc] = "bad"
      BY <1>1, <1>2, <3>1 DEF Fields, Honest
    <3>2. CASE Kind[e.pc] = "csrBad" /\ f.complete /\ ~e.exc
      <4>1. ~e.complete
        BY <1>2, <3>2 DEF Honest
      <4>2. Answers(k)
        BY <1>1, <1>3, <1>4, <1>5, <1>6, <3>2, <4>1 DEF Fields
      <4>3. CsrIllegal
        BY <4>2, <3>2 DEF Answers, CsrIllegal, Oldest
      <4> QED BY <1>1, <4>2, <4>3, <3>2 DEF Fields
    <3> QED BY <1>1, <3>1, <3>2 DEF Fields
  <2>4. /\ f.exc => f.complete /\ Kind[f.pc] \in {"bad", "ld", "st", "csrBad", "mmio"}
        /\ f.needsD => f.complete /\ Kind[f.pc] = "st"
        /\ f.order => f.written /\ Kind[f.pc] = "ld"
    BY <1>1, <1>2, <1>3, <1>4, <1>5, <1>7 DEF Fields, Honest
  <2> QED BY <2>1, <2>2, <2>3, <2>4 DEF Honest
<1>10. After(f) = IF i.resolve.at = k THEN i.resolve.to ELSE After(e)
  <2>1. CASE i.resolve.at = k
    BY <1>1, <2>1 DEF Fields, After
  <2>2. CASE i.resolve.at # k /\ (e.complete <=> f.complete)
    BY <1>1, <2>2 DEF Fields, After
  <2>3. CASE i.resolve.at # k /\ ~(e.complete <=> f.complete)
    <3>1. f.complete /\ ~e.complete /\ Kind[e.pc] # "br"
      BY <1>1, <1>3, <1>4, <1>5, <1>8, <2>3 DEF Fields
    <3>2. e.pred = Succ[e.pc] /\ e.succ = Succ[e.pc]
      <4>1. e.pred \in Targets[e.pc] /\ e.succ = Succ[e.pc]
        BY <1>2, <3>1 DEF Honest
      <4>2. Targets[e.pc] = {Succ[e.pc]}
        BY <1>2, <3>1, PlainTarget
      <4> QED BY <4>1, <4>2
    <3> QED BY <1>1, <2>3, <3>1, <3>2 DEF Fields, After
  <2> QED BY <2>1, <2>2, <2>3
<1>11. Kind[e.pc] = "mmio" =>
         /\ f.complete <=> e.complete \/ FromHeu(Index(k), i)
         /\ f.exc <=> e.exc \/ (HeuExc(i) /\ heu.idx = Index(k))
  BY <1>1, <1>3, <1>4, <1>5, <1>6, <1>8 DEF Fields
<1>12. Kept(k, i, f)
  BY <1>1, <1>9, <1>10, <1>11 DEF Kept, Fields
<1> QED BY <1>12 DEF f

-----------------------------------------------------------------------------
(***************************************************************************)
(* What an edge does to the ROB.                                           *)
(***************************************************************************)

(* A new entry goes on where its prediction does.                          *)
LEMMA NewFacts ==
  ASSUME NEW u \in MicroOp, u.pred \in Targets[u.pc]
  PROVE  /\ NewEntry(u) \in Entry /\ Honest(NewEntry(u)) /\ NewEntry(u).pc = u.pc
         /\ After(NewEntry(u)) = u.pred /\ ~NewEntry(u).written
         /\ NewEntry(u).complete => Kind[u.pc] # "mmio"
<1> DEFINE c == Kind[u.pc] = "bad" \/ (Serialize(u.pc) /\ ~IsCsr(u.pc))
           x == Kind[u.pc] = "bad"
           no == FALSE
           f == [pc |-> u.pc, pred |-> u.pred, succ |-> Succ[u.pc], written |-> no,
                 complete |-> c, exc |-> x, needsD |-> no, order |-> no]
<1>1. u.pc \in Pc /\ u.pred \in Pc /\ Succ[u.pc] \in Pc
  BY TargetType DEF MicroOp
<1>2. c \in BOOLEAN /\ x \in BOOLEAN /\ no \in BOOLEAN /\ ~no
  OBVIOUS
<1>3. NewEntry(u) = f
  BY DEF NewEntry
<1>4. c => Kind[u.pc] \notin {"br", "mmio", "csrBad"}
  BY DEF Serialize, SerialKinds, CsrKinds, IsCsr
<1>5. (x <=> Kind[u.pc] = "bad") /\ (x => c)
  OBVIOUS
<1> HIDE DEF c, x, no
<1>6. /\ f \in Entry /\ f.pc = u.pc /\ f.pred = u.pred /\ f.succ = Succ[u.pc] /\ f.written = no
      /\ f.complete = c /\ f.exc = x /\ f.needsD = no /\ f.order = no
  BY <1>1, <1>2 DEF Entry
<1> HIDE DEF f
<1>7. Honest(f)
  <2>1. Succ[u.pc] \in Targets[u.pc]
    BY <1>1, TargetType DEF MicroOp
  <2> QED BY <1>2, <1>4, <1>5, <1>6, <2>1 DEF Honest
<1>8. After(f) = u.pred
  <2>1. CASE c
    <3>1. Targets[u.pc] = {Succ[u.pc]}
      BY <2>1, <1>1, <1>4, PlainTarget
    <3> QED BY <2>1, <3>1, <1>6 DEF After
  <2>2. CASE ~c
    BY <2>2, <1>6 DEF After
  <2> QED BY <2>1, <2>2
<1> QED BY <1>2, <1>3, <1>4, <1>6, <1>7, <1>8

Taken(i) == IF BackendBlock(i) THEN 0 ELSE i.alloc
Stay(i)  == Len(rob) - RetireCount(i)

(* s is the ROB after an edge that does not empty it.                      *)
RobStep(i, s) ==
  /\ s \in Seq(Entry) /\ Len(s) <= NumRob
  /\ Mispredict(i) =>
       /\ Len(s) = i.resolve.at
       /\ \A k \in 1 .. i.resolve.at : Kept(k, i, s[k])
  /\ ~Mispredict(i) =>
       /\ Len(s) = Stay(i) + Taken(i)
       /\ \A k \in 1 .. Stay(i) : Kept(RetireCount(i) + k, i, s[k])
       /\ \A k \in 1 .. Taken(i) : s[Stay(i) + k] = NewEntry(r1[k])

Updates(i) == [k \in DOMAIN rob |-> Updated(k, i)]
News(i)    == [k \in 1 .. Taken(i) |-> Late(NewEntry(r1[k]), Index(Len(rob) + k), i)]

LEMMA NewsFacts ==
  ASSUME TypesInv, PortsInv, EntriesInv, ~cancel, NEW i, InputOk(i)
  PROVE  /\ News(i) \in Seq(Entry) /\ Len(News(i)) = Taken(i) /\ Taken(i) \in 0 .. Len(r1)
         /\ \A k \in 1 .. Taken(i) : News(i)[k] = NewEntry(r1[k])
<1>1. /\ Taken(i) \in 0 .. Len(r1) /\ Len(rob) + Taken(i) <= NumRob
      /\ Len(r1) \in Nat /\ Len(rob) \in Nat
  <2>1. Len(r1) \in Nat /\ Len(rob) \in Nat /\ Len(rob) <= NumRob
    BY DEF TypesInv
  <2>2. i.alloc \in 0 .. Len(r1) /\ Len(rob) + i.alloc <= NumRob
    BY DEF InputOk
  <2> QED BY <2>1, <2>2 DEF Taken
<1>2. ASSUME NEW k \in 1 .. Taken(i)
      PROVE  /\ Late(NewEntry(r1[k]), Index(Len(rob) + k), i) = NewEntry(r1[k])
             /\ NewEntry(r1[k]) \in Entry
  <2>1. k \in DOMAIN r1 /\ r1[k] \in MicroOp
    <3>1. r1 \in Seq(MicroOp) /\ k \in 1 .. Len(r1)
      BY <1>1 DEF TypesInv
    <3> QED BY <3>1
  <2>2. NewEntry(r1[k]) \in Entry
    <3>1. r1[k].pred \in Targets[r1[k].pc]
      BY <2>1 DEF EntriesInv
    <3> QED BY <2>1, <3>1, NewFacts
  <2>3. ~FromHeu(Index(Len(rob) + k), i)
    <3>1. Len(rob) + k \in 1 .. NumRob /\ (Len(rob) + k = 1 => Len(rob) = 0)
      BY <1>1
    <3>2. head \in Ring
      BY DEF TypesInv
    <3>3. /\ Index(Len(rob) + k) \in Ring
          /\ Index(Len(rob) + k) = head => Len(rob) = 0
      BY <3>1, <3>2, IndexFacts
    <3>4. Index(Len(rob) + k) # NoIdx
      BY <3>3, NothingIsNothing DEF Ring
    <3>5. HeadIs({"mmio"}) => Len(rob) # 0
      <4>1. rob \in Seq(Entry)
        BY DEF TypesInv
      <4> QED BY <4>1 DEF HeadIs, HeadValid
    <3>6. w1 = Index(Len(rob) + k) => w1 = head /\ HeadIs({"mmio"})
      BY <3>4 DEF PortsInv, HeuOwnsHead
    <3>7. HeuExc(i) => heu.idx = head /\ HeadIs({"mmio"})
      BY DEF HeuExc, PortsInv, HeuOwnsHead
    <3> QED BY <3>3, <3>5, <3>6, <3>7 DEF FromHeu
  <2> QED BY <2>2, <2>3, LateFacts
<1>3. \A k \in 1 .. Taken(i) : News(i)[k] = NewEntry(r1[k])
  BY <1>2 DEF News
<1>4. News(i) \in [1 .. Taken(i) -> Entry]
  BY <1>2 DEF News
<1>5. News(i) \in Seq(Entry) /\ Len(News(i)) = Taken(i)
  BY <1>1, <1>4
<1> QED BY <1>1, <1>3, <1>5

LEMMA RobFacts ==
  ASSUME TypesInv, PortsInv, BookInv, EntriesInv, ~cancel, NEW i, InputOk(i), Rob(i)
  PROVE  /\ RobStep(i, rob')
         /\ head' = IF Mispredict(i) THEN head ELSE (head + RetireCount(i)) % NumRob
<1> DEFINE u == Updates(i)
           n == RetireCount(i)
<1>1. rob \in Seq(Entry) /\ Len(rob) \in Nat /\ DOMAIN rob = 1 .. Len(rob) /\ Len(rob) <= NumRob
  BY DEF TypesInv
<1>2. \A k \in 1 .. Len(rob) : Kept(k, i, Updated(k, i))
  BY <1>1, UpdateFacts
<1>3. u \in Seq(Entry) /\ Len(u) = Len(rob) /\ \A k \in 1 .. Len(rob) : Kept(k, i, u[k])
  <2>1. \A k \in 1 .. Len(rob) : Updated(k, i) \in Entry
    BY <1>2 DEF Kept
  <2>2. u \in [1 .. Len(rob) -> Entry] /\ \A k \in 1 .. Len(rob) : u[k] = Updated(k, i)
    BY <1>1, <2>1 DEF Updates
  <2> HIDE DEF u
  <2> QED BY <1>1, <1>2, <2>2
<1>4. n \in 0 .. Len(rob)
  BY RetireFacts DEF RetireOk
<1>5. /\ News(i) \in Seq(Entry) /\ Len(News(i)) = Taken(i) /\ Taken(i) \in Nat
      /\ \A k \in 1 .. Taken(i) : News(i)[k] = NewEntry(r1[k])
      /\ Len(rob) + Taken(i) <= NumRob
  <2>1. Len(r1) \in Nat /\ i.alloc \in 0 .. Len(r1) /\ Len(rob) + i.alloc <= NumRob
    BY DEF InputOk, TypesInv
  <2> QED BY <1>1, <2>1, NewsFacts DEF Taken
<1>6. CASE Mispredict(i)
  <2>1. rob' = SubSeq(u, 1, i.resolve.at) /\ head' = head
    BY <1>6 DEF Rob, Updates
  <2>2. i.resolve.at \in 1 .. Len(rob)
    BY <1>1, <1>6 DEF InputOk, Mispredict, Executing
  <2> HIDE DEF u
  <2>3. /\ SubSeq(u, 1, i.resolve.at) \in Seq(Entry)
        /\ Len(SubSeq(u, 1, i.resolve.at)) = i.resolve.at
        /\ \A k \in 1 .. i.resolve.at : SubSeq(u, 1, i.resolve.at)[k] = u[k]
    BY <1>1, <1>3, <2>2
  <2> DEFINE s == SubSeq(u, 1, i.resolve.at)
  <2> HIDE DEF s
  <2>4. s \in Seq(Entry) /\ Len(s) = i.resolve.at /\ \A k \in 1 .. i.resolve.at : s[k] = u[k]
    BY <2>3 DEF s
  <2>5. \A k \in 1 .. i.resolve.at : Kept(k, i, s[k])
    BY <1>1, <1>3, <2>2, <2>4
  <2>6. RobStep(i, s)
    BY <1>1, <1>6, <2>2, <2>4, <2>5 DEF RobStep
  <2> QED BY <1>6, <2>1, <2>6 DEF s
<1>7. CASE ~Mispredict(i)
  <2>1. rob' = SubSeq(u, n + 1, Len(rob)) \o News(i) /\ head' = (head + n) % NumRob
    BY <1>7 DEF Rob, Updates, News, Taken
  <2> DEFINE v == SubSeq(u, n + 1, Len(rob))
             s == v \o News(i)
  <2> HIDE DEF u
  <2>2. /\ v \in Seq(Entry) /\ Len(v) = Len(rob) - n
        /\ \A k \in 1 .. Len(rob) - n : v[k] = u[n + k]
    BY <1>1, <1>3, <1>4, RestOfSeq
  <2> HIDE DEF v
  <2>3. /\ s \in Seq(Entry) /\ Len(s) = Len(v) + Len(News(i))
        /\ \A k \in 1 .. Len(v) + Len(News(i)) :
             s[k] = IF k <= Len(v) THEN v[k] ELSE News(i)[k - Len(v)]
    <3> DEFINE z == News(i)
    <3>1. v \in Seq(Entry) /\ z \in Seq(Entry)
      BY <1>5, <2>2
    <3> HIDE DEF z
    <3>2. /\ v \o z \in Seq(Entry) /\ Len(v \o z) = Len(v) + Len(z)
          /\ \A k \in 1 .. Len(v) + Len(z) :
               (v \o z)[k] = IF k <= Len(v) THEN v[k] ELSE z[k - Len(v)]
      BY <3>1, ConcatProperties
    <3> QED BY <3>2 DEF z
  <2> HIDE DEF s, n
  <2>4. ASSUME NEW k \in 1 .. Len(rob) - n PROVE Kept(n + k, i, s[k])
    <3>1. k \in 1 .. Len(v) + Len(News(i)) /\ k <= Len(v) /\ n + k \in 1 .. Len(rob)
      BY <1>1, <1>4, <1>5, <2>2
    <3>2. s[k] = u[n + k]
      BY <2>2, <2>3, <3>1
    <3> QED BY <1>3, <3>1, <3>2
  <2>5. ASSUME NEW k \in 1 .. Taken(i) PROVE s[(Len(rob) - n) + k] = NewEntry(r1[k])
    <3>1. /\ (Len(rob) - n) + k \in 1 .. Len(v) + Len(News(i)) /\ ~((Len(rob) - n) + k <= Len(v))
          /\ ((Len(rob) - n) + k) - Len(v) = k
      BY <1>1, <1>4, <1>5, <2>2
    <3> QED BY <1>5, <2>3, <3>1
  <2>6. Len(s) = (Len(rob) - n) + Taken(i) /\ Len(s) <= NumRob
    BY <1>1, <1>4, <1>5, <2>2, <2>3
  <2>7. RobStep(i, s)
    BY <1>7, <2>3, <2>4, <2>5, <2>6 DEF RobStep, Stay, n
  <2> QED BY <1>7, <2>1, <2>7 DEF s, n, v
<1> QED BY <1>6, <1>7

-----------------------------------------------------------------------------
(***************************************************************************)
(* What an edge does to rename.                                            *)
(***************************************************************************)

(* The group that enters R1.                                               *)
Took(i) == IF ~blocked /\ ~sleeping /\ ~BackendBlock(i) /\ i.alloc = Len(r1)
           THEN GatePass(i.group) ELSE <<>>

RenameStep(i, r, f, b) ==
  /\ r \in Seq(MicroOp) /\ f \in Pc /\ b \in BOOLEAN
  /\ \A k \in 1 .. Len(r) : r[k].pred \in Targets[r[k].pc]
  /\ BackendBlock(i) =>
       /\ r = <<>> /\ ~b
       /\ f = IF packet # NoPc THEN packet
              ELSE IF Mispredict(i) THEN i.resolve.to ELSE fetchPc
  /\ ~BackendBlock(i) /\ Took(i) = <<>> =>
       /\ Len(r) = Len(r1) - i.alloc /\ \A k \in 1 .. Len(r) : r[k] = r1[i.alloc + k]
       /\ f = fetchPc /\ (b <=> blocked /\ ~SerialRetire(i))
  /\ ~BackendBlock(i) /\ Took(i) # <<>> =>
       /\ ~blocked /\ i.alloc = Len(r1)
       /\ PathFrom(r, fetchPc) /\ f = r[Len(r)].pred
       /\ \A k \in 1 .. Len(r) : BlockYounger(r[k].pc) => k = Len(r) /\ (b \/ SerialRetire(i))

LEMMA TookFacts ==
  ASSUME TypesInv, NEW i, InputOk(i), Took(i) # <<>>
  PROVE  /\ ~blocked /\ ~BackendBlock(i) /\ i.alloc = Len(r1)
         /\ PathFrom(Took(i), fetchPc)
         /\ \A k \in 1 .. Len(Took(i)) : BlockYounger(Took(i)[k].pc) => k = Len(Took(i))
<1>1. ~blocked /\ ~BackendBlock(i) /\ i.alloc = Len(r1) /\ Took(i) = GatePass(i.group)
  BY DEF Took
<1>2. i.group # <<>>
  <2>1. SUFFICES ASSUME i.group = <<>> PROVE FALSE
    OBVIOUS
  <2>2. GatePass(<<>>) = <<>>
    BY DEF GatePass
  <2> QED BY <1>1, <2>1, <2>2
<1>3. PathFrom(i.group, fetchPc)
  <2>1. i.group \in Shown /\ fetchPc \in Pc
    BY <1>2 DEF InputOk, TypesInv
  <2> QED BY <2>1, ShownFacts
<1>4. /\ PathFrom(GatePass(i.group), fetchPc)
      /\ \A k \in 1 .. Len(GatePass(i.group)) :
           BlockYounger(GatePass(i.group)[k].pc) => k = Len(GatePass(i.group))
  BY <1>3, GateFacts
<1> QED BY <1>1, <1>4

LEMMA RenameFacts ==
  ASSUME TypesInv, EntriesInv, NEW i, InputOk(i), RenameEntry(i)
  PROVE  RenameStep(i, r1', fetchPc', blocked')
<1> DEFINE t == Took(i)
<1>1. /\ r1' = IF BackendBlock(i) THEN <<>>
               ELSE IF t # <<>> THEN t ELSE SubSeq(r1, i.alloc + 1, Len(r1))
      /\ blocked' = IF BackendBlock(i) \/ SerialRetire(i) THEN FALSE
                    ELSE blocked \/ \E k \in DOMAIN t : BlockYounger(t[k].pc)
      /\ fetchPc' = IF packet # NoPc THEN packet
                    ELSE IF Mispredict(i) THEN i.resolve.to
                    ELSE IF t # <<>> THEN t[Len(t)].pred
                    ELSE fetchPc
  BY DEF RenameEntry, Block, Took
<1>2. /\ r1 \in Seq(MicroOp) /\ Len(r1) \in Nat /\ fetchPc \in Pc /\ blocked \in BOOLEAN
      /\ packet \in Pc \cup {NoPc} /\ i.alloc \in 0 .. Len(r1)
  BY DEF TypesInv, InputOk
<1>3. Mispredict(i) => i.resolve.to \in Pc
  <2>1. SUFFICES ASSUME Mispredict(i) PROVE i.resolve.to \in Pc
    OBVIOUS
  <2>2. i.resolve.at \in DOMAIN rob /\ i.resolve.to \in Targets[rob[i.resolve.at].pc]
    BY <2>1 DEF Mispredict, InputOk, Executing
  <2>3. rob[i.resolve.at].pc \in Pc
    <3>1. rob \in Seq(Entry)
      BY DEF TypesInv
    <3>2. rob[i.resolve.at] \in Entry
      BY <2>2, <3>1
    <3> QED BY <3>2 DEF Entry
  <2> QED BY <2>2, <2>3, TargetType
<1>4. ~BackendBlock(i) => packet = NoPc /\ ~Mispredict(i)
  BY DEF BackendBlock
<1>5. CASE BackendBlock(i)
  <2>1. t = <<>>
    BY <1>5 DEF Took
  <2>2. r1' = <<>> /\ blocked' = FALSE
    BY <1>1, <1>5
  <2>3. fetchPc' = IF packet # NoPc THEN packet
                   ELSE IF Mispredict(i) THEN i.resolve.to ELSE fetchPc
    BY <1>1, <2>1
  <2>4. fetchPc' \in Pc
    BY <1>2, <1>3, <2>3
  <2>5. r1' \in Seq(MicroOp) /\ Len(r1') = 0
    BY <2>2
  <2>6. blocked' \in BOOLEAN /\ ~blocked'
    BY <2>2
  <2>7. \A k \in 1 .. Len(r1') : r1'[k].pred \in Targets[r1'[k].pc]
    BY <2>5
  <2> QED BY <1>5, <2>2, <2>3, <2>4, <2>5, <2>6, <2>7 DEF RenameStep
<1>6. CASE ~BackendBlock(i) /\ t = <<>>
  <2> DEFINE r == SubSeq(r1, i.alloc + 1, Len(r1))
  <2>1. r1' = r /\ fetchPc' = fetchPc
    BY <1>1, <1>4, <1>6
  <2>2. blocked' = IF SerialRetire(i) THEN FALSE ELSE blocked
    <3>1. DOMAIN t = {}
      BY <1>6
    <3> HIDE DEF t
    <3> QED BY <1>1, <1>2, <1>6, <3>1
  <2>3. /\ r \in Seq(MicroOp) /\ Len(r) = Len(r1) - i.alloc
        /\ \A k \in 1 .. Len(r) : r[k] = r1[i.alloc + k]
    BY <1>2, RestOfSeq
  <2> HIDE DEF r
  <2>4. \A k \in 1 .. Len(r) : r[k].pred \in Targets[r[k].pc]
    <3>1. \A k \in 1 .. Len(r) : i.alloc + k \in DOMAIN r1
      BY <1>2, <2>3
    <3> QED BY <2>3, <3>1 DEF EntriesInv
  <2>5. blocked' \in BOOLEAN /\ (blocked' <=> blocked /\ ~SerialRetire(i))
    <3>1. CASE SerialRetire(i)
      BY <2>2, <3>1
    <3>2. CASE ~SerialRetire(i)
      BY <1>2, <2>2, <3>2
    <3> QED BY <3>1, <3>2
  <2> QED BY <1>2, <1>6, <2>1, <2>3, <2>4, <2>5 DEF RenameStep
<1>7. CASE ~BackendBlock(i) /\ t # <<>>
  <2>1. /\ ~blocked /\ i.alloc = Len(r1) /\ PathFrom(t, fetchPc)
        /\ \A k \in 1 .. Len(t) : BlockYounger(t[k].pc) => k = Len(t)
    BY <1>7, TookFacts
  <2>2. r1' = t /\ fetchPc' = t[Len(t)].pred
    BY <1>1, <1>4, <1>7
  <2>3. blocked' = IF SerialRetire(i) THEN FALSE ELSE \E k \in DOMAIN t : BlockYounger(t[k].pc)
    BY <1>1, <1>7, <2>1
  <2> HIDE DEF t
  <2>4. /\ t \in Seq(MicroOp) /\ Len(t) \in Nat \ {0} /\ DOMAIN t = 1 .. Len(t)
        /\ \A k \in 1 .. Len(t) : t[k].pred \in Targets[t[k].pc]
    BY <2>1 DEF PathFrom
  <2>5. t[Len(t)].pred \in Pc
    <3>1. t[Len(t)] \in MicroOp
      BY <2>4
    <3> QED BY <3>1 DEF MicroOp
  <2>6. blocked' \in BOOLEAN
    BY <2>3
  <2>7. \A k \in 1 .. Len(t) : BlockYounger(t[k].pc) => k = Len(t) /\ (blocked' \/ SerialRetire(i))
    <3>1. ASSUME NEW k \in 1 .. Len(t), BlockYounger(t[k].pc), ~SerialRetire(i)
          PROVE  blocked'
      <4>1. blocked' <=> \E j \in DOMAIN t : BlockYounger(t[j].pc)
        BY <2>3, <3>1
      <4>2. \E j \in DOMAIN t : BlockYounger(t[j].pc)
        BY <2>4, <3>1
      <4> QED BY <4>1, <4>2
    <3> QED BY <2>1, <3>1
  <2>8. Took(i) # <<>>
    BY <1>7 DEF t
  <2> DEFINE f == t[Len(t)].pred
  <2> HIDE DEF f
  <2>9. fetchPc' = f /\ f \in Pc
    BY <2>2, <2>5 DEF f
  <2>10. RenameStep(i, t, f, blocked')
    <3>1. PICK b \in BOOLEAN : b = blocked'
      BY <2>6
    <3>2. \A k \in 1 .. Len(t) : BlockYounger(t[k].pc) => k = Len(t) /\ (b \/ SerialRetire(i))
      BY <2>7, <3>1
    <3>3. f = t[Len(t)].pred
      BY DEF f
    <3>4. RenameStep(i, t, f, b)
      <4>1. ~BackendBlock(i)
        BY <1>7
      <4>2. t \in Seq(MicroOp) /\ f \in Pc /\ \A k \in 1 .. Len(t) : t[k].pred \in Targets[t[k].pc]
        BY <2>4, <2>9
      <4>3. ~blocked /\ i.alloc = Len(r1) /\ PathFrom(t, fetchPc)
        BY <2>1
      <4> QED BY <2>8, <3>1, <3>2, <3>3, <4>1, <4>2, <4>3, Zenon DEF RenameStep
    <3> QED BY <3>1, <3>4
  <2> QED BY <2>2, <2>9, <2>10
<1> QED BY <1>5, <1>6, <1>7

-----------------------------------------------------------------------------
(***************************************************************************)
(* Recovery.                                                               *)
(***************************************************************************)

LEMMA OldestFacts ==
  ASSUME TypesInv, EntriesInv, rob # <<>>
  PROVE  /\ Len(rob) \in Nat \ {0} /\ 1 \in DOMAIN rob /\ Oldest = rob[1]
         /\ Oldest \in Entry /\ Honest(Oldest)
         /\ Oldest.pc \in Pc /\ Oldest.pred \in Pc /\ Oldest.succ \in Pc
<1>1. rob \in Seq(Entry)
  BY DEF TypesInv
<1>2. Len(rob) \in Nat \ {0} /\ 1 \in DOMAIN rob /\ rob[1] \in Entry
  BY <1>1
<1>3. Honest(rob[1])
  BY <1>2 DEF EntriesInv
<1> QED BY <1>2, <1>3 DEF Oldest, Entry

(* A recovery in progress keeps everything else from the boundary.         *)
LEMMA BusyFacts ==
  ASSUME TypesInv, RecoveryInv, TrapBusy, NEW i
  PROVE  /\ RetireCount(i) = 0 /\ TrapReq(i) = NoTrap /\ ~FlushAll(i) /\ Redirect(i) = trapPc
         /\ ~SerialRetire(i) /\ ~CsrAdmit(i) /\ ~CsrWrite /\ ~FeSync(i) /\ ~SfenceReq(i)
         /\ ~StDReq /\ ~HeuStart(i) /\ BackendBlock(i)
<1>1. RetireCount(i) = 0
  BY DEF RetireCount, CommitBlock
<1>2. ~SerialRetire(i) /\ ~Refetch(i) /\ ~HeadRetires({"mret"}, i)
  BY <1>1 DEF SerialRetire, Refetch, HeadRetires
<1>3. ~IrqAccept(i)
  BY DEF IrqAccept
<1>4. TrapReq(i) = NoTrap
  BY <1>2, <1>3 DEF TrapReq
<1>5. ~cc.serialDone
  BY DEF RecoveryInv, Idle
<1>6. ~FlushAll(i) /\ Redirect(i) = trapPc
  BY <1>2, <1>4, <1>5 DEF FlushAll, Redirect
<1>7. ~CsrAdmit(i) /\ ~FeSync(i) /\ ~SfenceReq(i) /\ ~StDReq /\ ~HeuStart(i)
  BY DEF CsrAdmit, FeSync, SfenceReq, StDReq, HeuStart
<1>8. ~CsrWrite
  BY DEF CsrWrite, CsrAnswer, RecoveryInv
<1>9. BackendBlock(i)
  BY DEF BackendBlock, TrapBusy
<1> QED BY <1>1, <1>2, <1>4, <1>6, <1>7, <1>8, <1>9

(* What starts a recovery.                                                 *)
LEMMA CalmFacts ==
  ASSUME TypesInv, EntriesInv, ~TrapBusy, NEW i
  PROVE  /\ trapQ = NoTrap /\ trapPc = NoPc /\ ~cancel /\ packet = NoPc
         /\ TrapReq(i) # NoTrap => FlushAll(i)
         /\ Redirect(i) # NoPc => FlushAll(i)
         /\ FlushAll(i) => TrapReq(i) # NoTrap \/ Redirect(i) # NoPc
         /\ BackendBlock(i) <=> Mispredict(i)
<1>1. trapQ = NoTrap /\ trapPc = NoPc /\ ~cancel /\ packet = NoPc
  BY DEF TrapBusy, TrapInflight
<1>2. Redirect(i) # NoPc => FlushAll(i)
  BY <1>1 DEF Redirect, FlushAll
<1>3. OrderFlush(i) => Oldest.pc \in Pc
  BY OldestFacts DEF OrderFlush
<1>4. Refetch(i) => Oldest.succ \in Pc
  <2>1. SUFFICES ASSUME Refetch(i) PROVE rob # <<>>
    BY OldestFacts
  <2>2. RetireCount(i) \in 0 .. Len(rob)
    BY RetireFacts DEF RetireOk
  <2>3. RetireCount(i) # 0
    BY <2>1, <2>2 DEF Refetch, HeadRetires, SerialRetire
  <2> QED BY <2>2, <2>3
<1>5. FlushAll(i) => TrapReq(i) # NoTrap \/ Redirect(i) # NoPc
  BY <1>3, <1>4, NothingIsNothing DEF FlushAll, Redirect
<1> QED BY <1>1, <1>2, <1>5 DEF FlushAll, BackendBlock, TrapInflight

(* A recovery leaves an empty machine at the boundary it announces.        *)
LEMMA BusyEmpties ==
  ASSUME CommitInv, TrapBusy, NEW i \in Inputs, Cycle(i)
  PROVE  rob' = <<>> /\ r1' = <<>> /\ ~blocked' /\ (~TrapBusy' => npc' = fetchPc')
<1>0. TypesInv /\ RecoveryInv /\ EntriesInv /\ PortsInv /\ BookInv /\ InputOk(i)
  BY InputFacts DEF CommitInv
<1>1. RetireCount(i) = 0 /\ Redirect(i) = trapPc /\ BackendBlock(i)
  BY <1>0, BusyFacts
<1>2. RenameStep(i, r1', fetchPc', blocked')
  BY <1>0, RenameFacts DEF Cycle
<1>3. /\ r1' = <<>> /\ ~blocked'
      /\ packet # NoPc => fetchPc' = packet
  BY <1>1, <1>2 DEF RenameStep
<1>4. CASE cancel
  <2>1. rob' = <<>>
    BY <1>4 DEF Cycle, Rob
  <2>2. ~TrapBusy' => npc' = fetchPc'
    <3>1. SUFFICES ASSUME ~TrapBusy' PROVE npc' = fetchPc'
      OBVIOUS
    <3>2. trapPc = NoPc /\ Redirect(i) = NoPc
      BY <1>0, <1>1, <1>4 DEF RecoveryInv
    <3>3. trapPc' = NoPc
      BY <3>1 DEF TrapBusy, TrapInflight
    <3>4. trapQ = NoTrap
      <4>1. csr.mepc \in Pc
        BY <1>0 DEF TypesInv
      <4>2. trapPc' = IF trapQ = NoTrap THEN NoPc
                      ELSE IF trapQ.type = "xret" THEN csr.mepc ELSE Vector
        BY DEF Cycle, TrapCtrl
      <4> QED BY <3>3, <4>1, <4>2, ProgramAssumption, NothingIsNothing
    <3>5. packet # NoPc /\ npc = packet
      BY <1>0, <1>4, <3>4 DEF RecoveryInv
    <3>6. npc' = npc
      BY <1>1, <3>2 DEF Cycle, CommittedNext
    <3> QED BY <1>3, <3>5, <3>6
  <2> QED BY <1>3, <2>1, <2>2
<1>5. CASE ~cancel
  <2>1. rob = <<>> /\ trapQ = NoTrap
    BY <1>0, <1>5 DEF RecoveryInv
  <2>2. rob' = <<>>
    <3>1. ~Mispredict(i)
      BY <1>0, <2>1 DEF Mispredict, InputOk, Executing
    <3>2. RobStep(i, rob')
      BY <1>0, <1>5, RobFacts DEF Cycle
    <3>3. Taken(i) = 0 /\ Stay(i) = 0
      BY <1>1, <2>1 DEF Taken, Stay
    <3>4. Len(rob') = 0 /\ rob' \in Seq(Entry)
      BY <3>1, <3>2, <3>3 DEF RobStep
    <3> QED BY <3>4
  <2>3. ~TrapBusy' => npc' = fetchPc'
    <3>1. SUFFICES ASSUME ~TrapBusy' PROVE npc' = fetchPc'
      OBVIOUS
    <3>2. packet' = Redirect(i) /\ packet' = NoPc
      BY <3>1 DEF Cycle, RecoveryBoundary, TrapBusy
    <3>3. trapPc = NoPc
      BY <1>1, <3>2
    <3>4. packet # NoPc
      BY <1>5, <2>1, <3>3 DEF TrapBusy, TrapInflight
    <3>5. npc = packet
      BY <1>0, <3>4 DEF RecoveryInv
    <3>6. npc' = npc
      BY <1>1, <3>2 DEF Cycle, CommittedNext
    <3> QED BY <1>3, <3>4, <3>5, <3>6
  <2> QED BY <1>3, <2>2, <2>3
<1> QED BY <1>4, <1>5

(* A recovery goes on from stage to stage.                                 *)
LEMMA RecoveryNext ==
  ASSUME CommitInv, NEW i \in Inputs, Cycle(i)
  PROVE  RecoveryInv'
<1>0. TypesInv /\ RecoveryInv /\ EntriesInv /\ PortsInv /\ BookInv /\ InputOk(i)
  BY InputFacts DEF CommitInv
<1>1. /\ trapQ' = TrapReq(i) /\ cancel' = FlushAll(i) /\ packet' = Redirect(i)
      /\ trapPc' = IF trapQ = NoTrap THEN NoPc
                   ELSE IF trapQ.type = "xret" THEN csr.mepc ELSE Vector
      /\ packet' # NoPc => npc' = packet'
      /\ csrReq' = (~cancel /\ ~csrReq /\ CsrAdmit(i))
  BY DEF Cycle, TrapCtrl, RecoveryBoundary, CommittedNext, CsrRequest
<1>2. CASE TrapBusy
  <2>1. /\ RetireCount(i) = 0 /\ TrapReq(i) = NoTrap /\ ~FlushAll(i) /\ Redirect(i) = trapPc
        /\ ~SerialRetire(i) /\ ~CsrAdmit(i) /\ ~CsrWrite /\ ~FeSync(i) /\ ~SfenceReq(i)
        /\ ~StDReq
    BY <1>0, <1>2, BusyFacts
  <2>2. cc = Idle
    BY <1>0, <1>2 DEF RecoveryInv
  <2>3. cc' = Idle
    BY <2>1, <2>2 DEF Cycle, CommitCtrl, Idle
  <2>4. rob' = <<>> /\ r1' = <<>> /\ ~blocked'
    BY <1>2, BusyEmpties
  <2>5. ~csrReq' /\ ~cancel' /\ trapQ' = NoTrap
    BY <1>1, <2>1
  <2> QED BY <1>1, <2>3, <2>4, <2>5 DEF RecoveryInv
<1>3. CASE ~TrapBusy
  <2>1. /\ trapQ = NoTrap
        /\ TrapReq(i) # NoTrap => FlushAll(i)
        /\ Redirect(i) # NoPc => FlushAll(i)
        /\ FlushAll(i) => TrapReq(i) # NoTrap \/ Redirect(i) # NoPc
    BY <1>0, <1>3, CalmFacts
  <2>2. trapPc' = NoPc /\ (cancel' <=> FlushAll(i))
    BY <1>1, <2>1
  <2>3. TrapBusy' => FlushAll(i)
    BY <1>1, <2>1, <2>2 DEF TrapBusy, TrapInflight
  <2>4. FlushAll(i) => cc' = Idle
    BY DEF Cycle, CommitCtrl
  <2> QED BY <1>1, <2>1, <2>2, <2>3, <2>4 DEF RecoveryInv
<1> QED BY <1>2, <1>3

-----------------------------------------------------------------------------
(***************************************************************************)
(* Types.                                                                  *)
(***************************************************************************)

LEMMA StoresType ==
  ASSUME NEW S, NEW s \in Seq(S)
  PROVE  StoresIn(s) \in Nat
<1>1. IsFiniteSet(1 .. Len(s)) /\ DOMAIN s = 1 .. Len(s)
  BY FS_Interval
<1> DEFINE T == {k \in DOMAIN s : Kind[s[k].pc] = "st"}
<1>2. T \subseteq 1 .. Len(s)
  BY <1>1
<1>3. IsFiniteSet(T)
  BY <1>1, <1>2, FS_Subset
<1> QED BY <1>3, FS_CardinalityType DEF StoresIn

LEMMA HeuType ==
  ASSUME TypesInv, NEW i, HeadUnit(i)
  PROVE  heu' \in [state : {"idle", "check", "mmio", "wait", "result", "exc"},
                   irrev : BOOLEAN, idx : Ring]
<1> DEFINE H == [state : {"idle", "check", "mmio", "wait", "result", "exc"},
                 irrev : BOOLEAN, idx : Ring]
           yes == TRUE
           no == FALSE
           v == heu.irrev \/ bus # "idle"
<1>1. heu \in H /\ head \in Ring
  BY DEF TypesInv
<1>2. yes \in BOOLEAN /\ no \in BOOLEAN /\ v \in BOOLEAN
  OBVIOUS
<1>3. heu' = IF cancel /\ ~Irreversible THEN [heu EXCEPT !.state = "idle", !.irrev = no]
         ELSE CASE heu.state = "idle" ->
                     IF HeuStart(i) THEN [state |-> "check", irrev |-> no, idx |-> head]
                     ELSE [heu EXCEPT !.irrev = v]
                [] heu.state = "check" ->
                     [heu EXCEPT !.state = IF i.heu = "go" THEN "mmio"
                                           ELSE IF i.heu = "fault" THEN "exc" ELSE heu.state]
                [] heu.state = "mmio" ->
                     IF MmioSend THEN [heu EXCEPT !.state = "wait", !.irrev = yes] ELSE heu
                [] heu.state = "wait" ->
                     [heu EXCEPT !.state = IF bus = "resp" THEN "result"
                                           ELSE IF bus = "error" THEN "exc" ELSE heu.state]
                [] heu.state = "result" ->
                     IF i.heu = "go" /\ ~cancel THEN [heu EXCEPT !.state = "idle", !.irrev = no]
                     ELSE heu
                [] OTHER -> IF HeuExc(i) THEN [heu EXCEPT !.state = "idle", !.irrev = no] ELSE heu
  BY DEF HeadUnit
<1> HIDE DEF yes, no, v
<1> QED BY <1>1, <1>2, <1>3

LEMMA TypesNext ==
  ASSUME CommitInv, NEW i \in Inputs, Cycle(i)
  PROVE  TypesInv'
<1>0. TypesInv /\ RecoveryInv /\ EntriesInv /\ PortsInv /\ BookInv /\ InputOk(i)
  BY InputFacts DEF CommitInv
<1>1. rob' \in Seq(Entry) /\ Len(rob') <= NumRob /\ head' \in Ring
  <2>1. CASE cancel
    <3>1. rob' = <<>> /\ head' = 0
      BY <2>1 DEF Cycle, Rob
    <3>2. rob' \in Seq(Entry) /\ Len(rob') = 0
      BY <3>1
    <3> QED BY <3>1, <3>2 DEF Ring
  <2>2. CASE ~cancel
    <3>1. /\ RobStep(i, rob')
          /\ head' = IF Mispredict(i) THEN head ELSE (head + RetireCount(i)) % NumRob
      BY <1>0, <2>2, RobFacts DEF Cycle
    <3>2. head \in Ring /\ RetireCount(i) \in 0 .. NumRob
      <4>1. RetireCount(i) \in 0 .. Len(rob)
        BY <1>0, RetireFacts DEF RetireOk
      <4>2. head \in Ring /\ Len(rob) <= NumRob /\ Len(rob) \in Nat
        BY <1>0 DEF TypesInv
      <4> QED BY <4>1, <4>2
    <3>3. (head + RetireCount(i)) % NumRob \in Ring
      BY <3>2, HeadAdvance
    <3>4. head' \in Ring
      BY <3>1, <3>2, <3>3
    <3> QED BY <3>1, <3>4 DEF RobStep
  <2> QED BY <2>1, <2>2
<1>2. r1' \in Seq(MicroOp) /\ fetchPc' \in Pc /\ blocked' \in BOOLEAN
  <2>1. RenameStep(i, r1', fetchPc', blocked')
    BY <1>0, RenameFacts DEF Cycle
  <2> QED BY <2>1 DEF RenameStep
<1>3. OrderFlush(i) => Oldest.pc \in Pc
  BY <1>0, OldestFacts DEF OrderFlush
<1>4. Refetch(i) => Oldest.succ \in Pc
  <2>1. SUFFICES ASSUME Refetch(i) PROVE rob # <<>>
    BY <1>0, OldestFacts
  <2>2. RetireCount(i) \in 0 .. Len(rob)
    BY <1>0, RetireFacts DEF RetireOk
  <2>3. RetireCount(i) # 0
    BY <2>1, <2>2 DEF Refetch, HeadRetires, SerialRetire
  <2> QED BY <2>2, <2>3
<1>5. Redirect(i) \in Pc \cup {NoPc}
  <2>1. trapPc \in Pc \cup {NoPc}
    BY <1>0 DEF TypesInv
  <2> QED BY <1>3, <1>4, <2>1 DEF Redirect
<1>6. packet' \in Pc \cup {NoPc} /\ npc' \in Pc
  <2>1. RetireCount(i) > 0 => rob[RetireCount(i)].succ \in Pc
    <3>1. SUFFICES ASSUME RetireCount(i) > 0 PROVE rob[RetireCount(i)].succ \in Pc
      OBVIOUS
    <3>2. RetireCount(i) \in 0 .. Len(rob)
      BY <1>0, RetireFacts DEF RetireOk
    <3>3. rob \in Seq(Entry) /\ Len(rob) \in Nat
      BY <1>0 DEF TypesInv
    <3>4. RetireCount(i) \in 1 .. Len(rob)
      BY <3>1, <3>2, <3>3
    <3>5. rob[RetireCount(i)] \in Entry
      BY <3>3, <3>4
    <3> QED BY <3>5 DEF Entry
  <2>2. packet' = Redirect(i) /\ npc \in Pc
    BY <1>0 DEF Cycle, RecoveryBoundary, TypesInv
  <2>3. npc' = IF Redirect(i) # NoPc THEN Redirect(i)
               ELSE IF RetireCount(i) > 0 THEN rob[RetireCount(i)].succ ELSE npc
    BY DEF Cycle, CommittedNext
  <2> QED BY <1>5, <2>1, <2>2, <2>3
<1>7. cc' \in [serialDone : BOOLEAN, csrDone : BOOLEAN, syncSent : BOOLEAN, refetch : BOOLEAN,
               sfSent : BOOLEAN, sfDone : BOOLEAN, dSent : BOOLEAN]
  <2>1. CASE SerialRetire(i) \/ FlushAll(i)
    <3>1. cc' = Idle
      BY <2>1 DEF Cycle, CommitCtrl
    <3> QED BY <3>1 DEF Idle
  <2>2. CASE ~(SerialRetire(i) \/ FlushAll(i))
    <3> DEFINE a == IF cc.syncSent /\ fe.state = "done" THEN TRUE
                    ELSE IF CsrWrite THEN Kind[Oldest.pc] # "satp" ELSE cc.serialDone
               b == cc.csrDone \/ CsrWrite
               c == IF CsrWrite THEN Kind[Oldest.pc] = "satp" ELSE cc.refetch
               d == cc.syncSent \/ (FeSync(i) /\ fe.state = "idle")
               e == cc.sfSent \/ SfenceReq(i)
               f == cc.sfDone \/ (cc.sfSent /\ i.sfAck)
               g == NeedsD /\ (cc.dSent \/ StDReq)
    <3>1. cc' = [serialDone |-> a, csrDone |-> b, refetch |-> c, syncSent |-> d,
                 sfSent |-> e, sfDone |-> f, dSent |-> g]
      BY <2>2 DEF Cycle, CommitCtrl
    <3>2. a \in BOOLEAN /\ b \in BOOLEAN /\ c \in BOOLEAN /\ d \in BOOLEAN
          /\ e \in BOOLEAN /\ f \in BOOLEAN /\ g \in BOOLEAN
      BY <1>0 DEF TypesInv
    <3> HIDE DEF a, b, c, d, e, f, g
    <3> QED BY <3>1, <3>2
  <2> QED BY <2>1, <2>2
<1>8. csrReq' \in BOOLEAN /\ cancel' \in BOOLEAN
  <2>1. csrReq' \in BOOLEAN
    BY DEF Cycle, CsrRequest
  <2>2. cancel' \in BOOLEAN
    BY DEF Cycle, RecoveryBoundary, FlushAll
  <2> QED BY <2>1, <2>2
<1>9. trapQ' \in Trap \cup {NoTrap}
  <2>1. SyncTrap => Oldest.pc \in Pc
    BY <1>0, OldestFacts DEF SyncTrap, HeadValid
  <2>2. HeadRetires({"mret"}, i) => Oldest.pc \in Pc
    <3>1. RetireCount(i) \in 0 .. Len(rob)
      BY <1>0, RetireFacts DEF RetireOk
    <3>2. HeadRetires({"mret"}, i) => rob # <<>>
      BY <3>1 DEF HeadRetires
    <3> QED BY <1>0, <3>2, OldestFacts
  <2>3. npc \in Pc
    BY <1>0 DEF TypesInv
  <2>4. TrapReq(i) \in Trap \cup {NoTrap}
    BY <2>1, <2>2, <2>3 DEF TrapReq, Trap
  <2> QED BY <2>4 DEF Cycle, TrapCtrl
<1>10. trapPc' \in Pc \cup {NoPc}
  <2>1. csr.mepc \in Pc
    BY <1>0 DEF TypesInv
  <2>2. trapPc' = IF trapQ = NoTrap THEN NoPc
                  ELSE IF trapQ.type = "xret" THEN csr.mepc ELSE Vector
    BY DEF Cycle, TrapCtrl
  <2>3. Vector \in Pc
    BY ProgramAssumption
  <2> QED BY <2>1, <2>2, <2>3
<1>11. csr' \in [ie : BOOLEAN, mpie : BOOLEAN, mepc : Pc]
  <2>1. csr \in [ie : BOOLEAN, mpie : BOOLEAN, mepc : Pc]
    BY <1>0 DEF TypesInv
  <2>2. trapQ # NoTrap => trapQ.epc \in Pc
    BY <1>0 DEF TypesInv, Trap
  <2> DEFINE yes == TRUE
             on == (Kind[Oldest.pc] = "csrOn")
  <2>3. csr' = IF trapQ # NoTrap
               THEN IF trapQ.type = "xret"
                    THEN [csr EXCEPT !.ie = csr.mpie, !.mpie = yes]
                    ELSE [ie |-> ~yes, mpie |-> csr.ie, mepc |-> trapQ.epc]
               ELSE IF CsrWrite /\ Kind[Oldest.pc] \in {"csrOn", "csrOff"}
               THEN [csr EXCEPT !.ie = on]
               ELSE csr
    BY DEF Cycle, CsrFile
  <2>4. yes \in BOOLEAN /\ on \in BOOLEAN /\ (~yes) \in BOOLEAN
    OBVIOUS
  <2> HIDE DEF yes, on
  <2> QED BY <2>1, <2>2, <2>3, <2>4
<1>12. sq' \in Nat
  <2>1. rob \in Seq(Entry) /\ RetireCount(i) \in 0 .. Len(rob) /\ sq \in Nat
    BY <1>0, RetireFacts DEF RetireOk, TypesInv
  <2>2. SubSeq(rob, 1, RetireCount(i)) \in Seq(Entry)
    BY <2>1
  <2>3. StoresIn(SubSeq(rob, 1, RetireCount(i))) \in Nat
    BY <2>2, StoresType
  <2>4. i.drain => sq > 0
    BY <1>0 DEF InputOk
  <2>5. sq' = sq + StoresIn(SubSeq(rob, 1, RetireCount(i))) - (IF i.drain THEN 1 ELSE 0)
    BY DEF Cycle, StoreDrain
  <2> QED BY <2>1, <2>3, <2>4, <2>5
<1>13. fe' \in [state : {"idle", "wait", "inv", "done"}, kind : {"refetch", "fencei", "sfence"}]
  <2>1. fe \in [state : {"idle", "wait", "inv", "done"}, kind : {"refetch", "fencei", "sfence"}]
    BY <1>0 DEF TypesInv
  <2>2. FeSync(i) => FeKind(i) \in {"refetch", "fencei", "sfence"}
    BY DEF FeSync, FeKind, HeadIs
  <2>3. fe' = CASE fe.state = "idle" ->
               IF FeSync(i) THEN [state |-> "wait", kind |-> FeKind(i)] ELSE fe
          [] fe.state = "wait" ->
               IF ~i.feAck THEN fe
               ELSE [fe EXCEPT !.state = IF fe.kind = "refetch" THEN "done" ELSE "inv"]
          [] fe.state = "inv"  -> IF i.feAck THEN [fe EXCEPT !.state = "done"] ELSE fe
          [] OTHER -> [state |-> "idle", kind |-> "refetch"]
    BY DEF Cycle, FrontendSync
  <2> QED BY <2>1, <2>2, <2>3
<1>14. bus' \in {"idle", "issue", "resp", "error"}
  BY <1>0 DEF Cycle, MmioMaster, TypesInv
<1>15. heu' \in [state : {"idle", "check", "mmio", "wait", "result", "exc"},
                 irrev : BOOLEAN, idx : Ring]
  BY <1>0, HeuType DEF Cycle, TypesInv
<1>16. w1' \in Ring \cup {NoIdx}
  BY <1>0 DEF Cycle, HeuResult, TypesInv
<1> QED
  BY <1>1, <1>2, <1>6, <1>7, <1>8, <1>9, <1>10, <1>11, <1>12, <1>13, <1>14, <1>15, <1>16
     DEF TypesInv

-----------------------------------------------------------------------------
(***************************************************************************)
(* The path in flight.                                                     *)
(***************************************************************************)

LEMMA EntriesNext ==
  ASSUME CommitInv, NEW i \in Inputs, Cycle(i)
  PROVE  EntriesInv'
<1>0. TypesInv /\ EntriesInv /\ PortsInv /\ BookInv /\ InputOk(i)
  BY InputFacts DEF CommitInv
<1>1. ASSUME NEW k \in DOMAIN rob' PROVE Honest(rob'[k])
  <2>1. CASE cancel
    <3>1. rob' = <<>>
      BY <2>1 DEF Cycle, Rob
    <3> QED BY <1>1, <3>1
  <2>2. CASE ~cancel
    <3>1. RobStep(i, rob')
      BY <1>0, <2>2, RobFacts DEF Cycle
    <3>2. rob' \in Seq(Entry) /\ k \in 1 .. Len(rob')
      BY <1>1, <3>1 DEF RobStep
    <3>3. CASE Mispredict(i)
      <4>1. Kept(k, i, rob'[k])
        BY <3>1, <3>2, <3>3 DEF RobStep
      <4> QED BY <4>1 DEF Kept
    <3>4. CASE ~Mispredict(i)
      <4>1. /\ Len(rob') = Stay(i) + Taken(i)
            /\ \A j \in 1 .. Stay(i) : Kept(RetireCount(i) + j, i, rob'[j])
            /\ \A j \in 1 .. Taken(i) : rob'[Stay(i) + j] = NewEntry(r1[j])
        BY <3>1, <3>4 DEF RobStep
      <4>2. Stay(i) \in Nat /\ Taken(i) \in 0 .. Len(r1) /\ Len(r1) \in Nat
        <5>1. RetireCount(i) \in 0 .. Len(rob) /\ Len(rob) \in Nat /\ Len(r1) \in Nat
          BY <1>0, RetireFacts DEF RetireOk, TypesInv
        <5>2. Taken(i) \in 0 .. Len(r1)
          BY <1>0, <2>2, NewsFacts
        <5> QED BY <5>1, <5>2 DEF Stay
      <4>3. CASE k <= Stay(i)
        <5>1. k \in 1 .. Stay(i)
          BY <3>2, <4>2, <4>3
        <5> QED BY <4>1, <5>1 DEF Kept
      <4>4. CASE ~(k <= Stay(i))
        <5> DEFINE j == k - Stay(i)
        <5>1. j \in 1 .. Taken(i) /\ k = Stay(i) + j /\ j \in 1 .. Len(r1)
          BY <3>2, <4>1, <4>2, <4>4
        <5>2. rob'[k] = NewEntry(r1[j])
          BY <4>1, <5>1
        <5>3. r1[j] \in MicroOp /\ r1[j].pred \in Targets[r1[j].pc]
          <6>1. r1 \in Seq(MicroOp)
            BY <1>0 DEF TypesInv
          <6>2. r1[j] \in MicroOp /\ j \in DOMAIN r1
            BY <5>1, <6>1
          <6> QED BY <1>0, <6>2 DEF EntriesInv
        <5> QED BY <5>2, <5>3, NewFacts
      <4> QED BY <4>3, <4>4
    <3> QED BY <3>3, <3>4
  <2> QED BY <2>1, <2>2
<1>2. RenameStep(i, r1', fetchPc', blocked')
  BY <1>0, RenameFacts DEF Cycle
<1>3. \A k \in DOMAIN r1' : r1'[k].pred \in Targets[r1'[k].pc]
  <2>1. r1' \in Seq(MicroOp) /\ \A k \in 1 .. Len(r1') : r1'[k].pred \in Targets[r1'[k].pc]
    BY <1>2 DEF RenameStep
  <2> QED BY <2>1
<1> QED BY <1>1, <1>3 DEF EntriesInv

(* Between recoveries, without a misprediction: every entry that stays     *)
(* moves up, goes on where it did, and R1 hands its oldest over.           *)
Moved(i) ==
  /\ RetireCount(i) \in 0 .. Len(rob) /\ Stay(i) = Len(rob) - RetireCount(i)
  /\ i.alloc \in 0 .. Len(r1) /\ Len(rob) \in Nat /\ Len(r1) \in Nat
  /\ Len(rob') = Stay(i) + i.alloc
  /\ \A k \in 1 .. Stay(i) : /\ rob'[k].pc = rob[RetireCount(i) + k].pc
                             /\ After(rob'[k]) = After(rob[RetireCount(i) + k])
  /\ \A k \in 1 .. i.alloc : /\ rob'[Stay(i) + k].pc = r1[k].pc
                             /\ After(rob'[Stay(i) + k]) = r1[k].pred
  /\ RenameStep(i, r1', fetchPc', blocked') /\ ~BackendBlock(i)

LEMMA MovedFacts ==
  ASSUME CommitInv, ~TrapBusy, NEW i \in Inputs, Cycle(i), ~Mispredict(i)
  PROVE  Moved(i)
<1>0. TypesInv /\ EntriesInv /\ PortsInv /\ BookInv /\ InputOk(i)
  BY InputFacts DEF CommitInv
<1>1. ~cancel /\ ~BackendBlock(i) /\ Taken(i) = i.alloc
  BY <1>0, CalmFacts DEF Taken
<1>2. RobStep(i, rob') /\ RenameStep(i, r1', fetchPc', blocked')
  BY <1>0, <1>1, RobFacts, RenameFacts DEF Cycle
<1>3. /\ RetireCount(i) \in 0 .. Len(rob) /\ Stay(i) = Len(rob) - RetireCount(i)
      /\ i.alloc \in 0 .. Len(r1) /\ Len(rob) \in Nat /\ Len(r1) \in Nat
  BY <1>0, RetireFacts DEF RetireOk, Stay, TypesInv, InputOk
<1>4. /\ Len(rob') = Stay(i) + i.alloc
      /\ \A j \in 1 .. Stay(i) : Kept(RetireCount(i) + j, i, rob'[j])
      /\ \A j \in 1 .. i.alloc : rob'[Stay(i) + j] = NewEntry(r1[j])
  BY <1>1, <1>2 DEF RobStep
<1>5. ASSUME NEW k \in 1 .. Stay(i)
      PROVE  /\ rob'[k].pc = rob[RetireCount(i) + k].pc
             /\ After(rob'[k]) = After(rob[RetireCount(i) + k])
  <2> DEFINE j == RetireCount(i) + k
  <2>1. Kept(j, i, rob'[k]) /\ j # 0
    BY <1>3, <1>4
  <2>2. i.resolve.at = j => After(rob[j]) = i.resolve.to
    BY <1>0, <2>1 DEF Mispredict, InputOk, Executing, After
  <2> QED BY <2>1, <2>2 DEF Kept
<1>6. ASSUME NEW k \in 1 .. i.alloc
      PROVE  rob'[Stay(i) + k].pc = r1[k].pc /\ After(rob'[Stay(i) + k]) = r1[k].pred
  <2>1. r1[k] \in MicroOp /\ r1[k].pred \in Targets[r1[k].pc]
    <3>1. r1 \in Seq(MicroOp) /\ k \in 1 .. Len(r1)
      BY <1>0, <1>3 DEF TypesInv
    <3>2. r1[k] \in MicroOp /\ k \in DOMAIN r1
      BY <3>1
    <3> QED BY <1>0, <3>2 DEF EntriesInv
  <2> QED BY <1>4, <2>1, NewFacts
<1> QED BY <1>1, <1>2, <1>3, <1>4, <1>5, <1>6 DEF Moved

(* The same when a branch was mispredicted.                                *)
Cut(i) ==
  /\ i.resolve.at \in 1 .. Len(rob) /\ Len(rob) \in Nat /\ Len(rob') = i.resolve.at
  /\ Kind[rob[i.resolve.at].pc] = "br" /\ RetireCount(i) = 0
  /\ \A k \in 1 .. i.resolve.at :
       /\ rob'[k].pc = rob[k].pc
       /\ After(rob'[k]) = IF k = i.resolve.at THEN i.resolve.to ELSE After(rob[k])
  /\ r1' = <<>> /\ fetchPc' = i.resolve.to

LEMMA CutFacts ==
  ASSUME CommitInv, ~TrapBusy, NEW i \in Inputs, Cycle(i), Mispredict(i)
  PROVE  Cut(i)
<1>0. TypesInv /\ EntriesInv /\ PortsInv /\ BookInv /\ InputOk(i)
  BY InputFacts DEF CommitInv
<1>1. ~cancel /\ BackendBlock(i) /\ packet = NoPc
  BY <1>0, CalmFacts
<1>2. RobStep(i, rob') /\ RenameStep(i, r1', fetchPc', blocked')
  BY <1>0, <1>1, RobFacts, RenameFacts DEF Cycle
<1>3. /\ i.resolve.at \in 1 .. Len(rob) /\ Len(rob) \in Nat
      /\ Kind[rob[i.resolve.at].pc] = "br"
  <2>1. i.resolve.at \in Executing({"br"})
    BY <1>0 DEF Mispredict, InputOk
  <2>2. rob \in Seq(Entry)
    BY <1>0 DEF TypesInv
  <2> QED BY <2>1, <2>2 DEF Executing, KindAt
<1>4. Len(rob') = i.resolve.at /\ \A k \in 1 .. i.resolve.at : Kept(k, i, rob'[k])
  BY <1>2 DEF RobStep
<1>5. \A k \in 1 .. i.resolve.at :
        /\ rob'[k].pc = rob[k].pc
        /\ After(rob'[k]) = IF k = i.resolve.at THEN i.resolve.to ELSE After(rob[k])
  BY <1>4 DEF Kept
<1>6. r1' = <<>> /\ fetchPc' = i.resolve.to
  BY <1>1, <1>2 DEF RenameStep
<1>7. RetireCount(i) = 0
  BY DEF RetireCount
<1> QED BY <1>3, <1>4, <1>5, <1>6, <1>7 DEF Cut

(* What is behind R1's oldest n micro-ops.                                 *)
Rest(n) == IF n < Len(r1) THEN r1[n + 1].pc ELSE fetchPc

LEMMA RestFacts ==
  ASSUME TypesInv, PathInv
  PROVE  /\ Behind = Rest(0)
         /\ \A k \in 1 .. Len(r1) : r1[k].pred = Rest(k)
         /\ \A k \in 1 .. Len(rob) :
              After(rob[k]) = IF k < Len(rob) THEN rob[k + 1].pc ELSE Behind
         /\ npc = IF Len(rob) > 0 THEN rob[1].pc ELSE Behind
<1>1. rob \in Seq(Entry) /\ r1 \in Seq(MicroOp)
  BY DEF TypesInv
<1>2. /\ Len(rob) \in Nat /\ (rob = <<>> <=> Len(rob) = 0) /\ DOMAIN rob = 1 .. Len(rob)
      /\ Len(r1) \in Nat /\ (r1 = <<>> <=> Len(r1) = 0) /\ DOMAIN r1 = 1 .. Len(r1)
  BY <1>1
<1>3. Behind = Rest(0)
  BY <1>2 DEF Behind, Rest
<1>4. \A k \in 1 .. Len(r1) : r1[k].pred = Rest(k)
  BY <1>2 DEF PathInv, Rest
<1>5. \A k \in 1 .. Len(rob) :
        After(rob[k]) = IF k < Len(rob) THEN rob[k + 1].pc ELSE Behind
  BY <1>2 DEF PathInv, After
<1>6. npc = IF Len(rob) > 0 THEN rob[1].pc ELSE Behind
  BY <1>2 DEF PathInv
<1> QED BY <1>3, <1>4, <1>5, <1>6

(* R1 after the edge begins with what is behind what it handed over.       *)
LEMMA RestNext ==
  ASSUME TypesInv, PathInv, NEW i, Moved(i)
  PROVE  /\ Behind' = Rest(i.alloc)
         /\ \A k \in DOMAIN r1' :
              r1'[k].pred = IF k < Len(r1') THEN r1'[k + 1].pc ELSE fetchPc'
<1>1. /\ i.alloc \in 0 .. Len(r1) /\ Len(r1) \in Nat
      /\ RenameStep(i, r1', fetchPc', blocked') /\ ~BackendBlock(i)
  BY DEF Moved
<1>2. r1' \in Seq(MicroOp) /\ Len(r1') \in Nat /\ DOMAIN r1' = 1 .. Len(r1')
      /\ (r1' = <<>> <=> Len(r1') = 0)
  BY <1>1 DEF RenameStep
<1>3. CASE Took(i) = <<>>
  <2>1. /\ Len(r1') = Len(r1) - i.alloc /\ fetchPc' = fetchPc
        /\ \A k \in 1 .. Len(r1') : r1'[k] = r1[i.alloc + k]
    BY <1>1, <1>3 DEF RenameStep
  <2>2. Behind' = Rest(i.alloc)
    <3>1. CASE Len(r1') = 0
      BY <1>1, <1>2, <2>1, <3>1 DEF Behind, Rest
    <3>2. CASE Len(r1') # 0
      <4>1. r1'[1] = r1[i.alloc + 1] /\ i.alloc < Len(r1)
        BY <1>1, <1>2, <2>1, <3>2
      <4> QED BY <1>2, <3>2, <4>1 DEF Behind, Rest
    <3> QED BY <3>1, <3>2
  <2>3. ASSUME NEW k \in 1 .. Len(r1')
        PROVE  r1'[k].pred = IF k < Len(r1') THEN r1'[k + 1].pc ELSE fetchPc'
    <3>1. i.alloc + k \in 1 .. Len(r1) /\ (k < Len(r1') <=> i.alloc + k < Len(r1))
      BY <1>1, <1>2, <2>1
    <3>2. r1[i.alloc + k].pred = Rest(i.alloc + k)
      BY <3>1, RestFacts
    <3>3. k < Len(r1') => r1'[k + 1] = r1[(i.alloc + k) + 1]
      <4>1. /\ i.alloc \in Nat /\ k \in Nat /\ k >= 1 /\ Len(r1') \in Nat
            /\ i.alloc + (k + 1) = (i.alloc + k) + 1
        BY <1>1, <1>2
      <4>2. k < Len(r1') => k + 1 \in 1 .. Len(r1')
        BY <4>1
      <4> QED BY <2>1, <4>1, <4>2
    <3> QED BY <2>1, <3>1, <3>2, <3>3 DEF Rest
  <2> QED BY <1>2, <2>2, <2>3
<1>4. CASE Took(i) # <<>>
  <2>1. /\ i.alloc = Len(r1) /\ PathFrom(r1', fetchPc) /\ fetchPc' = r1'[Len(r1')].pred
    BY <1>1, <1>4 DEF RenameStep
  <2>2. /\ r1' # <<>> /\ r1'[1].pc = fetchPc
        /\ \A k \in 1 .. Len(r1') : k < Len(r1') => r1'[k].pred = r1'[k + 1].pc
    BY <2>1 DEF PathFrom
  <2>3. Behind' = Rest(i.alloc)
    BY <1>1, <2>1, <2>2 DEF Behind, Rest
  <2> QED BY <1>2, <2>1, <2>2, <2>3
<1> QED BY <1>3, <1>4

LEMMA PathNext ==
  ASSUME CommitInv, NEW i \in Inputs, Cycle(i), ~TrapBusy'
  PROVE  PathInv'
<1>0. TypesInv /\ RecoveryInv /\ EntriesInv /\ PortsInv /\ BookInv /\ InputOk(i)
  BY InputFacts DEF CommitInv
<1>1. CASE TrapBusy
  <2>1. rob' = <<>> /\ r1' = <<>> /\ npc' = fetchPc'
    BY <1>1, BusyEmpties
  <2> QED BY <2>1 DEF PathInv, Behind
<1>2. CASE ~TrapBusy
  <2>1. PathInv /\ BlockInv
    BY <1>2 DEF CommitInv
  <2>2. rob' \in Seq(Entry) /\ DOMAIN rob' = 1 .. Len(rob') /\ Len(rob') \in Nat
        /\ (rob' = <<>> <=> Len(rob') = 0)
    BY TypesNext DEF TypesInv
  <2>3. /\ Behind = Rest(0) /\ \A k \in 1 .. Len(r1) : r1[k].pred = Rest(k)
        /\ \A k \in 1 .. Len(rob) :
             After(rob[k]) = IF k < Len(rob) THEN rob[k + 1].pc ELSE Behind
        /\ npc = IF Len(rob) > 0 THEN rob[1].pc ELSE Behind
    BY <1>0, <2>1, RestFacts
  <2>4. npc' = IF RetireCount(i) > 0 THEN rob[RetireCount(i)].succ ELSE npc
    <3>1. Redirect(i) = NoPc
      BY <1>0, <1>2 DEF Cycle, RecoveryBoundary, TrapBusy
    <3> QED BY <3>1 DEF Cycle, CommittedNext
  <2>5. ASSUME \A k \in 1 .. Len(rob') :
                 After(rob'[k]) = IF k < Len(rob') THEN rob'[k + 1].pc ELSE Behind',
               npc' = IF Len(rob') > 0 THEN rob'[1].pc ELSE Behind',
               \A k \in DOMAIN r1' :
                 r1'[k].pred = IF k < Len(r1') THEN r1'[k + 1].pc ELSE fetchPc'
        PROVE  PathInv'
    BY <2>2, <2>5 DEF PathInv, After
  <2>6. CASE Mispredict(i)
    <3>1. /\ i.resolve.at \in 1 .. Len(rob) /\ Len(rob) \in Nat /\ Len(rob') = i.resolve.at
          /\ RetireCount(i) = 0
          /\ \A k \in 1 .. i.resolve.at :
               /\ rob'[k].pc = rob[k].pc
               /\ After(rob'[k]) = IF k = i.resolve.at THEN i.resolve.to ELSE After(rob[k])
          /\ r1' = <<>> /\ fetchPc' = i.resolve.to
      BY <1>2, <2>6, CutFacts DEF Cut
    <3>2. Behind' = i.resolve.to /\ DOMAIN r1' = {}
      BY <3>1 DEF Behind
    <3>3. ASSUME NEW k \in 1 .. Len(rob')
          PROVE  After(rob'[k]) = IF k < Len(rob') THEN rob'[k + 1].pc ELSE Behind'
      <4>1. CASE k = i.resolve.at
        BY <3>1, <3>2, <4>1
      <4>2. CASE k # i.resolve.at
        <5>1. k \in 1 .. Len(rob) /\ k < Len(rob) /\ k < Len(rob') /\ k + 1 \in 1 .. i.resolve.at
          BY <3>1, <4>2
        <5> QED BY <2>3, <3>1, <4>2, <5>1
      <4> QED BY <4>1, <4>2
    <3>4. npc' = rob'[1].pc /\ Len(rob') > 0
      BY <2>3, <2>4, <3>1
    <3> QED BY <2>5, <3>2, <3>3, <3>4
  <2>7. CASE ~Mispredict(i)
    <3> DEFINE n == RetireCount(i)
               L == Stay(i)
               t == i.alloc
    <3>0. Moved(i)
      BY <1>2, <2>7, MovedFacts
    <3>1. /\ n \in 0 .. Len(rob) /\ L = Len(rob) - n /\ t \in 0 .. Len(r1)
          /\ Len(rob) \in Nat /\ Len(r1) \in Nat /\ Len(rob') = L + t
          /\ \A k \in 1 .. L : /\ rob'[k].pc = rob[n + k].pc
                               /\ After(rob'[k]) = After(rob[n + k])
          /\ \A k \in 1 .. t : /\ rob'[L + k].pc = r1[k].pc
                               /\ After(rob'[L + k]) = r1[k].pred
      BY <3>0 DEF Moved
    <3>2. /\ Behind' = Rest(t)
          /\ \A k \in DOMAIN r1' :
               r1'[k].pred = IF k < Len(r1') THEN r1'[k + 1].pc ELSE fetchPc'
      BY <1>0, <2>1, <3>0, RestNext
    <3>3. npc' = IF n < Len(rob) THEN rob[n + 1].pc ELSE Behind
      <4>1. CASE n = 0
        BY <2>3, <2>4, <3>1, <4>1
      <4>2. CASE n # 0
        <5>1. n \in 1 .. Len(rob) /\ Retirable(n, i)
          BY <1>0, <3>1, <4>2, RetireFacts DEF RetireOk
        <5>2. npc' = After(rob[n])
          BY <2>4, <3>1, <4>2, <5>1 DEF Retirable, After
        <5> QED BY <2>3, <5>1, <5>2
      <4> QED BY <4>1, <4>2
    <3> HIDE DEF n, L, t
    <3>4. t > 0 => Rest(0) = r1[1].pc
      BY <3>1 DEF Rest
    <3>5. ASSUME NEW k \in 1 .. Len(rob')
          PROVE  After(rob'[k]) = IF k < Len(rob') THEN rob'[k + 1].pc ELSE Behind'
      <4>1. CASE k < L
        <5>1. k \in 1 .. L /\ k + 1 \in 1 .. L /\ n + k \in 1 .. Len(rob) /\ n + k < Len(rob)
              /\ k < Len(rob') /\ n + (k + 1) = (n + k) + 1
          BY <3>1, <4>1
        <5> QED BY <2>3, <3>1, <5>1
      <4>2. CASE k = L
        <5>1. k \in 1 .. L /\ n + k \in 1 .. Len(rob) /\ ~(n + k < Len(rob))
          BY <3>1, <4>2
        <5>2. After(rob'[k]) = Rest(0)
          BY <2>3, <3>1, <5>1
        <5>3. CASE t = 0
          BY <3>1, <3>2, <4>2, <5>2, <5>3
        <5>4. CASE t # 0
          <6>1. k < Len(rob') /\ rob'[k + 1].pc = r1[1].pc
            BY <3>1, <4>2, <5>4
          <6> QED BY <3>1, <3>4, <5>2, <5>4, <6>1
        <5> QED BY <5>3, <5>4
      <4>3. CASE k > L
        <5> DEFINE j == k - L
        <5>1. j \in 1 .. t /\ L + j = k /\ j \in 1 .. Len(r1)
          BY <3>1, <4>3
        <5> HIDE DEF j
        <5>2. After(rob'[k]) = Rest(j)
          BY <2>3, <3>1, <5>1
        <5>3. CASE j = t
          BY <3>1, <3>2, <5>1, <5>2, <5>3
        <5>4. CASE j # t
          <6>1. k < Len(rob') /\ j + 1 \in 1 .. t /\ L + (j + 1) = k + 1 /\ j < Len(r1)
            <7>1. L \in Nat /\ t \in Nat /\ j \in Nat /\ Len(r1) \in Nat /\ t <= Len(r1)
              BY <3>1, <5>1
            <7>2. j < t /\ k = L + j /\ Len(rob') = L + t
              BY <3>1, <5>1, <5>4, <7>1
            <7> QED BY <7>1, <7>2
          <6>2. rob'[k + 1].pc = r1[j + 1].pc
            BY <3>1, <6>1
          <6> QED BY <5>2, <6>1, <6>2 DEF Rest
        <5> QED BY <5>3, <5>4
      <4> QED BY <3>1, <4>1, <4>2, <4>3
    <3>6. npc' = IF Len(rob') > 0 THEN rob'[1].pc ELSE Behind'
      <4>1. CASE L > 0
        <5>1. 1 \in 1 .. L /\ n < Len(rob) /\ Len(rob') > 0
          BY <3>1, <4>1
        <5> QED BY <3>1, <3>3, <5>1
      <4>2. CASE L = 0 /\ t > 0
        <5>1. rob'[1].pc = r1[1].pc /\ ~(n < Len(rob)) /\ Len(rob') > 0
          BY <3>1, <4>2
        <5> QED BY <2>3, <3>3, <3>4, <4>2, <5>1
      <4>3. CASE L = 0 /\ t = 0
        BY <2>3, <3>1, <3>2, <3>3, <4>3
      <4> QED BY <3>1, <4>1, <4>2, <4>3
    <3> QED BY <2>5, <3>2, <3>5, <3>6
  <2> QED BY <2>6, <2>7
<1> QED BY <1>1, <1>2

-----------------------------------------------------------------------------
(***************************************************************************)
(* What blocks younger instructions.                                       *)
(***************************************************************************)

(* Positions instead of domains.                                           *)
LEMMA BlockFacts ==
  ASSUME DOMAIN rob = 1 .. Len(rob), DOMAIN r1 = 1 .. Len(r1)
  PROVE  BlockInv <=>
           /\ \A k \in 1 .. Len(rob) :
                BlockYounger(rob[k].pc) => k = Len(rob) /\ r1 = <<>> /\ blocked
           /\ \A k \in 1 .. Len(r1) : BlockYounger(r1[k].pc) => k = Len(r1) /\ blocked
BY DEF BlockInv

(* Only the youngest instruction in flight can be a serial one that        *)
(* retires: then nothing is left.                                          *)
LEMMA SerialLast ==
  ASSUME TypesInv, BlockInv, NEW i, SerialRetire(i)
  PROVE  RetireCount(i) = Len(rob) /\ r1 = <<>> /\ blocked /\ Serialize(Oldest.pc) /\ Len(rob) = 1
<1>1. PICK k \in 1 .. RetireCount(i) : Serialize(rob[k].pc)
  BY DEF SerialRetire
<1>2. /\ RetireCount(i) \in 0 .. Len(rob) /\ Retirable(k, i)
      /\ Len(rob) \in Nat /\ DOMAIN rob = 1 .. Len(rob)
  BY RetireFacts DEF RetireOk, TypesInv
<1>3. k = 1
  BY <1>1, <1>2 DEF Retirable
<1>4. k = Len(rob) /\ r1 = <<>> /\ blocked
  <2>1. DOMAIN r1 = 1 .. Len(r1)
    BY DEF TypesInv
  <2>2. BlockYounger(rob[k].pc)
    BY <1>1 DEF BlockYounger
  <2>3. k \in 1 .. Len(rob)
    BY <1>2
  <2> QED BY <1>2, <2>1, <2>2, <2>3, BlockFacts, Zenon
<1>5. Len(rob) = 1 /\ RetireCount(i) = 1
  <2>1. 1 \in 1 .. RetireCount(i) /\ Len(rob) = 1
    BY <1>1, <1>3, <1>4
  <2> QED BY <1>2, <2>1
<1> QED BY <1>1, <1>3, <1>4, <1>5 DEF Oldest

LEMMA BlockNext ==
  ASSUME CommitInv, NEW i \in Inputs, Cycle(i), ~TrapBusy'
  PROVE  BlockInv'
<1>0. TypesInv /\ RecoveryInv /\ EntriesInv /\ PortsInv /\ BookInv /\ InputOk(i)
  BY InputFacts DEF CommitInv
<1>1. CASE TrapBusy
  <2>1. rob' = <<>> /\ r1' = <<>>
    BY <1>1, BusyEmpties
  <2>2. DOMAIN rob' = {} /\ DOMAIN r1' = {}
    BY <2>1
  <2> QED BY <2>2 DEF BlockInv
<1>2. CASE ~TrapBusy
  <2>1. BlockInv
    BY <1>2 DEF CommitInv
  <2>2. /\ DOMAIN rob' = 1 .. Len(rob') /\ DOMAIN r1' = 1 .. Len(r1')
        /\ DOMAIN rob = 1 .. Len(rob) /\ DOMAIN r1 = 1 .. Len(r1)
        /\ Len(r1') \in Nat /\ Len(rob') \in Nat /\ (Len(r1') = 0 => r1' = <<>>) /\ (r1 = <<>> => Len(r1) = 0)
    <3>1. rob' \in Seq(Entry) /\ r1' \in Seq(MicroOp)
      BY TypesNext DEF TypesInv
    <3>2. rob \in Seq(Entry) /\ r1 \in Seq(MicroOp)
      BY <1>0 DEF TypesInv
    <3> QED BY <3>1, <3>2
  <2>3. /\ \A k \in 1 .. Len(rob) :
             BlockYounger(rob[k].pc) => k = Len(rob) /\ r1 = <<>> /\ blocked
        /\ \A k \in 1 .. Len(r1) : BlockYounger(r1[k].pc) => k = Len(r1) /\ blocked
    BY <2>1, <2>2, BlockFacts, Zenon
  <2>4. DOMAIN rob' = 1 .. Len(rob') /\ DOMAIN r1' = 1 .. Len(r1')
    BY <2>2
  <2>5. CASE Mispredict(i)
    <3>1. /\ i.resolve.at \in 1 .. Len(rob) /\ Len(rob) \in Nat /\ Len(rob') = i.resolve.at
          /\ Kind[rob[i.resolve.at].pc] = "br"
          /\ \A k \in 1 .. i.resolve.at : rob'[k].pc = rob[k].pc
          /\ r1' = <<>>
      BY <1>2, <2>5, CutFacts DEF Cut
    <3>2. ~BlockYounger(rob[i.resolve.at].pc)
      BY <3>1 DEF BlockYounger, Serialize, SerialKinds, CsrKinds
    <3>3. ASSUME NEW k \in 1 .. Len(rob'), BlockYounger(rob'[k].pc) PROVE FALSE
      <4>1. k \in 1 .. Len(rob) /\ BlockYounger(rob[k].pc) /\ k <= i.resolve.at
        BY <3>1, <3>3
      <4>2. k = Len(rob)
        BY <2>3, <4>1
      <4>3. k = i.resolve.at
        BY <3>1, <4>1, <4>2
      <4> QED BY <3>2, <4>1, <4>3
    <3>4. DOMAIN r1' = {}
      BY <3>1
    <3> QED BY <2>4, <3>3, <3>4 DEF BlockInv
  <2>6. CASE ~Mispredict(i)
    <3> DEFINE n == RetireCount(i)
               L == Stay(i)
               t == i.alloc
    <3>0. Moved(i)
      BY <1>2, <2>6, MovedFacts
    <3>1. /\ n \in 0 .. Len(rob) /\ L = Len(rob) - n /\ t \in 0 .. Len(r1)
          /\ Len(rob) \in Nat /\ Len(r1) \in Nat /\ Len(rob') = L + t
          /\ \A k \in 1 .. L : rob'[k].pc = rob[n + k].pc
          /\ \A k \in 1 .. t : rob'[L + k].pc = r1[k].pc
          /\ RenameStep(i, r1', fetchPc', blocked') /\ ~BackendBlock(i)
      BY <3>0 DEF Moved
    <3>2. SerialRetire(i) => n = Len(rob) /\ r1 = <<>> /\ blocked
      BY <1>0, <2>1, SerialLast
    <3>3. blocked => Took(i) = <<>>
      BY DEF Took
    <3>4. Took(i) = <<>> =>
            /\ Len(r1') = Len(r1) - t /\ \A k \in 1 .. Len(r1') : r1'[k] = r1[t + k]
            /\ (blocked' <=> blocked /\ ~SerialRetire(i))
      BY <3>1 DEF RenameStep
    <3>5. Took(i) # <<>> =>
            /\ ~blocked
            /\ \A k \in 1 .. Len(r1') :
                 BlockYounger(r1'[k].pc) => k = Len(r1') /\ (blocked' \/ SerialRetire(i))
      BY <3>1 DEF RenameStep
    <3> HIDE DEF n, L, t
    <3>8. n \in Nat /\ L \in Nat /\ t \in Nat /\ Len(rob) = n + L /\ t <= Len(r1)
      BY <3>1
    <3>6. ASSUME NEW k \in 1 .. Len(rob'), BlockYounger(rob'[k].pc)
          PROVE  k = Len(rob') /\ r1' = <<>> /\ blocked'
      <4>1. CASE k <= L
        <5>1. k \in 1 .. L /\ n + k \in 1 .. Len(rob) /\ n # Len(rob)
          BY <3>1, <4>1
        <5>2. n + k = Len(rob) /\ r1 = <<>> /\ blocked
          <6>1. BlockYounger(rob[n + k].pc)
            BY <3>1, <3>6, <5>1
          <6> QED BY <2>3, <5>1, <6>1
        <5>3. ~SerialRetire(i) /\ t = 0 /\ k = L
          <6>1. ~SerialRetire(i)
            BY <3>2, <5>1
          <6>2. Len(r1) = 0 /\ k \in Nat
            BY <2>2, <5>1, <5>2
          <6>3. t = 0 /\ k = L
            BY <3>8, <5>2, <6>2
          <6> QED BY <6>1, <6>3
        <5>4. blocked' /\ Len(r1') = Len(r1) - t
          BY <3>3, <3>4, <5>2, <5>3
        <5>5. Len(r1') = 0
          BY <2>2, <5>2, <5>3, <5>4
        <5>6. k = Len(rob')
          BY <3>1, <5>3
        <5> QED BY <2>2, <5>4, <5>5, <5>6
      <4>2. CASE ~(k <= L)
        <5> DEFINE j == k - L
        <5>1. j \in 1 .. t /\ j \in 1 .. Len(r1) /\ k = L + j
          BY <3>1, <4>2
        <5> HIDE DEF j
        <5>2. j = Len(r1) /\ blocked
          <6>1. BlockYounger(r1[j].pc)
            BY <3>1, <3>6, <5>1
          <6> QED BY <2>3, <5>1, <6>1
        <5>3. ~SerialRetire(i) /\ t = Len(r1) /\ k = Len(rob')
          <6>0. j \in Nat \ {0} /\ j <= t /\ Len(r1) \in Nat /\ Len(rob') = L + t
            BY <3>1, <5>1
          <6>1. t = Len(r1) /\ k = Len(rob') /\ Len(r1) # 0
            BY <3>8, <5>1, <5>2, <6>0
          <6>2. r1 # <<>>
            BY <2>2, <6>1
          <6> QED BY <3>2, <6>1, <6>2
        <5>4. blocked' /\ Len(r1') = Len(r1) - t
          BY <3>3, <3>4, <5>2, <5>3
        <5>5. Len(r1') = 0
          BY <3>1, <5>3, <5>4
        <5> QED BY <2>2, <5>3, <5>4, <5>5
      <4> QED BY <4>1, <4>2
    <3>7. ASSUME NEW k \in 1 .. Len(r1'), BlockYounger(r1'[k].pc)
          PROVE  k = Len(r1') /\ blocked'
      <4>1. CASE Took(i) = <<>>
        <5>1. t + k \in 1 .. Len(r1) /\ r1'[k] = r1[t + k]
          BY <2>2, <3>1, <3>4, <4>1
        <5>2. t + k = Len(r1) /\ blocked
          <6>1. BlockYounger(r1[t + k].pc)
            BY <3>7, <5>1
          <6> QED BY <2>3, <5>1, <6>1
        <5>3. ~SerialRetire(i)
          BY <2>2, <3>2, <5>1
        <5>4. blocked' /\ Len(r1') = Len(r1) - t
          BY <3>4, <4>1, <5>2, <5>3
        <5>5. k = Len(r1')
          <6>1. k \in Nat /\ Len(r1) \in Nat
            BY <2>2, <3>1
          <6>2. t + k = Len(r1) /\ Len(r1') = Len(r1) - t
            BY <5>2, <5>4
          <6> QED BY <3>8, <6>1, <6>2
        <5> QED BY <5>4, <5>5
      <4>2. CASE Took(i) # <<>>
        <5>1. ~blocked /\ k = Len(r1') /\ (blocked' \/ SerialRetire(i))
          BY <3>5, <3>7, <4>2
        <5> QED BY <3>2, <5>1
      <4> QED BY <4>1, <4>2
    <3> QED BY <2>4, <3>6, <3>7 DEF BlockInv
  <2> QED BY <2>5, <2>6
<1> QED BY <1>1, <1>2


-----------------------------------------------------------------------------
(***************************************************************************)
(* The ports of the head.                                                  *)
(***************************************************************************)

(* The head is the same instruction after the edge.                        *)
HeadKept(i) ==
  /\ HeadValid' /\ rob'[1].pc = rob[1].pc /\ head' = head
  /\ Kept(1, i, rob'[1])

LEMMA HeadStays ==
  ASSUME TypesInv, EntriesInv, PortsInv, BookInv, ~cancel, HeadValid,
         NEW i, InputOk(i), Rob(i), RetireCount(i) = 0
  PROVE  HeadKept(i)
<1>1. rob \in Seq(Entry) /\ Len(rob) \in Nat \ {0} /\ head \in Ring
  <2>1. rob \in Seq(Entry) /\ rob # <<>> /\ head \in Ring
    BY DEF TypesInv, HeadValid
  <2> QED BY <2>1
<1>2. RobStep(i, rob') /\ head' = IF Mispredict(i) THEN head ELSE (head + 0) % NumRob
  BY RobFacts
<1>3. head' = head
  BY <1>1, <1>2 DEF Ring
<1>4. Len(rob') > 0 /\ Kept(1, i, rob'[1])
  <2>1. CASE Mispredict(i)
    <3>1. Len(rob') = i.resolve.at /\ \A k \in 1 .. i.resolve.at : Kept(k, i, rob'[k])
      BY <1>2, <2>1 DEF RobStep
    <3>2. i.resolve.at \in Nat \ {0}
      <4>1. i.resolve.at \in DOMAIN rob
        BY <2>1 DEF InputOk, Mispredict, Executing
      <4> QED BY <1>1, <4>1
    <3> QED BY <3>1, <3>2
  <2>2. CASE ~Mispredict(i)
    <3>1. /\ Len(rob') = Stay(i) + Taken(i)
          /\ \A k \in 1 .. Stay(i) : Kept(RetireCount(i) + k, i, rob'[k])
      BY <1>2, <2>2 DEF RobStep
    <3>2. Stay(i) \in Nat \ {0} /\ Taken(i) \in Nat
      <4>1. Taken(i) \in 0 .. Len(r1)
        BY NewsFacts
      <4>2. Len(r1) \in Nat
        BY DEF TypesInv
      <4>3. Stay(i) = Len(rob)
        BY <1>1 DEF Stay
      <4> QED BY <1>1, <4>1, <4>2, <4>3
    <3>3. Kept(0 + 1, i, rob'[1])
      BY <3>1, <3>2
    <3> QED BY <3>1, <3>2, <3>3
  <2> QED BY <2>1, <2>2
<1>5. HeadValid'
  <2>1. rob' \in Seq(Entry) /\ Len(rob') > 0 /\ rob'[1].written
    BY <1>2, <1>4 DEF RobStep, Kept
  <2>2. rob' # <<>>
    BY <2>1
  <2> QED BY <2>1, <2>2 DEF HeadValid
<1> QED BY <1>3, <1>4, <1>5 DEF HeadKept, Kept

(* Nothing retires past a head that cannot.                                *)
LEMMA HeadWaits ==
  ASSUME TypesInv, NEW i, ~Retirable(1, i)
  PROVE  RetireCount(i) = 0 /\ ~SerialRetire(i)
<1>1. /\ RetireCount(i) \in 0 .. Len(rob) /\ Len(rob) \in Nat
      /\ \A k \in 1 .. RetireCount(i) : Retirable(k, i)
  BY RetireFacts DEF RetireOk, TypesInv
<1>2. RetireCount(i) = 0
  BY <1>1
<1> QED BY <1>2 DEF SerialRetire

(* An instruction of the head unit's is incomplete and holds commit.       *)
LEMMA MmioWaits ==
  ASSUME TypesInv, EntriesInv, HeadIs({"mmio"}), ~Oldest.complete, NEW i, InputOk(i)
  PROVE  /\ RetireCount(i) = 0 /\ ~SyncTrap /\ ~OrderFlush(i) /\ ~Refetch(i)
         /\ TrapReq(i) = IF IrqAccept(i) THEN [type |-> "irq", epc |-> npc] ELSE NoTrap
<1>1. RetireCount(i) = 0 /\ ~SerialRetire(i)
  BY HeadWaits DEF Retirable, Oldest
<1>2. ~SyncTrap
  BY DEF SyncTrap
<1>3. ~OrderFlush(i)
  <2>1. Kind[rob[1].pc] # "ld" /\ rob # <<>>
    BY DEF HeadIs, HeadValid, Oldest
  <2>2. ~rob[1].order
    <3>1. 1 \in DOMAIN rob
      <4>1. rob \in Seq(Entry)
        BY DEF TypesInv
      <4> QED BY <2>1, <4>1
    <3> QED BY <2>1, <3>1 DEF EntriesInv, Honest
  <2>3. 1 \notin i.dma
    BY <2>1 DEF InputOk, LiveLoads, KindAt
  <2> QED BY <2>2, <2>3 DEF OrderFlush, Ordered
<1>4. ~Refetch(i) /\ ~HeadRetires({"mret"}, i)
  BY <1>1 DEF Refetch, HeadRetires
<1> QED BY <1>1, <1>2, <1>3, <1>4 DEF TrapReq

(* The head unit and its bus master, as long as the unit is not cancelled. *)
HeuStep(i) ==
  /\ bus' # "idle" => heu'.state = "wait"
  /\ heu'.irrev => heu'.state \in {"wait", "result", "exc"}
  /\ heu'.state \in {"wait", "result"} => heu'.irrev
  /\ heu'.state # "idle" => w1' = NoIdx
  /\ cancel => heu'.state = "idle" /\ w1' = NoIdx
  /\ heu'.state # "idle" =>
       /\ heu.state # "idle" \/ HeuStart(i)
       /\ w1 = NoIdx /\ ~HeuExc(i)
       /\ heu'.idx = IF HeuStart(i) /\ heu.state = "idle" THEN head ELSE heu.idx
  /\ heu'.irrev => heu.state # "idle" /\ (heu.irrev \/ MmioSend)
  /\ MmioSend => heu'.irrev
  /\ heu.irrev /\ ~cancel => heu'.irrev \/ w1' = heu.idx \/ HeuExc(i)
  /\ w1' # NoIdx => heu.state = "result" /\ w1' = heu.idx

LEMMA HeuFacts ==
  ASSUME TypesInv, PortsInv, NEW i, MmioMaster(i), HeadUnit(i), HeuResult(i)
  PROVE  HeuStep(i)
<1> DEFINE yes == TRUE
           no == FALSE
           H == [state : {"idle", "check", "mmio", "wait", "result", "exc"},
                 irrev : BOOLEAN, idx : Ring]
<1>1. heu \in H
  BY DEF TypesInv
<1>2. bus' = CASE bus = "idle"  -> IF MmioSend THEN "issue" ELSE "idle"
               [] bus = "issue" -> IF i.bus = "ok" THEN "resp"
                                   ELSE IF i.bus = "err" THEN "error" ELSE "issue"
               [] OTHER -> "idle"
  BY DEF MmioMaster
<1>3. w1' = IF ~cancel /\ heu.state = "result" /\ i.heu = "go" THEN heu.idx ELSE NoIdx
  BY DEF HeuResult
<1>4. /\ bus # "idle" => heu.state = "wait"
      /\ heu.irrev => heu.state \in {"wait", "result", "exc"}
      /\ heu.state \in {"wait", "result"} => heu.irrev
      /\ heu.state # "idle" => w1 = NoIdx
      /\ cancel => ~Irreversible
  BY DEF PortsInv
<1>5. ~no /\ yes
  OBVIOUS
<1> HIDE DEF yes, no
<1>6. CASE cancel
  <2>1. heu' = [heu EXCEPT !.state = "idle", !.irrev = no]
    BY <1>4, <1>6, <1>5 DEF HeadUnit, no
  <2>2. heu'.state = "idle" /\ heu'.irrev = no
    BY <1>1, <2>1
  <2>3. bus = "idle" /\ ~MmioSend
    BY <1>4, <1>6 DEF Irreversible, MmioSend
  <2> QED BY <1>2, <1>3, <1>5, <1>6, <2>2, <2>3 DEF HeuStep
<1>7. CASE ~cancel /\ heu.state = "idle"
  <2>1. bus = "idle" /\ ~heu.irrev /\ ~MmioSend /\ ~HeuExc(i)
    BY <1>4, <1>7 DEF MmioSend, HeuExc
  <2>2. CASE HeuStart(i)
    <3>1. heu' = [state |-> "check", irrev |-> no, idx |-> head]
      BY <1>7, <2>2 DEF HeadUnit, no
    <3>2. heu'.state = "check" /\ heu'.irrev = no /\ heu'.idx = head
      BY <3>1
    <3>3. w1 = NoIdx
      BY <2>2 DEF HeuStart
    <3> QED BY <1>2, <1>3, <1>5, <1>7, <2>1, <2>2, <3>2, <3>3 DEF HeuStep
  <2>3. CASE ~HeuStart(i)
    <3> DEFINE v == heu.irrev \/ bus # "idle"
    <3>1. heu' = [heu EXCEPT !.irrev = v]
      BY <1>7, <2>3 DEF HeadUnit
    <3>2. v \in BOOLEAN /\ ~v
      BY <2>1
    <3> HIDE DEF v
    <3>3. heu'.state = "idle" /\ heu'.irrev = v
      BY <1>1, <1>7, <3>1
    <3> QED BY <1>2, <1>3, <1>7, <2>1, <3>2, <3>3 DEF HeuStep
  <2> QED BY <2>2, <2>3
<1>8. CASE ~cancel /\ heu.state = "check"
  <2>1. heu' = [heu EXCEPT !.state = IF i.heu = "go" THEN "mmio"
                                     ELSE IF i.heu = "fault" THEN "exc" ELSE heu.state]
    BY <1>8 DEF HeadUnit
  <2>2. heu'.state \in {"mmio", "exc", "check"} /\ heu'.irrev = heu.irrev /\ heu'.idx = heu.idx
    BY <1>1, <1>8, <2>1
  <2>3. bus = "idle" /\ ~heu.irrev /\ ~MmioSend /\ ~HeuExc(i) /\ w1 = NoIdx
    BY <1>4, <1>8 DEF MmioSend, HeuExc
  <2> QED BY <1>2, <1>3, <1>8, <2>2, <2>3 DEF HeuStep
<1>9. CASE ~cancel /\ heu.state = "mmio"
  <2>1. bus = "idle" /\ MmioSend /\ ~HeuExc(i) /\ w1 = NoIdx
    BY <1>4, <1>9 DEF MmioSend, HeuExc
  <2>2. heu' = [heu EXCEPT !.state = "wait", !.irrev = yes]
    BY <1>9, <2>1 DEF HeadUnit, yes
  <2>3. heu'.state = "wait" /\ heu'.idx = heu.idx /\ heu'.irrev = yes
    BY <1>1, <2>2
  <2> QED BY <1>2, <1>3, <1>4, <1>5, <1>9, <2>1, <2>3 DEF HeuStep
<1>10. CASE ~cancel /\ heu.state = "wait"
  <2>1. heu' = [heu EXCEPT !.state = IF bus = "resp" THEN "result"
                                     ELSE IF bus = "error" THEN "exc" ELSE heu.state]
    BY <1>10 DEF HeadUnit
  <2>2. /\ heu'.state = IF bus = "resp" THEN "result" ELSE IF bus = "error" THEN "exc" ELSE "wait"
        /\ heu'.irrev = heu.irrev /\ heu'.idx = heu.idx
    BY <1>1, <1>10, <2>1
  <2>3. ~MmioSend /\ ~HeuExc(i) /\ w1 = NoIdx
    BY <1>4, <1>10 DEF MmioSend, HeuExc
  <2> QED BY <1>2, <1>3, <1>4, <1>10, <2>2, <2>3 DEF HeuStep
<1>11. CASE ~cancel /\ heu.state = "result"
  <2>1. bus = "idle" /\ ~MmioSend /\ ~HeuExc(i) /\ w1 = NoIdx
    BY <1>4, <1>11 DEF MmioSend, HeuExc
  <2>2. CASE i.heu = "go"
    <3>1. heu' = [heu EXCEPT !.state = "idle", !.irrev = no]
      BY <1>11, <2>2 DEF HeadUnit, no
    <3>2. heu'.state = "idle" /\ heu'.irrev = no
      BY <1>1, <3>1
    <3> QED BY <1>2, <1>3, <1>5, <1>11, <2>1, <2>2, <3>2 DEF HeuStep
  <2>3. CASE i.heu # "go"
    <3>1. heu' = heu
      BY <1>11, <2>3 DEF HeadUnit
    <3> QED BY <1>2, <1>3, <1>4, <1>11, <2>1, <2>3, <3>1 DEF HeuStep
  <2> QED BY <2>2, <2>3
<1>12. CASE ~cancel /\ heu.state = "exc"
  <2>1. bus = "idle" /\ ~MmioSend /\ w1 = NoIdx
    BY <1>4, <1>12 DEF MmioSend
  <2>2. CASE HeuExc(i)
    <3>1. heu' = [heu EXCEPT !.state = "idle", !.irrev = no]
      BY <1>12, <2>2 DEF HeadUnit, no
    <3>2. heu'.state = "idle" /\ heu'.irrev = no
      BY <1>1, <3>1
    <3> QED BY <1>2, <1>3, <1>5, <1>12, <2>1, <2>2, <3>2 DEF HeuStep
  <2>3. CASE ~HeuExc(i)
    <3>1. heu' = heu
      BY <1>12, <2>3 DEF HeadUnit
    <3> QED BY <1>2, <1>3, <1>12, <2>1, <2>3, <3>1 DEF HeuStep
  <2> QED BY <2>2, <2>3
<1>13. heu.state \in {"idle", "check", "mmio", "wait", "result", "exc"}
  BY <1>1
<1> QED BY <1>6, <1>7, <1>8, <1>9, <1>10, <1>11, <1>12, <1>13

(* The head unit goes on working for the head only.                        *)
LEMMA OwnerNext ==
  ASSUME CommitInv, NEW i \in Inputs, Cycle(i),
         heu'.state # "idle" \/ w1' # NoIdx
  PROVE  /\ HeadIs({"mmio"}) /\ ~Oldest.complete
         /\ HeadIs({"mmio"})' /\ ~Oldest'.complete
         /\ heu'.state # "idle" => heu'.idx = head'
         /\ w1' # NoIdx => w1' = head'
<1>0. TypesInv /\ RecoveryInv /\ EntriesInv /\ PortsInv /\ BookInv /\ InputOk(i)
  BY InputFacts DEF CommitInv
<1>1. HeuStep(i)
  BY <1>0, HeuFacts DEF Cycle
<1>2. ~cancel /\ (heu.state # "idle" \/ HeuStart(i))
  BY <1>1 DEF HeuStep
<1>3. /\ HeadIs({"mmio"}) /\ ~Oldest.complete
      /\ heu.state # "idle" => heu.idx = head
  BY <1>0, <1>2 DEF PortsInv, HeuOwnsHead, HeuStart
<1>4. w1 = NoIdx /\ ~HeuExc(i)
  BY <1>0, <1>1, <1>2 DEF HeuStep, PortsInv, HeuExc
<1>5. RetireCount(i) = 0
  BY <1>0, <1>3, MmioWaits
<1>6. HeadKept(i)
  BY <1>0, <1>2, <1>3, <1>5, HeadStays DEF Cycle, HeadIs
<1>7. ~FromHeu(Index(1), i)
  <2>1. Index(1) = head /\ head \in Nat
    BY <1>0, IndexFacts DEF TypesInv, Ring
  <2> QED BY <1>4, <2>1, NothingIsNothing DEF FromHeu
<1>8. HeadIs({"mmio"})' /\ ~Oldest'.complete /\ head' = head
  BY <1>3, <1>6, <1>7 DEF HeadKept, Kept, HeadIs, Oldest
<1> QED BY <1>1, <1>3, <1>8 DEF HeuStep

LEMMA PortsNext ==
  ASSUME CommitInv, NEW i \in Inputs, Cycle(i), InterruptNotReplaying'
  PROVE  PortsInv'
<1>0. TypesInv /\ RecoveryInv /\ EntriesInv /\ PortsInv /\ BookInv /\ InputOk(i)
  BY InputFacts DEF CommitInv
<1>1. HeuStep(i)
  BY <1>0, HeuFacts DEF Cycle
<1>2. HeuOwnsHead'
  BY OwnerNext DEF HeuOwnsHead
<1>3. cancel' => ~Irreversible'
  <2>1. SUFFICES ASSUME FlushAll(i), Irreversible' PROVE FALSE
    BY DEF Cycle, RecoveryBoundary
  <2>2. heu'.state # "idle"
    BY <1>1, <2>1 DEF HeuStep, Irreversible
  <2>3. HeadIs({"mmio"}) /\ ~Oldest.complete
    BY <2>2, OwnerNext
  <2>4. /\ ~OrderFlush(i) /\ ~Refetch(i)
        /\ TrapReq(i) = IF IrqAccept(i) THEN [type |-> "irq", epc |-> npc] ELSE NoTrap
    BY <1>0, <2>3, MmioWaits
  <2>5. trapQ' = [type |-> "irq", epc |-> npc]
    BY <2>1, <2>4 DEF FlushAll, Cycle, TrapCtrl
  <2>6. trapQ' # NoTrap /\ trapQ'.type = "irq"
    <3>1. npc \in Pc
      BY <1>0 DEF TypesInv
    <3> QED BY <2>5, <3>1, NothingIsNothing
  <2> QED BY <2>1, <2>6 DEF InterruptNotReplaying
<1>4. csrReq' /\ ~cancel' => HeadIs(CsrKinds)'
  <2>1. SUFFICES ASSUME csrReq' PROVE HeadIs(CsrKinds)'
    OBVIOUS
  <2>2. ~cancel /\ CsrAdmit(i)
    BY <2>1 DEF Cycle, CsrRequest
  <2>3. HeadIs(CsrKinds) /\ ~cc.serialDone
    BY <2>2 DEF CsrAdmit
  <2>4. ~HeadSerialDone
    BY <2>3 DEF HeadIs, HeadSerialDone, CsrKinds
  <2>5. RetireCount(i) = 0
    <3>1. ~Retirable(1, i)
      BY <2>3, <2>4 DEF Retirable, Serialize, SerialKinds, HeadIs, Oldest
    <3> QED BY <1>0, <3>1, HeadWaits
  <2>6. HeadKept(i)
    BY <1>0, <2>2, <2>3, <2>5, HeadStays DEF Cycle, HeadIs
  <2> QED BY <2>3, <2>6 DEF HeadKept, HeadIs, Oldest
<1> QED BY <1>1, <1>2, <1>3, <1>4 DEF PortsInv, HeuStep

-----------------------------------------------------------------------------
(***************************************************************************)
(* The bookkeeping of commit_ctrl.                                         *)
(***************************************************************************)

(* Committed stores that have drained stay drained until one retires.      *)
LEMMA SqStaysEmpty ==
  ASSUME TypesInv, sq = 0, NEW i, InputOk(i), RetireCount(i) = 0, StoreDrain(i)
  PROVE  sq' = 0
<1>1. ~i.drain
  BY DEF InputOk
<1>2. StoresIn(SubSeq(rob, 1, 0)) = 0
  <2>1. rob \in Seq(Entry)
    BY DEF TypesInv
  <2>2. SubSeq(rob, 1, 0) = <<>>
    BY <2>1
  <2>3. {k \in DOMAIN <<>> : Kind[(<<>>)[k].pc] = "st"} = {}
    OBVIOUS
  <2> QED BY <2>2, <2>3, FS_EmptySet DEF StoresIn
<1> QED BY <1>1, <1>2 DEF StoreDrain

(* A head that synchronises holds commit, and nothing flushes it.          *)
LEMMA SyncHolds ==
  ASSUME TypesInv, EntriesInv, PortsInv, HeadIs({"fencei", "sfence"}),
         ~cc.serialDone, NEW i, InputOk(i), ~IrqAccept(i)
  PROVE  RetireCount(i) = 0 /\ ~SerialRetire(i) /\ ~FlushAll(i) /\ ~CsrWrite /\ ~OrderFlush(i)
<1>1. /\ Kind[rob[1].pc] \in {"fencei", "sfence"} /\ rob # <<>> /\ 1 \in DOMAIN rob
      /\ Honest(rob[1])
  <2>1. rob \in Seq(Entry) /\ rob # <<>>
    BY DEF TypesInv, HeadIs, HeadValid
  <2>2. 1 \in DOMAIN rob
    BY <2>1
  <2> QED BY <2>1, <2>2 DEF HeadIs, Oldest, EntriesInv
<1>2. ~HeadSerialDone
  BY <1>1 DEF HeadSerialDone, Oldest
<1>3. RetireCount(i) = 0 /\ ~SerialRetire(i)
  <2>1. ~Retirable(1, i)
    BY <1>1, <1>2 DEF Retirable, Serialize, SerialKinds
  <2> QED BY <2>1, HeadWaits
<1>4. ~SyncTrap
  BY <1>1 DEF SyncTrap, Honest, Oldest
<1>5. ~OrderFlush(i)
  <2>1. ~rob[1].order
    BY <1>1 DEF Honest
  <2>2. 1 \notin i.dma
    BY <1>1 DEF InputOk, LiveLoads, KindAt
  <2> QED BY <2>1, <2>2 DEF OrderFlush, Ordered
<1>6. ~Refetch(i) /\ ~HeadRetires({"mret"}, i)
  BY <1>3 DEF Refetch, HeadRetires
<1>7. TrapReq(i) = NoTrap
  BY <1>4, <1>6 DEF TrapReq
<1>8. ~CsrWrite
  <2>1. Kind[rob[1].pc] \notin CsrKinds
    BY <1>1 DEF CsrKinds
  <2> QED BY <2>1 DEF CsrWrite, CsrAnswer, PortsInv, HeadIs, Oldest
<1> QED BY <1>3, <1>5, <1>6, <1>7, <1>8 DEF FlushAll

(* The bookkeeping after an edge that does not reset it.                   *)
LEMMA CcFields ==
  ASSUME TypesInv, NEW i, CommitCtrl(i)
  PROVE  /\ SerialRetire(i) \/ FlushAll(i) =>
              ~cc'.sfSent /\ ~cc'.sfDone /\ ~cc'.dSent
         /\ ~(SerialRetire(i) \/ FlushAll(i)) =>
              /\ cc'.serialDone => cc.serialDone \/ CsrWrite \/ (cc.syncSent /\ fe.state = "done")
              /\ cc'.syncSent <=> cc.syncSent \/ (FeSync(i) /\ fe.state = "idle")
              /\ cc'.sfSent <=> cc.sfSent \/ SfenceReq(i)
              /\ cc'.sfDone <=> cc.sfDone \/ (cc.sfSent /\ i.sfAck)
              /\ cc'.dSent <=> NeedsD /\ (cc.dSent \/ StDReq)
<1>1. CASE SerialRetire(i) \/ FlushAll(i)
  <2>1. cc' = Idle
    BY <1>1 DEF CommitCtrl
  <2>2. ~Idle.sfSent /\ ~Idle.sfDone /\ ~Idle.dSent
    BY DEF Idle
  <2> QED BY <1>1, <2>1, <2>2
<1>2. CASE ~(SerialRetire(i) \/ FlushAll(i))
  <2> DEFINE a == IF cc.syncSent /\ fe.state = "done" THEN TRUE
                  ELSE IF CsrWrite THEN Kind[Oldest.pc] # "satp" ELSE cc.serialDone
             b == cc.csrDone \/ CsrWrite
             c == IF CsrWrite THEN Kind[Oldest.pc] = "satp" ELSE cc.refetch
             d == cc.syncSent \/ (FeSync(i) /\ fe.state = "idle")
             e == cc.sfSent \/ SfenceReq(i)
             f == cc.sfDone \/ (cc.sfSent /\ i.sfAck)
             g == NeedsD /\ (cc.dSent \/ StDReq)
  <2>1. cc' = [serialDone |-> a, csrDone |-> b, refetch |-> c, syncSent |-> d,
               sfSent |-> e, sfDone |-> f, dSent |-> g]
    BY <1>2 DEF CommitCtrl
  <2>2. a => cc.serialDone \/ CsrWrite \/ (cc.syncSent /\ fe.state = "done")
    OBVIOUS
  <2> HIDE DEF a, b, c, d, e, f, g
  <2>3. cc'.serialDone = a /\ cc'.syncSent = d /\ cc'.sfSent = e /\ cc'.sfDone = f /\ cc'.dSent = g
    BY <2>1
  <2> QED BY <1>2, <2>2, <2>3 DEF d, e, f, g
<1> QED BY <1>1, <1>2

LEMMA SfenceNext ==
  ASSUME CommitInv, NEW i \in Inputs, Cycle(i), cc'.sfSent
  PROVE  HeadIs({"sfence"})' /\ sq' = 0
<1>0. TypesInv /\ RecoveryInv /\ EntriesInv /\ PortsInv /\ BookInv /\ InputOk(i)
  BY InputFacts DEF CommitInv
<1>1. ~SerialRetire(i) /\ (cc.sfSent \/ SfenceReq(i))
  BY <1>0, CcFields DEF Cycle
<1>2. HeadIs({"sfence"}) /\ sq = 0
  BY <1>0, <1>1 DEF BookInv, SfenceReq
<1>3. ~cancel
  <2>1. ~Idle.sfSent
    BY DEF Idle
  <2> QED BY <1>0, <1>1, <2>1 DEF RecoveryInv, SfenceReq, TrapBusy
<1>4. RetireCount(i) = 0
  <2>1. RetireCount(i) \in Nat
    <3>1. RetireCount(i) \in 0 .. Len(rob) /\ Len(rob) \in Nat
      BY <1>0, RetireFacts DEF RetireOk, TypesInv
    <3> QED BY <3>1
  <2>2. Serialize(rob[1].pc)
    BY <1>2 DEF HeadIs, Oldest, Serialize, SerialKinds
  <2> QED BY <1>1, <2>1, <2>2 DEF SerialRetire
<1>5. HeadKept(i)
  BY <1>0, <1>2, <1>3, <1>4, HeadStays DEF Cycle, HeadIs
<1>6. sq' = 0
  BY <1>0, <1>2, <1>4, SqStaysEmpty DEF Cycle
<1> QED BY <1>2, <1>5, <1>6 DEF HeadKept, HeadIs, Oldest

LEMMA DirtyNext ==
  ASSUME CommitInv, NEW i \in Inputs, Cycle(i), cc'.dSent
  PROVE  HeadIs({"st"})' /\ Oldest'.complete
<1>0. TypesInv /\ RecoveryInv /\ EntriesInv /\ PortsInv /\ BookInv /\ InputOk(i)
  BY InputFacts DEF CommitInv
<1>1. NeedsD /\ (cc.dSent \/ StDReq)
  BY <1>0, CcFields DEF Cycle
<1>2. HeadIs({"st"}) /\ Oldest.complete
  <2>1. rob \in Seq(Entry) /\ rob # <<>> /\ rob[1].needsD
    BY <1>0, <1>1 DEF TypesInv, NeedsD, HeadValid, Oldest
  <2>2. 1 \in DOMAIN rob
    BY <2>1
  <2> QED BY <1>0, <1>1, <2>1, <2>2 DEF EntriesInv, Honest, NeedsD, HeadIs, Oldest
<1>3. ~cancel
  <2>1. ~Idle.dSent
    BY DEF Idle
  <2> QED BY <1>0, <1>1, <2>1 DEF RecoveryInv, StDReq, TrapBusy
<1>4. RetireCount(i) = 0
  BY <1>1 DEF RetireCount, CommitBlock
<1>5. HeadKept(i)
  BY <1>0, <1>2, <1>3, <1>4, HeadStays DEF Cycle, HeadIs
<1> QED BY <1>2, <1>5 DEF HeadKept, Kept, HeadIs, Oldest

(* The front end works on a FENCE.I or SFENCE for the head.                *)
LEMMA FeNext ==
  ASSUME CommitInv, NEW i \in Inputs, Cycle(i), fe'.kind # "refetch"
  PROVE  /\ fe'.state # "idle" /\ cc'.syncSent /\ ~cc'.serialDone
         /\ HeadIs({fe.kind})' /\ sq' = 0 /\ (fe'.kind = "sfence" => cc'.sfDone)
<1>0. TypesInv /\ RecoveryInv /\ EntriesInv /\ PortsInv /\ BookInv /\ InputOk(i)
  BY InputFacts DEF CommitInv
<1>1. fe \in [state : {"idle", "wait", "inv", "done"}, kind : {"refetch", "fencei", "sfence"}]
  BY <1>0 DEF TypesInv
<1>2. fe' = CASE fe.state = "idle" ->
               IF FeSync(i) THEN [state |-> "wait", kind |-> FeKind(i)] ELSE fe
          [] fe.state = "wait" ->
               IF ~i.feAck THEN fe
               ELSE [fe EXCEPT !.state = IF fe.kind = "refetch" THEN "done" ELSE "inv"]
          [] fe.state = "inv"  -> IF i.feAck THEN [fe EXCEPT !.state = "done"] ELSE fe
          [] OTHER -> [state |-> "idle", kind |-> "refetch"]
  BY DEF Cycle, FrontendSync
<1>3. fe.kind # "refetch" => fe.state # "idle"
  BY <1>0 DEF BookInv
<1>4. \/ /\ fe.state \in {"wait", "inv"} /\ fe.kind # "refetch"
         /\ fe'.state # "idle" /\ fe'.kind = fe.kind
      \/ /\ fe.state = "idle" /\ FeSync(i) /\ FeKind(i) # "refetch"
         /\ fe'.state # "idle" /\ fe'.kind = FeKind(i)
  BY <1>1, <1>2, <1>3
<1>5. ASSUME HeadIs({fe'.kind}), fe'.kind \in {"fencei", "sfence"}, ~TrapBusy, ~cc.serialDone,
             ~IrqAccept(i), sq = 0, fe'.kind = "sfence" => cc.sfDone,
             cc.syncSent \/ (FeSync(i) /\ fe.state = "idle"), fe.state # "done"
      PROVE  /\ cc'.syncSent /\ ~cc'.serialDone /\ HeadIs({fe.kind})' /\ sq' = 0
             /\ (fe'.kind = "sfence" => cc'.sfDone)
  <2>1. HeadIs({"fencei", "sfence"})
    BY <1>5 DEF HeadIs
  <2>2. /\ RetireCount(i) = 0 /\ ~SerialRetire(i) /\ ~FlushAll(i) /\ ~CsrWrite
    BY <1>0, <1>5, <2>1, SyncHolds
  <2>3. cc'.syncSent /\ ~cc'.serialDone /\ (fe'.kind = "sfence" => cc'.sfDone)
    BY <1>0, <1>5, <2>2, CcFields DEF Cycle
  <2>4. sq' = 0
    BY <1>0, <1>5, <2>2, SqStaysEmpty DEF Cycle
  <2>5. HeadKept(i)
    BY <1>0, <1>5, <2>1, <2>2, HeadStays DEF Cycle, HeadIs, TrapBusy
  <2>6. HeadIs({fe.kind})'
    BY <1>5, <2>5 DEF HeadKept, HeadIs, Oldest
  <2> QED BY <2>3, <2>4, <2>6
<1>6. CASE /\ fe.state \in {"wait", "inv"} /\ fe.kind # "refetch"
           /\ fe'.state # "idle" /\ fe'.kind = fe.kind
  <2>1. /\ cc.syncSent /\ ~cc.serialDone /\ HeadIs({fe.kind}) /\ sq = 0
        /\ fe.kind = "sfence" => cc.sfDone
    BY <1>0, <1>6 DEF BookInv
  <2>2. ~TrapBusy
    <3>1. ~Idle.syncSent
      BY DEF Idle
    <3> QED BY <1>0, <2>1, <3>1 DEF RecoveryInv
  <2>3. ~IrqAccept(i)
    BY <2>1 DEF IrqAccept
  <2> QED BY <1>1, <1>5, <1>6, <2>1, <2>2, <2>3
<1>7. CASE /\ fe.state = "idle" /\ FeSync(i) /\ FeKind(i) # "refetch"
           /\ fe'.state # "idle" /\ fe'.kind = FeKind(i)
  <2>1. ~TrapBusy /\ ~cc.serialDone /\ ~IrqAccept(i) /\ HeadValid
    BY <1>7 DEF FeSync
  <2>2. FeKind(i) = Kind[Oldest.pc] /\ ~OrderFlush(i) /\ ~cc.refetch
    BY <1>7 DEF FeKind
  <2>3. (HeadIs({"fencei"}) /\ sq = 0) \/ (HeadIs({"sfence"}) /\ cc.sfDone)
    BY <1>7, <2>2 DEF FeSync
  <2>4. cc.sfDone => sq = 0
    BY <1>0 DEF BookInv
  <2>5. /\ fe'.kind \in {"fencei", "sfence"} /\ HeadIs({fe'.kind}) /\ sq = 0
        /\ fe'.kind = "sfence" => cc.sfDone
    BY <1>7, <2>2, <2>3, <2>4 DEF HeadIs
  <2> QED BY <1>5, <1>7, <2>1, <2>5
<1> QED BY <1>4, <1>6, <1>7

LEMMA BookNext ==
  ASSUME CommitInv, NEW i \in Inputs, Cycle(i)
  PROVE  BookInv'
<1>0. TypesInv /\ BookInv
  BY DEF CommitInv
<1>1. cc'.sfDone => cc'.sfSent
  BY <1>0, CcFields DEF Cycle, BookInv
<1> QED BY <1>1, SfenceNext, DirtyNext, FeNext DEF BookInv

-----------------------------------------------------------------------------
(***************************************************************************)
(* The invariant holds, and what it says.                                  *)
(***************************************************************************)

LEMMA CommitInit == Init => CommitInv
<1> SUFFICES ASSUME Init PROVE CommitInv
  OBVIOUS
<1>1. /\ rob = <<>> /\ head = 0 /\ r1 = <<>> /\ fetchPc \in Pc /\ blocked = FALSE
      /\ npc = fetchPc /\ cc = Idle /\ csrReq = FALSE
      /\ trapQ = NoTrap /\ trapPc = NoPc /\ cancel = FALSE /\ packet = NoPc
      /\ csr = [ie |-> FALSE, mpie |-> FALSE, mepc |-> fetchPc] /\ sq = 0
      /\ fe = [state |-> "idle", kind |-> "refetch"]
      /\ heu = [state |-> "idle", irrev |-> FALSE, idx |-> 0] /\ w1 = NoIdx /\ bus = "idle"
  BY ProgramAssumption DEF Init
<1>2. rob \in Seq(Entry) /\ Len(rob) = 0 /\ r1 \in Seq(MicroOp) /\ 0 \in Ring
      /\ DOMAIN rob = {} /\ DOMAIN r1 = {}
  BY <1>1 DEF Ring
<1>3. ~TrapBusy /\ ~HeadValid
  BY <1>1 DEF TrapBusy, TrapInflight, HeadValid
<1>4. cc \in [serialDone : BOOLEAN, csrDone : BOOLEAN, syncSent : BOOLEAN, refetch : BOOLEAN,
              sfSent : BOOLEAN, sfDone : BOOLEAN, dSent : BOOLEAN]
      /\ ~cc.sfSent /\ ~cc.sfDone /\ ~cc.dSent
  BY <1>1 DEF Idle
<1>5. /\ csr \in [ie : BOOLEAN, mpie : BOOLEAN, mepc : Pc]
      /\ fe \in [state : {"idle", "wait", "inv", "done"}, kind : {"refetch", "fencei", "sfence"}]
      /\ heu \in [state : {"idle", "check", "mmio", "wait", "result", "exc"},
                  irrev : BOOLEAN, idx : Ring]
      /\ fe.kind = "refetch" /\ heu.state = "idle" /\ ~heu.irrev
  BY <1>1, <1>2
<1>6. TypesInv
  <2>1. rob \in Seq(Entry) /\ Len(rob) <= NumRob /\ head \in Ring /\ sq \in Nat
    BY <1>1, <1>2
  <2>2. r1 \in Seq(MicroOp) /\ fetchPc \in Pc /\ npc \in Pc /\ blocked \in BOOLEAN
    BY <1>1, <1>2
  <2>3. /\ csrReq \in BOOLEAN /\ cancel \in BOOLEAN
        /\ trapQ \in Trap \cup {NoTrap} /\ trapPc \in Pc \cup {NoPc}
        /\ packet \in Pc \cup {NoPc} /\ w1 \in Ring \cup {NoIdx}
        /\ bus \in {"idle", "issue", "resp", "error"}
    BY <1>1
  <2> QED BY <1>4, <1>5, <2>1, <2>2, <2>3 DEF TypesInv
<1>7. RecoveryInv
  BY <1>1, <1>3 DEF RecoveryInv
<1>8. EntriesInv /\ BlockInv
  BY <1>2 DEF EntriesInv, BlockInv
<1>9. PathInv
  BY <1>1, <1>2 DEF PathInv, Behind
<1>10. PortsInv /\ BookInv
  BY <1>1, <1>4, <1>5 DEF PortsInv, BookInv, HeuOwnsHead
<1> QED BY <1>6, <1>7, <1>8, <1>9, <1>10 DEF CommitInv

LEMMA CommitStutter ==
  ASSUME CommitInv, UNCHANGED vars
  PROVE  CommitInv'
<1>1. /\ rob' = rob /\ head' = head /\ r1' = r1 /\ fetchPc' = fetchPc /\ blocked' = blocked
      /\ npc' = npc /\ cc' = cc /\ csrReq' = csrReq /\ trapQ' = trapQ /\ trapPc' = trapPc
      /\ cancel' = cancel /\ packet' = packet /\ csr' = csr /\ sq' = sq /\ fe' = fe
      /\ heu' = heu /\ w1' = w1 /\ bus' = bus
  BY DEF vars
<1>2. TrapBusy' = TrapBusy /\ HeadValid' = HeadValid /\ Oldest' = Oldest /\ Irreversible' = Irreversible
  BY <1>1 DEF TrapBusy, TrapInflight, HeadValid, Oldest, Irreversible
<1>3. TypesInv'
  BY <1>1 DEF TypesInv, CommitInv
<1>4. RecoveryInv'
  BY <1>1, <1>2 DEF RecoveryInv, CommitInv
<1>5. EntriesInv'
  BY <1>1 DEF EntriesInv, CommitInv
<1>6. PortsInv'
  BY <1>1, <1>2 DEF PortsInv, HeuOwnsHead, HeadIs, CommitInv
<1>7. BookInv'
  BY <1>1, <1>2 DEF BookInv, HeadIs, CommitInv
<1>8. ~TrapBusy' => PathInv'
  BY <1>1, <1>2 DEF PathInv, Behind, CommitInv
<1>9. ~TrapBusy' => BlockInv'
  BY <1>1, <1>2 DEF BlockInv, CommitInv
<1> QED BY <1>3, <1>4, <1>5, <1>6, <1>7, <1>8, <1>9 DEF CommitInv

LEMMA CommitStep ==
  CommitInv /\ InterruptNotReplaying' /\ [Next]_vars => CommitInv'
<1> SUFFICES ASSUME CommitInv, InterruptNotReplaying', [Next]_vars PROVE CommitInv'
  OBVIOUS
<1>1. CASE UNCHANGED vars
  BY <1>1, CommitStutter
<1>2. CASE Next
  <2>1. PICK i \in Inputs : Cycle(i)
    BY <1>2 DEF Next
  <2>2. TypesInv' /\ RecoveryInv' /\ EntriesInv' /\ PortsInv' /\ BookInv'
    BY <2>1, TypesNext, RecoveryNext, EntriesNext, PortsNext, BookNext
  <2>3. ~TrapBusy' => PathInv' /\ BlockInv'
    BY <2>1, PathNext, BlockNext
  <2> QED BY <2>2, <2>3 DEF CommitInv
<1> QED BY <1>1, <1>2

(* Everything in flight, as one sequence.                                  *)
LEMMA FlightFacts ==
  ASSUME TypesInv
  PROVE  /\ Len(InFlight) = Len(rob) + Len(r1) /\ DOMAIN InFlight = 1 .. Len(rob) + Len(r1)
         /\ Len(rob) \in Nat /\ Len(r1) \in Nat
         /\ (InFlight = <<>> <=> Len(InFlight) = 0)
         /\ (rob = <<>> <=> Len(rob) = 0) /\ (r1 = <<>> <=> Len(r1) = 0)
         /\ DOMAIN rob = 1 .. Len(rob) /\ DOMAIN r1 = 1 .. Len(r1)
         /\ \A k \in 1 .. Len(rob) : InFlight[k] = rob[k]
         /\ \A k \in 1 .. Len(r1) : InFlight[Len(rob) + k] = r1[k]
<1> DEFINE S == Entry \cup MicroOp
<1>1. /\ rob \in Seq(S) /\ r1 \in Seq(S)
      /\ (rob = <<>> <=> Len(rob) = 0) /\ (r1 = <<>> <=> Len(r1) = 0)
      /\ DOMAIN rob = 1 .. Len(rob) /\ DOMAIN r1 = 1 .. Len(r1)
      /\ Len(rob) \in Nat /\ Len(r1) \in Nat
  <2>1. rob \in Seq(Entry) /\ r1 \in Seq(MicroOp)
    BY DEF TypesInv
  <2> QED BY <2>1
<1> HIDE DEF S
<1>2. /\ InFlight \in Seq(S) /\ Len(InFlight) = Len(rob) + Len(r1)
      /\ \A k \in 1 .. Len(rob) + Len(r1) :
           InFlight[k] = IF k <= Len(rob) THEN rob[k] ELSE r1[k - Len(rob)]
  BY <1>1, ConcatProperties DEF InFlight
<1>3. DOMAIN InFlight = 1 .. Len(rob) + Len(r1) /\ (InFlight = <<>> <=> Len(InFlight) = 0)
  BY <1>2
<1>4. \A k \in 1 .. Len(rob) : InFlight[k] = rob[k]
  BY <1>1, <1>2
<1>5. ASSUME NEW k \in 1 .. Len(r1) PROVE InFlight[Len(rob) + k] = r1[k]
  <2>1. /\ Len(rob) + k \in 1 .. Len(rob) + Len(r1) /\ ~(Len(rob) + k <= Len(rob))
        /\ (Len(rob) + k) - Len(rob) = k
    BY <1>1
  <2> QED BY <1>2, <2>1
<1> QED BY <1>1, <1>2, <1>3, <1>4, <1>5

LEMMA PreciseFromInv == CommitInv => PreciseBoundary
<1> SUFFICES ASSUME CommitInv, ~TrapBusy
             PROVE  /\ npc = IF InFlight = <<>> THEN fetchPc ELSE InFlight[1].pc
                    /\ \A k \in DOMAIN InFlight : FollowedBy(k) = PcAfter(k)
  BY DEF PreciseBoundary
<1> DEFINE L == Len(rob)
           M == Len(r1)
<1>0. TypesInv /\ PathInv
  BY DEF CommitInv
<1>1. /\ Len(InFlight) = L + M /\ DOMAIN InFlight = 1 .. L + M
      /\ L \in Nat /\ M \in Nat
      /\ (InFlight = <<>> <=> Len(InFlight) = 0) /\ (rob = <<>> <=> L = 0) /\ (r1 = <<>> <=> M = 0)
      /\ DOMAIN rob = 1 .. L /\ DOMAIN r1 = 1 .. M
      /\ \A k \in 1 .. L : InFlight[k] = rob[k]
      /\ \A k \in 1 .. M : InFlight[L + k] = r1[k]
  BY <1>0, FlightFacts
<1>2. /\ npc = IF rob = <<>> THEN Behind ELSE rob[1].pc
      /\ \A k \in DOMAIN rob :
           (IF rob[k].complete THEN rob[k].succ ELSE rob[k].pred)
             = IF k < L THEN rob[k + 1].pc ELSE Behind
      /\ \A k \in DOMAIN r1 : r1[k].pred = IF k < M THEN r1[k + 1].pc ELSE fetchPc
  BY <1>0 DEF PathInv
<1> HIDE DEF L, M
<1>3. Behind = PcAfter(L)
  <2>1. CASE M = 0
    BY <1>1, <2>1 DEF Behind, PcAfter
  <2>2. CASE M # 0
    <3>1. 1 \in 1 .. M /\ L < L + M
      BY <1>1, <2>2
    <3>2. InFlight[L + 1] = r1[1]
      BY <1>1, <3>1
    <3> QED BY <1>1, <2>2, <3>1, <3>2 DEF Behind, PcAfter
  <2> QED BY <2>1, <2>2
<1>4. npc = IF InFlight = <<>> THEN fetchPc ELSE InFlight[1].pc
  <2>1. CASE L = 0
    <3>1. npc = PcAfter(0)
      BY <1>1, <1>2, <1>3, <2>1
    <3>2. PcAfter(0) = IF 0 < Len(InFlight) THEN InFlight[1].pc ELSE fetchPc
      BY DEF PcAfter
    <3> QED BY <1>1, <3>1, <3>2
  <2>2. CASE L # 0
    <3>1. 1 \in 1 .. L /\ L + M # 0
      BY <1>1, <2>2
    <3> QED BY <1>1, <1>2, <2>2, <3>1
  <2> QED BY <2>1, <2>2
<1>5. ASSUME NEW k \in 1 .. L + M PROVE FollowedBy(k) = PcAfter(k)
  <2>1. CASE k <= L
    <3>1. k \in 1 .. L /\ InFlight[k] = rob[k]
      BY <1>1, <2>1
    <3>2. FollowedBy(k) = IF k < L THEN rob[k + 1].pc ELSE Behind
      BY <1>1, <1>2, <2>1, <3>1 DEF FollowedBy, L
    <3>3. CASE k < L
      <4>1. k + 1 \in 1 .. L /\ k < L + M
        BY <1>1, <3>1, <3>3
      <4> QED BY <1>1, <3>2, <3>3, <4>1 DEF PcAfter
    <3>4. CASE ~(k < L)
      <4>1. k = L
        BY <1>1, <3>1, <3>4
      <4> QED BY <1>3, <3>2, <3>4, <4>1
    <3> QED BY <3>3, <3>4
  <2>2. CASE ~(k <= L)
    <3> DEFINE j == k - L
    <3>1. j \in 1 .. M /\ k = L + j
      BY <1>1, <2>2
    <3> HIDE DEF j
    <3>2. FollowedBy(k) = r1[j].pred
      BY <1>1, <2>2, <3>1 DEF FollowedBy, L
    <3>3. r1[j].pred = IF j < M THEN r1[j + 1].pc ELSE fetchPc
      BY <1>1, <1>2, <3>1
    <3>4. CASE j < M
      <4>1. j + 1 \in 1 .. M /\ L + (j + 1) = k + 1 /\ k < L + M
        BY <1>1, <3>1, <3>4
      <4>2. InFlight[k + 1] = r1[j + 1]
        BY <1>1, <4>1
      <4> QED BY <1>1, <3>2, <3>3, <3>4, <4>1, <4>2 DEF PcAfter
    <3>5. CASE ~(j < M)
      <4>1. ~(k < L + M)
        BY <1>1, <3>1, <3>5
      <4> QED BY <1>1, <3>2, <3>3, <3>5, <4>1 DEF PcAfter
    <3> QED BY <3>4, <3>5
  <2> QED BY <2>1, <2>2
<1> QED BY <1>1, <1>4, <1>5

LEMMA SyncFromInv == CommitInv => SyncDrained
<1> SUFFICES ASSUME CommitInv, fe.kind \in {"fencei", "sfence"}
             PROVE  /\ cc.syncSent /\ HeadIs({fe.kind}) /\ Len(InFlight) = 1 /\ sq = 0
                    /\ fe.kind = "sfence" => cc.sfDone
  BY DEF SyncDrained
<1>0. TypesInv /\ RecoveryInv /\ BookInv
  BY DEF CommitInv
<1>1. /\ cc.syncSent /\ HeadIs({fe.kind}) /\ sq = 0 /\ (fe.kind = "sfence" => cc.sfDone)
  BY <1>0 DEF BookInv
<1>2. ~TrapBusy
  <2>1. ~Idle.syncSent
    BY DEF Idle
  <2> QED BY <1>0, <1>1, <2>1 DEF RecoveryInv
<1>3. BlockInv
  BY <1>2 DEF CommitInv
<1>4. /\ Len(InFlight) = Len(rob) + Len(r1) /\ Len(rob) \in Nat
      /\ (rob = <<>> <=> Len(rob) = 0) /\ (r1 = <<>> <=> Len(r1) = 0) /\ DOMAIN rob = 1 .. Len(rob)
  BY <1>0, FlightFacts
<1>5. 1 \in DOMAIN rob /\ BlockYounger(rob[1].pc)
  <2>1. rob # <<>> /\ Kind[rob[1].pc] \in {"fencei", "sfence"}
    BY <1>1 DEF HeadIs, HeadValid, Oldest
  <2>2. BlockYounger(rob[1].pc)
    BY <2>1 DEF BlockYounger, Serialize, SerialKinds
  <2> QED BY <1>4, <2>1, <2>2
<1>6. 1 = Len(rob) /\ r1 = <<>>
  BY <1>3, <1>5 DEF BlockInv
<1>7. Len(InFlight) = 1
  <2>1. Len(rob) = 1 /\ Len(r1) = 0
    BY <1>4, <1>6
  <2>2. Len(InFlight) = Len(rob) + Len(r1)
    BY <1>4
  <2> QED BY <2>1, <2>2
<1> QED BY <1>1, <1>7

LEMMA DirtyFromInv == CommitInv => DirtyUpdateOwned
<1> SUFFICES ASSUME CommitInv, cc.dSent PROVE HeadIs({"st"}) /\ Oldest.complete /\ ~TrapBusy
  BY DEF DirtyUpdateOwned
<1>1. ~Idle.dSent
  BY DEF Idle
<1> QED BY <1>1 DEF CommitInv, RecoveryInv, BookInv

LEMMA HeuFromInv == CommitInv => HeuOwnsHead
BY DEF CommitInv, PortsInv

(* A stale load stays in flight, marked, past every retirement.            *)
LEMMA StaleStep ==
  CommitInv /\ [Next]_vars =>
    [(\E k \in DOMAIN rob : rob[k].order) /\ ~cancel /\ npc' # npc
       => \E j \in DOMAIN rob' : rob'[j].order]_vars
<1> SUFFICES ASSUME CommitInv, Next, NEW k \in DOMAIN rob, rob[k].order, ~cancel, npc' # npc
             PROVE  \E j \in DOMAIN rob' : rob'[j].order
  BY DEF vars
<1>1. PICK i \in Inputs : Cycle(i)
  BY DEF Next
<1>0. TypesInv /\ RecoveryInv /\ EntriesInv /\ PortsInv /\ BookInv /\ InputOk(i)
  BY <1>1, InputFacts DEF CommitInv
<1>2. rob \in Seq(Entry) /\ k \in 1 .. Len(rob) /\ Len(rob) \in Nat /\ rob # <<>>
  <2>1. rob \in Seq(Entry)
    BY <1>0 DEF TypesInv
  <2> QED BY <2>1
<1>3. ~TrapBusy
  BY <1>0, <1>2 DEF RecoveryInv
<1>4. PathInv /\ BlockInv /\ trapPc = NoPc
  BY <1>0, <1>3, CalmFacts DEF CommitInv
<1>5. RetireOk(i) /\ Ordered(k, i)
  BY <1>0, RetireFacts DEF Ordered
<1>6. ~(k <= RetireCount(i))
  <2>1. RetireCount(i) \in Nat
    BY <1>2, <1>5 DEF RetireOk
  <2> QED BY <1>2, <1>5, <2>1 DEF RetireOk, Retirable
<1>7. ~Refetch(i)
  <2>1. SUFFICES ASSUME Refetch(i) PROVE FALSE
    OBVIOUS
  <2>2. RetireCount(i) \in Nat
    BY <1>2, <1>5 DEF RetireOk
  <2>3. SerialRetire(i)
    BY <2>1, <2>2 DEF Refetch, HeadRetires, SerialRetire, Serialize, SerialKinds, Oldest
  <2>4. RetireCount(i) = Len(rob)
    BY <1>0, <1>4, <2>3, SerialLast
  <2> QED BY <1>2, <1>6, <2>4
<1>8. npc = Oldest.pc
  BY <1>2, <1>4 DEF PathInv, Oldest
<1>9. RetireCount(i) > 0
  BY <1>1, <1>4, <1>7, <1>8 DEF Cycle, CommittedNext, Redirect
<1>10. ~Mispredict(i) /\ RobStep(i, rob')
  BY <1>0, <1>1, <1>5, <1>9, RobFacts DEF RetireOk, Cycle
<1> DEFINE j == k - RetireCount(i)
<1>11. j \in 1 .. Stay(i) /\ RetireCount(i) + j = k
  <2>1. RetireCount(i) \in Nat
    BY <1>2, <1>5 DEF RetireOk
  <2> QED BY <1>2, <1>6, <2>1 DEF Stay
<1> HIDE DEF j
<1>12. Kept(k, i, rob'[j]) /\ rob' \in Seq(Entry) /\ Len(rob') = Stay(i) + Taken(i)
  <2>1. Kept(RetireCount(i) + j, i, rob'[j])
    BY <1>10, <1>11 DEF RobStep
  <2> QED BY <1>10, <1>11, <2>1 DEF RobStep
<1>13. j \in DOMAIN rob'
  <2>1. Taken(i) \in 0 .. Len(r1) /\ Len(r1) \in Nat
    BY <1>0, NewsFacts DEF TypesInv
  <2>2. Stay(i) \in Nat
    BY <1>2, <1>5 DEF RetireOk, Stay
  <2>3. j \in 1 .. Len(rob') /\ DOMAIN rob' = 1 .. Len(rob')
    BY <1>11, <1>12, <2>1, <2>2
  <2> QED BY <2>3
<1> QED BY <1>5, <1>12, <1>13 DEF Kept

-----------------------------------------------------------------------------
(***************************************************************************)
(* Theorems.                                                               *)
(***************************************************************************)

(* As long as no interrupt is taken while an MMIO access of the interrupted*)
(* instruction is on its way (what backend.sv says of heu_irq_hold_q), the *)
(* registers of the boundary agree with the ROB in every cycle.            *)
THEOREM CommitInvariant == Spec /\ []InterruptNotReplaying => []CommitInv
<1> QED BY CommitInit, CommitStep, PTL DEF Spec

(* Then an interrupt's EPC, commit_ctrl.committed_next_pc_q, is the pc of  *)
(* the oldest instruction that has not retired, for every program, pattern *)
(* of interrupts, snoops, faults and mispredictions, and every machine     *)
(* size: outside a recovery all that is in flight is one path from it.     *)
THEOREM BoundaryPrecise == Spec /\ []InterruptNotReplaying => []PreciseBoundary
<1> QED BY CommitInvariant, PreciseFromInv, PTL

(* The front end invalidates for FENCE.I or SFENCE.VMA only while that     *)
(* instruction is alone in the machine and every older store has drained   *)
(* (commit_ctrl.fe_sync_valid_o and frontend_sync_ctrl).                   *)
THEOREM SyncsDrained == Spec /\ []InterruptNotReplaying => []SyncDrained
<1> QED BY CommitInvariant, SyncFromInv, PTL

(* A D-bit update is that of a completed, unretired store at the head, and *)
(* no trap takes the boundary from it (commit_ctrl.st_d_req_valid_o).      *)
THEOREM DirtyOwned == Spec /\ []InterruptNotReplaying => []DirtyUpdateOwned
<1> QED BY CommitInvariant, DirtyFromInv, PTL

(* mem_head_unit works for the incomplete MMIO instruction at the head, and*)
(* its queued result finds that entry.                                     *)
THEOREM HeadUnitOwned == Spec /\ []InterruptNotReplaying => []HeuOwnsHead
<1> QED BY CommitInvariant, HeuFromInv, PTL

(* No load retires whose line a snoop took before: whatever moves the      *)
(* committed boundary leaves it in flight and marked (load_queue.sv's      *)
(* order_required, commit_ctrl's replay).                                  *)
THEOREM StaleLoadsReplayed == Spec /\ []InterruptNotReplaying => StaleLoadReplayed
<1> QED BY CommitInvariant, StaleStep, PTL DEF Spec, StaleLoadReplayed

(* A program without MMIO.                                                 *)
NoMmio == \A p \in Pc : Kind[p] # "mmio"

(* What the head unit never starts, no interrupt replays.                  *)
LEMMA MmioFreeStep ==
  ASSUME NoMmio
  PROVE  CommitInv /\ [Next]_vars /\ InterruptNotReplaying => InterruptNotReplaying'
<1> SUFFICES ASSUME CommitInv, [Next]_vars, InterruptNotReplaying PROVE InterruptNotReplaying'
  OBVIOUS
<1>1. CASE UNCHANGED vars
  BY <1>1 DEF vars, InterruptNotReplaying, Irreversible
<1>2. CASE Next
  <2>1. PICK i \in Inputs : Cycle(i)
    BY <1>2 DEF Next
  <2>2. TypesInv /\ EntriesInv /\ PortsInv
    BY DEF CommitInv
  <2>3. ~HeadIs({"mmio"})
    <3>1. rob # <<>> => Oldest.pc \in Pc
      <4>1. SUFFICES ASSUME rob # <<>> PROVE Oldest.pc \in Pc
        OBVIOUS
      <4> QED BY <2>2, <4>1, OldestFacts
    <3> QED BY <3>1 DEF HeadIs, HeadValid, NoMmio
  <2>4. heu'.state = "idle"
    BY <2>1, <2>3, OwnerNext
  <2>5. HeuStep(i)
    BY <2>1, <2>2, HeuFacts DEF Cycle
  <2>6. ~Irreversible'
    BY <2>4, <2>5 DEF HeuStep, Irreversible
  <2> QED BY <2>6 DEF InterruptNotReplaying
<1> QED BY <1>1, <1>2

(* Without MMIO the condition is no condition: every program that does not *)
(* address a device has the precise boundary, and no interrupt ever finds  *)
(* an access on its way.                                                   *)
THEOREM MmioFreePrecise ==
  ASSUME NoMmio
  PROVE  Spec => [](PreciseBoundary /\ InterruptNotReplaying)
<1>1. Init => InterruptNotReplaying
  BY DEF Init, InterruptNotReplaying
<1>2. CommitInv /\ [Next]_vars /\ InterruptNotReplaying => InterruptNotReplaying'
  BY MmioFreeStep
<1>3. CommitInv /\ InterruptNotReplaying' /\ [Next]_vars => CommitInv'
  BY CommitStep
<1> QED BY <1>1, <1>2, <1>3, CommitInit, PreciseFromInv, PTL DEF Spec
=============================================================================
