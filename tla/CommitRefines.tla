--------------------------- MODULE CommitRefines ---------------------------
(***************************************************************************)
(* The core implements the sequential machine of ArchMachine, for every    *)
(* program, machine size and interrupt pattern, as long as no interrupt is *)
(* taken while an MMIO access of the interrupted instruction is on its way *)
(* (see CommitProofs).                                                     *)
(***************************************************************************)
EXTENDS CommitProofs

-----------------------------------------------------------------------------
(***************************************************************************)
(* The inductive invariant: what the machine knows of an instruction whose *)
(* effect is past, it knows of the head.                                   *)
(***************************************************************************)

Writers == {"csrOn", "csrOff", "satp"}

CsrInv ==
  /\ cc.csrDone => HeadIs(Writers)
  /\ cc.refetch => cc.csrDone
  /\ cc.serialDone => cc.csrDone \/ cc.syncSent
  /\ cc.syncSent => \/ HeadIs({"fencei", "sfence"}) \/ cc.csrDone
                    \/ HeadIs({"ld"}) /\ Oldest.order
  /\ csrReq => ~cc.csrDone /\ ~cc.serialDone

(* A completed MMIO access is the head's, and faulted or is held.          *)
MmioInv ==
  /\ \A k \in DOMAIN rob :
       KindAt(k) = "mmio" /\ rob[k].complete => k = 1 /\ (rob[k].exc \/ hold.set)
  /\ hold.set => /\ HeadIs({"mmio"}) /\ hold.owner = head
                 /\ heu.irrev \/ w1 # NoIdx \/ Oldest.complete
  /\ w1 # NoIdx => hold.set

ArchInv ==
  /\ hold \in [set : BOOLEAN, owner : Ring]
  /\ ~TrapBusy => CsrInv /\ MmioInv
  /\ TrapBusy /\ trapQ = NoTrap => ~hold.set
  /\ eligible /\ ~csr.ie => cc.csrDone \/ trapPc # NoPc

(* The parts the lemmas of CommitProofs ask for.                           *)
LEMMA Parts ==
  ASSUME CommitInv, NEW i \in Inputs
  PROVE  /\ TypesInv /\ RecoveryInv /\ EntriesInv /\ PortsInv /\ BookInv /\ InputOk(i)
         /\ RetireOk(i)
BY InputFacts, RetireFacts DEF CommitInv

(* Between recoveries, whose effect is past or on its way is the head.     *)
LEMMA EffectFacts ==
  ASSUME CommitInv, ArchInv, ~TrapBusy
  PROVE  /\ Irreversible => HeadIs({"mmio"}) /\ ~Oldest.complete
         /\ hold.set => HeadIs({"mmio"})
         /\ cc.csrDone => HeadIs(Writers)
         /\ ~HeadIs({"mmio"}) => ~Irreversible /\ ~hold.set /\ w1 = NoIdx
         /\ cc.csrDone => ~Irreversible /\ ~hold.set
<1>1. ~cancel /\ PortsInv /\ CsrInv /\ MmioInv
  BY DEF CommitInv, ArchInv, TrapBusy
<1>2. Irreversible => heu.state # "idle"
  BY <1>1 DEF Irreversible, PortsInv
<1>3. Irreversible => HeadIs({"mmio"}) /\ ~Oldest.complete
  BY <1>1, <1>2 DEF PortsInv, HeuOwnsHead
<1>4. /\ hold.set => HeadIs({"mmio"})
      /\ cc.csrDone => HeadIs(Writers)
      /\ w1 # NoIdx => hold.set
  BY <1>1 DEF CsrInv, MmioInv
<1>5. ~(HeadIs(Writers) /\ HeadIs({"mmio"}))
  BY DEF HeadIs, Writers
<1> QED BY <1>3, <1>4, <1>5

(* Only a load at the head is replayed.                                    *)
LEMMA OrderFacts ==
  ASSUME TypesInv, EntriesInv, NEW i, InputOk(i), OrderFlush(i)
  PROVE  HeadIs({"ld"})
<1>1. rob # <<>> /\ (rob[1].order \/ 1 \in i.dma)
  BY DEF OrderFlush, Ordered
<1>2. rob[1].order => rob[1].written /\ Kind[rob[1].pc] = "ld"
  BY <1>1, OldestFacts DEF Honest, Oldest
<1>3. 1 \in i.dma => rob[1].written /\ Kind[rob[1].pc] = "ld"
  BY DEF InputOk, LiveLoads, KindAt
<1> QED BY <1>1, <1>2, <1>3 DEF HeadIs, HeadValid, Oldest

(* The hold register keeps the head until it retires.                      *)
LEMMA HoldNext ==
  ASSUME TypesInv, hold \in [set : BOOLEAN, owner : Ring], hold.set => hold.owner = head,
         ~cancel, NEW i, RetireOk(i), HeuHold(i)
  PROVE  /\ hold' \in [set : BOOLEAN, owner : Ring]
         /\ hold'.set <=> (Irreversible \/ hold.set) /\ RetireCount(i) = 0
         /\ hold'.set => hold'.owner = head
<1> DEFINE R(x) == \E k \in 1 .. RetireCount(i) : Index(k) = x
           yes == TRUE
           no == FALSE
<1>1. hold' = IF (hold.set /\ R(hold.owner)) \/ (Irreversible /\ R(head))
              THEN [set |-> no, owner |-> IF Irreversible THEN head ELSE hold.owner]
              ELSE IF Irreversible THEN [set |-> yes, owner |-> head]
              ELSE hold
  BY DEF HeuHold
<1>2. head \in Ring /\ RetireCount(i) \in Nat
  BY DEF TypesInv, RetireOk
<1>3. R(head) <=> RetireCount(i) # 0
  BY <1>2, IndexFacts
<1>4. ~no /\ yes /\ no \in BOOLEAN /\ yes \in BOOLEAN
  OBVIOUS
<1> HIDE DEF R, yes, no
<1>5. CASE RetireCount(i) # 0 /\ (hold.set \/ Irreversible)
  <2>1. hold' = [set |-> no, owner |-> IF Irreversible THEN head ELSE hold.owner]
    BY <1>1, <1>3, <1>5
  <2> QED BY <1>2, <1>4, <1>5, <2>1
<1>6. CASE RetireCount(i) = 0 /\ Irreversible
  <2>1. hold' = [set |-> yes, owner |-> head]
    BY <1>1, <1>3, <1>6
  <2> QED BY <1>2, <1>4, <1>6, <2>1
<1>7. CASE ~Irreversible /\ (RetireCount(i) = 0 \/ ~hold.set)
  <2>1. hold' = hold
    BY <1>1, <1>3, <1>7
  <2> QED BY <1>7, <2>1
<1> QED BY <1>5, <1>6, <1>7

(* What the head unit and its transport leave irrevocable.                 *)
LEMMA IrrevNext ==
  ASSUME CommitInv, NEW i \in Inputs, Cycle(i)
  PROVE  /\ HeuStep(i)
         /\ Irreversible' <=> heu'.irrev
         /\ Irreversible' => Irreversible \/ MmioSend
         /\ Irreversible' => HeadIs({"mmio"}) /\ ~Oldest.complete
         /\ MmioSend => Irreversible'
         /\ cancel => ~Irreversible'
<1>1. HeuStep(i)
  BY Parts, HeuFacts DEF Cycle
<1>2. Irreversible' <=> heu'.irrev
  BY <1>1 DEF HeuStep, Irreversible
<1>3. heu'.irrev => heu'.state # "idle"
  BY <1>1 DEF HeuStep
<1>4. heu'.irrev => HeadIs({"mmio"}) /\ ~Oldest.complete
  BY <1>3, OwnerNext
<1> QED BY <1>1, <1>2, <1>3, <1>4 DEF HeuStep, Irreversible

(* A CSR write is that of a head that stays, and nothing else happens.     *)
Alone(i) ==
  /\ RetireCount(i) = 0 /\ ~SerialRetire(i) /\ TrapReq(i) = NoTrap /\ ~FlushAll(i)
  /\ Redirect(i) = NoPc

LEMMA WriteFacts ==
  ASSUME CommitInv, ArchInv, ~TrapBusy, NEW i \in Inputs, CsrWrite
  PROVE  HeadIs(Writers) /\ ~cc.csrDone /\ ~Irreversible /\ ~hold.set /\ Alone(i)
<1>0. /\ TypesInv /\ EntriesInv /\ PortsInv /\ InputOk(i) /\ RetireOk(i)
      /\ ~cancel /\ trapPc = NoPc /\ CsrInv
  BY Parts DEF ArchInv, TrapBusy, TrapInflight
<1>1. csrReq /\ HeadIs(CsrKinds) /\ Kind[Oldest.pc] # "csrBad"
  BY <1>0 DEF CsrWrite, CsrAnswer, CsrIllegal, PortsInv
<1>2. HeadIs(Writers) /\ rob # <<>>
  BY <1>1 DEF HeadIs, HeadValid, Writers, CsrKinds
<1>3. ~cc.csrDone /\ ~cc.serialDone
  BY <1>0, <1>1 DEF CsrInv
<1>4. ~Irreversible /\ ~hold.set
  <2>1. ~HeadIs({"mmio"})
    BY <1>2 DEF HeadIs, Writers
  <2> QED BY <2>1, EffectFacts
<1>5. RetireCount(i) = 0 /\ ~SerialRetire(i)
  <2>1. ~HeadSerialDone
    BY <1>2, <1>3 DEF HeadIs, Writers, HeadSerialDone
  <2>2. ~Retirable(1, i)
    BY <1>2, <2>1 DEF Retirable, Serialize, SerialKinds, CsrKinds, HeadIs, Writers, Oldest
  <2> QED BY <1>0, <2>2, HeadWaits
<1>6. ~SyncTrap
  <2>1. Honest(Oldest)
    BY <1>0, <1>2, OldestFacts
  <2>2. ~Oldest.exc
    BY <1>2, <2>1 DEF Honest, HeadIs, Writers
  <2> QED BY <1>2, <2>2 DEF SyncTrap, HeadIs, Writers
<1>7. ~OrderFlush(i)
  BY <1>0, <1>2, OrderFacts DEF HeadIs, Writers, Oldest
<1>8. ~IrqAccept(i)
  BY <1>1 DEF IrqAccept
<1>9. ~Refetch(i) /\ ~HeadRetires({"mret"}, i)
  BY <1>5 DEF Refetch, HeadRetires
<1>10. Alone(i)
  BY <1>0, <1>5, <1>6, <1>7, <1>8, <1>9 DEF Alone, TrapReq, FlushAll, Redirect
<1> QED BY <1>2, <1>3, <1>4, <1>10

(* So is the sending of an MMIO access.                                    *)
LEMMA SendFacts ==
  ASSUME CommitInv, ArchInv, ~TrapBusy, NEW i \in Inputs, Cycle(i), MmioSend,
         InterruptNotReplaying'
  PROVE  HeadIs({"mmio"}) /\ ~cc.csrDone /\ ~Irreversible /\ ~hold.set /\ ~CsrWrite /\ Alone(i)
<1>0. /\ TypesInv /\ EntriesInv /\ PortsInv /\ InputOk(i) /\ RetireOk(i)
      /\ ~cancel /\ trapPc = NoPc /\ CsrInv /\ MmioInv
  BY Parts DEF ArchInv, TrapBusy, TrapInflight
<1>1. heu.state = "mmio" /\ bus = "idle"
  BY DEF MmioSend
<1>2. ~heu.irrev /\ ~Irreversible /\ w1 = NoIdx /\ HeadIs({"mmio"}) /\ ~Oldest.complete
  BY <1>0, <1>1 DEF PortsInv, HeuOwnsHead, Irreversible
<1>3. ~hold.set
  BY <1>0, <1>2 DEF MmioInv
<1>4. ~HeadIs(CsrKinds) /\ ~HeadIs(Writers)
  BY <1>2 DEF HeadIs, CsrKinds, Writers
<1>5. ~CsrWrite /\ ~cc.csrDone
  BY <1>0, <1>4 DEF CsrWrite, CsrAnswer, PortsInv, CsrInv
<1>6. /\ RetireCount(i) = 0 /\ ~SyncTrap /\ ~OrderFlush(i) /\ ~Refetch(i)
      /\ TrapReq(i) = IF IrqAccept(i) THEN [type |-> "irq", epc |-> npc] ELSE NoTrap
  BY <1>0, <1>2, MmioWaits
<1>7. ~IrqAccept(i)
  <2>1. SUFFICES ASSUME IrqAccept(i) PROVE FALSE
    OBVIOUS
  <2>2. trapQ' = [type |-> "irq", epc |-> npc]
    BY <1>6, <2>1 DEF Cycle, TrapCtrl
  <2>3. trapQ' # NoTrap /\ trapQ'.type = "irq"
    <3>1. npc \in Pc
      BY <1>0 DEF TypesInv
    <3> QED BY <2>2, <3>1, NothingIsNothing
  <2>4. Irreversible'
    BY IrrevNext
  <2> QED BY <2>3, <2>4 DEF InterruptNotReplaying
<1>8. Alone(i)
  BY <1>0, <1>6, <1>7 DEF Alone, FlushAll, Redirect, SerialRetire
<1> QED BY <1>2, <1>3, <1>5, <1>8

(* The bookkeeping of an effect after an edge that does not reset it.      *)
LEMMA DoneFields ==
  ASSUME TypesInv, NEW i, CommitCtrl(i)
  PROVE  /\ SerialRetire(i) \/ FlushAll(i) =>
              ~cc'.csrDone /\ ~cc'.refetch /\ ~cc'.serialDone /\ ~cc'.syncSent
         /\ ~(SerialRetire(i) \/ FlushAll(i)) =>
              /\ cc'.serialDone => cc.serialDone \/ CsrWrite \/ (cc.syncSent /\ fe.state = "done")
              /\ cc'.csrDone <=> cc.csrDone \/ CsrWrite
              /\ cc'.refetch => cc.refetch \/ CsrWrite
              /\ cc'.syncSent <=> cc.syncSent \/ (FeSync(i) /\ fe.state = "idle")
<1>1. CASE SerialRetire(i) \/ FlushAll(i)
  <2>1. cc' = Idle
    BY <1>1 DEF CommitCtrl
  <2>2. ~Idle.csrDone /\ ~Idle.refetch /\ ~Idle.serialDone /\ ~Idle.syncSent
    BY DEF Idle
  <2> QED BY <1>1, <2>1, <2>2
<1>2. CASE ~(SerialRetire(i) \/ FlushAll(i))
  <2> DEFINE a == IF cc.syncSent /\ fe.state = "done" THEN TRUE
                  ELSE IF CsrWrite THEN Kind[Oldest.pc] # "satp" ELSE cc.serialDone
             b == cc.csrDone \/ CsrWrite
             c == IF CsrWrite THEN Kind[Oldest.pc] = "satp" ELSE cc.refetch
             d == cc.syncSent \/ (FeSync(i) /\ fe.state = "idle")
             e == cc.sfSent \/ SfenceReq(i)
             f == cc.sfDone \/ (cc.sfSent /\ i.sfAck)
             g == NeedsD /\ (cc.dSent \/ StDReq)
  <2>1. cc' = [serialDone |-> a, csrDone |-> b, refetch |-> c, syncSent |-> d,
               sfSent |-> e, sfDone |-> f, dSent |-> g]
    BY <1>2 DEF CommitCtrl
  <2>2. /\ a => cc.serialDone \/ CsrWrite \/ (cc.syncSent /\ fe.state = "done")
        /\ c => cc.refetch \/ CsrWrite
    OBVIOUS
  <2> HIDE DEF a, b, c, d, e, f, g
  <2>3. cc'.serialDone = a /\ cc'.csrDone = b /\ cc'.refetch = c /\ cc'.syncSent = d
    BY <2>1
  <2> QED BY <1>2, <2>2, <2>3 DEF b, d
<1> QED BY <1>1, <1>2

-----------------------------------------------------------------------------
(***************************************************************************)
(* The invariant is inductive.                                             *)
(***************************************************************************)

(* A recovery has no effect behind it.                                     *)
LEMMA HoldBusy ==
  ASSUME CommitInv, ArchInv, TrapBusy, NEW i \in Inputs, Cycle(i)
  PROVE  hold' \in [set : BOOLEAN, owner : Ring] /\ ~hold'.set /\ ~Irreversible'
<1>0. TypesInv /\ RecoveryInv /\ PortsInv /\ RetireOk(i)
  BY Parts
<1>1. CASE cancel
  <2> DEFINE no == FALSE
  <2>1. hold' = [set |-> no, owner |-> 0]
    BY <1>1 DEF Cycle, HeuHold
  <2>2. no \in BOOLEAN /\ ~no /\ 0 \in Ring
    BY CommitSizes DEF Ring
  <2> HIDE DEF no
  <2>3. hold' \in [set : BOOLEAN, owner : Ring] /\ ~hold'.set
    BY <2>1, <2>2
  <2> QED BY <1>1, <2>3, IrrevNext
<1>2. CASE ~cancel
  <2>1. rob = <<>> /\ trapQ = NoTrap
    BY <1>0, <1>2 DEF RecoveryInv
  <2>2. ~HeadIs({"mmio"})
    BY <2>1 DEF HeadIs, HeadValid
  <2>3. ~Irreversible
    BY <1>0, <1>2, <2>2 DEF Irreversible, PortsInv, HeuOwnsHead
  <2>4. ~hold.set /\ hold \in [set : BOOLEAN, owner : Ring]
    BY <2>1 DEF ArchInv
  <2>5. hold' \in [set : BOOLEAN, owner : Ring] /\ ~hold'.set
    BY <1>0, <1>2, <2>3, <2>4, HoldNext DEF Cycle
  <2> QED BY <2>2, <2>5, IrrevNext
<1> QED BY <1>1, <1>2

LEMMA HoldCalm ==
  ASSUME CommitInv, ArchInv, ~TrapBusy, NEW i \in Inputs, Cycle(i)
  PROVE  /\ hold' \in [set : BOOLEAN, owner : Ring]
         /\ hold'.set <=> (Irreversible \/ hold.set) /\ RetireCount(i) = 0
         /\ hold'.set => hold'.owner = head /\ HeadIs({"mmio"})
<1>1. TypesInv /\ RetireOk(i) /\ ~cancel
  BY Parts DEF TrapBusy
<1>2. hold \in [set : BOOLEAN, owner : Ring] /\ (hold.set => hold.owner = head)
  BY DEF ArchInv, MmioInv
<1>3. /\ hold' \in [set : BOOLEAN, owner : Ring]
      /\ hold'.set <=> (Irreversible \/ hold.set) /\ RetireCount(i) = 0
      /\ hold'.set => hold'.owner = head
  BY <1>1, <1>2, HoldNext DEF Cycle
<1> QED BY <1>3, EffectFacts

(* Where an entry comes from.                                              *)
LEMMA Origin ==
  ASSUME CommitInv, ~TrapBusy, NEW i \in Inputs, Cycle(i), NEW k \in DOMAIN rob',
         Kind[rob'[k].pc] = "mmio", rob'[k].complete
  PROVE  \E j \in DOMAIN rob : /\ Kept(j, i, rob'[k]) /\ j = RetireCount(i) + k
                               /\ Kind[rob[j].pc] = "mmio"
<1>0. TypesInv /\ EntriesInv /\ PortsInv /\ BookInv /\ InputOk(i) /\ RetireOk(i) /\ ~cancel
  BY Parts DEF TrapBusy
<1>1. RobStep(i, rob') /\ rob \in Seq(Entry)
  BY <1>0, RobFacts DEF Cycle, TypesInv
<1>2. k \in 1 .. Len(rob') /\ Len(rob) \in Nat /\ DOMAIN rob = 1 .. Len(rob)
  BY <1>1 DEF RobStep
<1>3. CASE Mispredict(i)
  <2>1. Kept(k, i, rob'[k]) /\ Len(rob') = i.resolve.at
    BY <1>1, <1>2, <1>3 DEF RobStep
  <2>2. RetireCount(i) = 0
    BY <1>3 DEF RetireCount
  <2>3. i.resolve.at \in DOMAIN rob
    BY <1>0, <1>3 DEF InputOk, Mispredict, Executing
  <2>4. k \in DOMAIN rob /\ k = RetireCount(i) + k
    BY <1>2, <2>1, <2>2, <2>3
  <2> QED BY <2>1, <2>4 DEF Kept
<1>4. CASE ~Mispredict(i)
  <2>1. /\ Len(rob') = Stay(i) + Taken(i)
        /\ \A j \in 1 .. Stay(i) : Kept(RetireCount(i) + j, i, rob'[j])
        /\ \A j \in 1 .. Taken(i) : rob'[Stay(i) + j] = NewEntry(r1[j])
    BY <1>1, <1>4 DEF RobStep
  <2>2. /\ RetireCount(i) \in 0 .. Len(rob) /\ Stay(i) = Len(rob) - RetireCount(i)
        /\ Taken(i) \in 0 .. Len(r1) /\ Len(r1) \in Nat
    BY <1>0, NewsFacts DEF RetireOk, Stay, TypesInv
  <2>3. CASE k <= Stay(i)
    <3>1. k \in 1 .. Stay(i)
      BY <1>2, <2>2, <2>3
    <3>2. RetireCount(i) + k \in DOMAIN rob
      BY <1>2, <2>2, <3>1
    <3>3. Kept(RetireCount(i) + k, i, rob'[k])
      BY <2>1, <3>1
    <3> QED BY <3>2, <3>3 DEF Kept
  <2>4. CASE ~(k <= Stay(i))
    <3> DEFINE j == k - Stay(i)
    <3>1. j \in 1 .. Taken(i) /\ k = Stay(i) + j /\ j \in 1 .. Len(r1)
      BY <1>2, <2>1, <2>2, <2>4
    <3>2. rob'[k] = NewEntry(r1[j])
      BY <2>1, <3>1
    <3>3. r1[j] \in MicroOp /\ r1[j].pred \in Targets[r1[j].pc]
      <4>1. r1 \in Seq(MicroOp)
        BY <1>0 DEF TypesInv
      <4>2. r1[j] \in MicroOp /\ j \in DOMAIN r1
        BY <3>1, <4>1
      <4> QED BY <1>0, <4>2 DEF EntriesInv
    <3> QED BY <3>2, <3>3, NewFacts
  <2> QED BY <2>3, <2>4
<1> QED BY <1>3, <1>4

LEMMA MmioNext ==
  ASSUME CommitInv, ArchInv, ~TrapBusy, NEW i \in Inputs, Cycle(i)
  PROVE  MmioInv'
<1>0. /\ TypesInv /\ EntriesInv /\ PortsInv /\ BookInv /\ InputOk(i) /\ RetireOk(i)
      /\ ~cancel /\ MmioInv
  BY Parts DEF TrapBusy, ArchInv
<1>1. /\ hold'.set <=> (Irreversible \/ hold.set) /\ RetireCount(i) = 0
      /\ hold'.set => hold'.owner = head /\ HeadIs({"mmio"})
  BY HoldCalm
<1>2. HeuStep(i)
  BY IrrevNext
<1>3. Index(1) = head /\ head \in Ring /\ head # NoIdx
  <2>1. head \in Ring
    BY <1>0 DEF TypesInv
  <2> QED BY <2>1, IndexFacts, NothingIsNothing DEF Ring
<1>4. ASSUME NEW k \in DOMAIN rob', Kind[rob'[k].pc] = "mmio", rob'[k].complete
      PROVE  k = 1 /\ (rob'[k].exc \/ hold'.set)
  <2>1. PICK j \in DOMAIN rob : /\ Kept(j, i, rob'[k]) /\ j = RetireCount(i) + k
                                /\ Kind[rob[j].pc] = "mmio"
    BY <1>4, Origin
  <2>2. /\ rob[j].complete \/ FromHeu(Index(j), i)
        /\ rob'[k].exc <=> rob[j].exc \/ (HeuExc(i) /\ heu.idx = Index(j))
    BY <1>4, <2>1 DEF Kept
  <2>3. /\ FromHeu(Index(j), i) => j = 1
        /\ rob[j].complete => j = 1 /\ (rob[j].exc \/ hold.set)
    BY <1>0, <2>1, PortFacts DEF MmioInv, KindAt
  <2>4. j = 1 /\ k = 1 /\ RetireCount(i) = 0
    <3>1. j = 1
      BY <2>2, <2>3
    <3>2. RetireCount(i) \in Nat /\ k \in Nat \ {0}
      <4>1. rob' \in Seq(Entry)
        BY TypesNext DEF TypesInv
      <4>2. k \in Nat \ {0}
        BY <4>1
      <4>3. Len(rob) \in Nat
        BY <1>0 DEF TypesInv
      <4> QED BY <1>0, <4>2, <4>3 DEF RetireOk
    <3> QED BY <2>1, <3>1, <3>2
  <2>5. CASE rob[j].complete
    BY <1>1, <2>2, <2>3, <2>4, <2>5
  <2>6. CASE FromHeu(Index(j), i)
    <3>1. CASE w1 = Index(j)
      <4>1. hold.set
        BY <1>0, <1>3, <2>4, <3>1 DEF MmioInv
      <4> QED BY <1>1, <2>4, <4>1
    <3>2. CASE HeuExc(i) /\ heu.idx = Index(j)
      BY <2>2, <2>4, <3>2
    <3> QED BY <2>6, <3>1, <3>2 DEF FromHeu
  <2> QED BY <2>2, <2>5, <2>6
<1>5. ASSUME hold'.set
      PROVE  /\ HeadIs({"mmio"})' /\ hold'.owner = head'
             /\ heu'.irrev \/ w1' # NoIdx \/ Oldest'.complete
  <2>1. HeadIs({"mmio"}) /\ RetireCount(i) = 0 /\ hold'.owner = head /\ (Irreversible \/ hold.set)
    BY <1>1, <1>5
  <2>2. HeadKept(i)
    BY <1>0, <2>1, HeadStays DEF Cycle, HeadIs
  <2>3. HeadIs({"mmio"})' /\ hold'.owner = head'
    BY <2>1, <2>2 DEF HeadKept, HeadIs, Oldest
  <2>4. /\ Oldest'.complete <=> Oldest.complete \/ FromHeu(head, i)
    BY <1>3, <2>1, <2>2 DEF HeadKept, Kept, Oldest, HeadIs
  <2>5. CASE Irreversible
    <3>1. heu.irrev
      BY <1>0, <2>5 DEF Irreversible, PortsInv
    <3>2. heu.idx = head
      BY <1>0, <3>1 DEF PortsInv, HeuOwnsHead
    <3>3. heu'.irrev \/ w1' = head \/ HeuExc(i)
      BY <1>0, <1>2, <3>1, <3>2 DEF HeuStep
    <3> QED BY <1>3, <2>3, <2>4, <3>2, <3>3 DEF FromHeu
  <2>6. CASE ~Irreversible
    <3>1. w1 # NoIdx \/ Oldest.complete
      BY <1>0, <2>1, <2>6 DEF MmioInv, Irreversible
    <3>2. w1 # NoIdx => w1 = head
      BY <1>0 DEF PortsInv, HeuOwnsHead
    <3> QED BY <1>0, <2>3, <2>4, <3>1, <3>2 DEF FromHeu
  <2> QED BY <2>5, <2>6
<1>6. ASSUME w1' # NoIdx PROVE hold'.set
  <2>1. heu.state = "result" /\ HeadIs({"mmio"}) /\ ~Oldest.complete
    BY <1>2, <1>6, OwnerNext DEF HeuStep
  <2>2. Irreversible
    BY <1>0, <2>1 DEF PortsInv, Irreversible
  <2>3. RetireCount(i) = 0
    BY <1>0, <2>1, MmioWaits
  <2> QED BY <1>1, <2>2, <2>3
<1> QED BY <1>4, <1>5, <1>6 DEF MmioInv, KindAt

(* The bookkeeping goes on being about the head.                           *)
LEMMA CsrNext ==
  ASSUME CommitInv, ArchInv, ~TrapBusy, NEW i \in Inputs, Cycle(i), ~TrapBusy'
  PROVE  CsrInv'
<1>0. /\ TypesInv /\ EntriesInv /\ PortsInv /\ BookInv /\ InputOk(i) /\ RetireOk(i)
      /\ ~cancel /\ CsrInv
  BY Parts DEF TrapBusy, ArchInv
<1>1. ~FlushAll(i)
  BY DEF Cycle, RecoveryBoundary, TrapBusy
<1>2. csrReq' <=> ~csrReq /\ CsrAdmit(i)
  BY <1>0 DEF Cycle, CsrRequest
<1>3. CASE SerialRetire(i)
  <2>1. ~cc'.csrDone /\ ~cc'.refetch /\ ~cc'.serialDone /\ ~cc'.syncSent
    BY <1>0, <1>3, DoneFields DEF Cycle
  <2> QED BY <2>1 DEF CsrInv
<1>4. CASE ~SerialRetire(i)
  <2>1. /\ cc'.serialDone => cc.serialDone \/ CsrWrite \/ (cc.syncSent /\ fe.state = "done")
        /\ cc'.csrDone <=> cc.csrDone \/ CsrWrite
        /\ cc'.refetch => cc.refetch \/ CsrWrite
        /\ cc'.syncSent <=> cc.syncSent \/ (FeSync(i) /\ fe.state = "idle")
    BY <1>0, <1>1, <1>4, DoneFields DEF Cycle
  <2>2. ASSUME NEW S, HeadIs(S), S \subseteq SerialKinds
        PROVE  HeadIs(S)'
    <3>1. Serialize(rob[1].pc) /\ RetireCount(i) \in Nat /\ HeadValid
      <4>1. Len(rob) \in Nat
        BY <1>0 DEF TypesInv
      <4> QED BY <1>0, <2>2, <4>1 DEF Serialize, HeadIs, Oldest, RetireOk
    <3>2. RetireCount(i) = 0
      BY <1>4, <3>1 DEF SerialRetire
    <3>3. HeadKept(i)
      BY <1>0, <3>1, <3>2, HeadStays DEF Cycle
    <3> QED BY <2>2, <3>3 DEF HeadKept, HeadIs, Oldest
  <2>3. Writers \subseteq SerialKinds /\ {"fencei", "sfence"} \subseteq SerialKinds
    BY DEF Writers, SerialKinds, CsrKinds
  <2>4. cc'.csrDone => HeadIs(Writers)'
    <3>1. CsrWrite => HeadIs(Writers)
      BY WriteFacts
    <3>2. cc.csrDone => HeadIs(Writers)
      BY <1>0 DEF CsrInv
    <3>3. HeadIs(Writers) => HeadIs(Writers)'
      BY <2>2, <2>3
    <3> QED BY <2>1, <3>1, <3>2, <3>3
  <2>5. cc'.refetch => cc'.csrDone
    BY <1>0, <2>1 DEF CsrInv
  <2>6. cc'.serialDone => cc'.csrDone \/ cc'.syncSent
    BY <1>0, <2>1 DEF CsrInv
  <2>7. OrderFlush(i) => HeadIs({"ld"})' /\ Oldest'.order
    <3>1. SUFFICES ASSUME OrderFlush(i) PROVE HeadIs({"ld"})' /\ Oldest'.order
      OBVIOUS
    <3>2. HeadIs({"ld"}) /\ RetireCount(i) = 0
      BY <1>0, <3>1, OrderFacts DEF RetireCount, CommitBlock
    <3>3. HeadKept(i)
      BY <1>0, <3>2, HeadStays DEF Cycle, HeadIs
    <3> QED BY <3>1, <3>2, <3>3 DEF HeadKept, Kept, HeadIs, Oldest, OrderFlush
  <2>8. cc'.syncSent => \/ HeadIs({"fencei", "sfence"})' \/ cc'.csrDone
                        \/ HeadIs({"ld"})' /\ Oldest'.order
    <3>1. HeadIs({"fencei", "sfence"}) => HeadIs({"fencei", "sfence"})'
      BY <2>2, <2>3
    <3>2. HeadIs({"ld"}) /\ Oldest.order => OrderFlush(i)
      BY DEF HeadIs, HeadValid, Oldest, OrderFlush, Ordered
    <3>3. FeSync(i) => HeadIs({"fencei", "sfence"}) \/ cc.refetch \/ OrderFlush(i)
      BY DEF FeSync, HeadIs
    <3> QED BY <1>0, <2>1, <2>7, <3>1, <3>2, <3>3 DEF CsrInv
  <2>9. csrReq' => ~cc'.csrDone /\ ~cc'.serialDone
    <3>1. SUFFICES ASSUME csrReq' PROVE ~cc'.csrDone /\ ~cc'.serialDone
      OBVIOUS
    <3>2. ~csrReq /\ HeadIs(CsrKinds) /\ ~cc.csrDone /\ ~cc.serialDone
      BY <1>2, <3>1 DEF CsrAdmit
    <3>3. ~CsrWrite
      BY <3>2 DEF CsrWrite, CsrAnswer
    <3>4. ~HeadIs({"fencei", "sfence"}) /\ ~HeadIs({"ld"})
      BY <3>2 DEF HeadIs, CsrKinds
    <3>5. ~cc.syncSent
      BY <1>0, <3>2, <3>4 DEF CsrInv
    <3> QED BY <2>1, <3>2, <3>3, <3>5
  <2> QED BY <2>4, <2>5, <2>6, <2>8, <2>9 DEF CsrInv
<1> QED BY <1>3, <1>4

(* What interrupts are sampled under.                                      *)
LEMMA EligibleNext ==
  ASSUME CommitInv, ArchInv, NEW i \in Inputs, Cycle(i), eligible', ~csr'.ie
  PROVE  cc'.csrDone \/ trapPc' # NoPc
<1>0. TypesInv /\ RecoveryInv
  BY Parts
<1>1. csr.ie
  BY DEF Cycle, Interrupts
<1>2. CASE trapQ # NoTrap
  <2>1. csr.mepc \in Pc /\ Vector \in Pc
    BY <1>0, ProgramAssumption DEF TypesInv
  <2> QED BY <1>2, <2>1, NothingIsNothing DEF Cycle, TrapCtrl
<1>3. CASE trapQ = NoTrap
  <2>1. CsrWrite
    BY <1>1, <1>3 DEF Cycle, CsrFile
  <2>2. ~TrapBusy
    BY <1>0, <2>1, BusyFacts
  <2>3. ~SerialRetire(i) /\ ~FlushAll(i)
    BY <2>1, <2>2, WriteFacts DEF Alone
  <2> QED BY <1>0, <2>1, <2>3, DoneFields DEF Cycle
<1> QED BY <1>2, <1>3

(* A recovery announced without a trap leaves no effect behind.            *)
LEMMA FlushHold ==
  ASSUME CommitInv, ArchInv, ~TrapBusy, NEW i \in Inputs, Cycle(i), FlushAll(i),
         TrapReq(i) = NoTrap
  PROVE  ~hold'.set
<1>0. TypesInv /\ EntriesInv /\ InputOk(i) /\ RetireOk(i) /\ Len(rob) \in Nat
  BY Parts DEF TypesInv
<1>1. hold'.set => RetireCount(i) = 0 /\ HeadIs({"mmio"})
  BY HoldCalm
<1>2. OrderFlush(i) \/ Refetch(i)
  BY DEF FlushAll
<1>3. OrderFlush(i) => ~HeadIs({"mmio"})
  BY <1>0, OrderFacts DEF HeadIs
<1>4. Refetch(i) => RetireCount(i) # 0
  BY <1>0 DEF Refetch, HeadRetires, SerialRetire, RetireOk
<1> QED BY <1>1, <1>2, <1>3, <1>4

(* During a recovery commit_ctrl has nothing on its books.                 *)
LEMMA IdleBook ==
  ASSUME CommitInv, TrapBusy, NEW i \in Inputs, Cycle(i)
  PROVE  cc' = Idle
<1>1. TypesInv /\ RecoveryInv /\ cc = Idle
  BY DEF CommitInv, RecoveryInv
<1>2. ~SerialRetire(i) /\ ~FlushAll(i) /\ ~CsrWrite /\ ~FeSync(i) /\ ~SfenceReq(i) /\ ~StDReq
  BY <1>1, BusyFacts
<1> QED BY <1>1, <1>2 DEF Cycle, CommitCtrl, Idle

LEMMA ArchInit == Init => ArchInv
<1> SUFFICES ASSUME Init PROVE ArchInv
  OBVIOUS
<1> DEFINE no == FALSE
<1>1. /\ hold = [set |-> no, owner |-> 0] /\ no \in BOOLEAN /\ ~no /\ 0 \in Ring
      /\ rob = <<>> /\ cc = Idle /\ ~csrReq /\ w1 = NoIdx /\ ~eligible
  BY CommitSizes DEF Init, Ring
<1> HIDE DEF no
<1>2. hold \in [set : BOOLEAN, owner : Ring] /\ ~hold.set
  BY <1>1
<1>3. ~cc.csrDone /\ ~cc.refetch /\ ~cc.serialDone /\ ~cc.syncSent
  BY <1>1 DEF Idle
<1>4. DOMAIN rob = {}
  BY <1>1
<1> QED BY <1>1, <1>2, <1>3, <1>4 DEF ArchInv, CsrInv, MmioInv

LEMMA ArchStep == CommitInv /\ ArchInv /\ [Next]_vars => ArchInv'
<1> SUFFICES ASSUME CommitInv, ArchInv, [Next]_vars PROVE ArchInv'
  OBVIOUS
<1>1. CASE UNCHANGED vars
  <2>1. /\ rob' = rob /\ head' = head /\ cc' = cc /\ csrReq' = csrReq /\ trapQ' = trapQ
        /\ trapPc' = trapPc /\ cancel' = cancel /\ packet' = packet /\ csr' = csr
        /\ heu' = heu /\ w1' = w1 /\ bus' = bus /\ hold' = hold /\ eligible' = eligible
    BY <1>1 DEF vars
  <2>2. TrapBusy' = TrapBusy /\ HeadValid' = HeadValid /\ Oldest' = Oldest
    BY <2>1 DEF TrapBusy, TrapInflight, HeadValid, Oldest
  <2>3. CsrInv => CsrInv'
    BY <2>1, <2>2 DEF CsrInv, HeadIs
  <2>4. MmioInv => MmioInv'
    BY <2>1, <2>2 DEF MmioInv, HeadIs, KindAt
  <2> QED BY <2>1, <2>2, <2>3, <2>4 DEF ArchInv
<1>2. CASE Next
  <2>1. PICK i \in Inputs : Cycle(i)
    BY <1>2 DEF Next
  <2>2. TypesInv /\ RecoveryInv /\ EntriesInv
    BY DEF CommitInv
  <2>3. eligible' /\ ~csr'.ie => cc'.csrDone \/ trapPc' # NoPc
    BY <2>1, EligibleNext
  <2>4. CASE TrapBusy
    <3>1. hold' \in [set : BOOLEAN, owner : Ring] /\ ~hold'.set
      BY <2>1, <2>4, HoldBusy
    <3>2. rob' = <<>>
      BY <2>1, <2>4, BusyEmpties
    <3>3. cc' = Idle
      BY <2>1, <2>4, IdleBook
    <3>4. ~cc'.csrDone /\ ~cc'.refetch /\ ~cc'.serialDone /\ ~cc'.syncSent
      BY <3>3 DEF Idle
    <3>5. w1' = NoIdx
      <4>1. ~HeadIs({"mmio"})'
        BY <3>2 DEF HeadIs, HeadValid
      <4> QED BY <2>1, <4>1, OwnerNext
    <3>6. CsrInv'
      BY <3>4 DEF CsrInv
    <3>7. MmioInv'
      <4>1. DOMAIN rob' = {}
        BY <3>2
      <4> QED BY <3>1, <3>5, <4>1 DEF MmioInv
    <3> QED BY <2>3, <3>1, <3>6, <3>7 DEF ArchInv
  <2>5. CASE ~TrapBusy
    <3>1. hold' \in [set : BOOLEAN, owner : Ring]
      BY <2>1, <2>5, HoldCalm
    <3>2. ~TrapBusy' => CsrInv' /\ MmioInv'
      BY <2>1, <2>5, CsrNext, MmioNext
    <3>3. TrapBusy' /\ trapQ' = NoTrap => ~hold'.set
      <4>1. SUFFICES ASSUME TrapBusy', trapQ' = NoTrap PROVE ~hold'.set
        OBVIOUS
      <4>2. TrapReq(i) = NoTrap
        BY <2>1, <4>1 DEF Cycle, TrapCtrl
      <4>3. trapQ = NoTrap /\ (Redirect(i) # NoPc => FlushAll(i))
        BY <2>2, <2>5, CalmFacts
      <4>4. FlushAll(i)
        BY <2>1, <4>1, <4>3 DEF Cycle, TrapCtrl, RecoveryBoundary, TrapBusy, TrapInflight
      <4> QED BY <2>1, <2>5, <4>2, <4>4, FlushHold
    <3> QED BY <2>3, <3>1, <3>2, <3>3 DEF ArchInv
  <2> QED BY <2>4, <2>5
<1> QED BY <1>1, <1>2

(* As long as no interrupt replays an access, effects are the head's.      *)
LEMMA ArchInvariant == Spec /\ []InterruptNotReplaying => []ArchInv
<1> QED BY CommitInvariant, ArchInit, ArchStep, PTL DEF Spec

-----------------------------------------------------------------------------
(***************************************************************************)
(* What the sequential machine sees of the core.                           *)
(***************************************************************************)

SeenPc   == IF trapQ # NoTrap THEN (IF trapQ.type = "xret" THEN csr.mepc ELSE Vector)
            ELSE IF trapPc # NoPc THEN trapPc ELSE npc
SeenIe   == IF trapQ = NoTrap THEN csr.ie ELSE trapQ.type = "xret" /\ csr.mpie
SeenMpie == IF trapQ = NoTrap THEN csr.mpie
            ELSE IF trapQ.type = "xret" THEN TRUE ELSE csr.ie
SeenEpc  == IF trapQ # NoTrap /\ trapQ.type # "xret" THEN trapQ.epc ELSE csr.mepc
SeenEff  == trapQ = NoTrap /\ (cc.csrDone \/ Irreversible \/ hold.set)

(* Without a trap in transport it sees the registers themselves.           *)
LEMMA PlainView ==
  ASSUME trapQ = NoTrap, trapPc = NoPc
  PROVE  /\ SeenPc = npc /\ SeenIe = csr.ie /\ SeenMpie = csr.mpie /\ SeenEpc = csr.mepc
         /\ SeenEff <=> cc.csrDone \/ Irreversible \/ hold.set
BY DEF SeenPc, SeenIe, SeenMpie, SeenEpc, SeenEff

LEMMA CalmView ==
  ASSUME ~TrapBusy
  PROVE  /\ SeenPc = npc /\ SeenIe = csr.ie /\ SeenMpie = csr.mpie /\ SeenEpc = csr.mepc
         /\ SeenEff <=> cc.csrDone \/ Irreversible \/ hold.set
BY PlainView DEF TrapBusy, TrapInflight

(* After a cycle between recoveries that requests no trap.                 *)
LEMMA NextView ==
  ASSUME ~TrapBusy, NEW i, Cycle(i), TrapReq(i) = NoTrap
  PROVE  /\ SeenPc' = npc' /\ SeenIe' = csr'.ie /\ SeenMpie' = csr'.mpie /\ SeenEpc' = csr'.mepc
         /\ SeenEff' <=> cc'.csrDone \/ Irreversible' \/ hold'.set
<1>1. trapQ' = NoTrap /\ trapPc' = NoPc
  BY DEF Cycle, TrapCtrl, TrapBusy, TrapInflight
<1> QED BY <1>1 DEF SeenPc, SeenIe, SeenMpie, SeenEpc, SeenEff

(* After one that does.                                                    *)
LEMMA TrapView ==
  ASSUME TypesInv, ~TrapBusy, NEW i, Cycle(i), NEW p \in Pc,
         TrapReq(i) \in {[type |-> "exc", epc |-> p], [type |-> "irq", epc |-> p]}
  PROVE  /\ SeenPc' = Vector /\ ~SeenIe' /\ SeenMpie' = csr'.ie /\ SeenEpc' = p /\ ~SeenEff'
         /\ SeenIe' = FALSE /\ SeenEff' = FALSE
<1>1. trapQ' # NoTrap /\ trapQ'.type # "xret" /\ trapQ'.epc = p
  <2>1. trapQ' = TrapReq(i)
    BY DEF Cycle, TrapCtrl
  <2>2. trapQ'.type \in {"exc", "irq"} /\ trapQ'.epc = p /\ trapQ' \in Trap
    BY <2>1 DEF Trap
  <2> QED BY <2>2, NothingIsNothing DEF Trap
<1> QED BY <1>1 DEF SeenPc, SeenIe, SeenMpie, SeenEpc, SeenEff

LEMMA CsrKept ==
  ASSUME NEW i, Cycle(i), ~TrapBusy, ~CsrWrite
  PROVE  csr' = csr
BY DEF Cycle, CsrFile, TrapBusy, TrapInflight

(* The head is the instruction the machine is at.                          *)
LEMMA HeadPc ==
  ASSUME CommitInv, ~TrapBusy, rob # <<>>
  PROVE  npc = Oldest.pc /\ npc \in Pc
BY DEF CommitInv, PathInv, Oldest, TypesInv

-----------------------------------------------------------------------------
(***************************************************************************)
(* Traps.                                                                  *)
(***************************************************************************)

(* A head that traps is an exception of the instruction there.             *)
LEMMA ExceptionStep ==
  ASSUME CommitInv, ArchInv, ~TrapBusy, NEW i \in Inputs, Cycle(i), SyncTrap
  PROVE  Arch!Exception
<1>1. TypesInv /\ EntriesInv /\ rob # <<>> /\ Oldest.complete
  BY DEF CommitInv, SyncTrap, HeadValid
<1>2. npc = Oldest.pc /\ npc \in Pc
  BY <1>1, HeadPc
<1>3. Kind[npc] \in {"ecall", "bad", "csrBad", "ld", "st", "mmio"}
  <2>1. Oldest.exc => Kind[Oldest.pc] \in {"bad", "ld", "st", "csrBad", "mmio"}
    BY <1>1, OldestFacts DEF Honest
  <2> QED BY <1>2, <2>1 DEF SyncTrap
<1>4. ~CsrWrite /\ csr' = csr
  <2>1. CsrWrite => HeadIs(Writers)
    BY WriteFacts
  <2>2. ~CsrWrite
    BY <1>2, <1>3, <2>1 DEF HeadIs, Writers
  <2> QED BY <2>2, CsrKept
<1>5. TrapReq(i) = [type |-> "exc", epc |-> npc]
  BY <1>2 DEF TrapReq
<1>6. /\ SeenPc' = Vector /\ SeenIe' = FALSE /\ SeenMpie' = csr.ie /\ SeenEpc' = npc
      /\ SeenEff' = FALSE
  BY <1>1, <1>2, <1>4, <1>5, TrapView
<1>7. /\ SeenPc = npc /\ SeenIe = csr.ie
      /\ SeenEff <=> cc.csrDone \/ Irreversible \/ hold.set
  BY CalmView
<1>8. SeenEff => Kind[npc] = "mmio"
  <2>1. cc.csrDone => HeadIs(Writers)
    BY EffectFacts
  <2>2. ~cc.csrDone
    BY <1>2, <1>3, <2>1 DEF HeadIs, Writers
  <2>3. Irreversible \/ hold.set => HeadIs({"mmio"})
    BY EffectFacts
  <2> QED BY <1>2, <1>7, <2>2, <2>3 DEF HeadIs
<1> QED BY <1>3, <1>6, <1>7, <1>8
        DEF Arch!Exception, Arch!MayFault, Arch!Never, Arch!Enter,
            SeenPc, SeenIe, SeenMpie, SeenEpc, SeenEff

(* An accepted interrupt is one of the machine's.                          *)
LEMMA InterruptStep ==
  ASSUME CommitInv, ArchInv, ~TrapBusy, NEW i \in Inputs, Cycle(i), IrqAccept(i)
  PROVE  Arch!Interrupt
<1>1. TypesInv /\ npc \in Pc /\ trapPc = NoPc /\ ~SyncTrap
  BY DEF CommitInv, TypesInv, TrapBusy, TrapInflight, IrqAccept
<1>2. ~cc.csrDone /\ ~Irreversible /\ ~hold.set /\ ~CsrWrite
  BY DEF IrqAccept, CsrWrite, CsrAnswer
<1>3. csr.ie /\ csr.ie \in BOOLEAN
  BY <1>1, <1>2 DEF ArchInv, IrqAccept, TypesInv
<1>4. csr' = csr
  BY <1>2, CsrKept
<1>5. TrapReq(i) = [type |-> "irq", epc |-> npc]
  BY <1>1 DEF TrapReq
<1>6. /\ SeenPc' = Vector /\ SeenIe' = FALSE /\ SeenMpie' = csr.ie /\ SeenEpc' = npc
      /\ SeenEff' = FALSE
  BY <1>1, <1>4, <1>5, TrapView
<1>7. SeenPc = npc /\ SeenIe = csr.ie /\ ~SeenEff
  BY <1>2, CalmView
<1> QED BY <1>3, <1>6, <1>7
        DEF Arch!Interrupt, Arch!Enter, SeenPc, SeenIe, SeenMpie, SeenEpc, SeenEff

-----------------------------------------------------------------------------
(***************************************************************************)
(* Retirement.                                                             *)
(***************************************************************************)

(* A path of ordinary instructions is one of the machine's.                *)
LEMMA Reaching ==
  ASSUME NEW n \in Nat, NEW s \in [0 .. n -> Pc],
         \A m \in 0 .. n - 1 : Arch!Ordinary(s[m]) /\ s[m + 1] \in Targets[s[m]]
  PROVE  Arch!Reaches(n, s[0], s[n])
<1> DEFINE w == [m \in 1 .. n - 1 |-> s[m]]
           at(m) == IF m = 0 THEN s[0] ELSE IF m = n THEN s[n] ELSE w[m]
<1>1. w \in [1 .. n - 1 -> DOMAIN Kind]
  <2>1. \A m \in 1 .. n - 1 : s[m] \in Pc
    OBVIOUS
  <2> QED BY <2>1 DEF Pc
<1>2. \A m \in 0 .. n : at(m) = s[m]
  <2>1. TAKE m \in 0 .. n
  <2>2. m = 0 \/ m = n \/ m \in 1 .. n - 1
    OBVIOUS
  <2> QED BY <2>2
<1> HIDE DEF at
<1>3. at(n) = s[n]
  BY <1>2
<1>4. \A m \in 0 .. n - 1 : Arch!Ordinary(at(m)) /\ at(m + 1) \in Targets[at(m)]
  <2>1. TAKE m \in 0 .. n - 1
  <2>2. m \in 0 .. n /\ m + 1 \in 0 .. n
    OBVIOUS
  <2>3. at(m) = s[m] /\ at(m + 1) = s[m + 1]
    BY <1>2, <2>2
  <2>4. Arch!Ordinary(s[m]) /\ s[m + 1] \in Targets[s[m]]
    OBVIOUS
  <2> QED BY <2>3, <2>4
<1>5. at(n) = s[n] /\ \A m \in 0 .. n - 1 : Arch!Ordinary(at(m)) /\ at(m + 1) \in Targets[at(m)]
  BY <1>3, <1>4
<1> USE DEF at
<1> QED BY <1>1, <1>5 DEF Arch!Reaches

(* What may retire: behind the head ordinary instructions only, and at the *)
(* head one whose effect is past.                                          *)
LEMMA RetiredKinds ==
  ASSUME CommitInv, ArchInv, ~TrapBusy, NEW i \in Inputs, NEW k \in 1 .. RetireCount(i)
  PROVE  /\ rob[k].complete /\ rob[k].pc \in Pc
         /\ Kind[rob[k].pc] \notin {"ecall", "bad", "csrBad"}
         /\ Kind[rob[k].pc] \in {"mret", "csrOn", "csrOff", "satp"} => k = 1 /\ SerialRetire(i)
         /\ Kind[rob[k].pc] \in Writers => cc.csrDone
         /\ Kind[rob[k].pc] = "mmio" => k = 1 /\ hold.set
<1>0. /\ TypesInv /\ EntriesInv /\ RetireOk(i) /\ CsrInv /\ MmioInv
      /\ k \in DOMAIN rob /\ rob \in Seq(Entry)
  BY Parts DEF ArchInv, RetireOk, TypesInv
<1>1. Retirable(k, i) /\ rob[k] \in Entry /\ Honest(rob[k])
  BY <1>0 DEF RetireOk, EntriesInv
<1>2. rob[k].complete /\ ~rob[k].exc /\ rob[k].pc \in Pc
  BY <1>1 DEF Retirable, Entry
<1>3. Kind[rob[k].pc] \notin {"bad", "csrBad"}
  BY <1>1, <1>2 DEF Honest
<1>4. Serialize(rob[k].pc) => k = 1 /\ HeadSerialDone /\ SerialRetire(i)
  BY <1>1 DEF Retirable, SerialRetire
<1>5. k = 1 => Oldest = rob[k] /\ rob # <<>> /\ HeadValid
  BY <1>0, <1>1 DEF Oldest, HeadValid, Retirable
<1>6. Kind[rob[k].pc] # "ecall"
  BY <1>4, <1>5 DEF HeadSerialDone, Serialize, SerialKinds
<1>7. Kind[rob[k].pc] \in {"mret", "csrOn", "csrOff", "satp"} => k = 1 /\ SerialRetire(i)
  BY <1>4 DEF Serialize, SerialKinds, CsrKinds
<1>8. Kind[rob[k].pc] \in Writers => cc.csrDone
  <2>1. SUFFICES ASSUME Kind[rob[k].pc] \in Writers PROVE cc.csrDone
    OBVIOUS
  <2>2. k = 1 /\ HeadSerialDone /\ Oldest = rob[k]
    BY <1>4, <1>5, <2>1 DEF Writers, Serialize, SerialKinds, CsrKinds
  <2>3. cc.serialDone
    BY <2>1, <2>2 DEF HeadSerialDone, Writers
  <2>4. ~HeadIs({"fencei", "sfence"}) /\ ~HeadIs({"ld"})
    BY <2>1, <2>2 DEF HeadIs, Writers
  <2> QED BY <1>0, <2>3, <2>4 DEF CsrInv
<1>9. Kind[rob[k].pc] = "mmio" => k = 1 /\ hold.set
  BY <1>0, <1>2 DEF MmioInv, KindAt
<1> QED BY <1>2, <1>3, <1>6, <1>7, <1>8, <1>9

(* The retired prefix is a path of the program.                            *)
RetiredPc(i) == [k \in 0 .. RetireCount(i) |->
                   IF k < RetireCount(i) THEN rob[k + 1].pc ELSE rob[k].succ]

LEMMA RetiredPath ==
  ASSUME CommitInv, ArchInv, ~TrapBusy, NEW i \in Inputs, RetireCount(i) > 0
  PROVE  /\ RetireCount(i) \in 1 .. RetireWidth /\ rob # <<>>
         /\ RetiredPc(i) \in [0 .. RetireCount(i) -> Pc]
         /\ RetiredPc(i)[0] = npc /\ RetiredPc(i)[RetireCount(i)] = rob[RetireCount(i)].succ
         /\ \A k \in 0 .. RetireCount(i) - 1 :
              /\ RetiredPc(i)[k] = rob[k + 1].pc
              /\ RetiredPc(i)[k + 1] \in Targets[RetiredPc(i)[k]]
<1> DEFINE n == RetireCount(i)
           s == RetiredPc(i)
<1>0. /\ TypesInv /\ EntriesInv /\ RetireOk(i) /\ PathInv /\ rob \in Seq(Entry)
      /\ Len(rob) \in Nat /\ DOMAIN rob = 1 .. Len(rob)
  BY Parts DEF CommitInv, TypesInv
<1>1. n \in 1 .. Len(rob) /\ n \in 1 .. RetireWidth /\ n \in Nat /\ Len(rob) > 0
  BY <1>0, CommitSizes DEF RetireOk
<1> HIDE DEF n
<1>2. \A k \in 1 .. n : /\ rob[k] \in Entry /\ rob[k].complete
                        /\ rob[k].succ \in Targets[rob[k].pc]
                        /\ rob[k].pc \in Pc /\ rob[k].succ \in Pc
  <2>1. TAKE k \in 1 .. n
  <2>2. k \in DOMAIN rob
    BY <1>0, <1>1
  <2>3. rob[k] \in Entry /\ Honest(rob[k])
    BY <1>0, <2>2 DEF EntriesInv
  <2>4. rob[k].complete
    BY <1>0 DEF RetireOk, Retirable, n
  <2> QED BY <2>3, <2>4 DEF Honest, Entry
<1>3. s = [k \in 0 .. n |-> IF k < n THEN rob[k + 1].pc ELSE rob[k].succ]
  BY DEF RetiredPc, n
<1> HIDE DEF s
<1>4. \A k \in 0 .. n - 1 : s[k] = rob[k + 1].pc /\ k + 1 \in 1 .. n
  BY <1>1, <1>3
<1>5. \A k \in 1 .. n : s[k] = rob[k].succ
  <2>1. TAKE k \in 1 .. n
  <2>2. CASE k = n
    BY <1>1, <1>3, <2>2
  <2>3. CASE k # n
    <3>1. k \in 0 .. n - 1 /\ k \in DOMAIN rob /\ k < Len(rob)
      BY <1>0, <1>1, <2>3
    <3>2. rob[k].succ = rob[k + 1].pc
      BY <1>0, <1>2, <3>1 DEF PathInv
    <3> QED BY <1>4, <3>1, <3>2
  <2> QED BY <2>2, <2>3
<1>6. s \in [0 .. n -> Pc]
  <2>1. \A k \in 0 .. n : s[k] \in Pc
    <3>1. TAKE k \in 0 .. n
    <3>2. k \in 0 .. n - 1 \/ k \in 1 .. n
      BY <1>1
    <3> QED BY <1>2, <1>4, <1>5, <3>2
  <2> QED BY <1>3, <2>1
<1>7. s[0] = npc
  <2>1. 0 \in 0 .. n - 1 /\ 0 + 1 = 1 /\ rob # <<>>
    BY <1>0, <1>1
  <2>2. s[0] = rob[1].pc
    BY <1>4, <2>1
  <2> QED BY <1>0, <2>1, <2>2 DEF PathInv
<1>8. s[n] = rob[n].succ
  BY <1>1, <1>5
<1>9. \A k \in 0 .. n - 1 : s[k + 1] \in Targets[s[k]]
  <2>1. TAKE k \in 0 .. n - 1
  <2>2. s[k] = rob[k + 1].pc /\ k + 1 \in 1 .. n
    BY <1>4
  <2> QED BY <1>2, <1>5, <2>2
<1>10. rob # <<>>
  BY <1>0, <1>1
<1> QED BY <1>1, <1>4, <1>6, <1>7, <1>8, <1>9, <1>10 DEF n, s

(* All that retires is ordinary, the head apart.                           *)
LEMMA RetiredOrdinary ==
  ASSUME CommitInv, ArchInv, ~TrapBusy, NEW i \in Inputs, RetireCount(i) > 0
  PROVE  /\ \A k \in 1 .. RetireCount(i) - 1 : Arch!Ordinary(RetiredPc(i)[k])
         /\ Kind[npc] \notin Arch!Once \cup {"mret"} => Arch!Ordinary(RetiredPc(i)[0])
<1>1. /\ RetireCount(i) \in Nat
      /\ \A k \in 0 .. RetireCount(i) - 1 : RetiredPc(i)[k] = rob[k + 1].pc
      /\ RetiredPc(i)[0] = npc
  BY RetiredPath
<1>2. \A k \in 1 .. RetireCount(i) - 1 : Arch!Ordinary(RetiredPc(i)[k])
  <2>1. TAKE k \in 1 .. RetireCount(i) - 1
  <2>2. k \in 0 .. RetireCount(i) - 1 /\ k + 1 \in 1 .. RetireCount(i) /\ k + 1 # 1
    BY <1>1
  <2>3. Kind[rob[k + 1].pc] \notin {"ecall", "bad", "csrBad", "mret", "csrOn", "csrOff", "satp", "mmio"}
    BY <2>2, RetiredKinds
  <2> QED BY <1>1, <2>2, <2>3 DEF Arch!Ordinary, Arch!Once, Arch!Never
<1>3. Kind[npc] \notin Arch!Once \cup {"mret"} => Arch!Ordinary(RetiredPc(i)[0])
  <2>1. 0 \in 0 .. RetireCount(i) - 1 /\ 0 + 1 = 1 /\ 1 \in 1 .. RetireCount(i)
    BY <1>1
  <2>2. RetiredPc(i)[0] = rob[1].pc
    BY <1>1, <2>1
  <2>3. Kind[rob[1].pc] \notin {"ecall", "bad", "csrBad"}
    BY <2>1, RetiredKinds
  <2> QED BY <1>1, <2>2, <2>3 DEF Arch!Ordinary, Arch!Once, Arch!Never
<1> QED BY <1>2, <1>3

(* Where retirement leads, from the head and from behind it.               *)
LEMMA RetiredReach ==
  ASSUME CommitInv, ArchInv, ~TrapBusy, NEW i \in Inputs, RetireCount(i) > 0
  PROVE  /\ Kind[npc] \notin Arch!Once \cup {"mret"} =>
              \E n \in 0 .. RetireWidth : Arch!Reaches(n, npc, rob[RetireCount(i)].succ)
         /\ \E q \in Targets[npc], n \in 0 .. RetireWidth - 1 :
              Arch!Reaches(n, q, rob[RetireCount(i)].succ)
<1> DEFINE n == RetireCount(i)
           s == RetiredPc(i)
           t == [k \in 0 .. n - 1 |-> s[k + 1]]
<1>1. /\ n \in 1 .. RetireWidth /\ n \in Nat /\ s \in [0 .. n -> Pc]
      /\ s[0] = npc /\ s[n] = rob[n].succ
      /\ \A k \in 0 .. n - 1 : s[k + 1] \in Targets[s[k]]
  BY RetiredPath
<1>2. /\ \A k \in 1 .. n - 1 : Arch!Ordinary(s[k])
      /\ Kind[npc] \notin Arch!Once \cup {"mret"} => Arch!Ordinary(s[0])
  BY RetiredOrdinary
<1>3. rob[n].succ = rob[RetireCount(i)].succ
  OBVIOUS
<1> HIDE DEF n, s
<1>4. ASSUME Kind[npc] \notin Arch!Once \cup {"mret"}
      PROVE  \E m \in 0 .. RetireWidth : Arch!Reaches(m, npc, rob[n].succ)
  <2>1. \A k \in 0 .. n - 1 : Arch!Ordinary(s[k]) /\ s[k + 1] \in Targets[s[k]]
    <3>1. TAKE k \in 0 .. n - 1
    <3>2. k = 0 \/ k \in 1 .. n - 1
      BY <1>1
    <3> QED BY <1>1, <1>2, <1>4, <3>2
  <2>2. Arch!Reaches(n, s[0], s[n])
    BY <1>1, <2>1, Reaching
  <2>3. n \in 0 .. RetireWidth
    BY <1>1, CommitSizes
  <2> QED BY <1>1, <2>2, <2>3
<1>5. \E q \in Targets[npc], m \in 0 .. RetireWidth - 1 : Arch!Reaches(m, q, rob[n].succ)
  <2>1. n - 1 \in Nat /\ n - 1 \in 0 .. RetireWidth - 1 /\ 0 \in 0 .. n - 1 /\ n - 1 \in 0 .. n - 1
    BY <1>1, CommitSizes
  <2>2. t \in [0 .. n - 1 -> Pc] /\ t[0] = s[1] /\ t[n - 1] = s[n]
    <3>1. \A k \in 0 .. n - 1 : k + 1 \in 0 .. n
      BY <1>1
    <3>2. 0 + 1 = 1 /\ (n - 1) + 1 = n
      BY <1>1
    <3>3. t[0] = s[0 + 1] /\ t[n - 1] = s[(n - 1) + 1]
      BY <2>1
    <3>4. \A k \in 0 .. n - 1 : s[k + 1] \in Pc
      BY <1>1, <3>1
    <3> QED BY <3>2, <3>3, <3>4
  <2>3. \A k \in 0 .. (n - 1) - 1 : Arch!Ordinary(t[k]) /\ t[k + 1] \in Targets[t[k]]
    <3>1. TAKE k \in 0 .. (n - 1) - 1
    <3>2. /\ k \in 0 .. n - 1 /\ k + 1 \in 0 .. n - 1 /\ k + 1 \in 1 .. n - 1
      BY <1>1
    <3>3. t[k] = s[k + 1] /\ t[k + 1] = s[(k + 1) + 1]
      BY <3>2
    <3> QED BY <1>1, <1>2, <3>2, <3>3
  <2> HIDE DEF t
  <2>4. Arch!Reaches(n - 1, t[0], t[n - 1])
    BY <2>1, <2>2, <2>3, Reaching
  <2>5. s[1] \in Targets[npc]
    <3>1. 0 \in 0 .. n - 1 /\ 0 + 1 = 1
      BY <2>1
    <3> QED BY <1>1, <3>1
  <2> QED BY <1>1, <2>1, <2>2, <2>4, <2>5
<1> QED BY <1>3, <1>4, <1>5

(* The boundary after a retirement, with nothing left of an effect.        *)
LEMMA RetireNext ==
  ASSUME CommitInv, ArchInv, ~TrapBusy, NEW i \in Inputs, Cycle(i), RetireCount(i) > 0
  PROVE  /\ npc' = rob[RetireCount(i)].succ /\ csr' = csr
         /\ ~cc'.csrDone /\ ~Irreversible' /\ ~hold'.set
         /\ ~Irreversible /\ rob # <<>> /\ HeadValid /\ Oldest.complete /\ npc = Oldest.pc
         /\ TrapReq(i) = IF Kind[npc] = "mret" THEN [type |-> "xret", epc |-> npc] ELSE NoTrap
<1>0. /\ TypesInv /\ EntriesInv /\ RetireOk(i) /\ InputOk(i) /\ BlockInv /\ trapPc = NoPc
      /\ Len(rob) \in Nat
  BY Parts DEF CommitInv, TrapBusy, TrapInflight, TypesInv
<1>1. /\ RetireCount(i) \in 1 .. Len(rob) /\ 1 \in 1 .. RetireCount(i) /\ rob # <<>>
      /\ ~OrderFlush(i) /\ ~SyncTrap /\ ~IrqAccept(i)
  BY <1>0 DEF RetireOk, CommitBlock
<1>2. Retirable(1, i) /\ HeadValid /\ Oldest.complete
  BY <1>0, <1>1 DEF RetireOk, Retirable, HeadValid, Oldest
<1>3. npc = Oldest.pc /\ npc \in Pc
  BY <1>1, HeadPc
<1>4. ~CsrWrite /\ csr' = csr
  <2>1. ~CsrWrite
    BY WriteFacts DEF Alone
  <2> QED BY <2>1, CsrKept
<1>5. ~Irreversible' /\ ~Irreversible
  <2>1. ~(HeadIs({"mmio"}) /\ ~Oldest.complete)
    BY <1>2
  <2> QED BY <2>1, IrrevNext, EffectFacts
<1>6. ~hold'.set
  BY HoldCalm
<1>7. ~cc'.csrDone
  <2>1. cc.csrDone => SerialRetire(i)
    <3>1. cc.csrDone => Kind[rob[1].pc] \in Writers
      BY EffectFacts DEF HeadIs, Oldest
    <3> QED BY <1>1, <3>1 DEF SerialRetire, Serialize, SerialKinds, CsrKinds, Writers
  <2> QED BY <1>0, <1>4, <2>1, DoneFields DEF Cycle
<1>8. npc' = rob[RetireCount(i)].succ
  <2>1. Refetch(i) => SerialRetire(i)
    <3>1. HeadRetires({"fencei", "sfence"}, i) => Serialize(rob[1].pc)
      BY DEF HeadRetires, Serialize, SerialKinds, Oldest
    <3> QED BY <1>1, <3>1 DEF Refetch, SerialRetire
  <2>2. SerialRetire(i) => RetireCount(i) = 1
    BY <1>0, SerialLast
  <2>3. Refetch(i) => Oldest.succ = rob[RetireCount(i)].succ
    BY <2>1, <2>2 DEF Oldest
  <2>4. Redirect(i) = IF Refetch(i) THEN Oldest.succ ELSE NoPc
    BY <1>0, <1>1 DEF Redirect
  <2> QED BY <2>3, <2>4 DEF Cycle, CommittedNext
<1>9. TrapReq(i) = IF Kind[npc] = "mret" THEN [type |-> "xret", epc |-> npc] ELSE NoTrap
  BY <1>1, <1>3 DEF TrapReq, HeadRetires
<1> QED BY <1>1, <1>2, <1>3, <1>4, <1>5, <1>6, <1>7, <1>8, <1>9

LEMMA ReturnStep ==
  ASSUME CommitInv, ArchInv, ~TrapBusy, NEW i \in Inputs, Cycle(i), RetireCount(i) > 0,
         Kind[npc] = "mret"
  PROVE  Arch!Return
<1>1. /\ csr' = csr /\ npc = Oldest.pc /\ rob # <<>> /\ npc \in Pc /\ TypesInv
      /\ TrapReq(i) = [type |-> "xret", epc |-> npc]
  BY RetireNext DEF CommitInv, TypesInv
<1>2. trapQ' # NoTrap /\ trapQ'.type = "xret"
  <2>1. trapQ' = [type |-> "xret", epc |-> npc]
    BY <1>1 DEF Cycle, TrapCtrl
  <2> QED BY <1>1, <2>1, NothingIsNothing
<1>3. /\ SeenPc' = csr.mepc /\ SeenIe' = csr.mpie /\ SeenMpie' = TRUE /\ SeenEpc' = csr.mepc
      /\ SeenEff' = FALSE
  <2>1. csr.mpie \in BOOLEAN
    BY <1>1 DEF TypesInv
  <2> QED BY <1>1, <1>2, <2>1 DEF SeenPc, SeenIe, SeenMpie, SeenEpc, SeenEff
<1>4. /\ SeenPc = npc /\ SeenIe = csr.ie /\ SeenMpie = csr.mpie /\ SeenEpc = csr.mepc
      /\ SeenEff <=> cc.csrDone \/ Irreversible \/ hold.set
  BY CalmView
<1>5. SeenEff = FALSE
  <2>1. ~HeadIs(Writers) /\ ~HeadIs({"mmio"})
    BY <1>1 DEF HeadIs, Writers
  <2>2. ~cc.csrDone /\ ~Irreversible /\ ~hold.set
    BY <2>1, EffectFacts
  <2> QED BY <1>4, <2>2 DEF SeenEff
<1> QED BY <1>3, <1>4, <1>5
        DEF Arch!Return, SeenPc, SeenIe, SeenMpie, SeenEpc, SeenEff

LEMMA RetireStep ==
  ASSUME CommitInv, ArchInv, ~TrapBusy, NEW i \in Inputs, Cycle(i), RetireCount(i) > 0,
         Kind[npc] # "mret"
  PROVE  Arch!RetirePlain \/ Arch!RetireOnce
<1>1. /\ npc' = rob[RetireCount(i)].succ /\ csr' = csr
      /\ ~cc'.csrDone /\ ~Irreversible' /\ ~hold'.set
      /\ ~Irreversible /\ HeadValid /\ Oldest.complete /\ npc = Oldest.pc
      /\ TrapReq(i) = NoTrap
  BY RetireNext
<1>2. /\ SeenPc = npc /\ SeenIe = csr.ie /\ SeenMpie = csr.mpie /\ SeenEpc = csr.mepc
      /\ SeenEff <=> cc.csrDone \/ Irreversible \/ hold.set
  BY CalmView
<1>3. /\ SeenPc' = npc' /\ SeenIe' = csr'.ie /\ SeenMpie' = csr'.mpie /\ SeenEpc' = csr'.mepc
      /\ SeenEff' = FALSE
  BY <1>1, NextView DEF SeenEff
<1>4. /\ SeenIe' = SeenIe /\ SeenMpie' = SeenMpie /\ SeenEpc' = SeenEpc
  BY <1>1, <1>2, <1>3
<1>5. SeenEff <=> Kind[npc] \in Arch!Once
  <2>1. /\ Kind[rob[1].pc] \in Writers => cc.csrDone
        /\ Kind[rob[1].pc] = "mmio" => hold.set
    <3>1. 1 \in 1 .. RetireCount(i)
      BY RetiredPath
    <3> QED BY <3>1, RetiredKinds
  <2>2. cc.csrDone => HeadIs(Writers)
    BY EffectFacts
  <2>3. hold.set => HeadIs({"mmio"})
    BY EffectFacts
  <2> QED BY <1>1, <1>2, <2>1, <2>2, <2>3 DEF HeadIs, Oldest, Writers, Arch!Once
<1>6. CASE SeenEff
  <2>1. \E q \in Targets[npc], n \in 0 .. RetireWidth - 1 : Arch!Reaches(n, q, npc')
    BY <1>1, RetiredReach
  <2>2. Kind[SeenPc] \in Arch!Once /\ SeenEff /\ SeenEff' = FALSE
    BY <1>2, <1>3, <1>5, <1>6
  <2>3. \E q \in Targets[SeenPc], n \in 0 .. RetireWidth - 1 : Arch!Reaches(n, q, SeenPc')
    BY <1>2, <1>3, <2>1
  <2> QED BY <1>4, <2>2, <2>3
          DEF Arch!RetireOnce, SeenPc, SeenIe, SeenMpie, SeenEpc, SeenEff
<1>7. CASE ~SeenEff
  <2>1. SeenEff = FALSE
    BY <1>7 DEF SeenEff
  <2>2. \E n \in 0 .. RetireWidth : Arch!Reaches(n, npc, npc')
    BY <1>1, <1>5, <1>7, RetiredReach
  <2>3. \E n \in 0 .. RetireWidth : Arch!Reaches(n, SeenPc, SeenPc')
    BY <1>2, <1>3, <2>2
  <2>4. ~SeenEff /\ SeenEff' = SeenEff
    BY <1>3, <2>1
  <2> QED BY <1>4, <2>3, <2>4
          DEF Arch!RetirePlain, SeenPc, SeenIe, SeenMpie, SeenEpc, SeenEff
<1> QED BY <1>6, <1>7

-----------------------------------------------------------------------------
(***************************************************************************)
(* Effects, and the cycles the machine does not see.                       *)
(***************************************************************************)

(* A CSR write is the one effect of the instruction at the boundary.       *)
LEMMA WriteStep ==
  ASSUME CommitInv, ArchInv, ~TrapBusy, NEW i \in Inputs, Cycle(i), CsrWrite
  PROVE  Arch!Effect
<1>1. /\ HeadIs(Writers) /\ ~cc.csrDone /\ ~Irreversible /\ ~hold.set /\ Alone(i)
      /\ TypesInv /\ trapQ = NoTrap
  BY WriteFacts DEF CommitInv, TrapBusy, TrapInflight
<1>2. npc = Oldest.pc /\ Kind[npc] \in Writers
  BY <1>1, HeadPc DEF HeadIs, HeadValid
<1>3. npc' = npc /\ TrapReq(i) = NoTrap
  BY <1>1 DEF Alone, Cycle, CommittedNext
<1>4. cc'.csrDone
  BY <1>1, DoneFields DEF Alone, Cycle
<1>5. /\ csr'.ie = CASE Kind[npc] = "csrOn" -> TRUE [] Kind[npc] = "csrOff" -> FALSE
                     [] OTHER -> csr.ie
      /\ csr'.mpie = csr.mpie /\ csr'.mepc = csr.mepc
  <2>1. csr \in [ie : BOOLEAN, mpie : BOOLEAN, mepc : Pc]
    BY <1>1 DEF TypesInv
  <2>2. csr' = IF Kind[npc] \in {"csrOn", "csrOff"}
               THEN [csr EXCEPT !.ie = (Kind[npc] = "csrOn")] ELSE csr
    BY <1>1, <1>2 DEF Cycle, CsrFile
  <2>3. CASE Kind[npc] = "csrOn"
    BY <2>1, <2>2, <2>3
  <2>4. CASE Kind[npc] = "csrOff"
    BY <2>1, <2>2, <2>4
  <2>5. CASE Kind[npc] \notin {"csrOn", "csrOff"}
    BY <2>2, <2>5
  <2> QED BY <2>3, <2>4, <2>5
<1>6. /\ SeenPc = npc /\ SeenIe = csr.ie /\ SeenMpie = csr.mpie /\ SeenEpc = csr.mepc
      /\ ~SeenEff
  BY <1>1, CalmView
<1>7. /\ SeenPc' = npc /\ SeenIe' = csr'.ie /\ SeenMpie' = csr.mpie /\ SeenEpc' = csr.mepc
      /\ SeenEff' = TRUE
  BY <1>3, <1>4, <1>5, NextView DEF SeenEff
<1>8. Kind[SeenPc] \in Arch!Once
  BY <1>2, <1>6 DEF Writers, Arch!Once
<1>9. SeenIe' = CASE Kind[SeenPc] = "csrOn" -> TRUE [] Kind[SeenPc] = "csrOff" -> FALSE
                  [] OTHER -> SeenIe
  BY <1>5, <1>6, <1>7
<1>10. SeenPc' = SeenPc /\ SeenMpie' = SeenMpie /\ SeenEpc' = SeenEpc
  BY <1>6, <1>7
<1> QED BY <1>6, <1>7, <1>8, <1>9, <1>10
        DEF Arch!Effect, SeenPc, SeenIe, SeenMpie, SeenEpc, SeenEff

(* So is sending an MMIO access to the bus.                                *)
LEMMA SendStep ==
  ASSUME CommitInv, ArchInv, ~TrapBusy, NEW i \in Inputs, Cycle(i), MmioSend,
         InterruptNotReplaying'
  PROVE  Arch!Effect
<1>1. /\ HeadIs({"mmio"}) /\ ~cc.csrDone /\ ~Irreversible /\ ~hold.set /\ Alone(i)
      /\ ~CsrWrite
  BY SendFacts
<1>2. npc = Oldest.pc /\ Kind[npc] = "mmio"
  BY <1>1, HeadPc DEF HeadIs, HeadValid
<1>3. npc' = npc /\ TrapReq(i) = NoTrap
  BY <1>1 DEF Alone, Cycle, CommittedNext
<1>4. Irreversible' /\ csr' = csr
  BY <1>1, IrrevNext, CsrKept
<1>5. /\ SeenPc = npc /\ SeenIe = csr.ie /\ SeenMpie = csr.mpie /\ SeenEpc = csr.mepc
      /\ ~SeenEff
  BY <1>1, CalmView
<1>6. /\ SeenPc' = npc /\ SeenIe' = csr.ie /\ SeenMpie' = csr.mpie /\ SeenEpc' = csr.mepc
      /\ SeenEff' = TRUE
  BY <1>3, <1>4, NextView DEF SeenEff
<1>7. /\ Kind[SeenPc] \in Arch!Once
      /\ Kind[SeenPc] # "csrOn" /\ Kind[SeenPc] # "csrOff"
  BY <1>2, <1>5 DEF Arch!Once
<1>8. SeenIe' = CASE Kind[SeenPc] = "csrOn" -> TRUE [] Kind[SeenPc] = "csrOff" -> FALSE
                  [] OTHER -> SeenIe
  BY <1>5, <1>6, <1>7
<1>9. SeenPc' = SeenPc /\ SeenMpie' = SeenMpie /\ SeenEpc' = SeenEpc
  BY <1>5, <1>6
<1> QED BY <1>5, <1>6, <1>7, <1>8, <1>9
        DEF Arch!Effect, SeenPc, SeenIe, SeenMpie, SeenEpc, SeenEff

(* Everything else the core does between recoveries.                       *)
LEMMA QuietStep ==
  ASSUME CommitInv, ArchInv, ~TrapBusy, NEW i \in Inputs, Cycle(i), RetireCount(i) = 0,
         ~SyncTrap, ~IrqAccept(i), ~CsrWrite, ~MmioSend
  PROVE  UNCHANGED Arch!archVars
<1>0. TypesInv /\ EntriesInv /\ InputOk(i) /\ trapPc = NoPc
  BY Parts DEF TrapBusy, TrapInflight
<1>1. ~Refetch(i) /\ ~HeadRetires({"mret"}, i) /\ ~SerialRetire(i)
  BY DEF Refetch, HeadRetires, SerialRetire
<1>2. /\ TrapReq(i) = NoTrap /\ csr' = csr
      /\ FlushAll(i) <=> OrderFlush(i) /\ cc.serialDone
  BY <1>1, CsrKept DEF TrapReq, FlushAll
<1>3. OrderFlush(i) => rob # <<>> /\ HeadIs({"ld"})
  BY <1>0, OrderFacts DEF OrderFlush
<1>4. npc' = npc
  <2>1. OrderFlush(i) => npc = Oldest.pc
    BY <1>3, HeadPc
  <2>2. Redirect(i) = IF OrderFlush(i) /\ cc.serialDone THEN Oldest.pc ELSE NoPc
    BY <1>0, <1>1 DEF Redirect
  <2> QED BY <2>1, <2>2 DEF Cycle, CommittedNext
<1>5. /\ hold'.set <=> Irreversible \/ hold.set
      /\ Irreversible' => Irreversible
  BY HoldCalm, IrrevNext
<1>6. cc'.csrDone <=> cc.csrDone
  <2>1. CASE FlushAll(i)
    <3>1. ~HeadIs(Writers)
      BY <1>2, <1>3, <2>1 DEF HeadIs, Writers
    <3>2. ~cc.csrDone
      BY <3>1, EffectFacts
    <3> QED BY <1>0, <2>1, <3>2, DoneFields DEF Cycle
  <2>2. CASE ~FlushAll(i)
    BY <1>0, <1>1, <2>2, DoneFields DEF Cycle
  <2> QED BY <2>1, <2>2
<1>7. SeenEff' = SeenEff
  <2>1. SeenEff' <=> SeenEff
    BY <1>2, <1>5, <1>6, CalmView, NextView
  <2> QED BY <2>1 DEF SeenEff
<1>8. /\ SeenPc' = SeenPc /\ SeenIe' = SeenIe /\ SeenMpie' = SeenMpie /\ SeenEpc' = SeenEpc
  BY <1>2, <1>4, CalmView, NextView
<1> QED BY <1>7, <1>8 DEF Arch!archVars, SeenPc, SeenIe, SeenMpie, SeenEpc, SeenEff

(* A recovery has no effect behind it.                                     *)
LEMMA NoEffectBusy ==
  ASSUME CommitInv, ArchInv, TrapBusy
  PROVE  ~SeenEff
<1>1. cc = Idle /\ RecoveryInv /\ PortsInv
  BY DEF CommitInv, RecoveryInv
<1>2. ~cc.csrDone
  BY <1>1 DEF Idle
<1>3. ~Irreversible
  <2>1. ~cancel => ~HeadIs({"mmio"})
    BY <1>1 DEF RecoveryInv, HeadIs, HeadValid
  <2> QED BY <1>1, <2>1 DEF Irreversible, PortsInv, HeuOwnsHead
<1>4. trapQ = NoTrap => ~hold.set
  BY DEF ArchInv
<1> QED BY <1>2, <1>3, <1>4 DEF SeenEff

(* The trap transport and the recovery packet carry out what the machine   *)
(* has done already.                                                       *)
LEMMA BusyStep ==
  ASSUME CommitInv, ArchInv, TrapBusy, NEW i \in Inputs, Cycle(i)
  PROVE  UNCHANGED Arch!archVars
<1>0. /\ TypesInv /\ RecoveryInv
      /\ csr.mepc \in Pc /\ csr.mpie \in BOOLEAN /\ Vector \in Pc
  BY ProgramAssumption DEF CommitInv, TypesInv
<1>1. /\ RetireCount(i) = 0 /\ TrapReq(i) = NoTrap /\ Redirect(i) = trapPc /\ ~CsrWrite
      /\ trapQ' = NoTrap
  BY <1>0, BusyFacts DEF Cycle, TrapCtrl
<1>2. SeenEff' = SeenEff
  <2>1. ~cc'.csrDone
    BY IdleBook DEF Idle
  <2>2. ~SeenEff'
    BY <2>1, HoldBusy DEF SeenEff
  <2> QED BY <2>2, NoEffectBusy DEF SeenEff
<1>3. CASE trapQ # NoTrap
  <2>1. trapPc' = (IF trapQ.type = "xret" THEN csr.mepc ELSE Vector) /\ trapPc' # NoPc
    BY <1>0, <1>3, NothingIsNothing DEF Cycle, TrapCtrl
  <2>2. SeenPc' = SeenPc
    BY <1>1, <1>3, <2>1 DEF SeenPc
  <2>3. SeenIe' = SeenIe /\ SeenMpie' = SeenMpie /\ SeenEpc' = SeenEpc
    <3>1. csr' = IF trapQ.type = "xret" THEN [csr EXCEPT !.ie = csr.mpie, !.mpie = TRUE]
                 ELSE [ie |-> FALSE, mpie |-> csr.ie, mepc |-> trapQ.epc]
      BY <1>3 DEF Cycle, CsrFile
    <3>2. csr \in [ie : BOOLEAN, mpie : BOOLEAN, mepc : Pc]
      BY <1>0 DEF TypesInv
    <3>3. CASE trapQ.type = "xret"
      <4>1. csr'.ie = csr.mpie /\ csr'.mpie = TRUE /\ csr'.mepc = csr.mepc
        BY <3>1, <3>2, <3>3
      <4> QED BY <1>0, <1>1, <1>3, <3>3, <4>1 DEF SeenIe, SeenMpie, SeenEpc
    <3>4. CASE trapQ.type # "xret"
      <4>1. csr'.ie = FALSE /\ csr'.mpie = csr.ie /\ csr'.mepc = trapQ.epc
        BY <3>1, <3>4
      <4> QED BY <1>1, <1>3, <3>4, <4>1 DEF SeenIe, SeenMpie, SeenEpc
    <3> QED BY <3>3, <3>4
  <2> QED BY <1>2, <2>2, <2>3 DEF Arch!archVars, SeenPc, SeenIe, SeenMpie, SeenEpc, SeenEff
<1>4. CASE trapQ = NoTrap
  <2>1. trapPc' = NoPc /\ csr' = csr
    BY <1>1, <1>4 DEF Cycle, TrapCtrl, CsrFile
  <2>2. npc' = IF trapPc # NoPc THEN trapPc ELSE npc
    BY <1>1 DEF Cycle, CommittedNext
  <2>3. SeenPc' = SeenPc /\ SeenIe' = SeenIe /\ SeenMpie' = SeenMpie /\ SeenEpc' = SeenEpc
    BY <1>1, <1>4, <2>1, <2>2 DEF SeenPc, SeenIe, SeenMpie, SeenEpc
  <2> QED BY <1>2, <2>3 DEF Arch!archVars, SeenPc, SeenIe, SeenMpie, SeenEpc, SeenEff
<1> QED BY <1>3, <1>4

-----------------------------------------------------------------------------
(***************************************************************************)
(* The refinement.                                                         *)
(***************************************************************************)

LEMMA ArchInitRefined == Init => Arch!ArchInit
<1> SUFFICES ASSUME Init PROVE Arch!ArchInit
  OBVIOUS
<1> DEFINE no == FALSE
<1>1. /\ trapQ = NoTrap /\ trapPc = NoPc /\ npc \in BootPcs
      /\ csr = [ie |-> no, mpie |-> no, mepc |-> npc] /\ cc = Idle
      /\ heu = [state |-> "idle", irrev |-> no, idx |-> 0] /\ bus = "idle"
      /\ hold = [set |-> no, owner |-> 0] /\ ~no
  BY DEF Init
<1>2. no = FALSE
  OBVIOUS
<1> HIDE DEF no
<1>3. csr.ie = no /\ csr.mpie = no /\ csr.mepc = npc
  BY <1>1
<1>4. ~cc.csrDone /\ ~Irreversible /\ ~hold.set
  BY <1>1 DEF Idle, Irreversible
<1>5. /\ SeenPc = npc /\ SeenIe = csr.ie /\ SeenMpie = csr.mpie /\ SeenEpc = csr.mepc
      /\ SeenEff = FALSE
  BY <1>1, <1>4, PlainView DEF SeenEff
<1> QED BY <1>1, <1>2, <1>3, <1>5
        DEF Arch!ArchInit, SeenPc, SeenIe, SeenMpie, SeenEpc, SeenEff

LEMMA ArchStepRefined ==
  CommitInv /\ ArchInv /\ InterruptNotReplaying' /\ [Next]_vars =>
    [Arch!ArchNext]_(Arch!archVars)
<1> SUFFICES ASSUME CommitInv, ArchInv, InterruptNotReplaying', [Next]_vars
             PROVE  [Arch!ArchNext]_(Arch!archVars)
  OBVIOUS
<1>1. CASE UNCHANGED vars
  <2>1. /\ npc' = npc /\ cc' = cc /\ trapQ' = trapQ /\ trapPc' = trapPc /\ csr' = csr
        /\ heu' = heu /\ bus' = bus /\ hold' = hold
    BY <1>1 DEF vars
  <2>2. Irreversible' = Irreversible
    BY <2>1 DEF Irreversible
  <2> QED BY <2>1, <2>2 DEF Arch!archVars
<1>2. CASE Next
  <2>1. PICK i \in Inputs : Cycle(i)
    BY <1>2 DEF Next
  <2>2. CASE TrapBusy
    BY <2>1, <2>2, BusyStep
  <2>3. CASE ~TrapBusy /\ SyncTrap
    BY <2>1, <2>3, ExceptionStep DEF Arch!ArchNext
  <2>4. CASE ~TrapBusy /\ IrqAccept(i)
    BY <2>1, <2>4, InterruptStep DEF Arch!ArchNext
  <2>5. CASE ~TrapBusy /\ RetireCount(i) > 0
    BY <2>1, <2>5, ReturnStep, RetireStep DEF Arch!ArchNext
  <2>6. CASE ~TrapBusy /\ CsrWrite
    BY <2>1, <2>6, WriteStep DEF Arch!ArchNext
  <2>7. CASE ~TrapBusy /\ MmioSend
    BY <2>1, <2>7, SendStep DEF Arch!ArchNext
  <2>8. CASE /\ ~TrapBusy /\ ~SyncTrap /\ ~IrqAccept(i) /\ ~(RetireCount(i) > 0)
             /\ ~CsrWrite /\ ~MmioSend
    <3>1. RetireCount(i) = 0
      <4>1. RetireCount(i) \in Nat
        BY Parts DEF RetireOk, CommitInv, TypesInv
      <4> QED BY <2>8, <4>1
    <3> QED BY <2>1, <2>8, <3>1, QuietStep
  <2> QED BY <2>2, <2>3, <2>4, <2>5, <2>6, <2>7, <2>8
<1> QED BY <1>1, <1>2

(* Every execution of the core is one of the sequential machine: it        *)
(* retires, writes CSRs, performs MMIO accesses and enters and leaves      *)
(* traps one after the other along a path of the program, each effect once *)
(* and at the committed boundary, whatever is predicted, snooped, faulted  *)
(* or flushed (commit_ctrl, trap_ctrl, recovery_boundary and the HEU in    *)
(* backend.sv), as long as no interrupt is taken while an MMIO access of   *)
(* the interrupted instruction is on its way (heu_irq_hold_q's promise).   *)
THEOREM RefinesArchMachine == Spec /\ []InterruptNotReplaying => ImplementsArchMachine
<1> QED BY CommitInvariant, ArchInvariant, ArchInitRefined, ArchStepRefined,
           PTL DEF Spec, ImplementsArchMachine, Arch!ArchSpec

(* Without MMIO the condition is no condition.                             *)
THEOREM MmioFreeRefines ==
  ASSUME NoMmio
  PROVE  Spec => ImplementsArchMachine
<1> QED BY MmioFreePrecise, RefinesArchMachine, PTL
=============================================================================
