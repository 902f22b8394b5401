------------------------------- MODULE Commit -------------------------------
(***************************************************************************)
(* The precise boundary of the core: the ROB head, commit_ctrl, trap_ctrl, *)
(* recovery_boundary, the CSR head port, the serial rename entry gate, WFI,*)
(* the front end's synchronisation FSM, SFENCE transport, and the head     *)
(* execution unit (HEU) with its MMIO master, wired as in backend.sv.      *)
(*                                                                         *)
(* A step is one clock cycle: the combinational decisions of the cycle are *)
(* operators over the registers and the inputs i of that cycle, and every  *)
(* always_ff block is an action that gives its registers their next value. *)
(* The inputs are what the rest of the core and the outside world do in    *)
(* the cycle: fetch, allocation, execution results, faults, interrupts,    *)
(* DMA snoops, store drain, translation and bus answers.                   *)
(*                                                                         *)
(* A program is Kind (what the instruction at a pc is), Succ (the pc that  *)
(* follows it in memory) and Targets (where it may go on: what a branch    *)
(* may be predicted as, and resolve to).  The ROB ring is the sequence rob *)
(* of its valid entries, oldest at head; position k is ring index Index(k).*)
(***************************************************************************)
EXTENDS Integers, Sequences, FiniteSets

CONSTANTS
  Width,        \* rename lanes
  RetireWidth,  \* retirement ports
  NumRob,       \* rob.entries
  NumSq,        \* store queue entries
  Kind, Succ, Targets,
  BootPcs, Vector,  \* the values of boot_pc_i, mtvec
  IrqLevels,    \* the levels the interrupt pin may take, by the pc at the
                \* committed boundary: when the program's devices interrupt
  NoPc, NoTrap, NoIdx

Pc == DOMAIN Kind

CsrKinds    == {"csrOn", "csrOff", "satp", "csrBad"}
SerialKinds == CsrKinds \cup {"fence", "fencei", "sfence", "wfi", "mret", "ecall"}
PlainKinds  == {"alu", "br", "ld", "st", "mmio"}
Kinds       == SerialKinds \cup PlainKinds \cup {"bad"}

ASSUME CommitSizes ==
  /\ Width \in Nat \ {0} /\ RetireWidth \in Nat \ {0}
  /\ NumRob \in Nat \ {0} /\ NumSq \in Nat \ {0}

ASSUME ProgramAssumption ==
  /\ Kind \in [Pc -> Kinds] /\ Succ \in [Pc -> Pc]
  /\ Targets \in [Pc -> SUBSET Pc]
  /\ \A p \in Pc : Succ[p] \in Targets[p] /\ (Kind[p] # "br" => Targets[p] = {Succ[p]})
  /\ BootPcs \subseteq Pc /\ Vector \in Pc 
  /\ IrqLevels \in [Pc -> SUBSET BOOLEAN]

(* What stands for "none" is no pc, no request and no ring index.          *)
ASSUME NothingIsNothing ==
  /\ NoPc \notin Pc /\ NoIdx \notin Nat
  /\ NoTrap \notin [type : {"exc", "irq", "xret"}, epc : Pc]

(* decoder.sv: every SYSTEM and MISC-MEM operation serialises and blocks   *)
(* younger instructions; an instruction that already carries an exception  *)
(* only blocks them.  ecall stands for every operation that traps at the   *)
(* head although it decodes (ECALL, an xRET/WFI/SFENCE illegal here).      *)
Serialize(p)    == Kind[p] \in SerialKinds
IsCsr(p)        == Kind[p] \in CsrKinds
BlockYounger(p) == Serialize(p) \/ Kind[p] = "bad"

VARIABLES
  rob, head,    \* rob: valid entries in order, head_q
  r1,           \* rename_stage_buffer
  fetchPc,      \* pc of the next micro-op the decode queue would show
  blocked,      \* rename_entry_gate.blocked_q
  npc,          \* commit_ctrl.committed_next_pc_q
  cc,           \* the other registers of commit_ctrl
  csrReq,       \* backend.csr_request_valid_q
  trapQ, trapPc,    \* trap_ctrl: request_q, redirect_o
  cancel, packet,   \* recovery_boundary: cancel_o, refetch_q
  csr,          \* csr_file: MIE, MPIE, mepc
  pend, eligible,   \* the interrupt pin, backend.irq_eligible_q
  sleeping,     \* wfi_ctrl.sleeping_o
  sq,           \* committed stores that have not reached the DCache
  fe,           \* frontend_sync_ctrl: state_q, kind_q
  sf,           \* SFENCE: nothing, command registered, DTLB working
  heu, w1,      \* mem_head_unit; its result in the writeback transport
  bus,          \* mmio_axil_master.state_q
  hold          \* heu_irq_hold_q with its owner

vars == <<rob, head, r1, fetchPc, blocked, npc, cc, csrReq, trapQ, trapPc,
          cancel, packet, csr, pend, eligible, sleeping, sq, fe, sf, heu, w1,
          bus, hold>>

Idle == [serialDone |-> FALSE, csrDone |-> FALSE, syncSent |-> FALSE,
         refetch |-> FALSE, sfSent |-> FALSE, sfDone |-> FALSE, dSent |-> FALSE]

-----------------------------------------------------------------------------
(***************************************************************************)
(* The ROB as the head logic sees it.                                      *)
(***************************************************************************)
Index(k)    == (head + k - 1) % NumRob

HeadValid  == rob # <<>> /\ rob[1].written
Oldest     == rob[1]
HeadIs(S)  == HeadValid /\ Kind[Oldest.pc] \in S
NeedsD     == HeadValid /\ Oldest.needsD

KindAt(k)  == Kind[rob[k].pc]

(* Entries that are executing.  A flush discards every result of its cycle.*)
Executing(S) == {k \in DOMAIN rob : /\ ~cancel /\ rob[k].written /\ ~rob[k].complete
                                    /\ KindAt(k) \in S}

(* Loads whose value a snoop can still invalidate: executed, not faulted.  *)
(* Executed-but-not-yet-written-back is not told apart from executing.     *)
LiveLoads == {k \in DOMAIN rob : /\ ~cancel /\ rob[k].written /\ ~rob[k].exc
                                 /\ KindAt(k) = "ld"}

StoresIn(s) == Cardinality({k \in DOMAIN s : Kind[s[k].pc] = "st"})

-----------------------------------------------------------------------------
(***************************************************************************)
(* Inputs of a cycle.                                                      *)
(***************************************************************************)

(* The predicted paths of up to Width instructions from each pc.           *)
PathsFrom(p, n) == {w \in [1 .. n + 1 -> Pc] : /\ w[1] = p
                                              /\ \A k \in 1 .. n : w[k + 1] \in Targets[w[k]]}
MicroOps(w, n) == [k \in 1 .. n |-> [pc |-> w[k], pred |-> w[k + 1]]]
ShownFrom == [p \in Pc |-> UNION {{MicroOps(w, n) : w \in PathsFrom(p, n)} : n \in 1 .. Width}]

(* What the decode queue can show: a predicted path from fetchPc.          *)
Shown == ShownFrom[fetchPc]

(* rename_entry_gate: the prefix up to and including the oldest micro-op   *)
(* that blocks younger ones.                                               *)
GatePass(g) ==
  IF \E k \in DOMAIN g : BlockYounger(g[k].pc)
  THEN SubSeq(g, 1, CHOOSE k \in DOMAIN g :
                      BlockYounger(g[k].pc) /\ \A j \in 1 .. k - 1 : ~BlockYounger(g[j].pc))
  ELSE g

(* ROB and store queue room for the oldest n micro-ops of R1.              *)
Room(n) == /\ Len(rob) + n <= NumRob
           /\ sq + StoresIn(rob) + StoresIn(SubSeq(r1, 1, n)) <= NumSq

(* What an executing instruction does in the cycle: nothing yet, complete, *)
(* fault, or (a store on a clean page) complete and ask for the D bit.     *)
Outcomes(k) == {"run", "ok"} \cup (IF KindAt(k) \in {"ld", "st"} THEN {"fault"} ELSE {})
                            \cup (IF KindAt(k) = "st" THEN {"dirty"} ELSE {})

(* One exception port; one D-bit update at a time.                         *)
Executions ==
  LET X == Executing({"alu", "ld", "st"})
  IN {f \in [X -> {"run", "ok", "fault", "dirty"}] :
        /\ \A k \in X : f[k] \in Outcomes(k)
        /\ \A j, k \in X : f[j] = f[k] /\ f[j] \in {"fault", "dirty"} => j = k
        /\ (\E k \in DOMAIN rob : rob[k].needsD) => \A k \in X : f[k] # "dirty"}

(* The one branch resolution of the cycle: a position and its target.      *)
NoBranch    == [at |-> 0, to |-> NoPc]
Resolutions == {NoBranch} \cup
  UNION {{[at |-> k, to |-> p] : p \in Targets[rob[k].pc]} : k \in Executing({"br"})}

(* backend.sv: the trap transport or the recovery packet owns the boundary.*)
TrapInflight == trapQ # NoTrap \/ trapPc # NoPc
TrapBusy     == TrapInflight \/ cancel \/ packet # NoPc

(* group: what the decode queue shows; alloc: micro-ops R2 takes from R1;  *)
(* exec, resolve: execution; dma: loads a snoop hits; the rest: answers of *)
(* the units at which a request is outstanding.  An input that nothing     *)
(* looks at in this cycle keeps one value.                                 *)
Inputs ==
  [group   : {<<>>} \cup (IF blocked \/ sleeping \/ TrapBusy THEN {} ELSE Shown),
   alloc   : IF TrapBusy THEN {0} ELSE {n \in 0 .. Len(r1) : Room(n)},
   exec    : Executions,
   resolve : Resolutions,
   dma     : SUBSET LiveLoads,
   drain   : IF sq > 0 THEN BOOLEAN ELSE {FALSE},
   pend    : IrqLevels[npc],
   ptwIdle : IF HeadIs(CsrKinds \cup {"sfence"}) THEN BOOLEAN ELSE {TRUE},
   feAck   : IF fe.state \in {"wait", "inv"} THEN BOOLEAN ELSE {FALSE},
   sfAck   : IF sf = "busy" THEN BOOLEAN ELSE {FALSE},
   dAck    : IF cc.dSent /\ NeedsD /\ ~Oldest.exc THEN {"none", "ok", "fault"} ELSE {"none"},
   heu     : IF heu.state \in {"idle", "check", "result"}
             THEN {"stay", "go"} \cup (IF heu.state = "check" THEN {"fault"} ELSE {})
             ELSE {"stay"},
   bus     : IF bus = "issue" THEN {"none", "ok", "err"} ELSE {"none"}]

-----------------------------------------------------------------------------
(***************************************************************************)
(* Combinational decisions of a cycle.                                     *)
(***************************************************************************)

Mispredict(i) == i.resolve.at # 0 /\ i.resolve.to # rob[i.resolve.at].pred

BackendBlock(i) == TrapInflight \/ Mispredict(i) \/ cancel \/ packet # NoPc

(* load_queue: order_required, the registered flag or this cycle's snoop.  *)
Ordered(k, i) == rob[k].order \/ k \in i.dma
OrderFlush(i) == rob # <<>> /\ Ordered(1, i)

(* A head that traps: no retirement takes part in this decision.           *)
SyncTrap == HeadValid /\ Oldest.complete /\ (Oldest.exc \/ Kind[Oldest.pc] = "ecall")

Irreversible == heu.irrev \/ bus # "idle"

(* Slip: an interrupt between the CSR write and its retirement.            *)
IrqAcceptCsrDone(i) ==
  /\ eligible /\ ~TrapBusy /\ ~Irreversible /\ ~hold.set
  /\ ~OrderFlush(i) /\ ~SyncTrap /\ ~csrReq
  /\ ~cc.syncSent /\ ~cc.sfSent /\ ~cc.dSent
  /\ ~NeedsD /\ ~sleeping

(* commit_ctrl.irq_accept: the registered candidate, at a boundary that    *)
(* nothing else owns.                                                      *)
IrqAccept(i) ==
  /\ eligible /\ ~TrapBusy /\ ~Irreversible /\ ~hold.set
  /\ ~OrderFlush(i) /\ ~SyncTrap /\ ~csrReq
  /\ ~cc.csrDone /\ ~cc.serialDone /\ ~cc.syncSent /\ ~cc.sfSent /\ ~cc.dSent
  /\ ~NeedsD /\ ~sleeping

(* A new CSR request of the head; an admitted one owns the port (csrReq).  *)
CsrAdmit(i) ==
  /\ ~TrapBusy /\ i.ptwIdle /\ HeadIs(CsrKinds) /\ ~Oldest.exc
  /\ ~cc.csrDone /\ ~cc.serialDone /\ ~IrqAccept(i)

CsrAnswer  == csrReq /\ ~cancel
CsrIllegal == CsrAnswer /\ Kind[Oldest.pc] = "csrBad"
CsrWrite   == CsrAnswer /\ ~CsrIllegal

(* head_serial_done_o.                                                     *)
HeadSerialDone ==
  CASE Kind[Oldest.pc] = "fence" -> sq = 0
    [] Kind[Oldest.pc] \in {"wfi", "mret"} -> TRUE
    [] Kind[Oldest.pc] = "ecall" -> FALSE
    [] OTHER -> cc.serialDone

CommitBlock(i) == TrapBusy \/ OrderFlush(i) \/ NeedsD \/ SyncTrap \/ IrqAccept(i) \/ sleeping

(* Slip: only the head's snoop flag is looked at.                          *)
RetirableHeadOrder(k, i) ==
  /\ rob[k].written /\ rob[k].complete /\ ~rob[k].exc /\ ~rob[k].needsD
  /\ Serialize(rob[k].pc) => k = 1 /\ HeadSerialDone

(* rob.sv: what the entry at position k needs to leave.                    *)
Retirable(k, i) ==
  /\ rob[k].written /\ rob[k].complete /\ ~rob[k].exc /\ ~rob[k].needsD
  /\ ~Ordered(k, i)
  /\ Serialize(rob[k].pc) => k = 1 /\ HeadSerialDone

(* The retiring prefix.                                                    *)
RetireCount(i) ==
  IF CommitBlock(i) \/ Mispredict(i) THEN 0
  ELSE Cardinality({n \in 1 .. RetireWidth :
                      n <= Len(rob) /\ \A k \in 1 .. n : Retirable(k, i)})

SerialRetire(i) == \E k \in 1 .. RetireCount(i) : Serialize(rob[k].pc)
HeadRetires(S, i) == RetireCount(i) > 0 /\ Kind[Oldest.pc] \in S

(* commit_ctrl.trap_req_o.                                                 *)
TrapReq(i) ==
  IF SyncTrap /\ ~TrapBusy THEN [type |-> "exc", epc |-> Oldest.pc]
  ELSE IF IrqAccept(i) THEN [type |-> "irq", epc |-> npc]
  ELSE IF HeadRetires({"mret"}, i) THEN [type |-> "xret", epc |-> Oldest.pc]
  ELSE NoTrap

(* commit_ctrl.sys_redirect_o: the trap target, the refetch of a retiring  *)
(* serial instruction, or the replay of a load whose value went stale.     *)
Refetch(i) == HeadRetires({"fencei", "sfence"}, i) \/ (SerialRetire(i) /\ cc.refetch)
Redirect(i) ==
  IF OrderFlush(i) /\ cc.serialDone THEN Oldest.pc
  ELSE IF Refetch(i) THEN Oldest.succ
  ELSE trapPc

(* commit_ctrl.flush_all_o.                                                *)
FlushAll(i) == TrapReq(i) # NoTrap \/ (OrderFlush(i) /\ cc.serialDone) \/ Refetch(i)

(* Slip: FENCE.I does not wait for the store queue.                        *)
FeSyncNoDrain(i) ==
  /\ ~TrapBusy /\ HeadValid /\ ~cc.syncSent /\ ~cc.serialDone /\ ~IrqAccept(i)
  /\ HeadIs({"fencei"}) \/ (HeadIs({"sfence"}) /\ cc.sfDone) \/ cc.refetch \/ OrderFlush(i)

(* commit_ctrl.fe_sync_valid_o.                                            *)
FeSync(i) ==
  /\ ~TrapBusy /\ HeadValid /\ ~cc.syncSent /\ ~cc.serialDone /\ ~IrqAccept(i)
  /\ \/ HeadIs({"fencei"}) /\ sq = 0
     \/ HeadIs({"sfence"}) /\ cc.sfDone
     \/ cc.refetch
     \/ OrderFlush(i)

FeKind(i) == IF OrderFlush(i) \/ cc.refetch THEN "refetch" ELSE Kind[Oldest.pc]

(* Slip: a D-bit update starts although a trap has the boundary.           *)
StDReqInTrap == /\ HeadIs({"st"}) /\ Oldest.complete /\ Oldest.needsD
                /\ ~Oldest.exc /\ ~cc.dSent

(* commit_ctrl.sfence_o.valid and st_d_req_valid_o.                        *)
SfenceReq(i) == /\ ~TrapBusy /\ HeadIs({"sfence"}) /\ sq = 0 /\ i.ptwIdle
                /\ ~cc.sfSent /\ ~IrqAccept(i)
StDReq       == /\ ~TrapBusy /\ HeadIs({"st"}) /\ Oldest.complete /\ Oldest.needsD
                /\ ~Oldest.exc /\ ~cc.dSent

(* The exception ports: none is taken on a recovery edge or beside a CSR.  *)
ExcOpen(i) == ~Mispredict(i) /\ ~cancel /\ ~CsrAnswer

-----------------------------------------------------------------------------
(***************************************************************************)
(* Registers.                                                              *)
(***************************************************************************)

(* commit_ctrl: the serial bookkeeping of the head.                        *)
CommitCtrl(i) ==
  cc' = IF SerialRetire(i) \/ FlushAll(i) THEN Idle
        ELSE [serialDone |-> IF cc.syncSent /\ fe.state = "done" THEN TRUE
                             ELSE IF CsrWrite THEN Kind[Oldest.pc] # "satp"
                             ELSE cc.serialDone,
              csrDone  |-> cc.csrDone \/ CsrWrite,
              refetch  |-> IF CsrWrite THEN Kind[Oldest.pc] = "satp" ELSE cc.refetch,
              syncSent |-> cc.syncSent \/ (FeSync(i) /\ fe.state = "idle"),
              sfSent   |-> cc.sfSent \/ SfenceReq(i),
              sfDone   |-> cc.sfDone \/ (cc.sfSent /\ i.sfAck),
              dSent    |-> NeedsD /\ (cc.dSent \/ StDReq)]

(* Slip: a trap or return target does not become the next boundary.        *)
CommittedNextRetiredOnly(i) ==
  npc' = IF RetireCount(i) > 0 THEN rob[RetireCount(i)].succ ELSE npc

(* committed_next_pc: the pc after the retired prefix.                     *)
CommittedNext(i) ==
  npc' = IF Redirect(i) # NoPc THEN Redirect(i)
         ELSE IF RetireCount(i) > 0 THEN rob[RetireCount(i)].succ
         ELSE npc

(* backend.sv: the head CSR request is registered, then answered.          *)
CsrRequest(i) == csrReq' = (~cancel /\ ~csrReq /\ CsrAdmit(i))

TrapCtrl(i) ==
  /\ trapQ' = TrapReq(i)
  /\ trapPc' = IF trapQ = NoTrap THEN NoPc
               ELSE IF trapQ.type = "xret" THEN csr.mepc ELSE Vector

RecoveryBoundary(i) ==
  /\ cancel' = FlushAll(i)
  /\ packet' = Redirect(i)

(* csr_file: the trap update has priority; csrOn and csrOff write MIE.     *)
CsrFile(i) ==
  csr' = IF trapQ # NoTrap
         THEN IF trapQ.type = "xret"
              THEN [csr EXCEPT !.ie = csr.mpie, !.mpie = TRUE]
              ELSE [ie |-> FALSE, mpie |-> csr.ie, mepc |-> trapQ.epc]
         ELSE IF CsrWrite /\ Kind[Oldest.pc] \in {"csrOn", "csrOff"}
         THEN [csr EXCEPT !.ie = (Kind[Oldest.pc] = "csrOn")]
         ELSE csr

(* The interrupt pin is sampled every cycle; WFI wakes on the pin alone.   *)
Interrupts(i) ==
  /\ pend' = i.pend
  /\ eligible' = (pend /\ csr.ie)
  /\ sleeping' = IF pend THEN FALSE ELSE sleeping \/ HeadRetires({"wfi"}, i)

(* An entry after the edge: publication, execution results, the CSR answer,*)
(* the HEU's queued result and exception, the D bit, the snoop.            *)
LsuExc(i) == {k \in DOMAIN i.exec : i.exec[k] = "fault"} \cup {k \in {1} : i.dAck = "fault"}
HeuExc(i) == heu.state = "exc" /\ LsuExc(i) = {} /\ ExcOpen(i)
Late(e, x, i) ==
  [e EXCEPT !.complete = @ \/ (w1 = x /\ ~cancel) \/ (HeuExc(i) /\ heu.idx = x),
            !.exc      = @ \/ (HeuExc(i) /\ heu.idx = x)]
Updated(k, i) ==
  LET ran     == k \in DOMAIN i.exec /\ i.exec[k] \in {"ok", "dirty"}
      faults  == ExcOpen(i) /\ k \in LsuExc(i)
      answers == k = 1 /\ CsrAnswer
      branch  == i.resolve.at = k
  IN Late([rob[k] EXCEPT
             !.written  = TRUE,
             !.succ     = IF branch THEN i.resolve.to ELSE @,
             !.complete = @ \/ ran \/ branch \/ faults \/ answers,
             !.exc      = @ \/ faults \/ (answers /\ CsrIllegal),
             !.needsD   = (@ \/ (ran /\ i.exec[k] = "dirty")) /\ ~(k = 1 /\ i.dAck = "ok"),
             !.order    = Ordered(k, i)], Index(k), i)

NewEntry(u) ==
  [pc |-> u.pc, pred |-> u.pred, succ |-> Succ[u.pc], written |-> FALSE,
   complete |-> Kind[u.pc] = "bad" \/ (Serialize(u.pc) /\ ~IsCsr(u.pc)),
   exc |-> Kind[u.pc] = "bad", needsD |-> FALSE, order |-> FALSE]

(* rob: flush, then misprediction (keep the branch and everything older),  *)
(* then retirement and allocation.                                         *)
Rob(i) ==
  LET after == [k \in DOMAIN rob |-> Updated(k, i)]
      n     == RetireCount(i)
      take  == IF BackendBlock(i) THEN 0 ELSE i.alloc
      new   == [k \in 1 .. take |-> Late(NewEntry(r1[k]), Index(Len(rob) + k), i)]
  IN \/ /\ cancel
        /\ rob' = <<>> /\ head' = 0
     \/ /\ ~cancel /\ Mispredict(i)
        /\ rob' = SubSeq(after, 1, i.resolve.at) /\ UNCHANGED head
     \/ /\ ~cancel /\ ~Mispredict(i)
        /\ rob' = SubSeq(after, n + 1, Len(rob)) \o new
        /\ head' = (head + n) % NumRob

(* Slip: a retiring serial instruction does not lift its own block.        *)
BlockStuck(i, took) ==
  blocked' = IF BackendBlock(i) THEN FALSE
             ELSE blocked \/ \E k \in DOMAIN took : BlockYounger(took[k].pc)

(* rename_entry_gate.blocked_q.                                            *)
Block(i, took) ==
  blocked' = IF BackendBlock(i) \/ SerialRetire(i) THEN FALSE
             ELSE blocked \/ \E k \in DOMAIN took : BlockYounger(took[k].pc)

(* Decode queue to R1: only when R1 is empty or drains on this edge.  The  *)
(* recovery packet redirects fetch before a branch does.                   *)
RenameEntry(i) ==
  LET open == ~blocked /\ ~sleeping /\ ~BackendBlock(i) /\ i.alloc = Len(r1)
      took == IF open THEN GatePass(i.group) ELSE <<>>
  IN /\ r1' = IF BackendBlock(i) THEN <<>>
              ELSE IF took # <<>> THEN took
              ELSE SubSeq(r1, i.alloc + 1, Len(r1))
     /\ Block(i, took)
     /\ fetchPc' = IF packet # NoPc THEN packet
                   ELSE IF Mispredict(i) THEN i.resolve.to
                   ELSE IF took # <<>> THEN took[Len(took)].pred
                   ELSE fetchPc

(* Committed stores drain to the DCache in order, at any pace.             *)
StoreDrain(i) ==
  sq' = sq + StoresIn(SubSeq(rob, 1, RetireCount(i))) - (IF i.drain THEN 1 ELSE 0)

(* frontend_sync_ctrl: FENCE.I and SFENCE invalidate after the drain.      *)
FrontendSync(i) ==
  fe' = CASE fe.state = "idle" ->
               IF FeSync(i) THEN [state |-> "wait", kind |-> FeKind(i)] ELSE fe
          [] fe.state = "wait" ->
               IF ~i.feAck THEN fe
               ELSE [fe EXCEPT !.state = IF fe.kind = "refetch" THEN "done" ELSE "inv"]
          [] fe.state = "inv"  -> IF i.feAck THEN [fe EXCEPT !.state = "done"] ELSE fe
          [] OTHER -> [state |-> "idle", kind |-> "refetch"]

(* sfence_boundary, then the DTLB/PTW invalidation.                        *)
Sfence(i) ==
  sf' = CASE sf = "busy" -> IF i.sfAck THEN "idle" ELSE "busy"
          [] sf = "cmd"  -> "busy"
          [] OTHER -> IF SfenceReq(i) /\ ~cancel THEN "cmd" ELSE "idle"

(* mem_head_unit.  check covers the translation and permission rounds,     *)
(* result both RESULT and DONE.  A flush resets it only while it is not    *)
(* irreversible.  Slip: a start while the result is queued.                *)
HeuStartAgain(i) ==
  /\ i.heu = "go" /\ HeadIs({"mmio"}) /\ ~Oldest.complete
  /\ ~FlushAll(i) /\ ~TrapBusy /\ sq = 0
HeuStart(i) ==
  /\ i.heu = "go" /\ HeadIs({"mmio"}) /\ ~Oldest.complete /\ w1 = NoIdx
  /\ ~FlushAll(i) /\ ~TrapBusy /\ sq = 0
MmioSend == heu.state = "mmio" /\ ~cancel /\ bus = "idle"

HeadUnit(i) ==
  heu' = IF cancel /\ ~Irreversible THEN [heu EXCEPT !.state = "idle", !.irrev = FALSE]
         ELSE CASE heu.state = "idle" ->
                     IF HeuStart(i) THEN [state |-> "check", irrev |-> FALSE, idx |-> head]
                     ELSE [heu EXCEPT !.irrev = @ \/ bus # "idle"]
                [] heu.state = "check" ->
                     [heu EXCEPT !.state = IF i.heu = "go" THEN "mmio"
                                           ELSE IF i.heu = "fault" THEN "exc" ELSE @]
                [] heu.state = "mmio" ->
                     IF MmioSend THEN [heu EXCEPT !.state = "wait", !.irrev = TRUE] ELSE heu
                [] heu.state = "wait" ->
                     [heu EXCEPT !.state = IF bus = "resp" THEN "result"
                                           ELSE IF bus = "error" THEN "exc" ELSE @]
                [] heu.state = "result" ->
                     IF i.heu = "go" /\ ~cancel THEN [heu EXCEPT !.state = "idle", !.irrev = FALSE]
                     ELSE heu
                [] OTHER -> IF HeuExc(i) THEN [heu EXCEPT !.state = "idle", !.irrev = FALSE] ELSE heu

(* The result waits one cycle in the writeback transport.                  *)
HeuResult(i) ==
  w1' = IF ~cancel /\ heu.state = "result" /\ i.heu = "go" THEN heu.idx ELSE NoIdx

(* mmio_axil_master: issue covers ISSUE and WAIT.                          *)
MmioMaster(i) ==
  bus' = CASE bus = "idle"  -> IF MmioSend THEN "issue" ELSE "idle"
           [] bus = "issue" -> IF i.bus = "ok" THEN "resp"
                               ELSE IF i.bus = "err" THEN "error" ELSE "issue"
           [] OTHER -> "idle"

(* backend.sv: interrupts wait for the HEU's owner to retire.              *)
HeuHold(i) ==
  LET retired(x) == \E k \in 1 .. RetireCount(i) : Index(k) = x
  IN hold' = IF cancel THEN [set |-> FALSE, owner |-> 0]
             ELSE IF (hold.set /\ retired(hold.owner)) \/ (Irreversible /\ retired(head))
             THEN [set |-> FALSE, owner |-> IF Irreversible THEN head ELSE hold.owner]
             ELSE IF Irreversible THEN [set |-> TRUE, owner |-> head]
             ELSE hold

-----------------------------------------------------------------------------
Init ==
  /\ rob = <<>> /\ head = 0 /\ r1 = <<>> /\ fetchPc \in BootPcs /\ blocked = FALSE
  /\ npc = fetchPc /\ cc = Idle /\ csrReq = FALSE
  /\ trapQ = NoTrap /\ trapPc = NoPc /\ cancel = FALSE /\ packet = NoPc
  /\ csr = [ie |-> FALSE, mpie |-> FALSE, mepc |-> fetchPc]
  /\ pend \in IrqLevels[fetchPc] /\ eligible = FALSE /\ sleeping = FALSE /\ sq = 0
  /\ fe = [state |-> "idle", kind |-> "refetch"] /\ sf = "idle"
  /\ heu = [state |-> "idle", irrev |-> FALSE, idx |-> 0] /\ w1 = NoIdx
  /\ bus = "idle" /\ hold = [set |-> FALSE, owner |-> 0]

Cycle(i) ==
  /\ Interrupts(i) /\ StoreDrain(i) /\ RenameEntry(i) /\ Rob(i)
  /\ CommitCtrl(i) /\ CommittedNext(i) /\ CsrRequest(i)
  /\ TrapCtrl(i) /\ RecoveryBoundary(i) /\ CsrFile(i)
  /\ FrontendSync(i) /\ Sfence(i)
  /\ MmioMaster(i) /\ HeadUnit(i) /\ HeuResult(i) /\ HeuHold(i)

Next == \E i \in Inputs : Cycle(i)

Spec == Init /\ [][Next]_vars

(* The clock ticks, and what the rest of the core owes the boundary comes: *)
(* rename, execution, store drain, page walks and invalidations answer     *)
(* eventually.  Nothing is assumed of interrupts, snoops or predictions:   *)
(* the interrupt pin is left out of the subscript, so that no fairness     *)
(* condition can be met by a step that only moves the pin.                 *)
clocked == <<rob, head, r1, fetchPc, blocked, npc, cc, csrReq, trapQ, trapPc,
             cancel, packet, csr, eligible, sleeping, sq, fe, sf, heu, w1, bus, hold>>

Fairness ==
  /\ WF_clocked(Next)
  /\ WF_clocked(\E i \in Inputs : i.alloc > 0 /\ Cycle(i))
  /\ WF_clocked(\E i \in Inputs : (\E k \in DOMAIN i.exec : i.exec[k] # "run") /\ Cycle(i))
  /\ WF_clocked(\E i \in Inputs : i.resolve.at # 0 /\ Cycle(i))
  /\ WF_clocked(\E i \in Inputs : i.drain /\ Cycle(i))
  /\ WF_clocked(\E i \in Inputs : (CsrAdmit(i) \/ SfenceReq(i)) /\ Cycle(i))
  /\ WF_clocked(\E i \in Inputs : i.feAck /\ Cycle(i))
  /\ WF_clocked(\E i \in Inputs : i.sfAck /\ Cycle(i))
  /\ WF_clocked(\E i \in Inputs : i.dAck # "none" /\ Cycle(i))

FairSpec == Spec /\ Fairness

-----------------------------------------------------------------------------
(***************************************************************************)
(* Properties.                                                             *)
(***************************************************************************)

(* The pcs in flight, oldest first, then what fetch shows next.            *)
InFlight == rob \o r1
PcAfter(k) == IF k < Len(InFlight) THEN InFlight[k + 1].pc ELSE fetchPc

(* The path goes on where prediction, or a resolved branch, says.          *)
FollowedBy(k) == IF k <= Len(rob) /\ rob[k].complete
                 THEN rob[k].succ ELSE InFlight[k].pred

(* Outside a recovery, everything in flight is one path that              *)
(* starts at committed_next_pc: an interrupt's EPC (commit_ctrl.sv takes   *)
(* committed_next_pc_q) is the pc of the oldest instruction not retired,   *)
(* also when the ROB is empty, and the $assert head_i.pc ==                *)
(* committed_next_pc_q of a synchronous trap holds.                        *)
PreciseBoundary ==
  ~TrapBusy =>
    /\ npc = IF InFlight = <<>> THEN fetchPc ELSE InFlight[1].pc
    /\ \A k \in DOMAIN InFlight : FollowedBy(k) = PcAfter(k)

(* While the front end invalidates for FENCE.I or SFENCE.VMA, that         *)
(* instruction is alone in the machine, owns the handshake, and every      *)
(* older store has reached the DCache.                                     *)
SyncDrained ==
  fe.kind \in {"fencei", "sfence"} =>
    /\ cc.syncSent /\ HeadIs({fe.kind}) /\ Len(InFlight) = 1 /\ sq = 0
    /\ fe.kind = "sfence" => cc.sfDone

(* A head that is updating a page's D bit is a completed, unretired store, *)
(* and no interrupt takes the boundary from it.                            *)
DirtyUpdateOwned ==
  cc.dSent => HeadIs({"st"}) /\ Oldest.complete /\ ~TrapBusy

(* A load whose line a snoop took before it retired does not retire: when  *)
(* the committed boundary moves, it is still in flight and still marked.   *)
StaleLoadReplayed ==
  [][(\E k \in DOMAIN rob : rob[k].order) /\ ~cancel /\ npc' # npc
       => \E j \in DOMAIN rob' : rob'[j].order]_vars

(* Every serial instruction is eventually retired or cancelled: rename is  *)
(* never blocked for ever by FENCE.I, SFENCE.VMA, a CSR or a trap.         *)
BlockLifted == blocked ~> ~blocked

(* backend.sv, heu_irq_hold_q: no interrupt is in the trap transport while *)
(* an MMIO access of the interrupted instruction is on its way.            *)
InterruptNotReplaying ==
  trapQ # NoTrap /\ trapQ.type = "irq" => ~Irreversible

(* The head execution unit works for the head only, whose entry waits for  *)
(* it; its queued result finds its own entry.                              *)
HeuOwnsHead ==
  ~cancel =>
    /\ heu.state # "idle" => HeadIs({"mmio"}) /\ ~Oldest.complete /\ heu.idx = head
    /\ w1 # NoIdx => w1 = head /\ HeadIs({"mmio"}) /\ ~Oldest.complete

(* Refinement: the machine is a sequential one.  A trap takes place when   *)
(* it is accepted: a request or target still in transport is applied.      *)
Arch == INSTANCE ArchMachine WITH
  pc   <- IF trapQ # NoTrap THEN (IF trapQ.type = "xret" THEN csr.mepc ELSE Vector)
          ELSE IF trapPc # NoPc THEN trapPc ELSE npc,
  ie   <- IF trapQ = NoTrap THEN csr.ie ELSE trapQ.type = "xret" /\ csr.mpie,
  mpie <- IF trapQ = NoTrap THEN csr.mpie
          ELSE IF trapQ.type = "xret" THEN TRUE ELSE csr.ie,
  epc  <- IF trapQ # NoTrap /\ trapQ.type # "xret" THEN trapQ.epc ELSE csr.mepc,
  eff  <- trapQ = NoTrap /\ (cc.csrDone \/ Irreversible \/ hold.set)

(* The core retires, writes CSRs, performs MMIO and takes traps exactly as *)
(* the sequential machine.                                                 *)
ImplementsArchMachine == Arch!ArchSpec
=============================================================================
