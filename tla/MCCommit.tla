------------------------------ MODULE MCCommit ------------------------------
(* Small programs for Commit.                                              *)
EXTENDS Commit, TLC

(* Three programs and the trap handler they share, at 1 and 2.            *)
(*                                                                         *)
(* At 3: interrupts against CSR writes, WFI, exceptions and traps.  The    *)
(* wrong path of the branch at 4 holds an ECALL, so a serial instruction   *)
(* is also fetched, blocked behind, and cancelled; the load at 7 may be    *)
(* invalidated by a snoop before it retires.                               *)
(* At 11: each kind of front-end synchronisation behind stores that drain  *)
(* late and may have to set a D bit, with interrupts enabled.              *)
(* At 18: MMIO, with bus errors, also on the wrong path of the branch at   *)
(* 19; no interrupt comes.                                                 *)
AllKind == <<"alu", "mret",
             "csrOn", "br", "csrOff", "wfi", "ld", "csrBad", "bad", "ecall",
             "csrOn", "st", "fencei", "sfence", "satp", "st", "fence",
             "mmio", "br", "fence">>
AllSucc == <<2, 3,
             4, 5, 6, 7, 8, 3, 3, 3,
             12, 13, 14, 15, 16, 17, 12,
             19, 20, 18>>
AllTargets == [p \in DOMAIN AllKind |->
                 CASE p = 4 -> {5, 7, 9, 10} [] p = 19 -> {18, 20} [] OTHER -> {AllSucc[p]}]
AllIrqs == [p \in DOMAIN AllKind |-> IF p < 18 THEN BOOLEAN ELSE {FALSE}]

(* MMIO with interrupts enabled.                                           *)
MmioIrqKind  == <<"csrOn", "mmio", "alu", "mret">>
MmioIrqSucc  == <<2, 3, 2, 1>>
MmioIrqTargets == [p \in 1 .. 4 |-> {MmioIrqSucc[p]}]
MmioIrqs == [p \in 1 .. 4 |-> BOOLEAN]
=============================================================================
