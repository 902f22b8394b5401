---------------------------- MODULE ArchMachine -----------------------------
(***************************************************************************)
(* What the precise boundary promises: instructions take effect one after  *)
(* the other along a path of the program.  Up to RetireWidth               *)
(* ordinary instructions are retired in a step.  A CSR instruction and an  *)
(* MMIO access take effect exactly once before they retire; no interrupt   *)
(* separates an effect from its retirement.  An interrupt is taken only    *)
(* while enabled, and leaves in epc the pc that resumes the program.       *)
(***************************************************************************)
EXTENDS Integers

CONSTANTS Kind, Targets, RetireWidth, BootPcs, Vector

VARIABLES pc, ie, mpie, epc,
          eff       \* the instruction at pc has had its effect

archVars == <<pc, ie, mpie, epc, eff>>

Once     == {"csrOn", "csrOff", "satp", "mmio"}
Never    == {"ecall", "bad", "csrBad"}      \* always trap
MayFault == Never \cup {"ld", "st", "mmio"}

ArchInit == pc \in BootPcs /\ ie = FALSE /\ mpie = FALSE /\ epc = pc /\ eff = FALSE

(* An instruction that retires with no effect of its own at the boundary.  *)
Ordinary(p) == Kind[p] \notin Once \cup Never \cup {"mret"}

(* Retiring n ordinary instructions leads from p to q; w is the way.       *)
Reaches(n, p, q) ==
  \E w \in [1 .. n - 1 -> DOMAIN Kind] :
    LET at(m) == IF m = 0 THEN p ELSE IF m = n THEN q ELSE w[m]
    IN /\ at(n) = q
       /\ \A m \in 0 .. n - 1 : Ordinary(at(m)) /\ at(m + 1) \in Targets[at(m)]

RetirePlain ==
  /\ ~eff
  /\ \E n \in 0 .. RetireWidth : Reaches(n, pc, pc')
  /\ UNCHANGED <<ie, mpie, epc, eff>>

Effect ==
  /\ Kind[pc] \in Once /\ ~eff
  /\ eff' = TRUE
  /\ ie' = CASE Kind[pc] = "csrOn" -> TRUE [] Kind[pc] = "csrOff" -> FALSE [] OTHER -> ie
  /\ UNCHANGED <<pc, mpie, epc>>

(* The instruction that took effect retires, maybe with followers.         *)
RetireOnce ==
  /\ Kind[pc] \in Once /\ eff
  /\ \E q \in Targets[pc], n \in 0 .. RetireWidth - 1 : Reaches(n, q, pc')
  /\ eff' = FALSE
  /\ UNCHANGED <<ie, mpie, epc>>

Return ==
  /\ Kind[pc] = "mret"
  /\ pc' = epc /\ ie' = mpie /\ mpie' = TRUE
  /\ UNCHANGED <<epc, eff>>

Enter == epc' = pc /\ pc' = Vector /\ mpie' = ie /\ ie' = FALSE /\ eff' = FALSE

(* Only an MMIO access may fault after its effect: the bus refused it.     *)
Exception == Kind[pc] \in MayFault /\ (eff => Kind[pc] = "mmio") /\ Enter

Interrupt == ie /\ ~eff /\ Enter

ArchNext == RetirePlain \/ Effect \/ RetireOnce \/ Return \/ Exception \/ Interrupt

ArchSpec == ArchInit /\ [][ArchNext]_archVars
=============================================================================
