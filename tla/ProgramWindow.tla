--------------------------- MODULE ProgramWindow ----------------------------
(***************************************************************************)
(* What register renaming promises, without free lists, checkpoints, masks *)
(* or rings: a window of in-flight instructions in program order over a    *)
(* committed register map.  The speculative map is the program-order       *)
(* replay of the window, an instruction reads the name given to the        *)
(* nearest older writer, a destination gets a name nobody holds, a         *)
(* mispredicted branch cuts the window right behind itself, and            *)
(* instructions leave from the old end only.                               *)
(***************************************************************************)
EXTENDS Naturals, Sequences

CONSTANTS Regs, Names

VARIABLES comm,   \* committed map
          spec,   \* speculative map
          win     \* in-flight instructions, oldest first

pwVars == <<comm, spec, win>>

(* wen: takes a new name for rd; open: a branch that has not resolved.     *)
Instr == [wen : BOOLEAN, rd : Regs, new : Names, rs : Regs, src : Names,
          open : BOOLEAN]

WritersOf(w, a) == {k \in DOMAIN w : w[k].wen /\ w[k].rd = a}

ReplayOver(c, w) ==
  [a \in Regs |->
     IF WritersOf(w, a) = {} THEN c[a]
     ELSE w[CHOOSE k \in WritersOf(w, a) : \A j \in WritersOf(w, a) : j <= k].new]

Held(c, w) == {c[a] : a \in Regs} \cup {w[k].new : k \in {j \in DOMAIN w : w[j].wen}}

Settled(w, j) ==
  [k \in DOMAIN w |-> IF k = j THEN [w[k] EXCEPT !.open = FALSE] ELSE w[k]]

PWInit ==
  /\ win = <<>>
  /\ comm \in [Regs -> Names]
  /\ \A a, b \in Regs : comm[a] = comm[b] => a = b
  /\ spec = comm

(* The oldest n instructions retire, at most one branch (j) resolves as    *)
(* predicted, and any number of instructions is appended.                  *)
Advance ==
  \E n \in 0 .. Len(win), j \in 0 .. Len(win) :
    LET kept == SubSeq(Settled(win, j), n + 1, Len(win))
    IN  /\ \A k \in 1 .. n : ~win[k].open
        /\ j # 0 => win[j].open
        /\ comm' = ReplayOver(comm, SubSeq(win, 1, n))
        /\ Len(win') >= Len(kept)
        /\ SubSeq(win', 1, Len(kept)) = kept
        /\ \A k \in Len(kept) + 1 .. Len(win') :
             LET older == SubSeq(win', 1, k - 1)
             IN  /\ win'[k].src = ReplayOver(comm', older)[win'[k].rs]
                 /\ win'[k].wen => win'[k].new \notin Held(comm, win) \cup Held(comm', older)
        /\ spec' = ReplayOver(comm', win')

(* Branch j was mispredicted.                                              *)
Cut ==
  \E j \in 1 .. Len(win) :
    /\ win[j].open
    /\ win' = SubSeq(Settled(win, j), 1, j)
    /\ spec' = ReplayOver(comm, win')
    /\ UNCHANGED comm

Restart == win' = <<>> /\ spec' = comm /\ UNCHANGED comm

PWNext == Advance \/ Cut \/ Restart

PWSpec == PWInit /\ [][PWNext]_pwVars
=============================================================================
