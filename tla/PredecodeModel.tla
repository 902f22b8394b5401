--------------------------- MODULE PredecodeModel ---------------------------
(***************************************************************************)
(* The reference model of F1 (sim/cocotb/ifu_f1/ifu_f1_model.py): what the *)
(* predecoder delivers of a beat, and the redirect it asks for.  A pc      *)
(* counts half words; an instruction is its operation, its link registers  *)
(* and its direct target, which is what decode() extracts from the word.   *)
(***************************************************************************)
EXTENDS Integers, Sequences

CONSTANTS Slots, Pcs,
          NoPc              \* no direct target, no stack top

(* No correction, no redirect: a register whose valid bit is clear.        *)
None == <<>>

Link == {1, 5}
Seq0(it) == (it.pc + it.len) % Pcs

(* Type, RAS action and direct target: x1 and x5 are link registers.       *)
Decode(w) ==
  CASE w.op = "br"   -> [type |-> "br", ras |-> "none", direct |-> w.target]
    [] w.op = "jal"  -> [type |-> "jal", ras |-> IF w.rd \in Link THEN "push" ELSE "none",
                         direct |-> w.target]
    [] w.op = "jalr" -> [type |-> "jalr", direct |-> NoPc,
                         ras |-> IF w.rs1 \in Link
                                 THEN IF w.rd \notin Link THEN "pop"
                                      ELSE IF w.rd = w.rs1 THEN "push" ELSE "poppush"
                                 ELSE IF w.rd \in Link THEN "push" ELSE "none"]
    [] OTHER -> [type |-> "none", ras |-> "none", direct |-> NoPc]

Fix(taken, target, ras, hist) == [taken |-> taken, target |-> target, ras |-> ras, hist |-> hist]

(* The form of its inputs: an instruction (with edge, one whose first half *)
(* is in the region before), a prediction, and a beat, whose instructions  *)
(* follow one another in one region.                                       *)
IsItem(it) == /\ it.slot \in 0 .. Slots - 1 /\ it.pc \in 0 .. Pcs - 1 /\ it.len \in 0 .. 2
              /\ it.exc \in BOOLEAN /\ (it.len = 0 => it.exc)
              /\ it.edge \in BOOLEAN /\ (it.edge => it.slot = 0)

IsPred(p) == /\ p.valid \in BOOLEAN /\ p.rvc \in BOOLEAN /\ p.edge \in BOOLEAN
             /\ p.valid => /\ p.slot \in 0 .. Slots - 1 /\ p.type \in {"br", "jal", "jalr"}
                           /\ p.ras \in {"none", "push", "pop", "poppush"}
                           /\ {p.target, p.next} \subseteq 0 .. Pcs - 1

StartOf(it) == IF it.edge THEN -1 ELSE it.slot
EndOf(it)   == StartOf(it) + (IF it.len = 2 THEN 1 ELSE 0)
ExitOf(p)   == IF p.edge THEN -1 ELSE p.slot
Covers(it, p) == p.valid /\ EndOf(it) >= ExitOf(p)

Consecutive(b) ==
  \A n \in DOMAIN b.items :
    LET it == b.items[n]
    IN /\ it.id = b.id /\ it.pc = (b.region * Slots + StartOf(it)) % Pcs
       /\ n < Len(b.items) => ~it.exc /\ b.items[n + 1].pc = Seq0(it)

IsBeat(b) == /\ \A n \in DOMAIN b.items : IsItem(b.items[n])
             /\ IsPred(b.pred) /\ {b.last, b.edgePend} \subseteq BOOLEAN

(* The correction of one item, cases a/b, c, d, e, f in this order.        *)
Corrected(it, d, p, top) ==
  LET isExit == p.valid /\ StartOf(it) = ExitOf(p)
      early  == ~p.valid \/ StartOf(it) < ExitOf(p)
      actual == IF d.type = "jal" THEN d.direct
                ELSE IF d.type = "jalr" /\ d.ras \in {"pop", "poppush"} THEN top ELSE NoPc
      wrongPush == d.ras \in {"push", "poppush"} /\ p.rvc # (it.len = 1)
  IN
  IF it.exc THEN None
  ELSE IF early /\ actual # NoPc THEN Fix(TRUE, actual, d.ras, FALSE)
  ELSE IF Covers(it, p) /\ (~isExit \/ d.type = "none") THEN Fix(FALSE, Seq0(it), "none", FALSE)
  ELSE IF isExit /\ d.type # p.type
       THEN IF actual # NoPc THEN Fix(TRUE, actual, d.ras, FALSE)
            ELSE Fix(FALSE, Seq0(it), "none", FALSE)
  ELSE IF /\ isExit /\ d.type \in {"br", "jal"}
          /\ \/ p.target # d.direct
             \/ d.type = "jal" /\ (p.ras # d.ras \/ wrongPush)
       THEN Fix(TRUE, d.direct, d.ras, d.type = "br")
  ELSE IF isExit /\ d.type = "jalr" /\ (p.ras # d.ras \/ wrongPush)
       THEN Fix(TRUE, IF actual # NoPc THEN actual ELSE p.next, d.ras, FALSE)
  ELSE None

Correction(it, p, top) == Corrected(it, Decode(it.word), p, top)

Delivery(it, p, fix) ==
  LET isExit == p.valid /\ StartOf(it) = ExitOf(p)
  IN [pc |-> it.pc, id |-> it.id, slot |-> it.slot, exc |-> it.exc, word |-> it.word,
      taken |-> IF fix # None THEN fix.taken ELSE isExit,
      next  |-> IF fix # None THEN fix.target ELSE IF isExit THEN p.next ELSE Seq0(it),
      last  |-> FALSE]

Predecode(id, slot, target, fix, branch, push) ==
  [src |-> 1, id |-> id, slot |-> slot, all |-> FALSE, target |-> target,
   taken |-> fix.taken, hist |-> fix.hist, ras |-> fix.ras, branch |-> branch, push |-> push]

(* The items of a beat are taken one by one until one is corrected, faults *)
(* or reaches the predicted exit.                                          *)
Evaluate(beat) ==
  LET p == beat.pred
      scan[n \in 0 .. Len(beat.items)] ==
        IF n = 0 THEN [out |-> <<>>, req |-> None, stop |-> FALSE]
        ELSE LET s  == scan[n - 1]
                 it == beat.items[n]
                 f  == Correction(it, p, beat.top)
             IN IF s.stop THEN s
                ELSE [out  |-> Append(s.out, Delivery(it, p, f)),
                      req  |-> IF f = None THEN None
                               ELSE Predecode(it.id, it.slot, f.target, f, it.pc, Seq0(it)),
                      stop |-> f # None \/ it.exc \/ Covers(it, p)]
      done == scan[Len(beat.items)]
      lost == /\ done.req = None /\ beat.last /\ beat.edgePend
              /\ p.valid /\ ~p.edge /\ p.slot = Slots - 1
              /\ ~(done.out # <<>> /\ done.out[Len(done.out)].exc)
      req  == IF lost THEN Predecode(beat.id, Slots - 1, (beat.region * Slots + Slots) % Pcs,
                                     Fix(FALSE, 0, "none", FALSE), 0, 0)
              ELSE done.req
  IN [req |-> req,
      out |-> IF done.out # <<>> /\ (beat.last \/ req # None)
              THEN [done.out EXCEPT ![Len(done.out)].last = TRUE] ELSE done.out]
=============================================================================
