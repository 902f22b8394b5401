------------------------------ MODULE MCFetch ------------------------------
(* Four regions of two half words.                                         *)
EXTENDS Fetch

Op(op, len, rd, rs1, target) ==
  [op |-> op, len |-> len, rd |-> rd, rs1 |-> rs1, target |-> target, legal |-> TRUE]
Alu == Op("alu", 1, 0, 0, 0)

(* A long branch across regions 0 and 1, a jump the predictor may miss, a  *)
(* return.                                                                 *)
SmallCode == [pc \in 0 .. 7 |-> CASE pc = 1 -> Op("br", 2, 0, 0, 6)
                                  [] pc = 2 -> [Alu EXCEPT !.legal = FALSE]
                                  [] pc = 3 -> Op("jal", 1, 1, 0, 0)
                                  [] pc = 6 -> Op("jalr", 1, 0, 1, 0)
                                  [] OTHER -> Alu]

NotTaken == [valid |-> FALSE, slot |-> 0, type |-> "none", ras |-> "none", target |-> 0,
             next |-> 0, rvc |-> FALSE, edge |-> FALSE]
Taken(slot, type, ras, target, rvc, edge) ==
  [valid |-> TRUE, slot |-> slot, type |-> type, ras |-> ras, target |-> target,
   next |-> 0, rvc |-> rvc, edge |-> edge]

(* Right predictions, and stale ones: an exit in the last half word of     *)
(* region 0, where a long instruction starts.                              *)
SmallPreds == {<<0, Taken(1, "br", "none", 4, TRUE, FALSE)>>,
               <<1, Taken(0, "br", "none", 6, FALSE, TRUE)>>,
               <<3, Taken(0, "jalr", "pop", 4, TRUE, FALSE)>>}
                \cup {<<r, NotTaken>> : r \in 0 .. 3}
SmallTop == [r \in 0 .. 3 |-> IF r = 3 THEN 4 ELSE NoPc]
=============================================================================
