------------------------------ MODULE MCRename ------------------------------
(* A small instance of Rename for TLC: two registers besides x0.           *)
EXTENDS Rename

U(wen, rd, rs, br, fuse) ==
  [wen |-> wen, rd |-> rd, rs |-> rs, br |-> br, fuse |-> fuse]

Write1 == U(TRUE, 1, 1, FALSE, "none")
Link1  == U(TRUE, 1, 0, TRUE, "none")
Link2  == U(TRUE, 2, 1, TRUE, "none")
PairHead   == U(TRUE, 0, 1, FALSE, "head")
PairMember == U(TRUE, 1, 1, FALSE, "member")

(* A link jump that reads what the write before it made, one whose link    *)
(* register is written again behind it, and a fused pair whose head writes *)
(* x0.                                                                     *)
IntGroups == {<<Write1, Link2>>, <<Link1, Write1>>, <<PairHead, PairMember>>}

(* The contents of a checkpoint that is not valid are dead: they are       *)
(* written again before they are read.                                     *)
Live(f) == [t \in cpValid |-> f[t]]
LiveView == <<specMap, commMap, Live(cpMap), freeVars, cpValid, Live(parent),
              Live(cpTail), robVars, slot>>
=============================================================================
