------------------------------- MODULE MCBpu -------------------------------
(* A small front end: eight regions of two slots.                          *)
EXTENDS Bpu

Cfi(type, slot, ras, target, rvc) ==
  [type |-> type, slot |-> slot, ras |-> ras, target |-> target, rvc |-> rvc, edge |-> FALSE]
Out(commit, taken, cfi) == [commit |-> commit, taken |-> taken, cfi |-> cfi]

(* Region 0 loops on its second slot; region 1 calls region 4, which swaps *)
(* coroutines or goes on; region 2 jumps to it.                            *)
LoopAgain == Out({1}, {1}, Cfi("br", 1, "none", 0, FALSE))
LoopExit  == Out({1}, {}, NoCfi)
Call      == Out({}, {}, Cfi("jal", 0, "push", 8, TRUE))
Swap      == Out({0}, {}, Cfi("jalr", 1, "poppush", 3, FALSE))
Jump      == Out({}, {}, Cfi("jal", 1, "none", 8, FALSE))
Plain4    == Out({0}, {}, NoCfi)

SmallProgram == [r \in 0 .. 7 |-> CASE r = 0 -> {LoopAgain, LoopExit}
                                    [] r = 1 -> {Call}
                                    [] r = 2 -> {Jump}
                                    [] r = 4 -> {Swap, Plain4}
                                    [] OTHER -> {Quiet}]

Cold == [s \in 0 .. 1 |-> [provider |-> Tables, alt |-> FALSE, pred |-> FALSE, final |-> FALSE]]
Packet(r, o) == [region |-> r, folds |-> NoHistory.folds, meta |-> Cold,
                 commit |-> o.commit, taken |-> o.taken, cfi |-> o.cfi]

SmallWarmup == {<<Packet(0, LoopAgain), Packet(0, LoopAgain)>>,
                <<Packet(1, Call), Packet(4, Swap)>>,
                <<Packet(1, Call), Packet(1, Call)>>,
                <<Packet(4, Swap), Packet(2, Jump)>>}
SmallHistLen == [t \in 0 .. 1 |-> t + 1]
=============================================================================
