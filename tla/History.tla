------------------------------ MODULE History ------------------------------
(***************************************************************************)
(* branch_history.sv: the window of taken-branch events, youngest first,   *)
(* and for each TAGE table three folds of its part of the window that are  *)
(* kept up to date incrementally.  A pc counts half words.                 *)
(***************************************************************************)
EXTENDS PredictorTypes

CONSTANTS PcBits, EventBits, HistLen, FoldShift

Window    == 1 .. Max({HistLen[t] : t \in 0 .. Tables - 1})
FoldWidth == [idx |-> IdxBits, tag |-> TagBits, short |-> TagBits - 1]

NoHistory ==
  [events |-> [n \in Window |-> 0],
   folds  |-> [t \in 0 .. Tables - 1 |-> [k \in DOMAIN FoldWidth |-> 0]]]

EncodeEvent(branchPc, targetPc) ==
  Xor(FoldTo(branchPc, PcBits, EventBits),
      Rotate(FoldTo(targetPc, PcBits, EventBits), EventBits, 1), EventBits)

(* A fold is rotated, takes in the new event and drops the event that      *)
(* leaves its window.                                                      *)
AppendEvent(h, event) ==
  LET fold(t, k) ==
        LET w   == FoldWidth[k]
            out == Rotate(FoldTo(h.events[HistLen[t]], EventBits, w), w, FoldShift * HistLen[t])
        IN Xor(Xor(Rotate(h.folds[t][k], w, FoldShift), FoldTo(event, EventBits, w), w), out, w)
  IN [events |-> [n \in Window |-> IF n = 1 THEN event ELSE h.events[n - 1]],
      folds  |-> [t \in 0 .. Tables - 1 |-> [k \in DOMAIN FoldWidth |-> fold(t, k)]]]

(* The fold of a window computed from its events alone.                    *)
DirectFold(h, t, k) ==
  LET w == FoldWidth[k]
      turned(n) == Rotate(FoldTo(h.events[n], EventBits, w), w, FoldShift * (n - 1))
  IN Word(LAMBDA b : Cardinality({n \in 1 .. HistLen[t] : Bit(turned(n), b) = 1}) % 2 = 1, w)
=============================================================================
