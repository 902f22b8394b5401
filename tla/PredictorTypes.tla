--------------------------- MODULE PredictorTypes ---------------------------
(* What the predictors have in common (o3_cfg_pkg, o3_types_pkg): a region *)
(* is a number of RegionBits bits and holds Slots half words.              *)
EXTENDS Bits, Sequences

CONSTANTS RegionBits, Slots,
          Tables, BaseBits, IdxBits, TagBits, CtrBits, UsefulBits,   \* TAGE
          SetBits, Ways, BtbTagBits,                                 \* main BTB
          Entries, UbtbTagBits                                       \* uBTB

ASSUME PredictorSizes ==
  /\ {RegionBits, Slots, Tables, BaseBits, IdxBits, UsefulBits, SetBits, Ways,
      BtbTagBits, Entries, UbtbTagBits} \subseteq Nat \ {0}
  /\ TagBits \in Nat \ {0, 1} /\ CtrBits \in Nat \ {0, 1}
  /\ Slots % 2 = 0 /\ SetBits < RegionBits

(* A register whose valid bit is clear holds the empty function, which is  *)
(* no record: no packet, no query or rows read for one, no table entry.    *)
(* The query of a region is <<region>>.                                    *)
NoTrain == <<>>
NoQuery == <<>>
NoEntry == <<>>
=============================================================================
