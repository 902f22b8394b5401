----------------------------- MODULE UbtbModel -----------------------------
(***************************************************************************)
(* The contract of the uBTB (sim/cocotb/ubtb/ubtb_model.py): a fully       *)
(* associative table of regions with one target owner each, read in the    *)
(* cycle of the lookup, one training packet applied per edge.  A pc counts *)
(* half words.                                                             *)
(***************************************************************************)
EXTENDS PredictorTypes

VARIABLES table, replace

EntrySet == 0 .. Entries - 1
TagOf(r) == FoldTo(r, RegionBits, UbtbTagBits)

HasCfi(p) == p.cfi.type # "none"
Trains(p) == p # NoTrain /\ (p.commit # {} \/ HasCfi(p))

NewEntry(tag) ==
  [tag |-> tag, br |-> {}, jal |-> {}, owner |-> FALSE, slot |-> 0, type |-> "none",
   ras |-> "none", target |-> 0, ctr |-> 0]

Prediction ==
  [region : Words(RegionBits), entry : 0 .. Slots - 1,
   br : SUBSET (0 .. Slots - 1), jal : SUBSET (0 .. Slots - 1),
   taken : BOOLEAN, slot : 0 .. Slots - 1, type : {"none", "br", "jal", "jalr"},
   ras : {"none", "push", "pop", "poppush"}, next : 0 .. 2^RegionBits * Slots - 1]

(* The prediction for a pc; a miss, or an owner before the entry slot,     *)
(* falls through to the next region.                                       *)
Visible(pc) ==
  LET r     == pc \div Slots
      slot  == pc % Slots
      match == {n \in EntrySet : table[n] # NoEntry /\ table[n].tag = TagOf(r)}
      e     == table[Min(match)]
      take  == /\ match # {} /\ e.owner /\ e.slot >= slot
               /\ e.type \in {"jal", "jalr"} \/ (e.type = "br" /\ e.ctr >= 2)
      next  == ((r + 1) % 2^RegionBits) * Slots
  IN [region |-> r, entry |-> slot,
      br     |-> IF match = {} THEN {} ELSE e.br,
      jal    |-> IF match = {} THEN {} ELSE e.jal,
      taken  |-> take,
      slot   |-> IF take THEN e.slot ELSE 0,
      type   |-> IF take THEN e.type ELSE "none",
      ras    |-> IF take THEN e.ras ELSE "none",
      next   |-> IF take THEN e.target ELSE next]

(* A conditional owner gains confidence when it is taken again and loses   *)
(* it when it commits untaken; every other owner is believed at once.      *)
Learn(e, matched, p) ==
  LET c     == p.cfi
      mine  == matched /\ e.owner /\ e.type = "br"
      up    == IF e.ctr = 3 THEN 3 ELSE e.ctr + 1
      down  == IF e.ctr = 0 THEN 0 ELSE e.ctr - 1
  IN IF HasCfi(p)
     THEN [e EXCEPT !.br = @ \cup p.commit \cup (IF c.type = "br" THEN {c.slot} ELSE {}),
                    !.jal = @ \cup (IF c.type = "jal" THEN {c.slot} ELSE {}),
                    !.ctr = IF c.type # "br" THEN 0
                            ELSE IF mine /\ e.slot = c.slot THEN up ELSE 2,
                    !.owner = TRUE, !.slot = c.slot, !.type = c.type,
                    !.ras = c.ras, !.target = c.target]
     ELSE [e EXCEPT !.br = @ \cup p.commit,
                    !.ctr = IF mine /\ e.slot \in p.commit THEN down ELSE @]

(* A packet without a taken CFI only updates a region that is present.     *)
Train(tab, rep, p) ==
  LET match == {n \in EntrySet : tab[n] # NoEntry /\ tab[n].tag = TagOf(p.region)}
      empty == {n \in EntrySet : tab[n] = NoEntry}
      n     == IF match # {} THEN Min(match) ELSE IF empty # {} THEN Min(empty) ELSE rep
      old   == IF match # {} THEN tab[n] ELSE NewEntry(TagOf(p.region))
  IN IF ~Trains(p) \/ (match = {} /\ ~HasCfi(p)) THEN [table |-> tab, replace |-> rep]
     ELSE [table   |-> [tab EXCEPT ![n] = Learn(old, match # {}, p)],
           replace |-> IF match = {} /\ empty = {} THEN (n + 1) % Entries ELSE rep]

Tick(p) ==
  LET done == Train(table, replace, p)
  IN table' = done.table /\ replace' = done.replace
=============================================================================
