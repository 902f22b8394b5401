------------------------------ MODULE BtbModel ------------------------------
(***************************************************************************)
(* The cycle model of the main BTB (sim/cocotb/main_btb/btb_model.py): a   *)
(* set-associative table of regions.  A training packet is applied one     *)
(* edge after it arrives; a query reads its set after that edge's write.   *)
(***************************************************************************)
EXTENDS PredictorTypes

VARIABLES table, victim, pendingTrain, pending

WaySet == 0 .. Ways - 1
Miss   == [hit |-> FALSE, br |-> {}, jal |-> {}, slot |-> 0, type |-> "none",
           ras |-> "none", target |-> 0]

SetOf(r) == r % 2^SetBits
TagOf(r) == FoldTo(r \div 2^SetBits, RegionBits - SetBits, BtbTagBits)

ResetTable  == [n \in 0 .. 2^SetBits - 1 |-> [w \in WaySet |-> NoEntry]]
ResetVictim == [n \in 0 .. 2^SetBits - 1 |-> 0]

(* A taken CFI was committed / the packet says anything at all.            *)
HasCfi(p) == p.cfi.type # "none"
Trains(p) == p # NoTrain /\ (p.commit # {} \/ HasCfi(p))

(* A region learns its branches one by one; the last taken CFI owns the    *)
(* target.                                                                 *)
Learn(old, p) ==
  LET c  == p.cfi
      br == old.br \cup p.commit
  IN IF HasCfi(p)
     THEN [hit |-> TRUE,
           br  |-> br \cup (IF c.type = "br" THEN {c.slot} ELSE {}),
           jal |-> old.jal \cup (IF c.type = "jal" THEN {c.slot} ELSE {}),
           slot |-> c.slot, type |-> c.type, ras |-> c.ras, target |-> c.target]
     ELSE [old EXCEPT !.hit = TRUE, !.br = br]

(* The matching way, else the first empty one, else the victim, which      *)
(* then moves on.                                                          *)
Train(tab, vic, p) ==
  IF ~Trains(p) THEN [table |-> tab, victim |-> vic]
  ELSE
    LET n     == SetOf(p.region)
        row   == tab[n]
        match == {w \in WaySet : row[w] # NoEntry /\ row[w].tag = TagOf(p.region)}
        empty == {w \in WaySet : row[w] = NoEntry}
        way   == IF match # {} THEN Min(match) ELSE IF empty # {} THEN Min(empty) ELSE vic[n]
        old   == IF match # {} THEN row[way].response ELSE Miss
    IN [table  |-> [tab EXCEPT ![n][way] = [tag |-> TagOf(p.region),
                                            response |-> Learn(old, p)]],
        victim |-> IF match = {} /\ empty = {}
                   THEN [vic EXCEPT ![n] = (way + 1) % Ways] ELSE vic]

Visible(read) ==
  LET match == {w \in WaySet : read.ways[w] # NoEntry /\ read.ways[w].tag = read.tag}
  IN IF match = {} THEN Miss ELSE read.ways[Min(match)].response

Tick(r, p) ==
  LET done == Train(table, victim, pendingTrain) IN
  /\ table' = done.table /\ victim' = done.victim
  /\ pendingTrain' = p
  /\ pending' = IF r = NoQuery THEN NoQuery
                ELSE [tag |-> TagOf(r[1]), ways |-> done.table[SetOf(r[1])]]
=============================================================================
