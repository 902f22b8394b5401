----------------------------- MODULE LegacyBtb ------------------------------
(***************************************************************************)
(* The frozen main BTB reference (sim/cocotb/main_btb/                     *)
(* legacy_btb_reference.py): a query captures its set before the packet of *)
(* the same edge is written.  m is the state of the model object: its      *)
(* table, its victims and the pending read.                                *)
(***************************************************************************)
EXTENDS PredictorTypes

WaySet == 0 .. Ways - 1

NoResponse == [hit |-> FALSE, br |-> {}, jal |-> {}, slot |-> 0, type |-> "none",
               ras |-> "none", target |-> 0]

Response == [hit : BOOLEAN, br : SUBSET (0 .. Slots - 1), jal : SUBSET (0 .. Slots - 1),
             slot : 0 .. Slots - 1, type : {"none", "br", "jal", "jalr"},
             ras : {"none", "push", "pop", "poppush"}, target : 0 .. 2^RegionBits * Slots - 1]
Entry == [tag : Words(BtbTagBits), response : Response]
PendingRead == [tag : Words(BtbTagBits), ways : [WaySet -> Entry \cup {NoEntry}]]

(* A training packet: the CFI is a committed taken one.                    *)
IsTrain(p) ==
  /\ p.region \in Words(RegionBits) /\ p.commit \subseteq 0 .. Slots - 1
  /\ [f \in {"slot", "type", "ras", "target"} |-> p.cfi[f]] \in
       [slot : 0 .. Slots - 1, type : {"none", "br", "jal", "jalr"},
        ras : {"none", "push", "pop", "poppush"}, target : 0 .. 2^RegionBits * Slots - 1]

Reset == [table |-> [n \in Words(SetBits) |-> [w \in WaySet |-> NoEntry]],
          victim |-> [n \in Words(SetBits) |-> 0], pending |-> NoQuery]

SetOf(r) == r % 2^SetBits
TagOf(r) == FoldTo(r \div 2^SetBits, RegionBits - SetBits, BtbTagBits)

HoldsTag(row, tag) == {w \in WaySet : row[w] # NoEntry /\ row[w].tag = tag}

Visible(read) ==
  LET ways == HoldsTag(read.ways, read.tag)
  IN IF ways = {} THEN NoResponse ELSE read.ways[Min(ways)].response

(* What the packet adds to what the region is known for.                   *)
Learnt(old, p) ==
  LET taken == p.cfi.type # "none"
      at(type) == IF p.cfi.type = type THEN {p.cfi.slot} ELSE {}
      owner == IF taken THEN p.cfi ELSE old
  IN [hit |-> TRUE, br |-> old.br \cup p.commit \cup at("br"), jal |-> old.jal \cup at("jal"),
      slot |-> owner.slot, type |-> owner.type, ras |-> owner.ras, target |-> owner.target]

Trained(m, p) ==
  LET n     == SetOf(p.region)
      match == HoldsTag(m.table[n], TagOf(p.region))
      empty == {w \in WaySet : m.table[n][w] = NoEntry}
      way   == CASE match # {} -> Min(match)
                 [] match = {} /\ empty # {} -> Min(empty)
                 [] OTHER -> m.victim[n]
      old   == IF match = {} THEN NoResponse ELSE m.table[n][way].response
  IN [m EXCEPT !.table[n][way] = [tag |-> TagOf(p.region), response |-> Learnt(old, p)],
               !.victim[n] = IF match \cup empty = {} THEN (way + 1) % Ways ELSE @]

Ticked(m, r, p) ==
  LET read == [m EXCEPT !.pending =
                 IF r = NoQuery THEN NoQuery
                 ELSE [tag |-> TagOf(r[1]), ways |-> m.table[SetOf(r[1])]]]
  IN IF p = NoTrain THEN read
     ELSE IF p.commit = {} /\ p.cfi.type = "none" THEN read
     ELSE Trained(read, p)
=============================================================================
