------------------------------ MODULE MainBtb ------------------------------
(***************************************************************************)
(* main_btb.sv: the table in synchronous SRAM.  T0 reads the set, T1       *)
(* chooses the way from the live valid and replacement bits and writes; a  *)
(* write of the previous edge is forwarded to the row T0 read.  The        *)
(* entries carry the instruction length and edge flag of the last packet,  *)
(* which BtbModel does not know.                                           *)
(***************************************************************************)
EXTENDS PredictorTypes

VARIABLES bValid, bData, bReplace,   \* valid_q, the SRAM, replace_q
          bT1, bWb, bS1              \* t1_, wb_ and the query registers

btbVars == <<bValid, bData, bReplace, bT1, bWb, bS1>>

Plain(e) == [tag |-> e.tag,
             response |-> [hit |-> TRUE, br |-> e.br, jal |-> e.jal, slot |-> e.slot,
                           type |-> e.type, ras |-> e.ras, target |-> e.target]]
PlainRow(valid, data) ==
  [w \in 0 .. Ways - 1 |-> IF w \in valid THEN Plain(data[w]) ELSE NoEntry]

BM == INSTANCE BtbModel WITH
  table <- [n \in DOMAIN bData |-> PlainRow(bValid[n], bData[n])],
  victim <- bReplace,
  pendingTrain <- (IF bT1 = NoTrain THEN NoTrain ELSE bT1.p),
  pending <- (IF bS1 = NoQuery THEN NoQuery
              ELSE [tag |-> bS1.tag, ways |-> PlainRow(bS1.valid, bS1.ways)])

Blank == [tag |-> 0, br |-> {}, jal |-> {}, slot |-> 0, type |-> "none",
          ras |-> "none", target |-> 0, rvc |-> FALSE, edge |-> FALSE]

BtbInit ==
  /\ bValid = [n \in 0 .. 2^SetBits - 1 |-> {}]
  /\ bData = [n \in 0 .. 2^SetBits - 1 |-> [w \in BM!WaySet |-> Blank]]
  /\ bReplace = BM!ResetVictim
  /\ bT1 = NoTrain /\ bWb = NoTrain /\ bS1 = NoQuery

Updated(old, p) ==
  LET c == p.cfi
      kept == [old EXCEPT !.tag = BM!TagOf(p.region), !.rvc = c.rvc, !.edge = c.edge,
                          !.br = @ \cup p.commit \cup (IF c.type = "br" THEN {c.slot} ELSE {}),
                          !.jal = @ \cup (IF c.type = "jal" THEN {c.slot} ELSE {})]
  IN IF BM!HasCfi(p)
     THEN [kept EXCEPT !.slot = c.slot, !.type = c.type, !.ras = c.ras, !.target = c.target]
     ELSE kept

(* Slip: the write of the previous edge is not forwarded.                  *)
BtbWriteSlip ==
  LET p     == bT1.p
      n     == BM!SetOf(p.region)
      match == {w \in bValid[n] : bT1.row[w].tag = BM!TagOf(p.region)}
      empty == BM!WaySet \ bValid[n]
      way   == IF match # {} THEN Min(match)
               ELSE IF empty # {} THEN Min(empty) ELSE bReplace[n]
  IN [set |-> n, way |-> way, replace |-> match = {} /\ empty = {},
      data |-> Updated(IF match # {} THEN bT1.row[way] ELSE Blank, p)]

(* The write of the packet in T1.                                          *)
BtbWrite ==
  LET p     == bT1.p
      n     == BM!SetOf(p.region)
      old   == [w \in BM!WaySet |->
                  IF bWb # NoTrain /\ bWb.set = n /\ bWb.way = w THEN bWb.data
                  ELSE bT1.row[w]]
      match == {w \in bValid[n] : old[w].tag = BM!TagOf(p.region)}
      empty == BM!WaySet \ bValid[n]
      way   == IF match # {} THEN Min(match)
               ELSE IF empty # {} THEN Min(empty) ELSE bReplace[n]
  IN [set |-> n, way |-> way, replace |-> match = {} /\ empty = {},
      data |-> Updated(IF match # {} THEN old[way] ELSE Blank, p)]

BtbWrites == bT1 # NoTrain /\ BM!Trains(bT1.p)

EdgeWrite == IF BtbWrites THEN BtbWrite ELSE NoTrain

(* The table with the write w of this edge in it.                          *)
WrittenTable(w) ==
  IF w = NoTrain THEN [valid |-> bValid, data |-> bData, replace |-> bReplace]
  ELSE [valid   |-> [bValid EXCEPT ![w.set] = @ \cup {w.way}],
        data    |-> [bData EXCEPT ![w.set][w.way] = w.data],
        replace |-> IF w.replace THEN [bReplace EXCEPT ![w.set] = (w.way + 1) % Ways]
                    ELSE bReplace]

(* Seen by a query the table is the frozen reference's one packet ahead:   *)
(* the write of an edge is bypassed to the read of that edge.              *)
LB == INSTANCE LegacyBtb

AsLegacyBtb(w) ==
  LET t == WrittenTable(w)
  IN [table |-> [n \in DOMAIN bData |-> PlainRow(t.valid[n], t.data[n])],
      victim |-> t.replace,
      pending |-> IF bS1 = NoQuery THEN NoQuery
                  ELSE [tag |-> bS1.tag, ways |-> PlainRow(bS1.valid, bS1.ways)]]

(* A word read on the edge that writes it comes out inverted: a tag that   *)
(* is not the one stored.                                                  *)
InvertedEntry(e) == [e EXCEPT !.tag = 2^BtbTagBits - 1 - @]

BtbTick(r, p) ==
  \E w \in {EdgeWrite} :
  LET done == WrittenTable(w)
      Read(n, v) == IF w # NoTrain /\ w.set = n /\ w.way = v THEN InvertedEntry(bData[n][v])
                    ELSE bData[n][v]
  IN
  /\ bT1' = IF p = NoTrain THEN NoTrain
            ELSE [p |-> p, row |-> [v \in BM!WaySet |-> Read(BM!SetOf(p.region), v)]]
  /\ bWb' = w
  /\ bValid' = done.valid /\ bData' = done.data /\ bReplace' = done.replace
  /\ bS1' = IF r = NoQuery THEN NoQuery
            ELSE [tag |-> BM!TagOf(r[1]), valid |-> done.valid[BM!SetOf(r[1])],
                  ways |-> done.data[BM!SetOf(r[1])]]

(* The response to the query read: the lowest matching way.                *)
BtbResponse ==
  LET match == {w \in bS1.valid : bS1.ways[w].tag = bS1.tag}
  IN [hit |-> match # {}, e |-> IF match = {} THEN Blank ELSE bS1.ways[Min(match)]]
=============================================================================
