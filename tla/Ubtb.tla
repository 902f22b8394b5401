-------------------------------- MODULE Ubtb --------------------------------
(***************************************************************************)
(* ubtb.sv: T0 chooses the row of a training packet, looking through the   *)
(* write T1 is about to make; T1 updates the row's contents, with the      *)
(* previous write forwarded, and writes.  One packet per cycle.            *)
(***************************************************************************)
EXTENDS PredictorTypes

VARIABLES uRow, uValid, uReplace,   \* entry_q (with the target memories), valid_q, replace_q
          uT1, uWb                  \* t1_ and wb_ registers

ubtbVars == <<uRow, uValid, uReplace, uT1, uWb>>

(* An entry without the length and edge flags the contract leaves out.     *)
Contract(e) == [f \in DOMAIN e \ {"rvc", "edge"} |-> e[f]]

UM == INSTANCE UbtbModel WITH
  table <- [n \in DOMAIN uRow |-> IF n \in uValid THEN Contract(uRow[n]) ELSE NoEntry],
  replace <- uReplace

Unwritten == [tag |-> 0, br |-> {}, jal |-> {}, owner |-> FALSE, slot |-> 0,
              type |-> "none", ras |-> "none", target |-> 0, ctr |-> 0,
              rvc |-> FALSE, edge |-> FALSE]

UbtbInit ==
  /\ uRow = [n \in UM!EntrySet |-> Unwritten] /\ uValid = {} /\ uReplace = 0
  /\ uT1 = NoTrain /\ uWb = NoTrain

UbtbWrites == uT1 # NoTrain /\ uT1.write

(* Slip: T0 does not look through the write T1 is about to make.           *)
ChooseSlip(p) ==
  LET hits  == {n \in uValid : uRow[n].tag = UM!TagOf(p.region)}
      empty == UM!EntrySet \ uValid
      row   == IF hits # {} THEN Min(hits) ELSE IF empty # {} THEN Min(empty) ELSE uReplace
  IN [p |-> p, tag |-> UM!TagOf(p.region), row |-> row, matched |-> hits # {},
      replace |-> hits = {} /\ empty = {}, old |-> uRow[row],
      write |-> UM!Trains(p) /\ (hits # {} \/ UM!HasCfi(p))]

(* T0: the row, as the table will be once T1 has written.                  *)
Choose(p) ==
  LET valid == uValid \cup (IF UbtbWrites THEN {uT1.row} ELSE {})
      tag(n) == IF UbtbWrites /\ uT1.row = n THEN uT1.tag ELSE uRow[n].tag
      hits  == {n \in valid : tag(n) = UM!TagOf(p.region)}
      empty == UM!EntrySet \ valid
      next  == IF UbtbWrites /\ uT1.replace THEN (uT1.row + 1) % Entries ELSE uReplace
      row   == IF hits # {} THEN Min(hits) ELSE IF empty # {} THEN Min(empty) ELSE next
  IN [p |-> p, tag |-> UM!TagOf(p.region), row |-> row, matched |-> hits # {},
      replace |-> hits = {} /\ empty = {}, old |-> uRow[row],
      write |-> UM!Trains(p) /\ (hits # {} \/ UM!HasCfi(p))]

(* T1: the contents.                                                       *)
Written ==
  LET p     == uT1.p
      c     == p.cfi
      seen  == IF uWb # NoTrain /\ uWb.row = uT1.row THEN uWb.data ELSE uT1.old
      e     == [(IF uT1.matched THEN seen ELSE Unwritten)
                  EXCEPT !.tag = uT1.tag, !.rvc = c.rvc, !.edge = c.edge]
      mine  == uT1.matched /\ e.owner /\ e.type = "br"
      up    == IF e.ctr = 3 THEN 3 ELSE e.ctr + 1
      down  == IF e.ctr = 0 THEN 0 ELSE e.ctr - 1
  IN IF UM!HasCfi(p)
     THEN [e EXCEPT !.br = @ \cup p.commit \cup (IF c.type = "br" THEN {c.slot} ELSE {}),
                    !.jal = @ \cup (IF c.type = "jal" THEN {c.slot} ELSE {}),
                    !.ctr = IF c.type # "br" THEN 0
                            ELSE IF mine /\ e.slot = c.slot THEN up ELSE 2,
                    !.owner = TRUE, !.slot = c.slot, !.type = c.type,
                    !.ras = c.ras, !.target = c.target]
     ELSE [e EXCEPT !.br = @ \cup p.commit,
                    !.ctr = IF mine /\ e.slot \in p.commit THEN down ELSE @]

UbtbTick(p) ==
  /\ uT1' = IF p = NoTrain THEN NoTrain ELSE Choose(p)
  /\ uWb' = IF UbtbWrites THEN [row |-> uT1.row, data |-> Written] ELSE NoTrain
  /\ uRow' = IF UbtbWrites THEN [uRow EXCEPT ![uT1.row] = Written] ELSE uRow
  /\ uValid' = uValid \cup (IF UbtbWrites THEN {uT1.row} ELSE {})
  /\ uReplace' = IF UbtbWrites /\ uT1.replace THEN (uT1.row + 1) % Entries ELSE uReplace

(* The lookup: the first row that hits gives the masks, and the exit if    *)
(* its owner, judged before the tags are compared, is to be taken.         *)
Lookup(pc) ==
  LET r     == pc \div Slots
      hits  == {n \in uValid : uRow[n].tag = UM!TagOf(r)}
      pick  == {n \in hits : \A m \in hits : n <= m}
      owner == {n \in pick : /\ uRow[n].owner /\ uRow[n].slot >= pc % Slots
                             /\ \/ uRow[n].type \in {"jal", "jalr"}
                                \/ uRow[n].type = "br" /\ Bit(uRow[n].ctr, 1) = 1}
      e     == IF owner = {} THEN Unwritten ELSE uRow[Min(owner)]
  IN [region |-> r, entry |-> pc % Slots,
      br |-> UNION {uRow[n].br : n \in pick}, jal |-> UNION {uRow[n].jal : n \in pick},
      taken |-> owner # {}, slot |-> e.slot, type |-> e.type, ras |-> e.ras,
      next |-> IF owner = {} THEN ((r + 1) % 2^RegionBits) * Slots ELSE e.target,
      rvc |-> e.rvc, edge |-> e.edge]
=============================================================================
