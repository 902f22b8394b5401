----------------------------- MODULE TageModel -----------------------------
(***************************************************************************)
(* The cycle and training model of TAGE (sim/cocotb/tage/tage_model.py):   *)
(* what the predictor promises.  A training packet is applied in one       *)
(* piece, slot after slot, at the end of the write transport; a query      *)
(* reads all its rows in one piece.  Addresses are region numbers, a mask  *)
(* is the set of its slots, folds give each table its three history words. *)
(***************************************************************************)
EXTENDS PredictorTypes

VARIABLES base, tagged,   \* the tables
          trains,         \* accepted packets not yet applied, youngest first
          s1, s2          \* the query to be read, the rows read

modelVars == <<base, tagged, trains, s1, s2>>

SlotSet   == 0 .. Slots - 1
TableSet  == 0 .. Tables - 1
BaseCode  == Tables        \* a provider code that names no table
WeakNt    == 2^(CtrBits - 1) - 1
WeakTaken == WeakNt + 1

Row(valid, tag, ctr, useful) ==
  [valid |-> valid, tag |-> tag,
   ctr |-> [s \in SlotSet |-> ctr], useful |-> [s \in SlotSet |-> useful]]

ResetBase   == [n \in 0 .. 2^BaseBits - 1 |-> [s \in SlotSet |-> WeakNt]]
ResetTagged == [t \in TableSet |-> [n \in 0 .. 2^IdxBits - 1 |-> Row(FALSE, 0, 0, 0)]]

PcFold(r, w) == FoldTo(r, RegionBits, w)

(* The rows and tags a region looks up under a history.                    *)
Query(r, folds) ==
  [base |-> PcFold(r, BaseBits),
   idx  |-> [t \in TableSet |-> Xor(PcFold(r, IdxBits), folds[t].idx, IdxBits)],
   tag  |-> [t \in TableSet |->
               Xor(Xor(PcFold(r, TagBits), folds[t].tag, TagBits),
                   2 * folds[t].short, TagBits)]]

Snapshot(b, tg, q) ==
  [q |-> q, base |-> b[q.base], rows |-> [t \in TableSet |-> tg[t][q.idx[t]]]]

Taken(ctr) == ctr >= 2^(CtrBits - 1)

(* One slot's direction: the tables in order of history length, each hit   *)
(* demoting the previous provider to the alternative.                      *)
Direction(snap, s) ==
  LET none == [provider |-> BaseCode, ctr |-> snap.base[s], useful |-> 0,
               alt |-> Taken(snap.base[s])]
      upTo[n \in 0 .. Tables] ==
        IF n = 0 THEN none
        ELSE LET r == snap.rows[n - 1]
                 p == upTo[n - 1]
             IN IF r.valid /\ r.tag = snap.q.tag[n - 1]
                THEN [provider |-> n - 1, ctr |-> r.ctr[s], useful |-> r.useful[s],
                      alt |-> Taken(p.ctr)]
                ELSE p
      last == upTo[Tables]
      weak == /\ last.provider # BaseCode /\ last.useful = 0
              /\ last.ctr \in {WeakNt, WeakTaken}
  IN [provider |-> last.provider, alt |-> last.alt, pred |-> Taken(last.ctr),
      final |-> IF weak THEN last.alt ELSE Taken(last.ctr)]

(* The response: per slot the direction and the meta that training needs.  *)
Predict(snap) == [s \in SlotSet |-> Direction(snap, s)]

TrainCtr(c, taken) ==
  IF taken THEN (IF c = 2^CtrBits - 1 THEN c ELSE c + 1) ELSE (IF c = 0 THEN 0 ELSE c - 1)
TrainUseful(u, up) ==
  IF up THEN (IF u = 2^UsefulBits - 1 THEN u ELSE u + 1) ELSE (IF u = 0 THEN 0 ELSE u - 1)

Trains(p) == p # NoTrain /\ p.commit # {}

(* One committed branch slot on the rows of a query: the provider that     *)
(* still owns its row learns; a wrong final direction allocates in the     *)
(* first longer table that gives up its row, or else ages the next one.    *)
TrainSlot(st, p, q, original, s) ==
  LET m      == p.meta[s]
      actual == s \in p.taken
      learns == /\ m.provider \in TableSet /\ original[m.provider].valid
                /\ original[m.provider].tag = q.tag[m.provider]
      learnt == IF ~learns THEN st.rows
                ELSE [st.rows EXCEPT
                        ![m.provider].ctr[s] = TrainCtr(@, actual),
                        ![m.provider].useful[s] =
                           IF m.pred = m.alt THEN @ ELSE TrainUseful(@, m.pred = actual)]
      first  == IF m.provider \in TableSet THEN m.provider + 1 ELSE 0
      open   == {t \in first .. Tables - 1 :
                   \/ ~learnt[t].valid \/ learnt[t].tag = q.tag[t]
                   \/ \A k \in SlotSet : learnt[t].useful[k] = 0}
      t      == Min(open)
      own    == IF learnt[t].valid /\ learnt[t].tag = q.tag[t] THEN learnt[t]
                ELSE Row(TRUE, q.tag[t], WeakNt, 0)
      rows   == IF m.final = actual THEN learnt
                ELSE IF open # {}
                THEN [learnt EXCEPT ![t] =
                        [own EXCEPT !.ctr[s] = IF actual THEN WeakTaken ELSE WeakNt,
                                    !.useful[s] = 0]]
                ELSE IF first < Tables
                THEN [learnt EXCEPT ![first].useful =
                        [k \in SlotSet |-> TrainUseful(@[k], FALSE)]]
                ELSE learnt
      wrote  == IF m.final = actual THEN {}
                ELSE IF open # {} THEN {t} ELSE {first} \cap TableSet
  IN [rows |-> rows,
      touched |-> st.touched \cup (IF learns THEN {m.provider} ELSE {}) \cup wrote]

(* What a packet makes of the tables.                                      *)
Train(b, tg, p) ==
  IF ~Trains(p) THEN [base |-> b, tagged |-> tg]
  ELSE
    LET q        == Query(p.region, p.folds)
        original == Snapshot(b, tg, q).rows
        upTo[n \in 0 .. Slots] ==
          IF n = 0 THEN [rows |-> original, touched |-> {}]
          ELSE IF n - 1 \notin p.commit THEN upTo[n - 1]
          ELSE TrainSlot(upTo[n - 1], p, q, original, n - 1)
        done == upTo[Slots]
    IN [base   |-> [b EXCEPT ![q.base] =
                      [s \in SlotSet |->
                         IF s \in p.commit THEN TrainCtr(@[s], s \in p.taken) ELSE @[s]]],
        tagged |-> [t \in TableSet |->
                      IF t \in done.touched
                      THEN [tg[t] EXCEPT ![q.idx[t]] = done.rows[t]] ELSE tg[t]]]

(* A packet waits while the one before it reads a row it would read too.   *)
Ready(p) ==
  \/ ~Trains(trains[1]) \/ ~Trains(p)
  \/ LET a == Query(trains[1].region, trains[1].folds)
         b == Query(p.region, p.folds)
     IN a.base # b.base /\ \A t \in TableSet : a.idx[t] # b.idx[t]

(* A clock edge with query r and packet p offered (stall and kill are tied *)
(* to 0 by bpu.sv): the oldest packet is applied, and the query of the     *)
(* previous edge reads the tables it leaves.                               *)
Tick(r, folds, p) ==
  LET done == Train(base, tagged, trains[Len(trains)]) IN
  /\ base' = done.base /\ tagged' = done.tagged
  /\ trains' = <<IF Ready(p) THEN p ELSE NoTrain>> \o SubSeq(trains, 1, Len(trains) - 1)
  /\ s2' = IF s1 = NoQuery THEN NoQuery ELSE Snapshot(done.base, done.tagged, s1)
  /\ s1' = IF r = NoQuery THEN NoQuery ELSE Query(r[1], folds)
=============================================================================
