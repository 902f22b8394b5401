----------------------------- MODULE LegacyTage -----------------------------
(***************************************************************************)
(* The frozen TAGE reference (sim/cocotb/tage/legacy_tage_reference.py),   *)
(* from before training was pipelined: a packet updates the tables on the  *)
(* edge it arrives, slot after slot, and a query reads the tables as they  *)
(* were before that edge.  It shares nothing with TageModel but the sizes. *)
(***************************************************************************)
EXTENDS PredictorTypes

VARIABLES base, tagged, s1, s2

SlotSet   == 0 .. Slots - 1
TableSet  == 0 .. Tables - 1
WeakNt    == 2^(CtrBits - 1) - 1
WeakTaken == 2^(CtrBits - 1)

Row == [valid : BOOLEAN, tag : Words(TagBits),
        ctr : [SlotSet -> Words(CtrBits)], useful : [SlotSet -> Words(UsefulBits)]]
Lookup == [base : Words(BaseBits), idx : [TableSet -> Words(IdxBits)],
           tag : [TableSet -> Words(TagBits)]]
Read == [q : Lookup, base : [SlotSet -> Words(CtrBits)], rows : [TableSet -> Row]]
Response == [SlotSet -> [provider : 0 .. Tables,
                         alt : BOOLEAN, pred : BOOLEAN, final : BOOLEAN]]

IsTrain(p) == /\ p.region \in Words(RegionBits) /\ p.meta \in Response
              /\ p.taken \subseteq p.commit /\ p.commit \subseteq SlotSet

FreshRow(valid, tag, ctr) ==
  [valid |-> valid, tag |-> tag,
   ctr |-> [s \in SlotSet |-> ctr], useful |-> [s \in SlotSet |-> 0]]

Reset ==
  /\ base = [n \in Words(BaseBits) |-> [s \in SlotSet |-> WeakNt]]
  /\ tagged = [t \in TableSet |-> [n \in Words(IdxBits) |-> FreshRow(FALSE, 0, 0)]]
  /\ s1 = NoQuery /\ s2 = NoQuery

PcFold(r, width) == FoldTo(r, RegionBits, width)

Query(r, folds) ==
  [base |-> PcFold(r, BaseBits),
   idx |-> [t \in TableSet |-> Xor(folds[t].idx, PcFold(r, IdxBits), IdxBits)],
   tag |-> [t \in TableSet |-> Xor(Xor(folds[t].tag, 2 * folds[t].short, TagBits),
                                   PcFold(r, TagBits), TagBits)]]

Snapshot(q) ==
  [q |-> q, base |-> base[q.base], rows |-> [t \in TableSet |-> tagged[t][q.idx[t]]]]

(* Of the tables that hit, the longest history predicts and the next one,  *)
(* or the base row, is the alternative.                                    *)
Predict(snap) ==
  [s \in SlotSet |->
    LET hit   == {t \in TableSet : snap.rows[t].valid /\ snap.rows[t].tag = snap.q.tag[t]}
        Ctr(t) == IF t = Tables THEN snap.base[s] ELSE snap.rows[t].ctr[s]
        Longest(ts) == IF ts = {} THEN Tables ELSE Max(ts)
        provider == Longest(hit)
        pred  == Ctr(provider) > WeakNt
        alt   == Ctr(Longest(hit \ {provider})) > WeakNt
        weak  == hit # {} /\ snap.rows[provider].useful[s] = 0
                 /\ Ctr(provider) \in {WeakNt, WeakTaken}
    IN [provider |-> provider, alt |-> alt, pred |-> pred,
        final |-> IF weak THEN alt ELSE pred]]

TrainCtr(c, taken)   == IF taken THEN Min({2^CtrBits - 1, c + 1}) ELSE Max({0, c - 1})
TrainUseful(u, up)   == IF up THEN Min({2^UsefulBits - 1, u + 1}) ELSE Max({0, u - 1})

(* The three effects of one committed slot on the rows the packet reads.   *)
Learnt(rows, s, m, actual) ==
  [rows EXCEPT ![m.provider].ctr[s] = TrainCtr(@, actual),
               ![m.provider].useful[s] = IF m.pred # m.alt THEN TrainUseful(@, m.pred = actual)
                                         ELSE @]

Allocated(rows, t, tag, s, actual) ==
  LET row == IF rows[t].valid /\ rows[t].tag = tag THEN rows[t] ELSE FreshRow(TRUE, tag, WeakNt)
  IN [rows EXCEPT ![t] = [row EXCEPT !.ctr[s] = IF actual THEN WeakTaken ELSE WeakNt,
                                     !.useful[s] = 0]]

Aged(rows, t) ==
  [rows EXCEPT ![t].useful = [k \in SlotSet |-> TrainUseful(@[k], FALSE)]]

(* A slot's provider learns if it owned its row when the packet arrived; a *)
(* mispredicted slot takes the first longer row to be had, or ages the     *)
(* next one.                                                               *)
AfterSlot(rows, original, q, p, s) ==
  LET m      == p.meta[s]
      actual == s \in p.taken
      owned  == m.provider < Tables /\ original[m.provider].valid
                /\ original[m.provider].tag = q.tag[m.provider]
      learnt == IF owned THEN Learnt(rows, s, m, actual) ELSE rows
      longer == {t \in TableSet : m.provider = Tables \/ t > m.provider}
      free   == {t \in longer : \/ ~learnt[t].valid \/ learnt[t].tag = q.tag[t]
                                \/ \A k \in SlotSet : learnt[t].useful[k] = 0}
  IN IF m.final = actual \/ longer = {} THEN learnt
     ELSE IF free = {} THEN Aged(learnt, Min(longer))
     ELSE Allocated(learnt, Min(free), q.tag[Min(free)], s, actual)

Train(p) ==
  IF p = NoTrain \/ (p # NoTrain /\ p.commit = {}) THEN UNCHANGED <<base, tagged>>
  ELSE
    LET q == Query(p.region, p.folds)
        original == Snapshot(q).rows
        after[n \in 0 .. Slots] ==
          IF n = 0 THEN original
          ELSE IF n - 1 \in p.commit THEN AfterSlot(after[n - 1], original, q, p, n - 1)
          ELSE after[n - 1]
    IN /\ base' = [base EXCEPT ![q.base] = [s \in SlotSet |->
                     IF s \in p.commit THEN TrainCtr(@[s], s \in p.taken) ELSE @[s]]]
       /\ tagged' = [t \in TableSet |-> [tagged[t] EXCEPT ![q.idx[t]] = after[Slots][t]]]

(* Reads sample the old tables; training becomes visible to later reads.   *)
Tick(r, folds, p) ==
  /\ s2' = IF s1 = NoQuery THEN NoQuery ELSE Snapshot(s1)
  /\ s1' = IF r = NoQuery THEN NoQuery ELSE Query(r[1], folds)
  /\ Train(p)
=============================================================================
