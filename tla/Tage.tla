-------------------------------- MODULE Tage --------------------------------
(***************************************************************************)
(* tage.sv: the same predictor with its training spread over five stages   *)
(* and its rows in synchronous SRAM.  T0 reads the rows, T1 captures them  *)
(* (with the results still in flight forwarded), T2 and T3 each update     *)
(* half the slots, T4 writes (registers t3_).  A word read on the edge     *)
(* that writes it comes out inverted, as o3_sram_1r1w poisons it.  Every   *)
(* stage record carries its packet; t3_ in the code keeps what is left of  *)
(* it, the packet itself is there for the comparison with TageModel.       *)
(***************************************************************************)
EXTENDS PredictorTypes

VARIABLES tgBase, tgRows,   \* base and tagged arrays (both SRAM copies, valid bits)
          tT1, tCap, tT2, tT3, tWb,   \* t1_*, capture_*, t2_*, t3_*, wb_*
          tS1, tS2          \* the query pipeline

tageVars == <<tgBase, tgRows, tT1, tCap, tT2, tT3, tWb, tS1, tS2>>

PacketOf(stage) == IF stage = NoTrain THEN NoTrain ELSE stage.p

TM == INSTANCE TageModel WITH
  base <- tgBase, tagged <- tgRows, s1 <- tS1, s2 <- tS2,
  trains <- <<PacketOf(tT1), PacketOf(tCap), PacketOf(tT2), PacketOf(tT3)>>

WritesBase(n)    == tT3 # NoTrain /\ tT3.p.commit # {} /\ tT3.q.base = n
WritesRow(t, n)  == tT3 # NoTrain /\ t \in tT3.touched /\ tT3.q.idx[t] = n

(* The tables with the write of this edge in them.                         *)
WrittenBase == [n \in DOMAIN tgBase |-> IF WritesBase(n) THEN tT3.base ELSE tgBase[n]]
WrittenRows == [t \in TM!TableSet |-> [n \in DOMAIN tgRows[t] |->
                  IF WritesRow(t, n) THEN tT3.rows[t] ELSE tgRows[t][n]]]

(* Seen by a query the tables are those of the frozen reference one packet *)
(* ahead: the write of an edge is bypassed to the reads of that edge.      *)
LT == INSTANCE LegacyTage WITH
  base <- WrittenBase, tagged <- WrittenRows, s1 <- tS1, s2 <- tS2

TageInit(base, tagged) ==
  /\ tgBase = base /\ tgRows = tagged
  /\ tT1 = NoTrain /\ tCap = NoTrain /\ tT2 = NoTrain /\ tT3 = NoTrain /\ tWb = NoTrain
  /\ tS1 = NoQuery /\ tS2 = NoQuery

(* Half the slots of a packet.  Row ownership (match, claimed) and the     *)
(* useful bits ripple from slot to slot; a counter has one local update.   *)
SliceStep(st, p, rows, original, match, s) ==
  LET m        == p.meta[s]
      actual   == s \in p.taken
      active   == s \in p.commit
      byTable  == m.provider \in TM!TableSet
      learns   == {t \in TM!TableSet : active /\ m.provider = t /\ t \in original}
      eligible == {t \in TM!TableSet :
                     /\ ~byTable \/ m.provider < t
                     /\ \/ ~rows[t].valid \/ t \in match \/ t \in st.claimed
                        \/ \A k \in TM!SlotSet : st.useful[t][k] = 0}
      wrong    == active /\ m.final # actual
      allocate == IF wrong /\ eligible # {} THEN {Min(eligible)} ELSE {}
      decay    == IF wrong /\ eligible = {}
                  THEN {IF byTable THEN m.provider + 1 ELSE 0} \cap TM!TableSet ELSE {}
      fresh(t) == t \notin st.claimed /\ (~rows[t].valid \/ t \notin match)
      trained(t, k) == IF t \in learns /\ k = s /\ m.pred # m.alt
                       THEN TM!TrainUseful(st.useful[t][k], m.pred = actual)
                       ELSE st.useful[t][k]
  IN [claimed |-> st.claimed \cup allocate,
      useful  |-> [t \in TM!TableSet |-> [k \in TM!SlotSet |->
                    IF t \in allocate /\ (fresh(t) \/ k = s) THEN 0
                    ELSE IF t \in decay THEN TM!TrainUseful(trained(t, k), FALSE)
                    ELSE trained(t, k)]],
      learns   |-> [st.learns EXCEPT ![s] = learns],
      allocate |-> [st.allocate EXCEPT ![s] = allocate],
      touched  |-> st.touched \cup learns \cup allocate \cup decay]

UpdateSlice(p, rows, tag, original, match, first, last) ==
  LET none == [s \in TM!SlotSet |-> {}]
      upTo[n \in first .. last + 1] ==
        IF n = first
        THEN [claimed |-> {}, useful |-> [t \in TM!TableSet |-> rows[t].useful],
              learns |-> none, allocate |-> none, touched |-> {}]
        ELSE SliceStep(upTo[n - 1], p, rows, original, match, n - 1)
      st == upTo[last + 1]
      replace == st.claimed \ match
      ctr(t, s) == IF t \in st.allocate[s]
                   THEN (IF s \in p.taken THEN TM!WeakTaken ELSE TM!WeakNt)
                   ELSE IF t \in replace THEN TM!WeakNt
                   ELSE IF t \in st.learns[s] THEN TM!TrainCtr(rows[t].ctr[s], s \in p.taken)
                   ELSE rows[t].ctr[s]
  IN [rows |-> [t \in TM!TableSet |->
                  [valid  |-> rows[t].valid \/ t \in st.claimed,
                   tag    |-> IF t \in replace THEN tag[t] ELSE rows[t].tag,
                   ctr    |-> [s \in TM!SlotSet |-> ctr(t, s)],
                   useful |-> st.useful[t]]],
      match |-> match \cup st.claimed, touched |-> st.touched]

FirstHalf(c) ==
  LET original == {t \in TM!TableSet : c.rows[t].valid /\ c.rows[t].tag = c.q.tag[t]}
      u == UpdateSlice(c.p, c.rows, c.q.tag, original, original, 0, Slots \div 2 - 1)
  IN [p |-> c.p, q |-> c.q, rows |-> u.rows, touched |-> u.touched,
      original |-> original, match |-> u.match,
      base |-> [s \in TM!SlotSet |-> IF s \in c.p.commit
                                     THEN TM!TrainCtr(c.base[s], s \in c.p.taken)
                                     ELSE c.base[s]]]

SecondHalf(c) ==
  LET u == UpdateSlice(c.p, c.rows, c.q.tag, c.original, c.match, Slots \div 2, Slots - 1)
  IN [p |-> c.p, q |-> c.q, rows |-> u.rows, touched |-> c.touched \cup u.touched,
      base |-> c.base]

(* Training of the packet in T1 sees the newest value of each row: of the  *)
(* packet leaving T3, else the one being written, else the one just        *)
(* written, else what T0 read.                                             *)
Newest(stages, ownsRow(_), value(_), read) ==
  LET owners == {k \in DOMAIN stages : stages[k] # NoTrain /\ ownsRow(stages[k])}
  IN IF owners = {} THEN read ELSE value(stages[Min(owners)])

(* Slip: the packet leaving T3 is not forwarded.                           *)
CaptureSlip ==
  LET q == tT1.q
      inFlight == <<tT3, tWb>>
  IN [p |-> tT1.p, q |-> q,
      base |-> Newest(inFlight, LAMBDA s : s.p.commit # {} /\ s.q.base = q.base,
                      LAMBDA s : s.base, tT1.base),
      rows |-> [t \in TM!TableSet |->
                  Newest(inFlight, LAMBDA s : t \in s.touched /\ s.q.idx[t] = q.idx[t],
                         LAMBDA s : s.rows[t], tT1.rows[t])]]

Capture ==
  LET q == tT1.q
      inFlight == <<IF tT2 = NoTrain THEN NoTrain ELSE SecondHalf(tT2), tT3, tWb>>
  IN [p |-> tT1.p, q |-> q,
      base |-> Newest(inFlight, LAMBDA s : s.p.commit # {} /\ s.q.base = q.base,
                      LAMBDA s : s.base, tT1.base),
      rows |-> [t \in TM!TableSet |->
                  Newest(inFlight, LAMBDA s : t \in s.touched /\ s.q.idx[t] = q.idx[t],
                         LAMBDA s : s.rows[t], tT1.rows[t])]]

(* Slip: a packet also waits for the one in the capture stage.             *)
ConflictSlip(p) ==
  /\ p.commit # {}
  /\ \E st \in {tT1, tCap} \ {NoTrain} :
       LET q == TM!Query(p.region, p.folds)
       IN st.p.commit # {} /\ (q.base = st.q.base \/ \E t \in TM!TableSet : q.idx[t] = st.q.idx[t])

Conflict(p) ==
  /\ tT1 # NoTrain /\ tT1.p.commit # {} /\ p.commit # {}
  /\ LET q == TM!Query(p.region, p.folds)
     IN q.base = tT1.q.base \/ \E t \in TM!TableSet : q.idx[t] = tT1.q.idx[t]

TageTrainReady(p) == p = NoTrain \/ ~Conflict(p)

InvertedRow(row) ==
  [valid |-> row.valid, tag |-> 2^TagBits - 1 - row.tag,
   ctr |-> [s \in TM!SlotSet |-> 2^CtrBits - 1 - row.ctr[s]],
   useful |-> [s \in TM!SlotSet |-> 2^UsefulBits - 1 - row.useful[s]]]

TrainRead(p) ==
  LET q == TM!Query(p.region, p.folds)
  IN [p |-> p, q |-> q,
      base |-> [s \in TM!SlotSet |-> IF WritesBase(q.base)
                                     THEN 2^CtrBits - 1 - tgBase[q.base][s]
                                     ELSE tgBase[q.base][s]],
      rows |-> [t \in TM!TableSet |-> LET row == tgRows[t][q.idx[t]]
                                      IN IF WritesRow(t, q.idx[t]) THEN InvertedRow(row)
                                                                   ELSE row]]

(* The query's read port bypasses the write of the same edge.              *)
QueryRead(q) ==
  [q |-> q,
   base |-> IF WritesBase(q.base) THEN tT3.base ELSE tgBase[q.base],
   rows |-> [t \in TM!TableSet |-> IF WritesRow(t, q.idx[t]) THEN tT3.rows[t]
                                                             ELSE tgRows[t][q.idx[t]]]]

TageTick(r, folds, p) ==
  /\ tT1' = IF p = NoTrain \/ ~TageTrainReady(p) THEN NoTrain ELSE TrainRead(p)
  /\ tCap' = IF tT1 = NoTrain THEN NoTrain ELSE Capture
  /\ tT2' = IF tCap = NoTrain THEN NoTrain ELSE FirstHalf(tCap)
  /\ tT3' = IF tT2 = NoTrain THEN NoTrain ELSE SecondHalf(tT2)
  /\ tWb' = tT3
  /\ tgBase' = WrittenBase /\ tgRows' = WrittenRows
  /\ tS2' = IF tS1 = NoQuery THEN NoQuery ELSE QueryRead(tS1)
  /\ tS1' = IF r = NoQuery THEN NoQuery ELSE TM!Query(r[1], folds)

(* The response: the longest hit provides, the next longest or the base    *)
(* row is the alternative, decoded in parallel.                            *)
TageResponse(snap) ==
  LET hits == {t \in TM!TableSet : snap.rows[t].valid /\ snap.rows[t].tag = snap.q.tag[t]}
      prov == Max(hits)
      rest == hits \ {prov}
  IN [s \in TM!SlotSet |->
        LET ctr == IF hits = {} THEN snap.base[s] ELSE snap.rows[prov].ctr[s]
            alt == TM!Taken(IF hits = {} \/ rest = {} THEN snap.base[s]
                            ELSE snap.rows[Max(rest)].ctr[s])
            useAlt == /\ hits # {} /\ snap.rows[prov].useful[s] = 0
                      /\ ctr \in {TM!WeakNt, TM!WeakTaken}
        IN [provider |-> IF hits = {} THEN TM!BaseCode ELSE prov,
            alt |-> alt, pred |-> TM!Taken(ctr),
            final |-> IF useAlt THEN alt ELSE TM!Taken(ctr)]]
=============================================================================
