------------------------------ MODULE MemTypes ------------------------------
(***************************************************************************)
(* The vocabulary of the memory system's links: cache lines, the words a   *)
(* line is transferred in (one AXI beat, one cache bank each), and the     *)
(* messages of the coherence channels (coh_req_t, coh_rsp_up_t,            *)
(* coh_rsp_down_t, coh_snp_t of o3_types_pkg.sv; the codes at the head of  *)
(* mem_agents.py).  A line's content is a function from words to numbers.  *)
(***************************************************************************)
EXTENDS Integers, Sequences, FiniteSets, FiniteSetsExt, SequencesExt

CONSTANTS
    Lines,     \* line addresses, small naturals
    Words,     \* number of words (= beats) in a line
    Sets,      \* sets of the L1D and of the L2; a line's set is line % Sets
    None       \* an absent message, buffer content or stage

ASSUME MemTypesAssumption ==
    /\ Lines \subseteq Nat
    /\ Words \in Nat \ {0}
    /\ Sets \in Nat \ {0}
    /\ None \notin Nat

Word == 0 .. Words - 1
Way == {0, 1}
SetIdx == 0 .. Sets - 1
SetOf(line) == line % Sets

Clients == {0, 1, 2}            \* L1D, L1I, DMA
NoData == [w \in Word |-> 0]

(* The value a line has before anything is written (Bench.initial).        *)
Initial(line) == [w \in Word |-> 10 * line + w]

(* The bytes of `mask` replaced, the others kept.                          *)
Merge(old, mask, new) == [w \in Word |-> IF w \in mask THEN new[w] ELSE old[w]]

(* The first member of S at or after `from`, cyclically among n numbers:   *)
(* every round-robin loop of the memory system is this choice.             *)
RoundRobin(S, from, n) ==
    CHOOSE x \in S : \A y \in S : (x - from + n) % n <= (y - from + n) % n

Request(op, line, id, mask, data) ==
    [op |-> op, addr |-> line, id |-> id, mask |-> mask, data |-> data]
Response(op, id, err, data) ==
    [op |-> op, id |-> id, err |-> err, data |-> data]
UpMessage(op, dirty, line, id, data) ==
    [op |-> op, dirty |-> dirty, addr |-> line, id |-> id, data |-> data]

(* Tree pseudo-LRU of a two-way set: the bit is the way to replace next.   *)
Touch(way) == 1 - way
=============================================================================
