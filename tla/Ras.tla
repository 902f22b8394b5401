-------------------------------- MODULE Ras --------------------------------
(***************************************************************************)
(* The return address stack (ras.sv, and its ring-stack model              *)
(* sim/cocotb/ras/ras_model.py): a ring that overwrites its oldest entry,  *)
(* a checkpoint of index, count and top, and a recovery that restores only *)
(* those three and then applies the corrected action.                      *)
(*                                                                         *)
(* calls is a ghost: the stack an unbounded, fully repaired RAS would      *)
(* hold.  trust counts the entries of the ring, from the top, that are     *)
(* known to hold what calls holds.                                         *)
(***************************************************************************)
EXTENDS Integers, Sequences

CONSTANT Depth

ASSUME RasSize == Depth \in Nat \ {0}

VARIABLES entries, idx, count, calls, trust

rasVars == <<entries, idx, count, calls, trust>>

RasInit ==
  /\ entries = [n \in 0 .. Depth - 1 |-> 0] /\ idx = Depth - 1 /\ count = 0
  /\ calls = <<>> /\ trust = 0

Checkpoint == [idx |-> idx, count |-> count, addr |-> IF count > 0 THEN entries[idx] ELSE 0]

(* One action on a ring st.                                                *)
Act(st, action, addr) ==
  LET up == (st.idx + 1) % Depth IN
  CASE action = "push" ->
         [entries |-> [st.entries EXCEPT ![up] = addr], idx |-> up,
          count |-> IF st.count = Depth THEN Depth ELSE st.count + 1]
    [] action = "pop" ->
         IF st.count = 0 THEN st
         ELSE [st EXCEPT !.idx = (st.idx - 1) % Depth, !.count = @ - 1]
    [] action = "poppush" ->
         LET at == IF st.count = 0 THEN up ELSE st.idx
         IN [entries |-> [st.entries EXCEPT ![at] = addr], idx |-> at,
             count |-> IF st.count = 0 THEN 1 ELSE st.count]
    [] OTHER -> st

Ring == [entries |-> entries, idx |-> idx, count |-> count]

(* Slip: the saved top is not written back.                                *)
RepairedSlip(c) == [entries |-> entries, idx |-> c.idx, count |-> c.count]

(* The ring after loading a checkpoint: deeper entries stay as they are.   *)
Repaired(c) ==
  [entries |-> IF c.count = 0 THEN entries ELSE [entries EXCEPT ![c.idx] = c.addr],
   idx |-> c.idx, count |-> c.count]

SetRing(st) == entries' = st.entries /\ idx' = st.idx /\ count' = st.count

Pops(action)   == action \in {"pop", "poppush"}
Pushes(action) == action \in {"push", "poppush"}

(* The ghosts of an action on a stack s of which n entries are trusted.    *)
GhostAct(s, n, action, addr) ==
  LET gone == IF Pops(action) /\ s # <<>> THEN Tail(s) ELSE s
      left == IF Pops(action) /\ n > 0 THEN n - 1 ELSE n
  IN IF Pushes(action)
     THEN calls' = <<addr>> \o gone /\ trust' = IF left = Depth THEN Depth ELSE left + 1
     ELSE calls' = gone /\ trust' = left

RasStay == UNCHANGED rasVars

RasOp(action, addr) ==
  SetRing(Act(Ring, action, addr)) /\ GhostAct(calls, trust, action, addr)

(* ckpt carries the ghost stack of its region with it.                     *)
RasRecover(c, saved, savedTrust, fix, addr) ==
  /\ SetRing(Act(Repaired(c), fix, addr))
  /\ GhostAct(saved, IF savedTrust > 0 THEN 1 ELSE 0, fix, addr)
=============================================================================
