---------------------------- MODULE MCLoadStore -----------------------------
(* Small programs for LoadStore.                                           *)
EXTENDS LoadStore

Ld(l, bs) == [op |-> "ld", line |-> l, bytes |-> bs]
St(l, bs) == [op |-> "st", line |-> l, bytes |-> bs]
Br        == [op |-> "br", line |-> 1, bytes |-> {}]

(* A store whose drain misses, a load it covers, a narrower store on the   *)
(* predicted path.                                                         *)
ForwardProg == <<St(1, {0, 1}), Br, Ld(1, {0, 1}), St(1, {0}), Ld(1, {0})>>

(* Three loads wait for one refill and fill the result FIFO.               *)
FifoProg == <<Ld(1, {0}), Ld(1, {0}), Ld(1, {0})>>

(* Two lines and one MSHR: a load miss and a drain miss compete, and the   *)
(* store covers a later load partly.                                       *)
WakeProg == <<Ld(1, {0, 1}), St(2, {0}), Br, Ld(2, {0, 1})>>

(* The three programs, from 1, from 6 and from 9.                          *)
AllProg == ForwardProg \o FifoProg \o WakeProg
AllSucc == <<2, 3, 4, 0, 0, 7, 8, 0, 10, 11, 12, 0>>
AllAlt  == [AllSucc EXCEPT ![2] = 5, ![11] = 0]

(* A miss evicts the warm line 1, the next load wants it back.             *)
EvictProg == <<Ld(2, {0}), Ld(1, {0})>>
EvictSucc == <<2, 0>>

(* Two stores execute while the load they block is replayed; then enough   *)
(* loads for its ROB index to come round.                                  *)
ReuseProg == <<St(1, {0}), St(1, {1}), Ld(1, {1}), Ld(1, {1}), Ld(1, {1}), Ld(1, {1})>>
ReuseSucc == <<2, 3, 4, 5, 6, 0>>

(* Two branches, the younger with the older one's tag.                     *)
TagProg == <<St(1, {0}), Br, Ld(1, {0, 1}), Br, Ld(1, {1})>>
TagSucc == <<2, 3, 4, 0, 0>>
TagAlt  == <<2, 3, 4, 5, 0>>
=============================================================================
