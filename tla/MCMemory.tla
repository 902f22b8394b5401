------------------------------ MODULE MCMemory ------------------------------
(***************************************************************************)
(* The scenarios of Memory for TLC.  Even lines share set 0, which has two *)
(* ways, so a third of them evicts; line 1 is alone in set 1.  Lines 0 and *)
(* 1 are DRAM, 2 and 4 on the low exit, 4 read-only there, 6 nowhere.      *)
(***************************************************************************)
EXTENDS Memory

Nothing == [a \in Agents |-> <<>>]
NoProxy == [d |-> <<>>, i |-> <<>>, dma |-> <<>>]
NoClients == [i |-> <<>>, dma |-> <<>>]

Scenario(name, routed, proxy, snoops, clients, programs) ==
    [bench |-> name, routed |-> routed, proxy |-> proxy, snoops |-> snoops,
     clients |-> clients, programs |-> programs]
AtHome(routed, d, i, dma) ==
    Scenario("home", routed, [d |-> d, i |-> i, dma |-> dma], <<>>, NoClients, Nothing)
AtCache(programs, snoops) ==
    Scenario("cache", FALSE, NoProxy, snoops, NoClients, programs)
InSystem(routed, programs, i, dma) ==
    Scenario("system", routed, NoProxy, <<>>, [i |-> i, dma |-> dma], programs)

(* The proxy's operations, DMA's and the core's.                           *)
Get(line, write) == [k |-> "Get", line |-> line, write |-> write]
Sto(line, word, val) == [k |-> "Store", line |-> line, word |-> word, val |-> val]
Put(line, id) == [k |-> "Put", line |-> line, id |-> id]

DmaRead(line) == [op |-> "Read", line |-> line, mask |-> {}, data |-> NoData]
DmaWrite(line, word) ==
    [op |-> "MaskWrite", line |-> line, mask |-> {word}, data |-> [w \in Word |-> 88]]

Op(src, agent, line, word, val) ==
    [src |-> src, line |-> line, word |-> word, val |-> val, expect |-> Initial(line)[word],
     head |-> TRUE, agent |-> agent]
Load(agent, line) == Op("Load", agent, line, 0, 0)
Young(request) == [request EXCEPT !.head = FALSE]
Store(line, word) == Op("Store", "st", line, word, 55)
Amo(line) == Op("Amo", "c1", line, 0, 5)
Snoop(op, line, dma) == [op |-> op, addr |-> line, dmaWrite |-> dma]

Core(c0, c1, st) == [Nothing EXCEPT !["c0"] = c0, !["c1"] = c1, !["st"] = st]

(* The home: a dirty Put and a fill of the same set; DMA against an owner; *)
(* reads by three clients in every order of their answers, one of them of  *)
(* no memory; a write-back that the router or the RAM refuses.             *)
HomeScenarios ==
    {AtHome(TRUE, <<Get(0, TRUE), Sto(0, 0, 77), Get(2, FALSE), Put(0, 0), Get(0, FALSE)>>,
            <<4>>, <<>>),
     AtHome(TRUE, <<Get(0, TRUE), Sto(0, 0, 77), Put(0, 1), Get(0, TRUE)>>, <<>>,
            <<DmaWrite(0, 1), DmaRead(0)>>),
     AtHome(FALSE, <<Get(2, FALSE)>>, <<1, 0>>, <<DmaRead(6)>>),
     AtHome(TRUE, <<Get(2, FALSE)>>, <<1>>, <<DmaRead(6)>>),
     AtHome(TRUE, <<Get(0, FALSE), Get(2, TRUE)>>, <<>>, <<DmaWrite(4, 0)>>)}

(* The cache: an atomic and a store against snoops; an eviction against a  *)
(* snoop of the victim, clean and with a store in the set.                 *)
CacheScenarios ==
    {AtCache(Core(<<Load("c0", 0)>>, <<Amo(0)>>, <<Store(0, 1)>>),
             <<Snoop("Down", 0, FALSE), Snoop("Inv", 0, TRUE)>>),
     AtCache(Core(<<Load("c0", 0), Load("c0", 2)>>, <<Young(Load("c1", 4))>>, <<>>),
             <<Snoop("Inv", 0, FALSE)>>),
     AtCache(Core(<<Load("c0", 0), Load("c0", 2)>>, <<>>, <<Store(4, 0)>>),
             <<Snoop("Inv", 0, FALSE)>>)}

(* Loads that fill the set around a store to its first line.               *)
Evicting == Core(<<Load("c0", 0), Load("c0", 2), Load("c0", 4)>>, <<Load("c1", 0)>>,
                 <<Store(0, 0)>>)

(* Both: load, store, fetch and DMA write of one line; an atomic against   *)
(* both clients; page walk, A/D update and store; bank conflict and walk   *)
(* of no memory; eviction against a DMA read; a store's early fetch.       *)
SystemScenarios ==
    {InSystem(FALSE, Core(<<Load("c0", 0)>>, <<>>, <<Store(0, 0)>>), <<0>>,
              <<DmaWrite(0, 1)>>),
     InSystem(TRUE, Evicting, <<>>, <<>>),
     InSystem(TRUE, Core(<<>>, <<Amo(0)>>, <<>>), <<0>>, <<DmaWrite(0, 1)>>),
     InSystem(FALSE, [Core(<<>>, <<>>, <<Store(0, 1)>>) EXCEPT
                        !["ptw"] = <<Op("Ptw", "ptw", 0, 0, 0)>>,
                        !["ad"] = <<Op("Ad", "ad", 0, 0, 66)>>],
              <<>>, <<DmaWrite(0, 0)>>),
     InSystem(TRUE, [Core(<<Load("c0", 1)>>, <<Young(Load("c1", 0))>>, <<>>) EXCEPT
                       !["ptw"] = <<Op("Ptw", "ptw", 6, 0, 0)>>],
              <<>>, <<>>),
     InSystem(FALSE, Core(<<Load("c0", 0), Load("c0", 2), Load("c0", 4)>>, <<>>, <<>>),
              <<>>, <<DmaRead(0)>>),
     InSystem(FALSE, Core(<<Young(Load("c0", 6))>>, <<Op("Sta", "c1", 0, 1, 0)>>,
                          <<Store(0, 1)>>),
              <<>>, <<>>)}

AllScenarios == HomeScenarios \cup CacheScenarios \cup SystemScenarios
EvictScenario == {InSystem(FALSE, Evicting, <<>>, <<>>)}
=============================================================================
