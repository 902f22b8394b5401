# CISLC-O3: models, checks and proofs

CISLC-O3 is an out-of-order RV64GC core in SystemVerilog (`src/rtl`, about
23 000 lines) with a LiteX SoC wrapper, cocotb tests and design documents in
Chinese. This directory holds TLA+ modules of the parts where instructions from
different moments of the program meet, TLC configurations for small instances,
and TLAPS proofs for all instances.

All modules are cycle-level: one step is one clock edge of one clock domain. The
hardware's concurrency is therefore not interleaving of threads but many
`always_ff` blocks acting on the same edge with a priority chain between them,
results that travel for some cycles while the state they refer to changes, and
an environment (memory, bus, interrupts, prediction) that answers at any time.

## 1. Inventory

| Component | State it keeps | Operations | Talks to | What is hard | What makes it correct |
|---|---|---|---|---|---|
| Rename (`rename_stage_buffer`, `rename_dep_r1`, `rename_stage`, `rename_map_table`, `free_list`, `branch_checkpoint_file`) | speculative, committed and per-checkpoint maps; free and committed bitmaps; per-tag allocation rows; checkpoint tags with parent masks | load a group, accept a prefix, allocate, create/resolve/kill a checkpoint, commit, flush | ROB, dispatch queue, branch unit | several lanes and several retirements per edge, tag reuse, kill and allocate in one cycle | no register lost or owned twice; recovery gives the program-order map |
| ROB (`rob`) | ring, head, tail, free count, per-entry complete/exception/mask bits | allocate, complete, resolve, partial kill, retire, flush | everything | wrap-around with partial kills, full = empty | contiguous window, retirement in order, masks = older unresolved branches |
| Commit and system (`commit_ctrl`, `trap_ctrl`, `recovery_boundary`, `wfi_ctrl`, `sfence_boundary`, `csr_file`) | committed next pc, one-shot bits of the serial head, trap transport, CSR state | retire, trap, interrupt, xRET, CSR access, FENCE, FENCE.I, SFENCE.VMA, WFI, replay | ROB head, front end, LSU, CSR | a decision takes effect one or two cycles later while everything else runs | the machine is sequential; EPC is exact; every serial instruction ends |
| Serial gate (`rename_entry_gate`) | blocked bit | pass a prefix, block, unblock | decode queue, rename, commit | unblock when the blocker dies on a wrong path | nothing younger enters behind a serial instruction |
| Front-end synchronisation (`frontend_sync_ctrl`) | FSM, kind | refetch, invalidate ICache/ITLB | commit, IFU | invalidate only after the store drain | FENCE.I sees older stores |
| Head execution unit, MMIO (`mem_head_unit`, `mmio_axil_master`) | FSM, irreversible bit, bus FSM | AMO, LR/SC, MMIO at the ROB head | ROB, DCache, AXI-Lite | a flush may hit any state; an access must happen once | performed once, for the head; never replayed by an interrupt |
| LSU (`load_queue`, `store_queue`, `load_store_unit`) | LQ/SQ rings, wait reasons, generations, pipeline stages, result FIFO | allocate, execute, forward, wait, wake, replay, commit, drain | DCache, DTLB, ROB, HEU | a wait is registered some cycles after its reason was seen; replays of the same load | load reads the youngest older store; every load ends; no late result |
| Issue, wakeup, register read (`backend_issue_queue`, `preg_ready_table`, `operand_read_pipeline`, `prf_read_arbiter`) | entries with source-ready bits, ready table, read pipeline | enqueue, wake, pick, kill, arbitrate | rename, FUs, writeback | a wakeup on the enqueue edge, kill while in flight | an instruction issues once, with ready operands; no lost wakeup |
| Execution and writeback (`int_execute_unit`, `branch_*`, `mul_*`, `div_*`, FPU, `fu_completion_fifo`, `writeback_arbiter`) | pipeline registers, FIFOs | execute, kill, arbitrate | ROB, PRF | late results of killed instructions | a result completes its own entry |
| Prediction and training (`bpu`, `ubtb`, `main_btb`, `tage`, `bpu_slow_check`, `ras`, `branch_history`, `history_snapshot_store`) | tables with write pipelines, RAS ring, event history with folds, query and training registers | predict fast, check slowly, append, push/pop, snapshot, restore, train | FTQ, redirect arbiter | training packets overlap in the pipeline and meet queries; recovery rebuilds only part of the RAS | the tables are those of one-piece training; recovery restores the history and the vouched-for top |
| FTQ and redirects (`ftq`, `redirect_arbiter`) | ring of regions with predictions, cursors, generations, recovery register | allocate, take slow results, cut, correct, commit, hand over, release | BPU, IFU, backend | redirect sources of four ages, index ages that wrap, an entry in hand | the entries are one path; a result meets its own entry |
| Fetch (`fetch_return_queue`, `ifu_f0`, `ifu_decode_queue`, `ifu_f1`, `fetch_buffer`) | reserved slots, order, output snapshot, pending half word, beats | reserve, answer, kill, align, predecode, correct | FTQ, ICache, decode | answers of cancelled fetches, instructions split over two regions, kills inside a beat | what is delivered is one path |
| ICache, DCache (`icache`, `dcache`, `dcache_mshr`, `dcache_writeback`, `dcache_probe`) | tags, data, MSHRs, writeback slots | lookup, miss, install, evict, probe, invalidate | L2 home, LSU | probe against install against writeback of one line | single writer; no lost line; every miss ends |
| L2 home, memory engine, DMA (`l2_home`, `l2_slots`, `l2_probe_engine`, `l2_mem_engine`, `axi_master`, `dma_line_adapter`) | transaction slots, directory | acquire, release, probe, fill, evict, DMA | L1s, AXI | ordering of requests to one line | per-line serialisation, coherence with DMA |
| Translation (`itlb`, `dtlb`, `ptw`, `walk_cache`, `pte_ad_updater`) | TLB entries, miss register, walk state | translate, miss, walk, A/D update, invalidate | LSU, IFU, DCache | SFENCE against a walk in progress | no stale translation after SFENCE |
| PMA, PMP, HPM, fatal error shell | tables, counters | check, count | - | little | table lookup |
| Platform (`FlowClint`, `FlowPlic`, `sd_dma_bridge`, `o3_litex_top`), LiteX wrapper, FPGA and perf scripts | device registers | register access, claim/complete | bus, core pins | claim/complete races | one claim per interrupt |

The full list with status and sources is in `PROJECT.json` ("components"), the
hazards at their source lines under "hazards".

## 2. Modules

| Module | Models | Kind |
|---|---|---|
| `Rename` | R1/R2 rename, one register domain of map table and free list, checkpoint file, ROB ring | detailed |
| `ProgramWindow` | what renaming promises: a window of instructions over a committed map | abstract |
| `CommonLemmas` | ranks in finite sets, ring arithmetic, sequences | lemmas |
| `RenameProofs`, `RenameRefines` | theorems about `Rename` | proofs |
| `Commit` | ROB head, commit/trap/recovery, CSR port, serial gate, WFI, front-end synchronisation, SFENCE, HEU and MMIO master | detailed |
| `ArchMachine` | the sequential machine: one instruction after the other, precise traps, effects once | abstract |
| `CommitProofs`, `CommitRefines` | theorems about `Commit` | proofs |
| `LoadStore` | load queue, store queue, LSU pipeline with result FIFO and writeback transport, S0..S2 of the data cache with one MSHR and one writeback slot | detailed |
| `LoadStoreProofs` | theorems about `LoadStore` | proofs |
| `Bits`, `PredictorTypes` | folds and words; sizes and empty registers of the predictors | shared |
| `Tage`, `MainBtb`, `Ubtb`, `Ras`, `History` | `tage.sv`, `main_btb.sv`, `ubtb.sv`, `ras.sv`, `branch_history.sv` | detailed |
| `TageModel`, `BtbModel`, `UbtbModel` | the one-piece reference models of the cocotb tests | abstract |
| `LegacyTage`, `LegacyBtb` | the frozen references from before training was pipelined | abstract |
| `Bpu` | `bpu.sv` with the slow check, redirect arbiter, snapshot store and the training side of the FTQ; composes the five predictors | detailed |
| `BpuProofs` | theorems about `Bpu` and about `Ras` and `Ubtb` inside it | proofs |
| `Fetch` | demand side of the FTQ, return queue, F0, decode queue, F1, arbiter | detailed |
| `FetchProofs` | theorems about `Fetch` | proofs |
| `ReturnModel`, `PredecodeModel` | the reference models of the return queue and of F1 | abstract |
| `MemTypes` | lines, words, coherence messages | shared |
| `Home`, `MemEngine` | `l2_home`, `l2_slots`, `l2_probe_engine`; `l2_mem_engine` | detailed |
| `AxiRam` | the benches' AXI RAM and LiteX's `O3AxiRouter` before it | detailed, environment |
| `DCache` | `dcache`, `dcache_mshr`, `dcache_writeback`, `dcache_probe` | detailed |
| `CpuDriver`, `HomeBench`, `CacheBench`, `SystemBench` | the agents of the three memory benches | environment |
| `Memory` | composes the last seven into three benches, with the checks of their `tick` and `finish` | composition |
| `MCRename`, `MCCommit`, `MCLoadStore`, `MCBpu`, `MCFetch`, `MCMemory` | groups, programs, predictions and scenarios for TLC | instances |

### Rename

State: the registers of the six RTL modules by their names (`specMap` =
`spec_map_q`, `allocMask` = the per-tag rows, `entry`/`head`/`tail`/`robFree` =
the ROB). Actions: `Cycle(n, t, limit, g)` is an edge without recovery: `n`
entries retire, branch `t` (or none) resolves correctly, the longest acceptable
prefix of the buffered group is renamed (`limit` is what queues outside the
module leave room for), and R1 loads group `g` when the buffer drains.
`Mispredict(t)` and `Flush` are the two recovery arms of the RTL priority
chains, `Complete(i)` is a writeback. Width, sizes, the domain's zero register
and the set of groups are constants.

### Commit

A cycle is `\E i \in Inputs : Cycle(i)`; `i` holds what the surroundings do in
that cycle (what is fetched and allocated, what executes, which branch resolves,
whether a store drains, acknowledgements, the interrupt pin). `Cycle` is the
conjunction of one action per `always_ff` block, and combinational decisions
(`RetireCount`, `IrqAccept`, `CsrAdmit`, ...) are operators of the registers and
`i`. A program is a finite control-flow graph of instruction kinds; the store
queue is reduced to its number of committed, undrained stores; the CSR file to
MIE, MPIE and mepc.

### LoadStore

A cycle is again `\E i \in Inputs : Cycle(i)`; `i` says what rename, issue, branch
execution, the refill and acknowledge channels, the writeback ports and the
commit flush do. `pipe` holds the six stages RR, AG, S0, S1, S2, S3 that loads,
stores (address and data capture), drains of committed stores and installs of
refills share; it shifts on every edge and never stalls, so an operation that
cannot finish leaves with a wait reason and is replayed when the reason is gone.
`lq` and `sq` are the rings with their rows' wait reasons, generations and branch
masks; `dc` is the state of the drain at the store queue's head; `fifo` and `w1`
lie between S3 and the ROB. Names of the definitions are those of the RTL where
it names the idea (`Mutation` = `external_mutation`, `PsWrite` = `ps_write`).

Data are abstracted to what the properties tell apart: a store writes its own
pc, so a value names the store it came from; memory is a function from line and
byte to values and is coherent behind the cache (probes belong to `Memory`); all
lines share one set. The instance has one memory pipe, Bare
translation, one checkpoint tag (`m` says a record's mask holds it), and one
MSHR and one writeback slot, the configuration in which waits are most frequent.
As in `rob.sv` a recovery counts the entries without the tag and keeps that many
of the oldest. Where the RTL's chain of conditions gives one answer before
another, the model has `IF` after `IF`: the arms of a `CASE` have no order.

### Prediction (`Bpu` and the predictors)

A cycle is `\E i \in Inputs : Tick(i)`: `i` is an execution, predecode or system
redirect, a commit of the oldest open region, and an initial hold that lets the
training queue drain first. `Program` gives each region its possible outcomes;
`Warmup` is what the training queue may still hold from before the last flush
(without it no training would reach the tables within the bound). Everything
else is the code's: `FtqStep` is the ring controller, `QueryStep` the query
registers, `TrainStep` queue and hand-over, `RecoverStep` R0/R1.

`Tage`, `MainBtb` and `Ubtb` keep the registers of the RTL's training pipelines:
T0 read, T1 capture, two half updates in T2 and T3, write in T4 for TAGE; and
the same-edge read of a written RAM word is garbage (`InvertedRow`,
`InvertedEntry`), so forwarding is really needed. The refinement mapping to the
`...Model` references substitutes the RTL tables themselves. The frozen
references write a packet on the edge it arrives and their queries read before
it; the mapping therefore shows them the tables *one packet ahead*: the write of
the present edge is already applied (`WrittenRows`, `WrittenTable`), as the RTL's
bypass shows it to the reads of that edge.

Ghost fields: `calls` and `trust` (in `Ras`) are the stack of an unbounded,
fully repaired RAS and the number of its entries the ring vouches for; an FTQ
entry's `event` and `next` are what the path does after it.

### Fetch

Memory is `Code`, from a pc to the instruction that starts there, so a region
entered in the middle of an instruction decodes differently, as in the machine.
Predictions are any of `Preds`, wrong ones included; answers come in any order,
for killed requests too. `want` is the pc the next delivered instruction must
have. The age comparisons go by FTQ index relative to the head as in
`fe_before`. `RetireHalf` tells apart whether an FTQ entry may commit while the
half word of its region still waits in F0 (see Findings). F0 has as many lanes
as a region has half words (`f0_slots = 8` in the product), so its remainder
register does not exist.

### Memory

`Home` and `DCache` are next-state functions in the style of the RTL: what S0
chooses, S2 decides and each slot does is one operator, and `HomeTick`/`DcTick`
put them together. The benches drive them as the repository's do. `home`: an L1D
proxy holds whole copies, an I and a DMA client read and write. `cache`: a stub
answers Gets from the permission it recorded and sends scripted snoops.
`system`: the L1D and the home connected, with five core agents (two lanes,
store, page walk, A/D update), and both clients. `hb.held`, `cb.held`, `sb.held`
are the permissions an observer follows by handshakes alone, `gold` the
architectural memory. A scenario (`MCMemory`) fixes what each agent does, never
when. Data are a value per word, two words a line, two ways, two sets; requests
are permitted, aligned and not cancelled. `CpuDriver`'s `Together` says whether
a lane may enter beside a write to another line of its set (see Findings). One
driver waits more than its original: the DMA client also holds back while a Get
of its line is presented, which only removes reads with two legal values.

## 3. Runs

| Run | Shows | Distinct states |
|---|---|---|
| `rename` | two checkpoints, link jumps, x0, a fused pair: partition of registers, restorable checkpoints, masks, dataflow, and the refinement of `ProgramWindow` | 44 k |
| `commit` | three programs: interrupts against CSR writes, WFI, traps, a snooped load; every kind of synchronisation behind late stores and D-bit updates; MMIO with bus errors. Exact EPC, refinement of `ArchMachine`, liveness of the serial gate | 26 k |
| `ls` | three programs: forwarding and partial overlap around a branch, a full result FIFO, a load and a drain that compete for the MSHR, with a flush at any cycle: load values, rings, results, stores once, the program ends | 104 k |
| `predict` | four allocations, three commits, two redirects: one path, right history, RAS trust, slow results, hand-over, and five reference models | 106 k |
| `fetch` | six allocations, two redirects: delivered path, return queue and predecoder against their models | 272 k |
| `memory` | fifteen scenarios: grants, reads, snoops, loads, the link's protocol, the directory, and that everything comes to rest | 73 k |
| `commit_mmio_irq`, `ls_lost_wake`, `ls_duplicate`, `ls_stale_tag`, `fetch_half`, `mem_evict` | expected violations, see Findings | - |

Bounds. All state spaces are finite and explored completely.

- `rename`: two lanes and two retirement ports are the smallest numbers with
  dependencies inside a group and order between ports; three ROB entries wrap
  with two allocations per edge and are full and empty with `head = tail`; two
  checkpoints nest and are reused while the first owner is in flight; three
  architectural (one is x0) and five physical registers run the free list empty.
  `VIEW LiveView` drops the contents of invalid checkpoints, which are rewritten
  before they are read. The floating-point domain (no zero register) has no run of
  its own; the theorems cover both.
- `commit`: the programs have loops, so every instruction meets every state of
  the boundary; one committed undrained store is enough to be waited for.
- `ls`: one branch per program and paths that fit the ROB, because reuse of a ROB
  index and of a tag is what `ls_duplicate` and `ls_stale_tag` show to fail; queue
  rows and generations are still reused after the mispredict and the flush. There
  are as many ways as lines: with evictions the wake of `ls_lost_wake` is lost,
  so evictions are checked in `memory`. `MaxFlush` = 1: one flush, at any cycle.
- `predict`: `MaxAlloc`, `MaxCommit`, `MaxRedirect`. A three-entry FTQ wraps and is
  cut, four allocations reuse an index with a new generation, two redirects can
  replace each other's recovery, and two training packets share rows. Tables of
  two rows, two ways and two-entry stacks make every collision, replacement,
  overflow and underflow happen.
- `fetch`: `MaxAlloc`, `MaxRedirect`; two return slots are reused under zombies,
  and a split instruction, a false one, a fault and a missed jump are in four
  regions. `CommitDelay` only says that execution takes some cycles.
- `memory`: no counters; the scenarios are finite. Two slots, one write buffer,
  two Put buffers, three MSHRs and two ways run out in several of them.

Fairness (`FairSpec` of `Commit`). The clock ticks, and each answer that the rest
of the core owes eventually comes while it is continuously owed: rename room,
execution, branch resolution, store drain, CSR and SFENCE admission, invalidate
and walk acknowledgements. The subscript leaves the interrupt pin out, so no
condition is met by an edge that only moves the pin, and nothing is assumed of
interrupts, snoops or predictions.

Fairness (`FairSpec` of `LoadStore`). The clock ticks; rename, issue of a ready
operation, branch execution, a refill for the MSHR, the acknowledge of a
writeback and a grant of the writeback port each come while continuously
possible. Replays, drains and retirement are the modelled logic's own decisions
and have no fairness of their own; nothing is assumed of flushes.

Fairness (`FairSpec` of `Memory`). Weak fairness of `Eager`, a cycle in which no
channel stalls, the RAM answers and every agent that can begin does: the benches
stall with a probability below one, and the product's bus is never held back for
ever. `Eager` alone never decides anything inside the L1D or the home.

The order of conjuncts and the form `\E x \in {expr} : ...` in some actions only
make TLC evaluate an expression once.

Mutants. Every property has a definition, marked *Slip*, that changes one mapped
definition the way a plausible bug would; TLC finds the property violated with it.

### Findings

`commit_mmio_irq`: in the cycle in which `mem_head_unit` hands its request to the
idle MMIO master, `irreversible_o` is still 0, so `commit_ctrl` may accept an
interrupt; the access is performed and executed again after the handler, which
the comment at `backend.sv:669` says must not happen. `commit` checks the same
program part with interrupts quiet.

`ls_lost_wake`: a load is told to wait for the writeback slot (`WB_LINE`) in the
cycle in which the slot is freed. The decision is registered before
`load_queue` writes it, so the check for a wake on the write edge
(`load_queue.sv:222`) comes one cycle after the pulse; the load sleeps until some
other eviction, possibly for ever.

`ls_duplicate`: `replay_record` carries the old wait reason and the AG capture
(`load_queue.sv:203`) writes it back into the row, so a second wake replays a load
that is already in flight. Its second result is pushed without a look at the
row's generation and completes whatever owns the ROB index by then.

`ls_stale_tag`: `replay_rr_q` (`load_store_unit.sv:312`) copies a row's mask without
removing the tag that resolves in that cycle; the AG capture writes the freed tag
back. When the tag's next owner, a younger branch, mispredicts, the older load
loses its row while its ROB entry stays.

`fetch_half`: F0's pending half word is aged by the FTQ index of the region that
owns it. That region's beat ends with its last whole instruction, so its FTQ
entry can commit and leave while the next region still misses in the ICache; a
boundary kill for a younger region then takes the departed index for the
youngest, drops the half word, and the next region is decoded from the second
half of an instruction. `fetch` checks the same with entries that stay until
their half word is consumed.

`mem_evict`: in one S2 cycle a load miss picks a clean exclusive way as victim
while the other lane's store hits that way and is accepted. The way is not yet
locked and the snapshot bit marks only S0 and S1, so the store is written to a
line whose Put goes out without data: it is lost. `memory` keeps a lane from
entering beside a write to another line of its set, which is what its benches'
addresses mostly do.

## 4. Proofs

The proofs are about `Rename`, `Commit`, `LoadStore`, `Bpu` and `Fetch`.

### Rename

For all widths, sizes, groups, numbers of
checkpoints and both register domains. The assumptions are the size relations of
the configuration package (`Width` and `RetireWidth` at most `NumRob`, more
physical than architectural registers), that groups are well paired
(`mul_fusion_detect`), and that sentinels are not values.

| Theorem | Module | States |
|---|---|---|
| `RingCorrect` | `RenameProofs` | `Spec => [](TypeOK /\ RobWindow /\ MaskIsOlderBranches)` |
| `PartitionCorrect` | `RenameProofs` | `Spec => []RegisterPartition` |
| `CommittedCorrect` | `RenameProofs` | `Spec => []CommittedPartition` |
| `SourceCorrect` | `RenameProofs` | `Spec => []SourceIsNearestWriter` |
| `CheckpointCorrect` | `RenameProofs` | `Spec => []CheckpointRestorable` |
| `FusedCorrect` | `RenameProofs` | `Spec => FusedPairAtomic` |
| `RefinesProgramWindow` | `RenameRefines` | `Spec => ImplementsProgramWindow` |

**The ring.** The inductive invariant `RingInv` is the conjunction of the three
parts of `RingCorrect`: masks need the
window (an entry allocated now is younger than every valid one only because the
tail lies behind all of them), the window needs the masks (the entries killed by
a tag are exactly those behind the branch, so the tail restored from the
checkpoint is right), and both need that a live tag has one unresolved owner.
There is one lemma per action (`CycleShape`, `CycleMasks`, `CycleType`,
`MispredictStep`, `FlushStep`, `CompleteStep`). `CommonLemmas` gives what the
allocators rest on: the n-th free element exists, is unique and grows with n.

**The names.** `RegisterPartition` is not inductive. That a name retired as
"old" is free afterwards and no one else's needs to know which older writer
carried it, that is, the maps as replays of the window in program order; that a
mispredict frees exactly the killed names needs the rows of the checkpoints; and
that two lanes of one edge chain correctly needs what R1 noted in the buffer,
possibly some edges earlier. `NamesInv`, over `RingInv`, is the conjunction of

- `NamesDistinct`: committed names and names of in-flight writers are pairwise
  different;
- `NamesReplayed`: the speculative map, and every entry's source and old name, is
  the replay of the older writers over the committed map;
- `FreeIsRest`: the two bitmaps are what the maps and the window do not hold;
- `BufferLinked`: R1's slot numbers name the nearest older producer, or its
  slot has drained and the map has it; a fused head's member is behind it;
- `CheckpointRestorable`.

The old names never enter a counting argument: `ChainPartition` shows, for any
committed map and window with distinct names in which each old name is the
replay of what is older, that maps and old names partition what is held.
`ReplaySplit` (retiring a prefix moves it from window to map), `ReplaySame` and
`ReplayKept` say when two windows replay to the same map. `Cycle`, in which
retirement, resolution, allocation and the R1 load meet on one edge, has a lemma
per conjunct (`CycleDistinct`, `CycleFree`, `CycleReplayed`, `CycleCheckpoints`,
`CycleBuffer`) over `CycleOrder` (ages before and after the edge), `CycleWriters`
and `AllocFacts`; the other actions have one each (`MispredictNames`,
`FlushNames`, `CompleteNames`).

**Fused pairs.** `FusedPairAtomic` is an action property. The head's `PairRoom`
asks for the resources of both halves, and `MemberAccepted` shows that this is
all the member's own `LaneOk` asks: by `BufferLinked` the member is the next
occupied slot (`NextLane`) and, by the pairing assumption, not a branch.

**The refinement.** `RefinesProgramWindow` maps every step to a step of
`ProgramWindow` or a stutter. `WindowOf` reads any L entries of a ring as a
sequence; `ReplaySeq` and `HeldSeq` say that replaying the sequence and collecting
its names is the same as doing so over the writers of those entries, so
`NamesInv` carries over. An edge without recovery is one `Advance`: `CycleRetires`
(what leaves is closed and moves into the committed map), `CycleKeeps` (the rest
stays, with the resolved branch closed), `CycleAppends` (each new item reads the
nearest older writer and takes a name nobody held before or holds now). A kill
by mask is a `Cut` right behind its branch, because by `RingInv` the masks name
exactly the younger entries; a flush is `Restart`; a completion is not seen.

With this every property that the run `rename` checks is a theorem.

### Commit

For all widths, ROB and store queue sizes, programs (any finite or infinite
control-flow graph of the instruction kinds), boot pcs and interrupt patterns.
The assumptions are that sizes are positive, that the program's successors and
targets are pcs and only a branch has more than one, and that sentinels are not
values.

The theorems suppose `[]InterruptNotReplaying`, the sentence of `backend.sv:669`
that the finding `commit_mmio_irq` refutes: an interrupt accepted in the cycle in
which the MMIO access is handed over cancels the owner while the access goes on,
and the head unit, which a flush resets only while it is not irreversible, then
works for an entry that is gone. Everything else the boundary relies on follows
from this one condition; it is a hypothesis about a behaviour, not about the
constants, so a later correction of the RTL discharges it. It costs nothing where
the defect cannot occur: `MmioFreePrecise` and `MmioFreeRefines` have no hypothesis
but that the program has no MMIO instruction. The run `commit` checks the same
properties without it, on programs in which MMIO and interrupts do not meet.

| Theorem | States |
|---|---|
| `CommitInvariant` | `Spec /\ []InterruptNotReplaying => []CommitInv` |
| `BoundaryPrecise` | ... `=> []PreciseBoundary` |
| `SyncsDrained` | ... `=> []SyncDrained` |
| `DirtyOwned` | ... `=> []DirtyUpdateOwned` |
| `HeadUnitOwned` | ... `=> []HeuOwnsHead` |
| `StaleLoadsReplayed` | ... `=> StaleLoadReplayed` |
| `RefinesArchMachine` | ... `=> ImplementsArchMachine` |
| `MmioFreePrecise` | without MMIO: `Spec => [](PreciseBoundary /\ InterruptNotReplaying)` |
| `MmioFreeRefines` | without MMIO: `Spec => ImplementsArchMachine` |

`BoundaryPrecise` and `RefinesArchMachine` are the two to remember: what is in
flight is one path from the committed pc, and what takes effect is what the
sequential machine does along it.

`CommitInv` is the conjunction of

- `TypesInv`;
- `RecoveryInv`: request, cancellation, target and packet follow each other, and
  from the cycle after the cancellation on the recovery owns an empty machine
  whose `npc` is the packet's pc;
- `PathInv`: ROB, rename buffer and fetch pc are one path from `npc`, position by
  position (`PreciseBoundary` in the form an edge can be followed in);
- `BlockInv`: an instruction that blocks younger ones is the youngest in flight
  and the gate is shut. So a retiring serial instruction is alone (`SerialLast`),
  and its refetch loses nothing;
- `EntriesInv`: what an entry's flags say of its instruction (only a load is
  marked by a snoop, only a store asks for a D bit, only a branch's target may
  differ from its successor, what decode or the CSR file refuses never completes
  without an exception). So an entry's way on changes only where a branch
  resolves (`UpdateFacts`), whatever completes, faults or is snooped on that edge;
- `PortsInv`, `BookInv`: an open CSR request, a working head unit, and the serial
  bookkeeping of `commit_ctrl` belong to the instruction now at the head, which
  therefore cannot have retired or been flushed.

The parts need each other: the path survives a retirement only because a trap or
refetch finds the bookkeeping of the same head, and the bookkeeping stays the
head's only because nothing but the head moves the boundary. Each part has its
own step lemma (`TypesNext`, `RecoveryNext`, `EntriesNext`, `PathNext`,
`BlockNext`, `PortsNext`, `BookNext`) over what one edge does to the ROB
(`RobFacts`, `MovedFacts`, `CutFacts`) and to rename (`RenameFacts`).
Here `InterruptNotReplaying` is used in one place, `PortsNext`, where a cancellation
must not meet an access on its way. TLC confirmed `CommitInv` on the programs of
both commit runs before it was proved.

**The refinement** (`CommitRefines`). `ImplementsArchMachine` maps the core to
`ArchMachine` by what a trap in transport will have done (`SeenPc`, `SeenIe`,
`SeenMpie`, `SeenEpc`) and by whether the instruction at the boundary has had its
effect (`SeenEff`: CSR written, or MMIO access sent and not yet retired).
`CommitInv` says where the boundary is but not whose effect is past, so the proof
needs `ArchInv`:

- `CsrInv`: `csrDone` is about a CSR-writing head; a serial head is done only after
  its CSR write or its front-end synchronisation; no new CSR request follows;
- `MmioInv`: a completed MMIO access is the head's, and faulted or is held; the
  hold register names the head, whose access is on its way, in the writeback
  transport or complete. So the effect is remembered from the bus handshake
  through the transport to retirement, which neither register does alone;
- an interrupt sampled while MIE was set and pending after a CSR write cleared it
  finds `csrDone`, so the interrupts taken are interrupts that are enabled.

Then each cycle is one step of the machine: `ExceptionStep`, `InterruptStep`,
`WriteStep` and `SendStep` (`Effect`), `ReturnStep`, `RetireStep` (the retired prefix
is a path of ordinary instructions, `RetiredReach`, behind at most one whose effect
is past, `RetiredKinds`), or a stutter: `QuietStep`, with the replay of a snooped
load, and `BusyStep`, where the transport and the packet carry out what the machine
did when the trap was accepted. Two of these never share a cycle (`WriteFacts`,
`SendFacts`, `RetireNext`); for `SendStep` against `InterruptStep` that is
`InterruptNotReplaying` again. With this every safety property that the run
`commit` checks is a theorem; `BlockLifted` is liveness and stays with TLC.
`ArchMachine` states retirement of several instructions by the path itself
(`Reaches`) and not by recursion, so that it can be reasoned about.

### LoadStore

For all sizes of ROB, queues and result FIFO, all programs with loads, stores and
branches, and every pattern of issue, resolution, flush, refill and write-back.
The assumptions are `LoadStoreSizes` (sizes are positive; fewer instructions retire
in a cycle than the ROB holds, so that its head shows how many did) and `FreeRow`
(the sentinel is no row).

The theorems suppose `[]ResultFindsOwner`. The ROB completes by index alone, and
the findings `ls_duplicate` and `ls_stale_tag` show a load's late or misdirected
answer; if one marks a store complete that has not executed, the store retires
and drains while its own operation may still write into the row it left. It is a
hypothesis about a behaviour, not about the constants. It speaks of results in
the writeback transport only, and the run `ls` checks that it holds, together with
what follows from it, where the programs do not reuse ROB indices. It says of an
index both that it has no new owner (`NoLateResult`, which `ls_duplicate` refutes)
and that it does not get one on the edge of the result's arrival, when the RTL
would complete the new entry. Nothing is supposed of the load rows.

| Theorem | States |
|---|---|
| `StoresFollowRobTheorem` | `Spec /\ []ResultFindsOwner => []StoresFollowRob` |
| `StoresOnceTheorem` | ... `=> StoresOnce` |
| `LsTypeTheorem` | ... `=> []LsTypeOK` |

`StoresFollowRob` says where rows are, but whether they stay there depends on what
is in the pipe, on the masks, and on the tail a branch saved some cycles ago.
`StoreInv` counts places from the head of the store ring: there is a c such that
places 0 .. c - 1 are committed stores, the next ones the stores of the ROB in
program order, and the rest is free.

- `CountForm`, `CommittedForm`, `HeldForm`, `FreeForm` are these three ranges, with
  the fields that tie a row to its entry: ROB index, pc, mask, and that a row that
  waits or is ready for its replay is that of a store issued and not complete;
- `MaskForm`: at most one branch is open, and what is behind it carries its tag;
- `SavedForm`: the tail in the checkpoint is the place of the first store behind
  the open branch. So a recovery cuts at one place, although the ROB counts, the
  rows test their own masks and the tail comes from the checkpoint (`KeptForm`,
  `PlaceNext`, `CountStep`);
- `PipeForm`, `OwnersForm`: a store in one of the six stages is a store of the ROB
  that has been issued, is not complete and waits for this operation alone; if the
  entry has the tag, the operation has it (the converse fails where `sq_replay_i` is
  captured, see `ls_stale_tag`). So what a stage writes into a row goes to
  its own row, the completion in the last stage is of its own entry (`CompletesOwn`),
  and a recovery that kills the entry kills the operation (`OwnerStays`, `OwnersStep`);
- `DrainForm`: a drain in the pipe is that of the head row, and there is one at most;
- `LoadsForm`: loads have the pcs of loads, so that a result with the index of a
  store is not that store's.

Each part has its step lemma (`RobStep`, `MaskStep`, `CountStep`, `CommittedStep`,
`HeldStep`, `FreeStep`, `SavedStep`, `PipeStep`, `OwnersStep`, `DrainStep`,
`RowsStep`, `LoadOpsStep`, `ResultsStep`) over `RobNext`, `RowsNext` and `RingNext`.
TLC confirmed `StoreInv` on the run `ls` before it was proved. `CommonLemmas` gives
what rings need: the n-th place behind a moving head, and that a ring's rows are
as many as the places that hold one.

`StoresOnce` is an action property and uses `StoreInv` on both sides of the edge.
What memory shows is, byte by byte, the youngest store in the committed part of
the ring, or the cache behind it. `DrainsMove` maps that part after the edge to
the part before it followed by the stores that retire: in order, and onto all
but the one that drains, if one does. Hence both have the same youngest store
(`LastMoves`), and a byte whose only store drains finds it in the cache
(`VisibleNext`).

For `LsTypeOK` the one conjunct that is more than bookkeeping is that the result
FIFO does not overflow although nothing stops the pipe: `Reserved` says that the
results in the FIFO and the operations in the pipe fit together, since an
operation enters only with a reservation, and what leaves S3 takes its own.

`LoadsFollowRob` has no theorem, because it is false in general (`ls_stale_tag`);
`LoadValueInOrder`, `ResultFindsOwner` and the liveness property `ProgramEnds` stay
with TLC on the programs where the findings do not bite.

### Bpu

For all depths of the FTQ, the training queue and the RAS, all numbers of uBTB
entries, programs and redirect patterns. The assumptions are that the sizes are
positive (`BpuSizes`, `RasSize`, `PredictorSizes`) and that what a flush may leave
in the training queue fits it (`WarmupAssumption`). Of the environment the proofs
use what `Inputs` says: an execution, predecode or recovery request, and a commit,
name a region that is published and still in the queue.

| Theorem | Module | States |
|---|---|---|
| `SlowMeetsRegionTheorem` | `BpuProofs` | `Spec => []SlowMeetsRegion` |
| `PathFollowedTheorem` | `BpuProofs` | `Spec => []PathFollowed` |
| `HandoverKeptTheorem` | `BpuProofs` | `Spec => []HandoverKept` |
| `TrainDelayedOnceTheorem` | `BpuProofs` | `Spec => TrainDelayedOnce` |
| `RasTopTrustedTheorem` | `BpuProofs` | `Spec => []RasTopTrusted` |
| `UbtbImplementsModelTheorem` | `BpuProofs` | `Spec => UbtbImplementsModel` |

**Places.** None of the first three is inductive: a slow result finds its entry by
the ring index alone, so that it finds the right one after any sequence of cuts,
hand-overs and reuses of the index is a fact about where entries stand, not about
the index. `BpuInv` is the conjunction of

- `QueueForm`: entry k carries the index and the generation of the k-th place
  behind the head, so an id says where its entry is (`LiveOne`);
- `StagesInOrder`: `p1`, `p2` and `slowQ` hold the youngest entries, in order and
  without a gap. So a redirect, whose entry is never younger than `slowQ`'s
  (`AcceptPlace`), empties every stage behind the place it cuts at (`AcceptCuts`),
  and a stage that survives is still at its place (`StagesAdvance`, `StagesCut`);
- `ServedClosed`: what lies before the stages has its slow result, and only that is
  closed, so a commit never overtakes the pipeline (`DoneServed`);
- `RowsInStep`: the SRAM queries of TAGE and BTB are those of the stages' regions;
- `HandoverRoom`: a hand-over in flight has a free place in the training queue and a
  closed entry at the head;
- `RecoverKept`: the snapshot a recovery has read is that of the entry it recovers;
- `PathLinked`, `PathEnd`: each entry leads to the next, and the last one to the
  predictor's pc and history, or, while a recovery is under way, the snapshot with
  the branch to be replayed is the last entry's. `PathFollowed` says nothing of the
  second case, which is why it cannot be followed through a recovery alone.

Each part has its step lemma (`QueueFormStep` ... `PathLinkedStep`) over `FtqNext`,
which says what one edge does to the queue: cut behind `Keep`, release `Freed`, add
at most one, and give a surviving entry its slow result, correction or outcome.
What the tables of TAGE and BTB hold, and the folds of the history, is opaque here.

**The stack.** `RasTopTrusted` needs to know what a repair gives back. `StackTrusted`
says that the top `trust` entries of the ring are those of the unbounded stack;
`CheckpointsVouch` that every checkpoint, in the queue or saved for a recovery,
holds the top it was taken of. A repair restores index, count and top entry, the
rest of the ring may have been overwritten, so `trust` falls to one
(`RepairTrusted`); `ActTrusted` is push, pop and their combination at every fill.
That the recovery uses the checkpoint of the redirected entry is `RecoverKept`.

**The uBTB.** The RTL chooses a row in T0 and writes it in T1, so the choice for a
packet is made while its predecessor is being written. `ChoiceStands` says that the
choice, with the forwarding of that write, is the one the table dictates when it
is carried out, and that the old contents with the write-back register applied
(`WrittenThrough`) are the table's. By it `UbtbStep` maps
every edge to the model's `Tick` with the packet in T1, or with none. TLC confirmed `UbtbInv` and
`BpuInv` on the run `predict` before they were proved.

`ResponsesExact`, `TageImplementsModel`, `BtbImplementsModel` and their frozen
references stay with TLC: their tables are indexed by folded and cut out bits of
pcs and histories, and with tables of unknown size the bookkeeping of typing
2^n-entry rows through three predictors is out of proportion to what it would show.

### Fetch

For all depths of the FTQ and the return queue, all programs, faults and
predictions. The assumptions are that sizes are positive (`FetchSizes`), that a
prediction's exit is a slot of a region (`PredictionSlots`) and that "no data" is
not an answer (`NoDataAssumption`).

| Theorem | Module | States |
|---|---|---|
| `SnapshotFreshTheorem` | `FetchProofs` | `Spec => []SnapshotFresh` |
| `QueueImplementsModelTheorem` | `FetchProofs` | `Spec => QueueImplementsModel` |

`SnapshotFresh` alone says too little to survive a redirect: what a redirect kills
is decided at each slot, beat and request for itself, from its ring index and the
head. `FetchInv` says where in the queue all of these stand. There is a place d
such that

- `QueueForm`: entry k carries the id of the k-th place behind the head, so
  `fe_before` is the order of the places (`RingOrder`) and an id names one entry
  (`LiveOne`);
- `OrderForm(d)`, `Owned`: the live slots are those of the order, and the n-th of
  them is for entry d + n; exactly the first d + Len(order) entries are requested;
- `OutForm(d)`: the snapshot on offer is the first of these, with the data of its
  slot and the present prediction of its entry;
- `BeatsForm(d)`, `DoneForm(d)`: beats waiting for F1 are for entries up to d,
  each later than the one before, and what is delivered lies before every beat;
- `GotForm`, `PdForm`: what execution and F1 may ask to redirect is a live entry.

A redirect cuts the queue at `Keep(a)` and everything else at the same place
(`CutAt`, `CutForm`, `SurvivorForm`); a retirement moves all places down by one and
takes only what is delivered, so no beat and no slot loses its entry (`RetireForm`).
`PlaceNext` is the place after the cycle. Then the parts follow one by one:
`QueueFormStep`, `SlotsStep`, `OrderStep`, `OutStep`, `BeatsStep`, `AsksStep`. For
`OutStep` the point is that an entry whose slow result or correction arrives is
refreshed out of the snapshot in that very cycle (`SlowUpdates`, `HeadNext`). What
F0 and F1 make of the bytes is opaque, except that every instruction and request
carries the id of its beat (`BeatOfForm`, `F1Form`).

The refinement of the order model needs the same invariant: with it every cycle of
the RTL's queue is one `ReturnTick` of the Python model, including the three
assertions of that model. `Image` is what a slot is to the model. The RTL marks a
slot dead by its state and decides at once which slots a kill takes; the model
reserves, answers, kills and dequeues one after the other. The lemmas go through
these stages in the model's order:

- `MeetsSeen`: a reservation finds its slot free, and an answer meets a request
  without data of the same id. That data and "no data" differ is `NoDataAssumption`.
- `KilledSeen`: the age the model takes from the head of the FTQ is the place of
  the entry, so what a kill takes is what lies behind its place (`DeadSeen`). Hence
  the live ones are `1 .. Cut(a, d, r)`: the model's assertion that a kill takes a
  suffix is proved, and what is kept is a prefix (`OrderSeen`).
- `CutSeen`: each slot after the kill and the dequeue is the image of the RTL's
  next slot: a request killed before its answer becomes a zombie, one killed in the
  cycle of its answer or later is free.
- `OutputSeen`: the slot the RTL reads ahead is the model's brief entry, and the
  output register loads, holds and drops it under the same conditions.

### Out of reach

Liveness under fairness, `ENABLED` and induction over
data are outside what the prover supports and stay with TLC; no module uses
`RECURSIVE`. `F1Exact` and `PathDelivered` of `Fetch` are about where instructions
start, which F0 finds by recursion over the half words: they stay with TLC.
Everything in the other modules is model-checked only.

## 5. Plan

Modelled: `Rename`, `Commit`, `LoadStore`, `Bpu`, `Fetch`, `Memory`. What is left,
in this order:

1. Proofs: `DirConsistent` of `Home` (one line per way of a set), and the load ring
   and `ResultFindsOwner` of `LoadStore` once the findings about them are settled.
2. `Issue`: issue queue, ready table, register read, writeback; each instruction
   issues once with ready operands.
3. The rest of `LoadStore`: second memory pipe, DTLB and D-bit waits, the AMO and
   LR/SC paths of the head unit.
4. `Mmu`: TLBs, PTW, walk cache and A/D updater against SFENCE.
5. `Platform`: PLIC, CLINT, DMA bridge; the MMIO bridge.

### Not modelled

- The loop predictor (its direction is not used by `bpu.sv`), the fetch
  prefetcher, the ICache and ITLB (Fetch has their answers in any order), the
  fetch buffer behind F1.
- In `DCache`: cancellation of requests by branch masks, permission faults, LR/SC
  reservations and the prefetcher. In `LoadStore`: see the plan.
- FPU and ALU arithmetic (data paths), PMA/PMP range checks, performance counters,
  the empty fatal-error shell, instruction encodings, scripts and the LiteX build
  code: combinational tables or no behaviour at run time.
- In the BTB references the RTL also stores `cfi_is_rvc` and `is_edge`, which the
  Python models do not have and the mapping drops; the RTL overwrites them even
  when a training packet has no taken CFI.
