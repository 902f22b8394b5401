------------------------------- MODULE Rename -------------------------------
(***************************************************************************)
(* Register renaming and its recovery: the R1/R2 rename stage buffer, the  *)
(* prefix rename planner, one domain (INT or FP) of the rename map table   *)
(* and of the free list, the branch checkpoint file and the ring of the    *)
(* reorder buffer, wired as in backend.sv.                                 *)
(*                                                                         *)
(* A step is one clock edge.  The recovery priorities of the RTL's if/else *)
(* chains are actions: Cycle (no recovery: retirement, a correct branch    *)
(* resolution, allocation and the R1 load all happen on the same edge),    *)
(* Mispredict and Flush.  Complete is the writeback network marking an     *)
(* entry; retirement reads the registered bit, so giving it a step of its  *)
(* own reaches the same registered states.                                 *)
(*                                                                         *)
(* Lanes: R2 compacts the valid buffer slots into lanes in slot order, so  *)
(* "an older lane" is "an occupied slot with a smaller number".  The       *)
(* payload of an invalid slot or ROB entry is never read before it is      *)
(* overwritten; both are NoEntry.                                          *)
(***************************************************************************)
EXTENDS Integers, Sequences, FiniteSets

CONSTANTS
  Width,        \* rename lanes (rename.width)
  RetireWidth,  \* retirement ports (core.commit_width)
  NumArch,      \* architectural registers of the domain
  NumPhys,      \* physical registers of the domain
  NumRob,       \* rob.entries
  NumTags,      \* rename.checkpoints
  HasZeroReg,   \* TRUE for the INT domain (x0 -> p0), FALSE for FP
  Groups,       \* the micro-op groups the entry gate may pass to R1
  NoTag, NoDep, NoEntry

Arch == 0 .. NumArch - 1
Preg == 0 .. NumPhys - 1
Idx  == 0 .. NumRob - 1
Tag  == 0 .. NumTags - 1
Slot == 0 .. Width - 1

(* What rename looks at in a decoded micro-op.  br: needs_checkpoint.      *)
Uop == [wen : BOOLEAN, rd : Arch, rs : Arch, br : BOOLEAN,
        fuse : {"none", "head", "member"}]

(* mul_fusion_detect pairs a head with the next lane of the same group and *)
(* never gives either half a checkpoint.                                   *)
WellPaired(g) == \A k \in 1 .. Len(g) :
  /\ g[k].fuse # "none" => ~g[k].br
  /\ g[k].fuse = "head" => k < Len(g) /\ g[k + 1].fuse = "member"
  /\ g[k].fuse = "member" => k > 1 /\ g[k - 1].fuse = "head"

ASSUME SizeAssumption ==
  /\ Width \in Nat \ {0} /\ RetireWidth \in Nat \ {0}
  /\ NumArch \in Nat \ {0} /\ NumPhys \in Nat /\ NumPhys > NumArch
  /\ NumRob \in Nat \ {0} /\ Width <= NumRob /\ RetireWidth <= NumRob
  /\ NumTags \in Nat \ {0}
  /\ HasZeroReg \in BOOLEAN

ASSUME GroupAssumption ==
  \A g \in Groups : /\ g \in Seq(Uop)
                    /\ Len(g) \in 1 .. Width
                    /\ WellPaired(g)

VARIABLES
  specMap, commMap, cpMap,      \* rename_map_table: speculative, committed, snapshots
  free, commFree, allocMask,    \* free_list: bitmap, committed bitmap, per-tag rows
  cpValid, parent, cpTail,      \* branch_checkpoint_file
  head, tail, robFree, entry,   \* rob
  slot                          \* rename_stage_buffer

mapVars  == <<specMap, commMap, cpMap>>
freeVars == <<free, commFree, allocMask>>
cpVars   == <<cpValid, parent, cpTail>>
robVars  == <<head, tail, robFree, entry>>
vars     == <<mapVars, freeVars, cpVars, robVars, slot>>

Dep == Slot \cup {NoDep}

(* A buffer slot: the micro-op and the slots R1 found its source and its   *)
(* previous destination to come from.                                      *)
SlotEntry == [uop : Uop, src : Dep, prev : Dep]

(* A reorder buffer entry.  tag is the checkpoint the micro-op owns (it    *)
(* travels with it through the branch pipeline), resolved its one-shot     *)
(* resolution.                                                             *)
RobEntry == [wen : BOOLEAN, rd : Arch, new : Preg, old : Preg,
             rs : Arch, src : Preg, mask : SUBSET Tag,
             complete : BOOLEAN, tag : Tag \cup {NoTag}, resolved : BOOLEAN]

ASSUME SentinelAssumption ==
  /\ NoTag \notin Tag
  /\ NoDep \notin Slot
  /\ NoEntry \notin SlotEntry
  /\ NoEntry \notin RobEntry

-----------------------------------------------------------------------------
(***************************************************************************)
(* Operators of the data path.                                             *)
(***************************************************************************)

(* The ring increment of the ROB; offset <= NumRob.                        *)
Wrap(base, offset) ==
  IF base + offset >= NumRob THEN base + offset - NumRob ELSE base + offset

(* Distance from the head: 0 for the oldest entry.                         *)
AgeFrom(h, i) == IF i >= h THEN i - h ELSE i + NumRob - h
Age(i) == AgeFrom(head, i)

(* The member of S that has exactly r smaller members: candidate_q[r].     *)
HasNth(S, r) == \E x \in S : Cardinality({y \in S : y < x}) = r
Nth(S, r)    == CHOOSE x \in S : Cardinality({y \in S : y < x}) = r

Latest(S) == CHOOSE s \in S : \A x \in S : x <= s

(* A destination that consumes a physical register: x0 does not.           *)
Demand(u) == u.wen /\ (HasZeroReg => u.rd # 0)

(* Registers the allocator hands out; count and candidates skip p0.        *)
Avail == IF HasZeroReg THEN free \ {0} ELSE free

Valid == {i \in Idx : entry[i] # NoEntry}

-----------------------------------------------------------------------------
(***************************************************************************)
(* Rename R1: dependencies inside the group being loaded.                  *)
(***************************************************************************)
Writers(g, s, a) == {x \in Slot : x < s /\ Demand(g[x + 1]) /\ g[x + 1].rd = a}

NearestWriter(g, s, a) ==
  IF Writers(g, s, a) = {} THEN NoDep ELSE Latest(Writers(g, s, a))

R1Slot(g, s) ==
  [uop  |-> g[s + 1],
   src  |-> NearestWriter(g, s, g[s + 1].rs),
   prev |-> IF g[s + 1].wen THEN NearestWriter(g, s, g[s + 1].rd) ELSE NoDep]

Loaded(g) == [s \in Slot |-> IF s < Len(g) THEN R1Slot(g, s) ELSE NoEntry]

-----------------------------------------------------------------------------
(***************************************************************************)
(* Rename R2: the accepted prefix and the identities its lanes receive.    *)
(***************************************************************************)
Occupied == {s \in Slot : slot[s] # NoEntry}

Lane(s) == Cardinality({x \in Occupied : x < s})

PregNeed(s) == Cardinality({x \in Occupied : x <= s /\ Demand(slot[x].uop)})

BranchesBefore(s) == Cardinality({x \in Occupied : x < s /\ slot[x].uop.br})

CheckpointGrant(s) == HasNth(Tag \ cpValid, BranchesBefore(s))

(* limit: how many lanes the queues outside this module (dispatch queue,   *)
(* load and store queue, the other register domain) leave room for.        *)
PairRoom(s, limit) ==
  \E m \in Occupied :
    /\ Lane(m) = Lane(s) + 1
    /\ slot[m].uop.fuse = "member"
    /\ robFree >= Lane(s) + 2
    /\ limit >= Lane(s) + 2
    /\ Cardinality(Avail) >= PregNeed(s) + (IF Demand(slot[m].uop) THEN 1 ELSE 0)

(* Slip: the head of a fused pair does not wait for its member's resources.*)
LaneOkAlone(s, limit) ==
  /\ Cardinality(Avail) >= PregNeed(s)
  /\ robFree >= Lane(s) + 1
  /\ limit >= Lane(s) + 1
  /\ slot[s].uop.br => CheckpointGrant(s)

LaneOk(s, limit) ==
  /\ Cardinality(Avail) >= PregNeed(s)
  /\ robFree >= Lane(s) + 1
  /\ limit >= Lane(s) + 1
  /\ slot[s].uop.br => CheckpointGrant(s)
  /\ slot[s].uop.fuse = "head" => PairRoom(s, limit)

Accepted(limit) == {s \in Occupied : \A x \in Occupied : x <= s => LaneOk(x, limit)}

(* free_list: the r-th demanding lane takes the r-th free register; a lane *)
(* without a candidate would read register 0.                              *)
PregRank(acc, s) == Cardinality({x \in acc : x < s /\ Demand(slot[x].uop)})

NewPreg(acc, s) ==
  IF Demand(slot[s].uop) /\ HasNth(Avail, PregRank(acc, s))
    THEN Nth(Avail, PregRank(acc, s)) ELSE 0

Taken(acc) == {NewPreg(acc, s) : s \in {x \in acc : Demand(slot[x].uop)}}

NewTag(s) == IF slot[s].uop.br THEN Nth(Tag \ cpValid, BranchesBefore(s)) ELSE NoTag

RobIdx(s) == Wrap(tail, Lane(s))

(* Slip: R2 reads the map even when the producer is in the same group.     *)
SourceNoBypass(acc, dep, a) == specMap[a]

(* r2_dependency: a producer still in the buffer bypasses its new          *)
(* register, one that left has updated the map.                            *)
Source(acc, dep, a) ==
  IF dep # NoDep /\ dep \in Occupied THEN NewPreg(acc, dep) ELSE specMap[a]

(* Slip: the previous name ignores an older lane with the same destination.*)
OldPregFromMap(acc, s) == IF Demand(slot[s].uop) THEN specMap[slot[s].uop.rd] ELSE 0

OldPreg(acc, s) ==
  IF Demand(slot[s].uop) THEN Source(acc, slot[s].prev, slot[s].uop.rd) ELSE 0

(* Slip: active_mask_o still contains the tag resolved on this edge.       *)
LaneMaskStale(acc, s, t) ==
  cpValid \cup {NewTag(x) : x \in {y \in acc : y < s /\ slot[y].uop.br}}

(* active_mask_o drops the tag resolved on this edge; tag candidates do    *)
(* not, so a tag is never released and created on one edge.                *)
LaneMask(acc, s, t) ==
  (cpValid \ {t}) \cup {NewTag(x) : x \in {y \in acc : y < s /\ slot[y].uop.br}}

(* The map after the accepted lanes up to and including slot s.            *)
MapWriters(acc, s, a) ==
  {x \in acc : x <= s /\ Demand(slot[x].uop) /\ slot[x].uop.rd = a}

MapAfter(acc, s) ==
  [a \in Arch |-> IF MapWriters(acc, s, a) = {} THEN specMap[a]
                  ELSE NewPreg(acc, Latest(MapWriters(acc, s, a)))]

NewEntry(acc, s, t) ==
  [wen |-> slot[s].uop.wen, rd |-> slot[s].uop.rd,
   new |-> NewPreg(acc, s), old |-> OldPreg(acc, s),
   rs |-> slot[s].uop.rs, src |-> Source(acc, slot[s].src, slot[s].uop.rs),
   mask |-> LaneMask(acc, s, t),
   complete |-> FALSE, tag |-> NewTag(s), resolved |-> FALSE]

-----------------------------------------------------------------------------
(***************************************************************************)
(* Retirement: the oldest n entries leave in order.                        *)
(***************************************************************************)
CanRetire(n) == \A k \in 0 .. n - 1 :
  entry[Wrap(head, k)] # NoEntry /\ entry[Wrap(head, k)].complete

RetireIdx(n) == {Wrap(head, k) : k \in 0 .. n - 1}

(* Ports that write the committed state, x0 destinations included.         *)
CommitPorts(n) == {k \in 0 .. n - 1 : entry[Wrap(head, k)].wen}

CommitPortsOf(n, a) == {k \in CommitPorts(n) :
  Demand(entry[Wrap(head, k)]) /\ entry[Wrap(head, k)].rd = a}

(* Slip: of two ports that retire the same register the older one wins.    *)
CommittedMapFirst(n) ==
  [a \in Arch |-> IF CommitPortsOf(n, a) = {} THEN commMap[a]
     ELSE entry[Wrap(head, CHOOSE k \in CommitPortsOf(n, a) :
                             \A j \in CommitPortsOf(n, a) : k <= j)].new]

CommittedMap(n) ==
  [a \in Arch |-> IF CommitPortsOf(n, a) = {} THEN commMap[a]
                  ELSE entry[Wrap(head, Latest(CommitPortsOf(n, a)))].new]

(* Slip: the committed bitmap sets every old name, then clears every new   *)
(* one, whatever the port order.                                           *)
CommittedFreeUnordered(n) ==
  {p \in Preg : /\ HasZeroReg => p # 0
                /\ p \in commFree \/ \E k \in CommitPorts(n) : entry[Wrap(head, k)].old = p
                /\ \A k \in CommitPorts(n) : entry[Wrap(head, k)].new # p}

(* Ports update the committed bitmap in order: each sets its old register  *)
(* and then clears its new one.                                            *)
CommittedFree(n) ==
  {p \in Preg :
     /\ HasZeroReg => p # 0
     /\ \/ /\ p \in commFree
           /\ \A k \in CommitPorts(n) : entry[Wrap(head, k)].new # p
        \/ \E k \in CommitPorts(n) :
             /\ entry[Wrap(head, k)].old = p
             /\ \A j \in CommitPorts(n) : j >= k => entry[Wrap(head, j)].new # p}

Released(n) ==
  {p \in Preg : /\ HasZeroReg => p # 0
                /\ \E k \in CommitPorts(n) : entry[Wrap(head, k)].old = p}

-----------------------------------------------------------------------------
(***************************************************************************)
(* The free list rows and the checkpoint file.                             *)
(***************************************************************************)
Creators(acc, t) == {s \in acc : slot[s].uop.br /\ NewTag(s) = t}

(* Slip: what a branch's own group takes behind it is not in its row.      *)
AllocRowLate(acc, t, c) ==
  LET allocated == {NewPreg(acc, s) : s \in {x \in acc :
                      Demand(slot[x].uop) /\ c \in LaneMask(acc, x, t)}}
  IN  IF c = t \/ Creators(acc, c) # {} THEN {} ELSE allocMask[c] \cup allocated

AllocRow(acc, t, c) ==
  LET allocated == {NewPreg(acc, s) : s \in {x \in acc :
                      Demand(slot[x].uop) /\ c \in LaneMask(acc, x, t)}}
  IN  IF c = t THEN {}
      ELSE IF Creators(acc, c) # {} THEN allocated
      ELSE allocMask[c] \cup allocated

ResolveEntry(e, t) ==
  [e EXCEPT !.mask = @ \ {t},
            !.resolved = @ \/ e.tag = t,
            !.complete = @ \/ (e.tag = t /\ ~Demand(e))]

-----------------------------------------------------------------------------
Init ==
  /\ specMap = [a \in Arch |-> a]
  /\ commMap = [a \in Arch |-> a]
  /\ cpMap = [t \in Tag |-> [a \in Arch |-> 0]]
  /\ free = NumArch .. NumPhys - 1
  /\ commFree = NumArch .. NumPhys - 1
  /\ allocMask = [t \in Tag |-> {}]
  /\ cpValid = {}
  /\ parent = [t \in Tag |-> {}]
  /\ cpTail = [t \in Tag |-> 0]
  /\ head = 0 /\ tail = 0 /\ robFree = NumRob
  /\ entry = [i \in Idx |-> NoEntry]
  /\ slot = [s \in Slot |-> NoEntry]

(* A branch resolves once, from its in-flight micro-op.                    *)
Owns(i, t) == entry[i].tag = t /\ ~entry[i].resolved

Unresolved(t) == \E i \in Valid : Owns(i, t)

(* One edge without recovery: n entries retire, tag t (or none) resolves   *)
(* as predicted, the accepted prefix of the buffer is allocated and the    *)
(* buffer, once all of it is accepted, loads group g (or nothing).  n may  *)
(* be less than the complete prefix: publication, exceptions and           *)
(* serialising heads hold retirement back.                                 *)
Cycle(n, t, limit, g) ==
  LET acc == Accepted(limit) IN
  /\ CanRetire(n)
  /\ t = NoTag \/ Unresolved(t)
  /\ g # <<>> => acc = Occupied
  /\ commMap' = CommittedMap(n)
  /\ commFree' = CommittedFree(n)
  /\ specMap' = MapAfter(acc, Width - 1)
  /\ cpMap' = [c \in Tag |-> IF Creators(acc, c) = {} THEN cpMap[c]
                             ELSE MapAfter(acc, Latest(Creators(acc, c)))]
  /\ free' = (free \ Taken(acc)) \cup Released(n)
  /\ allocMask' = [c \in Tag |-> AllocRow(acc, t, c)]
  /\ cpValid' = (cpValid \ {t}) \cup {c \in Tag : Creators(acc, c) # {}}
  /\ parent' = [c \in Tag |->
       IF Creators(acc, c) # {} THEN LaneMask(acc, Latest(Creators(acc, c)), t)
       ELSE IF c = t THEN parent[c] ELSE parent[c] \ {t}]
  /\ cpTail' = [c \in Tag |-> IF Creators(acc, c) = {} THEN cpTail[c]
                              ELSE Wrap(RobIdx(Latest(Creators(acc, c))), 1)]
  /\ head' = Wrap(head, n)
  /\ tail' = Wrap(tail, Cardinality(acc))
  /\ robFree' = robFree + n - Cardinality(acc)
  /\ entry' = [i \in Idx |->
       IF \E s \in acc : RobIdx(s) = i
         THEN NewEntry(acc, CHOOSE s \in acc : RobIdx(s) = i, t)
       ELSE IF i \in RetireIdx(n) \/ entry[i] = NoEntry THEN NoEntry
       ELSE ResolveEntry(entry[i], t)]
  /\ slot' = IF g # <<>> THEN Loaded(g)
             ELSE [s \in Slot |-> IF s \in acc THEN NoEntry ELSE slot[s]]

(* Branch t was mispredicted: everything younger is killed, the buffer is  *)
(* flushed, nothing retires and nothing is allocated on this edge.         *)
Killed(t) == {i \in Valid : t \in entry[i].mask}

Mispredict(t) ==
  /\ Unresolved(t)
  /\ specMap' = cpMap[t]
  /\ free' = free \cup allocMask[t]
  /\ allocMask' = [allocMask EXCEPT ![t] = {}]
  /\ cpValid' = {c \in cpValid : c # t /\ t \notin parent[c]}
  /\ parent' = [c \in Tag |-> IF c = t \/ t \in parent[c] THEN parent[c]
                              ELSE parent[c] \ {t}]
  /\ tail' = cpTail[t]
  /\ robFree' = NumRob - Cardinality(Valid \ Killed(t))
  /\ entry' = [i \in Idx |-> IF entry[i] = NoEntry \/ i \in Killed(t) THEN NoEntry
                             ELSE ResolveEntry(entry[i], t)]
  /\ slot' = [s \in Slot |-> NoEntry]
  /\ UNCHANGED <<commMap, cpMap, commFree, cpTail, head>>

(* The registered cancel of a trap, refetch or replay, one edge after its  *)
(* commit decision: the speculative state restarts from the committed one. *)
Flush ==
  /\ specMap' = commMap
  /\ free' = commFree
  /\ allocMask' = [t \in Tag |-> {}]
  /\ cpValid' = {}
  /\ parent' = [t \in Tag |-> {}]
  /\ cpTail' = [t \in Tag |-> 0]
  /\ head' = 0 /\ tail' = 0 /\ robFree' = NumRob
  /\ entry' = [i \in Idx |-> NoEntry]
  /\ slot' = [s \in Slot |-> NoEntry]
  /\ UNCHANGED <<commMap, cpMap, commFree>>

(* A writeback completes entry i; a branch has been resolved by then.      *)
Complete(i) ==
  /\ entry[i] # NoEntry
  /\ ~entry[i].complete
  /\ entry[i].tag # NoTag => entry[i].resolved
  /\ entry' = [entry EXCEPT ![i].complete = TRUE]
  /\ UNCHANGED <<mapVars, freeVars, cpVars, head, tail, robFree, slot>>

Next ==
  \/ \E n \in 0 .. RetireWidth, t \in Tag \cup {NoTag}, limit \in 0 .. Cardinality(Occupied),
        g \in Groups \cup {<<>>} : Cycle(n, t, limit, g)
  \/ \E t \in Tag : Mispredict(t)
  \/ Flush
  \/ \E i \in Idx : Complete(i)

Spec == Init /\ [][Next]_vars
-----------------------------------------------------------------------------
(***************************************************************************)
(* Correctness.                                                            *)
(***************************************************************************)

(* Every register of the four structures holds a value its width allows.   *)
TypeOK ==
  /\ specMap \in [Arch -> Preg] /\ commMap \in [Arch -> Preg]
  /\ cpMap \in [Tag -> [Arch -> Preg]]
  /\ free \in SUBSET Preg /\ commFree \in SUBSET Preg
  /\ allocMask \in [Tag -> SUBSET Preg]
  /\ cpValid \in SUBSET Tag
  /\ parent \in [Tag -> SUBSET Tag]
  /\ cpTail \in [Tag -> Idx]
  /\ head \in Idx /\ tail \in Idx /\ robFree \in 0 .. NumRob
  /\ entry \in [Idx -> RobEntry \cup {NoEntry}]
  /\ slot \in [Slot -> SlotEntry \cup {NoEntry}]

(* In-flight writers, and the names they own.                              *)
LiveWriters == {i \in Valid : Demand(entry[i])}
LiveNew     == {entry[i].new : i \in LiveWriters}
LiveOld     == {entry[i].old : i \in LiveWriters}
MapRange(m) == {m[a] : a \in Arch}

(* The map the in-flight writers selected by W make of the committed map,  *)
(* in program order.                                                       *)
Replay(W) ==
  [a \in Arch |->
     LET ws == {i \in W : entry[i].rd = a}
     IN  IF ws = {} THEN commMap[a]
         ELSE entry[CHOOSE i \in ws : \A j \in ws : Age(j) <= Age(i)].new]

(* A physical register is in exactly one place: in the free list, in the   *)
(* speculative map, or held as the previous name of an in-flight           *)
(* destination.  Nothing is leaked and nothing is owned twice, through any *)
(* order of retirement, branch kills and flushes.                          *)
RegisterPartition ==
  /\ \A a, b \in Arch : specMap[a] = specMap[b] => a = b
  /\ \A i, j \in LiveWriters : entry[i].old = entry[j].old => i = j
  /\ free \cap MapRange(specMap) = {}
  /\ free \cap LiveOld = {}
  /\ MapRange(specMap) \cap LiveOld = {}
  /\ free \cup MapRange(specMap) \cup LiveOld = Preg

(* The committed bitmap is exactly the complement of the committed map, so *)
(* a flush on any edge restarts with nothing leaked.                       *)
CommittedPartition ==
  /\ \A a, b \in Arch : commMap[a] = commMap[b] => a = b
  /\ commFree = Preg \ MapRange(commMap)

(* The ROB is a contiguous window [head, tail) and free_count is its       *)
(* complement, after partial kills too; the restore tail of a live         *)
(* checkpoint is the slot behind its branch.                               *)
RobWindow ==
  /\ robFree = NumRob - Cardinality(Valid)
  /\ Valid = {i \in Idx : Age(i) < NumRob - robFree}
  /\ tail = Wrap(head, NumRob - robFree)
  /\ \A t \in cpValid : \E i \in Valid : Owns(i, t) /\ cpTail[t] = Wrap(i, 1)

(* A tag is live exactly while one branch in the ROB owns it, although     *)
(* tags are reused while resolved owners are still in flight; no branch    *)
(* completes unresolved; a branch mask names exactly the older branches    *)
(* that are still unresolved, and so does a checkpoint's parent mask.  So  *)
(* a kill by mask is a kill of everything younger and of nothing else.     *)
MaskIsOlderBranches ==
  /\ cpValid = {t \in Tag : Unresolved(t)}
  /\ \A t \in cpValid, i, j \in Valid : Owns(i, t) /\ Owns(j, t) => i = j
  /\ \A i \in Valid : entry[i].complete /\ entry[i].tag # NoTag => entry[i].resolved
  /\ \A i \in Valid : entry[i].mask =
       {t \in cpValid : \E j \in Valid : Owns(j, t) /\ Age(j) < Age(i)}
  /\ \A t \in cpValid, i \in Valid : Owns(i, t) => parent[t] = entry[i].mask

(* The recovery data of every live checkpoint restore the machine as it    *)
(* was behind the branch: its map is the replay of the entries it would    *)
(* keep, and its row holds the names of the entries it would kill and      *)
(* otherwise only names that are free already.                             *)
CheckpointRestorable == \A t \in cpValid :
  LET young == {i \in LiveWriters : t \in entry[i].mask} IN
  /\ cpMap[t] = Replay(LiveWriters \ young)
  /\ {entry[i].new : i \in young} \subseteq allocMask[t]
  /\ allocMask[t] \subseteq {entry[i].new : i \in young} \cup free

(* Dataflow: the source register a ROB entry was renamed to is the name    *)
(* given to the nearest older in-flight writer of that register, or the    *)
(* committed name; it is never back in the free list.                      *)
SourceIsNearestWriter == \A i \in Valid :
  /\ entry[i].src = Replay({j \in LiveWriters : Age(j) < Age(i)})[entry[i].rs]
  /\ entry[i].src \notin free

(* The halves of a fused multiply pair enter the ROB on one edge: no step  *)
(* takes the head out of the buffer and leaves its member behind.          *)
FusedPairAtomic ==
  [][\A s, m \in Slot :
       (/\ slot[s] # NoEntry /\ slot[s].uop.fuse = "head"
        /\ m = s + 1 /\ slot'[s] = NoEntry)
       => slot'[m] = NoEntry]_vars

(***************************************************************************)
(* The abstract view: the ROB read from head to tail.                      *)
(***************************************************************************)
Window ==
  [k \in 1 .. NumRob - robFree |->
     LET e == entry[Wrap(head, k - 1)]
     IN  [wen |-> Demand(e), rd |-> e.rd, new |-> e.new, rs |-> e.rs, src |-> e.src,
          open |-> e.tag # NoTag /\ ~e.resolved]]

PW == INSTANCE ProgramWindow WITH
        Regs <- Arch, Names <- Preg, comm <- commMap, spec <- specMap, win <- Window

(* Free list, checkpoints, masks and ring together implement in-order      *)
(* renaming over a program-order window.                                   *)
ImplementsProgramWindow == PW!PWSpec
=============================================================================
