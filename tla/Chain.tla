-------------------------------- MODULE Chain --------------------------------
(***************************************************************************)
(* One node's chain in memory against what it keeps on disk                *)
(* (rust/src/blockchain.rs with snapshot.rs and the boot of main.rs): the  *)
(* window of recent blocks and its state anchor, the block file, the state *)
(* snapshot and the thread that writes it, crashes, and the two ways to    *)
(* boot.                                                                   *)
(*                                                                         *)
(* A block is the branch it belongs to, so a chain above genesis is a      *)
(* sequence of branches and the hash of a block is the chain up to it.  A  *)
(* state is the sequence of the blocks executed to reach it, and a state   *)
(* root commits to exactly that.  Which branch wins, and finality, are     *)
(* ChainRules' subject: here any longer branch may be adopted.  Lines and  *)
(* torn writes are BlockStore's: here the file holds blocks.               *)
(*                                                                         *)
(* A reorg the disk refuses has already cut the window in memory.  From    *)
(* then on the node may sign, or put in the file, blocks that follow from  *)
(* no chain: each of them is Stray.                                        *)
(***************************************************************************)
EXTENDS Integers, Sequences

CONSTANTS Branch,     \* what tells blocks of one height apart
          Stray,      \* a block that does not follow from the one below it
          Window,     \* REORG_WINDOW + 100: how many blocks stay in memory
          Interval,   \* SNAPSHOT_INTERVAL_BLOCKS
          MaxHeight,  \* bound: the height of the chain and of the file
          MaxFaults   \* bound: how many crashes, stops and refused reorgs

ASSUME ChainAssumption == /\ Stray \notin Branch
                          /\ Window \in Nat \ {0}
                          /\ Interval \in Nat \ {0}
                          /\ MaxHeight \in Nat
                          /\ MaxFaults \in Nat

MaxAutoDiscard == 1   \* LoadFromDiskOpts::default

VARIABLES mem,      \* the chain memory describes (tail and indexes)
          start,    \* tail_start: blocks below it are only on disk
          state,    \* the state of the node
          base,     \* base_state: the state after block start - 1
          disk,     \* the blocks of blocks.jsonl
          snap,     \* estado.snap, NoSnap when there is none
          job,      \* the snapshot writer thread
          epoch,    \* snapshot_epoch
          ultimo,   \* ultimo_snapshot
          up,       \* whether the process runs
          crashes,  \* history: how many times it died
          refusals, \* history: how many reorgs the disk refused
          refused   \* history: the last of them is not made good yet

vars == <<mem, start, state, base, disk, snap, job, epoch, ultimo, up, crashes,
          refusals, refused>>

faults == <<crashes, refusals, refused>>

Upto(c, h) == SubSeq(c, 1, h)

Higher(a, b) == IF a >= b THEN a ELSE b

(* A snapshot holds its head, the state there and, once the window moved    *)
(* off genesis, the anchor below the window.                                *)
NoSnap == [head |-> <<>>, state |-> <<>>, start |-> 0, base |-> <<>>]

NoJob == [phase |-> "idle", epoch |-> 0, snap |-> NoSnap]

Init == /\ mem = <<>> /\ start = 0 /\ state = <<>> /\ base = <<>>
        /\ disk = <<>> /\ snap = NoSnap
        /\ job = NoJob /\ epoch = 0 /\ ultimo = 0
        /\ up = TRUE /\ crashes = 0 /\ refusals = 0 /\ refused = FALSE

-----------------------------------------------------------------------------
(* slide_tail and evict_oldest: genesis counts as a block of the window     *)
(* while start is 0, and the evicted blocks are executed on the anchor.     *)
SlidStart(c) == Higher(start, Len(c) + 1 - Window)

(* Mutant of SlidBase: the evicted blocks are not executed on the anchor. *)
SlidBaseStale(c) == base

SlidBase(c) == base \o SubSeq(c, Higher(start, 1), SlidStart(c) - 1)

(* montar, from the memory after the commit. *)
Snapshot == [head |-> mem', state |-> state', start |-> start', base |-> base']

(* talvez_snapshot and disparar_snapshot: one writer at a time. *)
TalvezSnapshot ==
  IF Len(mem') - ultimo >= Interval /\ job.phase = "idle"
  THEN /\ job' = [phase |-> "mount", epoch |-> epoch, snap |-> Snapshot]
       /\ ultimo' = Len(mem')
  ELSE UNCHANGED <<job, ultimo>>

(* The commit of add_block: the disk has taken the block already, after     *)
(* whatever its last line is.                                               *)
Commit(b) ==
  /\ up /\ Len(mem) < MaxHeight /\ Len(disk) < MaxHeight
  /\ disk' = Append(disk, IF disk = mem THEN b ELSE Stray)
  /\ mem' = Append(mem, b)
  /\ state' = Append(state, b)
  /\ start' = SlidStart(mem')
  /\ base' = SlidBase(mem')
  /\ TalvezSnapshot
  /\ UNCHANGED <<snap, epoch, up, faults>>

(* add_block of a peer's block: its root is the state of an intact chain.   *)
(* An append the disk refuses rejects the block and changes nothing.        *)
AddBlock(b) == /\ Append(state, b) = Append(mem, b)
               /\ Commit(b)

(* produce_block hands over its own simulation: the root is not checked,    *)
(* and is of the state the node has.                                        *)
ProduceBlock(b) == Commit(IF state = mem THEN b ELSE Stray)

-----------------------------------------------------------------------------
(* get_block: the block is in memory. *)
GetBlock(h) == h >= start /\ h <= Len(mem)

(* The window guard of reorg allows the anchor's own height, and the        *)
(* candidate chain then needs the fork block itself.                        *)
InWindow(common) == common >= start - 1 /\ GetBlock(common)

(* fork_state: the anchor and the blocks of the window up to common. *)
ForkState(common) == base \o SubSeq(mem, Higher(start, 1), common)

(* The guards of reorg on the fork: it is in the window, a block of other   *)
(* nodes too, and the state there is that of the chain.                     *)
CanFork(common) ==
  /\ up
  /\ common <= Len(mem) /\ InWindow(common)
  /\ \A i \in 1..common : mem[i] # Stray
  /\ ForkState(common) = Upto(mem, common)

CanReorg(common, new) ==
  /\ CanFork(common)
  /\ common + Len(new) > Len(mem) /\ common + Len(new) <= MaxHeight

(* Mutant of Rewritten: the old tail is not cut off first. *)
RewrittenUncut(common, new, k) == disk \o Upto(new, k)

(* The file while a reorg is being written: cut at the fork, k blocks in.   *)
(* They follow from the line below when that is the fork's.                 *)
Rewritten(common, new, k) ==
  Upto(disk, common) \o (IF Upto(disk, common) = Upto(mem, common)
                         THEN Upto(new, k)
                         ELSE [i \in 1..k |-> Stray])

(* Mutant of Invalidate: the writer is not told. *)
InvalidateQuietly(common) ==
  IF ultimo > common
  THEN snap' = NoSnap /\ ultimo' = 0 /\ UNCHANGED epoch
  ELSE UNCHANGED <<snap, epoch, ultimo>>

(* invalidar_snapshot, when the last snapshot is above the fork. *)
Invalidate(common) ==
  IF ultimo > common
  THEN snap' = NoSnap /\ ultimo' = 0 /\ epoch' = epoch + 1
  ELSE UNCHANGED <<snap, epoch, ultimo>>

(* reorg, when the disk takes the new tail.  It makes good an earlier       *)
(* refusal when the file still had the chain up to the fork.                *)
Reorg(common, new) ==
  /\ CanReorg(common, new)
  /\ disk' = Rewritten(common, new, Len(new))
  /\ mem' = Upto(mem, common) \o new
  /\ state' = ForkState(common) \o new
  /\ start' = SlidStart(mem')
  /\ base' = SlidBase(mem')
  /\ Invalidate(common)
  /\ refused' = (refused /\ Upto(disk, common) # Upto(mem, common))
  /\ UNCHANGED <<job, up, crashes, refusals>>

(* reorg, when truncate_from or an append fails: the window in memory is    *)
(* cut by then (split_off), the file holds what was written so far, and     *)
(* state, anchor and snapshot are those of the old head.                    *)
ReorgRefused(common, new) ==
  /\ crashes + refusals < MaxFaults /\ CanReorg(common, new)
  /\ mem' = Upto(mem, common)
  /\ disk' \in {disk} \cup {Rewritten(common, new, k) : k \in 0..(Len(new) - 1)}
  /\ refused' = TRUE /\ refusals' = refusals + 1
  /\ UNCHANGED <<start, state, base, snap, job, epoch, ultimo, up, crashes>>

-----------------------------------------------------------------------------
(* The writer thread: it checks the epoch, writes and renames, and checks   *)
(* the epoch again.  The write may fail.                                    *)
WriterChecks ==
  /\ job.phase = "mount"
  /\ job' = IF job.epoch = epoch THEN [job EXCEPT !.phase = "write"] ELSE NoJob
  /\ UNCHANGED <<mem, start, state, base, disk, snap, epoch, ultimo, up, faults>>

WriterWrites ==
  /\ job.phase = "write"
  /\ \/ snap' = job.snap /\ job' = [job EXCEPT !.phase = "recheck"]
     \/ UNCHANGED snap /\ job' = NoJob
  /\ UNCHANGED <<mem, start, state, base, disk, epoch, ultimo, up, faults>>

WriterRechecks ==
  /\ job.phase = "recheck"
  /\ snap' = IF job.epoch = epoch THEN snap ELSE NoSnap
  /\ job' = NoJob
  /\ UNCHANGED <<mem, start, state, base, disk, epoch, ultimo, up, faults>>

-----------------------------------------------------------------------------
(* The process dies: memory and the writer are gone. *)
Die == /\ up /\ crashes + refusals < MaxFaults
       /\ up' = FALSE /\ crashes' = crashes + 1
       /\ job' = NoJob
       /\ mem' = <<>> /\ start' = 0 /\ state' = <<>> /\ base' = <<>>
       /\ epoch' = 0 /\ ultimo' = 0
       /\ refused' = FALSE /\ UNCHANGED refusals

Crash == Die /\ UNCHANGED <<disk, snap>>

(* A crash while the reorg rewrites the file: the snapshot is not           *)
(* invalidated yet.                                                         *)
CrashInReorg(common, new) ==
  /\ Die
  /\ CanReorg(common, new)
  /\ \E k \in 0..Len(new) : disk' = Rewritten(common, new, k)
  /\ UNCHANGED snap

(* A clean stop writes a snapshot of the head (forcar_snapshot).  A chain   *)
(* that is only genesis has no root to prove one with.                      *)
Shutdown ==
  /\ job.phase = "idle" /\ mem # <<>>
  /\ snap' = [head |-> mem, state |-> state, start |-> start, base |-> base]
  /\ Die
  /\ UNCHANGED disk

-----------------------------------------------------------------------------
(* The lowest height load_from_snapshot keeps in memory. *)
WindowStart == Higher(0, Len(disk) + 1 - Window)

(* Mutant of Proven: only the height of the snapshot is compared. *)
ProvenByHeight(s) == s # NoSnap /\ Len(s.head) <= Len(disk)

(* The snapshot is of this chain: its head is the block of that height and  *)
(* its state has that block's root.  (A stray head, whose root is that of   *)
(* the state it was signed on, is left out by FastBootOk.)                  *)
Proven(s) == /\ s # NoSnap
             /\ Len(s.head) <= Len(disk)
             /\ s.head = Upto(disk, Len(s.head))
             /\ s.state = Upto(disk, Len(s.head))

(* Its anchor has the root of the block below the window.  A snapshot taken *)
(* before the window moved has none (baseEstado is null); genesis has no    *)
(* root to prove one with.                                                  *)
AnchorProven(s) == /\ s.start <= Len(s.head)
                   /\ s.start # 1
                   /\ s.start > 1 => s.base = Upto(disk, s.start - 1)
                   /\ s.start = 0 /\ WindowStart > 0 => Len(s.head) < Len(disk)

(* The window of a fast boot: that of the file, or of the snapshot when it  *)
(* is narrower, or what follows the snapshot when it brings no anchor.      *)
FastStart(s) ==
  IF s.start >= WindowStart THEN s.start
  ELSE IF s.start = 0 /\ Len(s.head) >= WindowStart THEN Len(s.head) + 1
  ELSE WindowStart

(* The anchor is executed forward from what was proven. *)
FastBase(s) ==
  IF s.start = 0 /\ FastStart(s) > 0
  THEN s.state \o SubSeq(disk, Len(s.head) + 1, FastStart(s) - 1)
  ELSE s.base \o SubSeq(disk, Higher(s.start, 1), FastStart(s) - 1)

(* The state of the head: the blocks above the snapshot are executed on it. *)
FastState(s) == s.state \o SubSeq(disk, Len(s.head) + 1, Len(disk))

(* The blocks of the file up to height h follow from one another, and the   *)
(* next one, if any, does not.                                              *)
Follows(h) == /\ \A i \in 1..h : disk[i] # Stray
              /\ h < Len(disk) => disk[h + 1] = Stray

FastBootOk == Follows(Len(disk)) /\ Proven(snap) /\ AnchorProven(snap)

(* load_from_snapshot: the proven state, the rest of the chain executed on  *)
(* it, and the indexes read from the file.                                  *)
FastBoot ==
  /\ ~up /\ FastBootOk
  /\ mem' = disk
  /\ state' = FastState(snap)
  /\ start' = FastStart(snap)
  /\ base' = FastBase(snap)
  /\ ultimo' = Len(snap.head)
  /\ up' = TRUE
  /\ UNCHANGED <<disk, snap, job, epoch, faults>>

(* load_from_disk: every block is validated and executed; nothing leaves    *)
(* memory yet.  From the first block that does not follow, the file is cut, *)
(* or the boot aborts when that is more than a block.  A chain past the     *)
(* interval gets a fresh snapshot at once, unless the write fails.          *)
ReplayBoot(h) ==
  /\ ~up /\ ~FastBootOk
  /\ h <= Len(disk) /\ Follows(h) /\ Len(disk) - h <= MaxAutoDiscard
  /\ disk' = Upto(disk, h)
  /\ mem' = disk' /\ state' = disk' /\ start' = 0 /\ base' = <<>>
  /\ IF h >= Interval
     THEN ultimo' = h /\ snap' \in {snap, Snapshot}
     ELSE ultimo' = 0 /\ UNCHANGED snap
  /\ up' = TRUE
  /\ UNCHANGED <<job, epoch, faults>>

-----------------------------------------------------------------------------
Writer == WriterChecks \/ WriterWrites \/ WriterRechecks

Next == \/ \E b \in Branch : AddBlock(b) \/ ProduceBlock(b)
        \/ \E common \in 0..MaxHeight :
             /\ CanFork(common)
             /\ \E n \in (Len(mem) - common + 1)..(MaxHeight - common) :
                  \E new \in [1..n -> Branch] : \/ Reorg(common, new)
                                               \/ ReorgRefused(common, new)
                                               \/ CrashInReorg(common, new)
        \/ Writer \/ Crash \/ Shutdown \/ FastBoot
        \/ \E h \in 0..MaxHeight : ReplayBoot(h)

Spec == Init /\ [][Next]_vars

-----------------------------------------------------------------------------
(* Memory and disk describe the same chain, however the node booted and     *)
(* wherever it crashed before, unless the disk refused a reorg: then they   *)
(* do again once a reorg is adopted that forks where the file still has the *)
(* chain of the window, or once the node restarts.                          *)
MemoryIsDisk == (up /\ ~refused) => mem = disk

(* The state is the execution of the chain memory describes, again but for  *)
(* a refused reorg not made good.  add_block checks every block against it  *)
(* and produce_block signs its root.                                        *)
StateIsChain == (up /\ ~refused) => state = mem

(* The anchor is the state below the window, after evictions, reorgs taken  *)
(* or refused, and either boot.  It is read only by a reorg, so a wrong one *)
(* sleeps until the network reorganises.                                    *)
AnchorIsPrefix == (up /\ start > 0) => base = Upto(mem, start - 1)

(* A finished writer never leaves a snapshot of an abandoned branch behind, *)
(* whatever reorg ran between its two looks at the epoch.                   *)
SnapshotFollowsChain ==
  (up /\ ~refused /\ job.phase = "idle" /\ crashes = 0 /\ snap # NoSnap)
     => snap.head = Upto(mem, Len(snap.head))
=============================================================================
