------------------------------- MODULE FsData -------------------------------
(***************************************************************************)
(* The data of one regular file of the FUSE filesystem: RegInode.cpp,      *)
(* Block.cpp and the handlers of FileSystem.cpp that use them, with the    *)
(* session loop of my_fuse_loop.h.                                         *)
(*                                                                         *)
(* One thread receives the requests into one buffer and turns each into a  *)
(* behaviour on the inode's cown.  That behaviour spawns others on the     *)
(* cowns of the blocks it needs: one for a write, on all its blocks; one   *)
(* per block for a read, each of which spawns one on a counter; the last   *)
(* to count answers the read.  A write is answered by the behaviour on the *)
(* inode, before the one on its blocks has run.                            *)
(*                                                                         *)
(* Behaviours on one cown run one at a time in the order they were         *)
(* spawned, which BehaviourCore shows; so a body that only touches what    *)
(* it has acquired is one step.  The copy of a write's data out of the     *)
(* session's buffer, which no cown protects, is one step per cell.         *)
(*                                                                         *)
(* A cell is a run of bytes that no request splits; BlockCells cells make  *)
(* a block.  Operators named ...Slip are variants that no action uses.     *)
(***************************************************************************)
EXTENDS Integers, Sequences, FiniteSets

CONSTANTS Requests, What, After, Denied, Top, Zero, None,   \* as in SeqFile
          BlockCells,   \* BLOCK_SIZE
          MaxBlocks,    \* bound on the Block objects ever allocated
          Junk          \* a value no write has sent

Cells == 0 .. Top - 1
BlockOf(p) == p \div BlockCells
BlockIds == 0 .. BlockOf(Top - 1)
Blocks == 1 .. MaxBlocks
InBlock == 0 .. BlockCells - 1
NoBlock == 0
Larger(m, n) == IF m > n THEN m ELSE n
Smaller(m, n) == IF m < n THEN m ELSE n
End(r) == What[r].off + What[r].len
Ops == {"write", "read", "setattr", "open", "fallocate"}

ASSUME SizeAssumption ==
  /\ Top \in Nat \ {0} /\ BlockCells \in Nat \ {0} /\ MaxBlocks \in Nat \ {0}
ASSUME RequestAssumption ==
  /\ What \in [Requests -> [op : Ops, off : Cells, len : 0 .. Top]]
  /\ \A r \in Requests : End(r) <= Top /\ (What[r].op = "write" => What[r].len > 0)
  /\ After \in [Requests -> Requests \cup {None}]
  /\ Denied \subseteq Requests
ASSUME NamesAssumption == None \notin Requests /\ Zero # Junk

Values == (Requests \X Cells) \cup {Zero, Junk}

VARIABLES
  stage,       \* stage[r]: new, queued, reading or answered
  inodeQ,      \* the behaviours on the inode's cown, in order
  payload,     \* what fbuf holds where the data of a write start
  copied,      \* the cells the running write has copied out of it
  size,        \* i_st.st_size
  dataBlocks,  \* data_blocks[id], NoBlock when absent
  used,        \* how many Blocks were allocated
  data,        \* data[o]: the cells in block o's buffer
  hasBuf,      \* hasBuf[o]: blk->buf is not null
  blockQ,      \* blockQ[o]: the behaviours on block o's cown, in order
  readBuf,     \* readBuf[r]: buf of the read r
  toCount,     \* toCount[r]: the counts of r's counter behaviours, in order
  count,       \* count[r]: Counter::count
  total        \* total[r]: total

loopVars  == <<payload>>
inodeVars == <<size, dataBlocks, used>>
blockVars == <<data, hasBuf>>
readVars  == <<readBuf, toCount, count, total>>
vars == <<stage, inodeQ, loopVars, copied, inodeVars, blockVars, blockQ,
          readVars>>

Init ==
  /\ stage = [r \in Requests |-> "new"]
  /\ inodeQ = <<>>
  /\ payload = [i \in Cells |-> Junk]
  /\ copied = <<>>
  /\ size = 0
  /\ dataBlocks = [b \in BlockIds |-> NoBlock]
  /\ used = 0
  /\ data = [o \in Blocks |-> [k \in InBlock |-> Zero]]
  /\ hasBuf = [o \in Blocks |-> TRUE]
  /\ blockQ = [o \in Blocks |-> <<>>]
  /\ readBuf = [r \in Requests |-> None]
  /\ toCount = [r \in Requests |-> <<>>]
  /\ count = [r \in Requests |-> 0]
  /\ total = [r \in Requests |-> 0]

----------------------------------------------------------------------------
(* The session loop receives r and its handler spawns the behaviour.  The  *)
(* data of a write follow 80 bytes of headers; the arguments of setattr    *)
(* are longer and end in the first cell, those of the others are not.      *)
Received(r) ==
  CASE What[r].op = "write" ->
         [i \in Cells |-> IF i < What[r].len THEN <<r, i>> ELSE payload[i]]
    [] What[r].op = "setattr" -> [payload EXCEPT ![0] = Junk]
    [] OTHER -> payload

Receive(r) ==
  /\ stage[r] = "new"
  /\ After[r] # None => stage[After[r]] = "answered"
  /\ payload' = Received(r)
  /\ inodeQ' = Append(inodeQ, r)
  /\ stage' = [stage EXCEPT ![r] = "queued"]
  /\ UNCHANGED <<copied, inodeVars, blockVars, blockQ, readVars>>

----------------------------------------------------------------------------
(* The behaviours on the inode.                                            *)

Running(r, op) == inodeQ # <<>> /\ r = Head(inodeQ) /\ What[r].op = op

Finish(r, s) ==
  /\ inodeQ' = Tail(inodeQ)
  /\ stage' = [stage EXCEPT ![r] = s]

(* data_blocks with a new Block for each of the ids it does not have. *)
New(ids) == {b \in ids : dataBlocks[b] = NoBlock}
Allocated(ids) ==
  [b \in BlockIds |->
     IF b \in New(ids)
     THEN used + Cardinality({d \in New(ids) : d <= b})
     ELSE dataBlocks[b]]
Allocate(ids) ==
  /\ dataBlocks' = Allocated(ids)
  /\ used' = used + Cardinality(New(ids))

(* FileSystem::write: the copy, cell by cell. *)
CopyCell(r) ==
  /\ Running(r, "write")
  /\ Len(copied) < What[r].len
  /\ copied' = Append(copied, payload[Len(copied)])
  /\ UNCHANGED <<stage, inodeQ, loopVars, inodeVars, blockVars, blockQ,
                 readVars>>

(* What a write puts into the block b: the part of it that falls there. *)
Part(r, b) == {k \in InBlock : b * BlockCells + k \in What[r].off .. End(r) - 1}
Source(r, b, k) == b * BlockCells + k - What[r].off
Put(r, b) == [k \in Part(r, b) |-> copied[Source(r, b, k) + 1]]
Touched(r) == {b \in BlockIds : Part(r, b) # {}}

(* batch_write: one behaviour on one or two blocks, and none on more. *)
WriteTask(r) ==
  LET ids == Touched(r)
      blocks == {Allocated(ids)[b] : b \in ids}
      put == [o \in blocks |->
                Put(r, CHOOSE b \in ids : Allocated(ids)[b] = o)]
  IN  [kind |-> "write", on |-> blocks, put |-> put]

(* The answer, then RegInode::write. *)
WriteInode(r) ==
  /\ Running(r, "write")
  /\ Len(copied) = What[r].len
  /\ copied' = <<>>
  /\ size' = Larger(size, End(r))
  /\ Allocate(Touched(r))
  /\ blockQ' = IF Cardinality(Touched(r)) > 2 THEN blockQ
               ELSE [o \in Blocks |-> IF o \in WriteTask(r).on
                                      THEN Append(blockQ[o], WriteTask(r))
                                      ELSE blockQ[o]]
  /\ Finish(r, "answered")
  /\ UNCHANGED <<loopVars, blockVars, readVars>>

(* RegInode::read.  The loop takes one piece per block; at a hole it skips *)
(* a whole block.                                                          *)
WantedSlip(r) == What[r].len
Wanted(r) == Larger(0, Smaller(What[r].len, size - What[r].off))

PieceLength(r, at) ==
  Smaller(BlockCells - ((What[r].off + at) % BlockCells), Wanted(r) - at)

Pieces(r) ==
  LET from[at \in 0 .. Wanted(r) + BlockCells] ==
        IF at >= Wanted(r) THEN {}
        ELSE LET o == dataBlocks[BlockOf(What[r].off + at)]
             IN IF o = NoBlock
                THEN from[at + BlockCells]
                ELSE from[at + PieceLength(r, at)] \cup
                     {[kind |-> "read", on |-> {o}, r |-> r, at |-> at,
                       cell |-> (What[r].off + at) % BlockCells,
                       len |-> PieceLength(r, at)]}
  IN from[0]

ReadInode(r) ==
  /\ Running(r, "read")
  /\ readBuf' = [readBuf EXCEPT ![r] = [i \in 0 .. Wanted(r) - 1 |-> Junk]]
  /\ total' = [total EXCEPT ![r] = Wanted(r)]
  /\ IF Wanted(r) = 0
     THEN Finish(r, "answered") /\ UNCHANGED blockQ
     ELSE /\ Finish(r, "reading")
          /\ blockQ' = [o \in Blocks |->
               IF \E t \in Pieces(r) : o \in t.on
               THEN Append(blockQ[o], CHOOSE t \in Pieces(r) : o \in t.on)
               ELSE blockQ[o]]
  /\ UNCHANGED <<loopVars, copied, inodeVars, blockVars, toCount, count>>

(* FileSystem::truncate.  A shrink spawns the behaviours that free the     *)
(* blocks behind the new end; erase(it, end()) comes when `it` has reached *)
(* the end, and removes nothing.                                           *)
Stored == {b \in BlockIds : dataBlocks[b] # NoBlock}
Freed(newsize) ==
  {dataBlocks[b] : b \in {d \in Stored : newsize = 0 \/ d > BlockOf(newsize)}}
FreeTask(o) == [kind |-> "free", on |-> {o}]

SpawnFrees(os) ==
  /\ blockQ' = [o \in Blocks |-> IF o \in os THEN Append(blockQ[o], FreeTask(o))
                                 ELSE blockQ[o]]
  /\ UNCHANGED hasBuf

Cleared == [b \in BlockIds |-> NoBlock]

GrowIds(newsize) == {b \in BlockIds : b * BlockCells < newsize}

Truncate(newsize) ==
  \/ /\ newsize = size
     /\ UNCHANGED <<inodeVars, hasBuf, blockQ>>
  \/ /\ newsize < size
     /\ SpawnFrees(Freed(newsize))
     /\ dataBlocks' = IF newsize = 0 THEN Cleared ELSE dataBlocks
     /\ size' = newsize
     /\ UNCHANGED used
  \/ /\ newsize > size
     /\ Allocate(GrowIds(newsize))
     /\ size' = newsize
     /\ UNCHANGED <<hasBuf, blockQ>>

(* FileSystem::setattr with FUSE_SET_ATTR_SIZE, and open with O_TRUNC. *)
Resize(r, op, newsize) ==
  /\ Running(r, op)
  /\ IF r \in Denied
     THEN UNCHANGED <<inodeVars, hasBuf, blockQ>>
     ELSE Truncate(newsize)
  /\ Finish(r, "answered")
  /\ UNCHANGED <<loopVars, copied, data, readVars>>

Setattr(r) == Resize(r, "setattr", What[r].len)
OpenTrunc(r) == Resize(r, "open", 0)

(* FileSystem::my_fallocate: one block for every step of BLOCK_SIZE from   *)
(* the offset on.                                                          *)
ReservedIds(r) ==
  {BlockOf(p) : p \in {q \in What[r].off .. End(r) - 1 :
                         (q - What[r].off) % BlockCells = 0}}
Fallocate(r) ==
  /\ Running(r, "fallocate")
  /\ Allocate(ReservedIds(r))
  /\ size' = Larger(size, End(r))
  /\ Finish(r, "answered")
  /\ UNCHANGED <<loopVars, copied, blockVars, blockQ, readVars>>

----------------------------------------------------------------------------
(* The behaviours on the blocks.  One runs when it is the first on all its *)
(* cowns; a read or a write through a null buffer ends the program, so     *)
(* nothing follows from it here.                                           *)

Next1st(o) == Head(blockQ[o])
Ready(o, kind) ==
  /\ blockQ[o] # <<>> /\ Next1st(o).kind = kind
  /\ \A p \in Next1st(o).on : Next1st(p) = Next1st(o)
Pop(o) ==
  blockQ' = [p \in Blocks |-> IF p \in Next1st(o).on THEN Tail(blockQ[p])
                              ELSE blockQ[p]]

WriteBlock(o) ==
  /\ Ready(o, "write")
  /\ \A p \in Next1st(o).on : hasBuf[p]
  /\ data' = [p \in Blocks |->
       IF p \in Next1st(o).on
       THEN [k \in InBlock |-> IF k \in DOMAIN Next1st(o).put[p]
                               THEN Next1st(o).put[p][k] ELSE data[p][k]]
       ELSE data[p]]
  /\ Pop(o)
  /\ UNCHANGED <<stage, inodeQ, loopVars, copied, inodeVars, hasBuf, readVars>>

ReadBlock(o) ==
  LET t == Next1st(o) IN
  /\ Ready(o, "read")
  /\ hasBuf[o]
  /\ readBuf' = [readBuf EXCEPT ![t.r] =
       [i \in DOMAIN @ |-> IF i \in t.at .. t.at + t.len - 1
                           THEN data[o][t.cell + i - t.at] ELSE @[i]]]
  /\ toCount' = [toCount EXCEPT ![t.r] = Append(@, t.len)]
  /\ Pop(o)
  /\ UNCHANGED <<stage, inodeQ, loopVars, copied, inodeVars, blockVars,
                 count, total>>

FreeBlock(o) ==
  /\ Ready(o, "free")
  /\ hasBuf' = [hasBuf EXCEPT ![o] = FALSE]
  /\ Pop(o)
  /\ UNCHANGED <<stage, inodeQ, loopVars, copied, inodeVars, data, readVars>>

(* The behaviour on the counter: the one that reaches the total answers. *)
CompleteSlip(r, n) == TRUE
Complete(r, n) == n = total[r]
CountPiece(r) ==
  /\ toCount[r] # <<>>
  /\ toCount' = [toCount EXCEPT ![r] = Tail(@)]
  /\ count' = [count EXCEPT ![r] = @ + Head(toCount[r])]
  /\ stage' = IF Complete(r, count'[r])
              THEN [stage EXCEPT ![r] = "answered"] ELSE stage
  /\ UNCHANGED <<inodeQ, loopVars, copied, inodeVars, blockVars, blockQ,
                 readBuf, total>>

----------------------------------------------------------------------------

OnInode(r) == CopyCell(r) \/ WriteInode(r) \/ ReadInode(r) \/ Setattr(r)
                \/ OpenTrunc(r) \/ Fallocate(r)
OnBlock(o) == WriteBlock(o) \/ ReadBlock(o) \/ FreeBlock(o)

Next ==
  \/ \E r \in Requests : Receive(r) \/ OnInode(r) \/ CountPiece(r)
  \/ \E o \in Blocks : OnBlock(o)

Spec == Init /\ [][Next]_vars

(* Every behaviour that was spawned is run: EveryBehaviourRuns. *)
FairSpec ==
  /\ Spec
  /\ \A r \in Requests : WF_vars(OnInode(r)) /\ WF_vars(CountPiece(r))
  /\ \A o \in Blocks : WF_vars(OnBlock(o))

----------------------------------------------------------------------------

IsTask(t, o) ==
  /\ o \in t.on /\ t.on \subseteq Blocks
  /\ \/ t.kind = "free" /\ t.on = {o}
     \/ /\ t.kind = "read" /\ t.on = {o} /\ t.r \in Requests
        /\ t.at \in 0 .. total[t.r] - t.len /\ t.len \in 1 .. BlockCells - t.cell
        /\ t.cell \in InBlock
     \/ /\ t.kind = "write" /\ DOMAIN t.put = t.on
        /\ DOMAIN t.put[o] \subseteq InBlock
        /\ \A k \in DOMAIN t.put[o] : t.put[o][k] \in Values

(* Types; no piece of a read leaves its block or the reader's buffer, and  *)
(* no read ever counts more than it asked for.                             *)
TypeOK ==
  /\ stage \in [Requests -> {"new", "queued", "reading", "answered"}]
  /\ inodeQ \in Seq(Requests)
  /\ payload \in [Cells -> Values] /\ copied \in Seq(Values)
  /\ size \in 0 .. Top
  /\ used \in 0 .. MaxBlocks /\ dataBlocks \in [BlockIds -> 0 .. used]
  /\ data \in [Blocks -> [InBlock -> Values]] /\ hasBuf \in [Blocks -> BOOLEAN]
  /\ DOMAIN blockQ = Blocks
  /\ \A o \in Blocks : \A i \in DOMAIN blockQ[o] : IsTask(blockQ[o][i], o)
  /\ \A r \in Requests :
       /\ readBuf[r] = None \/ readBuf[r] \in [0 .. total[r] - 1 -> Values]
       /\ toCount[r] \in Seq(1 .. BlockCells)
       /\ total[r] \in 0 .. Top /\ count[r] \in 0 .. total[r]

(* A buffer is gone, or will be when the behaviours spawned so far ran. *)
Doomed(o) ==
  ~hasBuf[o] \/ \E i \in 1 .. Len(blockQ[o]) : blockQ[o][i].kind = "free"

(* A truncate frees buffers behind the reads and writes that were spawned  *)
(* before it: none of them runs into a null buffer.                        *)
NoNullBuffer ==
  \A o \in Blocks :
    /\ blockQ[o] # <<>> /\ Next1st(o).kind \in {"read", "write"} => hasBuf[o]

(* Every byte of the file lies in a block that is and stays there: what    *)
(* RegInode::read relies on to answer, and Block::write to find a buffer.  *)
NoHoles ==
  \A p \in Cells : p < size =>
    /\ dataBlocks[BlockOf(p)] # NoBlock
    /\ ~Doomed(dataBlocks[BlockOf(p)])

----------------------------------------------------------------------------
(* The file the clients see: what the blocks hold once the behaviours      *)
(* spawned so far have run.                                                *)

WritesTo(o, k, n) ==
  {i \in 1 .. n : blockQ[o][i].kind = "write" /\ k \in DOMAIN blockQ[o][i].put[o]}
ValueBehind(o, k, n) ==
  IF WritesTo(o, k, n) = {} THEN data[o][k]
  ELSE LET last == CHOOSE i \in WritesTo(o, k, n) :
                     \A j \in WritesTo(o, k, n) : j <= i
       IN blockQ[o][last].put[o][k]

Settled(p) ==
  LET o == dataBlocks[BlockOf(p)]
  IN IF p >= size \/ o = NoBlock THEN Zero
     ELSE IF Doomed(o) THEN Junk
     ELSE ValueBehind(o, p % BlockCells, Len(blockQ[o]))

(* What the read r will have in its buffer at i when it is answered. *)
Reading(r, i) ==
  {<<o, n>> \in Blocks \X (1 .. Cardinality(Requests)) :
     /\ n <= Len(blockQ[o]) /\ blockQ[o][n].kind = "read"
     /\ blockQ[o][n].r = r
     /\ i \in blockQ[o][n].at .. blockQ[o][n].at + blockQ[o][n].len - 1}
Found(r, i) ==
  IF Reading(r, i) = {} THEN readBuf[r][i]
  ELSE LET w == CHOOSE x \in Reading(r, i) : TRUE
           t == blockQ[w[1]][w[2]]
       IN ValueBehind(w[1], t.cell + i - t.at, w[2] - 1)

SettledBytes == [p \in Cells |-> Settled(p)]
FoundBytes ==
  [r \in Requests |-> IF stage[r] # "reading" THEN readBuf[r]
                      ELSE [i \in 0 .. total[r] - 1 |-> Found(r, i)]]
AbstractStage ==
  [r \in Requests |-> IF stage[r] = "reading" THEN "taken" ELSE stage[r]]

File == INSTANCE SeqFile WITH
          bytes <- SettledBytes, stage <- AbstractStage, result <- FoundBytes

(* However the behaviours on inode, blocks and counters interleave, the    *)
(* clients see one sequential file.                                        *)
ImplementsSeqFile == File!Spec

Answered(r) == stage[r] # "answered" /\ stage'[r] = "answered"

(* truncate: "Allocate space for no existing blocks and init them with     *)
(* zero": what a truncate adds to a file reads as zero.                    *)
GrowGivesZeros ==
  [][\A r \in Requests : What[r].op = "setattr" /\ Answered(r) =>
       \A p \in Cells : size <= p /\ p < size' => Settled(p)' = Zero]_vars

(* fallocate "ensures that required space is allocated": its whole range   *)
(* has blocks when it succeeds.                                            *)
FallocateAllocates ==
  [][\A r \in Requests : What[r].op = "fallocate" /\ Answered(r) =>
       \A p \in What[r].off .. End(r) - 1 :
         dataBlocks'[BlockOf(p)] # NoBlock]_vars

(* "This handle must be passed to one of the specified reply functions":   *)
(* every request is answered.                                              *)
EveryRequestAnswered ==
  \A r \in Requests : stage[r] = "queued" ~> stage[r] = "answered"
=============================================================================
