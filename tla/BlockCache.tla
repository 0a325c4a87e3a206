----------------------------- MODULE BlockCache -----------------------------
(***************************************************************************)
(* BlockCache: fs/btrfs/btrfs.c.  A cache of disk blocks (block_get,       *)
(* block_mark_dirty, btrfs_flush_cache), and the files on top of it, which *)
(* keep pointers into its slots while they ask it for further blocks.      *)
(* Block 0 holds the inodes, block 1 the bitmap, but a block is only its   *)
(* bytes: the first four are the size of inode 0, 32 bits of the bitmap or *)
(* the beginning of a text, as a set of bits; behind them each inode has   *)
(* the number of its block.  The other sizes and the names are never read. *)
(***************************************************************************)
EXTENDS Integers, Sequences, FiniteSets, FiniteSetsExt, TLC

CONSTANTS
  CACHE_SLOTS,  \* more than there are blocks in use: block_get finds a slot
  LastInode,    \* the last inode of a block; inode 0 is no file
  LastBlock,    \* bound: the last block that btrfs_allocate_block gives
  Texts,        \* texts of up to four characters, as their bits
  MaxFileCalls  \* bound: calls in a run

ASSUME BlockCacheAssumption ==
  /\ CACHE_SLOTS \in Nat /\ LastBlock \in 1..31 /\ LastBlock + 1 < CACHE_SLOTS
  /\ LastInode \in Nat \ {0} /\ MaxFileCalls \in Nat

VARIABLES
  store,      \* the cache and the disk: [cache, disk]
  nodes,      \* inode numbers of the files in the tree
  kept,       \* history: the text of each file whose inode went to block 0
  cleared,    \* history: a removal cleared the bitmap
  unmarked,   \* history: blocks that were written but not marked as dirty
  fileCalls

cacheVars == <<store, nodes, kept, cleared, unmarked, fileCalls>>

INODE_BLOCK == 0
BITMAP_BLOCK == 1
Inodes == 1..LastInode
NoText == {}
NoData == [word |-> {}, ptr |-> [i \in 0..LastInode |-> 0]]
Empty == [valid |-> FALSE, dirty |-> FALSE, block |-> 0, data |-> NoData]
NoCache == [i \in 1..CACHE_SLOTS |-> Empty]

\* A disk that was formatted: the two blocks are taken
BlocksInit ==
  /\ store = [cache |-> NoCache,
              disk |-> [b \in 0..LastBlock |-> IF b = BITMAP_BLOCK THEN [NoData EXCEPT !.word = {0, 1}] ELSE NoData]]
  /\ nodes = {} /\ kept = <<>> /\ cleared = FALSE /\ unmarked = {} /\ fileCalls = 0

Slots == 1..CACHE_SLOTS
Holding(s, b) == { i \in Slots : s.cache[i].valid /\ s.cache[i].block = b }
Usable(s) == { i \in Slots : ~s.cache[i].valid \/ ~s.cache[i].dirty }

\* block_get: the first slot that is not dirty is taken, even if it is in use and
\* another is empty
Get(s, b) ==
  IF Holding(s, b) # {} THEN s
  ELSE [s EXCEPT !.cache[Min(Usable(s))] = [valid |-> TRUE, dirty |-> FALSE, block |-> b, data |-> s.disk[b]]]
At(s, b) == Min(Holding(s, b))
MarkDirty(s, b) == IF Holding(s, b) = {} THEN s ELSE [s EXCEPT !.cache[At(s, b)].dirty = TRUE]

Flush_ForgetsWrite(s) == [s EXCEPT !.cache = [i \in Slots |-> [s.cache[i] EXCEPT !.dirty = FALSE]]]
Flush(s) ==
  LET dirty == { i \in Slots : s.cache[i].valid /\ s.cache[i].dirty } IN
  [cache |-> [i \in Slots |-> IF i \in dirty THEN [s.cache[i] EXCEPT !.dirty = FALSE] ELSE s.cache[i]],
   disk |-> [b \in DOMAIN s.disk |-> IF \E i \in dirty : s.cache[i].block = b
                                     THEN s.cache[CHOOSE i \in dirty : s.cache[i].block = b].data ELSE s.disk[b]]]

\* get_inode: the inode is in the slot that block 0 has now
PtrOf(s, i) == s.cache[At(s, INODE_BLOCK)].data.ptr[i]

\* btrfs_write_file: the length goes where the inode was, and into nothing that is read
Write(s, i, text) ==
  LET s1 == Get(s, INODE_BLOCK)
      b == PtrOf(s1, i)
      s2 == Get(s1, b)
  IN MarkDirty(MarkDirty([s2 EXCEPT !.cache[At(s2, b)].data.word = text], b), INODE_BLOCK)

\* btrfs_write_file_vfs reads the number of the block again, where the inode was
WriteVfs(s, i, text) ==
  LET s1 == Get(s, INODE_BLOCK)
      p == At(s1, INODE_BLOCK)
      b == PtrOf(s1, i)
      s2 == Get(s1, b)
      s3 == [s2 EXCEPT !.cache[At(s2, b)].data.word = text]
      again == s3.cache[p].data.ptr[i]
  IN [store |-> MarkDirty(MarkDirty(s3, again), INODE_BLOCK), marked |-> again = b]

\* btrfs_allocate_block, with a bit left in the bitmap: the first one
FreeBits(s) == (0..LastBlock) \ s.cache[At(s, BITMAP_BLOCK)].data.word
AllocateBlock(s) ==
  LET s1 == Get(s, BITMAP_BLOCK)
      b == Min(FreeBits(s1))
  IN <<MarkDirty([s1 EXCEPT !.cache[At(s1, BITMAP_BLOCK)].data.word = @ \union {b}], BITMAP_BLOCK), b>>
\* btrfs_free_block
FreeBlock(s, b) ==
  LET s1 == Get(s, BITMAP_BLOCK)
  IN MarkDirty([s1 EXCEPT !.cache[At(s1, BITMAP_BLOCK)].data.word = @ \ {b}], BITMAP_BLOCK)

\* The inode is set up in slot p; the 31 bytes of a name of 28 reach, behind the last
\* inode of a block, the flags of the slot
SetUpInode(s, p, i, block) ==
  LET s1 == [s EXCEPT !.cache[p].data.ptr[i] = block]
  IN IF i = LastInode THEN [s1 EXCEPT !.cache[p].valid = FALSE, !.cache[p].dirty = FALSE] ELSE s1

Without(f, S) == [i \in DOMAIN f \ S |-> f[i]]
FileCall == fileCalls < MaxFileCalls /\ fileCalls' = fileCalls + 1

\* btrfs_create_file: no free inode, or a new file.  That every bit of the bitmap is
\* taken is beyond the bound.
CreateFile(text) ==
  LET s1 == Get(store, INODE_BLOCK)
      p == At(s1, INODE_BLOCK)
      free == { i \in Inodes : PtrOf(s1, i) = 0 }
      f == Min(free)
      block == AllocateBlock(s1)
      s3 == SetUpInode(block[1], p, f, block[2])
      s4 == IF text = NoText THEN MarkDirty(s3, INODE_BLOCK) ELSE Write(s3, f, text)
  IN /\ FileCall
     /\ IF free = {} THEN store' = s1 /\ UNCHANGED <<nodes, kept, cleared, unmarked>>
        ELSE /\ FreeBits(Get(s1, BITMAP_BLOCK)) /= {}
             /\ store' = Flush(MarkDirty(s4, BITMAP_BLOCK)) /\ nodes' = nodes \union {f}
             /\ kept' = IF ~cleared /\ block[2] /= 0 /\ store'.disk[INODE_BLOCK].ptr[f] = block[2]
                        THEN (f :> IF text = NoText THEN store'.disk[block[2]].word ELSE text) @@ kept
                        ELSE Without(kept, {f})
             /\ UNCHANGED <<cleared, unmarked>>

\* btrfs_write_file_vfs; a later flush of the shell (cmd_flush)
WriteFile(i, text) ==
  LET w == WriteVfs(store, i, text)
      b == LET s1 == Get(store, INODE_BLOCK) IN PtrOf(s1, i)
  IN /\ FileCall /\ i \in nodes
     /\ store' = w.store
     /\ kept' = IF w.marked /\ i \in DOMAIN kept THEN [kept EXCEPT ![i] = text] ELSE Without(kept, {i})
     /\ unmarked' = IF w.marked THEN unmarked \ {b} ELSE unmarked \union {b}
     /\ UNCHANGED <<nodes, cleared>>
FlushCache == FileCall /\ store' = Flush(store) /\ UNCHANGED <<nodes, kept, cleared, unmarked>>

ReadFile(i) ==
  /\ FileCall /\ i \in nodes
  /\ LET s1 == Get(store, INODE_BLOCK) IN store' = Get(s1, PtrOf(s1, i))
  /\ UNCHANGED <<nodes, kept, cleared, unmarked>>

\* btrfs_unlink: the inode is that of the directory, 0, whatever the name; its bytes
\* are cleared where it was, which may be in the bitmap
Unlink ==
  /\ FileCall
  /\ LET s1 == Get(store, INODE_BLOCK)
         p == At(s1, INODE_BLOCK)
         s2 == FreeBlock(s1, PtrOf(s1, 0))
     IN /\ store' = MarkDirty([s2 EXCEPT !.cache[p].data.word = {}, !.cache[p].data.ptr[0] = 0], INODE_BLOCK)
        /\ cleared' = (cleared \/ s2.cache[p].block # INODE_BLOCK)
        /\ kept' = IF cleared' THEN <<>> ELSE kept
  /\ UNCHANGED <<nodes, unmarked>>

\* btrfs_mount_disk, after a start that finds the cache empty
Restart ==
  /\ FileCall
  /\ LET s == Get([store EXCEPT !.cache = NoCache], INODE_BLOCK) IN
     store' = s /\ nodes' = { i \in Inodes : PtrOf(s, i) # 0 }
  /\ kept' = IF \E i \in Slots : store.cache[i].valid /\ store.cache[i].dirty THEN <<>> ELSE kept
  /\ unmarked' = {} /\ UNCHANGED cleared

BlocksNext ==
  \/ \E t \in Texts \union {NoText} : CreateFile(t)
  \/ \E i \in Inodes : ReadFile(i) \/ \E t \in Texts : WriteFile(i, t)
  \/ FlushCache \/ Unlink \/ Restart

-----------------------------------------------------------------------------
\* What a block holds, in its slot or else on the disk
Content(b) == IF Holding(store, b) = {} THEN store.disk[b] ELSE store.cache[At(store, b)].data

\* The cache never lies about the disk: no block is in two slots, and what a slot
\* holds that is not dirty is on the disk, but for the blocks of writes that looked
\* for their block where the inode no longer was (block_get, its callers).
CacheCoherent ==
  /\ \A i, j \in Slots : i # j /\ store.cache[i].valid /\ store.cache[j].valid =>
       store.cache[i].block # store.cache[j].block
  /\ \A i \in Slots : store.cache[i].valid /\ ~store.cache[i].dirty /\ store.cache[i].block \notin unmarked =>
       store.cache[i].data = store.disk[store.cache[i].block]

\* A file whose inode was written to block 0 keeps its text and a block of its own
\* over other files, writes, flushes, removals and a restart after a flush, until a
\* removal clears the bitmap (btrfs_create_file, btrfs_write_file_vfs, btrfs_unlink).
FilesKeepTexts ==
  \A i \in DOMAIN kept :
    LET b == Content(INODE_BLOCK).ptr[i] IN
    /\ b /= 0 /\ Content(b).word = kept[i]
    /\ \A j \in DOMAIN kept : i /= j => Content(INODE_BLOCK).ptr[j] /= b
=============================================================================
