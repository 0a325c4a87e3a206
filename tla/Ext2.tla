-------------------------------- MODULE Ext2 --------------------------------
(***************************************************************************)
(* The reader and writer of ext2 (fs/ext2/ext2.c): the mount, the bitmaps, *)
(* directories as entries that tile a block, and the copy of the tree into *)
(* the VFS.  Lengths are in units of four bytes, names are sequences of    *)
(* letters.  The disk is one group, as mke2fs leaves it.  A touch without  *)
(* room in the block writes behind its buffer: undefined, so left out.     *)
(***************************************************************************)
EXTENDS Integers, Sequences, SequencesExt, FiniteSetsExt

CONSTANTS
  BlockUnits,          \* length of a block
  InodesPerGroup, BlocksPerGroup,
  Superblocks,         \* what block 1 may hold
  Ext2Names            \* names that callers pass

ASSUME Ext2Assumption == BlockUnits > 8 /\ InodesPerGroup > 4 /\ BlocksPerGroup > 3

VARIABLES
  sb,           \* the superblock, or NoSb
  inode_bitmap, block_bitmap, \* inodes and blocks in use
  inode_table,  \* inode |-> [blocks, size]; the others are zero
  dir_blocks,   \* block |-> sequence of [inode, rec_len, name, file_type]
  current_dir_inode,
  imported      \* history: calls to the VFS, [call, path, content]

ext2Vars == <<sb, inode_bitmap, block_bitmap, inode_table, dir_blocks, current_dir_inode, imported>>

NoSb == [magic |-> FALSE]
FILE == 1
DIR == 2
Entry(ino, units, name, type) == [inode |-> ino, rec_len |-> units, name |-> name, file_type |-> type]
ZeroInode == [blocks |-> <<>>, size |-> 0]
\* Bytes of header and name, rounded up
EntryUnits(name) == 2 + (Len(name) + 3) \div 4

\* A root directory with a directory "d", and a file "f" of five bytes in it
DiskInit ==
  /\ sb = NoSb
  /\ inode_bitmap = {1, 2, 3, 4} /\ block_bitmap = {1, 2, 3}
  /\ inode_table = [i \in 2..4 |-> CASE i = 2 -> [blocks |-> <<1>>, size |-> BlockUnits]
                                     [] i = 3 -> [blocks |-> <<2>>, size |-> BlockUnits]
                                     [] i = 4 -> [blocks |-> <<3>>, size |-> 5]]
  /\ dir_blocks = [b \in {1, 2} |->
       IF b = 1 THEN << Entry(2, 3, <<".">>, DIR), Entry(2, 3, <<".", ".">>, DIR),
                        Entry(3, BlockUnits - 6, <<"d">>, DIR) >>
       ELSE << Entry(3, 3, <<".">>, DIR), Entry(2, 3, <<".", ".">>, DIR),
               Entry(4, BlockUnits - 6, <<"f">>, FILE) >>]
  /\ current_dir_inode = 2
  /\ imported = <<>>

\* ext2_init: what is refused, and the first data block that is put right
FirstDataBlock(s) ==
  IF s.s_first_data_block = 0 /\ s.s_log_block_size = 0 THEN 1 ELSE s.s_first_data_block
Mountable(s) ==
  /\ s.magic
  /\ s.s_inodes_count > 0 /\ s.s_blocks_count > 0 /\ s.s_blocks_per_group > 0 /\ s.s_inodes_per_group > 0
  /\ s.s_inode_size = 128 /\ s.s_log_block_size = 0
  /\ FirstDataBlock(s) < s.s_blocks_count

Ext2Mount(s) ==
  /\ sb = NoSb
  /\ sb' = IF Mountable(s) THEN [s EXCEPT !.s_first_data_block = FirstDataBlock(s)] ELSE NoSb
  /\ UNCHANGED <<inode_bitmap, block_bitmap, inode_table, dir_blocks, current_dir_inode, imported>>

-----------------------------------------------------------------------------
FreeInodes == IF sb = NoSb THEN {} ELSE { i \in 0..(sb.s_inodes_per_group - 1) : (i + 1) \notin inode_bitmap }
FreeBlocks == IF sb = NoSb THEN {} ELSE { i \in 0..(sb.s_blocks_per_group - 1) :
                                            (i + sb.s_first_data_block) \notin block_bitmap }
\* ext2_alloc_inode and ext2_alloc_block; 0 if there is none
NewInode_IndexIsNumber == IF FreeInodes = {} THEN 0 ELSE Min(FreeInodes)
NewInode == IF FreeInodes = {} THEN 0 ELSE Min(FreeInodes) + 1
NewBlock == IF FreeBlocks = {} THEN 0 ELSE Min(FreeBlocks) + sb.s_first_data_block

GetInode(i) ==
  IF sb = NoSb \/ i = 0 \/ (sb /= NoSb /\ i > sb.s_inodes_count) \/ i \notin DOMAIN inode_table
  THEN ZeroInode ELSE inode_table[i]

\* A walk ends at an entry without an inode; blocks that hold no directory are
\* not walked in the model
Walked(block) ==
  LET es == IF block \in DOMAIN dir_blocks THEN dir_blocks[block] ELSE <<>>
      ends == { k \in DOMAIN es : es[k].inode = 0 }
  IN IF ends = {} THEN es ELSE SubSeq(es, 1, Min(ends) - 1)

\* The first block and index with an entry that a test picks, <<>> if none
FindEntry(ino, P(_)) ==
  LET blocks == GetInode(ino).blocks
      hits == { h \in (DOMAIN blocks) \X (1..BlockUnits) :
                  h[2] \in DOMAIN Walked(blocks[h[1]]) /\ P(Walked(blocks[h[1]])[h[2]]) }
  IN IF hits = {} THEN <<>>
     ELSE LET h == CHOOSE h \in hits : \A g \in hits : h[1] < g[1] \/ (h[1] = g[1] /\ h[2] <= g[2])
          IN <<blocks[h[1]], h[2]>>
\* strncmp over the entry's length: an entry that begins the name is taken for it
Begins(name) == LET P(e) == IsPrefix(e.name, name) IN FindEntry(current_dir_inode, P)

\* ext2_touch: the last entry is cut to its length, the new one gets the rest
Touched_KeepsLength(es, ino, name) ==
  LET last == es[Len(es)] IN
  Append(es, Entry(ino, last.rec_len - EntryUnits(last.name), name, FILE))

Touched(es, ino, name) ==
  LET last == es[Len(es)]  units == EntryUnits(last.name) IN
  [es EXCEPT ![Len(es)].rec_len = units] \o <<Entry(ino, last.rec_len - units, name, FILE)>>

HasRoom(es, name) ==
  es[Len(es)].rec_len >= EntryUnits(es[Len(es)].name) + EntryUnits(name)

Ext2Touch(name) ==
  LET b == GetInode(current_dir_inode).blocks[1] IN
  /\ NewInode > 0 /\ HasRoom(dir_blocks[b], name)
  /\ inode_bitmap' = inode_bitmap \union {NewInode}
  /\ inode_table' = [i \in DOMAIN inode_table \union {NewInode} |->
                       IF i = NewInode THEN ZeroInode ELSE inode_table[i]]
  /\ dir_blocks' = [dir_blocks EXCEPT ![b] = Touched(@, NewInode, name)]
  /\ UNCHANGED <<sb, block_bitmap, current_dir_inode, imported>>

\* ext2_mkdir: the block of the directory is written, its inode and its entry never;
\* without a block left, or a mount, it is block 0 of the disk
Ext2Mkdir ==
  /\ inode_bitmap' = inode_bitmap \union ({NewInode} \ {0})
  /\ block_bitmap' = block_bitmap \union ({NewBlock} \ {0})
  /\ dir_blocks' = [b \in DOMAIN dir_blocks \union {NewBlock} |->
       IF b = NewBlock THEN << Entry(NewInode, 3, <<".">>, DIR),
                               Entry(current_dir_inode, BlockUnits - 3, <<".", ".">>, DIR) >>
       ELSE dir_blocks[b]]
  /\ UNCHANGED <<sb, inode_table, current_dir_inode, imported>>

\* ext2_rm: the entry before takes the room; the first entry loses its inode
\* number, and with it the walk.  The inode stays in use.
Removed(es, k) ==
  IF k = 1 THEN [es EXCEPT ![1].inode = 0]
  ELSE RemoveAt([es EXCEPT ![k - 1].rec_len = @ + es[k].rec_len], k)

Ext2Rm(name) ==
  LET h == Begins(name) IN
  /\ h /= <<>>
  /\ dir_blocks' = [dir_blocks EXCEPT ![h[1]] = Removed(@, h[2])]
  /\ UNCHANGED <<sb, inode_bitmap, block_bitmap, inode_table, current_dir_inode, imported>>

Ext2Cd(name) ==
  LET P(e) == e.name = name  h == FindEntry(current_dir_inode, P) IN
  /\ \/ name = <<"/">> /\ current_dir_inode' = 2
     \/ /\ name /= <<"/">> /\ h /= <<>> /\ dir_blocks[h[1]][h[2]].file_type = DIR
        /\ current_dir_inode' = dir_blocks[h[1]][h[2]].inode
  /\ UNCHANGED <<sb, inode_bitmap, block_bitmap, inode_table, dir_blocks, imported>>

-----------------------------------------------------------------------------
(* ext2_load_vfs_root *)

Call(name, path, content) == [call |-> name, path |-> path, content |-> content]
\* The content of a file of less than 1024 bytes; an empty one counts as binary
ContentOf(ino) ==
  IF GetInode(ino).size \in 1..1023 THEN <<"content of", ino>> ELSE <<"[binary file]">>

\* ext2_import_vfs_directory: every entry but "." and ".." of the blocks, in order
Imported[path \in Seq(Seq(STRING)), ino \in Nat] ==
  LET one(e) ==
        LET child == Append(path, e.name) IN
        IF e.name \in {<<".">>, <<".", ".">>} THEN <<>>
        ELSE IF e.file_type = DIR
        THEN <<Call("mkdir", child, <<>>)>> \o Imported[child, e.inode]
        ELSE <<Call("touch", child, ContentOf(e.inode))>>
      perBlock(b) == FlattenSeq([k \in DOMAIN Walked(b) |-> one(Walked(b)[k])])
      blocks == GetInode(ino).blocks
  IN FlattenSeq([n \in DOMAIN blocks |-> perBlock(blocks[n])])

LoadVfsRoot ==
  /\ sb /= NoSb /\ imported = <<>>
  /\ imported' = [k \in 1..6 |-> Call("mkdir", <<<<"etc", "usr", "bin", "home", "tmp", "kernel">>[k]>>, <<>>)]
                   \o Imported[<<>>, 2]
  /\ UNCHANGED <<sb, inode_bitmap, block_bitmap, inode_table, dir_blocks, current_dir_inode>>

\* What was copied is not looked at again, so the copy ends a run (a bound)
Ext2Next ==
  /\ imported = <<>>
  /\ \/ \E s \in Superblocks : Ext2Mount(s)
     \/ \E n \in Ext2Names : (sb /= NoSb /\ (Ext2Touch(n) \/ Ext2Rm(n))) \/ Ext2Cd(n)
     \/ Ext2Cd(<<"/">>) \/ Ext2Mkdir \/ LoadVfsRoot

Ext2TypeOK ==
  /\ inode_bitmap \subseteq 1..InodesPerGroup /\ current_dir_inode \in inode_bitmap
  /\ \A b \in DOMAIN dir_blocks : \A k \in DOMAIN dir_blocks[b] :
       dir_blocks[b][k].rec_len \in 1..BlockUnits /\ dir_blocks[b][k].file_type \in {FILE, DIR}

-----------------------------------------------------------------------------
\* Whatever was made and removed: the entries of a directory tile its block and
\* each is long enough for its name, no inode has two entries that are files and
\* none that is free has one; and the copy has one call for each entry a
\* walk from the root meets, parents first.
Ext2Sound ==
  /\ \A b \in DOMAIN dir_blocks :
       LET es == dir_blocks[b] IN
       /\ FoldLeft(LAMBDA acc, e : acc + e.rec_len, 0, es) = BlockUnits
       /\ \A k \in DOMAIN es :
            /\ es[k].rec_len >= EntryUnits(es[k].name)
            /\ es[k].inode \in inode_bitmap \union {0}
            /\ es[k].file_type = FILE =>
                 \A c \in DOMAIN dir_blocks : \A l \in DOMAIN dir_blocks[c] :
                   dir_blocks[c][l].inode = es[k].inode => b = c /\ k = l
  /\ imported /= <<>> =>
       LET calls == SubSeq(imported, 7, Len(imported)) IN
       /\ { c.path : c \in { d \in ToSet(calls) : Len(d.path) = 1 } } =
            { <<e.name>> : e \in ToSet(Walked(1)) } \ {<<<<".">>>>, <<<<".", ".">>>>}
       /\ \A k \in DOMAIN calls : Len(calls[k].path) > 1 =>
            \E l \in 1..(k - 1) : calls[l].call = "mkdir" /\ calls[l].path = Front(calls[k].path)
=============================================================================
