------------------------------ MODULE Namespace ------------------------------
(***************************************************************************)
(* The file tree: fs/vfs/vfs.c (paths, the current directory), fs/xfs      *)
(* (inodes and blocks in allocation groups), fs/initramfs (the archive     *)
(* unpacked at boot), the descriptor table and the file calls of           *)
(* arch/x86/syscall.c, and the file steps of init/all.c and init/kernel.c. *)
(*                                                                         *)
(* A vfs_node_t of XFS is a fresh copy that finddir allocates for every    *)
(* path component and that nobody frees; it is modelled by the inode       *)
(* numbers along its parent pointers, <<>> being the root.  A name is the  *)
(* sequence of its blank-separated words, since xfs_create_file keeps the  *)
(* first word only; <<"">> is the name that starts with a blank.           *)
(*                                                                         *)
(* The boot thread goes through its stages in order.  From the stage       *)
(* "fb" on interrupts are enabled and shell commands and system calls run  *)
(* between its steps, each of them to its end (they run in an interrupt).  *)
(***************************************************************************)
EXTENDS Integers, Sequences, FiniteSets, SequencesExt

CONSTANTS
  AgCount,      (* XFS_AG_COUNT                                            *)
  MaxFilesAg,   (* XFS_MAX_FILES_AG, inode records of one group            *)
  BlocksAg,     (* blocks of one group (1024)                              *)
  MaxFd,        (* descriptors are 3 .. MaxFd - 1 (16)                     *)
  Pages,        (* pages kmalloc can give before it is out of memory       *)
  SystemDirs,   (* the names of create_system_tree, in order               *)
  Archive,      (* the archive: a sequence of [type, parts]                *)
  Modules,      (* mods_count, the boot modules                            *)
  Paths,        (* the paths of shell commands and system calls            *)
  Words,        (* the words of names: strings without a blank             *)
  MaxCwd,       (* bound: parts of the current_path string                 *)
  NoNode        (* NULL                                                    *)

(* A name is never empty: without words it is <<"">>. *)
Name == Seq(Words) \ {<<>>}
Path == [abs : BOOLEAN, parts : Seq(Name)]

ASSUME NamespaceAssumption ==
  /\ AgCount \in Nat \ {0} /\ MaxFilesAg \in Nat \ {0} /\ BlocksAg \in Nat
  /\ MaxFilesAg <= BlocksAg
  /\ MaxFd \in Nat /\ Pages \in Nat /\ MaxCwd \in Nat /\ Modules \in Nat
  /\ {"", "dev", "module"} \subseteq Words
  /\ SystemDirs \in Seq(Name) /\ Paths \subseteq Path
  /\ Archive \in Seq([type : {"DIR", "FILE"}, parts : Seq(Name)])
  /\ NoNode \notin Seq(Nat)

VARIABLES
  inodes,        (* group -> its active inode records, in slot order       *)
  inode_count,   (* group -> inode_count                                   *)
  block_bitmap,  (* group -> the blocks whose bit is 1                     *)
  free_blocks,   (* group -> free_blocks                                   *)
  counter,       (* g_global_inode_counter                                 *)
  pages,         (* pages kmalloc can still give                           *)
  ops,           (* the operations of the root node                        *)
  list,          (* the names in the list root->ptr, newest first          *)
  vfs_current,   (* the current directory                                  *)
  fd_table,      (* process_fd_table: descriptor -> node or NoNode         *)
  current_path,  (* current_path of syscall.c: the parts of an absolute path *)
  boot           (* the boot thread: [stage, at, part]                     *)

tables == <<inodes, inode_count, block_bitmap, free_blocks, counter>>
vars == <<inodes, inode_count, block_bitmap, free_blocks, counter, pages, ops,
          list, vfs_current, fd_table, current_path, boot>>

AGs == 0 .. AgCount - 1
Blocks == 0 .. BlocksAg - 1
Fds == 3 .. MaxFd - 1
Root == <<>>
FirstInode == 100

Dot == <<".">>
DotDot == <<"..">>
Clean(name) == <<Head(name)>>
Abs(parts) == [abs |-> TRUE, parts |-> parts]

-----------------------------------------------------------------------------
(* The records of the directory with inode number dir that bear the name,  *)
(* as pairs of group and slot; xfs_vfs_finddir takes the first.            *)
Entries(dir, name) ==
  {e \in UNION {{<<g, j>> : j \in DOMAIN inodes[g]} : g \in AGs} :
     /\ inodes[e[1]][e[2]].parent = dir
     /\ inodes[e[1]][e[2]].name = name}

FirstEntry(S) ==
  CHOOSE e \in S : \A f \in S : e[1] < f[1] \/ (e[1] = f[1] /\ e[2] <= f[2])

(* node->inode *)
InodeOf(node) == IF node = Root THEN 0 ELSE Last(node)

Records == UNION {Range(inodes[g]) : g \in AGs}
RecordOf(i) == CHOOSE r \in Records : r.num = i
TypeOfNode(node) == IF node = Root THEN "DIR" ELSE RecordOf(InodeOf(node)).type

(* Faulty variant: the result of kmalloc is not looked at. *)
Finddir_Unchecked(from, part) ==
  LET S == Entries(InodeOf(from.node), part)
  IN IF S = {}
       THEN [from EXCEPT !.node = NoNode]
       ELSE LET e == FirstEntry(S)
            IN [node |-> Append(from.node, inodes[e[1]][e[2]].num),
                pages |-> from.pages - 1]

(* xfs_vfs_finddir: a copy of the first record of that name, in a new page *)
Finddir(from, part) ==
  LET S == Entries(InodeOf(from.node), part)
  IN IF S = {} \/ from.pages = 0
       THEN [from EXCEPT !.node = NoNode]
       ELSE LET e == FirstEntry(S)
            IN [node |-> Append(from.node, inodes[e[1]][e[2]].num),
                pages |-> from.pages - 1]

(* One step of vfs_lookup, from a node and the pages left: "." stays, ".." *)
(* follows the parent pointer, any other part asks finddir, which fails    *)
(* also when there is no page for the copy.                                *)
Walk(from, part) ==
  IF from.node = NoNode \/ part = Dot THEN from
  ELSE IF part = DotDot
    THEN [from EXCEPT !.node = IF @ = Root THEN Root ELSE Front(@)]
  ELSE Finddir(from, part)

(* vfs_lookup with pg pages left: the node or NoNode, and the pages left.  *)
Lookup(path, pg) ==
  LET from == [node |-> IF path.abs THEN Root ELSE vfs_current, pages |-> pg]
      walk[i \in 0 .. Len(path.parts)] ==
        IF i = 0 THEN from ELSE Walk(walk[i - 1], path.parts[i])
  IN walk[Len(path.parts)]

(* vfs_parent_for_path *)
ParentFor(path, pg) ==
  IF Len(path.parts) <= 1
    THEN [node |-> IF path.abs THEN Root ELSE vfs_current, pages |-> pg]
    ELSE Lookup([path EXCEPT !.parts = Front(@)], pg)

NameIn(path) == IF path.parts = <<>> THEN <<"">> ELSE Last(path.parts)

-----------------------------------------------------------------------------
(* Faulty variant: the comparison is the wrong way round. *)
Picked_Fewest(g) ==
  \A h \in AGs : \/ free_blocks[h] > free_blocks[g]
                 \/ free_blocks[h] = free_blocks[g] /\ g <= h

(* xfs_pick_ag: most free blocks, the first of equals. *)
Picked(g) ==
  \A h \in AGs : \/ free_blocks[h] < free_blocks[g]
                 \/ free_blocks[h] = free_blocks[g] /\ g <= h

(* The record xfs_create_file writes. *)
Inode(name, type, dir, block) ==
  [num |-> counter, name |-> Clean(name), type |-> type, parent |-> dir,
   block |-> block, data |-> 0]

(* Faulty variant: free_blocks is not kept. *)
AllocBlock_Uncounted(g, b) ==
  /\ b \in Blocks \ block_bitmap[g]
  /\ \A a \in Blocks \ block_bitmap[g] : b <= a
  /\ block_bitmap' = [block_bitmap EXCEPT ![g] = @ \union {b}]
  /\ UNCHANGED free_blocks

(* xfs_alloc_block takes block b of group g. *)
AllocBlock(g, b) ==
  /\ b \in Blocks \ block_bitmap[g]
  /\ \A a \in Blocks \ block_bitmap[g] : b <= a
  /\ block_bitmap' = [block_bitmap EXCEPT ![g] = @ \union {b}]
  /\ free_blocks' = [free_blocks EXCEPT ![g] = @ - 1]

(* Whether xfs_create_file returns before it writes: no name left, or the *)
(* group has no inode record or no block.                                  *)
Refuses(g, name) ==
  \/ Head(name) = ""
  \/ inode_count[g] >= MaxFilesAg
  \/ free_blocks[g] = 0 \/ block_bitmap[g] = Blocks

(* Faulty variant: the inode counter stays. *)
XfsCreateFile_SameNumber(name, type, dir) ==
  \E g \in AGs :
    /\ Picked(g)
    /\ IF Refuses(g, name) \/ Len(inodes[g]) >= MaxFilesAg
         THEN UNCHANGED tables
         ELSE \E b \in Blocks :
                /\ AllocBlock(g, b)
                /\ inodes' = [inodes EXCEPT ![g] = Append(@, Inode(name, type, dir, b))]
                /\ inode_count' = [inode_count EXCEPT ![g] = @ + 1]
                /\ UNCHANGED counter

(* xfs_create_file: a block and, if a slot is inactive, an inode record.   *)
XfsCreateFile(name, type, dir) ==
  \E g \in AGs :
    /\ Picked(g)
    /\ IF Refuses(g, name)
         THEN UNCHANGED tables
         ELSE \E b \in Blocks :
                /\ AllocBlock(g, b)
                /\ IF Len(inodes[g]) < MaxFilesAg
                     THEN /\ inodes' = [inodes EXCEPT ![g] = Append(@, Inode(name, type, dir, b))]
                          /\ inode_count' = [inode_count EXCEPT ![g] = @ + 1]
                          /\ counter' = counter + 1
                     ELSE UNCHANGED <<inodes, inode_count, counter>>

(* Faulty variant: vfs_mkdir does not look whether the path exists. *)
VfsMkdir_Unchecked(path) ==
  LET parent == ParentFor(path, pages)
  IN /\ pages' = parent.pages
     /\ IF parent.node = NoNode
          THEN UNCHANGED tables
          ELSE XfsCreateFile(NameIn(path), "DIR", InodeOf(parent.node))

(* vfs_mkdir: only if the path leads nowhere; the parent may be any node. *)
VfsMkdir(path) ==
  LET there == Lookup(path, pages)
      parent == ParentFor(path, there.pages)
  IN IF there.node # NoNode
       THEN pages' = there.pages /\ UNCHANGED tables
       ELSE /\ pages' = parent.pages
            /\ IF parent.node = NoNode
                 THEN UNCHANGED tables
                 ELSE XfsCreateFile(NameIn(path), "DIR", InodeOf(parent.node))

(* vfs_create: the parent must be a directory, the name may exist. *)
VfsCreate(path, pg) ==
  LET parent == ParentFor(path, pg)
  IN /\ pages' = parent.pages
     /\ IF parent.node = NoNode \/ TypeOfNode(parent.node) # "DIR"
          THEN UNCHANGED tables
          ELSE XfsCreateFile(NameIn(path), "FILE", InodeOf(parent.node))

-----------------------------------------------------------------------------
(* vfs_init up to create_system_tree: the root node, one page. *)
Init ==
  /\ inodes = [g \in AGs |-> <<>>]
  /\ inode_count = [g \in AGs |-> 0]
  /\ block_bitmap = [g \in AGs |-> {}]
  /\ free_blocks = [g \in AGs |-> BlocksAg]
  /\ counter = FirstInode
  /\ pages = Pages
  /\ ops = "root_ops"
  /\ list = <<>>
  /\ vfs_current = Root
  /\ fd_table = [d \in Fds |-> NoNode]
  /\ current_path = <<>>
  /\ boot = [stage |-> "tree", at |-> 1, part |-> 1]

Enter(stage) == boot' = [stage |-> stage, at |-> 1, part |-> 1]
NextEntry == boot' = [boot EXCEPT !.at = @ + 1, !.part = 1]
NextPart == boot' = [boot EXCEPT !.part = @ + 1]

(* One round of create_system_tree: root_finddir, root_mkdir. *)
SystemDir ==
  /\ boot.stage = "tree" /\ boot.at <= Len(SystemDirs)
  /\ IF SystemDirs[boot.at] \in Range(list) \/ pages = 0
       THEN UNCHANGED <<list, pages>>
       ELSE /\ list' = <<SystemDirs[boot.at]>> \o list
            /\ pages' = pages - 1
  /\ NextEntry
  /\ UNCHANGED <<tables, ops, vfs_current, fd_table, current_path>>

(* init_all gives the root node the operations of XFS. *)
MountXfs ==
  /\ boot.stage = "tree" /\ boot.at > Len(SystemDirs)
  /\ ops' = "xfs_ops"
  /\ Enter("tar")
  /\ UNCHANGED <<tables, pages, list, vfs_current, fd_table, current_path>>

InArchive(type) ==
  /\ boot.stage = "tar" /\ boot.at <= Len(Archive)
  /\ Archive[boot.at].type = type

Parts == Archive[boot.at].parts

ArchiveStep == UNCHANGED <<ops, list, vfs_current, fd_table, current_path>>

(* initramfs_parse, a directory entry; also a round of                     *)
(* ensure_directory_exists: look, and vfs_mkdir what is not there.         *)
MakeIfAbsent(path) ==
  LET there == Lookup(path, pages)
      again == Lookup(path, there.pages)
      parent == ParentFor(path, again.pages)
  IN IF there.node # NoNode
       THEN pages' = there.pages /\ UNCHANGED tables
     ELSE IF again.node # NoNode
       THEN pages' = again.pages /\ UNCHANGED tables
     ELSE /\ pages' = parent.pages
          /\ IF parent.node = NoNode
               THEN UNCHANGED tables
               ELSE XfsCreateFile(NameIn(path), "DIR", InodeOf(parent.node))

UnpackDirectory ==
  /\ InArchive("DIR")
  /\ MakeIfAbsent(Abs(Parts))
  /\ NextEntry
  /\ ArchiveStep

(* Faulty variant: the last directory of the path is forgotten. *)
EnsureDirectory_NotLast ==
  /\ InArchive("FILE") /\ boot.part < Len(Parts)
  /\ IF boot.part < Len(Parts) - 1
       THEN MakeIfAbsent(Abs(SubSeq(Parts, 1, boot.part)))
       ELSE UNCHANGED <<tables, pages>>
  /\ NextPart
  /\ ArchiveStep

(* ensure_directory_exists *)
EnsureDirectory ==
  /\ InArchive("FILE") /\ boot.part < Len(Parts)
  /\ MakeIfAbsent(Abs(SubSeq(Parts, 1, boot.part)))
  /\ NextPart
  /\ ArchiveStep

(* initramfs_parse, a file entry: vfs_create if the path leads nowhere ... *)
UnpackFile ==
  /\ InArchive("FILE") /\ boot.part = Len(Parts)
  /\ LET there == Lookup(Abs(Parts), pages)
     IN IF there.node # NoNode
          THEN /\ pages' = there.pages
               /\ UNCHANGED tables
               /\ NextEntry
          ELSE VfsCreate(Abs(Parts), there.pages) /\ NextPart
  /\ ArchiveStep

(* Faulty variant: the data goes to the newest inode. *)
BindFile_Newest ==
  /\ InArchive("FILE") /\ boot.part > Len(Parts)
  /\ inodes' = [g \in AGs |-> [j \in DOMAIN inodes[g] |->
                  IF inodes[g][j].num = counter - 1
                    THEN [inodes[g][j] EXCEPT !.data = boot.at]
                    ELSE inodes[g][j]]]
  /\ NextEntry
  /\ ArchiveStep
  /\ UNCHANGED <<pages, inode_count, block_bitmap, free_blocks, counter>>

(* ... and xfs_bind_file_buffer of the inode the path now leads to. *)
BindFile ==
  /\ InArchive("FILE") /\ boot.part > Len(Parts)
  /\ LET new == Lookup(Abs(Parts), pages)
     IN /\ pages' = new.pages
        /\ inodes' = IF new.node = NoNode THEN inodes
                     ELSE [g \in AGs |-> [j \in DOMAIN inodes[g] |->
                             IF inodes[g][j].num = InodeOf(new.node)
                               THEN [inodes[g][j] EXCEPT !.data = boot.at]
                               ELSE inodes[g][j]]]
  /\ NextEntry
  /\ ArchiveStep
  /\ UNCHANGED <<inode_count, block_bitmap, free_blocks, counter>>

(* init_all enables interrupts. *)
EnableInterrupts ==
  /\ boot.stage = "tar" /\ boot.at > Len(Archive)
  /\ Enter("fb")
  /\ UNCHANGED <<tables, pages, ops, list, vfs_current, fd_table, current_path>>

(* vfs_register_fb0: the node is hung on the copy of /dev the lookup made. *)
RegisterFb0 ==
  /\ boot.stage = "fb"
  /\ LET dev == Lookup(Abs(<< <<"dev">> >>), pages)
     IN pages' = IF dev.node = NoNode \/ dev.pages = 0 THEN dev.pages ELSE dev.pages - 1
  /\ Enter("modules")
  /\ UNCHANGED <<tables, ops, list, vfs_current, fd_table, current_path>>

(* vfs_create_binary of a boot module: hung on the current node's list. *)
CreateBinary ==
  /\ boot.stage = "modules" /\ boot.at <= Modules
  /\ pages' = IF pages = 0 THEN 0 ELSE pages - 1
  /\ list' = IF pages # 0 /\ vfs_current = Root THEN << <<"module">> >> \o list ELSE list
  /\ NextEntry
  /\ UNCHANGED <<tables, ops, vfs_current, fd_table, current_path>>

(* k_main's vfs_chdir("/") *)
BootDone ==
  /\ boot.stage = "modules" /\ boot.at > Modules
  /\ vfs_current' = Root
  /\ Enter("idle")
  /\ UNCHANGED <<tables, pages, ops, list, fd_table, current_path>>

-----------------------------------------------------------------------------
(* Whether a shell command or a system call can run. *)
Up == boot.stage \in {"fb", "modules", "idle"}

(* cmd_mkdir *)
Mkdir(path) ==
  /\ Up
  /\ VfsMkdir(path)
  /\ UNCHANGED <<ops, list, vfs_current, fd_table, current_path, boot>>

(* cmd_touch, cmd_ed, cmd_cp's copy, system call 5: the content is dropped. *)
Touch(path) ==
  /\ Up
  /\ VfsCreate(path, pages)
  /\ UNCHANGED <<ops, list, vfs_current, fd_table, current_path, boot>>

(* Faulty variant: any node will do. *)
VfsChdir_AnyNode(path) ==
  LET to == Lookup(path, pages)
  IN /\ pages' = to.pages
     /\ vfs_current' = IF to.node # NoNode THEN to.node ELSE vfs_current

(* vfs_chdir: the node reached, if it is a directory. *)
VfsChdir(path) ==
  LET to == Lookup(path, pages)
  IN /\ pages' = to.pages
     /\ vfs_current' = IF to.node # NoNode /\ TypeOfNode(to.node) = "DIR"
                         THEN to.node ELSE vfs_current

(* cmd_cd: current_path is not told. *)
ShellCd(path) ==
  /\ Up
  /\ VfsChdir(path)
  /\ UNCHANGED <<tables, ops, list, fd_table, current_path, boot>>

(* The path SYS_CHDIR and SYS_LS build from current_path. *)
Absolute(path) == IF path.abs THEN path ELSE Abs(current_path \o path.parts)

(* SYS_CHDIR *)
SysChdir(path) ==
  /\ Up
  /\ Len(Absolute(path).parts) <= MaxCwd
  /\ VfsChdir(Absolute(path))
  /\ LET to == Lookup(Absolute(path), pages)
     IN current_path' = IF to.node # NoNode /\ TypeOfNode(to.node) = "DIR"
                          THEN Absolute(path).parts ELSE current_path
  /\ UNCHANGED <<tables, ops, list, fd_table, boot>>

(* SYS_OPEN: the first free descriptor; there is no close. *)
SysOpen(path) ==
  /\ Up
  /\ LET to == Lookup(path, pages)
         unused == {d \in Fds : fd_table[d] = NoNode}
     IN /\ pages' = to.pages
        /\ fd_table' = IF to.node = NoNode \/ unused = {} THEN fd_table
                       ELSE [fd_table EXCEPT ![CHOOSE d \in unused : \A e \in unused : d <= e] = to.node]
  /\ UNCHANGED <<tables, ops, list, vfs_current, current_path, boot>>

(* System call 8, cat: a page for the copy of the data, never given back.  *)
Cat(path) ==
  /\ Up
  /\ LET to == Lookup(path, pages)
     IN pages' = IF \/ to.node = NoNode
                    \/ TypeOfNode(to.node) # "FILE"
                    \/ RecordOf(InodeOf(to.node)).data = 0
                    \/ to.pages = 0
                   THEN to.pages ELSE to.pages - 1
  /\ UNCHANGED <<tables, ops, list, vfs_current, fd_table, current_path, boot>>

(* cmd_ls *)
LsOf(path) == pages' = Lookup(path, pages).pages

(* SYS_LS makes the path absolute first, cmd_ls does not. *)
Ls(path) ==
  /\ Up
  /\ LsOf(path) \/ LsOf(Absolute(path))
  /\ UNCHANGED <<tables, ops, list, vfs_current, fd_table, current_path, boot>>

(* xfs_vfs_readdir *)
Listed(dir) == {r \in Records : r.parent = dir}

(* The inodes tree_helper lists below a node: it goes on in the node that  *)
(* finddir gives for the name of a directory, which is the first record of *)
(* that name and may be a file; a second directory of the same name is only *)
(* made when there are no pages, and then no node is given.                *)
TreeBelow(dir) ==
  LET entered[i \in {r.num : r \in Records}] ==
        LET r == RecordOf(i)
            e == FirstEntry(Entries(r.parent, r.name))
        IN /\ r.type = "DIR" /\ inodes[e[1]][e[2]] = r
           /\ r.parent = dir \/ (r.parent # 0 /\ entered[r.parent])
  IN Listed(dir) \union UNION {Listed(i) : i \in {j \in DOMAIN entered : entered[j]}}

(* cmd_tree: a page for the copy of each directory. *)
Tree(path) ==
  /\ Up
  /\ LET to == Lookup(path, pages)
         copies == IF to.node = NoNode \/ TypeOfNode(to.node) # "DIR" THEN 0
                   ELSE Cardinality({r \in TreeBelow(InodeOf(to.node)) : r.type = "DIR"})
     IN pages' = IF copies > to.pages THEN 0 ELSE to.pages - copies
  /\ UNCHANGED <<tables, ops, list, vfs_current, fd_table, current_path, boot>>

(* vfs_rm: XFS has no unlink, so the look-up of the parent is all it does. *)
Rm(path) ==
  /\ Up
  /\ pages' = ParentFor(path, pages).pages
  /\ UNCHANGED <<tables, ops, list, vfs_current, fd_table, current_path, boot>>

Boot ==
  \/ SystemDir \/ MountXfs
  \/ UnpackDirectory \/ EnsureDirectory \/ UnpackFile \/ BindFile
  \/ EnableInterrupts \/ RegisterFb0 \/ CreateBinary \/ BootDone

Next ==
  \/ Boot
  \/ \E path \in Paths :
       \/ Mkdir(path) \/ Touch(path) \/ ShellCd(path) \/ SysChdir(path)
       \/ SysOpen(path) \/ Cat(path) \/ Ls(path)
       \/ Tree(path) \/ Rm(path)

Spec == Init /\ [][Next]_vars

-----------------------------------------------------------------------------
(* Every variable has the values its C declaration and the bounds allow; a *)
(* node is a list of inode numbers.                                        *)
InodeType ==
  [num : Nat, name : Name, type : {"DIR", "FILE"}, parent : Nat,
   block : Blocks, data : Nat]

IsNode(n) == n = NoNode \/ n \in Seq(Nat)

TypeOK ==
  /\ inodes \in [AGs -> Seq(InodeType)]
  /\ inode_count \in [AGs -> 0 .. MaxFilesAg]
  /\ block_bitmap \in [AGs -> SUBSET Blocks]
  /\ free_blocks \in [AGs -> 0 .. BlocksAg]
  /\ counter \in Nat /\ pages \in 0 .. Pages
  /\ ops \in {"root_ops", "xfs_ops"}
  /\ list \in Seq(Name) /\ current_path \in Seq(Name)
  /\ vfs_current \in Seq(Nat)
  /\ DOMAIN fd_table = Fds /\ \A d \in Fds : IsNode(fd_table[d])
  /\ boot \in [stage : {"tree", "tar", "fb", "modules", "idle"}, at : Nat, part : Nat]

(* The bitmap, the free count, the inode count and the records of a group  *)
(* agree: no block belongs to two files, none is taken without a file (the *)
(* -EIO exit of xfs_create_file, which would lose one, is never reached).  *)
BlocksAccounted ==
  \A g \in AGs :
    /\ inode_count[g] = Len(inodes[g])
    /\ free_blocks[g] = BlocksAg - inode_count[g]
    /\ block_bitmap[g] = {inodes[g][j].block : j \in DOMAIN inodes[g]}
    /\ \A j, k \in DOMAIN inodes[g] : j # k => inodes[g][j].block # inodes[g][k].block

(* xfs_create_file looks at one group only; that it answers ENOSPC there   *)
(* means that no group has an inode record left.                           *)
NoSpaceMeansFull ==
  \A g \in AGs :
    Picked(g) /\ inode_count[g] >= MaxFilesAg => \A h \in AGs : inode_count[h] >= MaxFilesAg

(* Inode numbers are given once, and the parent of an inode is the root or *)
(* an older inode: the tree has no loop and no orphan.                     *)
Hierarchy ==
  /\ \A g, h \in AGs : \A j \in DOMAIN inodes[g], k \in DOMAIN inodes[h] :
       inodes[g][j].num = inodes[h][k].num => g = h /\ j = k
  /\ \A r \in Records :
       r.parent = 0 \/ \E q \in Records : q.num = r.parent /\ q.num < r.num

(* vfs_get_cwd: the names along the parent pointers of the current node    *)
Cwd == [i \in DOMAIN vfs_current |-> RecordOf(vfs_current[i]).name]

(* cd to the path that pwd prints leads to the current directory, though   *)
(* that was reached by copies made long ago, unless a name of it has got a *)
(* twin (touch makes one) that a look-up finds first.                      *)
CwdLeadsBack ==
  (\A i \in DOMAIN vfs_current :
     Cardinality(Entries(InodeOf(SubSeq(vfs_current, 1, i - 1)), Cwd[i])) = 1)
  => Lookup(Abs(Cwd), Len(Cwd)).node = vfs_current

(* The nodes somebody holds, the current directory and the open files, are *)
(* chains of inodes each of which is in the one before, so that ".." from  *)
(* a copy made long ago still leads where the inode table says; and the    *)
(* current directory is a directory whose printed path leads back to it.   *)
HeldNodesAreTrue ==
  /\ \A n \in ({vfs_current} \union {fd_table[d] : d \in Fds}) \ {NoNode} :
       \A i \in DOMAIN n :
         \E r \in Records : r.num = n[i] /\ r.parent = InodeOf(SubSeq(n, 1, i - 1))
  /\ TypeOfNode(vfs_current) = "DIR"
  /\ CwdLeadsBack

(* The data of an entry of the archive is bound to no inode but the one    *)
(* whose names, from the root, are the entry's path.                       *)
ArchiveIntact ==
  \A r \in Records :
    r.data # 0 =>
      LET parts == Archive[r.data].parts
      IN \E n \in [1 .. Len(parts) -> Records] :
           /\ n[Len(parts)] = r
           /\ \A i \in DOMAIN n : /\ n[i].name = parts[i]
                                  /\ n[i].parent = IF i = 1 THEN 0 ELSE n[i - 1].num

(* Once the archive is unpacked, each file of it has an inode with its     *)
(* data, unless its path has a blank or memory or inode records ran out.   *)
ArchiveLoaded ==
  boot.stage \in {"fb", "modules", "idle"} =>
    \A k \in DOMAIN Archive :
      \/ Archive[k].type = "DIR"
      \/ \E i \in DOMAIN Archive[k].parts : Len(Archive[k].parts[i]) > 1
      \/ pages = 0
      \/ \A g \in AGs : inode_count[g] = MaxFilesAg
      \/ \E r \in Records : r.data = k

NoTwin(path) ==
  Mkdir(path) /\ pages' > 0 /\ (\A i \in DOMAIN path.parts : Len(path.parts[i]) = 1)
  => \A r \in Records' \ Records :
       ~\E q \in Records : q.parent = r.parent /\ q.name = r.name

(* mkdir of a name without a blank never makes a second entry of that name *)
(* in its directory, unless the look-up ran out of memory and took an      *)
(* entry that is there for missing.                                        *)
MkdirMakesNoTwin == [][\A path \in Paths : NoTwin(path)]_vars

(* xfs.c:95 "Guardamos el i-nodo del directorio creador": the parent_inode *)
(* kept in a record is that of a directory.                                *)
ParentIsDirectory ==
  \A r \in Records : \A q \in Records : q.num = r.parent => q.type = "DIR"

(* vfs.c:271 "Construimos el arbol estructural real tras inicializar la    *)
(* raiz": a directory of that tree is found by a look-up from then on.     *)
SystemTreeIsReachable ==
  \A name \in Range(SystemDirs) :
    boot.stage # "tree" /\ name \in Range(list) /\ pages > 0 =>
      IF ops = "root_ops" THEN name \in Range(list)
      ELSE Lookup(Abs(<<name>>), pages).node # NoNode

=============================================================================
