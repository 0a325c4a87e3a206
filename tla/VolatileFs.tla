----------------------------- MODULE VolatileFs -----------------------------
(***************************************************************************)
(* The two file systems that live in memory: ramfs, two tables whose       *)
(* records name their directory by its index (fs/ramfs/ramfs.c), and       *)
(* tmpfs, a list of files (fs/tmpfs/tmpfs.c).  Nothing in the kernel calls *)
(* them yet: the calls below are those of include/fs/fs.h and              *)
(* include/drivers/tmpfs.h.  What a reading call prints is seen in shown,  *)
(* and a reading ends a run (a bound).                                     *)
(***************************************************************************)
EXTENDS Integers, Sequences, SequencesExt

CONSTANTS
  RamNames, RamContents, \* names and contents that callers pass
  MAX_DIRECTORIES, MAX_FILES, \* lengths of the tables
  TmpBuffers             \* blocks kmalloc still has for tmpfs; nothing is given back

ASSUME VolatileFsAssumption ==
  MAX_DIRECTORIES \in Nat \ {0} /\ MAX_FILES \in Nat \ {0} /\ TmpBuffers \in Nat

VARIABLES
  directory_table, file_table, \* the records in use, [name, parent_dir] and [name, parent_dir, content]
  current_directory,           \* an index, which removals leave as it is
  tmp_root,                    \* the list, newest first, of [name, content]
  tmpBlocks,                   \* blocks left for tmpfs
  written,                     \* history: what the last successful call left, by file system, directory and
                               \* name; "lost" has what a replacement that failed took
  shown                        \* what a reading call printed or returned

volatileVars == <<directory_table, file_table, current_directory, tmp_root, tmpBlocks,
                  written, shown>>
Nothing == "nothing"
NoCall == [call |-> "none"]

VolatileInit ==
  /\ directory_table = <<[name |-> "/", parent_dir |-> 0]>>
  /\ file_table = <<>>
  /\ current_directory = 0
  /\ tmp_root = <<>>
  /\ tmpBlocks = TmpBuffers
  /\ written = {}
  /\ shown = NoCall

IsHere(entry, name) == entry.parent_dir = current_directory /\ entry.name = name
\* The first record of a table that a predicate picks, 0 if none
FirstOf(table, P(_)) ==
  LET hits == { i \in DOMAIN table : P(table[i]) } IN
  IF hits = {} THEN 0 ELSE CHOOSE i \in hits : \A j \in hits : i <= j
Named(table, name) == LET P(e) == IsHere(e, name) IN FirstOf(table, P)

Forget(fs, dir, name) == { w \in written : ~(w.fs = fs /\ w.dir = dir /\ w.name = name) }
Record(fs, dir, name, content) ==
  Forget(fs, dir, name) \union {[fs |-> fs, dir |-> dir, name |-> name, content |-> content]}

RamfsMkdir(name) ==
  /\ Len(directory_table) < MAX_DIRECTORIES /\ Named(directory_table, name) = 0
  /\ directory_table' = Append(directory_table, [name |-> name, parent_dir |-> current_directory])
  /\ UNCHANGED <<file_table, current_directory, tmp_root, tmpBlocks, written, shown>>

\* Without a record left ramfs_touch fails
RamfsTouch(name, content) ==
  LET i == Named(file_table, name) IN
  /\ i = 0 => Len(file_table) < MAX_FILES
  /\ file_table' = IF i > 0 THEN [file_table EXCEPT ![i].content = content]
                   ELSE Append(file_table, [name |-> name, parent_dir |-> current_directory,
                                            content |-> content])
  /\ written' = Record("ramfs", current_directory, name, content)
  /\ UNCHANGED <<directory_table, current_directory, tmp_root, tmpBlocks, shown>>

\* An index past the last record reads what the table holds there: not modelled
RamfsCd(name) ==
  /\ \/ name = "/" /\ current_directory' = 0
     \/ name = ".." /\ current_directory < Len(directory_table)
        /\ current_directory' = directory_table[current_directory + 1].parent_dir
     \/ Named(directory_table, name) > 0
        /\ current_directory' = Named(directory_table, name) - 1
  /\ UNCHANGED <<directory_table, file_table, tmp_root, tmpBlocks, written, shown>>

WithoutFile_ShiftsShort(i) ==
  IF i < Len(file_table) - 1 THEN RemoveAt(file_table, i + 1) ELSE RemoveAt(file_table, i)

\* The records behind move up by one
WithoutFile(i) == RemoveAt(file_table, i)
RamfsRm(name) ==
  /\ Named(file_table, name) > 0
  /\ file_table' = WithoutFile(Named(file_table, name))
  /\ written' = Forget("ramfs", current_directory, name)
  /\ UNCHANGED <<directory_table, current_directory, tmp_root, tmpBlocks, shown>>

\* fs_rm_wildcard of the shell, from the last record to the first
FsRmWildcard(matching) ==
  /\ file_table' = SelectSeq(file_table,
       LAMBDA f : ~(f.parent_dir = current_directory /\ f.name \in matching))
  /\ written' = { w \in written :
       ~(w.fs = "ramfs" /\ w.dir = current_directory /\ w.name \in matching) }
  /\ UNCHANGED <<directory_table, current_directory, tmp_root, tmpBlocks, shown>>

\* Refused when files name this index; other directories do not count, and the
\* indices of the directories behind change under their files
RamfsRmdir(name) ==
  LET i == Named(directory_table, name) IN
  /\ name /= "/" /\ i > 0
  /\ \A f \in DOMAIN file_table : file_table[f].parent_dir /= i - 1
  /\ directory_table' = RemoveAt(directory_table, i)
  /\ UNCHANGED <<file_table, current_directory, tmp_root, tmpBlocks, written, shown>>

\* ramfs_list_items, ramfs_pwd, ramfs_cat and ramfsread_at; the last looks for
\* the name in every directory
RamfsShow(name) ==
  /\ shown' \in
       { [call |-> "ls", dir |-> current_directory,
          dirs |-> SelectSeq(directory_table, LAMBDA d : d.parent_dir = current_directory),
          files |-> SelectSeq(file_table, LAMBDA f : f.parent_dir = current_directory)],
         [call |-> "pwd", path |-> IF current_directory = 0 THEN <<"/">>
                                   ELSE IF current_directory < Len(directory_table)
                                   THEN <<"/", directory_table[current_directory + 1].name>>
                                   ELSE <<"/", "?">>],
         LET i == Named(file_table, name) IN
         [call |-> "cat", dir |-> current_directory, name |-> name,
          content |-> IF i = 0 THEN Nothing ELSE file_table[i].content],
         LET Same(f) == f.name = name  i == FirstOf(file_table, Same) IN
         [call |-> "read_at", name |-> name,
          content |-> IF i = 0 THEN Nothing ELSE file_table[i].content] }
  /\ UNCHANGED <<directory_table, file_table, current_directory, tmp_root, tmpBlocks, written>>

TmpNamed(name) == LET P(n) == n.name = name IN FirstOf(tmp_root, P)
TmpWithout(name) ==
  IF TmpNamed(name) = 0 THEN tmp_root ELSE RemoveAt(tmp_root, TmpNamed(name))

\* tmp_add_file: the old file goes first, and stays gone when the memory of the
\* new one (a node and a buffer) cannot be had
Forsaken(name) == { w \in written : w.fs = "lost" /\ w.name = name }
TmpAddBase_KeepsOld(name) == tmp_root
TmpAddBase(name) == TmpWithout(name)
TmpAddFile(name, content) ==
  /\ tmpBlocks' = IF tmpBlocks >= 2 THEN tmpBlocks - 2 ELSE 0
  /\ IF tmpBlocks >= 2
     THEN /\ tmp_root' = <<[name |-> name, content |-> content]>> \o TmpAddBase(name)
          /\ written' = Record("tmpfs", 0, name, content) \ Forsaken(name)
     ELSE /\ tmp_root' = TmpAddBase(name)
          /\ written' = { IF w.fs = "tmpfs" /\ w.name = name THEN [w EXCEPT !.fs = "lost"] ELSE w : w \in written }
  /\ UNCHANGED <<directory_table, file_table, current_directory, shown>>

TmpRemoveFile(name) ==
  /\ TmpNamed(name) > 0
  /\ tmp_root' = TmpWithout(name)
  /\ written' = Forget("tmpfs", 0, name)
  /\ UNCHANGED <<directory_table, file_table, current_directory, tmpBlocks, shown>>

\* tmp_get_file; tmp_list shows the list itself
TmpGetFile(name) ==
  /\ shown' = [call |-> "get", name |-> name,
               content |-> IF TmpNamed(name) = 0 THEN Nothing ELSE tmp_root[TmpNamed(name)].content]
  /\ UNCHANGED <<directory_table, file_table, current_directory, tmp_root, tmpBlocks, written>>

\* The two share nothing, so a run uses one of them (a bound)
UsesRamfs ==
  /\ tmpBlocks = TmpBuffers
  /\ \/ \E n \in RamNames : \/ RamfsMkdir(n) \/ RamfsRm(n) \/ RamfsRmdir(n) \/ RamfsShow(n)
                            \/ \E c \in RamContents : RamfsTouch(n, c)
     \/ \E n \in RamNames \union {"/", ".."} : RamfsCd(n)
     \/ \E matching \in SUBSET RamNames : FsRmWildcard(matching)

UsesTmpfs ==
  /\ Len(directory_table) = 1 /\ file_table = <<>>
  /\ \E n \in RamNames : \/ TmpRemoveFile(n) \/ TmpGetFile(n)
                         \/ \E c \in RamContents : TmpAddFile(n, c)

VolatileNext == shown = NoCall /\ (UsesRamfs \/ UsesTmpfs)

VolatileTypeOK ==
  /\ Len(directory_table) \in 1..MAX_DIRECTORIES /\ Len(file_table) \in 0..MAX_FILES
  /\ current_directory \in 0..(MAX_DIRECTORIES - 1) /\ tmpBlocks \in 0..TmpBuffers

-----------------------------------------------------------------------------
\* Both file systems are maps from (directory index, name) to what was last
\* written there: no record is doubled or revived by a removal or by a replacement
\* in between, none goes that was not removed, but for the old file of a replacement
\* in tmpfs that failed, and ls, cat and get show that map.
FilesAreWhatWasWritten ==
  LET ram == { w \in written : w.fs = "ramfs" }
      tmp == { w \in written : w.fs = "tmpfs" }
      lost == { w \in written : w.fs = "lost" }
      at(ws, dir, name) == { w.content : w \in { v \in ws : v.dir = dir /\ v.name = name } }
      is(c) == IF c = Nothing THEN {} ELSE {c}
  IN /\ Len(file_table) = Len(SetToSeq(ram)) /\ Len(tmp_root) = Len(SetToSeq(tmp))
     /\ \A w \in ram : \E i \in DOMAIN file_table :
          file_table[i] = [name |-> w.name, parent_dir |-> w.dir, content |-> w.content]
     /\ { w.name : w \in lost } \cap { f.name : f \in ToSet(tmp_root) } = {}
     /\ \A w \in tmp : [name |-> w.name, content |-> w.content] \in ToSet(tmp_root)
     /\ /\ shown.call = "cat" => is(shown.content) = at(ram, shown.dir, shown.name)
        /\ shown.call = "get" => is(shown.content) = at(tmp, 0, shown.name)
        /\ shown.call = "ls" =>
             { f.name : f \in ToSet(shown.files) } = { w.name : w \in { v \in ram : v.dir = shown.dir } }
=============================================================================
