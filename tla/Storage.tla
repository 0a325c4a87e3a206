------------------------------ MODULE Storage -------------------------------
(***************************************************************************)
(* Disks and what is read from them: the IDE drive with its timeouts       *)
(* (drivers/disk/disk.c, drivers/ata/ata.c), the search for disks and their *)
(* partitions (drivers/pci/pci.c), FAT16 and FAT32 files (fs/fat), the RAM *)
(* disk and loop devices (drivers/block) and the journal of JFS            *)
(* (fs/jfs/jfs.c).  A read of a sector that times out returns as if it had *)
(* worked and leaves the buffer as it was.                                 *)
(***************************************************************************)
EXTENDS Integers, Sequences, SequencesExt

CONSTANTS
  PciFunctions, \* sequences of what answers on the bus: "usb", "lsi", "ide", "piix", "other"
  MAX_DISKS,    \* 4, of disks and of partitions of one
  Sectors0,     \* first sectors: [sig, gpt, header, entries], entries being [type, start, sectors]
  Volumes,      \* FAT volumes: [spc, unit, root, fat, data, files], see below
  RAMDISK_TOTAL_SECTORS, MAX_LOOP_DEVICES,
  JOURNAL_SIZE, JFS_MAX_FILES,
  MaxSteps      \* bound: calls in a run

ASSUME StorageAssumption ==
  /\ MAX_DISKS \in Nat /\ RAMDISK_TOTAL_SECTORS \in Nat /\ MAX_LOOP_DEVICES \in Nat
  /\ JOURNAL_SIZE \in Nat \ {0} /\ JFS_MAX_FILES \in Nat /\ MaxSteps \in Nat

VARIABLES
  system_disks,  \* [kind, name, media, style, partitions]
  ramdisk,       \* sector |-> content
  stored,        \* history: sector |-> what was last written
  loops,         \* loop device |-> [fd, total_sectors, is_configured]
  journal,       \* slot |-> [transaction_id, status, target_block]
  current_tx_id,
  inode_table_jfs, \* inodes in use, [name, type], by slot
  dropped,       \* history: transactions a checkpoint took out of the journal
  answer,        \* what the last reading call gave
  calls_st

storageVars == <<system_disks, ramdisk, stored, loops, journal, current_tx_id,
                 inode_table_jfs, dropped, answer, calls_st>>

LoopInit == [i \in 0..(MAX_LOOP_DEVICES - 1) |->
               [fd |-> -1, total_sectors |-> 0, is_configured |-> FALSE]]
NoAnswer == [call |-> "none"]
Garbage == -1
NotFound == -2
StorageInit ==
  /\ system_disks = <<>>
  /\ ramdisk = [s \in {} |-> 0] /\ stored = [s \in {} |-> 0]
  /\ loops = LoopInit
  /\ journal = [i \in 1..JOURNAL_SIZE |-> [transaction_id |-> 0, status |-> "START", target_block |-> 0]]
  /\ current_tx_id = 0 /\ inode_table_jfs = <<>> /\ dropped = {}
  /\ answer = NoAnswer /\ calls_st = 0

Step == calls_st < MaxSteps /\ calls_st' = calls_st + 1 /\ answer.call = "none"
jfs == <<journal, current_tx_id, inode_table_jfs, dropped>>
block == <<ramdisk, stored, loops>>

-----------------------------------------------------------------------------
(* The drive                                                                *)

\* ide_wait_bsy_timeout, ide_wait_drq_timeout, ata_wait_bsy, ata_wait_drq: the
\* status is read until it is as wanted or the count is used up
WaitEnds == {TRUE, FALSE}
\* ide_identify_drive: no status, a timeout, an error bit, or the data
IdentifyDrive == WaitEnds
\* disk_read: does the buffer hold the sector afterwards
DiskRead == WaitEnds
\* ata_read_sector, which waits for the drive twice and for its data once
ReadSector(content, buffer, ok) == IF ok THEN content ELSE buffer

\* disk_parse_partitions: those of the table that are not empty, at most four.
\* A GPT has its entries in a sector of their own, of which only the first four
\* are read; an entry behind them, or any if the sector times out, is whatever the
\* stack holds there.
Filled_AnyType(es) == SelectSeq(es, LAMBDA e : e.sectors /= 0)
Filled(es) == SelectSeq(es, LAMBDA e : e.type /= 0 /\ e.sectors /= 0)
NamedSo(es) == [i \in DOMAIN es |-> [start |-> es[i].start, sectors |-> es[i].sectors, name |-> i]]
Garbled(n) == [i \in 1..n |-> [type |-> 1, start |-> Garbage, sectors |-> Garbage]]
ParsePartitions(s) ==
  IF ~s.sig THEN {<<>>}
  ELSE IF ~s.gpt THEN {NamedSo(Filled(s.entries))}
  ELSE UNION { IF ~header THEN {<<>>}
               ELSE { NamedSo(es \o Garbled(n)) : n \in 0..(MAX_DISKS - Len(es)) } :
                 header \in { ReadSector(s.header, FALSE, read) : read \in DiskRead },
                 es \in { ReadSector(Filled(s.entries), <<>>, read) : read \in DiskRead } }

\* disk_detect_partition_style
Style(s) == IF ~s.sig THEN "UNKNOWN" ELSE IF s.gpt THEN "GPT" ELSE "MBR"

\* disk_is_ssd_primary asks the drive again, and takes it for no SSD if that fails
DiskIsSsdPrimary == {TRUE, FALSE}

\* register_disk, for the n-th disk.  The drive is asked twice what it is, and its
\* first sector is read twice, which may be late: the second time, what was read
\* the first time may be on the stack still, or nothing that is signed.
Unsigned == [sig |-> FALSE, gpt |-> FALSE, header |-> FALSE, entries |-> <<>>]
Registered(kind, n, s) ==
  IF kind /= "ide"
  THEN {[kind |-> kind, name |-> n, media |-> IF kind = "usb" THEN "USB" ELSE "HDD",
         style |-> "UNKNOWN", partitions |-> <<>>]}
  ELSE UNION { { [kind |-> kind, name |-> n, media |-> IF ssd THEN "SSD" ELSE "HDD",
                  style |-> IF sector.sig THEN Style(sector) ELSE detected, partitions |-> ps] :
                    ssd \in DiskIsSsdPrimary, detected \in {Style(s), "UNKNOWN"},
                    ps \in ParsePartitions(sector) } :
                 sector \in {s, Unsigned} }

\* pci_find_lsi_scsi: the first such function of the bus, its place or 0
PciFindLsiScsi(found) == SelectInSeq(found, LAMBDA kind : kind = "lsi")

IsDisk(kind) == kind \in {"usb", "lsi", "ide"}
\* pci_scan_bus: the functions of the bus in order; a fifth disk is reported but
\* not kept, and an IDE controller counts if its drive answers
PciScanBus(found, s) ==
  /\ system_disks = <<>> /\ Step
  /\ \E present \in [DOMAIN found -> IdentifyDrive] :
       LET kept == SelectSeq([i \in DOMAIN found |-> i],
                             LAMBDA i : IsDisk(found[i]) /\ (found[i] = "ide" => present[i]))
           m == IF Len(kept) < MAX_DISKS THEN Len(kept) ELSE MAX_DISKS
       IN \E ds \in [1..m -> UNION { Registered(found[kept[i]], i - 1, s) : i \in 1..m }] :
            /\ \A i \in 1..m : ds[i] \in Registered(found[kept[i]], i - 1, s)
            /\ system_disks' = ds
  /\ answer' = [call |-> "scan", found |-> found, sector |-> s,
                \* pci_get_vbox_port: the device is looked for at offset 2, where the
                \* vendor is read, and never found
                scsi |-> PciFindLsiScsi(found), vbox |-> FALSE]
  /\ UNCHANGED block /\ UNCHANGED jfs

-----------------------------------------------------------------------------
(* FAT.  A volume has entries [name, cluster, size] of its root directory   *)
(* in sectors, the table cluster |-> next, data, sector |-> content, and    *)
(* for reference the files.  Cluster c begins at sector (c - 2) * spc, and *)
(* unit bytes of a file lie in a sector.                                   *)

EndOfChain == 999
ClusterToLba(v, cluster) == (cluster - 2) * v.spc

\* fat16_read_file: the sectors of the directory one after the other, in each
\* the entries up to the end mark; then the sectors of the size in a row from the
\* first cluster on (and one more if the last is full, behind the content).  failed are
\* the directory and data sectors that time out; such a directory sector is
\* searched with what was read before.
Entry16(v, name, failed) ==
  LET buffer[s \in 0..Len(v.root)] ==
        IF s = 0 THEN <<>> ELSE ReadSector(v.root[s], buffer[s - 1], <<"dir", s>> \notin failed)
      hits(s) == { e \in ToSet(buffer[s]) : e.name = name }
      sectors == { s \in 1..Len(v.root) : hits(s) /= {} }
  IN IF sectors = {} THEN {} ELSE hits(CHOOSE s \in sectors : \A t \in sectors : s <= t)
SectorsOf(size, unit) == (size + unit - 1) \div unit

Fat16ReadFile(v, name, failed) ==
  IF Entry16(v, name, failed) = {} THEN <<NotFound>>
  ELSE LET e == CHOOSE e \in Entry16(v, name, failed) : TRUE
           lba == ClusterToLba(v, e.cluster)
       IN [i \in 1..SectorsOf(e.size, v.unit) |->
             ReadSector(v.data[lba + i - 1], Garbage, <<"data", lba + i - 1>> \notin failed)]

NextCluster_TwoAhead(v, c) == IF v.fat[c] >= EndOfChain THEN v.fat[c] ELSE v.fat[v.fat[c]]
\* the next cluster by get_fat_entry
NextCluster(v, c) == v.fat[c]

\* fat32_cat: one sector of each cluster of the chain; a sector that times out
\* shows the one before it again.  After a sector of the table that does, the next
\* cluster is whatever the stack held, one of any file or elsewhere or an end mark.
Elsewhere == EndOfChain - 1
FollowersOf(v, c, failed) ==
  IF c \in DOMAIN v.fat /\ <<"fat", c>> \notin failed THEN {NextCluster(v, c)}
  ELSE DOMAIN v.fat \union {Elsewhere, EndOfChain}
Fat32Cat(v, start, size, failed) ==
  LET cat[n \in Nat, c \in Nat, buffer \in Int] ==
        IF n = 0 \/ c >= EndOfChain THEN {<<>>}
        ELSE LET at == ClusterToLba(v, c)
                 there == IF at \in DOMAIN v.data THEN v.data[at] ELSE Garbage
                 now == ReadSector(there, buffer, <<"data", at>> \notin failed)
             IN { <<now>> \o rest : rest \in UNION { cat[n - 1, next, now] : next \in FollowersOf(v, c, failed) } }
  IN cat[SectorsOf(size, v.unit), start, Garbage]

\* fat32_ls: one sector, and of it the entries with some attribute
Fat32Ls(v) == { e.name : e \in { f \in ToSet(v.root[1]) : f.attributes } }

ReadFat(v, name, failed) ==
  /\ Step
  /\ \E shown \in IF name \in DOMAIN v.files
                  THEN Fat32Cat(v, v.files[name].chain[1], v.files[name].size, failed) ELSE {<<>>} :
       answer' = [call |-> "fat", volume |-> v, name |-> name, failed |-> failed,
                  fat16 |-> Fat16ReadFile(v, name, failed), fat32 |-> shown, ls |-> Fat32Ls(v)]
  /\ UNCHANGED system_disks /\ UNCHANGED block /\ UNCHANGED jfs

-----------------------------------------------------------------------------
(* RAM disk and loop devices                                                *)

RamdiskRange(sector, count) == sector..(sector + count - 1)
\* ramdisk_init, if the memory can be had
RamdiskInit ==
  /\ Step /\ ramdisk' = [s \in 0..(RAMDISK_TOTAL_SECTORS - 1) |-> 0] /\ stored' = ramdisk'
  /\ UNCHANGED <<system_disks, loops, answer>> /\ UNCHANGED jfs

InRamdisk_OffByOne(sector, count) == sector + count <= RAMDISK_TOTAL_SECTORS + 1
InRamdisk(sector, count) == sector + count <= RAMDISK_TOTAL_SECTORS

RamdiskRw(write_op, sector, count, value) ==
  /\ Step
  /\ LET ok == InRamdisk(sector, count) /\ ramdisk /= [s \in {} |-> 0]
         hit(s) == s \in RamdiskRange(sector, count)
     IN /\ ramdisk' = IF ok /\ write_op
                      THEN [s \in DOMAIN ramdisk |-> IF hit(s) THEN value ELSE ramdisk[s]] ELSE ramdisk
        /\ stored' = IF ok /\ write_op
                     THEN [s \in DOMAIN stored \union RamdiskRange(sector, count) |->
                             IF hit(s) THEN value ELSE stored[s]] ELSE stored
        /\ answer' = IF ok /\ ~write_op
                     THEN [call |-> "ramdisk", at |-> sector,
                           content |-> [i \in 0..(count - 1) |-> ramdisk[sector + i]]] ELSE answer
  /\ UNCHANGED <<system_disks, loops>> /\ UNCHANGED jfs

LoopSetFd(id, fd, size) ==
  /\ Step
  /\ loops' = IF id \in DOMAIN loops /\ ~loops[id].is_configured
              THEN [loops EXCEPT ![id] = [fd |-> fd, total_sectors |-> size \div 512, is_configured |-> TRUE]]
              ELSE loops
  /\ UNCHANGED <<system_disks, ramdisk, stored, answer>> /\ UNCHANGED jfs
\* loop_transfer_block checks and prints; it moves no data
LoopTransferBlock(id, sector, count) ==
  /\ Step
  /\ answer' = [call |-> "loop", id |-> id, last |-> sector + count,
                ok |-> id \in DOMAIN loops /\ loops[id].is_configured
                         /\ sector + count <= loops[id].total_sectors]
  /\ UNCHANGED system_disks /\ UNCHANGED block /\ UNCHANGED jfs

-----------------------------------------------------------------------------
(* JFS                                                                      *)

FreeSlots(js) == { i \in DOMAIN js : js[i].status \in {"REVOKE", "START"} }
Checkpointed_FirstOnly(js) ==
  [i \in DOMAIN js |-> IF i = 1 THEN [js[i] EXCEPT !.status = "REVOKE"] ELSE js[i]]
\* jfs_checkpoint, which reports the blocks as synced and writes nothing to the disk
Checkpointed(js) ==
  [i \in DOMAIN js |-> IF js[i].status = "COMMIT" THEN [js[i] EXCEPT !.status = "REVOKE"] ELSE js[i]]
Committed(js) == { js[i].transaction_id : i \in { j \in DOMAIN js : js[j].status = "COMMIT" } }

\* jfs_write: a free slot, after a checkpoint if there is none
JfsWrite(target) ==
  LET js == IF FreeSlots(journal) = {} THEN Checkpointed(journal) ELSE journal
      slot == CHOOSE i \in FreeSlots(js) : \A j \in FreeSlots(js) : i <= j
  IN /\ journal' = [js EXCEPT ![slot] = [transaction_id |-> current_tx_id + 1, status |-> "COMMIT",
                                          target_block |-> target]]
     /\ dropped' = dropped \union (IF js = journal THEN {} ELSE Committed(journal))
     /\ current_tx_id' = current_tx_id + 1

\* find_free_inode, jfs_mkdir and jfs_touch: no name is looked for, so two may be
\* the same
JfsCreate(name, type) ==
  /\ Step /\ Len(inode_table_jfs) < JFS_MAX_FILES
  /\ inode_table_jfs' = Append(inode_table_jfs, [name |-> name, type |-> type])
  /\ JfsWrite(Len(inode_table_jfs))
  /\ UNCHANGED <<system_disks, answer>> /\ UNCHANGED block
JfsMkdir == JfsCreate("f", "DIR")
JfsTouch == JfsCreate("f", "FILE")
JfsLog(target) ==
  /\ Step /\ JfsWrite(target)
  /\ UNCHANGED <<system_disks, answer, inode_table_jfs>> /\ UNCHANGED block
\* jfs_recover, which only prints what it finds, and jfs_ls
JfsRecover ==
  /\ Step
  /\ answer' = [call |-> "recover", files |-> inode_table_jfs,
                replay |-> SelectSeq(journal, LAMBDA j : j.status = "COMMIT")]
  /\ UNCHANGED system_disks /\ UNCHANGED block /\ UNCHANGED jfs

\* The parts share nothing, so a run stays with the one it began with (a bound)
UsesJfs == ramdisk = [s \in {} |-> 0] /\ \A i \in DOMAIN loops : ~loops[i].is_configured
UsesBlock == current_tx_id = 0
StorageNext ==
  \/ \E found \in PciFunctions, s \in Sectors0 : calls_st = 0 /\ PciScanBus(found, s)
  \/ \E v \in Volumes : \E name \in DOMAIN v.files \union {"absent"} :
       \E failed \in SUBSET ({"dir"} \X {1, 2} \union {"data"} \X {0, 2} \union {"fat"} \X {2, 4}) :
         calls_st = 0 /\ ReadFat(v, name, failed)
  \/ UsesBlock /\ (\/ RamdiskInit
                   \/ \E w \in BOOLEAN, s \in 0..RAMDISK_TOTAL_SECTORS, n \in 0..2 : RamdiskRw(w, s, n, calls_st + 1)
                   \/ \E id \in 0..MAX_LOOP_DEVICES, size \in {511, 1024} : LoopSetFd(id, 7, size)
                   \/ \E id \in 0..MAX_LOOP_DEVICES, s \in 0..2 : LoopTransferBlock(id, s, 1))
  \/ UsesJfs /\ (JfsMkdir \/ JfsTouch \/ JfsLog(0) \/ JfsRecover)

-----------------------------------------------------------------------------
\* The disks of a scan are those of the bus in order, up to the fourth; what is known
\* of one's partitions goes with its style and is the table, all of it or nothing,
\* but for a GPT, where a read that is late leaves only garbage (register_disk,
\* disk_parse_partitions).
PartitionsAre(disk, s) ==
  LET ps == disk.partitions
      es == SelectSeq(s.entries, LAMBDA e : e.type /= 0 /\ e.sectors /= 0)
  IN /\ Len(ps) <= MAX_DISKS
     /\ ps /= <<>> => /\ disk.style = IF s.gpt THEN "GPT" ELSE "MBR"
                      /\ s.gpt \/ Len(ps) = Len(es)
                      /\ \/ \A k \in DOMAIN es : ps[k].start = es[k].start
                         \/ s.gpt /\ \A k \in DOMAIN ps : ps[k].start = Garbage
DisksAreFound == answer.call = "scan" =>
  /\ \A i \in DOMAIN system_disks : system_disks[i].name = i - 1
  /\ \A i, j \in DOMAIN system_disks : i < j =>
       \E a, b \in DOMAIN answer.found :
         a < b /\ answer.found[a] = system_disks[i].kind /\ answer.found[b] = system_disks[j].kind
  /\ \A i \in DOMAIN system_disks : PartitionsAre(system_disks[i], answer.sector)

\* With one sector to a cluster, fat32_cat shows a file of any chain and
\* fat16_read_file one in a row of sectors.  A sector that times out is another one
\* of the file or garbage; only behind a sector of the table that does, which the
\* code takes for read (fat32.c:104), may the file end or go on with another's.
InARow(f) == \A i \in 2..Len(f.chain) : f.chain[i] = f.chain[i - 1] + 1
IsSector(out, f, i, late) ==
  /\ i \in DOMAIN out
  /\ out[i] = f.content[i] \/ (late /\ out[i] \in {Garbage} \union { f.content[j] : j \in 1..(i - 1) })
FatReadsFiles == answer.call = "fat" =>
  LET v == answer.volume
      missed == answer.fat16 = <<NotFound>>
      f == v.files[answer.name]
      late(i) == <<"data", ClusterToLba(v, f.chain[i])>> \in answer.failed
      followed(i) == \A j \in 1..(i - 1) : <<"fat", f.chain[j]>> \notin answer.failed
  IN IF answer.name \notin DOMAIN v.files THEN missed
     ELSE v.spc = 1 =>
            /\ Len(answer.fat32) <= Len(f.content)
            /\ \A i \in DOMAIN f.content : followed(i) => IsSector(answer.fat32, f, i, late(i))
            /\ missed => \E s \in DOMAIN v.root : <<"dir", s>> \in answer.failed
            /\ InARow(f) /\ ~missed => /\ Len(answer.fat16) = Len(f.content)
                                       /\ \A i \in DOMAIN f.content : IsSector(answer.fat16, f, i, late(i))

\* A sector of the RAM disk is what was last written there (ramdisk_rw_sector).
BlocksHold ==
  /\ ramdisk = stored
  /\ answer.call = "ramdisk" => \A i \in DOMAIN answer.content : answer.content[i] = stored[answer.at + i]

\* A transaction of JFS is in the journal until a checkpoint took it out, never
\* both and none overwritten before, and a recovery finds them in the order they
\* were made.  The checkpoint writes none of them (jfs.c:12).
JournalKeeps ==
  /\ Committed(journal) \union dropped = 1..current_tx_id /\ Committed(journal) \cap dropped = {}
  /\ answer.call = "recover" => \A i, j \in DOMAIN answer.replay :
       i < j => answer.replay[i].transaction_id < answer.replay[j].transaction_id

\* Storage finds and keeps what is there: the disks of the machine and their
\* partitions, a file of a FAT volume, what was written to the RAM disk's sectors, and
\* the transactions of the journal up to a checkpoint (disk.c, fat32.c, jfs.c).
StorageSound == DisksAreFound /\ FatReadsFiles /\ BlocksHold /\ JournalKeeps
=============================================================================
