----------------------------- MODULE MCDevices -----------------------------
(***************************************************************************)
(* File systems, screens, disks, the network, the processor's tables and   *)
(* the small drivers, side by side as in MCServices: each run takes one of *)
(* them, which.                                                            *)
(***************************************************************************)
EXTENDS VolatileFs, Ext2, BlockCache, Terminal, Framebuffer, Network, Storage, Interrupts, Programs, Devices

mc_Good ==
  [magic |-> TRUE, s_inodes_count |-> 6, s_blocks_count |-> 8, s_blocks_per_group |-> 5, s_inodes_per_group |-> 6,
   s_inode_size |-> 128, s_log_block_size |-> 0, s_first_data_block |-> 0]
mc_Superblocks ==
  { mc_Good, [mc_Good EXCEPT !.magic = FALSE], [mc_Good EXCEPT !.s_inode_size = 256],
    [mc_Good EXCEPT !.s_blocks_count = 1], [mc_Good EXCEPT !.s_log_block_size = 1] }
mc_Ext2Names == {<<"a">>, <<"a", "b">>, <<"d">>}

mc_Texts == {{0, 5}, {1, 6}}

mc_Glyphs == [c \in {"a", "b"} |-> IF c = "a" THEN {<<0, 0>>, <<1, 1>>} ELSE {<<1, 0>>}]
mc_FbSizes == {<<3, 2>>, <<6, 3>>}

mc_FrameLens == [arpreply |-> 5, pong |-> 5, synack |-> 5, data |-> 7, more |-> 11]
mc_ISN == [h1 |-> 3, h2 |-> 7]
mc_ChecksumData == UNION { [1..n -> {0, 1, 127, 255}] : n \in 0..4 }

Partition(t, s, n) == [type |-> t, start |-> s, sectors |-> n]
mc_Sectors0 ==
  { [sig |-> g, gpt |-> p, header |-> h,
     entries |-> <<Partition(1, 1, 1), Partition(0, 2, 2), Partition(2, 3, 0), Partition(3, 4, 1)>>] :
      g, p, h \in BOOLEAN }
DirEntry(n, c, s) == [name |-> n, cluster |-> c, size |-> s, attributes |-> TRUE]
Volume(chain, b) ==
  [spc |-> 1, unit |-> 2, data |-> [i \in 0..3 |-> i],
   root |-> <<<<DirEntry("a", chain[1], 2 * Len(chain) - 1)>>, <<DirEntry("b", b, 2)>>>>,
   fat |-> [c \in 2..5 |-> IF \E i \in 1..(Len(chain) - 1) : chain[i] = c
                           THEN chain[1 + CHOOSE i \in DOMAIN chain : chain[i] = c] ELSE EndOfChain],
   files |-> [a |-> [size |-> 2 * Len(chain) - 1, chain |-> chain,
                     content |-> [i \in DOMAIN chain |-> chain[i] - 2]],
              b |-> [size |-> 2, chain |-> <<b>>, content |-> <<b - 2>>]]]
mc_Volumes == { Volume(<<2, 4, 5>>, 3), Volume(<<2, 3, 4>>, 5), Volume(<<4, 2>>, 3) }
mc_Pci == UNION { [1..n -> {"usb", "lsi", "ide", "piix"}] : n \in 0..2 } \union {<<"lsi", "ide", "usb">>}

Segment(v, o, f, m) == [vaddr |-> v, offset |-> o, filesz |-> f, memsz |-> m]
mc_Elfs ==
  { [ok |-> TRUE, words |-> <<7, 1, 2, 3>>, segments |-> <<Segment(0, 1, 2, 3), Segment(3, 3, 1, 1)>>],
    [ok |-> FALSE, words |-> <<5>>, segments |-> <<>>] }
mc_Binaries == {<<11, 12>>, <<13, 14, 15>>, <<>>}
mc_Args == {<<>>, <<21, 22>>}
Section(a, t, w) == [alloc |-> a, type |-> t, words |-> w]
Local(t, o, s, v, y) ==
  [target |-> t, offset |-> o, local |-> TRUE, section |-> s, value |-> v, name |-> "", type |-> y]
Global(t, o, n, y) ==
  [target |-> t, offset |-> o, local |-> FALSE, section |-> 0, value |-> 0, name |-> n, type |-> y]
Module(ok, n, init) ==
  [ok |-> ok, init |-> init,
   sections |-> <<Section(TRUE, "PROGBITS", <<1, 2, 3>>), Section(FALSE, "PROGBITS", <<4>>),
                  Section(TRUE, "NOBITS", <<8, 8, 8, 8>>)>>,
   rels |-> <<Local(1, 0, 3, 1, "32"), Global(1, 1, n, "PC32"), Local(3, 1, 1, 2, "32")>>]
mc_Modules ==
  { Module(TRUE, "printk", TRUE), Module(TRUE, "outb", TRUE),
    Module(FALSE, "printk", TRUE), Module(TRUE, "printk", FALSE) }
mc_Symtab == [printk |-> 1000, memcpy |-> 1010]

mc_Moves == {-200, -1, 127, 128}
mc_Samples == { <<0, 0, 256>>, <<3, -2, 250>>, <<-300, 4, 260>>, <<5, -5, 300>>, <<-400, 0, 256>> }

-----------------------------------------------------------------------------
VARIABLE which    \* the part this run is about

fileVars == <<volatileVars, ext2Vars, cacheVars>>
screenVars == <<terminalVars, fbVars>>
cpuVars == <<interruptVars, programVars>>
mcVars == <<fileVars, screenVars, cpuVars, netVars, storageVars, devicesVars, which>>

Init ==
  /\ VolatileInit /\ DiskInit /\ BlocksInit /\ TerminalInit /\ FbInit
  /\ NetInit /\ StorageInit /\ InterruptsInit /\ ProgramsInit /\ DevicesInit
  /\ which \in {"volatile", "ext2", "cache", "terminal", "fb", "net", "storage", "interrupts", "programs",
                "mouse", "keys", "usb", "sensor", "paging"}

Next ==
  /\ UNCHANGED which
  /\ \/ /\ which = "volatile" /\ VolatileNext
        /\ UNCHANGED <<ext2Vars, cacheVars, screenVars, cpuVars, netVars, storageVars, devicesVars>>
     \/ /\ which = "ext2" /\ Ext2Next
        /\ UNCHANGED <<volatileVars, cacheVars, screenVars, cpuVars, netVars, storageVars, devicesVars>>
     \/ /\ which = "cache" /\ BlocksNext
        /\ UNCHANGED <<volatileVars, ext2Vars, screenVars, cpuVars, netVars, storageVars, devicesVars>>
     \/ /\ which = "terminal" /\ TerminalNext
        /\ UNCHANGED <<fileVars, fbVars, cpuVars, netVars, storageVars, devicesVars>>
     \/ /\ which = "fb" /\ FbNext
        /\ UNCHANGED <<fileVars, terminalVars, cpuVars, netVars, storageVars, devicesVars>>
     \/ /\ which = "net" /\ NetNext
        /\ UNCHANGED <<fileVars, screenVars, cpuVars, storageVars, devicesVars>>
     \/ /\ which = "storage" /\ StorageNext
        /\ UNCHANGED <<fileVars, screenVars, cpuVars, netVars, devicesVars>>
     \/ /\ which = "interrupts" /\ InterruptsNext
        /\ UNCHANGED <<fileVars, screenVars, programVars, netVars, storageVars, devicesVars>>
     \/ /\ which = "programs" /\ ProgramsNext
        /\ UNCHANGED <<fileVars, screenVars, interruptVars, netVars, storageVars, devicesVars>>
     \/ /\ \/ which = "mouse" /\ MouseNext
           \/ which = "keys" /\ KeysNext
           \/ which = "usb" /\ UsbNext
           \/ which = "sensor" /\ SensorNext
           \/ which = "paging" /\ PagingNext
        /\ UNCHANGED <<fileVars, screenVars, cpuVars, netVars, storageVars>>

Spec == Init /\ [][Next]_mcVars

-----------------------------------------------------------------------------
\* Files keep what was written to them, in ramfs and tmpfs, in ext2's tables and in
\* the blocks of the btrfs cache, whatever is made, replaced and removed meanwhile.
FilesSound == VolatileTypeOK /\ Ext2TypeOK /\ FilesAreWhatWasWritten /\ Ext2Sound /\ CacheCoherent /\ FilesKeepTexts

\* The screens show what was drawn: the text of the terminals as their escape
\* sequences place it, and the frame buffer's picture, cut at its edges.
ScreensSound == TerminalTypeOK /\ ScreenShowsText /\ PixelsArePicture

\* Frames are taken in order and whole, and numbers and sums are the protocol's.
NetworkWorks == NetTypeOK /\ NetworkSound

\* Lines, gates and segments serve every interrupt once, and a program or module is
\* in memory as its file says, in frames that nobody else has.
ProcessorSound == InterruptsSound /\ ProgramsSound
=============================================================================
