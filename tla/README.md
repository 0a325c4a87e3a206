# BlueOS in TLA+

BlueOS is a small Unix-like kernel in C for 32-bit x86, with a second port to
riscv.  This directory models the parts of it that keep state, checks them with
TLC on small instances and proves the most important facts with TLAPS.

## The system

One processor.  Interrupt gates clear the interrupt flag, so a handler runs to
its end.  After `arch_enable_interrupts` (init/all.c:150) two things run: the
boot thread, which goes on with init_all and k_main and then idles, and
interrupt handlers.  The keyboard handler runs the whole shell, and with it every
shell command; the timer handler counts milliseconds and runs alarms.  So the
only concurrency is: the boot thread, cut at any point by handlers that are
atomic.  There is no scheduler at work: `schedule` picks a task but the switch
is commented out (kernel/sched.c).

| component | state | operations | what makes it correct |
|---|---|---|---|
| frame allocator (arch/common/memory.c, kernel/mm/pmm.c) | two bitmaps, `next_free` | kmalloc, pmm_alloc_frame, pmm_free_frame, mm_protect_region | no frame has two owners; the kernel image is never given away |
| swap, mprotect, kfree, demand paging | slots in use, the same bitmaps | page out, page in, set flags | slots match pages; the kernel's pages stay protected |
| VFS, BlueXFS, initramfs, file calls | inode tables in 4 groups, block bitmaps, node copies, current directory, descriptors | look up, mkdir, create, rm, chdir, ls, tree, open, unpack | tables agree, the tree has no loop, held nodes stay true, data is bound to the right file |
| locks (kernel/locking) | words changed by atomic exchange or compare-and-swap | spinlock, mutex, semaphore, rwsem | mutual exclusion, tokens and waiters add up |
| keyboard, shell, users, terminals (kbd_common.c, 8042/keyboard.c, commands.c, auth.c, tty.c) | key ring, line, users, session, active terminal | type, erase, enter, login, run a line, switch terminal, get_char | the unlocked ring is a queue; a session has one user, one terminal, a password |
| timer and clock (arch/x86/timer.c, rtc.c) | milliseconds, 32 alarms, the chip's divisor | tick, set, cancel, sleep, read the clock | a one-shot alarm fires once, a repeating one each period, none early or late; a time that is shown is the time |
| boot, tasks, scheduler, pledge | step of the boot, task list, ready queue, promise mask | boot step, create, schedule, exit, pledge, check | nothing is used before it is ready; pids distinct; promises only shrink |
| kernel log (printk.c) | ring, `at_line_start` | print a character, print from a handler, dmesg | the ring is the end of what was logged |
| slab caches, LRU lists, notifier chain, oom killer | lists | allocate, free, touch, evict, register, call | lists stay whole, nothing is given out twice |
| eBPF, sysctl, command line, power states | registers, a table, a frequency | run, set, get, search | an answer is what the input says |
| shell commands, qsh (commands.c, qsh.c) | variables, aliases, loop devices, files; a line, a history, a script | set, alias, ed, cp, mv, rm; edit, recall, run, source | a line does what it says |
| line discipline (tty.c) | a ring per terminal | tty_input, tty_read, switch | lines arrive as they were edited |
| text and ciphers (usr/lib/string.c, commands.c, crypto) | none, or a staged block | match, scan, expand, hash, unpack, encipher | a result is what the function is for |
| ramfs, tmpfs, ext2, btrfs, fat, jfs | tables, bitmaps, cached blocks, a journal | make, replace, remove, read, flush, checkpoint | a file is what was last written to it |
| terminals on the screen, frame buffer (vt100.c, vt220.c, ansi_tty.c, fb.c) | cells, cursor, parser; pixels | write, switch; rectangle, glyph, scroll, mmap | the screen shows what was written |
| network (rtl8139.c, net/stack.c, virtio_net.c) | receive ring, gateway, TCP numbers | interrupt, ARP, ICMP, GET, ping | frames are taken in order and whole |
| disks (disk.c, ata.c, pci.c, drivers/block) | table of disks, sectors | scan, read, write, attach | what is there is found, what was written is read |
| interrupts (idt.c, irq.c, isr.c, interrupts-a.S, gdt.c, pic.c) | gates, masks, requests, lines in service | raise, accept, handle, EOI | no line is shut for good |
| programs, modules (elf.c, loader.c, exec.c, lkm.c) | memory, loaded modules | load, start, return, link | what runs is its file |
| mouse, modifiers, USB, sensor, page tables | a packet, flags, addresses, offsets, tables | byte, key, port, read, map | they follow what happened outside |

How they interact: everything takes pages from kmalloc; the VFS takes one page
for every component of every look-up; the shell calls the VFS and the system
calls in interrupt context; initramfs fills BlueXFS through the VFS at boot; the
file data stays in the frames where the boot loader left the archive.  The other
components of the table share no state with each other in the code, apart from
pages and the screen: ramfs, tmpfs, the network, LZ4 and the ciphers, and several
other parts are not called by the rest of the kernel yet.

Hard behaviours: handlers between two steps of the boot thread; memory that only
runs out (kfree gives nothing back) and what each caller does then; node copies,
a current directory and descriptors that outlive the look-up that made them; calls
that fail half way (mprotect, swap-in, the unpacking of the archive, the linking
of a module); tables and rings at their limits; pointers into caches and lists
that change under them; numbers at the edges of their fields.  Frames may be lost,
late and doubled on the network, and a disk's sector may time out.  Apart from
the btrfs cache, which is written back and mounted again, nothing survives a
restart.

## Modules

### FrameAllocator (with FramePool, FrameAllocatorProofs, MCFrameAllocator)

A frame is its index in the bitmaps, a bitmap the set of indices whose bit is 1.
`held` and `via` record who was given what by which call, so that frees and
page-outs are made by owners.  kmalloc in the boot thread is two actions, the
scan (`KmallocScan`) and the marking (`KmallocMark`); with `Interruptible` TRUE
the other clients, which run in interrupts, act in between.  pmm_alloc_frame is
one action: it sets the bit in the same loop round that looked at it, and the
window of a few instructions there is the same hazard as kmalloc's.
mm_mprotect_set_flags changes the pages up to the first bad one (`Reached`).
Nothing that runs in an interrupt handler calls pmm.c, swap, mprotect or demand paging
(the calls in isr.c are commented out), so these wait until no kmalloc is half done
(`Idle`).
FramePool is the promise: a pool of free frames of which clients are granted
some; `ImplementsPool` states that the allocator refines it, the pool being the
RAM outside the kernel image and the free frames those with neither bit.

* `frames`: interrupts off in the allocator; everything holds.
* `frames_irq`: interrupts on, as they are; `Exclusive` fails: the boot thread's scan
  finds a run, a kmalloc in an interrupt takes it, the boot thread marks it and has it too.
* `frames_ramdisk`: the frames of the archive are handed out.

Bounds: five frames with a hole below the kernel and two above it, bits for one
frame more than RAM, three clients, requests of one or two pages: every search
can start before, in and after each hole, wrap, and fail.

### Namespace (with NamespaceProofs, Induction, MCNamespace)

See the module's head comment for nodes and names.  `Finddir` is the look-up of
one part, `Ls`, `Tree` and `Rm` are the commands that walk the tree and change
nothing but the pages they use up (vfs_rm reaches no unlink of XFS), `Cwd` the path
that vfs_get_cwd prints.  The pages kmalloc can still
give are a counter that only goes down (`pages`), because kfree gives nothing
back; every look-up spends them, also when it fails, and so every action says
what is left.  Look-ups are the function `Walk` folded over the parts of a path.
The boot thread's steps are actions under the control of `boot`; the unpacking
of one file is split into its look-ups and creations, which nothing interrupts.

* `namespace`: all properties, memory running out within about five commands.
* `namespace_parent`: a directory below a file.
* `namespace_tree`: the system tree that is lost when XFS is mounted.

Bounds: two groups of three inodes and four blocks, an archive of three entries
(a directory, a file in it, a name with a blank), four paths, one descriptor,
thirteen pages: eight are spent by the boot, the rest by commands, so that every
look-up can be the one that finds no page.  Data fits a page; a path is cut into
parts already; names are shorter than 64 bytes.  Deadlock is not checked: the
system really stops when it is out of pages.

### Locks (with LocksProofs, MCLocks)

Each primitive of kernel/locking is a word in memory and a few atomic steps; an
action is one access of a word (`SpinTry` is the xchg, `SemLoad` and `SemCas` the
load and the compare-and-swap of sem_down, and so on); `pc` says where in a
function a thread is and `seen` is the value it loaded and compares later.
Nothing in the tree calls these functions yet: the threads are any callers that
take one lock at a time and release it.

* `locks`: exclusion of the spinlock, exact accounts of the semaphore's tokens
  and waiters, readers or one writer.
* `locks_mutex`: two threads are past mutex_lock at once, because a failed
  compare-and-swap also returns 0.

Bounds: three threads, two tokens; every thread uses every lock, any
interleaving.  Three threads give two that wait while one holds, two readers
beside a writer, and more threads than tokens.

### Console (with CharQueue, ConsoleProofs, MCConsole)

The keyboard handler runs with interrupts off and runs the shell, so `handler`
says where it is: not running, in the login dialog, between the commands of a
line, asleep in timer_sleep.  Only when it is not running do the thread and the
timer take steps.  A key stands for a whole command word, an erase or an enter;
a line is the sequence of commands joined by `&&`.  cmd_logout and cmd_usr are
declared int and return nothing, so after them the line may go on or stop.  A
name or password that fills its array has no end mark, so how it compares is
left open (`CheckLogin`).  timer_ms is not volatile: whether the compiled loop of
timer_sleep loads it again is chosen once (`reloads`).  `login_tty` is history:
the terminal of the last login.  get_char is two actions, the load of the
character and the move of the tail, with the handler possibly in between.
CharQueue is the promise of the ring, and `ImplementsQueue` states that the
ring refines it.

* `console`: everything holds.
* `console_pwait`: pwait never comes back.  Fairness: the handler goes on with
  what it can do (a processor does), and the timer's interrupts keep coming
  whenever they can be taken (a periodic timer).

Deadlock is not checked: the machine really stops in pwait, and a key is never
owed.  Bounds: two terminals, lines of two commands, a ring of three slots, two
users whose names and passwords are each other's and one of which fills its
array, one tick per sleep: the ring fills, wraps and empties, the table of
users fills, a login can succeed, fail and be cut off.

### The services (MCServices, run `services`; ServicesProofs, SideBySideProofs)

Components that share no state are written as one module each and run side by
side: `which`, chosen in the initial states, says which of them takes steps.  A
run of one is thus the same as if it were alone, and no order of two of them is
missed, since neither reads what the other writes.  Every module has its own Init
and Next.  Deadlock is not checked: each part stops at its bound, or after a reading
that nothing depends on.  No fairness is assumed: all properties are about safety.
A definition called `X_Something` is a variant of `X` with a plausible mistake,
which shows that a property depends on `X`; no Next reaches it.

| module | state and code | bounds and what is left out |
|---|---|---|
| SysTimer | `alarms`, `timer_ms`, `timer_info` are those of timer.c; a thread's timer_set_alarm is cut at each assignment (`setting`), and ticks come in between; `reading` is what the clock and cal gave | two alarms, three ticks, delays 0 and 2; instants at each change of unit; busy waits left out |
| KernelText | pure functions of string.c and commands.c; `applied` is one input with its result | patterns and names of three letters, sums of three terms, texts of three pieces |
| KernelLog | `kernel_log_buffer`, `log_ptr`, `at_line_start`; the boot thread's __putchar and log_char are cut at each load and store (`put`), and a handler prints a message between any two | ring of five, three messages, formats of four items |
| SlabCache | `slabs_partial`, `slabs_full` of each cache; `heldObjects` is history | two caches, two pages, bitmap of three bits, so that one size has more objects than bits |
| LruLists | heads, tails, counts and links, changed as list_add_head and list_remove do | four pages |
| KernelTasks | `stage` walks through init_all and k_main, with what each step needs and makes; the users a handler adds meanwhile; tasks, queue, `schedule`, `do_exit`, pledge masks, which for the swapper are memory of others (`OwnerWrites`) | three daemons, two slots, two users, pages for some only |
| KernelServices | notifier chain with a call cut between callbacks; eBPF programs; searches on the command line; sysctl; victims; power states | three blocks, programs of three instructions, lines of four characters |
| ShellCommands | `shell` is what the commands keep; a line is a sequence of commands, run one per step | two variables, aliases and loop devices; one file from the archive; four lines |
| Qsh | the editor's array, length and cursor, the history ring, a script with its flags | lines of four, history of two, five keys; the key map left out |
| LineDiscipline | the ring of each terminal, edited in place; a read cut at each load and store, keys in between | two terminals, ring of two, four keys, count modulo 4; flags stay as tty_init sets them |
| Ciphers | MD5's count and staged block; LZ4, Blowfish and DES as functions of one input | block of four bytes in calls of 0 to 9; words of four binary digits for Blowfish; real tables for DES |

In KernelServices the callback of a block may register and remove blocks,
but not both remove its own and change the chain further: notifier.c:39 then reads
a link of a block that is in no chain.

### The devices (MCDevices, run `devices`; DevicesProofs)

The same form for what is below: file systems, screens, disks and the processor.

| module | state and code | bounds and what is left out |
|---|---|---|
| VolatileFs | the two tables of ramfs, whose records name their directory by index, the list of tmpfs; `written` is what should be there | three directories, three files, five blocks |
| Ext2 | bitmaps, inodes, entries that tile a directory's block; `imported` is the copy into the VFS | one group of six inodes and eight blocks; a touch without room is undefined in C |
| BlockCache | `store` is cache and disk; files write through pointers that outlive their slots; a restart empties the cache | six slots, five blocks, three inodes, texts of up to four characters, seven calls |
| Terminal | the three drivers: cells, cursor, parser state and parameters; the switch of terminals | screens of two by two and three by two, five characters, four parameters |
| Framebuffer | `pixels` is the array, `picture` what was asked for | two screens, glyphs of two by two, two drawings; numbers of the width of a uint32_t wrap at 64, and what lies behind the screen is one colour |
| Network | ring, `rx_ptr`, `capr`, numbers; frames on the `wire` may be lost, late or doubled; the card may be initialised again, which the run of the model ends with | ring of 32 in a buffer of 41, frames of 5 to 11, four frames, two hosts |
| Storage | disks found, RAM disk, loop devices, journal; a FAT file read cluster by cluster; each sector may time out, and what the stack held takes its place | two disks, three volumes, journal of two |
| Interrupts | descriptors, gates, the two chips with the second's poll mode, `frames` under way; handlers with their EOIs and that of the stub | five lines, four interrupts, one masked line, depth three |
| Programs | memory keeps what was left in it; programs are on a stack; modules are linked section by section until one step fails; `spoiled` is what a kfree or a failed sys_exec wrote over since | three pages behind a pool of eight words, four loads |
| Devices | mouse packets, modifiers, USB addresses, sensor, vmm_map with tables in frames used before | moves of -200 to 128, three addresses, two-entry tables, four calls |

* `services`: `ServicesTypeOK` (types and ranges), `ConversionsAgree` (what an
  interpreter or converter gives is what its format says), `LogIsTail`,
  `ListsStayWhole`, `TasksSound`, `LinesSound`, and the action properties
  `AlarmsOnTime` and `PledgesShrink`.  Everything holds, within the conditions that
  the properties state: what goes wrong outside them is the first list of the next section.
* `devices`: `FilesSound`, `ScreensSound`, `StorageSound`, `NetworkWorks`,
  `ProcessorSound`, `DevicesSound`, each a conjunction of the named properties of its
  parts.  Everything holds likewise.

The bounds let the tables fill and the rings wrap, and give each list a first,
a middle and a last entry; the cache of BlockCache has a slot more than there are
blocks, so that block_get always finds a clean one (with every slot dirty it returns
a null pointer that its callers use).  Where the code's limit is a number (bits
of a slab, columns of a screen, size of a ring) the instance has a small one
of the same kind.

## Where the code breaks a promise

Beside what the six violation runs show, the modules below do these things, each against a
comment or a message of the code.  The properties except exactly them, and say what
holds all the same.

* mprotect.c:52 lets acceptable privileges lift a block; the check for the kernel's pages
  (36) meets the bit that PROT_NONE has set, so no call lifts one (`Blocked`).
* printk.c:129 says that a message is always stored in the ring; a handler that prints
  between the store of a character and the move of log_ptr (80) writes over it
  (`put.torn`).  `LogIsTail` says that nothing logged later is harmed.
* A tick between `active = 1` and `repeat` (timer.c:135) finds the flag that the slot's last alarm has left: a
  one-shot alarm rings again, a repeating one once; before `interval` is written it finds the
  old period.  `AlarmsOnTime` says that no other tick finds a slot so (`HalfSet`).
* auth_init (all.c:153) runs after interrupts are on (150) and forgets a user that a handler
  added, who was told "registered successfully" (auth.c:29): the one thing in `TasksSound` used
  before it is ready.
* kernel.c:27 calls struct proc compatible with task_t; pledge_active is not at the same
  place, so the swapper's pledge is other variables (kernel.c:170, `OwnerWrites`).
* test.c:31 says that it clears garbage; it is the pledge of the current task.
  `PledgesShrink` excepts these two tasks.
* tty.c:135: a backspace between the loads of tty_read (147) takes the character that the read has
  in hand; count goes below zero and the ring seems to hold 2^32 characters (`crossed`).
  tty.c:136 has tty_read wait for a newline; it gives half a line, or nothing.
* ed says "Saved to" (commands.c:1449), and cp and dd copied, of a file whose content xfs_vfs_create has dropped
  (xfs.c:113); mv says moved of a file whose node only was renamed (commands.c:319).
  `LinesSound` says that the other files keep their content.
* btrfs.h:48 has the flush write all that is pending; what btrfs_create_file sets up goes
  through a pointer whose slot block_get has given to the bitmap (btrfs.c:45, 179), so the file has no
  inode on the disk.  `FilesSound` says what a file keeps whose inode did arrive.
* pic.c:89 says that pic_mask_irq disables one line; after an interrupt of lines 12 to 15 its
  read is a poll that accepts another (interrupts-a.S:142).  `ProcessorSound` says that no other
  line is ever shut; pic_mask_irq has no caller yet.
* usb_hub.c:32 says that the bus' structures are reclaimed when a device is detached; its
  address is not, so usb_core_register_device ends with none left (usb_core.c:25).

## Known and not a property

Facts about the code that were met on the way.  No comment or test promises
otherwise, or the model leaves the case out, or a property states its condition so.

* Tree: touch of an existing name makes a second record, which a look-up finds
  first if it falls in a lower group; the shell's cd does not change current_path of
  the system calls (syscall.c:176); rm of a file always fails, XFS
  having no unlink; there is no close, so after 13 opens every
  open fails (syscall.c:92); strtok keeps its place in one static pointer (vfs.c:46);
  k_main's chdir comes after interrupts are on.  vfs_mkdir_recursive, vfs_mount,
  initrd_init and create_partition have no callers.
* Memory: total_pages is not cut to the bits of the bitmaps (memory.c:84), which the
  model assumes it is; slabs_free is never used; vmm_map with no frame left puts a
  table at frame 0, and is called even when paging is off.
* Keyboard: stty changes a struct whose layout is not that of the keyboard's state
  (commands.c:87, kbd_common.c:11); handler and login dialog keep separate shift
  flags (commands.c:98); resolve_alias's result is not used (commands.c:1574);
  auth_init prints that a user 'root' was created and creates none (auth.c:18); releasing one
  shift of two clears both (vt/keyboard.c:28).
* Locks: a handler that takes a spinlock its own processor holds would spin for ever
  (spinlock.c:25); no handler takes one.
* Tasks: the threads of k_main never run on x86, where nobody calls schedule; a task that breaks
  its promise stops the machine, since do_exit waits for a switch that schedule does not make; what sys_pledge
  on the swapper writes into foreign memory is not followed further.
* Interrupts: no stub calls mouse_handler for line 12, though interrupts-a.S:77 names
  it; the first chip gets two EOIs for each line, the second one and then the vector; a
  program started from the keyboard's handler leaves the line in service until the next
  second EOI; every exception panics.
* Terminals: erasing goes back past a completed line (tty.c:95); tty_read has no caller
  (the model lets one thread read); CSI m reads four parameters, given or not; the
  position of ANSI's H is not cut to the screen; VT220 keeps a cursor of its own (vt220.c:8),
  which tty_switch neither saves nor brings back; fb_scroll_up by more than the height copies over
  all memory (fb.c:335).
* Text: printf's -n, %u and %t; `rm *` removes the files of ramfs; unknown commands
  return 0; a nested if in a skipped branch of a script ends the skipping
  (qsh.c:384); recalling a line beyond the history (qsh.c:304).
* Files: btrfs_unlink takes the inode of the directory, frees block 0 and may clear the
  bitmap (btrfs.c:235); the 31 bytes of a name of 28 reach the next inode (185); a replacement in
  tmpfs that fails has lost the old file (tmpfs.c:16); ext2_mkdir with no block left writes over
  block 0 of the disk, and reading the group table runs past a variable on the stack
  (ext2.c:98, taken as harmless); removing the first entry of an
  ext2 directory hides the rest; fat16 ignores the chain and fat32_cat shows one
  sector per cluster; jfs_checkpoint reports each block as synced and writes nothing
  (jfs.c:12), so `JournalKeeps` says only that no transaction is overwritten before one;
  jfs_write copies 4096 bytes from a small inode; after a table sector that fails, fat32_cat
  may show another file (fat32.c:104); a sector that
  fails is not reported.
* Devices: pci_check_device reads the device id at offset 2; the fifth disk has the
  fourth's name; samples that overflow a short spoil the calibration (core.c:60); a
  move of 128 to 255 is taken for one of 256 less (mouse.c:67), which `PointerFollows` counts;
  packets handed to the card lie on a stack.
* Network: a second rtl8139_init resets the card, which then writes from offset 0 on, and leaves
  the static rx_ptr where it was (rtl8139.c:11, 250); before the first one the senders write to
  the ports of io_base 0; the last two bytes of the CRC of a frame of 1518 that begins in the
  ring's last word lie behind rx_buffer (17).
* Ciphers: the 48th entry of FP_Table is 11 where the inverse needs 27 (des.c:18), so
  decryption does not restore every block; the low word of ChaCha20's counter wraps
  without carry (chacha20.c:93); SHA-256 has 8 of its 64 constants.
* Others: a notifier callback that takes itself out (notifier.c:39, see above);
  powersave cannot be reached (cpufreq.c:34); eBPF programs may name registers that
  do not exist; a module that fails keeps its pages (lkm.c), a section of more than a
  page writes into the next; no buffer of a program comes back, though loader.c:101 recycles
  resources, and kfree sets the last word below it to 1 (malloc.c:22); nobody keeps kmalloc
  out of the memory at 0x500000 that exec.c:50 uses, which lies apart in the model.

## What is proved

Every theorem of PROJECT.json holds for all values of the constants that the
named assumptions of the module allow; further hypotheses are given here.

| module | about | the inductive invariant, and why |
|---|---|---|
| FrameAllocatorProofs | frames (`~Interruptible` where the run with interrupts shows it is needed) | a run that was found is inside RAM and no memory is held without an origin; every held frame is marked or protected (`Grounded`), so a frame that is given out was nobody's |
| LocksProofs | the lock words, any number of threads | where the threads are: the count and its holders add up to the tokens, the rwsem's counter is its readers or -1 |
| ConsoleProofs | session, login, ring, arrays | few actions touch the session (`SessionSteps`) or the ring (`RingSteps`); a thread in get_char has loaded the character at the tail, and the handler only writes where the tail is not |
| NamespaceProofs | the tree of BlueXFS and the unpacking of the archive | `TreeInv`, `ArchiveInv`, `LoadInv`, below |
| ServicesProofs | tasks, alarms, log, slabs, LRU lists | `TasksInv`, `TimerInv`, `LogInv`, `SlabInv`, `LruInv`, below |
| SideBySideProofs | notifier chains, victims, teletypes, QSH, the shell; all services together | `ChainInv`, `VictimsInv`, `LinesInv`, `QshInv`, `ShellInv`, below |
| DevicesProofs | interrupts, small drivers, terminals, frame buffer, network | `InterruptsInv`, `DevicesInv`, `TerminalInv`, `FbInv`, `NetInv`, below |

FrameAllocatorProofs also shows for each action what it does to free and held
frames (`StepsAreOfAKind`) and so maps it to Grant, Return, Lose or a stutter of
FramePool; ConsoleProofs does the same with the ring and CharQueue.
`SearchFindsAFrame` needs no invariant beyond the types: whatever next_free is, the
two loops look at every index below the bits.

**Namespace.**  `TreeInv` ties inode numbers to the slots of the groups and says
that a parent is the root or has a smaller number, which is why there is no loop;
that a working directory printed leads back to the node is by induction along its
path.  `ArchiveStaysIntact` assumes `PlainArchive`, no "." or ".." in a name of the
archive, and follows for each bound record the names from the root to it.
`ArchiveGetsLoaded` assumes also `TreeArchive`: a file comes once and has nothing below
it, and no path is empty.  The initramfs reader does not check either.  `LoadInv` says what the
entries unpacked so far have left (`LoadedUpTo`), what the entry in work has made
of its path (`Progress`), and that a record stays what its entry said (`RecordFits`); that
pages or inodes ran out is never undone, so one such step ends all promises.

**Tasks, alarms, log.**  TasksSpec, TimerSpec and LogSpec are the parts of MCServices on their
own.  Tasks: a step of the boot is only reached after those that make what it needs
(`BootOrder`), pids come from one counter, and a daemon that is still to be made has not pledged (`Unpledged`).  Alarms: an alarm being set by the
thread, in any of its half-written states, is one of the cases of `TimerInv`, because
the tick may come there: until SetRepeat the slot has the flag of the alarm before, until
FinishSetting its interval, and only for that slot and those steps the ringing is not as it
was asked for.  Log: for some b, the character
number x of all that was logged since the last torn log_char is in cell b + x mod the length
of the ring (`RingHolds`), a log_char under way has stored its character at log_ptr unless a handler came
(`CharAsItWas`), and `Stamped` ties `at_line_start` to the last character; what printf makes of a format (a recursion over its items, digits and
characters) is a text of characters by the lemmas of Induction.

**Lists.**  `ListsAreWhole` is a theorem of MCServices' `Spec`, as are the next two:
`ServicesSteps` says that a step of one service is a step of it and leaves the others
alone.  What a list in memory is cannot be read from its links at one place, so each
invariant says that there is a sequence of which the links are the picture, and an
operation is shown to change that sequence.  Slabs: `SlabInv` says that pages in the lists
are distinct, within and between caches, and that what a client holds is marked in one of
them.  LRU: `LruInv` gives a sequence for each list, to which heads, tails and both links
of each page fit (`Linked`), whose members are the pages of its status; unlinking a page at
either end or in the middle gives the sequence without it.  Chains: `ChainInv`
gives the sequence to which head and next lead, in the order of priorities; while a call is under
way it has a place in the sequence (`GoesOn`) such that the blocks before it that
were there all along have been visited, and the others have not, however callbacks
change the chain.  `VictimsInv`: who was killed has no pages left, and had as many as any
candidate.

**Lines.**  `LinesAreSound`.  Teletypes: `Before` is the ring as a read found it and
`InStep` says how far the keys of the interrupt and the read's own steps have taken it from
there; `Holds` says which cells are what was typed and not read.  A terminal a key has cut
into the read of (`crossed`) is excepted: there the count and the cells part.  QSH: the array
up to `ptr` is the text before the cursor and the text after it; the history is the
ring of the newest distinct lines; a script's flags are those of the last if
before the line it is at.  Shell: a table of names has each name once and says what a
command that succeeds means (`TableHolds`), through every command of a line.

**Types.**  `ServicesAreTyped`: the types of the services, from their
invariants, with the assumptions of SysTimer and KernelTasks as hypotheses.

**Devices.**  `InterruptsInv` says what is in service on each chip at each place of a
handler: the stub's EOI, the first chip's second one, clears a line of a lower frame, which can only be
the keyboard's, under a program it started; the second chip has the handler's line only, until a
poll accepts another.  `DevicesInv`: the bytes taken and the bytes left of a mouse
packet are the packet; the pages that vmm_map has filled say what was asked for,
as long as no table lies at frame 0 (`Says`), by induction over the pages of a call.

**Screens.**  `ScreensAreRight` is a theorem of MCDevices' `Spec`.  The lines of a text are a
fold over it; `LinesOfOneMore` says what one character more does to them.  Every character
to every driver then has one `Effect` of five: a letter is drawn, a line ends,
the screen is cleared, the cursor moves (after which nothing is promised until the
next clearing), or no trace; and each of them keeps the screen the end of the lines (`Told`).
`TerminalInv` adds that the parser of VT220 never leaves its first state and that
the parked terminal shows its own text in the text modes, whose memory tty_switch saves;
with VT220, whose cursor it does not know, nothing is promised after a switch.
`FbInv` says, until a scroll by more than the height, that pixel y * width + x is the point (x, y) of the picture; `PixelOf` and `PointOf`
are the arithmetic, by which a shape that is cut at the right edge does not
come back on the next line.

**Network.**  `NetworkIsSound`, of MCDevices' `Spec`.  `NetworkAssumption` says what the code takes for
granted: a ring of at most 64 KiB, aligned to four; no frame longer than half of it, nor reaching
more than two bytes behind the buffer when it begins in the ring's last word; frames with
content are longer than their headers; no text so long that the 32-bit sum overflows.  `NetInv`: where
the unread frames lie cannot be read from the ring, in which old frames remain, so `RingInv` says that
there is a sequence of distances behind the driver's place (`Places`), each the length of the frames
before it, and none reaching around to the driver; writing a frame adds a distance and reading
one takes the length of the first from all others.  All this holds until the card is initialised
again while the driver is not at the ring's start (`astray`).  `FramesInv`: a SYN-ACK bears the number of a
SYN of its host, and so does each GET, however often frames come.  `SumsInv`: one function adds
up words in network order, taking 65535 off on the way, and the other in the processor's order, folding
at the end; both are, modulo 65535, what was summed, by induction over the words, because to swap the two
bytes is to multiply by 256; folding ends by descent.

Induction is over sets: `SetInduction` says of a set of numbers that it holds 0 and with i
also i + 1.  Theorems that take an operator as parameter cannot be used, and recursive functions
and folds exist by `RecursionExists` and `FoldExists`.  The modules use no RECURSIVE operator.

Only model-checked: `ConversionsAgree`, `FilesSound`, `StorageSound`,
`ProcessorSound` (of which `InterruptsSound` is proved), the properties of the runs that find a violation, and `PwaitReturns`, which is
about fairness and so out of the prover's reach.  What the recursive functions of
KernelText, KernelServices and Ciphers compute is compared with reference definitions
over bounded inputs; a proof would need induction over data.  The prover cannot expand
SelectSeq, on which lists of Storage and Programs rest.

## Plan

1. Done: all modules of the inventory that are planned, checked; the proofs of FrameAllocator, Locks,
   Console, Namespace, of all services of MCServices but the conversions, and of Interrupts,
   Devices, Terminal, Framebuffer and Network.
2. Theorems to come, in this order:
   `CacheCoherent` of BlockCache; the journal of Storage; memory and modules of Programs.

## Not modelled

See PROJECT.json: the components with status not_modelled, and the notes of those
that are partly modelled.  In short: registers of devices and protocols with them
(sound, SCSI, USB controllers, APIC, floppy); the riscv port, of which only the
call of schedule is; the mixing functions of the hashes; code that only prints;
file systems that are stubs; build tools.  No context switch is modelled,
because the code makes none.
