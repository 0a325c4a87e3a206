--------------------------- MODULE FrameAllocator ---------------------------
(***************************************************************************)
(* The physical page frame allocator: arch/common/memory.c (the bitmap,    *)
(* kmalloc), kernel/mm/pmm.c (single frames), arch/common/swap.c,          *)
(* arch/common/mprotect.c, kernel/mm/malloc.c (kfree) and the frame that   *)
(* kernel/mm/demand_paging.c takes.                                        *)
(*                                                                         *)
(* A frame is its index in the bitmaps.  The bitmaps are the sets of the   *)
(* frames whose bit is 1.  kmalloc in the main thread is two steps, the    *)
(* search and the marking, because interrupts are enabled (init/all.c)     *)
(* before the main thread creates its kernel threads and the keyboard      *)
(* interrupt runs whole shell commands, which allocate; an interrupt       *)
(* handler itself runs with interrupts off and is one step.                *)
(*                                                                         *)
(* A call that fails changes nothing and is not an action, except where    *)
(* it fails half way (mprotect).                                           *)
(***************************************************************************)
EXTENDS Integers, FiniteSets

CONSTANTS
  Clients,       (* owners of memory                                       *)
  Main,          (* the client that runs in the boot thread                *)
  BitmapPages,   (* BITMAP_SIZE * 8, the frames the bitmaps have a bit for *)
  TotalPages,    (* mm.total_pages, the frames of RAM                      *)
  KernelStart,   (* the first frame of the kernel image                    *)
  KernelEnd,     (* the first frame after it: the guard page               *)
  Ramdisk,       (* where the boot loader left the archive (mod_start)     *)
  MaxRun,        (* bound: pages asked for in one call                     *)
  Interruptible  (* TRUE: interrupts are on while the boot thread runs     *)

ASSUME FrameAssumption ==
  /\ Main \in Clients
  /\ IsFiniteSet(Clients)
  /\ BitmapPages \in Nat /\ TotalPages \in Nat /\ TotalPages <= BitmapPages
  /\ KernelStart \in Nat /\ KernelEnd \in Nat
  /\ KernelStart < KernelEnd /\ KernelEnd < BitmapPages
  /\ Ramdisk \subseteq 0 .. TotalPages - 1
  /\ MaxRun \in Nat \ {0}
  /\ Interruptible \in BOOLEAN

VARIABLES
  bitmap,      (* mm.bitmap: frames marked as used                         *)
  protected,   (* mm.protection_bitmap                                     *)
  next_free,   (* mm.next_free: where a search starts                      *)
  used_slots,  (* g_swap_used_slots                                        *)
  held,        (* client -> the frames of the memory it was given          *)
  via,         (* client -> where its memory came from                     *)
  found        (* the run an unfinished kmalloc of Main has found, or {}   *)

vars == <<bitmap, protected, next_free, used_slots, held, via, found>>

Frames == 0 .. BitmapPages - 1
RAM == 0 .. TotalPages - 1
Origins == {"none", "kmalloc", "pmm", "swap"}

(* What mm_mprotect_set_flags tells apart of its flags. *)
Prots == {"PROT_NONE", "PROT_READ"}

(* PAGES_PER_SECTOR: the slots one page takes, PAGE_SIZE / SWAP_SECTOR_SIZE. *)
PagesPerSector == 8

(* The kernel image and the guard page mm_init_universal protects after it. *)
Reserved == KernelStart .. KernelEnd

(* page_available *)
Available(f) == f \notin bitmap /\ f \notin protected

(* Faulty variant: the scan looks at the first page of the block only. *)
Fits_FirstPage(s, n) ==
  /\ next_free <= s /\ s + n <= TotalPages
  /\ Available(s)

(* A block of n frames that kmalloc's scan could stop at. *)
Fits(s, n) ==
  /\ next_free <= s /\ s + n <= TotalPages
  /\ \A f \in s .. s + n - 1 : Available(f)

(* The run kmalloc's scan stops at: the first one from next_free, no wrap. *)
FirstFit(s, n) ==
  /\ Fits(s, n)
  /\ \A t \in next_free .. s - 1 : ~Fits(t, n)

(* Faulty variant: no second loop from zero. *)
NextFrame_NoWrap(f) ==
  /\ f \in RAM /\ Available(f)
  /\ next_free <= f
  /\ \A g \in next_free .. f - 1 : ~Available(g)

(* The frame pmm_alloc_frame stops at: from next_free, then from zero. *)
NextFrame(f) ==
  /\ f \in RAM /\ Available(f)
  /\ \/ /\ next_free <= f
        /\ \A g \in next_free .. f - 1 : ~Available(g)
     \/ /\ f < next_free
        /\ \A g \in (next_free .. TotalPages - 1) \union (0 .. f - 1) : ~Available(g)

(* Whether c may enter the allocator now. *)
MayRun(c) == found = {} \/ (Interruptible /\ c # Main)

(* No kmalloc of the boot thread is under way.  A handler that interrupts   *)
(* it calls kmalloc and kfree only: nothing that runs in a handler calls    *)
(* the frame allocator of pmm.c, swap, mprotect or demand paging.           *)
Idle == found = {}

(* c asks for memory, holding none. *)
MayAsk(c) == MayRun(c) /\ via[c] = "none"

Give(c, S, origin) ==
  /\ held' = [held EXCEPT ![c] = S]
  /\ via' = [via EXCEPT ![c] = origin]

-----------------------------------------------------------------------------
(* mm_init_universal *)
Init ==
  /\ bitmap = Reserved
  /\ protected = Reserved
  /\ next_free = 0
  /\ used_slots = 0
  /\ held = [c \in Clients |-> {}]
  /\ via = [c \in Clients |-> "none"]
  /\ found = {}

(* Faulty variants: one page too few is marked; next_free is one too far. *)
Mark_FirstPage(s, n) ==
  /\ bitmap' = bitmap \union {s}
  /\ next_free' = s + n
Mark_OnePast(s, n) ==
  /\ bitmap' = bitmap \union (s .. s + n - 1)
  /\ next_free' = s + n + 1

(* The marking half of kmalloc: the bits of the run, then next_free. *)
Mark(s, n) ==
  /\ bitmap' = bitmap \union (s .. s + n - 1)
  /\ next_free' = s + n

(* kmalloc in an interrupt handler *)
Kmalloc(c, n) ==
  /\ c # Main /\ MayAsk(c)
  /\ \E s \in RAM :
       /\ FirstFit(s, n)
       /\ Mark(s, n)
       /\ Give(c, s .. s + n - 1, "kmalloc")
  /\ UNCHANGED <<protected, used_slots, found>>

(* kmalloc in the boot thread: the scan ... *)
KmallocScan(n) ==
  /\ MayAsk(Main)
  /\ \E s \in RAM : FirstFit(s, n) /\ found' = s .. s + n - 1
  /\ UNCHANGED <<bitmap, protected, next_free, used_slots, held, via>>

(* ... and the marking of what it found. *)
KmallocMark ==
  /\ found # {}
  /\ \E s \in RAM, n \in 1 .. MaxRun :
       /\ found = s .. s + n - 1
       /\ Mark(s, n)
  /\ Give(Main, found, "kmalloc")
  /\ found' = {}
  /\ UNCHANGED <<protected, used_slots>>

(* pmm_alloc_frame takes f *)
Take(f) ==
  /\ NextFrame(f)
  /\ bitmap' = bitmap \union {f}
  /\ next_free' = f + 1

(* pmm_alloc_frame *)
PmmAllocFrame(c) ==
  /\ Idle /\ MayAsk(c)
  /\ \E f \in RAM : Take(f) /\ Give(c, {f}, "pmm")
  /\ UNCHANGED <<protected, used_slots, found>>

(* handle_demand_paging when vmm_map_page fails: the frame is kept by nobody. *)
DemandPageLost ==
  /\ Idle
  /\ \E f \in RAM : Take(f)
  /\ UNCHANGED <<protected, used_slots, held, via, found>>

(* pmm_free_frame, of a frame pmm_alloc_frame gave *)
PmmFreeFrame(c) ==
  /\ Idle /\ via[c] = "pmm"
  /\ \E f \in held[c] :
       /\ bitmap' = bitmap \ {f}
       /\ next_free' = IF f < next_free THEN f ELSE next_free
  /\ Give(c, {}, "none")
  /\ UNCHANGED <<protected, used_slots, found>>

(* kfree marks a header its heap never made: no bit is cleared. *)
Kfree(c) ==
  /\ MayRun(c) /\ via[c] = "kmalloc"
  /\ Give(c, {}, "none")
  /\ UNCHANGED <<bitmap, protected, next_free, used_slots, found>>

(* mm_swap_out_page, of a page its owner gives up; next_free is not lowered. *)
SwapOutPage(c) ==
  /\ Idle /\ via[c] \in {"kmalloc", "pmm"}
  /\ \E f \in held[c] :
       /\ held[c] = {f} /\ f \notin protected
       /\ bitmap' = bitmap \ {f}
  /\ used_slots' = used_slots + PagesPerSector
  /\ Give(c, {}, "swap")
  /\ UNCHANGED <<protected, next_free, found>>

(* Faulty variant: the slots are given back before kmalloc may fail. *)
SwapInPage_SlotsFirst(c) ==
  /\ Idle /\ via[c] = "swap"
  /\ used_slots' = IF used_slots >= PagesPerSector
                     THEN used_slots - PagesPerSector ELSE used_slots
  /\ \/ \E s \in RAM :
          /\ FirstFit(s, 1)
          /\ Mark(s, 1)
          /\ Give(c, {s}, "kmalloc")
     \/ /\ \A s \in RAM : ~FirstFit(s, 1)
        /\ UNCHANGED <<bitmap, next_free, held, via>>
  /\ UNCHANGED <<protected, found>>

(* mm_swap_in_page: kmalloc of one page, then the slots are given back. *)
SwapInPage(c) ==
  /\ Idle /\ via[c] = "swap"
  /\ \E s \in RAM :
       /\ FirstFit(s, 1)
       /\ Mark(s, 1)
       /\ Give(c, {s}, "kmalloc")
  /\ used_slots' = IF used_slots >= PagesPerSector
                     THEN used_slots - PagesPerSector ELSE used_slots
  /\ UNCHANGED <<protected, found>>

(* Faulty variant: the protection bit is not looked at. *)
Reached_Unchecked(first, n) == (first .. first + n - 1) \intersect RAM

(* The frames of the request mm_mprotect_set_flags reaches before it meets *)
(* one that is not RAM (ENOMEM) or is protected (EACCES).                  *)
Reached(first, n) ==
  {f \in first .. first + n - 1 :
     \A g \in first .. f : g \in RAM /\ g \notin protected}

(* The protection bits after the call. *)
Blocked(first, n, prot) ==
  IF prot = "PROT_NONE" THEN protected \union Reached(first, n)
                        ELSE protected \ Reached(first, n)

(* mm_mprotect_set_flags *)
MprotectSetFlags(first, n, prot) ==
  /\ Idle
  /\ protected' = Blocked(first, n, prot)
  /\ UNCHANGED <<bitmap, next_free, used_slots, held, via, found>>

(* mm_protect_region, of a region the bitmaps have bits for *)
ProtectRegion(first, n) ==
  /\ Idle
  /\ first + n <= BitmapPages
  /\ bitmap' = bitmap \union (first .. first + n - 1)
  /\ protected' = protected \union (first .. first + n - 1)
  /\ UNCHANGED <<next_free, used_slots, held, via, found>>

Next ==
  \/ KmallocMark
  \/ DemandPageLost
  \/ \E c \in Clients :
       \/ PmmAllocFrame(c)
       \/ PmmFreeFrame(c)
       \/ Kfree(c)
       \/ SwapOutPage(c)
       \/ SwapInPage(c)
  \/ \E n \in 1 .. MaxRun :
       \/ KmallocScan(n)
       \/ \E c \in Clients : Kmalloc(c, n)
       \/ \E first \in Frames :
            \/ ProtectRegion(first, n)
            \/ \E prot \in Prots : MprotectSetFlags(first, n, prot)

Spec == Init /\ [][Next]_vars

-----------------------------------------------------------------------------
(* Every variable has the values its C declaration and the bounds allow:   *)
(* frame sets, a search start inside RAM, a finite count of swap slots.    *)
TypeOK ==
  /\ bitmap \in SUBSET Frames
  /\ protected \in SUBSET Frames
  /\ next_free \in 0 .. TotalPages
  /\ used_slots \in Nat
  /\ held \in [Clients -> SUBSET RAM]
  /\ via \in [Clients -> Origins]
  /\ found \in SUBSET RAM

(* No frame belongs to two clients: what kmalloc, pmm_alloc_frame and       *)
(* mm_swap_in_page return never overlaps memory still in use.              *)
Exclusive ==
  \A c, d \in Clients : c # d => held[c] \intersect held[d] = {}

(* The kernel image and its guard page stay marked, stay protected and are  *)
(* never given to anyone: no call of mprotect, swap or free unlocks them.  *)
(* (The check that keeps them also keeps any page blocked that once was.)  *)
KernelKept ==
  /\ Reserved \subseteq bitmap \intersect protected
  /\ \A c \in Clients : held[c] \intersect Reserved = {}

(* The slots counted as used are those of the pages that are swapped out,   *)
(* also after a swap-in that found no frame.                               *)
SwapAccounting ==
  used_slots = PagesPerSector * Cardinality({c \in Clients : via[c] = "swap"})

(* A frame that is given to a client was, just before, RAM whose bit was 0  *)
(* and which was not protected (the check of pmm.c and page_available).    *)
HandedOutFree ==
  [][\A c \in Clients : \A f \in held'[c] \ held[c] : f \in RAM /\ Available(f)]_vars

(* The search of pmm_alloc_frame fails only when no frame of RAM is left,   *)
(* wherever next_free stands: the wrap covers what the first loop skips.   *)
SearchIsComplete ==
  (\E f \in RAM : Available(f)) => \E f \in RAM : NextFrame(f)

(* The allocator implements the pool: a frame leaves it before a client    *)
(* has it, and only a client that lets go of a frame brings it back.       *)
Pool == INSTANCE FramePool
          WITH Pool <- RAM \ Reserved, free <- {f \in RAM : Available(f)}

ImplementsPool == Pool!Spec

(* xfs.c:271 "Persistent binding hook": the bytes of a file of the archive *)
(* stay where the boot loader left them and ram_address points, so no      *)
(* frame of the archive is ever given to a client.                         *)
RamdiskIsKept ==
  [][\A c \in Clients : (held'[c] \ held[c]) \intersect Ramdisk = {}]_vars

=============================================================================
