------------------------ MODULE FrameAllocatorProofs ------------------------
(***************************************************************************)
(* Theorems about FrameAllocator, for every number of frames, every place  *)
(* of the kernel and every set of clients.                                 *)
(***************************************************************************)
EXTENDS FrameAllocator, Induction, FiniteSetTheorems, TLAPS

(* The frames of a run kmalloc may take are RAM. *)
LEMMA FitsInRAM ==
  ASSUME NEW s \in RAM, NEW n \in Nat, Fits(s, n), TypeOK
  PROVE  /\ s .. s + n - 1 \subseteq RAM
         /\ s + n \in 0 .. TotalPages
BY FrameAssumption DEF Fits, RAM, TypeOK

(* mm_mprotect_set_flags gets only to frames of RAM that are not protected. *)
LEMMA ReachedIsOpen ==
  ASSUME NEW first \in Frames, NEW n \in 1 .. MaxRun
  PROVE  Reached(first, n) \subseteq RAM \ protected
<1> SUFFICES ASSUME NEW f \in Reached(first, n)
             PROVE  f \in RAM /\ f \notin protected
  OBVIOUS
<1>1. f \in first .. f
  BY FrameAssumption DEF Reached, Frames
<1>2. QED
  BY <1>1 DEF Reached

(***************************************************************************)
(* Type correctness: every step keeps frame sets inside the bitmaps, what  *)
(* clients hold inside RAM, and next_free at most at the end of RAM.       *)
(***************************************************************************)
THEOREM TypeCorrect == Spec => []TypeOK
<1> USE FrameAssumption
<1>1. Init => TypeOK
  BY DEF Init, TypeOK, Reserved, Frames, RAM, Origins
<1>2. TypeOK /\ [Next]_vars => TypeOK'
  <2> SUFFICES ASSUME TypeOK, [Next]_vars
               PROVE  TypeOK'
    OBVIOUS
  <2> USE DEF TypeOK, Frames, RAM, Origins, Give
  <2>1. ASSUME NEW n \in 1 .. MaxRun, KmallocScan(n)
        PROVE  TypeOK'
    BY <2>1, FitsInRAM DEF KmallocScan, FirstFit
  <2>2. CASE KmallocMark
    BY <2>2 DEF KmallocMark, Mark
  <2>3. ASSUME NEW c \in Clients, NEW n \in 1 .. MaxRun, Kmalloc(c, n)
        PROVE  TypeOK'
    <3> PICK s \in RAM : FirstFit(s, n) /\ Mark(s, n) /\ Give(c, s .. s + n - 1, "kmalloc")
      BY <2>3 DEF Kmalloc
    <3>1. s .. s + n - 1 \subseteq RAM /\ s + n \in 0 .. TotalPages
      BY FitsInRAM DEF FirstFit
    <3>2. QED
      BY <2>3, <3>1 DEF Kmalloc, Mark
  <2>4. ASSUME NEW c \in Clients, PmmAllocFrame(c)
        PROVE  TypeOK'
    BY <2>4 DEF PmmAllocFrame, Take
  <2>5. CASE DemandPageLost
    BY <2>5 DEF DemandPageLost, Take
  <2>6. ASSUME NEW c \in Clients, PmmFreeFrame(c)
        PROVE  TypeOK'
    BY <2>6 DEF PmmFreeFrame
  <2>7. ASSUME NEW c \in Clients, Kfree(c)
        PROVE  TypeOK'
    BY <2>7 DEF Kfree
  <2>8. ASSUME NEW c \in Clients, SwapOutPage(c)
        PROVE  TypeOK'
    BY <2>8 DEF SwapOutPage, PagesPerSector
  <2>9. ASSUME NEW c \in Clients, SwapInPage(c)
        PROVE  TypeOK'
    BY <2>9 DEF SwapInPage, PagesPerSector, FirstFit, Fits, Mark
  <2>10. ASSUME NEW first \in Frames, NEW n \in 1 .. MaxRun, NEW prot \in Prots,
                MprotectSetFlags(first, n, prot)
         PROVE  TypeOK'
    <3>1. protected' \subseteq protected \union RAM
      BY <2>10, ReachedIsOpen, Zenon DEF MprotectSetFlags, Blocked
    <3>2. protected' \subseteq Frames
      BY <3>1
    <3>3. QED
      BY <2>10, <3>2 DEF MprotectSetFlags, Blocked
  <2>11. ASSUME NEW first \in Frames, NEW n \in 1 .. MaxRun, ProtectRegion(first, n)
         PROVE  TypeOK'
    BY <2>11 DEF ProtectRegion
  <2>12. CASE UNCHANGED vars
    BY <2>12 DEF vars
  <2>13. QED
    BY <2>1, <2>2, <2>3, <2>4, <2>5, <2>6, <2>7, <2>8, <2>9, <2>10, <2>11, <2>12
       DEF Next
<1>3. QED
  BY <1>1, <1>2, PTL DEF Spec

-----------------------------------------------------------------------------
(* Who has no memory of its own holds no frame, and Main has none while its *)
(* kmalloc is unfinished.                                                  *)
OriginInv ==
  /\ \A c \in Clients : via[c] \in {"none", "swap"} => held[c] = {}
  /\ found # {} => via[Main] = "none"

LEMMA OriginKept ==
  ASSUME TypeOK, OriginInv, [Next]_vars
  PROVE  OriginInv'
<1> USE FrameAssumption DEF TypeOK, OriginInv, Give, MayAsk, MayRun, Origins
<1>1. ASSUME NEW n \in 1 .. MaxRun, KmallocScan(n)
      PROVE  OriginInv'
  BY <1>1 DEF KmallocScan
<1>2. CASE KmallocMark
  BY <1>2 DEF KmallocMark
<1>3. ASSUME NEW c \in Clients, NEW n \in 1 .. MaxRun, Kmalloc(c, n)
      PROVE  OriginInv'
  BY <1>3 DEF Kmalloc
<1>4. ASSUME NEW c \in Clients, PmmAllocFrame(c)
      PROVE  OriginInv'
  BY <1>4 DEF PmmAllocFrame
<1>5. CASE DemandPageLost
  BY <1>5 DEF DemandPageLost
<1>6. ASSUME NEW c \in Clients, PmmFreeFrame(c)
      PROVE  OriginInv'
  BY <1>6 DEF PmmFreeFrame
<1>7. ASSUME NEW c \in Clients, Kfree(c)
      PROVE  OriginInv'
  BY <1>7 DEF Kfree
<1>8. ASSUME NEW c \in Clients, SwapOutPage(c)
      PROVE  OriginInv'
  BY <1>8 DEF SwapOutPage
<1>9. ASSUME NEW c \in Clients, SwapInPage(c)
      PROVE  OriginInv'
  BY <1>9 DEF SwapInPage
<1>10. ASSUME NEW first \in Frames, NEW n \in 1 .. MaxRun, NEW prot \in Prots,
              MprotectSetFlags(first, n, prot)
       PROVE  OriginInv'
  BY <1>10 DEF MprotectSetFlags, Blocked
<1>11. ASSUME NEW first \in Frames, NEW n \in 1 .. MaxRun, ProtectRegion(first, n)
       PROVE  OriginInv'
  BY <1>11 DEF ProtectRegion
<1>12. CASE UNCHANGED vars
  BY <1>12 DEF vars
<1>13. QED
  BY <1>1, <1>2, <1>3, <1>4, <1>5, <1>6, <1>7, <1>8, <1>9, <1>10, <1>11, <1>12
     DEF Next

-----------------------------------------------------------------------------
(***************************************************************************)
(* The four things a step can do to frames.  Every later proof looks at    *)
(* these and not at the eleven actions.  Who steps while a kmalloc of Main *)
(* is unfinished is an interrupt handler: Quiet.                           *)
(***************************************************************************)
Quiet == Interruptible \/ found = {}

(* c, who held nothing, is given S: frames available now, or what Main's   *)
(* scan had found.                                                         *)
Given(c, S) ==
  /\ S # {} /\ held[c] = {}
  /\ held' = [held EXCEPT ![c] = S]
  /\ bitmap' = bitmap \union S
  /\ protected' = protected
  /\ \/ S = found /\ found' = {}
     \/ Quiet /\ (\A f \in S : Available(f)) /\ found' = found

(* c lets its frames go; the bits of back are cleared. *)
LetGo(c, back) ==
  /\ back \subseteq held[c]
  /\ held' = [held EXCEPT ![c] = {}]
  /\ bitmap' = bitmap \ back
  /\ protected' = protected
  /\ Quiet /\ found' = found

(* Frames are marked or protected for nobody. *)
Shrunk ==
  /\ bitmap \subseteq bitmap' /\ protected \subseteq protected'
  /\ held' = held
  /\ Quiet /\ found' = found

(* Main's scan finds available frames. *)
Searched ==
  /\ UNCHANGED <<bitmap, protected, held>>
  /\ \A f \in found' : Available(f)

StepKind ==
  \/ \E c \in Clients, S \in SUBSET RAM : Given(c, S) \/ LetGo(c, S)
  \/ Shrunk
  \/ Searched
  \/ UNCHANGED <<bitmap, protected, held, found>>

LEMMA StepsAreOfAKind ==
  ASSUME TypeOK, OriginInv, [Next]_vars
  PROVE  StepKind
<1> USE FrameAssumption
    DEF TypeOK, OriginInv, Give, MayAsk, MayRun, Idle, Origins, Quiet, StepKind
<1>1. ASSUME NEW n \in 1 .. MaxRun, KmallocScan(n)
      PROVE  StepKind
  <2>1. Quiet /\ Searched
    BY <1>1, FitsInRAM DEF KmallocScan, FirstFit, Fits, Searched
  <2>2. QED
    BY <2>1
<1>2. CASE KmallocMark
  <2>1. Given(Main, found)
    BY <1>2 DEF KmallocMark, Mark, Given
  <2>2. QED
    BY <2>1
<1>3. ASSUME NEW c \in Clients, NEW n \in 1 .. MaxRun, Kmalloc(c, n)
      PROVE  StepKind
  <2> PICK s \in RAM : FirstFit(s, n) /\ Mark(s, n) /\ Give(c, s .. s + n - 1, "kmalloc")
    BY <1>3 DEF Kmalloc
  <2>1. s .. s + n - 1 \subseteq RAM
    BY FitsInRAM DEF FirstFit
  <2>2. s \in s .. s + n - 1
    BY DEF RAM
  <2>3. Given(c, s .. s + n - 1)
    BY <1>3, <2>1, <2>2 DEF Kmalloc, Given, FirstFit, Fits, Mark
  <2>4. QED
    BY <2>1, <2>3
<1>4. ASSUME NEW c \in Clients, PmmAllocFrame(c)
      PROVE  StepKind
  <2> PICK f \in RAM : Take(f) /\ Give(c, {f}, "pmm")
    BY <1>4 DEF PmmAllocFrame
  <2>1. Given(c, {f})
    BY <1>4 DEF PmmAllocFrame, Given, Take, NextFrame
  <2>2. QED
    BY <2>1
<1>5. CASE DemandPageLost
  <2>1. Shrunk
    BY <1>5 DEF DemandPageLost, Shrunk, Idle, Take
  <2>2. QED
    BY <2>1
<1>6. ASSUME NEW c \in Clients, PmmFreeFrame(c)
      PROVE  StepKind
  <2> PICK f \in held[c] : bitmap' = bitmap \ {f}
    BY <1>6 DEF PmmFreeFrame
  <2>1. LetGo(c, {f})
    BY <1>6 DEF PmmFreeFrame, LetGo
  <2>2. QED
    BY <2>1
<1>7. ASSUME NEW c \in Clients, Kfree(c)
      PROVE  StepKind
  <2>1. LetGo(c, {})
    BY <1>7 DEF Kfree, LetGo
  <2>2. QED
    BY <2>1
<1>8. ASSUME NEW c \in Clients, SwapOutPage(c)
      PROVE  StepKind
  <2> PICK f \in held[c] : bitmap' = bitmap \ {f}
    BY <1>8 DEF SwapOutPage
  <2>1. LetGo(c, {f})
    BY <1>8 DEF SwapOutPage, LetGo
  <2>2. QED
    BY <2>1
<1>9. ASSUME NEW c \in Clients, SwapInPage(c)
      PROVE  StepKind
  <2> PICK s \in RAM : FirstFit(s, 1) /\ Mark(s, 1) /\ Give(c, {s}, "kmalloc")
    BY <1>9 DEF SwapInPage
  <2>1. s .. s + 1 - 1 = {s}
    BY DEF RAM
  <2>2. Given(c, {s})
    BY <1>9, <2>1 DEF SwapInPage, Given, FirstFit, Fits, Mark
  <2>3. QED
    BY <2>2
<1>10. ASSUME NEW first \in Frames, NEW n \in 1 .. MaxRun, NEW prot \in Prots,
              MprotectSetFlags(first, n, prot)
       PROVE  StepKind
  <2>1. protected \subseteq protected'
    BY <1>10, ReachedIsOpen, Zenon DEF MprotectSetFlags, Blocked
  <2>2. Shrunk
    BY <1>10, <2>1 DEF MprotectSetFlags, Blocked, Shrunk, Idle
  <2>3. QED
    BY <2>2
<1>11. ASSUME NEW first \in Frames, NEW n \in 1 .. MaxRun, ProtectRegion(first, n)
       PROVE  StepKind
  <2>1. Shrunk
    BY <1>11 DEF ProtectRegion, Shrunk, Idle
  <2>2. QED
    BY <2>1
<1>12. CASE UNCHANGED vars
  BY <1>12 DEF vars
<1>13. QED
  BY <1>1, <1>2, <1>3, <1>4, <1>5, <1>6, <1>7, <1>8, <1>9, <1>10, <1>11, <1>12
     DEF Next

(* TypeOK and OriginInv together, the facts the lemmas above ask for. *)
LEMMA Grounded == Spec => [](TypeOK /\ OriginInv)
<1>1. Init => OriginInv
  BY DEF Init, OriginInv
<1>2. TypeOK /\ OriginInv /\ [Next]_vars => OriginInv'
  BY OriginKept
<1>3. QED
  BY <1>1, <1>2, TypeCorrect, PTL DEF Spec

(***************************************************************************)
(* The kernel image and the guard page are never unmarked, unprotected or  *)
(* given away, with interrupts on or off.  A run that Main's scan found is *)
(* part of the invariant: the interrupt between the scan and the marking   *)
(* may take the run, but it cannot move it onto the kernel.                *)
(***************************************************************************)
KernelInv == KernelKept /\ found \intersect Reserved = {}

LEMMA KernelInvHolds == Spec => []KernelInv
<1>1. Init => KernelInv
  BY DEF Init, KernelInv, KernelKept
<1>2. TypeOK /\ OriginInv /\ KernelInv /\ [Next]_vars => KernelInv'
  <2> SUFFICES ASSUME TypeOK, OriginInv, KernelInv, [Next]_vars
               PROVE  KernelInv'
    OBVIOUS
  <2> USE DEF KernelInv, KernelKept, TypeOK, Available
  <2>1. ASSUME NEW c \in Clients, NEW S \in SUBSET RAM, Given(c, S)
        PROVE  KernelInv'
    <3>1. S \intersect Reserved = {}
      BY <2>1 DEF Given
    <3>2. QED
      BY <2>1, <3>1 DEF Given
  <2>2. ASSUME NEW c \in Clients, NEW S \in SUBSET RAM, LetGo(c, S)
        PROVE  KernelInv'
    BY <2>2 DEF LetGo
  <2>3. CASE Shrunk
    BY <2>3 DEF Shrunk
  <2>4. CASE Searched
    BY <2>4 DEF Searched
  <2>5. CASE UNCHANGED <<bitmap, protected, held, found>>
    BY <2>5
  <2>6. QED
    BY <2>1, <2>2, <2>3, <2>4, <2>5, StepsAreOfAKind DEF StepKind
<1>3. QED
  BY <1>1, <1>2, Grounded, PTL DEF Spec

(* The kernel and its guard page are kept, with interrupts on or off. *)
THEOREM KernelIsKept == Spec => []KernelKept
<1>1. KernelInv => KernelKept
  BY DEF KernelInv
<1>2. QED
  BY <1>1, KernelInvHolds, PTL

(***************************************************************************)
(* With interrupts off while the boot thread allocates, no two clients     *)
(* share a frame.  Exclusive is not inductive: a frame that is held must   *)
(* be marked, or the next search would find it, and a run that a scan has  *)
(* found must still be available when it is marked.                        *)
(***************************************************************************)
ExclusiveInv ==
  /\ Exclusive
  /\ \A c \in Clients : held[c] \subseteq bitmap
  /\ \A f \in found : Available(f)

LEMMA ExclusiveInductive ==
  ASSUME ~Interruptible, TypeOK, OriginInv, ExclusiveInv, [Next]_vars
  PROVE  ExclusiveInv'
<1> USE DEF ExclusiveInv, Exclusive, TypeOK, Available, Quiet
<1>1. ASSUME NEW c \in Clients, NEW S \in SUBSET RAM, Given(c, S)
      PROVE  ExclusiveInv'
  <2>1. (\A f \in S : Available(f)) /\ found' = {}
    BY <1>1 DEF Given
  <2>2. QED
    BY <1>1, <2>1 DEF Given
<1>2. ASSUME NEW c \in Clients, NEW S \in SUBSET RAM, LetGo(c, S)
      PROVE  ExclusiveInv'
  BY <1>2 DEF LetGo
<1>3. CASE Shrunk
  BY <1>3 DEF Shrunk
<1>4. CASE Searched
  BY <1>4 DEF Searched
<1>5. CASE UNCHANGED <<bitmap, protected, held, found>>
  BY <1>5
<1>6. QED
  BY <1>1, <1>2, <1>3, <1>4, <1>5, StepsAreOfAKind DEF StepKind

LEMMA ExclusiveInvHolds ==
  ASSUME ~Interruptible
  PROVE  Spec => []ExclusiveInv
<1>1. Init => ExclusiveInv
  BY DEF Init, ExclusiveInv, Exclusive
<1>2. TypeOK /\ OriginInv /\ ExclusiveInv /\ [Next]_vars => ExclusiveInv'
  BY ExclusiveInductive
<1>3. QED
  BY <1>1, <1>2, Grounded, PTL DEF Spec

(* No frame is given to a second client while the first one has it. *)
THEOREM FramesAreExclusive ==
  ASSUME ~Interruptible
  PROVE  Spec => []Exclusive
<1>1. ExclusiveInv => Exclusive
  BY DEF ExclusiveInv
<1>2. QED
  BY <1>1, ExclusiveInvHolds, PTL

(* What a client gains in a step was RAM, unmarked and unprotected. *)
THEOREM OnlyFreeFramesAreHandedOut ==
  ASSUME ~Interruptible
  PROVE  Spec => HandedOutFree
<1> DEFINE Gain == \A c \in Clients : \A f \in held'[c] \ held[c] : f \in RAM /\ Available(f)
<1>1. TypeOK /\ OriginInv /\ ExclusiveInv /\ [Next]_vars => Gain
  <2> SUFFICES ASSUME TypeOK, OriginInv, ExclusiveInv, StepKind
               PROVE  Gain
    BY StepsAreOfAKind
  <2>1. ASSUME NEW c \in Clients, NEW S \in SUBSET RAM, Given(c, S)
        PROVE  Gain
    BY <2>1 DEF Given, ExclusiveInv, TypeOK
  <2>2. ASSUME NEW c \in Clients, NEW S \in SUBSET RAM, LetGo(c, S)
        PROVE  Gain
    BY <2>2 DEF LetGo, TypeOK
  <2>3. QED
    BY <2>1, <2>2 DEF StepKind, Shrunk, Searched
<1>2. QED
  BY <1>1, ExclusiveInvHolds, Grounded, PTL DEF Spec, HandedOutFree

-----------------------------------------------------------------------------
(***************************************************************************)
(* The swap counter is eight slots for every page that is out.             *)
(***************************************************************************)
Swapped == {c \in Clients : via[c] = "swap"}

LEMMA SwappedIsFinite == IsFiniteSet(Swapped) /\ Cardinality(Swapped) \in Nat
BY FrameAssumption, FS_Subset, FS_CardinalityType DEF Swapped

LEMMA SwapStep ==
  ASSUME TypeOK, OriginInv, SwapAccounting, [Next]_vars
  PROVE  SwapAccounting'
<1> USE SwappedIsFinite, FrameAssumption
    DEF TypeOK, OriginInv, SwapAccounting, Give, MayAsk, Swapped
<1>1. ASSUME NEW n \in 1 .. MaxRun, KmallocScan(n)
      PROVE  SwapAccounting'
  <2>1. Swapped' = Swapped /\ used_slots' = used_slots
    BY <1>1 DEF KmallocScan
  <2>2. QED
    BY <2>1
<1>2. CASE KmallocMark
  <2>1. Swapped' = Swapped /\ used_slots' = used_slots
    BY <1>2 DEF KmallocMark
  <2>2. QED
    BY <2>1
<1>3. ASSUME NEW c \in Clients, NEW n \in 1 .. MaxRun, Kmalloc(c, n)
      PROVE  SwapAccounting'
  <2>1. Swapped' = Swapped /\ used_slots' = used_slots
    BY <1>3 DEF Kmalloc
  <2>2. QED
    BY <2>1
<1>4. ASSUME NEW c \in Clients, PmmAllocFrame(c)
      PROVE  SwapAccounting'
  <2>1. Swapped' = Swapped /\ used_slots' = used_slots
    BY <1>4 DEF PmmAllocFrame
  <2>2. QED
    BY <2>1
<1>5. CASE DemandPageLost
  <2>1. Swapped' = Swapped /\ used_slots' = used_slots
    BY <1>5 DEF DemandPageLost
  <2>2. QED
    BY <2>1
<1>6. ASSUME NEW c \in Clients, PmmFreeFrame(c)
      PROVE  SwapAccounting'
  <2>1. Swapped' = Swapped /\ used_slots' = used_slots
    BY <1>6 DEF PmmFreeFrame
  <2>2. QED
    BY <2>1
<1>7. ASSUME NEW c \in Clients, Kfree(c)
      PROVE  SwapAccounting'
  <2>1. Swapped' = Swapped /\ used_slots' = used_slots
    BY <1>7 DEF Kfree
  <2>2. QED
    BY <2>1
<1>8. ASSUME NEW c \in Clients, SwapOutPage(c)
      PROVE  SwapAccounting'
  <2>1. c \notin Swapped /\ Swapped' = Swapped \union {c}
    BY <1>8 DEF SwapOutPage
  <2>2. used_slots' = used_slots + 8
    BY <1>8 DEF SwapOutPage, PagesPerSector
  <2>3. Cardinality(Swapped') = Cardinality(Swapped) + 1
    BY <2>1, FS_AddElement
  <2>4. QED
    BY <2>2, <2>3 DEF PagesPerSector
<1>9. ASSUME NEW c \in Clients, SwapInPage(c)
      PROVE  SwapAccounting'
  <2>1. c \in Swapped /\ Swapped' = Swapped \ {c}
    BY <1>9 DEF SwapInPage
  <2>2. Cardinality(Swapped') = Cardinality(Swapped) - 1
    <3> HIDE DEF Swapped
    <3>1. Cardinality(Swapped \ {c}) = Cardinality(Swapped) - 1
      BY <2>1, FS_RemoveElement
    <3>2. QED
      BY <2>1, <3>1
  <2>3. Cardinality(Swapped) \in Nat \ {0}
    BY <2>1, FS_EmptySet
  <2>4. used_slots' = used_slots - 8
    BY <1>9, <2>3 DEF SwapInPage, PagesPerSector
  <2>5. QED
    BY <2>2, <2>3, <2>4 DEF PagesPerSector
<1>10. ASSUME NEW first \in Frames, NEW n \in 1 .. MaxRun, NEW prot \in Prots,
              MprotectSetFlags(first, n, prot)
       PROVE  SwapAccounting'
  <2>1. Swapped' = Swapped /\ used_slots' = used_slots
    BY <1>10 DEF MprotectSetFlags, Blocked
  <2>2. QED
    BY <2>1
<1>11. ASSUME NEW first \in Frames, NEW n \in 1 .. MaxRun, ProtectRegion(first, n)
       PROVE  SwapAccounting'
  <2>1. Swapped' = Swapped /\ used_slots' = used_slots
    BY <1>11 DEF ProtectRegion
  <2>2. QED
    BY <2>1
<1>12. CASE UNCHANGED vars
  BY <1>12 DEF vars
<1>13. QED
  BY <1>1, <1>2, <1>3, <1>4, <1>5, <1>6, <1>7, <1>8, <1>9, <1>10, <1>11, <1>12
     DEF Next

(* mm_swap_out_page and mm_swap_in_page keep the counter exact. *)
THEOREM SwapSlotsAreExact == Spec => []SwapAccounting
<1>1. Init => SwapAccounting
  <2>1. Init => Swapped = {}
    BY DEF Init, Swapped
  <2>2. QED
    BY <2>1, FS_EmptySet DEF Init, SwapAccounting, Swapped, PagesPerSector
<1>2. TypeOK /\ OriginInv /\ SwapAccounting /\ [Next]_vars => SwapAccounting'
  BY SwapStep
<1>3. QED
  BY <1>1, <1>2, Grounded, PTL DEF Spec

-----------------------------------------------------------------------------
(***************************************************************************)
(* With interrupts off the allocator implements the pool of FramePool: its *)
(* bitmaps, its search order and the two halves of kmalloc are invisible.  *)
(* LetGo is a Return of what was cleared and is not protected; Shrunk is a *)
(* Lose; a scan is a stutter; the marking of a found run is the Grant.     *)
(***************************************************************************)
Open == {f \in RAM : Available(f)}

LEMMA StepsRefine ==
  ASSUME ~Interruptible, TypeOK, OriginInv, ExclusiveInv, KernelInv, [Next]_vars,
         KernelInv'
  PROVE  [Pool!Next]_(Pool!vars)
<1> USE DEF TypeOK, ExclusiveInv, Available, Pool!vars, Open
<1>0. Open \subseteq RAM \ Reserved /\ Open' \subseteq RAM \ Reserved
  BY DEF KernelInv, KernelKept
<1>1. ASSUME NEW c \in Clients, NEW S \in SUBSET RAM, Given(c, S)
      PROVE  Pool!Next
  <2>1. \A f \in S : Available(f)
    BY <1>1 DEF Given
  <2>2. S \subseteq Open /\ Open' = Open \ S
    BY <1>1, <2>1 DEF Given
  <2>3. Pool!Grant(c, S)
    BY <1>1, <2>2 DEF Given, Pool!Grant
  <2>4. QED
    BY <1>0, <2>2, <2>3 DEF Pool!Next
<1>2. ASSUME NEW c \in Clients, NEW S \in SUBSET RAM, LetGo(c, S)
      PROVE  Pool!Next
  <2> PICK cleared : cleared = S \ protected
    OBVIOUS
  <2>1. cleared \subseteq held[c] /\ Open' = Open \union cleared
    BY <1>2 DEF LetGo
  <2>2. Pool!Return(c, cleared)
    BY <1>2, <2>1 DEF LetGo, Pool!Return
  <2>3. cleared \in SUBSET (RAM \ Reserved)
    BY <1>0, <2>1
  <2>4. QED
    BY <2>2, <2>3 DEF Pool!Next
<1>3. CASE Shrunk
  <2> PICK lost : lost = Open \ Open'
    OBVIOUS
  <2>1. Open' = Open \ lost
    BY <1>3 DEF Shrunk
  <2>2. Pool!Lose(lost)
    BY <1>3, <2>1 DEF Shrunk, Pool!Lose
  <2>3. lost \in SUBSET (RAM \ Reserved)
    BY <1>0
  <2>4. QED
    BY <2>2, <2>3 DEF Pool!Next
<1>4. CASE Searched
  BY <1>4 DEF Searched
<1>5. CASE UNCHANGED <<bitmap, protected, held, found>>
  BY <1>5
<1>6. QED
  BY <1>1, <1>2, <1>3, <1>4, <1>5, StepsAreOfAKind DEF StepKind

(* Every behaviour of the allocator is a behaviour of the pool. *)
THEOREM AllocatorImplementsPool ==
  ASSUME ~Interruptible
  PROVE  Spec => ImplementsPool
<1>1. Init => Pool!Init
  BY DEF Init, Pool!Init, Available
<1>2. TypeOK /\ OriginInv /\ ExclusiveInv /\ KernelInv /\ KernelInv' /\ [Next]_vars
        => [Pool!Next]_(Pool!vars)
  BY StepsRefine
<1>3. QED
  BY <1>1, <1>2, Grounded, ExclusiveInvHolds, KernelInvHolds, PTL
     DEF Spec, ImplementsPool, Pool!Spec

-----------------------------------------------------------------------------
(* pmm_alloc_frame's two loops, from next_free and then from zero, find a  *)
(* frame whenever RAM has one: the least one at or after next_free, or     *)
(* else the least one.                                                     *)
THEOREM SearchFindsAFrame == Spec => []SearchIsComplete
<1>1. TypeOK => SearchIsComplete
  <2> SUFFICES ASSUME TypeOK, NEW f \in RAM, Available(f)
               PROVE  \E g \in RAM : NextFrame(g)
    BY DEF SearchIsComplete
  <2> DEFINE open == {g \in RAM : Available(g)}
             later == {g \in open : next_free <= g}
  <2>1. open \subseteq Nat /\ later \subseteq Nat /\ next_free \in Nat /\ TotalPages \in Nat
    BY FrameAssumption DEF TypeOK, RAM
  <2>2. CASE later # {}
    <3>1. PICK g \in later : \A h \in later : g <= h
      <4> HIDE DEF later
      <4> QED BY <2>1, <2>2, LeastElement
    <3>2. \A h \in next_free .. g - 1 : h \in RAM /\ h < g /\ next_free <= h
      BY <2>1, <3>1 DEF RAM
    <3>3. \A h \in next_free .. g - 1 : ~Available(h)
      BY <2>1, <3>1, <3>2 DEF RAM
    <3> QED
      BY <3>1, <3>3 DEF NextFrame
  <2>3. CASE later = {}
    <3>1. PICK g \in open : \A h \in open : g <= h
      <4> f \in open
        OBVIOUS
      <4> HIDE DEF open
      <4> QED BY <2>1, LeastElement
    <3>2. g < next_free
      BY <2>1, <2>3, <3>1 DEF RAM
    <3>3. \A h \in next_free .. TotalPages - 1 : ~Available(h)
      BY <2>1, <2>3 DEF RAM
    <3>4. \A h \in 0 .. g - 1 : h \in RAM /\ h < g
      BY <2>1, <3>1 DEF RAM
    <3>5. \A h \in 0 .. g - 1 : ~Available(h)
      BY <2>1, <3>1, <3>4 DEF RAM
    <3> QED
      BY <3>1, <3>2, <3>3, <3>5 DEF NextFrame
  <2> QED
    BY <2>2, <2>3
<1> QED
  BY <1>1, TypeCorrect, PTL

=============================================================================
