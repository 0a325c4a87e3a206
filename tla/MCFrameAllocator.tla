-------------------------- MODULE MCFrameAllocator --------------------------
(***************************************************************************)
(* Instances of FrameAllocator for TLC: five frames of RAM, bits for one   *)
(* more, the kernel not at the start of RAM (it was slid), so that there   *)
(* is a hole below it and the search of next_free can leave it behind; the *)
(* archive lies right after the kernel's guard page.                       *)
(***************************************************************************)
EXTENDS FrameAllocator, TLC

CONSTANTS shell, driver, boot

MCClients == {boot, shell, driver}

MCRamdisk == {KernelEnd + 1}

(* The interrupt-side clients can be exchanged. *)
IrqSymmetry == Permutations({shell, driver})
=============================================================================
