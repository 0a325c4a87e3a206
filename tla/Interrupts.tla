----------------------------- MODULE Interrupts -----------------------------
(***************************************************************************)
(* Interrupts: descriptors and gates (arch/x86/gdt.c, idt.c, userspace.c), *)
(* the two i8259A (arch/common/pic.c), the stubs of interrupts-a.S and     *)
(* their handlers (irq.c, isr.c).  A handler runs with interrupts off to   *)
(* its end, unless it is the keyboard's and starts a program               *)
(* (asm_jump_to_user), which runs with interrupts on and never returns.    *)
(* Each line ends with the EOIs of irq_handler and one of its stub, for    *)
(* the first chip.                                                         *)
(***************************************************************************)
EXTENDS Integers, Sequences, FiniteSets, FiniteSetsExt

CONSTANTS
  Lines,     \* lines that devices raise
  MaxRaises, \* bound: interrupts in a run
  MaxDepth   \* bound: handlers and programs on top of each other

ASSUME InterruptsAssumption ==
  Lines \subseteq (0..15) \ {2} /\ MaxRaises \in Nat /\ MaxDepth \in Nat \ {0}

VARIABLES
  gdt,     \* descriptor |-> access
  idt,     \* vector |-> "isr", "irq" or "syscall"
  offset,  \* chip |-> its first vector
  imr,     \* lines masked
  irr,     \* lines raised, not yet accepted
  isr,     \* lines in service; 2 stands for the second chip
  poll,    \* the second chip's next read is a poll
  polled,  \* history: a poll has accepted a line
  intsOn,  \* the interrupt flag
  frames,  \* what is under way: [vector, line, at]
  stage_i, \* "off", "early", "on", "panic"
  raises,
  mouse_calls \* history: how often mouse_handler ran

interruptVars ==
  <<gdt, idt, offset, imr, irr, isr, poll, polled, intsOn, frames, stage_i, raises, mouse_calls>>
tables == <<gdt, idt, offset, imr, polled>>

InterruptsInit ==
  /\ gdt = [n \in {} |-> 0] /\ idt = [v \in {} |-> ""]
  /\ offset = [chip \in {1, 2} |-> 0] /\ imr = {} /\ irr = {} /\ isr = {}
  /\ poll = FALSE /\ polled = FALSE
  /\ intsOn = FALSE /\ frames = <<>> /\ stage_i = "off" /\ raises = 0 /\ mouse_calls = 0

-----------------------------------------------------------------------------
(* Boot *)

Flat == <<0, 154, 146, 250, 242, 0>>  \* access of what gdt_init sets, from 0 on
TssAccess == 137
GdtInit == gdt' = [n \in 0..5 |-> Flat[n + 1]]
IdtInit ==
  idt' = [v \in 0..47 \union {128} |-> IF v < 32 THEN "isr" ELSE IF v < 48 THEN "irq" ELSE "syscall"]
Offset2_Same == 32
Offset1 == 32
Offset2 == 40
PicInit ==
  /\ offset' = [chip \in {1, 2} |-> IF chip = 1 THEN Offset1 ELSE Offset2]
  /\ imr' = {} /\ isr' = {} /\ irr' = {} /\ poll' = FALSE

\* arch_early_init
EarlyInit ==
  /\ stage_i = "off" /\ stage_i' = "early"
  /\ GdtInit /\ IdtInit /\ PicInit
  /\ UNCHANGED <<polled, intsOn, frames, raises, mouse_calls>>
\* init_tss and arch_enable_interrupts, later in init_all
InitTss ==
  /\ stage_i = "early" /\ 5 \in DOMAIN gdt /\ gdt[5] /= TssAccess
  /\ gdt' = [gdt EXCEPT ![5] = TssAccess]
  /\ UNCHANGED <<idt, offset, imr, irr, isr, poll, polled, intsOn, frames, stage_i, raises, mouse_calls>>
EnableInterrupts ==
  /\ stage_i = "early" /\ gdt[5] = TssAccess
  /\ stage_i' = "on" /\ intsOn' = TRUE
  /\ UNCHANGED tables /\ UNCHANGED <<poll, irr, isr, frames, raises, mouse_calls>>

-----------------------------------------------------------------------------
(* The chips *)

Raise(l) ==
  /\ raises < MaxRaises /\ raises' = raises + 1
  /\ irr' = irr \union {l}
  /\ UNCHANGED tables /\ UNCHANGED <<poll, isr, intsOn, frames, stage_i, mouse_calls>>

Chip(l) == IF l < 8 THEN 1 ELSE 2
OnMaster(l) == IF l < 8 THEN l ELSE 2
\* A line goes through if nothing of its priority or above is in service
Passes(l) ==
  /\ \A k \in isr : k < 8 => OnMaster(l) < k
  /\ \A k \in isr : k >= 8 /\ l >= 8 => l < k
Waiting == { l \in irr \ imr : Passes(l) }
Before(k, l) == OnMaster(k) < OnMaster(l) \/ (OnMaster(k) = OnMaster(l) /\ k < l)
Vector(l) == IF l < 8 THEN offset[1] + l ELSE offset[2] + l - 8

\* pic_mask_irq reads the mask first.  In poll mode that read accepts the line of
\* the second chip that asks, and yields its number and bit 7, or just any number
\* when none asks; this is then taken for the mask.
Asking == { k \in irr \ imr : k >= 8 /\ \A s \in isr : s >= 8 => k < s }
LinesIn(n) == { 8 + b : b \in { b \in 0..2 : (n \div 2^b) % 2 = 1 } }
Poll(l) ==
  /\ poll' = FALSE
  /\ \/ \E k \in Asking :
          /\ \A j \in Asking : k <= j
          /\ imr' = {l, 15} \union LinesIn(k - 8)
          /\ irr' = irr \ {k} /\ isr' = isr \union {k} /\ polled' = TRUE
     \/ /\ Asking = {} /\ \E n \in 0..7 : imr' = {l} \union LinesIn(n)
        /\ UNCHANGED <<irr, isr, polled>>
MaskIrq(l) ==
  /\ stage_i = "on" /\ imr = {}
  /\ IF poll /\ l >= 8 THEN Poll(l)
     ELSE imr' = imr \union {l} /\ UNCHANGED <<irr, isr, poll, polled>>
  /\ UNCHANGED <<gdt, idt, offset, intsOn, frames, stage_i, raises, mouse_calls>>

\* The unspecific EOI: the first line of the chip that is in service
Eoi(s, chip) ==
  LET served == { l \in s : Chip(l) = chip } IN IF served = {} THEN s ELSE s \ {Min(served)}
\* pic_send_eoi
SendEoi(s, irq) == Eoi(IF irq >= 8 THEN Eoi(s, 2) ELSE s, 1)
\* The end of irq_common_stub: an EOI for the first chip.  What the second chip gets
\* is the vector, which for it is a command (OCW3): from 44 on, the one to be polled.
StubEoi(s) == Eoi(s, 1)
Polls(vector) == vector \in 44..47

-----------------------------------------------------------------------------
(* The processor *)

Depth == Len(frames)
Top == frames[Depth]
MoveTop(at) == frames' = [frames EXCEPT ![Depth].at = at]
Enter(vector, line, at) == frames' = Append(frames, [vector |-> vector, line |-> line, at |-> at])
Pop == frames' = SubSeq(frames, 1, Depth - 1)
InStub(at) == Depth > 0 /\ Top.at = at /\ stage_i = "on"

Accept ==
  /\ intsOn /\ stage_i = "on" /\ Depth < MaxDepth
  /\ \E l \in Waiting :
       /\ \A k \in Waiting \ {l} : Before(l, k)
       /\ irr' = irr \ {l}
       /\ isr' = isr \union {OnMaster(l), l}
       /\ IF Vector(l) \in DOMAIN idt
          THEN Enter(Vector(l), l, idt[Vector(l)]) /\ UNCHANGED stage_i
          ELSE stage_i' = "panic" /\ UNCHANGED frames
  /\ intsOn' = FALSE
  /\ UNCHANGED tables /\ UNCHANGED <<poll, raises, mouse_calls>>

\* irq_common_stub for the keyboard: after its handler the stub compares what
\* that left in eax with the mouse's vector
KeyboardReturns ==
  /\ InStub("irq") /\ Top.vector = 33
  /\ \/ MoveTop("generic") /\ UNCHANGED mouse_calls
     \/ MoveTop("end") /\ mouse_calls' = mouse_calls + 1
  /\ UNCHANGED tables /\ UNCHANGED <<poll, irr, isr, intsOn, stage_i, raises>>
\* the key was the end of a line that runs a program: asm_jump_to_user
ProgramStarts ==
  /\ InStub("irq") /\ Top.vector = 33
  /\ MoveTop("program") /\ intsOn' = TRUE
  /\ UNCHANGED tables /\ UNCHANGED <<poll, irr, isr, stage_i, raises, mouse_calls>>
\* every other line, the mouse's too
OtherLine ==
  /\ InStub("irq") /\ Top.vector /= 33
  /\ MoveTop("generic")
  /\ UNCHANGED tables /\ UNCHANGED <<poll, irr, isr, intsOn, stage_i, raises, mouse_calls>>
IrqHandler ==
  /\ InStub("generic")
  /\ isr' = SendEoi(isr, Top.vector - 32)
  /\ MoveTop("end")
  /\ UNCHANGED tables /\ UNCHANGED <<poll, irr, intsOn, stage_i, raises, mouse_calls>>
EndIrq ==
  /\ InStub("end")
  /\ isr' = StubEoi(isr) /\ poll' = (poll \/ Polls(Top.vector))
  /\ Pop /\ intsOn' = TRUE
  /\ UNCHANGED tables /\ UNCHANGED <<irr, stage_i, raises, mouse_calls>>

\* syscall_isr_wrapper, with interrupts off until it returns
Syscall ==
  /\ InStub("program") /\ Depth < MaxDepth /\ 128 \in DOMAIN idt
  /\ Enter(128, 128, "syscall") /\ intsOn' = FALSE
  /\ UNCHANGED tables /\ UNCHANGED <<poll, irr, isr, stage_i, raises, mouse_calls>>
SyscallReturns ==
  /\ InStub("syscall") /\ Pop /\ intsOn' = TRUE
  /\ UNCHANGED tables /\ UNCHANGED <<poll, irr, isr, stage_i, raises, mouse_calls>>

\* isr_handler: no entry of a page table is ever looked up, so that each
\* exception ends in k_panic, a page fault too
Exception ==
  /\ stage_i = "on" /\ 14 \in DOMAIN idt
  /\ stage_i' = "panic" /\ intsOn' = FALSE
  /\ UNCHANGED tables /\ UNCHANGED <<poll, irr, isr, frames, raises, mouse_calls>>

InterruptsNext ==
  \/ EarlyInit \/ InitTss \/ EnableInterrupts
  \/ \E l \in Lines : Raise(l)
  \/ \E l \in Lines \ {0, 1} : MaskIrq(l)
  \/ Accept \/ KeyboardReturns \/ ProgramStarts \/ OtherLine \/ IrqHandler \/ EndIrq
  \/ Syscall \/ SyscallReturns \/ Exception

InterruptsSpec == InterruptsInit /\ [][InterruptsNext]_interruptVars

-----------------------------------------------------------------------------
\* No line is shut for good: with interrupts on nothing of the first chip is in
\* service, except the keyboard's line below a program that it started, so that the
\* timer always comes through; and nothing of the second, except what a poll in
\* pic_mask_irq accepted, which no handler ends (irq_handler, irq_common_stub).
NoLineShut == intsOn =>
  /\ { l \in isr : l < 8 } \subseteq (IF frames = <<>> THEN {} ELSE {1})
  /\ polled \/ \A l \in isr : l < 8

\* A handler is only ever on top of programs, never of another handler, it is
\* that of the line that was raised, and a program has a stack for interrupts.
HandlersWhole ==
  /\ \A i \in 1..(Depth - 1) : frames[i].at = "program"
  /\ \A i \in 1..Depth : frames[i].line /= 128 => frames[i].vector = 32 + frames[i].line
  /\ (\E i \in 1..Depth : frames[i].at = "program") => gdt[5] = TssAccess

InterruptsSound == NoLineShut /\ HandlersWhole
=============================================================================
