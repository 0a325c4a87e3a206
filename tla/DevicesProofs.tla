---------------------------- MODULE DevicesProofs ----------------------------
(***************************************************************************)
(* What holds of interrupts, of disks' blocks and journals, of the small   *)
(* drivers, of the screens and of the network, for every set of lines, size *)
(* and number of calls: the text modes and VT100 in the frame buffer show  *)
(* the text that was typed, the array of the frame buffer is the picture that *)
(* was drawn, and the receive ring is read where the card wrote it.        *)
(***************************************************************************)
EXTENDS MCDevices, Induction, SequenceTheorems

-----------------------------------------------------------------------------
(* Interrupts *)

Kinds == {"irq", "generic", "end", "program", "syscall"}
FrameRecord == [vector : 0 .. 255, line : Lines \union {128}, at : Kinds]

InterruptTypes ==
  /\ stage_i \in {"off", "early", "on", "panic"} /\ intsOn \in BOOLEAN
  /\ frames \in Seq(FrameRecord) /\ isr \subseteq 0 .. 15 /\ irr \subseteq Lines
  /\ polled \in BOOLEAN

\* What the boot has set up so far
TablesSet ==
  /\ stage_i # "off" =>
       /\ offset[1] = 32 /\ offset[2] = 40
       /\ DOMAIN idt = 0 .. 47 \union {128} /\ \A v \in 32 .. 47 : idt[v] = "irq"
       /\ 5 \in DOMAIN gdt
  /\ stage_i \in {"on", "panic"} => gdt[5] = TssAccess

\* Only programs are interrupted, and each frame has the vector of its line
StackOfPrograms ==
  \A i \in 1 .. Len(frames) :
    /\ frames[i].at = "syscall" <=> frames[i].line = 128
    /\ frames[i].vector = IF frames[i].line = 128 THEN 128 ELSE 32 + frames[i].line
    /\ i < Len(frames) => frames[i].at = "program"

\* What is in service at each place of a handler; the line of the keyboard stays
\* so below a program, until the stub of the next interrupt ends it by mistake.  On
\* the second chip it is the line of the handler, if no poll has accepted another.
OnFirst(s) == {k \in s : k < 8}
OnSecond(s) == {k \in s : k >= 8}
ServedNow == IF frames # <<>> /\ Top.at \in {"irq", "generic"} /\ Top.line >= 8 THEN {Top.line} ELSE {}
InService ==
  /\ frames = <<>> => OnFirst(isr) = {}
  /\ frames # <<>> =>
       /\ Top.at \in {"program", "syscall", "end"} => OnFirst(isr) \subseteq {1}
       /\ Top.at = "syscall" => Depth > 1
       /\ Top.at \in {"irq", "generic"} =>
            \/ OnFirst(isr) = {OnMaster(Top.line)}
            \/ Top.line = 0 /\ OnFirst(isr) = {0, 1} /\ Depth > 1
  /\ polled = FALSE => OnSecond(isr) = ServedNow

FlagFollows ==
  /\ stage_i \in {"off", "early"} => frames = <<>> /\ isr = {} /\ ~intsOn
  /\ stage_i = "panic" => ~intsOn
  /\ stage_i = "on" => (intsOn <=> frames = <<>> \/ Top.at = "program") /\ InService

InterruptsInv == InterruptTypes /\ TablesSet /\ StackOfPrograms /\ FlagFollows

(* The unspecific EOI ends the line of highest priority that is in service. *)
LEMMA EoiOfNone ==
  ASSUME NEW chip, NEW s, {k \in s : Chip(k) = chip} = {} PROVE Eoi(s, chip) = s
BY DEF Eoi

LEMMA EoiOfOne ==
  ASSUME NEW l \in 0 .. 15, NEW s \in SUBSET (0 .. 15), l \in s,
         \A k \in s : Chip(k) = Chip(l) => l <= k
  PROVE  Eoi(s, Chip(l)) = s \ {l}
<1> DEFINE served == {k \in s : Chip(k) = Chip(l)}
<1>1. Min(served) = l
  <2>1. served \subseteq Nat /\ l \in served /\ \A k \in served : l <= k
    <3>1. s \subseteq Nat
      OBVIOUS
    <3>2. QED BY <3>1
  <2> HIDE DEF served
  <2>2. Min(served) \in served /\ \A k \in served : Min(served) <= k
    BY <2>1, MinIsLeast
  <2>3. Min(served) \in Nat /\ l \in Nat /\ Min(served) <= l /\ l <= Min(served)
    BY <2>1, <2>2
  <2>4. QED BY <2>3
<1>2. QED BY <1>1 DEF Eoi

LEMMA EoiOfFirst ==
  ASSUME NEW s \in SUBSET (0 .. 15)
  PROVE  /\ Eoi(s, 1) \subseteq 0 .. 15 /\ OnSecond(Eoi(s, 1)) = OnSecond(s)
         /\ OnFirst(s) = {} => OnFirst(Eoi(s, 1)) = {}
         /\ \A l \in 0 .. 7 : OnFirst(s) = {l} => OnFirst(Eoi(s, 1)) = {}
         /\ OnFirst(s) = {0, 1} => OnFirst(Eoi(s, 1)) = {1}
<1>1. \A k \in s : Chip(k) = 1 <=> k < 8
  BY DEF Chip
<1>2. CASE OnFirst(s) = {}
  <2>1. {k \in s : Chip(k) = 1} = {}
    BY <1>1, <1>2 DEF OnFirst
  <2>2. Eoi(s, 1) = s
    BY <2>1, EoiOfNone
  <2>3. QED BY <1>2, <2>2
<1>3. CASE OnFirst(s) # {}
  <2>1. PICK l \in s : l < 8 /\ \A k \in s : k < 8 => l <= k
    <3>1. OnFirst(s) \subseteq Nat
      <4>1. s \subseteq Nat /\ OnFirst(s) \subseteq s
        BY DEF OnFirst
      <4>2. QED BY <4>1
    <3>2. PICK l \in OnFirst(s) : \A k \in OnFirst(s) : l <= k
      <4>1. Min(OnFirst(s)) \in OnFirst(s) /\ \A k \in OnFirst(s) : Min(OnFirst(s)) <= k
        BY <1>3, <3>1, MinIsLeast
      <4>2. QED BY <4>1
    <3>3. QED BY <3>2 DEF OnFirst
  <2>2. Chip(l) = 1 /\ l \in 0 .. 15
    BY <1>1, <2>1
  <2>3. Eoi(s, 1) = s \ {l}
    <3>1. \A k \in s : Chip(k) = Chip(l) => l <= k
      BY <1>1, <2>1, <2>2
    <3>2. Eoi(s, Chip(l)) = s \ {l}
      BY <2>1, <2>2, <3>1, EoiOfOne
    <3>3. QED BY <2>2, <3>2
  <2>4. OnFirst(Eoi(s, 1)) = OnFirst(s) \ {l} /\ OnSecond(Eoi(s, 1)) = OnSecond(s)
    BY <2>1, <2>3 DEF OnFirst, OnSecond
  <2>5. l \in OnFirst(s) /\ \A k \in OnFirst(s) : l <= k
    BY <2>1 DEF OnFirst
  <2>6. \A m \in 0 .. 7 : OnFirst(s) = {m} => OnFirst(s) \ {l} = {}
    BY <2>5
  <2>7. OnFirst(s) = {0, 1} => OnFirst(s) \ {l} = {1}
    BY <2>5
  <2>8. QED BY <1>3, <2>3, <2>4, <2>6, <2>7
<1>4. QED BY <1>2, <1>3

LEMMA EoiOfSecond ==
  ASSUME NEW s \in SUBSET (0 .. 15)
  PROVE  /\ Eoi(s, 2) \subseteq 0 .. 15 /\ OnFirst(Eoi(s, 2)) = OnFirst(s)
         /\ \A l \in 8 .. 15 : OnSecond(s) = {l} => OnSecond(Eoi(s, 2)) = {}
<1>1. \A k \in s : Chip(k) = 2 <=> k >= 8
  BY DEF Chip
<1>2. CASE OnSecond(s) = {}
  <2>1. {k \in s : Chip(k) = 2} = {}
    BY <1>1, <1>2 DEF OnSecond
  <2>2. Eoi(s, 2) = s
    BY <2>1, EoiOfNone
  <2>3. QED BY <1>2, <2>2
<1>3. CASE OnSecond(s) # {}
  <2>1. PICK l \in s : l >= 8 /\ \A k \in s : k >= 8 => l <= k
    <3>1. OnSecond(s) \subseteq Nat
      <4>1. s \subseteq Nat /\ OnSecond(s) \subseteq s
        BY DEF OnSecond
      <4>2. QED BY <4>1
    <3>2. PICK l \in OnSecond(s) : \A k \in OnSecond(s) : l <= k
      <4>1. Min(OnSecond(s)) \in OnSecond(s) /\ \A k \in OnSecond(s) : Min(OnSecond(s)) <= k
        BY <1>3, <3>1, MinIsLeast
      <4>2. QED BY <4>1
    <3>3. QED BY <3>2 DEF OnSecond
  <2>2. Chip(l) = 2 /\ l \in 0 .. 15
    BY <1>1, <2>1
  <2>3. Eoi(s, 2) = s \ {l}
    <3>1. \A k \in s : Chip(k) = Chip(l) => l <= k
      BY <1>1, <2>1, <2>2
    <3>2. Eoi(s, Chip(l)) = s \ {l}
      BY <2>1, <2>2, <3>1, EoiOfOne
    <3>3. QED BY <2>2, <3>2
  <2>4. OnFirst(Eoi(s, 2)) = OnFirst(s) /\ OnSecond(Eoi(s, 2)) = OnSecond(s) \ {l} /\ l \in OnSecond(s)
    BY <2>1, <2>3 DEF OnFirst, OnSecond
  <2>5. QED BY <2>3, <2>4
<1>4. QED BY <1>2, <1>3

(* The EOIs of irq_handler end the line that it handles. *)
LEMMA HandlerEndsItsLine ==
  ASSUME NEW l \in (0 .. 15) \ {2}, NEW s \in SUBSET (0 .. 15),
         OnFirst(s) = {OnMaster(l)} \/ (l = 0 /\ OnFirst(s) = {0, 1})
  PROVE  /\ SendEoi(s, l) \subseteq 0 .. 15 /\ OnFirst(SendEoi(s, l)) \subseteq {1}
         /\ OnSecond(s) = (IF l >= 8 THEN {l} ELSE {}) => OnSecond(SendEoi(s, l)) = {}
<1> DEFINE t == IF l >= 8 THEN Eoi(s, 2) ELSE s
<1>1. /\ t \in SUBSET (0 .. 15) /\ OnFirst(t) = OnFirst(s)
      /\ OnSecond(s) = (IF l >= 8 THEN {l} ELSE {}) => OnSecond(t) = {}
  BY EoiOfSecond
<1>2. SendEoi(s, l) = Eoi(t, 1)
  BY DEF SendEoi
<1> HIDE DEF t
<1>3. OnMaster(l) \in 0 .. 7
  BY DEF OnMaster
<1>4. QED BY <1>1, <1>2, <1>3, EoiOfFirst

(* What the first step of the boot sets up. *)
LEMMA BootTables ==
  ASSUME GdtInit, IdtInit, PicInit
  PROVE  /\ offset'[1] = 32 /\ offset'[2] = 40
         /\ DOMAIN idt' = 0 .. 47 \union {128} /\ \A v \in 32 .. 47 : idt'[v] = "irq"
         /\ 5 \in DOMAIN gdt' /\ isr' = {} /\ irr' = {}
<1>1. offset'[1] = 32 /\ offset'[2] = 40 /\ isr' = {} /\ irr' = {}
  BY DEF PicInit, Offset1, Offset2
<1>2. 5 \in DOMAIN gdt'
  BY DEF GdtInit
<1>3. QED BY <1>1, <1>2 DEF IdtInit

LEMMA InterruptsInvInit == InterruptsInit => InterruptsInv
<1> SUFFICES ASSUME InterruptsInit PROVE InterruptsInv
  OBVIOUS
<1>1. /\ stage_i = "off" /\ frames = <<>> /\ isr = {} /\ irr = {} /\ Len(frames) = 0
      /\ frames \in Seq(FrameRecord)
  BY EmptySeq DEF InterruptsInit
<1>2. intsOn = FALSE /\ polled = FALSE
  BY DEF InterruptsInit
<1>3. InterruptTypes
  BY <1>1, <1>2 DEF InterruptTypes
<1>4. TablesSet /\ StackOfPrograms
  BY <1>1 DEF TablesSet, StackOfPrograms
<1>5. FlagFollows
  BY <1>1, <1>2 DEF FlagFollows
<1>6. QED BY <1>3, <1>4, <1>5 DEF InterruptsInv

\* The record of the frame on top, and the frames below it
LEMMA TopTyped ==
  ASSUME InterruptsAssumption, InterruptTypes, StackOfPrograms, frames # <<>>
  PROVE  /\ Depth \in Nat \ {0} /\ Top \in FrameRecord /\ Top = frames[Depth]
         /\ Top.at = "syscall" <=> Top.line = 128
         /\ Top.line # 128 => Top.line \in (0 .. 15) \ {2} /\ Top.vector = 32 + Top.line
         /\ Top.line = 128 => Top.vector = 128
<1>1. Depth \in Nat \ {0} /\ Depth \in 1 .. Len(frames)
  BY EmptySeq DEF InterruptTypes, Depth
<1>2. Top \in FrameRecord /\ Top = frames[Depth]
  BY <1>1 DEF InterruptTypes, Top
<1>3. Top.line \in Lines \union {128}
  BY <1>2 DEF FrameRecord
<1>4. /\ Top.at = "syscall" <=> Top.line = 128
      /\ Top.vector = (IF Top.line = 128 THEN 128 ELSE 32 + Top.line)
  BY <1>1, <1>2 DEF StackOfPrograms
<1>5. Lines \subseteq (0 .. 15) \ {2}
  BY DEF InterruptsAssumption
<1>6. QED BY <1>1, <1>2, <1>3, <1>4, <1>5

(* MoveTop changes where the frame on top is and nothing else. *)
LEMMA MoveTopKeeps ==
  ASSUME InterruptsAssumption, InterruptTypes, StackOfPrograms, frames # <<>>,
         Top.at # "syscall", NEW at \in Kinds \ {"syscall"}, MoveTop(at)
  PROVE  /\ frames' \in Seq(FrameRecord) /\ StackOfPrograms' /\ frames' # <<>>
         /\ Depth' = Depth /\ Top'.at = at /\ Top'.line = Top.line /\ Top'.vector = Top.vector
<1>1. /\ Depth \in Nat \ {0} /\ Top \in FrameRecord /\ Top = frames[Depth]
  BY TopTyped
<1>2. /\ frames \in Seq(FrameRecord) /\ Depth = Len(frames)
      /\ frames' = [frames EXCEPT ![Depth] = [Top EXCEPT !.at = at]]
  BY <1>1 DEF InterruptTypes, Depth, MoveTop
<1> DEFINE t == [Top EXCEPT !.at = at]
<1>3. t \in FrameRecord /\ t.at = at /\ t.line = Top.line /\ t.vector = Top.vector
  BY <1>1 DEF FrameRecord, Kinds
<1> HIDE DEF t
<1>4. /\ frames' \in Seq(FrameRecord) /\ Len(frames') = Depth /\ frames'[Depth] = t
      /\ \A i \in 1 .. Depth : i # Depth => frames'[i] = frames[i]
  <2>1. frames' = [frames EXCEPT ![Depth] = t]
    BY <1>2 DEF t
  <2> DEFINE m == Depth
  <2>2. m \in 1 .. Len(frames) /\ m = Len(frames) /\ frames' = [frames EXCEPT ![m] = t]
    <3>1. frames' = [frames EXCEPT ![m] = t]
      BY <2>1
    <3>2. m \in 1 .. Len(frames) /\ m = Len(frames)
      BY <1>1, <1>2
    <3>3. QED BY <3>1, <3>2
  <2> HIDE DEF m
  <2>3. frames' \in Seq(FrameRecord) /\ Len(frames') = m
    BY <1>2, <1>3, <2>2
  <2>4. frames'[m] = t /\ \A i \in 1 .. m : i # m => frames'[i] = frames[i]
    BY <1>2, <2>2
  <2>5. QED BY <2>3, <2>4 DEF m
<1>5. frames' # <<>> /\ Depth' = Depth /\ Top' = t
  BY <1>1, <1>2, <1>4 DEF Depth, Top
<1>6. StackOfPrograms'
  BY <1>1, <1>2, <1>3, <1>4 DEF StackOfPrograms
<1>7. QED BY <1>3, <1>4, <1>5, <1>6

(* Enter puts a frame on top of programs. *)
LEMMA EnterKeeps ==
  ASSUME InterruptsAssumption, InterruptTypes, StackOfPrograms,
         frames # <<>> => Top.at = "program",
         NEW line \in Lines \union {128}, NEW vector \in 0 .. 255, NEW at \in Kinds,
         at = "syscall" <=> line = 128, vector = (IF line = 128 THEN 128 ELSE 32 + line),
         Enter(vector, line, at)
  PROVE  /\ frames' \in Seq(FrameRecord) /\ StackOfPrograms' /\ frames' # <<>>
         /\ Depth' = Depth + 1 /\ Top'.at = at /\ Top'.line = line
<1> DEFINE t == [vector |-> vector, line |-> line, at |-> at]
<1>1. t \in FrameRecord /\ t.at = at /\ t.line = line /\ t.vector = vector
  BY DEF FrameRecord
<1>2. frames' = Append(frames, t) /\ frames \in Seq(FrameRecord)
  BY DEF Enter, InterruptTypes
<1> HIDE DEF t
<1>3. /\ frames' \in Seq(FrameRecord) /\ Len(frames') = Len(frames) + 1 /\ frames'[Len(frames) + 1] = t
      /\ \A i \in 1 .. Len(frames) : frames'[i] = frames[i]
      /\ Len(frames) \in Nat
  BY <1>1, <1>2
<1>4. frames' # <<>>
  BY <1>3
<1>5. Depth' = Depth + 1 /\ Top' = t
  BY <1>3 DEF Depth, Top
<1>6. Len(frames) # 0 => frames[Len(frames)].at = "program"
  BY <1>2, EmptySeq DEF Top, Depth
<1>7. StackOfPrograms'
  <2>1. ASSUME NEW i \in 1 .. Len(frames')
        PROVE  /\ frames'[i].at = "syscall" <=> frames'[i].line = 128
               /\ frames'[i].vector = IF frames'[i].line = 128 THEN 128 ELSE 32 + frames'[i].line
               /\ i < Len(frames') => frames'[i].at = "program"
    <3>1. CASE i = Len(frames) + 1
      BY <3>1, <1>1, <1>3
    <3>2. CASE i \in 1 .. Len(frames)
      <4>1. i < Len(frames) \/ i = Len(frames)
        BY <3>2, <1>3
      <4>2. QED BY <3>2, <4>1, <1>3, <1>6 DEF StackOfPrograms
    <3>3. QED BY <3>1, <3>2, <1>3
  <2>2. QED BY <2>1 DEF StackOfPrograms
<1>8. QED BY <1>1, <1>3, <1>4, <1>5, <1>7

(* Pop leaves programs. *)
LEMMA PopKeeps ==
  ASSUME InterruptsAssumption, InterruptTypes, StackOfPrograms, frames # <<>>, Pop
  PROVE  /\ frames' \in Seq(FrameRecord) /\ StackOfPrograms'
         /\ frames' # <<>> => Top'.at = "program"
         /\ Depth > 1 => frames' # <<>>
<1> DEFINE n == Len(frames) - 1
<1>1. Len(frames) \in Nat \ {0} /\ frames \in Seq(FrameRecord) /\ n \in Nat
  BY EmptySeq DEF InterruptTypes
<1>2. frames' = SubSeq(frames, 1, n)
  BY DEF Pop, Depth
<1>3. /\ frames' \in Seq(FrameRecord) /\ Len(frames') = n
      /\ \A i \in 1 .. n : frames'[i] = frames[i]
  <2>1. \A i \in 1 .. n : frames[i] \in FrameRecord
    BY <1>1
  <2>2. n \in Int /\ 1 \in Int
    BY <1>1
  <2> HIDE DEF n
  <2>3. frames' \in Seq(FrameRecord)
    BY <2>1, <2>2, <1>2, SubSeqProperties
  <2>4. Len(frames') = IF 1 <= n THEN n - 1 + 1 ELSE 0
    BY <2>1, <2>2, <1>2, SubSeqProperties
  <2>5. \A i \in 1 .. n - 1 + 1 : frames'[i] = frames[1 + i - 1]
    BY <2>1, <2>2, <1>2, SubSeqProperties
  <2>6. QED BY <1>1, <2>3, <2>4, <2>5
<1> HIDE DEF n
<1>4. \A i \in 1 .. n : i \in 1 .. Len(frames) /\ i < Len(frames)
  BY <1>1 DEF n
<1>5. StackOfPrograms'
  BY <1>1, <1>3, <1>4 DEF StackOfPrograms
<1>6. frames' # <<>> => Top'.at = "program"
  <2>1. frames' # <<>> => n \in 1 .. n
    BY <1>1, <1>3, EmptySeq
  <2>2. QED BY <2>1, <1>3, <1>4 DEF Top, Depth, StackOfPrograms
<1>7. Depth > 1 => frames' # <<>>
  <2>1. Depth > 1 => n > 0
    BY <1>1 DEF n, Depth
  <2>2. QED BY <1>3, <2>1, EmptySeq
<1>8. QED BY <1>3, <1>5, <1>6, <1>7

LEMMA InterruptsStep ==
  ASSUME InterruptsAssumption, InterruptsInv, [InterruptsNext]_interruptVars
  PROVE  InterruptsInv'
<1>0. InterruptTypes /\ TablesSet /\ StackOfPrograms /\ FlagFollows
  BY DEF InterruptsInv
<1> USE <1>0
<1>1. CASE EarlyInit
  <2>1. /\ stage_i' = "early" /\ stage_i = "off" /\ GdtInit /\ IdtInit /\ PicInit
        /\ UNCHANGED <<intsOn, frames, polled>>
    BY <1>1 DEF EarlyInit
  <2>2. TablesSet' /\ isr' = {} /\ irr' = {}
    BY <2>1, BootTables DEF TablesSet
  <2>3. InterruptTypes' /\ StackOfPrograms' /\ FlagFollows'
    BY <2>1, <2>2 DEF InterruptTypes, StackOfPrograms, FlagFollows
  <2>4. QED BY <2>2, <2>3 DEF InterruptsInv
<1>2. CASE InitTss
  <2>1. /\ gdt' = [gdt EXCEPT ![5] = TssAccess] /\ stage_i = "early"
        /\ UNCHANGED <<idt, offset, isr, irr, intsOn, frames, stage_i, polled>>
    BY <1>2 DEF InitTss
  <2>2. TablesSet'
    BY <2>1 DEF TablesSet
  <2>3. InterruptTypes' /\ StackOfPrograms' /\ FlagFollows'
    BY <2>1 DEF InterruptTypes, StackOfPrograms, FlagFollows
  <2>4. QED BY <2>2, <2>3 DEF InterruptsInv
<1>3. CASE EnableInterrupts
  <2>1. /\ stage_i = "early" /\ stage_i' = "on" /\ intsOn' = TRUE /\ gdt[5] = TssAccess
        /\ UNCHANGED <<gdt, idt, offset, irr, isr, frames, polled>>
    BY <1>3 DEF EnableInterrupts, tables
  <2>2. frames = <<>> /\ isr = {}
    BY <2>1 DEF FlagFollows
  <2>3. TablesSet' /\ StackOfPrograms'
    BY <2>1 DEF TablesSet, StackOfPrograms
  <2>4. InterruptTypes' /\ FlagFollows'
    <3>1. intsOn' \in BOOLEAN
      BY <2>1
    <3>2. QED BY <2>1, <2>2, <3>1 DEF InterruptTypes, FlagFollows, InService, OnFirst, OnSecond, ServedNow
  <2>5. QED BY <2>3, <2>4 DEF InterruptsInv
<1>4. ASSUME UNCHANGED <<gdt, idt, offset, intsOn, frames, stage_i>>, irr' \subseteq Lines,
             \/ UNCHANGED <<isr, polled>>
             \/ stage_i = "on" /\ polled' = TRUE /\ isr' \subseteq 0 .. 15 /\ OnFirst(isr') = OnFirst(isr)
      PROVE  InterruptsInv'
  <2>1. InterruptTypes'
    BY <1>4 DEF InterruptTypes
  <2>2. TablesSet' /\ StackOfPrograms'
    BY <1>4 DEF TablesSet, StackOfPrograms
  <2>3. FlagFollows'
    <3>1. Top' = Top /\ Depth' = Depth /\ ServedNow' = ServedNow
      BY <1>4 DEF Top, Depth, ServedNow
    <3>2. InService => InService'
      <4>1. CASE UNCHANGED <<isr, polled>>
        BY <1>4, <3>1, <4>1 DEF InService
      <4>2. CASE polled' = TRUE /\ OnFirst(isr') = OnFirst(isr)
        BY <1>4, <3>1, <4>2 DEF InService
      <4>3. QED BY <1>4, <4>1, <4>2
    <3>3. QED BY <1>4, <3>1, <3>2 DEF FlagFollows
  <2>4. QED BY <2>1, <2>2, <2>3 DEF InterruptsInv
<1>5. ASSUME (\E l \in Lines : Raise(l)) \/ UNCHANGED interruptVars PROVE InterruptsInv'
  <2>1. UNCHANGED <<gdt, idt, offset, isr, polled, intsOn, frames, stage_i>> /\ irr' \subseteq Lines
    BY <1>5 DEF Raise, interruptVars, tables, InterruptTypes
  <2>2. QED BY <2>1, <1>4
<1>15. ASSUME NEW m \in Lines, MaskIrq(m) PROVE InterruptsInv'
  <2>1. UNCHANGED <<gdt, idt, offset, intsOn, frames, stage_i>> /\ stage_i = "on"
    BY <1>15 DEF MaskIrq
  <2>2. CASE ~(poll /\ m >= 8) \/ (Asking = {} /\ UNCHANGED <<irr, isr, polled>>)
    <3>1. UNCHANGED <<irr, isr, polled>>
      BY <1>15, <2>2 DEF MaskIrq
    <3>2. QED BY <2>1, <3>1, <1>4 DEF InterruptTypes
  <2>3. ASSUME NEW k \in Asking, irr' = irr \ {k}, isr' = isr \union {k}, polled' = TRUE
        PROVE  InterruptsInv'
    <3>1. k \in 0 .. 15 /\ k >= 8
      BY DEF Asking, InterruptTypes, InterruptsAssumption
    <3>2. irr' \subseteq Lines /\ isr' \subseteq 0 .. 15 /\ OnFirst(isr') = OnFirst(isr)
      BY <2>3, <3>1 DEF InterruptTypes, OnFirst
    <3>3. QED BY <2>1, <2>3, <3>2, <1>4
  <2>4. CASE poll /\ m >= 8
    <3>1. Poll(m)
      BY <1>15, <2>4 DEF MaskIrq
    <3>2. \/ \E k \in Asking : irr' = irr \ {k} /\ isr' = isr \union {k} /\ polled' = TRUE
          \/ Asking = {} /\ UNCHANGED <<irr, isr, polled>>
      BY <3>1 DEF Poll
    <3>3. QED BY <2>2, <2>3, <3>2
  <2>5. QED BY <2>2, <2>4
<1>6. CASE Accept
  <2>1. PICK l \in Waiting :
          /\ isr' = isr \union {OnMaster(l), l} /\ irr' = irr \ {l}
          /\ IF Vector(l) \in DOMAIN idt
             THEN Enter(Vector(l), l, idt[Vector(l)]) /\ UNCHANGED stage_i
             ELSE stage_i' = "panic" /\ UNCHANGED frames
    BY <1>6 DEF Accept
  <2>2. /\ stage_i = "on" /\ intsOn /\ intsOn' = FALSE
        /\ UNCHANGED <<gdt, idt, offset, polled>>
    BY <1>6 DEF Accept, tables
  <2>3. l \in Lines /\ l \in (0 .. 15) \ {2} /\ Passes(l)
    BY DEF Waiting, InterruptTypes, InterruptsAssumption
  <2>4. Vector(l) = 32 + l /\ Vector(l) \in 32 .. 47
    BY <2>2, <2>3 DEF Vector, TablesSet
  <2>5. Vector(l) \in DOMAIN idt /\ idt[Vector(l)] = "irq"
    BY <2>2, <2>4 DEF TablesSet
  <2>6. Enter(Vector(l), l, "irq") /\ stage_i' = "on"
    BY <2>1, <2>2, <2>5
  <2>7. frames # <<>> => Top.at = "program"
    BY <2>2 DEF FlagFollows
  <2>8. /\ frames' \in Seq(FrameRecord) /\ StackOfPrograms' /\ frames' # <<>>
        /\ Depth' = Depth + 1 /\ Top'.at = "irq" /\ Top'.line = l
    <3>1. "irq" \in Kinds /\ Vector(l) \in 0 .. 255 /\ l # 128
      BY <2>3, <2>4 DEF Kinds
    <3>2. QED BY <2>3, <2>4, <2>6, <2>7, <3>1, EnterKeeps
  <2>9. /\ OnFirst(isr') = {OnMaster(l)} \/ (l = 0 /\ OnFirst(isr') = {0, 1} /\ Depth' > 1)
        /\ polled = FALSE => OnSecond(isr') = IF l >= 8 THEN {l} ELSE {}
    <3>0. InService /\ OnMaster(l) \in 0 .. 7 /\ (l < 8 => OnMaster(l) = l)
      BY <2>2, <2>3 DEF FlagFollows, OnMaster
    <3>1. /\ OnFirst(isr') = OnFirst(isr) \union {OnMaster(l)}
          /\ OnSecond(isr') = OnSecond(isr) \union (IF l >= 8 THEN {l} ELSE {})
      BY <2>1, <2>3, <3>0 DEF OnFirst, OnSecond
    <3>2. OnFirst(isr) = {} => OnFirst(isr') = {OnMaster(l)}
      BY <3>1
    <3>3. ASSUME OnFirst(isr) = {1}, frames # <<>>
          PROVE  l = 0 /\ OnFirst(isr') = {0, 1} /\ Depth' > 1
      <4>1. OnMaster(l) < 1
        <5>1. 1 \in isr
          BY <3>3 DEF OnFirst
        <5>2. QED BY <5>1, <2>3 DEF Passes
      <4>2. l = 0 /\ OnMaster(l) = 0
        BY <4>1, <2>3 DEF OnMaster
      <4>3. Depth \in Nat \ {0}
        BY <3>3, EmptySeq DEF InterruptTypes, Depth
      <4>4. QED BY <2>8, <3>1, <3>3, <4>2, <4>3
    <3>4. OnFirst(isr) = {} \/ (OnFirst(isr) = {1} /\ frames # <<>>)
      BY <2>7, <3>0 DEF InService
    <3>5. polled = FALSE => OnSecond(isr) = {}
      BY <2>7, <3>0 DEF InService, ServedNow
    <3>6. OnFirst(isr') = {OnMaster(l)} \/ (l = 0 /\ OnFirst(isr') = {0, 1} /\ Depth' > 1)
      BY <3>2, <3>3, <3>4, <3>1
    <3>7. QED BY <3>1, <3>5, <3>6
  <2>10. isr' \subseteq 0 .. 15 /\ irr' \subseteq Lines
    BY <2>1, <2>3 DEF InterruptTypes, OnMaster
  <2>11. InterruptTypes' /\ TablesSet'
    <3>1. intsOn' \in BOOLEAN
      BY <2>2
    <3>2. QED BY <2>2, <2>6, <2>8, <2>10, <3>1 DEF InterruptTypes, TablesSet
  <2>12. FlagFollows'
    <3>1. InService'
      BY <2>2, <2>8, <2>9 DEF InService, ServedNow
    <3>2. QED BY <2>2, <2>6, <2>8, <3>1 DEF FlagFollows
  <2>13. QED BY <2>8, <2>11, <2>12 DEF InterruptsInv
<1>7. ASSUME InStub("irq") \/ InStub("generic") \/ InStub("end") \/ InStub("program") \/ InStub("syscall")
      PROVE  /\ stage_i = "on" /\ frames # <<>> /\ Depth \in Nat \ {0}
             /\ Top.at = "syscall" <=> Top.line = 128
             /\ Top.line # 128 => Top.line \in (0 .. 15) \ {2} /\ Top.vector = 32 + Top.line
             /\ Top.line = 128 => Top.vector = 128
             /\ InService
  <2>1. stage_i = "on" /\ Depth > 0
    BY <1>7 DEF InStub
  <2>2. frames # <<>>
    BY <2>1 DEF Depth
  <2>3. QED BY <2>1, <2>2, TopTyped DEF FlagFollows
<1>8. ASSUME stage_i' = "on", UNCHANGED <<gdt, idt, offset, irr, polled>>, stage_i = "on",
             frames' \in Seq(FrameRecord), StackOfPrograms', isr' \subseteq 0 .. 15,
             intsOn' \in BOOLEAN, intsOn' <=> frames' = <<>> \/ Top'.at = "program", InService'
      PROVE  InterruptsInv'
  <2>1. InterruptTypes'
    BY <1>8 DEF InterruptTypes
  <2>2. TablesSet' /\ FlagFollows'
    BY <1>8 DEF TablesSet, FlagFollows
  <2>3. QED BY <1>8, <2>1, <2>2 DEF InterruptsInv
<1>9. CASE KeyboardReturns \/ OtherLine \/ ProgramStarts
  <2>1. /\ InStub("irq") /\ stage_i' = "on" /\ UNCHANGED <<gdt, idt, offset, irr, isr, polled>>
        /\ \/ MoveTop("generic") /\ UNCHANGED intsOn
           \/ MoveTop("end") /\ UNCHANGED intsOn /\ Top.vector = 33
           \/ MoveTop("program") /\ intsOn' = TRUE /\ Top.vector = 33
    BY <1>9 DEF KeyboardReturns, OtherLine, ProgramStarts, tables, InStub
  <2>2. /\ stage_i = "on" /\ frames # <<>> /\ Top.at = "irq" /\ Top.line \in (0 .. 15) \ {2}
        /\ Top.vector = 32 + Top.line /\ InService
    BY <2>1, <1>7 DEF InStub
  <2>3. /\ OnFirst(isr) = {OnMaster(Top.line)} \/ (Top.line = 0 /\ OnFirst(isr) = {0, 1} /\ Depth > 1)
        /\ Top.vector = 33 => OnFirst(isr) = {1} /\ ServedNow = {}
        /\ polled = FALSE => OnSecond(isr) = ServedNow
    <3>1. Top.vector = 33 => Top.line = 1 /\ OnMaster(Top.line) = 1
      BY <2>2 DEF OnMaster
    <3>2. QED BY <2>2, <3>1 DEF InService, ServedNow
  <2>4. ASSUME NEW at \in Kinds \ {"syscall"}, MoveTop(at)
        PROVE  /\ frames' \in Seq(FrameRecord) /\ StackOfPrograms' /\ frames' # <<>>
               /\ Depth' = Depth /\ Top'.at = at /\ Top'.line = Top.line
    BY <2>2, <2>4, MoveTopKeeps
  <2>5. isr' \subseteq 0 .. 15
    BY <2>1 DEF InterruptTypes
  <2>6. CASE MoveTop("generic") /\ UNCHANGED intsOn
    <3>1. /\ frames' \in Seq(FrameRecord) /\ StackOfPrograms' /\ frames' # <<>>
          /\ Depth' = Depth /\ Top'.at = "generic" /\ Top'.line = Top.line
      BY <2>4, <2>6 DEF Kinds
    <3>2. InService'
      <4>1. ServedNow' = ServedNow
        BY <2>2, <3>1 DEF ServedNow
      <4>2. QED BY <2>1, <2>3, <3>1, <4>1 DEF InService
    <3>3. intsOn' \in BOOLEAN /\ ~intsOn'
      BY <2>2, <2>6 DEF InterruptTypes, FlagFollows
    <3>4. QED BY <1>8, <2>1, <2>2, <2>5, <3>1, <3>2, <3>3
  <2>7. CASE MoveTop("end") /\ UNCHANGED intsOn /\ Top.vector = 33
    <3>1. /\ frames' \in Seq(FrameRecord) /\ StackOfPrograms' /\ frames' # <<>> /\ Top'.at = "end"
      BY <2>4, <2>7 DEF Kinds
    <3>2. InService'
      <4>1. ServedNow' = {}
        BY <3>1 DEF ServedNow
      <4>2. QED BY <2>1, <2>3, <2>7, <3>1, <4>1 DEF InService
    <3>3. intsOn' \in BOOLEAN /\ ~intsOn'
      BY <2>2, <2>7 DEF InterruptTypes, FlagFollows
    <3>4. QED BY <1>8, <2>1, <2>2, <2>5, <3>1, <3>2, <3>3
  <2>8. CASE MoveTop("program") /\ intsOn' = TRUE /\ Top.vector = 33
    <3>1. /\ frames' \in Seq(FrameRecord) /\ StackOfPrograms' /\ frames' # <<>> /\ Top'.at = "program"
      BY <2>4, <2>8 DEF Kinds
    <3>2. InService'
      <4>1. ServedNow' = {}
        BY <3>1 DEF ServedNow
      <4>2. QED BY <2>1, <2>3, <2>8, <3>1, <4>1 DEF InService
    <3>3. intsOn' \in BOOLEAN /\ intsOn'
      BY <2>8
    <3>4. QED BY <1>8, <2>1, <2>2, <2>5, <3>1, <3>2, <3>3
  <2>9. QED BY <2>1, <2>6, <2>7, <2>8
<1>10. CASE IrqHandler
  <2>1. /\ InStub("generic") /\ stage_i' = "on" /\ isr' = SendEoi(isr, Top.vector - 32) /\ MoveTop("end")
        /\ UNCHANGED <<gdt, idt, offset, irr, intsOn, polled>>
    BY <1>10 DEF IrqHandler, tables, InStub
  <2>2. /\ stage_i = "on" /\ frames # <<>> /\ Top.at = "generic" /\ Top.line \in (0 .. 15) \ {2}
        /\ Top.vector = 32 + Top.line /\ InService
    BY <2>1, <1>7 DEF InStub
  <2>3. /\ isr' \subseteq 0 .. 15 /\ OnFirst(isr') \subseteq {1}
        /\ polled = FALSE => OnSecond(isr') = {}
    <3>1. Top.vector - 32 = Top.line
      BY <2>2
    <3>2. isr' = SendEoi(isr, Top.line)
      BY <2>1, <3>1
    <3>3. OnFirst(isr) = {OnMaster(Top.line)} \/ (Top.line = 0 /\ OnFirst(isr) = {0, 1})
      BY <2>2 DEF InService
    <3>4. polled = FALSE => OnSecond(isr) = IF Top.line >= 8 THEN {Top.line} ELSE {}
      BY <2>2 DEF InService, ServedNow
    <3>5. isr \in SUBSET (0 .. 15)
      BY DEF InterruptTypes
    <3>6. QED BY <2>2, <3>2, <3>3, <3>4, <3>5, HandlerEndsItsLine
  <2>4. /\ frames' \in Seq(FrameRecord) /\ StackOfPrograms' /\ frames' # <<>> /\ Top'.at = "end"
    <3>1. "end" \in Kinds \ {"syscall"} /\ Top.at # "syscall"
      BY <2>2 DEF Kinds
    <3>2. QED BY <2>1, <2>2, <3>1, MoveTopKeeps
  <2>5. InService' /\ isr' \subseteq 0 .. 15
    BY <2>1, <2>3, <2>4 DEF InService, ServedNow
  <2>6. intsOn' \in BOOLEAN /\ ~intsOn'
    BY <2>1, <2>2 DEF InterruptTypes, FlagFollows
  <2>7. QED BY <1>8, <2>1, <2>2, <2>4, <2>5, <2>6
<1>11. CASE EndIrq \/ SyscallReturns
  <2>1. /\ stage_i' = "on" /\ Pop /\ intsOn' = TRUE /\ UNCHANGED <<gdt, idt, offset, irr, polled>>
        /\ \/ InStub("end") /\ isr' = StubEoi(isr)
           \/ InStub("syscall") /\ isr' = isr
    BY <1>11 DEF EndIrq, SyscallReturns, tables, InStub
  <2>2. stage_i = "on" /\ frames # <<>> /\ InService /\ Top.at \in {"end", "syscall"}
    BY <2>1, <1>7 DEF InStub
  <2>3. /\ isr' \subseteq 0 .. 15 /\ OnFirst(isr') \subseteq {1} /\ (OnFirst(isr') = {} \/ Depth > 1)
        /\ polled = FALSE => OnSecond(isr') = {}
    <3>1. OnFirst(isr) \subseteq {1} /\ (polled = FALSE => OnSecond(isr) = {})
      BY <2>2 DEF InService, ServedNow
    <3>2. CASE InStub("end") /\ isr' = StubEoi(isr)
      <4>1. isr \in SUBSET (0 .. 15) /\ isr' = Eoi(isr, 1)
        BY <3>2 DEF InterruptTypes, StubEoi
      <4>2. OnFirst(isr) = {} \/ OnFirst(isr) = {1}
        BY <3>1
      <4>3. QED BY <3>1, <4>1, <4>2, EoiOfFirst
    <3>3. CASE InStub("syscall") /\ isr' = isr
      BY <3>1, <3>3, <2>2 DEF InService, InStub, InterruptTypes
    <3>4. QED BY <2>1, <3>2, <3>3
  <2>4. /\ frames' \in Seq(FrameRecord) /\ StackOfPrograms'
        /\ frames' # <<>> => Top'.at = "program"
        /\ Depth > 1 => frames' # <<>>
    BY <2>1, <2>2, PopKeeps
  <2>5. OnFirst(isr') \subseteq {1} /\ (frames' = <<>> => OnFirst(isr') = {})
    BY <2>3, <2>4
  <2>6. InService' /\ isr' \subseteq 0 .. 15
    BY <2>1, <2>3, <2>4, <2>5 DEF InService, ServedNow
  <2>7. intsOn' \in BOOLEAN /\ intsOn'
    BY <2>1
  <2>8. QED BY <1>8, <2>1, <2>2, <2>4, <2>6, <2>7
<1>12. CASE Syscall
  <2>1. /\ InStub("program") /\ stage_i' = "on" /\ Enter(128, 128, "syscall") /\ intsOn' = FALSE
        /\ UNCHANGED <<gdt, idt, offset, irr, isr, polled>>
    BY <1>12 DEF Syscall, tables, InStub
  <2>2. /\ stage_i = "on" /\ frames # <<>> /\ Top.at = "program" /\ InService
    BY <2>1, <1>7 DEF InStub
  <2>3. /\ frames' \in Seq(FrameRecord) /\ StackOfPrograms' /\ frames' # <<>> /\ Top'.at = "syscall"
        /\ Depth' > 1
    <3>1. "syscall" \in Kinds /\ 128 \in 0 .. 255 /\ 128 \in Lines \union {128}
      BY DEF Kinds
    <3>2. Depth \in Nat \ {0}
      BY <2>1, <1>7
    <3>3. QED BY <2>1, <2>2, <3>1, <3>2, EnterKeeps
  <2>4. InService' /\ isr' \subseteq 0 .. 15
    BY <2>1, <2>2, <2>3 DEF InService, InterruptTypes, ServedNow
  <2>5. intsOn' \in BOOLEAN /\ ~intsOn'
    BY <2>1
  <2>6. QED BY <1>8, <2>1, <2>2, <2>3, <2>4, <2>5
<1>13. CASE Exception
  <2>1. /\ stage_i = "on" /\ stage_i' = "panic" /\ intsOn' = FALSE
        /\ UNCHANGED <<gdt, idt, offset, irr, isr, frames, polled>>
    BY <1>13 DEF Exception, tables
  <2>2. intsOn' \in BOOLEAN
    BY <2>1
  <2>3. InterruptTypes'
    BY <2>1, <2>2 DEF InterruptTypes
  <2>4. TablesSet' /\ StackOfPrograms' /\ FlagFollows'
    BY <2>1 DEF TablesSet, StackOfPrograms, FlagFollows
  <2>5. QED BY <2>3, <2>4 DEF InterruptsInv
<1>14. QED
  BY <1>1, <1>2, <1>3, <1>5, <1>6, <1>9, <1>10, <1>11, <1>12, <1>13, <1>15 DEF InterruptsNext

THEOREM InterruptsInvariant ==
  ASSUME InterruptsAssumption PROVE InterruptsSpec => []InterruptsInv
<1>1. InterruptsInit => InterruptsInv
  BY InterruptsInvInit
<1>2. InterruptsInv /\ [InterruptsNext]_interruptVars => InterruptsInv'
  BY InterruptsStep
<1>3. QED BY <1>1, <1>2, PTL DEF InterruptsSpec

(* With interrupts on no line is shut but the keyboard's under a program, and on the second
   chip one that pic_mask_irq accepted by a poll; a handler is never on top of another, and
   it is that of its line (irq_common_stub, pic_send_eoi, asm_jump_to_user, init_tss). *)
THEOREM InterruptsAreServed ==
  ASSUME InterruptsAssumption PROVE InterruptsSpec => []InterruptsSound
<1>1. ASSUME InterruptsInv PROVE NoLineShut
  <2>1. CASE intsOn
    <3>1. stage_i = "on" /\ InService /\ (frames = <<>> \/ Top.at = "program")
      BY <1>1, <2>1 DEF InterruptsInv, InterruptTypes, FlagFollows
    <3>2. /\ OnFirst(isr) \subseteq (IF frames = <<>> THEN {} ELSE {1})
          /\ polled = FALSE => OnSecond(isr) = {}
      BY <3>1 DEF InService, ServedNow
    <3>3. polled \in BOOLEAN /\ isr \subseteq 0 .. 15
      BY <1>1 DEF InterruptsInv, InterruptTypes
    <3>4. polled \/ \A l \in isr : l < 8
      BY <3>2, <3>3 DEF OnSecond
    <3>5. {l \in isr : l < 8} \subseteq (IF frames = <<>> THEN {} ELSE {1})
      BY <3>2 DEF OnFirst
    <3>6. QED BY <3>4, <3>5 DEF NoLineShut
  <2>2. QED BY <2>1 DEF NoLineShut
<1>2. ASSUME InterruptsInv PROVE HandlersWhole
  <2>1. Depth \in Nat /\ Depth = Len(frames)
    BY <1>2 DEF InterruptsInv, InterruptTypes, Depth
  <2>2. \A i \in 1 .. Depth - 1 : frames[i].at = "program"
    BY <1>2, <2>1 DEF InterruptsInv, StackOfPrograms
  <2>3. \A i \in 1 .. Depth : frames[i].line /= 128 => frames[i].vector = 32 + frames[i].line
    BY <1>2, <2>1 DEF InterruptsInv, StackOfPrograms
  <2>4. frames # <<>> => gdt[5] = TssAccess
    BY <1>2 DEF InterruptsInv, InterruptTypes, TablesSet, FlagFollows
  <2>5. (\E i \in 1 .. Depth : frames[i].at = "program") => frames # <<>>
    BY <2>1
  <2>6. QED BY <2>2, <2>3, <2>4, <2>5 DEF HandlersWhole
<1>3. InterruptsInv => InterruptsSound
  BY <1>1, <1>2 DEF InterruptsSound
<1>4. QED BY <1>3, InterruptsInvariant, PTL

-----------------------------------------------------------------------------
(* The mouse *)

(* A move in one byte and its sign is read back. *)
LEMMA MoveReadBack ==
  ASSUME NEW d \in -256 .. 255
  PROVE  d % 256 \in Int /\ Rel(d < 0, Signed8(d % 256)) = d - 256 * Wide(d) /\ Wide(d) \in Nat
<1>0. Wide(d) = (IF d > 127 THEN 1 ELSE 0)
  BY DEF Wide
<1>1. CASE d \in 0 .. 127
  <2>1. d % 256 = d
    BY <1>1
  <2>2. (d + 128) % 256 = d + 128
    BY <1>1
  <2>3. QED BY <1>0, <1>1, <2>1, <2>2 DEF Rel, Signed8
<1>2. CASE d \in -128 .. -1
  <2>1. d % 256 = d + 256
    BY <1>2
  <2>2. (d + 256 + 128) % 256 = d + 128
    BY <1>2
  <2>3. Signed8(d % 256) = d
    BY <1>2, <2>1, <2>2 DEF Signed8
  <2>4. QED BY <1>0, <1>2, <2>1, <2>3 DEF Rel, Extended
<1>3. CASE d \in -256 .. -129
  <2>1. d % 256 = d + 256
    BY <1>3
  <2>2. (d + 256 + 128) % 256 = d + 256 + 128
    BY <1>3
  <2>3. Signed8(d % 256) = d + 256
    BY <1>3, <2>1, <2>2 DEF Signed8
  <2>4. QED BY <1>0, <1>3, <2>1, <2>3 DEF Rel, Extended
<1>5. CASE d \in 128 .. 255
  <2>1. d % 256 = d
    BY <1>5
  <2>2. (d + 128) % 256 = d - 128
    BY <1>5
  <2>3. Signed8(d % 256) = d - 256
    BY <1>5, <2>1, <2>2 DEF Signed8
  <2>4. QED BY <1>0, <1>5, <2>1, <2>3 DEF Rel
<1>4. QED BY <1>1, <1>2, <1>3, <1>5

Flags(dx, dy) == [xneg |-> dx < 0, yneg |-> dy < 0]
Part(d) == [byte |-> d % 256, by |-> d]

\* What was taken of a report and what is left of it are the report
Reporting ==
  \E dx, dy \in Moves :
    \/ mouse.cycle = 0 /\ mouse.byte = <<>> /\ reported = <<Flags(dx, dy), Part(dx), Part(dy)>>
    \/ mouse.cycle = 1 /\ mouse.byte = <<Flags(dx, dy)>> /\ reported = <<Part(dx), Part(dy)>>
    \/ mouse.cycle = 2 /\ mouse.byte = <<Flags(dx, dy), Part(dx)>> /\ reported = <<Part(dy)>>

MouseInv ==
  /\ mouse.x \in Int /\ mouse.y \in Int /\ PointerFollows
  /\ moved.x \in Int /\ moved.y \in Int /\ moved.wideX \in Nat /\ moved.wideY \in Nat
  /\ reported = <<>> => mouse.cycle = 0 /\ mouse.byte = <<>>
  /\ reported # <<>> => Reporting

LEMMA AppendIs ==
  ASSUME NEW S, NEW s \in Seq(S), NEW e \in S, NEW t \in Seq(S), Len(t) = Len(s) + 1,
         t[Len(s) + 1] = e, \A i \in 1 .. Len(s) : t[i] = s[i]
  PROVE  Append(s, e) = t
<1>1. Append(s, e) \in Seq(S) /\ Len(Append(s, e)) = Len(s) + 1
  OBVIOUS
<1>2. \A i \in 1 .. Len(t) : Append(s, e)[i] = t[i]
  OBVIOUS
<1>3. QED BY <1>1, <1>2, SeqEqual

LEMMA TakeNext ==
  ASSUME NEW a, NEW b, NEW c
  PROVE  /\ Append(<<>>, Head(<<a, b, c>>)) = <<a>> /\ Tail(<<a, b, c>>) = <<b, c>>
         /\ Append(<<a>>, Head(<<b, c>>)) = <<a, b>> /\ Tail(<<b, c>>) = <<c>>
         /\ Append(<<a, b>>, Head(<<c>>)) = <<a, b, c>> /\ Tail(<<c>>) = <<>>
<1>1. Append(<<>>, a) = <<a>> /\ Tail(<<a, b, c>>) = <<b, c>> /\ Tail(<<b, c>>) = <<c>> /\ Tail(<<c>>) = <<>>
  OBVIOUS
<1>2. Head(<<a, b, c>>) = a /\ Head(<<b, c>>) = b /\ Head(<<c>>) = c
  OBVIOUS
<1> DEFINE S == {a, b, c}
           s1 == <<a>>
           s2 == <<a, b>>
           s3 == <<a, b, c>>
<1>3. s1 \in Seq(S) /\ s2 \in Seq(S) /\ s3 \in Seq(S) /\ b \in S /\ c \in S
  OBVIOUS
<1>4. /\ Len(s1) = 1 /\ Len(s2) = 2 /\ Len(s3) = 3
      /\ s1[1] = a /\ s2[1] = a /\ s2[2] = b /\ s3[1] = a /\ s3[2] = b /\ s3[3] = c
  OBVIOUS
<1> HIDE DEF S, s1, s2, s3
<1>5. Append(s1, b) = s2
  <2>1. Len(s2) = Len(s1) + 1 /\ s2[Len(s1) + 1] = b /\ \A i \in 1 .. Len(s1) : s2[i] = s1[i]
    BY <1>4
  <2>2. QED BY <1>3, <2>1, AppendIs
<1>6. Append(s2, c) = s3
  <2>1. Len(s3) = Len(s2) + 1 /\ s3[Len(s2) + 1] = c /\ \A i \in 1 .. Len(s2) : s3[i] = s2[i]
    BY <1>4
  <2>2. QED BY <1>3, <2>1, AppendIs
<1>7. Append(<<a>>, b) = <<a, b>> /\ Append(<<a, b>>, c) = <<a, b, c>>
  BY <1>5, <1>6 DEF s1, s2, s3
<1>8. QED BY <1>1, <1>2, <1>7

LEMMA MouseKeeps ==
  ASSUME DevicesAssumption, MouseInv, MouseNext PROVE MouseInv'
<1>1. ASSUME NEW dx \in Moves, NEW dy \in Moves, MouseMoves(dx, dy) PROVE MouseInv'
  <2>1. /\ reported = <<>> /\ reported' = <<Flags(dx, dy), Part(dx), Part(dy)>>
        /\ UNCHANGED <<mouse, moved>>
    BY <1>1 DEF MouseMoves, Flags, Part
  <2>2. Reporting' /\ reported' # <<>>
    BY <2>1 DEF MouseInv, Reporting
  <2>3. PointerFollows'
    BY <2>1 DEF MouseInv, PointerFollows
  <2>4. QED BY <2>1, <2>2, <2>3 DEF MouseInv
<1>2. CASE MouseHandler
  <2>1. /\ reported # <<>> /\ reported' = Tail(reported) /\ Reporting
        /\ mouse.x \in Int /\ mouse.y \in Int
        /\ mouse.x = moved.x - 256 * moved.wideX /\ mouse.y = moved.y + 256 * moved.wideY
        /\ moved.x \in Int /\ moved.y \in Int /\ moved.wideX \in Nat /\ moved.wideY \in Nat
    BY <1>2 DEF MouseHandler, MouseInv, PointerFollows
  <2> DEFINE got == Append(mouse.byte, Head(reported))
  <2>2. IF mouse.cycle < 2
        THEN /\ mouse' = [cycle |-> mouse.cycle + 1, byte |-> got, x |-> mouse.x, y |-> mouse.y]
             /\ UNCHANGED moved
        ELSE /\ mouse' = [cycle |-> 0, byte |-> <<>>,
                          x |-> mouse.x + Rel(got[1].xneg, Signed8(got[2].byte)),
                          y |-> mouse.y - Rel(got[1].yneg, Signed8(got[3].byte))]
             /\ moved' = [x |-> moved.x + got[2].by, y |-> moved.y - got[3].by,
                          wideX |-> moved.wideX + Wide(got[2].by), wideY |-> moved.wideY + Wide(got[3].by)]
    BY <1>2 DEF MouseHandler
  <2>3. PICK dx \in Moves, dy \in Moves :
          \/ mouse.cycle = 0 /\ mouse.byte = <<>> /\ reported = <<Flags(dx, dy), Part(dx), Part(dy)>>
          \/ mouse.cycle = 1 /\ mouse.byte = <<Flags(dx, dy)>> /\ reported = <<Part(dx), Part(dy)>>
          \/ mouse.cycle = 2 /\ mouse.byte = <<Flags(dx, dy), Part(dx)>> /\ reported = <<Part(dy)>>
    BY <2>1 DEF Reporting
  <2>4. dx \in -256 .. 255 /\ dy \in -256 .. 255
    BY DEF DevicesAssumption
  <2>5. /\ mouse.cycle = 0 => got = <<Flags(dx, dy)>> /\ reported' = <<Part(dx), Part(dy)>>
        /\ mouse.cycle = 1 => got = <<Flags(dx, dy), Part(dx)>> /\ reported' = <<Part(dy)>>
        /\ mouse.cycle = 2 => got = <<Flags(dx, dy), Part(dx), Part(dy)>> /\ reported' = <<>>
    <3> DEFINE a == Flags(dx, dy)
               b == Part(dx)
               c == Part(dy)
    <3> HIDE DEF a, b, c
    <3>0. /\ Append(<<>>, Head(<<a, b, c>>)) = <<a>> /\ Tail(<<a, b, c>>) = <<b, c>>
          /\ Append(<<a>>, Head(<<b, c>>)) = <<a, b>> /\ Tail(<<b, c>>) = <<c>>
          /\ Append(<<a, b>>, Head(<<c>>)) = <<a, b, c>> /\ Tail(<<c>>) = <<>>
      BY TakeNext
    <3>1. CASE mouse.byte = <<>> /\ mouse.cycle = 0 /\ reported = <<Flags(dx, dy), Part(dx), Part(dy)>>
      <4>1. got = <<Flags(dx, dy)>> /\ reported' = <<Part(dx), Part(dy)>>
        BY <2>1, <3>0, <3>1, Zenon DEF a, b, c
      <4>2. QED BY <3>1, <4>1
    <3>2. CASE mouse.byte = <<Flags(dx, dy)>> /\ mouse.cycle = 1 /\ reported = <<Part(dx), Part(dy)>>
      <4>1. got = <<Flags(dx, dy), Part(dx)>> /\ reported' = <<Part(dy)>>
        BY <2>1, <3>0, <3>2, Zenon DEF a, b, c
      <4>2. QED BY <3>2, <4>1
    <3>3. CASE mouse.byte = <<Flags(dx, dy), Part(dx)>> /\ mouse.cycle = 2 /\ reported = <<Part(dy)>>
      <4>1. got = <<Flags(dx, dy), Part(dx), Part(dy)>> /\ reported' = <<>>
        BY <2>1, <3>0, <3>3, Zenon DEF a, b, c
      <4>2. QED BY <3>3, <4>1
    <3>4. QED BY <2>3, <3>1, <3>2, <3>3
  <2> HIDE DEF got
  <2>6. CASE mouse.cycle \in {0, 1}
    <3>1. /\ mouse' = [cycle |-> mouse.cycle + 1, byte |-> got, x |-> mouse.x, y |-> mouse.y]
          /\ UNCHANGED moved
      BY <2>2, <2>6
    <3>3. /\ mouse'.cycle = mouse.cycle + 1 /\ mouse'.byte = got
          /\ mouse'.x = mouse.x /\ mouse'.y = mouse.y
      BY <3>1
    <3>4. Reporting' /\ reported' # <<>>
      <4>1. CASE mouse.cycle = 0
        <5>1. mouse'.cycle = 1 /\ mouse'.byte = <<Flags(dx, dy)>> /\ reported' = <<Part(dx), Part(dy)>>
          BY <2>5, <3>3, <4>1
        <5>2. QED BY <5>1 DEF Reporting
      <4>2. CASE mouse.cycle = 1
        <5>1. /\ mouse'.cycle = 2 /\ mouse'.byte = <<Flags(dx, dy), Part(dx)>> /\ reported' = <<Part(dy)>>
          BY <2>5, <3>3, <4>2
        <5>2. QED BY <5>1 DEF Reporting
      <4>3. QED BY <2>6, <4>1, <4>2
    <3>5. /\ PointerFollows' /\ mouse'.x \in Int /\ mouse'.y \in Int /\ moved'.x \in Int
          /\ moved'.y \in Int /\ moved'.wideX \in Nat /\ moved'.wideY \in Nat
      BY <2>1, <3>1, <3>3 DEF PointerFollows
    <3>6. QED BY <3>3, <3>4, <3>5 DEF MouseInv
  <2>7. CASE mouse.cycle = 2
    <3>1. got[1] = Flags(dx, dy) /\ got[2] = Part(dx) /\ got[3] = Part(dy) /\ reported' = <<>>
      BY <2>5, <2>7
    <3>2. /\ got[1].xneg = (dx < 0) /\ got[1].yneg = (dy < 0)
          /\ got[2].byte = dx % 256 /\ got[2].by = dx
          /\ got[3].byte = dy % 256 /\ got[3].by = dy
      <4>1. Flags(dx, dy).xneg = (dx < 0) /\ Flags(dx, dy).yneg = (dy < 0)
        BY Zenon DEF Flags
      <4>2. \A d \in Moves : Part(d).byte = d % 256 /\ Part(d).by = d
        BY DEF Part
      <4>3. QED BY <3>1, <4>1, <4>2
    <3>8. PICK wx \in Nat, wy \in Nat : wx = Wide(dx) /\ wy = Wide(dy)
      BY <2>4, MoveReadBack
    <3>3. /\ Rel(got[1].xneg, Signed8(got[2].byte)) = dx - 256 * Wide(dx)
          /\ Rel(got[1].yneg, Signed8(got[3].byte)) = dy - 256 * Wide(dy)
      <4>1. /\ Rel(dx < 0, Signed8(dx % 256)) = dx - 256 * Wide(dx)
            /\ Rel(dy < 0, Signed8(dy % 256)) = dy - 256 * Wide(dy)
        BY <2>4, MoveReadBack
      <4>2. QED BY <3>2, <4>1, Zenon
    <3>4. /\ mouse' = [cycle |-> 0, byte |-> <<>>,
                       x |-> mouse.x + (dx - 256 * wx), y |-> mouse.y - (dy - 256 * wy)]
          /\ moved' = [x |-> moved.x + dx, y |-> moved.y - dy,
                       wideX |-> moved.wideX + wx, wideY |-> moved.wideY + wy]
      BY <2>2, <2>7, <3>2, <3>3, <3>8
    <3>5. /\ mouse'.cycle = 0 /\ mouse'.byte = <<>>
          /\ mouse'.x = mouse.x + (dx - 256 * wx) /\ mouse'.y = mouse.y - (dy - 256 * wy)
          /\ moved'.x = moved.x + dx /\ moved'.y = moved.y - dy
          /\ moved'.wideX = moved.wideX + wx /\ moved'.wideY = moved.wideY + wy
      BY <3>4
    <3>6. /\ mouse'.x \in Int /\ mouse'.y \in Int /\ PointerFollows' /\ moved'.x \in Int
          /\ moved'.y \in Int /\ moved'.wideX \in Nat /\ moved'.wideY \in Nat
      <4>1. PICK x \in Int, y \in Int, nx \in Nat, ny \in Nat :
              x = moved.x /\ y = moved.y /\ nx = moved.wideX /\ ny = moved.wideY
        BY <2>1
      <4>2. mouse.x = x - 256 * nx /\ mouse.y = y + 256 * ny
        BY <2>1, <4>1
      <4>3. /\ mouse'.x = (x + dx) - 256 * (nx + wx) /\ mouse'.y = (y - dy) + 256 * (ny + wy)
            /\ moved'.x = x + dx /\ moved'.y = y - dy /\ moved'.wideX = nx + wx /\ moved'.wideY = ny + wy
        <5>1. /\ \A e, w \in Int : (x - 256 * nx) + (e - 256 * w) = (x + e) - 256 * (nx + w)
              /\ \A e, w \in Int : (y + 256 * ny) - (e - 256 * w) = (y - e) + 256 * (ny + w)
          OBVIOUS
        <5>2. dx \in Int /\ dy \in Int /\ wx \in Int /\ wy \in Int
          BY <2>4
        <5>3. /\ (x - 256 * nx) + (dx - 256 * wx) = (x + dx) - 256 * (nx + wx)
              /\ (y + 256 * ny) - (dy - 256 * wy) = (y - dy) + 256 * (ny + wy)
          BY <5>1, <5>2
        <5>4. /\ mouse'.x = (x - 256 * nx) + (dx - 256 * wx)
              /\ mouse'.y = (y + 256 * ny) - (dy - 256 * wy)
          BY <3>5, <4>2, Zenon
        <5>5. /\ moved'.x = x + dx /\ moved'.y = y - dy
              /\ moved'.wideX = nx + wx /\ moved'.wideY = ny + wy
          BY <3>5, <4>1, Zenon
        <5>6. QED BY <5>3, <5>4, <5>5, Zenon
      <4>4. QED BY <2>4, <4>3 DEF PointerFollows
    <3>7. QED BY <3>1, <3>5, <3>6 DEF MouseInv
  <2>8. QED BY <2>3, <2>6, <2>7
<1>3. QED BY <1>1, <1>2 DEF MouseNext

-----------------------------------------------------------------------------
(* Modifiers, the bus and the sensor *)

KeysInv ==
  /\ down \subseteq Keys
  /\ \A m \in modifiers : \E key \in down : m \in ModifierOf(key)

LEMMA KeysKeep == ASSUME KeysInv, KeysNext PROVE KeysInv'
<1>1. PICK key \in Keys : Press(key) \/ Release(key)
  BY DEF KeysNext
<1>2. CASE Press(key)
  BY <1>1, <1>2 DEF Press, KeysInv
<1>3. CASE Release(key)
  <2>1. /\ down' = down \ {key} /\ modifiers' = modifiers \ ModifierOf(key)
    BY <1>3 DEF Release, ReleaseClears
  <2>2. QED BY <2>1 DEF KeysInv
<1>4. QED BY <1>1, <1>2, <1>3

UsbInv ==
  /\ usb \in [next : Nat, table : Seq(0 .. 1), attached : SUBSET (0 .. 1)]
  /\ AddressesInTable

LEMMA UsbKeeps == ASSUME DevicesAssumption, UsbInv, UsbNext PROVE UsbInv'
<1>1. PICK port \in 0 .. 1, connected \in BOOLEAN : UsbPortStatusChanged(port, connected)
  BY DEF UsbNext
<1> DEFINE Bus == [next : Nat, table : Seq(0 .. 1), attached : SUBSET (0 .. 1)]
<1>0. usb \in Bus /\ usb.next \in Nat /\ usb.table \in Seq(0 .. 1)
  BY DEF UsbInv
<1>2. \/ usb' \in Bus /\ usb'.next = usb.next /\ usb'.table = usb.table
      \/ usb' \in Bus /\ usb.next < MAX_USB_DEVICES /\ usb'.next = usb.next + 1 /\ usb'.table = Append(usb.table, port)
  <2>1. PICK ports \in SUBSET (0 .. 1) : usb' = IF connected /\ usb.next < MAX_USB_DEVICES
                            THEN [next |-> usb.next + 1, table |-> Append(usb.table, port), attached |-> ports]
                            ELSE [usb EXCEPT !.attached = ports]
    <3>1. usb.attached \subseteq 0 .. 1
      BY <1>0
    <3>2. (IF connected THEN usb.attached \union {port} ELSE usb.attached \ {port}) \subseteq 0 .. 1
      BY <3>1
    <3>3. QED BY <1>1, <3>2 DEF UsbPortStatusChanged
  <2>2. usb.next + 1 \in Nat /\ Append(usb.table, port) \in Seq(0 .. 1)
    BY <1>0
  <2>3. QED BY <1>0, <2>1, <2>2
<1> DEFINE n == usb.next
           t == usb.table
           t2 == Append(t, port)
<1>3. t \in Seq(0 .. 1) /\ n \in Nat /\ Len(t) = n - 1 /\ n <= MAX_USB_DEVICES /\ MAX_USB_DEVICES \in Nat
  BY <1>0 DEF UsbInv, AddressesInTable, DevicesAssumption
<1>4. t2 \in Seq(0 .. 1) /\ Len(t2) = Len(t) + 1
  BY <1>3
<1>5. CASE usb' \in Bus /\ usb'.next = usb.next /\ usb'.table = usb.table
  BY <1>3, <1>5 DEF UsbInv, AddressesInTable
<1>6. CASE usb' \in Bus /\ n < MAX_USB_DEVICES /\ usb'.next = n + 1 /\ usb'.table = t2
  <2> HIDE DEF n, t, t2
  <2>1. usb'.next = n + 1 /\ usb'.table = t2
    BY <1>6
  <2>2. QED BY <1>3, <1>4, <1>6, <2>1 DEF UsbInv, AddressesInTable
<1>7. QED BY <1>2, <1>5, <1>6

LEMMA ShortHolds ==
  ASSUME NEW n \in Int
  PROVE  Short(n) \in Int /\ (Short(n) = n <=> -32768 <= n /\ n <= 32767)
<1>1. Short(n) \in Int
  BY DEF Short
<1>2. ASSUME -32768 <= n, n <= 32767 PROVE Short(n) = n
  BY <1>2 DEF Short
<1>3. ASSUME Short(n) = n PROVE -32768 <= n /\ n <= 32767
  <2> DEFINE m == (n + 32768) % 65536
  <2>1. m \in Int /\ 0 <= m /\ m < 65536 /\ m - 32768 = n
    BY <1>3 DEF Short
  <2> HIDE DEF m
  <2>2. QED BY <2>1
<1>4. QED BY <1>1, <1>2, <1>3

LEMMA MeanOfSame ==
  ASSUME NEW r \in Int, Short(SampleCount * r) = SampleCount * r
  PROVE  /\ -327 - 1 < r /\ r < 327 + 1
         /\ Quotient(Short(SampleCount * r), SampleCount) = r
<1>1. Short(100 * r) = 100 * r /\ SampleCount = 100 /\ 100 * r \in Int
  BY DEF SampleCount
<1>2. -32768 <= 100 * r /\ 100 * r <= 32767
  BY <1>1, ShortHolds
<1>3. -327 - 1 < r /\ r < 327 + 1
  BY <1>2
<1>4. Quotient(100 * r, 100) = r
  <2>1. CASE r >= 0
    BY <2>1 DEF Quotient
  <2>2. CASE r < 0
    <3>1. -(100 * r) = 100 * (-r) /\ (100 * (-r)) \div 100 = -r /\ 100 * r < 0
      BY <2>2
    <3>2. QED BY <3>1 DEF Quotient
  <2>3. QED BY <2>1, <2>2
<1>5. QED BY <1>1, <1>3, <1>4

SensorInv ==
  /\ zeroed.at \in Int \X Int \X Int
  /\ zeroed.by = <<0, 0, 0>> \/ zeroed.by = AdxlCalibrate(zeroed.at)

(* A calibration takes away what it measured at rest, but for one g. *)
LEMMA RestAfterCalibration ==
  ASSUME NEW s \in Int \X Int \X Int, \A a \in 1 .. 3 : Short(Sums(s)[a]) = Sums(s)[a]
  PROVE  ApplyCalibration(AdxlRead(s), AdxlCalibrate(s)) = <<0, 0, OneG>>
<1> DEFINE r == AdxlRead(s)
           o == AdxlCalibrate(s)
<1>1. r[1] \in Int /\ r[2] \in Int /\ r[3] \in Int
  <2>1. s[1] \in Int /\ s[2] \in Int /\ s[3] \in Int
    OBVIOUS
  <2>2. \A n \in Int : High(n) \in Int
    BY DEF High
  <2>3. 256 * High(s[3]) + High(s[2]) \in Int
    BY <2>1, <2>2
  <2>4. QED BY <2>1, <2>3, ShortHolds DEF AdxlRead
<1>2. \A a \in 1 .. 3 : Sums(s)[a] = SampleCount * r[a]
  BY DEF Sums
<1>3. \A a \in 1 .. 3 : r[a] \in Int /\ Short(SampleCount * r[a]) = SampleCount * r[a]
  BY <1>1, <1>2
<1>4. \A a \in 1 .. 3 :
        /\ -327 - 1 < r[a] /\ r[a] < 327 + 1
        /\ Quotient(Short(Sums(s)[a]), SampleCount) = r[a]
  <2> HIDE DEF r
  <2>1. QED BY <1>2, <1>3, MeanOfSame
<1>5. o[1] = r[1] /\ o[2] = r[2] /\ o[3] = Short(r[3] - OneG)
  <2> DEFINE mean == [a \in 1 .. 3 |-> Quotient(Short(Sums(s)[a]), SampleCount)]
  <2>1. o = <<mean[1], mean[2], Short(mean[3] - OneG)>>
    BY DEF AdxlCalibrate
  <2>2. mean[1] = r[1] /\ mean[2] = r[2] /\ mean[3] = r[3]
    BY <1>4
  <2> HIDE DEF mean, r, o
  <2>3. QED BY <2>1, <2>2
<1> HIDE DEF r, o
<1>6. Short(r[3] - OneG) = r[3] - OneG /\ Short(0) = 0 /\ Short(OneG) = OneG
  BY <1>1, <1>4, ShortHolds DEF OneG
<1>7. /\ Short(r[1] - o[1]) = 0 /\ Short(r[2] - o[2]) = 0 /\ Short(r[3] - o[3]) = OneG
  <2>1. r[1] - o[1] = 0 /\ r[2] - o[2] = 0 /\ r[3] - o[3] = OneG
    BY <1>1, <1>5, <1>6 DEF OneG
  <2>2. QED BY <1>6, <2>1
<1>8. ApplyCalibration(r, o) = <<0, 0, OneG>>
  BY <1>7 DEF ApplyCalibration
<1>9. QED BY <1>8 DEF r, o

LEMMA SensorKeeps == ASSUME DevicesAssumption, SensorNext PROVE SensorInv'
<1>1. PICK s \in Samples : zeroed' = [at |-> s, by |-> AdxlCalibrate(s)]
  BY DEF SensorNext, Calibrate
<1>2. s \in Int \X Int \X Int
  BY DEF DevicesAssumption
<1>3. zeroed'.at = s /\ zeroed'.by = AdxlCalibrate(s)
  BY <1>1
<1>4. QED BY <1>2, <1>3 DEF SensorInv

-----------------------------------------------------------------------------
(* Page tables *)

TableSlots == 0 .. (TableEntries - 1)
Indexes == 0 .. (DirectoryEntries - 1)
Frames0 == TableFrames \union {0}
PageEntry == [physical : Nat, flags : {"none", "stale", "kernel", "user"}]
Paging ==
  [directory : [Indexes -> Frames0 \union {NoFrame}],
   tables : [Frames0 -> [TableSlots -> PageEntry]],
   left : SUBSET TableFrames]

\* What p says of page g
EntryAt(p, g) ==
  IF p.directory[g \div TableEntries] = NoFrame THEN Absent
  ELSE p.tables[p.directory[g \div TableEntries]][g % TableEntries]

\* Frame 0 is no table; no frame is two tables, or a table and free
Whole(p) == \A d \in Indexes : p.directory[d] # 0
Apart(p) ==
  \A d \in Indexes :
    /\ p.directory[d] \notin p.left
    /\ \A e \in Indexes : p.directory[d] # NoFrame /\ p.directory[e] = p.directory[d] => e = d
Says(p, a) == Whole(p) => Apart(p) /\ \A g \in Pages : EntryAt(p, g) = a[g]

LEMMA PageParts ==
  ASSUME DevicesAssumption, NEW g \in Pages
  PROVE  /\ g \in Nat /\ g \div TableEntries \in Indexes /\ g % TableEntries \in TableSlots
         /\ \A h \in Pages :
              g \div TableEntries = h \div TableEntries /\ g % TableEntries = h % TableEntries => g = h
<1> DEFINE t == TableEntries
           d == DirectoryEntries
<1>1. t \in Nat \ {0} /\ d \in Nat \ {0} /\ g \in 0 .. (t * d - 1)
  BY DEF DevicesAssumption, Pages
<1>2. Pages \subseteq Nat
  BY DEF Pages
<1> HIDE DEF t, d
<1>3. g \in Nat /\ g \div t \in 0 .. (d - 1) /\ g % t \in 0 .. (t - 1)
  BY <1>1
<1>4. ASSUME NEW h \in Pages, g \div t = h \div t, g % t = h % t PROVE g = h
  <2>1. h \in Nat
    BY <1>2
  <2>2. QED BY <1>1, <1>3, <1>4, <2>1
<1>5. QED BY <1>3, <1>4 DEF t, d, TableSlots, Indexes

\* The frame for a table is free, unless there is none
LEMMA FrameForIsLeft ==
  ASSUME DevicesAssumption, NEW p \in Paging
  PROVE  FrameFor(p) \in Frames0 /\ (FrameFor(p) # 0 => FrameFor(p) \in p.left)
<1>1. p.left \subseteq TableFrames /\ TableFrames \subseteq Nat \ {0}
  BY DEF Paging, DevicesAssumption
<1>2. CASE p.left = {}
  BY <1>2 DEF FrameFor, Frames0
<1>3. CASE p.left # {}
  <2>1. p.left \subseteq Nat
    BY <1>1
  <2>2. Min(p.left) \in p.left
    BY <1>3, <2>1, MinIsLeast
  <2>3. QED BY <1>1, <1>3, <2>2 DEF FrameFor, Frames0
<1>4. QED BY <1>2, <1>3

(* One turn of the loop maps its page and no other. *)
LEMMA MapPageSays ==
  ASSUME DevicesAssumption, NEW p \in Paging, NEW a \in [Pages -> PageEntry],
         NEW page \in Pages, NEW physical \in Nat, NEW flags \in {"kernel", "user"}
  PROVE  /\ MapPage(p, page, physical, flags) \in Paging
         /\ Says(p, a) => Says(MapPage(p, page, physical, flags),
                              [a EXCEPT ![page] = [physical |-> physical, flags |-> flags]])
<1> DEFINE d == page \div TableEntries
           i == page % TableEntries
           known == p.directory[d] # NoFrame
           f == IF known THEN p.directory[d] ELSE FrameFor(p)
           tabs == IF known THEN p.tables ELSE TableCleared(p.tables, f)
           entry == [physical |-> physical, flags |-> flags]
           q == MapPage(p, page, physical, flags)
           b == [a EXCEPT ![page] = entry]
<1>1. d \in Indexes /\ i \in TableSlots
  BY PageParts
<1>2. /\ q.directory = [p.directory EXCEPT ![d] = f]
      /\ q.tables = [tabs EXCEPT ![f] = [tabs[f] EXCEPT ![i] = entry]]
      /\ q.left = IF known THEN p.left ELSE p.left \ {f}
      /\ q = [directory |-> q.directory, tables |-> q.tables, left |-> q.left]
  BY DEF MapPage
<1>3. entry \in PageEntry /\ NoTable \in [TableSlots -> PageEntry] /\ Absent \in PageEntry
  BY DEF PageEntry, NoTable, TableSlots, Absent
<1>4. /\ p.directory \in [Indexes -> Frames0 \union {NoFrame}]
      /\ p.tables \in [Frames0 -> [TableSlots -> PageEntry]] /\ p.left \subseteq TableFrames
  BY DEF Paging
<1>5. f \in Frames0 /\ NoFrame \notin Frames0
  <2>1. NoFrame \notin Frames0
    BY DEF NoFrame, Frames0, DevicesAssumption
  <2>2. QED BY <1>1, <1>4, <2>1, FrameForIsLeft
<1>6. /\ tabs \in [Frames0 -> [TableSlots -> PageEntry]]
      /\ known => tabs = p.tables
      /\ ~known => tabs[f] = NoTable /\ \A h \in Frames0 : h # f => tabs[h] = p.tables[h]
  <2>1. TableCleared(p.tables, f) = [p.tables EXCEPT ![f] = NoTable]
    BY DEF TableCleared
  <2> DEFINE emptied == TableCleared(p.tables, f)
  <2> HIDE DEF f
  <2>2. emptied \in [Frames0 -> [TableSlots -> PageEntry]] /\ emptied[f] = NoTable
        /\ \A h \in Frames0 : h # f => emptied[h] = p.tables[h]
    BY <1>3, <1>4, <1>5, <2>1
  <2> HIDE DEF emptied
  <2>3. known => tabs = p.tables
    OBVIOUS
  <2>4. ~known => tabs = emptied
    BY DEF emptied
  <2>5. tabs = p.tables \/ tabs = emptied
    BY <2>3, <2>4
  <2> HIDE DEF tabs, known
  <2>6. QED BY <1>4, <2>2, <2>3, <2>4, <2>5
<1>7. known => f = p.directory[d]
  OBVIOUS
<1>8. ~known => f = FrameFor(p) /\ p.directory[d] = NoFrame
  OBVIOUS
<1>9. b \in [Pages -> PageEntry] /\ b[page] = entry /\ \A g \in Pages : g # page => b[g] = a[g]
  <2> HIDE DEF entry
  <2> QED BY <1>3
<1> HIDE DEF d, i, known, f, tabs, entry, q, b
<1> DEFINE t1 == [tabs[f] EXCEPT ![i] = entry]
<1>10. /\ t1 \in [TableSlots -> PageEntry] /\ t1[i] = entry /\ \A k \in TableSlots : k # i => t1[k] = tabs[f][k]
  BY <1>1, <1>3, <1>5, <1>6
<1>11. q.tables = [tabs EXCEPT ![f] = t1]
  BY <1>2
<1> HIDE DEF t1
<1>12. /\ q.tables \in [Frames0 -> [TableSlots -> PageEntry]] /\ q.tables[f] = t1
       /\ \A h \in Frames0 : h # f => q.tables[h] = tabs[h]
  BY <1>5, <1>6, <1>10, <1>11
<1>13. /\ q.directory \in [Indexes -> Frames0 \union {NoFrame}] /\ q.directory[d] = f
       /\ \A e \in Indexes : e # d => q.directory[e] = p.directory[e]
  BY <1>1, <1>2, <1>4, <1>5
<1>14. q.left \subseteq TableFrames /\ q.left \subseteq p.left /\ (~known => f \notin q.left)
  BY <1>2, <1>4
<1>15. q \in Paging
  BY <1>2, <1>12, <1>13, <1>14 DEF Paging
<1>16. ASSUME Says(p, a), Whole(q) PROVE Apart(q) /\ \A g \in Pages : EntryAt(q, g) = b[g]
  <2>1. f # 0
    BY <1>1, <1>13, <1>16 DEF Whole
  <2>2. Whole(p)
    <3>1. ASSUME NEW e \in Indexes PROVE p.directory[e] # 0
      <4>1. CASE e # d
        BY <1>13, <1>16, <4>1 DEF Whole
      <4>2. CASE e = d /\ known
        BY <1>7, <2>1, <4>2
      <4>3. CASE e = d /\ ~known
        BY <1>8, <4>3 DEF NoFrame
      <4>4. QED BY <4>1, <4>2, <4>3
    <3>2. QED BY <3>1 DEF Whole
  <2>3. Apart(p) /\ \A g \in Pages : EntryAt(p, g) = a[g]
    BY <1>16, <2>2 DEF Says
  <2>4. \A e \in Indexes : e # d => p.directory[e] # f
    <3>1. ASSUME NEW e \in Indexes, e # d PROVE p.directory[e] # f
      <4>1. CASE known
        BY <1>1, <1>5, <1>7, <2>3, <3>1, <4>1 DEF Apart
      <4>2. CASE ~known
        BY <1>8, <2>1, <2>3, <3>1, <4>2, FrameForIsLeft DEF Apart
      <4>3. QED BY <4>1, <4>2
    <3>2. QED BY <3>1
  <2>5. Apart(q)
    <3>1. ASSUME NEW e \in Indexes
          PROVE  /\ q.directory[e] \notin q.left
                 /\ \A e2 \in Indexes : q.directory[e] # NoFrame /\ q.directory[e2] = q.directory[e] => e2 = e
      <4>1. q.directory[e] \notin q.left
        <5>1. CASE e # d
          BY <1>13, <1>14, <2>3, <5>1 DEF Apart
        <5>2. CASE e = d /\ known
          BY <1>7, <1>13, <1>14, <2>3, <5>2 DEF Apart
        <5>3. CASE e = d /\ ~known
          BY <1>13, <1>14, <5>3
        <5>4. QED BY <5>1, <5>2, <5>3
      <4>2. ASSUME NEW e2 \in Indexes, q.directory[e] # NoFrame, q.directory[e2] = q.directory[e]
            PROVE  e2 = e
        BY <1>1, <1>13, <2>3, <2>4, <4>2 DEF Apart
      <4>3. QED BY <4>1, <4>2
    <3>2. QED BY <3>1 DEF Apart
  <2>6. ASSUME NEW g \in Pages PROVE EntryAt(q, g) = b[g]
    <3> DEFINE e == g \div TableEntries
               k == g % TableEntries
    <3>1. e \in Indexes /\ k \in TableSlots
      BY PageParts
    <3>2. e = d /\ k = i => g = page
      BY PageParts DEF d, i
    <3>3. g = page => e = d /\ k = i
      BY DEF d, i
    <3>4. EntryAt(q, g) = IF q.directory[e] = NoFrame THEN Absent ELSE q.tables[q.directory[e]][k]
      BY DEF EntryAt
    <3>5. EntryAt(p, g) = IF p.directory[e] = NoFrame THEN Absent ELSE p.tables[p.directory[e]][k]
      BY DEF EntryAt
    <3> HIDE DEF e, k
    <3>6. CASE e # d
      <4>1. q.directory[e] = p.directory[e] /\ p.directory[e] # f /\ b[g] = a[g]
        BY <1>9, <1>13, <2>4, <3>1, <3>3, <3>6
      <4>2. CASE p.directory[e] = NoFrame
        BY <2>3, <3>4, <3>5, <4>1, <4>2
      <4>3. CASE p.directory[e] # NoFrame
        <5>1. p.directory[e] \in Frames0
          BY <1>4, <3>1, <4>3
        <5>2. tabs[p.directory[e]] = p.tables[p.directory[e]]
          BY <1>6, <4>1, <5>1
        <5>3. q.tables[p.directory[e]] = p.tables[p.directory[e]]
          BY <1>12, <4>1, <5>1, <5>2
        <5>4. QED BY <2>3, <3>4, <3>5, <4>1, <4>3, <5>3
      <4>4. QED BY <4>2, <4>3
    <3>7. CASE e = d
      <4>1. EntryAt(q, g) = t1[k]
        BY <1>5, <1>12, <1>13, <3>4, <3>7
      <4>2. CASE k = i
        BY <1>9, <1>10, <3>2, <3>7, <4>1, <4>2
      <4>3. CASE k # i
        <5>1. t1[k] = tabs[f][k] /\ b[g] = a[g] /\ a[g] = EntryAt(p, g)
          BY <1>9, <1>10, <2>3, <3>1, <3>3, <4>3
        <5>2. CASE known
          <6>1. tabs[f] = p.tables[p.directory[d]] /\ p.directory[d] # NoFrame
            BY <1>5, <1>6, <1>7, <5>2
          <6>2. QED BY <3>5, <3>7, <4>1, <5>1, <6>1
        <5>3. CASE ~known
          <6>1. tabs[f][k] = Absent
            BY <1>6, <3>1, <5>3 DEF NoTable, TableSlots
          <6>2. QED BY <1>8, <3>5, <3>7, <4>1, <5>1, <5>3, <6>1
        <5>4. QED BY <5>2, <5>3
      <4>4. QED BY <4>2, <4>3
    <3>8. QED BY <3>6, <3>7
  <2>7. QED BY <2>5, <2>6
<1>17. Says(p, a) => Says(q, b)
  BY <1>16 DEF Says
<1>18. QED BY <1>15, <1>17 DEF q, b, entry

\* vmm_map page by page, and what has been asked for so far
Maps(f, p, first, n, flags) ==
  /\ f[0] = p
  /\ \A i \in 1 .. n : f[i] = MapPage(f[i - 1], first + i - 1, i - 1, flags)
  /\ VmmMap(p, first, n, flags) = f[n]
Asked(a, first, n, flags) ==
  [g \in Pages |-> IF g \in first .. (first + n - 1)
                   THEN [physical |-> g - first, flags |-> flags] ELSE a[g]]

LEMMA MapPageTyped ==
  ASSUME DevicesAssumption, NEW p \in Paging,
         NEW page \in Pages, NEW physical \in Nat, NEW flags \in {"kernel", "user"}
  PROVE  MapPage(p, page, physical, flags) \in Paging
<1> DEFINE a == [g \in Pages |-> Absent]
<1>1. a \in [Pages -> PageEntry]
  BY DEF PageEntry, Absent
<1> HIDE DEF a
<1>2. QED BY <1>1, MapPageSays

LEMMA VmmMapSteps ==
  ASSUME DevicesAssumption, NEW p \in Paging, NEW first \in Nat, NEW n \in Nat,
         first + n - 1 \in Pages, NEW flags \in {"kernel", "user"}
  PROVE  \E f \in [0 .. n -> Paging] : Maps(f, p, first, n, flags)
<1> DEFINE Turn(x, i) == MapPage(x, first + i - 1, i - 1, flags)
           F == [y \in Paging \X (1 .. n) |-> Turn(y[1], y[2])]
           Body(f) == [i \in 0 .. n |-> IF i = 0 THEN p ELSE Turn(f[i - 1], i)]
<1>1. \A i \in 1 .. n : first + i - 1 \in Pages /\ i - 1 \in Nat
  <2> DEFINE last == TableEntries * DirectoryEntries - 1
  <2>1. last \in Int /\ first + n - 1 <= last
    BY DEF Pages, DevicesAssumption
  <2> HIDE DEF last
  <2>2. \A i \in 1 .. n : first + i - 1 \in 0 .. last /\ i - 1 \in Nat
    BY <2>1
  <2>3. QED BY <2>2 DEF Pages, last
<1>2. F \in [Paging \X (1 .. n) -> Paging]
  <2>1. ASSUME NEW y \in Paging \X (1 .. n) PROVE Turn(y[1], y[2]) \in Paging
    <3>1. y[1] \in Paging /\ y[2] \in 1 .. n
      OBVIOUS
    <3>2. first + y[2] - 1 \in Pages /\ y[2] - 1 \in Nat
      BY <1>1, <3>1
    <3>3. QED BY <3>1, <3>2, MapPageTyped
  <2> HIDE DEF Turn
  <2>2. QED BY <2>1
<1>3. PICK f \in [0 .. n -> Paging] : Solves(f, n, p, F)
  <2> HIDE DEF F
  <2>1. n \in Nat /\ F \in [Paging \X (1 .. n) -> Paging] /\ p \in Paging
    BY <1>2
  <2> HIDE <1>1, <1>2
  <2>2. QED BY <2>1, RecursionExists, Zenon
<1> HIDE DEF Turn
<1>4. \A i \in 1 .. n : f[i] = Turn(f[i - 1], i)
  <2>1. ASSUME NEW i \in 1 .. n PROVE f[i] = Turn(f[i - 1], i)
    <3>1. f[i - 1] \in Paging
      <4>1. i - 1 \in 0 .. n
        OBVIOUS
      <4>2. QED BY <4>1
    <3>2. <<f[i - 1], i>> \in Paging \X (1 .. n)
      BY <3>1
    <3>3. f[i] = F[<<f[i - 1], i>>]
      <4> HIDE DEF F
      <4> QED BY <1>3 DEF Solves
    <3>4. QED BY <3>2, <3>3
  <2>2. QED BY <2>1
<1>5. f = Body(f)
  <2>1. f[0] = p
    BY <1>3 DEF Solves
  <2>2. QED BY <1>4, <2>1
<1> DEFINE mapped == CHOOSE h : h = Body(h)
<1>6. mapped = Body(mapped)
  <2> HIDE DEF Body
  <2> QED BY <1>5
<1>7. VmmMap(p, first, n, flags) = mapped[n]
  BY DEF VmmMap, Turn
<1>8. \A i \in 0 .. n : mapped[i] = f[i]
  <2> DEFINE S == {i \in 0 .. n : mapped[i] = f[i]}
  <2>1. \A i \in 0 .. n : mapped[i] = IF i = 0 THEN p ELSE Turn(mapped[i - 1], i)
    <3> HIDE DEF mapped
    <3> QED BY <1>6
  <2> HIDE DEF mapped
  <2>2. 0 \in S
    <3>1. f[0] = p
      BY <1>3 DEF Solves
    <3>2. QED BY <2>1, <3>1
  <2>3. \A i \in 1 .. n : (i - 1) \in S => i \in S
    BY <1>4, <2>1
  <2>4. \A i \in 0 .. n : i \in S
    <3> HIDE DEF S
    <3> QED BY <2>2, <2>3, SetInduction
  <2>5. QED BY <2>4
<1> HIDE DEF mapped, F
<1>9. f[0] = p /\ VmmMap(p, first, n, flags) = f[n]
  BY <1>3, <1>7, <1>8 DEF Solves
<1>10. \A i \in 1 .. n : f[i] = MapPage(f[i - 1], first + i - 1, i - 1, flags)
  BY <1>4 DEF Turn
<1>11. Maps(f, p, first, n, flags)
  BY <1>9, <1>10 DEF Maps
<1>12. QED BY <1>11

(* vmm_map does what it was asked for. *)
LEMMA VmmMapSays ==
  ASSUME DevicesAssumption, NEW p \in Paging, NEW a \in [Pages -> PageEntry], Says(p, a),
         NEW first \in Nat, NEW n \in Nat, first + n - 1 \in Pages, NEW flags \in {"kernel", "user"}
  PROVE  /\ VmmMap(p, first, n, flags) \in Paging
         /\ Asked(a, first, n, flags) \in [Pages -> PageEntry]
         /\ Says(VmmMap(p, first, n, flags), Asked(a, first, n, flags))
<1>1. PICK f \in [0 .. n -> Paging] : Maps(f, p, first, n, flags)
  BY VmmMapSteps
<1>2. \A i \in 0 .. n : Asked(a, first, i, flags) \in [Pages -> PageEntry]
  <2>1. ASSUME NEW i \in 0 .. n PROVE Asked(a, first, i, flags) \in [Pages -> PageEntry]
    <3>1. ASSUME NEW g \in Pages
          PROVE (IF g \in first .. (first + i - 1)
                 THEN [physical |-> g - first, flags |-> flags] ELSE a[g]) \in PageEntry
      <4>1. CASE g \in first .. (first + i - 1)
        <5>1. g - first \in Nat
          BY <4>1
        <5>2. [physical |-> g - first, flags |-> flags] \in PageEntry
          BY <5>1 DEF PageEntry
        <5>3. QED BY <4>1, <5>2
      <4>2. QED BY <4>1
    <3>2. QED BY <3>1 DEF Asked
  <2>2. QED BY <2>1
<1> DEFINE S == {i \in 0 .. n : Says(f[i], Asked(a, first, i, flags))}
<1>3. 0 \in S
  <2>1. Asked(a, first, 0, flags) = a
    <3>1. \A g \in Pages : g \notin first .. (first + 0 - 1)
      BY DEF Pages
    <3>2. QED BY <3>1 DEF Asked
  <2>2. QED BY <1>1, <2>1 DEF Maps
<1>4. ASSUME NEW i \in 1 .. n, i - 1 \in S PROVE i \in S
  <2> DEFINE page == first + i - 1
             x == f[i - 1]
             b == Asked(a, first, i - 1, flags)
  <2>1. page \in Pages /\ i - 1 \in Nat /\ i - 1 \in 0 .. n
    <3> DEFINE last == TableEntries * DirectoryEntries - 1
    <3>1. last \in Int /\ first + n - 1 <= last
      BY DEF Pages, DevicesAssumption
    <3> HIDE DEF last
    <3>2. page \in 0 .. last /\ i - 1 \in Nat /\ i - 1 \in 0 .. n
      BY <3>1
    <3>3. QED BY <3>2 DEF Pages, last
  <2>2. x \in Paging /\ b \in [Pages -> PageEntry] /\ Says(x, b)
    BY <1>2, <1>4, <2>1
  <2>3. Says(MapPage(x, page, i - 1, flags), [b EXCEPT ![page] = [physical |-> i - 1, flags |-> flags]])
    <3> HIDE DEF x, b, page
    <3> QED BY <2>1, <2>2, MapPageSays
  <2>4. f[i] = MapPage(x, page, i - 1, flags)
    BY <1>1 DEF Maps
  <2>5. [b EXCEPT ![page] = [physical |-> i - 1, flags |-> flags]] = Asked(a, first, i, flags)
    <3> DEFINE c == [b EXCEPT ![page] = [physical |-> i - 1, flags |-> flags]]
               e == Asked(a, first, i, flags)
    <3>1. ASSUME NEW g \in Pages PROVE c[g] = e[g]
      <4>1. g \in Int
        BY DEF Pages
      <4>2. e[g] = IF g \in first .. (first + i - 1) THEN [physical |-> g - first, flags |-> flags] ELSE a[g]
        BY DEF Asked
      <4>3. b[g] = IF g \in first .. (first + (i - 1) - 1) THEN [physical |-> g - first, flags |-> flags] ELSE a[g]
        BY DEF Asked
      <4>4. c[g] = IF g = page THEN [physical |-> i - 1, flags |-> flags] ELSE b[g]
        BY <2>2
      <4> HIDE DEF c, e, b
      <4>5. CASE g = page
        <5>1. g \in first .. (first + i - 1) /\ g - first = i - 1
          BY <4>5
        <5>2. QED BY <4>2, <4>4, <4>5, <5>1
      <4>6. CASE g # page
        <5>1. g \in first .. (first + i - 1) <=> g \in first .. (first + (i - 1) - 1)
          BY <4>1, <4>6
        <5>2. QED BY <4>2, <4>3, <4>4, <4>6, <5>1
      <4>7. QED BY <4>5, <4>6
    <3>2. c = [g \in Pages |-> c[g]] /\ e = [g \in Pages |-> e[g]]
      BY <2>2 DEF Asked
    <3> HIDE DEF c, e
    <3>3. c = e
      BY <3>1, <3>2
    <3>4. QED BY <3>3 DEF c, e
  <2>6. Says(f[i], Asked(a, first, i, flags))
    BY <2>3, <2>4, <2>5
  <2>7. QED BY <2>6
<1>5. \A i \in 0 .. n : i \in S
  <2> HIDE DEF S
  <2> QED BY <1>3, <1>4, SetInduction
<1>6. n \in 0 .. n /\ n \in S
  BY <1>5
<1>7. QED BY <1>1, <1>2, <1>6 DEF Maps

PagingInv == paging \in Paging /\ asked \in [Pages -> PageEntry] /\ Says(paging, asked)

LEMMA PagingStart == ASSUME DevicesAssumption, DevicesInit PROVE PagingInv
<1> DEFINE directory0 == [d \in 0 .. (DirectoryEntries - 1) |-> NoFrame]
           tables0 == [f \in TableFrames \union {0} |-> [i \in 0 .. (TableEntries - 1) |-> StaleEntry]]
<1>1. /\ paging = [directory |-> directory0, tables |-> tables0, left |-> TableFrames]
      /\ asked = [g \in Pages |-> Absent]
  BY DEF DevicesInit
<1>2. directory0 \in [Indexes -> Frames0 \union {NoFrame}] /\ \A d \in Indexes : directory0[d] = NoFrame
  BY DEF Indexes
<1>3. tables0 \in [Frames0 -> [TableSlots -> PageEntry]]
  BY DEF Frames0, TableSlots, PageEntry, StaleEntry
<1>4. asked \in [Pages -> PageEntry] /\ \A g \in Pages : asked[g] = Absent
  BY <1>1 DEF PageEntry, Absent
<1> HIDE DEF directory0, tables0
<1>5. /\ paging \in Paging /\ \A d \in Indexes : paging.directory[d] = NoFrame
      /\ paging.left = TableFrames
  BY <1>1, <1>2, <1>3 DEF Paging
<1>6. Apart(paging)
  BY <1>5 DEF Apart, NoFrame, DevicesAssumption
<1>7. \A g \in Pages : EntryAt(paging, g) = asked[g]
  BY <1>4, <1>5, PageParts DEF EntryAt
<1>8. QED BY <1>4, <1>5, <1>6, <1>7 DEF PagingInv, Says

LEMMA PagingKeeps == ASSUME DevicesAssumption, PagingInv, PagingNext PROVE PagingInv'
<1>1. ASSUME NEW first \in Nat, NEW n \in Nat, NEW flags \in {"kernel", "user"},
             MapFrameBuffer(first, n, flags)
      PROVE  PagingInv'
  <2>1. /\ first + n - 1 \in Pages /\ paging' = VmmMap(paging, first, n, flags)
        /\ asked' = Asked(asked, first, n, flags)
    BY <1>1 DEF MapFrameBuffer, Asked
  <2>2. /\ VmmMap(paging, first, n, flags) \in Paging /\ Asked(asked, first, n, flags) \in [Pages -> PageEntry]
        /\ Says(VmmMap(paging, first, n, flags), Asked(asked, first, n, flags))
    BY <2>1, VmmMapSays DEF PagingInv
  <2>3. QED BY <2>1, <2>2 DEF PagingInv
<1>2. FrameBufferPages \in Nat /\ KernelPage \in Nat /\ UserPage \in Nat
  BY DEF DevicesAssumption, KernelPage, UserPage
<1>3. CASE VfsRegisterFb0
  BY <1>1, <1>2, <1>3 DEF VfsRegisterFb0
<1>4. ASSUME NEW n \in 0 .. (2 * TableEntries), FbUserMmap(n) PROVE PagingInv'
  <2> DEFINE m == IF n = 0 THEN FrameBufferPages ELSE n
  <2>1. m \in Nat /\ MapFrameBuffer(UserPage, m, "user")
    BY <1>2, <1>4 DEF FbUserMmap, DevicesAssumption
  <2> HIDE DEF m
  <2>2. QED BY <1>1, <1>2, <2>1
<1>5. QED BY <1>3, <1>4 DEF PagingNext

-----------------------------------------------------------------------------
(* The drivers together: each keeps what the others say. *)

DevicesInv == MouseInv /\ KeysInv /\ UsbInv /\ SensorInv /\ PagingInv

LEMMA DevicesStart == ASSUME DevicesAssumption, DevicesInit PROVE DevicesInv
<1>1. MouseInv
  BY DEF DevicesInit, MouseInv, PointerFollows
<1>2. KeysInv
  BY DEF DevicesInit, KeysInv
<1>3. UsbInv
  <2>1. /\ usb.next = 1 /\ usb.table = <<>> /\ Len(usb.table) = 0
        /\ usb \in [next : Nat, table : Seq(0 .. 1), attached : SUBSET (0 .. 1)]
    BY DEF DevicesInit
  <2>2. QED BY <2>1 DEF UsbInv, AddressesInTable, DevicesAssumption
<1>4. SensorInv
  BY DEF DevicesInit, SensorInv, OneG
<1>5. QED BY <1>1, <1>2, <1>3, <1>4, PagingStart DEF DevicesInv

LEMMA DevicesStep ==
  ASSUME DevicesAssumption, DevicesInv, [DevicesNext]_devicesVars PROVE DevicesInv'
<1>1. MouseInv /\ KeysInv /\ UsbInv /\ SensorInv /\ PagingInv
  BY DEF DevicesInv
<1>2. UNCHANGED mouseVars => MouseInv'
  BY <1>1 DEF mouseVars, MouseInv, PointerFollows, Reporting
<1>3. UNCHANGED keyVars => KeysInv'
  BY <1>1 DEF keyVars, KeysInv
<1>4. UNCHANGED usb => UsbInv'
  BY <1>1 DEF UsbInv, AddressesInTable
<1>5. UNCHANGED zeroed => SensorInv'
  BY <1>1 DEF SensorInv
<1>6. UNCHANGED pagingVars => PagingInv'
  BY <1>1 DEF pagingVars, PagingInv
<1>7. CASE MouseNext
  <2>1. UNCHANGED <<keyVars, usb, zeroed, pagingVars>>
    BY <1>7 DEF MouseNext, MouseMoves, MouseHandler
  <2>2. QED BY <1>1, <1>3, <1>4, <1>5, <1>6, <1>7, <2>1, MouseKeeps DEF DevicesInv
<1>8. CASE KeysNext
  <2>1. UNCHANGED <<mouseVars, usb, zeroed, pagingVars>>
    BY <1>8 DEF KeysNext, Press, Release
  <2>2. QED BY <1>1, <1>2, <1>4, <1>5, <1>6, <1>8, <2>1, KeysKeep DEF DevicesInv
<1>9. CASE UsbNext
  <2>1. UNCHANGED <<mouseVars, keyVars, zeroed, pagingVars>>
    BY <1>9 DEF UsbNext, UsbPortStatusChanged
  <2>2. QED BY <1>1, <1>2, <1>3, <1>5, <1>6, <1>9, <2>1, UsbKeeps DEF DevicesInv
<1>10. CASE SensorNext
  <2>1. UNCHANGED <<mouseVars, keyVars, usb, pagingVars>>
    BY <1>10 DEF SensorNext, Calibrate
  <2>2. QED BY <1>1, <1>2, <1>3, <1>4, <1>6, <1>10, <2>1, SensorKeeps DEF DevicesInv
<1>11. CASE PagingNext
  <2>1. UNCHANGED <<mouseVars, keyVars, usb, zeroed>>
    BY <1>11 DEF PagingNext, VfsRegisterFb0, FbUserMmap, MapFrameBuffer
  <2>2. QED BY <1>1, <1>2, <1>3, <1>4, <1>5, <1>11, <2>1, PagingKeeps DEF DevicesInv
<1>12. CASE UNCHANGED devicesVars
  BY <1>2, <1>3, <1>4, <1>5, <1>6, <1>12 DEF devicesVars, DevicesInv
<1>13. QED BY <1>7, <1>8, <1>9, <1>10, <1>11, <1>12 DEF DevicesNext

THEOREM DevicesInvariant ==
  ASSUME DevicesAssumption PROVE DevicesSpec => []DevicesInv
<1>1. DevicesInit => DevicesInv
  BY DevicesStart
<1>2. DevicesInv /\ [DevicesNext]_devicesVars => DevicesInv'
  BY DevicesStep
<1>3. QED BY <1>1, <1>2, PTL DEF DevicesSpec

(* The pointer is where the reports led, less 256 for each wide move, no modifier is set that no key holds, the bus
   has an address for each device, a calibrated sensor reads one g at rest, and the
   tables say what vmm_map was asked for (mouse_handler, vt_kbd_process_scancode,
   usb_port_status_changed, adxl345_calibrate, vmm_map). *)
THEOREM DriversFollow ==
  ASSUME DevicesAssumption PROVE DevicesSpec => []DevicesSound
<1>1. ASSUME DevicesInv PROVE DevicesSound
  <2>1. PointerFollows /\ AddressesInTable
    BY <1>1 DEF DevicesInv, MouseInv, UsbInv
  <2>2. NoModifierSticks
    BY <1>1 DEF DevicesInv, KeysInv, NoModifierSticks
  <2>3. RestIsRest
    BY <1>1, RestAfterCalibration DEF DevicesInv, SensorInv, RestIsRest
  <2>4. PagesTranslate
    <3>1. ASSUME \A d \in DOMAIN paging.directory : paging.directory[d] # 0, NEW g \in Pages
          PROVE  EntryOf(g) = asked[g]
      <4>1. DOMAIN paging.directory = Indexes
        BY <1>1 DEF DevicesInv, PagingInv, Paging
      <4>2. Whole(paging)
        BY <3>1, <4>1 DEF Whole
      <4>3. EntryAt(paging, g) = asked[g]
        BY <1>1, <4>2 DEF DevicesInv, PagingInv, Says
      <4>4. QED BY <4>3 DEF EntryAt, EntryOf
    <3>2. QED BY <3>1 DEF PagesTranslate
  <2>5. QED BY <2>1, <2>2, <2>3, <2>4 DEF DevicesSound
<1>2. DevicesInv => DevicesSound
  BY <1>1
<1>3. QED BY <1>2, DevicesInvariant, PTL

-----------------------------------------------------------------------------
(* Folds of sequences *)

(* The greatest of a set of numbers. *)
LEMMA MaxIsGreatest ==
  ASSUME NEW n \in Nat, NEW s \in SUBSET (1 .. n), s # {}
  PROVE  Max(s) \in s /\ \A k \in s : k <= Max(s)
<1> DEFINE T == {m \in 0 .. n : \A k \in s : k <= m}
<1>1. n \in T
  OBVIOUS
<1>2. PICK m \in T : \A k \in T : m <= k
  <2>1. T \subseteq Nat /\ T # {}
    BY <1>1
  <2> HIDE DEF T
  <2>2. QED BY <2>1, LeastElement
<1>3. m \in s
  <2>1. SUFFICES ASSUME m \notin s PROVE FALSE
    OBVIOUS
  <2>2. \A k \in s : k <= m /\ k # m /\ k \in Int /\ k >= 1
    BY <1>2, <2>1
  <2>3. m >= 1
    <3>1. PICK k \in s : TRUE
      OBVIOUS
    <3>2. QED BY <3>1, <1>2, <2>2
  <2>4. m - 1 \in T
    BY <1>2, <2>2, <2>3
  <2>5. QED BY <2>4, <1>2
<1>4. \A k \in s : m >= k
  BY <1>2
<1>5. QED
  <2>1. \E x \in s : \A y \in s : x >= y
    BY <1>3, <1>4
  <2>2. Max(s) \in s /\ \A y \in s : Max(s) >= y
    BY <2>1, Zenon DEF Max
  <2>3. \A y \in s : y \in Int
    OBVIOUS
  <2>4. QED BY <2>2, <2>3

(* g is the fold of FoldLeft over the parts of 1 .. n: F takes the greatest   *)
(* number last.                                                              *)
FoldsParts(g, n, x, F) ==
  g = [s \in SUBSET (1 .. n) |-> IF s = {} THEN x ELSE F[<<g[s \ {Max(s)}], Max(s)>>]]

(* The fold of FoldLeft exists. *)
LEMMA FoldExists ==
  ASSUME NEW n \in Nat, NEW X, NEW x \in X, NEW F \in [X \X (1 .. n) -> X]
  PROVE  \E g \in [SUBSET (1 .. n) -> X] : FoldsParts(g, n, x, F)
<1> DEFINE Good(g, m) == \A s \in SUBSET (1 .. m) :
             g[s] = IF s = {} THEN x ELSE F[<<g[s \ {Max(s)}], Max(s)>>]
           S == {m \in 0 .. n : \E g \in [SUBSET (1 .. m) -> X] : Good(g, m)}
<1>1. 0 \in S
  <2> DEFINE g == [s \in SUBSET (1 .. 0) |-> x]
  <2>1. g \in [SUBSET (1 .. 0) -> X] /\ Good(g, 0)
    <3>1. \A s \in SUBSET (1 .. 0) : s = {}
      OBVIOUS
    <3>2. QED BY <3>1
  <2>2. \E h \in [SUBSET (1 .. 0) -> X] : Good(h, 0)
    <3> HIDE DEF g, Good
    <3> QED BY <2>1
  <2>3. 0 \in 0 .. n
    OBVIOUS
  <2>4. QED
    <3> HIDE DEF g, Good
    <3> QED BY <2>2, <2>3
<1>2. ASSUME NEW m \in 1 .. n, m - 1 \in S PROVE m \in S
  <2>1. PICK f \in [SUBSET (1 .. m - 1) -> X] : Good(f, m - 1)
    BY <1>2
  <2> DEFINE g == [s \in SUBSET (1 .. m) |-> IF m \in s THEN F[<<f[s \ {m}], m>>] ELSE f[s]]
  <2>2. \A s \in SUBSET (1 .. m) : s \ {m} \in SUBSET (1 .. m - 1)
    OBVIOUS
  <2>3. \A s \in SUBSET (1 .. m) : m \notin s => s \in SUBSET (1 .. m - 1)
    OBVIOUS
  <2>4. \A s \in SUBSET (1 .. m - 1) : s \in SUBSET (1 .. m) /\ m \notin s /\ f[s] \in X
    BY <2>1
  <2>5. \A s \in SUBSET (1 .. m) : m \in s => F[<<f[s \ {m}], m>>] \in X
    BY <2>2, <2>4
  <2>6. g \in [SUBSET (1 .. m) -> X]
    <3>1. \A s \in SUBSET (1 .. m) : (IF m \in s THEN F[<<f[s \ {m}], m>>] ELSE f[s]) \in X
      BY <2>3, <2>4, <2>5
    <3>2. QED BY <3>1
  <2>7. \A s \in SUBSET (1 .. m) : g[s] = IF m \in s THEN F[<<f[s \ {m}], m>>] ELSE f[s]
    OBVIOUS
  <2> HIDE DEF g
  <2>8. \A s \in SUBSET (1 .. m - 1) : g[s] = f[s]
    BY <2>4, <2>7
  <2>9. ASSUME NEW s \in SUBSET (1 .. m)
        PROVE  g[s] = IF s = {} THEN x ELSE F[<<g[s \ {Max(s)}], Max(s)>>]
    <3>1. CASE m \in s
      <4>1. Max(s) = m
        <5>1. m \in Nat /\ s # {}
          BY <3>1
        <5>2. Max(s) \in s /\ \A k \in s : k <= Max(s)
          BY <5>1, MaxIsGreatest
        <5>3. Max(s) \in 1 .. m /\ m <= Max(s)
          BY <5>2, <3>1
        <5>4. QED BY <5>3
      <4>2. g[s \ {m}] = f[s \ {m}]
        BY <2>2, <2>8
      <4>3. QED BY <3>1, <4>1, <4>2, <2>7
    <3>2. CASE m \notin s
      <4>1. s \in SUBSET (1 .. m - 1) /\ g[s] = f[s]
        BY <3>2, <2>3, <2>8
      <4>2. s \ {Max(s)} \in SUBSET (1 .. m - 1)
        BY <4>1
      <4>3. g[s \ {Max(s)}] = f[s \ {Max(s)}]
        BY <4>2, <2>8
      <4>4. QED BY <4>1, <4>3, <2>1
    <3>3. QED BY <3>1, <3>2
  <2>10. Good(g, m)
    BY <2>9
  <2>11. \E h \in [SUBSET (1 .. m) -> X] : Good(h, m)
    <3> HIDE DEF Good
    <3> QED BY <2>6, <2>10
  <2>12. QED
    <3> HIDE DEF Good
    <3> QED BY <2>11
<1>3. n \in S
  <2> HIDE DEF S
  <2>1. \A i \in 0 .. n : i \in S
    BY <1>1, <1>2, SetInduction
  <2>2. QED BY <2>1
<1>4. PICK g \in [SUBSET (1 .. n) -> X] : Good(g, n)
  BY <1>3
<1>5. FoldsParts(g, n, x, F)
  BY <1>4 DEF FoldsParts
<1>6. QED BY <1>5

(* What the fold takes last of 1 .. i, and what is left for the step before.  *)
LEMMA PrefixMax ==
  ASSUME NEW n \in Nat, NEW i \in 1 .. n
  PROVE  /\ 1 .. i \in SUBSET (1 .. n) /\ 1 .. i # {}
         /\ Max(1 .. i) = i /\ (1 .. i) \ {Max(1 .. i)} = 1 .. (i - 1)
<1>1. 1 .. i \in SUBSET (1 .. n) /\ i \in 1 .. i
  OBVIOUS
<1>2. Max(1 .. i) = i
  <2>1. Max(1 .. i) \in 1 .. i /\ \A k \in 1 .. i : k <= Max(1 .. i)
    BY <1>1, MaxIsGreatest
  <2>2. QED BY <2>1, <1>1
<1>3. (1 .. i) \ {i} = 1 .. (i - 1)
  OBVIOUS
<1>4. QED BY <1>1, <1>2, <1>3

(* What a fold whose steps keep to X comes to is in X. *)
LEMMA FoldStays ==
  ASSUME NEW n \in Nat, NEW X, NEW x \in X, NEW F \in [X \X (1 .. n) -> X],
         NEW h, h[{}] = x,
         \A s \in SUBSET (1 .. n) :
           s # {} /\ h[s \ {Max(s)}] \in X => h[s] = F[<<h[s \ {Max(s)}], Max(s)>>]
  PROVE  h[1 .. n] \in X
<1> DEFINE S == {i \in 0 .. n : h[1 .. i] \in X}
<1>1. 0 \in S
  <2>1. 1 .. 0 = {} /\ 0 \in 0 .. n
    OBVIOUS
  <2>2. QED BY <2>1
<1>2. ASSUME NEW i \in 1 .. n, i - 1 \in S PROVE i \in S
  <2>1. h[1 .. (i - 1)] \in X
    BY <1>2
  <2>2. h[1 .. i] = F[<<h[1 .. (i - 1)], i>>]
    BY <2>1, PrefixMax
  <2>3. <<h[1 .. (i - 1)], i>> \in X \X (1 .. n)
    BY <2>1
  <2>4. QED BY <2>2, <2>3
<1>3. \A i \in 0 .. n : i \in S
  <2> HIDE DEF S
  <2> QED BY <1>1, <1>2, SetInduction
<1>4. QED BY <1>3

-----------------------------------------------------------------------------
(* The text of a terminal: the lines that its characters make *)

(* Lines of letters, the last one not full *)
OpenLines(C, cols) == {ls \in Seq(Seq(C)) : Len(ls) >= 1 /\ Len(ls[Len(ls)]) < cols}

(* A letter or a line feed leaves the last line with room for one more. *)
LEMMA WithLetterOpens ==
  ASSUME NEW cols \in Nat \ {0}, NEW C, NEW c \in C, NEW ls \in OpenLines(C, cols)
  PROVE  WithLetter(ls, c, cols) \in OpenLines(C, cols)
<1> DEFINE n == Len(ls)
           line == IF c = "LF" THEN ls[n] ELSE Append(ls[n], c)
           longer == [ls EXCEPT ![n] = line]
<1>1. ls \in Seq(Seq(C)) /\ n \in Nat \ {0} /\ ls[n] \in Seq(C) /\ Len(ls[n]) < cols /\ n \in 1 .. n
  BY DEF OpenLines
<1>2. line \in Seq(C) /\ Len(line) <= cols /\ (c = "LF" => Len(line) < cols)
  BY <1>1
<1> HIDE DEF line
<1>3. longer \in Seq(Seq(C)) /\ Len(longer) = n /\ longer[n] = line
  BY <1>1, <1>2
<1> HIDE DEF longer
<1>4. CASE c = "LF" \/ Len(line) = cols
  <2>1. WithLetter(ls, c, cols) = Append(longer, <<>>)
    BY <1>4 DEF WithLetter, longer, line
  <2>2. Append(longer, <<>>) \in Seq(Seq(C)) /\ Len(Append(longer, <<>>)) = n + 1
        /\ Append(longer, <<>>)[n + 1] = <<>>
    BY <1>3, <1>1
  <2> DEFINE ls2 == Append(longer, <<>>)
  <2>3. ls2 \in Seq(Seq(C)) /\ Len(ls2) = n + 1 /\ Len(ls2[Len(ls2)]) < cols
    BY <2>2, <1>1
  <2> HIDE DEF ls2
  <2>4. ls2 \in OpenLines(C, cols)
    BY <2>3, <1>1 DEF OpenLines
  <2>5. QED BY <2>1, <2>4 DEF ls2
<1>5. CASE ~(c = "LF" \/ Len(line) = cols)
  <2>1. WithLetter(ls, c, cols) = longer
    BY <1>5 DEF WithLetter, longer, line
  <2>2. QED BY <2>1, <1>1, <1>2, <1>3, <1>5 DEF OpenLines
<1>6. QED BY <1>4, <1>5

(* The lines of a text are those of all but its last character, and that one. *)
Breaks(f, text, cols, C) ==
  /\ f \in [0 .. Len(text) -> OpenLines(C, cols)]
  /\ f[0] = <<<<>>>> /\ LinesOf(text, cols) = f[Len(text)]
  /\ \A i \in 1 .. Len(text) : f[i] = WithLetter(f[i - 1], text[i], cols)

(* The lines of a text, one character after the other. *)
LEMMA LinesFold ==
  ASSUME NEW cols \in Nat \ {0}, NEW C, NEW text \in Seq(C)
  PROVE  \E f : Breaks(f, text, cols, C)
<1> DEFINE n == Len(text)
           X == OpenLines(C, cols)
           F == [p \in X \X (1 .. n) |-> WithLetter(p[1], text[p[2]], cols)]
           Is(h) == h = [s \in SUBSET DOMAIN text |->
                      IF s = {} THEN <<<<>>>> ELSE WithLetter(h[s \ {Max(s)}], text[Max(s)], cols)]
           g == CHOOSE h : Is(h)
           f == [i \in 0 .. n |-> g[1 .. i]]
<1>1. LinesOf(text, cols) = g[DOMAIN text]
  BY Zenon DEF LinesOf, FoldLeft, MapThenFoldSet
<1>2. n \in Nat /\ DOMAIN text = 1 .. n /\ \A i \in 1 .. n : text[i] \in C
  OBVIOUS
<1>3. F \in [X \X (1 .. n) -> X]
  <2>1. \A ls \in X, i \in 1 .. n : WithLetter(ls, text[i], cols) \in X
    BY <1>2, WithLetterOpens
  <2> HIDE DEF X, n
  <2>2. QED BY <2>1
<1>4. <<<<>>>> \in X
  <2> DEFINE ls == <<<<>>>>
  <2>1. ls \in Seq(Seq(C)) /\ Len(ls) = 1 /\ Len(ls[Len(ls)]) < cols
    OBVIOUS
  <2> HIDE DEF ls
  <2>2. QED BY <2>1 DEF OpenLines
<1>5. ASSUME NEW h \in [SUBSET (1 .. n) -> X], FoldsParts(h, n, <<<<>>>>, F) PROVE Is(h)
  <2>1. ASSUME NEW s \in SUBSET (1 .. n), s # {}
        PROVE  F[<<h[s \ {Max(s)}], Max(s)>>] = WithLetter(h[s \ {Max(s)}], text[Max(s)], cols)
    <3>1. Max(s) \in s
      BY <1>2, <2>1, MaxIsGreatest
    <3>2. s \ {Max(s)} \in SUBSET (1 .. n) /\ Max(s) \in 1 .. n
      BY <3>1
    <3>3. <<h[s \ {Max(s)}], Max(s)>> \in X \X (1 .. n)
      BY <3>2
    <3> HIDE DEF X
    <3>4. QED BY <3>3
  <2> HIDE DEF F, X, n
  <2>2. [s \in SUBSET (1 .. n) |-> IF s = {} THEN <<<<>>>> ELSE F[<<h[s \ {Max(s)}], Max(s)>>]]
        = [s \in SUBSET (1 .. n) |-> IF s = {} THEN <<<<>>>> ELSE WithLetter(h[s \ {Max(s)}], text[Max(s)], cols)]
    BY <2>1
  <2>3. QED BY <1>2, <1>5, <2>2, Zenon DEF FoldsParts
<1>6. Is(g)
  <2> HIDE DEF F, X, n, Is
  <2>1. PICK h \in [SUBSET (1 .. n) -> X] : FoldsParts(h, n, <<<<>>>>, F)
    BY <1>2, <1>3, <1>4, FoldExists
  <2>2. QED BY <2>1, <1>5
<1>7. /\ g[1 .. 0] = <<<<>>>>
      /\ \A i \in 1 .. n : g[1 .. i] = WithLetter(g[1 .. (i - 1)], text[i], cols)
  <2>1. \A s \in SUBSET (1 .. n) :
          g[s] = IF s = {} THEN <<<<>>>> ELSE WithLetter(g[s \ {Max(s)}], text[Max(s)], cols)
    <3> HIDE DEF g, n
    <3>1. QED BY <1>2, <1>6
  <2>2. 1 .. 0 = {} /\ {} \in SUBSET (1 .. n)
    OBVIOUS
  <2> HIDE DEF g, n
  <2>3. \A i \in 1 .. n : g[1 .. i] = WithLetter(g[1 .. (i - 1)], text[i], cols)
    BY <1>2, <2>1, PrefixMax
  <2>4. QED BY <2>1, <2>2, <2>3
<1>8. \A i \in 0 .. n : g[1 .. i] \in X
  <2> DEFINE S == {i \in 0 .. n : g[1 .. i] \in X}
  <2> HIDE DEF g, n, X
  <2>1. 0 \in S
    BY <1>2, <1>4, <1>7
  <2>2. ASSUME NEW i \in 1 .. n, i - 1 \in S PROVE i \in S
    <3>1. g[1 .. (i - 1)] \in X /\ text[i] \in C
      BY <1>2, <2>2
    <3>2. WithLetter(g[1 .. (i - 1)], text[i], cols) \in X
      BY <3>1, WithLetterOpens DEF X
    <3>3. QED BY <3>2, <1>7
  <2>3. \A i \in 0 .. n : i \in S
    <3> HIDE DEF S
    <3> QED BY <1>2, <2>1, <2>2, SetInduction
  <2>4. QED BY <2>3
<1>9. /\ f \in [0 .. n -> X] /\ f[0] = <<<<>>>> /\ LinesOf(text, cols) = f[n]
      /\ \A i \in 1 .. n : f[i] = WithLetter(f[i - 1], text[i], cols)
  <2> HIDE DEF g, n, X
  <2>1. f \in [0 .. n -> X] /\ f[0] = <<<<>>>>
    BY <1>2, <1>7, <1>8
  <2>2. LinesOf(text, cols) = f[n]
    BY <1>1, <1>2
  <2>3. \A i \in 1 .. n : f[i] = g[1 .. i] /\ f[i - 1] = g[1 .. (i - 1)]
    BY <1>2
  <2>4. QED BY <2>1, <2>2, <2>3, <1>7
<1>10. Breaks(f, text, cols, C)
  <2> HIDE DEF f
  <2> QED BY <1>9 DEF Breaks
<1>11. QED BY <1>10

(* No text is one empty line. *)
LEMMA LinesOfNone ==
  ASSUME NEW cols \in Nat \ {0} PROVE LinesOf(<<>>, cols) = <<<<>>>>
<1>1. <<>> \in Seq({}) /\ Len(<<>>) = 0
  OBVIOUS
<1>2. PICK f : Breaks(f, <<>>, cols, {})
  BY <1>1, LinesFold
<1>3. QED BY <1>1, <1>2 DEF Breaks

(* A character more is that character put behind the lines so far. *)
LEMMA LinesOfOneMore ==
  ASSUME NEW cols \in Nat \ {0}, NEW C, NEW text \in Seq(C), NEW c \in C
  PROVE  /\ LinesOf(text, cols) \in OpenLines(C, cols)
         /\ LinesOf(Append(text, c), cols) = WithLetter(LinesOf(text, cols), c, cols)
<1> DEFINE n == Len(text)
           more == Append(text, c)
<1>1. n \in Nat /\ more \in Seq(C) /\ Len(more) = n + 1 /\ more[n + 1] = c
      /\ \A i \in 1 .. n : more[i] = text[i]
  OBVIOUS
<1>2. PICK f : Breaks(f, text, cols, C)
  BY LinesFold
<1> HIDE DEF more
<1>3. PICK h : Breaks(h, more, cols, C)
  BY <1>1, LinesFold
<1>2a. /\ f \in [0 .. n -> OpenLines(C, cols)] /\ f[0] = <<<<>>>> /\ LinesOf(text, cols) = f[n]
       /\ \A i \in 1 .. n : f[i] = WithLetter(f[i - 1], text[i], cols)
  BY <1>2 DEF Breaks
<1>3a. /\ h[0] = <<<<>>>> /\ LinesOf(more, cols) = h[n + 1]
       /\ \A i \in 1 .. (n + 1) : h[i] = WithLetter(h[i - 1], more[i], cols)
  BY <1>1, <1>3 DEF Breaks
<1> DEFINE S == {i \in 0 .. n : h[i] = f[i]}
<1> HIDE DEF n
<1>4. \A i \in 0 .. n : i \in S
  <2>1. 0 \in S
    <3>1. h[0] = f[0]
      BY <1>2a, <1>3a, Zenon
    <3>2. 0 \in 0 .. n
      BY <1>1
    <3>3. QED BY <3>1, <3>2
  <2>2. ASSUME NEW i \in 1 .. n, i - 1 \in S PROVE i \in S
    <3>1. i \in 1 .. (n + 1) /\ h[i - 1] = f[i - 1] /\ more[i] = text[i]
      BY <1>1, <2>2
    <3>2. h[i] = f[i]
      BY <3>1, <1>2a, <1>3a
    <3>3. QED BY <3>2
  <2> HIDE DEF S
  <2>3. QED BY <1>1, <2>1, <2>2, SetInduction
<1>5. h[n] = f[n] /\ f[n] \in OpenLines(C, cols)
  <2>1. n \in 0 .. n
    BY <1>1
  <2>2. QED BY <2>1, <1>2a, <1>4
<1>6. h[n + 1] = WithLetter(h[(n + 1) - 1], more[n + 1], cols) /\ (n + 1) - 1 = n
  BY <1>1, <1>3a
<1>7. QED BY <1>1, <1>2a, <1>3a, <1>5, <1>6 DEF more

-----------------------------------------------------------------------------
(* Escape sequences: their parameters and the colours they choose *)

ParamChars == DOMAIN DigitOf \union {";"}
ParamNumbers == {q \in Seq(Nat) : Len(q) >= 1}
Hues == [bright : BOOLEAN, hue : 0 .. 7]

(* A digit or a semicolon makes numbers of numbers. *)
LEMMA ParamAfterIs ==
  ASSUME NEW acc \in ParamNumbers, NEW c \in ParamChars
  PROVE  ParamAfter(acc, c) \in ParamNumbers
<1>1. CASE c = ";"
  <2> DEFINE a == Append(acc, 0)
  <2>1. a \in Seq(Nat) /\ Len(a) >= 1
    BY DEF ParamNumbers
  <2> HIDE DEF a
  <2>2. QED BY <1>1, <2>1 DEF ParamAfter, ParamNumbers, a
<1>2. CASE c # ";"
  <2>1. DigitOf[c] \in Nat
    BY <1>2 DEF ParamChars, DigitOf
  <2> DEFINE a == [acc EXCEPT ![Len(acc)] = 10 * @ + DigitOf[c]]
  <2>2. acc \in Seq(Nat) /\ Len(acc) \in DOMAIN acc /\ acc[Len(acc)] \in Nat
    BY DEF ParamNumbers
  <2>3. a \in Seq(Nat) /\ Len(a) >= 1
    BY <2>1, <2>2
  <2> HIDE DEF a
  <2>4. QED BY <1>2, <2>3 DEF ParamAfter, ParamNumbers, a
<1>3. QED BY <1>1, <1>2

(* A parameter of "m" leaves a colour (vt100_update_color). *)
LEMMA ColorAfterIs ==
  ASSUME NEW color \in Hues, NEW v \in Nat
  PROVE  ColorAfter(color, v) \in Hues /\ AnsiColor(color, v) \in Hues
<1>1. ColorAfter(color, v) \in Hues
  <2>1. \A i \in 1 .. 8 : HueOf[i] \in 0 .. 7
    BY DEF HueOf
  <2>2. CASE v = 0
    BY <2>2 DEF ColorAfter, Default, Hues
  <2>3. CASE v \in 30 .. 37
    <3>1. v - 29 \in 1 .. 8
      BY <2>3
    <3>2. QED BY <2>1, <2>3, <3>1 DEF ColorAfter, Hues
  <2>4. CASE v \in 90 .. 97
    <3>1. v - 89 \in 1 .. 8
      BY <2>4
    <3>2. QED BY <2>1, <2>4, <3>1 DEF ColorAfter, Hues
  <2>5. CASE ~(v = 0 \/ v \in 30 .. 37 \/ v \in 90 .. 97)
    BY <2>5 DEF ColorAfter
  <2>6. QED BY <2>2, <2>3, <2>4, <2>5
<1>2. QED BY <1>1 DEF AnsiColor, Hues

(* A sequence without parameters has one, 0. *)
LEMMA ZeroIsNumbers == << 0 >> \in ParamNumbers
<1> DEFINE q == << 0 >>
<1>1. q \in Seq(Nat) /\ Len(q) >= 1
  OBVIOUS
<1> HIDE DEF q
<1>2. q \in ParamNumbers
  BY <1>1 DEF ParamNumbers
<1>3. QED BY <1>2 DEF q

(* What is between "[" and the letter is read as at least one number. *)
LEMMA ParamsTyped ==
  ASSUME NEW ps \in Seq(ParamChars)
  PROVE  ParamsOf(ps) \in ParamNumbers
<1> DEFINE n == Len(ps)
           F == [p \in ParamNumbers \X (1 .. n) |-> ParamAfter(p[1], ps[p[2]])]
           Is(h) == h = [s \in SUBSET DOMAIN ps |->
                      IF s = {} THEN << 0 >> ELSE ParamAfter(h[s \ {Max(s)}], ps[Max(s)])]
           g == CHOOSE h : Is(h)
<1>1. ParamsOf(ps) = g[DOMAIN ps]
  BY Zenon DEF ParamsOf, FoldLeft, MapThenFoldSet
<1>2. n \in Nat /\ DOMAIN ps = 1 .. n
  OBVIOUS
<1>3. F \in [ParamNumbers \X (1 .. n) -> ParamNumbers]
  <2>1. \A a \in ParamNumbers, i \in 1 .. n : ParamAfter(a, ps[i]) \in ParamNumbers
    BY ParamAfterIs
  <2> HIDE DEF n
  <2>2. QED BY <2>1
<1>4. << 0 >> \in ParamNumbers
  BY ZeroIsNumbers
<1>5. ASSUME NEW h, NEW s \in SUBSET (1 .. n), s # {}, h[s \ {Max(s)}] \in ParamNumbers
      PROVE  F[<<h[s \ {Max(s)}], Max(s)>>] = ParamAfter(h[s \ {Max(s)}], ps[Max(s)])
  <2>1. Max(s) \in 1 .. n
    BY <1>2, <1>5, MaxIsGreatest
  <2>2. <<h[s \ {Max(s)}], Max(s)>> \in ParamNumbers \X (1 .. n)
    BY <2>1, <1>5
  <2> HIDE DEF n
  <2>3. QED BY <2>2
<1>6. ASSUME NEW h \in [SUBSET (1 .. n) -> ParamNumbers], FoldsParts(h, n, << 0 >>, F) PROVE Is(h)
  <2> HIDE DEF F, n
  <2>1. \A s \in SUBSET (1 .. n) : s # {} => h[s \ {Max(s)}] \in ParamNumbers
    OBVIOUS
  <2>2. [s \in SUBSET (1 .. n) |-> IF s = {} THEN << 0 >> ELSE F[<<h[s \ {Max(s)}], Max(s)>>]]
        = [s \in SUBSET (1 .. n) |-> IF s = {} THEN << 0 >> ELSE ParamAfter(h[s \ {Max(s)}], ps[Max(s)])]
    BY <1>5, <2>1
  <2>3. QED BY <1>2, <1>6, <2>2, Zenon DEF FoldsParts
<1>7. Is(g)
  <2> HIDE DEF F, n, Is
  <2>1. PICK h \in [SUBSET (1 .. n) -> ParamNumbers] : FoldsParts(h, n, << 0 >>, F)
    BY <1>2, <1>3, <1>4, FoldExists
  <2>2. QED BY <2>1, <1>6
<1>8. \A s \in SUBSET (1 .. n) :
        g[s] = IF s = {} THEN << 0 >> ELSE ParamAfter(g[s \ {Max(s)}], ps[Max(s)])
  <2> HIDE DEF g, n
  <2> QED BY <1>2, <1>7
<1>9. g[{}] = << 0 >>
  <2> HIDE DEF g, n
  <2> QED BY <1>8
<1>10. g[1 .. n] \in ParamNumbers
  <2> HIDE DEF g, n, F
  <2>1. \A s \in SUBSET (1 .. n) : s # {} /\ g[s \ {Max(s)}] \in ParamNumbers =>
          g[s] = F[<<g[s \ {Max(s)}], Max(s)>>]
    BY <1>5, <1>8
  <2>2. QED BY <1>2, <1>3, <1>4, <1>9, <2>1, FoldStays
<1>11. QED BY <1>1, <1>2, <1>10

(* The parameters of "m", one after the other, leave a colour. *)
LEMMA ColorsTyped ==
  ASSUME NEW color \in Hues, NEW ps \in Seq(Nat)
  PROVE  FoldLeft(ColorAfter, color, ps) \in Hues
<1> DEFINE n == Len(ps)
           F == [p \in Hues \X (1 .. n) |-> ColorAfter(p[1], ps[p[2]])]
           Is(h) == h = [s \in SUBSET DOMAIN ps |->
                      IF s = {} THEN color ELSE ColorAfter(h[s \ {Max(s)}], ps[Max(s)])]
           g == CHOOSE h : Is(h)
<1>1. FoldLeft(ColorAfter, color, ps) = g[DOMAIN ps]
  BY Zenon DEF FoldLeft, MapThenFoldSet
<1>2. n \in Nat /\ DOMAIN ps = 1 .. n
  OBVIOUS
<1>3. F \in [Hues \X (1 .. n) -> Hues]
  <2>1. \A a \in Hues, i \in 1 .. n : ColorAfter(a, ps[i]) \in Hues
    BY ColorAfterIs
  <2> HIDE DEF n
  <2>2. QED BY <2>1
<1>4. color \in Hues
  OBVIOUS
<1>5. ASSUME NEW h, NEW s \in SUBSET (1 .. n), s # {}, h[s \ {Max(s)}] \in Hues
      PROVE  F[<<h[s \ {Max(s)}], Max(s)>>] = ColorAfter(h[s \ {Max(s)}], ps[Max(s)])
  <2>1. Max(s) \in 1 .. n
    BY <1>2, <1>5, MaxIsGreatest
  <2>2. <<h[s \ {Max(s)}], Max(s)>> \in Hues \X (1 .. n)
    BY <2>1, <1>5
  <2> HIDE DEF n
  <2>3. QED BY <2>2
<1>6. ASSUME NEW h \in [SUBSET (1 .. n) -> Hues], FoldsParts(h, n, color, F) PROVE Is(h)
  <2> HIDE DEF F, n
  <2>1. \A s \in SUBSET (1 .. n) : s # {} => h[s \ {Max(s)}] \in Hues
    OBVIOUS
  <2>2. [s \in SUBSET (1 .. n) |-> IF s = {} THEN color ELSE F[<<h[s \ {Max(s)}], Max(s)>>]]
        = [s \in SUBSET (1 .. n) |-> IF s = {} THEN color ELSE ColorAfter(h[s \ {Max(s)}], ps[Max(s)])]
    BY <1>5, <2>1
  <2>3. QED BY <1>2, <1>6, <2>2, Zenon DEF FoldsParts
<1>7. Is(g)
  <2> HIDE DEF F, n, Is
  <2>1. PICK h \in [SUBSET (1 .. n) -> Hues] : FoldsParts(h, n, color, F)
    BY <1>2, <1>3, <1>4, FoldExists
  <2>2. QED BY <2>1, <1>6
<1>8. \A s \in SUBSET (1 .. n) :
        g[s] = IF s = {} THEN color ELSE ColorAfter(g[s \ {Max(s)}], ps[Max(s)])
  <2> HIDE DEF g, n
  <2> QED BY <1>2, <1>7
<1>9. g[{}] = color
  <2> HIDE DEF g, n
  <2> QED BY <1>8
<1>10. g[1 .. n] \in Hues
  <2> HIDE DEF g, n, F
  <2>1. \A s \in SUBSET (1 .. n) : s # {} /\ g[s \ {Max(s)}] \in Hues =>
          g[s] = F[<<g[s \ {Max(s)}], Max(s)>>]
    BY <1>5, <1>8
  <2>2. QED BY <1>2, <1>3, <1>4, <1>9, <2>1, FoldStays
<1>11. QED BY <1>1, <1>2, <1>10

(* The same of the driver without VT100. *)
LEMMA AnsiColorsTyped ==
  ASSUME NEW color \in Hues, NEW ps \in Seq(Nat)
  PROVE  FoldLeft(AnsiColor, color, ps) \in Hues
<1> DEFINE n == Len(ps)
           F == [p \in Hues \X (1 .. n) |-> AnsiColor(p[1], ps[p[2]])]
           Is(h) == h = [s \in SUBSET DOMAIN ps |->
                      IF s = {} THEN color ELSE AnsiColor(h[s \ {Max(s)}], ps[Max(s)])]
           g == CHOOSE h : Is(h)
<1>1. FoldLeft(AnsiColor, color, ps) = g[DOMAIN ps]
  BY Zenon DEF FoldLeft, MapThenFoldSet
<1>2. n \in Nat /\ DOMAIN ps = 1 .. n
  OBVIOUS
<1>3. F \in [Hues \X (1 .. n) -> Hues]
  <2>1. \A a \in Hues, i \in 1 .. n : AnsiColor(a, ps[i]) \in Hues
    BY ColorAfterIs
  <2> HIDE DEF n
  <2>2. QED BY <2>1
<1>4. color \in Hues
  OBVIOUS
<1>5. ASSUME NEW h, NEW s \in SUBSET (1 .. n), s # {}, h[s \ {Max(s)}] \in Hues
      PROVE  F[<<h[s \ {Max(s)}], Max(s)>>] = AnsiColor(h[s \ {Max(s)}], ps[Max(s)])
  <2>1. Max(s) \in 1 .. n
    BY <1>2, <1>5, MaxIsGreatest
  <2>2. <<h[s \ {Max(s)}], Max(s)>> \in Hues \X (1 .. n)
    BY <2>1, <1>5
  <2> HIDE DEF n
  <2>3. QED BY <2>2
<1>6. ASSUME NEW h \in [SUBSET (1 .. n) -> Hues], FoldsParts(h, n, color, F) PROVE Is(h)
  <2> HIDE DEF F, n
  <2>1. \A s \in SUBSET (1 .. n) : s # {} => h[s \ {Max(s)}] \in Hues
    OBVIOUS
  <2>2. [s \in SUBSET (1 .. n) |-> IF s = {} THEN color ELSE F[<<h[s \ {Max(s)}], Max(s)>>]]
        = [s \in SUBSET (1 .. n) |-> IF s = {} THEN color ELSE AnsiColor(h[s \ {Max(s)}], ps[Max(s)])]
    BY <1>5, <2>1
  <2>3. QED BY <1>2, <1>6, <2>2, Zenon DEF FoldsParts
<1>7. Is(g)
  <2> HIDE DEF F, n, Is
  <2>1. PICK h \in [SUBSET (1 .. n) -> Hues] : FoldsParts(h, n, color, F)
    BY <1>2, <1>3, <1>4, FoldExists
  <2>2. QED BY <2>1, <1>6
<1>8. \A s \in SUBSET (1 .. n) :
        g[s] = IF s = {} THEN color ELSE AnsiColor(g[s \ {Max(s)}], ps[Max(s)])
  <2> HIDE DEF g, n
  <2> QED BY <1>2, <1>7
<1>9. g[{}] = color
  <2> HIDE DEF g, n
  <2> QED BY <1>8
<1>10. g[1 .. n] \in Hues
  <2> HIDE DEF g, n, F
  <2>1. \A s \in SUBSET (1 .. n) : s # {} /\ g[s \ {Max(s)}] \in Hues =>
          g[s] = F[<<g[s \ {Max(s)}], Max(s)>>]
    BY <1>5, <1>8
  <2>2. QED BY <1>2, <1>3, <1>4, <1>9, <2>1, FoldStays
<1>11. QED BY <1>1, <1>2, <1>10

-----------------------------------------------------------------------------
(* A terminal: what it is made of, and what changes one part of it *)

(* What may stand in a cell, and a terminal *)
Signs == Letters \union Controls \union CsiChars \union {"["}
Grid == [0 .. (GuiRows - 1) -> [0 .. (GuiCols - 1) -> SUBSET Signs]]
ParserStates == {"NORMAL", "ESC", "CSI"}
ParamTexts == {ps \in Seq(ParamChars) : Len(ps) <= ParamLength}
TermRec == [cells : Grid, x : Nat, y : Nat, color : Hues, state : ParserStates, params : ParamTexts]

(* A terminal with other cells and another place of the cursor *)
With(t, cells, x, y) ==
  [cells |-> cells, x |-> x, y |-> y, color |-> t.color, state |-> t.state, params |-> t.params]

(* The text screen is inside of the one in the frame buffer. *)
LEMMA Sizes ==
  /\ Cols \in Nat \ {0} /\ Rows \in Nat \ {0} /\ GuiCols \in Nat \ {0} /\ GuiRows \in Nat \ {0}
  /\ Cols <= GuiCols /\ Rows <= GuiRows /\ TextCols \in Nat \ {0} /\ TextRows \in Nat \ {0}
BY TerminalAssumption DEF Cols, Rows

(* Other cells and another place make a terminal, with the rest as it was. *)
LEMMA WithTyped ==
  ASSUME NEW t \in TermRec, NEW cells \in Grid, NEW x \in Nat, NEW y \in Nat
  PROVE  /\ With(t, cells, x, y) \in TermRec
         /\ With(t, cells, x, y).cells = cells /\ With(t, cells, x, y).x = x
         /\ With(t, cells, x, y).y = y /\ With(t, cells, x, y).state = t.state
<1>1. With(t, cells, x, y) \in TermRec
  <2> HIDE DEF Grid, ParserStates, ParamTexts, Hues
  <2> QED BY DEF TermRec, With
<1>2. QED BY <1>1 DEF With

(* The parts of a terminal. *)
LEMMA TermFields ==
  ASSUME NEW t \in TermRec
  PROVE  /\ t.cells \in Grid /\ t.x \in Nat /\ t.y \in Nat /\ t.color \in Hues
         /\ t.state \in ParserStates /\ t.params \in ParamTexts
BY DEF TermRec

(* Another state of the parser changes nothing else. *)
LEMMA StateTyped ==
  ASSUME NEW t \in TermRec, NEW s \in ParserStates
  PROVE  /\ [t EXCEPT !.state = s] \in TermRec /\ [t EXCEPT !.state = s].state = s
         /\ [t EXCEPT !.state = s].cells = t.cells
         /\ [t EXCEPT !.state = s].x = t.x
         /\ [t EXCEPT !.state = s].y = t.y
<1> HIDE DEF Grid, ParserStates, ParamTexts, Hues
<1>1. [t EXCEPT !.state = s] \in TermRec
  BY DEF TermRec
<1>2. QED BY <1>1 DEF TermRec

(* Other parameters change nothing else. *)
LEMMA ParamsSet ==
  ASSUME NEW t \in TermRec, NEW ps \in ParamTexts
  PROVE  /\ [t EXCEPT !.params = ps] \in TermRec /\ [t EXCEPT !.params = ps].params = ps
         /\ [t EXCEPT !.params = ps].cells = t.cells
         /\ [t EXCEPT !.params = ps].x = t.x
         /\ [t EXCEPT !.params = ps].y = t.y
         /\ [t EXCEPT !.params = ps].state = t.state
<1> HIDE DEF Grid, ParserStates, ParamTexts, Hues
<1>1. [t EXCEPT !.params = ps] \in TermRec
  BY DEF TermRec
<1>2. QED BY <1>1 DEF TermRec

(* Another colour changes nothing else. *)
LEMMA ColorSet ==
  ASSUME NEW t \in TermRec, NEW color \in Hues
  PROVE  /\ [t EXCEPT !.color = color] \in TermRec /\ [t EXCEPT !.color = color].color = color
         /\ [t EXCEPT !.color = color].cells = t.cells
         /\ [t EXCEPT !.color = color].x = t.x
         /\ [t EXCEPT !.color = color].y = t.y
         /\ [t EXCEPT !.color = color].state = t.state
<1> HIDE DEF Grid, ParserStates, ParamTexts, Hues
<1>1. [t EXCEPT !.color = color] \in TermRec
  BY DEF TermRec
<1>2. QED BY <1>1 DEF TermRec

(* Every movement of the cursor, and every change of the cells *)
LEMMA MovesX ==
  ASSUME NEW t \in TermRec, NEW x
  PROVE  [t EXCEPT !.x = x] = With(t, t.cells, x, t.y)
<1> HIDE DEF Grid, ParserStates, ParamTexts, Hues
<1>1. QED BY DEF TermRec, With

LEMMA MovesY ==
  ASSUME NEW t \in TermRec, NEW y
  PROVE  [t EXCEPT !.y = y] = With(t, t.cells, t.x, y)
<1> HIDE DEF Grid, ParserStates, ParamTexts, Hues
<1>1. QED BY DEF TermRec, With

LEMMA MovesXY ==
  ASSUME NEW t \in TermRec, NEW x, NEW y
  PROVE  [t EXCEPT !.x = x, !.y = y] = With(t, t.cells, x, y)
<1> HIDE DEF Grid, ParserStates, ParamTexts, Hues
<1>1. [t EXCEPT !.x = x, !.y = y] = [[t EXCEPT !.x = x] EXCEPT !.y = y]
  BY DEF TermRec
<1>2. [With(t, t.cells, x, t.y) EXCEPT !.y = y] = With(t, t.cells, x, y)
  BY DEF With
<1>3. [t EXCEPT !.x = x] = With(t, t.cells, x, t.y)
  BY DEF TermRec, With
<1>4. QED
  <2> HIDE DEF With
  <2> QED BY <1>1, <1>2, <1>3

LEMMA MovesYX ==
  ASSUME NEW t \in TermRec, NEW x, NEW y
  PROVE  [t EXCEPT !.y = y, !.x = x] = With(t, t.cells, x, y)
<1> HIDE DEF Grid, ParserStates, ParamTexts, Hues
<1>1. [t EXCEPT !.y = y, !.x = x] = [[t EXCEPT !.y = y] EXCEPT !.x = x]
  BY DEF TermRec
<1>2. [With(t, t.cells, t.x, y) EXCEPT !.x = x] = With(t, t.cells, x, y)
  BY DEF With
<1>3. [t EXCEPT !.y = y] = With(t, t.cells, t.x, y)
  BY DEF TermRec, With
<1>4. QED
  <2> HIDE DEF With
  <2> QED BY <1>1, <1>2, <1>3

LEMMA Repaints ==
  ASSUME NEW t \in TermRec, NEW cells
  PROVE  [t EXCEPT !.cells = cells] = With(t, cells, t.x, t.y)
<1> HIDE DEF Grid, ParserStates, ParamTexts, Hues
<1>1. QED BY DEF TermRec, With

LEMMA RepaintsY ==
  ASSUME NEW t \in TermRec, NEW cells, NEW y
  PROVE  [t EXCEPT !.cells = cells, !.y = y] = With(t, cells, t.x, y)
<1> HIDE DEF Grid, ParserStates, ParamTexts, Hues
<1>1. [t EXCEPT !.cells = cells, !.y = y] = [[t EXCEPT !.cells = cells] EXCEPT !.y = y]
  BY DEF TermRec
<1>2. [With(t, cells, t.x, t.y) EXCEPT !.y = y] = With(t, cells, t.x, y)
  BY DEF With
<1>3. [t EXCEPT !.cells = cells] = With(t, cells, t.x, t.y)
  BY DEF TermRec, With
<1>4. QED
  <2> HIDE DEF With
  <2> QED BY <1>1, <1>2, <1>3

LEMMA RepaintsXY ==
  ASSUME NEW t \in TermRec, NEW x, NEW y, NEW cells
  PROVE  [[t EXCEPT !.cells = cells] EXCEPT !.x = x, !.y = y] = With(t, cells, x, y)
<1> HIDE DEF Grid, ParserStates, ParamTexts, Hues
<1>1. [t EXCEPT !.cells = cells] = With(t, cells, t.x, t.y)
  BY DEF TermRec, With
<1>2. [With(t, cells, t.x, t.y) EXCEPT !.x = x, !.y = y] = [[With(t, cells, t.x, t.y) EXCEPT !.x = x] EXCEPT !.y = y]
  BY DEF With
<1>3. [With(t, cells, t.x, t.y) EXCEPT !.x = x] = With(t, cells, x, t.y)
  BY DEF With
<1>4. [With(t, cells, x, t.y) EXCEPT !.y = y] = With(t, cells, x, y)
  BY DEF With
<1>5. QED
  <2> HIDE DEF With
  <2> QED BY <1>1, <1>2, <1>3, <1>4

Painted(cells, y, x, v) == [cells EXCEPT ![y][x] = v]

(* One cell is painted, and no other. *)
LEMMA CellTyped ==
  ASSUME NEW cells \in Grid, NEW y \in 0 .. (GuiRows - 1), NEW x \in 0 .. (GuiCols - 1),
         NEW v \in SUBSET Signs
  PROVE  /\ Painted(cells, y, x, v) \in Grid
         /\ \A b \in 0 .. (GuiRows - 1), a \in 0 .. (GuiCols - 1) :
              Painted(cells, y, x, v)[b][a] = IF b = y /\ a = x THEN v ELSE cells[b][a]
<1> HIDE DEF Signs
<1> QED BY DEF Grid, Painted

(* A letter is drawn where the cursor is, which stays. *)
LEMMA DrawnIs ==
  ASSUME NEW t \in TermRec, NEW c \in Signs
  PROVE  /\ Drawn(t, c) \in TermRec /\ Drawn(t, c).x = t.x /\ Drawn(t, c).y = t.y
         /\ Drawn(t, c).state = t.state
         /\ t.x < Cols /\ t.y < Rows =>
              \A b \in 0 .. (GuiRows - 1), a \in 0 .. (GuiCols - 1) :
                Drawn(t, c).cells[b][a] = IF b = t.y /\ a = t.x
                                          THEN IF display = "gui" THEN t.cells[b][a] \union {c} ELSE {c}
                                          ELSE t.cells[b][a]
<1>1. CASE t.x >= Cols \/ t.y >= Rows
  BY <1>1, TermFields, Sizes DEF Drawn
<1>2. CASE ~(t.x >= Cols \/ t.y >= Rows)
  <2>1. t.x \in 0 .. (GuiCols - 1) /\ t.y \in 0 .. (GuiRows - 1) /\ t.x < Cols /\ t.y < Rows /\ t.x \in Nat /\ t.y \in Nat
    BY <1>2, TermFields, Sizes
  <2>2. t.cells \in Grid
    BY TermFields
  <2>3. PICK v \in SUBSET Signs : v = IF display = "gui" THEN t.cells[t.y][t.x] \union {c} ELSE {c}
    <3>1. t.cells[t.y][t.x] \in SUBSET Signs
      BY <2>1, <2>2 DEF Grid
    <3>2. QED BY <3>1
  <2> DEFINE cells == Painted(t.cells, t.y, t.x, v)
  <2>4. Drawn(t, c) = With(t, cells, t.x, t.y)
    <3>1. Drawn(t, c) = [t EXCEPT !.cells[t.y][t.x] = v]
      BY <1>2, <2>1, <2>3, TermFields DEF Drawn, Grid, TermRec
    <3>2. [t EXCEPT !.cells[t.y][t.x] = v] = [t EXCEPT !.cells = cells]
      BY DEF TermRec, Painted
    <3>3. QED BY <3>1, <3>2, Repaints, Zenon
  <2>5. /\ cells \in Grid
        /\ \A b \in 0 .. (GuiRows - 1), a \in 0 .. (GuiCols - 1) :
             cells[b][a] = IF b = t.y /\ a = t.x THEN v ELSE t.cells[b][a]
    BY <2>1, <2>2, CellTyped
  <2> HIDE DEF cells
  <2>6. /\ With(t, cells, t.x, t.y) \in TermRec
        /\ With(t, cells, t.x, t.y).cells = cells /\ With(t, cells, t.x, t.y).x = t.x
        /\ With(t, cells, t.x, t.y).y = t.y /\ With(t, cells, t.x, t.y).state = t.state
    <3>1. cells \in Grid
      BY <2>5
    <3>2. t.x \in Nat /\ t.y \in Nat
      BY <2>1
    <3>3. QED BY <3>1, <3>2, WithTyped
  <2>7. Drawn(t, c).cells = cells
    BY <2>4, <2>6
  <2>8. ASSUME NEW b \in 0 .. (GuiRows - 1), NEW a \in 0 .. (GuiCols - 1)
        PROVE  Drawn(t, c).cells[b][a] = IF b = t.y /\ a = t.x
                                         THEN IF display = "gui" THEN t.cells[b][a] \union {c} ELSE {c}
                                         ELSE t.cells[b][a]
    <3>1. Drawn(t, c).cells[b][a] = IF b = t.y /\ a = t.x THEN v ELSE t.cells[b][a]
      BY <2>5, <2>7
    <3>2. QED BY <2>3, <3>1
  <2>9. QED BY <2>4, <2>6, <2>8
<1>3. QED BY <1>1, <1>2

(* Erasing a part of a line leaves the cursor. *)
LEMMA ErasedIs ==
  ASSUME NEW t \in TermRec
  PROVE  /\ Erased(t) \in TermRec /\ Erased(t).x = t.x /\ Erased(t).y = t.y
         /\ Erased(t).state = t.state
<1>1. CASE t.x >= Cols \/ t.y >= Rows
  BY <1>1 DEF Erased
<1>2. CASE ~(t.x >= Cols \/ t.y >= Rows)
  <2>1. t.x \in 0 .. (GuiCols - 1) /\ t.y \in 0 .. (GuiRows - 1) /\ t.x \in Nat /\ t.y \in Nat
    BY <1>2, TermFields, Sizes
  <2>2. t.cells \in Grid
    BY TermFields
  <2>3. PICK cells \in Grid : cells = Painted(t.cells, t.y, t.x, {})
    <3>1. Painted(t.cells, t.y, t.x, {}) \in Grid
      BY <2>1, <2>2, CellTyped
    <3>2. QED BY <3>1
  <2>4. Erased(t) = With(t, cells, t.x, t.y)
    <3>1. Erased(t) = [t EXCEPT !.cells[t.y][t.x] = {}]
      BY <1>2 DEF Erased
    <3>2. [t EXCEPT !.cells[t.y][t.x] = {}] = [t EXCEPT !.cells = cells]
      BY <2>3 DEF TermRec, Painted
    <3>3. QED BY <3>1, <3>2, Repaints, Zenon
  <2>5. t.x \in Nat /\ t.y \in Nat
    BY TermFields
  <2>6. /\ With(t, cells, t.x, t.y) \in TermRec
        /\ With(t, cells, t.x, t.y).cells = cells /\ With(t, cells, t.x, t.y).x = t.x
        /\ With(t, cells, t.x, t.y).y = t.y /\ With(t, cells, t.x, t.y).state = t.state
    BY <2>5, WithTyped
  <2>7. QED BY <2>4, <2>6
<1>3. QED BY <1>1, <1>2

(* The empty screen. *)
LEMMA BlankTyped ==
  /\ Blank \in Grid /\ DOMAIN Blank = 0 .. (GuiRows - 1)
  /\ \A b \in 0 .. (GuiRows - 1), a \in 0 .. (GuiCols - 1) : Blank[b][a] = {}
BY DEF Blank, Grid

ScrolledCells(cells) ==
  [y \in DOMAIN Blank |-> IF y + 1 < Rows THEN cells[y + 1] ELSE Blank[0]]

(* Scrolling moves every line up and the cursor to the last one. *)
LEMMA ScrolledIs ==
  ASSUME NEW t \in TermRec
  PROVE  /\ Scrolled(t) \in TermRec /\ Scrolled(t).x = t.x /\ Scrolled(t).y = Rows - 1
         /\ Scrolled(t).state = t.state /\ Scrolled(t).cells = ScrolledCells(t.cells)
<1>1. PICK cells \in Grid : cells = ScrolledCells(t.cells)
  <2>1. \A y \in 0 .. (GuiRows - 1) : y + 1 < Rows => y + 1 \in 0 .. (GuiRows - 1)
    BY Sizes
  <2>2. 0 \in 0 .. (GuiRows - 1) /\ t.cells \in Grid
    BY Sizes, TermFields
  <2> HIDE DEF Signs
  <2>3. ScrolledCells(t.cells) \in Grid
    BY <2>1, <2>2, BlankTyped DEF ScrolledCells, Grid
  <2>4. QED BY <2>3
<1>2. PICK y \in Nat : y = Rows - 1
  BY Sizes
<1>3. Scrolled(t) = With(t, cells, t.x, y)
  <2>1. Scrolled(t) = [t EXCEPT !.cells = cells, !.y = y]
    BY <1>1, <1>2, Zenon DEF Scrolled, ScrolledCells
  <2>2. QED BY <2>1, RepaintsY, Zenon
<1>4. t.x \in Nat
  BY TermFields
<1>5. /\ With(t, cells, t.x, y) \in TermRec
      /\ With(t, cells, t.x, y).cells = cells /\ With(t, cells, t.x, y).x = t.x
      /\ With(t, cells, t.x, y).y = y /\ With(t, cells, t.x, y).state = t.state
  BY <1>4, WithTyped
<1>6. QED BY <1>1, <1>2, <1>3, <1>5

(* Clearing goes to the empty screen and its corner. *)
LEMMA ClearedIs ==
  ASSUME NEW t \in TermRec
  PROVE  /\ Cleared(t) \in TermRec /\ Cleared(t).x = 0 /\ Cleared(t).y = 0
         /\ Cleared(t).state = t.state /\ Cleared(t).cells = Blank
<1>1. Cleared(t) = With(t, Blank, 0, 0)
  <2>1. Cleared(t) = [[t EXCEPT !.cells = Blank] EXCEPT !.x = 0, !.y = 0]
    BY DEF Cleared, TermRec
  <2>2. [[t EXCEPT !.cells = Blank] EXCEPT !.x = 0, !.y = 0] = With(t, Blank, 0, 0)
    <3>1. \A x, y, cells : [[t EXCEPT !.cells = cells] EXCEPT !.x = x, !.y = y] = With(t, cells, x, y)
      BY RepaintsXY, Zenon
    <3>2. QED BY <3>1, Zenon
  <2>3. QED BY <2>1, <2>2
<1>2. QED BY <1>1, BlankTyped, WithTyped

(* A line feed goes to the start of the next line, and draws nothing. *)
LEMMA NewLineIs ==
  ASSUME NEW t \in TermRec
  PROVE  /\ NewLine(t) \in TermRec /\ NewLine(t).x = 0 /\ NewLine(t).y = t.y + 1
         /\ NewLine(t).state = t.state /\ NewLine(t).cells = t.cells
<1>1. t.y + 1 \in Nat /\ t.cells \in Grid
  BY TermFields
<1>2. PICK y \in Nat : y = t.y + 1
  BY <1>1
<1>3. NewLine(t) = With(t, t.cells, 0, y)
  <2>1. NewLine(t) = [t EXCEPT !.x = 0, !.y = y]
    BY <1>2 DEF NewLine, TermRec
  <2>2. QED BY <2>1, MovesXY, Zenon
<1>4. QED BY <1>1, <1>2, <1>3, WithTyped

(* Places the cursor is moved to *)
LEMMA PlacedX ==
  ASSUME NEW t \in TermRec, NEW x \in Nat
  PROVE  /\ [t EXCEPT !.x = x] \in TermRec
         /\ [t EXCEPT !.x = x].x = x /\ [t EXCEPT !.x = x].y = t.y
         /\ [t EXCEPT !.x = x].cells = t.cells /\ [t EXCEPT !.x = x].state = t.state
<1>1. t.x \in Nat /\ t.y \in Nat /\ t.cells \in Grid
  BY TermFields
<1>2. [t EXCEPT !.x = x] = With(t, t.cells, x, t.y)
  BY MovesX, Zenon
<1>3. QED BY <1>1, <1>2, WithTyped

LEMMA PlacedY ==
  ASSUME NEW t \in TermRec, NEW y \in Nat
  PROVE  /\ [t EXCEPT !.y = y] \in TermRec
         /\ [t EXCEPT !.y = y].x = t.x /\ [t EXCEPT !.y = y].y = y
         /\ [t EXCEPT !.y = y].cells = t.cells /\ [t EXCEPT !.y = y].state = t.state
<1>1. t.x \in Nat /\ t.y \in Nat /\ t.cells \in Grid
  BY TermFields
<1>2. [t EXCEPT !.y = y] = With(t, t.cells, t.x, y)
  BY MovesY, Zenon
<1>3. QED BY <1>1, <1>2, WithTyped

LEMMA PlacedYX ==
  ASSUME NEW t \in TermRec, NEW x \in Nat, NEW y \in Nat
  PROVE  /\ [t EXCEPT !.y = y, !.x = x] \in TermRec
         /\ [t EXCEPT !.y = y, !.x = x].x = x /\ [t EXCEPT !.y = y, !.x = x].y = y
         /\ [t EXCEPT !.y = y, !.x = x].cells = t.cells /\ [t EXCEPT !.y = y, !.x = x].state = t.state
<1>1. t.x \in Nat /\ t.y \in Nat /\ t.cells \in Grid
  BY TermFields
<1>2. [t EXCEPT !.y = y, !.x = x] = With(t, t.cells, x, y)
  BY MovesYX, Zenon
<1>3. QED BY <1>1, <1>2, WithTyped

LEMMA PlacedXY ==
  ASSUME NEW t \in TermRec, NEW x \in Nat, NEW y \in Nat
  PROVE  /\ [t EXCEPT !.x = x, !.y = y] \in TermRec
         /\ [t EXCEPT !.x = x, !.y = y].x = x /\ [t EXCEPT !.x = x, !.y = y].y = y
         /\ [t EXCEPT !.x = x, !.y = y].cells = t.cells /\ [t EXCEPT !.x = x, !.y = y].state = t.state
<1>1. t.x \in Nat /\ t.y \in Nat /\ t.cells \in Grid
  BY TermFields
<1>2. [t EXCEPT !.x = x, !.y = y] = With(t, t.cells, x, y)
  BY MovesXY, Zenon
<1>3. QED BY <1>1, <1>2, WithTyped

\* The line feed that ends a full line
Fed(t) == IF t.x >= Cols THEN NewLine(t) ELSE t

(* A full line is left for the next one. *)
LEMMA FedIs ==
  ASSUME NEW t \in TermRec
  PROVE  /\ Fed(t) \in TermRec /\ Fed(t).x < Cols /\ Fed(t).cells = t.cells /\ Fed(t).state = t.state
         /\ Wrapped(t) = IF Fed(t).y >= Rows THEN Scrolled(Fed(t)) ELSE Fed(t)
<1>1. Wrapped(t) = IF Fed(t).y >= Rows THEN Scrolled(Fed(t)) ELSE Fed(t)
  BY Zenon DEF Wrapped, Fed, NewLine
<1>2. Fed(t) \in TermRec /\ Fed(t).x < Cols /\ Fed(t).cells = t.cells /\ Fed(t).state = t.state
  BY NewLineIs, TermFields, Sizes DEF Fed
<1>3. QED BY <1>1, <1>2

(* Behind a character the cursor is on the screen again. *)
LEMMA WrappedIs ==
  ASSUME NEW t \in TermRec
  PROVE  /\ Wrapped(t) \in TermRec /\ Wrapped(t).x < Cols /\ Wrapped(t).y < Rows
         /\ Wrapped(t).state = t.state
         /\ t.x < Cols /\ t.y < Rows => Wrapped(t) = t
<1>1. CASE Fed(t).y >= Rows
  <2>1. Wrapped(t) = Scrolled(Fed(t)) /\ Fed(t) \in TermRec
    BY <1>1, FedIs
  <2>2. t.x < Cols => Fed(t) = t /\ t.y >= Rows
    BY <1>1, TermFields, Sizes DEF Fed
  <2>3. Rows - 1 < Rows
    BY Sizes
  <2>4. t.y \in Nat
    BY TermFields
  <2>5. QED BY <2>1, <2>2, <2>3, <2>4, ScrolledIs, FedIs, Sizes
<1>2. CASE ~(Fed(t).y >= Rows)
  <2>1. Wrapped(t) = Fed(t) /\ Fed(t) \in TermRec
    BY <1>2, FedIs
  <2>2. Fed(t).y < Rows
    BY <1>2, <2>1, TermFields, Sizes
  <2>3. t.x < Cols => Fed(t) = t
    BY TermFields, Sizes DEF Fed
  <2>4. QED BY <2>1, <2>2, <2>3, FedIs
<1>3. QED BY <1>1, <1>2

-----------------------------------------------------------------------------
(* What the screen shows of the lines *)

(* The first line that is still on the screen; the cells are those of the     *)
(* lines from there on; and the cursor stands behind the last one.            *)
FirstShown(ls, rows) == IF Len(ls) > rows THEN Len(ls) - rows ELSE 0
Displays(cells, ls, top, cols, rows) ==
  \A y \in 0 .. (rows - 1), x \in 0 .. (cols - 1) :
    cells[y][x] = IF top + y + 1 <= Len(ls) /\ x < Len(ls[top + y + 1])
                  THEN {ls[top + y + 1][x + 1]} ELSE {}
Shows(t, ls, cols, rows) ==
  /\ t.x = Len(ls[Len(ls)]) /\ t.y = Len(ls) - FirstShown(ls, rows) - 1
  /\ Displays(t.cells, ls, FirstShown(ls, rows), cols, rows)

(* How many lines have left the screen, and when one more does. *)
LEMMA FirstShownIs ==
  ASSUME NEW rows \in Nat \ {0}, NEW S, NEW ls \in Seq(S), Len(ls) >= 1
  PROVE  /\ FirstShown(ls, rows) \in Nat /\ Len(ls) - FirstShown(ls, rows) \in 1 .. rows
         /\ \A ms \in Seq(S) : Len(ms) = Len(ls) => FirstShown(ms, rows) = FirstShown(ls, rows)
         /\ \A ms \in Seq(S) : Len(ms) = Len(ls) + 1 =>
              FirstShown(ms, rows) = IF Len(ls) - FirstShown(ls, rows) = rows THEN FirstShown(ls, rows) + 1 ELSE FirstShown(ls, rows)
BY DEF FirstShown

(* An empty line more shows nothing more. *)
LEMMA EmptyLineDisplays ==
  ASSUME NEW cols \in Nat \ {0}, NEW rows \in Nat \ {0}, NEW C, NEW ls \in Seq(Seq(C)),
         NEW top \in Nat, NEW cells, Displays(cells, ls, top, cols, rows)
  PROVE  Displays(cells, Append(ls, <<>>), top, cols, rows)
<1> DEFINE ms == Append(ls, <<>>)
<1>1. /\ Len(ls) \in Nat /\ Len(ms) = Len(ls) + 1 /\ ms[Len(ls) + 1] = <<>>
      /\ \A k \in 1 .. Len(ls) : ms[k] = ls[k]
  OBVIOUS
<1> HIDE DEF ms
<1>2. SUFFICES ASSUME NEW y \in 0 .. (rows - 1), NEW x \in 0 .. (cols - 1)
               PROVE  cells[y][x] = IF top + y + 1 <= Len(ms) /\ x < Len(ms[top + y + 1])
                                    THEN {ms[top + y + 1][x + 1]} ELSE {}
  BY DEF Displays, ms
<1>3. cells[y][x] = IF top + y + 1 <= Len(ls) /\ x < Len(ls[top + y + 1])
                    THEN {ls[top + y + 1][x + 1]} ELSE {}
  BY DEF Displays
<1>4. PICK k \in Nat : k = top + y + 1 /\ k >= 1
  OBVIOUS
<1>5. CASE k <= Len(ls)
  <2>1. ms[k] = ls[k] /\ k <= Len(ms)
    BY <1>1, <1>4, <1>5
  <2>2. QED BY <1>3, <1>4, <1>5, <2>1
<1>6. CASE k = Len(ls) + 1
  <2>1. ms[k] = <<>> /\ Len(<<>>) = 0 /\ ~(x < 0) /\ ~(k <= Len(ls))
    BY <1>1, <1>6
  <2>2. QED BY <1>3, <1>4, <2>1
<1>7. CASE k > Len(ls) + 1
  <2>1. ~(k <= Len(ms)) /\ ~(k <= Len(ls))
    BY <1>1, <1>7
  <2>2. QED BY <1>3, <1>4, <2>1
<1>8. QED BY <1>1, <1>5, <1>6, <1>7

(* One line up, the cells show what is left of the lines. *)
LEMMA ScrolledDisplays ==
  ASSUME NEW C, NEW ls \in Seq(Seq(C)), NEW top \in Nat, NEW cells \in Grid,
         Displays(cells, ls, top, Cols, Rows),
         Len(ls) = top + 1 + Rows, ls[Len(ls)] = <<>>
  PROVE  Displays(ScrolledCells(cells), ls, top + 1, Cols, Rows)
<1>1. PICK cols \in Nat \ {0} : cols = Cols /\ cols <= GuiCols
  BY Sizes
<1>2. PICK rows \in Nat \ {0} : rows = Rows /\ rows <= GuiRows
  BY Sizes
<1>3. GuiRows \in Nat /\ GuiCols \in Nat
  BY Sizes
<1>4. PICK more : more = ScrolledCells(cells)
  OBVIOUS
<1>5. /\ \A y \in 0 .. (rows - 1) : more[y] = IF y + 1 < rows THEN cells[y + 1] ELSE Blank[0]
      /\ \A x \in 0 .. (cols - 1) : Blank[0][x] = {}
  <2>1. \A y \in 0 .. (rows - 1) : y \in 0 .. (GuiRows - 1)
    BY <1>2, <1>3
  <2>2. 0 \in 0 .. (GuiRows - 1) /\ \A x \in 0 .. (cols - 1) : x \in 0 .. (GuiCols - 1)
    BY <1>1, <1>2, <1>3
  <2>3. QED BY <1>2, <1>4, <2>1, <2>2, BlankTyped DEF ScrolledCells
<1>6. SUFFICES ASSUME NEW y \in 0 .. (rows - 1), NEW x \in 0 .. (cols - 1)
               PROVE  more[y][x] = IF top + 1 + y + 1 <= Len(ls) /\ x < Len(ls[top + 1 + y + 1])
                                   THEN {ls[top + 1 + y + 1][x + 1]} ELSE {}
  BY <1>1, <1>2, <1>4 DEF Displays
<1>7. PICK k \in Nat : k = top + 1 + y + 1
  OBVIOUS
<1>8. CASE y + 1 < rows
  <2>1. y + 1 \in 0 .. (rows - 1) /\ top + (y + 1) + 1 = k
    BY <1>7, <1>8
  <2>2. cells[y + 1][x] = IF k <= Len(ls) /\ x < Len(ls[k]) THEN {ls[k][x + 1]} ELSE {}
    BY <1>1, <1>2, <2>1 DEF Displays
  <2>3. more[y] = cells[y + 1]
    BY <1>5, <1>8
  <2>4. QED BY <1>7, <2>2, <2>3
<1>9. CASE ~(y + 1 < rows)
  <2>1. k = Len(ls)
    <3>1. y = rows - 1
      BY <1>9
    <3>2. Len(ls) = top + 1 + rows
      BY <1>2
    <3>3. k = top + 1 + rows
      BY <1>7, <3>1
    <3>4. QED BY <3>2, <3>3, Zenon
  <2>2. Len(ls[k]) = 0 /\ ~(x < 0)
    BY <2>1
  <2>3. more[y][x] = {}
    BY <1>5, <1>9
  <2>4. QED BY <1>7, <2>2, <2>3
<1>10. QED BY <1>8, <1>9

(* A line feed shows the lines and an empty one. *)
LEMMA FeedShows ==
  ASSUME NEW C, NEW ls \in Seq(Seq(C)), Len(ls) >= 1, NEW t \in TermRec,
         t.y = Len(ls) - FirstShown(ls, Rows) - 1, Displays(t.cells, ls, FirstShown(ls, Rows), Cols, Rows)
  PROVE  Shows(Wrapped(NewLine(t)), Append(ls, <<>>), Cols, Rows)
<1>1. PICK rows \in Nat \ {0} : rows = Rows
  BY Sizes
<1>2. PICK cols \in Nat \ {0} : cols = Cols
  BY Sizes
<1>3. PICK ms \in Seq(Seq(C)) : ms = Append(ls, <<>>)
  <2>1. <<>> \in Seq(C)
    OBVIOUS
  <2>2. Append(ls, <<>>) \in Seq(Seq(C))
    BY <2>1
  <2>3. QED BY <2>2, Zenon
<1>4. Len(ms) = Len(ls) + 1 /\ ms[Len(ms)] = <<>> /\ Len(ls) \in Nat
  BY <1>3
<1>5. PICK top \in Nat : top = FirstShown(ls, rows) /\ Len(ls) - top \in 1 .. rows
                         /\ FirstShown(ms, rows) = IF Len(ls) - top = rows THEN top + 1 ELSE top
  BY <1>4, FirstShownIs
<1>6. Displays(t.cells, ms, top, cols, rows)
  BY <1>1, <1>2, <1>3, <1>5, EmptyLineDisplays
<1>7. PICK u \in TermRec : u = NewLine(t) /\ u.x = 0 /\ u.y = Len(ls) - top /\ u.cells = t.cells
  <2>1. t.y + 1 = Len(ls) - top
    BY <1>1, <1>5
  <2>2. QED BY <2>1, NewLineIs
<1>8. Fed(u) = u
  BY <1>2, <1>7 DEF Fed
<1>9. Wrapped(u) = IF u.y >= rows THEN Scrolled(u) ELSE u
  BY <1>1, <1>8, FedIs
<1>10. CASE Len(ls) - top = rows
  <2>1. Wrapped(u) = Scrolled(u)
    BY <1>5, <1>7, <1>9, <1>10
  <2>2. Scrolled(u).x = 0 /\ Scrolled(u).y = rows - 1 /\ Scrolled(u).cells = ScrolledCells(t.cells)
    BY <1>1, <1>7, ScrolledIs
  <2>3. Displays(ScrolledCells(t.cells), ms, top + 1, cols, rows)
    <3>1. t.cells \in Grid
      BY TermFields
    <3>2. Len(ms) = top + 1 + rows
      BY <1>4, <1>5, <1>10
    <3>3. QED BY <1>1, <1>2, <1>4, <1>6, <3>1, <3>2, ScrolledDisplays
  <2>4. Len(ms) - (top + 1) - 1 = rows - 1 /\ FirstShown(ms, rows) = top + 1 /\ Len(ms[Len(ms)]) = 0
    BY <1>4, <1>5, <1>10
  <2>5. QED BY <1>1, <1>2, <1>3, <1>7, <2>1, <2>2, <2>3, <2>4 DEF Shows
<1>11. CASE Len(ls) - top # rows
  <2>1. Wrapped(u) = u
    BY <1>5, <1>7, <1>9, <1>11
  <2>2. Len(ms) - top - 1 = u.y /\ FirstShown(ms, rows) = top /\ Len(ms[Len(ms)]) = 0
    BY <1>4, <1>5, <1>7, <1>11
  <2>3. QED BY <1>1, <1>2, <1>3, <1>6, <1>7, <2>1, <2>2 DEF Shows
<1>12. QED BY <1>10, <1>11

(* One cell more is drawn. *)
Adds(more, cells, c, y, x, cols, rows) ==
  \A b \in 0 .. (rows - 1), a \in 0 .. (cols - 1) :
    /\ b = y /\ a = x => more[b][a] = {c} \/ more[b][a] = cells[b][a] \union {c}
    /\ ~(b = y /\ a = x) => more[b][a] = cells[b][a]

(* The last line, the n-th, is one letter longer. *)
Longer(ms, ls, n, at, c) ==
  /\ Len(ls) = n /\ Len(ms) = n /\ Len(ls[n]) = at /\ Len(ms[n]) = at + 1 /\ ms[n][at + 1] = c
  /\ \A k \in 1 .. at : ms[n][k] = ls[n][k]
  /\ \A k \in 1 .. n : k # n => ms[k] = ls[k]

(* The letter c is drawn at the end of the last line, which is in the row y. *)
LineGrows(more, cells, ms, ls, c, n, y, at, top, cols, rows) ==
  /\ cols \in Nat \ {0} /\ rows \in Nat \ {0} /\ top \in Nat /\ n \in Nat \ {0} /\ y \in Nat /\ at \in Nat
  /\ y + top + 1 = n /\ Longer(ms, ls, n, at, c)
  /\ Displays(cells, ls, top, cols, rows) /\ Adds(more, cells, c, y, at, cols, rows)

(* A letter drawn behind the last line shows the longer line. *)
LEMMA LongerDisplays ==
  ASSUME NEW cols, NEW rows, NEW c, NEW ls, NEW ms, NEW top, NEW n, NEW y, NEW cells, NEW more, NEW at,
         LineGrows(more, cells, ms, ls, c, n, y, at, top, cols, rows)
  PROVE  Displays(more, ms, top, cols, rows)
<1>0. /\ cols \in Nat \ {0} /\ rows \in Nat \ {0} /\ top \in Nat /\ n \in Nat \ {0} /\ y \in Nat /\ at \in Nat
      /\ y + top + 1 = n
  BY Zenon DEF LineGrows
<1>3. /\ Longer(ms, ls, n, at, c)
      /\ Displays(cells, ls, top, cols, rows) /\ Adds(more, cells, c, y, at, cols, rows)
  BY Zenon DEF LineGrows
<1> USE <1>0
<1>1. Len(ls) = n /\ Len(ms) = n /\ \A k \in 1 .. n : k # n => ms[k] = ls[k]
  BY <1>3 DEF Longer
<1>2. /\ Len(ls[n]) = at /\ Len(ms[n]) = at + 1 /\ ms[n][at + 1] = c
      /\ \A k \in 1 .. at : ms[n][k] = ls[n][k]
  BY <1>3 DEF Longer
<1>4. \A b \in 0 .. (rows - 1), a \in 0 .. (cols - 1) :
        /\ b = y /\ a = at => more[b][a] = {c} \/ more[b][a] = cells[b][a] \union {c}
        /\ ~(b = y /\ a = at) => more[b][a] = cells[b][a]
  BY <1>3, Zenon DEF Adds
<1>5. \A b \in 0 .. (rows - 1), a \in 0 .. (cols - 1) :
        cells[b][a] = IF top + b + 1 <= n /\ a < Len(ls[top + b + 1])
                      THEN {ls[top + b + 1][a + 1]} ELSE {}
  <2>1. \A b \in 0 .. (rows - 1), a \in 0 .. (cols - 1) :
          cells[b][a] = IF top + b + 1 <= Len(ls) /\ a < Len(ls[top + b + 1])
                        THEN {ls[top + b + 1][a + 1]} ELSE {}
    BY <1>3, Zenon DEF Displays
  <2>2. Len(ls) = n
    BY <1>1
  <2>3. QED BY <2>1, <2>2, Zenon
<1>6. ASSUME NEW b \in 0 .. (rows - 1), NEW a \in 0 .. (cols - 1)
      PROVE  more[b][a] = IF top + b + 1 <= Len(ms) /\ a < Len(ms[top + b + 1])
                          THEN {ms[top + b + 1][a + 1]} ELSE {}
  <2>1. PICK k \in Nat : k = top + b + 1 /\ k >= 1
    OBVIOUS
  <2>2. cells[b][a] = IF k <= n /\ a < Len(ls[k]) THEN {ls[k][a + 1]} ELSE {}
    BY <1>5, <2>1
  <2>3. CASE k # n
    <3>1. b # y
      BY <2>1, <2>3
    <3>2. more[b][a] = cells[b][a]
      BY <1>4, <3>1
    <3>3. CASE k <= n
      <4>1. ms[k] = ls[k]
        BY <1>1, <2>1, <2>3, <3>3
      <4>2. QED BY <1>1, <2>1, <2>2, <3>2, <4>1
    <3>4. CASE ~(k <= n)
      BY <1>1, <2>1, <2>2, <3>2, <3>4
    <3>5. QED BY <3>3, <3>4
  <2>4. CASE k = n
    <3>1. b = y /\ k <= Len(ms)
      BY <1>1, <2>1, <2>4
    <3>2. CASE a = at
      <4>1. cells[b][a] = {}
        BY <1>2, <2>2, <2>4, <3>2
      <4>2. more[b][a] = {c}
        BY <1>4, <3>1, <3>2, <4>1
      <4>3. a < Len(ms[k]) /\ ms[k][a + 1] = c
        BY <1>2, <2>4, <3>2
      <4>4. QED BY <2>1, <3>1, <4>2, <4>3
    <3>3. CASE a < at
      <4>1. more[b][a] = cells[b][a]
        BY <1>4, <3>3
      <4>2. cells[b][a] = {ls[n][a + 1]}
        BY <1>2, <2>2, <2>4, <3>3
      <4>3. a < Len(ms[k]) /\ ms[k][a + 1] = ls[n][a + 1]
        BY <1>2, <2>4, <3>3
      <4>4. QED BY <2>1, <3>1, <4>1, <4>2, <4>3
    <3>4. CASE a > at
      <4>1. more[b][a] = cells[b][a]
        BY <1>4, <3>4
      <4>2. cells[b][a] = {}
        BY <1>2, <2>2, <2>4, <3>4
      <4>3. ~(a < Len(ms[k]))
        BY <1>2, <2>4, <3>4
      <4>4. QED BY <2>1, <3>1, <4>1, <4>2, <4>3
    <3>5. QED BY <3>2, <3>3, <3>4
  <2>5. QED BY <2>3, <2>4
<1>7. QED BY <1>6 DEF Displays

(* A letter typed shows the text with that letter. *)
LEMMA LetterShows ==
  ASSUME NEW C \in SUBSET Signs, NEW ls \in OpenLines(C, Cols), NEW t \in TermRec,
         Shows(t, ls, Cols, Rows), NEW c \in C, c # "LF"
  PROVE  Shows(Wrapped(Right(Drawn(t, c))), WithLetter(ls, c, Cols), Cols, Rows)
<1>1. PICK rows \in Nat \ {0} : rows = Rows /\ rows <= GuiRows
  BY Sizes
<1>2. PICK cols \in Nat \ {0} : cols = Cols /\ cols <= GuiCols
  BY Sizes
<1>3. PICK n \in Nat \ {0} : n = Len(ls) /\ ls \in Seq(Seq(C)) /\ ls[n] \in Seq(C) /\ Len(ls[n]) < cols
  <2>1. ls \in Seq(Seq(C)) /\ Len(ls) \in Nat \ {0} /\ Len(ls[Len(ls)]) < cols
    BY <1>2 DEF OpenLines
  <2>2. ls[Len(ls)] \in Seq(C)
    BY <2>1
  <2>3. QED BY <2>1, <2>2
<1>4. PICK top \in Nat : top = FirstShown(ls, rows) /\ n - top \in 1 .. rows
  <2>1. Len(ls) >= 1
    BY <1>3
  <2>2. FirstShown(ls, rows) \in Nat /\ Len(ls) - FirstShown(ls, rows) \in 1 .. rows
    BY <1>3, <2>1, FirstShownIs
  <2>3. QED BY <1>3, <2>2
<1>5. PICK at \in Nat : at = Len(ls[n]) /\ at = t.x /\ at < cols
  BY <1>1, <1>2, <1>3 DEF Shows
<1>6. t.y = n - top - 1 /\ t.y < rows /\ t.y \in Nat /\ Displays(t.cells, ls, top, cols, rows)
  BY <1>1, <1>2, <1>3, <1>4, TermFields DEF Shows
<1>7. PICK d \in TermRec : /\ d = Drawn(t, c) /\ d.x = at /\ d.y = t.y
                           /\ \A b \in 0 .. (GuiRows - 1), a \in 0 .. (GuiCols - 1) :
                                d.cells[b][a] = IF b = t.y /\ a = at
                                                THEN IF display = "gui" THEN t.cells[b][a] \union {c} ELSE {c}
                                                ELSE t.cells[b][a]
  <2>1. c \in Signs /\ t.x < Cols /\ t.y < Rows
    BY <1>1, <1>2, <1>5, <1>6
  <2>2. /\ Drawn(t, c) \in TermRec /\ Drawn(t, c).x = t.x /\ Drawn(t, c).y = t.y
        /\ \A b \in 0 .. (GuiRows - 1), a \in 0 .. (GuiCols - 1) :
             Drawn(t, c).cells[b][a] = IF b = t.y /\ a = t.x
                                       THEN IF display = "gui" THEN t.cells[b][a] \union {c} ELSE {c}
                                       ELSE t.cells[b][a]
    BY <2>1, DrawnIs
  <2>3. PICK d : d = Drawn(t, c)
    OBVIOUS
  <2>4. d \in TermRec /\ d.x = at /\ d.y = t.y
    BY <1>5, <2>2, <2>3
  <2>5. \A b \in 0 .. (GuiRows - 1), a \in 0 .. (GuiCols - 1) :
          d.cells[b][a] = IF b = t.y /\ a = at
                          THEN IF display = "gui" THEN t.cells[b][a] \union {c} ELSE {c}
                          ELSE t.cells[b][a]
    BY <1>5, <2>2, <2>3, Zenon
  <2>6. QED BY <2>3, <2>4, <2>5, Zenon
<1>8. PICK u \in TermRec : u = Right(d) /\ u.x = at + 1 /\ u.y = n - top - 1 /\ u.cells = d.cells
  <2>1. PICK x \in Nat : x = at + 1
    OBVIOUS
  <2>2. Right(d) = [d EXCEPT !.x = x]
    BY <1>7, <2>1 DEF Right, TermRec
  <2>3. /\ [d EXCEPT !.x = x] \in TermRec /\ [d EXCEPT !.x = x].x = x /\ [d EXCEPT !.x = x].y = d.y
        /\ [d EXCEPT !.x = x].cells = d.cells
    BY PlacedX
  <2>4. QED BY <1>6, <1>7, <2>1, <2>2, <2>3
<1>9. PICK ms \in Seq(Seq(C)) : /\ ms = [ls EXCEPT ![n] = Append(ls[n], c)]
                                /\ Len(ms) = n /\ ms[n] = Append(ls[n], c) /\ Len(ms[n]) = at + 1
  <2>1. Append(ls[n], c) \in Seq(C) /\ Len(Append(ls[n], c)) = Len(ls[n]) + 1
    BY <1>3
  <2> DEFINE ms == [ls EXCEPT ![n] = Append(ls[n], c)]
  <2>2. ms \in Seq(Seq(C)) /\ Len(ms) = n /\ ms[n] = Append(ls[n], c)
    BY <1>3, <2>1
  <2>3. QED BY <1>5, <2>1, <2>2
<1>10. Displays(u.cells, ms, top, cols, rows)
  <2>1. ASSUME NEW b \in 0 .. (rows - 1), NEW a \in 0 .. (cols - 1)
        PROVE  /\ b = n - top - 1 /\ a = at => d.cells[b][a] = {c} \/ d.cells[b][a] = t.cells[b][a] \union {c}
               /\ ~(b = n - top - 1 /\ a = at) => d.cells[b][a] = t.cells[b][a]
    <3>1. b \in 0 .. (GuiRows - 1) /\ a \in 0 .. (GuiCols - 1)
      BY <1>1, <1>2, Sizes
    <3>2. QED BY <1>6, <1>7, <3>1
  <2>2. Adds(u.cells, t.cells, c, n - top - 1, at, cols, rows)
    <3>1. Adds(d.cells, t.cells, c, n - top - 1, at, cols, rows)
      BY <2>1, Zenon DEF Adds
    <3>2. QED BY <1>8, <3>1
  <2>3. Longer(ms, ls, n, at, c)
    <3>1. PICK q \in Seq(C) : q = ls[n] /\ at = Len(q)
      BY <1>3, <1>5
    <3>2. /\ Len(Append(q, c)) = at + 1 /\ Append(q, c)[at + 1] = c
          /\ \A k \in 1 .. at : Append(q, c)[k] = q[k]
      BY <3>1
    <3>3. \A k \in 1 .. n : k # n => ms[k] = ls[k]
      BY <1>3, <1>9
    <3>4. QED BY <1>3, <1>5, <1>9, <3>1, <3>2, <3>3 DEF Longer
  <2>4. PICK y \in Nat : y = n - top - 1 /\ y + top + 1 = n
    <3>1. n - top - 1 \in Nat /\ (n - top - 1) + top + 1 = n
      BY <1>4
    <3>2. QED BY <3>1, Zenon
  <2>5. Adds(u.cells, t.cells, c, y, at, cols, rows)
    BY <2>2, <2>4, Zenon
  <2>6. Displays(t.cells, ls, top, cols, rows)
    BY <1>6
  <2>7. LineGrows(u.cells, t.cells, ms, ls, c, n, y, at, top, cols, rows)
    BY <2>3, <2>4, <2>5, <2>6 DEF LineGrows
  <2>8. QED BY <2>7, LongerDisplays, Zenon
<1>11. FirstShown(ms, rows) = top
  <2>1. Len(ms) = Len(ls)
    BY <1>3, <1>9
  <2>2. QED BY <1>4, <2>1, Zenon DEF FirstShown
<1>12. WithLetter(ls, c, cols) = IF at + 1 = cols THEN Append(ms, <<>>) ELSE ms
  BY <1>3, <1>9 DEF WithLetter
<1>13. CASE at + 1 = cols
  <2>1. Wrapped(u) = Wrapped(NewLine(u))
    <3>1. Fed(u) = NewLine(u) /\ NewLine(u) \in TermRec /\ NewLine(u).x = 0
      BY <1>2, <1>8, <1>13, NewLineIs DEF Fed
    <3>2. Fed(NewLine(u)) = NewLine(u)
      BY <1>2, <3>1 DEF Fed
    <3>3. QED BY <3>1, <3>2, FedIs
  <2>2. Shows(Wrapped(NewLine(u)), Append(ms, <<>>), Cols, Rows)
    <3>1. Len(ms) >= 1 /\ u.y = Len(ms) - FirstShown(ms, Rows) - 1 /\ Displays(u.cells, ms, FirstShown(ms, Rows), Cols, Rows)
      BY <1>1, <1>2, <1>8, <1>9, <1>10, <1>11
    <3>2. QED BY <3>1, FeedShows
  <2>3. QED BY <1>2, <1>7, <1>8, <1>12, <1>13, <2>1, <2>2
<1>14. CASE at + 1 # cols
  <2>1. u.x < Cols /\ u.y < Rows
    BY <1>1, <1>2, <1>4, <1>5, <1>8, <1>14
  <2>2. Wrapped(u) = u
    BY <2>1, WrappedIs
  <2>3. Shows(u, ms, cols, rows)
    BY <1>8, <1>9, <1>10, <1>11 DEF Shows
  <2>4. QED BY <1>1, <1>2, <1>7, <1>8, <1>12, <1>14, <2>2, <2>3
<1>15. QED BY <1>13, <1>14

(* A line feed typed shows the text with that line feed. *)
LEMMA LineFeedShows ==
  ASSUME NEW C, "LF" \in C, NEW ls \in OpenLines(C, Cols), NEW t \in TermRec, Shows(t, ls, Cols, Rows)
  PROVE  Shows(Wrapped(NewLine(t)), WithLetter(ls, "LF", Cols), Cols, Rows)
<1>1. ls \in Seq(Seq(C)) /\ Len(ls) >= 1
  BY DEF OpenLines
<1>2. WithLetter(ls, "LF", Cols) = Append(ls, <<>>)
  <2>1. [ls EXCEPT ![Len(ls)] = ls[Len(ls)]] = ls
    BY <1>1
  <2>2. QED BY <2>1 DEF WithLetter
<1>3. QED BY <1>1, <1>2, FeedShows DEF Shows

(* The empty screen shows no text. *)
LEMMA BlankShows ==
  ASSUME NEW cols \in Nat \ {0}, NEW rows \in Nat \ {0}, cols <= GuiCols, rows <= GuiRows,
         NEW t, t.x = 0, t.y = 0, t.cells = Blank
  PROVE  Shows(t, LinesOf(<<>>, cols), cols, rows)
<1>1. PICK ls : ls = LinesOf(<<>>, cols) /\ ls = <<<<>>>>
  BY LinesOfNone
<1>2. Len(ls) = 1 /\ ls[1] = <<>> /\ Len(ls[1]) = 0 /\ FirstShown(ls, rows) = 0
  <2>1. Len(<<<<>>>>) = 1 /\ <<<<>>>>[1] = <<>>
    OBVIOUS
  <2>2. Len(ls) = 1 /\ ls[1] = <<>>
    BY <1>1, <2>1
  <2>3. FirstShown(ls, rows) = 0
    <3>1. ~(1 > rows)
      OBVIOUS
    <3>2. QED BY <2>2, <3>1, Zenon DEF FirstShown
  <2>4. Len(<<>>) = 0
    OBVIOUS
  <2>5. QED BY <2>2, <2>3, <2>4
<1>3. Displays(Blank, ls, 0, cols, rows)
  <2>1. SUFFICES ASSUME NEW b \in 0 .. (rows - 1), NEW a \in 0 .. (cols - 1)
                 PROVE  Blank[b][a] = IF 0 + b + 1 <= Len(ls) /\ a < Len(ls[0 + b + 1])
                                      THEN {ls[0 + b + 1][a + 1]} ELSE {}
    BY DEF Displays
  <2>2. Blank[b][a] = {}
    <3>1. b \in 0 .. (GuiRows - 1) /\ a \in 0 .. (GuiCols - 1)
      BY Sizes
    <3>2. QED BY <3>1, BlankTyped
  <2>3. ~(0 + b + 1 <= Len(ls) /\ a < Len(ls[0 + b + 1]))
    BY <1>2
  <2>4. QED BY <2>2, <2>3
<1>4. t.x = Len(ls[Len(ls)]) /\ t.y = Len(ls) - FirstShown(ls, rows) - 1
  BY <1>2
<1>5. Displays(t.cells, ls, FirstShown(ls, rows), cols, rows)
  BY <1>2, <1>3
<1>6. QED BY <1>1, <1>4, <1>5 DEF Shows

-----------------------------------------------------------------------------
(* Characters: what each of the drivers makes of one *)

Movers == {"A", "B", "C", "D", "H", "f"}
Unmoved(u, t) == u.cells = t.cells /\ u.x = t.x /\ u.y = t.y

(* The parameters that a sequence reads are numbers. *)
LEMMA ParamsAre ==
  ASSUME NEW t \in TermRec
  PROVE  /\ ParamsOf(t.params) \in Seq(Nat) /\ ParamsOf(t.params)[1] \in Nat
         /\ Len(ParamsOf(t.params)) > 1 => ParamsOf(t.params)[2] \in Nat
<1>1. t.params \in Seq(ParamChars)
  BY TermFields DEF ParamTexts
<1>2. ParamsOf(t.params) \in ParamNumbers
  BY <1>1, ParamsTyped
<1>3. PICK ps \in Seq(Nat) : ps = ParamsOf(t.params) /\ Len(ps) >= 1
  BY <1>2 DEF ParamNumbers
<1>4. ps[1] \in Nat /\ (Len(ps) > 1 => ps[2] \in Nat)
  BY <1>3
<1>5. QED BY <1>3, <1>4

(* Only moves and "2J" touch the place or the cells (vt100_handle_csi). *)
LEMMA CsiIs ==
  ASSUME NEW t \in TermRec, NEW c
  PROVE  /\ HandleCsi(t, c) \in TermRec
         /\ c = "J" /\ ParamsOf(t.params)[1] = 2 => HandleCsi(t, c) = Cleared(t)
         /\ c \notin Movers /\ ~(c = "J" /\ ParamsOf(t.params)[1] = 2) => Unmoved(HandleCsi(t, c), t)
<1>1. PICK ps \in Seq(Nat) : ps = ParamsOf(t.params) /\ ps[1] \in Nat /\ (Len(ps) > 1 => ps[2] \in Nat)
  BY ParamsAre
<1>2. PICK n \in Nat : n = AtLeastOne(ps[1])
  BY <1>1 DEF AtLeastOne
<1>3. t.x \in Nat /\ t.y \in Nat /\ t.color \in Hues /\ t.state \in ParserStates /\ t.params \in ParamTexts
  BY TermFields
<1>4. PICK color \in Hues : color = FoldLeft(ColorAfter, t.color, ps)
  BY <1>3, ColorsTyped
<1>5. CASE c = "m"
  <2>1. HandleCsi(t, c) = [t EXCEPT !.color = color]
    BY <1>1, <1>2, <1>4, <1>5 DEF HandleCsi, TermRec
  <2>2. [t EXCEPT !.color = color] \in TermRec /\ Unmoved([t EXCEPT !.color = color], t)
    BY ColorSet DEF Unmoved
  <2>3. QED BY <1>5, <2>1, <2>2 DEF Movers
<1>6. CASE c = "A"
  <2>1. PICK y \in Nat : y = Less(t.y, n)
    BY <1>3 DEF Less
  <2>2. HandleCsi(t, c) = [t EXCEPT !.y = y]
    BY <1>1, <1>2, <1>6, <2>1 DEF HandleCsi, TermRec
  <2>3. [t EXCEPT !.y = y] \in TermRec
    BY PlacedY
  <2>4. QED BY <1>6, <2>2, <2>3 DEF Movers
<1>7. CASE c = "B"
  <2>1. PICK y \in Nat : y = Plus(t.y, n, TextRows)
    BY <1>3, Sizes DEF Plus
  <2>2. HandleCsi(t, c) = [t EXCEPT !.y = y]
    BY <1>1, <1>2, <1>7, <2>1 DEF HandleCsi, TermRec
  <2>3. [t EXCEPT !.y = y] \in TermRec
    BY PlacedY
  <2>4. QED BY <1>7, <2>2, <2>3 DEF Movers
<1>8. CASE c = "C"
  <2>1. PICK x \in Nat : x = Plus(t.x, n, TextCols)
    BY <1>3, Sizes DEF Plus
  <2>2. HandleCsi(t, c) = [t EXCEPT !.x = x]
    BY <1>1, <1>2, <1>8, <2>1 DEF HandleCsi, TermRec
  <2>3. [t EXCEPT !.x = x] \in TermRec
    BY PlacedX
  <2>4. QED BY <1>8, <2>2, <2>3 DEF Movers
<1>9. CASE c = "D"
  <2>1. PICK x \in Nat : x = Less(t.x, n)
    BY <1>3 DEF Less
  <2>2. HandleCsi(t, c) = [t EXCEPT !.x = x]
    BY <1>1, <1>2, <1>9, <2>1 DEF HandleCsi, TermRec
  <2>3. [t EXCEPT !.x = x] \in TermRec
    BY PlacedX
  <2>4. QED BY <1>9, <2>2, <2>3 DEF Movers
<1>10. CASE c \in {"H", "f"}
  <2>1. PICK y \in Nat : y = IF Len(ps) > 1 THEN Less(ps[1], 1) ELSE 0
    BY <1>1 DEF Less
  <2>2. PICK x \in Nat : x = IF Len(ps) > 1 THEN Less(ps[2], 1) ELSE 0
    BY <1>1 DEF Less
  <2>3. HandleCsi(t, c) = [t EXCEPT !.y = y, !.x = x] \/ HandleCsi(t, c) = [t EXCEPT !.x = x, !.y = y]
    <3>1. HandleCsi(t, c) = IF Len(ps) > 1 THEN [t EXCEPT !.y = Less(ps[1], 1), !.x = Less(ps[2], 1)]
                            ELSE [t EXCEPT !.x = 0, !.y = 0]
      BY <1>1, <1>2, <1>10 DEF HandleCsi
    <3>2. QED BY <2>1, <2>2, <3>1, Zenon
  <2>4. [t EXCEPT !.y = y, !.x = x] \in TermRec
    BY PlacedYX
  <2>5. [t EXCEPT !.x = x, !.y = y] \in TermRec
    BY PlacedXY
  <2>6. QED BY <1>10, <2>3, <2>4, <2>5 DEF Movers
<1>11. CASE c = "J" /\ ps[1] = 2
  <2>1. HandleCsi(t, c) = Cleared(t)
    BY <1>1, <1>2, <1>11 DEF HandleCsi
  <2>2. QED BY <1>1, <1>11, <2>1, ClearedIs
<1>12. CASE c \notin {"m"} \union Movers /\ ~(c = "J" /\ ps[1] = 2)
  <2>1. HandleCsi(t, c) = t
    BY <1>1, <1>2, <1>12 DEF HandleCsi, Movers
  <2>2. QED BY <1>1, <1>12, <2>1 DEF Unmoved, Movers
<1>13. QED BY <1>5, <1>6, <1>7, <1>8, <1>9, <1>10, <1>11, <1>12 DEF Movers

(* The same of the driver without VT100. *)
LEMMA AnsiCsiIs ==
  ASSUME NEW t \in TermRec, NEW c
  PROVE  /\ AnsiCsi(t, c) \in TermRec
         /\ c = "J" /\ ParamsOf(t.params)[1] = 2 => AnsiCsi(t, c) = Cleared(t)
         /\ c \notin Movers /\ ~(c = "J" /\ ParamsOf(t.params)[1] = 2) => Unmoved(AnsiCsi(t, c), t)
<1>1. CASE c = "m"
  <2>1. PICK ps \in Seq(Nat) : ps = ParamsOf(t.params)
    BY ParamsAre
  <2>2. t.color \in Hues /\ t.state \in ParserStates /\ t.params \in ParamTexts
    BY TermFields
  <2>3. PICK color \in Hues : color = FoldLeft(AnsiColor, t.color, ps)
    BY <2>2, AnsiColorsTyped
  <2>4. AnsiCsi(t, c) = [t EXCEPT !.color = color]
    BY <1>1, <2>1, <2>3 DEF AnsiCsi, TermRec
  <2>5. [t EXCEPT !.color = color] \in TermRec /\ Unmoved([t EXCEPT !.color = color], t)
    BY ColorSet DEF Unmoved
  <2>6. QED BY <1>1, <2>4, <2>5 DEF Movers
<1>2. CASE c # "m"
  BY <1>2, CsiIs DEF AnsiCsi
<1>3. QED BY <1>1, <1>2

(* The parser touches place and cells at the letter of a sequence only. *)
LEMMA ParsedIs ==
  ASSUME NEW t \in TermRec, NEW c
  PROVE  /\ Parsed(t, c) \in TermRec
         /\ t.state # "CSI" => Unmoved(Parsed(t, c), t)
         /\ t.state = "CSI" /\ c = "J" /\ ParamsOf(t.params)[1] = 2 =>
              Parsed(t, c).x = 0 /\ Parsed(t, c).y = 0 /\ Parsed(t, c).cells = Blank
         /\ t.state = "CSI" /\ c \notin Movers /\ ~(c = "J" /\ ParamsOf(t.params)[1] = 2) =>
              Unmoved(Parsed(t, c), t)
<1>1. t.state \in ParserStates /\ t.params \in ParamTexts /\ t.color \in Hues
      /\ {"NORMAL", "ESC", "CSI"} = ParserStates /\ <<>> \in ParamTexts
  <2>1. <<>> \in ParamTexts
    <3>1. <<>> \in Seq(ParamChars) /\ Len(<<>>) <= ParamLength
      BY DEF ParamLength
    <3>2. QED BY <3>1 DEF ParamTexts
  <2>2. QED BY <2>1, TermFields DEF ParserStates
<1>2. CASE t.state = "NORMAL"
  <2>1. Parsed(t, c) = [t EXCEPT !.state = "ESC"]
    BY <1>2 DEF Parsed
  <2>2. QED BY <1>1, <1>2, <2>1, StateTyped DEF Unmoved
<1>3. CASE t.state = "ESC" /\ c # "["
  <2>1. Parsed(t, c) = [t EXCEPT !.state = "NORMAL"]
    BY <1>3 DEF Parsed
  <2>2. QED BY <1>1, <1>3, <2>1, StateTyped DEF Unmoved
<1>4. CASE t.state = "ESC" /\ c = "["
  <2>1. Parsed(t, c) = [[t EXCEPT !.state = "CSI"] EXCEPT !.params = <<>>]
    BY <1>4 DEF Parsed, TermRec
  <2>2. PICK u \in TermRec : u = [t EXCEPT !.state = "CSI"] /\ Unmoved(u, t)
    BY <1>1, StateTyped DEF Unmoved
  <2>3. [u EXCEPT !.params = <<>>] \in TermRec /\ Unmoved([u EXCEPT !.params = <<>>], u)
    BY <1>1, ParamsSet DEF Unmoved
  <2>4. QED BY <1>4, <2>1, <2>2, <2>3 DEF Unmoved
<1>5. CASE t.state = "CSI" /\ c \in ParamChars
  <2>1. Parsed(t, c) = IF Len(t.params) < ParamLength THEN [t EXCEPT !.params = Append(t.params, c)] ELSE t
    BY <1>5 DEF Parsed, ParamChars, TermRec
  <2>2. Len(t.params) < ParamLength => Append(t.params, c) \in ParamTexts
    <3>1. t.params \in Seq(ParamChars) /\ ParamLength \in Nat
      BY <1>1 DEF ParamTexts, ParamLength
    <3>2. Len(Append(t.params, c)) = Len(t.params) + 1 /\ Append(t.params, c) \in Seq(ParamChars)
      BY <1>5, <3>1
    <3>3. QED BY <3>1, <3>2 DEF ParamTexts
  <2>3. c # "J"
    BY <1>5 DEF ParamChars, DigitOf
  <2>4. Parsed(t, c) \in TermRec /\ Unmoved(Parsed(t, c), t)
    <3>1. CASE Len(t.params) < ParamLength
      <4>1. PICK ps \in ParamTexts : ps = Append(t.params, c)
        BY <2>2, <3>1
      <4>2. [t EXCEPT !.params = ps] \in TermRec /\ Unmoved([t EXCEPT !.params = ps], t)
        BY ParamsSet DEF Unmoved
      <4>3. QED BY <2>1, <3>1, <4>1, <4>2
    <3>2. CASE ~(Len(t.params) < ParamLength)
      BY <2>1, <3>2 DEF Unmoved
    <3>3. QED BY <3>1, <3>2
  <2>5. QED BY <1>5, <2>3, <2>4
<1>6. CASE t.state = "CSI" /\ c \notin ParamChars
  <2>1. PICK u \in TermRec : /\ u = IF display = "ansi" THEN AnsiCsi(t, c) ELSE HandleCsi(t, c)
                             /\ c = "J" /\ ParamsOf(t.params)[1] = 2 => u = Cleared(t)
                             /\ c \notin Movers /\ ~(c = "J" /\ ParamsOf(t.params)[1] = 2) => Unmoved(u, t)
    BY CsiIs, AnsiCsiIs
  <2>2. Parsed(t, c) = [u EXCEPT !.state = "NORMAL"]
    BY <1>6, <2>1 DEF Parsed, ParamChars
  <2>3. [u EXCEPT !.state = "NORMAL"] \in TermRec /\ Unmoved([u EXCEPT !.state = "NORMAL"], u)
    BY <1>1, StateTyped DEF Unmoved
  <2>4. QED BY <1>6, <2>1, <2>2, <2>3, ClearedIs DEF Unmoved
<1>7. QED BY <1>1, <1>2, <1>3, <1>4, <1>5, <1>6

(* What a character can do to the terminal and to its history: a letter, a    *)
(* line feed, clearing the screen, anything that moves the cursor back, and    *)
(* what leaves no trace.                                                      *)
Effect(u, t, c, text, after) ==
  \/ text # Moved /\ c # "LF" /\ u = Wrapped(Right(Drawn(t, c))) /\ after = Append(text, c)
  \/ text # Moved /\ c = "LF" /\ u = Wrapped(NewLine(t)) /\ after = Append(text, c)
  \/ after = <<>> /\ u.x = 0 /\ u.y = 0 /\ u.cells = Blank
  \/ after = Moved
  \/ after = text /\ Unmoved(u, t)

Told(t, text) ==
  text # Moved => text \in Seq(Signs) /\ Shows(t, LinesOf(text, Cols), Cols, Rows)

(* Each effect of a character keeps the screen the text of its history. *)
LEMMA EffectTold ==
  ASSUME NEW t \in TermRec, NEW u \in TermRec, NEW c \in Signs, NEW text, NEW after,
         Told(t, text), Effect(u, t, c, text, after)
  PROVE  Told(u, after)
<1>1. PICK cols \in Nat \ {0} : cols = Cols /\ cols <= GuiCols
  BY Sizes
<1>2. PICK rows \in Nat \ {0} : rows = Rows /\ rows <= GuiRows
  BY Sizes
<1>3. CASE text # Moved /\ after = Append(text, c)
           /\ ((c # "LF" /\ u = Wrapped(Right(Drawn(t, c)))) \/ (c = "LF" /\ u = Wrapped(NewLine(t))))
  <2>1. PICK s \in Seq(Signs) : s = text /\ Shows(t, LinesOf(s, cols), Cols, Rows)
    BY <1>1, <1>3 DEF Told
  <2>2. PICK ls \in OpenLines(Signs, cols) : ls = LinesOf(s, cols)
                                              /\ LinesOf(Append(s, c), cols) = WithLetter(ls, c, cols)
    BY LinesOfOneMore
  <2>3. Append(s, c) \in Seq(Signs)
    OBVIOUS
  <2>4. Shows(u, WithLetter(ls, c, Cols), Cols, Rows)
    <3>1. CASE c # "LF"
      <4>1. Signs \in SUBSET Signs /\ ls \in OpenLines(Signs, Cols) /\ Shows(t, ls, Cols, Rows)
        BY <1>1, <2>1, <2>2
      <4>2. Shows(Wrapped(Right(Drawn(t, c))), WithLetter(ls, c, Cols), Cols, Rows)
        BY <3>1, <4>1, LetterShows
      <4>3. QED BY <1>3, <3>1, <4>2
    <3>2. CASE c = "LF"
      <4>1. "LF" \in Signs /\ ls \in OpenLines(Signs, Cols) /\ Shows(t, ls, Cols, Rows)
        BY <1>1, <2>1, <2>2, <3>2
      <4>2. Shows(Wrapped(NewLine(t)), WithLetter(ls, "LF", Cols), Cols, Rows)
        BY <4>1, LineFeedShows
      <4>3. QED BY <1>3, <3>2, <4>2
    <3>3. QED BY <3>1, <3>2
  <2>5. QED BY <1>1, <1>3, <2>1, <2>2, <2>3, <2>4 DEF Told
<1>4. CASE after = <<>> /\ u.x = 0 /\ u.y = 0 /\ u.cells = Blank
  <2>1. Shows(u, LinesOf(<<>>, cols), cols, rows)
    BY <1>1, <1>2, <1>4, BlankShows
  <2>2. <<>> \in Seq(Signs)
    OBVIOUS
  <2>3. QED BY <1>1, <1>2, <1>4, <2>1, <2>2 DEF Told
<1>5. CASE after = Moved
  BY <1>5 DEF Told
<1>6. CASE after = text /\ Unmoved(u, t)
  BY <1>6 DEF Told, Unmoved, Shows
<1>7. \/ text # Moved /\ c # "LF" /\ u = Wrapped(Right(Drawn(t, c))) /\ after = Append(text, c)
      \/ text # Moved /\ c = "LF" /\ u = Wrapped(NewLine(t)) /\ after = Append(text, c)
      \/ after = <<>> /\ u.x = 0 /\ u.y = 0 /\ u.cells = Blank
      \/ after = Moved
      \/ after = text /\ Unmoved(u, t)
  BY Zenon DEF Effect
<1>8. QED BY <1>3, <1>4, <1>5, <1>6, <1>7, Zenon

(* A driver that goes through the parser of escape sequences *)
LEMMA ParsedEffect ==
  ASSUME NEW t \in TermRec, NEW c, display # "vt220", t.state # "NORMAL" \/ c = "ESC"
  PROVE  Parsed(t, c) \in TermRec /\ Effect(Parsed(t, c), t, c, typed, TypedAfter(t, c))
<1>1. t.state \in {"NORMAL", "ESC", "CSI"}
  BY TermFields DEF ParserStates
<1>2. CASE t.state # "CSI"
  <2>1. TypedAfter(t, c) = typed
    BY <1>1, <1>2 DEF TypedAfter, Controls
  <2>2. QED BY <1>2, <2>1, ParsedIs DEF Effect
<1>3. CASE t.state = "CSI" /\ c = "J" /\ ParamsOf(t.params)[1] = 2
  <2>1. TypedAfter(t, c) = <<>>
    BY <1>3 DEF TypedAfter
  <2>2. QED BY <1>3, <2>1, ParsedIs DEF Effect
<1>4. CASE t.state = "CSI" /\ c \in Movers
  <2>1. TypedAfter(t, c) = Moved
    BY <1>4 DEF TypedAfter, Movers
  <2>2. QED BY <2>1, ParsedIs DEF Effect
<1>5. CASE t.state = "CSI" /\ c \notin Movers /\ ~(c = "J" /\ ParamsOf(t.params)[1] = 2)
  <2>1. TypedAfter(t, c) = typed
    BY <1>5 DEF TypedAfter, Movers
  <2>2. QED BY <1>5, <2>1, ParsedIs DEF Effect
<1>6. QED BY <1>2, <1>3, <1>4, <1>5

OnScreen(t) == t.x < Cols /\ t.y < Rows

(* A character to VT100, or to VT100 in the frame buffer, has such an effect. *)
LEMMA Vt100Effect ==
  ASSUME NEW t \in TermRec, OnScreen(t), NEW c \in Signs, display \in {"vt100", "gui"}
  PROVE  /\ Vt100Putc(t, c) \in TermRec /\ OnScreen(Vt100Putc(t, c))
         /\ Effect(Vt100Putc(t, c), t, c, typed, TypedAfter(t, c))
<1>1. CASE t.state # "NORMAL" \/ c = "ESC"
  <2>1. PICK u \in TermRec : u = Parsed(t, c) /\ Effect(u, t, c, typed, TypedAfter(t, c))
    BY <1>1, ParsedEffect
  <2>2. Vt100Putc(t, c) = Wrapped(u)
    BY <1>1, <2>1 DEF Vt100Putc
  <2>3. Wrapped(u) \in TermRec /\ OnScreen(Wrapped(u))
    BY WrappedIs DEF OnScreen
  <2>4. Effect(Wrapped(u), t, c, typed, TypedAfter(t, c))
    <3>1. OnScreen(u) => Wrapped(u) = u
      BY WrappedIs DEF OnScreen
    <3>2. CASE OnScreen(u)
      BY <2>1, <3>1, <3>2
    <3>3. CASE ~OnScreen(u)
      <4>1. ~Unmoved(u, t) /\ ~(u.x = 0 /\ u.y = 0)
        BY <3>3, Sizes DEF OnScreen, Unmoved
      <4>2. TypedAfter(t, c) = Moved
        <5>1. t.state \in {"NORMAL", "ESC", "CSI"}
          BY TermFields DEF ParserStates
        <5>2. t.state = "CSI" /\ c \in Movers
          BY <1>1, <2>1, <4>1, <5>1, ParsedIs
        <5>3. QED BY <5>2 DEF TypedAfter, Movers
      <4>3. QED BY <4>2 DEF Effect
    <3>4. QED BY <3>2, <3>3
  <2>5. QED BY <2>2, <2>3, <2>4
<1>2. CASE t.state = "NORMAL" /\ c = "LF"
  <2>1. Vt100Putc(t, c) = Wrapped(NewLine(t))
    BY <1>2 DEF Vt100Putc
  <2>2. TypedAfter(t, c) = IF typed # Moved THEN Append(typed, c) ELSE Moved
    BY <1>2 DEF TypedAfter, Controls
  <2>3. QED BY <1>2, <2>1, <2>2, NewLineIs, WrappedIs DEF Effect, OnScreen
<1>3. CASE t.state = "NORMAL" /\ c \in {"CR", "TAB", "BS"}
  <2>1. TypedAfter(t, c) = Moved
    BY <1>3 DEF TypedAfter, Controls
  <2>2. PICK u \in TermRec : Vt100Putc(t, c) = Wrapped(u)
    <3>1. CASE c = "CR"
      <4>1. Vt100Putc(t, c) = Wrapped([t EXCEPT !.x = 0])
        BY <1>3, <3>1 DEF Vt100Putc
      <4>2. QED BY <4>1, PlacedX
    <3>2. CASE c = "TAB"
      <4>1. PICK q \in Nat : q = (t.x + TabStop) \div TabStop
        BY TermFields, TerminalAssumption
      <4>2. PICK x \in Nat : x = q * TabStop
        BY TerminalAssumption
      <4>3. [t EXCEPT !.x = ((@ + TabStop) \div TabStop) * TabStop] = [t EXCEPT !.x = x]
        BY <4>1, <4>2, Zenon DEF TermRec
      <4>4. Vt100Putc(t, c) = Wrapped([t EXCEPT !.x = ((@ + TabStop) \div TabStop) * TabStop])
        BY <1>3, <3>2 DEF Vt100Putc
      <4>5. QED BY <4>3, <4>4, PlacedX
    <3>3. CASE c = "BS"
      <4>1. CASE t.x = 0
        <5>1. Vt100Putc(t, c) = Wrapped(t)
          BY <1>3, <3>3, <4>1 DEF Vt100Putc
        <5>2. QED BY <5>1
      <4>2. CASE t.x # 0
        <5>1. PICK x \in Nat : x = t.x - 1
          BY <4>2, TermFields
        <5>2. PICK v \in TermRec : v = [t EXCEPT !.x = x]
          BY PlacedX
        <5>3. [t EXCEPT !.x = @ - 1] = v
          BY <5>1, <5>2 DEF TermRec
        <5>4. Vt100Putc(t, c) = Wrapped(IF display = "gui" THEN Erased(v) ELSE v)
          BY <1>3, <3>3, <4>2, <5>3 DEF Vt100Putc
        <5>5. QED BY <5>4, ErasedIs
      <4>3. QED BY <4>1, <4>2
    <3>4. QED BY <1>3, <3>1, <3>2, <3>3
  <2>3. QED BY <2>1, <2>2, WrappedIs DEF Effect, OnScreen
<1>4. CASE t.state = "NORMAL" /\ c \notin Controls
  <2>1. Vt100Putc(t, c) = Wrapped(Right(Drawn(t, c)))
    BY <1>4 DEF Vt100Putc, Controls
  <2>2. TypedAfter(t, c) = IF typed # Moved THEN Append(typed, c) ELSE Moved
    BY <1>4 DEF TypedAfter, Controls
  <2>3. Right(Drawn(t, c)) \in TermRec
    <3>1. PICK d \in TermRec : d = Drawn(t, c)
      BY DrawnIs
    <3>2. PICK x \in Nat : x = d.x + 1
      BY TermFields
    <3>3. Right(d) = [d EXCEPT !.x = x]
      BY <3>2 DEF Right, TermRec
    <3>4. QED BY <3>1, <3>3, PlacedX
  <2>4. QED BY <1>4, <2>1, <2>2, <2>3, WrappedIs DEF Effect, OnScreen, Controls
<1>5. QED BY <1>1, <1>2, <1>3, <1>4 DEF Controls

(* A letter drawn, and the cursor one further, is a terminal. *)
LEMMA DrawnRight ==
  ASSUME NEW t \in TermRec, NEW c \in Signs
  PROVE  Right(Drawn(t, c)) \in TermRec /\ Right(Drawn(t, c)).state = t.state
<1>1. PICK d \in TermRec : d = Drawn(t, c) /\ d.state = t.state
  <2>1. Drawn(t, c) \in TermRec /\ Drawn(t, c).state = t.state
    BY DrawnIs
  <2>2. QED BY <2>1
<1>2. PICK x \in Nat : x = d.x + 1
  BY TermFields
<1>3. Right(d) = [d EXCEPT !.x = x]
  BY <1>2 DEF Right, TermRec
<1>4. QED BY <1>1, <1>3, PlacedX

(* So has a character to VT220, whose parser never leaves its first state. *)
LEMMA Vt220Effect ==
  ASSUME NEW t \in TermRec, OnScreen(t), NEW c \in Signs, display = "vt220", t.state = "NORMAL",
         NEW u \in Vt220Putc(t, c)
  PROVE  /\ u \in TermRec /\ OnScreen(u) /\ u.state = "NORMAL"
         /\ Effect(u, t, c, typed, TypedAfter(t, c))
<1>1. PICK color \in {t.color, Default, [bright |-> FALSE, hue |-> 4]} :
        u = Wrapped(CASE c = "LF" -> NewLine(t)
                      [] c = "CR" -> [t EXCEPT !.x = 0]
                      [] c = "BS" -> [t EXCEPT !.x = Less(@, 1)]
                      [] c = "ESC" -> [t EXCEPT !.color = color]
                      [] OTHER -> Right(Drawn(t, c)))
  BY DEF Vt220Putc
<1>2. color \in Hues
  <2>1. t.color \in Hues
    BY TermFields
  <2>2. Default \in Hues /\ [bright |-> FALSE, hue |-> 4] \in Hues
    BY DEF Default, Hues
  <2>3. QED BY <2>1, <2>2
<1>3. CASE c = "LF"
  <2>1. u = Wrapped(NewLine(t))
    BY <1>1, <1>3
  <2>2. TypedAfter(t, c) = IF typed # Moved THEN Append(typed, c) ELSE Moved
    BY <1>3 DEF TypedAfter, Controls
  <2>3. QED BY <1>3, <2>1, <2>2, NewLineIs, WrappedIs DEF Effect, OnScreen
<1>4. CASE c = "ESC"
  <2>1. PICK v \in TermRec : v = [t EXCEPT !.color = color] /\ Unmoved(v, t) /\ v.state = t.state
    BY <1>2, ColorSet DEF Unmoved
  <2>2. u = Wrapped(v)
    BY <1>1, <1>4, <2>1
  <2>3. Wrapped(v) = v
    BY <2>1, WrappedIs DEF OnScreen, Unmoved
  <2>4. TypedAfter(t, c) = typed
    BY <1>4 DEF TypedAfter, Controls
  <2>5. QED BY <2>1, <2>2, <2>3, <2>4 DEF Effect, OnScreen, Unmoved
<1>5. CASE c \in {"CR", "TAB", "BS"}
  <2>1. TypedAfter(t, c) = Moved
    BY <1>5 DEF TypedAfter, Controls
  <2>2. PICK v \in TermRec : u = Wrapped(v) /\ v.state = "NORMAL"
    <3>1. CASE c = "CR"
      <4>1. u = Wrapped([t EXCEPT !.x = 0])
        BY <1>1, <3>1
      <4>2. 0 \in Nat
        OBVIOUS
      <4>3. [t EXCEPT !.x = 0] \in TermRec /\ [t EXCEPT !.x = 0].state = t.state
        BY <4>2, PlacedX
      <4>4. QED BY <4>1, <4>3
    <3>2. CASE c = "TAB"
      <4>1. u = Wrapped(Right(Drawn(t, c)))
        BY <1>1, <3>2
      <4>2. QED BY <4>1, DrawnRight
    <3>3. CASE c = "BS"
      <4>1. PICK x \in Nat : x = Less(t.x, 1)
        BY TermFields DEF Less
      <4>2. u = Wrapped([t EXCEPT !.x = x])
        <5>1. [t EXCEPT !.x = Less(@, 1)] = [t EXCEPT !.x = x]
          BY <4>1 DEF TermRec
        <5>2. QED BY <1>1, <3>3, <5>1
      <4>3. [t EXCEPT !.x = x] \in TermRec /\ [t EXCEPT !.x = x].state = t.state
        BY PlacedX
      <4>4. QED BY <4>2, <4>3
    <3>4. QED BY <1>5, <3>1, <3>2, <3>3
  <2>3. QED BY <2>1, <2>2, WrappedIs DEF Effect, OnScreen
<1>6. CASE c \notin Controls
  <2>1. u = Wrapped(Right(Drawn(t, c)))
    BY <1>1, <1>6 DEF Controls
  <2>2. TypedAfter(t, c) = IF typed # Moved THEN Append(typed, c) ELSE Moved
    BY <1>6 DEF TypedAfter, Controls
  <2>3. Right(Drawn(t, c)).state = "NORMAL"
    BY DrawnRight
  <2>4. PICK v \in TermRec : v = Right(Drawn(t, c)) /\ v.state = "NORMAL"
    BY <2>3, DrawnRight
  <2>5. u \in TermRec /\ OnScreen(u) /\ u.state = "NORMAL"
    BY <2>1, <2>4, WrappedIs DEF OnScreen
  <2>6. QED BY <1>6, <2>1, <2>2, <2>5 DEF Effect, Controls
<1>7. QED BY <1>3, <1>4, <1>5, <1>6 DEF Controls

(* And one to the driver in text mode without VT100. *)
LEMMA AnsiEffect ==
  ASSUME NEW t \in TermRec, NEW c \in Signs, display = "ansi"
  PROVE  AnsiPutc(t, c) \in TermRec /\ Effect(AnsiPutc(t, c), t, c, typed, TypedAfter(t, c))
<1>1. CASE t.state # "NORMAL" \/ c = "ESC"
  BY <1>1, ParsedEffect DEF AnsiPutc
<1>2. CASE t.state = "NORMAL" /\ c = "LF"
  <2>1. AnsiPutc(t, c) = Wrapped(NewLine(t))
    BY <1>2 DEF AnsiPutc, ArchPutChar
  <2>2. TypedAfter(t, c) = IF typed # Moved THEN Append(typed, c) ELSE Moved
    BY <1>2 DEF TypedAfter, Controls
  <2>3. QED BY <1>2, <2>1, <2>2, NewLineIs, WrappedIs DEF Effect
<1>3. CASE t.state = "NORMAL" /\ c = "BS"
  <2>1. TypedAfter(t, c) = Moved
    BY <1>3 DEF TypedAfter, Controls
  <2>2. PICK v \in TermRec : v = IF t.x > 0 THEN [t EXCEPT !.x = @ - 1]
                                 ELSE IF t.y > 0 THEN [t EXCEPT !.y = @ - 1, !.x = Cols - 1] ELSE t
    <3>1. CASE t.x > 0
      <4>1. PICK x \in Nat : x = t.x - 1
        BY <3>1, TermFields
      <4>2. [t EXCEPT !.x = @ - 1] = [t EXCEPT !.x = x]
        BY <4>1 DEF TermRec
      <4>3. QED BY <3>1, <4>2, PlacedX
    <3>2. CASE ~(t.x > 0) /\ t.y > 0
      <4>1. PICK y \in Nat : y = t.y - 1
        BY <3>2, TermFields
      <4>2. PICK x \in Nat : x = Cols - 1
        BY Sizes
      <4>3. [t EXCEPT !.y = @ - 1, !.x = Cols - 1] = [t EXCEPT !.y = y, !.x = x]
        BY <4>1, <4>2 DEF TermRec
      <4>4. QED BY <3>2, <4>3, PlacedYX
    <3>3. CASE ~(t.x > 0) /\ ~(t.y > 0)
      BY <3>3
    <3>4. QED BY <3>1, <3>2, <3>3
  <2>3. AnsiPutc(t, c) = Wrapped(Erased(v))
    BY <1>3, <2>2 DEF AnsiPutc, ArchPutChar
  <2>4. QED BY <2>1, <2>3, ErasedIs, WrappedIs DEF Effect
<1>4. CASE t.state = "NORMAL" /\ c \notin {"LF", "BS", "ESC"}
  <2>1. AnsiPutc(t, c) = Wrapped(Right(Drawn(t, c)))
    BY <1>4 DEF AnsiPutc, ArchPutChar
  <2>2. AnsiPutc(t, c) \in TermRec
    BY <2>1, DrawnRight, WrappedIs
  <2>3. CASE c \in {"CR", "TAB"}
    <3>1. TypedAfter(t, c) = Moved
      BY <1>4, <2>3 DEF TypedAfter, Controls
    <3>2. QED BY <2>2, <3>1 DEF Effect
  <2>4. CASE c \notin {"CR", "TAB"}
    <3>1. TypedAfter(t, c) = IF typed # Moved THEN Append(typed, c) ELSE Moved
      BY <1>4, <2>4 DEF TypedAfter, Controls
    <3>2. QED BY <1>4, <2>1, <2>2, <3>1 DEF Effect
  <2>5. QED BY <2>3, <2>4
<1>5. QED BY <1>1, <1>2, <1>3, <1>4

-----------------------------------------------------------------------------
(* The terminals *)

(* A terminal that is shown or parked, with its history *)
Kept(t, text) ==
  /\ t \in TermRec
  /\ display \in {"vt100", "gui", "vt220"} => OnScreen(t)
  /\ display = "off" => t.x = 0 /\ t.y = 0 /\ t.cells = Blank /\ text = <<>>

(* Each terminal is on the screen and shows its history.  The frame buffer is *)
(* not saved by tty_switch, so that nothing is said of the terminal parked    *)
(* there; and VT220 never leaves the parser's first state.                    *)
TerminalInv ==
  /\ display \in {"off", "vt100", "gui", "vt220", "ansi"} /\ chars \in 0 .. MaxChars
  /\ Kept(term, typed) /\ Kept(parked.term, parked.typed)
  /\ display \in {"off", "vt220"} => term.state = "NORMAL"
  /\ display # "off" => Told(term, typed)
  /\ Text => Told(parked.term, parked.typed)

(* A terminal as it is switched to first. *)
LEMMA FreshTyped ==
  Fresh \in TermRec /\ Fresh.x = 0 /\ Fresh.y = 0 /\ Fresh.cells = Blank /\ Fresh.state = "NORMAL"
<1>1. Blank \in Grid
  BY BlankTyped
<1>2. Default \in Hues
  BY DEF Default, Hues
<1>3. <<>> \in ParamTexts
  <2>1. <<>> \in Seq(ParamChars) /\ Len(<<>>) <= ParamLength
    BY DEF ParamLength
  <2>2. QED BY <2>1 DEF ParamTexts
<1>4. "NORMAL" \in ParserStates
  BY DEF ParserStates
<1>5. Fresh \in TermRec
  BY <1>1, <1>2, <1>3, <1>4 DEF Fresh, TermRec
<1>6. QED BY <1>5 DEF Fresh

(* At the start both terminals are empty. *)
LEMMA TerminalStart == TerminalInit => TerminalInv
<1>1. SUFFICES ASSUME TerminalInit PROVE TerminalInv
  OBVIOUS
<1>2. parked.term = Fresh /\ parked.typed = <<>> /\ term = Fresh /\ typed = <<>> /\ chars = 0 /\ display = "off"
  BY <1>1 DEF TerminalInit
<1>3. 0 \in 0 .. MaxChars
  BY TerminalAssumption
<1>4. Kept(Fresh, <<>>)
  BY <1>2, FreshTyped DEF Kept
<1>5. QED BY <1>2, <1>3, <1>4, FreshTyped DEF TerminalInv, Text

(* What is typed are signs. *)
LEMMA InputsAre == Inputs \subseteq Signs
BY DEF Inputs, Signs

(* The display is chosen at boot. *)
LEMMA ChooseKeeps ==
  ASSUME TerminalInv, NEW d \in {"vt100", "gui", "vt220", "ansi"}, ChooseDisplay(d)
  PROVE  TerminalInv'
<1>1. display = "off" /\ display' = d /\ term' = term /\ typed' = typed /\ parked' = parked /\ chars' = chars
  BY DEF ChooseDisplay
<1>2. PICK t \in TermRec : t = term /\ t.x = 0 /\ t.y = 0 /\ t.cells = Blank /\ t.state = "NORMAL"
  BY <1>1 DEF TerminalInv, Kept
<1>3. PICK p \in TermRec : p = parked.term /\ p.x = 0 /\ p.y = 0 /\ p.cells = Blank
  BY <1>1 DEF TerminalInv, Kept
<1>4. typed = <<>> /\ parked.typed = <<>> /\ chars \in 0 .. MaxChars
  BY <1>1 DEF TerminalInv, Kept
<1>5. PICK cols \in Nat \ {0} : cols = Cols' /\ cols <= GuiCols
  BY TerminalAssumption DEF Cols
<1>6. PICK rows \in Nat \ {0} : rows = Rows' /\ rows <= GuiRows
  BY TerminalAssumption DEF Rows
<1>7. \A v \in TermRec : v.x = 0 /\ v.y = 0 /\ v.cells = Blank =>
        Shows(v, LinesOf(<<>>, cols), cols, rows) /\ v.x < cols /\ v.y < rows
  <2>1. \A v \in TermRec : v.x = 0 /\ v.y = 0 /\ v.cells = Blank =>
          Shows(v, LinesOf(<<>>, cols), cols, rows)
    BY <1>5, <1>6, BlankShows
  <2>2. 0 < cols /\ 0 < rows
    OBVIOUS
  <2>3. QED BY <2>1, <2>2
<1>8. Kept(term, typed)' /\ Kept(parked.term, parked.typed)'
  BY <1>1, <1>2, <1>3, <1>4, <1>5, <1>6, <1>7 DEF Kept, OnScreen
<1>9. Told(term, typed)' /\ Told(parked.term, parked.typed)'
  <2>1. <<>> \in Seq(Signs)
    OBVIOUS
  <2>2. QED BY <1>1, <1>2, <1>3, <1>4, <1>5, <1>6, <1>7, <2>1 DEF Told
<1>10. QED BY <1>1, <1>2, <1>4, <1>8, <1>9 DEF TerminalInv

(* A character is put on the terminal that is shown. *)
LEMMA PutcKeeps ==
  ASSUME TerminalInv, NEW c \in Inputs, Putc(c)
  PROVE  TerminalInv'
<1>1. /\ display # "off" /\ chars < MaxChars /\ chars' = chars + 1 /\ display' = display
      /\ parked' = parked /\ typed' = TypedAfter(term, c)
  BY DEF Putc
<1>2. display \in {"vt100", "gui", "vt220", "ansi"} /\ chars' \in 0 .. MaxChars
  BY <1>1, TerminalAssumption DEF TerminalInv
<1>3. c \in Signs
  BY InputsAre
<1>4. PICK t \in TermRec : t = term
  BY DEF TerminalInv, Kept
<1>5. Cols' = Cols /\ Rows' = Rows /\ Text' = Text
  BY <1>1 DEF Cols, Rows, Text
<1>6. PICK u \in TermRec : /\ term' = u /\ Effect(u, t, c, typed, TypedAfter(t, c))
                           /\ display \in {"vt100", "gui", "vt220"} => OnScreen(u)
                           /\ display = "vt220" => u.state = "NORMAL"
  <2>1. CASE display \in {"vt100", "gui"}
    <3>1. term' = Vt100Putc(t, c)
      BY <1>4, <2>1 DEF Putc
    <3>2. OnScreen(t)
      BY <1>4, <2>1 DEF TerminalInv, Kept
    <3>3. Vt100Putc(t, c) \in TermRec /\ OnScreen(Vt100Putc(t, c))
          /\ Effect(Vt100Putc(t, c), t, c, typed, TypedAfter(t, c))
      BY <1>3, <2>1, <3>2, Vt100Effect
    <3>4. QED BY <2>1, <3>1, <3>3
  <2>2. CASE display = "vt220"
    <3>1. term' \in Vt220Putc(t, c)
      BY <1>4, <2>2 DEF Putc
    <3>2. OnScreen(t) /\ t.state = "NORMAL"
      BY <1>4, <2>2 DEF TerminalInv, Kept
    <3>3. PICK u \in Vt220Putc(t, c) : u = term'
      BY <3>1
    <3>4. u \in TermRec /\ OnScreen(u) /\ u.state = "NORMAL" /\ Effect(u, t, c, typed, TypedAfter(t, c))
      BY <1>3, <2>2, <3>2, Vt220Effect
    <3>5. QED BY <3>3, <3>4
  <2>3. CASE display = "ansi"
    <3>1. term' = AnsiPutc(t, c)
      BY <1>4, <2>3 DEF Putc
    <3>2. AnsiPutc(t, c) \in TermRec /\ Effect(AnsiPutc(t, c), t, c, typed, TypedAfter(t, c))
      BY <1>3, <2>3, AnsiEffect
    <3>3. QED BY <2>3, <3>1, <3>2
  <2>4. QED BY <1>2, <2>1, <2>2, <2>3
<1>7. PICK text : text = typed
  OBVIOUS
<1>8. PICK after : after = typed' /\ after = TypedAfter(t, c)
  BY <1>1, <1>4
<1>9. Told(u, after)
  <2>1. Told(t, text) /\ Effect(u, t, c, text, after)
    BY <1>1, <1>4, <1>6, <1>7, <1>8 DEF TerminalInv
  <2>2. QED BY <1>3, <2>1, EffectTold
<1>10. Told(term, typed)'
  BY <1>5, <1>6, <1>8, <1>9 DEF Told
<1>11. Kept(term, typed)'
  BY <1>1, <1>5, <1>6 DEF Kept, OnScreen
<1>12. Kept(parked.term, parked.typed)' /\ (Text' => Told(parked.term, parked.typed)')
  BY <1>1, <1>5 DEF TerminalInv, Kept, Told, OnScreen
<1>13. QED BY <1>1, <1>2, <1>6, <1>10, <1>11, <1>12 DEF TerminalInv

(* The terminal shown and the one parked change places (tty_switch). *)
LEMMA SwitchKeeps ==
  ASSUME TerminalInv, SwitchTerminal
  PROVE  TerminalInv'
<1>1. /\ display # "off" /\ chars < MaxChars /\ chars' = chars + 1 /\ display' = display
      /\ parked' = [term |-> term, typed |-> typed]
      /\ typed' = IF Text /\ ~OwnCursor THEN parked.typed ELSE Moved
  BY DEF SwitchTerminal
<1>2. display \in {"vt100", "gui", "vt220", "ansi"} /\ chars' \in 0 .. MaxChars
  BY <1>1, TerminalAssumption DEF TerminalInv
<1>3. PICK t \in TermRec : t = term
  BY DEF TerminalInv, Kept
<1>4. PICK p \in TermRec : p = parked.term
  BY DEF TerminalInv, Kept
<1>5. PICK cells \in Grid : cells = IF Text THEN p.cells ELSE t.cells
  BY TermFields
<1>6. PICK x \in Nat, y \in Nat : /\ x = IF OwnCursor THEN t.x ELSE p.x
                                  /\ y = IF OwnCursor THEN t.y ELSE p.y
  BY TermFields
<1>7. PICK u \in TermRec : term' = u /\ u.x = x /\ u.y = y /\ u.cells = cells /\ u.state = t.state
  <2>1. term' = [t EXCEPT !.x = x, !.y = y, !.cells = cells]
    BY <1>3, <1>4, <1>5, <1>6 DEF SwitchTerminal, TermRec
  <2>2. [t EXCEPT !.x = x, !.y = y, !.cells = cells] = [[t EXCEPT !.cells = cells] EXCEPT !.x = x, !.y = y]
    BY DEF TermRec
  <2>3. [[t EXCEPT !.cells = cells] EXCEPT !.x = x, !.y = y] = With(t, cells, x, y)
    <3>1. \A a, b, g : [[t EXCEPT !.cells = g] EXCEPT !.x = a, !.y = b] = With(t, g, a, b)
      BY RepaintsXY, Zenon
    <3>2. QED BY <3>1, Zenon
  <2>4. QED BY <2>1, <2>2, <2>3, WithTyped
<1>8. Cols' = Cols /\ Rows' = Rows /\ Text' = Text
  BY <1>1 DEF Cols, Rows, Text
<1>9. parked'.term = t /\ parked'.typed = typed
  BY <1>1, <1>3
<1>10. Kept(parked.term, parked.typed)'
  BY <1>1, <1>3, <1>8, <1>9 DEF TerminalInv, Kept, OnScreen
<1>11. Kept(term, typed)'
  BY <1>1, <1>2, <1>3, <1>4, <1>6, <1>7, <1>8 DEF TerminalInv, Kept, OnScreen
<1>12. Text' => Told(parked.term, parked.typed)'
  BY <1>1, <1>3, <1>8, <1>9 DEF TerminalInv, Told
<1>13. Told(term, typed)'
  <2>1. CASE Text /\ ~OwnCursor
    <3>1. typed' = parked.typed /\ u.x = p.x /\ u.y = p.y /\ u.cells = p.cells
      BY <1>1, <1>5, <1>6, <1>7, <2>1
    <3>2. Told(p, parked.typed)
      BY <1>4, <2>1 DEF TerminalInv
    <3>3. QED BY <1>7, <1>8, <3>1, <3>2 DEF Told, Shows
  <2>2. CASE ~(Text /\ ~OwnCursor)
    BY <1>1, <2>2 DEF Told
  <2>3. QED BY <2>1, <2>2
<1>14. QED BY <1>1, <1>2, <1>3, <1>7, <1>10, <1>11, <1>12, <1>13 DEF TerminalInv

(* Every step keeps the invariant. *)
LEMMA TerminalStep == TerminalInv /\ [TerminalNext]_terminalVars => TerminalInv'
<1>1. SUFFICES ASSUME TerminalInv, [TerminalNext]_terminalVars PROVE TerminalInv'
  OBVIOUS
<1>2. ASSUME NEW d \in {"vt100", "gui", "vt220", "ansi"}, ChooseDisplay(d) PROVE TerminalInv'
  BY <1>1, <1>2, ChooseKeeps
<1>3. ASSUME NEW c \in Inputs, Putc(c) PROVE TerminalInv'
  BY <1>1, <1>3, PutcKeeps
<1>4. CASE SwitchTerminal
  BY <1>1, <1>4, SwitchKeeps
<1>5. CASE UNCHANGED terminalVars
  BY <1>1, <1>5 DEF terminalVars, TerminalInv, Kept, Told, OnScreen, Shows, Displays, Text, Cols, Rows
<1>6. QED BY <1>1, <1>2, <1>3, <1>4, <1>5 DEF TerminalNext

(* The invariant is the type and the property that the run checks. *)
LEMMA TerminalHolds == TerminalInv => TerminalTypeOK /\ ScreenShowsText
<1>1. SUFFICES ASSUME TerminalInv PROVE TerminalTypeOK /\ ScreenShowsText
  OBVIOUS
<1>2. PICK t \in TermRec : t = term
  BY <1>1 DEF TerminalInv, Kept
<1>3. TerminalTypeOK
  <2>1. t.color.hue \in 0 .. 7 /\ t.color.bright \in BOOLEAN
    BY TermFields DEF Hues
  <2>2. Len(t.params) <= ParamLength
    BY TermFields DEF ParamTexts
  <2>3. t.state \in {"NORMAL", "ESC", "CSI"}
    BY TermFields DEF ParserStates
  <2>4. QED BY <1>1, <1>2, <2>1, <2>2, <2>3, TermFields DEF TerminalTypeOK, TerminalInv
<1>4. ScreenShowsText
  <2>1. display \in {"vt100", "gui", "vt220"} => term.x < Cols /\ term.y < Rows
    BY <1>1 DEF TerminalInv, Kept, OnScreen
  <2>2. ASSUME display # "off", typed # Moved PROVE Shows(term, LinesOf(typed, Cols), Cols, Rows)
    BY <1>1, <2>2 DEF TerminalInv, Told
  <2>3. QED BY <2>1, <2>2 DEF ScreenShowsText, Shows, Displays, FirstShown
<1>5. QED BY <1>3, <1>4

THEOREM TerminalInvariant == TerminalSpec => []TerminalInv
<1>1. TerminalInit => TerminalInv
  BY TerminalStart
<1>2. TerminalInv /\ [TerminalNext]_terminalVars => TerminalInv'
  BY TerminalStep
<1>3. QED BY <1>1, <1>2, PTL DEF TerminalSpec

-----------------------------------------------------------------------------
(* The frame buffer *)

(* A point of the screen has an index in the array, and the index that point. *)
LEMMA PixelOf ==
  ASSUME NEW w \in Nat \ {0}, NEW h \in Nat \ {0}, NEW x \in 0 .. (w - 1), NEW y \in 0 .. (h - 1)
  PROVE  y * w + x \in 0 .. (w * h - 1) /\ (y * w + x) % w = x /\ (y * w + x) \div w = y
<1>1. y * w \in Nat /\ (h - 1 - y) * w \in Nat /\ w * h \in Nat
  OBVIOUS
<1>2. w * h = y * w + (h - 1 - y) * w + w
  OBVIOUS
<1>3. y * w + x \in 0 .. (w * h - 1)
  BY <1>1, <1>2
<1>4. (y * w + x) % w = x
  OBVIOUS
<1>5. (y * w + x) \div w = y
  OBVIOUS
<1>6. QED BY <1>3, <1>4, <1>5

(* An index in the array is that of a point. *)
LEMMA PointOf ==
  ASSUME NEW w \in Nat \ {0}, NEW h \in Nat \ {0}, NEW i \in 0 .. (w * h - 1)
  PROVE  i % w \in 0 .. (w - 1) /\ i \div w \in 0 .. (h - 1) /\ i = (i \div w) * w + (i % w)
<1>1. i \in Nat /\ w * h \in Nat
  OBVIOUS
<1>2. i % w \in 0 .. (w - 1) /\ i \div w \in Nat /\ i = (i \div w) * w + (i % w)
  BY <1>1
<1>3. i \div w < h
  <2>1. PICK q \in Nat, r \in 0 .. (w - 1) : q = i \div w /\ i = q * w + r /\ i < w * h
    BY <1>1, <1>2
  <2>2. SUFFICES ASSUME q >= h PROVE FALSE
    BY <2>1
  <2>3. (q - h) * w \in Nat
    BY <2>2
  <2>4. q * w = h * w + (q - h) * w
    OBVIOUS
  <2>5. QED BY <2>1, <2>3, <2>4
<1>4. QED BY <1>2, <1>3

(* Rounding up to pages adds less than a page. *)
LEMMA RoundsUp ==
  ASSUME NEW n \in Nat
  PROVE  RoundUp(n) \in Nat /\ RoundUp(n) >= n /\ RoundUp(n) - n < PageBytes
<1>1. PICK b \in Nat \ {0} : b = PageBytes
  BY FramebufferAssumption
<1>2. PICK a \in Nat : a = n + b - 1
  OBVIOUS
<1>3. PICK q \in Nat, r \in 0 .. (b - 1) : q = a \div b /\ a = q * b + r
  <2>1. a \div b \in Nat /\ a % b \in 0 .. (b - 1) /\ a = (a \div b) * b + (a % b)
    OBVIOUS
  <2>2. QED BY <2>1
<1>4. PICK m \in Nat : m = q * b
  OBVIOUS
<1>5. RoundUp(n) = m
  BY <1>1, <1>2, <1>3, <1>4 DEF RoundUp
<1>6. QED BY <1>1, <1>2, <1>3, <1>4, <1>5

(* How many points there are. *)
LEMMA PointsCount ==
  ASSUME NEW w \in Nat \ {0}, NEW h \in Nat \ {0}
  PROVE  Cardinality((0 .. (w - 1)) \X (0 .. (h - 1))) = w * h
<1>1. IsFiniteSet(0 .. (w - 1)) /\ Cardinality(0 .. (w - 1)) = w
  BY FS_Interval
<1>2. IsFiniteSet(0 .. (h - 1)) /\ Cardinality(0 .. (h - 1)) = h
  BY FS_Interval
<1>3. QED BY <1>1, <1>2, FS_Product

\* The screen of w columns and h rows that fb_init was told of
Screen(w, h) == (0 .. (w - 1)) \X (0 .. (h - 1))
Pictured(pix, pic, w, h) ==
  /\ DOMAIN pic = Screen(w, h) /\ DOMAIN pix = 0 .. (w * h - 1)
  /\ \A x \in 0 .. (w - 1), y \in 0 .. (h - 1) : pix[y * w + x] = pic[<<x, y>>]

Ready(w, h) ==
  global_fb.width = w /\ global_fb.height = h /\ global_fb.pitch = w * 4 /\ Pictured(pixels, picture, w, h)

MapsAll ==
  fbReply.call = "mmap" =>
    LET wanted == IF fbReply.length = 0 THEN Cardinality(Points) * 4 ELSE fbReply.length
    IN fbReply.mapped >= wanted /\ fbReply.mapped - wanted < PageBytes

FbWhole ==
  /\ \/ global_fb.width = 0 /\ pixels = <<>> /\ picture = <<>>
     \/ \E w, h \in Nat \ {0} : Ready(w, h)
  /\ MapsAll

(* Before fb_init there is no screen. *)
LEMMA FbStart == FbInit => FbWhole
BY DEF FbInit, FbWhole, MapsAll, NoReply

(* fb_init clears the array it was told of. *)
LEMMA RegisterKeeps ==
  ASSUME NEW s \in FbSizes, FbRegister(s[1], s[2]), fbReply = NoReply
  PROVE  FbWhole'
<1>1. PICK w \in Nat \ {0}, h \in Nat \ {0} : w = s[1] /\ h = s[2]
  BY FramebufferAssumption
<1>2. /\ global_fb' = [width |-> w, height |-> h, pitch |-> w * 4] /\ fbReply' = fbReply
      /\ pixels' = [i \in 0 .. (w * h - 1) |-> Background]
      /\ picture' = [p \in (0 .. (w - 1)) \X (0 .. (h - 1)) |-> Background]
  BY <1>1 DEF FbRegister
<1>3. \A x \in 0 .. (w - 1), y \in 0 .. (h - 1) : pixels'[y * w + x] = picture'[<<x, y>>]
  BY <1>2, PixelOf
<1>4. Ready(w, h)'
  BY <1>2, <1>3 DEF Ready, Pictured, Screen
<1>5. MapsAll'
  BY <1>2 DEF MapsAll, NoReply
<1>6. QED BY <1>4, <1>5 DEF FbWhole

\* A shape lies right of and below its place.
Drawable(shapes) == \A s \in shapes : s.x \in Nat /\ s.y \in Nat /\ s.shape \subseteq Nat \X Nat

(* A shape is cut at the right and the lower edge in both. *)
LEMMA DrawKeeps ==
  ASSUME FbWhole, fbReply = NoReply, NEW shapes, NEW color, Drawable(shapes), Draw(shapes, color)
  PROVE  FbWhole'
<1>1. PICK w \in Nat \ {0}, h \in Nat \ {0} : Ready(w, h)
  <2>1. global_fb.width > 0
    BY DEF Draw
  <2>2. QED BY <2>1 DEF FbWhole
<1>2. global_fb' = global_fb /\ fbReply' = fbReply /\ global_fb.width = w /\ global_fb.height = h
  BY <1>1 DEF Draw, Ready
<1>3. /\ DOMAIN picture = Screen(w, h) /\ DOMAIN pixels = 0 .. (w * h - 1)
      /\ \A x \in 0 .. (w - 1), y \in 0 .. (h - 1) : pixels[y * w + x] = picture[<<x, y>>]
  BY <1>1 DEF Ready, Pictured
<1>4. PICK hit : /\ hit = UNION { Visible(s.shape, s.x, s.y) : s \in shapes }
                 /\ pixels' = [i \in DOMAIN pixels \union hit |-> IF i \in hit THEN color ELSE pixels[i]]
  BY DEF Draw
<1>5. picture' = [p \in DOMAIN picture |->
                    IF \E s \in shapes : <<p[1] - s.x, p[2] - s.y>> \in s.shape THEN color ELSE picture[p]]
  BY DEF Draw
<1>6. ASSUME NEW s \in shapes, NEW i \in Visible(s.shape, s.x, s.y)
      PROVE  \E x \in 0 .. (w - 1), y \in 0 .. (h - 1) : i = y * w + x /\ <<x - s.x, y - s.y>> \in s.shape
  <2>1. PICK q \in s.shape : /\ s.x + q[1] < w /\ s.y + q[2] < h
                             /\ i = (s.y + q[2]) * w + (s.x + q[1])
    BY <1>2 DEF Visible, Index
  <2>2. PICK a \in Nat, b \in Nat : q = <<a, b>>
    BY DEF Drawable
  <2>3. s.x \in Nat /\ s.y \in Nat
    BY DEF Drawable
  <2>4. PICK x \in 0 .. (w - 1), y \in 0 .. (h - 1) : x = s.x + a /\ y = s.y + b
    BY <2>1, <2>2, <2>3
  <2>5. x - s.x = a /\ y - s.y = b
    BY <2>3, <2>4
  <2>6. QED BY <2>1, <2>2, <2>4, <2>5
<1>7. ASSUME NEW s \in shapes, NEW x \in 0 .. (w - 1), NEW y \in 0 .. (h - 1),
             <<x - s.x, y - s.y>> \in s.shape
      PROVE  y * w + x \in Visible(s.shape, s.x, s.y)
  <2>1. PICK q \in s.shape : q = <<x - s.x, y - s.y>>
    BY <1>7
  <2>2. s.x \in Nat /\ s.y \in Nat
    BY DEF Drawable
  <2>3. s.x + q[1] = x /\ s.y + q[2] = y
    BY <2>1, <2>2
  <2>4. x < w /\ y < h
    OBVIOUS
  <2>5. QED BY <1>2, <2>3, <2>4 DEF Visible, Index
<1>8. \A x \in 0 .. (w - 1), y \in 0 .. (h - 1) :
        y * w + x \in hit <=> \E s \in shapes : <<x - s.x, y - s.y>> \in s.shape
  <2>1. SUFFICES ASSUME NEW x \in 0 .. (w - 1), NEW y \in 0 .. (h - 1), y * w + x \in hit
                 PROVE  \E s \in shapes : <<x - s.x, y - s.y>> \in s.shape
    BY <1>4, <1>7
  <2>2. PICK s \in shapes : y * w + x \in Visible(s.shape, s.x, s.y)
    BY <1>4, <2>1
  <2>3. PICK a \in 0 .. (w - 1), b \in 0 .. (h - 1) : y * w + x = b * w + a /\ <<a - s.x, b - s.y>> \in s.shape
    BY <1>6, <2>2
  <2>4. a = x /\ b = y
    BY <2>3, PixelOf
  <2>5. QED BY <2>3, <2>4
<1>9. hit \subseteq 0 .. (w * h - 1)
  <2>1. SUFFICES ASSUME NEW s \in shapes, NEW i \in Visible(s.shape, s.x, s.y) PROVE i \in 0 .. (w * h - 1)
    BY <1>4
  <2>2. PICK x \in 0 .. (w - 1), y \in 0 .. (h - 1) : i = y * w + x
    BY <1>6
  <2>3. QED BY <2>2, PixelOf
<1>10. Pictured(pixels', picture', w, h)
  <2>1. DOMAIN picture' = Screen(w, h)
    BY <1>3, <1>5
  <2>2. DOMAIN pixels' = 0 .. (w * h - 1)
    BY <1>3, <1>4, <1>9
  <2>3. ASSUME NEW x \in 0 .. (w - 1), NEW y \in 0 .. (h - 1)
        PROVE  pixels'[y * w + x] = picture'[<<x, y>>]
    <3>1. y * w + x \in 0 .. (w * h - 1) /\ <<x, y>> \in Screen(w, h)
      BY PixelOf DEF Screen
    <3>2. pixels'[y * w + x] = IF y * w + x \in hit THEN color ELSE pixels[y * w + x]
      BY <1>3, <1>4, <3>1
    <3>3. picture'[<<x, y>>] = IF \E s \in shapes : <<x - s.x, y - s.y>> \in s.shape THEN color ELSE picture[<<x, y>>]
      BY <1>3, <1>5, <3>1
    <3>4. QED BY <1>3, <1>8, <3>2, <3>3
  <2>4. QED BY <2>1, <2>2, <2>3 DEF Pictured
<1>11. Ready(w, h)'
  BY <1>1, <1>2, <1>10 DEF Ready
<1>12. MapsAll'
  BY <1>2 DEF MapsAll, NoReply
<1>13. QED BY <1>11, <1>12 DEF FbWhole

(* Copying the rows below moves every column up by n. *)
LEMMA ScrollKeeps ==
  ASSUME FbWhole, fbReply = NoReply, NEW n \in Nat, NEW bg, FbScrollUp(n, bg)
  PROVE  FbWhole' \/ fbReply' = Overrun
<1> SUFFICES ASSUME n <= global_fb.height PROVE FbWhole'
  <2>1. global_fb.height \in Nat
    <3>1. global_fb.width > 0
      BY DEF FbScrollUp
    <3>2. PICK w \in Nat \ {0}, h \in Nat \ {0} : Ready(w, h)
      BY <3>1 DEF FbWhole
    <3>3. QED BY <3>2 DEF Ready
  <2>2. QED BY <2>1 DEF FbScrollUp
<1>1. PICK w \in Nat \ {0}, h \in Nat \ {0} : Ready(w, h)
  <2>1. global_fb.width > 0
    BY DEF FbScrollUp
  <2>2. QED BY <2>1 DEF FbWhole
<1>2. global_fb' = global_fb /\ fbReply' = fbReply /\ global_fb.width = w /\ global_fb.height = h /\ n <= h
  <2>1. global_fb.height = h /\ global_fb.width = w
    BY <1>1 DEF Ready
  <2>2. QED BY <2>1 DEF FbScrollUp
<1>3. /\ DOMAIN picture = Screen(w, h) /\ DOMAIN pixels = 0 .. (w * h - 1)
      /\ \A x \in 0 .. (w - 1), y \in 0 .. (h - 1) : pixels[y * w + x] = picture[<<x, y>>]
  BY <1>1 DEF Ready, Pictured
<1>4. pixels' = [i \in DOMAIN pixels |-> IF i < w * (h - n) THEN pixels[i + w * n] ELSE bg]
  BY <1>2 DEF FbScrollUp
<1>5. picture' = [p \in DOMAIN picture |-> IF p[2] + n < h THEN picture[<<p[1], p[2] + n>>] ELSE bg]
  BY <1>2 DEF FbScrollUp
<1>6. ASSUME NEW x \in 0 .. (w - 1), NEW y \in 0 .. (h - 1)
      PROVE  pixels'[y * w + x] = picture'[<<x, y>>]
  <2>1. y * w + x \in 0 .. (w * h - 1) /\ <<x, y>> \in Screen(w, h)
    BY PixelOf DEF Screen
  <2>2. pixels'[y * w + x] = IF y * w + x < w * (h - n) THEN pixels[y * w + x + w * n] ELSE bg
    BY <1>3, <1>4, <2>1
  <2>3. picture'[<<x, y>>] = IF y + n < h THEN picture[<<x, y + n>>] ELSE bg
    BY <1>3, <1>5, <2>1
  <2>4. CASE y + n < h
    <3>1. h - n \in Nat \ {0} /\ y \in 0 .. (h - n - 1) /\ y + n \in 0 .. (h - 1)
      BY <1>2, <2>4
    <3>2. y * w + x < w * (h - n)
      <4>1. y * w + x \in 0 .. (w * (h - n) - 1)
        BY <3>1, PixelOf
      <4>2. w * (h - n) \in Nat
        BY <3>1
      <4>3. QED BY <4>1, <4>2
    <3>3. (y + n) * w + x = y * w + x + w * n
      OBVIOUS
    <3>4. QED BY <1>3, <2>2, <2>3, <2>4, <3>1, <3>2, <3>3
  <2>5. CASE ~ (y + n < h)
    <3>1. PICK d \in Nat : d = y - (h - n)
      BY <1>2, <2>5
    <3>2. y * w = (h - n) * w + d * w /\ d * w \in Nat /\ (h - n) * w \in Int
      <4>1. y = (h - n) + d
        BY <1>2, <3>1
      <4>2. QED BY <4>1, <1>2
    <3>3. ~ (y * w + x < w * (h - n))
      BY <3>2, <1>2
    <3>4. QED BY <2>2, <2>3, <2>5, <3>3
  <2>6. QED BY <2>4, <2>5
<1>7. Pictured(pixels', picture', w, h)
  <2>1. DOMAIN pixels' = 0 .. (w * h - 1) /\ DOMAIN picture' = Screen(w, h)
    BY <1>3, <1>4, <1>5
  <2>2. QED BY <1>6, <2>1 DEF Pictured
<1>8. Ready(w, h)'
  BY <1>1, <1>2, <1>7 DEF Ready
<1>9. MapsAll'
  BY <1>2 DEF MapsAll, NoReply
<1>10. QED BY <1>8, <1>9 DEF FbWhole

(* The bars are by column, in the array and in the picture. *)
LEMMA PatternKeeps ==
  ASSUME FbWhole, fbReply = NoReply, FbTestPattern
  PROVE  FbWhole'
<1>1. PICK w \in Nat \ {0}, h \in Nat \ {0} : Ready(w, h)
  <2>1. global_fb.width >= Bars
    BY DEF FbTestPattern
  <2>2. QED BY <2>1 DEF FbWhole, Bars
<1>2. global_fb' = global_fb /\ fbReply' = fbReply /\ global_fb.width = w /\ global_fb.height = h
  BY <1>1 DEF FbTestPattern, Ready
<1>3. DOMAIN picture = Screen(w, h) /\ DOMAIN pixels = 0 .. (w * h - 1)
  BY <1>1 DEF Ready, Pictured
<1>4. PICK bar : /\ pixels' = [i \in DOMAIN pixels |-> bar[i % w]]
                 /\ picture' = [p \in DOMAIN picture |-> bar[p[1]]]
  <2>1. PICK bar : bar = [x \in 0 .. (w - 1) |->
                            10 + LET b == x \div (w \div Bars) IN IF b >= Bars THEN Bars - 1 ELSE b]
    OBVIOUS
  <2>2. \A i \in DOMAIN pixels : i % w \in 0 .. (w - 1)
    BY <1>3, PointOf
  <2>3. \A p \in DOMAIN picture : p[1] \in 0 .. (w - 1)
    BY <1>3 DEF Screen
  <2>4. pixels' = [i \in DOMAIN pixels |->
                     10 + LET b == (i % w) \div (w \div Bars) IN IF b >= Bars THEN Bars - 1 ELSE b]
    BY <1>2 DEF FbTestPattern
  <2>5. picture' = [p \in DOMAIN picture |->
                      10 + LET b == p[1] \div (w \div Bars) IN IF b >= Bars THEN Bars - 1 ELSE b]
    BY <1>2 DEF FbTestPattern
  <2>6. QED BY <2>1, <2>2, <2>3, <2>4, <2>5
<1>5. ASSUME NEW x \in 0 .. (w - 1), NEW y \in 0 .. (h - 1)
      PROVE  pixels'[y * w + x] = picture'[<<x, y>>]
  <2>1. y * w + x \in 0 .. (w * h - 1) /\ (y * w + x) % w = x /\ <<x, y>> \in Screen(w, h)
    BY PixelOf DEF Screen
  <2>2. QED BY <1>3, <1>4, <2>1
<1>6. Pictured(pixels', picture', w, h)
  <2>1. DOMAIN pixels' = 0 .. (w * h - 1) /\ DOMAIN picture' = Screen(w, h)
    BY <1>3, <1>4
  <2>2. QED BY <1>5, <2>1 DEF Pictured
<1>7. Ready(w, h)'
  BY <1>1, <1>2, <1>6 DEF Ready
<1>8. MapsAll'
  BY <1>2 DEF MapsAll, NoReply
<1>9. QED BY <1>7, <1>8 DEF FbWhole

(* What a program asks of the device changes no pixel. *)
LEMMA UserKeeps ==
  ASSUME FbWhole, NEW length \in Nat, FbUser(length)
  PROVE  FbWhole'
<1>1. PICK w \in Nat \ {0}, h \in Nat \ {0} : Ready(w, h)
  <2>1. global_fb.width > 0
    BY DEF FbUser
  <2>2. QED BY <2>1 DEF FbWhole
<1>2. /\ UNCHANGED <<global_fb, pixels, picture>>
      /\ global_fb.width = w /\ global_fb.height = h /\ global_fb.pitch = w * 4
  BY <1>1 DEF FbUser, Ready
<1>3. Ready(w, h)'
  BY <1>1, <1>2 DEF Ready
<1>4. MapsAll'
  <2>1. SUFFICES ASSUME fbReply'.call = "mmap" PROVE MapsAll'
    BY DEF MapsAll
  <2>2. fbReply' = [call |-> "mmap", length |-> length,
                    mapped |-> RoundUp(IF length = 0 THEN h * (w * 4) ELSE length)]
    <3>1. PICK m : m = RoundUp(IF length = 0 THEN global_fb.height * global_fb.pitch ELSE length)
      OBVIOUS
    <3>2. PICK r : r = fbReply'
      OBVIOUS
    <3>3. r \in { [call |-> "FBIOGET_FSCREENINFO", smem_len |-> global_fb.height * global_fb.pitch,
                  line_length |-> global_fb.pitch],
                 [call |-> "FBIOGET_VSCREENINFO", xres |-> global_fb.width, yres |-> global_fb.height],
                 [call |-> "FBIOPUT_VSCREENINFO", result |-> 0],
                 [call |-> "other_ioctl", result |-> "ENOTTY"],
                 [call |-> "read_or_write", result |-> "EINVAL"],
                 [call |-> "mmap", length |-> length, mapped |-> m] }
      BY <3>1, <3>2, Zenon DEF FbUser
    <3>4. r.call = "mmap"
      BY <2>1, <3>2, Zenon
    <3>5. r = [call |-> "mmap", length |-> length, mapped |-> m]
      BY <3>3, <3>4
    <3>6. QED BY <1>2, <3>1, <3>2, <3>5, Zenon
  <2>3. Cardinality(Points)' = w * h
    BY <1>2, PointsCount DEF Points
  <2>4. PICK wanted \in Nat : wanted = IF length = 0 THEN h * (w * 4) ELSE length
    <3>1. h * (w * 4) \in Nat
      OBVIOUS
    <3>2. QED BY <3>1
  <2>5. (w * h) * 4 = h * (w * 4)
    OBVIOUS
  <2>6. RoundUp(wanted) >= wanted /\ RoundUp(wanted) - wanted < PageBytes
    BY RoundsUp
  <2>7. wanted = IF fbReply'.length = 0 THEN Cardinality(Points)' * 4 ELSE fbReply'.length
    BY <2>2, <2>3, <2>4, <2>5
  <2>8. fbReply'.mapped = RoundUp(wanted)
    BY <2>2, <2>4
  <2>9. QED BY <2>6, <2>7, <2>8 DEF MapsAll
<1>5. QED BY <1>3, <1>4 DEF FbWhole

\* Whole, or a scroll by more than the height has gone over all memory.
FbInv == fbReply = Overrun \/ FbWhole

(* Every step keeps the invariant. *)
LEMMA FbStep ==
  ASSUME FbInv, [FbNext]_fbVars
  PROVE  FbInv'
<1>1. CASE UNCHANGED fbVars
  BY <1>1 DEF fbVars, FbInv, FbWhole, Ready, MapsAll, Points
<1>2. CASE FbNext
  <2>1. fbReply = NoReply /\ FbWhole
    BY <1>2 DEF FbNext, FbInv, NoReply, Overrun
  <2>2. CASE \E s \in FbSizes : FbRegister(s[1], s[2])
    BY <2>1, <2>2, RegisterKeeps DEF FbInv
  <2>3. ASSUME NEW x \in 0..3, NEW y \in 0..3, NEW w \in {1, 2}, NEW h \in {1, 2}, NEW c \in Colors,
               FbDrawRect(x, y, w, h, c)
        PROVE  FbWhole'
    <3>1. PICK shapes : shapes = {[shape |-> (0..(w - 1)) \X (0..(h - 1)), x |-> x, y |-> y]}
      OBVIOUS
    <3>2. Draw(shapes, c)
      BY <2>3, <3>1 DEF FbDrawRect
    <3>3. Drawable(shapes)
      BY <3>1 DEF Drawable
    <3>4. QED BY <2>1, <3>2, <3>3, DrawKeeps
  <2>4. ASSUME NEW x \in {0, 1, 3}, NEW y \in {0, 1, 3}, NEW a \in DOMAIN Glyphs, NEW b \in DOMAIN Glyphs,
               FbPuts(x, y, <<a, b>>, 1)
        PROVE  FbWhole'
    <3>1. PICK shapes : shapes = { [shape |-> Glyphs[<<a, b>>[k]], x |-> x + (k - 1) * GlyphSize, y |-> y] :
                                     k \in DOMAIN <<a, b>> }
      OBVIOUS
    <3>2. Draw(shapes, 1)
      BY <2>4, <3>1 DEF FbPuts
    <3>3. Drawable(shapes)
      <4>1. SUFFICES ASSUME NEW k \in 1 .. 2
                     PROVE  /\ x + (k - 1) * GlyphSize \in Nat /\ y \in Nat
                            /\ Glyphs[<<a, b>>[k]] \subseteq Nat \X Nat
        BY <3>1 DEF Drawable
      <4>2. GlyphSize \in Nat
        BY FramebufferAssumption
      <4>3. (k - 1) * GlyphSize \in Nat
        BY <4>2
      <4>4. <<a, b>>[k] \in DOMAIN Glyphs
        OBVIOUS
      <4>5. Glyphs[<<a, b>>[k]] \subseteq (0..(GlyphSize - 1)) \X (0..(GlyphSize - 1))
        BY <4>4, FramebufferAssumption
      <4>6. 0..(GlyphSize - 1) \subseteq Nat
        BY <4>2
      <4>7. QED BY <4>3, <4>5, <4>6
    <3>4. QED BY <2>1, <3>2, <3>3, DrawKeeps
  <2>5. ASSUME NEW n \in 0..3, FbScrollUp(n, Background) PROVE FbInv'
    BY <2>1, <2>5, ScrollKeeps DEF FbInv
  <2>6. CASE FbTestPattern
    BY <2>1, <2>6, PatternKeeps DEF FbInv
  <2>7. ASSUME NEW l \in {0, 1, PageBytes}, FbUser(l) PROVE FbWhole'
    <3>1. l \in Nat
      BY FramebufferAssumption
    <3>2. QED BY <2>1, <2>7, <3>1, UserKeeps
  <2>8. FbWhole' => FbInv'
    BY DEF FbInv
  <2>9. FbInv' \/ FbWhole'
    BY <1>2, <2>2, <2>3, <2>4, <2>5, <2>6, <2>7 DEF FbNext
  <2>10. QED BY <2>8, <2>9
<1>3. QED BY <1>1, <1>2

(* The invariant is the property that the run checks. *)
LEMMA FbHolds == FbInv => PixelsArePicture
<1> SUFFICES ASSUME FbWhole PROVE PixelsArePicture
  BY DEF FbInv, PixelsArePicture, Overrun
<1>1. SUFFICES ASSUME FbWhole
               PROVE  /\ DOMAIN pixels = { Index(p[1], p[2]) : p \in DOMAIN picture }
                      /\ \A p \in DOMAIN picture : pixels[Index(p[1], p[2])] = picture[p]
  BY DEF FbWhole, MapsAll, PixelsArePicture
<1>2. CASE pixels = <<>> /\ picture = <<>>
  <2>1. DOMAIN picture = {} /\ DOMAIN pixels = {}
    BY <1>2
  <2>2. QED BY <2>1
<1>3. ASSUME NEW w \in Nat \ {0}, NEW h \in Nat \ {0}, Ready(w, h)
      PROVE  /\ DOMAIN pixels = { Index(p[1], p[2]) : p \in DOMAIN picture }
             /\ \A p \in DOMAIN picture : pixels[Index(p[1], p[2])] = picture[p]
  <2>1. /\ DOMAIN picture = Screen(w, h) /\ DOMAIN pixels = 0 .. (w * h - 1)
        /\ \A x \in 0 .. (w - 1), y \in 0 .. (h - 1) : pixels[y * w + x] = picture[<<x, y>>]
    BY <1>3 DEF Ready, Pictured
  <2>2. \A x \in 0 .. (w - 1), y \in 0 .. (h - 1) : Index(x, y) = y * w + x
    BY <1>3 DEF Ready, Index
  <2>3. ASSUME NEW p \in DOMAIN picture
        PROVE  /\ Index(p[1], p[2]) \in DOMAIN pixels
               /\ pixels[Index(p[1], p[2])] = picture[p]
    <3>1. PICK x \in 0 .. (w - 1), y \in 0 .. (h - 1) : p = <<x, y>>
      BY <2>1 DEF Screen
    <3>2. Index(p[1], p[2]) = y * w + x /\ picture[p] = picture[<<x, y>>]
      BY <2>2, <3>1
    <3>3. y * w + x \in 0 .. (w * h - 1)
      BY PixelOf
    <3>4. QED BY <2>1, <3>2, <3>3
  <2>4. ASSUME NEW i \in DOMAIN pixels
        PROVE  \E p \in DOMAIN picture : i = Index(p[1], p[2])
    <3>0. i \in 0 .. (w * h - 1)
      BY <2>1
    <3>1. PICK x \in 0 .. (w - 1), y \in 0 .. (h - 1) : i = y * w + x
      BY <3>0, PointOf
    <3>2. <<x, y>> \in DOMAIN picture
      BY <2>1 DEF Screen
    <3>3. QED BY <2>2, <3>1, <3>2
  <2>5. QED BY <2>3, <2>4
<1>4. QED BY <1>1, <1>2, <1>3 DEF FbWhole

THEOREM FramebufferInvariant == FbSpec => []PixelsArePicture
<1>1. FbInit => FbInv
  BY FbStart DEF FbInv
<1>2. FbInv /\ [FbNext]_fbVars => FbInv'
  BY FbStep
<1>3. FbInv => PixelsArePicture
  BY FbHolds
<1>4. QED BY <1>1, <1>2, <1>3, PTL DEF FbSpec

-----------------------------------------------------------------------------
(* Whatever is typed, fed and switched, the terminals show their text, and whatever
   is drawn, scrolled and mapped, the pixels are the picture: the terminal and frame
   buffer parts of MCDevices are steps of their own specifications, the other parts
   leave both alone (vt100_putc, vt220_putc, ansi_putc, tty_switch, fb_draw_rect,
   fb_puts, fb_scroll_up, fb_user_mmap). *)
THEOREM ScreensAreRight == Spec => []ScreensSound
<1>1. Init => TerminalInv /\ FbInv
  BY TerminalStart, FbStart DEF Init, FbInv
<1>2. [Next]_mcVars => [TerminalNext]_terminalVars /\ [FbNext]_fbVars
  BY DEF Next, mcVars, screenVars
<1>3. TerminalInv /\ FbInv /\ [Next]_mcVars => TerminalInv' /\ FbInv'
  BY <1>2, TerminalStep, FbStep
<1>4. TerminalInv /\ FbInv => ScreensSound
  BY TerminalHolds, FbHolds DEF ScreensSound
<1>5. QED BY <1>1, <1>3, <1>4, PTL DEF Spec

-----------------------------------------------------------------------------
(* The network *)

Byte == 0 .. UINT8_MAX
Halfword == 0 .. UINT16_MAX

LEMMA ByteIs == /\ \A x : x \in Byte <=> x \in Nat /\ x < 256
                /\ \A x : x \in Halfword <=> x \in Nat /\ x < 65536
<1>1. PICK m \in Nat, n \in Nat : m = UINT8_MAX /\ n = UINT16_MAX /\ m + 1 = 256 /\ n + 1 = 65536
  BY DEF UINT8_MAX, UINT16_MAX
<1>2. m + 1 = 256 /\ n + 1 = 65536 /\ Byte = 0 .. m /\ Halfword = 0 .. n
  BY <1>1 DEF Byte, Halfword
<1>3. QED BY <1>2

(* Equal modulo 65535, in which both checksums count. *)
Same(a, b) == \E k \in Int : a = b + UINT16_MAX * k

LEMMA SameIsSo ==
  ASSUME NEW a \in Int
  PROVE  Same(a, 0) => a % UINT16_MAX = 0
<1>1. SUFFICES ASSUME NEW k \in Int, a = UINT16_MAX * k PROVE a % UINT16_MAX = 0
  BY DEF Same, UINT16_MAX
<1>2. QED BY <1>1 DEF UINT16_MAX

LEMMA HtonsTurns ==
  ASSUME NEW v \in Halfword
  PROVE  /\ Htons(v) \in Halfword /\ Htons(Htons(v)) = v /\ Same(Htons(v), 256 * v)
<1>1. PICK h \in Nat, l \in Nat : h < 256 /\ l < 256 /\ h = v \div 256 /\ l = v % 256 /\ v = 256 * h + l
  <2>1. v \in Nat /\ v < 65536
    BY ByteIs
  <2>2. v \div 256 \in Nat /\ v % 256 \in Nat /\ v \div 256 < 256 /\ v % 256 < 256 /\ v = 256 * (v \div 256) + (v % 256)
    BY <2>1
  <2>3. QED BY <2>2
<1>2. Htons(v) = l * 256 + h
  BY <1>1, Zenon DEF Htons
<1>3. (l * 256 + h) % 256 = h /\ (l * 256 + h) \div 256 = l
  BY <1>1
<1>4. Htons(Htons(v)) = h * 256 + l
  <2>1. PICK u \in Nat : u = l * 256 + h
    BY <1>1
  <2>2. Htons(u) = h * 256 + l
    BY <1>3, <2>1 DEF Htons
  <2>3. QED BY <1>2, <2>1, <2>2
<1>5. Same(l * 256 + h, 256 * v)
  <2>1. l * 256 + h = 256 * v + 65535 * (0 - h)
    BY <1>1
  <2>2. PICK k \in Int : k = 0 - h
    BY <1>1
  <2>3. l * 256 + h = 256 * v + UINT16_MAX * k
    BY <2>1, <2>2 DEF UINT16_MAX
  <2>4. QED BY <2>3, Zenon DEF Same
<1>6. l * 256 + h \in Halfword /\ h * 256 + l = v
  BY <1>1, ByteIs
<1>7. QED BY <1>2, <1>4, <1>5, <1>6, Zenon

\* The words of a text of bytes
Pairs == Seq(Byte \X Byte)

LEMMA WordsArePairs ==
  ASSUME NEW bytes \in Seq(Byte) PROVE Words(bytes) \in Pairs
<1>1. PICK n \in Nat : n = (Len(bytes) + 1) \div 2 /\ 2 * n <= Len(bytes) + 1
  OBVIOUS
<1>2. ASSUME NEW i \in 1 .. n
      PROVE  <<bytes[2 * i - 1], IF 2 * i <= Len(bytes) THEN bytes[2 * i] ELSE 0>> \in Byte \X Byte
  <2>1. 2 * i - 1 \in 1 .. Len(bytes) /\ (2 * i <= Len(bytes) => 2 * i \in 1 .. Len(bytes))
    BY <1>1
  <2>2. 0 \in Byte
    BY ByteIs
  <2>3. QED BY <2>1, <2>2
<1>3. Words(bytes) = [i \in 1 .. n |-> <<bytes[2 * i - 1], IF 2 * i <= Len(bytes) THEN bytes[2 * i] ELSE 0>>]
  BY <1>1 DEF Words
<1>4. QED BY <1>2, <1>3 DEF Pairs

LEMMA WordIs ==
  ASSUME NEW p \in Byte \X Byte
  PROVE  /\ Word(p[1], p[2]) \in Halfword /\ Word(p[2], p[1]) \in Halfword
         /\ Same(Word(p[2], p[1]), 256 * Word(p[1], p[2]))
<1>1. PICK h \in Nat, l \in Nat : p[1] = h /\ p[2] = l /\ h < 256 /\ l < 256
  BY ByteIs
<1>2. 256 * l + h = 256 * (256 * h + l) + 65535 * (0 - h) /\ 0 - h \in Int
  BY <1>1
<1>3. 256 * l + h \in Halfword /\ 256 * h + l \in Halfword
  BY <1>1, ByteIs
<1>4. QED BY <1>1, <1>2, <1>3 DEF Word, Same, UINT16_MAX

\* The values of the recursions over the words
Adding(a, ws) ==
  /\ a \in [0 .. Len(ws) -> Halfword] /\ a[0] = UINT16_MAX
  /\ \A i \in 1 .. Len(ws) : a[i] = AddWord(a[i - 1], Word(ws[i][1], ws[i][2]))
Summing(s, ws) ==
  /\ s \in [0 .. Len(ws) -> Nat] /\ s[0] = 0
  /\ \A i \in 1 .. Len(ws) : s[i] = s[i - 1] + Word(ws[i][2], ws[i][1])
Totalling(t, c, ws) ==
  /\ t \in [0 .. Len(ws) -> Nat] /\ t[0] = Htons(c)
  /\ \A i \in 1 .. Len(ws) : t[i] = t[i - 1] + Word(ws[i][1], ws[i][2])

(* net_checksum goes through these sums. *)
LEMMA AddingIs ==
  ASSUME NEW ws \in Pairs
  PROVE  \E a : Adding(a, ws) /\ NetSum(ws) = a[Len(ws)]
<1> DEFINE n == Len(ws)
           F == [p \in (Halfword) \X (1 .. n) |-> AddWord(p[1], Word(ws[p[2]][1], ws[p[2]][2]))]
           Is(h) == h = [i \in 0 .. n |-> IF i = 0 THEN UINT16_MAX ELSE AddWord(h[i - 1], Word(ws[i][1], ws[i][2]))]
           g == CHOOSE h : Is(h)
<1>1. n \in Nat
  BY DEF Pairs
<1>2. ASSUME NEW i \in 1 .. n, NEW a \in Halfword PROVE AddWord(a, Word(ws[i][1], ws[i][2])) \in Halfword
  <2>1. ws[i] \in Byte \X Byte
    BY <1>1 DEF Pairs
  <2>2. PICK w \in Nat : w = Word(ws[i][1], ws[i][2]) /\ w < 65536
    BY <2>1, WordIs, ByteIs
  <2>3. AddWord(a, w) \in Halfword
    BY <2>2, ByteIs DEF AddWord, UINT16_MAX
  <2>4. QED BY <2>2, <2>3
<1>3. F \in [(Halfword) \X (1 .. n) -> Halfword]
  BY <1>2
<1>4. UINT16_MAX \in Halfword
  BY ByteIs DEF UINT16_MAX
<1>5. PICK f \in [0 .. n -> Halfword] : Solves(f, n, UINT16_MAX, F)
  <2> HIDE DEF F, n
  <2>1. QED BY <1>1, <1>3, <1>4, RecursionExists
<1>6. \A i \in 1 .. n : f[i] = AddWord(f[i - 1], Word(ws[i][1], ws[i][2]))
  <2>1. SUFFICES ASSUME NEW i \in 1 .. n PROVE f[i] = AddWord(f[i - 1], Word(ws[i][1], ws[i][2]))
    OBVIOUS
  <2>2. <<f[i - 1], i>> \in (Halfword) \X (1 .. n)
    BY <1>1
  <2>3. f[i] = F[<<f[i - 1], i>>]
    <3> HIDE DEF F
    <3> QED BY <1>5 DEF Solves
  <2>4. QED BY <2>2, <2>3
<1>7. f[0] = UINT16_MAX
  BY <1>5 DEF Solves
<1>8. Is(f)
  <2> HIDE DEF n, F
  <2>1. \A i \in 0 .. n : f[i] = IF i = 0 THEN UINT16_MAX ELSE AddWord(f[i - 1], Word(ws[i][1], ws[i][2]))
    BY <1>1, <1>6, <1>7
  <2>2. QED BY <2>1
<1>9. Is(g)
  <2> HIDE DEF Is
  <2>1. QED BY <1>8
<1>10. DOMAIN g = 0 .. n /\ \A i \in 0 .. n : g[i] = IF i = 0 THEN UINT16_MAX ELSE AddWord(g[i - 1], Word(ws[i][1], ws[i][2]))
  <2> HIDE DEF g, n
  <2>1. QED BY <1>9
<1>11. \A i \in 0 .. n : g[i] = f[i]
  <2> DEFINE S == {i \in 0 .. n : g[i] = f[i]}
  <2> HIDE DEF g, n, F
  <2>1. 0 \in S
    BY <1>1, <1>7, <1>10
  <2>2. ASSUME NEW i \in 1 .. n, i - 1 \in S PROVE i \in S
    BY <1>1, <1>6, <1>10, <2>2
  <2> HIDE DEF S
  <2>3. \A i \in 0 .. n : i \in S
    BY <1>1, <2>1, <2>2, SetInduction
  <2>4. QED BY <2>3 DEF S
<1>12. NetSum(ws) = g[n]
  <2> HIDE DEF F, n
  <2>1. QED BY Zenon DEF g, Is, n, NetSum
<1>13. NetSum(ws) = f[n]
  <2> HIDE DEF g, n, F
  <2>1. n \in 0 .. n
    BY <1>1
  <2>2. QED BY <1>11, <1>12, <2>1
<1>14. QED
  <2> HIDE DEF g, F
  <2>1. QED BY <1>6, <1>7, <1>13 DEF Adding, n

(* calculate_checksum goes through these, before it folds. *)
LEMMA SummingIs ==
  ASSUME NEW ws \in Pairs
  PROVE  \E s : Summing(s, ws) /\ ProcessorSum(ws) = s[Len(ws)]
<1> DEFINE n == Len(ws)
           F == [p \in (Nat) \X (1 .. n) |-> p[1] + Word(ws[p[2]][2], ws[p[2]][1])]
           Is(h) == h = [i \in 0 .. n |-> IF i = 0 THEN 0 ELSE h[i - 1] + Word(ws[i][2], ws[i][1])]
           g == CHOOSE h : Is(h)
<1>1. n \in Nat
  BY DEF Pairs
<1>2. ASSUME NEW i \in 1 .. n, NEW a \in Nat PROVE a + Word(ws[i][2], ws[i][1]) \in Nat
  <2>1. ws[i] \in Byte \X Byte
    BY <1>1 DEF Pairs
  <2>2. QED BY <2>1, WordIs, ByteIs
<1>3. F \in [(Nat) \X (1 .. n) -> Nat]
  BY <1>2
<1>4. 0 \in Nat
  OBVIOUS
<1>5. PICK f \in [0 .. n -> Nat] : Solves(f, n, 0, F)
  <2> HIDE DEF F, n
  <2>1. QED BY <1>1, <1>3, <1>4, RecursionExists
<1>6. \A i \in 1 .. n : f[i] = f[i - 1] + Word(ws[i][2], ws[i][1])
  <2>1. SUFFICES ASSUME NEW i \in 1 .. n PROVE f[i] = f[i - 1] + Word(ws[i][2], ws[i][1])
    OBVIOUS
  <2>2. <<f[i - 1], i>> \in (Nat) \X (1 .. n)
    BY <1>1
  <2>3. f[i] = F[<<f[i - 1], i>>]
    <3> HIDE DEF F
    <3> QED BY <1>5 DEF Solves
  <2>4. QED BY <2>2, <2>3
<1>7. f[0] = 0
  BY <1>5 DEF Solves
<1>8. Is(f)
  <2> HIDE DEF n, F
  <2>1. \A i \in 0 .. n : f[i] = IF i = 0 THEN 0 ELSE f[i - 1] + Word(ws[i][2], ws[i][1])
    BY <1>1, <1>6, <1>7
  <2>2. QED BY <2>1
<1>9. Is(g)
  <2> HIDE DEF Is
  <2>1. QED BY <1>8
<1>10. DOMAIN g = 0 .. n /\ \A i \in 0 .. n : g[i] = IF i = 0 THEN 0 ELSE g[i - 1] + Word(ws[i][2], ws[i][1])
  <2> HIDE DEF g, n
  <2>1. QED BY <1>9
<1>11. \A i \in 0 .. n : g[i] = f[i]
  <2> DEFINE S == {i \in 0 .. n : g[i] = f[i]}
  <2> HIDE DEF g, n, F
  <2>1. 0 \in S
    BY <1>1, <1>7, <1>10
  <2>2. ASSUME NEW i \in 1 .. n, i - 1 \in S PROVE i \in S
    BY <1>1, <1>6, <1>10, <2>2
  <2> HIDE DEF S
  <2>3. \A i \in 0 .. n : i \in S
    BY <1>1, <2>1, <2>2, SetInduction
  <2>4. QED BY <2>3 DEF S
<1>12. ProcessorSum(ws) = g[n]
  <2> HIDE DEF F, n
  <2>1. QED BY Zenon DEF g, Is, n, ProcessorSum
<1>13. ProcessorSum(ws) = f[n]
  <2> HIDE DEF g, n, F
  <2>1. n \in 0 .. n
    BY <1>1
  <2>2. QED BY <1>11, <1>12, <2>1
<1>14. QED
  <2> HIDE DEF g, F
  <2>1. QED BY <1>6, <1>7, <1>13 DEF Summing, n

(* The receiver goes through these. *)
LEMMA TotallingIs ==
  ASSUME NEW c, NEW ws \in Pairs, Htons(c) \in Nat
  PROVE  \E t : Totalling(t, c, ws) /\ Total(c, ws) = t[Len(ws)]
<1> DEFINE n == Len(ws)
           F == [p \in (Nat) \X (1 .. n) |-> p[1] + Word(ws[p[2]][1], ws[p[2]][2])]
           Is(h) == h = [i \in 0 .. n |-> IF i = 0 THEN Htons(c) ELSE h[i - 1] + Word(ws[i][1], ws[i][2])]
           g == CHOOSE h : Is(h)
<1>1. n \in Nat
  BY DEF Pairs
<1>2. ASSUME NEW i \in 1 .. n, NEW a \in Nat PROVE a + Word(ws[i][1], ws[i][2]) \in Nat
  <2>1. ws[i] \in Byte \X Byte
    BY <1>1 DEF Pairs
  <2>2. QED BY <2>1, WordIs, ByteIs
<1>3. F \in [(Nat) \X (1 .. n) -> Nat]
  BY <1>2
<1>4. Htons(c) \in Nat
  OBVIOUS
<1>5. PICK f \in [0 .. n -> Nat] : Solves(f, n, Htons(c), F)
  <2> HIDE DEF F, n
  <2>1. QED BY <1>1, <1>3, <1>4, RecursionExists
<1>6. \A i \in 1 .. n : f[i] = f[i - 1] + Word(ws[i][1], ws[i][2])
  <2>1. SUFFICES ASSUME NEW i \in 1 .. n PROVE f[i] = f[i - 1] + Word(ws[i][1], ws[i][2])
    OBVIOUS
  <2>2. <<f[i - 1], i>> \in (Nat) \X (1 .. n)
    BY <1>1
  <2>3. f[i] = F[<<f[i - 1], i>>]
    <3> HIDE DEF F
    <3> QED BY <1>5 DEF Solves
  <2>4. QED BY <2>2, <2>3
<1>7. f[0] = Htons(c)
  BY <1>5 DEF Solves
<1>8. Is(f)
  <2> HIDE DEF n, F
  <2>1. \A i \in 0 .. n : f[i] = IF i = 0 THEN Htons(c) ELSE f[i - 1] + Word(ws[i][1], ws[i][2])
    BY <1>1, <1>6, <1>7
  <2>2. QED BY <2>1
<1>9. Is(g)
  <2> HIDE DEF Is
  <2>1. QED BY <1>8
<1>10. DOMAIN g = 0 .. n /\ \A i \in 0 .. n : g[i] = IF i = 0 THEN Htons(c) ELSE g[i - 1] + Word(ws[i][1], ws[i][2])
  <2> HIDE DEF g, n
  <2>1. QED BY <1>9
<1>11. \A i \in 0 .. n : g[i] = f[i]
  <2> DEFINE S == {i \in 0 .. n : g[i] = f[i]}
  <2> HIDE DEF g, n, F
  <2>1. 0 \in S
    BY <1>1, <1>7, <1>10
  <2>2. ASSUME NEW i \in 1 .. n, i - 1 \in S PROVE i \in S
    BY <1>1, <1>6, <1>10, <2>2
  <2> HIDE DEF S
  <2>3. \A i \in 0 .. n : i \in S
    BY <1>1, <2>1, <2>2, SetInduction
  <2>4. QED BY <2>3 DEF S
<1>12. Total(c, ws) = g[n]
  <2> HIDE DEF F, n
  <2>1. QED BY Zenon DEF g, Is, n, Total
<1>13. Total(c, ws) = f[n]
  <2> HIDE DEF g, n, F
  <2>1. n \in 0 .. n
    BY <1>1
  <2>2. QED BY <1>11, <1>12, <2>1
<1>14. QED
  <2> HIDE DEF g, F
  <2>1. QED BY <1>6, <1>7, <1>13 DEF Totalling, n

(* Folding adds the upper half of a sum to the lower one. *)
LEMMA HalvesAre ==
  ASSUME NEW n \in Nat, n > UINT16_MAX
  PROVE  Halves(n) \in Nat /\ Halves(n) < n /\ Same(Halves(n), n)
<1>1. PICK h \in Nat, l \in Nat : h = n \div 65536 /\ l = n % 65536 /\ n = 65536 * h + l
  <2>1. n \div 65536 \in Nat /\ n % 65536 \in Nat /\ n = 65536 * (n \div 65536) + (n % 65536)
    OBVIOUS
  <2>2. QED BY <2>1
<1>2. h # 0
  <2>1. n % 65536 < 65536
    OBVIOUS
  <2>2. QED BY <1>1, <2>1 DEF UINT16_MAX
<1>3. PICK k \in Int : k = 0 - h
  BY <1>1
<1>4. l + h = n + UINT16_MAX * k /\ l + h < n
  BY <1>1, <1>2, <1>3 DEF UINT16_MAX
<1>5. Halves(n) = l + h
  BY <1>1 DEF Halves
<1>6. l + h \in Nat
  OBVIOUS
<1>7. Same(l + h, n)
  BY <1>4, Zenon DEF Same
<1>8. QED BY <1>4, <1>5, <1>6, <1>7

LEMMA SameAgain ==
  ASSUME NEW a \in Int, NEW b \in Int, NEW c \in Int, Same(a, b), Same(b, c)
  PROVE  Same(a, c)
<1>1. PICK k \in Int : a = b + UINT16_MAX * k
  BY DEF Same
<1>2. PICK j \in Int : b = c + UINT16_MAX * j
  BY DEF Same
<1>3. PICK i \in Int : i = k + j
  OBVIOUS
<1>4. a = c + UINT16_MAX * i
  BY <1>1, <1>2, <1>3 DEF UINT16_MAX
<1>5. QED BY <1>4, Zenon DEF Same

LEMMA FoldingIs ==
  ASSUME NEW sum \in Nat
  PROVE  Folded(sum) \in Halfword /\ Same(Folded(sum), sum)
<1> DEFINE Is(h) == h = [n \in Nat |-> IF n > UINT16_MAX THEN h[Halves(n)] ELSE n]
           g == CHOOSE h : Is(h)
           d == [n \in Nat |-> IF n > UINT16_MAX THEN Halves(n) ELSE 0]
           B == [n \in Nat |-> n]
           G == [p \in Nat \X Nat |-> p[1]]
<1>1. PICK b \in Nat : b = UINT16_MAX + 1
  BY DEF UINT16_MAX
<1>2. d \in [Nat -> Nat] /\ \A n \in Nat : n >= b => d[n] < n
  <2>1. \A n \in Nat : n >= b <=> n > UINT16_MAX
    BY <1>1 DEF UINT16_MAX
  <2>2. QED BY <2>1, HalvesAre
<1>3. B \in [Nat -> Nat] /\ G \in [Nat \X Nat -> Nat]
  OBVIOUS
<1>4. PICK f \in [Nat -> Nat] : Descends(f, b, B, G, d)
  <2> HIDE DEF B, G, d
  <2>1. QED BY <1>2, <1>3, DescentExists
<1>5. \A n \in Nat : f[n] = IF n > UINT16_MAX THEN f[Halves(n)] ELSE n
  <2>1. SUFFICES ASSUME NEW n \in Nat PROVE f[n] = IF n > UINT16_MAX THEN f[Halves(n)] ELSE n
    OBVIOUS
  <2>2. f[n] = IF n < b THEN B[n] ELSE G[<<f[d[n]], n>>]
    <3> HIDE DEF B, G, d
    <3> QED BY <1>4 DEF Descends
  <2>3. n < b <=> ~(n > UINT16_MAX)
    BY <1>1 DEF UINT16_MAX
  <2>4. f[d[n]] \in Nat
    <3> HIDE DEF d
    <3> QED BY <1>2
  <2>5. G[<<f[d[n]], n>>] = f[d[n]]
    <3> HIDE DEF d
    <3> QED BY <2>4
  <2>6. n > UINT16_MAX => d[n] = Halves(n)
    OBVIOUS
  <2>7. B[n] = n
    OBVIOUS
  <2> HIDE DEF B, G, d
  <2>8. QED BY <2>2, <2>3, <2>5, <2>6, <2>7
<1>6. Is(f)
  <2> HIDE DEF B, G, d
  <2>1. f = [n \in Nat |-> IF n > UINT16_MAX THEN f[Halves(n)] ELSE n]
    BY <1>5
  <2>2. QED BY <2>1
<1>7. Is(g)
  <2> HIDE DEF Is
  <2>1. QED BY <1>6
<1>8. \A n \in Nat : g[n] = IF n > UINT16_MAX THEN g[Halves(n)] ELSE n
  <2> HIDE DEF g, B, G, d
  <2>1. g = [n \in Nat |-> IF n > UINT16_MAX THEN g[Halves(n)] ELSE n]
    BY <1>7
  <2>2. QED BY <2>1
<1>9. Folded(sum) = g[sum]
  <2> HIDE DEF B, G, d
  <2>1. QED BY Zenon DEF Folded, g, Is
<1> HIDE DEF g, B, G, d
<1> DEFINE Good(n) == g[n] \in Halfword /\ Same(g[n], n)
           T == {n \in Nat : ~Good(n)}
<1>10. T = {}
  <2>1. SUFFICES ASSUME T # {} PROVE FALSE
    OBVIOUS
  <2>2. PICK m \in T : \A k \in T : m <= k
    <3> HIDE DEF Good
    <3>1. T \subseteq Nat
      OBVIOUS
    <3> HIDE DEF T
    <3>2. QED BY <2>1, <3>1, LeastElement
  <2>3. m \in Nat /\ ~Good(m)
    <3> HIDE DEF Good
    <3> QED OBVIOUS
  <2>4. CASE m > UINT16_MAX
    <3>1. PICK k \in Nat : k = Halves(m) /\ k < m /\ Same(k, m)
      BY <2>3, <2>4, HalvesAre
    <3>2. Good(k)
      <4> HIDE DEF Good
      <4>1. k \notin T
        <5>1. ~(m <= k)
          BY <2>3, <3>1
        <5> HIDE DEF T
        <5>2. QED BY <2>2, <5>1
      <4>2. QED BY <4>1
    <3>3. g[m] = g[k]
      BY <1>8, <2>3, <2>4, <3>1
    <3>4. g[k] \in Int
      BY <3>2, ByteIs
    <3>5. Same(g[k], m)
      BY <2>3, <3>1, <3>2, <3>4, SameAgain
    <3>6. QED BY <2>3, <3>2, <3>3, <3>5
  <2>5. CASE ~(m > UINT16_MAX)
    <3>1. g[m] = m
      BY <1>8, <2>3, <2>5
    <3>2. m \in Halfword
      BY <2>3, <2>5, ByteIs DEF UINT16_MAX
    <3>3. PICK z \in Int : z = 0
      OBVIOUS
    <3>4. m = m + UINT16_MAX * z
      BY <2>3, <3>3 DEF UINT16_MAX
    <3>5. Same(m, m)
      BY <3>4, Zenon DEF Same
    <3>6. QED BY <2>3, <3>1, <3>2, <3>5
  <2>6. QED BY <2>4, <2>5
<1>11. Good(sum)
  <2> HIDE DEF Good
  <2> QED BY <1>10
<1>12. QED BY <1>9, <1>11

(* Both checksums bring the sum of all words, as the network has them, to nothing. *)
LEMMA SumsAgree ==
  ASSUME NEW bytes \in Seq(Byte), NEW ws \in Pairs, ws = Words(bytes)
  PROVE  /\ Total(NetChecksum(bytes), ws) % UINT16_MAX = 0
         /\ Total(CalculateChecksum(bytes), ws) % UINT16_MAX = 0
<1>1. PICK n \in Nat : n = Len(ws)
  BY DEF Pairs
<1>2. PICK a : Adding(a, ws) /\ NetSum(ws) = a[n]
  BY <1>1, AddingIs
<1>3. PICK s : Summing(s, ws) /\ ProcessorSum(ws) = s[n]
  BY <1>1, SummingIs
<1>4. a \in [0 .. n -> Halfword] /\ s \in [0 .. n -> Nat] /\ a[0] = UINT16_MAX /\ s[0] = 0
  BY <1>1, <1>2, <1>3 DEF Adding, Summing
<1>5. ASSUME NEW c, Htons(c) \in Nat
      PROVE  \E x \in Nat : /\ Total(c, ws) = Htons(c) + x /\ Same(x, a[n]) /\ Same(s[n], 256 * x)
  <2>1. PICK t : Totalling(t, c, ws) /\ Total(c, ws) = t[n]
    BY <1>1, <1>5, TotallingIs
  <2>2. t \in [0 .. n -> Nat] /\ t[0] = Htons(c)
    BY <1>1, <2>1 DEF Totalling
  <2>3. PICK z \in Nat : z = Htons(c)
    BY <1>5
  <2> DEFINE S == {i \in 0 .. n : \E x \in Nat : t[i] = z + x /\ Same(x, a[i]) /\ Same(s[i], 256 * x)}
  <2>4. 0 \in S
    <3>1. PICK x \in Nat, j \in Int, k \in Int : x = 0 /\ j = 0 - 1 /\ k = 0
      OBVIOUS
    <3>2. x = a[0] + UINT16_MAX * j /\ s[0] = 256 * x + UINT16_MAX * k /\ t[0] = z + x
      BY <1>4, <2>2, <2>3, <3>1 DEF UINT16_MAX
    <3>3. Same(x, a[0]) /\ Same(s[0], 256 * x)
      BY <3>2, Zenon DEF Same
    <3>4. QED BY <3>2, <3>3
  <2>5. ASSUME NEW i \in 1 .. n, i - 1 \in S PROVE i \in S
    <3>1. PICK x \in Nat : t[i - 1] = z + x /\ Same(x, a[i - 1]) /\ Same(s[i - 1], 256 * x)
      BY <2>5
    <3>2. PICK p \in Byte \X Byte : p = ws[i]
      BY <1>1 DEF Pairs
    <3>3. PICK w \in Nat, v \in Nat : w = Word(p[1], p[2]) /\ v = Word(p[2], p[1]) /\ Same(v, 256 * w) /\ w < 65536
      BY <3>2, WordIs, ByteIs
    <3>4. t[i] = t[i - 1] + w /\ s[i] = s[i - 1] + v /\ a[i] = AddWord(a[i - 1], w)
      <4>1. t[i] = t[i - 1] + w
        BY <1>1, <2>1, <3>2, <3>3 DEF Totalling
      <4>2. s[i] = s[i - 1] + v
        BY <1>1, <1>3, <3>2, <3>3 DEF Summing
      <4>3. a[i] = AddWord(a[i - 1], w)
        BY <1>1, <1>2, <3>2, <3>3 DEF Adding
      <4>4. QED BY <4>1, <4>2, <4>3
    <3>5. PICK e \in Nat : e = a[i - 1] /\ e < 65536
      BY <1>4, ByteIs
    <3>6. PICK j \in Int : x = e + UINT16_MAX * j
      BY <3>1, <3>5 DEF Same
    <3>7. s[i - 1] \in Nat
      BY <1>4
    <3>8. PICK k \in Int : s[i - 1] = 256 * x + UINT16_MAX * k
      BY <3>1 DEF Same
    <3>9. PICK l \in Int : v = 256 * w + UINT16_MAX * l
      BY <3>3 DEF Same
    <3>10. PICK y \in Nat, q \in Int, r \in Int : /\ y = x + w /\ r = k + l
                                                /\ q = IF e + w > UINT16_MAX THEN j + 1 ELSE j
      <4>1. x + w \in Nat /\ j + 1 \in Int /\ k + l \in Int
        OBVIOUS
      <4>2. QED BY <4>1
    <3>11. y = a[i] + UINT16_MAX * q
      <4>1. CASE e + w > 65535
        <5>1. a[i] = e + w - 65535 /\ q = j + 1
          BY <3>4, <3>5, <3>10, <4>1 DEF AddWord, UINT16_MAX
        <5>2. y = (e + w - 65535) + 65535 * (j + 1)
          BY <3>6, <3>10 DEF UINT16_MAX
        <5>3. QED BY <5>1, <5>2 DEF UINT16_MAX
      <4>2. CASE ~(e + w > 65535)
        <5>1. a[i] = e + w /\ q = j
          BY <3>4, <3>5, <3>10, <4>2 DEF AddWord, UINT16_MAX
        <5>2. y = (e + w) + 65535 * j
          BY <3>6, <3>10 DEF UINT16_MAX
        <5>3. QED BY <5>1, <5>2 DEF UINT16_MAX
      <4>3. QED BY <4>1, <4>2
    <3>12. s[i] = 256 * y + UINT16_MAX * r
      BY <3>4, <3>7, <3>8, <3>9, <3>10 DEF UINT16_MAX
    <3>13. t[i] = z + y
      BY <3>1, <3>4, <3>10
    <3>14. Same(y, a[i]) /\ Same(s[i], 256 * y)
      BY <3>11, <3>12, Zenon DEF Same
    <3>15. QED BY <3>13, <3>14
  <2>6. \A i \in 0 .. n : i \in S
    <3> HIDE DEF S
    <3> QED BY <2>4, <2>5, SetInduction
  <2>7. n \in 0 .. n
    OBVIOUS
  <2>8. QED BY <2>1, <2>3, <2>6, <2>7
<1>6. a[n] \in Halfword /\ s[n] \in Nat
  BY <1>4
<1>7. Total(NetChecksum(bytes), ws) % UINT16_MAX = 0
  <2>1. PICK v \in Halfword : v = UINT16_MAX - a[n]
    BY <1>6, ByteIs DEF UINT16_MAX
  <2>2. NetChecksum(bytes) = Htons(v)
    BY <1>2, <2>1 DEF NetChecksum
  <2>3. Htons(NetChecksum(bytes)) = v
    BY <2>2, HtonsTurns
  <2>4. PICK b \in Nat : b = a[n] /\ v \in Nat /\ v = UINT16_MAX - b
    BY <1>6, <2>1, ByteIs
  <2>5. PICK x \in Nat : Total(NetChecksum(bytes), ws) = v + x /\ Same(x, b)
    BY <1>5, <2>3, <2>4
  <2>6. PICK j \in Int : x = b + UINT16_MAX * j
    BY <2>5 DEF Same
  <2>7. PICK k \in Int : k = j + 1
    OBVIOUS
  <2>8. v + x = 0 + UINT16_MAX * k /\ v + x \in Int
    <3>1. PICK u \in Nat : u = v /\ u = UINT16_MAX - b
      BY <2>4
    <3>2. u + x = 0 + UINT16_MAX * k
      BY <3>1, <2>6, <2>7 DEF UINT16_MAX
    <3>3. QED BY <3>1, <3>2
  <2>9. Same(v + x, 0)
    BY <2>8, Zenon DEF Same
  <2>10. QED BY <2>5, <2>8, <2>9, SameIsSo
<1>8. Total(CalculateChecksum(bytes), ws) % UINT16_MAX = 0
  <2>1. PICK m \in Nat : m = Folded(s[n]) /\ m < 65536 /\ Same(m, s[n])
    <3>1. PICK u \in Nat : u = s[n]
      BY <1>6
    <3>2. PICK m : m = Folded(u) /\ m \in Halfword /\ Same(m, u)
      BY FoldingIs
    <3>3. m \in Nat /\ m < 65536
      BY <3>2, ByteIs
    <3>4. QED BY <3>1, <3>2, <3>3
  <2>2. PICK v \in Halfword : v = UINT16_MAX - m
    BY <2>1, ByteIs DEF UINT16_MAX
  <2>3. CalculateChecksum(bytes) = v
    BY <1>3, <2>1, <2>2 DEF CalculateChecksum
  <2>4. PICK u \in Nat : u = Htons(v) /\ Same(u, 256 * v) /\ v \in Nat
    BY HtonsTurns, ByteIs
  <2>5. PICK x \in Nat : Total(v, ws) = u + x /\ Same(s[n], 256 * x)
    BY <1>5, <2>4
  <2>6. PICK i \in Int : m = s[n] + UINT16_MAX * i
    BY <2>1 DEF Same
  <2>7. PICK j \in Int : s[n] = 256 * x + UINT16_MAX * j
    BY <2>5 DEF Same
  <2>8. PICK k \in Int : u = 256 * v + UINT16_MAX * k
    BY <2>4 DEF Same
  <2>9. PICK l \in Int : l = k - 256 * i - 256 * j - x + 256
    OBVIOUS
  <2>10. u + x = 0 + UINT16_MAX * l /\ u + x \in Int
    BY <1>6, <2>2, <2>4, <2>6, <2>7, <2>8, <2>9 DEF UINT16_MAX
  <2>11. Same(u + x, 0)
    BY <2>10, Zenon DEF Same
  <2>12. QED BY <2>3, <2>5, <2>10, <2>11, SameIsSo
<1>9. QED BY <1>7, <1>8

IsContent(f) == f.kind \in {"data", "more"}

\* The values of the recursion over frames
Printing(p, s, T) ==
  /\ p \in [0 .. Len(s) -> Seq(T)] /\ p[0] = << >> /\ Printed(s) = p[Len(s)]
  /\ \A i \in 1 .. Len(s) : p[i] = IF IsContent(s[i]) THEN Append(p[i - 1], s[i]) ELSE p[i - 1]

LEMMA PrintingIs ==
  ASSUME NEW T, NEW s \in Seq(T)
  PROVE  \E p : Printing(p, s, T)
<1> DEFINE n == Len(s)
           none == << >>
           X == Seq(T)
           More(a, i) == IF IsContent(s[i]) THEN Append(a, s[i]) ELSE a
           F == [p \in X \X (1 .. n) |-> More(p[1], p[2])]
           Is(h) == h = [i \in 0 .. n |-> IF i = 0 THEN << >>
                                          ELSE IF s[i].kind \in {"data", "more"} THEN Append(h[i - 1], s[i]) ELSE h[i - 1]]
           Is2(h) == h = [i \in 0 .. n |-> IF i = 0 THEN none ELSE More(h[i - 1], i)]
           g == CHOOSE h : Is(h)
<1>1. n \in Nat
  OBVIOUS
<1>2. ASSUME NEW i \in 1 .. n, NEW a \in X PROVE More(a, i) \in X
  <2>1. s[i] \in T
    BY <1>1
  <2>2. Append(a, s[i]) \in Seq(T)
    BY <2>1
  <2>3. QED BY <2>2
<1>3. F \in [X \X (1 .. n) -> X]
  <2> HIDE DEF More, X, n
  <2> QED BY <1>2
<1>4. none \in X
  OBVIOUS
<1>5. \A h : Is(h) <=> Is2(h)
  BY Zenon DEF IsContent
<1> HIDE DEF n, none, X, More, Is
<1>6. PICK f \in [0 .. n -> X] : Solves(f, n, none, F)
  <2> HIDE DEF F
  <2>1. QED BY <1>1, <1>3, <1>4, RecursionExists
<1>7. \A i \in 1 .. n : f[i] = More(f[i - 1], i)
  <2>1. SUFFICES ASSUME NEW i \in 1 .. n PROVE f[i] = More(f[i - 1], i)
    OBVIOUS
  <2>2. <<f[i - 1], i>> \in X \X (1 .. n)
    BY <1>1
  <2>3. f[i] = F[<<f[i - 1], i>>]
    <3> HIDE DEF F
    <3> QED BY <1>6 DEF Solves
  <2>4. QED BY <2>2, <2>3
<1>8. f[0] = none
  BY <1>6 DEF Solves
<1>9. Is2(f)
  <2> HIDE DEF F
  <2>1. \A i \in 0 .. n : f[i] = IF i = 0 THEN none ELSE More(f[i - 1], i)
    BY <1>1, <1>7, <1>8
  <2>2. QED BY <2>1
<1>10. Is2(g)
  <2>1. Is(g)
    <3> HIDE DEF Is2
    <3> QED BY <1>5, <1>9
  <2> HIDE DEF Is2, g
  <2>2. QED BY <1>5, <2>1
<1>11. DOMAIN g = 0 .. n /\ \A i \in 0 .. n : g[i] = IF i = 0 THEN none ELSE More(g[i - 1], i)
  <2> HIDE DEF g
  <2>1. QED BY <1>10
<1>12. \A i \in 0 .. n : g[i] = f[i]
  <2> DEFINE S == {i \in 0 .. n : g[i] = f[i]}
  <2> HIDE DEF g, F
  <2>1. 0 \in S
    BY <1>1, <1>8, <1>11
  <2>2. ASSUME NEW i \in 1 .. n, i - 1 \in S PROVE i \in S
    BY <1>1, <1>7, <1>11, <2>2
  <2> HIDE DEF S
  <2>3. \A i \in 0 .. n : i \in S
    BY <1>1, <2>1, <2>2, SetInduction
  <2>4. QED BY <2>3 DEF S
<1>13. Printed(s) = g[n]
  <2> HIDE DEF F
  <2>1. QED BY Zenon DEF g, Is, n, Printed
<1>14. Printed(s) = f[n]
  <2> HIDE DEF g, F
  <2>1. n \in 0 .. n
    BY <1>1
  <2>2. QED BY <1>12, <1>13, <2>1
<1>15. QED
  <2> HIDE DEF g, F
  <2>1. \A i \in 1 .. n : f[i] = IF IsContent(s[i]) THEN Append(f[i - 1], s[i]) ELSE f[i - 1]
    BY <1>7 DEF More
  <2>2. f \in [0 .. Len(s) -> Seq(T)] /\ f[0] = << >> /\ Printed(s) = f[Len(s)]
    BY <1>8, <1>14 DEF n, X, none
  <2>3. Printing(f, s, T)
    BY <2>1, <2>2, Zenon DEF Printing, n
  <2>4. QED BY <2>3

LEMMA PrintedOfNone == Printed(<< >>) = << >>
<1>1. PICK p : Printing(p, << >>, {})
  <2>1. << >> \in Seq({})
    OBVIOUS
  <2>2. QED BY <2>1, PrintingIs
<1>2. QED BY <1>1 DEF Printing

(* One frame more: what is printed grows by its content. *)
LEMMA PrintedOfAppend ==
  ASSUME NEW T, NEW s \in Seq(T), NEW f \in T
  PROVE  /\ Printed(s) \in Seq(T)
         /\ Printed(Append(s, f)) = IF IsContent(f) THEN Append(Printed(s), f) ELSE Printed(s)
<1>1. PICK n \in Nat, u \in Seq(T) : n = Len(s) /\ u = Append(s, f) /\ Len(u) = n + 1 /\ u[n + 1] = f
  <2>1. Len(s) \in Nat /\ Append(s, f) \in Seq(T)
    OBVIOUS
  <2>2. Len(Append(s, f)) = Len(s) + 1 /\ Append(s, f)[Len(s) + 1] = f
    OBVIOUS
  <2>3. QED BY <2>1, <2>2
<1>2. \A i \in 1 .. n : u[i] = s[i]
  BY <1>1
<1>3. PICK p : Printing(p, s, T)
  BY PrintingIs
<1>4. PICK q : Printing(q, u, T)
  BY PrintingIs
<1>5. p \in [0 .. n -> Seq(T)] /\ p[0] = << >> /\ Printed(s) = p[n]
  BY <1>1, <1>3 DEF Printing
<1>6. q \in [0 .. n + 1 -> Seq(T)] /\ q[0] = << >> /\ Printed(u) = q[n + 1]
  BY <1>1, <1>4 DEF Printing
<1>7. \A i \in 1 .. n : p[i] = IF IsContent(s[i]) THEN Append(p[i - 1], s[i]) ELSE p[i - 1]
  BY <1>1, <1>3 DEF Printing
<1>8. \A i \in 1 .. n + 1 : q[i] = IF IsContent(u[i]) THEN Append(q[i - 1], u[i]) ELSE q[i - 1]
  BY <1>1, <1>4 DEF Printing
<1>9. p[n] = q[n]
  <2> DEFINE S == {i \in 0 .. n : p[i] = q[i]}
  <2>1. 0 \in S
    BY <1>5, <1>6
  <2>2. ASSUME NEW i \in 1 .. n, i - 1 \in S PROVE i \in S
    <3>1. p[i - 1] = q[i - 1]
      BY <2>2
    <3>2. s[i] = u[i] /\ i \in 1 .. n + 1
      BY <1>2
    <3>3. p[i] = q[i]
      BY <1>7, <1>8, <3>1, <3>2
    <3>4. QED BY <3>3
  <2> HIDE DEF S
  <2>3. \A i \in 0 .. n : i \in S
    BY <2>1, <2>2, SetInduction
  <2>4. QED BY <2>3 DEF S
<1>10. q[n + 1] = IF IsContent(f) THEN Append(q[n], f) ELSE q[n]
  <2>1. n + 1 \in 1 .. n + 1 /\ (n + 1) - 1 = n
    OBVIOUS
  <2>2. QED BY <1>1, <1>8, <2>1
<1>11. p[n] \in Seq(T)
  BY <1>5
<1>12. QED BY <1>1, <1>5, <1>6, <1>9, <1>10, <1>11

-----------------------------------------------------------------------------
(* The receive ring: how far behind the driver's place each frame lies.     *)

Slot(f) == ((FrameLens[f.kind] + 7) \div 4) * 4
AtPlace(p) == IF p >= RingLen THEN p - RingLen ELSE p

Places(off) ==
  /\ off \in [1 .. Len(unread) + 1 -> Nat] /\ off[1] = 0 /\ off[Len(unread) + 1] < RingLen
  /\ \A i, j \in 1 .. Len(unread) + 1 : i < j => off[i] < off[j]
  /\ \A i \in 1 .. Len(unread) :
       /\ off[i + 1] = off[i] + Slot(unread[i])
       /\ AtPlace(rx_ptr + off[i]) \in DOMAIN rx_buffer /\ rx_buffer[AtPlace(rx_ptr + off[i])] = unread[i]
  /\ cardPtr = AtPlace(rx_ptr + off[Len(unread) + 1])

\* The register that tells a place
Tells(c, p) == c \in Nat /\ c < 65536 /\ (c + 16) % 65536 = p
Followed == Tells(capr, rx_ptr)

RingInv ==
  /\ rx_ptr \in Nat /\ rx_ptr < RingLen /\ rx_ptr % 4 = 0
  /\ cardPtr \in Nat /\ cardPtr < RingLen /\ cardPtr % 4 = 0
  /\ Followed /\ \E off : Places(off)

\* Frames the driver sent, and frames that are on their way or came
Sent(f) ==
  /\ f.kind \in {"arp", "echo", "syn", "ack", "get"}
  /\ f.kind = "syn" => f.host \in Hosts /\ f.seq \in Nat
Follows(f, w) == \E s \in w : s.kind = "syn" /\ s.host = f.host /\ f.seq = (s.seq + 1) % Numbers
Confirms(f, w) == \E s \in w : s.kind = "syn" /\ s.host = f.host /\ f.ack = (s.seq + 1) % Numbers /\ s.seq \in Nat
Came(f, w) ==
  /\ f.kind \in FrameKinds
  /\ f.kind = "synack" => f.host \in Hosts /\ f.seq = ISN[f.host] /\ Confirms(f, w)

NumberOf(n) == n \in Nat /\ n < Numbers
FramesInv ==
  /\ NumberOf(tcp_seq) /\ NumberOf(tcp_ack)
  /\ \A f \in wire : Sent(f) /\ (f.kind = "get" => f.ack = (ISN[f.host] + 1) % Numbers /\ Follows(f, wire))
  /\ \A f \in inbound : Came(f, wire)
  /\ unread \in Seq(inbound) /\ taken \in Seq(inbound) /\ shownWeb = Printed(taken)

SumsInv ==
  checksums # << >> =>
    \E bytes \in ChecksumData : checksums = <<bytes, NetChecksum(bytes), CalculateChecksum(bytes)>>

CountsInv == arrived \in Nat /\ arrived <= MaxFrames /\ calls \in Nat /\ calls <= MaxCalls

\* The ring, until the card begins anew while the driver is elsewhere
OutOfStep == rx_ptr \in Nat /\ rx_ptr < RingLen /\ cardPtr = 0 /\ capr = 65536 - 16
RingOrAstray == (astray = FALSE /\ RingInv) \/ (astray = TRUE /\ OutOfStep)
BufferInv ==
  \A o \in DOMAIN rx_buffer : o \in Nat /\ o < RingLen /\ o % 4 = 0 /\ rx_buffer[o].kind \in FrameKinds

NetInv == RingOrAstray /\ BufferInv /\ FramesInv /\ SumsInv /\ CountsInv

-----------------------------------------------------------------------------
LEMMA SlotIs ==
  ASSUME NEW f, f.kind \in FrameKinds
  PROVE  /\ Slot(f) \in Nat /\ Slot(f) % 4 = 0 /\ Slot(f) >= 8 /\ Slot(f) <= FrameLens[f.kind] + 7
         /\ FrameLens[f.kind] \in Nat
         /\ \A p \in Nat : p % 4 = 0 => Aligned(p, FrameLens[f.kind]) = p + Slot(f)
<1>1. PICK l \in Nat : l = FrameLens[f.kind] /\ l >= 4
  <2>1. FrameLens[f.kind] \in 4 .. (RingLen \div 2)
    BY NetworkAssumption
  <2>2. QED BY <2>1, NetworkAssumption
<1>2. ASSUME NEW p \in Nat, p % 4 = 0 PROVE ((p + l + 4 + 3) \div 4) * 4 = p + ((l + 7) \div 4) * 4
  <2>1. PICK q \in Nat : p = 4 * q
    <3>1. p = 4 * (p \div 4) + (p % 4) /\ p \div 4 \in Nat
      OBVIOUS
    <3>2. QED BY <1>2, <3>1
  <2>2. QED BY <2>1
<1>3. PICK b \in Nat : b = ((l + 7) \div 4) * 4 /\ b % 4 = 0 /\ b >= 8 /\ b <= l + 7
  <2>1. PICK q \in Nat : q = (l + 7) \div 4 /\ q >= 2 /\ q * 4 <= l + 7
    <3>1. (l + 7) \div 4 \in Nat
      OBVIOUS
    <3>2. (l + 7) \div 4 >= 2
      BY <1>1
    <3>3. ((l + 7) \div 4) * 4 <= l + 7
      OBVIOUS
    <3>4. QED BY <3>1, <3>2, <3>3
  <2>2. q * 4 \in Nat /\ (q * 4) % 4 = 0 /\ q * 4 >= 8
    BY <2>1
  <2>3. QED BY <2>1, <2>2
<1>4. Slot(f) = b
  BY <1>1, <1>3 DEF Slot
<1>5. ASSUME NEW p \in Nat, p % 4 = 0 PROVE Aligned(p, FrameLens[f.kind]) = p + Slot(f)
  BY <1>1, <1>2, <1>3, <1>4, <1>5 DEF Aligned
<1>6. QED BY <1>1, <1>3, <1>4, <1>5

LEMMA RingLenIs == RingLen \in Nat /\ RingLen >= 4 /\ RingLen <= 65536 /\ RingLen % 4 = 0
BY NetworkAssumption

LEMMA AtPlaceIs ==
  ASSUME NEW p \in Nat, p < RingLen + RingLen
  PROVE  /\ AtPlace(p) \in Nat /\ AtPlace(p) < RingLen
         /\ p = AtPlace(p) \/ p = AtPlace(p) + RingLen
         /\ p % 4 = 0 => AtPlace(p) % 4 = 0
<1>1. PICK r \in Nat : r = RingLen /\ r % 4 = 0
  BY RingLenIs
<1>2. CASE p >= r
  <2>1. PICK q \in Nat : q = p - r
    BY <1>2
  <2>2. AtPlace(p) = q /\ p = q + r /\ q < r /\ (p % 4 = 0 => q % 4 = 0)
    BY <1>1, <1>2, <2>1 DEF AtPlace
  <2>3. QED BY <1>1, <2>2
<1>3. CASE ~(p >= r)
  <2>1. AtPlace(p) = p /\ p < r
    BY <1>1, <1>3 DEF AtPlace
  <2>2. QED BY <1>1, <2>1
<1>4. QED BY <1>2, <1>3

(* Places and steps that are less than the ring add up to less than two rings. *)
LEMMA Twice ==
  ASSUME NEW p \in Nat, NEW q \in Nat, p < RingLen, q < RingLen
  PROVE  p + q \in Nat /\ p + q < RingLen + RingLen
<1>1. PICK r \in Nat : r = RingLen
  BY RingLenIs
<1>2. p + q \in Nat /\ p + q < r + r
  BY <1>1
<1>3. QED BY <1>1, <1>2

LEMMA Distance ==
  ASSUME NEW p \in Nat, NEW q \in Nat, NEW e \in Nat, NEW d \in Nat,
         p < RingLen, e < RingLen, d = RingLen - e, d < RingLen, q = AtPlace(p + e)
  PROVE  (p - q + RingLen) % RingLen = d
<1>1. PICK r \in Nat : r = RingLen /\ r > 0
  BY RingLenIs
<1>2. p + e = q \/ p + e = q + RingLen
  BY Twice, AtPlaceIs
<1>3. p - q + r = d \/ p - q + r = d + r
  BY <1>1, <1>2
<1>4. d % r = d /\ (d + r) % r = d
  BY <1>1
<1>5. (p - q + r) % r = d
  BY <1>3, <1>4
<1>6. QED BY <1>1, <1>5

LEMMA PlacesApart ==
  ASSUME NEW p \in Nat, NEW d \in Nat, NEW e \in Nat, p < RingLen, d < e, e < RingLen
  PROVE  AtPlace(p + d) # AtPlace(p + e)
<1>1. PICK r \in Nat : r = RingLen
  BY RingLenIs
<1>2. d < RingLen
  BY <1>1
<1>3. PICK x \in Nat : x = AtPlace(p + d) /\ x < RingLen /\ (p + d = x \/ p + d = x + RingLen)
  BY <1>2, Twice, AtPlaceIs
<1>4. PICK y \in Nat : y = AtPlace(p + e) /\ y < RingLen /\ (p + e = y \/ p + e = y + RingLen)
  BY Twice, AtPlaceIs
<1>5. x # y
  BY <1>1, <1>3, <1>4
<1>6. QED BY <1>3, <1>4, <1>5

LEMMA DriverIs == ASSUME RingInv PROVE DriverAt = rx_ptr
<1>1. (capr + 16) % 65536 = rx_ptr /\ rx_ptr \in Nat /\ rx_ptr < RingLen
  BY DEF RingInv, Followed, Tells
<1>2. rx_ptr % RingLen = rx_ptr
  BY <1>1, RingLenIs
<1>3. QED BY <1>1, <1>2 DEF DriverAt

LEMMA Fours ==
  ASSUME NEW p \in Nat, NEW b \in Nat, p % 4 = 0, b % 4 = 0
  PROVE  (p + b) % 4 = 0
OBVIOUS

LEMMA Fits ==
  ASSUME NEW e \in Nat, NEW b \in Nat, NEW len \in Nat, NEW r \in Nat, b <= len + 7, r - e > len + 8
  PROVE  e + b < r /\ b < r
OBVIOUS

(* A step, and another one: together one longer step. *)
LEMMA Onwards ==
  ASSUME NEW p \in Nat, NEW e \in Nat, NEW b \in Nat, p < RingLen, e + b < RingLen
  PROVE  AtPlace(AtPlace(p + e) + b) = AtPlace(p + (e + b))
<1>1. PICK r \in Nat : r = RingLen
  BY RingLenIs
<1>2. CASE p + e >= r
  <2>1. PICK x \in Nat : x = p + e - r
    BY <1>2
  <2>2. AtPlace(p + e) = x
    BY <1>1, <1>2, <2>1 DEF AtPlace
  <2>3. x + b < r /\ p + (e + b) >= r /\ x + b = p + (e + b) - r
    BY <1>1, <1>2, <2>1
  <2>4. AtPlace(x + b) = x + b /\ AtPlace(p + (e + b)) = p + (e + b) - r
    BY <1>1, <2>3 DEF AtPlace
  <2>5. QED BY <2>2, <2>3, <2>4
<1>3. CASE ~(p + e >= r)
  <2>1. AtPlace(p + e) = p + e
    BY <1>1, <1>3 DEF AtPlace
  <2>2. PICK x \in Nat : x = p + (e + b) /\ x = (p + e) + b
    OBVIOUS
  <2>3. QED BY <2>1, <2>2, Zenon
<1>4. QED BY <1>2, <1>3

(* The driver's place is that of the first frame, or the card's. *)
LEMMA DriverFinds ==
  ASSUME RingInv, unread \in Seq(inbound)
  PROVE  IF unread = << >> THEN rx_ptr = cardPtr
         ELSE rx_ptr \in DOMAIN rx_buffer /\ rx_buffer[rx_ptr] = unread[1]
<1>1. PICK off : Places(off)
  BY DEF RingInv
<1>2. rx_ptr \in Nat /\ rx_ptr < RingLen /\ off[1] = 0 /\ Len(unread) \in Nat
  BY <1>1 DEF RingInv, Places
<1>3. AtPlace(rx_ptr + off[1]) = rx_ptr
  BY <1>2, RingLenIs DEF AtPlace
<1>4. CASE unread = << >>
  <2>1. Len(unread) = 0
    BY <1>4
  <2>2. cardPtr = AtPlace(rx_ptr + off[0 + 1])
    BY <1>1, <2>1 DEF Places
  <2>3. QED BY <1>3, <1>4, <2>2
<1>5. CASE unread # << >>
  <2>1. 1 \in 1 .. Len(unread)
    BY <1>5
  <2>2. AtPlace(rx_ptr + off[1]) \in DOMAIN rx_buffer /\ rx_buffer[AtPlace(rx_ptr + off[1])] = unread[1]
    BY <1>1, <2>1 DEF Places
  <2>3. QED BY <1>3, <1>5, <2>2
<1>6. QED BY <1>4, <1>5

LEMMA RingReceives ==
  ASSUME RingInv, unread \in Seq(inbound), NEW f \in inbound, f.kind \in FrameKinds, CardReceives(f)
  PROVE  RingInv'
<1>1. PICK off : Places(off)
  BY DEF RingInv
<1>2. PICK n \in Nat, e \in Nat, b \in Nat, len \in Nat :
        /\ n = Len(unread) /\ e = off[n + 1] /\ b = Slot(f) /\ len = FrameLens[f.kind]
        /\ e < RingLen /\ b % 4 = 0 /\ b >= 8 /\ b <= len + 7
  <2>1. Len(unread) \in Nat /\ Slot(f) \in Nat /\ FrameLens[f.kind] \in Nat
    BY SlotIs
  <2>2. off[Len(unread) + 1] \in Nat /\ off[Len(unread) + 1] < RingLen
    BY <1>1, <2>1 DEF Places
  <2>3. QED BY <2>1, <2>2, SlotIs
<1>3. /\ off \in [1 .. n + 1 -> Nat] /\ off[1] = 0 /\ cardPtr = AtPlace(rx_ptr + e)
      /\ \A i, j \in 1 .. n + 1 : i < j => off[i] < off[j]
  BY <1>1, <1>2 DEF Places
<1>4. /\ rx_ptr \in Nat /\ rx_ptr < RingLen /\ rx_ptr % 4 = 0
      /\ cardPtr \in Nat /\ cardPtr < RingLen /\ cardPtr % 4 = 0
  BY DEF RingInv
<1>5. RoomInRing = RingLen - e
  <2>1. CASE unread = << >>
    <3>1. n = 0 /\ e = 0
      BY <1>2, <1>3, <2>1
    <3>2. QED BY <2>1, <3>1, RingLenIs DEF RoomInRing
  <2>2. CASE unread # << >>
    <3>1. 1 < n + 1
      BY <1>2, <2>2
    <3>2. e > 0
      BY <1>2, <1>3, <3>1
    <3>3. RoomInRing = (rx_ptr - cardPtr + RingLen) % RingLen
      BY <2>2, DriverIs DEF RoomInRing
    <3>4. PICK d \in Nat : d = RingLen - e /\ d < RingLen
      BY <1>2, <3>2, RingLenIs
    <3>5. (rx_ptr - cardPtr + RingLen) % RingLen = d
      BY <1>2, <1>3, <1>4, <3>4, Distance
    <3>6. QED BY <3>3, <3>4, <3>5
  <2>3. QED BY <2>1, <2>2
<1>6. e + b < RingLen /\ b < RingLen
  <2>1. RoomInRing > len + 8
    BY <1>2 DEF CardReceives
  <2>2. PICK r \in Nat : r = RingLen
    BY RingLenIs
  <2>3. r - e > len + 8
    BY <1>5, <2>1, <2>2
  <2>4. e + b < r /\ b < r
    BY <1>2, <2>3, Fits
  <2>5. QED BY <2>2, <2>4
<1>7. cardPtr' = AtPlace(cardPtr + b)
  <2>1. cardPtr' = (cardPtr + b) % RingLen
    BY <1>2, <1>4, SlotIs DEF CardReceives
  <2>2. PICK c \in Nat : c = AtPlace(cardPtr + b) /\ c < RingLen /\ (cardPtr + b = c \/ cardPtr + b = c + RingLen)
    <3>1. cardPtr + b \in Nat /\ cardPtr + b < RingLen + RingLen
      BY <1>2, <1>4, <1>6, Twice
    <3>2. QED BY <3>1, AtPlaceIs
  <2>3. c % RingLen = c /\ (c + RingLen) % RingLen = c
    BY <2>2, RingLenIs
  <2>4. QED BY <2>1, <2>2, <2>3
<1>8. cardPtr' = AtPlace(rx_ptr + (e + b))
  <2>1. AtPlace(AtPlace(rx_ptr + e) + b) = AtPlace(rx_ptr + (e + b))
    <3>1. PICK p \in Nat : p = rx_ptr /\ p < RingLen
      BY <1>4
    <3>2. AtPlace(AtPlace(p + e) + b) = AtPlace(p + (e + b))
      BY <1>6, <3>1, Onwards
    <3>3. QED BY <3>1, <3>2
  <2>2. QED BY <1>3, <1>7, <2>1, Zenon
<1>9. cardPtr' \in Nat /\ cardPtr' < RingLen /\ cardPtr' % 4 = 0
  <2>1. cardPtr + b \in Nat /\ cardPtr + b < RingLen + RingLen
    BY <1>2, <1>4, <1>6, Twice
  <2>2. (cardPtr + b) % 4 = 0
    <3>1. PICK c \in Nat : c = cardPtr /\ c % 4 = 0
      BY <1>4
    <3>2. (c + b) % 4 = 0
      BY <1>2, <3>1, Fours
    <3>3. QED BY <3>1, <3>2
  <2>3. QED BY <1>7, <2>1, <2>2, AtPlaceIs
<1>10. rx_ptr' = rx_ptr /\ capr' = capr /\ unread' = Append(unread, f)
  BY DEF CardReceives
<1>11. rx_buffer' = [o \in DOMAIN rx_buffer \union {cardPtr} |-> IF o = cardPtr THEN f ELSE rx_buffer[o]]
  BY DEF CardReceives
<1> DEFINE off2 == [i \in 1 .. n + 2 |-> IF i = n + 2 THEN e + b ELSE off[i]]
<1>12. Len(unread') = n + 1 /\ unread'[n + 1] = f /\ \A i \in 1 .. n : unread'[i] = unread[i]
  BY <1>2, <1>10
<1>13. Places(off2)'
  <2>1. off2 \in [1 .. (n + 1) + 1 -> Nat] /\ off2[1] = 0 /\ off2[(n + 1) + 1] = e + b
    BY <1>2, <1>3
  <2>2. \A i \in 1 .. n + 1 : off2[i] = off[i]
    OBVIOUS
  <2>3. ASSUME NEW i \in 1 .. (n + 1) + 1, NEW j \in 1 .. (n + 1) + 1, i < j PROVE off2[i] < off2[j]
    <3>1. CASE j = n + 2
      <4>1. i \in 1 .. n + 1
        BY <2>3, <3>1
      <4>2. off[i] <= e
        <5>1. n + 1 \in 1 .. n + 1
          OBVIOUS
        <5>2. CASE i = n + 1
          BY <1>2, <5>2
        <5>3. CASE i # n + 1
          <6>1. i < n + 1
            BY <4>1, <5>3
          <6>2. off[i] < off[n + 1] /\ off[i] \in Nat
            BY <1>3, <4>1, <5>1, <6>1
          <6>3. QED BY <1>2, <6>2
        <5>4. QED BY <5>2, <5>3
      <4>3. off[i] \in Nat
        BY <1>3, <4>1
      <4>4. QED BY <1>2, <3>1, <4>1, <4>2, <4>3
    <3>2. CASE j # n + 2
      <4>1. i \in 1 .. n + 1 /\ j \in 1 .. n + 1
        BY <2>3, <3>2
      <4>2. QED BY <1>3, <2>2, <2>3, <4>1
    <3>3. QED BY <3>1, <3>2
  <2>4. ASSUME NEW i \in 1 .. n + 1
        PROVE  /\ off2[i + 1] = off2[i] + Slot(unread'[i])
               /\ AtPlace(rx_ptr + off2[i]) \in DOMAIN rx_buffer' /\ rx_buffer'[AtPlace(rx_ptr + off2[i])] = unread'[i]
    <3>1. CASE i = n + 1
      <4>1. off2[i + 1] = e + b /\ off2[i] = e /\ unread'[i] = f
        BY <1>2, <1>12, <3>1
      <4>2. AtPlace(rx_ptr + off2[i]) = cardPtr
        BY <1>3, <4>1
      <4>3. QED BY <1>2, <1>11, <4>1, <4>2
    <3>2. CASE i # n + 1
      <4>1. i \in 1 .. n /\ i \in 1 .. n + 1 /\ i + 1 \in 1 .. n + 1 /\ i < n + 1 /\ n + 1 \in 1 .. n + 1
        BY <3>2
      <4>2. off2[i + 1] = off[i + 1] /\ off2[i] = off[i] /\ unread'[i] = unread[i]
        BY <1>12, <4>1
      <4>3. /\ off[i + 1] = off[i] + Slot(unread[i])
            /\ AtPlace(rx_ptr + off[i]) \in DOMAIN rx_buffer /\ rx_buffer[AtPlace(rx_ptr + off[i])] = unread[i]
        BY <1>1, <1>2, <4>1 DEF Places
      <4>4. off[i] \in Nat /\ off[i] < e
        BY <1>2, <1>3, <4>1
      <4>5. AtPlace(rx_ptr + off[i]) # cardPtr
        BY <1>2, <1>3, <1>4, <4>4, PlacesApart
      <4>6. QED BY <1>11, <4>2, <4>3, <4>5
    <3>3. QED BY <3>1, <3>2
  <2> HIDE DEF off2
  <2>5. /\ off2 \in [1 .. Len(unread') + 1 -> Nat] /\ off2[1] = 0 /\ off2[Len(unread') + 1] < RingLen
        /\ cardPtr' = AtPlace(rx_ptr' + off2[Len(unread') + 1])
    BY <1>6, <1>8, <1>10, <1>12, <2>1
  <2>6. \A i, j \in 1 .. Len(unread') + 1 : i < j => off2[i] < off2[j]
    BY <1>12, <2>3
  <2>7. \A i \in 1 .. Len(unread') :
          /\ off2[i + 1] = off2[i] + Slot(unread'[i])
          /\ AtPlace(rx_ptr' + off2[i]) \in DOMAIN rx_buffer' /\ rx_buffer'[AtPlace(rx_ptr' + off2[i])] = unread'[i]
    BY <1>10, <1>12, <2>4
  <2>8. QED BY <2>5, <2>6, <2>7 DEF Places, AtPlace, Slot
<1>14. Followed'
  BY <1>10 DEF RingInv, Followed
<1>15. \E o : Places(o)'
  BY <1>13
<1>16. QED BY <1>4, <1>9, <1>10, <1>14, <1>15 DEF RingInv

LEMMA CaprIs ==
  ASSUME NEW p \in Nat, p < 65536
  PROVE  Tells((p - 16) % 65536, p)
<1>1. CASE p >= 16
  <2>1. PICK c \in Nat : c = p - 16
    BY <1>1
  <2>2. (p - 16) % 65536 = c /\ c < 65536 /\ (c + 16) % 65536 = p
    BY <1>1, <2>1
  <2>3. QED BY <2>2 DEF Tells
<1>2. CASE ~(p >= 16)
  <2>1. PICK c \in Nat : c = p - 16 + 65536
    BY <1>2
  <2>2. (p - 16) % 65536 = c /\ c < 65536 /\ (c + 16) % 65536 = p
    BY <1>2, <2>1
  <2>3. QED BY <2>2 DEF Tells
<1>3. QED BY <1>1, <1>2

(* A step of the driver, and from there to a later frame: the frame's place. *)
LEMMA Back ==
  ASSUME NEW p \in Nat, NEW a \in Nat, NEW e \in Nat, p < RingLen, a <= e, e < RingLen
  PROVE  AtPlace(AtPlace(p + a) + (e - a)) = AtPlace(p + e)
<1>1. PICK b \in Nat : b = e - a /\ a + b = e
  OBVIOUS
<1>2. AtPlace(AtPlace(p + a) + b) = AtPlace(p + (a + b))
  BY <1>1, Onwards
<1>3. QED BY <1>1, <1>2

LEMMA RingTakes ==
  ASSUME RingInv, unread \in Seq(inbound), \A f \in inbound : f.kind \in FrameKinds, Rtl8139Handler
  PROVE  RingInv'
<1>1. PICK off : Places(off)
  BY DEF RingInv
<1>2. PICK n \in Nat : n = Len(unread) /\ n >= 1
  <2>1. Len(unread) \in Nat /\ unread # << >>
    BY DEF Rtl8139Handler
  <2>2. QED BY <2>1
<1>3. PICK f \in inbound : f = unread[1] /\ rx_buffer[rx_ptr] = f
  <2>1. unread # << >>
    BY DEF Rtl8139Handler
  <2>2. unread[1] \in inbound
    BY <1>2
  <2>3. QED BY <2>1, <2>2, DriverFinds
<1>4. PICK b \in Nat : b = Slot(f) /\ b % 4 = 0
  BY <1>3, SlotIs
<1>5. /\ off \in [1 .. n + 1 -> Nat] /\ off[1] = 0 /\ off[n + 1] < RingLen
      /\ cardPtr = AtPlace(rx_ptr + off[n + 1])
      /\ \A i, j \in 1 .. n + 1 : i < j => off[i] < off[j]
  BY <1>1, <1>2 DEF Places
<1>6. off[2] = b
  <2>1. 1 \in 1 .. n
    BY <1>2
  <2>2. off[1 + 1] = off[1] + b
    BY <1>1, <1>2, <1>3, <1>4, <2>1 DEF Places
  <2>3. QED BY <1>5, <2>2
<1>7. ASSUME NEW i \in 2 .. n + 1 PROVE off[i] \in Nat /\ b <= off[i] /\ off[i] < RingLen
  <2>1. 2 \in 1 .. n + 1 /\ i \in 1 .. n + 1 /\ n + 1 \in 1 .. n + 1
    BY <1>2
  <2>2. off[i] \in Nat
    BY <1>5, <2>1
  <2>3. b <= off[i]
    <3>1. CASE i = 2
      BY <1>6, <3>1
    <3>2. CASE i # 2
      <4>1. 2 < i
        BY <3>2
      <4>2. off[2] < off[i]
        BY <1>5, <2>1, <4>1
      <4>3. QED BY <1>6, <2>2, <4>2
    <3>3. QED BY <3>1, <3>2
  <2>4. off[i] < RingLen
    <3>1. CASE i = n + 1
      BY <1>5, <3>1
    <3>2. CASE i # n + 1
      <4>1. i < n + 1
        BY <3>2
      <4>2. off[i] < off[n + 1] /\ off[n + 1] \in Nat
        BY <1>5, <2>1, <4>1
      <4>3. QED BY <1>5, <2>2, <4>2, RingLenIs
    <3>3. QED BY <3>1, <3>2
  <2>5. QED BY <2>2, <2>3, <2>4
<1>8. rx_ptr \in Nat /\ rx_ptr < RingLen /\ rx_ptr % 4 = 0
  BY DEF RingInv
<1>9. b < RingLen
  <2>1. 2 \in 2 .. n + 1
    BY <1>2
  <2>2. QED BY <1>6, <1>7, <2>1
<1>10. rx_ptr' = AtPlace(rx_ptr + b)
  <2>1. rx_ptr' = NextPtr(rx_ptr, FrameLens[f.kind])
    BY <1>3 DEF Rtl8139Handler
  <2>2. Aligned(rx_ptr, FrameLens[f.kind]) = rx_ptr + b
    BY <1>3, <1>4, <1>8, SlotIs
  <2>3. QED BY <2>1, <2>2 DEF NextPtr, AtPlace
<1>11. rx_ptr' \in Nat /\ rx_ptr' < RingLen /\ rx_ptr' % 4 = 0
  <2>1. PICK p \in Nat : p = rx_ptr /\ p < RingLen /\ p % 4 = 0
    BY <1>8
  <2>2. p + b \in Nat /\ p + b < RingLen + RingLen
    BY <1>9, <2>1, Twice
  <2>3. (p + b) % 4 = 0
    BY <1>4, <2>1, Fours
  <2>4. QED BY <1>10, <2>1, <2>2, <2>3, AtPlaceIs
<1>12. Followed'
  <2>1. PICK q \in Nat : q = rx_ptr' /\ q < 65536
    BY <1>11, RingLenIs
  <2>2. capr' = (q - 16) % 65536
    BY <1>3, <2>1 DEF Rtl8139Handler
  <2>3. Tells(capr', rx_ptr')
    BY <2>1, <2>2, CaprIs
  <2>4. QED BY <2>3 DEF Followed, Tells
<1>13. cardPtr' = cardPtr /\ rx_buffer' = rx_buffer /\ unread' = Tail(unread)
  BY DEF Rtl8139Handler
<1>14. cardPtr' \in Nat /\ cardPtr' < RingLen /\ cardPtr' % 4 = 0
  BY <1>13 DEF RingInv
<1>15. PICK m \in Nat : m + 1 = n /\ Len(unread') = m /\ \A i \in 1 .. m : unread'[i] = unread[i + 1]
  <2>1. unread # << >>
    BY DEF Rtl8139Handler
  <2>2. Len(unread') = n - 1 /\ \A i \in 1 .. n - 1 : unread'[i] = unread[i + 1]
    BY <1>2, <1>13, <2>1
  <2>3. PICK m \in Nat : m = n - 1
    BY <1>2
  <2>4. QED BY <2>2, <2>3
<1> DEFINE off2 == [i \in 1 .. m + 1 |-> off[i + 1] - b]
<1>16. ASSUME NEW i \in 1 .. m + 1
       PROVE  /\ off2[i] \in Nat /\ off2[i] = off[i + 1] - b
              /\ AtPlace(rx_ptr' + off2[i]) = AtPlace(rx_ptr + off[i + 1])
  <2>1. i + 1 \in 2 .. n + 1
    BY <1>15
  <2>2. PICK e \in Nat : e = off[i + 1] /\ b <= e /\ e < RingLen
    BY <1>7, <2>1
  <2>3. off2[i] = e - b
    BY <2>2
  <2>4. PICK p \in Nat : p = rx_ptr /\ p < RingLen
    BY <1>8
  <2>5. AtPlace(AtPlace(p + b) + (e - b)) = AtPlace(p + e)
    BY <2>2, <2>4, Back
  <2> HIDE DEF off2
  <2>6. QED BY <1>10, <2>2, <2>3, <2>4, <2>5
<1>17. Places(off2)'
  <2>1. off2 \in [1 .. m + 1 -> Nat]
    <3>1. \A i \in 1 .. m + 1 : off[i + 1] - b \in Nat
      BY <1>16
    <3>2. QED BY <3>1
  <2>2. off2[1] = 0
    <3>1. 1 \in 1 .. m + 1 /\ 1 + 1 = 2
      OBVIOUS
    <3>2. off2[1] = off[2] - b
      BY <3>1
    <3> HIDE DEF off2
    <3>3. QED BY <1>6, <3>2
  <2> HIDE DEF off2
  <2>3. off2[m + 1] < RingLen /\ cardPtr' = AtPlace(rx_ptr' + off2[m + 1])
    <3>1. m + 1 \in 1 .. m + 1 /\ (m + 1) + 1 = n + 1 /\ n + 1 \in 2 .. n + 1
      BY <1>15
    <3>2. off2[m + 1] = off[n + 1] - b /\ AtPlace(rx_ptr' + off2[m + 1]) = AtPlace(rx_ptr + off[n + 1])
      BY <1>15, <1>16, <3>1
    <3>3. PICK e \in Nat, r \in Nat : e = off[n + 1] /\ r = RingLen /\ e < r
      BY <1>7, <3>1, RingLenIs
    <3>4. e - b < r
      BY <3>3
    <3>5. QED BY <1>5, <1>13, <3>2, <3>3, <3>4
  <2>4. ASSUME NEW i \in 1 .. m + 1, NEW j \in 1 .. m + 1, i < j PROVE off2[i] < off2[j]
    <3>1. i + 1 \in 1 .. n + 1 /\ j + 1 \in 1 .. n + 1 /\ i + 1 < j + 1
      BY <1>15, <2>4
    <3>2. off[i + 1] < off[j + 1] /\ off[i + 1] \in Nat /\ off[j + 1] \in Nat
      BY <1>5, <3>1
    <3>3. off2[i] = off[i + 1] - b /\ off2[j] = off[j + 1] - b
      BY <1>16
    <3>4. QED BY <3>2, <3>3
  <2>5. ASSUME NEW i \in 1 .. m
        PROVE  /\ off2[i + 1] = off2[i] + Slot(unread'[i])
               /\ AtPlace(rx_ptr' + off2[i]) \in DOMAIN rx_buffer' /\ rx_buffer'[AtPlace(rx_ptr' + off2[i])] = unread'[i]
    <3>1. PICK k \in 1 .. n : k = i + 1 /\ i \in 1 .. m + 1 /\ k \in 1 .. m + 1 /\ k \in 2 .. n + 1 /\ k + 1 \in 2 .. n + 1
      BY <1>15
    <3>2. unread'[i] = unread[k]
      BY <1>15, <3>1
    <3>3. /\ off[k + 1] = off[k] + Slot(unread[k])
          /\ AtPlace(rx_ptr + off[k]) \in DOMAIN rx_buffer /\ rx_buffer[AtPlace(rx_ptr + off[k])] = unread[k]
      BY <1>1, <1>2, <3>1 DEF Places
    <3>4. AtPlace(rx_ptr' + off2[i]) = AtPlace(rx_ptr + off[k]) /\ off2[i] = off[k] - b /\ off2[k] = off[k + 1] - b
      BY <1>16, <3>1
    <3>5. unread[k] \in inbound
      BY <1>2, <3>1
    <3>6. PICK s \in Nat : s = Slot(unread[k])
      BY <3>5, SlotIs
    <3>7. off[k] \in Nat /\ off[k + 1] \in Nat
      BY <1>7, <3>1
    <3>8. off2[k] = off2[i] + s
      BY <3>3, <3>4, <3>6, <3>7
    <3>9. QED BY <1>13, <3>1, <3>2, <3>3, <3>4, <3>6, <3>8
  <2>6. /\ off2 \in [1 .. Len(unread') + 1 -> Nat] /\ off2[1] = 0 /\ off2[Len(unread') + 1] < RingLen
        /\ cardPtr' = AtPlace(rx_ptr' + off2[Len(unread') + 1])
    BY <1>15, <2>1, <2>2, <2>3
  <2>7. \A i, j \in 1 .. Len(unread') + 1 : i < j => off2[i] < off2[j]
    BY <1>15, <2>4
  <2>8. \A i \in 1 .. Len(unread') :
          /\ off2[i + 1] = off2[i] + Slot(unread'[i])
          /\ AtPlace(rx_ptr' + off2[i]) \in DOMAIN rx_buffer' /\ rx_buffer'[AtPlace(rx_ptr' + off2[i])] = unread'[i]
    BY <1>15, <2>5
  <2>9. QED BY <2>6, <2>7, <2>8 DEF Places, AtPlace, Slot
<1>18. \E o : Places(o)'
  BY <1>17
<1>19. QED BY <1>11, <1>12, <1>14, <1>18 DEF RingInv

LEMMA RingStays == ASSUME RingInv, UNCHANGED ring PROVE RingInv'
<1>1. PICK off : Places(off)
  BY DEF RingInv
<1>2. rx_ptr' = rx_ptr /\ capr' = capr /\ cardPtr' = cardPtr /\ rx_buffer' = rx_buffer /\ unread' = unread
  BY DEF ring
<1>3. Places(off)'
  BY <1>1, <1>2 DEF Places, AtPlace, Slot
<1>4. \E o : Places(o)'
  BY <1>3
<1>5. QED BY <1>2, <1>4 DEF RingInv, Followed, Tells

LEMMA BeforeTheEnd ==
  ASSUME NEW o \in Nat, NEW r \in Nat, o < r, o % 4 = 0, r % 4 = 0
  PROVE  o + 4 <= r
OBVIOUS

LEMMA RingInit == ASSUME NetInit PROVE RingInv
<1>1. rx_ptr = 0 /\ cardPtr = 0 /\ unread = << >> /\ capr = 65536 - 16
  BY DEF NetInit
<1>2. Followed
  <2>1. (65536 - 16 + 16) % 65536 = 0 /\ 65536 - 16 \in Nat /\ 65536 - 16 < 65536
    OBVIOUS
  <2>2. QED BY <1>1, <2>1 DEF Followed, Tells
<1>3. Places([i \in 1 .. 1 |-> 0])
  <2> DEFINE z == [i \in 1 .. 1 |-> 0]
  <2>1. z \in [1 .. 1 -> Nat] /\ z[1] = 0
    OBVIOUS
  <2>2. Len(unread) = 0 /\ 1 .. Len(unread) = {}
    BY <1>1
  <2>3. AtPlace(rx_ptr + z[1]) = cardPtr
    BY <1>1, <2>1, RingLenIs DEF AtPlace
  <2>4. \A i, j \in 1 .. 1 : ~(i < j)
    OBVIOUS
  <2> HIDE DEF z
  <2>5. Places(z)
    BY <2>1, <2>2, <2>3, <2>4, RingLenIs DEF Places
  <2>6. QED BY <2>5 DEF z
<1>4. \E o : Places(o)
  BY <1>3
<1>5. QED BY <1>1, <1>2, <1>4, RingLenIs DEF RingInv

LEMMA NumberIs == ASSUME NEW x \in Nat PROVE NumberOf((x + 1) % Numbers)
<1>1. Numbers \in Nat /\ Numbers # 0
  BY NetworkAssumption
<1>2. QED BY <1>1 DEF NumberOf

LEMMA CameStays ==
  ASSUME NEW f, NEW w, NEW v, w \subseteq v
  PROVE  (Came(f, w) => Came(f, v)) /\ (Follows(f, w) => Follows(f, v))
BY DEF Came, Confirms, Follows

\* The parts of FramesInv
WireInv == \A f \in wire : Sent(f) /\ (f.kind = "get" => f.ack = (ISN[f.host] + 1) % Numbers /\ Follows(f, wire))
InboundInv == \A f \in inbound : Came(f, wire)
TakenInv == unread \in Seq(inbound) /\ taken \in Seq(inbound) /\ shownWeb = Printed(taken)

LEMMA FramesIs ==
  FramesInv <=> NumberOf(tcp_seq) /\ NumberOf(tcp_ack) /\ WireInv /\ InboundInv /\ TakenInv
BY DEF FramesInv, WireInv, InboundInv, TakenInv

(* Another frame is sent that is no GET. *)
LEMMA WireGrows ==
  ASSUME WireInv, InboundInv, NEW x, Sent(x), x.kind # "get", wire' = wire \union {x}, inbound' = inbound
  PROVE  WireInv' /\ InboundInv'
<1>1. ASSUME NEW f \in wire' PROVE Sent(f) /\ (f.kind = "get" => f.ack = (ISN[f.host] + 1) % Numbers /\ Follows(f, wire'))
  <2>1. CASE f \in wire
    <3>1. Sent(f) /\ (f.kind = "get" => f.ack = (ISN[f.host] + 1) % Numbers /\ Follows(f, wire))
      BY <2>1 DEF WireInv
    <3>2. wire \subseteq wire'
      OBVIOUS
    <3>3. Follows(f, wire) => Follows(f, wire')
      BY <3>2, CameStays
    <3>4. QED BY <3>1, <3>3
  <2>2. CASE f = x
    BY <2>2
  <2>3. QED BY <2>1, <2>2
<1>2. ASSUME NEW f \in inbound' PROVE Came(f, wire')
  <2>1. Came(f, wire)
    BY DEF InboundInv
  <2>2. wire \subseteq wire'
    OBVIOUS
  <2>3. QED BY <2>1, <2>2, CameStays
<1>3. QED BY <1>1, <1>2 DEF WireInv, InboundInv, Sent, Came, Confirms, Follows

LEMMA TakenStays == ASSUME TakenInv, inbound' = inbound, unread' = unread, UNCHANGED seen PROVE TakenInv'
BY DEF TakenInv, seen, Printed

LEMMA FrameIs ==
  ASSUME NEW k, NEW h, NEW s, NEW a, NEW f, f = Frame(k, h, s, a)
  PROVE  f.kind = k /\ f.host = h /\ f.seq = s /\ f.ack = a
BY DEF Frame

LEMMA Sending ==
  ASSUME FramesInv, NEW k, NEW h, NEW s, Sends({Frame(k, h, s, 0)}),
         k \in {"arp", "echo", "syn"}, k = "syn" => h \in Hosts /\ s = tcp_seq,
         UNCHANGED tcp
  PROVE  FramesInv'
<1>1. PICK f : f = Frame(k, h, s, 0)
  OBVIOUS
<1>2. f.kind = k /\ f.host = h /\ f.seq = s
  BY <1>1, FrameIs
<1>3. NumberOf(tcp_seq) /\ NumberOf(tcp_ack) /\ WireInv /\ InboundInv /\ TakenInv
  BY FramesIs
<1>4. Sent(f) /\ f.kind # "get"
  BY <1>2, <1>3 DEF Sent, NumberOf
<1>5. wire' \in {wire, wire \union {f}} /\ inbound' = inbound /\ unread' = unread /\ UNCHANGED seen
  BY <1>1 DEF Sends, ring
<1>6. WireInv' /\ InboundInv'
  <2>1. CASE wire' = wire
    BY <1>3, <1>5, <2>1 DEF WireInv, InboundInv, Sent, Came, Confirms, Follows
  <2>2. CASE wire' = wire \union {f}
    BY <1>3, <1>4, <1>5, <2>2, WireGrows
  <2>3. QED BY <1>5, <2>1, <2>2
<1>7. TakenInv'
  BY <1>3, <1>5, TakenStays
<1>8. NumberOf(tcp_seq)' /\ NumberOf(tcp_ack)'
  BY <1>3 DEF tcp, NumberOf
<1>9. QED BY <1>6, <1>7, <1>8 DEF FramesInv, WireInv, InboundInv, TakenInv

LEMMA FramesStay ==
  ASSUME FramesInv, UNCHANGED <<wire, inbound>>, unread' = unread, UNCHANGED tcp, UNCHANGED seen
  PROVE  FramesInv'
<1>1. NumberOf(tcp_seq) /\ NumberOf(tcp_ack) /\ WireInv /\ InboundInv /\ TakenInv
  BY FramesIs
<1>2. TakenInv'
  BY <1>1, TakenStays
<1>3. NumberOf(tcp_seq)' /\ NumberOf(tcp_ack)'
  BY <1>1 DEF tcp, NumberOf
<1>4. WireInv' /\ InboundInv'
  BY <1>1 DEF WireInv, InboundInv, Sent, Came, Confirms, Follows
<1>5. QED BY <1>2, <1>3, <1>4 DEF FramesInv, WireInv, InboundInv, TakenInv

LEMMA InitSends ==
  ASSUME FramesInv, Rtl8139Init
  PROVE  FramesInv'
<1>1. wire' = wire /\ inbound' = inbound /\ unread' = << >> /\ UNCHANGED seen /\ tcp_seq' = tcp_seq /\ tcp_ack' = tcp_ack
  BY DEF Rtl8139Init
<1>2. NumberOf(tcp_seq) /\ NumberOf(tcp_ack) /\ WireInv /\ InboundInv /\ TakenInv
  BY FramesIs
<1>3. TakenInv'
  BY <1>1, <1>2 DEF TakenInv, seen, Printed
<1>4. WireInv' /\ InboundInv'
  BY <1>1, <1>2 DEF WireInv, InboundInv, Sent, Came, Confirms, Follows
<1>5. QED BY <1>1, <1>2, <1>3, <1>4 DEF FramesInv, WireInv, InboundInv, TakenInv, NumberOf

LEMMA SequencesGrow ==
  ASSUME NEW S, NEW T, S \subseteq T, NEW s \in Seq(S) PROVE s \in Seq(T)
<1>1. Len(s) \in Nat /\ \A i \in 1 .. Len(s) : s[i] \in T
  OBVIOUS
<1>2. s = [i \in 1 .. Len(s) |-> s[i]]
  OBVIOUS
<1>3. [i \in 1 .. Len(s) |-> s[i]] \in Seq(T)
  BY <1>1
<1>4. QED BY <1>2, <1>3

(* What a host answers is what may come. *)
LEMMA Answering ==
  ASSUME NEW f \in wire, WireInv, NEW x \in Answers(f)
  PROVE  Came(x, wire)
<1>1. Sent(f)
  BY DEF WireInv
<1>2. CASE f.kind = "arp"
  <2>1. x = Frame("arpreply", f.host, 0, 0)
    BY <1>2 DEF Answers
  <2>2. x.kind = "arpreply"
    BY <2>1, FrameIs
  <2>3. QED BY <2>2 DEF Came, FrameKinds
<1>3. CASE f.kind = "echo"
  <2>1. x = Frame("pong", f.host, 0, 0)
    BY <1>3 DEF Answers
  <2>2. x.kind = "pong"
    BY <2>1, FrameIs
  <2>3. QED BY <2>2 DEF Came, FrameKinds
<1>4. CASE f.kind = "syn"
  <2>1. x = Frame("synack", f.host, ISN[f.host], (f.seq + 1) % Numbers)
    BY <1>4 DEF Answers
  <2>2. x.kind = "synack" /\ x.host = f.host /\ x.seq = ISN[f.host] /\ x.ack = (f.seq + 1) % Numbers
    BY <2>1, FrameIs
  <2>3. f.host \in Hosts /\ f.seq \in Nat
    BY <1>1, <1>4 DEF Sent
  <2>4. Confirms(x, wire)
    BY <1>4, <2>2, <2>3 DEF Confirms
  <2>5. QED BY <2>2, <2>3, <2>4 DEF Came, FrameKinds
<1>5. CASE f.kind = "get"
  <2>1. x \in {Frame("data", f.host, f.ack, 1), Frame("more", f.host, f.ack, 2)}
    BY <1>5 DEF Answers
  <2>2. x.kind \in {"data", "more"}
    BY <2>1, FrameIs
  <2>3. QED BY <2>2 DEF Came, FrameKinds
<1>6. CASE f.kind = "ack"
  BY <1>6 DEF Answers
<1>7. QED BY <1>1, <1>2, <1>3, <1>4, <1>5, <1>6 DEF Sent

LEMMA HostsAnswer ==
  ASSUME FramesInv, HostAnswers
  PROVE  FramesInv'
<1>1. PICK f \in wire : inbound' = inbound \union Answers(f)
  BY DEF HostAnswers
<1>2. wire' = wire /\ unread' = unread /\ UNCHANGED seen /\ tcp_seq' = tcp_seq /\ tcp_ack' = tcp_ack
  BY DEF HostAnswers, ring, tcp
<1>3. NumberOf(tcp_seq) /\ NumberOf(tcp_ack) /\ WireInv /\ InboundInv /\ TakenInv
  BY FramesIs
<1>4. ASSUME NEW x \in inbound' PROVE Came(x, wire)
  <2>1. CASE x \in inbound
    BY <1>3, <2>1 DEF InboundInv
  <2>2. CASE x \in Answers(f)
    BY <1>3, <2>2, Answering
  <2>3. QED BY <1>1, <2>1, <2>2
<1>5. WireInv'
  BY <1>2, <1>3 DEF WireInv, Sent, Follows
<1>6. InboundInv'
  BY <1>2, <1>4 DEF InboundInv, Came, Confirms
<1>7. unread \in Seq(inbound') /\ taken \in Seq(inbound')
  <2>1. inbound \subseteq inbound'
    BY <1>1
  <2>2. QED BY <1>3, <2>1, SequencesGrow DEF TakenInv
<1>8. TakenInv'
  BY <1>2, <1>3, <1>7 DEF TakenInv, seen, Printed
<1>9. QED BY <1>2, <1>3, <1>5, <1>6, <1>8 DEF FramesInv, WireInv, InboundInv, TakenInv, NumberOf

LEMMA FrameComes ==
  ASSUME FramesInv, NEW f \in inbound, CardReceives(f)
  PROVE  FramesInv'
<1>1. /\ wire' = wire /\ inbound' = inbound /\ UNCHANGED seen /\ UNCHANGED tcp
      /\ unread' = Append(unread, f)
  BY DEF CardReceives
<1>2. NumberOf(tcp_seq) /\ NumberOf(tcp_ack) /\ WireInv /\ InboundInv /\ TakenInv
  BY FramesIs
<1>3. unread' \in Seq(inbound)
  BY <1>1, <1>2 DEF TakenInv
<1>4. TakenInv'
  BY <1>1, <1>2, <1>3 DEF TakenInv, seen, Printed
<1>5. NumberOf(tcp_seq)' /\ NumberOf(tcp_ack)'
  BY <1>1, <1>2 DEF tcp, NumberOf
<1>6. WireInv' /\ InboundInv'
  BY <1>1, <1>2 DEF WireInv, InboundInv, Sent, Came, Confirms, Follows
<1>7. QED BY <1>4, <1>5, <1>6 DEF FramesInv, WireInv, InboundInv, TakenInv

(* The content of a frame is printed when the frame has any. *)
LEMMA DataIs ==
  ASSUME NEW f, f.kind \in FrameKinds
  PROVE  DataOf(f) = IF IsContent(f) THEN <<f>> ELSE << >>
<1>1. CASE IsContent(f)
  <2>1. FrameLens["data"] > Headers /\ FrameLens["more"] > Headers
    BY NetworkAssumption
  <2>2. FrameLens[f.kind] > Headers
    BY <1>1, <2>1 DEF IsContent
  <2>3. QED BY <1>1, <2>2 DEF DataOf, IsContent
<1>2. CASE ~IsContent(f)
  BY <1>2 DEF DataOf, IsContent
<1>3. QED BY <1>1, <1>2

LEMMA PrintsOn ==
  ASSUME TakenInv, NEW f \in inbound, f.kind \in FrameKinds
  PROVE  shownWeb \o DataOf(f) = Printed(Append(taken, f))
<1>1. PICK p \in Seq(inbound) : p = shownWeb /\ p = Printed(taken)
  BY PrintedOfAppend DEF TakenInv
<1>2. Printed(Append(taken, f)) = IF IsContent(f) THEN Append(p, f) ELSE p
  BY <1>1, PrintedOfAppend DEF TakenInv
<1>3. p \o <<f>> = Append(p, f) /\ p \o << >> = p
  OBVIOUS
<1>4. QED BY <1>1, <1>2, <1>3, DataIs

(* The driver takes a frame: a SYN-ACK is answered, content is printed. *)
LEMMA FrameTaken ==
  ASSUME FramesInv, RingInv, Rtl8139Handler
  PROVE  FramesInv'
<1>1. NumberOf(tcp_seq) /\ NumberOf(tcp_ack) /\ WireInv /\ InboundInv /\ TakenInv
  BY FramesIs
<1>2. unread # << >> /\ unread \in Seq(inbound) /\ taken \in Seq(inbound)
  BY <1>1 DEF Rtl8139Handler, TakenInv
<1>3. PICK f \in inbound : f = rx_buffer[rx_ptr]
  <2>1. unread[1] \in inbound
    BY <1>2
  <2>2. rx_buffer[rx_ptr] = unread[1]
    BY <1>2, DriverFinds
  <2>3. QED BY <2>1, <2>2
<1>4. Came(f, wire) /\ f.kind \in FrameKinds
  BY <1>1 DEF InboundInv, Came
<1>5. /\ inbound' = inbound /\ unread' = Tail(unread)
      /\ taken' = Append(taken, f) /\ shownWeb' = shownWeb \o DataOf(f)
  BY <1>3 DEF Rtl8139Handler
<1>6. unread' \in Seq(inbound) /\ taken' \in Seq(inbound)
  BY <1>2, <1>5
<1>7. TakenInv'
  <2>1. shownWeb' = Printed(Append(taken, f))
    BY <1>1, <1>4, <1>5, PrintsOn
  <2>2. QED BY <1>5, <1>6, <2>1 DEF TakenInv, Printed
<1>8. CASE f.kind # "synack"
  <2>1. tcp_ack' = tcp_ack /\ tcp_seq' = tcp_seq /\ wire' = wire
    BY <1>3, <1>8 DEF Rtl8139Handler
  <2>2. WireInv' /\ InboundInv'
    BY <1>1, <1>5, <2>1 DEF WireInv, InboundInv, Sent, Came, Confirms, Follows
  <2>3. QED BY <1>1, <1>7, <2>1, <2>2 DEF FramesInv, WireInv, InboundInv, TakenInv, NumberOf
<1>9. CASE f.kind = "synack"
  <2>1. PICK a, g : a = Frame("ack", f.host, f.ack, AckOf(f)) /\ g = Frame("get", f.host, f.ack, AckOf(f))
    OBVIOUS
  <2>2. tcp_ack' = AckOf(f) /\ tcp_seq' = f.ack /\ wire' = wire \union {a, g}
    BY <1>3, <1>9, <2>1 DEF Rtl8139Handler
  <2>3. f.host \in Hosts /\ f.seq = ISN[f.host] /\ Confirms(f, wire)
    BY <1>4, <1>9 DEF Came
  <2>4. a.kind = "ack" /\ g.kind = "get" /\ g.host = f.host /\ g.seq = f.ack /\ g.ack = AckOf(f)
    BY <2>1, FrameIs
  <2>5. PICK s \in wire : s.kind = "syn" /\ s.host = f.host /\ f.ack = (s.seq + 1) % Numbers /\ s.seq \in Nat
    BY <2>3 DEF Confirms
  <2>6. NumberOf(f.ack)
    BY <2>5, NumberIs
  <2>7. NumberOf(AckOf(f)) /\ AckOf(f) = (ISN[f.host] + 1) % Numbers
    <3>1. f.seq \in Nat
      BY <2>3, NetworkAssumption
    <3>2. QED BY <2>3, <3>1, NumberIs DEF AckOf
  <2>8. wire \subseteq wire'
    BY <2>2
  <2>9. Follows(g, wire')
    BY <2>2, <2>4, <2>5 DEF Follows
  <2>10. Sent(a) /\ Sent(g)
    BY <2>4 DEF Sent
  <2>11. ASSUME NEW h \in wire'
         PROVE  Sent(h) /\ (h.kind = "get" => h.ack = (ISN[h.host] + 1) % Numbers /\ Follows(h, wire'))
    <3>1. CASE h \in wire
      <4>1. Sent(h) /\ (h.kind = "get" => h.ack = (ISN[h.host] + 1) % Numbers /\ Follows(h, wire))
        BY <1>1, <3>1 DEF WireInv
      <4>2. Follows(h, wire) => Follows(h, wire')
        BY <2>8, CameStays
      <4>3. QED BY <4>1, <4>2
    <3>2. CASE h = a
      BY <2>4, <2>10, <3>2
    <3>3. CASE h = g
      BY <2>4, <2>7, <2>9, <2>10, <3>3
    <3>4. QED BY <2>2, <3>1, <3>2, <3>3
  <2>12. ASSUME NEW h \in inbound PROVE Came(h, wire')
    <3>1. Came(h, wire)
      BY <1>1 DEF InboundInv
    <3>2. QED BY <2>8, <3>1, CameStays
  <2>13. WireInv'
    BY <2>11 DEF WireInv, Sent, Follows
  <2>14. InboundInv'
    BY <1>5, <2>12 DEF InboundInv, Came, Confirms
  <2>15. NumberOf(tcp_seq)' /\ NumberOf(tcp_ack)'
    BY <2>2, <2>6, <2>7 DEF NumberOf
  <2>16. QED BY <1>7, <2>13, <2>14, <2>15 DEF FramesInv, WireInv, InboundInv, TakenInv
<1>10. QED BY <1>8, <1>9

-----------------------------------------------------------------------------
LEMMA NetInvInit == ASSUME NetInit PROVE NetInv
<1>1. RingOrAstray /\ BufferInv
  <2>1. RingInv
    BY RingInit
  <2>2. astray = FALSE /\ DOMAIN rx_buffer = {}
    BY DEF NetInit
  <2>3. QED BY <2>1, <2>2 DEF RingOrAstray, BufferInv
<1>2. FramesInv
  <2>1. tcp_seq = 5 % Numbers /\ tcp_ack = 0 /\ wire = {} /\ inbound = {} /\ unread = << >> /\ taken = << >> /\ shownWeb = << >>
    BY DEF NetInit, FirstSeq
  <2>2. Numbers \in Nat /\ Numbers # 0
    BY NetworkAssumption
  <2>3. NumberOf(tcp_seq) /\ NumberOf(tcp_ack)
    BY <2>1, <2>2 DEF NumberOf
  <2>4. << >> \in Seq(inbound)
    OBVIOUS
  <2>5. QED BY <2>1, <2>3, <2>4, PrintedOfNone DEF FramesInv
<1>3. SumsInv
  BY DEF NetInit, SumsInv
<1>4. CountsInv
  BY NetworkAssumption DEF NetInit, CountsInv
<1>5. QED BY <1>1, <1>2, <1>3, <1>4 DEF NetInv

LEMMA SumsStay == ASSUME SumsInv, checksums' = checksums PROVE SumsInv'
BY DEF SumsInv, NetChecksum, CalculateChecksum, NetSum, ProcessorSum, Folded, Words

LEMMA CountsStay == ASSUME CountsInv, arrived' = arrived, calls' = calls PROVE CountsInv'
BY DEF CountsInv

LEMMA CountsGrow == ASSUME CountsInv, arrived' = arrived, NetCall PROVE CountsInv'
BY NetworkAssumption DEF CountsInv, NetCall

LEMMA RingOrAstrayStays ==
  ASSUME RingOrAstray, BufferInv, UNCHANGED ring
  PROVE  RingOrAstray' /\ BufferInv'
<1>1. rx_ptr' = rx_ptr /\ cardPtr' = cardPtr /\ capr' = capr /\ astray' = astray /\ rx_buffer' = rx_buffer
  BY DEF ring
<1>2. BufferInv'
  BY <1>1 DEF BufferInv
<1>3. RingInv => RingInv'
  BY RingStays
<1>4. QED BY <1>1, <1>2, <1>3 DEF RingOrAstray, OutOfStep

LEMMA NetInvStays ==
  ASSUME NetInv, UNCHANGED ring, UNCHANGED <<wire, inbound, checksums, calls>>, UNCHANGED tcp, UNCHANGED seen
  PROVE  NetInv'
<1>1. RingOrAstray' /\ BufferInv'
  BY RingOrAstrayStays DEF NetInv
<1>2. unread' = unread /\ arrived' = arrived /\ checksums' = checksums /\ calls' = calls
  BY DEF ring
<1>3. FramesInv'
  BY <1>2, FramesStay DEF NetInv
<1>4. SumsInv'
  BY <1>2, SumsStay DEF NetInv
<1>5. CountsInv'
  BY <1>2, CountsStay DEF NetInv
<1>6. QED BY <1>1, <1>3, <1>4, <1>5 DEF NetInv

(* Each call of the driver that sends at most one frame. *)
LEMMA CallKeeps ==
  ASSUME NetInv, NetCall, UNCHANGED ring, checksums' = checksums, FramesInv'
  PROVE  NetInv'
<1>1. RingOrAstray' /\ BufferInv'
  BY RingOrAstrayStays DEF NetInv
<1>2. arrived' = arrived
  BY DEF ring
<1>3. SumsInv' /\ CountsInv'
  BY <1>2, SumsStay, CountsGrow DEF NetInv
<1>4. QED BY <1>1, <1>3 DEF NetInv

(* The card begins anew: the ring is whole again when the driver is at 0. *)
LEMMA InitRing ==
  ASSUME RingInv, BufferInv, Rtl8139Init
  PROVE  RingOrAstray' /\ BufferInv'
<1>7. astray' = (rx_ptr # 0)
  BY DEF Rtl8139Init
<1>1. /\ cardPtr' = 0 /\ capr' = 65536 - 16 /\ unread' = << >>
      /\ rx_ptr' = rx_ptr /\ rx_buffer' = rx_buffer
  BY DEF Rtl8139Init
<1>2. BufferInv'
  BY <1>1 DEF BufferInv
<1>3. rx_ptr' \in Nat /\ rx_ptr' < RingLen
  BY <1>1 DEF RingInv
<1>4. CASE rx_ptr # 0
  <2>1. astray' = TRUE
    BY <1>4, <1>7, Zenon
  <2>2. QED BY <1>1, <1>2, <1>3, <2>1 DEF RingOrAstray, OutOfStep
<1>5. CASE rx_ptr = 0
  <2>1. Followed'
    <3>1. (65536 - 16 + 16) % 65536 = 0 /\ 65536 - 16 \in Nat /\ 65536 - 16 < 65536
      OBVIOUS
    <3>2. QED BY <1>1, <1>5, <3>1 DEF Followed, Tells
  <2> DEFINE z == [i \in 1 .. 1 |-> 0]
  <2>2. z \in [1 .. 1 -> Nat] /\ z[1] = 0
    OBVIOUS
  <2>3. Len(unread') = 0 /\ 1 .. Len(unread') = {} /\ \A i, j \in 1 .. 1 : ~(i < j)
    BY <1>1
  <2>4. AtPlace(rx_ptr' + z[1]) = cardPtr'
    BY <1>1, <1>5, <2>2, RingLenIs DEF AtPlace
  <2> HIDE DEF z
  <2>5. Places(z)'
    BY <2>2, <2>3, <2>4, RingLenIs DEF Places, AtPlace, Slot
  <2>6. \E o : Places(o)'
    BY <2>5
  <2>7. RingInv'
    BY <1>1, <1>5, <2>1, <2>6, RingLenIs DEF RingInv
  <2>8. astray' = FALSE
    BY <1>5, <1>7, Zenon
  <2>9. QED BY <1>2, <2>7, <2>8 DEF RingOrAstray
<1>6. QED BY <1>4, <1>5

LEMMA BufferKeeps ==
  ASSUME RingInv, BufferInv, NEW f, f.kind \in FrameKinds, CardReceives(f)
  PROVE  BufferInv'
<1>1. rx_buffer' = [o \in DOMAIN rx_buffer \union {cardPtr} |-> IF o = cardPtr THEN f ELSE rx_buffer[o]]
  BY DEF CardReceives
<1>2. cardPtr \in Nat /\ cardPtr < RingLen /\ cardPtr % 4 = 0
  BY DEF RingInv
<1>3. QED BY <1>1, <1>2 DEF BufferInv

LEMMA NetInvStep == ASSUME NetInv, NetNext PROVE NetInv'
<1>1. RingOrAstray /\ BufferInv /\ FramesInv /\ SumsInv /\ CountsInv
  BY DEF NetInv
<1>13. RingInv /\ ~astray
  BY <1>1 DEF NetNext, RingOrAstray
<1>2. CASE Rtl8139Init
  <2>1. FramesInv'
    BY <1>1, <1>2, InitSends
  <2>2. NetCall /\ arrived' = arrived /\ checksums' = checksums
    BY <1>2 DEF Rtl8139Init
  <2>3. RingOrAstray' /\ BufferInv'
    BY <1>1, <1>2, <1>13, InitRing
  <2>4. SumsInv' /\ CountsInv'
    BY <1>1, <2>2, SumsStay, CountsGrow
  <2>5. QED BY <2>1, <2>3, <2>4 DEF NetInv
<1>3. CASE SendArpRequest
  <2>1. NetCall /\ UNCHANGED ring /\ checksums' = checksums /\ UNCHANGED tcp /\ Sends({Frame("arp", "gateway", 0, 0)})
    BY <1>3 DEF SendArpRequest, Sends
  <2>2. FramesInv'
    BY <1>1, <2>1, Sending
  <2>3. QED BY <2>1, <2>2, CallKeeps
<1>4. ASSUME NEW h \in Hosts, SendPing(h) PROVE NetInv'
  <2>1. NetCall /\ UNCHANGED ring /\ checksums' = checksums /\ UNCHANGED tcp /\ Sends({Frame("echo", h, 0, 0)})
    BY <1>4 DEF SendPing, Sends
  <2>2. FramesInv'
    BY <1>1, <2>1, Sending
  <2>3. QED BY <2>1, <2>2, CallKeeps
<1>5. ASSUME NEW h \in Hosts, MiniCurl(h) PROVE NetInv'
  <2>1. NetCall /\ UNCHANGED ring /\ checksums' = checksums /\ UNCHANGED tcp /\ Sends({Frame("syn", h, tcp_seq, 0)})
    BY <1>5 DEF MiniCurl, Sends
  <2>2. FramesInv'
    BY <1>1, <2>1, Sending
  <2>3. QED BY <2>1, <2>2, CallKeeps
<1>6. CASE HostAnswers
  <2>1. FramesInv'
    BY <1>1, <1>6, HostsAnswer
  <2>2. UNCHANGED ring /\ checksums' = checksums /\ calls' = calls
    BY <1>6 DEF HostAnswers
  <2>3. arrived' = arrived
    BY <2>2 DEF ring
  <2>4. RingOrAstray' /\ BufferInv' /\ SumsInv' /\ CountsInv'
    BY <1>1, <2>2, <2>3, RingOrAstrayStays, SumsStay, CountsStay
  <2>5. QED BY <2>1, <2>4 DEF NetInv
<1>7. CASE Rtl8139Handler
  <2>1. FramesInv'
    BY <1>1, <1>7, <1>13, FrameTaken
  <2>2. unread \in Seq(inbound) /\ \A f \in inbound : f.kind \in FrameKinds
    BY <1>1 DEF FramesInv, Came
  <2>3. RingInv'
    BY <1>7, <1>13, <2>2, RingTakes
  <2>4. /\ arrived' = arrived /\ checksums' = checksums /\ calls' = calls
        /\ astray' = astray /\ rx_buffer' = rx_buffer
    BY <1>7 DEF Rtl8139Handler
  <2>5. SumsInv' /\ CountsInv' /\ RingOrAstray' /\ BufferInv'
    BY <1>1, <1>13, <2>3, <2>4, SumsStay, CountsStay DEF RingOrAstray, BufferInv
  <2>6. QED BY <2>1, <2>5 DEF NetInv
<1>8. ASSUME NEW f \in inbound, CardReceives(f) PROVE NetInv'
  <2>1. FramesInv'
    BY <1>1, <1>8, FrameComes
  <2>2. unread \in Seq(inbound) /\ f.kind \in FrameKinds
    BY <1>1 DEF FramesInv, Came
  <2>3. RingInv'
    BY <1>8, <1>13, <2>2, RingReceives
  <2>4. astray' = astray /\ checksums' = checksums /\ calls' = calls /\ arrived < MaxFrames /\ arrived' = arrived + 1
    BY <1>8 DEF CardReceives
  <2>5. SumsInv'
    BY <1>1, <2>4, SumsStay
  <2>6. CountsInv'
    BY <1>1, <2>4, NetworkAssumption DEF CountsInv
  <2>7. RingOrAstray' /\ BufferInv'
    BY <1>1, <1>8, <1>13, <2>2, <2>3, <2>4, BufferKeeps DEF RingOrAstray
  <2>8. QED BY <2>1, <2>5, <2>6, <2>7 DEF NetInv
<1>9. ASSUME NEW bytes \in ChecksumData, Checksum(bytes) PROVE NetInv'
  <2>1. /\ UNCHANGED ring /\ UNCHANGED tcp /\ UNCHANGED seen /\ UNCHANGED <<wire, inbound>> /\ calls' = calls
        /\ checksums' = <<bytes, NetChecksum(bytes), CalculateChecksum(bytes)>>
    BY <1>9 DEF Checksum
  <2>2. unread' = unread /\ arrived' = arrived
    BY <2>1 DEF ring
  <2>3. RingOrAstray' /\ BufferInv' /\ FramesInv' /\ CountsInv'
    BY <1>1, <2>1, <2>2, RingOrAstrayStays, FramesStay, CountsStay
  <2>4. SumsInv'
    BY <2>1 DEF SumsInv, NetChecksum, CalculateChecksum, NetSum, ProcessorSum, Folded, Words
  <2>5. QED BY <2>3, <2>4 DEF NetInv
<1>10. ASSUME NEW last, StartPing(last) PROVE NetInv'
  <2>1. NetCall /\ UNCHANGED ring /\ UNCHANGED tcp /\ UNCHANGED seen /\ UNCHANGED <<wire, inbound>> /\ checksums' = checksums
    BY <1>10 DEF StartPing
  <2>2. unread' = unread
    BY <2>1 DEF ring
  <2>3. FramesInv'
    BY <1>1, <2>1, <2>2, FramesStay
  <2>4. QED BY <2>1, <2>3, CallKeeps
<1>11. CASE PollRx
  BY <1>11, NetInvStays DEF PollRx
<1>12. QED BY <1>2, <1>3, <1>4, <1>5, <1>6, <1>7, <1>8, <1>9, <1>10, <1>11 DEF NetNext, RunRealPing, DoPing

(* The invariant says what the run checks. *)
LEMMA NetInvSays == ASSUME NetInv PROVE NetworkWorks
<1>1. RingOrAstray /\ BufferInv /\ FramesInv /\ SumsInv /\ CountsInv
  BY DEF NetInv
<1>2. unread \in Seq(inbound)
  BY <1>1 DEF FramesInv
<1>3. NetTypeOK
  <2>1. PICK r \in Nat, n \in Nat, m \in Nat : r = RingLen /\ n = Numbers /\ m = UINT16_MAX /\ m + 1 = 65536
    BY NetworkAssumption DEF UINT16_MAX
  <2>2. rx_ptr \in 0 .. (r - 1) /\ cardPtr \in 0 .. (r - 1)
    BY <1>1, <2>1, RingLenIs DEF RingInv, RingOrAstray, OutOfStep
  <2>3. capr \in 0 .. m
    BY <1>1, <2>1 DEF RingInv, Followed, Tells, RingOrAstray, OutOfStep
  <2>4. tcp_seq \in 0 .. (n - 1) /\ tcp_ack \in 0 .. (n - 1)
    BY <1>1, <2>1 DEF FramesInv, NumberOf
  <2>5. arrived \in 0 .. MaxFrames /\ calls \in 0 .. MaxCalls
    BY <1>1, NetworkAssumption DEF CountsInv
  <2>6. astray \in BOOLEAN
    BY <1>1, Zenon DEF RingOrAstray
  <2>7. QED BY <2>1, <2>2, <2>3, <2>4, <2>5, <2>6 DEF NetTypeOK
<1>4. ASSUME ~astray
      PROVE  IF unread = << >> THEN rx_ptr = cardPtr
             ELSE rx_ptr \in DOMAIN rx_buffer /\ rx_buffer[rx_ptr] = Head(unread)
  <2>1. unread # << >> => Head(unread) = unread[1]
    BY <1>2
  <2>2. RingInv
    BY <1>1, <1>4 DEF RingOrAstray
  <2>3. QED BY <1>2, <2>1, <2>2, DriverFinds
<1>5. ~astray => DriverAt = rx_ptr
  BY <1>1, DriverIs DEF RingOrAstray
<1>11. ASSUME NEW o \in DOMAIN rx_buffer PROVE o + 4 + FrameLens[rx_buffer[o].kind] <= RxBytes + Spill
  <2>1. o \in Nat /\ o < RingLen /\ o % 4 = 0 /\ rx_buffer[o].kind \in FrameKinds
    BY <1>1 DEF BufferInv
  <2>2. PICK len \in Nat, r \in Nat, b \in Nat :
          len = FrameLens[rx_buffer[o].kind] /\ r = RingLen /\ b = RxBytes + Spill /\ r % 4 = 0 /\ r + len <= b
    <3>1. FrameLens[rx_buffer[o].kind] \in 4 .. (RingLen \div 2)
      BY <2>1, NetworkAssumption
    <3>2. QED BY <2>1, <3>1, NetworkAssumption DEF Spill
  <2>3. o + 4 <= r
    BY <2>1, <2>2, BeforeTheEnd
  <2>4. QED BY <2>1, <2>2, <2>3
<1>6. ASSUME checksums # << >>
      PROVE  /\ Total(checksums[2], Words(checksums[1])) % UINT16_MAX = 0
             /\ Total(checksums[3], Words(checksums[1])) % UINT16_MAX = 0
  <2>1. PICK bytes \in ChecksumData : checksums = <<bytes, NetChecksum(bytes), CalculateChecksum(bytes)>>
    BY <1>1, <1>6 DEF SumsInv
  <2>2. bytes \in Seq(Byte)
    BY NetworkAssumption DEF Byte
  <2>3. PICK ws \in Pairs : ws = Words(bytes)
    BY <2>2, WordsArePairs
  <2>4. Total(NetChecksum(bytes), ws) % UINT16_MAX = 0 /\ Total(CalculateChecksum(bytes), ws) % UINT16_MAX = 0
    BY <2>2, <2>3, SumsAgree
  <2>5. checksums[1] = bytes /\ checksums[2] = NetChecksum(bytes) /\ checksums[3] = CalculateChecksum(bytes)
    BY <2>1
  <2>6. QED BY <2>3, <2>4, <2>5
<1>7. \A g \in wire : g.kind = "get" =>
        /\ g.ack = (ISN[g.host] + 1) % Numbers
        /\ \E s \in wire : s.kind = "syn" /\ s.host = g.host /\ g.seq = (s.seq + 1) % Numbers
  BY <1>1 DEF FramesInv, Follows
<1>8. shownWeb = Printed(taken)
  BY <1>1 DEF FramesInv
<1>9. NetworkSound
  BY <1>4, <1>5, <1>6, <1>7, <1>8, <1>11 DEF NetworkSound
<1>10. QED BY <1>3, <1>9 DEF NetworkWorks

(* Frames, sums and numbers, whatever part of the devices is run. *)
THEOREM NetworkIsSound == Spec => []NetworkWorks
<1>1. Init => NetInv
  BY NetInvInit DEF Init
<1>2. NetInv /\ [Next]_mcVars => NetInv'
  <2>1. SUFFICES ASSUME NetInv, [Next]_mcVars PROVE NetInv'
    OBVIOUS
  <2>2. CASE NetNext
    BY <2>1, <2>2, NetInvStep
  <2>3. CASE UNCHANGED netVars
    <3>1. UNCHANGED ring /\ UNCHANGED <<wire, inbound, checksums, calls>> /\ UNCHANGED tcp /\ UNCHANGED seen
      BY <2>3 DEF netVars, ring, tcp, seen
    <3>2. QED BY <2>1, <3>1, NetInvStays
  <2>4. QED BY <2>1, <2>2, <2>3 DEF Next, mcVars
<1>3. NetInv => NetworkWorks
  BY NetInvSays
<1>4. QED BY <1>1, <1>2, <1>3, PTL DEF Spec
=============================================================================
