------------------------------ MODULE Programs ------------------------------
(***************************************************************************)
(* Programs and modules in memory: ELF files (arch/x86/elf.c and the       *)
(* command run), flat binaries (arch/x86/loader.c, kernel/exec.c) and      *)
(* modules that are linked to the kernel (kernel/lkm.c, kernel/module.c).  *)
(* Memory is one function of addresses to words, and keeps what was left   *)
(* in it; a buffer or a section takes one page (a bound).                  *)
(***************************************************************************)
EXTENDS Integers, Sequences, SequencesExt, FiniteSets, FiniteSetsExt, TLC

CONSTANTS
  PageWords,    \* words of a page
  PoolWords,    \* words from address 0 on, where programs are linked to run
  FreePages,    \* pages behind them that can be had
  Elfs,         \* [ok, segments, words], a segment being [vaddr, offset, filesz, memsz]
  Binaries,     \* flat files, sequences of words
  Args,         \* argument lists
  Modules,      \* [ok, sections, rels, init], see LkmLoadModule
  Symtab,       \* g_sys_symtab: name |-> address
  MAX_MODULES,
  MaxLoads      \* bound: programs and modules in a run

ASSUME ProgramsAssumption ==
  PageWords \in Nat \ {0} /\ PoolWords \in Nat /\ MAX_MODULES \in Nat /\ MaxLoads \in Nat

VARIABLES
  pmem,           \* address |-> word
  pages,          \* pages that are free
  spoiled,        \* history: words that a kfree or a failed sys_exec wrote over
  running,        \* programs under way, the last on top: [how, at, image]
  lkms,           \* modules linked: [module, at] with section |-> address
  loaded_modules, \* of sys_insmod
  loads

programVars == <<pmem, pages, spoiled, running, lkms, loaded_modules, loads>>

Stale == 99
NoModule == "none"
PageAt(p) == PoolWords + p * PageWords
Addresses == 0..(PoolWords + Cardinality(FreePages) * PageWords - 1)

ProgramsInit ==
  /\ pmem = [a \in Addresses |-> Stale]
  /\ pages = FreePages /\ spoiled = {} /\ running = <<>> /\ lkms = <<>> /\ loaded_modules = <<>> /\ loads = 0

Load == loads < MaxLoads /\ loads' = loads + 1
\* A flat program is called and runs with interrupts off: nothing starts before
\* its end
CanStart == \A i \in DOMAIN running : running[i].how /= "flat"
\* memcpy and memset of words from an address on
Copied(mem, at, words) ==
  [a \in Addresses |-> IF a \in at..(at + Len(words) - 1) THEN words[a - at + 1] ELSE mem[a]]
Zeros(n) == [i \in 1..n |-> 0]
Zeroed(mem, at, n) == Copied(mem, at, Zeros(n))

\* kfree of a buffer of kmalloc gives no page back: it sets is_free of a header
\* that is not there, which is the word below the page
HeaderOf(p) == PageAt(p) - 1
Kfreed(mem, p) == Copied(mem, HeaderOf(p), <<1>>)
\* The page p is written anew, or spoiled below by its kfree
Staged(p) == pages' = pages \ {p} /\ spoiled' = spoiled \ (PageAt(p)..(PageAt(p + 1) - 1))
FreedAgain(p) == pages' = pages \ {p} /\ spoiled' = spoiled \union {HeaderOf(p)}

-----------------------------------------------------------------------------
(* ELF files *)

SegmentLoaded_NoBss(mem, s, words) == Copied(mem, s.vaddr, SubSeq(words, s.offset + 1, s.offset + s.filesz))
\* One PT_LOAD of elf_load: what the file has of it, then zeros
SegmentLoaded(mem, s, words) ==
  LET copied == Copied(mem, s.vaddr, SubSeq(words, s.offset + 1, s.offset + s.filesz))
  IN IF s.memsz > s.filesz THEN Zeroed(copied, s.vaddr + s.filesz, s.memsz - s.filesz) ELSE copied

\* elf_load: the program in memory, nothing of it if the file is of another kind
ElfLoad(mem, f) ==
  IF f.ok THEN FoldLeft(LAMBDA now, s : SegmentLoaded(now, s, f.words), mem, f.segments) ELSE mem

\* cmd_run with elf_load.  A read that fails goes unnoticed, and elf_load finds
\* what was in the page, no file.  A file of the wrong kind is given up and its
\* buffer freed; else asm_jump_to_user never returns, and the buffer stays taken.
CmdRun(f) ==
  /\ Load /\ CanStart /\ pages /= {}
  /\ LET p == Min(pages)
         staged == Copied(pmem, PageAt(p), f.words)
         loaded == UNION { s.vaddr..(s.vaddr + s.memsz - 1) : s \in ToSet(f.segments) }
     IN \/ /\ f.ok /\ pmem' = ElfLoad(staged, f)
           /\ pages' = pages \ {p}
           /\ spoiled' = (spoiled \ loaded) \ (PageAt(p)..(PageAt(p + 1) - 1))
           /\ running' = Append(running, [how |-> "elf", at |-> p, image |-> f])
        \/ /\ \/ ~f.ok /\ pmem' = Kfreed(ElfLoad(staged, f), p)
              \/ pmem' = Kfreed(pmem, p)
           /\ FreedAgain(p) /\ UNCHANGED running
  /\ UNCHANGED <<lkms, loaded_modules>>

-----------------------------------------------------------------------------
(* Flat files *)

\* x86_execute_flat_binary, and load_and_run_init for /HELLO.BIN: the read may fail
ExecuteFlat(words) ==
  /\ Load /\ CanStart /\ pages /= {} /\ words /= <<>>
  /\ LET p == Min(pages)
         zeroed == Zeroed(pmem, PageAt(p), Len(words))
     IN \/ /\ pmem' = Copied(zeroed, PageAt(p), words)
           /\ Staged(p)
           /\ running' = Append(running, [how |-> "flat", at |-> p, image |-> words])
        \/ pmem' = Kfreed(zeroed, p) /\ FreedAgain(p) /\ UNCHANGED running
  /\ UNCHANGED <<lkms, loaded_modules>>
\* ... and its return
FlatReturns ==
  /\ running /= <<>> /\ Last(running).how = "flat"
  /\ running' = Front(running)
  /\ pmem' = Kfreed(pmem, Last(running).at) /\ FreedAgain(Last(running).at)
  /\ UNCHANGED <<lkms, loaded_modules, loads>>

\* sys_exec: at address 0, where the programs before it were, with a page more
\* cleared behind the file, where the arguments go from its quarter on.  The read
\* may fail when all that is cleared already.
ArgsAt(words) == Len(words) + PageWords \div 4
SysExec(words, args) ==
  /\ Load /\ CanStart /\ words /= <<>>
  /\ LET n == Len(words) + PageWords
         zeroed == Zeroed(pmem, 0, n)
     IN \/ /\ pmem' = Copied(Copied(zeroed, 0, words), ArgsAt(words), args)
           /\ spoiled' = spoiled \ (0..(n - 1))
           /\ running' = <<[how |-> "exec", at |-> 0, image |-> [words |-> words, args |-> args]]>>
        \/ pmem' = zeroed /\ spoiled' = spoiled \union (0..(n - 1)) /\ UNCHANGED running
  /\ UNCHANGED <<pages, lkms, loaded_modules>>

-----------------------------------------------------------------------------
(* Modules.  A section is [alloc, type, words]; a relocation has its target *)
(* section and offset, its type, and its symbol: [section, value] if local, *)
(* else [name].                                                             *)

FindKernelSymbol(name) == IF name \in DOMAIN Symtab THEN Symtab[name] ELSE 0
AllocSections(m) ==
  SelectSeq([i \in DOMAIN m.sections |-> i], LAMBDA i : m.sections[i].alloc /\ m.sections[i].words /= <<>>)

\* Each section that is loaded gets the next page; the address of another stays 0
Placed(m, taken) ==
  LET order == AllocSections(m) IN
  [i \in DOMAIN m.sections |-> IF Contains(order, i) THEN PageAt(taken[IndexFirstSubSeq(<<i>>, order)]) ELSE 0]
SectionLoaded(mem, s, at) ==
  IF s.type = "PROGBITS" THEN Copied(mem, at, s.words)
  ELSE IF s.type = "NOBITS" THEN Zeroed(mem, at, Len(s.words)) ELSE mem
SectionsLoaded(mem, m, at, n) ==
  FoldLeft(LAMBDA now, i : SectionLoaded(now, m.sections[i], at[i]), mem, SubSeq(AllocSections(m), 1, n))

SymbolAt(r, at) == IF r.local THEN at[r.section] + r.value ELSE FindKernelSymbol(r.name)
Resolved(r) == r.local \/ FindKernelSymbol(r.name) /= 0
Patched(mem, r, at) ==
  LET place == at[r.target] + r.offset IN
  [mem EXCEPT ![place] = @ + SymbolAt(r, at) - (IF r.type = "PC32" THEN place ELSE 0)]

\* lkm_load_module.  Each section takes a page and is loaded in turn; the
\* relocations follow until a symbol is not known.  No page is given back when
\* there are no more, when a symbol is missing or when there is no module_init.
LkmLoadModule(m) ==
  /\ Load /\ CanStart
  /\ LET wanted == Len(AllocSections(m))
         n == IF wanted <= Cardinality(pages) THEN wanted ELSE Cardinality(pages)
         taken == SubSeq(SetToSortSeq(pages, LAMBDA p, q : p < q), 1, n)
         at == Placed(m, taken)
         unresolved == { i \in DOMAIN m.rels : ~Resolved(m.rels[i]) }
         done == IF unresolved = {} THEN m.rels ELSE SubSeq(m.rels, 1, Min(unresolved) - 1)
     IN IF ~m.ok THEN UNCHANGED <<pmem, pages, spoiled, lkms>>
        ELSE IF n < wanted
        THEN /\ pages' = {} /\ UNCHANGED <<spoiled, lkms>>
             /\ pmem' = SectionsLoaded(pmem, m, Placed(m, taken \o [i \in 1..(wanted - n) |-> 0]), n)
        ELSE /\ pmem' = FoldLeft(LAMBDA mem, r : Patched(mem, r, at), SectionsLoaded(pmem, m, at, n), done)
             /\ pages' = pages \ ToSet(taken)
             /\ spoiled' = spoiled \ UNION { PageAt(p)..(PageAt(p + 1) - 1) : p \in ToSet(taken) }
             /\ lkms' = IF unresolved = {} /\ m.init THEN Append(lkms, [module |-> m, at |-> at]) ELSE lkms
  /\ UNCHANGED <<running, loaded_modules>>

\* sys_insmod: init may fail; a module may be there twice
SysInsmod(name) ==
  /\ Load /\ CanStart
  /\ \/ Len(loaded_modules) < MAX_MODULES /\ loaded_modules' = Append(loaded_modules, name)
     \/ UNCHANGED loaded_modules
  /\ UNCHANGED <<pmem, pages, spoiled, running, lkms>>

ProgramsNext ==
  \/ \E f \in Elfs : CmdRun(f)
  \/ \E b \in Binaries : ExecuteFlat(b) \/ \E args \in Args : SysExec(b, args)
  \/ FlatReturns
  \/ \E m \in Modules : LkmLoadModule(m)
  \/ SysInsmod("test")

-----------------------------------------------------------------------------
\* What runs is its file: the program started last has its image in memory, with
\* zeros where the file has none, whatever ran there before (elf_load,
\* x86_execute_flat_binary, sys_exec), but for words that a kfree, or a sys_exec
\* whose read failed, has written over since.
Holds(at, words) == \A i \in DOMAIN words : at + i - 1 \in spoiled \/ pmem[at + i - 1] = words[i]
ImageOfTop == running /= <<>> =>
  LET r == Last(running) IN
  CASE r.how = "elf" ->
         \A k \in DOMAIN r.image.segments :
           LET s == r.image.segments[k] IN
           Holds(s.vaddr, SubSeq(r.image.words, s.offset + 1, s.offset + s.filesz) \o Zeros(s.memsz - s.filesz))
    [] r.how = "flat" -> Holds(PageAt(r.at), r.image)
    [] r.how = "exec" ->
         /\ Holds(0, r.image.words) /\ Holds(ArgsAt(r.image.words), r.image.args)
         /\ Holds(ArgsAt(r.image.words) + Len(r.image.args), Zeros(PageWords - PageWords \div 4 - Len(r.image.args)))

\* A linked module keeps, as long as it is there, the words of its sections, with
\* each relocation referring to where the symbol is (lkm_load_module), and no page
\* of it is given to anything else; the kfree of a buffer in the page above may
\* spoil the last word of a page.
ModulesLinked == \A k \in DOMAIN lkms :
  LET m == lkms[k].module  at == lkms[k].at IN
  /\ \A i \in ToSet(AllocSections(m)) : \A w \in DOMAIN m.sections[i].words :
       LET place == at[i] + w - 1
           rs == SelectSeq(m.rels, LAMBDA r : r.target = i /\ r.offset = w - 1)
           addend == IF m.sections[i].type = "PROGBITS" THEN m.sections[i].words[w] ELSE 0
       IN place \in spoiled \/ pmem[place] = IF rs = <<>> THEN addend
                        ELSE addend + SymbolAt(rs[1], at) - (IF rs[1].type = "PC32" THEN place ELSE 0)
  /\ \A i \in ToSet(AllocSections(m)) : \A p \in pages : PageAt(p) /= at[i]

ProgramsSound == ImageOfTop /\ ModulesLinked
=============================================================================
