--------------------------- MODULE KernelServices ---------------------------
(***************************************************************************)
(* KernelServices: small services of the kernel: notifier chains           *)
(* (arch/x86/notifier.c), the eBPF machine (kernel/bpf/ebpf_vm.c), options *)
(* on the command line (arch/x86/cmdline.c), the table of sysctl.c, the    *)
(* victims of oom_killer.c and the power states of kernel/power.           *)
(***************************************************************************)
EXTENDS Integers, Sequences, SequencesExt, FiniteSets, FiniteSetsExt

CONSTANTS
  Blocks, Priority,  \* notifier blocks, and the priority of each
  Bpfs,              \* eBPF programs, sequences of [code, dst, src, imm]
  CommandLines,      \* sequences of characters
  Options,           \* names, sequences of characters
  OptionSpace,       \* bufsize of cmdline_find_option
  SysctlTexts,       \* sequences of digits, Minus and other numbers for other characters
  Procs,             \* proc_table: pid |-> [pages_used, protected]
  MaxServices        \* bound: calls in a run

Nil == "nil"

ServicesAssumption ==
  /\ IsFiniteSet(Blocks) /\ Nil \notin Blocks /\ Priority \in [Blocks -> Int]
  /\ \A p \in DOMAIN Procs : Procs[p].pages_used \in Nat
  /\ OptionSpace \in Nat \ {0} /\ MaxServices \in Nat
ASSUME ServicesAssumption

VARIABLES
  head, next,      \* a chain: its first block, and the one after each
  call,            \* notifier_call_chain under way: the block it runs, "nil" if none
  visited,         \* history: blocks this call ran
  stopped,         \* history: one of them answered NOTIFY_BAD
  stayed,          \* history: blocks registered ever since this call began
  order,           \* history: blocks registered, the oldest first
  helpers,         \* id |-> what its helper returns
  bpf,             \* the last program run, with its helpers and its result
  option,          \* the last option looked up, with the answers
  sysctl,          \* parameter |-> [type, value, writable, text]
  procs,           \* pid |-> pages in use
  killed,          \* history: victims, in order
  power,           \* frequency, idle ticks and the last sleep state
  services         \* calls so far

chainVars == <<head, next, call, visited, stopped, stayed, order>>
machineVars == <<helpers, bpf, option, sysctl, procs, killed, power>>
servicesVars == <<chainVars, machineVars, services>>

Serve == services < MaxServices /\ services' = services + 1

-----------------------------------------------------------------------------
(* Notifier chains *)

\* The blocks that a walk from block first along the links after meets
Walked(first, after) ==
  LET f[k \in 0..Cardinality(Blocks)] ==
        IF k = 0 THEN <<>>
        ELSE LET at == IF k = 1 THEN first ELSE IF f[k - 1] = <<>> THEN Nil ELSE after[Last(f[k - 1])]
             IN IF at = Nil \/ Len(f[k - 1]) < k - 1 THEN f[k - 1] ELSE Append(f[k - 1], at)
  IN f[Cardinality(Blocks)]
Chain == Walked(head, next)
\* How old a registration is, in the sequence of them
Age(seq, b) == CHOOSE i \in DOMAIN seq : seq[i] = b

GoesBefore_OrSame(n, b) == Priority[n] >= Priority[b]
GoesBefore(n, b) == Priority[n] > Priority[b]

\* The block behind which n goes, Nil for the head
Behind(n) ==
  LET passed == { i \in DOMAIN Chain : \A j \in 1..i : ~GoesBefore(n, Chain[j]) }
  IN IF passed = {} THEN Nil ELSE Chain[Max(passed)]

\* A callback that took its own block out changes the chain no more: its next
\* still leads on only if that block stays where it is
MayChange == call # Nil => Contains(Chain, call)

\* A block is registered once at a time
NotifierRegister(n) ==
  /\ Serve /\ MayChange /\ ~Contains(Chain, n)
  /\ IF Behind(n) = Nil
     THEN head' = n /\ next' = [next EXCEPT ![n] = head]
     ELSE head' = head /\ next' = [next EXCEPT ![n] = next[Behind(n)], ![Behind(n)] = n]
  /\ order' = Append(order, n)
  /\ UNCHANGED <<call, visited, stopped, stayed>> /\ UNCHANGED machineVars

\* The callback that runs may be the one that takes a block out, its own too
NotifierUnregister(n) ==
  /\ Serve /\ MayChange /\ Contains(Chain, n)
  /\ IF head = n THEN head' = next[n] /\ next' = next
     ELSE LET before == CHOOSE b \in ToSet(Chain) : next[b] = n
          IN head' = head /\ next' = [next EXCEPT ![before] = next[n]]
  /\ order' = RemoveAt(order, Age(order, n)) /\ stayed' = stayed \ {n}
  /\ UNCHANGED <<call, visited, stopped>> /\ UNCHANGED machineVars

CallChain ==
  /\ Serve /\ call = Nil /\ head # Nil
  /\ call' = head /\ visited' = <<head>> /\ stopped' = FALSE /\ stayed' = ToSet(Chain)
  /\ UNCHANGED <<head, next, order>> /\ UNCHANGED machineVars

\* A callback returns: NOTIFY_STOP_MASK ends the call
CallbackReturns(ret) ==
  /\ call # Nil
  /\ IF ret = "BAD" THEN call' = Nil /\ stopped' = TRUE /\ visited' = visited
     ELSE /\ call' = next[call] /\ stopped' = stopped
          /\ visited' = IF next[call] = Nil THEN visited ELSE Append(visited, next[call])
  /\ UNCHANGED <<head, next, stayed, order, services>> /\ UNCHANGED machineVars

-----------------------------------------------------------------------------
(* The eBPF machine.  A word has 64 bits; Word stands for 2^64.             *)

Word == 65536
HelperIds == 0..15
EbpfRegisterHelper(id, value) ==
  /\ Serve
  /\ helpers' = IF id \in HelperIds THEN [h \in DOMAIN helpers \union {id} |-> IF h = id THEN value ELSE helpers[h]]
                ELSE helpers
  /\ UNCHANGED <<bpf, option, sysctl, procs, killed, power>> /\ UNCHANGED chainVars

Alu_MovAdds(code, d, s, imm) ==
  (CASE code = "MOV_K" -> imm [] code = "ADD_K" -> d + imm [] code = "SUB_K" -> d - imm
     [] code = "MOV_X" -> d + s [] code = "ADD_X" -> d + s) % Word
Alu(code, d, s, imm) ==
  (CASE code = "MOV_K" -> imm [] code = "ADD_K" -> d + imm [] code = "SUB_K" -> d - imm
     [] code = "MOV_X" -> s [] code = "ADD_X" -> d + s) % Word

\* One instruction of ebpf_run; a store goes to memory that no instruction reads
Executed(m, insn) ==
  IF m.done \/ insn.code = "STX" THEN m
  ELSE CASE insn.code = "CALL" -> IF insn.imm \in DOMAIN helpers THEN [m EXCEPT !.regs[0] = helpers[insn.imm]]
                                  ELSE [m EXCEPT !.done = TRUE, !.regs[0] = 0]
         [] insn.code = "EXIT" -> [m EXCEPT !.done = TRUE]
         [] insn.code = "UNKNOWN" -> [m EXCEPT !.done = TRUE, !.regs[0] = 0]
         [] OTHER -> [m EXCEPT !.regs[insn.dst] = Alu(insn.code, @, m.regs[insn.src], insn.imm)]

StackTop == 512
Ctx == 7
EntryRegs == [r \in 0..10 |-> IF r = 1 THEN Ctx ELSE IF r = 10 THEN StackTop ELSE 0]
EbpfRun(prog) ==
  /\ Serve
  /\ bpf' = [prog |-> prog, with |-> helpers,
             ret |-> FoldLeft(Executed, [regs |-> EntryRegs, done |-> FALSE], prog).regs[0]]
  /\ UNCHANGED <<helpers, option, sysctl, procs, killed, power>> /\ UNCHANGED chainVars

-----------------------------------------------------------------------------
(* Options on the command line *)

Blank(c) == c = " "
\* Where the words start, and the end of one
Starts(line) == { i \in DOMAIN line : ~Blank(line[i]) /\ (i = 1 \/ Blank(line[i - 1])) }
WordEnd(line, i) == Min({ j \in i..(Len(line) + 1) : j = Len(line) + 1 \/ Blank(line[j]) })
\* ptr behind the comparison of the option with the word that starts at i
Compared(line, i, opt) ==
  LET same(k) == i + k - 1 \in DOMAIN line /\ line[i + k - 1] = opt[k]
  IN Max({ k \in 0..Len(opt) : \A j \in 1..k : same(j) })
CharAt(line, i) == IF i \in DOMAIN line THEN line[i] ELSE ""

\* cmdline_find_option: -1, or the length of the value and as much of it as fits
CmdlineFindOption(line, opt) ==
  LET hits == { i \in Starts(line) : Compared(line, i, opt) = Len(opt) /\ CharAt(line, i + Len(opt)) = "=" }
  IN IF hits = {} THEN [len |-> -1, buffer |-> <<>>]
     ELSE LET v == Min(hits) + Len(opt) + 1
              len == WordEnd(line, v) - v
          IN [len |-> len, buffer |-> SubSeq(line, v, v + Min({len, OptionSpace - 1}) - 1)]
CmdlineFindOptionBool(line, opt) ==
  \E i \in Starts(line) : Compared(line, i, opt) = Len(opt) /\ CharAt(line, i + Len(opt)) \in {"", " "}

LookUp(line, opt) ==
  /\ Serve
  /\ option' = [line |-> line, opt |-> opt, found |-> CmdlineFindOption(line, opt),
                set |-> CmdlineFindOptionBool(line, opt)]
  /\ UNCHANGED <<helpers, bpf, sysctl, procs, killed, power>> /\ UNCHANGED chainVars

-----------------------------------------------------------------------------
(* sysctl, the out of memory killer, power *)

SysctlTable ==
  [n \in {"kernel.debug", "security.pledge_log"} |->
     [type |-> "INT", value |-> 1, writable |-> TRUE, text |-> <<1>>]]
\* sysctl_atoi of a text of digits, Minus and other characters
Minus == 10
SysctlAtoi(s) ==
  LET first == IF s # <<>> /\ s[1] = Minus THEN 2 ELSE 1
      end == Min({ i \in first..(Len(s) + 1) : i = Len(s) + 1 \/ s[i] \notin 0..9 })
      value[i \in Nat] == IF i < first THEN 0 ELSE value[i - 1] * 10 + s[i]
  IN IF first = 2 THEN -value[end - 1] ELSE value[end - 1]
\* sysctl_set; text is history
SysctlSet(name, text) ==
  /\ Serve /\ sysctl[name].writable
  /\ sysctl' = [sysctl EXCEPT ![name].value = SysctlAtoi(text), ![name].text = text]
  /\ UNCHANGED <<helpers, bpf, option, procs, killed, power>> /\ UNCHANGED chainVars
\* sysctl_get: 0 and the value, -3 for another type, -2 for a name not in the table
SysctlGet(name, type) ==
  IF name \notin DOMAIN sysctl THEN <<-2>>
  ELSE IF sysctl[name].type # type THEN <<-3>> ELSE <<0, sysctl[name].value>>

\* oom_select_bad_process: the first one with the most pages
Candidates == { p \in DOMAIN procs : ~Procs[p].protected /\ procs[p] > 0 }
Worst(p) == \A q \in Candidates : procs[q] < procs[p] \/ (procs[q] = procs[p] /\ p <= q)
OutOfMemoryRescue ==
  /\ Serve /\ Candidates # {}
  /\ \E p \in Candidates : Worst(p) /\ procs' = [procs EXCEPT ![p] = 0] /\ killed' = Append(killed, p)
  /\ UNCHANGED <<helpers, bpf, option, sysctl, power>> /\ UNCHANGED chainVars

MinFreq == 2000
MaxFreq == 3500
\* cpufreq_set_governor: "powersave" begins with the 'p' of "performance"
Frequency(mode) == IF mode \in {"performance", "powersave"} THEN MaxFreq ELSE (MaxFreq + MinFreq) \div 2
SetGovernor(mode) ==
  /\ Serve /\ power' = [power EXCEPT !.freq = Frequency(mode)]
  /\ UNCHANGED <<helpers, bpf, option, sysctl, procs, killed>> /\ UNCHANGED chainVars

\* cpuidle_select_state and cpuidle_enter_state
IdleState(latency) == IF latency < 100 THEN 0 ELSE IF latency < 1000 THEN 2 ELSE 3
CpuIdle(latency) ==
  /\ Serve
  /\ LET idle == CASE IdleState(latency) = 0 -> 0 [] IdleState(latency) = 2 -> 5 [] OTHER -> 15
     IN power' = [power EXCEPT !.ticks = @ + idle]
  /\ UNCHANGED <<helpers, bpf, option, sysctl, procs, killed>> /\ UNCHANGED chainVars

\* acpi_enter_sleep_state: S0, S2 and S4 are refused
SleepType == [s \in {1, 3, 5} |-> CASE s = 1 -> 1 [] s = 3 -> 2 [] s = 5 -> 0]
AcpiEnterSleepState(s) ==
  /\ Serve /\ s \in DOMAIN SleepType
  /\ power' = [power EXCEPT !.slp_typ = SleepType[s]]
  /\ UNCHANGED <<helpers, bpf, option, sysctl, procs, killed>> /\ UNCHANGED chainVars

ServicesInit ==
  /\ head = Nil /\ next = [b \in Blocks |-> Nil]
  /\ call = Nil /\ visited = <<>> /\ stopped = FALSE /\ stayed = {} /\ order = <<>>
  /\ helpers = [h \in {0, 1} |-> h + 20] /\ bpf = [prog |-> <<>>, with |-> <<>>, ret |-> 0]
  /\ option = [line |-> <<>>, opt |-> <<"a">>, found |-> [len |-> -1, buffer |-> <<>>], set |-> FALSE]
  /\ sysctl = SysctlTable
  /\ procs = [p \in DOMAIN Procs |-> Procs[p].pages_used] /\ killed = <<>>
  /\ power = [freq |-> Frequency("ondemand"), ticks |-> 0, slp_typ |-> -1]
  /\ services = 0

ChainNext ==
  \/ \E n \in Blocks : NotifierRegister(n) \/ NotifierUnregister(n)
  \/ CallChain \/ \E ret \in {"DONE", "OK", "BAD"} : CallbackReturns(ret)
EbpfNext ==
  \/ \E id \in {2, 16} : EbpfRegisterHelper(id, 42)
  \/ \E prog \in Bpfs : EbpfRun(prog)
CmdlineNext == \E line \in CommandLines, opt \in Options : LookUp(line, opt)
PolicyNext ==
  \/ \E name \in DOMAIN SysctlTable, text \in SysctlTexts : SysctlSet(name, text)
  \/ OutOfMemoryRescue
  \/ \E mode \in {"performance", "powersave", "ondemand"} : SetGovernor(mode)
  \/ \E latency \in {50, 500, 5000} : CpuIdle(latency)
  \/ \E s \in {1, 3, 5} : AcpiEnterSleepState(s)
ServicesNext == ChainNext \/ EbpfNext \/ CmdlineNext \/ PolicyNext

-----------------------------------------------------------------------------
ComesFirst(seq, a, b) ==
  Priority[a] > Priority[b] \/ (Priority[a] = Priority[b] /\ Age(seq, a) < Age(seq, b))

\* A chain is its registrations by priority, the older first among equals, and a
\* call that is over without NOTIFY_BAD has run every block that was registered
\* all along once, in that order, whatever its callbacks add and take out meanwhile,
\* their own block last (notifier_chain_register, _unregister, notifier_call_chain).
ChainWhole ==
  /\ ToSet(Chain) = ToSet(order) /\ Len(Chain) = Len(order)
  /\ \A i, j \in DOMAIN Chain : i < j => ComesFirst(order, Chain[i], Chain[j])
  /\ call = Nil /\ ~stopped => stayed \subseteq ToSet(visited)
  /\ \A i, j \in DOMAIN visited :
       i < j /\ {visited[i], visited[j]} \subseteq stayed => ComesFirst(order, visited[i], visited[j])

\* A program returns what the last write before its end left in register 0, where
\* a register is looked up from the end back to its writer (ebpf_run).
Written(prog, with) ==
  LET n == Len(prog)
      writes(i, r) == prog[i].code \notin {"STX", "EXIT", "UNKNOWN"}
                      /\ (IF prog[i].code = "CALL" THEN r = 0 ELSE r = prog[i].dst)
      value[i \in 0..n, r \in 0..10] ==
        LET w == { j \in 1..i : writes(j, r) } IN
        IF w = {} THEN EntryRegs[r]
        ELSE LET insn == prog[Max(w)] p == Max(w) - 1 IN
             CASE insn.code = "CALL" -> with[insn.imm]
               [] insn.code = "MOV_K" -> insn.imm % Word
               [] insn.code = "ADD_K" -> (value[p, r] + insn.imm) % Word
               [] insn.code = "SUB_K" -> (value[p, r] + Word - insn.imm) % Word
               [] insn.code = "MOV_X" -> value[p, insn.src]
               [] insn.code = "ADD_X" -> (value[p, r] + value[p, insn.src]) % Word
      faults == { i \in 1..n : prog[i].code = "UNKNOWN" \/ (prog[i].code = "CALL" /\ prog[i].imm \notin DOMAIN with) }
      exits == { i \in 1..n : prog[i].code = "EXIT" }
      end == Min({n + 1} \union faults \union exits)
  IN IF end \in faults THEN 0 ELSE value[end - 1, 0]
EbpfAgrees == bpf.ret = Written(bpf.prog, bpf.with)

\* An option is found exactly in the words opt=value of the line, in the first of
\* them if there are several, and a flag only as a whole word (cmdline_find_option and _bool).
CmdlineAgrees ==
  LET line == option.line
      WordAt(i) == SubSeq(line, i, WordEnd(line, i) - 1)
      Fits(i) == IsPrefix(Append(option.opt, "="), WordAt(i))
  IN /\ option.set <=> \E i \in Starts(line) : WordAt(i) = option.opt
     /\ option.found.len < 0 => \A i \in Starts(line) : ~Fits(i)
     /\ option.found.len >= 0 =>
          /\ \E i \in Starts(line) :
               /\ Fits(i) /\ \A j \in Starts(line) : Fits(j) => i <= j
               /\ IsPrefix(option.opt \o <<"=">> \o option.found.buffer, WordAt(i))
               /\ Len(WordAt(i)) = Len(option.opt) + 1 + option.found.len
          /\ Len(option.found.buffer) < OptionSpace

\* What sysctl_get answers is the number that the last sysctl_set began with, its
\* sign in front of it, however it goes on (sysctl_atoi).
SysctlReadsBack ==
  \A name \in DOMAIN sysctl :
    LET text == sysctl[name].text
        unsigned == IF text # <<>> /\ text[1] = Minus THEN Tail(text) ELSE text
        n == Max({ k \in 0..Len(unsigned) : \A i \in 1..k : unsigned[i] < 10 })
        Weighted(i) == unsigned[i] * 10^(n - i)
        number == MapThenSumSet(Weighted, 1..n)
    IN SysctlGet(name, "INT") = <<0, IF unsigned = text THEN number ELSE -number>>

\* The out of memory killer never takes a protected process, nor one twice, and
\* always one with no more pages than the victim before (oom_select_bad_process).
VictimsFair ==
  /\ \A i \in DOMAIN killed : ~Procs[killed[i]].protected
  /\ \A i, j \in DOMAIN killed : i < j =>
       killed[i] # killed[j] /\ Procs[killed[i]].pages_used >= Procs[killed[j]].pages_used
=============================================================================
