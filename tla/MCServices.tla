---------------------------- MODULE MCServices ----------------------------
(***************************************************************************)
(* The services of the kernel, side by side: each run takes one of them,   *)
(* which, and the variables of the others stay as they are.  They share no *)
(* state in the code either.                                               *)
(***************************************************************************)
EXTENDS SysTimer, KernelText, KernelLog, SlabCache, LruLists, KernelTasks, KernelServices,
        ShellCommands, Qsh, LineDiscipline, Ciphers

mc_Instants == {0, 9, 10, 99, 100, 999, 1000, 59999, 60000, 3599999, 3600000, 35999999, 36000000,
                86399999, 86400000, 863999999, 864000000}
mc_Patterns == Strings(3, {"a", "b", "*"})
mc_Texts == Strings(3, {"a", "b"})
mc_Sums == {<<"+", 12, -1>>, <<"-", 3, 5>>, <<"*", 2, 25>>, <<"/", 0, -1>>, <<"/", 7, -1>>}
mc_Pieces == {<<"lit", "A">>, <<"lit", "a">>, <<"var", <<"A">>>>, <<"braced", <<"A", "B">>>>, <<"braced", <<"B">>>>}

Lit(c) == <<"lit", c>>
mc_Formats ==
  { <<Lit("a"), Lit("LF")>>, <<Lit("ESC"), <<"d", <<5>>, -12>>, Lit("CR")>>,
    <<<<"c", <<>>, "q">>>>, <<Lit("x"), <<"x", <<>>, 255>>, Lit("LF")>>, <<<<"d", <<1, 2>>, 7>>, Lit("LF"), Lit("b")>>,
    <<<<"s", <<>>, 0>>, <<"c", <<>>, "q">>, <<"%", <<>>, 0>>, <<"p", <<>>, 300>>>> }
mc_Messages == {<<Lit("a"), Lit("LF")>>, <<Lit("ESC"), <<"d", <<5>>, -12>>, Lit("CR")>>, <<<<"c", <<>>, "q">>>>}
mc_Glyphs == Signs \union Conversions \union ToSet(HexChars) \union {"q", "LF", "CR", "ESC"}
mc_Levels == {<<4, 7>>, <<7, 4>>}

mc_ObjsOfSize == (2048 :> 2) @@ (1024 :> 4)
mc_Daemons == <<"pagedaemon", "reaper", "cleaner">>

Insn(c, d, s, i) == [code |-> c, dst |-> d, src |-> s, imm |-> i]
mc_Insns ==
  { Insn("MOV_K", 0, 0, -1), Insn("ADD_K", 0, 0, 3), Insn("SUB_K", 2, 0, 4), Insn("MOV_X", 0, 2, 0),
    Insn("ADD_X", 2, 0, 0), Insn("STX", 0, 2, 0), Insn("CALL", 0, 0, 1), Insn("CALL", 0, 0, 2),
    Insn("EXIT", 0, 0, 0), Insn("UNKNOWN", 0, 0, 0) }
mc_Bpfs ==
  UNION { [1..n -> mc_Insns] : n \in 1..2 }
  \union { p \in [1..3 -> mc_Insns] : p[1].code \in {"MOV_K", "SUB_K"} /\ p[3].code \in {"ADD_X", "MOV_X", "ADD_K"} }
mc_Blocks == {"x", "y", "z"}
mc_Priority == [b \in mc_Blocks |-> IF b = "z" THEN 2 ELSE 1]
mc_CommandLines ==
  UNION { [1..n -> {"a", "b", "=", " "}] : n \in 0..4 }
  \union {<<"b", "=", "a", "a", "b">>, <<"a", "a", "=", "b", " ", "a", "=", "a">>}
mc_SysctlTexts == {<<Minus, 1, 2, 11, 3>>, <<0, 3>>, <<>>}
mc_Options == {<<"a">>, <<"b">>, <<"a", "b">>}
mc_Procs == [p \in 1..4 |-> [pages_used |-> <<12, 4, 20, 25>>[p], protected |-> p \in {1, 4}]]

Set(n, v) == [c |-> "set", name |-> n, value |-> v]
Alias(n, v) == [c |-> "alias", name |-> n, value |-> v]
mc_Archive == [n \in {"h"} |-> <<"x">>]
mc_Lines ==
  { <<Set("A", "1"), Set("B", "2")>>,
    <<Set("A", "2"), [c |-> "printf", items |-> <<<<"lit", "x">>, <<"var", "A">>, <<"\\", "n">>, <<"\\", "q">>,
                                                  <<"-", "n">>, <<"-", "x">>>>]>>,
    <<Alias("l", "ls")>>, <<Alias("l", "tree"), Alias("", "")>>, <<Alias("m", "mv")>>,
    <<[c |-> "ed", name |-> "f", keys |-> <<"a", "BS", "BS", "b", "LF", ".", "LF">>, text |-> <<"b", "LF">>],
      [c |-> "cp", src |-> "f", dst |-> "g"]>>,
    <<[c |-> "mv", src |-> "h", dst |-> "i"], [c |-> "mv", src |-> "g", dst |-> "h"]>>,
    <<[c |-> "losetup", dev |-> "loop1", name |-> "f"], [c |-> "mdev"]>>,
    <<[c |-> "touch", name |-> "f"], [c |-> "rm", wild |-> FALSE, force |-> TRUE, name |-> "f"],
      [c |-> "rm", wild |-> TRUE, force |-> FALSE, name |-> "*"],
      [c |-> "rm", wild |-> FALSE, force |-> FALSE, name |-> "/"]>>,
    <<[c |-> "dd", src |-> "h", dst |-> "f"], [c |-> "run", name |-> "f"],
      [c |-> "word", word |-> "x"], [c |-> "word", word |-> ""]>>,
    <<[c |-> "kbd", layout |-> "es"], [c |-> "domainname", name |-> "d"], [c |-> "msg", text |-> "t"],
      [c |-> "env"]>> }

Cmd(n) == [k |-> "cmd", n |-> n]
K(k) == [k |-> k]
If(a, op, b) == [k |-> "if", val1 |-> a, op |-> op, val2 |-> b]
mc_Scripts ==
  { <<Cmd(1), If("a", op, b), K("then"), Cmd(2), K("else"), Cmd(3), K("fi"), Cmd(4)>> :
      op \in {"==", "!=", "<"}, b \in {"a", "b"} }
  \union { <<If("a", "=", "a"), Cmd(1), K("fi"), K("#"), If("a", "=", "b"), Cmd(2), K("else"), Cmd(3)>>,
           <<If("a", "=", "b"), If("a", "=", "b"), Cmd(1), K("fi"), Cmd(2), K("fi")>> }

Packets(l, o, n) == [lits |-> [i \in 1..l |-> i % 7], offset |-> o, len |-> n]
mc_Lz4Streams ==
  { <<Packets(l, o, n), Packets(k, 0, 4)>> : l \in {3, 14, 15}, o \in {1, 3}, n \in {4, 18, 19, 20}, k \in {1} }
  \union { <<Packets(4, 4, 9), Packets(0, 7, 5), Packets(2, 1, 4), Packets(15, 1, 4)>>,
           <<Packets(270, 2, 4), Packets(1, 0, 4)>>, <<Packets(2, 2, 274), Packets(5, 0, 4)>> }
mc_OrigP == <<8, 3, 14, 4, 2, 0, 8, 9, 6, 7, 12, 12, 7, 13, 5, 7, 9, 11>>
mc_DesBlocks ==
  { {}, 1..64, {1}, 9..40, {k \in 1..64 : k % 2 = 0},
    {k \in 1..64 : k % 7 \in {1, 3}}, {k \in 1..64 : k % 5 < 3} }
mc_DesKeys == { {}, {k \in 1..64 : k % 3 = 0}, {8, 40, 64}, {k \in 1..64 : k % 11 < 5} }
mc_BlowfishKeys == {<<0>>, <<1, 0, 1>>, <<1, 1, 0, 1, 0>>}

-----------------------------------------------------------------------------
VARIABLE which    \* the service this run is about

coreVars == <<timerVars, applied, logVars, slabVars, lruVars, taskVars>>
userVars == <<shellVars, qshVars, lineVars, ciphersVars>>
mcVars == <<coreVars, userVars, servicesVars, which>>

Init ==
  /\ TimerInit /\ TextInit /\ LogInit /\ SlabInit /\ LruInit /\ TasksInit
  /\ ServicesInit /\ ShellInit /\ QshInit /\ LinesInit /\ CiphersInit
  /\ which \in {"timer", "text", "log", "slab", "lru", "tasks", "shell", "qsh", "lines", "ciphers",
                "chain", "bpf", "cmdline", "policy"}

\* MaxServices bounds a chain; the others need fewer calls
Next ==
  /\ UNCHANGED which
  /\ \/ /\ which = "timer" /\ TimerNext
        /\ UNCHANGED <<applied, logVars, slabVars, lruVars, taskVars, userVars, servicesVars>>
     \/ /\ which = "text" /\ TextNext
        /\ UNCHANGED <<timerVars, logVars, slabVars, lruVars, taskVars, userVars, servicesVars>>
     \/ /\ which = "log" /\ LogNext
        /\ UNCHANGED <<timerVars, applied, slabVars, lruVars, taskVars, userVars, servicesVars>>
     \/ /\ which = "slab" /\ SlabNext
        /\ UNCHANGED <<timerVars, applied, logVars, lruVars, taskVars, userVars, servicesVars>>
     \/ /\ which = "lru" /\ LruNext
        /\ UNCHANGED <<timerVars, applied, logVars, slabVars, taskVars, userVars, servicesVars>>
     \/ /\ which = "tasks" /\ TasksNext
        /\ UNCHANGED <<timerVars, applied, logVars, slabVars, lruVars, userVars, servicesVars>>
     \/ /\ which = "shell" /\ ShellNext
        /\ UNCHANGED <<coreVars, qshVars, lineVars, ciphersVars, servicesVars>>
     \/ /\ which = "qsh" /\ QshNext
        /\ UNCHANGED <<coreVars, shellVars, lineVars, ciphersVars, servicesVars>>
     \/ /\ which = "lines" /\ LinesNext
        /\ UNCHANGED <<coreVars, shellVars, qshVars, ciphersVars, servicesVars>>
     \/ /\ which = "ciphers" /\ CiphersNext
        /\ UNCHANGED <<coreVars, shellVars, qshVars, lineVars, servicesVars>>
     \/ /\ which = "chain" /\ ChainNext /\ UNCHANGED <<coreVars, userVars>>
     \/ /\ which = "bpf" /\ services < 2 /\ EbpfNext /\ UNCHANGED <<coreVars, userVars>>
     \/ /\ which = "cmdline" /\ services = 0 /\ CmdlineNext /\ UNCHANGED <<coreVars, userVars>>
     \/ /\ which = "policy" /\ services < 4 /\ PolicyNext /\ UNCHANGED <<coreVars, userVars>>

Spec == Init /\ [][Next]_mcVars

-----------------------------------------------------------------------------
\* The types and ranges of the services' variables.
ServicesTypeOK ==
  TimerTypeOK /\ LogTypeOK /\ SlabTypeOK /\ LruTypeOK /\ TasksTypeOK /\ QshTypeOK /\ LinesTypeOK

\* What a small interpreter of the kernel computes is what its definition says: the
\* clock's date, a pattern's match, a number read from text, a formatted line, an
\* eBPF program, an option of the command line, a digest, a cipher, an unpacked stream,
\* a text that ed reads.
ConversionsAgree == ClockReadsBack /\ MatchersAgree /\ ScannersAgree /\ PrintfsAgree /\ EbpfAgrees
                    /\ CmdlineAgrees /\ SysctlReadsBack /\ CiphersAgree
                    /\ EdAgrees

\* Lists stay whole through every change: slabs between full, partial and free
\* (slab.c), pages between active and inactive (multilru.c), notifier blocks by
\* priority while a call walks them (notifier.c), and the pages of processes that the
\* out of memory killer picks its victims by (oom_killer.c).
ListsStayWhole == SlabsSound /\ ListsSound /\ ChainWhole /\ VictimsFair

\* A line reaches its reader as it was edited, in the teletypes' rings and in qsh,
\* and does what it says: a script takes the branch of its condition, a command
\* leaves variables, aliases and files as it promised (tty.c, qsh.c, commands.c).
LinesSound == LinesArrive /\ QshSound /\ ShellSound
=============================================================================
