--------------------------- MODULE ShellCommands ----------------------------
(***************************************************************************)
(* The commands of the shell that keep state of their own or change files, *)
(* and the chain of them that a line may be (usr/commands.c).  A line is a *)
(* sequence of commands, in the source with && between them; a command is  *)
(* a record with its arguments, already cut at their blanks.  The current  *)
(* directory is a function from names to contents: Namespace has what is   *)
(* behind it.  Its operations are XFS's, which can create, find, list and  *)
(* read.  A command without a return statement returns anything.           *)
(***************************************************************************)
EXTENDS Integers, Sequences, SequencesExt

CONSTANTS
  MAX_ENV_VARS, MAX_ALIAS, LoopDevices, \* lengths of the tables
  Archive,    \* the files that the boot has unpacked: a function to their contents
  EdLine,     \* characters of an ed line that leave room for the end mark
  Lines,      \* lines that are typed
  MaxLines    \* bound: lines in a run

\* The commands that are modelled; "word" is one that is not in the table
CommandWords ==
  {"set", "env", "alias", "kbd", "losetup", "mdev", "domainname", "msg", "printf", "touch",
   "cp", "dd", "mv", "ed", "rm", "run", "word"}

ASSUME ShellAssumption ==
  /\ MAX_ENV_VARS \in Nat /\ MAX_ALIAS \in Nat /\ LoopDevices \in Nat \ {0} /\ MaxLines \in Nat
  /\ Archive = [n \in DOMAIN Archive |-> Archive[n]]
  /\ \A line \in Lines : line \in Seq(ToSet(line)) /\ \A i \in DOMAIN line : line[i].c \in CommandWords

VARIABLES
  shell,     \* [env, alias, layout, loops, domain, files, connector]
  chain,     \* commands of the line that are still to be run
  said,      \* what the last command printed
  meant,     \* history: [env, alias, files], functions of what the commands asked for
  lines      \* lines typed so far

shellVars == <<shell, chain, said, meant, lines>>

None == "none"
NoWord == ""
CoreMessage == "Message received by BlueOS Core"
ShellInit ==
  /\ shell = [env |-> <<>>, alias |-> <<>>, layout |-> "us",
              loops |-> [i \in 0..(LoopDevices - 1) |-> None],
              domain |-> "blueos.local", files |-> Archive, connector |-> None]
  /\ chain = <<>> /\ said = <<>> /\ lines = 0
  /\ meant = [env |-> [n \in {} |-> None], alias |-> [n \in {} |-> None],
              files |-> Archive, loop |-> None]

Stored(f, x, y) == [z \in DOMAIN f \union {x} |-> IF z = x THEN y ELSE f[z]]
Drop(f, S) == [z \in DOMAIN f \ S |-> f[z]]
FirstSlot(S) == CHOOSE i \in S : \A j \in S : i <= j

-----------------------------------------------------------------------------
(* Tables of names: entries never become free again, so the used ones come  *)
(* first and the table is a sequence                                        *)

EntriesNamed(table, name) == { i \in DOMAIN table : table[i].name = name }

SetEnvVar_FirstFree(table, name, value) ==
  IF Len(table) < MAX_ENV_VARS THEN Append(table, [name |-> name, value |-> value])
  ELSE table

\* set_env_var: the entry of that name, else a free one, else an error
SetEnvVar(table, name, value) ==
  IF EntriesNamed(table, name) /= {}
  THEN [table EXCEPT ![FirstSlot(EntriesNamed(table, name))].value = value]
  ELSE IF Len(table) < MAX_ENV_VARS THEN Append(table, [name |-> name, value |-> value])
  ELSE table

GetEnvVar(table, name) ==
  IF EntriesNamed(table, name) = {} THEN NoWord ELSE table[FirstSlot(EntriesNamed(table, name))].value

\* cmd_alias: the first entry that is free or has the name
SetAlias(table, name, value) ==
  IF EntriesNamed(table, name) /= {} \/ Len(table) < MAX_ALIAS
  THEN LET i == FirstSlot(EntriesNamed(table, name) \union {Len(table) + 1})
       IN [j \in 1..(IF i > Len(table) THEN i ELSE Len(table)) |->
             IF j = i THEN [name |-> name, value |-> value] ELSE table[j]]
  ELSE table

\* resolve_alias: its result is not used, a line is run as it was typed
ResolveAlias(table, input) ==
  IF EntriesNamed(table, input) = {} THEN input
  ELSE table[FirstSlot(EntriesNamed(table, input))].value

-----------------------------------------------------------------------------
(* Files                                                                    *)

\* vfs_touch may fail; xfs_vfs_create drops the content, and makes a second record
\* of a name that exists, which may come behind the first
TouchOutcomes(files, name) ==
  {[ok |-> FALSE, files |-> files], [ok |-> TRUE, files |-> Stored(files, name, <<>>)]}
    \union (IF name \in DOMAIN files THEN {[ok |-> TRUE, files |-> files]} ELSE {})

CopyFile(files, src, dst) ==
  IF src \in DOMAIN files THEN TouchOutcomes(files, dst)
  ELSE {[ok |-> FALSE, files |-> files]}

\* move_file renames the node that the look-up made, a copy of the inode
MoveFile(files, src, dst) ==
  [ok |-> src \in DOMAIN files /\ dst \notin DOMAIN files, files |-> files]

\* cmd_ed: the lines up to one with a single dot.  A backspace takes a character
\* back, at the start of a line it does nothing; a full line ends by itself,
\* without an end mark, and what follows it in the text is not known.
EdText(keys) ==
  LET ed[i \in 1..(Len(keys) + 1), line \in Seq(STRING)] ==
        IF i > Len(keys) THEN [text |-> <<>>, ended |-> FALSE]
        ELSE IF keys[i] = "BS" THEN ed[i + 1, SubSeq(line, 1, Len(line) - 1)]
        ELSE IF keys[i] /= "LF" /\ Len(line) < EdLine THEN ed[i + 1, Append(line, keys[i])]
        ELSE IF keys[i] = "LF" /\ line = <<".">> THEN [text |-> <<>>, ended |-> TRUE]
        ELSE LET rest == ed[i + 1, <<>>]
                 ended == IF keys[i] = "LF" THEN line ELSE Append(line, keys[i]) \o <<"?">>
             IN [rest EXCEPT !.text = ended \o <<"LF">> \o @]
  IN ed[1, <<>>]

-----------------------------------------------------------------------------
(* What a command does to s: the set of its outcomes [s, ret, out]          *)

Outcome(s, ret, out) == {[s |-> s, ret |-> ret, out |-> out]}
NoReturn(s, out) == Outcome(s, 0, out) \union Outcome(s, 1, out)
Failing(s) == Outcome(s, 1, <<>>)

CmdSet(c, s) ==
  NoReturn([s EXCEPT !.env = SetEnvVar(s.env, c.name, c.value)], <<c.name, c.value>>)
CmdEnv(c, s) == NoReturn(s, s.env)
CmdAlias(c, s) ==
  LET table == SetAlias(s.alias, c.name, c.value) IN
  IF c.name = NoWord THEN Outcome(s, 0, s.alias)
  ELSE Outcome([s EXCEPT !.alias = table], IF EntriesNamed(table, c.name) = {} THEN 1 ELSE 0, <<>>)
CmdKbd(c, s) ==
  IF c.layout \in {"us", "es"} THEN Outcome([s EXCEPT !.layout = c.layout], 0, <<c.layout>>)
  ELSE IF c.layout = NoWord THEN Outcome(s, 0, <<s.layout>>) ELSE Failing(s)
\* Whatever the device is called, it is the first one
CmdLosetup(c, s) ==
  IF c.name \in DOMAIN s.files THEN Outcome([s EXCEPT !.loops[0] = c.name], 0, <<c.dev, c.name>>)
  ELSE Failing(s)
CmdMdev(c, s) ==
  Outcome(s, 0, <<"sda">> \o SelectSeq([i \in 1..LoopDevices |-> i - 1],
                                       LAMBDA i : s.loops[i] /= None) \o <<"tty0">>)
CmdDomainname(c, s) ==
  IF c.name = NoWord THEN Outcome(s, 0, <<s.domain>>) ELSE Outcome([s EXCEPT !.domain = c.name], 0, <<>>)
CmdMsg(c, s) ==
  IF c.text = NoWord THEN Failing(s)
  ELSE Outcome([s EXCEPT !.connector = CoreMessage], 0, <<c.text>>)

\* cmd_printf, after expand_variables; -n falls through to -t
PrintfItem(item, env) ==
  CASE item[1] = "lit" -> <<item[2]>>
    [] item[1] = "var" -> <<GetEnvVar(env, item[2])>>
    [] item[1] = "\\" -> IF item[2] \in {"n", "t", "r", "\\", "\""} THEN <<item[2]>> ELSE <<"\\", item[2]>>
    [] item[1] = "-" -> CASE item[2] = "u" -> <<"user">>
                          [] item[2] = "n" -> <<"LF", "tty">>
                          [] item[2] = "t" -> <<"tty">>
                          [] item[2] = "-" -> <<"-">>
                          [] OTHER -> <<"%", item[2]>>
CmdPrintf(c, s) ==
  Outcome(s, 0, FlattenSeq([i \in DOMAIN c.items |-> PrintfItem(c.items[i], s.env)]))

Touched(s, os, ret, failed) ==
  { [s |-> [s EXCEPT !.files = o.files], ret |-> IF o.ok THEN ret ELSE failed,
     out |-> <<o.ok>>] : o \in os }
CmdTouch(c, s) ==
  UNION { NoReturn([s EXCEPT !.files = o.files], <<o.ok>>) : o \in TouchOutcomes(s.files, c.name) }
CmdCp(c, s) == IF c.dst = NoWord THEN Failing(s) ELSE Touched(s, CopyFile(s.files, c.src, c.dst), 0, 0)
CmdDd(c, s) == IF c.dst = NoWord THEN Failing(s) ELSE Touched(s, CopyFile(s.files, c.src, c.dst), 0, 0)
CmdMv(c, s) == IF c.dst = NoWord THEN Failing(s) ELSE Touched(s, {MoveFile(s.files, c.src, c.dst)}, 0, 0)
CmdEd(c, s) == Touched(s, TouchOutcomes(s.files, c.name), 0, 1)

\* cmd_rm: a pattern goes to fs_rm_wildcard, which knows ramfs's files only, and
\* vfs_unlink fails, since XFS has no unlink
CmdRm(c, s) ==
  IF c.wild THEN Outcome(s, 0, <<>>)
  ELSE IF c.name \in {NoWord, ".", "/"} THEN Failing(s)
  ELSE Outcome(s, IF c.force THEN 0 ELSE 1, <<>>)

\* cmd_run: elf_load is ProgramLoaders; kmalloc may give nothing
CmdRun(c, s) ==
  IF c.name \in DOMAIN s.files THEN Outcome(s, 0, <<"exec", c.name>>) \union Failing(s) ELSE Failing(s)

\* shell_try_execute_binary: a command that is not in the table counts as done
\* unless it has no letters
TryExecuteBinary(c, s) == IF c.word = NoWord THEN Failing(s) ELSE Outcome(s, 0, <<>>)

\* execute_single_with_return
Execute(c, s) ==
  CASE c.c = "set" -> CmdSet(c, s)         [] c.c = "env" -> CmdEnv(c, s)
    [] c.c = "alias" -> CmdAlias(c, s)     [] c.c = "kbd" -> CmdKbd(c, s)
    [] c.c = "losetup" -> CmdLosetup(c, s) [] c.c = "mdev" -> CmdMdev(c, s)
    [] c.c = "domainname" -> CmdDomainname(c, s) [] c.c = "msg" -> CmdMsg(c, s)
    [] c.c = "printf" -> CmdPrintf(c, s)   [] c.c = "touch" -> CmdTouch(c, s)
    [] c.c = "cp" -> CmdCp(c, s)           [] c.c = "dd" -> CmdDd(c, s)
    [] c.c = "mv" -> CmdMv(c, s)           [] c.c = "ed" -> CmdEd(c, s)
    [] c.c = "rm" -> CmdRm(c, s)           [] c.c = "run" -> CmdRun(c, s)
    [] c.c = "word" -> TryExecuteBinary(c, s)

-----------------------------------------------------------------------------
\* What the user may expect after c, of which the outcome is o
Meant(c, o) ==
  CASE c.c = "set" -> [meant EXCEPT !.env =
         IF c.name \in DOMAIN @ \/ Len(shell.env) < MAX_ENV_VARS THEN Stored(@, c.name, c.value) ELSE @]
    [] c.c = "alias" /\ o.ret = 0 /\ c.name /= NoWord -> [meant EXCEPT !.alias = Stored(@, c.name, c.value)]
    [] c.c = "losetup" /\ o.ret = 0 -> [meant EXCEPT !.loop = c.name]
    [] c.c \in {"cp", "dd"} /\ o.out = <<TRUE>> -> [meant EXCEPT !.files = Drop(@, {c.dst})]
    [] c.c \in {"ed", "touch"} /\ o.out = <<TRUE>> -> [meant EXCEPT !.files = Drop(@, {c.name})]
    [] OTHER -> meant

\* A line is typed; resolve_alias has no effect on it
ExecuteShellCommand(line) ==
  /\ chain = <<>> /\ lines < MaxLines
  /\ chain' = line /\ lines' = lines + 1
  /\ UNCHANGED <<shell, said, meant>>

\* The next command of the line; after one that fails the rest is not run
ExecuteSingle ==
  /\ chain /= <<>>
  /\ \E o \in Execute(Head(chain), shell) :
       /\ shell' = o.s /\ said' = o.out
       /\ chain' = IF o.ret = 0 THEN Tail(chain) ELSE <<>>
       /\ meant' = Meant(Head(chain), o)
  /\ UNCHANGED lines

ShellNext == ExecuteSingle \/ \E line \in Lines : ExecuteShellCommand(line)

-----------------------------------------------------------------------------
\* Over any lines: a variable or alias has the value it was last given; a file of the
\* archive keeps its name and content, whatever is done to the others, until a
\* command has written under its name; a loop device is in use once losetup succeeded.
TableMeans(table, f) ==
  /\ DOMAIN f = { table[i].name : i \in DOMAIN table }
  /\ \A i \in DOMAIN table : table[i].value = f[table[i].name]

ShellSound ==
  /\ TableMeans(shell.env, meant.env) /\ TableMeans(shell.alias, meant.alias)
  /\ \A n \in DOMAIN meant.files : n \in DOMAIN shell.files /\ shell.files[n] = meant.files[n]
  /\ shell.loops[0] = meant.loop

\* ed makes of the keys of a line the text that its user meant to write.
EdAgrees == \A line \in Lines : \A i \in DOMAIN line :
  line[i].c = "ed" => EdText(line[i].keys).text = line[i].text
=============================================================================
