-------------------------------- MODULE Qsh ---------------------------------
(***************************************************************************)
(* QSH (usr/qsh.c): its line editor on scancodes, its history, the line it *)
(* runs, and scripts with if, else and fi.  A key of the keyboard is one   *)
(* step.  Commands are executed by the shell, which is seen as a result    *)
(* that any command may have.  line is the array of the code: what is      *)
(* behind its first end mark stays there.                                  *)
(***************************************************************************)
EXTENDS Integers, Sequences, SequencesExt

CONSTANTS
  HISTORY_SIZE, LINE_MAX, \* lengths of the history and of a line
  QshKeys,    \* keys that are pressed: characters, and UP DOWN LEFT RIGHT BS ENTER
  MaxKeys,    \* bound: keys in a run
  Scripts     \* scripts that are run, as sequences of lines

NUL == "NUL"
LineKinds == {"cmd", "if", "else", "fi", "then", "#"}

ASSUME QshAssumption ==
  /\ HISTORY_SIZE \in Nat \ {0} /\ LINE_MAX \in Nat /\ LINE_MAX > 1 /\ MaxKeys \in Nat
  /\ NUL \notin QshKeys
  /\ \A text \in Scripts : text \in Seq(ToSet(text)) /\ \A i \in DOMAIN text : text[i].k \in LineKinds

VARIABLES
  line, ptr, cursor,   \* the array, its length and the place in it
  qsh_history, qsh_history_count, qsh_history_index,
  edited,    \* history: <<before, after>>, the text on both sides of the cursor
  entered,   \* history: the lines that were run
  executed,  \* what the last of them did: [ran, set]
  script,    \* [text, at, skip_logic, condition_met, ran, exstat] of the script that runs
  source_stack, \* sources that are open: "stdin", "file"
  keys

prompt == <<line, ptr, cursor, qsh_history, qsh_history_count, qsh_history_index,
            edited, entered, executed>>
qshVars == <<line, ptr, cursor, qsh_history, qsh_history_count, qsh_history_index,
             edited, entered, executed, script, source_stack, keys>>

NoScript == [text |-> <<>>, at |-> 0, skip_logic |-> FALSE, condition_met |-> FALSE,
             ran |-> <<>>, exstat |-> 0]

QshInit ==
  /\ line = [i \in 0..(LINE_MAX - 1) |-> NUL] /\ ptr = 0 /\ cursor = 0
  /\ qsh_history = [i \in 0..(HISTORY_SIZE - 1) |-> <<>>]
  /\ qsh_history_count = 0 /\ qsh_history_index = -1
  /\ edited = <<<<>>, <<>>>> /\ entered = <<>> /\ executed = [ran |-> <<>>, set |-> <<>>] /\ script = NoScript
  /\ source_stack = <<>> /\ keys = 0

\* The text up to the first end mark
TextOf(a) ==
  LET n == CHOOSE i \in 0..LINE_MAX :
             (i = LINE_MAX \/ a[i] = NUL) /\ \A j \in 0..(i - 1) : a[j] /= NUL
  IN [i \in 1..n |-> a[i - 1]]
\* strcpy: the text and its mark
Copied(a, text) ==
  [i \in DOMAIN a |-> IF i < Len(text) THEN text[i + 1] ELSE IF i = Len(text) THEN NUL ELSE a[i]]

-----------------------------------------------------------------------------
(* The line editor of qsh_shell *)

Backspaced_FromCursor(a) ==
  [i \in DOMAIN a |-> IF i = ptr - 1 THEN NUL ELSE IF i >= cursor /\ i < ptr - 1 THEN a[i + 1] ELSE a[i]]

\* The loop that moves the rest of the line down, and the mark
Backspaced(a) ==
  [i \in DOMAIN a |-> IF i = ptr - 1 THEN NUL
                      ELSE IF i >= cursor - 1 /\ i < ptr - 1 THEN a[i + 1] ELSE a[i]]
\* The loop that moves it up; no mark is written
Inserted(a, c) ==
  [i \in DOMAIN a |-> IF i = cursor THEN c ELSE IF i > cursor /\ i <= ptr THEN a[i - 1] ELSE a[i]]

AtPrompt == source_stack = <<"stdin">>
Editing == AtPrompt /\ ptr < LINE_MAX - 1 /\ keys < MaxKeys /\ keys' = keys + 1
KeepHistory == UNCHANGED <<qsh_history, qsh_history_count, qsh_history_index>>

PressBackspace ==
  /\ Editing
  /\ IF ptr > 0 /\ cursor > 0
     THEN line' = Backspaced(line) /\ ptr' = ptr - 1 /\ cursor' = cursor - 1
     ELSE UNCHANGED <<line, ptr, cursor>>
  /\ edited' = [edited EXCEPT ![1] = SubSeq(@, 1, Len(@) - 1)]
  /\ KeepHistory /\ UNCHANGED <<entered, executed, script, source_stack>>

PressCharacter(c) ==
  /\ Editing
  /\ line' = Inserted(line, c) /\ ptr' = ptr + 1 /\ cursor' = cursor + 1
  /\ edited' = [edited EXCEPT ![1] = Append(@, c)]
  /\ KeepHistory /\ UNCHANGED <<entered, executed, script, source_stack>>

PressArrow(key) ==
  /\ Editing
  /\ \/ key = "LEFT" /\ cursor > 0 /\ cursor' = cursor - 1
        /\ edited' = <<Front(edited[1]), <<Last(edited[1])>> \o edited[2]>>
     \/ key = "RIGHT" /\ cursor < ptr /\ cursor' = cursor + 1
        /\ edited' = <<Append(edited[1], Head(edited[2])), Tail(edited[2])>>
  /\ KeepHistory /\ UNCHANGED <<line, ptr, entered, executed, script, source_stack>>

\* UP and DOWN: another line of the history, or an empty one below the newest
Recalled(text, index) ==
  /\ line' = IF index < qsh_history_count THEN Copied(line, text) ELSE [line EXCEPT ![0] = NUL]
  /\ qsh_history_index' = index
  /\ ptr' = Len(text) /\ cursor' = Len(text)
  /\ edited' = <<text, <<>>>>
  /\ UNCHANGED <<qsh_history, qsh_history_count, entered, executed, script, source_stack>>
PressUp ==
  /\ Editing /\ qsh_history_count > 0
  /\ LET i == IF qsh_history_index > 0 THEN qsh_history_index - 1 ELSE qsh_history_index
     IN Recalled(qsh_history[i % HISTORY_SIZE], i)
PressDown ==
  /\ Editing /\ qsh_history_index < qsh_history_count
  /\ LET i == qsh_history_index + 1
     IN Recalled(IF i < qsh_history_count THEN qsh_history[i % HISTORY_SIZE] ELSE <<>>, i)

-----------------------------------------------------------------------------
(* qsh_exec_line *)

Remembers_Twice(text) == text /= <<>>
\* A line goes to the history unless it is the newest one there
Remembers(text) ==
  /\ text /= <<>>
  /\ qsh_history_count = 0 \/ qsh_history[(qsh_history_count - 1) % HISTORY_SIZE] /= text

Cut(text, c) == LET i == CHOOSE i \in DOMAIN text : text[i] = c /\ \A j \in 1..(i - 1) : text[j] /= c
                IN <<SubSeq(text, 1, i - 1), SubSeq(text, i + 1, Len(text))>>
\* What a line does: "|" is looked for first, then && (here "&"), then "="; "b" is
\* one of the built-in commands.  Both sides of a pipe are run, one after the other.
Dispatched(text) ==
  CASE text = <<"b">> -> {[ran |-> <<>>, set |-> <<>>]}
    [] text /= <<"b">> /\ "|" \in ToSet(text) -> {[ran |-> Cut(text, "|"), set |-> <<>>]}
    [] "|" \notin ToSet(text) /\ "&" \in ToSet(text) ->
         {[ran |-> Cut(text, "&"), set |-> <<>>], [ran |-> <<Cut(text, "&")[1]>>, set |-> <<>>]}
    [] {"|", "&"} \cap ToSet(text) = {} /\ "=" \in ToSet(text) ->
         {[ran |-> <<>>, set |-> Cut(text, "=")]}
    [] OTHER -> {[ran |-> <<text>>, set |-> <<>>]}

\* ENTER: the line is marked, remembered and run, unless it is exit (here "q"),
\* and a new one begins; a line that is full ends without the key
PressEnter ==
  /\ Editing \/ (AtPrompt /\ ptr = LINE_MAX - 1 /\ UNCHANGED keys)
  /\ LET text == TextOf([line EXCEPT ![ptr] = NUL]) IN
     IF text \in {<<>>, <<"q">>}
     THEN /\ source_stack' = IF text = <<"q">> THEN <<>> ELSE source_stack
          /\ KeepHistory /\ UNCHANGED <<entered, executed>>
     ELSE /\ entered' = Append(entered, text)
          /\ qsh_history' = IF Remembers(text)
                             THEN [qsh_history EXCEPT ![qsh_history_count % HISTORY_SIZE] = text]
                             ELSE qsh_history
          /\ qsh_history_count' = qsh_history_count + (IF Remembers(text) THEN 1 ELSE 0)
          /\ qsh_history_index' = qsh_history_count'
          /\ executed' \in Dispatched(text)
          /\ UNCHANGED source_stack
  /\ line' = [i \in DOMAIN line |-> NUL] /\ ptr' = 0 /\ cursor' = 0
  /\ edited' = <<<<>>, <<>>>>
  /\ UNCHANGED script

-----------------------------------------------------------------------------
(* Scripts: a line is [k |-> "cmd", n], "if" with val1, op and val2, "else", *)
(* "fi", "then" or "#"                                                      *)

\* qsh_eval_condition
EvalCondition(l) ==
  CASE l.op \in {"==", "="} -> l.val1 = l.val2
    [] l.op = "!=" -> l.val1 /= l.val2
    [] OTHER -> FALSE

\* cmd_qsh with a file, from the shell or from a script
OpenScript(text) ==
  /\ script.at = 0 /\ source_stack = <<>>
  /\ script' = [NoScript EXCEPT !.text = text, !.at = 1]
  /\ source_stack' = <<"file">> \o source_stack
  /\ UNCHANGED prompt /\ UNCHANGED keys
OpenStdin ==
  /\ script.at = 0 /\ source_stack = <<>> /\ keys = 0
  /\ source_stack' = <<"stdin">> \o source_stack
  /\ UNCHANGED prompt /\ UNCHANGED <<script, keys>>

ElseSkips_Never(s) == FALSE
\* An else is skipped when its if was met
ElseSkips(s) == s.condition_met

\* One turn of qsh_shell's loop on line l
NextLine(s, l, status) ==
  CASE l.k = "if" -> [s EXCEPT !.condition_met = EvalCondition(l), !.skip_logic = ~EvalCondition(l)]
    [] l.k = "else" -> [s EXCEPT !.skip_logic = ElseSkips(s)]
    [] l.k = "fi" -> [s EXCEPT !.skip_logic = FALSE]
    [] l.k \in {"then", "#"} -> s
    [] l.k = "cmd" -> IF s.skip_logic THEN s
                      ELSE [s EXCEPT !.ran = Append(@, l.n), !.exstat = status]

CurrentLine == script.text[script.at]

RunLine ==
  /\ script.at \in DOMAIN script.text
  /\ \E status \in {0, 1} :
       script' = [NextLine(script, CurrentLine, status) EXCEPT !.at = @ + 1]
  /\ UNCHANGED prompt /\ UNCHANGED <<source_stack, keys>>

\* The end of the script; cmd_qsh takes its source from the stack
CloseScript ==
  /\ source_stack = <<"file">> /\ script.at = Len(script.text) + 1
  /\ source_stack' = Tail(source_stack)
  /\ UNCHANGED prompt /\ UNCHANGED <<script, keys>>

QshNext ==
  \/ PressBackspace \/ PressUp \/ PressDown \/ PressEnter
  \/ \E c \in QshKeys : PressCharacter(c)
  \/ \E key \in {"LEFT", "RIGHT"} : PressArrow(key)
  \/ \E text \in Scripts : OpenScript(text)
  \/ OpenStdin \/ RunLine \/ CloseScript

QshTypeOK ==
  /\ ptr \in 0..(LINE_MAX - 1) /\ cursor \in 0..ptr
  /\ qsh_history_count \in Nat /\ qsh_history_index \in -1..qsh_history_count
  /\ keys \in 0..MaxKeys

-----------------------------------------------------------------------------
\* The lines of t, each but the ones that repeat the one before
DistinctOf(t) ==
  LET d[i \in 0..Len(t)] ==
        IF i = 0 THEN <<>>
        ELSE IF d[i - 1] /= <<>> /\ Last(d[i - 1]) = t[i] THEN d[i - 1] ELSE Append(d[i - 1], t[i])
  IN d[Len(t)]
Distinct == DistinctOf(entered)

\* Commands of a script in which no if is inside another that its conditions choose
Flat(text) == \A i, j \in DOMAIN text :
  i < j /\ text[i].k = "if" /\ text[j].k = "if" => \E m \in i..j : text[m].k = "fi"
\* The last if up to line i is met
IsMet(text, i) ==
  \E j \in 1..i : /\ text[j].k = "if" /\ EvalCondition(text[j])
                  /\ \A m \in (j + 1)..i : text[m].k /= "if"
\* The last if, else or fi up to line i lets its lines run
IsRun(text, i) ==
  \A j \in 1..i :
    text[j].k \in {"if", "else", "fi"} /\ (\A m \in (j + 1)..i : text[m].k \notin {"if", "else", "fi"})
      => \/ text[j].k = "fi"
         \/ text[j].k = "if" /\ EvalCondition(text[j])
         \/ text[j].k = "else" /\ ~IsMet(text, j)
Chosen(text) ==
  LET c[i \in 0..Len(text)] ==
        IF i = 0 THEN <<>>
        ELSE IF text[i].k = "cmd" /\ IsRun(text, i) THEN Append(c[i - 1], text[i].n) ELSE c[i - 1]
  IN c

\* The line in the array is the text that the keys make, with the cursor where
\* they put it, also after a line was recalled over a longer one; the history
\* keeps the newest distinct lines in its ring; and a script runs the commands
\* that its conditions choose.
QshSound ==
  /\ TextOf([line EXCEPT ![ptr] = NUL]) = edited[1] \o edited[2] /\ cursor = Len(edited[1])
  /\ qsh_history_count = Len(Distinct)
  /\ \A i \in 1..Len(Distinct) :
       i > Len(Distinct) - HISTORY_SIZE => qsh_history[(i - 1) % HISTORY_SIZE] = Distinct[i]
  /\ Flat(script.text) /\ script.at > 0 => script.ran = Chosen(script.text)[script.at - 1]
=============================================================================
