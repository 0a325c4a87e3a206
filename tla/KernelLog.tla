----------------------------- MODULE KernelLog ------------------------------
(***************************************************************************)
(* printk: the filter by level, the conversions, the stamp at the start of *)
(* a line and the ring that dmesg reads (kernel/printk.c).  The boot       *)
(* thread prints with interrupts on: in __putchar it looks at              *)
(* at_line_start, logs the stamp and the character, and writes             *)
(* at_line_start; in log_char it loads log_ptr, stores the character and   *)
(* moves log_ptr.  Each of these is a step, and an interrupt handler, with *)
(* interrupts off itself, may print a whole message between any two.  A    *)
(* format is a sequence of items <<"lit", c>> and                          *)
(* <<conversion, precision digits, argument>>.                             *)
(***************************************************************************)
EXTENDS Integers, Sequences, SequencesExt

CONSTANTS
  LOG_BUFFER_SIZE, \* length of the ring
  Glyphs,          \* characters that are printed
  Formats,         \* formats, as sequences of items
  Messages,        \* those that are printed
  Levels,          \* <<message level, console_loglevel>> of messages
  MaxPrinted       \* bound: messages that are printed

VARIABLES
  kernel_log_buffer, \* the ring
  log_ptr,           \* where the next character goes
  at_line_start,     \* the next character gets a stamp
  printing,          \* characters the boot thread still has to put out
  put,               \* where it is in __putchar and log_char, see IsPut
  logged,            \* history: the characters logged since one was torn
  printed,           \* history: how many messages were begun
  settled,           \* history: lines of logged from here on were never disturbed
  formatted          \* last result of sprintf and of vprintk for one format

logVars == <<kernel_log_buffer, log_ptr, at_line_start, printing, put, logged, settled, printed, formatted>>

Signs == {"-", "(", "n", "l", ")", "[", "t", "]", " "}
HexChars == <<"0", "1", "2", "3", "4", "5", "6", "7", "8", "9", "a", "b", "c", "d", "e", "f">>

Conversions == {"s", "d", "u", "x", "p", "c", "%"}

\* Numbers have 16 bits here, an unsigned one of them too
Fits(num) == num \in Int /\ num >= -65536

\* A character of a format, or a conversion that exists and what it is given
IsItem(item) ==
  \/ item[1] = "lit" /\ item[2] \in Glyphs
  \/ /\ item[1] \in Conversions /\ item[2] \in Seq(0..9)
     /\ CASE item[1] = "s" -> item[3] = 0 \/ item[3] \in Seq(Glyphs)
          [] item[1] = "c" -> item[3] \in Glyphs
          [] item[1] = "%" -> TRUE
          [] OTHER -> Fits(item[3])

ASSUME KernelLogAssumption ==
  /\ LOG_BUFFER_SIZE \in Nat \ {0} /\ MaxPrinted \in Nat
  /\ Signs \union Conversions \union { HexChars[n] : n \in 1..16 } \subseteq Glyphs
  /\ Messages \subseteq Formats
  /\ \A fmt \in Formats : fmt \in Seq(ToSet(fmt)) /\ \A i \in DOMAIN fmt : IsItem(fmt[i])

Figures(base) ==
  LET f[n \in Nat] == IF n < base THEN <<HexChars[n + 1]>>
                      ELSE Append(f[n \div base], HexChars[(n % base) + 1])
  IN f

\* print_int, sprintf_int and log_int: a sign in decimal, zeros up to the precision
IntText(num, base, precision) ==
  LET neg == num < 0 /\ base = 10
      f == Figures(base)[IF num >= 0 THEN num ELSE IF neg THEN -num ELSE 65536 + num]
      zeros == IF precision > Len(f) THEN precision - Len(f) ELSE 0
  IN (IF neg THEN <<"-">> ELSE <<>>) \o [i \in 1..zeros |-> "0"] \o f

\* The switch on a conversion; one that does not exist prints nothing
Converted(conv, precision, arg) ==
  CASE conv = "s" -> IF arg = 0 THEN <<"(", "n", "u", "l", "l", ")">> ELSE arg
    [] conv \in {"d", "u"} -> IntText(arg, 10, precision)
    [] conv = "x" -> IntText(arg, 16, precision)
    [] conv = "p" -> <<"0", "x">> \o IntText(arg, 16, 8)
    [] conv = "c" -> <<arg>>
    [] conv = "%" -> <<"%">>

NumberOf10(ds) ==
  LET n[i \in 0..Len(ds)] == IF i = 0 THEN 0 ELSE 10 * n[i - 1] + ds[i] IN n[Len(ds)]

\* vsprintf: all digits after a zero are the precision
VSprintf(fmt) ==
  FlattenSeq([i \in DOMAIN fmt |->
    IF fmt[i][1] = "lit" THEN <<fmt[i][2]>>
    ELSE Converted(fmt[i][1], NumberOf10(fmt[i][2]), fmt[i][3])])

VPrintk_Unpadded(fmt) ==
  FlattenSeq([i \in DOMAIN fmt |->
    IF fmt[i][1] = "lit" THEN <<fmt[i][2]>> ELSE Converted(fmt[i][1], 0, fmt[i][3])])

\* vprintk: one digit only; a second one is taken for the conversion, does not
\* exist and prints nothing, and the rest is printed as it stands
VPrintk(fmt) ==
  FlattenSeq([i \in DOMAIN fmt |->
    IF fmt[i][1] = "lit" THEN <<fmt[i][2]>>
    ELSE IF Len(fmt[i][2]) > 1
    THEN [k \in 1..(Len(fmt[i][2]) - 2) |-> HexChars[fmt[i][2][k + 2] + 1]] \o <<fmt[i][1]>>
    ELSE Converted(fmt[i][1], NumberOf10(fmt[i][2]), fmt[i][3])])

\* log_timestamp, at a time that does not matter here
Stamp == <<"[", "t", "]", " ">>

LineStarts_Never(c, lineStart) == lineStart /\ c = "CR"

\* __putchar: what is logged for c
Logged(c, lineStart) ==
  IF lineStart /\ c \notin {"LF", "CR", "ESC"} THEN Stamp \o <<c>> ELSE <<c>>
\* ... and whether a line starts then
LineStarts(c, lineStart) == c = "LF" \/ (c = "CR" /\ lineStart)

LogChars_OffByOne(cs) ==
  /\ kernel_log_buffer' =
       [i \in DOMAIN kernel_log_buffer |->
          LET k == { j \in DOMAIN cs : (log_ptr + j - 1) % LOG_BUFFER_SIZE = i } IN
          IF k = {} THEN kernel_log_buffer[i] ELSE cs[CHOOSE j \in k : \A l \in k : l <= j]]
  /\ log_ptr' = IF log_ptr + Len(cs) > LOG_BUFFER_SIZE THEN 0 ELSE log_ptr + Len(cs)
  /\ logged' = logged \o cs

\* log_char, for each of some characters, of a handler: nothing comes between
LogChars(cs) ==
  /\ kernel_log_buffer' =
       [i \in DOMAIN kernel_log_buffer |->
          LET k == { j \in DOMAIN cs : (log_ptr + j - 1) % LOG_BUFFER_SIZE = i } IN
          IF k = {} THEN kernel_log_buffer[i] ELSE cs[CHOOSE j \in k : \A l \in k : l <= j]]
  /\ log_ptr' = (log_ptr + Len(cs)) % LOG_BUFFER_SIZE
  /\ logged' = logged \o cs

\* A whole message, one __putchar after the other
Put(cs) ==
  LET p[i \in 0..Len(cs)] ==
        IF i = 0 THEN [text |-> <<>>, start |-> at_line_start]
        ELSE LET before == p[i - 1]
             IN [text |-> before.text \o Logged(cs[i], before.start),
                 start |-> LineStarts(cs[i], before.start)]
      all == p[Len(cs)]
  IN LogChars(all.text) /\ at_line_start' = all.start

\* printk: too high a level is not printed
Passes(level) == level[1] <= level[2]

\* at is where the boot thread is; todo what __putchar still has to log; reg the
\* log_ptr that log_char has loaded; torn, whether a handler printed since then;
\* disturbed, whether one did since __putchar began
NotPutting == [at |-> "rest", todo |-> <<>>, reg |-> 0, torn |-> FALSE, disturbed |-> FALSE]

IsPut(rec) ==
  /\ rec \in [at : {"rest", "load", "store", "move", "stamped", "end"}, todo : Seq(Glyphs),
               reg : 0..(LOG_BUFFER_SIZE - 1), torn : BOOLEAN, disturbed : BOOLEAN]
  /\ rec.at = "rest" <=> rec = NotPutting
  /\ rec.at \in {"load", "store", "move", "stamped"} => rec.todo /= <<>>
  /\ rec.torn => rec.at \in {"store", "move"} /\ rec.disturbed

LogInit ==
  /\ kernel_log_buffer = [i \in 0..(LOG_BUFFER_SIZE - 1) |-> "0"]
  /\ log_ptr = 0
  /\ at_line_start = TRUE
  /\ printing = <<>>
  /\ put = NotPutting
  /\ logged = <<>> /\ settled = 0 /\ printed = 0
  /\ formatted = [vsprintf |-> <<>>, vprintk |-> <<>>, digits |-> 0]

\* The boot thread calls printk
StartPrintk(fmt, level) ==
  /\ put.at = "rest" /\ printing = <<>>
  /\ printed < MaxPrinted /\ printed' = printed + 1
  /\ printing' = IF Passes(level) THEN VPrintk(fmt) ELSE <<>>
  /\ UNCHANGED <<kernel_log_buffer, log_ptr, at_line_start, put, logged, settled, formatted>>

\* __putchar of its next character: whether it begins a line
PutBegins ==
  /\ put.at = "rest" /\ printing /= <<>>
  /\ put' = [NotPutting EXCEPT !.at = "load", !.todo = Logged(Head(printing), at_line_start)]
  /\ UNCHANGED <<kernel_log_buffer, log_ptr, at_line_start, printing, logged, settled, printed, formatted>>

\* log_char: log_ptr is loaded ...
LogLoad ==
  /\ put.at = "load"
  /\ put' = [put EXCEPT !.at = "store", !.reg = log_ptr]
  /\ UNCHANGED <<kernel_log_buffer, log_ptr, at_line_start, printing, logged, settled, printed, formatted>>

\* ... the character is stored ...
LogStore ==
  /\ put.at = "store"
  /\ kernel_log_buffer' = [kernel_log_buffer EXCEPT ![put.reg] = Head(put.todo)]
  /\ put' = [put EXCEPT !.at = "move"]
  /\ UNCHANGED <<log_ptr, at_line_start, printing, logged, settled, printed, formatted>>

\* ... and log_ptr moves on, from what was loaded or, if the compiler loads it
\* again, from what it is now.  After the stamp's last character, or the only one,
\* __putchar goes on.
LogMove ==
  /\ put.at = "move"
  /\ log_ptr' \in {(put.reg + 1) % LOG_BUFFER_SIZE, (log_ptr + 1) % LOG_BUFFER_SIZE}
  /\ put' = [put EXCEPT !.at = CASE Len(put.todo) = 1 -> "end"
                                [] Len(put.todo) = 2 -> "stamped"
                                [] OTHER -> "load",
                        !.todo = Tail(put.todo), !.reg = 0, !.torn = FALSE]
  /\ logged' = IF put.torn THEN <<>> ELSE Append(logged, Head(put.todo))
  /\ settled' = IF put.torn THEN 0 ELSE settled
  /\ UNCHANGED <<kernel_log_buffer, at_line_start, printing, printed, formatted>>

\* __putchar, after the stamp
StampDone ==
  /\ put.at = "stamped"
  /\ at_line_start' = FALSE
  /\ put' = [put EXCEPT !.at = "load"]
  /\ UNCHANGED <<kernel_log_buffer, log_ptr, printing, logged, settled, printed, formatted>>

\* ... and after the character
PutDone ==
  /\ put.at = "end"
  /\ at_line_start' = LineStarts(Head(printing), at_line_start)
  /\ printing' = Tail(printing)
  /\ put' = NotPutting
  /\ settled' = IF put.disturbed THEN Len(logged) ELSE settled
  /\ UNCHANGED <<kernel_log_buffer, log_ptr, logged, printed, formatted>>

\* A handler prints
PrintkInIrq(fmt, level) ==
  /\ printed < MaxPrinted /\ printed' = printed + 1
  /\ Passes(level)
  /\ Put(VPrintk(fmt))
  /\ put' = [put EXCEPT !.torn = put.at \in {"store", "move"}, !.disturbed = put.at /= "rest"]
  /\ UNCHANGED <<printing, settled, formatted>>

\* sprintf into a buffer, beside what printk would print (a run of its own)
Sprintf(fmt) ==
  /\ printed = 0 /\ printed' = MaxPrinted
  /\ formatted' = [vsprintf |-> VSprintf(fmt), vprintk |-> VPrintk(fmt),
                   digits |-> IF \E i \in DOMAIN fmt : fmt[i][1] /= "lit" /\ Len(fmt[i][2]) > 1
                              THEN 2 ELSE 1]
  /\ UNCHANGED <<kernel_log_buffer, log_ptr, at_line_start, printing, put, logged, settled>>

LogNext ==
  \/ \E f \in Messages, l \in Levels : StartPrintk(f, l)
  \/ PutBegins \/ LogLoad \/ LogStore \/ LogMove \/ StampDone \/ PutDone
  \/ \E f \in Messages, l \in Levels : PrintkInIrq(f, l)
  \/ \E f \in Formats : Sprintf(f)

LogSpec == LogInit /\ [][LogNext]_logVars

LogTypeOK ==
  /\ DOMAIN kernel_log_buffer = 0..(LOG_BUFFER_SIZE - 1) /\ log_ptr \in DOMAIN kernel_log_buffer
  /\ at_line_start \in BOOLEAN /\ printing \in Seq(Glyphs)
  /\ IsPut(put) /\ (put.at /= "rest" => printing /= <<>>)
  /\ logged \in Seq(Glyphs) /\ settled \in 0..Len(logged) /\ printed \in 0..MaxPrinted

-----------------------------------------------------------------------------
\* The ring holds the end of all that was logged, in order, whoever logged it (all
\* but the oldest character while the newest is stored and not counted yet), unless
\* a handler has printed inside the log_char under way; what it damages then is
\* what was logged before, never what comes later.  A line that does not begin with
\* an escape or an end of line begins with a stamp, and a stamp is only put where a
\* line begins, from the first __putchar on that no handler disturbed.
LogIsTail ==
  /\ put.torn \/ \A k \in 1..LOG_BUFFER_SIZE :
       k <= Len(logged) /\ (put.at = "move" => k < LOG_BUFFER_SIZE) =>
         kernel_log_buffer[(log_ptr - k) % LOG_BUFFER_SIZE] = logged[Len(logged) - k + 1]
  /\ put.disturbed \/ \A i \in DOMAIN logged :
       i > settled + 1 /\ logged[i - 1] = "LF" => logged[i] \in {"[", "LF", "CR", "ESC"}
  /\ put.at = "rest" /\ at_line_start =>
       Len(logged) = settled \/ logged[Len(logged)] \in {"LF", "CR"}

\* printk and sprintf write the same for every format whose precisions have one
\* digit at most.
PrintfsAgree == formatted.digits = 1 => formatted.vsprintf = formatted.vprintk
=============================================================================
