------------------------------ MODULE Terminal ------------------------------
(***************************************************************************)
(* The three screen drivers and the switch of terminals: VT100 in text     *)
(* mode ("vt100") and on the frame buffer ("gui"), drivers/video/vt/       *)
(* vt100.c; VT220, vt220.c; and ansi_tty.c over arch_put_char; with        *)
(* tty_switch of drivers/tty/tty.c.  The machine uses one of them.         *)
(* A cell is the set of glyphs drawn over each other since it was cleared: *)
(* only the frame buffer can hold more than one.                           *)
(***************************************************************************)
EXTENDS Integers, Sequences, SequencesExt

CONSTANTS
  TextCols, TextRows, \* MAX_COLS, MAX_ROWS
  GuiCols, GuiRows,   \* GUI_MAX_COLS, GUI_MAX_ROWS
  TabStop,            \* 8
  Letters,            \* what is printed
  CsiChars,           \* what may follow ESC [
  MaxChars            \* bound: characters written in a run

ASSUME TerminalAssumption ==
  /\ TextCols \in Nat \ {0} /\ TextRows \in Nat \ {0} /\ TabStop \in Nat \ {0}
  /\ GuiCols \in Nat /\ GuiRows \in Nat /\ GuiCols >= TextCols /\ GuiRows >= TextRows
  /\ MaxChars \in Nat

VARIABLES
  display, \* which driver; "off" before the first use
  term,    \* [cells, x, y, color, state, params] of the terminal that is shown
  typed,   \* history: letters and ends of line since the screen was cleared, or Moved
  parked,  \* what tty_switch saved of the other terminal: [term, typed]
  chars    \* characters written so far

terminalVars == <<display, term, typed, parked, chars>>

Moved == <<"moved">>
ParamLength == 4 \* 31 in the code
Text == display \in {"vt100", "vt220", "ansi"}
Cols == IF display = "gui" THEN GuiCols ELSE TextCols
Rows == IF display = "gui" THEN GuiRows ELSE TextRows
Default == [bright |-> TRUE, hue |-> 7]
Blank == [y \in 0..(GuiRows - 1) |-> [x \in 0..(GuiCols - 1) |-> {}]]
Fresh == [cells |-> Blank, x |-> 0, y |-> 0, color |-> Default, state |-> "NORMAL", params |-> <<>>]

TerminalInit ==
  /\ display = "off" /\ term = Fresh /\ typed = <<>> /\ chars = 0
  /\ parked = [term |-> Fresh, typed |-> <<>>]

ChooseDisplay(d) ==
  /\ display = "off"
  /\ display' = d
  /\ UNCHANGED <<term, typed, parked, chars>>

-----------------------------------------------------------------------------
(* Drawing *)

\* A glyph on a cell; outside of the screen it goes to other memory
Drawn(t, c) ==
  IF t.x >= Cols \/ t.y >= Rows THEN t
  ELSE [t EXCEPT !.cells[t.y][t.x] = IF display = "gui" THEN @ \union {c} ELSE {c}]
Erased(t) == IF t.x >= Cols \/ t.y >= Rows THEN t ELSE [t EXCEPT !.cells[t.y][t.x] = {}]
Right(t) == [t EXCEPT !.x = @ + 1]

\* scroll, scroll_screen
Scrolled(t) ==
  [t EXCEPT !.cells = [y \in DOMAIN Blank |->
                         IF y + 1 < Rows THEN t.cells[y + 1] ELSE Blank[0]],
            !.y = Rows - 1]

\* The end of putc: a full line ends, a full screen scrolls
Wrapped_LateByOne(t) ==
  LET u == IF t.x > Cols THEN [t EXCEPT !.x = 0, !.y = @ + 1] ELSE t
  IN IF u.y >= Rows THEN Scrolled(u) ELSE u

Wrapped(t) ==
  LET u == IF t.x >= Cols THEN [t EXCEPT !.x = 0, !.y = @ + 1] ELSE t
  IN IF u.y >= Rows THEN Scrolled(u) ELSE u

Cleared(t) == [t EXCEPT !.cells = Blank, !.x = 0, !.y = 0]   \* vt100_init, clear_screen

-----------------------------------------------------------------------------
(* ESC [ parameters command *)

DigitOf == [d \in {"0", "1", "2", "3", "9"} |->
              CASE d = "0" -> 0 [] d = "1" -> 1 [] d = "2" -> 2 [] d = "3" -> 3 [] d = "9" -> 9]

\* Numbers between semicolons, the first four; the buffer of the model has room
\* for fewer, so that none is read that was not set
ParamAfter(acc, c) ==
  IF c = ";" THEN Append(acc, 0) ELSE [acc EXCEPT ![Len(acc)] = 10 * @ + DigitOf[c]]
ParamsOf(ps) == FoldLeft(ParamAfter, <<0>>, ps)

HueOf == <<0, 4, 2, 6, 1, 5, 3, 7>>   \* ansi_to_vga
ColorAfter(color, v) ==
  CASE v = 0 -> Default
    [] v \in 30..37 -> [color EXCEPT !.hue = HueOf[v - 29]]
    [] v \in 90..97 -> [bright |-> TRUE, hue |-> HueOf[v - 89]]
    [] OTHER -> color

AtLeastOne(v) == IF v = 0 THEN 1 ELSE v
Less(a, b) == IF a > b THEN a - b ELSE 0
\* One line down or right, never past the last of text mode
Plus(a, b, limit) == IF a + b < limit THEN a + b ELSE limit - 1

HandleCsi(t, command) ==
  LET ps == ParamsOf(t.params)  n == AtLeastOne(ps[1]) IN
  CASE command = "m" -> [t EXCEPT !.color = FoldLeft(ColorAfter, @, ps)]
    [] command = "A" -> [t EXCEPT !.y = Less(@, n)]
    [] command = "B" -> [t EXCEPT !.y = Plus(@, n, TextRows)]
    [] command = "C" -> [t EXCEPT !.x = Plus(@, n, TextCols)]
    [] command = "D" -> [t EXCEPT !.x = Less(@, n)]
    [] command \in {"H", "f"} ->
         IF Len(ps) > 1 THEN [t EXCEPT !.y = Less(ps[1], 1), !.x = Less(ps[2], 1)]
         ELSE [t EXCEPT !.x = 0, !.y = 0]
    [] command = "J" /\ ps[1] = 2 -> Cleared(t)
    [] OTHER -> t

\* ansi_tty knows bold as well
AnsiColor(color, v) == IF v = 1 THEN [color EXCEPT !.bright = TRUE] ELSE ColorAfter(color, v)
AnsiCsi(t, command) ==
  IF command = "m" THEN [t EXCEPT !.color = FoldLeft(AnsiColor, @, ParamsOf(t.params))]
  ELSE HandleCsi(t, command)

\* What ESC and the characters after it do; both parsers are the same machine
Parsed(t, c) ==
  CASE t.state = "NORMAL" -> [t EXCEPT !.state = "ESC"]
    [] t.state = "ESC" -> IF c = "[" THEN [t EXCEPT !.state = "CSI", !.params = <<>>]
                          ELSE [t EXCEPT !.state = "NORMAL"]
    [] t.state = "CSI" /\ c \in DOMAIN DigitOf \union {";"} ->
         IF Len(t.params) < ParamLength THEN [t EXCEPT !.params = Append(@, c)] ELSE t
    [] OTHER -> [(IF display = "ansi" THEN AnsiCsi(t, c) ELSE HandleCsi(t, c))
                   EXCEPT !.state = "NORMAL"]

-----------------------------------------------------------------------------
(* One character *)

Controls == {"LF", "CR", "TAB", "BS", "ESC"}
NewLine(t) == [t EXCEPT !.x = 0, !.y = @ + 1]

Vt100Putc(t, c) ==
  Wrapped(
    IF t.state /= "NORMAL" \/ c = "ESC" THEN Parsed(t, c)
    ELSE CASE c = "LF" -> NewLine(t)
           [] c = "CR" -> [t EXCEPT !.x = 0]
           [] c = "TAB" -> [t EXCEPT !.x = ((@ + TabStop) \div TabStop) * TabStop]
           [] c = "BS" -> IF t.x = 0 THEN t
                          ELSE IF display = "gui" THEN Erased([t EXCEPT !.x = @ - 1])
                          ELSE [t EXCEPT !.x = @ - 1]
           [] OTHER -> Right(Drawn(t, c)))

\* vt220_putc reads the characters behind its argument as the escape sequence:
\* the colour may become any of its eight, and the sequence is printed later
Vt220Putc(t, c) ==
  { Wrapped(
      CASE c = "LF" -> NewLine(t)
        [] c = "CR" -> [t EXCEPT !.x = 0]
        [] c = "BS" -> [t EXCEPT !.x = Less(@, 1)]
        [] c = "ESC" -> [t EXCEPT !.color = color]
        [] OTHER -> Right(Drawn(t, c))) :
    color \in IF c = "ESC" THEN {t.color, Default, [bright |-> FALSE, hue |-> 4]} ELSE {t.color} }

\* arch_put_char goes back over the end of a line, and prints CR and TAB
ArchPutChar(t, c) ==
  Wrapped(
    CASE c = "LF" -> NewLine(t)
      [] c = "BS" -> Erased(IF t.x > 0 THEN [t EXCEPT !.x = @ - 1]
                            ELSE IF t.y > 0 THEN [t EXCEPT !.y = @ - 1, !.x = Cols - 1] ELSE t)
      [] OTHER -> Right(Drawn(t, c)))

AnsiPutc(t, c) ==
  IF t.state /= "NORMAL" \/ c = "ESC" THEN Parsed(t, c) ELSE ArchPutChar(t, c)

\* The history: letters and ends of line add up, what clears starts again
TypedAfter(t, c) ==
  LET printed == (display = "vt220" \/ t.state = "NORMAL") /\ c \notin Controls
  IN CASE (t.state = "CSI" /\ display /= "vt220" /\ c = "J" /\ ParamsOf(t.params)[1] = 2) -> <<>>
       [] typed /= Moved /\ (printed \/ (c = "LF" /\ (t.state = "NORMAL" \/ display = "vt220"))) -> Append(typed, c)
       [] (t.state = "NORMAL" \/ display = "vt220") /\ c \in {"CR", "TAB", "BS"} -> Moved
       [] t.state = "CSI" /\ display /= "vt220" /\ c \in {"A", "B", "C", "D", "H", "f"} -> Moved
       [] OTHER -> typed

Putc(c) ==
  /\ display /= "off" /\ chars < MaxChars
  /\ CASE display \in {"vt100", "gui"} -> term' = Vt100Putc(term, c)
       [] display = "vt220" -> term' \in Vt220Putc(term, c)
       [] display = "ansi" -> term' = AnsiPutc(term, c)
  /\ typed' = TypedAfter(term, c)
  /\ chars' = chars + 1
  /\ UNCHANGED <<display, parked>>

\* tty_switch saves and brings back the memory of text mode and cursor_x and cursor_y,
\* which are not VT220's; the frame buffer, the colour and the parser stay as they are
OwnCursor == display = "vt220"
SwitchTerminal ==
  /\ display /= "off" /\ chars < MaxChars
  /\ chars' = chars + 1
  /\ parked' = [term |-> term, typed |-> typed]
  /\ term' = [term EXCEPT !.x = IF OwnCursor THEN @ ELSE parked.term.x,
                          !.y = IF OwnCursor THEN @ ELSE parked.term.y,
                          !.cells = IF Text THEN parked.term.cells ELSE @]
  /\ typed' = IF Text /\ ~OwnCursor THEN parked.typed ELSE Moved
  /\ UNCHANGED display

\* What is written: letters and controls, and after ESC what may follow it
Inputs ==
  CASE term.state = "ESC" -> {"["} \union Letters
    [] term.state = "CSI" -> CsiChars
    [] OTHER -> Letters \union Controls

TerminalNext ==
  \/ \E d \in {"vt100", "gui", "vt220", "ansi"} : ChooseDisplay(d)
  \/ \E c \in Inputs : Putc(c)
  \/ SwitchTerminal

TerminalSpec == TerminalInit /\ [][TerminalNext]_terminalVars

TerminalTypeOK ==
  /\ term.x \in Nat /\ term.y \in Nat /\ chars \in 0..MaxChars
  /\ term.state \in {"NORMAL", "ESC", "CSI"} /\ Len(term.params) <= ParamLength
  /\ term.color.hue \in 0..7 /\ term.color.bright \in BOOLEAN

-----------------------------------------------------------------------------
\* Text broken into lines of cols letters: one more character, and all of them
WithLetter(ls, c, cols) ==
  LET n == Len(ls)
      line == IF c = "LF" THEN ls[n] ELSE Append(ls[n], c)
      longer == [ls EXCEPT ![n] = line]
  IN IF c = "LF" \/ Len(line) = cols THEN Append(longer, <<>>) ELSE longer
LinesOf(text, cols) == FoldLeft(LAMBDA ls, c : WithLetter(ls, c, cols), <<<<>>>>, text)

\* The screen is the end of what was written since it was cleared, broken into
\* lines, with the cursor behind it, on each terminal after whatever was written
\* on the other (not with VT220, whose cursor stays where it was on the other);
\* escape sequences leave nothing on it; and the cursor of VT100 and VT220 is always
\* on the screen.
ScreenShowsText ==
  /\ display \in {"vt100", "gui", "vt220"} => term.x < Cols /\ term.y < Rows
  /\ display /= "off" /\ typed /= Moved =>
       LET ls == LinesOf(typed, Cols)
           top == IF Len(ls) > Rows THEN Len(ls) - Rows ELSE 0
       IN /\ <<term.x, term.y>> = <<Len(ls[Len(ls)]), Len(ls) - top - 1>>
          /\ \A y \in 0..(Rows - 1), x \in 0..(Cols - 1) :
               term.cells[y][x] =
                 IF top + y + 1 <= Len(ls) /\ x < Len(ls[top + y + 1])
                 THEN {ls[top + y + 1][x + 1]} ELSE {}
=============================================================================
