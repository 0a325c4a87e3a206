--------------------------- MODULE LineDiscipline ---------------------------
(***************************************************************************)
(* LineDiscipline: the input side of drivers/tty/tty.c.  Each terminal has *)
(* a ring of characters with head, tail and count; keys go to the terminal *)
(* in front, which edits the line in the ring until tty_read takes it.     *)
(* tty_input is called for a key, in an interrupt; a thread's tty_read is  *)
(* cut at each load and store of the ring, and keys come in between.       *)
(* c_lflag stays what tty_init makes it: ICANON, ECHO and ISIG.  The echo  *)
(* is left out.                                                            *)
(***************************************************************************)
EXTENDS Integers, Sequences, SequencesExt, FiniteSets

CONSTANTS
  MAX_TTYS,
  TTY_BUFFER_SIZE,
  COUNT_RANGE, \* how many values a uint32_t has
  Letters,     \* characters without a meaning of their own
  MaxTyped     \* bound: keys in a run

\* head - 1 is computed with 32 bits before the remainder is taken: the ring
\* only closes if its size divides 2^32
LineAssumption ==
  /\ MAX_TTYS \in Nat \ {0} /\ MaxTyped \in Nat /\ TTY_BUFFER_SIZE \in Nat \ {0} /\ 2048 % TTY_BUFFER_SIZE = 0
  /\ COUNT_RANGE \in Nat /\ COUNT_RANGE > TTY_BUFFER_SIZE
ASSUME LineAssumption

VARIABLES
  ring,     \* terminal |-> [buffer, head, tail, count]
  front,    \* active_tty_index + 1
  read,     \* how far the thread is in tty_read
  pending,  \* history: terminal |-> the characters it owes its readers
  crossed,     \* history: terminals where a key has cut into a read
  handed,   \* history: the last read gave what was owed to it
  typed     \* keys so far

lineVars == <<ring, front, read, pending, crossed, handed, typed>>

Ttys == 1..MAX_TTYS
Newline == "NL"
Return == "CR"
VERASE == "BS"
VKILL == "^U"
VINTR == "^C"
NoRead == [at |-> "idle"]

LinesInit ==
  /\ ring = [t \in Ttys |-> [buffer |-> [i \in 0..(TTY_BUFFER_SIZE - 1) |-> ""], head |-> 0, tail |-> 0, count |-> 0]]
  /\ front = 1
  /\ read = NoRead /\ crossed = {} /\ typed = 0
  /\ pending = [t \in Ttys |-> <<>>]
  /\ handed = TRUE

Forward_PastEnd(i) == i + 1
Forward(i) == (i + 1) % TTY_BUFFER_SIZE
Back(i) == (i - 1) % TTY_BUFFER_SIZE

Erased_KeepsHead(r) == [r EXCEPT !.count = @ - 1]
\* a backspace that finds a character, of a line that is complete too
Erased(r) == [r EXCEPT !.head = Back(@), !.count = @ - 1]

\* VKILL: backspaces to the newline before
Killed(r) ==
  LET f[k \in 0..(COUNT_RANGE - 1)] ==
        IF k = 0 THEN r
        ELSE IF f[k - 1].count > 0 /\ f[k - 1].buffer[Back(f[k - 1].head)] # Newline
             THEN Erased(f[k - 1]) ELSE f[k - 1]
  IN f[COUNT_RANGE - 1]

Received(r, c) == [r EXCEPT !.buffer[r.head] = c, !.head = Forward(@), !.count = @ + 1]

\* What the same key does to a plain sequence
LastNewline(s) == LET n == { i \in DOMAIN s : s[i] = Newline } IN
  IF n = {} THEN 0 ELSE CHOOSE i \in n : \A j \in n : j <= i
Cooked(c) == IF c = Return THEN Newline ELSE c

\* A key takes the character that a read has in hand out of the ring, or
\* changes count between the read's load and store of it
CutsIn ==
  /\ read.at \in {"taken", "advanced", "loaded"} /\ read.tty = front
  /\ ring'[front].count = 0 \/ (read.at = "loaded" /\ ring'[front] # ring[front])

TtyInput(c) ==
  /\ typed < MaxTyped /\ typed' = typed + 1
  /\ CASE c = VINTR -> UNCHANGED <<ring, pending>>
       [] c = VERASE -> IF ring[front].count > 0
                        THEN /\ ring' = [ring EXCEPT ![front] = Erased(@)]
                             /\ pending' = [pending EXCEPT ![front] = Front(@)]
                        ELSE UNCHANGED <<ring, pending>>
       [] c = VKILL -> /\ ring' = [ring EXCEPT ![front] = Killed(@)]
                       /\ pending' = [pending EXCEPT ![front] = SubSeq(@, 1, LastNewline(@))]
       [] OTHER -> IF ring[front].count < TTY_BUFFER_SIZE
                   THEN /\ ring' = [ring EXCEPT ![front] = Received(@, Cooked(c))]
                        /\ pending' = [pending EXCEPT ![front] = Append(@, Cooked(c))]
                   ELSE UNCHANGED <<ring, pending>>
  /\ crossed' = IF CutsIn THEN crossed \union {front} ELSE crossed
  /\ UNCHANGED <<front, read, handed>>

\* The characters in the ring from tail on
Contents(r) == [i \in 1..r.count |-> r.buffer[(r.tail + i - 1) % TTY_BUFFER_SIZE]]

\* tty_read(n) of the terminal that is in front now
ReadStart(n) ==
  /\ read = NoRead
  /\ read' = [at |-> "check", tty |-> front, n |-> n, got |-> <<>>, owed |-> <<>>]
  /\ UNCHANGED <<ring, front, pending, crossed, handed, typed>>

\* The loop ends, without waiting for a newline
ReadEnds ==
  /\ read' = NoRead
  /\ handed' = (read.got = read.owed \/ read.tty \in crossed)
  /\ UNCHANGED <<ring, front, pending, crossed, typed>>

\* while (i < n && tty->count > 0): the character at the tail
ReadTake ==
  /\ read.at = "check"
  /\ LET r == ring[read.tty] IN
     IF (read.got # <<>> /\ Last(read.got) = Newline) \/ Len(read.got) = read.n \/ r.count = 0
     THEN ReadEnds
     ELSE /\ read' = [at |-> "taken", tty |-> read.tty, n |-> read.n, owed |-> read.owed,
                      got |-> Append(read.got, r.buffer[r.tail])]
          /\ UNCHANGED <<ring, front, pending, crossed, handed, typed>>

\* ... : tail
ReadAdvance ==
  /\ read.at = "taken"
  /\ ring' = [ring EXCEPT ![read.tty].tail = Forward(@)]
  /\ read' = [at |-> "advanced", tty |-> read.tty, n |-> read.n, owed |-> read.owed,
              got |-> read.got, from |-> ring[read.tty].tail]
  /\ UNCHANGED <<front, pending, crossed, handed, typed>>

\* ... : the load of count--
ReadLoad ==
  /\ read.at = "advanced"
  /\ read' = [at |-> "loaded", tty |-> read.tty, n |-> read.n, owed |-> read.owed,
              got |-> read.got, from |-> read.from, count |-> ring[read.tty].count]
  /\ UNCHANGED <<ring, front, pending, crossed, handed, typed>>

\* ... : and its store; the character is no longer owed
ReadStore ==
  /\ read.at = "loaded"
  /\ LET p == pending[read.tty] IN
     /\ ring' = [ring EXCEPT ![read.tty].count = (read.count - 1) % COUNT_RANGE]
     /\ pending' = [pending EXCEPT ![read.tty] = SubSeq(p, 2, Len(p))]
     /\ read' = [at |-> "check", tty |-> read.tty, n |-> read.n, got |-> read.got,
                 owed |-> IF p = <<>> THEN read.owed ELSE Append(read.owed, Head(p))]
  /\ UNCHANGED <<front, crossed, handed, typed>>

TtySwitch(id) ==
  /\ id # front /\ front' = id
  /\ UNCHANGED <<ring, read, pending, crossed, handed, typed>>

LinesNext ==
  \/ \E c \in Letters \union {Return, VERASE, VKILL, VINTR} : TtyInput(c)
  \/ \E n \in 1..TTY_BUFFER_SIZE : ReadStart(n)
  \/ ReadTake \/ ReadAdvance \/ ReadLoad \/ ReadStore
  \/ \E id \in Ttys : TtySwitch(id)

LinesTypeOK ==
  /\ \A t \in Ttys : /\ ring[t].head \in 0..(TTY_BUFFER_SIZE - 1) /\ ring[t].tail \in 0..(TTY_BUFFER_SIZE - 1)
                     /\ ring[t].count \in 0..(COUNT_RANGE - 1)
  /\ front \in Ttys /\ typed \in 0..MaxTyped

\* Lines arrive as edited: whatever keys, reads and switches of the terminal come
\* in which order, each terminal that no read is at holds what was typed to it
\* alone, without what was erased since, and a read gives the beginning of that,
\* unless a key took the character that a read had in hand or came between the
\* read's load and store of count (tty_input, tty_read).
LinesArrive ==
  /\ \A t \in Ttys \ crossed : read = NoRead \/ read.tty # t =>
       /\ Contents(ring[t]) = pending[t]
       /\ (ring[t].tail + ring[t].count) % TTY_BUFFER_SIZE = ring[t].head
  /\ handed
=============================================================================
