------------------------------ MODULE CharQueue ------------------------------
(***************************************************************************)
(* What the keyboard's queue promises to a thread in get_char: characters  *)
(* come out in the order they were typed, each once; one that finds the    *)
(* queue full is dropped, and nothing else ever is.                        *)
(***************************************************************************)
EXTENDS Naturals, Sequences

CONSTANTS
  Char,      (* the characters                                             *)
  Capacity   (* how many can wait                                          *)

VARIABLES
  waiting,   (* the characters typed and not yet read, oldest first        *)
  returned   (* what the last get_char returned                            *)

vars == <<waiting, returned>>

Init == waiting = <<>> /\ returned \in Char

Put(c) ==
  /\ waiting' = IF Len(waiting) < Capacity THEN Append(waiting, c) ELSE waiting
  /\ UNCHANGED returned

Get ==
  /\ waiting # <<>>
  /\ returned' = Head(waiting)
  /\ waiting' = Tail(waiting)

Next == Get \/ \E c \in Char : Put(c)

Spec == Init /\ [][Next]_vars

=============================================================================
