------------------------------ MODULE FramePool ------------------------------
(***************************************************************************)
(* What the physical page frame allocator promises, whatever its bitmaps   *)
(* and its search order: a pool of free frames, of which a client is       *)
(* granted some, gives some back, and which only shrinks otherwise.        *)
(*                                                                         *)
(* The promise is weak where the code is: a client that lets go of its     *)
(* frames need not see them return to the pool (kfree never clears a bit,  *)
(* a protected frame stays out of reach), and a frame can leave the pool   *)
(* without a client (a demand page that could not be mapped, PROT_NONE).   *)
(***************************************************************************)
CONSTANTS
  Clients,  (* who asks for frames                                         *)
  Pool      (* the frames free at boot                                     *)

VARIABLES
  free,     (* frames the next request may be given                        *)
  held      (* client -> frames it was given and did not let go            *)

vars == <<free, held>>

Init ==
  /\ free = Pool
  /\ held = [c \in Clients |-> {}]

(* A client that holds nothing is given free frames, and only free ones. *)
Grant(c, S) ==
  /\ held[c] = {}
  /\ S # {} /\ S \subseteq free
  /\ free' = free \ S
  /\ held' = [held EXCEPT ![c] = S]

(* A client lets its frames go; those in back return to the pool. *)
Return(c, back) ==
  /\ back \subseteq held[c]
  /\ free' = free \union back
  /\ held' = [held EXCEPT ![c] = {}]

(* Frames leave the pool for nobody. *)
Lose(S) ==
  /\ S \subseteq free
  /\ free' = free \ S
  /\ UNCHANGED held

Next ==
  \/ \E c \in Clients, S \in SUBSET Pool : Grant(c, S)
  \/ \E c \in Clients, back \in SUBSET Pool : Return(c, back)
  \/ \E S \in SUBSET Pool : Lose(S)

Spec == Init /\ [][Next]_vars

=============================================================================
