-------------------------------- MODULE Locks --------------------------------
(***************************************************************************)
(* The lock primitives of kernel/locking: spinlock.c, semaphore.c, rwsem.c *)
(* and mutex.c, one lock of each kind, used by threads that take one lock  *)
(* at a time and release it.                                               *)
(*                                                                         *)
(* A step is one access to the lock's memory: an exchange, a compare-and-  *)
(* swap, or the plain load before it.  seen[t] is the local variable       *)
(* "current" that a thread loads and compares later.                       *)
(***************************************************************************)
EXTENDS Integers, FiniteSets

CONSTANTS
  Threads,   (* who takes locks                                            *)
  Tokens,    (* initial_count of the semaphore                             *)
  Nobody     (* the owner_pid -1                                           *)

ASSUME LocksAssumption ==
  /\ IsFiniteSet(Threads) /\ Nobody \notin Threads
  /\ Tokens \in Nat

VARIABLES
  pc,              (* thread -> where it is                                *)
  seen,            (* thread -> its local variable current                 *)
  lock_state,      (* spinlock_t                                           *)
  count,           (* semaphore_t.count                                    *)
  total_waiters,   (* semaphore_t.total_waiters                            *)
  activity_count,  (* rwsemaphore_t                                        *)
  locked,          (* mutex_t.locked                                       *)
  owner_pid        (* mutex_t.owner_pid                                    *)

vars == <<pc, seen, lock_state, count, total_waiters, activity_count, locked, owner_pid>>
spin == <<lock_state>>
sem == <<count, total_waiters>>
rwsem == <<activity_count>>
mutex == <<locked, owner_pid>>

Places ==
  {"idle", "spin", "in_spin", "sem_load", "sem_cas", "sem_wait", "in_sem",
   "read_load", "read_cas", "in_read", "write", "in_write",
   "mutex", "mutex_own", "in_mutex", "mutex_drop"}

At(place) == {t \in Threads : pc[t] = place}

Go(t, from, to) == pc[t] = from /\ pc' = [pc EXCEPT ![t] = to]

(* spinlock_init, sem_init, rwsem_init, mutex_init *)
Init ==
  /\ pc = [t \in Threads |-> "idle"]
  /\ seen = [t \in Threads |-> 0]
  /\ lock_state = 0
  /\ count = Tokens /\ total_waiters = 0
  /\ activity_count = 0
  /\ locked = 0 /\ owner_pid = Nobody

(* A thread calls one of the five lock functions. *)
Call(t) ==
  /\ \E to \in {"spin", "sem_load", "read_load", "write", "mutex"} : Go(t, "idle", to)
  /\ UNCHANGED <<seen, spin, sem, rwsem, mutex>>

-----------------------------------------------------------------------------
(* Faulty variant: a load and then a store instead of the exchange; what   *)
(* was loaded is 0 at any earlier time.                                    *)
SpinTry_NotAtomic(t) ==
  /\ \/ pc[t] = "spin" /\ seen[t] = 0 /\ lock_state = 0
        /\ seen' = [seen EXCEPT ![t] = 1] /\ UNCHANGED <<pc, lock_state>>
     \/ pc[t] = "spin" /\ seen[t] = 1
        /\ seen' = [seen EXCEPT ![t] = 0] /\ lock_state' = 1
        /\ pc' = [pc EXCEPT ![t] = "in_spin"]
  /\ UNCHANGED <<sem, rwsem, mutex>>

(* spinlock_lock: one exchange with 1; it is over when the old value is 0. *)
SpinTry(t) ==
  /\ pc[t] = "spin"
  /\ pc' = [pc EXCEPT ![t] = IF lock_state = 0 THEN "in_spin" ELSE "spin"]
  /\ lock_state' = 1
  /\ UNCHANGED <<seen, sem, rwsem, mutex>>

(* spinlock_unlock *)
SpinUnlock(t) ==
  /\ Go(t, "in_spin", "idle")
  /\ lock_state' = 0
  /\ UNCHANGED <<seen, sem, rwsem, mutex>>

-----------------------------------------------------------------------------
(* sem_down: the load; with no token left the thread counts as a waiter.   *)
(* The load and that count are one step: nobody decides on total_waiters.  *)
SemLoad(t) ==
  /\ pc[t] = "sem_load"
  /\ seen' = [seen EXCEPT ![t] = count]
  /\ IF count > 0
       THEN /\ pc' = [pc EXCEPT ![t] = "sem_cas"]
            /\ UNCHANGED total_waiters
       ELSE /\ pc' = [pc EXCEPT ![t] = "sem_wait"]
            /\ total_waiters' = total_waiters + 1
  /\ UNCHANGED <<count, spin, rwsem, mutex>>

(* Faulty variant: the store does not compare. *)
SemCas_Blind(t) ==
  /\ Go(t, "sem_cas", "in_sem")
  /\ count' = seen[t] - 1
  /\ UNCHANGED <<seen, total_waiters, spin, rwsem, mutex>>

(* The compare-and-swap of sem_down. *)
SemCas(t) ==
  /\ IF count = seen[t]
       THEN Go(t, "sem_cas", "in_sem") /\ count' = count - 1
       ELSE Go(t, "sem_cas", "sem_load") /\ UNCHANGED count
  /\ UNCHANGED <<seen, total_waiters, spin, rwsem, mutex>>

(* Faulty variant: a waiter that tries again still counts as one. *)
SemRetry_StaysCounted(t) ==
  /\ Go(t, "sem_wait", "sem_load")
  /\ UNCHANGED <<seen, count, total_waiters, spin, rwsem, mutex>>

(* The end of sem_down's delay. *)
SemRetry(t) ==
  /\ Go(t, "sem_wait", "sem_load")
  /\ total_waiters' = total_waiters - 1
  /\ UNCHANGED <<seen, count, spin, rwsem, mutex>>

(* sem_up *)
SemUp(t) ==
  /\ Go(t, "in_sem", "idle")
  /\ count' = count + 1
  /\ UNCHANGED <<seen, total_waiters, spin, rwsem, mutex>>

-----------------------------------------------------------------------------
(* rwsem_down_read: the load; while a writer is in, it is repeated. *)
ReadLoad(t) ==
  /\ activity_count >= 0
  /\ Go(t, "read_load", "read_cas")
  /\ seen' = [seen EXCEPT ![t] = activity_count]
  /\ UNCHANGED <<spin, sem, rwsem, mutex>>

(* Faulty variant: an atomic increment instead of the compare-and-swap. *)
ReadCas_Increment(t) ==
  /\ Go(t, "read_cas", "in_read")
  /\ activity_count' = activity_count + 1
  /\ UNCHANGED <<seen, spin, sem, mutex>>

(* The compare-and-swap of rwsem_down_read. *)
ReadCas(t) ==
  /\ IF activity_count = seen[t]
       THEN Go(t, "read_cas", "in_read") /\ activity_count' = activity_count + 1
       ELSE Go(t, "read_cas", "read_load") /\ UNCHANGED activity_count
  /\ UNCHANGED <<seen, spin, sem, mutex>>

(* rwsem_up_read *)
UpRead(t) ==
  /\ Go(t, "in_read", "idle")
  /\ activity_count' = activity_count - 1
  /\ UNCHANGED <<seen, spin, sem, mutex>>

(* rwsem_down_write: a compare-and-swap of 0 and -1, until it succeeds. *)
DownWrite(t) ==
  /\ activity_count = 0
  /\ Go(t, "write", "in_write")
  /\ activity_count' = -1
  /\ UNCHANGED <<seen, spin, sem, mutex>>

(* rwsem_up_write: a compare-and-swap of -1 and 0. *)
UpWrite(t) ==
  /\ Go(t, "in_write", "idle")
  /\ activity_count' = IF activity_count = -1 THEN 0 ELSE activity_count
  /\ UNCHANGED <<seen, spin, sem, mutex>>

-----------------------------------------------------------------------------
(* mutex_lock: a compare-and-swap; if it fails the function still returns. *)
MutexTry(t) ==
  /\ IF locked = 0
       THEN Go(t, "mutex", "mutex_own") /\ locked' = 1
       ELSE Go(t, "mutex", "in_mutex") /\ UNCHANGED locked
  /\ UNCHANGED <<seen, owner_pid, spin, sem, rwsem>>

(* The store of the owner after a compare-and-swap that succeeded. *)
MutexOwn(t) ==
  /\ Go(t, "mutex_own", "in_mutex")
  /\ owner_pid' = t
  /\ UNCHANGED <<seen, locked, spin, sem, rwsem>>

(* mutex_unlock: nothing if it is not locked, else the owner is cleared ... *)
MutexUnlock(t) ==
  /\ IF locked = 0
       THEN Go(t, "in_mutex", "idle") /\ UNCHANGED owner_pid
       ELSE Go(t, "in_mutex", "mutex_drop") /\ owner_pid' = Nobody
  /\ UNCHANGED <<seen, locked, spin, sem, rwsem>>

(* ... and then the lock. *)
MutexDrop(t) ==
  /\ Go(t, "mutex_drop", "idle")
  /\ locked' = 0
  /\ UNCHANGED <<seen, owner_pid, spin, sem, rwsem>>

Next ==
  \E t \in Threads :
    \/ Call(t)
    \/ SpinTry(t) \/ SpinUnlock(t)
    \/ SemLoad(t) \/ SemCas(t) \/ SemRetry(t) \/ SemUp(t)
    \/ ReadLoad(t) \/ ReadCas(t) \/ UpRead(t) \/ DownWrite(t) \/ UpWrite(t)
    \/ MutexTry(t) \/ MutexOwn(t) \/ MutexUnlock(t) \/ MutexDrop(t)

Spec == Init /\ [][Next]_vars

-----------------------------------------------------------------------------
(* Every lock word has the values its comment in the C type gives it.      *)
TypeOK ==
  /\ pc \in [Threads -> Places]
  /\ seen \in [Threads -> Nat]
  /\ lock_state \in {0, 1}
  /\ count \in 0 .. Tokens
  /\ total_waiters \in Nat
  /\ activity_count \in Nat \union {-1}
  /\ locked \in {0, 1}
  /\ owner_pid \in Threads \union {Nobody}

(* spinlock_lock lets one thread in at a time, and the lock word is 0 when *)
(* nobody is in: a failed exchange, which stores 1 too, changes nothing.   *)
SpinlockExcludes ==
  /\ \A t, u \in At("in_spin") : t = u
  /\ lock_state = 0 <=> At("in_spin") = {}

(* The tokens of the semaphore are those left plus those taken: it lets at *)
(* most Tokens threads in, and a token is never lost on a failed compare.  *)
SemaphoreExact == count = Tokens - Cardinality(At("in_sem"))

(* total_waiters, which sem_up asks whether to wake somebody, counts the   *)
(* threads in the delay loop.                                              *)
WaitersExact == total_waiters = Cardinality(At("sem_wait"))

(* rwsem lets readers share and a writer in alone, and its counter is the  *)
(* number of readers, or -1 for a writer, as the type's comment says.      *)
ReadersOrWriter ==
  /\ \A t, u \in At("in_write") : t = u
  /\ At("in_write") = {} \/ At("in_read") = {}
  /\ activity_count = IF At("in_write") # {} THEN -1 ELSE Cardinality(At("in_read"))

(* mutex.c:24 "Acquires exclusive access or puts the thread to sleep if    *)
(* contested": after mutex_lock returns, the thread is alone until it      *)
(* calls mutex_unlock.                                                     *)
MutexExcludes == \A t, u \in At("in_mutex") \union At("mutex_own") : t = u

=============================================================================
