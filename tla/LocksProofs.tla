----------------------------- MODULE LocksProofs -----------------------------
(***************************************************************************)
(* For any number of threads and tokens: the spinlock excludes, the        *)
(* semaphore neither loses nor adds a token, readers share and a writer is *)
(* alone.                                                                  *)
(*                                                                         *)
(* A step moves one thread from one place to another (Moves), which        *)
(* changes the number of threads at two places by one (Counts); each       *)
(* counter of a lock follows the number of threads at one place.           *)
(***************************************************************************)
EXTENDS Locks, FiniteSetTheorems, TLAPS

PcType == pc \in [Threads -> Places]

-----------------------------------------------------------------------------
(* What a move does to the set of threads at each place. *)
LEMMA Moves ==
  ASSUME PcType, NEW t \in Threads, NEW p \in Places, NEW q \in Places,
         p # q, Go(t, p, q)
  PROVE  /\ t \in At(p) /\ t \notin At(q)
         /\ At(p)' = At(p) \ {t}
         /\ At(q)' = At(q) \union {t}
         /\ \A x \in Places : x # p /\ x # q => At(x)' = At(x)
BY DEF PcType, Go, At

(* The threads at a place are finitely many. *)
LEMMA FiniteAt == ASSUME NEW x PROVE IsFiniteSet(At(x)) /\ Cardinality(At(x)) \in Nat
<1>1. At(x) \subseteq Threads
  BY DEF At
<1>2. IsFiniteSet(At(x))
  BY <1>1, LocksAssumption, FS_Subset DEF LocksAssumption
<1> QED
  BY <1>2, FS_CardinalityType

(* A place has no thread exactly when its count is zero. *)
LEMMA EmptyAt == ASSUME NEW x PROVE Cardinality(At(x)) = 0 <=> At(x) = {}
BY FiniteAt, FS_EmptySet

(* A move lowers the count of one place and raises that of another. *)
LEMMA Counts ==
  ASSUME PcType, NEW t \in Threads, NEW p \in Places, NEW q \in Places,
         p # q, Go(t, p, q)
  PROVE  /\ Cardinality(At(p)') = Cardinality(At(p)) - 1
         /\ Cardinality(At(q)') = Cardinality(At(q)) + 1
         /\ Cardinality(At(p)) \in Nat \ {0}
         /\ Cardinality(At(q)) \in Nat
<1>1. IsFiniteSet(At(p)) /\ IsFiniteSet(At(q))
  BY FiniteAt
<1>2. /\ t \in At(p) /\ t \notin At(q)
      /\ At(p)' = At(p) \ {t}
      /\ At(q)' = At(q) \union {t}
  BY Moves
<1>3. Cardinality(At(p) \ {t}) = Cardinality(At(p)) - 1
  BY <1>1, <1>2, FS_RemoveElement
<1>4. Cardinality(At(q) \union {t}) = Cardinality(At(q)) + 1
  BY <1>1, <1>2, FS_AddElement
<1>5. Cardinality(At(p)) \in Nat /\ Cardinality(At(q)) \in Nat
  BY FiniteAt
<1>6. Cardinality(At(p)) # 0
  BY <1>2, EmptyAt
<1> QED
  BY <1>2, <1>3, <1>4, <1>5, <1>6

-----------------------------------------------------------------------------
(* Every thread is always at one of the places of the model. *)
LEMMA PcTyped == Spec => []PcType
<1>1. Init => PcType
  BY DEF Init, PcType, Places
<1>2. PcType /\ [Next]_vars => PcType'
  BY DEF PcType, Next, vars, Places, Go, Call, SpinTry, SpinUnlock, SemLoad, SemCas,
         SemRetry, SemUp, ReadLoad, ReadCas, UpRead, DownWrite, UpWrite, MutexTry,
         MutexOwn, MutexUnlock, MutexDrop
<1> QED
  BY <1>1, <1>2, PTL DEF Spec

(* The words of the semaphores, and what threads loaded from them, are     *)
(* integers.                                                               *)
IntType == seen \in [Threads -> Int] /\ count \in Int /\ activity_count \in Int

LEMMA IntTyped == Spec => []IntType
<1>1. Init => IntType
  BY LocksAssumption DEF LocksAssumption, Init, IntType
<1>2. IntType /\ [Next]_vars => IntType'
  BY DEF IntType, Next, vars, Go, Call, SpinTry, SpinUnlock, SemLoad, SemCas,
         SemRetry, SemUp, ReadLoad, ReadCas, UpRead, DownWrite, UpWrite, MutexTry,
         MutexOwn, MutexUnlock, MutexDrop, spin, sem, rwsem, mutex
<1> QED
  BY <1>1, <1>2, PTL DEF Spec

-----------------------------------------------------------------------------
(* spinlock_lock and spinlock_unlock are the only steps at the spinlock. *)
LEMMA SpinSteps ==
  ASSUME PcType, [Next]_vars
  PROVE  \/ \E t \in Threads : SpinTry(t) \/ SpinUnlock(t)
         \/ UNCHANGED lock_state /\ At("in_spin")' = At("in_spin")
BY DEF PcType, Next, vars, At, Places, Go, Call, SpinTry, SpinUnlock, SemLoad, SemCas,
       SemRetry, SemUp, ReadLoad, ReadCas, UpRead, DownWrite, UpWrite, MutexTry,
       MutexOwn, MutexUnlock, MutexDrop, spin, sem, rwsem, mutex

(* spinlock.c lets one thread in at a time, however many spin. *)
THEOREM SpinlockIsExclusive == Spec => []SpinlockExcludes
<1> DEFINE Inv == lock_state \in {0, 1} /\ SpinlockExcludes
<1>1. Init => Inv
  BY DEF Init, SpinlockExcludes, At
<1>2. PcType /\ Inv /\ [Next]_vars => Inv'
  <2> SUFFICES ASSUME PcType, Inv, [Next]_vars PROVE Inv'
    OBVIOUS
  <2>1. ASSUME NEW t \in Threads, SpinTry(t) PROVE Inv'
    BY <2>1 DEF PcType, SpinTry, SpinlockExcludes, At
  <2>2. ASSUME NEW t \in Threads, SpinUnlock(t) PROVE Inv'
    BY <2>2 DEF PcType, SpinUnlock, Go, SpinlockExcludes, At
  <2>3. CASE UNCHANGED lock_state /\ At("in_spin")' = At("in_spin")
    BY <2>3 DEF SpinlockExcludes
  <2> QED
    BY <2>1, <2>2, <2>3, SpinSteps
<1> QED
  BY <1>1, <1>2, PcTyped, PTL DEF Spec

-----------------------------------------------------------------------------
(* The steps at the semaphore, as moves of one thread. *)
LEMMA SemSteps ==
  ASSUME PcType, [Next]_vars
  PROVE  \/ \E t \in Threads : SemLoad(t) \/ SemCas(t) \/ SemRetry(t) \/ SemUp(t)
         \/ UNCHANGED <<count, total_waiters>> /\ At("in_sem")' = At("in_sem")
             /\ At("sem_wait")' = At("sem_wait")
BY DEF PcType, Next, vars, At, Places, Go, Call, SpinTry, SpinUnlock, SemLoad, SemCas,
       SemRetry, SemUp, ReadLoad, ReadCas, UpRead, DownWrite, UpWrite, MutexTry,
       MutexOwn, MutexUnlock, MutexDrop, spin, sem, rwsem, mutex

(* A thread about to swap has seen a token. *)
SeenToken == \A t \in Threads : pc[t] = "sem_cas" => seen[t] \in Nat \ {0}

LEMMA TokenSeen == Spec => []SeenToken
<1>1. Init => SeenToken
  BY DEF Init, SeenToken
<1>2. PcType /\ IntType /\ SeenToken /\ [Next]_vars => SeenToken'
  BY DEF PcType, IntType, SeenToken, Next, vars, Places, Go, Call, SpinTry, SpinUnlock,
         SemLoad, SemCas, SemRetry, SemUp, ReadLoad, ReadCas, UpRead, DownWrite, UpWrite,
         MutexTry, MutexOwn, MutexUnlock, MutexDrop, spin, sem, rwsem, mutex
<1> QED
  BY <1>1, <1>2, PcTyped, IntTyped, PTL DEF Spec

(* sem_down and sem_up: the count is the tokens nobody has, although a     *)
(* thread decides on a count it loaded a while ago.                        *)
THEOREM SemaphoreNeverOversells == Spec => [](SemaphoreExact /\ count \in 0 .. Tokens)
<1> DEFINE Inv == SemaphoreExact /\ count \in 0 .. Tokens
<1>0. Tokens \in Nat
  BY LocksAssumption DEF LocksAssumption
<1>1. Init => Inv
  <2> SUFFICES ASSUME Init PROVE Inv
    OBVIOUS
  <2>1. At("in_sem") = {}
    BY DEF Init, At
  <2> QED
    BY <1>0, <2>1, FS_EmptySet DEF Init, SemaphoreExact
<1>2. PcType /\ SeenToken /\ Inv /\ [Next]_vars => Inv'
  <2> SUFFICES ASSUME PcType, SeenToken, Inv, [Next]_vars PROVE Inv'
    OBVIOUS
  <2>1. ASSUME NEW t \in Threads, SemLoad(t) PROVE Inv'
    <3>1. \/ Go(t, "sem_load", "sem_cas") \/ Go(t, "sem_load", "sem_wait")
      BY <2>1 DEF SemLoad, Go
    <3>2. At("in_sem")' = At("in_sem") /\ count' = count
      BY <2>1, <3>1, Moves DEF Places, SemLoad
    <3> QED
      BY <3>2 DEF SemaphoreExact
  <2>2. ASSUME NEW t \in Threads, SemCas(t) PROVE Inv'
    <3>1. CASE count = seen[t]
      <4>1. Go(t, "sem_cas", "in_sem") /\ count' = count - 1 /\ count # 0
        BY <2>2, <3>1 DEF SemCas, Go, SeenToken
      <4>2. Cardinality(At("in_sem")') = Cardinality(At("in_sem")) + 1
            /\ Cardinality(At("in_sem")) \in Nat
        BY <4>1, Counts DEF Places
      <4>3. count \in Nat /\ count <= Tokens /\ count = Tokens - Cardinality(At("in_sem"))
        BY <1>0 DEF SemaphoreExact
      <4>4. count' = Tokens - Cardinality(At("in_sem")') /\ count' \in 0 .. Tokens
        BY <1>0, <4>1, <4>2, <4>3
      <4> QED
        BY <4>4 DEF SemaphoreExact
    <3>2. CASE count # seen[t]
      <4>1. Go(t, "sem_cas", "sem_load") /\ count' = count
        BY <2>2, <3>2 DEF SemCas
      <4>2. At("in_sem")' = At("in_sem")
        BY <4>1, Moves DEF Places
      <4> QED
        BY <4>1, <4>2 DEF SemaphoreExact
    <3> QED
      BY <3>1, <3>2
  <2>3. ASSUME NEW t \in Threads, SemRetry(t) PROVE Inv'
    <3>1. At("in_sem")' = At("in_sem") /\ count' = count
      BY <2>3, Moves DEF Places, SemRetry
    <3> QED
      BY <3>1 DEF SemaphoreExact
  <2>4. ASSUME NEW t \in Threads, SemUp(t) PROVE Inv'
    <3>1. Go(t, "in_sem", "idle") /\ count' = count + 1
      BY <2>4 DEF SemUp
    <3>2. Cardinality(At("in_sem")') = Cardinality(At("in_sem")) - 1
          /\ Cardinality(At("in_sem")) \in Nat \ {0}
      BY <3>1, Counts DEF Places
    <3>3. count \in Nat /\ count <= Tokens /\ count = Tokens - Cardinality(At("in_sem"))
      BY <1>0 DEF SemaphoreExact
    <3>4. count' = Tokens - Cardinality(At("in_sem")') /\ count' \in 0 .. Tokens
      BY <1>0, <3>1, <3>2, <3>3
    <3> QED
      BY <3>4 DEF SemaphoreExact
  <2>5. CASE UNCHANGED count /\ At("in_sem")' = At("in_sem")
    BY <2>5 DEF SemaphoreExact
  <2> QED
    BY <2>1, <2>2, <2>3, <2>4, <2>5, SemSteps
<1> QED
  BY <1>1, <1>2, PcTyped, TokenSeen, PTL DEF Spec

(* total_waiters counts the threads in the delay loop of sem_down. *)
THEOREM WaitersAreCounted == Spec => []WaitersExact
<1>1. Init => WaitersExact
  <2> SUFFICES ASSUME Init PROVE WaitersExact
    OBVIOUS
  <2>1. At("sem_wait") = {}
    BY DEF Init, At
  <2> QED
    BY <2>1, FS_EmptySet DEF Init, WaitersExact
<1>2. PcType /\ WaitersExact /\ [Next]_vars => WaitersExact'
  <2> SUFFICES ASSUME PcType, WaitersExact, [Next]_vars PROVE WaitersExact'
    OBVIOUS
  <2>1. ASSUME NEW t \in Threads, SemLoad(t) PROVE WaitersExact'
    <3>1. CASE Go(t, "sem_load", "sem_wait") /\ total_waiters' = total_waiters + 1
      <4>1. Cardinality(At("sem_wait")') = Cardinality(At("sem_wait")) + 1
        BY <3>1, Counts DEF Places
      <4> QED
        BY <3>1, <4>1 DEF WaitersExact
    <3>2. CASE Go(t, "sem_load", "sem_cas") /\ total_waiters' = total_waiters
      <4>1. At("sem_wait")' = At("sem_wait")
        BY <3>2, Moves DEF Places
      <4> QED
        BY <3>2, <4>1 DEF WaitersExact
    <3> QED
      BY <2>1, <3>1, <3>2 DEF SemLoad, Go
  <2>2. ASSUME NEW t \in Threads, SemCas(t) PROVE WaitersExact'
    <3>1. total_waiters' = total_waiters
          /\ (Go(t, "sem_cas", "in_sem") \/ Go(t, "sem_cas", "sem_load"))
      BY <2>2 DEF SemCas
    <3>2. At("sem_wait")' = At("sem_wait")
      BY <3>1, Moves DEF Places
    <3> QED
      BY <3>1, <3>2 DEF WaitersExact
  <2>3. ASSUME NEW t \in Threads, SemRetry(t) PROVE WaitersExact'
    <3>1. Go(t, "sem_wait", "sem_load") /\ total_waiters' = total_waiters - 1
      BY <2>3 DEF SemRetry
    <3>2. Cardinality(At("sem_wait")') = Cardinality(At("sem_wait")) - 1
      BY <3>1, Counts DEF Places
    <3> QED
      BY <3>1, <3>2 DEF WaitersExact
  <2>4. ASSUME NEW t \in Threads, SemUp(t) PROVE WaitersExact'
    <3>1. total_waiters' = total_waiters /\ At("sem_wait")' = At("sem_wait")
      BY <2>4, Moves DEF Places, SemUp
    <3> QED
      BY <3>1 DEF WaitersExact
  <2>5. CASE UNCHANGED total_waiters /\ At("sem_wait")' = At("sem_wait")
    BY <2>5 DEF WaitersExact
  <2> QED
    BY <2>1, <2>2, <2>3, <2>4, <2>5, SemSteps
<1> QED
  BY <1>1, <1>2, PcTyped, PTL DEF Spec

-----------------------------------------------------------------------------
(* The steps at the reader-writer semaphore. *)
LEMMA RwSteps ==
  ASSUME PcType, [Next]_vars
  PROVE  \/ \E t \in Threads : ReadLoad(t) \/ ReadCas(t) \/ UpRead(t) \/ DownWrite(t) \/ UpWrite(t)
         \/ UNCHANGED activity_count /\ At("in_read")' = At("in_read")
             /\ At("in_write")' = At("in_write")
BY DEF PcType, Next, vars, At, Places, Go, Call, SpinTry, SpinUnlock, SemLoad, SemCas,
       SemRetry, SemUp, ReadLoad, ReadCas, UpRead, DownWrite, UpWrite, MutexTry,
       MutexOwn, MutexUnlock, MutexDrop, spin, sem, rwsem, mutex

(* A reader about to swap has seen no writer. *)
SeenNoWriter == \A t \in Threads : pc[t] = "read_cas" => seen[t] >= 0

LEMMA NoWriterSeen == Spec => []SeenNoWriter
<1>1. Init => SeenNoWriter
  BY DEF Init, SeenNoWriter
<1>2. PcType /\ IntType /\ SeenNoWriter /\ [Next]_vars => SeenNoWriter'
  BY DEF PcType, IntType, SeenNoWriter, Next, vars, Places, Go, Call, SpinTry, SpinUnlock,
         SemLoad, SemCas, SemRetry, SemUp, ReadLoad, ReadCas, UpRead, DownWrite, UpWrite,
         MutexTry, MutexOwn, MutexUnlock, MutexDrop, spin, sem, rwsem, mutex
<1> QED
  BY <1>1, <1>2, PcTyped, IntTyped, PTL DEF Spec

(* rwsem: readers share, a writer is alone, and the counter says which,    *)
(* although a reader compares with a count it loaded before others moved.  *)
THEOREM ReadersShareWritersExclude == Spec => []ReadersOrWriter
<1>1. Init => ReadersOrWriter
  <2> SUFFICES ASSUME Init PROVE ReadersOrWriter
    OBVIOUS
  <2>1. At("in_read") = {} /\ At("in_write") = {}
    BY DEF Init, At
  <2> QED
    BY <2>1, FS_EmptySet DEF Init, ReadersOrWriter
<1>2. PcType /\ SeenNoWriter /\ ReadersOrWriter /\ [Next]_vars => ReadersOrWriter'
  <2> SUFFICES ASSUME PcType, SeenNoWriter, ReadersOrWriter, [Next]_vars
               PROVE  ReadersOrWriter'
    OBVIOUS
  <2>0. /\ Cardinality(At("in_read")) \in Nat
        /\ Cardinality(At("in_read")) = 0 <=> At("in_read") = {}
    BY FiniteAt, EmptyAt
  <2>1. ASSUME NEW t \in Threads, ReadLoad(t) PROVE ReadersOrWriter'
    <3>1. /\ At("in_read")' = At("in_read") /\ At("in_write")' = At("in_write")
          /\ activity_count' = activity_count
      BY <2>1, Moves DEF Places, ReadLoad, rwsem
    <3> QED
      BY <3>1 DEF ReadersOrWriter
  <2>2. ASSUME NEW t \in Threads, ReadCas(t) PROVE ReadersOrWriter'
    <3>1. CASE activity_count = seen[t]
      <4>1. /\ Go(t, "read_cas", "in_read") /\ activity_count' = activity_count + 1
            /\ activity_count >= 0
        BY <2>2, <3>1 DEF ReadCas, Go, SeenNoWriter
      <4>2. /\ Cardinality(At("in_read")') = Cardinality(At("in_read")) + 1
            /\ At("in_write")' = At("in_write")
        BY <4>1, Counts, Moves DEF Places
      <4>3. At("in_write") = {} /\ activity_count = Cardinality(At("in_read"))
        BY <4>1 DEF ReadersOrWriter
      <4> QED
        BY <4>1, <4>2, <4>3 DEF ReadersOrWriter
    <3>2. CASE activity_count # seen[t]
      <4>1. /\ Go(t, "read_cas", "read_load") /\ activity_count' = activity_count
        BY <2>2, <3>2 DEF ReadCas
      <4>2. At("in_read")' = At("in_read") /\ At("in_write")' = At("in_write")
        BY <4>1, Moves DEF Places
      <4> QED
        BY <4>1, <4>2 DEF ReadersOrWriter
    <3> QED
      BY <3>1, <3>2
  <2>3. ASSUME NEW t \in Threads, UpRead(t) PROVE ReadersOrWriter'
    <3>1. Go(t, "in_read", "idle") /\ activity_count' = activity_count - 1
      BY <2>3 DEF UpRead
    <3>2. /\ Cardinality(At("in_read")') = Cardinality(At("in_read")) - 1
          /\ t \in At("in_read") /\ At("in_write")' = At("in_write")
      BY <3>1, Counts, Moves DEF Places
    <3>3. At("in_write") = {} /\ activity_count = Cardinality(At("in_read"))
      BY <3>2 DEF ReadersOrWriter
    <3> QED
      BY <2>0, <3>1, <3>2, <3>3 DEF ReadersOrWriter
  <2>4. ASSUME NEW t \in Threads, DownWrite(t) PROVE ReadersOrWriter'
    <3>1. /\ Go(t, "write", "in_write") /\ activity_count = 0 /\ activity_count' = -1
      BY <2>4 DEF DownWrite
    <3>2. /\ At("in_write")' = At("in_write") \union {t}
          /\ At("in_read")' = At("in_read")
      BY <3>1, Moves DEF Places
    <3>3. At("in_write") = {} /\ At("in_read") = {}
      BY <2>0, <3>1 DEF ReadersOrWriter
    <3> QED
      BY <3>1, <3>2, <3>3 DEF ReadersOrWriter
  <2>5. ASSUME NEW t \in Threads, UpWrite(t) PROVE ReadersOrWriter'
    <3>1. Go(t, "in_write", "idle")
      BY <2>5 DEF UpWrite
    <3>2. /\ t \in At("in_write") /\ At("in_write")' = At("in_write") \ {t}
          /\ At("in_read")' = At("in_read")
      BY <3>1, Moves DEF Places
    <3>3. activity_count = -1 /\ At("in_read") = {} /\ At("in_write")' = {}
      BY <3>2 DEF ReadersOrWriter
    <3>4. activity_count' = 0
      BY <2>5, <3>3 DEF UpWrite
    <3> QED
      BY <2>0, <3>2, <3>3, <3>4 DEF ReadersOrWriter
  <2>6. CASE UNCHANGED activity_count /\ At("in_read")' = At("in_read")
             /\ At("in_write")' = At("in_write")
    BY <2>6 DEF ReadersOrWriter
  <2> QED
    BY <2>1, <2>2, <2>3, <2>4, <2>5, <2>6, RwSteps
<1> QED
  BY <1>1, <1>2, PcTyped, NoWriterSeen, PTL DEF Spec

-----------------------------------------------------------------------------
(* The words of the spinlock and the mutex. *)
FlagsType == lock_state \in {0, 1} /\ locked \in {0, 1} /\ owner_pid \in Threads \union {Nobody}

LEMMA FlagsTyped == Spec => []FlagsType
<1>1. Init => FlagsType
  BY DEF Init, FlagsType
<1>2. FlagsType /\ [Next]_vars => FlagsType'
  BY DEF FlagsType, Next, vars, Go, Call, SpinTry, SpinUnlock, SemLoad, SemCas,
         SemRetry, SemUp, ReadLoad, ReadCas, UpRead, DownWrite, UpWrite, MutexTry,
         MutexOwn, MutexUnlock, MutexDrop, spin, sem, rwsem, mutex
<1> QED
  BY <1>1, <1>2, PTL DEF Spec

(* What a thread loaded from a counter is never negative: sem_down keeps a *)
(* count that has tokens or none, rwsem_down_read one without a writer.    *)
SeenType == seen \in [Threads -> Nat]

LEMMA SeenTyped == Spec => []SeenType
<1>1. Init => SeenType
  BY DEF Init, SeenType
<1>2. SeenType /\ IntType /\ count \in 0 .. Tokens /\ [Next]_vars => SeenType'
  <2> SUFFICES ASSUME SeenType, IntType, count \in Nat, [Next]_vars PROVE SeenType'
    BY LocksAssumption DEF LocksAssumption
  <2>1. ASSUME NEW t \in Threads, SemLoad(t) PROVE SeenType'
    BY <2>1 DEF SemLoad, SeenType
  <2>2. ASSUME NEW t \in Threads, ReadLoad(t) PROVE SeenType'
    BY <2>2 DEF ReadLoad, SeenType, IntType
  <2>3. CASE UNCHANGED seen
    BY <2>3 DEF SeenType
  <2> QED
    BY <2>1, <2>2, <2>3
       DEF Next, vars, Call, SpinTry, SpinUnlock, SemCas, SemRetry, SemUp, ReadCas, UpRead,
           DownWrite, UpWrite, MutexTry, MutexOwn, MutexUnlock, MutexDrop
<1> QED
  BY <1>1, <1>2, IntTyped, SemaphoreNeverOversells, PTL DEF Spec

(* Every lock word has the values its C type's comment gives it: no count  *)
(* of tokens, waiters or readers runs below its least value.               *)
THEOREM WordsTyped == Spec => []TypeOK
<1>1. /\ PcType /\ FlagsType /\ SeenType /\ SemaphoreExact /\ count \in 0 .. Tokens
      /\ WaitersExact /\ ReadersOrWriter
      => TypeOK
  <2> SUFFICES ASSUME PcType, FlagsType, SeenType, count \in 0 .. Tokens, WaitersExact,
                      ReadersOrWriter
               PROVE  TypeOK
    OBVIOUS
  <2>1. total_waiters \in Nat
    BY FiniteAt DEF WaitersExact
  <2>2. activity_count \in Nat \union {-1}
    BY FiniteAt DEF ReadersOrWriter
  <2> QED
    BY <2>1, <2>2 DEF TypeOK, PcType, FlagsType, SeenType
<1> QED
  BY <1>1, PcTyped, FlagsTyped, SeenTyped, SemaphoreNeverOversells, WaitersAreCounted,
     ReadersShareWritersExclude, PTL

=============================================================================
