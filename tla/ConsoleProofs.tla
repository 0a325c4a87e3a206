---------------------------- MODULE ConsoleProofs ----------------------------
(***************************************************************************)
(* For any terminals, users, lines and sizes: the two records of a session *)
(* agree, it stays on its terminal, it is opened with a password, and the  *)
(* keyboard's ring is a queue.                                             *)
(***************************************************************************)
EXTENDS Console, SequenceTheorems, TLAPS

-----------------------------------------------------------------------------
(* What a step does to the session: it opens one, ends one, adds a user,   *)
(* or leaves it alone.                                                     *)
LEMMA SessionSteps ==
  ASSUME [Next]_vars
  PROVE  \/ \E ended \in BOOLEAN : CheckLogin(ended)
         \/ RunLogout
         \/ \E new \in NewUsers : RunUsrAdd(new)
         \/ \E id \in 1 .. MaxTtys : SwitchTty(id)
         \/ UNCHANGED session
<1>1. CASE \E word \in Words : TypeWord(word)
  BY <1>1 DEF TypeWord
<1>2. CASE Erase \/ Enter
  BY <1>2 DEF Erase, Enter
<1>3. CASE \E key \in NameWords \union {"enter", "erase"} : PollUsername(key) \/ PollPassword(key)
  BY <1>3 DEF PollUsername, PollPassword
<1>4. CASE HandlerRuns
  BY <1>4 DEF HandlerRuns, RunPwait, RunOther, SleepDone
<1>5. CASE GetCharLoad \/ GetCharDone \/ Sleep \/ SleepDone("thread") \/ TimerIrq
  BY <1>5 DEF GetCharLoad, GetCharDone, Sleep, SleepDone, TimerIrq
<1>6. CASE UNCHANGED vars
  BY <1>6 DEF vars
<1> QED
  BY <1>1, <1>2, <1>3, <1>4, <1>5, <1>6 DEF Next

(* The table of users. *)
UsersType == users \in Seq(NewUsers) /\ current_user_index \in Nat

LEMMA UsersTyped == Spec => []UsersType
<1>1. Init => UsersType
  BY DEF Init, UsersType
<1>2. UsersType /\ [Next]_vars => UsersType'
  <2> SUFFICES ASSUME UsersType, [Next]_vars PROVE UsersType'
    OBVIOUS
  <2>1. ASSUME NEW ended \in BOOLEAN, CheckLogin(ended) PROVE UsersType'
    BY <2>1 DEF CheckLogin, UsersType
  <2>2. CASE RunLogout
    BY <2>2 DEF RunLogout, UsersType
  <2>3. ASSUME NEW new \in NewUsers, RunUsrAdd(new) PROVE UsersType'
    BY <2>3 DEF RunUsrAdd, UsersType
  <2>4. ASSUME NEW id \in 1 .. MaxTtys, SwitchTty(id) PROVE UsersType'
    BY <2>4 DEF SwitchTty, UsersType
  <2>5. CASE UNCHANGED session
    BY <2>5 DEF session, UsersType
  <2> QED
    BY <2>1, <2>2, <2>3, <2>4, <2>5, SessionSteps
<1> QED
  BY <1>1, <1>2, PTL DEF Spec

-----------------------------------------------------------------------------
(* auth.c, commands.c and tty.c keep current_user_index and current_user   *)
(* in step.                                                                *)
THEOREM SessionRecordsAgree == Spec => []SessionAgrees
<1>1. Init => SessionAgrees
  BY DEF Init, SessionAgrees
<1>2. UsersType /\ SessionAgrees /\ [Next]_vars => SessionAgrees'
  <2> SUFFICES ASSUME UsersType, SessionAgrees, [Next]_vars PROVE SessionAgrees'
    OBVIOUS
  <2>1. ASSUME NEW ended \in BOOLEAN, CheckLogin(ended) PROVE SessionAgrees'
    BY <2>1 DEF CheckLogin, SessionAgrees, UsersType
  <2>2. CASE RunLogout
    BY <2>2 DEF RunLogout, SessionAgrees
  <2>3. ASSUME NEW new \in NewUsers, RunUsrAdd(new) PROVE SessionAgrees'
    <3>1. /\ current_user_index' = current_user_index /\ current_user' = current_user
          /\ users' = users \/ users' = Append(users, new)
      BY <2>3 DEF RunUsrAdd
    <3>2. \A i \in 1 .. Len(users) : i <= Len(users') /\ users'[i] = users[i]
      BY <3>1 DEF UsersType
    <3>3. current_user_index # 0 => current_user_index \in 1 .. Len(users)
      BY DEF SessionAgrees, UsersType
    <3> QED
      BY <3>1, <3>2, <3>3 DEF SessionAgrees
  <2>4. ASSUME NEW id \in 1 .. MaxTtys, SwitchTty(id) PROVE SessionAgrees'
    BY <2>4 DEF SwitchTty, SessionAgrees
  <2>5. CASE UNCHANGED session
    BY <2>5 DEF session, SessionAgrees
  <2> QED
    BY <2>1, <2>2, <2>3, <2>4, <2>5, SessionSteps
<1> QED
  BY <1>1, <1>2, UsersTyped, PTL DEF Spec

(* tty_switch ends the session, so none is open on another terminal.       *)
THEOREM SessionStaysOnItsTty == Spec => []SessionOfThisTty
<1>1. Init => SessionOfThisTty
  BY DEF Init, SessionOfThisTty
<1>2. SessionOfThisTty /\ [Next]_vars => SessionOfThisTty'
  <2> SUFFICES ASSUME SessionOfThisTty, [Next]_vars PROVE SessionOfThisTty'
    OBVIOUS
  <2>1. ASSUME NEW ended \in BOOLEAN, CheckLogin(ended) PROVE SessionOfThisTty'
    BY <2>1 DEF CheckLogin, SessionOfThisTty
  <2>2. CASE RunLogout
    BY <2>2 DEF RunLogout, SessionOfThisTty
  <2>3. ASSUME NEW new \in NewUsers, RunUsrAdd(new) PROVE SessionOfThisTty'
    BY <2>3 DEF RunUsrAdd, SessionOfThisTty
  <2>4. ASSUME NEW id \in 1 .. MaxTtys, SwitchTty(id) PROVE SessionOfThisTty'
    BY <2>4 DEF SwitchTty, SessionOfThisTty
  <2>5. CASE UNCHANGED session
    BY <2>5 DEF session, SessionOfThisTty
  <2> QED
    BY <2>1, <2>2, <2>3, <2>4, <2>5, SessionSteps
<1> QED
  BY <1>1, <1>2, PTL DEF Spec

(* check_login is the only way into a session, and takes both strings.     *)
THEOREM LoginsNeedPasswords == Spec => LoginNeedsPassword
<1> DEFINE Opened ==
      current_user_index' \notin {0, current_user_index} =>
        /\ handler \in {"password", "check"}
        /\ users[current_user_index'].name = temp_user
        /\ users[current_user_index'].password = temp_pass
<1>1. [Next]_vars => Opened
  <2> SUFFICES ASSUME [Next]_vars PROVE Opened
    OBVIOUS
  <2>1. ASSUME NEW ended \in BOOLEAN, CheckLogin(ended) PROVE Opened
    BY <2>1 DEF CheckLogin, Matches
  <2>2. CASE RunLogout
    BY <2>2 DEF RunLogout
  <2>3. ASSUME NEW new \in NewUsers, RunUsrAdd(new) PROVE Opened
    BY <2>3 DEF RunUsrAdd
  <2>4. ASSUME NEW id \in 1 .. MaxTtys, SwitchTty(id) PROVE Opened
    BY <2>4 DEF SwitchTty
  <2>5. CASE UNCHANGED session
    BY <2>5 DEF session
  <2> QED
    BY <2>1, <2>2, <2>3, <2>4, <2>5, SessionSteps
<1>2. Spec => [][Opened]_vars
  BY <1>1, PTL DEF Spec
<1> QED
  BY <1>2 DEF LoginNeedsPassword
-----------------------------------------------------------------------------
(* The ring.  Indices are in it, and a thread in get_char has loaded the   *)
(* character at the tail, which nobody overwrites.                         *)
RingInv ==
  /\ kbd_queue \in [0 .. QueueSize - 1 -> Kinds]
  /\ kbd_head \in 0 .. QueueSize - 1 /\ kbd_tail \in 0 .. QueueSize - 1
  /\ c \in Kinds /\ returned \in Kinds
  /\ thread = "get_char" => kbd_head # kbd_tail /\ c = kbd_queue[kbd_tail]

LEMMA ModOnce ==
  ASSUME NEW x \in Nat, x < 2 * QueueSize
  PROVE  x % QueueSize = IF x < QueueSize THEN x ELSE x - QueueSize
<1>1. CASE x < QueueSize
  BY <1>1, ConsoleAssumption, SMT
<1>2. CASE x >= QueueSize
  BY <1>2, ConsoleAssumption, SMT
<1> QED
  BY <1>1, <1>2, ConsoleAssumption

(* How many characters wait, without the modulus, and where the i-th is. *)
Count(h, t) == IF h >= t THEN h - t ELSE h - t + QueueSize
Slot(t, i) == IF t + i - 1 < QueueSize THEN t + i - 1 ELSE t + i - 1 - QueueSize
Content(q, h, t) == [i \in 1 .. Count(h, t) |-> q[Slot(t, i)]]

LEMMA WaitingIsContent ==
  ASSUME NEW q \in [0 .. QueueSize - 1 -> Kinds],
         NEW h \in 0 .. QueueSize - 1, NEW t \in 0 .. QueueSize - 1
  PROVE  /\ Count(h, t) \in 0 .. QueueSize - 1
         /\ \A i \in 1 .. QueueSize : Slot(t, i) \in 0 .. QueueSize - 1
         /\ [i \in 1 .. (h - t + QueueSize) % QueueSize |-> q[(t + i - 1) % QueueSize]]
              = Content(q, h, t)
         /\ Content(q, h, t) \in Seq(Kinds)
         /\ Len(Content(q, h, t)) = Count(h, t)
<1>1. Count(h, t) \in 0 .. QueueSize - 1
  BY ConsoleAssumption DEF Count
<1>2. \A i \in 1 .. QueueSize : Slot(t, i) \in 0 .. QueueSize - 1
  BY ConsoleAssumption DEF Slot
<1>3. (h - t + QueueSize) % QueueSize = Count(h, t)
  <2> DEFINE x == h - t + QueueSize
  <2>1. x \in Nat /\ x < 2 * QueueSize
    BY ConsoleAssumption
  <2>2. x % QueueSize = IF x < QueueSize THEN x ELSE x - QueueSize
    BY <2>1, ModOnce
  <2> QED
    BY <2>2, ConsoleAssumption DEF Count
<1>4. ASSUME NEW i \in 1 .. Count(h, t) PROVE (t + i - 1) % QueueSize = Slot(t, i)
  <2> DEFINE x == t + i - 1
  <2>1. x \in Nat /\ x < 2 * QueueSize
    BY <1>1, ConsoleAssumption
  <2>2. x % QueueSize = IF x < QueueSize THEN x ELSE x - QueueSize
    BY <2>1, ModOnce
  <2>3. t \in Nat /\ i \in Nat
    BY <1>1
  <2> QED
    BY <2>2, <2>3, ConsoleAssumption DEF Slot
<1>5. [i \in 1 .. (h - t + QueueSize) % QueueSize |-> q[(t + i - 1) % QueueSize]]
        = Content(q, h, t)
  BY <1>3, <1>4 DEF Content
<1>6. \A i \in 1 .. Count(h, t) : q[Slot(t, i)] \in Kinds
  BY <1>1, <1>2, ConsoleAssumption
<1>7. Content(q, h, t) \in Seq(Kinds) /\ Len(Content(q, h, t)) = Count(h, t)
  BY <1>1, <1>6 DEF Content
<1> QED
  BY <1>1, <1>2, <1>5, <1>7

(* When a sequence is another with one element more at its end, or one     *)
(* less at its front.                                                      *)
LEMMA IsAppend ==
  ASSUME NEW S, NEW s \in Seq(S), NEW k \in S, NEW w \in Seq(S), Len(w) = Len(s) + 1,
         \A i \in 1 .. Len(s) : w[i] = s[i], w[Len(s) + 1] = k
  PROVE  w = Append(s, k)
<1>1. /\ Append(s, k) \in Seq(S) /\ Len(Append(s, k)) = Len(s) + 1
      /\ \A i \in 1 .. Len(s) : Append(s, k)[i] = s[i]
      /\ Append(s, k)[Len(s) + 1] = k
  BY AppendProperties
<1>2. \A i \in 1 .. Len(w) : i \in 1 .. Len(s) \/ i = Len(s) + 1
  OBVIOUS
<1>3. \A i \in 1 .. Len(w) : w[i] = Append(s, k)[i]
  BY <1>1, <1>2
<1> QED
  BY <1>1, <1>3, SeqEqual

LEMMA IsTail ==
  ASSUME NEW S, NEW s \in Seq(S), s # <<>>, NEW w \in Seq(S), Len(w) = Len(s) - 1,
         \A i \in 1 .. Len(w) : w[i] = s[i + 1]
  PROVE  w = Tail(s)
<1>1. /\ Tail(s) \in Seq(S) /\ Len(Tail(s)) = Len(s) - 1
      /\ \A i \in 1 .. Len(Tail(s)) : Tail(s)[i] = s[i + 1]
  BY HeadTailProperties
<1>2. \A i \in 1 .. Len(w) : w[i] = Tail(s)[i]
  BY <1>1
<1> QED
  BY <1>1, <1>2, SeqEqual

(* A character put into a ring that is not full is the last to come out.   *)
LEMMA PutAppends ==
  ASSUME NEW q \in [0 .. QueueSize - 1 -> Kinds], NEW k \in Kinds,
         NEW h \in 0 .. QueueSize - 1, NEW t \in 0 .. QueueSize - 1,
         (h + 1) % QueueSize # t
  PROVE  /\ (h + 1) % QueueSize \in 0 .. QueueSize - 1
         /\ Count(h, t) < QueueSize - 1
         /\ Content([q EXCEPT ![h] = k], (h + 1) % QueueSize, t) = Append(Content(q, h, t), k)
<1> DEFINE n == Count(h, t)
           x == h + 1
           next == x % QueueSize
           r == [q EXCEPT ![h] = k]
<1>1. next = IF h = QueueSize - 1 THEN 0 ELSE h + 1
  <2>1. x \in Nat /\ x < 2 * QueueSize
    BY ConsoleAssumption
  <2>2. x % QueueSize = IF x < QueueSize THEN x ELSE x - QueueSize
    BY <2>1, ModOnce
  <2> QED
    BY <2>2, ConsoleAssumption
<1>2. next \in 0 .. QueueSize - 1 /\ n \in Nat /\ n < QueueSize - 1 /\ Count(next, t) = n + 1
  BY <1>1, ConsoleAssumption DEF Count
<1>3. Slot(t, n + 1) = h
  BY <1>2, ConsoleAssumption DEF Slot, Count
<1>4. \A i \in 1 .. n : Slot(t, i) # h /\ Slot(t, i) \in 0 .. QueueSize - 1
  BY <1>2, ConsoleAssumption DEF Slot, Count
<1>5. Content(q, h, t) \in Seq(Kinds) /\ Len(Content(q, h, t)) = n
  BY WaitingIsContent
<1>6. Content(r, next, t) \in Seq(Kinds) /\ Len(Content(r, next, t)) = n + 1
  <2>1. r \in [0 .. QueueSize - 1 -> Kinds]
    OBVIOUS
  <2> QED
    BY <1>2, <2>1, WaitingIsContent
<1>7. \A i \in 1 .. n + 1 : Content(r, next, t)[i] = r[Slot(t, i)]
  BY <1>2 DEF Content
<1>8. \A i \in 1 .. n : Content(q, h, t)[i] = q[Slot(t, i)] /\ q[Slot(t, i)] = r[Slot(t, i)]
  BY <1>4 DEF Content
<1>9. r[Slot(t, n + 1)] = k
  BY <1>3
<1>10. Content(r, next, t) = Append(Content(q, h, t), k)
  <2>1. Content(r, next, t)[n + 1] = k
    <3>1. n + 1 \in 1 .. n + 1
      BY <1>2
    <3>2. Content(r, next, t)[n + 1] = r[Slot(t, n + 1)]
      BY <1>7, <3>1
    <3> QED
      BY <1>9, <3>2
  <2>2. \A i \in 1 .. n : Content(r, next, t)[i] = Content(q, h, t)[i]
    <3> TAKE i \in 1 .. n
    <3>1. i \in 1 .. n + 1
      BY <1>2
    <3> QED
      BY <1>7, <1>8, <3>1
  <2> QED
    BY <1>5, <1>6, <2>1, <2>2, IsAppend
<1> QED
  BY <1>2, <1>10

(* Moving the tail of a ring that is not empty takes the first character.  *)
LEMMA GetTakesHead ==
  ASSUME NEW q \in [0 .. QueueSize - 1 -> Kinds],
         NEW h \in 0 .. QueueSize - 1, NEW t \in 0 .. QueueSize - 1, h # t
  PROVE  /\ (t + 1) % QueueSize \in 0 .. QueueSize - 1
         /\ Content(q, h, t) # <<>> /\ Head(Content(q, h, t)) = q[t]
         /\ Content(q, h, (t + 1) % QueueSize) = Tail(Content(q, h, t))
<1> DEFINE n == Count(h, t)
           x == t + 1
           next == x % QueueSize
<1>1. next = IF t = QueueSize - 1 THEN 0 ELSE t + 1
  <2>1. x \in Nat /\ x < 2 * QueueSize
    BY ConsoleAssumption
  <2>2. x % QueueSize = IF x < QueueSize THEN x ELSE x - QueueSize
    BY <2>1, ModOnce
  <2> QED
    BY <2>2, ConsoleAssumption
<1>2. next \in 0 .. QueueSize - 1 /\ n \in Nat \ {0} /\ n < QueueSize /\ Count(h, next) = n - 1
  BY <1>1, ConsoleAssumption DEF Count
<1>3. Slot(t, 1) = t /\ \A i \in 1 .. n - 1 : Slot(next, i) = Slot(t, i + 1)
  BY <1>1, <1>2, ConsoleAssumption DEF Slot
<1>4. Content(q, h, t) \in Seq(Kinds) /\ Len(Content(q, h, t)) = n
  BY WaitingIsContent
<1>5. Content(q, h, t) # <<>> /\ Head(Content(q, h, t)) = q[t]
  BY <1>2, <1>3, <1>4 DEF Content
<1>6. Content(q, h, next) \in Seq(Kinds) /\ Len(Content(q, h, next)) = n - 1
  BY <1>2, WaitingIsContent
<1>7. \A i \in 1 .. n - 1 : Content(q, h, next)[i] = q[Slot(t, i + 1)]
  BY <1>2, <1>3 DEF Content
<1>8. \A i \in 1 .. n - 1 : Content(q, h, t)[i + 1] = q[Slot(t, i + 1)]
  BY <1>2 DEF Content
<1>9. Content(q, h, next) = Tail(Content(q, h, t))
  BY <1>4, <1>5, <1>6, <1>7, <1>8, IsTail
<1> QED
  BY <1>2, <1>5, <1>9

(* What a step does to the ring.                                           *)
LEMMA RingSteps ==
  ASSUME [Next]_vars
  PROVE  \/ \E key \in Keys : Enqueue(key) /\ UNCHANGED thread_vars
         \/ GetCharLoad
         \/ GetCharDone
         \/ /\ UNCHANGED <<queue, c, returned>>
            /\ thread' = "get_char" => thread = "get_char"
<1>1. CASE \E word \in Words : TypeWord(word)
  BY <1>1 DEF TypeWord, Keys
<1>2. CASE Erase \/ Enter
  BY <1>2 DEF Erase, Enter, Keys
<1>3. CASE \E key \in NameWords \union {"enter", "erase"} : PollUsername(key) \/ PollPassword(key)
  BY <1>3 DEF PollUsername, PollPassword, thread_vars
<1>4. CASE \E ended \in BOOLEAN : CheckLogin(ended)
  BY <1>4 DEF CheckLogin, thread_vars
<1>5. CASE \E id \in 1 .. MaxTtys : SwitchTty(id)
  BY <1>5 DEF SwitchTty, thread_vars
<1>6. CASE RunLogout \/ RunPwait \/ RunOther \/ \E new \in NewUsers : RunUsrAdd(new)
  BY <1>6 DEF RunLogout, RunPwait, RunOther, RunUsrAdd, thread_vars
<1>7. CASE SleepDone("handler") \/ SleepDone("thread") \/ Sleep \/ TimerIrq
  BY <1>7 DEF SleepDone, Sleep, TimerIrq, thread_vars
<1>8. CASE UNCHANGED vars
  BY <1>8 DEF vars, thread_vars
<1> QED
  BY <1>1, <1>2, <1>3, <1>4, <1>5, <1>6, <1>7, <1>8 DEF Next, HandlerRuns

(* A typed character goes to the end of the queue, or nowhere.             *)
LEMMA EnqueuePuts ==
  ASSUME RingInv, NEW key \in Keys, Enqueue(key), UNCHANGED thread_vars
  PROVE  RingInv' /\ (Queue!Put(Kind(key)) \/ UNCHANGED <<Waiting, returned>>)
<1>1. Kind(key) \in Kinds
  BY DEF Kind, Kinds
<1>2. UNCHANGED <<thread, c, returned, kbd_tail>>
  BY DEF thread_vars, Enqueue
<1>3. Waiting = Content(kbd_queue, kbd_head, kbd_tail)
      /\ Len(Waiting) = Count(kbd_head, kbd_tail)
  <2>1. /\ kbd_queue \in [0 .. QueueSize - 1 -> Kinds]
        /\ kbd_head \in 0 .. QueueSize - 1 /\ kbd_tail \in 0 .. QueueSize - 1
    BY DEF RingInv
  <2>2. Waiting = Content(kbd_queue, kbd_head, kbd_tail)
    BY <2>1, WaitingIsContent DEF Waiting
  <2> QED
    BY <2>1, <2>2, WaitingIsContent
<1>4. CASE (kbd_head + 1) % QueueSize = kbd_tail
  BY <1>2, <1>4 DEF Enqueue, RingInv, Waiting
<1>5. CASE (kbd_head + 1) % QueueSize # kbd_tail
  <2>1. /\ kbd_queue' = [kbd_queue EXCEPT ![kbd_head] = Kind(key)]
        /\ kbd_head' = (kbd_head + 1) % QueueSize
    BY <1>5 DEF Enqueue
  <2>2. /\ (kbd_head + 1) % QueueSize \in 0 .. QueueSize - 1
        /\ Count(kbd_head, kbd_tail) < QueueSize - 1
        /\ Content(kbd_queue', kbd_head', kbd_tail) = Append(Waiting, Kind(key))
    BY <1>1, <1>3, <1>5, <2>1, PutAppends DEF RingInv
  <2>3. RingInv'
    BY <1>1, <1>2, <1>5, <2>1, <2>2 DEF RingInv
  <2>4. Waiting' = Content(kbd_queue', kbd_head', kbd_tail')
    BY <2>3, WaitingIsContent DEF Waiting, RingInv
  <2> QED
    BY <1>2, <1>3, <2>2, <2>3, <2>4 DEF Queue!Put
<1> QED
  BY <1>4, <1>5

(* The thread takes the first character, whatever the handler did between  *)
(* its two steps.                                                          *)
LEMMA GetCharGets ==
  ASSUME RingInv, GetCharDone
  PROVE  RingInv' /\ Queue!Get
<1>1. /\ UNCHANGED <<kbd_queue, kbd_head, c>> /\ kbd_tail' = (kbd_tail + 1) % QueueSize
      /\ returned' = kbd_queue[kbd_tail] /\ thread' = "idle" /\ kbd_head # kbd_tail
      /\ returned' \in Kinds
  BY DEF GetCharDone, RingInv
<1>2. Waiting = Content(kbd_queue, kbd_head, kbd_tail)
  BY WaitingIsContent DEF Waiting, RingInv
<1>3. /\ (kbd_tail + 1) % QueueSize \in 0 .. QueueSize - 1
      /\ Waiting # <<>> /\ Head(Waiting) = kbd_queue[kbd_tail]
      /\ Content(kbd_queue, kbd_head, kbd_tail') = Tail(Waiting)
  BY <1>1, <1>2, GetTakesHead DEF RingInv
<1>4. RingInv'
  BY <1>1, <1>3 DEF RingInv
<1>5. Waiting' = Content(kbd_queue', kbd_head', kbd_tail')
  BY <1>4, WaitingIsContent DEF Waiting, RingInv
<1> QED
  BY <1>1, <1>3, <1>4, <1>5 DEF Queue!Get

(* The ring starts as an empty queue. *)
LEMMA RingStarts == Init => RingInv /\ Queue!Init
<1> SUFFICES ASSUME Init PROVE RingInv /\ Queue!Init
  OBVIOUS
<1>1. RingInv
  BY ConsoleAssumption DEF Init, RingInv, Kinds
<1>2. Waiting = Content(kbd_queue, kbd_head, kbd_tail) /\ Waiting \in Seq(Kinds)
      /\ Len(Waiting) = Count(kbd_head, kbd_tail)
  <2>1. /\ kbd_queue \in [0 .. QueueSize - 1 -> Kinds]
        /\ kbd_head \in 0 .. QueueSize - 1 /\ kbd_tail \in 0 .. QueueSize - 1
    BY <1>1 DEF RingInv
  <2>2. Waiting = Content(kbd_queue, kbd_head, kbd_tail)
    BY <2>1, WaitingIsContent DEF Waiting
  <2> QED
    BY <2>1, <2>2, WaitingIsContent
<1>3. Len(Waiting) = 0
  BY <1>2 DEF Init, Count
<1> QED
  BY <1>1, <1>2, <1>3 DEF Queue!Init, RingInv

(* A step on the ring is one on the queue. *)
LEMMA RingMoves == RingInv /\ [Next]_vars => RingInv' /\ [Queue!Next]_(Queue!vars)
<1> SUFFICES ASSUME RingInv, [Next]_vars PROVE RingInv' /\ [Queue!Next]_(Queue!vars)
  OBVIOUS
<1>1. ASSUME NEW key \in Keys, Enqueue(key), UNCHANGED thread_vars
      PROVE  RingInv' /\ [Queue!Next]_(Queue!vars)
  BY <1>1, EnqueuePuts DEF Queue!Next, Queue!vars, Kind, Kinds
<1>2. CASE GetCharLoad
  <2>1. UNCHANGED <<kbd_queue, kbd_head, kbd_tail, returned>>
        /\ c' = kbd_queue[kbd_tail] /\ kbd_head # kbd_tail
    BY <1>2 DEF GetCharLoad, queue
  <2> QED
    BY <2>1 DEF RingInv, Queue!vars, Waiting
<1>3. CASE GetCharDone
  BY <1>3, GetCharGets DEF Queue!Next
<1>4. CASE /\ UNCHANGED <<queue, c, returned>>
           /\ thread' = "get_char" => thread = "get_char"
  BY <1>4 DEF RingInv, queue, Queue!vars, Waiting
<1> QED
  BY <1>1, <1>2, <1>3, <1>4, RingSteps

(* kbd_process_char and get_char, without a lock, make the ring a queue    *)
(* that loses only what it has no room for.                                *)
THEOREM RingIsQueue == Spec => ImplementsQueue
BY RingStarts, RingMoves, PTL DEF Spec, ImplementsQueue, Queue!Spec

-----------------------------------------------------------------------------
(* Types and bounds.  A text is a list of at most n words.                 *)
Fits(text, n, W) == text \in Seq(W) /\ Len(text) <= n

(* A character that is typed makes a text longer by one ... *)
LEMMA AppendFits ==
  ASSUME NEW W, NEW text \in Seq(W), NEW w \in W
  PROVE  Append(text, w) \in Seq(W) /\ Len(Append(text, w)) = Len(text) + 1
BY AppendProperties

(* ... and one that is erased no longer.                                   *)
LEMMA ShorterFits ==
  ASSUME NEW W, NEW text \in Seq(W), text # <<>>
  PROVE  /\ SubSeq(text, 1, Len(text) - 1) \in Seq(W)
         /\ Len(SubSeq(text, 1, Len(text) - 1)) = Len(text) - 1
<1>1. Len(text) \in Nat \ {0}
  BY EmptySeq
<1> DEFINE m == Len(text) - 1
<1>2. m \in Nat /\ \A k \in 1 .. m : text[k] \in W
  BY <1>1, ElementOfSeq
<1>3. SubSeq(text, 1, m) \in Seq(W) /\ Len(SubSeq(text, 1, m)) = m
  <2> HIDE DEF m
  <2>1. Len(SubSeq(text, 1, m)) = IF 1 <= m THEN m - 1 + 1 ELSE 0
    BY <1>2, SubSeqProperties
  <2> QED BY <1>2, <2>1, SubSeqProperties
<1> QED
  BY <1>3

(* A polled key changes a text by at most one character. *)
LEMMA PolledFits ==
  ASSUME NEW text \in Seq(NameWords), NEW key \in NameWords \union {"erase"}
  PROVE  Polled(text, key) \in Seq(NameWords) /\ Len(Polled(text, key)) <= Len(text) + 1
<1>1. CASE key # "erase"
  BY <1>1, AppendFits DEF Polled
<1>2. CASE key = "erase"
  BY <1>2, ShorterFits DEF Polled
<1> QED
  BY <1>1, <1>2

(* What is typed fits its array, the byte that ends it included.  That the *)
(* login dialog's do follows from where its loops end and from both names  *)
(* being empty again when it is over.                                      *)
NamesInv ==
  /\ Fits(temp_user, NameSize - 1, NameWords)
  /\ Fits(temp_pass, NameSize - 1, NameWords)
  /\ handler = "username" => ~Full(temp_user) /\ temp_pass = <<>>
  /\ handler = "password" => ~Full(temp_pass)
  /\ handler \in {"none", "shell", "sleep"} => temp_user = <<>> /\ temp_pass = <<>>

LineInv ==
  /\ handler \in {"none", "shell", "username", "password", "check", "sleep"}
  /\ Fits(line, LineSize - 1, Words)
  /\ rest \in Seq(Words) /\ (handler = "shell" => rest # <<>>)

(* The line being typed and what is left of the line that runs. *)
LEMMA LineTyped == Spec => []LineInv
<1> USE ConsoleAssumption
<1>1. Init => LineInv
  BY EmptySeq DEF Init, LineInv, Fits
<1>2. LineInv /\ [Next]_vars => LineInv'
  <2> SUFFICES ASSUME LineInv, [Next]_vars PROVE LineInv'
    OBVIOUS
  <2>1. ASSUME NEW word \in Words, TypeWord(word) PROVE LineInv'
    BY <2>1, AppendFits DEF TypeWord, LineInv, Fits, dialog
  <2>2. CASE Erase
    BY <2>2, ShorterFits DEF Erase, LineInv, Fits, dialog
  <2>3. CASE Enter
    BY <2>3, EmptySeq DEF Enter, LineInv, Fits
  <2>4. ASSUME NEW key \in NameWords \union {"enter", "erase"},
               PollUsername(key) \/ PollPassword(key)
        PROVE  LineInv'
    BY <2>4 DEF PollUsername, PollPassword, LineInv, Fits
  <2>5. ASSUME NEW ended \in BOOLEAN, CheckLogin(ended) PROVE LineInv'
    BY <2>5 DEF CheckLogin, LineInv, Fits
  <2>6. ASSUME NEW id \in 1 .. MaxTtys, SwitchTty(id) PROVE LineInv'
    BY <2>6 DEF SwitchTty, LineInv, Fits, dialog
  <2>7. CASE RunLogout \/ RunPwait \/ RunOther \/ \E new \in NewUsers : RunUsrAdd(new)
    <3>1. handler = "shell" /\ rest # <<>> /\ Tail(rest) \in Seq(Words) /\ UNCHANGED line
      BY <2>7, HeadTailProperties DEF RunLogout, RunPwait, RunOther, RunUsrAdd, LineInv
    <3>2. \/ \E more \in {<<>>, Tail(rest)} : Continue(more)
          \/ handler' = "sleep" /\ rest' = Tail(rest)
      BY <2>7 DEF RunLogout, RunPwait, RunOther, RunUsrAdd
    <3> QED
      BY <3>1, <3>2, EmptySeq DEF Continue, LineInv, Fits
  <2>8. ASSUME NEW who, SleepDone(who) PROVE LineInv'
    BY <2>8 DEF SleepDone, Continue, LineInv, Fits
  <2>9. CASE GetCharLoad \/ GetCharDone \/ Sleep \/ TimerIrq \/ UNCHANGED vars
    BY <2>9 DEF GetCharLoad, GetCharDone, Sleep, TimerIrq, vars, dialog, LineInv, Fits
  <2> QED
    BY <2>1, <2>2, <2>3, <2>4, <2>5, <2>6, <2>7, <2>8, <2>9 DEF Next, HandlerRuns
<1> QED
  BY <1>1, <1>2, PTL DEF Spec

(* The names typed at the prompts. *)
LEMMA NamesTyped == Spec => []NamesInv
<1> USE ConsoleAssumption
<1>1. Init => NamesInv
  BY EmptySeq DEF Init, NamesInv, Fits
<1>2. NamesInv /\ [Next]_vars => NamesInv'
  <2> SUFFICES ASSUME NamesInv, [Next]_vars PROVE NamesInv'
    OBVIOUS
  <2>1. CASE /\ UNCHANGED <<temp_user, temp_pass>>
             /\ handler \in {"none", "shell", "sleep"} \/ UNCHANGED handler
             /\ handler' \in {"none", "shell", "sleep", "username"} \/ UNCHANGED handler
    BY <2>1, EmptySeq DEF NamesInv, Fits, Full
  <2>2. ASSUME NEW key \in NameWords \union {"enter", "erase"}, PollUsername(key)
        PROVE  NamesInv'
    <3>1. /\ temp_user \in Seq(NameWords) /\ Len(temp_user) < NameSize - 1
          /\ handler = "username" /\ temp_pass = <<>> /\ UNCHANGED temp_pass
          /\ Len(temp_user) \in Nat
      BY <2>2 DEF PollUsername, NamesInv, Fits, Full
    <3>2. temp_user' \in Seq(NameWords) /\ Len(temp_user') <= NameSize - 1
      <4>1. CASE key = "enter"
        BY <2>2, <3>1, <4>1 DEF PollUsername
      <4>2. CASE key # "enter"
        <5>1. temp_user' = Polled(temp_user, key)
          BY <2>2, <4>2 DEF PollUsername
        <5>2. temp_user' \in Seq(NameWords) /\ Len(temp_user') <= Len(temp_user) + 1
          BY <3>1, <4>2, <5>1, PolledFits
        <5> QED BY <3>1, <5>2
      <4> QED BY <4>1, <4>2
    <3>3. handler' \in {"username", "password"} /\ (handler' = "username" => ~Full(temp_user'))
      BY <2>2 DEF PollUsername
    <3>4. Len(temp_pass') = 0 /\ temp_pass' \in Seq(NameWords) /\ temp_pass' = <<>>
      BY <3>1, EmptySeq
    <3> QED
      BY <3>2, <3>3, <3>4 DEF NamesInv, Fits, Full
  <2>3. ASSUME NEW key \in NameWords \union {"enter", "erase"}, PollPassword(key)
        PROVE  NamesInv'
    <3>1. /\ temp_pass \in Seq(NameWords) /\ Len(temp_pass) < NameSize - 1
          /\ Fits(temp_user, NameSize - 1, NameWords) /\ UNCHANGED temp_user
          /\ Len(temp_pass) \in Nat /\ key # "enter"
      BY <2>3 DEF PollPassword, NamesInv, Fits, Full
    <3>2. temp_pass' \in Seq(NameWords) /\ Len(temp_pass') <= NameSize - 1
      <4>1. temp_pass' = Polled(temp_pass, key)
        BY <2>3 DEF PollPassword
      <4>2. temp_pass' \in Seq(NameWords) /\ Len(temp_pass') <= Len(temp_pass) + 1
        BY <3>1, <4>1, PolledFits
      <4> QED BY <3>1, <4>2
    <3>3. handler' \in {"check", "password"} /\ (handler' = "password" => ~Full(temp_pass'))
      BY <2>3 DEF PollPassword
    <3> QED
      BY <3>1, <3>2, <3>3 DEF NamesInv, Fits
  <2>4. ASSUME NEW ended \in BOOLEAN, CheckLogin(ended) PROVE NamesInv'
    BY <2>4, EmptySeq DEF CheckLogin, NamesInv, Fits
  <2>5. CASE \/ \E word \in Words : TypeWord(word)
             \/ Erase \/ Enter
             \/ \E id \in 1 .. MaxTtys : SwitchTty(id)
    BY <2>1, <2>5 DEF TypeWord, Erase, Enter, SwitchTty, dialog
  <2>6. CASE RunLogout \/ RunPwait \/ RunOther \/ \E new \in NewUsers : RunUsrAdd(new)
    BY <2>1, <2>6 DEF RunLogout, RunPwait, RunOther, RunUsrAdd, Continue
  <2>7. ASSUME NEW who, SleepDone(who) PROVE NamesInv'
    BY <2>1, <2>7 DEF SleepDone, Continue
  <2>8. CASE GetCharLoad \/ GetCharDone \/ Sleep \/ TimerIrq \/ UNCHANGED vars
    BY <2>1, <2>8 DEF GetCharLoad, GetCharDone, Sleep, TimerIrq, vars, dialog
  <2> QED
    BY <2>2, <2>3, <2>4, <2>5, <2>6, <2>7, <2>8 DEF Next, HandlerRuns
<1> QED
  BY <1>1, <1>2, PTL DEF Spec

(* The table of users is never longer than users[], and the terminals are  *)
(* terminals.                                                              *)
TableInv ==
  /\ Len(users) <= MaxUsers /\ current_user_index <= Len(users)
  /\ active_tty \in 1 .. MaxTtys /\ login_tty \in 1 .. MaxTtys

LEMMA TableTyped == Spec => []TableInv
<1> USE ConsoleAssumption
<1>1. Init => TableInv
  BY EmptySeq DEF Init, TableInv
<1>2. UsersType /\ TableInv /\ [Next]_vars => TableInv'
  <2> SUFFICES ASSUME UsersType, TableInv, [Next]_vars PROVE TableInv'
    OBVIOUS
  <2>0. Len(users) \in Nat
    BY DEF UsersType
  <2>1. ASSUME NEW ended \in BOOLEAN, CheckLogin(ended) PROVE TableInv'
    <3>1. UNCHANGED <<users, active_tty>>
      BY <2>1 DEF CheckLogin
    <3>2. login_tty' \in {login_tty, active_tty}
      BY <2>1 DEF CheckLogin
    <3>3. current_user_index' \in {current_user_index} \union 1 .. Len(users)
      BY <2>1 DEF CheckLogin
    <3> QED
      BY <2>0, <3>1, <3>2, <3>3 DEF TableInv
  <2>2. CASE RunLogout
    BY <2>0, <2>2 DEF RunLogout, TableInv
  <2>3. ASSUME NEW new \in NewUsers, RunUsrAdd(new) PROVE TableInv'
    <3>1. UNCHANGED <<current_user_index, active_tty, login_tty>>
      BY <2>3 DEF RunUsrAdd
    <3>2. Len(users') <= MaxUsers /\ Len(users) <= Len(users')
      BY <2>0, <2>3, AppendProperties DEF RunUsrAdd, TableInv, UsersType
    <3>3. Len(users') \in Nat /\ current_user_index \in Nat
      BY <2>3, AppendProperties DEF RunUsrAdd, UsersType
    <3> QED
      BY <2>0, <3>1, <3>2, <3>3 DEF TableInv
  <2>4. ASSUME NEW id \in 1 .. MaxTtys, SwitchTty(id) PROVE TableInv'
    BY <2>0, <2>4 DEF SwitchTty, TableInv
  <2>5. CASE UNCHANGED session
    BY <2>5 DEF session, TableInv
  <2> QED
    BY <2>1, <2>2, <2>3, <2>4, <2>5, SessionSteps
<1> QED
  BY <1>1, <1>2, UsersTyped, PTL DEF Spec

(* Who sleeps has no more ticks left than timer_sleep set. *)
SleepInv ==
  /\ thread \in {"idle", "get_char", "sleep"}
  /\ left \in [{"thread", "handler"} -> 0 .. SleepTicks]
  /\ reloads \in BOOLEAN

LEMMA SleepTyped == Spec => []SleepInv
<1> USE ConsoleAssumption
<1>1. Init => SleepInv
  BY DEF Init, SleepInv
<1>2. SleepInv /\ [Next]_vars => SleepInv'
  <2> SUFFICES ASSUME SleepInv, [Next]_vars PROVE SleepInv'
    OBVIOUS
  <2>1. CASE UNCHANGED <<thread_vars, left, reloads>>
    BY <2>1 DEF SleepInv, thread_vars
  <2>2. CASE GetCharLoad \/ GetCharDone
    BY <2>2 DEF GetCharLoad, GetCharDone, SleepInv
  <2>3. CASE Sleep \/ RunPwait
    BY <2>3 DEF Sleep, RunPwait, SleepInv, thread_vars
  <2>4. ASSUME NEW who, SleepDone(who) PROVE SleepInv'
    BY <2>4 DEF SleepDone, SleepInv
  <2>5. CASE TimerIrq
    BY <2>5 DEF TimerIrq, SleepInv, thread_vars
  <2>6. CASE \/ \E word \in Words : TypeWord(word)
             \/ Erase \/ Enter
             \/ \E id \in 1 .. MaxTtys : SwitchTty(id)
             \/ UNCHANGED vars
    BY <2>1, <2>6 DEF TypeWord, Erase, Enter, SwitchTty, vars
  <2>7. CASE \/ \E key \in NameWords \union {"enter", "erase"} :
                  PollUsername(key) \/ PollPassword(key)
             \/ \E ended \in BOOLEAN : CheckLogin(ended)
             \/ RunLogout \/ RunOther \/ \E new \in NewUsers : RunUsrAdd(new)
    BY <2>1, <2>7 DEF PollUsername, PollPassword, CheckLogin, RunLogout, RunOther, RunUsrAdd
  <2> QED
    BY <2>2, <2>3, <2>4, <2>5, <2>6, <2>7 DEF Next, HandlerRuns
<1> QED
  BY <1>1, <1>2, PTL DEF Spec

(* The arrays of the console, the line's, the dialog's, the table's and    *)
(* the ring's, are never overrun, whatever is typed, erased or cut off.    *)
THEOREM ConsoleTyped == Spec => []TypeOK
<1>1. RingInv /\ UsersType /\ LineInv /\ NamesInv /\ TableInv /\ SleepInv => TypeOK
  BY ConsoleAssumption DEF RingInv, UsersType, LineInv, NamesInv, TableInv, SleepInv, TypeOK, Fits
<1>2. Spec => []RingInv
  BY RingStarts, RingMoves, PTL DEF Spec
<1> QED
  BY <1>1, <1>2, UsersTyped, LineTyped, NamesTyped, TableTyped, SleepTyped, PTL
=============================================================================
