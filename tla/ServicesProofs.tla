--------------------------- MODULE ServicesProofs ----------------------------
(***************************************************************************)
(* What holds of the services of the kernel, for every length of the queue, *)
(* of the table, of the ring and of the lists: tasks, alarms, the log, slab *)
(* caches and LRU lists.                                                   *)
(***************************************************************************)
EXTENDS MCServices, Induction, SequenceTheorems, FiniteSetTheorems

-----------------------------------------------------------------------------
(* Tasks *)

LastBoot == Len(BootSteps)

\* The daemons whose turn in k_main is over; the others have no structure yet
Made == {Daemons[k] : k \in {j \in DOMAIN Daemons : j < stage - LastBoot}}

TaskRecord == [pid : Nat, state : {"READY", "RUNNING", "ZOMBIE"}, pledge_active : BOOLEAN,
               pledge_mask : SUBSET Promises]

TaskTypes ==
  /\ stage \in Nat /\ current_idx \in Nat /\ next_pid \in Nat \ {0}
  /\ pagesLeft \in Nat /\ halted \in BOOLEAN
  /\ task \in [TaskNames -> TaskRecord]
  /\ ready_queue \in Seq(Made)

\* Queued tasks are made, and their numbers were given out one by one
Queued ==
  /\ \A i \in DOMAIN ready_queue : task[ready_queue[i]].pid \in 1 .. next_pid - 1
  /\ \A i, j \in DOMAIN ready_queue :
       task[ready_queue[i]].pid = task[ready_queue[j]].pid => i = j

ChosenNext ==
  /\ current_idx = 0 \/ current_idx < Len(ready_queue)
  /\ \/ current_task \in {NoTask, Swapper, TestTask}
     \/ ready_queue # <<>> /\ current_task = ready_queue[current_idx + 1]

\* A task that is going to be made anew has not pledged
Unpledged ==
  /\ current_task = TestTask => halted
  /\ task[TestTask].pledge_active => halted
  /\ stage <= LastBoot => current_task \in {NoTask, TestTask}
  /\ \A t \in ToSet(Daemons) \ Made : ~task[t].pledge_active

TasksInv == TaskTypes /\ Queued /\ ChosenNext /\ Unpledged

UsersTyped == active_users \subseteq 0 .. MAX_USERS - 1 /\ current_user_index \in -1 .. MAX_USERS - 1

\* The steps of the boot that others need, in their order
BootOrder ==
  /\ UsersTyped /\ stage \in Nat /\ used \subseteq ready \union {"auth"}
  /\ stage > 0 => "mm" \in ready
  /\ stage > 1 => "arch" \in ready
  /\ stage > 2 => "vfs" \in ready
  /\ stage > 3 => "xfs" \in ready
  /\ stage > 4 => "tty" \in ready
  /\ stage > 6 => "session" \in ready
  /\ "irq" \in ready => stage > 8

LEMMA BootTable ==
  /\ LastBoot = 13
  /\ BootSteps[1].name = "mm" /\ BootSteps[1].uses = {}
  /\ BootSteps[2].name = "arch" /\ BootSteps[2].uses = {"mm"}
  /\ BootSteps[3].name = "vfs" /\ BootSteps[3].uses = {"mm"}
  /\ BootSteps[4].name = "xfs" /\ BootSteps[4].uses = {"mm", "vfs"}
  /\ BootSteps[5].name = "tty" /\ BootSteps[5].uses = {}
  /\ BootSteps[6].name = "initramfs" /\ BootSteps[6].uses = {"vfs", "xfs"}
  /\ BootSteps[7].name = "session" /\ BootSteps[7].uses = {}
  /\ BootSteps[8].name = "tss" /\ BootSteps[8].uses = {"arch"}
  /\ BootSteps[9].name = "irq" /\ BootSteps[9].uses = {"arch"}
  /\ BootSteps[10].name = "auth" /\ BootSteps[10].uses = {"tty"}
  /\ BootSteps[11].name = "buses" /\ BootSteps[11].uses = {"mm"}
  /\ BootSteps[12].name = "fb" /\ BootSteps[12].uses = {"vfs", "mm"}
  /\ BootSteps[13].name = "initrd" /\ BootSteps[13].uses = {"vfs", "xfs"}
BY DEF BootSteps, LastBoot

LEMMA UsersStayTyped ==
  ASSUME TasksAssumption, UsersTyped, [TasksNext]_taskVars PROVE UsersTyped'
<1>0. MAX_USERS \in Nat
  BY DEF TasksAssumption
<1>1. CASE InitAllStep
  <2>1. active_users' \subseteq active_users /\ current_user_index' \in {-1, current_user_index}
    BY <1>1 DEF InitAllStep
  <2>2. QED BY <1>0, <2>1 DEF UsersTyped
<1>2. CASE KeyboardIrq
  <2>1. AddUser => UsersTyped'
    BY DEF AddUser, UsersTyped
  <2>2. LogIn => UsersTyped'
    <3>1. \A i \in 0 .. MAX_USERS - 1 : i \in -1 .. MAX_USERS - 1
      BY <1>0
    <3>2. QED BY <3>1 DEF LogIn, UsersTyped
  <2>3. LogOut => UsersTyped'
    BY <1>0 DEF LogOut, UsersTyped
  <2>4. UNCHANGED userTable => UsersTyped'
    BY DEF userTable, UsersTyped
  <2>5. QED BY <1>2, <2>1, <2>2, <2>3, <2>4 DEF KeyboardIrq
<1>3. CASE UNCHANGED userTable
  BY <1>3 DEF userTable, UsersTyped
<1>4. QED
  BY <1>1, <1>2, <1>3
  DEF TasksNext, BecomeSwapper, KthreadCreate, TimerTrap, OwnerWrites, TestModuleInit, SysPledge,
      SecurityCheckSyscall, taskVars, userTable

LEMMA BootStepKeepsOrder ==
  ASSUME BootOrder, UsersTyped', InitAllStep PROVE BootOrder'
<1> DEFINE s == BootSteps[stage + 1]
<1>1. /\ stage \in 0 .. 12 /\ stage' = stage + 1
      /\ \/ used' = used \union s.uses /\ ready' = ready \union {s.name}
         \/ s.name \in {"initramfs", "fb", "initrd"} /\ used' = used /\ ready' = ready
  BY BootTable DEF InitAllStep, BootOrder, LastBoot
<1>2. \/ stage = 0 \/ stage = 1 \/ stage = 2 \/ stage = 3 \/ stage = 4 \/ stage = 5 \/ stage = 6
      \/ stage = 7 \/ stage = 8 \/ stage = 9 \/ stage = 10 \/ stage = 11 \/ stage = 12
  BY <1>1
<1>a. CASE stage \in 0 .. 3
  BY <1>1, <1>a, BootTable DEF BootOrder
<1>b. CASE stage \in 4 .. 6
  BY <1>1, <1>b, BootTable DEF BootOrder
<1>c. CASE stage \in 7 .. 9
  BY <1>1, <1>c, BootTable DEF BootOrder
<1>d. CASE stage \in 10 .. 12
  BY <1>1, <1>d, BootTable DEF BootOrder
<1>3. QED BY <1>1, <1>a, <1>b, <1>c, <1>d

(* Every step keeps the order of the boot. *)
LEMMA NextKeepsOrder ==
  ASSUME TasksAssumption, BootOrder, [TasksNext]_taskVars PROVE BootOrder'
<1>0. UsersTyped'
  BY UsersStayTyped DEF BootOrder
<1>1. CASE InitAllStep
  BY <1>0, <1>1, BootStepKeepsOrder
<1>2. CASE KeyboardIrq
  BY <1>0, <1>2 DEF KeyboardIrq, BootOrder
<1>3. CASE BecomeSwapper \/ KthreadCreate
  <2>1. stage' = stage + 1 /\ stage >= 13 /\ UNCHANGED <<used, ready>>
    BY <1>3, BootTable DEF BecomeSwapper, KthreadCreate, BootOrder, LastBoot
  <2>2. QED BY <1>0, <2>1 DEF BootOrder
<1>4. ASSUME UNCHANGED <<stage, used, ready>> PROVE BootOrder'
  BY <1>0, <1>4 DEF BootOrder
<1>5. TimerTrap \/ OwnerWrites \/ TestModuleInit \/ (\E ps \in {{}, {"stdio"}, {"stdio", "rpath"}} : SysPledge(ps))
        \/ (\E c \in {"stdio", "rpath"} : SecurityCheckSyscall(c)) \/ UNCHANGED taskVars
      => UNCHANGED <<stage, used, ready>>
  BY DEF TimerTrap, OwnerWrites, TestModuleInit, SysPledge, SecurityCheckSyscall, taskVars
<1>6. QED
  BY <1>1, <1>2, <1>3, <1>4, <1>5 DEF TasksNext

-----------------------------------------------------------------------------
(* A daemon has one turn: until then no queue holds it. *)
LEMMA TurnIsOnce ==
  ASSUME TasksAssumption, stage \in Nat,
         NEW n, n = stage - LastBoot, n \in 1 .. Len(Daemons), stage' = stage + 1
  PROVE  /\ Daemons[n] \in ToSet(Daemons) \ Made
         /\ Made' = Made \union {Daemons[n]}
<1>1. LastBoot = 13
  BY BootTable
<1>2. Daemons \in Seq(ToSet(Daemons)) /\ DOMAIN Daemons = 1 .. Len(Daemons)
  BY DEF TasksAssumption
<1>3. Daemons[n] \in ToSet(Daemons)
  BY <1>2 DEF ToSet
<1>4. Daemons[n] \notin Made
  BY <1>1, <1>2 DEF Made, TasksAssumption, IsInjective
<1>5. {j \in DOMAIN Daemons : j < stage' - LastBoot} = {j \in DOMAIN Daemons : j < stage - LastBoot} \union {n}
  BY <1>1, <1>2
<1>6. Made' = Made \union {Daemons[n]}
  BY <1>5 DEF Made, LastBoot
<1>7. QED BY <1>3, <1>4, <1>6

LEMMA MadeGrows ==
  ASSUME TasksAssumption, stage \in Nat, stage' \in {stage, stage + 1},
         stage' = stage + 1 => stage <= LastBoot
  PROVE  Made' = Made
<1>1. LastBoot = 13 /\ DOMAIN Daemons = 1 .. Len(Daemons) /\ Len(Daemons) \in Nat
  BY BootTable DEF TasksAssumption
<1>2. {j \in DOMAIN Daemons : j < stage' - LastBoot} = {j \in DOMAIN Daemons : j < stage - LastBoot}
  BY <1>1
<1>3. QED BY <1>2 DEF Made, LastBoot

LEMMA TaskNamesApart ==
  ASSUME TasksAssumption
  PROVE  /\ Swapper \in TaskNames /\ TestTask \in TaskNames /\ Swapper # TestTask
         /\ NoTask # Swapper /\ NoTask # TestTask /\ NoTask \notin TaskNames
         /\ Swapper \notin ToSet(Daemons) /\ TestTask \notin ToSet(Daemons)
         /\ ToSet(Daemons) \subseteq TaskNames /\ Made \subseteq ToSet(Daemons)
<1>1. Made \subseteq ToSet(Daemons)
  BY DEF Made, ToSet
<1>2. QED BY <1>1 DEF TasksAssumption, TaskNames, Swapper, TestTask, NoTask

LEMMA NewTaskTyped ==
  ASSUME NEW pid \in Nat PROVE NewTask(pid) \in TaskRecord /\ ~NewTask(pid).pledge_active
                               /\ NewTask(pid).pid = pid
BY DEF NewTask, TaskRecord

LEMMA PledgedTyped ==
  ASSUME NEW t \in TaskRecord, NEW ps \in SUBSET Promises
  PROVE  /\ Pledged(t, ps) \in TaskRecord /\ Pledged(t, ps).pid = t.pid
         /\ t.pledge_active => Pledged(t, ps).pledge_active
                               /\ Pledged(t, ps).pledge_mask \subseteq t.pledge_mask
BY DEF Pledged, TaskRecord

(* The scheduler takes a task of the queue or changes nothing. *)
LEMMA ScheduleChooses ==
  ASSUME TaskTypes, ChosenNext, NEW running, ScheduleFrom(running), ready_queue' = ready_queue,
         running \in {NoTask, Swapper, TestTask} \/ running = current_task
  PROVE  /\ current_idx' \in Nat /\ ChosenNext'
         /\ ready_queue = <<>> => current_task' = running
         /\ ready_queue # <<>> => current_task' \in Made
<1>1. CASE ready_queue = <<>>
  BY <1>1 DEF ScheduleFrom, TaskTypes, ChosenNext
<1>2. CASE ready_queue # <<>>
  <2>1. ready_queue \in Seq(Made) /\ Len(ready_queue) \in Nat \ {0}
    BY <1>2, EmptySeq DEF TaskTypes
  <2>2. NextIdx \in Nat /\ NextIdx < Len(ready_queue) /\ NextIdx + 1 \in 1 .. Len(ready_queue)
    BY <2>1 DEF NextIdx, TaskTypes
  <2>3. current_idx' = NextIdx /\ current_task' = ready_queue[NextIdx + 1]
    BY <1>2 DEF ScheduleFrom
  <2>4. ready_queue[NextIdx + 1] \in Made
    BY <2>1, <2>2
  <2>5. QED BY <1>2, <2>2, <2>3, <2>4 DEF ChosenNext
<1>3. QED BY <1>1, <1>2

LEMMA TasksInvInit == TasksAssumption /\ TasksInit => TasksInv /\ BootOrder
<1> SUFFICES ASSUME TasksAssumption, TasksInit PROVE TasksInv /\ BootOrder
  OBVIOUS
<1>0. /\ stage = 0 /\ ready = {} /\ used = {} /\ ready_queue = <<>> /\ current_idx = 0
      /\ current_task = NoTask /\ next_pid = 1 /\ pagesLeft = TaskPages /\ halted = FALSE
      /\ active_users = {} /\ current_user_index = -1
  BY DEF TasksInit
<1>1. LastBoot = 13 /\ DOMAIN Daemons = 1 .. Len(Daemons)
  BY BootTable DEF TasksAssumption
<1>2. Made = {}
  BY <1>0, <1>1 DEF Made
<1>3. task \in [TaskNames -> TaskRecord] /\ \A t \in TaskNames : ~task[t].pledge_active
  <2>1. \A t \in TaskNames : (IF t = TestTask THEN 99 ELSE 0) \in Nat
    OBVIOUS
  <2>2. \A t \in TaskNames : LET r == NewTask(IF t = TestTask THEN 99 ELSE 0)
                             IN r \in TaskRecord /\ ~r.pledge_active
    BY <2>1, NewTaskTyped
  <2>3. QED BY <2>2 DEF TasksInit
<1>4. TaskTypes
  <2>1. ready_queue \in Seq(Made)
    BY <1>0, EmptySeq
  <2>2. /\ stage \in Nat /\ current_idx \in Nat /\ next_pid \in Nat \ {0}
        /\ pagesLeft \in Nat
    BY <1>0 DEF TasksAssumption
  <2>3. halted \in BOOLEAN
    BY <1>0
  <2>4. QED BY <1>3, <2>1, <2>2, <2>3 DEF TaskTypes
<1>5. Queued /\ ChosenNext
  BY <1>0 DEF Queued, ChosenNext
<1>6. Unpledged
  BY <1>0, <1>3, TaskNamesApart DEF Unpledged
<1>7. BootOrder
  BY <1>0 DEF BootOrder, UsersTyped, TasksAssumption
<1>8. QED BY <1>4, <1>5, <1>6, <1>7 DEF TasksInv

(* A step that leaves the queue and the numbers of the tasks alone. *)
LEMMA NumbersKept ==
  ASSUME TasksAssumption, TasksInv, UNCHANGED <<ready_queue, next_pid>>,
         \A t \in Made : task'[t].pid = task[t].pid
  PROVE  Queued'
<1>1. \A i \in DOMAIN ready_queue : ready_queue[i] \in Made
  BY DEF TasksInv, TaskTypes
<1>2. QED BY <1>1 DEF TasksInv, Queued

(* Who asks for something is a task that was made, after the boot. *)
LEMMA CurrentIsTask ==
  ASSUME TasksAssumption, TasksInv, ~halted, current_task # NoTask
  PROVE  /\ stage > LastBoot /\ (current_task = Swapper \/ current_task \in Made)
         /\ current_task \in TaskNames /\ current_task # TestTask
<1>1. stage \in Nat /\ LastBoot = 13
  BY BootTable DEF TasksInv, TaskTypes
<1>2. stage > LastBoot
  BY <1>1 DEF TasksInv, Unpledged
<1>3. \A i \in 1 .. Len(ready_queue) : ready_queue[i] \in Made
  BY DEF TasksInv, TaskTypes
<1>4. ready_queue # <<>> => Len(ready_queue) \in Nat \ {0}
  BY EmptySeq DEF TasksInv, TaskTypes
<1>5. ready_queue # <<>> => current_idx + 1 \in 1 .. Len(ready_queue)
  BY <1>4 DEF TasksInv, TaskTypes, ChosenNext
<1>6. current_task = Swapper \/ current_task \in Made
  BY <1>3, <1>5 DEF TasksInv, ChosenNext, Unpledged
<1>7. QED BY <1>2, <1>6, TaskNamesApart

(* A step that leaves all but the record of the current task alone. *)
LEMMA CurrentChanges ==
  ASSUME TasksAssumption, TasksInv, ~halted, current_task # NoTask,
         NEW r, r \in TaskRecord, r.pid = task[current_task].pid,
         task' = [task EXCEPT ![current_task] = r], halted' \in BOOLEAN,
         UNCHANGED <<stage, ready_queue, next_pid, pagesLeft>>
  PROVE  /\ current_task \in TaskNames /\ stage > LastBoot
         /\ UNCHANGED Made /\ Queued' /\ task' \in [TaskNames -> TaskRecord]
         /\ ~task'[TestTask].pledge_active
         /\ \A t \in ToSet(Daemons) \ Made : ~task'[t].pledge_active
<1>1. stage \in Nat /\ LastBoot = 13 /\ task \in [TaskNames -> TaskRecord]
  BY BootTable DEF TasksInv, TaskTypes
<1>2. stage > LastBoot
  BY <1>1 DEF TasksInv, Unpledged
<1>3. UNCHANGED Made
  BY DEF Made, LastBoot
<1>4. current_task = Swapper \/ current_task \in Made
  BY CurrentIsTask
<1>5. current_task \in TaskNames /\ current_task # TestTask
      /\ \A t \in ToSet(Daemons) \ Made : t # current_task
  BY <1>4, TaskNamesApart
<1>6. task' \in [TaskNames -> TaskRecord] /\ \A t \in TaskNames : task'[t].pid = task[t].pid
  BY <1>1, <1>5
<1>7. Queued'
  BY <1>6, NumbersKept, TaskNamesApart
<1>8. \A t \in TaskNames : t # current_task => task'[t] = task[t]
  BY <1>1
<1>9. QED
  BY <1>2, <1>3, <1>5, <1>6, <1>7, <1>8, TaskNamesApart DEF TasksInv, Unpledged

LEMMA KthreadCreateKeeps ==
  ASSUME TasksAssumption, TasksInv, KthreadCreate PROVE TasksInv'
<1> DEFINE n == stage - LastBoot  d == Daemons[n]
<1>1. /\ stage \in Nat /\ LastBoot = 13 /\ n \in 1 .. Len(Daemons) /\ stage' = stage + 1
      /\ UNCHANGED <<current_idx, current_task, halted>>
  BY BootTable DEF TasksInv, TaskTypes, KthreadCreate, LastBoot
<1>2. d \in ToSet(Daemons) \ Made /\ Made' = Made \union {d}
  BY <1>1, TurnIsOnce
<1>3. d \in TaskNames /\ d # Swapper /\ d # TestTask
  BY <1>2, TaskNamesApart
<1>4. \/ UNCHANGED <<task, next_pid, ready_queue>>
      \/ /\ task' = [task EXCEPT ![d] = NewTask(next_pid)] /\ next_pid' = next_pid + 1
         /\ ready_queue' = Append(ready_queue, d) \/ ready_queue' = ready_queue
  <2>1. n = stage - Len(BootSteps)
    BY DEF LastBoot
  <2>2. QED BY <2>1 DEF KthreadCreate, AddTask
<1>5. /\ task \in [TaskNames -> TaskRecord] /\ next_pid \in Nat \ {0} /\ ready_queue \in Seq(Made)
      /\ Len(ready_queue) \in Nat
  BY DEF TasksInv, TaskTypes
<1>6. task' \in [TaskNames -> TaskRecord] /\ \A t \in TaskNames \ {d} : task'[t] = task[t]
  <2>1. NewTask(next_pid) \in TaskRecord
    BY <1>5, NewTaskTyped
  <2>2. QED BY <1>4, <1>5, <2>1
<1>7. ready_queue' \in Seq(Made') /\ pagesLeft' \in Nat /\ next_pid' \in Nat \ {0}
  <2>1. pagesLeft' \in Nat
    BY DEF KthreadCreate, TasksInv, TaskTypes
  <2>2. ready_queue \in Seq(Made')
    BY <1>2, <1>5
  <2>3. next_pid' \in Nat \ {0}
    BY <1>4, <1>5
  <2>4. d \in Made'
    BY <1>2
  <2>5. Append(ready_queue, d) \in Seq(Made')
    <3> HIDE DEF d
    <3> QED BY <2>2, <2>4
  <2>6. QED BY <2>1, <2>2, <2>3, <2>5, <1>4
<1>8. TaskTypes'
  BY <1>1, <1>6, <1>7 DEF TaskTypes, TasksInv
<1>9. Queued'
  <2>1. \A i \in DOMAIN ready_queue : ready_queue[i] \in Made /\ ready_queue[i] \in TaskNames \ {d}
    BY <1>2, <1>5, TaskNamesApart
  <2>2. CASE UNCHANGED <<task, next_pid, ready_queue>>
    BY <2>2 DEF TasksInv, Queued
  <2>3. CASE next_pid' = next_pid + 1 /\ ready_queue' = ready_queue
    <3>1. \A i \in DOMAIN ready_queue : task'[ready_queue[i]].pid = task[ready_queue[i]].pid
      BY <2>1, <1>6
    <3>2. QED BY <2>3, <3>1, <1>5 DEF TasksInv, Queued
  <2>4. CASE /\ task' = [task EXCEPT ![d] = NewTask(next_pid)] /\ next_pid' = next_pid + 1
             /\ ready_queue' = Append(ready_queue, d)
    <3> DEFINE m == Len(ready_queue)
    <3>1. /\ DOMAIN ready_queue = 1 .. m /\ DOMAIN ready_queue' = 1 .. m + 1
          /\ \A i \in 1 .. m : ready_queue'[i] = ready_queue[i]
          /\ ready_queue'[m + 1] = d
      BY <2>4, <1>2, <1>5
    <3>2. task'[d].pid = next_pid
      BY <2>4, <1>3, <1>5, NewTaskTyped
    <3>3. \A i \in 1 .. m : /\ task'[ready_queue'[i]].pid = task[ready_queue[i]].pid
                            /\ task[ready_queue[i]].pid \in 1 .. next_pid - 1
      BY <2>1, <1>6, <3>1 DEF TasksInv, Queued
    <3>4. task'[ready_queue'[m + 1]].pid = next_pid
      BY <3>1, <3>2
    <3>5. \A i, j \in 1 .. m : task'[ready_queue'[i]].pid = task'[ready_queue'[j]].pid => i = j
      BY <3>1, <3>3 DEF TasksInv, Queued
    <3> HIDE DEF m
    <3>6. \A i \in 1 .. m + 1 : i \in 1 .. m \/ i = m + 1
      BY <1>5 DEF m
    <3>7. \A i \in DOMAIN ready_queue' : task'[ready_queue'[i]].pid \in 1 .. next_pid' - 1
      <4> DEFINE P(i) == task'[ready_queue'[i]].pid
      <4>1. /\ \A i \in 1 .. m : P(i) \in 1 .. next_pid - 1
            /\ P(m + 1) = next_pid
        BY <3>3, <3>4
      <4> HIDE DEF P
      <4>2. \A i \in 1 .. m + 1 : P(i) \in 1 .. next_pid' - 1
        BY <4>1, <3>6, <2>4, <1>5
      <4>3. QED BY <4>2, <3>1 DEF P
    <3>8. \A i, j \in DOMAIN ready_queue' :
             task'[ready_queue'[i]].pid = task'[ready_queue'[j]].pid => i = j
      BY <3>1, <3>3, <3>4, <3>5, <3>6, <1>5
    <3>9. QED BY <3>7, <3>8 DEF Queued
  <2>5. QED BY <1>4, <2>2, <2>3, <2>4
<1>10. ChosenNext'
  <2>1. /\ Len(ready_queue') >= Len(ready_queue)
        /\ \A i \in 1 .. Len(ready_queue) : ready_queue'[i] = ready_queue[i]
    BY <1>2, <1>4, <1>5
  <2>2. /\ Len(ready_queue') \in Nat
        /\ ready_queue # <<>> => Len(ready_queue) > 0
        /\ ready_queue' = <<>> => Len(ready_queue') = 0
    BY <1>5, <1>7, EmptySeq
  <2>3. ready_queue # <<>> => current_idx + 1 \in 1 .. Len(ready_queue)
    BY <2>2, <1>5 DEF TasksInv, TaskTypes, ChosenNext
  <2>4. current_idx = 0 \/ current_idx < Len(ready_queue')
    BY <2>1, <1>5, <2>2 DEF TasksInv, TaskTypes, ChosenNext
  <2>5. \/ current_task \in {NoTask, Swapper, TestTask}
        \/ ready_queue' # <<>> /\ current_task = ready_queue'[current_idx + 1]
    BY <2>1, <2>2, <2>3, <1>5 DEF TasksInv, ChosenNext
  <2>6. QED BY <1>1, <2>4, <2>5 DEF ChosenNext
<1>11. Unpledged'
  <2>1. stage' > LastBoot
    BY <1>1
  <2>2. TestTask \in TaskNames \ {d}
    BY <1>3, TaskNamesApart
  <2>3. \A t \in ToSet(Daemons) \ Made' : t \in ToSet(Daemons) \ Made /\ t \in TaskNames \ {d}
    BY <1>2, TaskNamesApart
  <2>4. QED BY <1>1, <1>6, <2>1, <2>2, <2>3 DEF TasksInv, Unpledged, LastBoot
<1>12. QED BY <1>8, <1>9, <1>10, <1>11 DEF TasksInv

(* Every step keeps the invariant. *)
LEMMA TasksInvStep ==
  ASSUME TasksAssumption, TasksInv, [TasksNext]_taskVars PROVE TasksInv'
<1>0. /\ stage \in Nat /\ LastBoot = 13 /\ TaskTypes /\ Queued /\ ChosenNext /\ Unpledged
  BY BootTable DEF TasksInv, TaskTypes
<1>1. CASE InitAllStep
  <2>1. /\ stage' = stage + 1 /\ stage < LastBoot
        /\ UNCHANGED <<task, ready_queue, current_idx, current_task, next_pid, pagesLeft, halted>>
    BY <1>1 DEF InitAllStep, LastBoot
  <2>2. Made' = Made
    BY <2>1, <1>0, MadeGrows
  <2>3. TaskTypes'
    BY <2>1, <2>2, <1>0 DEF TaskTypes
  <2>4. Queued' /\ ChosenNext'
    BY <2>1, <1>0 DEF Queued, ChosenNext
  <2>5. Unpledged'
    BY <2>1, <2>2, <1>0 DEF Unpledged, LastBoot
  <2>6. QED BY <2>3, <2>4, <2>5 DEF TasksInv
<1>2. CASE KeyboardIrq \/ UNCHANGED taskVars
  <2>1. UNCHANGED <<stage, task, ready_queue, current_idx, current_task, next_pid, pagesLeft, halted>>
    BY <1>2 DEF KeyboardIrq, taskVars
  <2>2. QED
    BY <2>1, <1>0 DEF TasksInv, TaskTypes, Queued, ChosenNext, Unpledged, Made, LastBoot
<1>3. CASE BecomeSwapper
  <2>1. /\ stage' = stage + 1 /\ stage = LastBoot /\ current_task' = Swapper
        /\ task' = [task EXCEPT ![Swapper].pid = 0, ![Swapper].state = "RUNNING"] /\ ~halted
        /\ UNCHANGED <<ready_queue, current_idx, next_pid, pagesLeft, halted>>
    BY <1>3 DEF BecomeSwapper, LastBoot
  <2>2. Made' = Made
    BY <2>1, <1>0, MadeGrows
  <2>3. /\ task' \in [TaskNames -> TaskRecord]
        /\ \A t \in TaskNames \ {Swapper} : task'[t] = task[t]
    <3> DEFINE r == [task[Swapper] EXCEPT !.pid = 0, !.state = "RUNNING"]
    <3>1. r \in TaskRecord
      BY <1>0, TaskNamesApart DEF TaskTypes, TaskRecord
    <3>2. task' = [task EXCEPT ![Swapper] = r]
      BY <2>1, <1>0, TaskNamesApart DEF TaskTypes, TaskRecord
    <3> HIDE DEF r
    <3>3. QED BY <3>1, <3>2, <1>0 DEF TaskTypes
  <2>4. TaskTypes'
    BY <2>1, <2>2, <2>3, <1>0 DEF TaskTypes
  <2>5. Queued'
    BY <2>1, <2>3, TaskNamesApart, NumbersKept
  <2>6. ChosenNext'
    BY <2>1, <1>0 DEF ChosenNext
  <2>7. Unpledged'
    BY <2>1, <2>2, <2>3, <1>0, TaskNamesApart DEF Unpledged, LastBoot
  <2>8. QED BY <2>4, <2>5, <2>6, <2>7 DEF TasksInv
<1>4. CASE KthreadCreate
  BY <1>4, KthreadCreateKeeps
<1>5. CASE TimerTrap
  <2>1. /\ ScheduleFrom(current_task) /\ UNCHANGED <<stage, task, ready_queue, next_pid, pagesLeft, halted>>
    BY <1>5 DEF TimerTrap, Schedule
  <2>2. /\ current_idx' \in Nat /\ ChosenNext' /\ Made' = Made
        /\ current_task' = current_task \/ current_task' \in Made
    BY <2>1, <1>0, ScheduleChooses DEF Made, LastBoot
  <2>3. TaskTypes' /\ Queued'
    BY <2>1, <2>2, <1>0 DEF TaskTypes, Queued
  <2>4. Unpledged'
    <3>1. stage <= LastBoot => Made = {}
      BY <1>0 DEF Made, TasksAssumption
    <3>2. QED BY <2>1, <2>2, <3>1, <1>0, TaskNamesApart DEF Unpledged, LastBoot
  <2>5. QED BY <2>2, <2>3, <2>4 DEF TasksInv
<1>6. CASE TestModuleInit
  <2> DEFINE who == IF current_task = NoTask THEN TestTask ELSE current_task
             own == IF current_task = NoTask THEN [NewTask(99) EXCEPT !.state = "RUNNING"] ELSE task[who]
             freed == [own EXCEPT !.pledge_active = FALSE, !.pledge_mask = {}]
             pledged == Pledged(freed, {"stdio"})
             ended == [pledged EXCEPT !.state = "ZOMBIE"]
  <2>1. /\ ~halted /\ UNCHANGED <<stage, ready_queue, next_pid, pagesLeft>>
        /\ IF own.pid = 0
           THEN /\ task' = [task EXCEPT ![who] = pledged]
                /\ UNCHANGED <<current_idx, current_task, halted>>
           ELSE /\ task' = [task EXCEPT ![who] = ended]
                /\ ScheduleFrom(who) /\ halted' = TRUE
    BY <1>6 DEF TestModuleInit
  <2>2. who \in TaskNames /\ (current_task = NoTask => own.pid = 99) /\ own \in TaskRecord
    <3>1. CASE current_task = NoTask
      <4>1. [NewTask(99) EXCEPT !.state = "RUNNING"] \in TaskRecord
            /\ [NewTask(99) EXCEPT !.state = "RUNNING"].pid = 99
        BY DEF NewTask, TaskRecord
      <4>2. QED BY <3>1, <4>1, TaskNamesApart
    <3>2. CASE current_task # NoTask
      <4>1. who = current_task /\ who \in TaskNames /\ own = task[who]
        BY <3>2, <2>1, CurrentIsTask
      <4>2. QED BY <3>2, <4>1, <1>0 DEF TaskTypes
    <3>3. QED BY <3>1, <3>2
  <2>3. pledged \in TaskRecord /\ ended \in TaskRecord /\ pledged.pid = own.pid /\ ended.pid = own.pid
    <3> HIDE DEF own
    <3>1. freed \in TaskRecord /\ freed.pid = own.pid
      BY <2>2 DEF TaskRecord
    <3> HIDE DEF freed
    <3>2. pledged \in TaskRecord /\ pledged.pid = own.pid
      <4>1. {"stdio"} \in SUBSET Promises
        BY DEF Promises
      <4>2. QED BY <3>1, <4>1, PledgedTyped
    <3> HIDE DEF pledged
    <3>3. QED BY <3>2 DEF TaskRecord
  <2>4. Made' = Made
    BY <2>1 DEF Made, LastBoot
  <2> DEFINE r == IF own.pid = 0 THEN pledged ELSE ended
  <2>5. /\ r \in TaskRecord /\ r.pid = own.pid /\ task' = [task EXCEPT ![who] = r]
        /\ current_task # NoTask => own = task[who] /\ who = current_task
        /\ current_task = NoTask => who = TestTask /\ own.pid # 0
    BY <2>1, <2>2, <2>3
  <2>6. /\ current_idx' \in Nat /\ ChosenNext' /\ halted' \in BOOLEAN
        /\ own.pid # 0 => halted' = TRUE
        /\ own.pid = 0 => UNCHANGED <<current_idx, current_task, halted>>
    <3> HIDE DEF own, pledged, ended, who
    <3>1. CASE own.pid = 0
      BY <3>1, <2>1, <1>0 DEF TaskTypes, ChosenNext
    <3>2. CASE own.pid # 0
      <4>1. who \in {NoTask, Swapper, TestTask} \/ who = current_task
        BY DEF who
      <4>2. ScheduleFrom(who) /\ halted' = TRUE /\ ready_queue' = ready_queue
        BY <3>2, <2>1
      <4>3. QED BY <4>1, <4>2, <3>2, <1>0, ScheduleChooses
    <3>3. QED BY <3>1, <3>2
  <2> HIDE DEF own, pledged, ended, who, r
  <2>7. CASE current_task # NoTask
    <3>1. task' = [task EXCEPT ![current_task] = r] /\ r.pid = task[current_task].pid /\ ~halted
      BY <2>1, <2>5, <2>7
    <3>2. /\ stage > LastBoot /\ Queued' /\ task' \in [TaskNames -> TaskRecord]
          /\ ~task'[TestTask].pledge_active
          /\ \A t \in ToSet(Daemons) \ Made : ~task'[t].pledge_active
      BY <2>1, <2>5, <2>6, <2>7, <3>1, CurrentChanges
    <3>3. TaskTypes'
      BY <2>1, <2>4, <2>6, <3>2, <1>0 DEF TaskTypes
    <3>4. Unpledged'
      BY <2>1, <2>4, <2>6, <2>7, <3>2, <1>0, CurrentIsTask DEF Unpledged, LastBoot
    <3>5. QED BY <2>6, <3>2, <3>3, <3>4 DEF TasksInv
  <2>8. CASE current_task = NoTask
    <3>1. who = TestTask /\ halted' = TRUE
      BY <2>5, <2>6, <2>8
    <3>2. /\ task' \in [TaskNames -> TaskRecord]
          /\ \A t \in TaskNames \ {TestTask} : task'[t] = task[t]
      BY <2>5, <3>1, <1>0 DEF TaskTypes
    <3>3. TaskTypes'
      BY <2>1, <2>4, <2>6, <3>2, <1>0 DEF TaskTypes
    <3>4. Queued'
      BY <2>1, <3>2, TaskNamesApart, NumbersKept
    <3>5. Unpledged'
      <4>1. stage <= LastBoot => current_task' = TestTask
        <5>1. stage <= LastBoot => Made = {}
          BY <1>0 DEF Made, TasksAssumption
        <5>2. stage <= LastBoot => ready_queue = <<>>
          BY <5>1, <1>0, EmptySeq DEF TaskTypes
        <5>3. ready_queue = <<>> => current_task' = who
          BY <2>1, <2>5, <2>8 DEF ScheduleFrom
        <5>4. QED BY <3>1, <5>2, <5>3
      <4>2. QED BY <2>1, <2>4, <3>1, <3>2, <4>1, <1>0, TaskNamesApart DEF Unpledged, LastBoot
    <3>6. QED BY <2>6, <3>3, <3>4, <3>5 DEF TasksInv
  <2>9. QED BY <2>7, <2>8
<1>10. CASE OwnerWrites
  <2>1. PICK active \in BOOLEAN, mask \in {{}, {"stdio"}, Promises} :
          task' = [task EXCEPT ![Swapper].pledge_active = active, ![Swapper].pledge_mask = mask]
    BY <1>10 DEF OwnerWrites
  <2>2. UNCHANGED <<stage, ready_queue, current_idx, current_task, next_pid, pagesLeft, halted>>
    BY <1>10 DEF OwnerWrites
  <2>3. /\ task' \in [TaskNames -> TaskRecord] /\ task'[Swapper].pid = task[Swapper].pid
        /\ \A t \in TaskNames \ {Swapper} : task'[t] = task[t]
    <3> DEFINE r == [task[Swapper] EXCEPT !.pledge_active = active, !.pledge_mask = mask]
    <3>1. mask \in SUBSET Promises
      BY <2>1 DEF Promises
    <3>2. r \in TaskRecord /\ r.pid = task[Swapper].pid
      BY <3>1, <1>0, TaskNamesApart DEF TaskTypes, TaskRecord
    <3>3. task' = [task EXCEPT ![Swapper] = r]
      BY <2>1, <1>0, TaskNamesApart DEF TaskTypes, TaskRecord
    <3> HIDE DEF r
    <3>4. QED BY <3>2, <3>3, <1>0, TaskNamesApart DEF TaskTypes
  <2>4. Made' = Made
    BY <2>2 DEF Made, LastBoot
  <2>5. TaskTypes' /\ ChosenNext'
    BY <2>2, <2>3, <2>4, <1>0 DEF TaskTypes, ChosenNext
  <2>6. Queued'
    BY <2>2, <2>3, TaskNamesApart, NumbersKept
  <2>7. Unpledged'
    BY <2>2, <2>3, <2>4, <1>0, TaskNamesApart DEF Unpledged, LastBoot
  <2>8. QED BY <2>5, <2>6, <2>7 DEF TasksInv
<1>7. ASSUME NEW ps \in {{}, {"stdio"}, {"stdio", "rpath"}}, SysPledge(ps) PROVE TasksInv'
  <2> DEFINE r == Pledged(task[current_task], ps)
  <2>1. /\ current_task # NoTask /\ ~halted /\ task' = [task EXCEPT ![current_task] = r]
        /\ UNCHANGED <<stage, ready_queue, current_idx, current_task, next_pid, pagesLeft, halted>>
    BY <1>7 DEF SysPledge
  <2>2. r \in TaskRecord /\ r.pid = task[current_task].pid
    <3>1. task[current_task] \in TaskRecord
      BY <2>1, <1>0, CurrentIsTask DEF TaskTypes
    <3>2. ps \in SUBSET Promises
      BY <1>7 DEF Promises
    <3>3. QED BY <3>1, <3>2, PledgedTyped
  <2>3. halted' \in BOOLEAN
    BY <2>1, <1>0 DEF TaskTypes
  <2> HIDE DEF r
  <2>4. /\ stage > LastBoot /\ UNCHANGED Made /\ Queued' /\ task' \in [TaskNames -> TaskRecord]
        /\ ~task'[TestTask].pledge_active
        /\ \A t \in ToSet(Daemons) \ Made : ~task'[t].pledge_active
    BY <2>1, <2>2, <2>3, CurrentChanges
  <2>5. TaskTypes'
    BY <2>1, <2>4, <1>0 DEF TaskTypes
  <2>6. ChosenNext' /\ Unpledged'
    BY <2>1, <2>4, <1>0 DEF ChosenNext, Unpledged, LastBoot
  <2>7. QED BY <2>4, <2>5, <2>6 DEF TasksInv
<1>8. ASSUME NEW c \in {"stdio", "rpath"}, SecurityCheckSyscall(c) PROVE TasksInv'
  <2>0. /\ ~halted /\ current_task # NoTask
        /\ UNCHANGED <<stage, ready_queue, next_pid, pagesLeft>>
        /\ Exit(task) \/ UNCHANGED <<task, current_idx, current_task, halted>>
    BY <1>8 DEF SecurityCheckSyscall
  <2>1. CASE UNCHANGED <<task, current_idx, current_task, halted>>
    BY <2>0, <2>1, <1>0 DEF TasksInv, TaskTypes, Queued, ChosenNext, Unpledged, Made, LastBoot
  <2>2. CASE Exit(task)
    <3> DEFINE r == [task[current_task] EXCEPT !.state = "ZOMBIE"]
    <3>1. task' = [task EXCEPT ![current_task] = r] /\ ScheduleFrom(current_task) /\ halted' = TRUE
      BY <2>0, <2>2 DEF Exit, Schedule
    <3>2. r \in TaskRecord /\ r.pid = task[current_task].pid
      <4>1. task[current_task] \in TaskRecord
        BY <2>0, <1>0, CurrentIsTask DEF TaskTypes
      <4>2. QED BY <4>1 DEF TaskRecord
    <3> HIDE DEF r
    <3>3. halted' \in BOOLEAN
      BY <3>1
    <3>4. /\ stage > LastBoot /\ UNCHANGED Made /\ Queued' /\ task' \in [TaskNames -> TaskRecord]
          /\ \A t \in ToSet(Daemons) \ Made : ~task'[t].pledge_active
      BY <2>0, <3>1, <3>2, <3>3, CurrentChanges
    <3>5. current_idx' \in Nat /\ ChosenNext'
      BY <2>0, <3>1, <1>0, ScheduleChooses
    <3>6. TaskTypes'
      BY <2>0, <3>3, <3>4, <3>5, <1>0 DEF TaskTypes
    <3>7. Unpledged'
      BY <2>0, <3>1, <3>4, <1>0 DEF Unpledged, LastBoot
    <3>8. QED BY <3>4, <3>5, <3>6, <3>7 DEF TasksInv
  <2>3. QED BY <2>0, <2>1, <2>2
<1>9. QED
  BY <1>1, <1>2, <1>3, <1>4, <1>5, <1>6, <1>7, <1>8, <1>10 DEF TasksNext

THEOREM TasksInvariant ==
  ASSUME TasksAssumption PROVE TasksSpec => [](TasksInv /\ BootOrder)
<1>1. TasksInit => TasksInv /\ BootOrder
  BY TasksInvInit
<1>2. (TasksInv /\ BootOrder) /\ [TasksNext]_taskVars => (TasksInv /\ BootOrder)'
  BY TasksInvStep, NextKeepsOrder
<1>3. QED BY <1>1, <1>2, PTL DEF TasksSpec

LEMMA TasksInvTyped ==
  ASSUME TasksAssumption, TasksInv, BootOrder PROVE TasksTypeOK
<1>1. ToSet(ready_queue) \subseteq TaskNames
  BY TaskNamesApart DEF TasksInv, TaskTypes, ToSet
<1>2. current_task \in TaskNames \union {NoTask}
  <2>1. ready_queue # <<>> => ready_queue[current_idx + 1] \in Made
    BY EmptySeq DEF TasksInv, TaskTypes, ChosenNext
  <2>2. QED BY <2>1, TaskNamesApart DEF TasksInv, ChosenNext
<1>3. \A t \in TaskNames : task[t].pledge_mask \subseteq Promises /\ task[t].pid \in Nat
  BY DEF TasksInv, TaskTypes, TaskRecord
<1>4. UsersTyped
  BY DEF BootOrder
<1>5. QED BY <1>1, <1>2, <1>3, <1>4 DEF TasksTypeOK, UsersTyped

(* Nothing but the table of users is used before it is there; queued tasks have numbers of their own; the
   scheduler's index is in the queue and, once it chose, on the current task
   (init_all, kthread_create, sched_add_task, schedule). *)
THEOREM SchedulerIsSound ==
  ASSUME TasksAssumption PROVE TasksSpec => [](TasksSound /\ TasksTypeOK)
<1>1. ASSUME TasksInv, BootOrder PROVE TasksSound
  <2>1. ready_queue # <<>> => Len(ready_queue) \in Nat \ {0}
    BY <1>1, EmptySeq DEF TasksInv, TaskTypes
  <2>2. ready_queue = <<>> \/ current_idx < Len(ready_queue)
    BY <1>1, <2>1 DEF TasksInv, ChosenNext
  <2>3. current_task \in ToSet(Daemons) => current_task = ready_queue[current_idx + 1]
    BY <1>1, TaskNamesApart DEF TasksInv, ChosenNext, TasksAssumption, NoTask
  <2>4. QED BY <1>1, <2>2, <2>3 DEF TasksSound, TasksInv, Queued, BootOrder
<1>3. TasksInv /\ BootOrder => TasksSound /\ TasksTypeOK
  BY <1>1, TasksInvTyped
<1>4. QED BY <1>3, TasksInvariant, PTL

(* A pledge is kept, and no promise comes back (sys_pledge, security_check_syscall,
   do_exit, kthread_create), but to the swapper and, in the module_init of test.c, to the
   task that runs it. *)
THEOREM PromisesNeverReturn ==
  ASSUME TasksAssumption PROVE TasksSpec => PledgesShrink
<1>1. ASSUME TasksInv, TasksNext, NEW t \in TaskNames \ {Swapper},
             ~(TestModuleInit /\ t \in {current_task, TestTask})
      PROVE  Shrinks(t)
  <2>0. task \in [TaskNames -> TaskRecord] /\ stage \in Nat /\ LastBoot = 13
    BY <1>1, BootTable DEF TasksInv, TaskTypes
  <2>1. CASE UNCHANGED task
    BY <2>1 DEF Shrinks
  <2>2. CASE BecomeSwapper \/ OwnerWrites
    <3>1. task'[t] = task[t]
      BY <1>1, <2>0, <2>2 DEF BecomeSwapper, OwnerWrites
    <3>2. QED BY <3>1 DEF Shrinks
  <2>3. CASE KthreadCreate
    <3> DEFINE n == stage - LastBoot
    <3>1. n \in 1 .. Len(Daemons) /\ stage' = stage + 1
          /\ (t # Daemons[n] => task'[t] = task[t])
      BY <2>0, <2>3 DEF KthreadCreate, LastBoot
    <3>2. Daemons[n] \in ToSet(Daemons) \ Made
      BY <2>0, <3>1, TurnIsOnce
    <3>3. ~task[Daemons[n]].pledge_active
      BY <1>1, <3>2 DEF TasksInv, Unpledged
    <3>4. QED BY <3>1, <3>3 DEF Shrinks
  <2>5. ASSUME NEW ps \in {{}, {"stdio"}, {"stdio", "rpath"}}, SysPledge(ps) PROVE Shrinks(t)
    <3>1. ps \in SUBSET Promises
      BY DEF Promises
    <3>2. task' = [task EXCEPT ![current_task] = Pledged(task[current_task], ps)]
      BY <2>5 DEF SysPledge
    <3>3. task'[t] = task[t] \/ task'[t] = Pledged(task[t], ps)
      BY <2>0, <3>2
    <3>4. task[t] \in TaskRecord
      BY <2>0
    <3>5. QED BY <3>1, <3>3, <3>4, PledgedTyped DEF Shrinks
  <2>6. ASSUME NEW c \in {"stdio", "rpath"}, SecurityCheckSyscall(c) PROVE Shrinks(t)
    <3>1. task' = task \/ task' = [task EXCEPT ![current_task].state = "ZOMBIE"]
      BY <2>6 DEF SecurityCheckSyscall, Exit
    <3>2. task[t] \in TaskRecord /\ (task'[t] = task[t] \/ task'[t] = [task[t] EXCEPT !.state = "ZOMBIE"])
      BY <2>0, <3>1
    <3>3. QED BY <3>2 DEF Shrinks, TaskRecord
  <2>7. CASE TestModuleInit
    <3>1. task'[t] = task[t]
      BY <1>1, <2>0, <2>7 DEF TestModuleInit
    <3>2. QED BY <3>1 DEF Shrinks
  <2>8. QED
    BY <1>1, <2>1, <2>2, <2>3, <2>5, <2>6, <2>7
    DEF TasksNext, InitAllStep, KeyboardIrq, TimerTrap
<1>2. TasksInv /\ [TasksNext]_taskVars
      => [\A t \in TaskNames \ {Swapper} :
            (TestModuleInit /\ t \in {current_task, TestTask}) \/ Shrinks(t)]_taskVars
  BY <1>1
<1>3. QED
  BY <1>2, TasksInvariant, PTL DEF TasksSpec, PledgesShrink

-----------------------------------------------------------------------------
(* Alarms *)

AlarmRecord == [active : BOOLEAN, trigger_time : Nat, repeat : BOOLEAN, interval : Nat,
                data : [id : Int, first : Nat, repeats : BOOLEAN, period : Nat]]
SettingRecord ==
  [at : {"chosen", "active", "repeat"}, slot : Slots, repeat : BOOLEAN, delay : Delays]

TimerTypes ==
  /\ timer_ms \in 0 .. MaxTicks
  /\ alarms \in [Slots -> AlarmRecord]
  /\ setting.at = "idle" \/ setting \in SettingRecord
  /\ next_alarm_id \in 0 .. MaxAlarms
  /\ setting.at # "idle" => next_alarm_id < MaxAlarms

BeingSet(i) == setting.at # "idle" /\ setting.slot = i

\* An alarm does not ring early, and a slot that is not being set repeats as was asked
\* for.  One that is being set has, up to SetRepeat, the flag of the alarm before, and
\* up to FinishSetting its interval.
AlarmSound(i) ==
  /\ alarms[i].trigger_time >= alarms[i].data.first
  /\ ~BeingSet(i) =>
       /\ alarms[i].repeat <=> alarms[i].data.repeats
       /\ alarms[i].data.repeats => alarms[i].interval = alarms[i].data.period
  /\ BeingSet(i) =>
       /\ alarms[i].data.repeats <=> setting.repeat
       /\ setting.repeat => alarms[i].data.period = setting.delay
  /\ setting.at = "chosen" /\ setting.slot = i => ~alarms[i].active
  /\ setting.at = "repeat" /\ setting.slot = i => (alarms[i].repeat <=> setting.repeat)

TimerInv == TimerTypes /\ \A i \in Slots : AlarmSound(i)

(* The chip is given as much as its two bytes hold. *)
HalfWords == {n \in Nat : n < 65536}
ChipTypes ==
  timer_info \in [hz : Nat, by : {"nobody", "init", "set"}, divisor : HalfWords, calibrated : Nat]

LEMMA ZeroIsHalfWord == 0 \in HalfWords
BY SMT DEF HalfWords

LEMMA DivisorFits ==
  ASSUME NEW hz \in Nat \ {0} PROVE Divisor(hz) \in HalfWords
<1>1. ASSUME NEW q \in Int PROVE q % 65536 \in HalfWords
  BY SMT DEF HalfWords
<1>2. \A n \in Nat : n \div hz \in Int
  BY SMT
<1>3. TIMER_FREQUENCY_HZ \in Nat
  BY SMT DEF TIMER_FREQUENCY_HZ
<1> HIDE DEF TIMER_FREQUENCY_HZ
<1>4. TIMER_FREQUENCY_HZ \div hz \in Int
  BY <1>2, <1>3
<1> DEFINE n == TIMER_FREQUENCY_HZ \div hz
<1>5. n % 65536 \in HalfWords
  <2> HIDE DEF n
  <2> QED BY <1>1, <1>4 DEF n
<1>6. QED BY <1>5 DEF Divisor

LEMMA ChipTypesInit == TimerInit => ChipTypes
BY ZeroIsHalfWord DEF TimerInit, ChipTypes

LEMMA ChipTypesStep ==
  ASSUME SysTimerAssumption, ChipTypes, [TimerNext]_timerVars PROVE ChipTypes'
<1>1. ASSUME NEW hz \in Frequencies, InitTimer(hz) PROVE ChipTypes'
  <2>1. hz \in Nat \ {0}
    BY DEF SysTimerAssumption
  <2>2. Divisor(hz) \in HalfWords
    BY <2>1, DivisorFits, Zenon
  <2>3. QED BY <1>1, <2>1, <2>2 DEF InitTimer, ChipTypes
<1>2. ASSUME NEW hz \in Frequencies, SetFrequency(hz) PROVE ChipTypes'
  <2> DEFINE c == Clamped(hz)
             w == Divisor(c)
  <2>1. c \in Nat \ {0}
    BY DEF SysTimerAssumption, Clamped
  <2>2. timer_info' = [timer_info EXCEPT !.hz = c, !.by = "set", !.divisor = w]
    BY <1>2, Zenon DEF SetFrequency
  <2> HIDE DEF c
  <2>3. w \in HalfWords
    BY <2>1, DivisorFits, Zenon
  <2> HIDE DEF w
  <2>4. QED BY <2>1, <2>2, <2>3 DEF ChipTypes
<1>3. ASSUME UNCHANGED timer_info PROVE ChipTypes'
  BY <1>3 DEF ChipTypes
<1>4. CASE Tick
  BY <1>3, <1>4 DEF Tick
<1>5. CASE \E d \in Delays, r \in BOOLEAN : ChooseSlot(d, r)
  BY <1>3, <1>5 DEF ChooseSlot
<1>6. CASE Activate \/ SetRepeat \/ FinishSetting
  BY <1>3, <1>6 DEF Activate, SetRepeat, FinishSetting
<1>7. CASE \E id \in Slots : CancelAlarm(id)
  BY <1>3, <1>7 DEF CancelAlarm
<1>8. (\E ms \in Instants : ReadClock(ms))
        \/ (\E y \in Years, m \in 1 .. 12, h \in {0, 9, 16, 35} : PrintCal(y, m, h))
        \/ (\E start \in {0, timer_ms} : ReadElapsed(start)) \/ PrintInfo \/ UNCHANGED timerVars
      => UNCHANGED timer_info
  BY DEF ReadClock, PrintCal, ReadElapsed, PrintInfo, timerVars
<1>9. QED
  BY <1>1, <1>2, <1>3, <1>4, <1>5, <1>6, <1>7, <1>8 DEF TimerNext

(* The invariants give the clock's type invariant. *)
LEMMA TimerInvTyped ==
  ASSUME TimerInv, ChipTypes PROVE TimerTypeOK
<1>1. ASSUME NEW i \in Slots
      PROVE  /\ DOMAIN alarms[i] = DOMAIN Free
             /\ alarms[i].active \in BOOLEAN /\ alarms[i].trigger_time \in Nat
  BY DEF TimerInv, TimerTypes, AlarmRecord, Free
<1>2. setting.at \in {"idle", "chosen", "active", "repeat"}
  BY DEF TimerInv, TimerTypes, SettingRecord
<1>3. timer_info.divisor \in Nat /\ timer_info.divisor < 65536
  <2>1. timer_info.divisor \in HalfWords
    BY DEF ChipTypes
  <2>2. QED BY <2>1 DEF HalfWords
<1>4. timer_ms \in 0 .. MaxTicks /\ next_alarm_id \in 0 .. MaxAlarms
  BY DEF TimerInv, TimerTypes
<1>5. QED BY <1>1, <1>2, <1>3, <1>4 DEF TimerTypeOK

LEMMA FirstFree ==
  ASSUME SysTimerAssumption, NEW S \in SUBSET Slots, S # {} PROVE Min(S) \in S
<1>1. S \subseteq Nat
  BY DEF Slots, SysTimerAssumption
<1>2. \E m \in S : \A k \in S : m <= k
  BY <1>1, LeastElement
<1>3. QED BY <1>2 DEF Min

LEMMA TimerInvInit == SysTimerAssumption /\ TimerInit => TimerInv
<1> SUFFICES ASSUME SysTimerAssumption, TimerInit PROVE TimerInv
  OBVIOUS
<1>1. Free \in AlarmRecord
  BY DEF Free, AlarmRecord
<1>2. setting.at = "idle"
  BY DEF TimerInit, Idle
<1>3. TimerTypes
  BY <1>1, <1>2 DEF TimerInit, TimerTypes, SysTimerAssumption
<1>4. \A i \in Slots : AlarmSound(i)
  <2> SUFFICES ASSUME NEW i \in Slots PROVE AlarmSound(i)
    OBVIOUS
  <2>1. /\ alarms[i].trigger_time = 0 /\ alarms[i].data.first = 0
        /\ ~alarms[i].repeat /\ ~alarms[i].data.repeats
    BY DEF TimerInit, Free
  <2>2. QED BY <1>2, <2>1 DEF AlarmSound, BeingSet
<1>5. QED BY <1>3, <1>4 DEF TimerInv

(* What a tick makes of a slot. *)
LEMMA CheckedSound ==
  ASSUME NEW a \in AlarmRecord, NEW now \in Nat, a.trigger_time >= a.data.first
  PROVE  /\ Checked(a, now) \in AlarmRecord
         /\ Checked(a, now).data = a.data /\ Checked(a, now).repeat = a.repeat
         /\ Checked(a, now).interval = a.interval
         /\ Checked(a, now).trigger_time >= a.data.first
         /\ Checked(a, now).active => a.active /\ now <= Checked(a, now).trigger_time
         /\ Due(a, now) =>
              /\ now >= a.data.first
              /\ ~a.repeat => ~Checked(a, now).active
              /\ a.repeat => /\ Checked(a, now).active
                             /\ Checked(a, now).trigger_time = now + a.interval
<1>1. CASE ~Due(a, now)
  BY <1>1 DEF Checked, Due, AlarmRecord
<1>2. CASE Due(a, now) /\ a.repeat
  <2>1. Checked(a, now) = [a EXCEPT !.trigger_time = now + a.interval]
    BY <1>2 DEF Checked
  <2>2. a.trigger_time \in Nat /\ a.interval \in Nat /\ a.data.first \in Nat
    BY DEF AlarmRecord
  <2>3. Checked(a, now) \in AlarmRecord
    BY <2>1, <2>2 DEF AlarmRecord
  <2>4. /\ Checked(a, now).data = a.data /\ Checked(a, now).repeat = a.repeat
        /\ Checked(a, now).interval = a.interval
        /\ Checked(a, now).trigger_time = now + a.interval
        /\ Checked(a, now).active = a.active
    BY <2>1 DEF AlarmRecord
  <2>5. now >= a.trigger_time /\ a.active
    BY <1>2 DEF Due
  <2>6. QED BY <1>2, <2>2, <2>3, <2>4, <2>5
<1>3. CASE Due(a, now) /\ ~a.repeat
  <2>1. Checked(a, now) = [a EXCEPT !.active = FALSE]
    BY <1>3 DEF Checked
  <2>2. a.trigger_time \in Nat /\ a.data.first \in Nat
    BY DEF AlarmRecord
  <2>3. Checked(a, now) \in AlarmRecord
    BY <2>1 DEF AlarmRecord
  <2>4. /\ Checked(a, now).data = a.data /\ Checked(a, now).repeat = a.repeat
        /\ Checked(a, now).interval = a.interval
        /\ Checked(a, now).trigger_time = a.trigger_time /\ ~Checked(a, now).active
    BY <2>1 DEF AlarmRecord
  <2>5. now >= a.trigger_time
    BY <1>3 DEF Due
  <2>6. QED BY <1>3, <2>2, <2>3, <2>4, <2>5
<1>4. QED BY <1>1, <1>2, <1>3

LEMMA TickKeeps ==
  ASSUME SysTimerAssumption, TimerInv, Tick PROVE TimerInv'
<1>1. /\ timer_ms \in 0 .. MaxTicks /\ MaxTicks \in Nat /\ timer_ms < MaxTicks
      /\ timer_ms' = timer_ms + 1 /\ UNCHANGED <<next_alarm_id, setting>>
      /\ alarms' = [i \in Slots |-> Checked(alarms[i], timer_ms')]
  BY DEF Tick, TimerInv, TimerTypes, SysTimerAssumption
<1>2. timer_ms' \in Nat /\ timer_ms' \in 0 .. MaxTicks
  BY <1>1
<1>3. ASSUME NEW i \in Slots PROVE alarms'[i] \in AlarmRecord /\ AlarmSound(i)'
  <2>1. /\ alarms[i] \in AlarmRecord /\ AlarmSound(i)
        /\ alarms'[i] = Checked(alarms[i], timer_ms')
    BY <1>1 DEF TimerInv, TimerTypes
  <2>2. /\ alarms'[i] \in AlarmRecord /\ alarms'[i].data = alarms[i].data
        /\ alarms'[i].repeat = alarms[i].repeat /\ alarms'[i].interval = alarms[i].interval
        /\ alarms'[i].trigger_time >= alarms[i].data.first
        /\ alarms'[i].active => alarms[i].active
    BY <2>1, <1>2, CheckedSound DEF AlarmSound
  <2>3. QED BY <2>1, <2>2, <1>1 DEF AlarmSound, BeingSet
<1>4. alarms' \in [Slots -> AlarmRecord]
  BY <1>1, <1>3
<1>5. QED BY <1>1, <1>2, <1>3, <1>4 DEF TimerInv, TimerTypes

(* Every step keeps the invariant. *)
LEMMA TimerInvStep ==
  ASSUME SysTimerAssumption, TimerInv, [TimerNext]_timerVars PROVE TimerInv'
<1>0. /\ TimerTypes /\ \A i \in Slots : AlarmSound(i)
      /\ alarms \in [Slots -> AlarmRecord] /\ timer_ms \in Nat
      /\ Delays \subseteq Nat /\ next_alarm_id \in 0 .. MaxAlarms /\ MaxAlarms \in Nat
      /\ setting.at = "idle" \/ setting \in SettingRecord
  BY DEF TimerInv, TimerTypes, SysTimerAssumption
<1>1. CASE Tick
  BY <1>1, TickKeeps
<1>2. ASSUME NEW d \in Delays, NEW r \in BOOLEAN, ChooseSlot(d, r) PROVE TimerInv'
  <2> DEFINE i == Min({j \in Slots : ~alarms[j].active})
             a == [alarms[i] EXCEPT !.trigger_time = timer_ms + d,
                     !.data = [id |-> next_alarm_id, first |-> timer_ms + d,
                               repeats |-> r, period |-> IF r THEN d ELSE 0]]
  <2>1. /\ i \in Slots /\ ~alarms[i].active
        /\ setting.at = "idle" /\ next_alarm_id < MaxAlarms
        /\ alarms' = [alarms EXCEPT ![i] = a]
        /\ setting' = [at |-> "chosen", slot |-> i, repeat |-> r, delay |-> d]
        /\ UNCHANGED <<timer_ms, next_alarm_id>>
    <3>1. i \in Slots /\ ~alarms[i].active
      <4>1. {j \in Slots : ~alarms[j].active} # {}
        BY <1>2 DEF ChooseSlot
      <4>2. i \in {j \in Slots : ~alarms[j].active}
        BY <4>1, FirstFree
      <4>3. QED BY <4>2
    <3>2. QED BY <3>1, <1>2, <1>0 DEF ChooseSlot, Idle
  <2>2. /\ a \in AlarmRecord /\ a.trigger_time = timer_ms + d /\ a.data.first = timer_ms + d
        /\ a.data.repeats = r /\ a.data.period = (IF r THEN d ELSE 0)
        /\ a.repeat = alarms[i].repeat /\ a.interval = alarms[i].interval
        /\ ~a.active
    <3>1. alarms[i] \in AlarmRecord /\ ~alarms[i].active
      BY <2>1, <1>0
    <3> DEFINE w == [id |-> next_alarm_id, first |-> timer_ms + d, repeats |-> r,
                     period |-> IF r THEN d ELSE 0]
    <3>2. /\ w \in [id : Int, first : Nat, repeats : BOOLEAN, period : Nat]
          /\ timer_ms + d \in Nat
          /\ w.first = timer_ms + d /\ w.repeats = r /\ w.period = (IF r THEN d ELSE 0)
      BY <1>0, <1>2
    <3> HIDE DEF i, w
    <3>3. a = [alarms[i] EXCEPT !.trigger_time = timer_ms + d, !.data = w]
      BY DEF w
    <3>4. a \in AlarmRecord
      BY <3>1, <3>2, <3>3 DEF AlarmRecord
    <3>5. /\ a.trigger_time = timer_ms + d /\ a.data = w
          /\ a.repeat = alarms[i].repeat /\ a.interval = alarms[i].interval
          /\ ~a.active
      BY <3>1, <3>3 DEF AlarmRecord
    <3>6. QED BY <3>2, <3>4, <3>5
  <2> HIDE DEF i, a
  <2>3. alarms' \in [Slots -> AlarmRecord] /\ alarms'[i] = a
        /\ \A j \in Slots \ {i} : alarms'[j] = alarms[j]
    BY <2>1, <2>2, <1>0
  <2>4. /\ setting' \in SettingRecord /\ setting'.at = "chosen"
        /\ setting'.slot = i /\ setting'.repeat = r /\ setting'.delay = d
    BY <2>1, <1>2 DEF SettingRecord
  <2>5. TimerTypes'
    BY <2>1, <2>3, <2>4, <1>0 DEF TimerTypes
  <2>6. ASSUME NEW j \in Slots PROVE AlarmSound(j)'
    <3>1. CASE j = i
      <4>1. /\ BeingSet(j)' /\ alarms'[j] = a /\ setting'.repeat = r /\ setting'.delay = d
        BY <3>1, <2>3, <2>4 DEF BeingSet
      <4>2. timer_ms + d \in Nat
        BY <1>0
      <4>3. QED BY <3>1, <4>1, <4>2, <2>2, <2>4 DEF AlarmSound
    <3>2. CASE j # i
      BY <3>2, <2>1, <2>3, <2>4, <1>0 DEF AlarmSound, BeingSet
    <3>3. QED BY <3>1, <3>2
  <2>7. QED BY <2>5, <2>6 DEF TimerInv
<1>3. CASE Activate
  <2> DEFINE i == setting.slot
             a == [alarms[i] EXCEPT !.active = TRUE]
  <2>1. /\ setting.at = "chosen" /\ alarms' = [alarms EXCEPT ![i] = a]
        /\ setting' = [setting EXCEPT !.at = "active"]
        /\ UNCHANGED <<timer_ms, next_alarm_id>>
    BY <1>3 DEF Activate
  <2>2. setting \in SettingRecord /\ i \in Slots
    BY <2>1, <1>0 DEF SettingRecord
  <2>3. /\ a \in AlarmRecord /\ a.trigger_time = alarms[i].trigger_time
        /\ a.data = alarms[i].data /\ a.repeat = alarms[i].repeat
        /\ a.interval = alarms[i].interval
    <3>1. alarms[i] \in AlarmRecord
      BY <2>2, <1>0
    <3>2. QED BY <3>1 DEF AlarmRecord
  <2>4. /\ setting' \in SettingRecord /\ setting'.at = "active"
        /\ setting'.slot = setting.slot /\ setting'.repeat = setting.repeat
        /\ setting'.delay = setting.delay
    BY <2>1, <2>2 DEF SettingRecord
  <2> HIDE DEF a
  <2>5. alarms' \in [Slots -> AlarmRecord] /\ alarms'[i] = a
        /\ \A j \in Slots \ {i} : alarms'[j] = alarms[j]
    BY <2>1, <2>2, <2>3, <1>0
  <2>6. TimerTypes'
    BY <2>1, <2>4, <2>5, <1>0 DEF TimerTypes
  <2>7. ASSUME NEW j \in Slots PROVE AlarmSound(j)'
    <3>1. AlarmSound(j) /\ (BeingSet(j)' <=> BeingSet(j))
      BY <1>0, <2>1, <2>4 DEF BeingSet
    <3>2. CASE j = i
      BY <3>1, <3>2, <2>3, <2>4, <2>5 DEF AlarmSound
    <3>3. CASE j # i
      BY <3>1, <3>3, <2>4, <2>5 DEF AlarmSound
    <3>4. QED BY <3>2, <3>3
  <2>8. QED BY <2>6, <2>7 DEF TimerInv
<1>12. CASE SetRepeat
  <2> DEFINE i == setting.slot
             a == [alarms[i] EXCEPT !.repeat = setting.repeat]
  <2>1. /\ setting.at = "active" /\ alarms' = [alarms EXCEPT ![i] = a]
        /\ setting' = [setting EXCEPT !.at = "repeat"]
        /\ UNCHANGED <<timer_ms, next_alarm_id>>
    BY <1>12 DEF SetRepeat
  <2>2. setting \in SettingRecord /\ i \in Slots /\ setting.repeat \in BOOLEAN
    BY <2>1, <1>0 DEF SettingRecord
  <2>3. /\ a \in AlarmRecord /\ a.trigger_time = alarms[i].trigger_time
        /\ a.data = alarms[i].data /\ a.repeat = setting.repeat
        /\ a.interval = alarms[i].interval
    <3>1. alarms[i] \in AlarmRecord
      BY <2>2, <1>0
    <3>2. QED BY <2>2, <3>1 DEF AlarmRecord
  <2>4. /\ setting' \in SettingRecord /\ setting'.at = "repeat"
        /\ setting'.slot = setting.slot /\ setting'.repeat = setting.repeat
        /\ setting'.delay = setting.delay
    BY <2>1, <2>2 DEF SettingRecord
  <2> HIDE DEF a
  <2>5. alarms' \in [Slots -> AlarmRecord] /\ alarms'[i] = a
        /\ \A j \in Slots \ {i} : alarms'[j] = alarms[j]
    BY <2>1, <2>2, <2>3, <1>0
  <2>6. TimerTypes'
    BY <2>1, <2>4, <2>5, <1>0 DEF TimerTypes
  <2>7. ASSUME NEW j \in Slots PROVE AlarmSound(j)'
    <3>1. AlarmSound(j) /\ (BeingSet(j)' <=> BeingSet(j))
      BY <1>0, <2>1, <2>4 DEF BeingSet
    <3>2. CASE j = i
      BY <3>1, <3>2, <2>1, <2>3, <2>4, <2>5 DEF AlarmSound, BeingSet
    <3>3. CASE j # i
      BY <3>1, <3>3, <2>4, <2>5 DEF AlarmSound
    <3>4. QED BY <3>2, <3>3
  <2>8. QED BY <2>6, <2>7 DEF TimerInv
<1>4. CASE FinishSetting
  <2> DEFINE i == setting.slot
             k == IF setting.repeat THEN setting.delay ELSE 0
             a == [alarms[i] EXCEPT !.interval = k]
  <2>1. /\ setting.at = "repeat" /\ setting'.at = "idle"
        /\ alarms' = [alarms EXCEPT ![i] = a]
        /\ next_alarm_id' = next_alarm_id + 1 /\ UNCHANGED timer_ms
    BY <1>4 DEF FinishSetting, Idle
  <2>2. /\ i \in Slots /\ setting.repeat \in BOOLEAN /\ setting.delay \in Delays
        /\ setting.delay \in Nat /\ k \in Nat /\ (setting.repeat => k = setting.delay)
    BY <2>1, <1>0 DEF SettingRecord
  <2>3. /\ a \in AlarmRecord /\ a.trigger_time = alarms[i].trigger_time
        /\ a.data = alarms[i].data /\ a.repeat = alarms[i].repeat
        /\ a.interval = k
    <3>1. alarms[i] \in AlarmRecord
      BY <2>2, <1>0
    <3> HIDE DEF k
    <3>2. QED BY <2>2, <3>1 DEF AlarmRecord
  <2> HIDE DEF k, a
  <2>4. alarms' \in [Slots -> AlarmRecord] /\ alarms'[i] = a
        /\ \A j \in Slots \ {i} : alarms'[j] = alarms[j]
    BY <2>1, <2>2, <2>3, <1>0
  <2>5. next_alarm_id < MaxAlarms
    BY <2>1, <1>0 DEF TimerTypes
  <2>6. TimerTypes'
    BY <2>1, <2>4, <2>5, <1>0 DEF TimerTypes
  <2>7. ASSUME NEW j \in Slots PROVE AlarmSound(j)'
    <3>1. AlarmSound(j) /\ ~BeingSet(j)'
      BY <1>0, <2>1 DEF BeingSet
    <3>2. CASE j = i
      <4>1. /\ alarms[i].data.repeats <=> setting.repeat
            /\ alarms[i].repeat <=> setting.repeat
            /\ setting.repeat => alarms[i].data.period = setting.delay
        BY <3>1, <3>2, <2>1 DEF AlarmSound, BeingSet
      <4>2. setting'.at = "idle"
        BY <2>1
      <4>3. QED BY <3>1, <3>2, <4>1, <4>2, <2>2, <2>3, <2>4 DEF AlarmSound
    <3>3. CASE j # i
      BY <3>1, <3>3, <2>1, <2>4 DEF AlarmSound, BeingSet
    <3>4. QED BY <3>2, <3>3
  <2>8. QED BY <2>6, <2>7 DEF TimerInv
<1>5. ASSUME /\ alarms' \in [Slots -> AlarmRecord]
             /\ \A j \in Slots : /\ alarms'[j].trigger_time = alarms[j].trigger_time
                                 /\ alarms'[j].data = alarms[j].data
                                 /\ alarms'[j].repeat = alarms[j].repeat
                                 /\ alarms'[j].interval = alarms[j].interval
                                 /\ alarms'[j].active => alarms[j].active,
             UNCHANGED <<timer_ms, next_alarm_id, setting>>
      PROVE TimerInv'
  <2>1. TimerTypes'
    BY <1>0, <1>5 DEF TimerTypes
  <2>2. ASSUME NEW j \in Slots PROVE AlarmSound(j)'
    BY <1>0, <1>5 DEF AlarmSound, BeingSet
  <2>3. QED BY <2>1, <2>2 DEF TimerInv
<1>6. ASSUME NEW a \in AlarmRecord
      PROVE  LET b == [a EXCEPT !.active = FALSE]
             IN /\ b \in AlarmRecord /\ b.trigger_time = a.trigger_time /\ b.data = a.data
                /\ b.repeat = a.repeat /\ b.interval = a.interval /\ ~b.active
  BY DEF AlarmRecord
<1>7. ASSUME NEW id \in Slots, CancelAlarm(id) PROVE TimerInv'
  <2> DEFINE b == [alarms[id] EXCEPT !.active = FALSE]
  <2>1. alarms' = [alarms EXCEPT ![id] = b] /\ UNCHANGED <<timer_ms, next_alarm_id, setting>>
    BY <1>7 DEF CancelAlarm
  <2>2. /\ b \in AlarmRecord /\ b.trigger_time = alarms[id].trigger_time
        /\ b.data = alarms[id].data /\ b.repeat = alarms[id].repeat
        /\ b.interval = alarms[id].interval /\ ~b.active
    BY <1>0, <1>6
  <2> HIDE DEF b
  <2>3. alarms' \in [Slots -> AlarmRecord] /\ alarms'[id] = b
        /\ \A j \in Slots \ {id} : alarms'[j] = alarms[j]
    BY <2>1, <2>2, <1>0
  <2>4. QED BY <2>1, <2>2, <2>3, <1>5
<1>8. ASSUME NEW hz \in Frequencies, InitTimer(hz) PROVE TimerInv'
  <2>1. /\ alarms' = [j \in Slots |-> [alarms[j] EXCEPT !.active = FALSE]]
        /\ UNCHANGED <<timer_ms, next_alarm_id, setting>>
    BY <1>8 DEF InitTimer
  <2>2. \A j \in Slots : /\ alarms'[j] \in AlarmRecord
                         /\ alarms'[j].trigger_time = alarms[j].trigger_time
                         /\ alarms'[j].data = alarms[j].data
                         /\ alarms'[j].repeat = alarms[j].repeat
                         /\ alarms'[j].interval = alarms[j].interval
                         /\ ~alarms'[j].active
    BY <2>1, <1>0, <1>6
  <2>3. alarms' \in [Slots -> AlarmRecord]
    BY <2>1, <2>2
  <2>4. QED BY <2>1, <2>2, <2>3, <1>5
<1>9. ASSUME UNCHANGED <<timer_ms, alarms, next_alarm_id, setting>> PROVE TimerInv'
  BY <1>9, <1>0, <1>5
<1>10. (\E hz \in Frequencies : SetFrequency(hz)) \/ (\E ms \in Instants : ReadClock(ms))
         \/ (\E y \in Years, m \in 1 .. 12, h \in {0, 9, 16, 35} : PrintCal(y, m, h))
         \/ (\E start \in {0, timer_ms} : ReadElapsed(start)) \/ PrintInfo \/ UNCHANGED timerVars
       => UNCHANGED <<timer_ms, alarms, next_alarm_id, setting>>
  BY DEF SetFrequency, ReadClock, PrintCal, ReadElapsed, PrintInfo, timerVars
<1>11. QED
  BY <1>1, <1>2, <1>3, <1>4, <1>7, <1>8, <1>9, <1>10, <1>12 DEF TimerNext

THEOREM TimerInvariant == ASSUME SysTimerAssumption PROVE TimerSpec => []TimerInv
<1>1. TimerInit => TimerInv
  BY TimerInvInit
<1>2. TimerInv /\ [TimerNext]_timerVars => TimerInv'
  BY TimerInvStep
<1>3. QED BY <1>1, <1>2, PTL DEF TimerSpec

(* No callback runs early and no active alarm is overdue after a tick; a one-shot alarm
   that rang is over and a repeating one rings again one period later, except where a tick
   inside the setting of the slot finds the repeat or the interval of the alarm before (timer_handler,
   timer_check_alarms, timer_set_alarm and timer_set_repeating_alarm). *)
THEOREM AlarmsRingOnTime ==
  ASSUME SysTimerAssumption PROVE TimerSpec => AlarmsOnTime
<1>1. ASSUME TimerInv, TimerNext PROVE TickOnTime
  <2>0. /\ timer_ms \in Nat /\ alarms \in [Slots -> AlarmRecord]
        /\ \A i \in Slots : AlarmSound(i)
        /\ setting.at = "idle" \/ setting \in SettingRecord
    BY <1>1 DEF TimerInv, TimerTypes
  <2>1. CASE UNCHANGED timer_ms
    BY <2>0, <2>1 DEF TickOnTime
  <2>2. CASE Tick
    <3>1. /\ timer_ms' = timer_ms + 1 /\ timer_ms' \in Nat
          /\ alarms' = [i \in Slots |-> Checked(alarms[i], timer_ms')]
      BY <2>0, <2>2 DEF Tick
    <3>2. \A c \in called' : /\ c.slot \in Slots /\ c.data = alarms[c.slot].data
                             /\ Due(alarms[c.slot], timer_ms')
      BY <2>2 DEF Tick
    <3>3. ASSUME NEW i \in Slots
          PROVE  /\ alarms'[i].active => timer_ms' <= alarms'[i].trigger_time
                 /\ Due(alarms[i], timer_ms') =>
                      /\ timer_ms' >= alarms[i].data.first
                      /\ ~alarms[i].repeat => ~alarms'[i].active
                      /\ alarms[i].repeat =>
                           /\ alarms'[i].active
                           /\ alarms'[i].trigger_time = timer_ms' + alarms[i].interval
      <4>1. /\ alarms[i] \in AlarmRecord /\ alarms[i].trigger_time >= alarms[i].data.first
            /\ alarms'[i] = Checked(alarms[i], timer_ms')
        BY <2>0, <3>1 DEF AlarmSound
      <4>2. QED BY <4>1, <3>1, CheckedSound
    <3>4. ASSUME NEW c \in called', ~AsAsked(c) PROVE HalfSet(c)
      <4> DEFINE i == c.slot
      <4>1. /\ i \in Slots /\ AlarmSound(i) /\ alarms[i].active
            /\ c.data = alarms[i].data
        BY <2>0, <3>2 DEF Due
      <4>2. setting.at \in {"idle", "chosen", "active", "repeat"}
        BY <2>0 DEF SettingRecord
      <4>3. BeingSet(i)
        BY <3>4, <4>1 DEF AlarmSound, AsAsked
      <4>4. setting.slot = i /\ setting.at \in {"active", "repeat"}
        BY <4>1, <4>2, <4>3 DEF AlarmSound, BeingSet
      <4>5. setting.at = "repeat" => c.data.repeats
        BY <3>4, <4>1, <4>3, <4>4 DEF AlarmSound, AsAsked
      <4>6. QED BY <4>4, <4>5 DEF HalfSet
    <3>5. ASSUME NEW c \in called'
          PROVE  /\ timer_ms' >= c.data.first
                 /\ AsAsked(c) /\ ~c.data.repeats => ~alarms'[c.slot].active
                 /\ AsAsked(c) /\ c.data.repeats =>
                      /\ alarms'[c.slot].active
                      /\ alarms'[c.slot].trigger_time = timer_ms' + c.data.period
      BY <3>2, <3>3 DEF AsAsked
    <3>6. QED BY <3>3, <3>4, <3>5 DEF TickOnTime
  <2>3. QED
    BY <1>1, <2>1, <2>2 DEF TimerNext, ChooseSlot, Activate, SetRepeat, FinishSetting, CancelAlarm,
       InitTimer, SetFrequency, ReadClock, PrintCal, ReadElapsed, PrintInfo
<1>2. TimerInv /\ [TimerNext]_timerVars => [TickOnTime]_timerVars
  BY <1>1
<1>3. QED
  BY <1>2, TimerInvariant, PTL DEF TimerSpec, AlarmsOnTime

-----------------------------------------------------------------------------
(* The kernel's log *)

LEMMA LogConstants ==
  /\ LOG_BUFFER_SIZE \in Nat \ {0} /\ Signs \subseteq Glyphs /\ Conversions \subseteq Glyphs
  /\ \A n \in 1 .. 16 : HexChars[n] \in Glyphs
BY KernelLogAssumption

(* A recursion over sequences: what FlattenSeq builds. *)
LEMMA FlattenIsSeq ==
  ASSUME NEW S, NEW n \in Nat, NEW s, s = [i \in 1 .. n |-> s[i]], \A i \in 1 .. n : s[i] \in Seq(S)
  PROVE  FlattenSeq(s) \in Seq(S)
<1>1. s \in Seq(Seq(S)) /\ Len(s) = n
  OBVIOUS
<1>2. CASE n = 0
  BY <1>1, <1>2 DEF FlattenSeq
<1>3. CASE n > 0
  <2> DEFINE F == [q \in Seq(S) \X (1 .. n) |-> q[1] \o s[q[2]]]
  <2>1. F \in [Seq(S) \X (1 .. n) -> Seq(S)]
    OBVIOUS
  <2>2. <<>> \in Seq(S)
    OBVIOUS
  <2>3. PICK g \in [0 .. n -> Seq(S)] : Solves(g, n, <<>>, F)
    <3> HIDE DEF F
    <3> QED BY <2>1, <2>2, RecursionExists
  <2>4. \A i \in 1 .. n : \A j \in 0 .. n : j = i - 1 => g[i] = g[j] \o s[i]
    <3>1. \A i \in 1 .. n : <<g[i - 1], i>> \in Seq(S) \X (1 .. n)
      BY <2>3
    <3>2. QED BY <3>1, <2>3 DEF Solves
  <2> DEFINE h == [i \in 1 .. n |-> g[i]]
             Step(f, i) == IF i = 1 THEN s[i] ELSE f[i - 1] \o s[i]
  <2>5. g[1] = s[1]
    <3>1. 1 \in 1 .. n /\ g[0] = <<>>
      BY <1>3, <2>3 DEF Solves
    <3>2. 0 \in 0 .. n /\ 0 = 1 - 1
      OBVIOUS
    <3>3. g[1] = g[0] \o s[1]
      BY <3>1, <3>2, <2>4, Zenon
    <3>4. <<>> \o s[1] = s[1]
      BY <3>1
    <3>5. QED BY <3>1, <3>3, <3>4
  <2>6. h = [i \in 1 .. n |-> Step(h, i)]
    <3>1. ASSUME NEW i \in 1 .. n PROVE h[i] = Step(h, i)
      <4>1. CASE i = 1
        BY <4>1, <2>5
      <4>2. CASE i # 1
        <5>1. i - 1 \in 1 .. n
          BY <4>2
        <5>2. h[i - 1] = g[i - 1] /\ h[i] = g[i]
          BY <5>1
        <5> HIDE DEF h
        <5>3. QED BY <4>2, <5>2, <2>4
      <4>3. QED BY <4>1, <4>2
    <3>2. QED BY <3>1
  <2> DEFINE fl == CHOOSE f : f = [i \in 1 .. n |-> Step(f, i)]
  <2>7. fl = [i \in 1 .. n |-> Step(fl, i)]
    <3> HIDE DEF h
    <3> QED BY <2>6
  <2>8. ASSUME NEW i \in 1 .. n PROVE fl[i] \in Seq(S)
    <3> DEFINE T == {j \in 0 .. n : j = 0 \/ fl[j] \in Seq(S)}
    <3>1. 0 \in T
      OBVIOUS
    <3>2. ASSUME NEW j \in 1 .. n, j - 1 \in T PROVE j \in T
      <4> HIDE DEF fl
      <4>1. fl[j] = Step(fl, j)
        BY <2>7
      <4>2. CASE j = 1
        BY <4>1, <4>2
      <4>3. CASE j # 1
        <5>1. fl[j - 1] \in Seq(S) /\ s[j] \in Seq(S)
          BY <3>2, <4>3
        <5>2. fl[j - 1] \o s[j] \in Seq(S)
          BY <5>1
        <5>3. fl[j] = fl[j - 1] \o s[j]
          BY <4>1, <4>3
        <5>4. fl[j] \in Seq(S)
          BY <5>2, <5>3, Zenon
        <5>5. QED BY <5>4
      <4>4. QED BY <4>2, <4>3
    <3>3. \A j \in 0 .. n : j \in T
      <4> HIDE DEF T, fl
      <4> QED BY <3>1, <3>2, SetInduction
    <3> HIDE DEF fl
    <3>4. QED BY <3>3
  <2>9. FlattenSeq(s) = fl[n]
    BY <1>1, <1>3 DEF FlattenSeq
  <2>10. QED
    <3> HIDE DEF fl
    <3> QED BY <1>3, <2>8, <2>9
<1>4. QED BY <1>2, <1>3

LEMMA FiguresAreGlyphs ==
  ASSUME NEW base \in {10, 16}, NEW n \in Nat
  PROVE  Figures(base)[n] \in Seq(Glyphs)
<1> DEFINE B == [k \in Nat |-> IF k < base THEN <<HexChars[k + 1]>> ELSE <<>>]
           d == [k \in Nat |-> k \div base]
           G == [q \in Seq(Glyphs) \X Nat |-> Append(q[1], HexChars[(q[2] % base) + 1])]
           Step(f, k) == IF k < base THEN <<HexChars[k + 1]>>
                         ELSE Append(f[k \div base], HexChars[(k % base) + 1])
<1>1. B \in [Nat -> Seq(Glyphs)]
  <2>1. \A k \in Nat : k < base => <<HexChars[k + 1]>> \in Seq(Glyphs)
    BY LogConstants
  <2>2. QED BY <2>1
<1>2. \A k \in Nat : HexChars[(k % base) + 1] \in Glyphs
  <2>1. \A k \in Nat : (k % base) + 1 \in 1 .. 16
    OBVIOUS
  <2>2. QED BY <2>1, LogConstants
<1>3. G \in [Seq(Glyphs) \X Nat -> Seq(Glyphs)]
  <2> HIDE DEF G
  <2>1. \A q \in Seq(Glyphs) \X Nat : G[q] \in Seq(Glyphs)
    <3>1. TAKE q \in Seq(Glyphs) \X Nat
    <3>2. q[1] \in Seq(Glyphs) /\ q[2] \in Nat
      OBVIOUS
    <3>3. HexChars[(q[2] % base) + 1] \in Glyphs
      BY <3>2, <1>2
    <3>4. Append(q[1], HexChars[(q[2] % base) + 1]) \in Seq(Glyphs)
      BY <3>2, <3>3
    <3>5. QED BY <3>4 DEF G
  <2>2. G = [q \in Seq(Glyphs) \X Nat |-> G[q]]
    BY DEF G
  <2>3. QED BY <2>1, <2>2
<1>4. d \in [Nat -> Nat] /\ \A k \in Nat : k >= base => d[k] < k
  OBVIOUS
<1>5. PICK g \in [Nat -> Seq(Glyphs)] :
        Descends(g, base, B, G, d)
  <2> HIDE DEF B, G, d
  <2>1. base \in Nat
    OBVIOUS
  <2>2. d \in [Nat -> Nat]
    BY <1>4
  <2>3. \A k \in Nat : k >= base => d[k] < k
    BY <1>4
  <2> DEFINE X == Seq(Glyphs)
  <2>4. B \in [Nat -> X] /\ G \in [X \X Nat -> X]
    BY <1>1, <1>3
  <2>5. \E e \in [Nat -> X] : Descends(e, base, B, G, d)
    <3> HIDE DEF X
    <3> QED BY <2>1, <2>2, <2>3, <2>4, DescentExists
  <2>6. QED BY <2>5
<1>6. g = [k \in Nat |-> Step(g, k)]
  <2>1. ASSUME NEW k \in Nat PROVE g[k] = Step(g, k)
    <3>1. k \div base \in Nat
      OBVIOUS
    <3>2. <<g[k \div base], k>> \in Seq(Glyphs) \X Nat
      BY <3>1
    <3>3. QED BY <3>1, <3>2, <1>5 DEF Descends
  <2>2. QED BY <2>1
<1> DEFINE f == CHOOSE e : e = [k \in Nat |-> Step(e, k)]
<1>7. f = [k \in Nat |-> Step(f, k)]
  BY <1>6
<1>8. Figures(base) = f
  BY DEF Figures
<1> DEFINE T == {k \in Nat : f[k] \notin Seq(Glyphs)}
<1>9. T = {}
  <2>1. SUFFICES ASSUME T # {} PROVE FALSE
    OBVIOUS
  <2>2. PICK k \in T : \A l \in T : k <= l
    <3>1. T \subseteq Nat
      OBVIOUS
    <3> HIDE DEF T
    <3> QED BY <3>1, <2>1, LeastElement
  <2> HIDE DEF f
  <2>3. k \in Nat /\ f[k] \notin Seq(Glyphs) /\ f[k] = Step(f, k)
    BY <2>2, <1>7
  <2>4. CASE k < base
    <3>1. k + 1 \in 1 .. 16
      BY <2>3, <2>4
    <3>2. HexChars[k + 1] \in Glyphs
      <4> HIDE DEF T
      <4> QED BY <3>1, LogConstants
    <3>3. <<HexChars[k + 1]>> \in Seq(Glyphs)
      BY <3>2
    <3>4. QED BY <2>3, <2>4, <3>3
  <2>5. CASE k >= base
    <3>1. k \div base \in Nat /\ k \div base < k
      BY <2>3, <2>5
    <3>2. f[k \div base] \in Seq(Glyphs)
      <4> DEFINE l == k \div base
      <4>1. l \in T => k <= l
        BY <2>2
      <4>2. l \notin T /\ l \in Nat
        <5> HIDE DEF l, T
        <5>1. l \in Nat /\ l < k
          BY <3>1 DEF l
        <5>2. QED BY <4>1, <5>1, <2>3
      <4> HIDE DEF l
      <4>3. f[l] \in Seq(Glyphs)
        BY <4>2
      <4>4. QED BY <4>3 DEF l
    <3>3. Append(f[k \div base], HexChars[(k % base) + 1]) \in Seq(Glyphs)
      <4> DEFINE text == f[k \div base] glyph == HexChars[(k % base) + 1]
      <4>1. text \in Seq(Glyphs) /\ glyph \in Glyphs
        BY <3>2, <1>2, <2>3
      <4> HIDE DEF text, glyph
      <4>2. Append(text, glyph) \in Seq(Glyphs)
        BY <4>1
      <4>3. QED BY <4>2 DEF text, glyph
    <3>4. QED BY <3>3, <2>3, <2>5
  <2>6. QED BY <2>3, <2>4, <2>5
<1>10. QED
  <2> HIDE DEF f
  <2> QED BY <1>8, <1>9

LEMMA NumberIsNat ==
  ASSUME NEW ds \in Seq(0 .. 9) PROVE NumberOf10(ds) \in Nat
<1> DEFINE n == Len(ds)
           F == [q \in Nat \X (1 .. n) |-> 10 * q[1] + ds[q[2]]]
           Step(f, i) == IF i = 0 THEN 0 ELSE 10 * f[i - 1] + ds[i]
           f == CHOOSE e : e = [i \in 0 .. n |-> Step(e, i)]
<1>1. n \in Nat /\ \A i \in 1 .. n : ds[i] \in 0 .. 9
  OBVIOUS
<1> HIDE DEF n
<1>2. F \in [Nat \X (1 .. n) -> Nat]
  <2>1. ASSUME NEW q \in Nat \X (1 .. n) PROVE 10 * q[1] + ds[q[2]] \in Nat
    <3>1. q[1] \in Nat /\ q[2] \in 1 .. n
      BY <2>1
    <3>2. ds[q[2]] \in 0 .. 9
      BY <3>1, <1>1
    <3>3. QED BY <3>1, <3>2
  <2>2. QED BY <2>1
<1>3. PICK g \in [0 .. n -> Nat] : Solves(g, n, 0, F)
  <2> HIDE DEF F
  <2> QED BY <1>1, <1>2, RecursionExists
<1>4. g = [i \in 0 .. n |-> Step(g, i)]
  <2>1. ASSUME NEW i \in 0 .. n PROVE g[i] = Step(g, i)
    <3>1. CASE i = 0
      BY <3>1, <1>3 DEF Solves
    <3>2. CASE i # 0
      <4>1. i \in 1 .. n /\ i - 1 \in 0 .. n
        BY <3>2, <1>1
      <4>2. <<g[i - 1], i>> \in Nat \X (1 .. n)
        BY <4>1
      <4>3. g[i] = F[<<g[i - 1], i>>]
        BY <4>1, <1>3 DEF Solves
      <4>4. F[<<g[i - 1], i>>] = 10 * g[i - 1] + ds[i]
        BY <4>2
      <4>5. QED BY <4>3, <4>4, <3>2
    <3>3. QED BY <3>1, <3>2
  <2>2. QED BY <2>1
<1>5. f = [i \in 0 .. n |-> Step(f, i)]
  BY <1>4
<1>6. ASSUME NEW i \in 0 .. n PROVE f[i] \in Nat
  <2> DEFINE T == {j \in 0 .. n : f[j] \in Nat}
  <2> HIDE DEF f
  <2>1. 0 \in T
    BY <1>5, <1>1
  <2>2. ASSUME NEW j \in 1 .. n, j - 1 \in T PROVE j \in T
    <3>1. j \in 0 .. n /\ j # 0 /\ f[j - 1] \in Nat /\ ds[j] \in 0 .. 9
      BY <2>2, <1>1
    <3>2. f[j] = Step(f, j)
      BY <3>1, <1>5
    <3>3. Step(f, j) \in Nat
      <4>1. \A x \in Nat, y \in 0 .. 9 : 10 * x + y \in Nat
        OBVIOUS
      <4>2. QED BY <3>1, <4>1
    <3>4. QED BY <3>1, <3>2, <3>3
  <2>3. \A j \in 0 .. n : j \in T
    <3> HIDE DEF T
    <3> QED BY <2>1, <2>2, <1>1, SetInduction
  <2>4. QED BY <2>3
<1>7. NumberOf10(ds) = f[n]
  BY DEF NumberOf10, n
<1>8. QED
  <2> HIDE DEF f
  <2> QED BY <1>1, <1>6, <1>7

LEMMA IntTextIsText ==
  ASSUME NEW base \in {10, 16}, NEW num, Fits(num), NEW precision \in Nat
  PROVE  IntText(num, base, precision) \in Seq(Glyphs)
<1> DEFINE neg == num < 0 /\ base = 10
           k == IF num >= 0 THEN num ELSE IF neg THEN -num ELSE 65536 + num
           f == Figures(base)[k]
           zeros == IF precision > Len(f) THEN precision - Len(f) ELSE 0
<1>1. k \in Nat
  BY DEF Fits
<1>2. f \in Seq(Glyphs)
  <2> HIDE DEF k
  <2> QED BY <1>1, FiguresAreGlyphs
<1>3. zeros \in Nat
  <2> HIDE DEF f
  <2> QED BY <1>2
<1>4. "0" \in Glyphs /\ "-" \in Glyphs
  <2>1. HexChars[1] = "0" /\ 1 \in 1 .. 16
    BY DEF HexChars
  <2>2. "-" \in Signs
    BY DEF Signs
  <2>3. QED BY <2>1, <2>2, LogConstants
<1>5. [i \in 1 .. zeros |-> "0"] \in Seq(Glyphs)
  <2> HIDE DEF zeros
  <2> QED BY <1>3, <1>4
<1>6. (IF neg THEN <<"-">> ELSE <<>>) \in Seq(Glyphs)
  BY <1>4
<1>7. IntText(num, base, precision) =
        (IF neg THEN <<"-">> ELSE <<>>) \o [i \in 1 .. zeros |-> "0"] \o f
  BY DEF IntText
<1>8. QED
  <2> HIDE DEF neg, zeros, f
  <2> QED BY <1>2, <1>5, <1>6, <1>7

LEMMA ConvertedIsText ==
  ASSUME NEW item, IsItem(item), item[1] # "lit", NEW precision \in Nat
  PROVE  Converted(item[1], precision, item[3]) \in Seq(Glyphs)
<1> DEFINE conv == item[1]
           arg == item[3]
<1>1. conv \in Conversions
  BY DEF IsItem
<1>2. CASE conv = "s"
  <2>1. arg = 0 \/ arg \in Seq(Glyphs)
    BY <1>2 DEF IsItem
  <2>2. {"(", "n", "u", "l", ")"} \subseteq Glyphs
    <3>1. "(" \in Signs /\ "n" \in Signs /\ "l" \in Signs /\ ")" \in Signs /\ "u" \in Conversions
      BY DEF Signs, Conversions
    <3>2. QED BY <3>1, LogConstants
  <2>3. <<"(", "n", "u", "l", "l", ")">> \in Seq(Glyphs)
    BY <2>2
  <2>4. Converted(conv, precision, arg) = IF arg = 0 THEN <<"(", "n", "u", "l", "l", ")">> ELSE arg
    BY <1>2 DEF Converted
  <2>5. QED BY <2>1, <2>3, <2>4
<1>3. CASE conv \in {"d", "u", "x", "p"}
  <2>1. Fits(arg)
    BY <1>3 DEF IsItem
  <2>2. ASSUME NEW b \in {10, 16}, NEW k \in Nat PROVE IntText(arg, b, k) \in Seq(Glyphs)
    <3> HIDE DEF arg
    <3> QED BY <2>1, IntTextIsText, Zenon
  <2>3. <<"0", "x">> \in Seq(Glyphs) /\ IntText(arg, 16, 8) \in Seq(Glyphs)
    <3> HIDE DEF arg
    <3>1. HexChars[1] = "0" /\ 1 \in 1 .. 16 /\ "x" \in Conversions
      BY DEF HexChars, Conversions
    <3>2. "0" \in Glyphs /\ "x" \in Glyphs
      BY <3>1, LogConstants
    <3>3. QED BY <2>2, <3>2
  <2>4. CASE conv \in {"d", "u"}
    BY <2>2, <2>4 DEF Converted
  <2>5. CASE conv = "x"
    BY <2>2, <2>5 DEF Converted
  <2>6. CASE conv = "p"
    <3>1. Converted(conv, precision, arg) = <<"0", "x">> \o IntText(arg, 16, 8)
      BY <2>6 DEF Converted
    <3>2. QED BY <2>3, <3>1
  <2>7. QED BY <1>3, <2>4, <2>5, <2>6
<1>4. CASE conv = "c"
  <2>1. arg \in Glyphs
    BY <1>4 DEF IsItem
  <2>2. Converted(conv, precision, arg) = <<arg>>
    BY <1>4 DEF Converted
  <2>3. QED BY <2>1, <2>2
<1>5. CASE conv = "%"
  <2>1. Converted(conv, precision, arg) = <<"%">> /\ "%" \in Conversions
    BY <1>5 DEF Converted, Conversions
  <2>2. QED BY <2>1, LogConstants
<1>6. QED BY <1>1, <1>2, <1>3, <1>4, <1>5 DEF Conversions

LEMMA MessageIsText ==
  ASSUME NEW fmt \in Formats PROVE VPrintk(fmt) \in Seq(Glyphs)
<1> DEFINE n == Len(fmt)
           One(i) ==
             IF fmt[i][1] = "lit" THEN <<fmt[i][2]>>
             ELSE IF Len(fmt[i][2]) > 1
             THEN [k \in 1 .. (Len(fmt[i][2]) - 2) |-> HexChars[fmt[i][2][k + 2] + 1]] \o <<fmt[i][1]>>
             ELSE Converted(fmt[i][1], NumberOf10(fmt[i][2]), fmt[i][3])
           s == [i \in DOMAIN fmt |-> One(i)]
<1>1. DOMAIN fmt = 1 .. n /\ n \in Nat /\ \A i \in 1 .. n : IsItem(fmt[i])
  BY KernelLogAssumption
<1>2. ASSUME NEW i \in 1 .. n PROVE One(i) \in Seq(Glyphs)
  <2> DEFINE item == fmt[i]
  <2>1. IsItem(item)
    BY <1>1
  <2>2. CASE item[1] = "lit"
    <3>1. item[2] \in Glyphs
      BY <2>1, <2>2 DEF IsItem, Conversions
    <3>2. QED BY <3>1, <2>2
  <2>3. CASE item[1] # "lit"
    <3>1. item[1] \in Glyphs /\ item[2] \in Seq(0 .. 9)
      BY <2>1, <2>3, LogConstants DEF IsItem
    <3>2. CASE Len(item[2]) > 1
      <4> DEFINE ds == item[2]
                 t == [k \in 1 .. (Len(ds) - 2) |-> HexChars[ds[k + 2] + 1]]
      <4>1. Len(ds) - 2 \in Nat /\ \A k \in 1 .. (Len(ds) - 2) : ds[k + 2] + 1 \in 1 .. 16
        <5>1. ds \in Seq(0 .. 9) /\ Len(ds) > 1
          BY <3>1, <3>2
        <5> HIDE DEF ds
        <5>2. Len(ds) \in Nat /\ \A k \in 1 .. Len(ds) : ds[k] \in 0 .. 9
          BY <5>1
        <5>3. ASSUME NEW k \in 1 .. (Len(ds) - 2) PROVE ds[k + 2] + 1 \in 1 .. 16
          <6>1. k + 2 \in 1 .. Len(ds)
            BY <5>2
          <6>2. ds[k + 2] \in 0 .. 9
            BY <6>1, <5>2
          <6>3. QED BY <6>2
        <5>4. QED BY <5>1, <5>2, <5>3
      <4>2. t \in Seq(Glyphs)
        <5>1. \A k \in 1 .. (Len(ds) - 2) : HexChars[ds[k + 2] + 1] \in Glyphs
          BY <4>1, LogConstants
        <5> HIDE DEF ds
        <5>2. QED BY <5>1, <4>1
      <4>3. One(i) = t \o <<item[1]>>
        BY <2>3, <3>2
      <4>4. <<item[1]>> \in Seq(Glyphs)
        BY <3>1
      <4>5. QED
        <5> HIDE DEF t, One
        <5> QED BY <4>2, <4>3, <4>4
    <3>3. CASE ~ (Len(item[2]) > 1)
      <4>1. Converted(item[1], NumberOf10(item[2]), item[3]) \in Seq(Glyphs)
        BY <2>1, <2>3, <3>1, NumberIsNat, ConvertedIsText
      <4>2. QED BY <4>1, <2>3, <3>3
    <3>4. QED BY <3>2, <3>3
  <2>4. QED BY <2>2, <2>3
<1>3. s = [i \in 1 .. n |-> s[i]] /\ \A i \in 1 .. n : s[i] \in Seq(Glyphs)
  <2> HIDE DEF One
  <2> QED BY <1>1, <1>2
<1>4. VPrintk(fmt) = FlattenSeq(s)
  BY DEF VPrintk
<1>5. QED
  <2> HIDE DEF s
  <2> QED BY <1>1, <1>3, <1>4, FlattenIsSeq

\* Where the ring has the x-th character that was logged, from 0 on
Cell(x) == x % LOG_BUFFER_SIZE

LEMMA CellInRing ==
  ASSUME NEW x \in Int PROVE Cell(x) \in 0 .. LOG_BUFFER_SIZE - 1
BY LogConstants DEF Cell

LEMMA CellOfSum ==
  ASSUME NEW x \in Int, NEW y \in Int PROVE (Cell(x) + y) % LOG_BUFFER_SIZE = Cell(x + y)
<1> DEFINE n == LOG_BUFFER_SIZE
           q == x \div n
           w == x % n
           z == w + y
<1>1. n \in Nat \ {0}
  BY LogConstants
<1> HIDE DEF n
<1>2. q \in Int /\ x % n \in 0 .. n - 1 /\ x = n * q + (x % n)
  BY <1>1, Remainder
<1>3. z \in Int
  BY <1>2
<1>4. z % n \in 0 .. n - 1 /\ z \div n \in Int /\ z = n * (z \div n) + (z % n)
  <2> HIDE DEF z
  <2> QED BY <1>1, <1>3, Remainder
<1>5. x + y = n * (q + z \div n) + (z % n)
  <2> DEFINE p == z \div n
             r == z % n
  <2>1. x + y = n * q + z
    <3> HIDE DEF q, w
    <3> QED BY <1>1, <1>2 DEF w
  <2>2. z = n * p + r /\ p \in Int /\ r \in Int
    BY <1>4
  <2> HIDE DEF p, r, z, q
  <2>3. n * q + (n * p + r) = n * (q + p) + r
    BY <1>1, <1>2, <2>2
  <2>4. QED BY <2>1, <2>2, <2>3 DEF p, r
<1>6. (n * (q + z \div n) + (z % n)) % n = z % n
  <2> HIDE DEF z, q
  <2>1. q + z \div n \in Int
    BY <1>2, <1>4
  <2>2. QED BY <1>1, <1>4, <2>1, RemainderIs
<1>7. QED
  BY <1>5, <1>6 DEF Cell, n

LEMMA CellsApart ==
  ASSUME NEW x \in Int, NEW y \in Int, x < y, y < x + LOG_BUFFER_SIZE
  PROVE  Cell(x) # Cell(y)
<1> DEFINE n == LOG_BUFFER_SIZE
           p == x \div n
           q == y \div n
           r == x % n
<1>1. n \in Nat \ {0}
  BY LogConstants
<1> HIDE DEF n
<1>2. p \in Int /\ q \in Int /\ r \in Int /\ x = n * p + r /\ y = n * q + (y % n)
  BY <1>1, Remainder
<1>3. SUFFICES ASSUME r = y % n PROVE FALSE
  BY DEF Cell, n
<1>4. x < y /\ y < x + n /\ y = n * q + r
  BY <1>2, <1>3 DEF n
<1> HIDE DEF p, q, r
<1>5. n * q > n * p /\ n * q < n * p + n
  BY <1>1, <1>2, <1>4
<1>6. CASE q <= p
  <2>1. n * q <= n * p
    BY <1>1, <1>2, <1>6
  <2>2. QED BY <2>1, <1>1, <1>2, <1>5
<1>7. CASE q >= p + 1
  <2>1. n * q >= n * (p + 1)
    BY <1>1, <1>2, <1>7
  <2>2. n * (p + 1) = n * p + n
    BY <1>1, <1>2
  <2>3. QED BY <2>1, <2>2, <1>1, <1>2, <1>5
<1>8. QED BY <1>2, <1>6, <1>7

\* The ring has the last characters that were logged, the first of them b cells from
\* its start; all but the oldest when the next one is stored already
RingFrom(b, stored) ==
  /\ log_ptr = Cell(b + Len(logged)) /\ DOMAIN kernel_log_buffer = 0 .. LOG_BUFFER_SIZE - 1
  /\ \A x \in Nat : x < Len(logged) /\ Len(logged) <= x + LOG_BUFFER_SIZE
                     /\ (stored => Len(logged) < x + LOG_BUFFER_SIZE) =>
       kernel_log_buffer[Cell(b + x)] = logged[x + 1]

RingHolds == \E b \in Nat : RingFrom(b, put.at = "move")

\* Lines of text, after its first characters, begin with a stamp, an escape or an end
\* of line
Stamped(text, start, from) ==
  /\ \A i \in DOMAIN text : i > from + 1 /\ text[i - 1] = "LF" => text[i] \in {"[", "LF", "CR", "ESC"}
  /\ start => Len(text) = from \/ text[Len(text)] \in {"LF", "CR"}
  /\ Len(text) = from \/ text[Len(text)] # "LF" \/ start

\* What log_char has loaded and stored, when no handler came
CharAsItWas ==
  /\ put.at \in {"store", "move"} => put.reg = log_ptr
  /\ put.at = "move" => kernel_log_buffer[log_ptr] = Head(put.todo)

\* What is left of a __putchar
TodoKnown ==
  /\ put.at = "stamped" \/ Len(put.todo) > 1 => Head(printing) # "CR"
  /\ put.at = "end" => put.todo = <<>>

\* The text with what is left of the __putchar, which no handler disturbed
LinesStamped ==
  IF put.at = "rest" THEN Stamped(logged, at_line_start, settled)
  ELSE Stamped(logged \o put.todo, LineStarts(Head(printing), at_line_start), settled)

LogInv ==
  /\ LogTypeOK /\ TodoKnown
  /\ put.torn \/ (RingHolds /\ CharAsItWas)
  /\ put.disturbed \/ LinesStamped

LEMMA LogCharsFillRing ==
  ASSUME NEW cs \in Seq(Glyphs), logged \in Seq(Glyphs), NEW b \in Nat, RingFrom(b, FALSE), LogChars(cs)
  PROVE  RingFrom(b, FALSE)'
<1> DEFINE n == LOG_BUFFER_SIZE
           old == Len(logged)
           m == Len(cs)
           Here(i) == {j \in DOMAIN cs : (log_ptr + j - 1) % n = i}
<1>1. n \in Nat \ {0} /\ old \in Nat /\ m \in Nat /\ DOMAIN cs = 1 .. m
  BY LogConstants
<1>2. logged' \in Seq(Glyphs) /\ Len(logged') = old + m
      /\ (\A x \in 1 .. old : logged'[x] = logged[x])
      /\ (\A x \in 1 .. m : logged'[old + x] = cs[x])
  <2>1. logged' = logged \o cs
    BY DEF LogChars
  <2>2. QED BY <2>1
<1>3. log_ptr' = Cell(b + Len(logged'))
  <2>1. log_ptr' = (Cell(b + old) + m) % n
    BY DEF LogChars, RingFrom
  <2>2. (Cell(b + old) + m) % n = Cell(b + old + m)
    BY <1>1, CellOfSum
  <2>3. QED BY <2>1, <2>2, <1>2
<1>4. DOMAIN kernel_log_buffer = 0 .. n - 1 /\ DOMAIN kernel_log_buffer' = 0 .. n - 1
  BY DEF LogChars, RingFrom
<1>5. ASSUME NEW i \in 0 .. n - 1
      PROVE  kernel_log_buffer'[i] =
               IF Here(i) = {} THEN kernel_log_buffer[i]
               ELSE cs[CHOOSE j \in Here(i) : \A l \in Here(i) : l <= j]
  BY <1>4 DEF LogChars
<1>6. ASSUME NEW j \in 1 .. m PROVE (log_ptr + j - 1) % n = Cell(b + old + j - 1)
  <2>1. log_ptr = Cell(b + old) /\ Cell(b + old) \in Int
    BY <1>1, CellInRing DEF RingFrom
  <2>2. (Cell(b + old) + (j - 1)) % n = Cell(b + old + (j - 1))
    BY <1>1, CellOfSum
  <2>3. Cell(b + old) + (j - 1) = log_ptr + j - 1 /\ b + old + (j - 1) = b + old + j - 1
    BY <2>1, <1>1
  <2>4. QED BY <2>2, <2>3
<1>7. ASSUME NEW x \in Nat, x < old + m, old + m <= x + n
      PROVE  kernel_log_buffer'[Cell(b + x)] = logged'[x + 1]
  <2> DEFINE i == Cell(b + x)
  <2>1. i \in 0 .. n - 1
    BY CellInRing
  <2> HIDE DEF Here
  <2>2. CASE x >= old
    <3> DEFINE k == x - old + 1
    <3>1. k \in 1 .. m /\ old + k - 1 = x /\ old + k = x + 1 /\ b + old + k - 1 = b + x
      BY <1>1, <1>7, <2>2
    <3>2. k \in Here(i)
      BY <3>1, <1>1, <1>6 DEF Here
    <3>3. ASSUME NEW l \in Here(i), l > k PROVE FALSE
      <4>1. l \in 1 .. m /\ Cell(b + old + l - 1) = Cell(b + x)
        BY <3>3, <1>1, <1>6 DEF Here
      <4>2. b + x < b + old + l - 1 /\ b + old + l - 1 < b + x + n /\ b + old + l - 1 \in Int /\ b + x \in Int
        BY <4>1, <1>1, <1>7, <3>1, <3>3
      <4>3. QED BY <4>1, <4>2, CellsApart
    <3>4. \A l \in Here(i) : l \in 1 .. m
      BY <1>1 DEF Here
    <3>5. \A l \in Here(i) : l <= k
      <4> HIDE DEF k
      <4> QED BY <3>1, <3>3, <3>4
    <3>6. \A j \in Here(i) : (\A l \in Here(i) : l <= j) => j = k
      <4> HIDE DEF k
      <4> QED BY <3>1, <3>2, <3>4, <3>5
    <3>7. (CHOOSE j \in Here(i) : \A l \in Here(i) : l <= j) = k
      <4> HIDE DEF k, i
      <4> QED BY <3>2, <3>5, <3>6
    <3>8. kernel_log_buffer'[i] = cs[k]
      <4> HIDE DEF k, i
      <4> QED BY <2>1, <3>2, <3>7, <1>5
    <3>9. logged'[old + k] = cs[k]
      BY <3>1, <1>2
    <3>10. QED BY <3>1, <3>8, <3>9
  <2>3. CASE x < old
    <3>1. Here(i) = {}
      <4>1. SUFFICES ASSUME NEW l \in Here(i) PROVE FALSE
        OBVIOUS
      <4>2. l \in 1 .. m /\ Cell(b + old + l - 1) = Cell(b + x)
        BY <4>1, <1>1, <1>6 DEF Here
      <4>3. b + x < b + old + l - 1 /\ b + old + l - 1 < b + x + n /\ b + old + l - 1 \in Int /\ b + x \in Int
        BY <4>2, <1>1, <1>7, <2>3
      <4>4. QED BY <4>2, <4>3, CellsApart
    <3>2. kernel_log_buffer'[i] = kernel_log_buffer[i]
      BY <2>1, <3>1, <1>5
    <3>3. kernel_log_buffer[Cell(b + x)] = logged[x + 1]
      <4>1. old <= x + n
        BY <1>1, <1>7
      <4>2. QED BY <4>1, <2>3 DEF RingFrom
    <3>4. logged'[x + 1] = logged[x + 1]
      BY <1>1, <1>2, <2>3
    <3>5. QED BY <3>2, <3>3, <3>4
  <2>4. QED BY <1>1, <2>2, <2>3
<1>8. QED
  BY <1>2, <1>3, <1>4, <1>7 DEF RingFrom

LEMMA OneMoreStamped ==
  ASSUME NEW text \in Seq(Glyphs), NEW start \in BOOLEAN, NEW c \in Glyphs,
         NEW from \in 0 .. Len(text), Stamped(text, start, from)
  PROVE  /\ Stamped(text \o Logged(c, start), LineStarts(c, start), from)
         /\ Logged(c, start) \in Seq(Glyphs)
<1> DEFINE n == Len(text)
           added == Logged(c, start)
           k == Len(added)
           more == text \o added
<1>1. n \in Nat /\ DOMAIN text = 1 .. n /\ (text = <<>> <=> n = 0)
  OBVIOUS
<1>2. /\ added \in Seq(Glyphs) /\ k \in Nat \ {0} /\ added[k] = c
      /\ \A i \in 1 .. k : i < k => added[i] # "LF"
      /\ start => added[1] \in {"[", "LF", "CR", "ESC"}
  <2>1. CASE start /\ c \notin {"LF", "CR", "ESC"}
    <3>1. added = Stamp \o <<c>>
      BY <2>1 DEF Logged
    <3>2. "[" \in Glyphs /\ "t" \in Glyphs /\ "]" \in Glyphs /\ " " \in Glyphs
      <4>1. "[" \in Signs /\ "t" \in Signs /\ "]" \in Signs /\ " " \in Signs
        BY DEF Signs
      <4>2. QED BY <4>1, LogConstants
    <3>3. Len(Stamp) = 4 /\ Stamp \in Seq(Glyphs)
      <4>1. Len(Stamp) = 4
        BY DEF Stamp
      <4>2. \A a, b, d, e \in Glyphs : <<a, b, d, e>> \in Seq(Glyphs)
        OBVIOUS
      <4>3. QED BY <4>1, <4>2, <3>2 DEF Stamp
    <3>4. Stamp[1] = "[" /\ \A i \in 1 .. 4 : Stamp[i] # "LF"
      BY DEF Stamp
    <3> DEFINE one == <<c>>
    <3>5. one \in Seq(Glyphs) /\ Len(one) = 1 /\ one[1] = c
      OBVIOUS
    <3>0. added = Stamp \o one
      BY <3>1
    <3> HIDE DEF one, added
    <3> DEFINE joined == Stamp \o one
    <3>6. /\ joined \in Seq(Glyphs) /\ Len(joined) = Len(Stamp) + Len(one)
          /\ \A i \in 1 .. Len(Stamp) : joined[i] = Stamp[i]
          /\ \A i \in 1 .. Len(one) : joined[Len(Stamp) + i] = one[i]
      <4>1. Stamp \in Seq(Glyphs) /\ one \in Seq(Glyphs)
        BY <3>3, <3>5
      <4>2. QED BY <4>1
    <3> HIDE DEF joined
    <3>7. added = joined
      BY <3>0 DEF joined
    <3>8. /\ added \in Seq(Glyphs) /\ k = 5 /\ added[5] = c
          /\ \A i \in 1 .. 4 : added[i] = Stamp[i]
      BY <3>3, <3>5, <3>6, <3>7
    <3>9. \A i \in 1 .. k : i < k => added[i] # "LF"
      <4>1. \A i \in 1 .. k : i < k => i \in 1 .. 4
        BY <3>8
      <4>2. QED BY <4>1, <3>4, <3>8
    <3>10. QED BY <3>4, <3>8, <3>9
  <2>2. CASE ~ (start /\ c \notin {"LF", "CR", "ESC"})
    <3>1. added = <<c>>
      BY <2>2 DEF Logged
    <3>2. <<c>> \in Seq(Glyphs) /\ Len(<<c>>) = 1 /\ <<c>>[1] = c
      OBVIOUS
    <3> HIDE DEF added
    <3>3. QED BY <2>2, <3>1, <3>2
  <2>3. QED BY <2>1, <2>2
<1> HIDE DEF added
<1>3. /\ more \in Seq(Glyphs) /\ Len(more) = n + k /\ DOMAIN more = 1 .. n + k /\ more # <<>>
      /\ \A i \in 1 .. n : more[i] = text[i]
      /\ \A i \in 1 .. k : more[n + i] = added[i]
  <2>1. more \in Seq(Glyphs) /\ Len(more) = n + k
    BY <1>1, <1>2
  <2>2. /\ \A i \in 1 .. n : more[i] = text[i]
        /\ \A i \in 1 .. k : more[n + i] = added[i]
    BY <1>1, <1>2
  <2> HIDE DEF more
  <2>3. QED BY <2>1, <2>2, <1>1, <1>2
<1> HIDE DEF more, k, n
<1>4. ASSUME NEW i \in 1 .. n + k, i > from + 1, more[i - 1] = "LF"
      PROVE  more[i] \in {"[", "LF", "CR", "ESC"}
  <2>1. CASE i <= n
    <3>1. i \in 1 .. n /\ more[i] = text[i]
      BY <2>1, <1>1, <1>2, <1>3
    <3>2. i - 1 \in 1 .. n /\ more[i - 1] = text[i - 1]
      BY <3>1, <1>1, <1>3, <1>4
    <3>3. QED BY <3>1, <3>2, <1>1, <1>4 DEF Stamped
  <2>2. CASE i = n + 1
    <3>1. n # from /\ n \in 1 .. n /\ text[n] = "LF"
      BY <2>2, <1>1, <1>3, <1>4
    <3>2. start
      BY <3>1, <1>1 DEF Stamped, n
    <3>3. QED BY <2>2, <3>2, <1>1, <1>2, <1>3
  <2>3. CASE i > n + 1
    <3> DEFINE j == i - 1 - n
    <3>1. j \in 1 .. k /\ j < k /\ n + j = i - 1 /\ i # 1
      BY <2>3, <1>1, <1>2
    <3>2. more[i - 1] = added[j]
      BY <3>1, <1>3
    <3>3. QED BY <3>1, <3>2, <1>2, <1>4
  <2>4. QED BY <1>1, <1>2, <2>1, <2>2, <2>3
<1>5. /\ LineStarts(c, start) => c \in {"LF", "CR"}
      /\ c = "LF" => LineStarts(c, start)
  BY DEF LineStarts
<1>6. more[Len(more)] = c
  BY <1>1, <1>2, <1>3
<1>7. Stamped(more, LineStarts(c, start), from)
  BY <1>3, <1>4, <1>5, <1>6 DEF Stamped
<1>8. QED
  BY <1>2, <1>7 DEF more, added

LEMMA TextsJoin ==
  ASSUME NEW S, NEW a \in Seq(S), NEW b \in Seq(S), NEW d \in Seq(S)
  PROVE  (a \o b) \o d = a \o (b \o d)
BY ConcatAssociative, SMT

LEMMA GlyphsJoin == \A a, b, d \in Seq(Glyphs) : (a \o b) \o d = a \o (b \o d)
BY TextsJoin, SMT

LEMMA LoggedIsText ==
  ASSUME NEW c \in Glyphs, NEW start PROVE Logged(c, start) \in Seq(Glyphs)
<1>1. Stamp \in Seq(Glyphs)
  <2>1. "[" \in Signs /\ "t" \in Signs /\ "]" \in Signs /\ " " \in Signs
    BY DEF Signs
  <2>2. \A a, b, d, e \in Glyphs : <<a, b, d, e>> \in Seq(Glyphs)
    OBVIOUS
  <2>3. QED BY <2>1, <2>2, LogConstants DEF Stamp
<1> DEFINE one == <<c>>
<1>2. one \in Seq(Glyphs)
  OBVIOUS
<1> HIDE DEF one
<1>3. Stamp \o one \in Seq(Glyphs)
  BY <1>1, <1>2
<1>4. QED BY <1>2, <1>3 DEF Logged, one

LEMMA PutIsText ==
  ASSUME NEW cs \in Seq(Glyphs), LogTypeOK, Put(cs)
  PROVE  \E text \in Seq(Glyphs) :
           /\ LogChars(text) /\ at_line_start' \in BOOLEAN
           /\ Stamped(logged, at_line_start, settled) => Stamped(logged \o text, at_line_start', settled)
<1> DEFINE n == Len(cs)
           X == [text : Seq(Glyphs), start : BOOLEAN]
           x == [text |-> <<>>, start |-> at_line_start]
           One(r, c) == [text |-> r.text \o Logged(c, r.start), start |-> LineStarts(c, r.start)]
           F == [q \in X \X (1 .. n) |-> One(q[1], cs[q[2]])]
           Step(f, i) == IF i = 0 THEN x ELSE One(f[i - 1], cs[i])
           f == CHOOSE e : e = [i \in 0 .. n |-> Step(e, i)]
           Good(r) == r \in X /\ (Stamped(logged, at_line_start, settled) => Stamped(logged \o r.text, r.start, settled))
<1>1. n \in Nat /\ (\A i \in 1 .. n : cs[i] \in Glyphs) /\ logged \in Seq(Glyphs)
      /\ at_line_start \in BOOLEAN /\ settled \in 0 .. Len(logged)
  BY DEF LogTypeOK
<1> HIDE DEF n
<1>2. x \in X
  BY <1>1
<1>3. ASSUME NEW r \in X, NEW c \in Glyphs PROVE One(r, c) \in X
  <2>1. LineStarts(c, r.start) \in BOOLEAN
    BY DEF LineStarts
  <2>2. Logged(c, r.start) \in Seq(Glyphs)
    BY LoggedIsText
  <2>3. r.text \o Logged(c, r.start) \in Seq(Glyphs)
    BY <2>2
  <2>4. QED BY <2>1, <2>3
<1>4. F \in [X \X (1 .. n) -> X]
  <2>1. ASSUME NEW q \in X \X (1 .. n) PROVE One(q[1], cs[q[2]]) \in X
    <3>1. q[1] \in X /\ cs[q[2]] \in Glyphs
      BY <1>1
    <3> HIDE DEF One, X
    <3>2. QED BY <3>1, <1>3
  <2> HIDE DEF One, X
  <2>2. QED BY <2>1
<1>5. PICK g \in [0 .. n -> X] : Solves(g, n, x, F)
  <2> HIDE DEF F, X, x
  <2> QED BY <1>1, <1>2, <1>4, RecursionExists
<1> HIDE DEF X, x, One
<1>6. g = [i \in 0 .. n |-> Step(g, i)]
  <2>1. ASSUME NEW i \in 0 .. n PROVE g[i] = Step(g, i)
    <3>1. CASE i = 0
      BY <3>1, <1>5 DEF Solves
    <3>2. CASE i # 0
      <4>1. i \in 1 .. n /\ i - 1 \in 0 .. n
        BY <3>2, <1>1
      <4>2. <<g[i - 1], i>> \in X \X (1 .. n)
        BY <4>1, <1>5
      <4>3. g[i] = F[<<g[i - 1], i>>]
        BY <4>1, <1>5 DEF Solves
      <4>4. F[<<g[i - 1], i>>] = One(g[i - 1], cs[i])
        BY <4>2
      <4>5. QED BY <4>3, <4>4, <3>2
    <3>3. QED BY <3>1, <3>2
  <2>2. QED BY <2>1
<1>7. f = [i \in 0 .. n |-> Step(f, i)]
  BY <1>6
<1>8. Good(x)
  <2>1. x.text = <<>> /\ x.start = at_line_start /\ logged \o <<>> = logged
    BY <1>1 DEF x
  <2>2. QED BY <1>2, <2>1
<1>9. ASSUME NEW r, Good(r), NEW c \in Glyphs PROVE Good(One(r, c))
  <2>1. r \in X /\ r.text \in Seq(Glyphs) /\ r.start \in BOOLEAN
    BY <1>9 DEF X
  <2> DEFINE all == logged \o r.text
             added == Logged(c, r.start)
  <2>2. all \in Seq(Glyphs)
    BY <1>1, <2>1
  <2>3. /\ Stamped(logged, at_line_start, settled) => Stamped(all \o added, LineStarts(c, r.start), settled)
        /\ added \in Seq(Glyphs)
    <3>0. added \in Seq(Glyphs)
      BY <2>1, LoggedIsText
    <3>1. Stamped(logged, at_line_start, settled) => Stamped(all, r.start, settled)
      BY <1>9
    <3>2. settled \in 0 .. Len(all)
      BY <1>1, <2>1
    <3> HIDE DEF all
    <3>3. QED BY <2>1, <2>2, <3>0, <3>1, <3>2, OneMoreStamped
  <2>4. all \o added = logged \o (r.text \o added)
    <3>1. logged \in Seq(Glyphs) /\ r.text \in Seq(Glyphs) /\ added \in Seq(Glyphs)
      BY <1>1, <2>1, <2>3
    <3> DEFINE text == r.text
    <3>2. text \in Seq(Glyphs)
      BY <3>1
    <3> HIDE DEF f, F, X, Good, Step, added, text
    <3>3. \A a, b, d \in Seq(Glyphs) : (a \o b) \o d = a \o (b \o d)
      BY GlyphsJoin, Zenon
    <3>4. (logged \o text) \o added = logged \o (text \o added)
      BY <3>1, <3>2, <3>3, Zenon
    <3>5. QED BY <3>4 DEF text
  <2>5. One(r, c).text = r.text \o added /\ One(r, c).start = LineStarts(c, r.start)
    BY DEF One
  <2>6. QED BY <1>3, <2>1, <2>3, <2>4, <2>5
<1>10. ASSUME NEW i \in 0 .. n PROVE Good(f[i])
  <2> DEFINE T == {j \in 0 .. n : Good(f[j])}
  <2> HIDE DEF f
  <2>1. 0 \in T
    <3>1. 0 \in 0 .. n /\ f[0] = x
      BY <1>1, <1>7
    <3> HIDE DEF Good
    <3>2. QED BY <3>1, <1>8
  <2>2. ASSUME NEW j \in 1 .. n, j - 1 \in T PROVE j \in T
    <3> HIDE DEF Good
    <3>1. j \in 0 .. n /\ j # 0 /\ Good(f[j - 1]) /\ cs[j] \in Glyphs
      BY <1>1, <2>2
    <3>2. f[j] = One(f[j - 1], cs[j])
      BY <3>1, <1>7
    <3>3. Good(One(f[j - 1], cs[j]))
      BY <3>1, <1>9
    <3>4. QED BY <3>1, <3>2, <3>3
  <2>3. \A j \in 0 .. n : j \in T
    <3> HIDE DEF T
    <3> QED BY <2>1, <2>2, <1>1, SetInduction
  <2>4. QED BY <2>3
<1>11. LogChars(f[n].text) /\ at_line_start' = f[n].start
  BY DEF Put, One, x, n
<1> HIDE DEF f
<1>12. f[n] \in X /\ (Stamped(logged, at_line_start, settled) => Stamped(logged \o f[n].text, f[n].start, settled))
  BY <1>1, <1>10
<1>13. f[n].text \in Seq(Glyphs) /\ f[n].start \in BOOLEAN
  BY <1>12 DEF X
<1>14. QED
  BY <1>11, <1>12, <1>13

LEMMA CellOfCell == ASSUME NEW x \in 0 .. LOG_BUFFER_SIZE - 1 PROVE Cell(x) = x
<1>1. (LOG_BUFFER_SIZE * 0 + x) % LOG_BUFFER_SIZE = x
  BY LogConstants, RemainderIs
<1>2. LOG_BUFFER_SIZE * 0 + x = x
  BY LogConstants
<1>3. QED BY <1>1, <1>2 DEF Cell

\* A ring of which nothing is known holds the end of nothing
LEMMA EmptyRing ==
  ASSUME logged = <<>>, log_ptr \in 0 .. LOG_BUFFER_SIZE - 1,
         DOMAIN kernel_log_buffer = 0 .. LOG_BUFFER_SIZE - 1
  PROVE  RingHolds
<1>1. log_ptr \in Nat /\ Len(logged) = 0 /\ log_ptr + 0 = log_ptr /\ Cell(log_ptr) = log_ptr
  BY CellOfCell, LogConstants
<1>2. RingFrom(log_ptr, put.at = "move")
  BY <1>1 DEF RingFrom
<1>3. QED BY <1>1, <1>2 DEF RingHolds

LEMMA LogInvInit == LogInit => LogInv
<1> SUFFICES ASSUME LogInit PROVE LogInv
  OBVIOUS
<1>1. /\ logged = <<>> /\ Len(logged) = 0 /\ log_ptr = 0 /\ 0 \in 0 .. LOG_BUFFER_SIZE - 1
      /\ put = NotPutting /\ settled = 0 /\ printed = 0 /\ printing = <<>>
      /\ at_line_start = TRUE /\ DOMAIN kernel_log_buffer = 0 .. LOG_BUFFER_SIZE - 1
  BY LogConstants DEF LogInit
<1>2. IsPut(put) /\ put.at = "rest" /\ put.todo = <<>>
  BY <1>1 DEF IsPut, NotPutting
<1>3. LogTypeOK
  <2>1. printed \in 0 .. MaxPrinted
    BY <1>1, KernelLogAssumption
  <2>2. QED BY <1>1, <1>2, <2>1 DEF LogTypeOK
<1>4. RingHolds
  BY <1>1, EmptyRing
<1>5. CharAsItWas /\ TodoKnown
  BY <1>2 DEF CharAsItWas, TodoKnown
<1>6. LinesStamped
  BY <1>1, <1>2 DEF LinesStamped, Stamped
<1>7. QED BY <1>3, <1>4, <1>5, <1>6 DEF LogInv

\* What a handler prints
LEMMA IrqKeepsLog ==
  ASSUME NEW cs \in Seq(Glyphs), LogInv, Put(cs), printed' \in 0 .. MaxPrinted,
         put' = [put EXCEPT !.torn = put.at \in {"store", "move"}, !.disturbed = put.at /= "rest"],
         UNCHANGED <<printing, settled>>
  PROVE  LogInv'
<1>1. LogTypeOK
  BY DEF LogInv
<1>2. PICK text \in Seq(Glyphs) :
        /\ LogChars(text) /\ at_line_start' \in BOOLEAN
        /\ Stamped(logged, at_line_start, settled) => Stamped(logged \o text, at_line_start', settled)
  BY <1>1, PutIsText
<1>3. /\ logged \in Seq(Glyphs) /\ settled \in 0 .. Len(logged) /\ IsPut(put)
      /\ put.at # "rest" => printing # <<>>
      /\ DOMAIN kernel_log_buffer = 0 .. LOG_BUFFER_SIZE - 1 /\ log_ptr \in 0 .. LOG_BUFFER_SIZE - 1
  BY <1>1 DEF LogTypeOK
<1>4. /\ logged' = logged \o text /\ logged' \in Seq(Glyphs) /\ settled' \in 0 .. Len(logged')
  BY <1>2, <1>3 DEF LogChars
<1>5. /\ DOMAIN kernel_log_buffer' = 0 .. LOG_BUFFER_SIZE - 1 /\ log_ptr' \in DOMAIN kernel_log_buffer'
  <2>1. log_ptr' = Cell(log_ptr + Len(text)) /\ log_ptr + Len(text) \in Int
    BY <1>2, <1>3, LogConstants DEF LogChars, Cell
  <2>2. log_ptr' \in 0 .. LOG_BUFFER_SIZE - 1
    BY <2>1, CellInRing
  <2>3. DOMAIN kernel_log_buffer' = DOMAIN kernel_log_buffer
    BY <1>2 DEF LogChars
  <2>4. QED BY <2>2, <2>3, <1>3
<1>6. /\ put'.at = put.at /\ put'.todo = put.todo /\ put'.reg = put.reg
      /\ put'.torn = (put.at \in {"store", "move"}) /\ put'.disturbed = (put.at # "rest")
      /\ put' \in [at : {"rest", "load", "store", "move", "stamped", "end"}, todo : Seq(Glyphs),
                   reg : 0 .. LOG_BUFFER_SIZE - 1, torn : BOOLEAN, disturbed : BOOLEAN]
  <2>1. put \in [at : {"rest", "load", "store", "move", "stamped", "end"}, todo : Seq(Glyphs),
                 reg : 0 .. LOG_BUFFER_SIZE - 1, torn : BOOLEAN, disturbed : BOOLEAN]
    BY <1>3 DEF IsPut
  <2> DEFINE torn == put.at \in {"store", "move"}
             disturbed == put.at # "rest"
  <2>2. put' = [put EXCEPT !.torn = torn, !.disturbed = disturbed] /\ torn \in BOOLEAN /\ disturbed \in BOOLEAN
    OBVIOUS
  <2> HIDE DEF torn, disturbed
  <2>3. /\ put'.at = put.at /\ put'.todo = put.todo /\ put'.reg = put.reg
        /\ put'.torn = torn /\ put'.disturbed = disturbed
        /\ put' \in [at : {"rest", "load", "store", "move", "stamped", "end"}, todo : Seq(Glyphs),
                     reg : 0 .. LOG_BUFFER_SIZE - 1, torn : BOOLEAN, disturbed : BOOLEAN]
    BY <2>1, <2>2
  <2>4. QED BY <2>3 DEF torn, disturbed
<1>7. IsPut(put')
  <2>1. put.at = "rest" => put' = NotPutting
    <3> SUFFICES ASSUME put.at = "rest" PROVE put' = NotPutting
      OBVIOUS
    <3>1. put = NotPutting /\ put'.torn = FALSE /\ put'.disturbed = FALSE
      BY <1>3, <1>6 DEF IsPut
    <3>2. put'.at = "rest" /\ put'.todo = <<>> /\ put'.reg = 0
      BY <3>1, <1>6 DEF NotPutting
    <3>3. put' = [at |-> put'.at, todo |-> put'.todo, reg |-> put'.reg,
                  torn |-> put'.torn, disturbed |-> put'.disturbed]
      BY <1>6
    <3>4. put' = [at |-> "rest", todo |-> <<>>, reg |-> 0, torn |-> FALSE, disturbed |-> FALSE]
      BY <3>1, <3>2, <3>3
    <3>5. QED BY <3>4 DEF NotPutting
  <2>2. QED BY <1>3, <1>6, <2>1 DEF IsPut, NotPutting
<1>8. LogTypeOK'
  <2>1. printing' \in Seq(Glyphs) /\ (put'.at # "rest" => printing' # <<>>)
    BY <1>1, <1>6 DEF LogTypeOK
  <2>2. QED BY <1>2, <1>4, <1>5, <1>7, <2>1 DEF LogTypeOK
<1>9. TodoKnown'
  BY <1>6 DEF TodoKnown, LogInv
<1>10. put'.torn \/ (RingHolds' /\ CharAsItWas')
  <2> SUFFICES ASSUME put.at \notin {"store", "move"} PROVE RingHolds' /\ CharAsItWas'
    BY <1>6
  <2>1. ~put.torn
    BY <1>3 DEF IsPut
  <2>2. PICK b \in Nat : RingFrom(b, FALSE)
    <3>1. RingHolds
      BY <2>1 DEF LogInv
    <3>2. PICK b \in Nat : RingFrom(b, put.at = "move")
      BY <3>1 DEF RingHolds
    <3>3. QED BY <3>2 DEF RingFrom
  <2>3. RingFrom(b, FALSE)'
    BY <1>2, <1>3, <2>2, LogCharsFillRing
  <2>4. RingFrom(b, put.at = "move")'
    BY <2>3, <1>6 DEF RingFrom
  <2>5. QED BY <2>4, <1>6 DEF RingHolds, CharAsItWas
<1>11. put'.disturbed \/ LinesStamped'
  <2> SUFFICES ASSUME put.at = "rest" PROVE LinesStamped'
    BY <1>6
  <2>1. put = NotPutting
    BY <1>3 DEF IsPut
  <2>2. Stamped(logged, at_line_start, settled)
    BY <2>1 DEF LogInv, LinesStamped, NotPutting
  <2>3. Stamped(logged', at_line_start', settled')
    BY <2>2, <1>2, <1>4
  <2>4. QED BY <2>3, <1>6 DEF LinesStamped
<1>12. QED BY <1>8, <1>9, <1>10, <1>11 DEF LogInv

\* One log_char of the boot thread, from the store to the move
LEMMA StoreKeepsLog == ASSUME LogInv, LogStore PROVE LogInv'
<1> DEFINE n == LOG_BUFFER_SIZE
<1>1. /\ LogTypeOK /\ TodoKnown /\ IsPut(put) /\ put.at = "store"
      /\ n \in Nat \ {0} /\ Len(logged) \in Nat /\ log_ptr \in 0 .. n - 1
      /\ DOMAIN kernel_log_buffer = 0 .. n - 1
  BY LogConstants DEF LogInv, LogTypeOK, LogStore
<1>2. /\ put' = [put EXCEPT !.at = "move"]
      /\ put'.at = "move" /\ put'.todo = put.todo /\ put'.reg = put.reg
      /\ put'.torn = put.torn /\ put'.disturbed = put.disturbed
  BY <1>1 DEF LogStore, IsPut
<1>3. IsPut(put')
  BY <1>1, <1>2 DEF IsPut, NotPutting
<1>4. /\ kernel_log_buffer' = [kernel_log_buffer EXCEPT ![put.reg] = Head(put.todo)]
      /\ UNCHANGED <<log_ptr, at_line_start, printing, logged, settled, printed>>
  BY DEF LogStore
<1>5. LogTypeOK'
  BY <1>1, <1>2, <1>3, <1>4 DEF LogTypeOK
<1>6. TodoKnown'
  BY <1>1, <1>2, <1>4 DEF TodoKnown
<1>7. put'.disturbed \/ LinesStamped'
  BY <1>1, <1>2, <1>4 DEF LogInv, LinesStamped
<1>8. ASSUME ~put.torn PROVE RingHolds' /\ CharAsItWas'
  <2>1. put.reg = log_ptr /\ RingHolds
    BY <1>1, <1>8 DEF LogInv, CharAsItWas
  <2>2. PICK b \in Nat : RingFrom(b, FALSE)
    BY <2>1, <1>1 DEF RingHolds
  <2> DEFINE m == Len(logged)
  <2>3. log_ptr = Cell(b + m)
    BY <2>2 DEF RingFrom
  <2>4. ASSUME NEW x \in Nat, x < m, m < x + n
        PROVE  kernel_log_buffer'[Cell(b + x)] = logged[x + 1]
    <3>1. b + x \in Int /\ b + m \in Int /\ b + x < b + m /\ b + m < b + x + n /\ m <= x + n
      BY <1>1, <2>4
    <3>2. Cell(b + x) # Cell(b + m) /\ Cell(b + x) \in 0 .. n - 1
      BY <3>1, CellsApart, CellInRing
    <3>3. kernel_log_buffer[Cell(b + x)] = logged[x + 1]
      BY <3>1, <2>2, <2>4 DEF RingFrom
    <3>4. QED BY <3>2, <3>3, <2>1, <2>3, <1>1, <1>4
  <2>5. RingFrom(b, TRUE)'
    BY <1>1, <1>4, <2>3, <2>4 DEF RingFrom
  <2>6. RingHolds'
    BY <2>5, <1>2 DEF RingHolds
  <2>7. kernel_log_buffer'[log_ptr] = Head(put.todo)
    BY <1>1, <1>4, <2>1
  <2>8. QED BY <2>1, <2>6, <2>7, <1>2, <1>4 DEF CharAsItWas
<1>9. QED BY <1>2, <1>5, <1>6, <1>7, <1>8 DEF LogInv

LEMMA MoveKeepsRing ==
  ASSUME LogInv, ~put.torn, LogMove PROVE RingHolds' /\ CharAsItWas'
<1> DEFINE n == LOG_BUFFER_SIZE
           m == Len(logged)
<1>1. /\ IsPut(put) /\ put.at = "move" /\ put.todo \in Seq(Glyphs) /\ put.todo # <<>>
      /\ n \in Nat \ {0} /\ logged \in Seq(Glyphs) /\ m \in Nat
      /\ DOMAIN kernel_log_buffer = 0 .. n - 1
      /\ put.reg = log_ptr /\ kernel_log_buffer[log_ptr] = Head(put.todo) /\ RingHolds
  BY LogConstants DEF LogInv, LogTypeOK, LogMove, IsPut, CharAsItWas
<1>2. PICK b \in Nat : RingFrom(b, TRUE)
  BY <1>1 DEF RingHolds
<1>3. log_ptr = Cell(b + m)
  BY <1>2 DEF RingFrom
<1>4. /\ log_ptr' = (log_ptr + 1) % n /\ kernel_log_buffer' = kernel_log_buffer
      /\ logged' = Append(logged, Head(put.todo))
  BY <1>1 DEF LogMove
<1>5. Len(logged') = m + 1 /\ logged'[m + 1] = Head(put.todo) /\ \A x \in 1 .. m : logged'[x] = logged[x]
  BY <1>1, <1>4
<1>6. log_ptr' = Cell(b + Len(logged'))
  <2>1. (Cell(b + m) + 1) % n = Cell(b + m + 1) /\ b + m + 1 = b + Len(logged')
    BY <1>1, <1>5, CellOfSum
  <2>2. QED BY <2>1, <1>3, <1>4
<1>7. ASSUME NEW x \in Nat, x < m + 1, m + 1 <= x + n
      PROVE  kernel_log_buffer'[Cell(b + x)] = logged'[x + 1]
  <2>1. CASE x = m
    BY <2>1, <1>1, <1>3, <1>4, <1>5
  <2>2. CASE x < m
    <3>1. m <= x + n /\ m < x + n /\ x + 1 \in 1 .. m
      BY <2>2, <1>1, <1>7
    <3>2. kernel_log_buffer[Cell(b + x)] = logged[x + 1]
      BY <3>1, <2>2, <1>2 DEF RingFrom
    <3>3. QED BY <3>1, <3>2, <1>4, <1>5
  <2>3. QED BY <2>1, <2>2, <1>1, <1>7
<1>8. RingFrom(b, FALSE)'
  BY <1>1, <1>4, <1>5, <1>6, <1>7 DEF RingFrom
<1>9. put'.at \notin {"store", "move"}
  BY <1>1 DEF LogMove, IsPut
<1>10. QED BY <1>8, <1>9 DEF RingHolds, RingFrom, CharAsItWas

LEMMA HeadAndTail ==
  ASSUME NEW a \in Seq(Glyphs), NEW d \in Seq(Glyphs), d # <<>>
  PROVE  Append(a, Head(d)) \o Tail(d) = a \o d
<1> DEFINE h == Head(d)
           t == Tail(d)
           one == <<h>>
<1>1. h \in Glyphs /\ t \in Seq(Glyphs)
  OBVIOUS
<1>2. one \in Seq(Glyphs) /\ d = one \o t /\ Append(a, h) = a \o one
  <2>1. d = <<Head(d)>> \o Tail(d)
    OBVIOUS
  <2> HIDE DEF h
  <2>2. one \in Seq(Glyphs) /\ Append(a, h) = a \o one
    BY <1>1
  <2>3. QED BY <2>1, <2>2 DEF h
<1> HIDE DEF h, t, one
<1>3. (a \o one) \o t = a \o (one \o t)
  BY <1>1, <1>2, GlyphsJoin, Zenon
<1>4. QED BY <1>2, <1>3 DEF h, t

LEMMA AboveOne == ASSUME NEW k \in Nat \ {0}, k # 1 PROVE k > 1 /\ k - 1 # 0
OBVIOUS

LEMMA MoveKeepsLog == ASSUME LogInv, LogMove PROVE LogInv'
<1> DEFINE n == LOG_BUFFER_SIZE
           goal == CASE Len(put.todo) = 1 -> "end" [] Len(put.todo) = 2 -> "stamped" [] OTHER -> "load"
<1>1. /\ LogTypeOK /\ TodoKnown /\ IsPut(put) /\ put.at = "move"
      /\ n \in Nat \ {0} /\ logged \in Seq(Glyphs) /\ log_ptr \in 0 .. n - 1 /\ settled \in 0 .. Len(logged)
      /\ DOMAIN kernel_log_buffer = 0 .. n - 1 /\ put.reg \in 0 .. n - 1
      /\ put.todo \in Seq(Glyphs) /\ put.todo # <<>> /\ printing # <<>>
  BY LogConstants DEF LogInv, LogTypeOK, LogMove, IsPut
<1>2. /\ Head(put.todo) \in Glyphs /\ Tail(put.todo) \in Seq(Glyphs)
      /\ Len(Tail(put.todo)) = Len(put.todo) - 1 /\ Len(put.todo) \in Nat \ {0}
  BY <1>1
<1>3. /\ put' = [put EXCEPT !.at = goal, !.todo = Tail(put.todo), !.reg = 0, !.torn = FALSE]
      /\ UNCHANGED <<kernel_log_buffer, at_line_start, printing, printed>>
  BY DEF LogMove
<1>4. goal \in {"end", "stamped", "load"}
  OBVIOUS
<1> HIDE DEF goal
<1>5. /\ put'.at = goal /\ put'.todo = Tail(put.todo) /\ put'.reg = 0
      /\ put'.torn = FALSE /\ put'.disturbed = put.disturbed
  BY <1>1, <1>3 DEF IsPut
<1>6. /\ goal = "end" => Tail(put.todo) = <<>>
      /\ goal # "end" => Tail(put.todo) # <<>> /\ Len(put.todo) > 1
  <2>0. PICK rest \in Seq(Glyphs) : rest = Tail(put.todo)
    BY <1>2
  <2>1. CASE Len(put.todo) = 1
    <3>1. goal = "end"
      BY <2>1 DEF goal
    <3>2. Len(rest) = 0
      BY <2>0, <2>1, <1>2
    <3>3. rest = <<>>
      BY <3>2
    <3>4. QED BY <3>1, <3>3, <2>0
  <2>2. CASE Len(put.todo) # 1
    <3>1. goal # "end"
      BY <2>2 DEF goal
    <3>2. Len(rest) # 0 /\ Len(put.todo) > 1
      <4>1. PICK k \in Nat \ {0} : k = Len(put.todo)
        BY <1>2
      <4>2. k # 1 /\ Len(rest) = k - 1
        <5>1. Len(rest) = Len(put.todo) - 1 /\ k # 1
          BY <4>1, <2>0, <2>2, <1>2, Zenon
        <5>2. QED BY <4>1, <5>1, Zenon
      <4>3. k > 1 /\ k - 1 # 0
        BY <4>2, AboveOne
      <4>4. QED BY <4>1, <4>2, <4>3, Zenon
    <3>3. rest # <<>>
      BY <3>2
    <3>4. QED BY <3>1, <3>2, <3>3, <2>0
  <2>3. QED BY <2>1, <2>2
<1>7. IsPut(put')
  <2>1. 0 \in 0 .. n - 1
    BY <1>1
  <2>2. put' \in [at : {"rest", "load", "store", "move", "stamped", "end"}, todo : Seq(Glyphs),
                  reg : 0 .. n - 1, torn : BOOLEAN, disturbed : BOOLEAN]
    BY <2>1, <1>1, <1>2, <1>3, <1>4 DEF IsPut
  <2>3. put'.at # "rest" /\ put' # NotPutting
    BY <1>4, <1>5 DEF NotPutting
  <2>4. QED BY <2>2, <2>3, <1>4, <1>5, <1>6 DEF IsPut
<1>8. logged' \in Seq(Glyphs) /\ settled' \in 0 .. Len(logged')
  <2>1. CASE put.torn
    BY <2>1 DEF LogMove
  <2>2. CASE ~put.torn
    <3>1. logged' = Append(logged, Head(put.todo)) /\ settled' = settled
      BY <2>2 DEF LogMove
    <3>2. QED BY <3>1, <1>1, <1>2
  <2>3. QED BY <2>1, <2>2
<1>9. log_ptr' \in 0 .. n - 1
  <2>1. log_ptr' = Cell(put.reg + 1) \/ log_ptr' = Cell(log_ptr + 1)
    BY DEF LogMove, Cell
  <2>2. put.reg + 1 \in Int /\ log_ptr + 1 \in Int
    BY <1>1
  <2>3. QED BY <2>1, <2>2, CellInRing
<1>10. LogTypeOK'
  BY <1>1, <1>3, <1>7, <1>8, <1>9 DEF LogTypeOK
<1>11. TodoKnown'
  BY <1>1, <1>2, <1>3, <1>4, <1>5, <1>6 DEF TodoKnown
<1>12. RingHolds' /\ CharAsItWas'
  <2>1. CASE put.torn
    <3>1. logged' = <<>> /\ DOMAIN kernel_log_buffer' = 0 .. n - 1
      BY <2>1, <1>1, <1>3 DEF LogMove
    <3>2. RingHolds'
      <4>1. log_ptr' \in Nat /\ Len(logged') = 0 /\ log_ptr' + 0 = log_ptr' /\ Cell(log_ptr') = log_ptr'
        <5>1. \A x \in 0 .. n - 1 : Cell(x) = x
          BY CellOfCell
        <5>2. Cell(log_ptr') = log_ptr'
          BY <1>9, <5>1
        <5>3. log_ptr' \in Nat /\ log_ptr' + 0 = log_ptr'
          BY <1>1, <1>9
        <5>4. Len(logged') = 0
          BY <3>1
        <5>5. QED BY <5>2, <5>3, <5>4
      <4>2. RingFrom(log_ptr, put.at = "move")'
        BY <4>1, <3>1 DEF RingFrom
      <4>3. QED BY <4>1, <4>2 DEF RingHolds
    <3>3. QED BY <3>2, <1>4, <1>5 DEF CharAsItWas
  <2>2. QED BY <2>1, MoveKeepsRing
<1>13. put'.disturbed \/ LinesStamped'
  <2> SUFFICES ASSUME ~put.disturbed PROVE LinesStamped'
    BY <1>5
  <2>1. ~put.torn
    BY <1>1 DEF IsPut
  <2>2. logged' = Append(logged, Head(put.todo)) /\ settled' = settled
    BY <2>1 DEF LogMove
  <2>3. logged' \o put'.todo = logged \o put.todo
    BY <2>2, <1>1, <1>5, HeadAndTail
  <2>4. Stamped(logged \o put.todo, LineStarts(Head(printing), at_line_start), settled)
    BY <1>1 DEF LogInv, LinesStamped
  <2>5. Stamped(logged' \o put'.todo, LineStarts(Head(printing), at_line_start), settled)
    BY <2>3, <2>4
  <2>6. QED BY <2>2, <2>5, <1>3, <1>4, <1>5 DEF LinesStamped
<1>14. QED BY <1>10, <1>11, <1>12, <1>13 DEF LogInv

\* __putchar begins, and goes on after the stamp and after the character
LEMMA BeginKeepsLog == ASSUME LogInv, PutBegins PROVE LogInv'
<1> DEFINE c == Head(printing)
           todo == Logged(c, at_line_start)
<1>1. /\ LogTypeOK /\ put.at = "rest" /\ put = NotPutting /\ printing \in Seq(Glyphs) /\ printing # <<>>
      /\ logged \in Seq(Glyphs) /\ at_line_start \in BOOLEAN /\ settled \in 0 .. Len(logged)
      /\ RingHolds /\ LinesStamped
  BY DEF LogInv, LogTypeOK, IsPut, PutBegins, NotPutting
<1>2. c \in Glyphs /\ todo \in Seq(Glyphs)
  BY <1>1, LoggedIsText
<1>3. /\ put' = [NotPutting EXCEPT !.at = "load", !.todo = todo]
      /\ UNCHANGED <<kernel_log_buffer, log_ptr, at_line_start, printing, logged, settled, printed>>
  BY DEF PutBegins
<1>4. todo # <<>> /\ (Len(todo) > 1 => c # "CR")
  <2>1. CASE at_line_start /\ c \notin {"LF", "CR", "ESC"}
    <3>1. todo = Stamp \o <<c>>
      BY <2>1 DEF Logged
    <3>2. Stamp \o <<c>> # <<>>
      BY DEF Stamp
    <3>3. QED BY <3>1, <3>2, <2>1
  <2>2. CASE ~(at_line_start /\ c \notin {"LF", "CR", "ESC"})
    <3>1. todo = <<c>>
      BY <2>2 DEF Logged
    <3> HIDE DEF todo
    <3>2. QED BY <3>1
  <2>3. QED BY <2>1, <2>2
<1>5. Stamped(logged \o todo, LineStarts(c, at_line_start), settled)
  <2>1. Stamped(logged, at_line_start, settled)
    BY <1>1 DEF LinesStamped
  <2>2. QED BY <2>1, <1>1, <1>2, OneMoreStamped
<1> HIDE DEF todo
<1>6. /\ put'.at = "load" /\ put'.todo = todo /\ put'.reg = 0 /\ put'.torn = FALSE /\ put'.disturbed = FALSE
  BY <1>3 DEF NotPutting
<1>7. IsPut(put')
  <2>1. 0 \in 0 .. LOG_BUFFER_SIZE - 1
    BY LogConstants
  <2>2. put' \in [at : {"rest", "load", "store", "move", "stamped", "end"}, todo : Seq(Glyphs),
                  reg : 0 .. LOG_BUFFER_SIZE - 1, torn : BOOLEAN, disturbed : BOOLEAN]
    BY <2>1, <1>2, <1>3 DEF NotPutting
  <2>3. QED BY <2>2, <1>4, <1>6 DEF IsPut, NotPutting
<1>8. LogTypeOK'
  BY <1>1, <1>3, <1>7 DEF LogTypeOK
<1>9. TodoKnown'
  BY <1>3, <1>4, <1>6 DEF TodoKnown
<1>10. RingHolds' /\ CharAsItWas'
  BY <1>1, <1>3, <1>6 DEF RingHolds, RingFrom, CharAsItWas
<1>11. LinesStamped'
  BY <1>3, <1>5, <1>6 DEF LinesStamped
<1>12. QED BY <1>8, <1>9, <1>10, <1>11 DEF LogInv

LEMMA LoadKeepsLog == ASSUME LogInv, LogLoad PROVE LogInv'
<1>1. /\ LogTypeOK /\ TodoKnown /\ IsPut(put) /\ put.at = "load" /\ RingHolds
      /\ log_ptr \in 0 .. LOG_BUFFER_SIZE - 1 /\ ~put.torn
  BY DEF LogInv, LogTypeOK, LogLoad, IsPut
<1>2. /\ put' = [put EXCEPT !.at = "store", !.reg = log_ptr]
      /\ UNCHANGED <<kernel_log_buffer, log_ptr, at_line_start, printing, logged, settled, printed>>
  BY DEF LogLoad
<1>3. /\ put'.at = "store" /\ put'.todo = put.todo /\ put'.reg = log_ptr
      /\ put'.torn = put.torn /\ put'.disturbed = put.disturbed
  BY <1>1, <1>2 DEF IsPut
<1>4. IsPut(put')
  BY <1>1, <1>2, <1>3 DEF IsPut, NotPutting
<1>5. LogTypeOK'
  BY <1>1, <1>2, <1>3, <1>4 DEF LogTypeOK
<1>6. TodoKnown' /\ CharAsItWas'
  BY <1>1, <1>2, <1>3 DEF TodoKnown, CharAsItWas
<1>7. RingHolds'
  BY <1>1, <1>2, <1>3 DEF RingHolds, RingFrom
<1>8. put'.disturbed \/ LinesStamped'
  BY <1>1, <1>2, <1>3 DEF LogInv, LinesStamped
<1>9. QED BY <1>5, <1>6, <1>7, <1>8 DEF LogInv

LEMMA StampKeepsLog == ASSUME LogInv, StampDone PROVE LogInv'
<1>1. /\ LogTypeOK /\ TodoKnown /\ IsPut(put) /\ put.at = "stamped" /\ RingHolds
      /\ ~put.torn /\ Head(printing) # "CR"
  BY DEF LogInv, LogTypeOK, StampDone, IsPut, TodoKnown
<1>2. /\ put' = [put EXCEPT !.at = "load"] /\ at_line_start' = FALSE
      /\ UNCHANGED <<kernel_log_buffer, log_ptr, printing, logged, settled, printed>>
  BY DEF StampDone
<1>3. /\ put'.at = "load" /\ put'.todo = put.todo /\ put'.reg = put.reg
      /\ put'.torn = put.torn /\ put'.disturbed = put.disturbed
  BY <1>1, <1>2 DEF IsPut
<1>4. IsPut(put')
  BY <1>1, <1>2, <1>3 DEF IsPut, NotPutting
<1>5. LogTypeOK'
  BY <1>1, <1>2, <1>3, <1>4 DEF LogTypeOK
<1>6. TodoKnown' /\ CharAsItWas'
  BY <1>1, <1>2, <1>3 DEF TodoKnown, CharAsItWas
<1>7. RingHolds'
  BY <1>1, <1>2, <1>3 DEF RingHolds, RingFrom
<1>8. put'.disturbed \/ LinesStamped'
  <2>1. LineStarts(Head(printing), FALSE) = LineStarts(Head(printing), at_line_start)
    BY <1>1 DEF LineStarts
  <2>2. QED BY <2>1, <1>1, <1>2, <1>3 DEF LogInv, LinesStamped
<1>9. QED BY <1>5, <1>6, <1>7, <1>8 DEF LogInv

LEMMA DoneKeepsLog == ASSUME LogInv, PutDone PROVE LogInv'
<1>1. /\ LogTypeOK /\ TodoKnown /\ IsPut(put) /\ put.at = "end" /\ RingHolds /\ put.todo = <<>>
      /\ ~put.torn /\ printing \in Seq(Glyphs) /\ printing # <<>>
      /\ logged \in Seq(Glyphs) /\ settled \in 0 .. Len(logged)
  BY DEF LogInv, LogTypeOK, PutDone, IsPut, TodoKnown
<1>2. /\ put' = NotPutting /\ at_line_start' = LineStarts(Head(printing), at_line_start)
      /\ printing' = Tail(printing) /\ settled' = IF put.disturbed THEN Len(logged) ELSE settled
      /\ UNCHANGED <<kernel_log_buffer, log_ptr, logged, printed>>
  BY DEF PutDone
<1>3. /\ put'.at = "rest" /\ put'.todo = <<>> /\ put'.torn = FALSE /\ put'.disturbed = FALSE
  BY <1>2 DEF NotPutting
<1>4. IsPut(put')
  <2>1. 0 \in 0 .. LOG_BUFFER_SIZE - 1
    BY LogConstants
  <2>2. put' \in [at : {"rest", "load", "store", "move", "stamped", "end"}, todo : Seq(Glyphs),
                  reg : 0 .. LOG_BUFFER_SIZE - 1, torn : BOOLEAN, disturbed : BOOLEAN]
    BY <2>1, <1>2 DEF NotPutting
  <2>3. QED BY <2>2, <1>2, <1>3 DEF IsPut
<1>5. Tail(printing) \in Seq(Glyphs) /\ at_line_start' \in BOOLEAN /\ settled' \in 0 .. Len(logged')
  BY <1>1, <1>2 DEF LineStarts
<1>6. LogTypeOK'
  BY <1>1, <1>2, <1>3, <1>4, <1>5 DEF LogTypeOK
<1>7. TodoKnown' /\ CharAsItWas'
  <2>1. Len(put'.todo) = 0
    BY <1>3
  <2>2. QED BY <2>1, <1>3 DEF TodoKnown, CharAsItWas
<1>8. RingHolds'
  BY <1>1, <1>2, <1>3 DEF RingHolds, RingFrom
<1>9. LinesStamped'
  <2>1. CASE put.disturbed
    <3>1. Stamped(logged, at_line_start', Len(logged))
      BY <1>1 DEF Stamped
    <3>2. QED BY <2>1, <3>1, <1>2, <1>3 DEF LinesStamped
  <2>2. CASE ~put.disturbed
    <3>1. logged \o put.todo = logged
      BY <1>1
    <3>2. Stamped(logged, at_line_start', settled)
      BY <2>2, <3>1, <1>1, <1>2 DEF LogInv, LinesStamped
    <3>3. QED BY <2>2, <3>2, <1>2, <1>3 DEF LinesStamped
  <2>3. QED BY <2>1, <2>2
<1>10. QED BY <1>6, <1>7, <1>8, <1>9 DEF LogInv

LEMMA LogInvStep == LogInv /\ [LogNext]_logVars => LogInv'
<1> SUFFICES ASSUME LogInv, [LogNext]_logVars PROVE LogInv'
  OBVIOUS
<1>1. ASSUME UNCHANGED <<kernel_log_buffer, log_ptr, at_line_start, put, logged, settled>>,
             printed' \in 0 .. MaxPrinted,
             (put.at = "rest" /\ printing' \in Seq(Glyphs)) \/ printing' = printing
      PROVE  LogInv'
  <2>1. LogTypeOK' /\ TodoKnown'
    BY <1>1 DEF LogInv, LogTypeOK, TodoKnown, IsPut, NotPutting
  <2>2. put'.torn \/ (RingHolds' /\ CharAsItWas')
    BY <1>1 DEF LogInv, RingHolds, RingFrom, CharAsItWas
  <2>3. put'.disturbed \/ LinesStamped'
    BY <1>1 DEF LogInv, LinesStamped
  <2>4. QED BY <2>1, <2>2, <2>3 DEF LogInv
<1>2. MaxPrinted \in 0 .. MaxPrinted /\ (printed < MaxPrinted => printed + 1 \in 0 .. MaxPrinted)
      /\ printed \in 0 .. MaxPrinted
  BY KernelLogAssumption DEF LogInv, LogTypeOK
<1>3. ASSUME NEW fmt \in Messages, NEW l \in Levels, StartPrintk(fmt, l) PROVE LogInv'
  <2>1. VPrintk(fmt) \in Seq(Glyphs)
    BY MessageIsText, KernelLogAssumption
  <2>2. printing' \in Seq(Glyphs)
    BY <1>3, <2>1 DEF StartPrintk
  <2>3. QED BY <1>1, <1>2, <1>3, <2>2 DEF StartPrintk
<1>4. ASSUME NEW fmt \in Messages, NEW l \in Levels, PrintkInIrq(fmt, l) PROVE LogInv'
  <2>1. VPrintk(fmt) \in Seq(Glyphs)
    BY MessageIsText, KernelLogAssumption
  <2>2. QED BY <1>2, <1>4, <2>1, IrqKeepsLog DEF PrintkInIrq
<1>5. ASSUME NEW fmt \in Formats, Sprintf(fmt) PROVE LogInv'
  BY <1>1, <1>2, <1>5 DEF Sprintf
<1>6. CASE UNCHANGED logVars
  BY <1>1, <1>2, <1>6 DEF logVars
<1>7. QED BY <1>3, <1>4, <1>5, <1>6, BeginKeepsLog, LoadKeepsLog, StoreKeepsLog, MoveKeepsLog,
             StampKeepsLog, DoneKeepsLog DEF LogNext

(* Whatever the boot thread and the handlers do, what is known of the ring stays. *)
THEOREM LogInvariant == LogSpec => []LogInv
BY LogInvInit, LogInvStep, PTL DEF LogSpec

(* The ring that dmesg reads has the end of all that was logged, in order,     *)
(* whether the boot thread or a handler printed it, with an interrupt possible *)
(* between any two steps of __putchar and log_char: a handler inside log_char   *)
(* (printk.c:79-80) damages the ring until that log_char returns, and nothing   *)
(* that is logged later; lines have their stamps from the first undisturbed one. *)
THEOREM RingHoldsTheTail == LogSpec => []LogIsTail
<1>1. LogInv => LogIsTail
  <2> SUFFICES ASSUME LogInv PROVE LogIsTail
    OBVIOUS
  <2> DEFINE n == LOG_BUFFER_SIZE
             m == Len(logged)
  <2>1. n \in Nat \ {0} /\ m \in Nat /\ logged \in Seq(Glyphs) /\ settled \in 0 .. m /\ IsPut(put)
    BY LogConstants DEF LogInv, LogTypeOK
  <2>2. ASSUME ~put.torn, NEW k \in 1 .. n, k <= m, put.at = "move" => k < n
        PROVE  kernel_log_buffer[(log_ptr - k) % n] = logged[m - k + 1]
    <3>1. m - k \in Nat /\ m - k < m /\ m <= (m - k) + n /\ (put.at = "move" => m < (m - k) + n)
      BY <2>1, <2>2
    <3>2. PICK b \in Nat : RingFrom(b, put.at = "move")
      BY <2>2 DEF LogInv, RingHolds
    <3>3. kernel_log_buffer[Cell(b + (m - k))] = logged[(m - k) + 1]
      BY <3>1, <3>2 DEF RingFrom
    <3>4. log_ptr = Cell(b + m) /\ Cell(b + m) \in Int
      BY <2>1, <3>2, CellInRing DEF RingFrom
    <3>5. (Cell(b + m) + (0 - k)) % n = Cell(b + m + (0 - k))
      BY <2>1, CellOfSum
    <3>6. Cell(b + m) + (0 - k) = log_ptr - k /\ b + m + (0 - k) = b + (m - k)
      BY <2>1, <3>4
    <3>7. QED BY <3>3, <3>5, <3>6
  <2>3. ASSUME ~put.disturbed, NEW i \in DOMAIN logged, i > settled + 1, logged[i - 1] = "LF"
        PROVE  logged[i] \in {"[", "LF", "CR", "ESC"}
    <3>1. CASE put.at = "rest"
      BY <3>1, <2>3 DEF LogInv, LinesStamped, Stamped
    <3>2. CASE put.at # "rest"
      <4> DEFINE text == logged \o put.todo
      <4>1. put.todo \in Seq(Glyphs)
        BY <2>1 DEF IsPut
      <4>2. i \in DOMAIN text /\ text[i] = logged[i] /\ text[i - 1] = logged[i - 1]
        BY <4>1, <2>1, <2>3
      <4>3. Stamped(text, LineStarts(Head(printing), at_line_start), settled)
        BY <3>2, <2>3 DEF LogInv, LinesStamped
      <4> HIDE DEF text
      <4>4. QED BY <4>2, <4>3, <2>3 DEF Stamped
    <3>3. QED BY <3>1, <3>2
  <2>4. ASSUME put.at = "rest", at_line_start
        PROVE  m = settled \/ logged[m] \in {"LF", "CR"}
    <3>1. ~put.disturbed
      BY <2>1, <2>4 DEF IsPut, NotPutting
    <3>2. QED BY <3>1, <2>4 DEF LogInv, LinesStamped, Stamped
  <2>5. QED BY <2>2, <2>3, <2>4 DEF LogIsTail
<1>2. QED
  BY <1>1, LogInvariant, PTL

-----------------------------------------------------------------------------
(* Slab caches *)

Slab == [s_mem : Nat, free_bitmap : SUBSET Bits, objects_free : Nat]

\* The count of a slab is what its bitmap says, of the objects its cache has in one
Counted(c, s) ==
  /\ s \in Slab /\ s.free_bitmap \subseteq 0 .. (MaxObjs(c) - 1)
  /\ s.objects_free = MaxObjs(c) - Cardinality(s.free_bitmap)

\* The slabs of a list are different pages
Alone(q) == \A k, l \in DOMAIN q : q[k].s_mem = q[l].s_mem => k = l

\* No slab of the lists P and F is page m
Unlisted(P, F, m) == \A c \in Caches : \A s \in ToSet(P[c]) \union ToSet(F[c]) : s.s_mem # m

\* P and F as partial and full lists, on the first pages
ListsApart(P, F, taken) ==
  /\ P \in [Caches -> Seq(Slab)] /\ F \in [Caches -> Seq(Slab)]
  /\ \A c \in Caches : Alone(P[c]) /\ Alone(F[c])
  /\ \A c \in Caches : \A s \in ToSet(P[c]) : Counted(c, s) /\ s.objects_free # 0 /\ s.s_mem < taken
  /\ \A c \in Caches : \A s \in ToSet(F[c]) : Counted(c, s) /\ s.objects_free = 0 /\ s.s_mem < taken
  /\ \A c, d \in Caches : \A s \in ToSet(P[c]), t \in ToSet(F[d]) : s.s_mem # t.s_mem
  /\ \A c, d \in Caches : c # d =>
       \A s \in ToSet(P[c]), t \in ToSet(P[d]) : s.s_mem # t.s_mem
  /\ \A c, d \in Caches : c # d =>
       \A s \in ToSet(F[c]), t \in ToSet(F[d]) : s.s_mem # t.s_mem

\* What a client holds is marked in a slab of its cache, other than m
Marked(P, F, o) ==
  /\ o \in Caches \X Nat \X Bits /\ o[3] < ObjsOfSize[o[1]]
  /\ \E s \in ToSet(P[o[1]]) \union ToSet(F[o[1]]) : s.s_mem = o[2] /\ o[3] \in s.free_bitmap

SlabInv ==
  /\ pagesUsed \in 0 .. SlabPages /\ cache_chain \in Seq(Caches)
  /\ ListsApart(slabs_partial, slabs_full, pagesUsed)
  /\ \A o \in heldObjects : Marked(slabs_partial, slabs_full, o)

LEMMA RangeIs == ASSUME NEW q, NEW x PROVE x \in ToSet(q) <=> \E k \in DOMAIN q : q[k] = x
BY DEF ToSet

LEMMA ListGrows ==
  ASSUME NEW q \in Seq(Slab), NEW s \in Slab, Alone(q), \A t \in ToSet(q) : t.s_mem # s.s_mem
  PROVE  /\ <<s>> \o q \in Seq(Slab) /\ Alone(<<s>> \o q)
         /\ ToSet(<<s>> \o q) = ToSet(q) \union {s}
<1> DEFINE r == <<s>> \o q
<1>1. r \in Seq(Slab) /\ Len(r) = Len(q) + 1 /\ r[1] = s /\ \A k \in 1 .. Len(q) : r[k + 1] = q[k]
  OBVIOUS
<1>2. DOMAIN r = 1 .. Len(q) + 1 /\ DOMAIN q = 1 .. Len(q) /\ Len(q) \in Nat
  BY <1>1
<1>3. \A k \in 2 .. Len(q) + 1 : r[k] = q[k - 1] /\ q[k - 1] \in ToSet(q)
  <2> TAKE k \in 2 .. Len(q) + 1
  <2>1. k - 1 \in 1 .. Len(q) /\ (k - 1) + 1 = k
    BY <1>2
  <2>2. r[k] = q[k - 1]
    <3> HIDE DEF r
    <3> QED BY <1>1, <2>1
  <2>3. QED BY <1>2, <2>1, <2>2, RangeIs
<1> HIDE DEF r
<1>4. Alone(r)
  <2> SUFFICES ASSUME NEW k \in DOMAIN r, NEW l \in DOMAIN r, r[k].s_mem = r[l].s_mem PROVE k = l
    BY DEF Alone
  <2>1. CASE k = 1 \/ l = 1
    BY <1>1, <1>2, <1>3, <2>1
  <2>2. CASE k # 1 /\ l # 1
    <3>1. k - 1 \in DOMAIN q /\ l - 1 \in DOMAIN q /\ q[k - 1].s_mem = q[l - 1].s_mem
      BY <1>2, <1>3, <2>2
    <3>2. k - 1 = l - 1
      BY <3>1 DEF Alone
    <3>3. QED BY <3>2, <1>2
  <2>3. QED BY <2>1, <2>2
<1>5. ToSet(r) = ToSet(q) \union {s}
  <2>1. ASSUME NEW x \in ToSet(r) PROVE x \in ToSet(q) \union {s}
    <3>1. PICK k \in DOMAIN r : r[k] = x
      BY RangeIs
    <3>2. QED BY <1>1, <1>2, <1>3, <3>1
  <2>2. ASSUME NEW x \in ToSet(q) PROVE x \in ToSet(r)
    <3>1. PICK k \in DOMAIN q : q[k] = x
      BY RangeIs
    <3>2. k + 1 \in DOMAIN r /\ r[k + 1] = x
      BY <1>1, <1>2, <3>1
    <3>3. QED BY <3>2, RangeIs
  <2>3. s \in ToSet(r)
    BY <1>1, <1>2, RangeIs
  <2>4. QED BY <2>1, <2>2, <2>3
<1>6. QED BY <1>1, <1>4, <1>5 DEF r

LEMMA ListShrinks ==
  ASSUME NEW q \in Seq(Slab), NEW k \in DOMAIN q, Alone(q)
  PROVE  /\ RemoveAt(q, k) \in Seq(Slab) /\ Alone(RemoveAt(q, k))
         /\ ToSet(RemoveAt(q, k)) = {t \in ToSet(q) : t.s_mem # q[k].s_mem}
<1> DEFINE r == RemoveAt(q, k)
           Src(i) == IF i < k THEN i ELSE i + 1
<1>1. k \in 1 .. Len(q) /\ Len(q) \in Nat /\ DOMAIN q = 1 .. Len(q)
  OBVIOUS
<1>2. r \in Seq(Slab) /\ Len(r) = Len(q) - 1 /\ \A i \in 1 .. Len(q) - 1 : r[i] = q[Src(i)]
  <2> DEFINE a == SubSeq(q, 1, k - 1)
             b == SubSeq(q, k + 1, Len(q))
  <2>1. a \in Seq(Slab) /\ Len(a) = k - 1 /\ \A i \in 1 .. k - 1 : a[i] = q[i]
    BY <1>1
  <2>2. b \in Seq(Slab) /\ Len(b) = Len(q) - k /\ \A i \in 1 .. Len(q) - k : b[i] = q[k + i]
    BY <1>1
  <2>3. r = a \o b
    BY DEF RemoveAt
  <2> HIDE DEF a, b, r
  <2>4. r \in Seq(Slab) /\ Len(r) = Len(a) + Len(b)
    BY <2>1, <2>2, <2>3, ConcatProperties
  <2>5. ASSUME NEW i \in 1 .. Len(q) - 1 PROVE r[i] = q[Src(i)]
    <3>1. CASE i < k
      BY <1>1, <2>1, <2>2, <2>3, <3>1
    <3>2. CASE i >= k
      <4>1. r[i] = b[i - (k - 1)] /\ i - (k - 1) \in 1 .. Len(q) - k
        BY <1>1, <2>1, <2>2, <2>3, <3>2
      <4>2. b[i - (k - 1)] = q[k + (i - (k - 1))] /\ k + (i - (k - 1)) = i + 1
        BY <1>1, <2>2, <4>1
      <4>3. QED BY <1>1, <3>2, <4>1, <4>2
    <3>3. QED BY <1>1, <3>1, <3>2
  <2>6. QED BY <1>1, <2>1, <2>2, <2>4, <2>5
<1>3. DOMAIN r = 1 .. Len(q) - 1
  BY <1>1, <1>2
<1> HIDE DEF r
<1>4. \A i \in DOMAIN r : Src(i) \in DOMAIN q /\ Src(i) # k
  BY <1>1, <1>3
<1>5. Alone(r)
  <2> SUFFICES ASSUME NEW i \in DOMAIN r, NEW l \in DOMAIN r, r[i].s_mem = r[l].s_mem PROVE i = l
    BY DEF Alone
  <2>1. Src(i) \in DOMAIN q /\ Src(l) \in DOMAIN q /\ q[Src(i)].s_mem = q[Src(l)].s_mem
    <3> HIDE DEF Src
    <3> QED BY <1>2, <1>3, <1>4
  <2>2. Src(i) = Src(l)
    <3> HIDE DEF Src
    <3> QED BY <2>1 DEF Alone
  <2>3. QED BY <1>1, <1>3, <2>2
<1>6. ToSet(r) = {t \in ToSet(q) : t.s_mem # q[k].s_mem}
  <2>1. ASSUME NEW x \in ToSet(r) PROVE x \in ToSet(q) /\ x.s_mem # q[k].s_mem
    <3>1. PICK i \in DOMAIN r : r[i] = x
      BY RangeIs
    <3> HIDE DEF Src
    <3>2. x = q[Src(i)] /\ Src(i) \in DOMAIN q /\ Src(i) # k
      BY <1>2, <1>3, <1>4, <3>1
    <3>3. QED BY <3>2, RangeIs DEF Alone
  <2>2. ASSUME NEW x \in ToSet(q), x.s_mem # q[k].s_mem PROVE x \in ToSet(r)
    <3>1. PICK i \in DOMAIN q : q[i] = x
      BY RangeIs
    <3>2. i # k
      BY <2>2, <3>1
    <3>3. PICK j \in DOMAIN r : Src(j) = i
      <4>1. CASE i < k
        <5>1. i \in DOMAIN r /\ Src(i) = i
          BY <1>1, <1>3, <4>1
        <5> HIDE DEF Src
        <5>2. QED BY <5>1
      <4>2. CASE i > k
        <5>1. i - 1 \in DOMAIN r /\ Src(i - 1) = i
          BY <1>1, <1>3, <4>2
        <5> HIDE DEF Src
        <5>2. QED BY <5>1
      <4>3. QED BY <1>1, <3>2, <4>1, <4>2
    <3> HIDE DEF Src
    <3>4. r[j] = x
      BY <1>2, <1>3, <3>1, <3>3
    <3>5. QED BY <3>4, RangeIs
  <2>3. QED BY <2>1, <2>2
<1>7. QED BY <1>2, <1>5, <1>6 DEF r

LEMMA HeadShrinks ==
  ASSUME NEW q \in Seq(Slab), q # <<>>, Alone(q)
  PROVE  Tail(q) = RemoveAt(q, 1) /\ 1 \in DOMAIN q /\ q[1] \in ToSet(q)
<1>1. Len(q) \in Nat \ {0} /\ 1 \in DOMAIN q
  OBVIOUS
<1>2. Tail(q) = SubSeq(q, 1, 0) \o SubSeq(q, 2, Len(q))
  <2>1. SubSeq(q, 1, 0) = <<>> /\ SubSeq(q, 2, Len(q)) = Tail(q)
    BY <1>1
  <2>2. <<>> \o Tail(q) = Tail(q)
    OBVIOUS
  <2>3. QED BY <2>1, <2>2
<1>3. QED BY <1>1, <1>2, RangeIs DEF RemoveAt

LEMMA FewerApart ==
  ASSUME NEW P, NEW F, NEW n, ListsApart(P, F, n),
         NEW P1 \in [Caches -> Seq(Slab)], NEW F1 \in [Caches -> Seq(Slab)],
         \A c \in Caches : Alone(P1[c]) /\ Alone(F1[c]),
         \A c \in Caches : ToSet(P1[c]) \subseteq ToSet(P[c]) /\ ToSet(F1[c]) \subseteq ToSet(F[c])
  PROVE  ListsApart(P1, F1, n)
<1>1. \A c \in Caches : \A s \in ToSet(P1[c]) : Counted(c, s) /\ s.objects_free # 0 /\ s.s_mem < n
  BY DEF ListsApart
<1>2. \A c \in Caches : \A s \in ToSet(F1[c]) : Counted(c, s) /\ s.objects_free = 0 /\ s.s_mem < n
  BY DEF ListsApart
<1>3. \A c, d \in Caches : \A s \in ToSet(P1[c]), t \in ToSet(F1[d]) : s.s_mem # t.s_mem
  BY DEF ListsApart
<1>4. \A c, d \in Caches : c # d => \A s \in ToSet(P1[c]), t \in ToSet(P1[d]) : s.s_mem # t.s_mem
  BY DEF ListsApart
<1>5. \A c, d \in Caches : c # d => \A s \in ToSet(F1[c]), t \in ToSet(F1[d]) : s.s_mem # t.s_mem
  BY DEF ListsApart
<1>6. QED BY <1>1, <1>2, <1>3, <1>4, <1>5 DEF ListsApart

\* The lists P1 are P with slab s added for cache c
PutIn(P1, P, c, s) ==
  /\ ToSet(P1[c]) = ToSet(P[c]) \union {s}
  /\ \A d \in Caches \ {c} : ToSet(P1[d]) = ToSet(P[d])

\* The lists P1 are P without the slab that is page m
TakenOut(P1, P, m) == \A d \in Caches : ToSet(P1[d]) = {t \in ToSet(P[d]) : t.s_mem # m}

LEMMA PartialTaken ==
  ASSUME NEW P, NEW F, NEW n, ListsApart(P, F, n), NEW c \in Caches, P[c] # <<>>
  PROVE  LET P1 == [P EXCEPT ![c] = Tail(@)] IN
         /\ ListsApart(P1, F, n) /\ Unlisted(P1, F, P[c][1].s_mem) /\ P[c][1] \in ToSet(P[c])
         /\ \A d \in Caches : ToSet(P1[d]) = {t \in ToSet(P[d]) : t.s_mem # P[c][1].s_mem}
<1> DEFINE P1 == [P EXCEPT ![c] = Tail(@)]
           s == P[c][1]
<1>1. P \in [Caches -> Seq(Slab)] /\ P[c] \in Seq(Slab) /\ Alone(P[c])
  BY DEF ListsApart
<1>2. Tail(P[c]) = RemoveAt(P[c], 1) /\ 1 \in DOMAIN P[c] /\ s \in ToSet(P[c])
  BY <1>1, HeadShrinks
<1>3. /\ P1[c] \in Seq(Slab) /\ Alone(P1[c])
      /\ ToSet(P1[c]) = {t \in ToSet(P[c]) : t.s_mem # s.s_mem}
  BY <1>1, <1>2, ListShrinks
<1>4. P1 \in [Caches -> Seq(Slab)] /\ \A d \in Caches \ {c} : P1[d] = P[d]
  BY <1>1, <1>3
<1> HIDE DEF P1, s
<1>5. ASSUME NEW d \in Caches PROVE ToSet(P1[d]) = {t \in ToSet(P[d]) : t.s_mem # s.s_mem}
  <2>1. CASE d = c
    BY <1>3, <2>1
  <2>2. CASE d # c
    BY <1>2, <1>4, <2>2 DEF ListsApart
  <2>3. QED BY <2>1, <2>2
<1>6. Unlisted(P1, F, s.s_mem)
  BY <1>2, <1>5 DEF Unlisted, ListsApart
<1>7. ListsApart(P1, F, n)
  <2>1. \A d \in Caches : Alone(P[d]) /\ Alone(F[d])
    BY DEF ListsApart
  <2>2. \A d \in Caches : Alone(P1[d])
    BY <1>3, <1>4, <2>1
  <2>3. P \in [Caches -> Seq(Slab)] /\ F \in [Caches -> Seq(Slab)]
    BY DEF ListsApart
  <2>4. \A d \in Caches : ToSet(P1[d]) \subseteq ToSet(P[d])
    BY <1>5
  <2>5. QED BY <1>4, <2>1, <2>2, <2>3, <2>4, FewerApart
<1>8. QED BY <1>2, <1>5, <1>6, <1>7 DEF P1, s

LEMMA FullTaken ==
  ASSUME NEW P, NEW F, NEW n, ListsApart(P, F, n), NEW c \in Caches, NEW k \in DOMAIN F[c],
         NEW F1, F1 = [F EXCEPT ![c] = RemoveAt(@, k)]
  PROVE  /\ ListsApart(P, F1, n) /\ Unlisted(P, F1, F[c][k].s_mem) /\ F[c][k] \in ToSet(F[c])
         /\ TakenOut(F1, F, F[c][k].s_mem)
<1> DEFINE s == F[c][k]
<1>1. F \in [Caches -> Seq(Slab)] /\ F[c] \in Seq(Slab) /\ Alone(F[c])
  BY DEF ListsApart
<1>2. s \in ToSet(F[c])
  BY <1>1, RangeIs
<1>3. /\ F1[c] \in Seq(Slab) /\ Alone(F1[c])
      /\ ToSet(F1[c]) = {t \in ToSet(F[c]) : t.s_mem # s.s_mem}
  BY <1>1, ListShrinks
<1>4. F1 \in [Caches -> Seq(Slab)] /\ \A d \in Caches \ {c} : F1[d] = F[d]
  BY <1>1, <1>3
<1> HIDE DEF s
<1>5. ASSUME NEW d \in Caches PROVE ToSet(F1[d]) = {t \in ToSet(F[d]) : t.s_mem # s.s_mem}
  <2>1. CASE d = c
    BY <1>3, <2>1
  <2>2. CASE d # c
    BY <1>2, <1>4, <2>2 DEF ListsApart
  <2>3. QED BY <2>1, <2>2
<1>6. Unlisted(P, F1, s.s_mem)
  BY <1>2, <1>5 DEF Unlisted, ListsApart
<1>7. ListsApart(P, F1, n)
  <2>1. \A d \in Caches : Alone(P[d]) /\ Alone(F[d])
    BY DEF ListsApart
  <2>2. \A d \in Caches : Alone(F1[d])
    BY <1>3, <1>4, <2>1
  <2>3. P \in [Caches -> Seq(Slab)] /\ F \in [Caches -> Seq(Slab)]
    BY DEF ListsApart
  <2>4. \A d \in Caches : ToSet(F1[d]) \subseteq ToSet(F[d])
    BY <1>5
  <2>5. QED BY <1>4, <2>1, <2>2, <2>3, <2>4, FewerApart
<1>8. QED BY <1>2, <1>5, <1>6, <1>7 DEF s, TakenOut

LEMMA PartialPut ==
  ASSUME NEW P, NEW F, NEW n, ListsApart(P, F, n), NEW c \in Caches, NEW s, Counted(c, s),
         s.objects_free # 0, s.s_mem < n, Unlisted(P, F, s.s_mem),
         NEW P1, P1 = [P EXCEPT ![c] = <<s>> \o @]
  PROVE  /\ ListsApart(P1, F, n)
         /\ PutIn(P1, P, c, s)
<1> DEFINE N == [P EXCEPT ![c] = <<s>> \o @]
<1>1. P \in [Caches -> Seq(Slab)] /\ P[c] \in Seq(Slab) /\ Alone(P[c]) /\ s \in Slab
  BY DEF ListsApart, Counted
<1>2. \A t \in ToSet(P[c]) : t.s_mem # s.s_mem
  BY DEF Unlisted
<1>3. N[c] \in Seq(Slab) /\ Alone(N[c]) /\ ToSet(N[c]) = ToSet(P[c]) \union {s}
  BY <1>1, <1>2, ListGrows
<1>4. N \in [Caches -> Seq(Slab)] /\ \A d \in Caches \ {c} : N[d] = P[d]
  BY <1>1, <1>3
<1> HIDE DEF N
<1>5. ASSUME NEW d \in Caches
      PROVE  \A x \in ToSet(N[d]) : x \in ToSet(P[d]) \/ (d = c /\ x = s)
  BY <1>3, <1>4
<1>6. ListsApart(N, F, n)
  <2>1. \A d \in Caches : Alone(N[d]) /\ Alone(F[d])
    BY <1>3, <1>4 DEF ListsApart
  <2>2. \A d \in Caches : \A t \in ToSet(N[d]) : Counted(d, t) /\ t.objects_free # 0 /\ t.s_mem < n
    BY <1>5 DEF ListsApart
  <2>3. \A d, e \in Caches : \A t \in ToSet(N[d]), u \in ToSet(F[e]) : t.s_mem # u.s_mem
    <3>1. \A d, e \in Caches : \A t \in ToSet(P[d]), u \in ToSet(F[e]) : t.s_mem # u.s_mem
      BY DEF ListsApart
    <3>2. \A e \in Caches : \A u \in ToSet(F[e]) : u.s_mem # s.s_mem
      BY DEF Unlisted
    <3>3. QED BY <1>5, <3>1, <3>2
  <2>4. \A d, e \in Caches : d # e => \A t \in ToSet(N[d]), u \in ToSet(N[e]) : t.s_mem # u.s_mem
    BY <1>5 DEF ListsApart, Unlisted
  <2>5. QED BY <1>4, <2>1, <2>2, <2>3, <2>4 DEF ListsApart
<1>7. QED BY <1>3, <1>4, <1>6 DEF N, PutIn, PutIn

LEMMA FullPut ==
  ASSUME NEW P, NEW F, NEW n, ListsApart(P, F, n), NEW c \in Caches, NEW s, Counted(c, s),
         s.objects_free = 0, s.s_mem < n, Unlisted(P, F, s.s_mem),
         NEW F1, F1 = [F EXCEPT ![c] = <<s>> \o @]
  PROVE  /\ ListsApart(P, F1, n)
         /\ PutIn(F1, F, c, s)
<1> DEFINE N == [F EXCEPT ![c] = <<s>> \o @]
<1>1. F \in [Caches -> Seq(Slab)] /\ F[c] \in Seq(Slab) /\ Alone(F[c]) /\ s \in Slab
  BY DEF ListsApart, Counted
<1>2. \A t \in ToSet(F[c]) : t.s_mem # s.s_mem
  BY DEF Unlisted
<1>3. N[c] \in Seq(Slab) /\ Alone(N[c]) /\ ToSet(N[c]) = ToSet(F[c]) \union {s}
  BY <1>1, <1>2, ListGrows
<1>4. N \in [Caches -> Seq(Slab)] /\ \A d \in Caches \ {c} : N[d] = F[d]
  BY <1>1, <1>3
<1> HIDE DEF N
<1>5. ASSUME NEW d \in Caches
      PROVE  \A x \in ToSet(N[d]) : x \in ToSet(F[d]) \/ (d = c /\ x = s)
  BY <1>3, <1>4
<1>6. ListsApart(P, N, n)
  <2>1. \A d \in Caches : Alone(N[d]) /\ Alone(P[d])
    BY <1>3, <1>4 DEF ListsApart
  <2>2. \A d \in Caches : \A t \in ToSet(N[d]) : Counted(d, t) /\ t.objects_free = 0 /\ t.s_mem < n
    BY <1>5 DEF ListsApart
  <2>3. \A d, e \in Caches : \A t \in ToSet(P[d]), u \in ToSet(N[e]) : t.s_mem # u.s_mem
    <3>1. \A d, e \in Caches : \A t \in ToSet(P[d]), u \in ToSet(F[e]) : t.s_mem # u.s_mem
      BY DEF ListsApart
    <3>2. \A e \in Caches : \A u \in ToSet(P[e]) : u.s_mem # s.s_mem
      BY DEF Unlisted
    <3>3. QED BY <1>5, <3>1, <3>2
  <2>4. \A d, e \in Caches : d # e => \A t \in ToSet(N[d]), u \in ToSet(N[e]) : t.s_mem # u.s_mem
    <3>1. \A d, e \in Caches : d # e => \A t \in ToSet(F[d]), u \in ToSet(F[e]) : t.s_mem # u.s_mem
      BY DEF ListsApart
    <3>2. \A e \in Caches : \A u \in ToSet(F[e]) : u.s_mem # s.s_mem
      BY DEF Unlisted
    <3>3. QED BY <1>5, <3>1, <3>2
  <2>5. QED BY <1>4, <2>1, <2>2, <2>3, <2>4 DEF ListsApart
<1>7. QED BY <1>3, <1>4, <1>6 DEF N, PutIn, PutIn

LEMMA MaxObjsIs == \A c \in Caches : MaxObjs(c) \in Nat \ {0} /\ MaxObjs(c) <= BitmapBits /\ MaxObjs(c) <= ObjsOfSize[c]
BY SlabAssumption DEF MaxObjs, Caches

\* A slab with a free object has a bit that is 0, inside of its objects
LEMMA FirstBitFits ==
  ASSUME NEW c \in Caches, NEW s, Counted(c, s), s.objects_free # 0
  PROVE  FirstBit(s) \in 0 .. (MaxObjs(c) - 1) /\ FirstBit(s) \in Bits /\ FirstBit(s) \notin s.free_bitmap
<1> DEFINE m == MaxObjs(c)
           B == s.free_bitmap
           T == Bits \ B
<1>1. m \in Nat \ {0} /\ m <= BitmapBits /\ BitmapBits \in Nat
  BY MaxObjsIs, SlabAssumption
<1>2. IsFiniteSet(0 .. (m - 1)) /\ Cardinality(0 .. (m - 1)) = m
  <2>1. 0 \in Int /\ m - 1 \in Int
    BY <1>1
  <2>2. QED BY <1>1, <2>1, FS_Interval
<1>3. PICK i \in 0 .. (m - 1) : i \notin B
  <2>1. SUFFICES ASSUME 0 .. (m - 1) \subseteq B PROVE FALSE
    OBVIOUS
  <2>2. B = 0 .. (m - 1)
    BY <2>1 DEF Counted
  <2>3. Cardinality(B) = m
    BY <1>2, <2>2
  <2>4. QED BY <1>1, <2>3 DEF Counted
<1>4. i \in T /\ T \subseteq Nat
  BY <1>1, <1>3 DEF Bits
<1>5. PICK j \in T : \A k \in T : j <= k
  <2> HIDE DEF T
  <2> QED BY <1>4, LeastElement
<1>6. FirstBit(s) \in T /\ \A k \in T : FirstBit(s) <= k
  BY <1>5 DEF FirstBit
<1>7. FirstBit(s) <= i
  BY <1>4, <1>6
<1>8. QED BY <1>1, <1>3, <1>4, <1>6, <1>7

LEMMA SlabLosesBit ==
  ASSUME NEW c \in Caches, NEW s, Counted(c, s), NEW i \in s.free_bitmap
  PROVE  Counted(c, FreedSlab(s, i)) /\ FreedSlab(s, i).objects_free = s.objects_free + 1
<1> DEFINE m == MaxObjs(c)
           B == s.free_bitmap
<1>1. m \in Nat /\ s \in Slab /\ B \subseteq 0 .. (m - 1) /\ s.objects_free = m - Cardinality(B)
  BY MaxObjsIs DEF Counted
<1>2. IsFiniteSet(B)
  <2>1. IsFiniteSet(0 .. (m - 1))
    BY <1>1, FS_Interval
  <2>2. QED BY <1>1, <2>1, FS_Subset
<1>3. Cardinality(B \ {i}) = Cardinality(B) - 1 /\ Cardinality(B) \in Nat
  BY <1>2, FS_RemoveElement, FS_CardinalityType
<1>9. PICK p \in Nat, b \in SUBSET Bits, k \in Nat : s = [s_mem |-> p, free_bitmap |-> b, objects_free |-> k]
  BY <1>1 DEF Slab
<1>4. FreedSlab(s, i) = [s_mem |-> s.s_mem, free_bitmap |-> B \ {i}, objects_free |-> s.objects_free + 1]
  <2> DEFINE u == [s EXCEPT !.free_bitmap = B \ {i}]
             n == s.objects_free + 1
  <2>1. u = [s_mem |-> p, free_bitmap |-> B \ {i}, objects_free |-> k]
    BY <1>9
  <2>2. FreedSlab(s, i) = [u EXCEPT !.objects_free = n]
    BY DEF FreedSlab
  <2> HIDE DEF u, n
  <2>3. [u EXCEPT !.objects_free = n] = [s_mem |-> p, free_bitmap |-> B \ {i}, objects_free |-> n]
    BY <2>1
  <2>4. p = s.s_mem
    BY <1>9
  <2>5. QED BY <2>2, <2>3, <2>4 DEF n
<1>5. FreedSlab(s, i) \in Slab
  BY <1>1, <1>4 DEF Slab
<1>6. QED
  <2> HIDE DEF m
  <2> QED BY <1>1, <1>3, <1>4, <1>5 DEF Counted, m

LEMMA FreedFields ==
  ASSUME NEW s \in Slab, NEW i
  PROVE  FreedSlab(s, i).s_mem = s.s_mem /\ FreedSlab(s, i).free_bitmap = s.free_bitmap \ {i}
<1>1. PICK p \in Nat, b \in SUBSET Bits, k \in Nat : s = [s_mem |-> p, free_bitmap |-> b, objects_free |-> k]
  BY DEF Slab
<1> DEFINE u == [s EXCEPT !.free_bitmap = b \ {i}]
           n == s.objects_free + 1
<1>2. u = [s_mem |-> p, free_bitmap |-> b \ {i}, objects_free |-> k]
  BY <1>1
<1>3. FreedSlab(s, i) = [u EXCEPT !.objects_free = n]
  BY <1>1 DEF FreedSlab
<1> HIDE DEF u, n
<1>4. FreedSlab(s, i) = [s_mem |-> p, free_bitmap |-> b \ {i}, objects_free |-> n]
  BY <1>2, <1>3
<1>5. QED BY <1>1, <1>4

LEMMA SlabGetsBit ==
  ASSUME NEW c \in Caches, NEW s, Counted(c, s), s.objects_free # 0, NEW i, i = FirstBit(s)
  PROVE  LET t == [s EXCEPT !.free_bitmap = @ \union {i}, !.objects_free = @ - 1] IN
         Counted(c, t) /\ t.s_mem = s.s_mem /\ t.free_bitmap = s.free_bitmap \union {i}
<1> DEFINE m == MaxObjs(c)
           B == s.free_bitmap
           t == [s EXCEPT !.free_bitmap = @ \union {i}, !.objects_free = @ - 1]
<1>1. m \in Nat /\ s \in Slab /\ B \subseteq 0 .. (m - 1) /\ s.objects_free = m - Cardinality(B)
  BY MaxObjsIs DEF Counted
<1>2. IsFiniteSet(B)
  <2>1. IsFiniteSet(0 .. (m - 1))
    BY <1>1, FS_Interval
  <2>2. QED BY <1>1, <2>1, FS_Subset
<1>3. i \in 0 .. (m - 1) /\ i \in Bits /\ i \notin B
  BY FirstBitFits
<1>4. Cardinality(B \union {i}) = Cardinality(B) + 1 /\ Cardinality(B) \in Nat
  BY <1>2, <1>3, FS_AddElement, FS_CardinalityType
<1>11. PICK p \in Nat, b \in SUBSET Bits, k \in Nat : s = [s_mem |-> p, free_bitmap |-> b, objects_free |-> k]
  BY <1>1 DEF Slab
<1>5. t = [s_mem |-> s.s_mem, free_bitmap |-> B \union {i}, objects_free |-> s.objects_free - 1]
  <2> DEFINE u == [s EXCEPT !.free_bitmap = B \union {i}]
             n == s.objects_free - 1
  <2>1. u = [s_mem |-> p, free_bitmap |-> B \union {i}, objects_free |-> k]
    BY <1>11
  <2>2. t = [u EXCEPT !.objects_free = n]
    OBVIOUS
  <2> HIDE DEF u, n
  <2>3. [u EXCEPT !.objects_free = n] = [s_mem |-> p, free_bitmap |-> B \union {i}, objects_free |-> n]
    BY <2>1
  <2>4. p = s.s_mem
    BY <1>11
  <2>5. QED BY <2>2, <2>3, <2>4 DEF n
<1>6. s.objects_free \in Nat \ {0} /\ s.s_mem \in Nat /\ B \subseteq Bits
  BY <1>1 DEF Slab
<1> HIDE DEF t, m, B
<1>7. t \in Slab
  <2>1. B \union {i} \in SUBSET Bits /\ s.objects_free - 1 \in Nat
    BY <1>3, <1>6 DEF B
  <2>2. QED BY <1>5, <1>6, <2>1 DEF Slab
<1>8. t.free_bitmap = B \union {i} /\ t.s_mem = s.s_mem /\ t.objects_free = s.objects_free - 1
  BY <1>5
<1>9. Counted(c, t)
  <2>1. t.free_bitmap \subseteq 0 .. (m - 1)
    BY <1>1, <1>3, <1>8
  <2>2. t.objects_free = m - Cardinality(t.free_bitmap)
    BY <1>1, <1>4, <1>8
  <2>3. QED BY <1>7, <2>1, <2>2 DEF Counted, m
<1>10. QED BY <1>8, <1>9 DEF t, B

LEMMA SlabInvInit == SlabInit => SlabInv
<1> SUFFICES ASSUME SlabInit PROVE SlabInv
  OBVIOUS
<1>1. \A c \in Caches : slabs_partial[c] = <<>> /\ slabs_full[c] = <<>>
  BY DEF SlabInit
<1>2. \A c \in Caches : ToSet(slabs_partial[c]) = {} /\ ToSet(slabs_full[c]) = {}
  BY <1>1, RangeIs
<1>3. slabs_partial \in [Caches -> Seq(Slab)] /\ slabs_full \in [Caches -> Seq(Slab)]
  BY DEF SlabInit
<1>4. \A c \in Caches : Alone(slabs_partial[c]) /\ Alone(slabs_full[c])
  BY <1>1 DEF Alone
<1>5. ListsApart(slabs_partial, slabs_full, pagesUsed)
  BY <1>2, <1>3, <1>4 DEF ListsApart
<1>6. QED BY <1>5, SlabAssumption DEF SlabInv, SlabInit

LEMMA CreateKeeps ==
  ASSUME SlabInv, NEW c \in Caches, CacheCreate(c) PROVE SlabInv'
BY DEF SlabInv, CacheCreate, ListsApart, Marked

LEMMA AllocKeeps ==
  ASSUME SlabInv, NEW c \in Caches, CacheAlloc(c) PROVE SlabInv'
<1> DEFINE P == slabs_partial
           F == slabs_full
           n == pagesUsed
           fresh == P[c] = <<>>
           list == IF fresh THEN <<NewSlab(c)>> ELSE P[c]
           s == list[1]
           i == FirstBit(s)
           slab == [s EXCEPT !.free_bitmap = @ \union {i}, !.objects_free = @ - 1]
           rest == [P EXCEPT ![c] = Tail(list)]
           m == IF fresh THEN n + 1 ELSE n
<1>1. ListsApart(P, F, n) /\ n \in 0 .. SlabPages /\ P \in [Caches -> Seq(Slab)] /\ F \in [Caches -> Seq(Slab)]
  BY DEF SlabInv, ListsApart
<1>2. m \in 0 .. SlabPages /\ n <= m /\ pagesUsed' = m
  <2>1. fresh => n < SlabPages
    BY DEF CacheAlloc
  <2>2. pagesUsed' = m
    BY DEF CacheAlloc
  <2>3. QED BY <1>1, <2>1, <2>2, SlabAssumption
<1>3. /\ ListsApart(rest, F, m) /\ Unlisted(rest, F, s.s_mem) /\ Counted(c, s) /\ s.objects_free # 0 /\ s.s_mem < m
      /\ \A d \in Caches : ToSet(rest[d]) = {t \in ToSet(P[d]) : t.s_mem # s.s_mem}
      /\ s.free_bitmap = {} \/ s \in ToSet(P[c])
  <2>1. CASE fresh
    <3>1. list = <<NewSlab(c)>> /\ s = NewSlab(c) /\ Tail(list) = <<>> /\ m = n + 1
      BY <2>1
    <3>2. s = [s_mem |-> n, free_bitmap |-> {}, objects_free |-> MaxObjs(c)]
      BY <3>1 DEF NewSlab
    <3>3. rest = P
      BY <1>1, <2>1, <3>1
    <3> HIDE DEF list, m, s, rest
    <3>4. s.objects_free # 0 /\ s.s_mem = n /\ s.free_bitmap = {} /\ s.s_mem < m
      BY <1>1, <3>1, <3>2, MaxObjsIs
    <3>5. Counted(c, s)
      <4>1. s \in Slab
        BY <1>1, <3>2, MaxObjsIs DEF Slab
      <4>2. s.objects_free = MaxObjs(c) - Cardinality(s.free_bitmap)
        BY <3>2, MaxObjsIs, FS_EmptySet
      <4>3. QED BY <3>4, <4>1, <4>2 DEF Counted
    <3>6. \A d \in Caches : \A t \in ToSet(P[d]) \union ToSet(F[d]) : t.s_mem < n /\ t.s_mem \in Nat
      BY <1>1 DEF ListsApart, Counted, Slab
    <3>7. \A d \in Caches : \A t \in ToSet(P[d]) \union ToSet(F[d]) : t.s_mem < m /\ t.s_mem # n
      BY <1>1, <3>1, <3>6
    <3>8. Unlisted(P, F, n) /\ ListsApart(P, F, m)
      BY <1>1, <3>7 DEF Unlisted, ListsApart
    <3>9. \A d \in Caches : ToSet(P[d]) = {t \in ToSet(P[d]) : t.s_mem # n}
      BY <3>7
    <3>10. QED BY <3>3, <3>4, <3>5, <3>8, <3>9
  <2>2. CASE ~fresh
    <3>1. list = P[c] /\ m = n /\ s = P[c][1] /\ rest = [P EXCEPT ![c] = Tail(@)]
      BY <2>2
    <3> HIDE DEF list, m, s, rest
    <3>2. ListsApart(rest, F, n) /\ Unlisted(rest, F, s.s_mem) /\ s \in ToSet(P[c])
      BY <1>1, <2>2, <3>1, PartialTaken
    <3>3. \A d \in Caches : ToSet(rest[d]) = {t \in ToSet(P[d]) : t.s_mem # s.s_mem}
      BY <1>1, <2>2, <3>1, PartialTaken
    <3>4. Counted(c, s) /\ s.objects_free # 0 /\ s.s_mem < n
      BY <1>1, <3>2 DEF ListsApart
    <3>5. QED BY <3>1, <3>2, <3>3, <3>4
  <2>3. QED BY <2>1, <2>2
<1>4. i \in Bits /\ i < ObjsOfSize[c]
  <2>1. i \in 0 .. (MaxObjs(c) - 1) /\ i \in Bits
    <3> HIDE DEF s
    <3> QED BY <1>3, FirstBitFits
  <2>2. QED
    <3> HIDE DEF i
    <3> QED BY <2>1, MaxObjsIs, SlabAssumption DEF Caches
<1>5. Counted(c, slab) /\ slab.s_mem = s.s_mem /\ slab.free_bitmap = s.free_bitmap \union {i}
  <2> HIDE DEF s
  <2> QED BY <1>3, SlabGetsBit
<1>6. /\ slabs_partial' = IF slab.objects_free = 0 THEN rest ELSE [P EXCEPT ![c] = <<slab>> \o Tail(list)]
      /\ slabs_full' = IF slab.objects_free = 0 THEN [F EXCEPT ![c] = <<slab>> \o @] ELSE F
      /\ heldObjects' = heldObjects \union {<<c, slab.s_mem, i>>} /\ cache_chain' = cache_chain
  BY DEF CacheAlloc
<1>7. [P EXCEPT ![c] = <<slab>> \o Tail(list)] = [rest EXCEPT ![c] = <<slab>> \o @]
  <2> HIDE DEF slab, list
  <2>1. rest[c] = Tail(list)
    BY <1>1
  <2>2. QED BY <1>1, <2>1
<1> HIDE DEF P, F, n, fresh, list, s, i, slab, rest, m
<1>8. /\ ListsApart(slabs_partial', slabs_full', m)
      /\ \A d \in Caches : ToSet(slabs_partial'[d]) \union ToSet(slabs_full'[d])
                             = IF d = c THEN ToSet(rest[d]) \union ToSet(F[d]) \union {slab}
                               ELSE ToSet(rest[d]) \union ToSet(F[d])
  <2>0. slab.s_mem < m /\ Unlisted(rest, F, slab.s_mem) /\ Counted(c, slab)
    BY <1>3, <1>5
  <2>1. CASE slab.objects_free = 0
    <3>1. slabs_partial' = rest /\ slabs_full' = [F EXCEPT ![c] = <<slab>> \o @]
      BY <1>6, <2>1
    <3>2. /\ ListsApart(rest, slabs_full', m)
          /\ PutIn(slabs_full', F, c, slab)
      BY <1>3, <2>0, <2>1, <3>1, FullPut
    <3>4. \A d \in Caches : ToSet(slabs_partial'[d]) = ToSet(rest[d])
      BY <3>1
    <3>5. ListsApart(slabs_partial', slabs_full', m)
      BY <3>1, <3>2
    <3>6. QED BY <3>2, <3>4, <3>5 DEF PutIn
  <2>2. CASE slab.objects_free # 0
    <3>1. slabs_partial' = [rest EXCEPT ![c] = <<slab>> \o @] /\ slabs_full' = F
      BY <1>6, <1>7, <2>2
    <3>2. /\ ListsApart(slabs_partial', F, m)
          /\ PutIn(slabs_partial', rest, c, slab)
      BY <1>3, <2>0, <2>2, <3>1, PartialPut
    <3>4. \A d \in Caches : ToSet(slabs_full'[d]) = ToSet(F[d])
      BY <3>1
    <3>5. ListsApart(slabs_partial', slabs_full', m)
      BY <3>1, <3>2
    <3>6. QED BY <3>2, <3>4, <3>5 DEF PutIn
  <2>3. QED BY <2>1, <2>2
<1>9. ASSUME NEW o \in heldObjects' PROVE Marked(slabs_partial', slabs_full', o)
  <2>1. CASE o \in heldObjects
    <3>1. o \in Caches \X Nat \X Bits /\ o[3] < ObjsOfSize[o[1]] /\ o[1] \in Caches
      BY <2>1 DEF SlabInv, Marked
    <3>2. PICK t \in ToSet(P[o[1]]) \union ToSet(F[o[1]]) : t.s_mem = o[2] /\ o[3] \in t.free_bitmap
      BY <2>1 DEF SlabInv, Marked, P, F
    <3>3. CASE t \in ToSet(rest[o[1]]) \union ToSet(F[o[1]])
      BY <1>8, <3>1, <3>2, <3>3 DEF Marked
    <3>4. CASE t \notin ToSet(rest[o[1]]) \union ToSet(F[o[1]])
      <4>1. t \in ToSet(P[o[1]]) /\ t.s_mem = s.s_mem
        BY <1>3, <3>1, <3>2, <3>4
      <4>2. s \in ToSet(P[c])
        <5>1. CASE s.free_bitmap = {} /\ s \notin ToSet(P[c])
          <6>1. s.s_mem = n
            BY <1>3, <1>1, <5>1, <4>1, HeadShrinks DEF s, list, fresh, NewSlab, n, P, ListsApart
          <6>2. t.s_mem < n /\ t.s_mem \in Nat
            BY <1>1, <3>1, <4>1 DEF ListsApart, Counted, Slab
          <6>3. QED BY <1>1, <4>1, <6>1, <6>2
        <5>2. QED BY <1>3, <5>1
      <4>3. o[1] = c
        BY <1>1, <3>1, <4>1, <4>2 DEF ListsApart
      <4>4. t = s
        <5>1. PICK k \in DOMAIN P[c] : P[c][k] = s
          BY <4>2, RangeIs
        <5>2. PICK l \in DOMAIN P[c] : P[c][l] = t
          BY <4>1, <4>3, RangeIs
        <5>3. k = l
          BY <1>1, <4>1, <5>1, <5>2 DEF ListsApart, Alone
        <5>4. QED BY <5>1, <5>2, <5>3
      <4>5. slab.s_mem = o[2] /\ o[3] \in slab.free_bitmap /\ slab \in ToSet(slabs_partial'[c]) \union ToSet(slabs_full'[c])
        BY <1>5, <1>8, <3>2, <4>4
      <4>6. QED BY <3>1, <4>3, <4>5 DEF Marked
    <3>5. QED BY <3>3, <3>4
  <2>2. CASE o = <<c, slab.s_mem, i>>
    <3>1. slab.s_mem \in Nat
      BY <1>5 DEF Counted, Slab
    <3>2. o \in Caches \X Nat \X Bits /\ o[1] = c /\ o[2] = slab.s_mem /\ o[3] = i
      BY <1>4, <2>2, <3>1
    <3>3. slab \in ToSet(slabs_partial'[c]) \union ToSet(slabs_full'[c]) /\ i \in slab.free_bitmap
      BY <1>5, <1>8
    <3>4. QED BY <1>4, <3>2, <3>3 DEF Marked
  <2>3. QED BY <1>6, <2>1, <2>2
<1>10. QED
  <2>1. cache_chain' \in Seq(Caches)
    BY <1>6 DEF SlabInv
  <2>2. QED BY <1>2, <1>8, <1>9, <2>1 DEF SlabInv

LEMMA FreeKeeps ==
  ASSUME SlabInv, NEW o \in heldObjects, CacheFree(o[1], o[2], o[3]) PROVE SlabInv'
<1> DEFINE P == slabs_partial
           F == slabs_full
           n == pagesUsed
           c == o[1]
           hit == {k \in DOMAIN F[c] : F[c][k].s_mem = o[2]}
<1>1. /\ ListsApart(P, F, n) /\ n \in 0 .. SlabPages /\ P \in [Caches -> Seq(Slab)] /\ F \in [Caches -> Seq(Slab)]
      /\ \A x \in heldObjects : Marked(P, F, x)
  BY DEF SlabInv, ListsApart
<1>2. /\ o = <<o[1], o[2], o[3]>> /\ c \in Caches /\ heldObjects' = heldObjects \ {o}
      /\ cache_chain' = cache_chain /\ pagesUsed' = n
  <2>1. Marked(P, F, o)
    BY <1>1
  <2>2. o \in Caches \X Nat \X Bits
    BY <2>1 DEF Marked
  <2>3. o = <<o[1], o[2], o[3]>> /\ c \in Caches
    BY <2>2
  <2>4. heldObjects' = heldObjects \ {<<o[1], o[2], o[3]>>} /\ cache_chain' = cache_chain /\ pagesUsed' = n
    BY DEF CacheFree
  <2>5. QED BY <2>3, <2>4
<1>3. CASE hit = {}
  <2>1. slabs_partial' = P /\ slabs_full' = F
    BY <1>3 DEF CacheFree
  <2>2. QED BY <1>1, <1>2, <2>1 DEF SlabInv
<1>4. CASE hit # {}
  <2> DEFINE k == CHOOSE k \in hit : TRUE
             s == F[c][k]
             slab == FreedSlab(s, o[3])
             rest == [F EXCEPT ![c] = RemoveAt(@, k)]
  <2>1. k \in DOMAIN F[c] /\ s.s_mem = o[2]
    BY <1>4
  <2>2. \/ /\ slab.objects_free = 1 /\ slabs_full' = rest
           /\ slabs_partial' = [P EXCEPT ![c] = <<slab>> \o @]
        \/ slab.objects_free # 1
    BY <1>4 DEF CacheFree
  <2> HIDE DEF P, F, n, hit, k
  <2>3. /\ ListsApart(P, rest, n) /\ Unlisted(P, rest, s.s_mem) /\ s \in ToSet(F[c])
        /\ TakenOut(rest, F, s.s_mem)
    <3> HIDE DEF c
    <3>1. rest = [F EXCEPT ![c] = RemoveAt(@, k)] /\ s = F[c][k]
      OBVIOUS
    <3> HIDE DEF rest, s
    <3>2. QED BY <1>1, <1>2, <2>1, <3>1, FullTaken
  <2>4. Counted(c, s) /\ s.objects_free = 0 /\ s.s_mem < n
    BY <1>1, <1>2, <2>3 DEF ListsApart
  <2>5. \A d \in Caches : \A t \in ToSet(P[d]) \union ToSet(F[d]) : t.s_mem = o[2] => t = s /\ d = c
    <3> SUFFICES ASSUME NEW d \in Caches, NEW t \in ToSet(P[d]) \union ToSet(F[d]), t.s_mem = o[2] PROVE t = s /\ d = c
      OBVIOUS
    <3>1. t \in ToSet(F[d]) /\ d = c
      BY <1>1, <1>2, <2>1, <2>3 DEF ListsApart
    <3>2. PICK l \in DOMAIN F[c] : F[c][l] = t
      BY <3>1, RangeIs
    <3>3. l = k
      BY <1>1, <1>2, <2>1, <3>2 DEF ListsApart, Alone
    <3>4. QED BY <3>1, <3>2, <3>3
  <2>6. o[3] \in s.free_bitmap
    <3>1. Marked(P, F, o)
      BY <1>1
    <3>2. QED BY <1>2, <2>5, <3>1 DEF Marked
  <2>7. Counted(c, slab) /\ slab.objects_free = 1 /\ slab.s_mem = s.s_mem /\ slab.free_bitmap = s.free_bitmap \ {o[3]}
    <3>1. Counted(c, FreedSlab(s, o[3])) /\ FreedSlab(s, o[3]).objects_free = s.objects_free + 1
      <4> HIDE DEF s, c
      <4> QED BY <1>2, <2>4, <2>6, SlabLosesBit
    <3>2. slab.s_mem = s.s_mem /\ slab.free_bitmap = s.free_bitmap \ {o[3]}
      <4> HIDE DEF s
      <4>1. s \in Slab
        BY <2>4 DEF Counted
      <4>2. QED BY <4>1, FreedFields
    <3>3. QED BY <2>4, <3>1, <3>2
  <2> HIDE DEF s, slab, rest, c
  <2>8. slabs_full' = rest /\ slabs_partial' = [P EXCEPT ![c] = <<slab>> \o @]
    BY <2>2, <2>7
  <2>10. /\ ListsApart(slabs_partial', rest, n)
          /\ PutIn(slabs_partial', P, c, slab)
    <3>1. Unlisted(P, rest, slab.s_mem) /\ slab.s_mem < n /\ slab.objects_free # 0
      BY <2>3, <2>4, <2>7
    <3>2. QED BY <1>2, <2>3, <2>7, <2>8, <3>1, PartialPut
  <2>11. ASSUME NEW x \in heldObjects' PROVE Marked(slabs_partial', slabs_full', x)
    <3>1. x \in heldObjects /\ x # o /\ x \in Caches \X Nat \X Bits /\ x[3] < ObjsOfSize[x[1]]
      BY <1>1, <1>2 DEF Marked
    <3>2. PICK t \in ToSet(P[x[1]]) \union ToSet(F[x[1]]) : t.s_mem = x[2] /\ x[3] \in t.free_bitmap
      BY <1>1, <3>1 DEF Marked
    <3>3. CASE t.s_mem # s.s_mem
      <4>1. x[1] \in Caches /\ \A d \in Caches : ToSet(P[d]) \subseteq ToSet(slabs_partial'[d])
        BY <2>10, <3>1, <1>2 DEF PutIn
      <4>2. t \in ToSet(P[x[1]]) \/ t \in ToSet(rest[x[1]])
        BY <2>3, <3>2, <3>3, <4>1 DEF TakenOut
      <4>4. t \in ToSet(slabs_partial'[x[1]]) \union ToSet(slabs_full'[x[1]])
        BY <2>8, <4>1, <4>2
      <4>3. QED BY <3>1, <3>2, <4>4 DEF Marked
    <3>4. CASE t.s_mem = s.s_mem
      <4>1. x[1] = c /\ t = s /\ x[2] = o[2]
        BY <2>1, <2>5, <3>1, <3>2, <3>4 DEF s
      <4>2. x[3] # o[3]
        BY <1>2, <3>1, <4>1 DEF c
      <4>3. slab \in ToSet(slabs_partial'[x[1]]) /\ slab.s_mem = x[2] /\ x[3] \in slab.free_bitmap
        BY <1>2, <2>7, <2>10, <3>2, <4>1, <4>2 DEF PutIn
      <4>4. QED BY <3>1, <4>3 DEF Marked
    <3>5. QED BY <3>3, <3>4
  <2>12. QED BY <1>1, <1>2, <2>8, <2>10, <2>11 DEF SlabInv, P, F, n
<1>5. QED BY <1>3, <1>4

LEMMA SlabStep == SlabInv /\ [SlabNext]_slabVars => SlabInv'
<1> SUFFICES ASSUME SlabInv, [SlabNext]_slabVars PROVE SlabInv'
  OBVIOUS
<1>1. ASSUME NEW c \in Caches, CacheCreate(c) PROVE SlabInv'
  BY <1>1, CreateKeeps
<1>2. ASSUME NEW c \in Caches, CacheAlloc(c) PROVE SlabInv'
  BY <1>2, AllocKeeps
<1>3. ASSUME NEW o \in heldObjects, CacheFree(o[1], o[2], o[3]) PROVE SlabInv'
  BY <1>3, FreeKeeps
<1>4. CASE UNCHANGED slabVars
  BY <1>4 DEF slabVars, SlabInv, ListsApart, Marked
<1>5. QED BY <1>1, <1>2, <1>3, <1>4 DEF SlabNext

\* Where an element of the lists of a cache, one after the other, comes from
LEMMA ListsJoined ==
  ASSUME NEW a \in Seq(Slab), NEW b \in Seq(Slab)
  PROVE  /\ ToSet(a \o b) = ToSet(a) \union ToSet(b)
         /\ \A k \in DOMAIN (a \o b) :
              \/ k \in DOMAIN a /\ k <= Len(a) /\ (a \o b)[k] = a[k]
              \/ k > Len(a) /\ (k - Len(a)) \in DOMAIN b /\ (a \o b)[k] = b[k - Len(a)]
<1> DEFINE r == a \o b
<1>1. r \in Seq(Slab) /\ Len(r) = Len(a) + Len(b) /\ Len(a) \in Nat /\ Len(b) \in Nat
  BY ConcatProperties
<1>2. DOMAIN a = 1 .. Len(a) /\ DOMAIN b = 1 .. Len(b) /\ DOMAIN r = 1 .. (Len(a) + Len(b))
  BY <1>1
<1>3. \A k \in 1 .. Len(a) : r[k] = a[k]
  BY ConcatProperties
<1>4. \A k \in 1 .. Len(b) : r[Len(a) + k] = b[k]
  OBVIOUS
<1> HIDE DEF r
<1>5. ASSUME NEW k \in DOMAIN r
      PROVE  \/ k \in DOMAIN a /\ k <= Len(a) /\ r[k] = a[k]
             \/ k > Len(a) /\ (k - Len(a)) \in DOMAIN b /\ r[k] = b[k - Len(a)]
  <2>1. CASE k <= Len(a)
    BY <1>1, <1>2, <1>3, <2>1
  <2>2. CASE k > Len(a)
    <3>1. k - Len(a) \in 1 .. Len(b) /\ Len(a) + (k - Len(a)) = k
      BY <1>1, <1>2, <2>2
    <3>2. QED BY <1>2, <1>4, <2>2, <3>1
  <2>3. QED BY <1>1, <1>2, <2>1, <2>2
<1>6. ASSUME NEW x \in ToSet(r) PROVE x \in ToSet(a) \union ToSet(b)
  <2>1. PICK k \in DOMAIN r : r[k] = x
    BY RangeIs
  <2>2. QED BY <1>5, <2>1, RangeIs
<1>7. ASSUME NEW x \in ToSet(a) \union ToSet(b) PROVE x \in ToSet(r)
  <2>1. CASE x \in ToSet(a)
    <3>1. PICK k \in DOMAIN a : a[k] = x
      BY <2>1, RangeIs
    <3>2. k \in DOMAIN r /\ r[k] = x
      BY <1>1, <1>2, <1>3, <3>1
    <3>3. QED BY <3>2, RangeIs
  <2>2. CASE x \in ToSet(b)
    <3>1. PICK k \in DOMAIN b : b[k] = x
      BY <2>2, RangeIs
    <3>2. Len(a) + k \in DOMAIN r /\ r[Len(a) + k] = x
      BY <1>1, <1>2, <1>4, <3>1
    <3>3. QED BY <3>2, RangeIs
  <2>3. QED BY <2>1, <2>2
<1>8. QED BY <1>5, <1>6, <1>7 DEF r

LEMMA SlabInvSound == SlabInv => SlabTypeOK /\ SlabsSound
<1> SUFFICES ASSUME SlabInv PROVE SlabTypeOK /\ SlabsSound
  OBVIOUS
<1> DEFINE P == slabs_partial
           F == slabs_full
           n == pagesUsed
           slabs(c) == P[c] \o F[c]
<1>1. /\ ListsApart(P, F, n) /\ n \in 0 .. SlabPages /\ P \in [Caches -> Seq(Slab)] /\ F \in [Caches -> Seq(Slab)]
      /\ \A x \in heldObjects : Marked(P, F, x)
  BY DEF SlabInv, ListsApart
<1>2. \A c \in Caches : P[c] \in Seq(Slab) /\ F[c] \in Seq(Slab)
  BY <1>1
<1>3. \A c \in Caches : ToSet(slabs(c)) = ToSet(P[c]) \union ToSet(F[c])
  BY <1>2, ListsJoined
<1>4. SlabTypeOK
  <2>1. \A c \in Caches : \A s \in ToSet(slabs(c)) : s.free_bitmap \subseteq Bits /\ s.objects_free \in Nat
    <3> SUFFICES ASSUME NEW c \in Caches, NEW s \in ToSet(slabs(c))
                 PROVE  s.free_bitmap \subseteq Bits /\ s.objects_free \in Nat
      OBVIOUS
    <3>1. s \in Slab
      BY <1>1, <1>3 DEF ListsApart, Counted
    <3>2. QED BY <3>1 DEF Slab
  <2>2. QED BY <1>1, <2>1 DEF SlabTypeOK
<1>5. ASSUME NEW c \in Caches, NEW k \in DOMAIN slabs(c)
      PROVE  \/ k \in DOMAIN P[c] /\ k <= Len(P[c]) /\ slabs(c)[k] = P[c][k] /\ slabs(c)[k] \in ToSet(P[c])
             \/ /\ k > Len(P[c]) /\ (k - Len(P[c])) \in DOMAIN F[c] /\ slabs(c)[k] = F[c][k - Len(P[c])]
                /\ slabs(c)[k] \in ToSet(F[c])
  <2>1. \/ k \in DOMAIN P[c] /\ k <= Len(P[c]) /\ slabs(c)[k] = P[c][k]
        \/ k > Len(P[c]) /\ (k - Len(P[c])) \in DOMAIN F[c] /\ slabs(c)[k] = F[c][k - Len(P[c])]
    BY <1>2, ListsJoined
  <2>2. QED BY <2>1, RangeIs
<1>8. \A c \in Caches : \A k \in DOMAIN slabs(c) : k \in Nat /\ Len(P[c]) \in Nat
  <2> SUFFICES ASSUME NEW c \in Caches, NEW k \in DOMAIN slabs(c) PROVE k \in Nat /\ Len(P[c]) \in Nat
    OBVIOUS
  <2>1. slabs(c) \in Seq(Slab) /\ P[c] \in Seq(Slab)
    BY <1>2, ConcatProperties
  <2>2. QED
    <3> HIDE DEF slabs
    <3> QED BY <2>1
<1> HIDE DEF slabs, P, F, n
<1>6. ASSUME NEW c \in Caches, NEW k \in DOMAIN slabs(c)
      PROVE  LET s == slabs(c)[k] IN
             /\ s.objects_free = MaxObjs(c) - Cardinality(s.free_bitmap)
             /\ (s.objects_free = 0) <=> (k > Len(P[c]))
             /\ \A d \in Caches : \A l \in DOMAIN slabs(d) : slabs(d)[l].s_mem = s.s_mem => c = d /\ k = l
  <2> DEFINE s == slabs(c)[k]
  <2>1. \/ s \in ToSet(P[c]) /\ k <= Len(P[c]) /\ s.objects_free # 0
        \/ s \in ToSet(F[c]) /\ k > Len(P[c]) /\ s.objects_free = 0
    BY <1>1, <1>5 DEF ListsApart
  <2>2. Counted(c, s)
    BY <1>1, <2>1 DEF ListsApart
  <2>3. (s.objects_free = 0) <=> (k > Len(P[c]))
    BY <1>8, <2>1
  <2>4. ASSUME NEW d \in Caches, NEW l \in DOMAIN slabs(d), slabs(d)[l].s_mem = s.s_mem PROVE c = d /\ k = l
    <3> DEFINE t == slabs(d)[l]
    <3>1. CASE k <= Len(P[c]) /\ l <= Len(P[d])
      <4>1. k \in DOMAIN P[c] /\ s = P[c][k] /\ s \in ToSet(P[c])
        BY <1>5, <1>8, <3>1
      <4>2. l \in DOMAIN P[d] /\ t = P[d][l] /\ t \in ToSet(P[d])
        BY <1>5, <1>8, <3>1
      <4>3. c = d
        BY <1>1, <2>4, <4>1, <4>2 DEF ListsApart
      <4>4. QED BY <1>1, <2>4, <4>1, <4>2, <4>3 DEF ListsApart, Alone
    <3>2. CASE k > Len(P[c]) /\ l > Len(P[d])
      <4>1. k - Len(P[c]) \in DOMAIN F[c] /\ s = F[c][k - Len(P[c])] /\ s \in ToSet(F[c])
        BY <1>5, <1>8, <3>2
      <4>2. l - Len(P[d]) \in DOMAIN F[d] /\ t = F[d][l - Len(P[d])] /\ t \in ToSet(F[d])
        BY <1>5, <1>8, <3>2
      <4>3. c = d
        BY <1>1, <2>4, <4>1, <4>2 DEF ListsApart
      <4>4. k - Len(P[c]) = l - Len(P[c])
        BY <1>1, <2>4, <4>1, <4>2, <4>3 DEF ListsApart, Alone
      <4>5. QED BY <1>8, <4>3, <4>4
    <3>3. CASE k <= Len(P[c]) /\ l > Len(P[d])
      <4>1. s \in ToSet(P[c]) /\ t \in ToSet(F[d])
        BY <1>5, <1>8, <3>3
      <4>2. QED BY <1>1, <2>4, <4>1 DEF ListsApart
    <3>4. CASE k > Len(P[c]) /\ l <= Len(P[d])
      <4>1. s \in ToSet(F[c]) /\ t \in ToSet(P[d])
        BY <1>5, <1>8, <3>4
      <4>2. QED BY <1>1, <2>4, <4>1 DEF ListsApart
    <3>5. QED BY <1>8, <3>1, <3>2, <3>3, <3>4
  <2>5. QED BY <2>2, <2>3, <2>4 DEF Counted
<1>7. ASSUME NEW o \in heldObjects
      PROVE  o[3] < ObjsOfSize[o[1]] /\ \E s \in ToSet(slabs(o[1])) : s.s_mem = o[2] /\ o[3] \in s.free_bitmap
  <2>1. Marked(P, F, o) /\ o[1] \in Caches
    BY <1>1 DEF Marked
  <2>2. QED BY <1>3, <2>1 DEF Marked
<1>9. QED BY <1>4, <1>6, <1>7 DEF SlabsSound, slabs, P, F

-----------------------------------------------------------------------------
(* LRU lists *)

PageOrNull == LruPages \union {NULL}
Link == [next : PageOrNull, prev : PageOrNull, status : ListNames, referenced : BOOLEAN]
Ends == [head : PageOrNull, tail : PageOrNull, count : Nat]

\* The i-th page of a sequence, NULL where there is none
Nth(q, i) == IF i \in DOMAIN q THEN q[i] ELSE NULL

Once(q) == \A i, j \in DOMAIN q : q[i] = q[j] => i = j

\* List l of m is the pages of q, linked in both directions
Linked(m, l, q) ==
  /\ m.lists[l].head = Nth(q, 1) /\ m.lists[l].tail = Nth(q, Len(q)) /\ m.lists[l].count = Len(q)
  /\ \A i \in DOMAIN q : m.links[q[i]].next = Nth(q, i + 1) /\ m.links[q[i]].prev = Nth(q, i - 1)

LruMemory == [lists : [ListNames -> Ends], links : [LruPages -> Link]]

Listed(m, Q) ==
  /\ m \in LruMemory /\ Q \in [ListNames -> Seq(LruPages)]
  /\ \A l \in ListNames : Once(Q[l])
  /\ \A l, k \in ListNames : l # k => \A i \in DOMAIN Q[l], j \in DOMAIN Q[k] : Q[l][i] # Q[k][j]
  /\ \A l \in ListNames : Linked(m, l, Q[l])

\* The pages of S are in the list of their status, and no other page is
Sorted(m, Q, S) ==
  \A l \in ListNames : \A p \in LruPages :
    (\E i \in DOMAIN Q[l] : Q[l][i] = p) <=> (p \in S /\ m.links[p].status = l)

Whole(m, S) ==
  S \subseteq LruPages /\ \E Q \in [ListNames -> Seq(LruPages)] : Listed(m, Q) /\ Sorted(m, Q, S)

LruInv == Whole(Memory, inMemory)

Relinked(r, n, v) == [r EXCEPT !.next = n, !.prev = v]
Remarked(r, s, f) == [r EXCEPT !.status = s, !.referenced = f]

LEMMA LinkFields ==
  ASSUME NEW r \in Link, NEW n \in PageOrNull, NEW v \in PageOrNull
  PROVE  LET t == Relinked(r, n, v) IN
         t \in Link /\ t.next = n /\ t.prev = v /\ t.status = r.status /\ t.referenced = r.referenced
<1>1. PICK a \in PageOrNull, b \in PageOrNull, s \in ListNames, f \in BOOLEAN :
        r = [next |-> a, prev |-> b, status |-> s, referenced |-> f]
  BY DEF Link
<1> DEFINE u == [r EXCEPT !.next = n]
           t == [r EXCEPT !.next = n, !.prev = v]
<1>2. u = [next |-> n, prev |-> b, status |-> s, referenced |-> f]
  BY <1>1
<1>3. t = [u EXCEPT !.prev = v]
  OBVIOUS
<1> HIDE DEF u, t
<1>4. t = [next |-> n, prev |-> v, status |-> s, referenced |-> f]
  BY <1>2, <1>3
<1>5. t \in Link
  BY <1>4 DEF Link
<1>6. QED BY <1>1, <1>4, <1>5 DEF t, Relinked

LEMMA LinkNext ==
  ASSUME NEW r \in Link, NEW n \in PageOrNull
  PROVE  /\ [r EXCEPT !.next = n] \in Link /\ [r EXCEPT !.next = n].next = n
         /\ [r EXCEPT !.next = n].prev = r.prev /\ [r EXCEPT !.next = n].status = r.status
BY DEF Link

LEMMA LinkPrev ==
  ASSUME NEW r \in Link, NEW n \in PageOrNull
  PROVE  /\ [r EXCEPT !.prev = n] \in Link /\ [r EXCEPT !.prev = n].prev = n
         /\ [r EXCEPT !.prev = n].next = r.next /\ [r EXCEPT !.prev = n].status = r.status
BY DEF Link

LEMMA LinkMarked ==
  ASSUME NEW r \in Link, NEW s \in ListNames, NEW f \in BOOLEAN
  PROVE  LET t == Remarked(r, s, f) IN
         t \in Link /\ t.next = r.next /\ t.prev = r.prev /\ t.status = s
<1>1. PICK a \in PageOrNull, b \in PageOrNull, z \in ListNames, g \in BOOLEAN :
        r = [next |-> a, prev |-> b, status |-> z, referenced |-> g]
  BY DEF Link
<1> DEFINE u == [r EXCEPT !.status = s]
           t == [r EXCEPT !.status = s, !.referenced = f]
<1>2. u = [next |-> a, prev |-> b, status |-> s, referenced |-> g]
  BY <1>1
<1>3. t = [u EXCEPT !.referenced = f]
  OBVIOUS
<1> HIDE DEF u, t
<1>4. t = [next |-> a, prev |-> b, status |-> s, referenced |-> f]
  BY <1>2, <1>3
<1>5. t \in Link
  BY <1>4 DEF Link
<1>6. QED BY <1>1, <1>4, <1>5 DEF t, Remarked

LEMMA NthFits == ASSUME NEW q \in Seq(LruPages), NEW i PROVE Nth(q, i) \in PageOrNull
BY DEF Nth, PageOrNull

\* Nth of a sequence with a page before it
LEMMA Prepended ==
  ASSUME NEW q \in Seq(LruPages), NEW p \in LruPages, Once(q), \A i \in DOMAIN q : q[i] # p
  PROVE  LET r == <<p>> \o q IN
         /\ r \in Seq(LruPages) /\ Len(r) = Len(q) + 1 /\ Once(r) /\ r[1] = p
         /\ DOMAIN r = 1 .. Len(q) + 1 /\ DOMAIN q = 1 .. Len(q) /\ Len(q) \in Nat
         /\ \A i \in 2 .. Len(q) + 1 : r[i] = q[i - 1]
         /\ \A i \in Nat \ {0} : Nth(r, i + 1) = Nth(q, i)
<1> DEFINE r == <<p>> \o q
<1>1. r \in Seq(LruPages) /\ Len(r) = Len(q) + 1 /\ r[1] = p /\ \A k \in 1 .. Len(q) : r[k + 1] = q[k]
  OBVIOUS
<1>2. DOMAIN r = 1 .. Len(q) + 1 /\ DOMAIN q = 1 .. Len(q) /\ Len(q) \in Nat
  BY <1>1
<1> HIDE DEF r
<1>3. ASSUME NEW i \in 2 .. Len(q) + 1 PROVE r[i] = q[i - 1] /\ i - 1 \in DOMAIN q
  <2>1. i - 1 \in 1 .. Len(q) /\ (i - 1) + 1 = i
    BY <1>2
  <2>2. QED BY <1>1, <1>2, <2>1
<1>4. ASSUME NEW i \in DOMAIN r, NEW j \in DOMAIN r, r[i] = r[j] PROVE i = j
  <2>1. CASE i = 1 \/ j = 1
    <3>1. \A k \in DOMAIN r : k # 1 => r[k] # p
      <4> TAKE k \in DOMAIN r
      <4> HAVE k # 1
      <4>1. k \in 2 .. Len(q) + 1
        BY <1>2
      <4>2. QED BY <1>3, <4>1
    <3>2. QED BY <1>1, <1>4, <2>1, <3>1
  <2>2. CASE i # 1 /\ j # 1
    <3>1. i \in 2 .. Len(q) + 1 /\ j \in 2 .. Len(q) + 1
      BY <1>2, <2>2
    <3>2. i - 1 = j - 1
      BY <1>3, <1>4, <3>1 DEF Once
    <3>3. QED BY <3>1, <3>2
  <2>3. QED BY <2>1, <2>2
<1>5. ASSUME NEW i \in Nat \ {0} PROVE Nth(r, i + 1) = Nth(q, i)
  BY <1>1, <1>2 DEF Nth
<1>6. QED BY <1>1, <1>2, <1>3, <1>4, <1>5 DEF r, Once

WithPage(Q, l, p) == [Q EXCEPT ![l] = <<p>> \o @]
WithoutNth(Q, l, h) == [Q EXCEPT ![l] = RemoveAt(@, h)]

LEMMA AddListed ==
  ASSUME NEW m, NEW Q, Listed(m, Q), NEW l \in ListNames, NEW p \in LruPages,
         \A k \in ListNames : \A i \in DOMAIN Q[k] : Q[k][i] # p
  PROVE  /\ Listed(AddHead(m, l, p), WithPage(Q, l, p))
         /\ \A x \in LruPages : AddHead(m, l, p).links[x].status = m.links[x].status
<1> DEFINE q == Q[l]
           r == <<p>> \o q
           Q1 == [Q EXCEPT ![l] = <<p>> \o @]
           top == m.lists[l].head
           m1 == AddHead(m, l, p)
<1>1. /\ m.lists \in [ListNames -> Ends] /\ m.links \in [LruPages -> Link] /\ Q \in [ListNames -> Seq(LruPages)]
      /\ q \in Seq(LruPages) /\ Once(q) /\ Linked(m, l, q) /\ top \in PageOrNull /\ NULL \in PageOrNull
  BY DEF Listed, LruMemory, Ends, PageOrNull
<1>2. /\ r \in Seq(LruPages) /\ Len(r) = Len(q) + 1 /\ Once(r) /\ r[1] = p
      /\ DOMAIN r = 1 .. Len(q) + 1 /\ DOMAIN q = 1 .. Len(q) /\ Len(q) \in Nat
      /\ \A i \in 2 .. Len(q) + 1 : r[i] = q[i - 1]
      /\ \A i \in Nat \ {0} : Nth(r, i + 1) = Nth(q, i)
  BY <1>1, Prepended
<1>0. \A i \in DOMAIN r : i # 1 => i \in 2 .. Len(q) + 1 /\ i - 1 \in DOMAIN q
  <2>1. DOMAIN r = 1 .. Len(q) + 1 /\ DOMAIN q = 1 .. Len(q) /\ Len(q) \in Nat
    BY <1>2
  <2> HIDE DEF r, q
  <2>2. QED BY <2>1
<1>3. Q1 \in [ListNames -> Seq(LruPages)] /\ Q1[l] = r /\ \A k \in ListNames \ {l} : Q1[k] = Q[k]
  BY <1>1, <1>2
<1>4. /\ m1.lists = [m.lists EXCEPT ![l] = [head |-> p, tail |-> IF @.tail = NULL THEN p ELSE @.tail,
                                            count |-> @.count + 1]]
      /\ m1.links = [x \in LruPages |->
                IF x = p THEN [m.links[p] EXCEPT !.next = top, !.prev = NULL]
                ELSE IF x = top THEN [m.links[x] EXCEPT !.prev = p] ELSE m.links[x]]
      /\ m1 = [lists |-> m1.lists, links |-> m1.links]
  BY DEF AddHead
<1> HIDE DEF r, Q1, m1
<1>5. m1.lists[l] = [head |-> p, tail |-> IF m.lists[l].tail = NULL THEN p ELSE m.lists[l].tail,
                     count |-> m.lists[l].count + 1]
  BY <1>1, <1>4
<1>6. /\ m1.lists[l].head = p /\ m1.lists[l].count = Len(q) + 1
      /\ m1.lists[l].tail = IF Nth(q, Len(q)) = NULL THEN p ELSE Nth(q, Len(q))
  BY <1>1, <1>5 DEF Linked
<1>7. \A k \in ListNames \ {l} : m1.lists[k] = m.lists[k]
  BY <1>1, <1>4
<1>8. m1.lists[l] \in Ends
  BY <1>1, <1>2, <1>5, <1>6, NthFits DEF Ends, PageOrNull
<1>9. m1.lists \in [ListNames -> Ends]
  <2>1. DOMAIN m1.lists = ListNames /\ \A k \in ListNames : m1.lists[k] \in Ends
    BY <1>1, <1>4, <1>7, <1>8
  <2>2. m1.lists = [k \in ListNames |-> m1.lists[k]]
    BY <1>1, <1>4
  <2>3. QED BY <2>1, <2>2
<1>10. top = Nth(q, 1)
  BY <1>1 DEF Linked
<1>11. /\ m1.links[p].next = top /\ m1.links[p].prev = NULL /\ m1.links[p] \in Link
       /\ m1.links[p].status = m.links[p].status
  <2>1. m1.links[p] = [m.links[p] EXCEPT !.next = top, !.prev = NULL]
    BY <1>4
  <2>2. m.links[p] \in Link
    BY <1>1
  <2> DEFINE R == m.links[p]
             t == Relinked(R, top, NULL)
  <2>3. R \in Link /\ top \in PageOrNull /\ NULL \in PageOrNull
    BY <1>1, <2>2
  <2>4. t \in Link /\ t.next = top /\ t.prev = NULL /\ t.status = R.status
    <3> HIDE DEF R, top
    <3> QED BY <2>3, LinkFields
  <2>5. m1.links[p] = t
    BY <2>1 DEF Relinked
  <2> HIDE DEF t
  <2>6. QED BY <2>4, <2>5
<1>12. ASSUME NEW x \in LruPages, x # p, x = top
       PROVE  /\ m1.links[x].prev = p /\ m1.links[x].next = m.links[x].next /\ m1.links[x] \in Link
              /\ m1.links[x].status = m.links[x].status
  <2>1. m1.links[x] = [m.links[x] EXCEPT !.prev = p]
    BY <1>4, <1>12
  <2>2. m.links[x] \in Link /\ p \in PageOrNull
    BY <1>1 DEF PageOrNull
  <2>3. QED BY <2>1, <2>2, LinkPrev
<1>13. \A x \in LruPages : x # p /\ x # top => m1.links[x] = m.links[x]
  BY <1>4
<1>14. m1 \in LruMemory
  <2>1. \A x \in LruPages : m1.links[x] \in Link
    BY <1>1, <1>11, <1>12, <1>13
  <2>2. m1.links = [x \in LruPages |-> m1.links[x]]
    BY <1>4
  <2>3. m1.links \in [LruPages -> Link]
    BY <2>1, <2>2
  <2>4. QED BY <1>4, <1>9, <2>3 DEF LruMemory
<1>15. Linked(m1, l, r)
  <2>1. m1.lists[l].head = Nth(r, 1) /\ m1.lists[l].count = Len(r)
    BY <1>2, <1>6 DEF Nth
  <2>2. m1.lists[l].tail = Nth(r, Len(r))
    <3>1. CASE Len(q) = 0
      <4>1. Nth(q, Len(q)) = NULL /\ Nth(r, Len(r)) = p
        BY <1>2, <3>1 DEF Nth
      <4>2. QED BY <1>6, <4>1
    <3>2. CASE Len(q) # 0
      <4>1. Len(q) \in DOMAIN q /\ Nth(q, Len(q)) = q[Len(q)] /\ q[Len(q)] \in LruPages
        BY <1>1, <1>2, <3>2 DEF Nth
      <4>2. Nth(r, Len(r)) = Nth(q, Len(q))
        BY <1>2, <3>2
      <4>3. QED BY <1>6, <4>1, <4>2, LruAssumption
    <3>3. QED BY <3>1, <3>2
  <2>3. ASSUME NEW i \in DOMAIN r
        PROVE  m1.links[r[i]].next = Nth(r, i + 1) /\ m1.links[r[i]].prev = Nth(r, i - 1)
    <3>1. CASE i = 1
      <4>1. Nth(r, i - 1) = NULL /\ Nth(r, i + 1) = Nth(q, 1)
        BY <1>2, <3>1 DEF Nth
      <4>2. QED BY <1>2, <1>10, <1>11, <3>1, <4>1
    <3>2. CASE i # 1
      <4>1. i \in 2 .. Len(q) + 1 /\ i - 1 \in DOMAIN q /\ r[i] = q[i - 1] /\ r[i] \in LruPages /\ r[i] # p
        BY <1>0, <1>1, <1>2, <3>2
      <4>2. m.links[r[i]].next = Nth(q, i) /\ m.links[r[i]].prev = Nth(q, i - 2)
        <5>1. (i - 1) + 1 = i /\ (i - 1) - 1 = i - 2
          BY <4>1
        <5>2. QED BY <1>1, <4>1, <5>1 DEF Linked
      <4>3. Nth(r, i + 1) = Nth(q, i)
        BY <1>2, <4>1
      <4>4. CASE i = 2
        <5>1. r[i] = top /\ Nth(r, i - 1) = p
          BY <1>2, <1>10, <4>1, <4>4 DEF Nth
        <5>2. QED BY <1>12, <4>1, <4>2, <4>3, <5>1
      <4>5. CASE i # 2
        <5>1. 1 \in DOMAIN q /\ i - 1 # 1 /\ top = q[1]
          BY <1>2, <1>10, <4>1, <4>5 DEF Nth
        <5>2. r[i] # top
          BY <1>1, <4>1, <5>1 DEF Once
        <5>3. Nth(r, i - 1) = Nth(q, i - 2)
          <6>1. i - 2 \in Nat \ {0} /\ (i - 2) + 1 = i - 1
            BY <4>1, <4>5
          <6>2. QED BY <1>2, <6>1
        <5>4. QED BY <1>13, <4>1, <4>2, <4>3, <5>2, <5>3
      <4>6. QED BY <4>4, <4>5
    <3>3. QED BY <3>1, <3>2
  <2>4. QED BY <2>1, <2>2, <2>3 DEF Linked
<1>16. ASSUME NEW k \in ListNames, k # l PROVE Linked(m1, k, Q[k])
  <2>1. \A i \in DOMAIN Q[k] : Q[k][i] \in LruPages /\ Q[k][i] # p
    BY <1>1
  <2>2. \A i \in DOMAIN Q[k] : Q[k][i] # top
    <3> SUFFICES ASSUME NEW i \in DOMAIN Q[k] PROVE Q[k][i] # top
      OBVIOUS
    <3>1. Q[k][i] # NULL
      BY <2>1, LruAssumption
    <3>2. CASE 1 \in DOMAIN q
      BY <1>10, <1>16, <3>2 DEF Listed, Nth
    <3>3. CASE 1 \notin DOMAIN q
      BY <1>10, <3>1, <3>3 DEF Nth
    <3>4. QED BY <3>2, <3>3
  <2>3. Linked(m, k, Q[k])
    BY DEF Listed
  <2>4. QED BY <1>7, <1>13, <1>16, <2>1, <2>2, <2>3 DEF Linked
<1>17. \A k \in ListNames : Once(Q1[k]) /\ Linked(m1, k, Q1[k])
  BY <1>2, <1>3, <1>15, <1>16 DEF Listed
<1>18. ASSUME NEW k \in ListNames, NEW j \in ListNames, k # j, NEW a \in DOMAIN Q1[k], NEW b \in DOMAIN Q1[j]
       PROVE  Q1[k][a] # Q1[j][b]
  <2>1. \A x \in DOMAIN r : r[x] = p \/ \E y \in DOMAIN q : r[x] = q[y]
    <3> TAKE x \in DOMAIN r
    <3>1. CASE x = 1
      BY <1>2, <3>1
    <3>2. CASE x # 1
      <4>1. x \in 2 .. Len(q) + 1 /\ x - 1 \in DOMAIN q
        BY <1>0, <3>2
      <4>2. QED BY <1>2, <4>1
    <3>3. QED BY <3>1, <3>2
  <2>2. \A c, d \in ListNames : c # d => \A x \in DOMAIN Q[c], y \in DOMAIN Q[d] : Q[c][x] # Q[d][y]
    BY DEF Listed
  <2>3. CASE k = l
    BY <1>3, <1>18, <2>1, <2>2, <2>3
  <2>4. CASE j = l
    BY <1>3, <1>18, <2>1, <2>2, <2>4
  <2>5. CASE k # l /\ j # l
    BY <1>3, <1>18, <2>2, <2>5
  <2>6. QED BY <2>3, <2>4, <2>5
<1>19. \A x \in LruPages : m1.links[x].status = m.links[x].status
  BY <1>11, <1>12, <1>13
<1>20. QED
  <2>1. Listed(m1, Q1)
    BY <1>3, <1>14, <1>17, <1>18 DEF Listed
  <2>2. QED BY <1>19, <2>1 DEF m1, Q1, WithPage

\* A sequence of pages without its k-th
LEMMA Shortened ==
  ASSUME NEW q \in Seq(LruPages), NEW k \in DOMAIN q, Once(q)
  PROVE  LET r == RemoveAt(q, k) IN
         /\ r \in Seq(LruPages) /\ Len(r) = Len(q) - 1 /\ Once(r)
         /\ DOMAIN r = 1 .. Len(q) - 1 /\ DOMAIN q = 1 .. Len(q) /\ Len(q) \in Nat
         /\ \A i \in DOMAIN r : r[i] = q[IF i < k THEN i ELSE i + 1]
         /\ \A i \in Nat : Nth(r, i) = Nth(q, IF i < k THEN i ELSE i + 1)
<1> DEFINE r == RemoveAt(q, k)
           Src(i) == IF i < k THEN i ELSE i + 1
<1>1. k \in 1 .. Len(q) /\ Len(q) \in Nat /\ DOMAIN q = 1 .. Len(q)
  OBVIOUS
<1>2. r \in Seq(LruPages) /\ Len(r) = Len(q) - 1 /\ \A i \in 1 .. Len(q) - 1 : r[i] = q[Src(i)]
  <2> DEFINE a == SubSeq(q, 1, k - 1)
             b == SubSeq(q, k + 1, Len(q))
  <2>1. a \in Seq(LruPages) /\ Len(a) = k - 1 /\ \A i \in 1 .. k - 1 : a[i] = q[i]
    BY <1>1
  <2>2. b \in Seq(LruPages) /\ Len(b) = Len(q) - k /\ \A i \in 1 .. Len(q) - k : b[i] = q[k + i]
    BY <1>1
  <2>3. r = a \o b
    BY DEF RemoveAt
  <2> HIDE DEF a, b, r
  <2>4. r \in Seq(LruPages) /\ Len(r) = Len(a) + Len(b)
    BY <2>1, <2>2, <2>3, ConcatProperties
  <2>5. ASSUME NEW i \in 1 .. Len(q) - 1 PROVE r[i] = q[Src(i)]
    <3>1. CASE i < k
      BY <1>1, <2>1, <2>2, <2>3, <3>1
    <3>2. CASE i >= k
      <4>1. r[i] = b[i - (k - 1)] /\ i - (k - 1) \in 1 .. Len(q) - k
        BY <1>1, <2>1, <2>2, <2>3, <3>2
      <4>2. b[i - (k - 1)] = q[k + (i - (k - 1))] /\ k + (i - (k - 1)) = i + 1
        BY <1>1, <2>2, <4>1
      <4>3. QED BY <1>1, <3>2, <4>1, <4>2
    <3>3. QED BY <1>1, <3>1, <3>2
  <2>6. QED BY <1>1, <2>1, <2>2, <2>4, <2>5
<1> HIDE DEF r
<1>3. DOMAIN r = 1 .. Len(q) - 1
  BY <1>1, <1>2
<1>4. ASSUME NEW i \in DOMAIN r, NEW j \in DOMAIN r, r[i] = r[j] PROVE i = j
  <2>1. Src(i) \in DOMAIN q /\ Src(j) \in DOMAIN q
    BY <1>1, <1>3
  <2>2. q[Src(i)] = q[Src(j)]
    BY <1>2, <1>3, <1>4
  <2>3. Src(i) = Src(j)
    <3> HIDE DEF Src
    <3> QED BY <2>1, <2>2 DEF Once
  <2>4. QED BY <1>1, <1>3, <2>3
<1>5. ASSUME NEW i \in Nat PROVE Nth(r, i) = Nth(q, Src(i))
  <2>1. i \in DOMAIN r <=> (i # 0 /\ i <= Len(q) - 1)
    BY <1>1, <1>3
  <2>2. Src(i) \in DOMAIN q <=> (i # 0 /\ i <= Len(q) - 1)
    BY <1>1
  <2>3. i \in DOMAIN r => r[i] = q[Src(i)]
    BY <1>2, <1>3
  <2> HIDE DEF Src
  <2>4. QED BY <2>1, <2>2, <2>3 DEF Nth
<1>6. QED BY <1>1, <1>2, <1>3, <1>4, <1>5 DEF r, Once

LEMMA NthIs ==
  ASSUME NEW q \in Seq(LruPages), Once(q), NEW i \in DOMAIN q, NEW j
  PROVE  (q[i] = Nth(q, j)) <=> (j = i)
<1>1. q[i] \in LruPages /\ q[i] # NULL
  BY LruAssumption
<1>2. CASE j \in DOMAIN q
  BY <1>2 DEF Nth, Once
<1>3. CASE j \notin DOMAIN q
  BY <1>1, <1>3 DEF Nth
<1>4. QED BY <1>2, <1>3

LEMMA RemoveListed ==
  ASSUME NEW m, NEW Q, Listed(m, Q), NEW l \in ListNames, NEW h \in DOMAIN Q[l]
  PROVE  /\ Listed(ListRemove(m, l, Q[l][h]), WithoutNth(Q, l, h))
         /\ \A x \in LruPages : ListRemove(m, l, Q[l][h]).links[x].status = m.links[x].status
<1> DEFINE q == Q[l]
           p == q[h]
           r == RemoveAt(q, h)
           Q1 == [Q EXCEPT ![l] = RemoveAt(@, h)]
           n == m.links[p].next
           v == m.links[p].prev
           m1 == ListRemove(m, l, p)
           Src(i) == IF i < h THEN i ELSE i + 1
<1>1. /\ m.lists \in [ListNames -> Ends] /\ m.links \in [LruPages -> Link] /\ Q \in [ListNames -> Seq(LruPages)]
      /\ q \in Seq(LruPages) /\ Once(q) /\ Linked(m, l, q) /\ NULL \in PageOrNull
  BY DEF Listed, LruMemory, Ends, PageOrNull
<1>2. /\ r \in Seq(LruPages) /\ Len(r) = Len(q) - 1 /\ Once(r)
      /\ DOMAIN r = 1 .. Len(q) - 1 /\ DOMAIN q = 1 .. Len(q) /\ Len(q) \in Nat
      /\ \A i \in DOMAIN r : r[i] = q[Src(i)]
      /\ \A i \in Nat : Nth(r, i) = Nth(q, Src(i))
  BY <1>1, Shortened
<1>3. Q1 \in [ListNames -> Seq(LruPages)] /\ Q1[l] = r /\ \A k \in ListNames \ {l} : Q1[k] = Q[k]
  BY <1>1, <1>2
<1>4. /\ m1.lists = [m.lists EXCEPT ![l] = [head |-> IF v = NULL THEN n ELSE @.head,
                                            tail |-> IF n = NULL THEN v ELSE @.tail, count |-> @.count - 1]]
      /\ m1.links = [x \in LruPages |->
                IF x = p THEN Relinked(m.links[p], NULL, NULL)
                ELSE IF x = v THEN [m.links[x] EXCEPT !.next = n]
                ELSE IF x = n THEN [m.links[x] EXCEPT !.prev = v] ELSE m.links[x]]
      /\ m1 = [lists |-> m1.lists, links |-> m1.links]
  BY DEF ListRemove, Relinked
<1>5. n = Nth(q, h + 1) /\ v = Nth(q, h - 1) /\ h \in 1 .. Len(q) /\ p \in LruPages
  BY <1>1, <1>2 DEF Linked
<1>6. n \in PageOrNull /\ v \in PageOrNull /\ m.links[p] \in Link
  BY <1>1, <1>5, NthFits
<1> HIDE DEF r, Q1, m1, n, v
<1>0. /\ h \in Nat \ {0} /\ h <= Len(q) /\ Len(q) \in Nat
      /\ DOMAIN q = 1 .. Len(q) /\ DOMAIN r = 1 .. Len(q) - 1 /\ Len(r) = Len(q) - 1
  <2>1. h \in 1 .. Len(q) /\ Len(q) \in Nat
    BY <1>2, <1>5
  <2>2. h \in Nat \ {0} /\ h <= Len(q)
    BY <2>1
  <2>3. QED BY <1>2, <2>2
<1>7. /\ m1.lists[l].head = IF v = NULL THEN n ELSE Nth(q, 1)
      /\ m1.lists[l].tail = IF n = NULL THEN v ELSE Nth(q, Len(q))
      /\ m1.lists[l].count = Len(q) - 1
      /\ m1.lists[l] = [head |-> m1.lists[l].head, tail |-> m1.lists[l].tail, count |-> m1.lists[l].count]
  <2>1. m1.lists[l] = [head |-> IF v = NULL THEN n ELSE m.lists[l].head,
                       tail |-> IF n = NULL THEN v ELSE m.lists[l].tail, count |-> m.lists[l].count - 1]
    BY <1>1, <1>4
  <2>2. QED BY <1>1, <2>1 DEF Linked
<1>8. \A k \in ListNames \ {l} : m1.lists[k] = m.lists[k]
  BY <1>1, <1>4
<1>9. m1.lists \in [ListNames -> Ends]
  <2>1. m1.lists[l].head \in PageOrNull /\ m1.lists[l].tail \in PageOrNull
    BY <1>1, <1>6, <1>7, NthFits
  <2>2. m1.lists[l].count \in Nat
    BY <1>2, <1>5, <1>7
  <2>3. m1.lists[l] \in Ends
    BY <1>7, <2>1, <2>2 DEF Ends
  <2>4. DOMAIN m1.lists = ListNames /\ \A k \in ListNames : m1.lists[k] \in Ends
    BY <1>1, <1>4, <1>8, <2>3
  <2>5. m1.lists = [k \in ListNames |-> m1.lists[k]]
    BY <1>1, <1>4
  <2>6. QED BY <2>4, <2>5
<1>10. m1.links[p] \in Link /\ m1.links[p].status = m.links[p].status
  <2> DEFINE R == m.links[p]
             t == Relinked(R, NULL, NULL)
  <2>1. m1.links[p] = t
    BY <1>4, <1>5
  <2>2. t \in Link /\ t.status = R.status
    <3>1. R \in Link
      BY <1>6
    <3> HIDE DEF R
    <3>2. QED BY <1>1, <3>1, LinkFields
  <2> HIDE DEF t
  <2>3. QED BY <2>1, <2>2
<1>11. ASSUME NEW x \in LruPages, x # p, x = v
       PROVE  /\ m1.links[x].next = n /\ m1.links[x].prev = m.links[x].prev /\ m1.links[x] \in Link
              /\ m1.links[x].status = m.links[x].status
  <2>1. m1.links[x] = [m.links[x] EXCEPT !.next = n]
    BY <1>4, <1>11
  <2>2. m.links[x] \in Link
    BY <1>1
  <2>3. QED BY <1>6, <2>1, <2>2, LinkNext
<1>12. ASSUME NEW x \in LruPages, x # p, x # v, x = n
       PROVE  /\ m1.links[x].prev = v /\ m1.links[x].next = m.links[x].next /\ m1.links[x] \in Link
              /\ m1.links[x].status = m.links[x].status
  <2>1. m1.links[x] = [m.links[x] EXCEPT !.prev = v]
    BY <1>4, <1>12
  <2>2. m.links[x] \in Link
    BY <1>1
  <2>3. QED BY <1>6, <2>1, <2>2, LinkPrev
<1>13. \A x \in LruPages : x # p /\ x # v /\ x # n => m1.links[x] = m.links[x]
  BY <1>4
<1>14. m1 \in LruMemory
  <2>1. \A x \in LruPages : m1.links[x] \in Link
    BY <1>1, <1>10, <1>11, <1>12, <1>13
  <2>2. m1.links = [x \in LruPages |-> m1.links[x]]
    BY <1>4
  <2>3. m1.links \in [LruPages -> Link]
    BY <2>1, <2>2
  <2>4. QED BY <1>4, <1>9, <2>3 DEF LruMemory
<1>15. Linked(m1, l, r)
  <2>1. m1.lists[l].count = Len(r)
    BY <1>2, <1>7
  <2>2. m1.lists[l].head = Nth(r, 1)
    <3>1. CASE h = 1
      <4>1. v = NULL /\ n = Nth(q, 2) /\ Nth(r, 1) = Nth(q, 2)
        BY <1>2, <1>5, <3>1 DEF Nth
      <4>2. QED BY <1>7, <4>1
    <3>2. CASE h # 1
      <4>1. h - 1 \in DOMAIN q /\ v = q[h - 1] /\ Nth(r, 1) = Nth(q, 1)
        BY <1>2, <1>5, <3>2 DEF Nth
      <4>2. v # NULL
        BY <1>1, <4>1, LruAssumption
      <4>3. QED BY <1>7, <4>1, <4>2
    <3>3. QED BY <3>1, <3>2
  <2>3. m1.lists[l].tail = Nth(r, Len(r))
    <3>1. CASE h = Len(q)
      <4>3. n = NULL
        BY <1>0, <1>5, <3>1 DEF Nth
      <4>4. Len(q) - 1 \in Nat /\ Src(Len(q) - 1) = Len(q) - 1
        BY <1>0, <3>1
      <4>1. n = NULL /\ Nth(r, Len(q) - 1) = Nth(q, Len(q) - 1)
        <5> HIDE DEF Src
        <5> QED BY <1>2, <4>3, <4>4
      <4>2. QED BY <1>2, <1>5, <1>7, <3>1, <4>1
    <3>2. CASE h # Len(q)
      <4>1. h + 1 \in DOMAIN q /\ n = q[h + 1]
        BY <1>2, <1>5, <3>2 DEF Nth
      <4>2. Nth(r, Len(q) - 1) = Nth(q, Len(q))
        <5>1. Len(q) - 1 \in Nat /\ Src(Len(q) - 1) = Len(q)
          BY <1>0, <3>2
        <5> HIDE DEF Src
        <5>2. QED BY <1>2, <5>1
      <4>3. n # NULL
        BY <1>1, <4>1, LruAssumption
      <4>4. QED BY <1>2, <1>7, <4>2, <4>3
    <3>3. QED BY <3>1, <3>2
  <2>4. ASSUME NEW i \in DOMAIN r
        PROVE  m1.links[r[i]].next = Nth(r, i + 1) /\ m1.links[r[i]].prev = Nth(r, i - 1)
    <3> DEFINE j == Src(i)
               x == q[j]
    <3>9. i \in Nat \ {0} /\ i <= Len(q) - 1
      BY <1>0
    <3>10. j \in DOMAIN q /\ j # h /\ i + 1 \in Nat /\ i - 1 \in Nat
      BY <1>0, <3>9
    <3>11. r[i] = x
      BY <1>2
    <3>1. i \in Nat \ {0} /\ j \in DOMAIN q /\ j # h /\ r[i] = x /\ i + 1 \in Nat /\ i - 1 \in Nat
      <4> HIDE DEF j, x
      <4> QED BY <3>9, <3>10, <3>11
    <3>2. Nth(r, i + 1) = Nth(q, Src(i + 1)) /\ Nth(r, i - 1) = Nth(q, Src(i - 1))
      <4> HIDE DEF Src
      <4> QED BY <1>2, <3>1
    <3>3. (x = p <=> j = h) /\ (x = v <=> j = h - 1) /\ (x = n <=> j = h + 1) /\ x \in LruPages
      <4> HIDE DEF Src, j
      <4>1. x = v <=> h - 1 = j
        BY <1>1, <1>5, <3>1, NthIs
      <4>2. x = n <=> h + 1 = j
        BY <1>1, <1>5, <3>1, NthIs
      <4>3. x = p <=> j = h
        BY <1>1, <3>1 DEF Once
      <4>4. QED BY <1>1, <3>1, <4>1, <4>2, <4>3
    <3>4. m.links[x].next = Nth(q, j + 1) /\ m.links[x].prev = Nth(q, j - 1)
      <4> HIDE DEF Src, j
      <4> QED BY <1>1, <3>1 DEF Linked
    <3>5. CASE j = h - 1
      <4>1. Src(i + 1) = h + 1 /\ Src(i - 1) = j - 1
        BY <1>0, <3>9, <3>5
      <4> HIDE DEF Src, j, x
      <4>2. m1.links[x].next = n /\ m1.links[x].prev = m.links[x].prev
        BY <1>11, <3>1, <3>3, <3>5
      <4>3. QED BY <1>5, <3>1, <3>2, <3>4, <4>1, <4>2
    <3>6. CASE j = h + 1
      <4>1. Src(i + 1) = j + 1 /\ Src(i - 1) = h - 1
        BY <1>0, <3>9, <3>6
      <4>5. j # h - 1
        BY <1>0, <3>6
      <4> HIDE DEF Src, j, x
      <4>2. m1.links[x].prev = v /\ m1.links[x].next = m.links[x].next
        BY <1>12, <3>1, <3>3, <3>6, <4>5
      <4>3. QED BY <1>5, <3>1, <3>2, <3>4, <4>1, <4>2
    <3>7. CASE j # h - 1 /\ j # h + 1
      <4>1. Src(i + 1) = j + 1 /\ Src(i - 1) = j - 1
        BY <1>0, <3>9, <3>7
      <4> HIDE DEF Src, j, x
      <4>2. m1.links[x] = m.links[x]
        BY <1>13, <3>1, <3>3, <3>7
      <4>3. QED BY <3>1, <3>2, <3>4, <4>1, <4>2
    <3>8. QED BY <3>5, <3>6, <3>7
  <2>5. QED BY <2>1, <2>2, <2>3, <2>4 DEF Linked
<1>16. ASSUME NEW k \in ListNames, k # l PROVE Linked(m1, k, Q[k])
  <2>1. \A i \in DOMAIN Q[k] : Q[k][i] \in LruPages /\ Q[k][i] # p /\ Q[k][i] # NULL
    BY <1>1, <1>16, LruAssumption DEF Listed
  <2>2. \A i \in DOMAIN Q[k] : \A j : Q[k][i] # Nth(q, j)
    BY <1>16, <2>1 DEF Listed, Nth
  <2>3. \A i \in DOMAIN Q[k] : Q[k][i] # n /\ Q[k][i] # v
    BY <1>5, <2>2
  <2>4. Linked(m, k, Q[k])
    BY DEF Listed
  <2>5. QED BY <1>8, <1>13, <1>16, <2>1, <2>3, <2>4 DEF Linked
<1>17. \A k \in ListNames : Once(Q1[k]) /\ Linked(m1, k, Q1[k])
  BY <1>2, <1>3, <1>15, <1>16 DEF Listed
<1>18. ASSUME NEW k \in ListNames, NEW j \in ListNames, k # j, NEW a \in DOMAIN Q1[k], NEW b \in DOMAIN Q1[j]
       PROVE  Q1[k][a] # Q1[j][b]
  <2>1. \A x \in DOMAIN r : \E y \in DOMAIN q : r[x] = q[y]
    <3> TAKE x \in DOMAIN r
    <3>1. Src(x) \in DOMAIN q
      BY <1>0
    <3>3. r[x] = q[Src(x)]
      BY <1>2
    <3> HIDE DEF Src
    <3>2. QED BY <3>1, <3>3
  <2>2. \A c, d \in ListNames : c # d => \A x \in DOMAIN Q[c], y \in DOMAIN Q[d] : Q[c][x] # Q[d][y]
    BY DEF Listed
  <2>3. CASE k = l
    BY <1>3, <1>18, <2>1, <2>2, <2>3
  <2>4. CASE j = l
    BY <1>3, <1>18, <2>1, <2>2, <2>4
  <2>5. CASE k # l /\ j # l
    BY <1>3, <1>18, <2>2, <2>5
  <2>6. QED BY <2>3, <2>4, <2>5
<1>19. \A x \in LruPages : m1.links[x].status = m.links[x].status
  BY <1>10, <1>11, <1>12, <1>13
<1>20. QED
  <2>1. Listed(m1, Q1)
    BY <1>3, <1>14, <1>17, <1>18 DEF Listed
  <2>2. QED BY <1>19, <2>1 DEF m1, Q1, WithoutNth

LEMMA MarkIs ==
  ASSUME NEW m \in LruMemory, NEW p \in LruPages, NEW s \in ListNames, NEW f \in BOOLEAN
  PROVE  LET t == Mark(m, p, s, f) IN
         /\ t \in LruMemory /\ t.lists = m.lists
         /\ t.links[p].next = m.links[p].next /\ t.links[p].prev = m.links[p].prev /\ t.links[p].status = s
         /\ \A x \in LruPages : x # p => t.links[x] = m.links[x]
<1>1. PICK L \in [ListNames -> Ends], KK \in [LruPages -> Link] : m = [lists |-> L, links |-> KK]
  BY DEF LruMemory
<1> DEFINE u == [m EXCEPT !.links[p].status = s]
           G == [KK EXCEPT ![p] = [KK[p] EXCEPT !.status = s]]
           H == [G EXCEPT ![p] = [G[p] EXCEPT !.referenced = f]]
           t == Mark(m, p, s, f)
           w == Remarked(KK[p], s, f)
<1>2. u = [lists |-> L, links |-> G]
  BY <1>1
<1>3. t = [u EXCEPT !.links[p].referenced = f]
  BY DEF Mark
<1>4. KK[p] \in Link
  OBVIOUS
<1>5. G[p] = [KK[p] EXCEPT !.status = s] /\ \A x \in LruPages : x # p => G[x] = KK[x]
  OBVIOUS
<1>6. w = [[KK[p] EXCEPT !.status = s] EXCEPT !.referenced = f]
  BY DEF Remarked
<1>7. DOMAIN G = LruPages
  OBVIOUS
<1> HIDE DEF u, G, t, w
<1>8. t = [lists |-> L, links |-> H]
  BY <1>2, <1>3
<1>9. H[p] = w /\ \A x \in LruPages : x # p => H[x] = KK[x]
  BY <1>5, <1>6, <1>7
<1>10. DOMAIN H = LruPages /\ H = [x \in LruPages |-> H[x]]
  BY <1>7
<1> HIDE DEF H
<1>11. w \in Link /\ w.next = KK[p].next /\ w.prev = KK[p].prev /\ w.status = s
  BY <1>4, LinkMarked DEF w
<1>12. H \in [LruPages -> Link]
  <2>1. \A x \in LruPages : H[x] \in Link
    BY <1>9, <1>11
  <2>2. QED BY <1>10, <2>1
<1>13. t \in LruMemory
  BY <1>8, <1>12 DEF LruMemory
<1>14. QED BY <1>1, <1>8, <1>9, <1>11, <1>13 DEF t

LEMMA MarkListed ==
  ASSUME NEW m, NEW Q, Listed(m, Q), NEW p \in LruPages, NEW s \in ListNames, NEW f \in BOOLEAN
  PROVE  Listed(Mark(m, p, s, f), Q)
<1> DEFINE t == Mark(m, p, s, f)
<1>1. m \in LruMemory
  BY DEF Listed
<1>2. /\ t \in LruMemory /\ t.lists = m.lists
      /\ t.links[p].next = m.links[p].next /\ t.links[p].prev = m.links[p].prev
      /\ \A x \in LruPages : x # p => t.links[x] = m.links[x]
  BY <1>1, MarkIs
<1> HIDE DEF t
<1>3. \A x \in LruPages : t.links[x].next = m.links[x].next /\ t.links[x].prev = m.links[x].prev
  BY <1>2
<1>4. ASSUME NEW l \in ListNames PROVE Linked(t, l, Q[l])
  <2>1. Linked(m, l, Q[l]) /\ \A i \in DOMAIN Q[l] : Q[l][i] \in LruPages
    BY DEF Listed
  <2>2. QED BY <1>2, <1>3, <2>1 DEF Linked
<1>5. QED BY <1>2, <1>4 DEF Listed, t

\* The three steps the operations are made of, on memory that is whole
LEMMA AddWhole ==
  ASSUME NEW m, NEW S, Whole(m, S), NEW p \in LruPages \ S, NEW l \in ListNames, m.links[p].status = l
  PROVE  Whole(AddHead(m, l, p), S \union {p}) /\ AddHead(m, l, p).links[p].status = l
<1>1. PICK Q \in [ListNames -> Seq(LruPages)] : Listed(m, Q) /\ Sorted(m, Q, S)
  BY DEF Whole
<1> DEFINE m1 == AddHead(m, l, p)
           q == Q[l]
           r == <<p>> \o q
           Q1 == WithPage(Q, l, p)
<1>2. \A k \in ListNames : \A i \in DOMAIN Q[k] : Q[k][i] # p
  BY <1>1 DEF Sorted
<1>3. Listed(m1, Q1) /\ \A x \in LruPages : m1.links[x].status = m.links[x].status
  BY <1>1, <1>2, AddListed
<1>4. Q1 \in [ListNames -> Seq(LruPages)]
  BY <1>3 DEF Listed
<1>5. q \in Seq(LruPages) /\ Once(q) /\ Q1[l] = r /\ \A k \in ListNames \ {l} : Q1[k] = Q[k]
  BY <1>1 DEF Listed, WithPage
<1>6. /\ Len(q) \in Nat /\ DOMAIN r = 1 .. Len(q) + 1 /\ DOMAIN q = 1 .. Len(q) /\ r[1] = p
      /\ \A i \in 2 .. Len(q) + 1 : r[i] = q[i - 1]
  BY <1>2, <1>5, Prepended
<1> HIDE DEF m1, r, Q1, q
<1>7. ASSUME NEW x \in LruPages
      PROVE  (\E i \in DOMAIN r : r[i] = x) <=> (x = p \/ \E i \in DOMAIN q : q[i] = x)
  <2>1. ASSUME NEW i \in DOMAIN r, r[i] = x, x # p PROVE \E j \in DOMAIN q : q[j] = x
    <3>1. i # 1
      BY <1>6, <2>1
    <3>2. i \in 2 .. Len(q) + 1 /\ i - 1 \in DOMAIN q
      <4>1. DOMAIN r = 1 .. Len(q) + 1 /\ DOMAIN q = 1 .. Len(q) /\ Len(q) \in Nat
        BY <1>6
      <4>2. QED BY <3>1, <4>1
    <3>3. QED BY <1>6, <2>1, <3>2
  <2>2. ASSUME x = p PROVE \E i \in DOMAIN r : r[i] = x
    <3>1. 1 \in DOMAIN r
      BY <1>6
    <3>2. QED BY <1>6, <2>2, <3>1
  <2>3. ASSUME NEW j \in DOMAIN q, q[j] = x PROVE \E i \in DOMAIN r : r[i] = x
    <3>1. j + 1 \in DOMAIN r /\ j + 1 \in 2 .. Len(q) + 1 /\ (j + 1) - 1 = j
      <4>1. DOMAIN r = 1 .. Len(q) + 1 /\ DOMAIN q = 1 .. Len(q) /\ Len(q) \in Nat
        BY <1>6
      <4>2. QED BY <4>1
    <3>2. r[j + 1] = x
      BY <1>6, <2>3, <3>1
    <3>3. QED BY <3>1, <3>2
  <2>4. QED BY <2>1, <2>2, <2>3
<1>8. Sorted(m1, Q1, S \union {p})
  <2> SUFFICES ASSUME NEW k \in ListNames, NEW x \in LruPages
               PROVE  (\E i \in DOMAIN Q1[k] : Q1[k][i] = x) <=> (x \in S \union {p} /\ m1.links[x].status = k)
    BY DEF Sorted
  <2>1. (\E i \in DOMAIN Q[k] : Q[k][i] = x) <=> (x \in S /\ m.links[x].status = k)
    BY <1>1 DEF Sorted
  <2>2. CASE k = l
    BY <1>3, <1>5, <1>7, <2>1, <2>2 DEF q
  <2>3. CASE k # l
    BY <1>3, <1>5, <2>1, <2>3
  <2>4. QED BY <2>2, <2>3
<1>9. S \union {p} \subseteq LruPages
  BY DEF Whole
<1>10. QED BY <1>3, <1>4, <1>8, <1>9 DEF Whole, m1

LEMMA RemoveWhole ==
  ASSUME NEW m, NEW S, Whole(m, S), NEW p \in S, NEW l \in ListNames, m.links[p].status = l
  PROVE  /\ Whole(ListRemove(m, l, p), S \ {p}) /\ ListRemove(m, l, p).links[p].status = l
         /\ ListRemove(m, l, p) \in LruMemory
<1>1. PICK Q \in [ListNames -> Seq(LruPages)] : Listed(m, Q) /\ Sorted(m, Q, S)
  BY DEF Whole
<1>2. p \in LruPages
  BY DEF Whole
<1>3. PICK h \in DOMAIN Q[l] : Q[l][h] = p
  BY <1>1, <1>2 DEF Sorted
<1> DEFINE m1 == ListRemove(m, l, p)
           q == Q[l]
           r == RemoveAt(q, h)
           Q1 == WithoutNth(Q, l, h)
<1>4. Listed(m1, Q1) /\ \A x \in LruPages : m1.links[x].status = m.links[x].status
  <2>1. /\ Listed(ListRemove(m, l, Q[l][h]), Q1)
        /\ \A x \in LruPages : ListRemove(m, l, Q[l][h]).links[x].status = m.links[x].status
    BY <1>1, <1>3, RemoveListed
  <2>2. QED BY <1>3, <2>1
<1>5. Q1 \in [ListNames -> Seq(LruPages)] /\ m1 \in LruMemory
  BY <1>4 DEF Listed
<1>6. q \in Seq(LruPages) /\ Once(q) /\ Q1[l] = r /\ \A k \in ListNames \ {l} : Q1[k] = Q[k]
  BY <1>1 DEF Listed, WithoutNth
<1>7. /\ DOMAIN r = 1 .. Len(q) - 1 /\ DOMAIN q = 1 .. Len(q) /\ Len(q) \in Nat
      /\ \A i \in DOMAIN r : r[i] = q[IF i < h THEN i ELSE i + 1]
  BY <1>6, Shortened
<1>8. q[h] = p /\ h \in 1 .. Len(q)
  BY <1>3, <1>7
<1> HIDE DEF m1, r, Q1, q
<1>9. ASSUME NEW x \in LruPages
      PROVE  (\E i \in DOMAIN r : r[i] = x) <=> (x # p /\ \E i \in DOMAIN q : q[i] = x)
  <2>0. DOMAIN r = 1 .. Len(q) - 1 /\ DOMAIN q = 1 .. Len(q) /\ Len(q) \in Nat
    BY <1>7
  <2>1. ASSUME NEW i \in DOMAIN r, r[i] = x PROVE x # p /\ \E j \in DOMAIN q : q[j] = x
    <3> DEFINE j == IF i < h THEN i ELSE i + 1
    <3>1. j \in DOMAIN q /\ j # h
      BY <1>8, <2>0
    <3>2. q[j] = x
      BY <1>7, <2>1
    <3> HIDE DEF j
    <3>3. x # p
      BY <1>6, <1>8, <2>0, <3>1, <3>2 DEF Once
    <3>4. QED BY <3>1, <3>2, <3>3
  <2>2. ASSUME NEW j \in DOMAIN q, q[j] = x, x # p PROVE \E i \in DOMAIN r : r[i] = x
    <3>1. j # h
      BY <1>8, <2>2
    <3>2. CASE j < h
      <4>1. j \in DOMAIN r /\ (IF j < h THEN j ELSE j + 1) = j
        BY <1>8, <2>0, <3>2
      <4>2. r[j] = x
        BY <1>7, <2>2, <4>1
      <4>3. QED BY <4>1, <4>2
    <3>3. CASE j > h
      <4>1. j - 1 \in DOMAIN r /\ (IF j - 1 < h THEN j - 1 ELSE (j - 1) + 1) = j
        BY <1>8, <2>0, <3>3
      <4>2. r[j - 1] = x
        BY <1>7, <2>2, <4>1
      <4>3. QED BY <4>1, <4>2
    <3>4. QED BY <1>8, <2>0, <3>1, <3>2, <3>3
  <2>3. QED BY <2>1, <2>2
<1>10. Sorted(m1, Q1, S \ {p})
  <2> SUFFICES ASSUME NEW k \in ListNames, NEW x \in LruPages
               PROVE  (\E i \in DOMAIN Q1[k] : Q1[k][i] = x) <=> (x \in S \ {p} /\ m1.links[x].status = k)
    BY DEF Sorted
  <2>1. (\E i \in DOMAIN Q[k] : Q[k][i] = x) <=> (x \in S /\ m.links[x].status = k)
    BY <1>1 DEF Sorted
  <2>2. CASE k = l
    BY <1>4, <1>6, <1>9, <2>1, <2>2 DEF q
  <2>3. CASE k # l
    BY <1>4, <1>6, <2>1, <2>3
  <2>4. QED BY <2>2, <2>3
<1>11. S \ {p} \subseteq LruPages
  BY DEF Whole
<1>12. QED BY <1>2, <1>4, <1>5, <1>10, <1>11 DEF Whole, m1

LEMMA MarkWhole ==
  ASSUME NEW m, NEW S, Whole(m, S), NEW p \in LruPages, NEW s \in ListNames, NEW f \in BOOLEAN,
         p \in S => m.links[p].status = s
  PROVE  Whole(Mark(m, p, s, f), S) /\ Mark(m, p, s, f).links[p].status = s
<1>1. PICK Q \in [ListNames -> Seq(LruPages)] : Listed(m, Q) /\ Sorted(m, Q, S)
  BY DEF Whole
<1> DEFINE t == Mark(m, p, s, f)
<1>2. Listed(t, Q)
  BY <1>1, MarkListed
<1>3. t.links[p].status = s /\ \A x \in LruPages : x # p => t.links[x] = m.links[x]
  <2>1. m \in LruMemory
    BY <1>1 DEF Listed
  <2>2. QED BY <2>1, MarkIs
<1> HIDE DEF t
<1>4. Sorted(t, Q, S)
  <2> SUFFICES ASSUME NEW k \in ListNames, NEW x \in LruPages
               PROVE  (\E i \in DOMAIN Q[k] : Q[k][i] = x) <=> (x \in S /\ t.links[x].status = k)
    BY DEF Sorted
  <2>1. (\E i \in DOMAIN Q[k] : Q[k][i] = x) <=> (x \in S /\ m.links[x].status = k)
    BY <1>1 DEF Sorted
  <2>2. QED BY <1>3, <2>1
<1>5. QED BY <1>2, <1>3, <1>4 DEF Whole, t

\* The tail of a list is a page of it
LEMMA TailIsIn ==
  ASSUME NEW m, NEW S, Whole(m, S), NEW l \in ListNames, m.lists[l].tail # NULL
  PROVE  m.lists[l].tail \in S /\ m.links[m.lists[l].tail].status = l
<1>1. PICK Q \in [ListNames -> Seq(LruPages)] : Listed(m, Q) /\ Sorted(m, Q, S)
  BY DEF Whole
<1> DEFINE q == Q[l]
<1>2. m.lists[l].tail = Nth(q, Len(q))
  BY <1>1 DEF Listed, Linked
<1>3. Len(q) \in DOMAIN q /\ m.lists[l].tail = q[Len(q)]
  BY <1>2 DEF Nth
<1>4. q[Len(q)] \in LruPages
  BY <1>1, <1>3
<1>5. QED BY <1>1, <1>3, <1>4 DEF Sorted

LEMMA LruInvInit == LruInit => LruInv
<1> SUFFICES ASSUME LruInit PROVE LruInv
  OBVIOUS
<1> DEFINE Q == [l \in ListNames |-> <<>>]
           m == Memory
<1>1. /\ m.lists = [l \in ListNames |-> [head |-> NULL, tail |-> NULL, count |-> 0]] /\ inMemory = {}
      /\ m.links = [p \in LruPages |-> [next |-> NULL, prev |-> NULL, status |-> "inactive", referenced |-> FALSE]]
      /\ m = [lists |-> m.lists, links |-> m.links]
  BY DEF Memory, LruInit
<1>2. "inactive" \in ListNames /\ NULL \in PageOrNull
  BY DEF ListNames, PageOrNull
<1>3. m \in LruMemory
  <2>1. [head |-> NULL, tail |-> NULL, count |-> 0] \in Ends
    BY <1>2 DEF Ends
  <2>2. [next |-> NULL, prev |-> NULL, status |-> "inactive", referenced |-> FALSE] \in Link
    BY <1>2 DEF Link
  <2> HIDE DEF m
  <2>3. m.lists \in [ListNames -> Ends] /\ m.links \in [LruPages -> Link]
    BY <1>1, <2>1, <2>2
  <2>4. QED BY <1>1, <2>3 DEF LruMemory
<1>4. Q \in [ListNames -> Seq(LruPages)] /\ \A l \in ListNames : Q[l] = <<>> /\ DOMAIN Q[l] = {} /\ Len(Q[l]) = 0
  OBVIOUS
<1> HIDE DEF m, Q
<1>5. \A l \in ListNames : Linked(m, l, Q[l]) /\ Once(Q[l])
  <2> SUFFICES ASSUME NEW l \in ListNames PROVE Linked(m, l, Q[l]) /\ Once(Q[l])
    OBVIOUS
  <2>1. m.lists[l].head = NULL /\ m.lists[l].tail = NULL /\ m.lists[l].count = 0
    BY <1>1
  <2>2. \A i : Nth(Q[l], i) = NULL
    BY <1>4 DEF Nth
  <2>3. QED BY <1>4, <2>1, <2>2 DEF Linked, Once
<1>6. Listed(m, Q)
  BY <1>3, <1>4, <1>5 DEF Listed
<1>7. Sorted(m, Q, inMemory)
  BY <1>1, <1>4 DEF Sorted
<1>8. QED BY <1>1, <1>4, <1>6, <1>7 DEF LruInv, Whole, m

LEMMA BecomesIs ==
  ASSUME NEW m, m \in LruMemory, Becomes(m) PROVE Memory' = m
<1>1. lists' = m.lists /\ links' = m.links
  BY DEF Becomes
<1>2. m = [lists |-> m.lists, links |-> m.links]
  BY DEF LruMemory
<1>3. QED BY <1>1, <1>2 DEF Memory

LEMMA WholeIsMemory == ASSUME NEW m, NEW S, Whole(m, S) PROVE m \in LruMemory /\ S \subseteq LruPages
BY DEF Whole, Listed

LEMMA LruStep == LruInv /\ [LruNext]_lruVars => LruInv'
<1> SUFFICES ASSUME LruInv, [LruNext]_lruVars PROVE Whole(Memory', inMemory')
  BY DEF LruInv
<1> DEFINE m == Memory
           S == inMemory
           A == "active"
           I == "inactive"
           no == FALSE
           yes == TRUE
<1>1. /\ Whole(m, S) /\ S \subseteq LruPages /\ A \in ListNames /\ I \in ListNames
      /\ m.lists = lists /\ m.links = links /\ yes \in BOOLEAN /\ no \in BOOLEAN
  BY WholeIsMemory DEF LruInv, ListNames, Memory
<1>2. ASSUME NEW m1, NEW S1, Whole(m1, S1), Becomes(m1), inMemory' = S1 PROVE Whole(Memory', inMemory')
  <2>1. Memory' = m1
    BY <1>2, WholeIsMemory, BecomesIs
  <2>2. QED BY <1>2, <2>1
<1>3. ASSUME NEW p \in LruPages, LruAddPage(p) PROVE Whole(Memory', inMemory')
  <2> DEFINE m1 == Mark(m, p, I, no)
             m2 == AddHead(m1, I, p)
  <2>1. p \notin S /\ Becomes(m2) /\ inMemory' = S \union {p}
    BY <1>3 DEF LruAddPage
  <2> HIDE DEF m, S, A, I, no, yes
  <2>2. Whole(m1, S) /\ m1.links[p].status = I
    BY <1>1, <2>1, MarkWhole
  <2> HIDE DEF m1
  <2>3. Whole(m2, S \union {p})
    BY <1>1, <2>1, <2>2, AddWhole
  <2> HIDE DEF m2
  <2>4. QED BY <1>2, <2>1, <2>3
<1>4. ASSUME NEW p \in LruPages, LruTouchPage(p) PROVE Whole(Memory', inMemory')
  <2>1. p \in S /\ inMemory' = S
    BY <1>4 DEF LruTouchPage
  <2>2. CASE links[p].status = "active"
    <3> DEFINE m1 == ListRemove(m, A, p)
               m2 == AddHead(m1, A, p)
    <3>1. Becomes(m2) /\ m.links[p].status = A
      BY <1>1, <1>4, <2>2 DEF LruTouchPage
    <3> HIDE DEF m, S, A, I, no, yes
    <3>2. Whole(m1, S \ {p}) /\ m1.links[p].status = A
      BY <1>1, <2>1, <3>1, RemoveWhole
    <3> HIDE DEF m1
    <3>3. Whole(m2, (S \ {p}) \union {p})
      BY <1>1, <3>2, AddWhole
    <3>4. (S \ {p}) \union {p} = S
      BY <2>1
    <3> HIDE DEF m2
    <3>5. QED BY <1>2, <2>1, <3>1, <3>3, <3>4
  <2>3. links[p].status # "active" => links[p].status = "inactive"
    <3>1. m \in LruMemory
      BY <1>1, WholeIsMemory
    <3>2. links[p] \in Link
      BY <1>1, <3>1 DEF LruMemory
    <3>3. QED BY <3>2 DEF Link, ListNames
  <2>4. CASE links[p].status # "active" /\ links[p].referenced
    <3> DEFINE m1 == ListRemove(m, I, p)
               m2 == Mark(m1, p, A, no)
               m3 == AddHead(m2, A, p)
    <3>1. Becomes(m3) /\ m.links[p].status = I
      BY <1>1, <1>4, <2>3, <2>4 DEF LruTouchPage
    <3> HIDE DEF m, S, A, I, no, yes
    <3>2. Whole(m1, S \ {p})
      BY <1>1, <2>1, <3>1, RemoveWhole
    <3> HIDE DEF m1
    <3>3. Whole(m2, S \ {p}) /\ m2.links[p].status = A
      <4>1. p \notin S \ {p}
        OBVIOUS
      <4>2. QED BY <1>1, <3>2, <4>1, MarkWhole
    <3> HIDE DEF m2
    <3>4. Whole(m3, (S \ {p}) \union {p})
      BY <1>1, <3>3, AddWhole
    <3>5. (S \ {p}) \union {p} = S
      BY <2>1
    <3> HIDE DEF m3
    <3>6. QED BY <1>2, <2>1, <3>1, <3>4, <3>5
  <2>5. CASE links[p].status # "active" /\ ~links[p].referenced
    <3> DEFINE m1 == Mark(m, p, I, yes)
    <3>1. Becomes(m1) /\ m.links[p].status = I
      BY <1>1, <1>4, <2>3, <2>5 DEF LruTouchPage
    <3> HIDE DEF m, S, A, I, no, yes
    <3>2. Whole(m1, S)
      BY <1>1, <3>1, MarkWhole
    <3> HIDE DEF m1
    <3>3. QED BY <1>2, <2>1, <3>1, <3>2
  <2>6. QED BY <2>2, <2>4, <2>5
<1>5. Whole(Demoted, S)
  <2> DEFINE p == lists["active"].tail
             m1 == ListRemove(m, A, p)
             m2 == Mark(m1, p, I, no)
             m3 == AddHead(m2, I, p)
  <2>1. Demoted = IF p = NULL THEN m ELSE m3
    BY DEF Demoted
  <2>2. CASE p = NULL
    BY <1>1, <2>1, <2>2
  <2>3. CASE p # NULL
    <3>1. p = m.lists[A].tail
      BY <1>1
    <3> HIDE DEF m, S, A, I, no, yes, p
    <3>2. p \in S /\ p \in LruPages /\ m.links[p].status = A
      BY <1>1, <2>3, <3>1, TailIsIn
    <3>3. Whole(m1, S \ {p})
      BY <1>1, <3>2, RemoveWhole
    <3> HIDE DEF m1
    <3>4. Whole(m2, S \ {p}) /\ m2.links[p].status = I
      <4>1. p \notin S \ {p}
        OBVIOUS
      <4>2. QED BY <1>1, <3>2, <3>3, <4>1, MarkWhole
    <3> HIDE DEF m2
    <3>5. Whole(m3, (S \ {p}) \union {p})
      BY <1>1, <3>2, <3>4, AddWhole
    <3>6. (S \ {p}) \union {p} = S
      BY <3>2
    <3>7. QED BY <2>1, <2>3, <3>5, <3>6
  <2>4. QED BY <2>2, <2>3
<1>6. ASSUME LruEvictPage PROVE Whole(Memory', inMemory')
  <2> DEFINE m1 == IF lists["inactive"].count = 0 THEN Demoted ELSE m
             victim == m1.lists["inactive"].tail
             m2 == ListRemove(m1, I, victim)
  <2>1. IF victim = NULL THEN Becomes(m1) /\ inMemory' = S ELSE Becomes(m2) /\ inMemory' = S \ {victim}
    BY <1>6 DEF LruEvictPage
  <2>2. Whole(m1, S)
    BY <1>1, <1>5
  <2>3. victim = m1.lists[I].tail
    OBVIOUS
  <2> HIDE DEF m, S, I, m1, victim
  <2>4. CASE victim = NULL
    BY <1>2, <2>1, <2>2, <2>4
  <2>5. CASE victim # NULL
    <3>1. victim \in S /\ m1.links[victim].status = I
      BY <1>1, <2>2, <2>3, <2>5, TailIsIn
    <3>2. Whole(m2, S \ {victim})
      BY <1>1, <2>2, <3>1, RemoveWhole
    <3> HIDE DEF m2
    <3>3. QED BY <1>2, <2>1, <2>5, <3>2
  <2>6. QED BY <2>4, <2>5
<1>7. CASE UNCHANGED lruVars
  BY <1>1, <1>7 DEF lruVars, Memory
<1>8. QED BY <1>3, <1>4, <1>6, <1>7 DEF LruNext

WalkBody(f, start, step) ==
  [n \in 1 .. (Cardinality(LruPages) + 1) |->
     IF n = 1 THEN start ELSE IF f[n - 1] = NULL THEN NULL ELSE links[f[n - 1]][step]]

\* A function that meets the equations of a walk is the walk
LEMMA WalkIs ==
  ASSUME NEW l, NEW start, NEW step, NEW g, g = WalkBody(g, start, step)
  PROVE  \A n \in 1 .. (Cardinality(LruPages) + 1) : Walk(l, start, step)[n] = g[n]
<1> DEFINE N == Cardinality(LruPages)
           D == 1 .. (N + 1)
           w == Walk(l, start, step)
<1>1. N \in Nat
  BY LruAssumption, FS_CardinalityType
<1>2. w = WalkBody(w, start, step)
  BY DEF Walk, WalkBody
<1>3. ASSUME NEW f, f = WalkBody(f, start, step)
      PROVE  f[1] = start /\ \A n \in D : n # 1 => f[n] = IF f[n - 1] = NULL THEN NULL ELSE links[f[n - 1]][step]
  <2>1. WalkBody(f, start, step)[1] = start
    BY <1>1 DEF WalkBody
  <2>2. \A n \in D : n # 1 =>
          WalkBody(f, start, step)[n] = IF f[n - 1] = NULL THEN NULL ELSE links[f[n - 1]][step]
    BY DEF WalkBody
  <2>3. f[1] = WalkBody(f, start, step)[1]
    BY <1>3
  <2>4. \A n \in D : f[n] = WalkBody(f, start, step)[n]
    BY <1>3
  <2>5. QED BY <2>1, <2>2, <2>3, <2>4
<1> HIDE DEF w, N
<1>4. w[1] = g[1]
  <2>1. w[1] = start
    BY <1>2, <1>3
  <2>2. g[1] = start
    BY <1>3
  <2>3. QED BY <2>1, <2>2
<1>5. ASSUME NEW n \in D, n # 1, w[n - 1] = g[n - 1] PROVE w[n] = g[n]
  <2>1. w[n] = IF w[n - 1] = NULL THEN NULL ELSE links[w[n - 1]][step]
    BY <1>2, <1>3, <1>5
  <2>2. g[n] = IF g[n - 1] = NULL THEN NULL ELSE links[g[n - 1]][step]
    BY <1>3, <1>5
  <2>3. QED BY <1>5, <2>1, <2>2
<1> DEFINE T == {k \in 0 .. N : w[k + 1] = g[k + 1]}
<1>6. \A k \in 0 .. N : k \in T
  <2>1. 0 \in T
    BY <1>1, <1>4
  <2>2. ASSUME NEW k \in 1 .. N, (k - 1) \in T PROVE k \in T
    <3>1. w[k] = g[k] /\ k + 1 \in D /\ k + 1 # 1 /\ (k + 1) - 1 = k /\ k \in 0 .. N
      <4>1. (k - 1) + 1 = k /\ k + 1 \in D /\ k + 1 # 1 /\ (k + 1) - 1 = k /\ k \in 0 .. N
        BY <1>1
      <4>2. QED BY <2>2, <4>1
    <3>2. w[k + 1] = g[k + 1]
      BY <1>5, <3>1
    <3>3. QED BY <3>1, <3>2
  <2> HIDE DEF T
  <2>3. QED BY <1>1, <2>1, <2>2, SetInduction
<1>7. ASSUME NEW n \in D PROVE w[n] = g[n]
  <2>1. n - 1 \in 0 .. N /\ (n - 1) + 1 = n
    BY <1>1
  <2>2. n - 1 \in T
    BY <1>6, <2>1
  <2>3. w[(n - 1) + 1] = g[(n - 1) + 1]
    BY <2>2
  <2>4. QED BY <2>1, <2>3
<1>8. QED BY <1>7 DEF w, N

LEMMA LruInvSound == LruInv => LruTypeOK /\ ListsSound
<1> SUFFICES ASSUME LruInv PROVE LruTypeOK /\ ListsSound
  OBVIOUS
<1> DEFINE m == Memory
           N == Cardinality(LruPages)
<1>1. PICK Q \in [ListNames -> Seq(LruPages)] : Listed(m, Q) /\ Sorted(m, Q, inMemory)
  BY DEF LruInv, Whole
<1>2. /\ inMemory \subseteq LruPages /\ lists = m.lists /\ links = m.links
      /\ links \in [LruPages -> Link] /\ N \in Nat
  <2>1. m \in LruMemory
    BY <1>1 DEF Listed
  <2>2. lists = m.lists /\ links = m.links
    BY DEF Memory
  <2> HIDE DEF m
  <2>3. links \in [LruPages -> Link]
    BY <2>1, <2>2 DEF LruMemory
  <2>4. inMemory \subseteq LruPages
    BY DEF LruInv, Whole
  <2>5. QED BY <2>2, <2>3, <2>4, LruAssumption, FS_CardinalityType
<1>3. LruTypeOK
  BY <1>2 DEF LruTypeOK, Link
<1> HIDE DEF m
<1>4. ASSUME NEW l \in ListNames
      PROVE  LET there == Walk(l, lists[l].head, "next")
                 back == Walk(l, lists[l].tail, "prev")
                 members == { p \in inMemory : links[p].status = l }
                 n == Cardinality(members)
             IN /\ lists[l].count = n /\ there[n + 1] = NULL /\ back[n + 1] = NULL
                /\ { there[i] : i \in 1..n } = members
                /\ \A i \in 1..n : there[i] = back[n + 1 - i]
  <2> DEFINE there == Walk(l, lists[l].head, "next")
             back == Walk(l, lists[l].tail, "prev")
             members == { p \in inMemory : links[p].status = l }
             q == Q[l]
             n == Len(q)
             D == 1 .. (N + 1)
             g == [i \in D |-> Nth(q, i)]
             h == [i \in D |-> Nth(q, n + 1 - i)]
  <2>1. /\ q \in Seq(LruPages) /\ Once(q)
        /\ lists[l].head = Nth(q, 1) /\ lists[l].tail = Nth(q, n) /\ lists[l].count = n
        /\ \A i \in DOMAIN q : links[q[i]].next = Nth(q, i + 1) /\ links[q[i]].prev = Nth(q, i - 1)
    BY <1>1, <1>2 DEF Listed, Linked
  <2>2. n \in Nat /\ DOMAIN q = 1 .. n
    BY <2>1
  <2>3. \A i \in DOMAIN q : q[i] \in members
    <3>1. \A i \in DOMAIN q : q[i] \in LruPages
      BY <2>1
    <3>2. QED BY <1>1, <1>2, <3>1 DEF Sorted
  <2>4. \A p \in members : \E i \in DOMAIN q : q[i] = p
    BY <1>1, <1>2 DEF Sorted
  <2>5. members \subseteq LruPages
    BY <1>2
  <2> HIDE DEF q, members
  <2>6. Cardinality(members) = n
    <3> DEFINE f == [i \in 1 .. n |-> q[i]]
    <3>1. f \in Bijection(1 .. n, members)
      <4>1. f \in [1 .. n -> members]
        BY <2>2, <2>3
      <4>2. \A i, j \in 1 .. n : f[i] = f[j] => i = j
        BY <2>1, <2>2 DEF Once
      <4>3. \A p \in members : \E i \in 1 .. n : f[i] = p
        BY <2>2, <2>4
      <4> HIDE DEF f, n
      <4>4. f \in Injection(1 .. n, members)
        BY <4>1, <4>2 DEF Injection, IsInjective
      <4>5. f \in Surjection(1 .. n, members)
        BY <4>1, <4>3 DEF Surjection
      <4>6. QED BY <4>4, <4>5 DEF Bijection
    <3>2. IsFiniteSet(1 .. n) /\ Cardinality(1 .. n) = n
      <4>1. 1 \in Int /\ n \in Int
        BY <2>2
      <4>2. IsFiniteSet(1 .. n) /\ Cardinality(1 .. n) = IF 1 > n THEN 0 ELSE n - 1 + 1
        BY <4>1, FS_Interval
      <4>3. QED BY <2>2, <4>2
    <3>3. ExistsBijection(1 .. n, members)
      BY <3>1 DEF ExistsBijection
    <3>4. QED BY <3>2, <3>3, FS_Bijection
  <2>7. n <= N
    <3>1. Cardinality(members) <= N
      BY <2>5, LruAssumption, FS_Subset
    <3>2. QED BY <2>6, <3>1
  <2>8. \A i : Nth(q, i) = NULL <=> i \notin DOMAIN q
    BY <2>1, LruAssumption DEF Nth
  <2>9. ASSUME NEW i \in D PROVE there[i] = Nth(q, i)
    <3> DEFINE start == lists[l].head
    <3>1. ASSUME NEW k \in D
          PROVE  g[k] = IF k = 1 THEN start ELSE IF g[k - 1] = NULL THEN NULL ELSE links[g[k - 1]]["next"]
      <4>1. CASE k = 1
        BY <2>1, <4>1
      <4>2. CASE k # 1
        <5>1. k - 1 \in D /\ (k - 1) + 1 = k /\ k - 1 \in Nat
          BY <1>2, <4>2
        <5>2. g[k] = Nth(q, k) /\ g[k - 1] = Nth(q, k - 1)
          BY <5>1
        <5>3. CASE k - 1 \in DOMAIN q
          <6>1. Nth(q, k - 1) = q[k - 1] /\ Nth(q, k - 1) # NULL
            BY <2>8, <5>3 DEF Nth
          <6>2. links[q[k - 1]].next = Nth(q, k)
            BY <2>1, <5>1, <5>3
          <6> HIDE DEF g
          <6>3. QED BY <4>2, <5>2, <6>1, <6>2
        <5>4. CASE k - 1 \notin DOMAIN q
          <6>1. k \notin DOMAIN q
            BY <2>2, <4>2, <5>1, <5>4
          <6> HIDE DEF g
          <6>2. QED BY <2>8, <4>2, <5>2, <5>4, <6>1
        <5>5. QED BY <5>3, <5>4
      <4>3. QED BY <4>1, <4>2
    <3>2. g = [k \in D |-> g[k]]
      OBVIOUS
    <3>3. g[i] = Nth(q, i)
      OBVIOUS
    <3> HIDE DEF g
    <3>4. g = WalkBody(g, start, "next")
      BY <3>1, <3>2 DEF WalkBody
    <3>5. there[i] = g[i]
      <4> HIDE DEF start
      <4>1. \A k \in D : Walk(l, start, "next")[k] = g[k]
        BY <3>4, WalkIs
      <4>2. QED BY <4>1 DEF start
    <3>6. QED BY <3>3, <3>5
  <2>10. ASSUME NEW i \in D PROVE back[i] = Nth(q, n + 1 - i)
    <3> DEFINE start == lists[l].tail
    <3>1. ASSUME NEW k \in D
          PROVE  h[k] = IF k = 1 THEN start ELSE IF h[k - 1] = NULL THEN NULL ELSE links[h[k - 1]]["prev"]
      <4>1. CASE k = 1
        <5>1. n + 1 - 1 = n
          BY <2>2
        <5>2. QED BY <2>1, <4>1, <5>1
      <4>2. CASE k # 1
        <5> DEFINE j == n + 1 - (k - 1)
        <5>1. k - 1 \in D /\ j - 1 = n + 1 - k /\ k - 1 \in Nat /\ k - 1 # 0 /\ j \in Int /\ j <= n
          BY <1>2, <2>2, <4>2
        <5>2. h[k] = Nth(q, j - 1) /\ h[k - 1] = Nth(q, j)
          BY <5>1
        <5> HIDE DEF j
        <5>3. CASE j \in DOMAIN q
          <6>1. Nth(q, j) = q[j] /\ Nth(q, j) # NULL
            BY <2>8, <5>3 DEF Nth
          <6>2. links[q[j]].prev = Nth(q, j - 1)
            BY <2>1, <5>1, <5>3
          <6> HIDE DEF h
          <6>3. QED BY <4>2, <5>2, <6>1, <6>2
        <5>4. CASE j \notin DOMAIN q
          <6>1. j - 1 \notin DOMAIN q
            BY <2>2, <4>2, <5>1, <5>4
          <6> HIDE DEF h
          <6>2. QED BY <2>8, <4>2, <5>2, <5>4, <6>1
        <5>5. QED BY <5>3, <5>4
      <4>3. QED BY <4>1, <4>2
    <3>2. h = [k \in D |-> h[k]]
      OBVIOUS
    <3>3. h[i] = Nth(q, n + 1 - i)
      OBVIOUS
    <3> HIDE DEF h
    <3>4. h = WalkBody(h, start, "prev")
      BY <3>1, <3>2 DEF WalkBody
    <3>5. back[i] = h[i]
      <4> HIDE DEF start
      <4>1. \A k \in D : Walk(l, start, "prev")[k] = h[k]
        BY <3>4, WalkIs
      <4>2. QED BY <4>1 DEF start
    <3>6. QED BY <3>3, <3>5
  <2> HIDE DEF there, back
  <2>11. there[n + 1] = NULL /\ back[n + 1] = NULL
    <3>1. n + 1 \in D /\ n + 1 \notin DOMAIN q /\ n + 1 - (n + 1) \notin DOMAIN q
      BY <1>2, <2>2, <2>7
    <3>2. QED BY <2>8, <2>9, <2>10, <3>1
  <2>12. \A i \in 1 .. n : i \in D /\ n + 1 - i \in D /\ n + 1 - (n + 1 - i) = i
    BY <1>2, <2>2, <2>7
  <2>13. \A i \in 1 .. n : there[i] = q[i]
    BY <2>2, <2>9, <2>12 DEF Nth
  <2>14. {there[i] : i \in 1 .. n} = members
    BY <2>2, <2>3, <2>4, <2>13
  <2>15. ASSUME NEW i \in 1 .. n PROVE there[i] = back[n + 1 - i]
    <3>1. back[n + 1 - i] = Nth(q, n + 1 - (n + 1 - i))
      BY <2>10, <2>12
    <3>2. QED BY <2>9, <2>12, <3>1
  <2>16. QED
    <3> HIDE DEF n
    <3> QED BY <2>1, <2>6, <2>11, <2>14, <2>15 DEF there, back, members
<1>5. QED BY <1>3, <1>4 DEF ListsSound
=============================================================================
