---------------------------- MODULE KernelTasks -----------------------------
(***************************************************************************)
(* The boot, the kernel threads it makes, the scheduler and the promises   *)
(* of pledge (init/all.c, init/kernel.c, kernel/task.c, sched.c,           *)
(* process.c, security.c, and the test module that pledges).  schedule     *)
(* changes current_task and nothing else: no context is switched.  It is   *)
(* called by the riscv timer trap and by do_exit.  Interrupts come on in   *)
(* the middle of init_all, before auth_init: so the table of users and the *)
(* session are here too (usr/auth.c).                                      *)
(***************************************************************************)
EXTENDS Integers, Sequences, SequencesExt, FiniteSets

CONSTANTS
  MAX_TASKS,  \* length of ready_queue
  MAX_USERS,  \* length of users
  Daemons,    \* the threads of k_main, in order
  TaskPages   \* pages that kmalloc can still give when the boot is over

\* Each thread of k_main has a structure of its own, and none is the swapper
TasksAssumption ==
  /\ MAX_TASKS \in Nat \ {0} /\ MAX_USERS \in Nat /\ TaskPages \in Nat
  /\ Daemons \in Seq(ToSet(Daemons)) /\ IsInjective(Daemons)
  /\ ToSet(Daemons) \cap {"none", "swapper", "modtest"} = {}
ASSUME TasksAssumption

VARIABLES
  stage,        \* how many steps of init_all and k_main are done
  ready,        \* subsystems that were initialised
  used,         \* history: subsystems that handlers and steps needed
  task,         \* task |-> [pid, state, pledge_active, pledge_mask]
  ready_queue,  \* queued tasks
  current_idx, current_task, next_pid,
  pagesLeft,
  halted,       \* do_exit has stopped the machine
  active_users, \* slots of users whose active is set
  current_user_index

taskVars == <<stage, ready, used, task, ready_queue, current_idx, current_task,
              next_pid, pagesLeft, halted, active_users, current_user_index>>
userTable == <<active_users, current_user_index>>

\* init_all and k_main: what each step initialises and what it uses
BootSteps ==
  << [name |-> "mm", uses |-> {}], [name |-> "arch", uses |-> {"mm"}],
     [name |-> "vfs", uses |-> {"mm"}], [name |-> "xfs", uses |-> {"mm", "vfs"}],
     [name |-> "tty", uses |-> {}], [name |-> "initramfs", uses |-> {"vfs", "xfs"}],
     [name |-> "session", uses |-> {}], [name |-> "tss", uses |-> {"arch"}],
     [name |-> "irq", uses |-> {"arch"}], [name |-> "auth", uses |-> {"tty"}],
     [name |-> "buses", uses |-> {"mm"}], [name |-> "fb", uses |-> {"vfs", "mm"}],
     [name |-> "initrd", uses |-> {"vfs", "xfs"}] >>

NoTask == "none"
Swapper == "swapper"
TestTask == "modtest"
TaskNames == {Swapper, TestTask} \union ToSet(Daemons)
NewTask(pid) == [pid |-> pid, state |-> "READY", pledge_active |-> FALSE, pledge_mask |-> {}]

TasksInit ==
  /\ stage = 0 /\ ready = {} /\ used = {}
  /\ task = [t \in TaskNames |-> NewTask(IF t = TestTask THEN 99 ELSE 0)]
  /\ ready_queue = <<>> /\ current_idx = 0 /\ current_task = NoTask /\ next_pid = 1
  /\ pagesLeft = TaskPages /\ halted = FALSE
  /\ active_users = {} /\ current_user_index = -1

Booted == stage >= Len(BootSteps)

\* The next step of init_all; the archive and the frame buffer may be missing.
\* Line 143 ends the session, auth_init empties the table of users
InitAllStep ==
  /\ ~halted /\ stage < Len(BootSteps)
  /\ LET s == BootSteps[stage + 1] IN
     /\ stage' = stage + 1
     /\ \/ used' = used \union s.uses /\ ready' = ready \union {s.name}
        \/ s.name \in {"initramfs", "fb", "initrd"} /\ UNCHANGED <<used, ready>>
     /\ active_users' = IF s.name = "auth" THEN {} ELSE active_users
     /\ current_user_index' = IF s.name = "session" THEN -1 ELSE current_user_index
  /\ UNCHANGED <<task, ready_queue, current_idx, current_task, next_pid, pagesLeft, halted>>

\* What a line of the shell does to the users: usr adds one in the first free slot,
\* login begins a session, logout and a switch of terminals end it
AddUser ==
  /\ active_users = {} \/ current_user_index /= -1
  /\ \E i \in (0..(MAX_USERS - 1)) \ active_users :
       /\ \A j \in (0..(MAX_USERS - 1)) \ active_users : i <= j
       /\ active_users' = active_users \union {i}
  /\ UNCHANGED current_user_index
LogIn ==
  /\ current_user_index = -1 /\ current_user_index' \in active_users
  /\ UNCHANGED active_users
LogOut == current_user_index' = -1 /\ UNCHANGED active_users

\* A key is pressed: the handler runs the shell
KeyboardIrq ==
  /\ "irq" \in ready /\ ~halted
  /\ used' = used \union {"mm", "vfs", "xfs", "tty", "session", "auth"}
  /\ AddUser \/ LogIn \/ LogOut \/ UNCHANGED userTable
  /\ UNCHANGED <<stage, ready, task, ready_queue, current_idx, current_task, next_pid,
                 pagesLeft, halted>>

\* k_main becomes the swapper: its task is a struct proc, cast to task_t.  pid and
\* state lie in the same places, the pledge does not: what k_main clears are other
\* fields, and what the scheduler's clients read lies behind proc0
BecomeSwapper ==
  /\ stage = Len(BootSteps) /\ ~halted
  /\ stage' = stage + 1
  /\ current_task' = Swapper
  /\ task' = [task EXCEPT ![Swapper].pid = 0, ![Swapper].state = "RUNNING"]
  /\ UNCHANGED <<ready, used, ready_queue, current_idx, next_pid, pagesLeft, halted>> /\ UNCHANGED userTable

Promises == {"stdio", "rpath", "wpath", "cpath", "drv"}

\* Whoever owns the memory behind proc0 writes it: the masks it may hold are none,
\* one promise and all
OwnerWrites ==
  /\ ~halted
  /\ \E active \in BOOLEAN, mask \in {{}, {"stdio"}, Promises} :
       task' = [task EXCEPT ![Swapper].pledge_active = active, ![Swapper].pledge_mask = mask]
  /\ UNCHANGED <<stage, ready, used, ready_queue, current_idx, current_task, next_pid,
                 pagesLeft, halted>> /\ UNCHANGED userTable

\* sched_add_task
AddTask(t) ==
  ready_queue' = IF Len(ready_queue) < MAX_TASKS THEN Append(ready_queue, t) ELSE ready_queue

KthreadCreate_PidLate ==
  LET n == stage - Len(BootSteps) IN
  /\ n \in 1..Len(Daemons) /\ ~halted
  /\ stage' = stage + 1
  /\ task' = [task EXCEPT ![Daemons[n]] = NewTask(next_pid)]
  /\ next_pid' = IF Len(ready_queue) = 0 THEN next_pid ELSE next_pid + 1
  /\ AddTask(Daemons[n])
  /\ UNCHANGED <<ready, used, current_idx, current_task, halted, pagesLeft>> /\ UNCHANGED userTable

\* kthread_create: a page for the task and two for its stack; what was got is
\* lost if not both were
KthreadCreate ==
  LET n == stage - Len(BootSteps)  structure == pagesLeft >= 1  stack == pagesLeft >= 3 IN
  /\ n \in 1..Len(Daemons) /\ ~halted
  /\ stage' = stage + 1
  /\ IF structure /\ stack
     THEN /\ task' = [task EXCEPT ![Daemons[n]] = NewTask(next_pid)]
          /\ next_pid' = next_pid + 1
          /\ AddTask(Daemons[n])
          /\ pagesLeft' = pagesLeft - 3
     ELSE /\ pagesLeft' = IF structure THEN pagesLeft - 1 ELSE 0
          /\ UNCHANGED <<task, next_pid, ready_queue>>
  /\ UNCHANGED <<ready, used, current_idx, current_task, halted>> /\ UNCHANGED userTable

\* schedule: the next in the queue, zombies included
NextIdx == (current_idx + 1) % Len(ready_queue)
ScheduleFrom(running) ==
  IF ready_queue = <<>> THEN current_idx' = current_idx /\ current_task' = running
  ELSE current_idx' = NextIdx /\ current_task' = ready_queue[NextIdx + 1]

Schedule == ScheduleFrom(current_task)

TimerTrap ==
  /\ "irq" \in ready /\ ~halted
  /\ Schedule
  /\ UNCHANGED <<stage, ready, used, task, ready_queue, next_pid, pagesLeft, halted>> /\ UNCHANGED userTable

\* do_exit of the current task: a zombie, another task, and the machine stops
\* in the loop behind; without a task it returns
Exit(tasks) ==
  IF current_task = NoTask THEN task' = tasks /\ UNCHANGED <<current_idx, current_task, halted>>
  ELSE /\ task' = [tasks EXCEPT ![current_task].state = "ZOMBIE"]
       /\ Schedule
       /\ halted' = TRUE

Pledged_Forgets(t, promises) ==
  IF t.pledge_active /\ t.pledge_mask /= {} /\ ~(promises \subseteq t.pledge_mask) THEN t
  ELSE [t EXCEPT !.pledge_active = TRUE, !.pledge_mask = promises]

\* sys_pledge of a task, with a set of promises: what becomes of it.  An empty
\* set is a string without promises
Pledged(t, promises) ==
  IF t.pledge_active /\ (t.pledge_mask = {} \/ ~(promises \subseteq t.pledge_mask)) THEN t
  ELSE [t EXCEPT !.pledge_active = TRUE, !.pledge_mask = promises]

SysPledge(promises) ==
  /\ current_task /= NoTask /\ ~halted
  /\ task' = [task EXCEPT ![current_task] = Pledged(@, promises)]
  /\ UNCHANGED <<stage, ready, used, ready_queue, current_idx, current_task, next_pid,
                 pagesLeft, halted>> /\ UNCHANGED userTable

\* security_check_syscall: allowed, denied (pid 0), or the end of the task
Denied(t, category) == t.pledge_active /\ category \notin t.pledge_mask
SecurityCheckSyscall(category) ==
  /\ ~halted /\ current_task /= NoTask
  /\ IF Denied(task[current_task], category) /\ task[current_task].pid /= 0
     THEN Exit(task) ELSE UNCHANGED <<task, current_idx, current_task, halted>>
  /\ UNCHANGED <<stage, ready, used, ready_queue, next_pid, pagesLeft>> /\ UNCHANGED userTable

\* module_init of modules/test.c: the current task, or one of its own if there is
\* none, is freed of its pledge, pledges stdio and asks for rpath; unless its pid is 0
\* it never comes back
TestModuleInit ==
  /\ "mm" \in ready /\ ~halted
  /\ LET who == IF current_task = NoTask THEN TestTask ELSE current_task
         own == IF current_task = NoTask THEN [NewTask(99) EXCEPT !.state = "RUNNING"] ELSE task[who]
         pledged == Pledged([own EXCEPT !.pledge_active = FALSE, !.pledge_mask = {}], {"stdio"})
     IN IF own.pid = 0
        THEN /\ task' = [task EXCEPT ![who] = pledged]
             /\ UNCHANGED <<current_idx, current_task, halted>>
        ELSE /\ task' = [task EXCEPT ![who] = [pledged EXCEPT !.state = "ZOMBIE"]]
             /\ ScheduleFrom(who)
             /\ halted' = TRUE
  /\ UNCHANGED <<stage, ready, used, ready_queue, next_pid, pagesLeft>> /\ UNCHANGED userTable

TasksNext ==
  \/ InitAllStep \/ KeyboardIrq \/ BecomeSwapper \/ OwnerWrites \/ KthreadCreate \/ TimerTrap \/ TestModuleInit
  \/ \E ps \in {{}, {"stdio"}, {"stdio", "rpath"}} : SysPledge(ps)
  \/ \E c \in {"stdio", "rpath"} : SecurityCheckSyscall(c)

TasksSpec == TasksInit /\ [][TasksNext]_taskVars

TasksTypeOK ==
  /\ ToSet(ready_queue) \subseteq TaskNames /\ current_task \in TaskNames \union {NoTask}
  /\ active_users \subseteq 0..(MAX_USERS - 1) /\ current_user_index \in -1..(MAX_USERS - 1)
  /\ \A t \in TaskNames : task[t].pledge_mask \subseteq Promises /\ task[t].pid \in Nat

-----------------------------------------------------------------------------
\* Nothing is used before it is there, in whatever state of the boot a key is
\* pressed, but the table of users; queued tasks have pids of their own; the
\* scheduler's index is inside the queue and, once it has chosen, is the current task's.
TasksSound ==
  /\ used \subseteq ready \union {"auth"}
  /\ \A i, j \in DOMAIN ready_queue :
       /\ task[ready_queue[i]].pid \in 1..(next_pid - 1)
       /\ task[ready_queue[i]].pid = task[ready_queue[j]].pid => i = j
  /\ ready_queue = <<>> \/ current_idx < Len(ready_queue)
  /\ current_task \in ToSet(Daemons) => current_task = ready_queue[current_idx + 1]

\* A task that has pledged keeps its pledge, never gets a promise back, and once
\* it has none left, it never gets one: not by another pledge, by being
\* scheduled or by its end.  Not so the swapper, whose pledge lies in the
\* memory of others, nor, in the module_init of test.c, the task that runs it.
Shrinks(t) ==
  task[t].pledge_active /\ task'[t] /= task[t] =>
    /\ task'[t].pledge_active /\ task'[t].pledge_mask \subseteq task[t].pledge_mask
    /\ task'[t].pid = task[t].pid

PledgesShrink ==
  [][\A t \in TaskNames \ {Swapper} :
       (TestModuleInit /\ t \in {current_task, TestTask}) \/ Shrinks(t)]_taskVars
=============================================================================
