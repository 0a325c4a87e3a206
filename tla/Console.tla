------------------------------ MODULE Console ------------------------------
(***************************************************************************)
(* The console of the x86 build: the keyboard handler and its queue        *)
(* (8042/keyboard.c, kbd_common.c), the shell that the handler runs        *)
(* (commands.c), logins (auth.c), the virtual terminals (tty.c) and a      *)
(* thread that reads characters and sleeps (get_char, timer_sleep).        *)
(*                                                                         *)
(* The handler runs with interrupts off until it returns, and a command it *)
(* runs may take long: login polls the keyboard itself.  All that time the *)
(* thread and the timer stand still; handler says where the handler is.    *)
(*                                                                         *)
(* A key is a whole command word, erase or enter; a line is a list of      *)
(* commands joined by &&.  What a terminal shows is left out.              *)
(***************************************************************************)
EXTENDS Integers, Sequences

CONSTANTS
  MaxTtys,    (* MAX_TTYS                                                  *)
  LineSize,   (* INPUT_BUFFER_SIZE                                         *)
  QueueSize,  (* KBD_QUEUE_SIZE                                            *)
  NameSize,   (* size of temp_user and temp_pass                           *)
  MaxUsers,   (* MAX_USERS                                                 *)
  Words,      (* the command words that are typed                          *)
  NameWords,  (* those also typed as names and passwords                   *)
  NewUsers,   (* users the command usr adds                                *)
  SleepTicks  (* timer interrupts until the target of timer_sleep          *)

ASSUME ConsoleAssumption ==
  /\ MaxTtys \in Nat \ {0} /\ LineSize \in Nat \ {0}
  /\ NameSize \in Nat /\ NameSize > 1 /\ QueueSize \in Nat /\ QueueSize > 1
  /\ MaxUsers \in Nat /\ SleepTicks \in Nat
  /\ NameWords \subseteq Words /\ {"enter", "erase"} \intersect Words = {}
  /\ NewUsers \subseteq [name : Seq(NameWords) \ {<<>>}, password : Seq(NameWords)]

VARIABLES
  handler,             (* none, or what keyboard_handler is doing          *)
  line,                (* kbd_state: the first index characters of buffer  *)
  rest,                (* the commands of the line still to run            *)
  temp_user,           (* what was typed at "Username: "                   *)
  temp_pass,           (* what was typed at "Password: "                   *)
  users,               (* the active records of users[], in their order    *)
  current_user_index,  (* 0 for the code's -1                              *)
  current_user,        (* a name, or empty                                 *)
  active_tty,          (* active_tty_index + 1                             *)
  login_tty,           (* history: the terminal of the last login          *)
  kbd_queue, kbd_head, kbd_tail,
  thread,              (* what the thread is doing                         *)
  c,                   (* the local variable of get_char                   *)
  returned,            (* what the last get_char returned                  *)
  left,                (* timer interrupts left to who sleeps              *)
  reloads              (* the compiled timer_sleep loads timer_ms again    *)

session == <<users, current_user_index, current_user, active_tty, login_tty>>
dialog == <<rest, temp_user, temp_pass>>
queue == <<kbd_queue, kbd_head, kbd_tail>>
thread_vars == <<thread, c, returned>>
vars == <<handler, line, dialog, session, queue, thread_vars, left, reloads>>

Keys == Words \union {"enter", "erase"}

(* Of a character in the queue, only whether it ends a line (kgets). *)
Kind(key) == IF key = "enter" THEN "enter" ELSE "char"
Kinds == {"enter", "char"}

(* kbd_common.c's statics, auth_init, tty_init, init_all's -1. *)
Init ==
  /\ handler = "none" /\ line = <<>> /\ rest = <<>>
  /\ temp_user = <<>> /\ temp_pass = <<>>
  /\ users = <<>> /\ current_user_index = 0 /\ current_user = <<>>
  /\ active_tty = 1 /\ login_tty = 1
  /\ kbd_queue = [i \in 0 .. QueueSize - 1 |-> "char"]
  /\ kbd_head = 0 /\ kbd_tail = 0
  /\ thread = "idle" /\ c = "char" /\ returned = "char"
  /\ left = [who \in {"thread", "handler"} |-> 0]
  /\ reloads \in BOOLEAN

-----------------------------------------------------------------------------
(* The handler.                                                            *)

(* Faulty variant: the queue is never found full. *)
Enqueue_NeverFull(key) ==
  /\ kbd_queue' = [kbd_queue EXCEPT ![kbd_head] = Kind(key)]
  /\ kbd_head' = (kbd_head + 1) % QueueSize
  /\ UNCHANGED kbd_tail

(* kbd_process_char: into the circular buffer unless it is full. *)
Enqueue(key) ==
  /\ UNCHANGED kbd_tail
  /\ LET next == (kbd_head + 1) % QueueSize
     IN IF next # kbd_tail
          THEN kbd_queue' = [kbd_queue EXCEPT ![kbd_head] = Kind(key)] /\ kbd_head' = next
          ELSE UNCHANGED <<kbd_queue, kbd_head>>

(* Faulty variant: the bound of the line is that of its array. *)
TypeWord_OnePast(word) ==
  /\ handler = "none"
  /\ Enqueue(word)
  /\ line' = IF Len(line) < LineSize THEN Append(line, word) ELSE line
  /\ UNCHANGED <<handler, dialog, session, thread_vars, left, reloads>>

(* kbd_process_char: a printable character. *)
TypeWord(word) ==
  /\ handler = "none"
  /\ Enqueue(word)
  /\ line' = IF Len(line) < LineSize - 1 THEN Append(line, word) ELSE line
  /\ UNCHANGED <<handler, dialog, session, thread_vars, left, reloads>>

(* kbd_process_char and handle_erase: a backspace. *)
Erase ==
  /\ handler = "none"
  /\ Enqueue("erase")
  /\ line' = IF line = <<>> THEN line ELSE SubSeq(line, 1, Len(line) - 1)
  /\ UNCHANGED <<handler, dialog, session, thread_vars, left, reloads>>

(* kbd_process_char: the end of a line, and execute_shell_command up to    *)
(* the login prompt or the first command.  With users registered and none  *)
(* logged in, only the line "login" does something.                        *)
Enter ==
  /\ handler = "none"
  /\ Enqueue("enter")
  /\ line' = <<>>
  /\ \/ /\ line # <<>> /\ users # <<>> /\ current_user_index = 0
        /\ handler' = IF line = <<"login">> THEN "username" ELSE "none"
        /\ UNCHANGED rest
     \/ /\ line # <<>> /\ (users = <<>> \/ current_user_index # 0)
        /\ handler' = "shell" /\ rest' = line
     \/ line = <<>> /\ UNCHANGED <<handler, rest>>
  /\ UNCHANGED <<temp_user, temp_pass, session, thread_vars, left, reloads>>

(* raw_get_char and its loop in execute_shell_command, for a key that is   *)
(* not enter; full when the loop ends because the array is full.           *)
Polled(text, key) ==
  IF key # "erase" THEN Append(text, key)
  ELSE IF text = <<>> THEN text ELSE SubSeq(text, 1, Len(text) - 1)

Full(text) == Len(text) >= NameSize - 1

(* The loop at "Username: ". *)
PollUsername(key) ==
  /\ handler = "username"
  /\ temp_user' = IF key = "enter" THEN temp_user ELSE Polled(temp_user, key)
  /\ handler' = IF key = "enter" \/ Full(temp_user') THEN "password" ELSE "username"
  /\ UNCHANGED <<line, rest, temp_pass, session, queue, thread_vars, left, reloads>>

(* Faulty variant: the name alone is compared. *)
Matches_NameOnly(user, name, password) == user.name = name

(* check_login compares both. *)
Matches(user, name, password) == user.name = name /\ user.password = password

(* The loop at "Password: " before its last round. *)
PollPassword(key) ==
  /\ handler = "password"
  /\ key # "enter"
  /\ temp_pass' = Polled(temp_pass, key)
  /\ handler' = IF Full(temp_pass') THEN "check" ELSE "password"
  /\ UNCHANGED <<line, rest, temp_user, session, queue, thread_vars, left, reloads>>

(* A name or password that filled its array has no end mark: what it is    *)
(* compared as depends on the byte after it, which nobody wrote.           *)
CheckLogin(ended) ==
  /\ handler \in {"password", "check"}
  /\ handler' = "none"
  /\ temp_user' = <<>> /\ temp_pass' = <<>>
  /\ LET found == {i \in 1 .. Len(users) : Matches(users[i], temp_user, temp_pass)}
         legible == ended \/ ~(Full(temp_user) \/ Full(temp_pass))
     IN \/ /\ legible
           /\ \E i \in found :
                /\ \A j \in found : i <= j
                /\ current_user_index' = i
                /\ current_user' = users[i].name
           /\ login_tty' = active_tty
        \/ /\ ~legible \/ found = {}
           /\ UNCHANGED <<current_user_index, current_user, login_tty>>
  /\ UNCHANGED <<line, rest, users, active_tty, queue, thread_vars, left, reloads>>

-----------------------------------------------------------------------------
(* The commands of a line, one after the other.                            *)

(* What is left of the line after a command; one that fails ends it.       *)
Continue(more) == rest' = more /\ handler' = IF more = <<>> THEN "none" ELSE "shell"

(* Faulty variant: the name of who left stays. *)
RunLogout_KeepsName ==
  /\ handler = "shell" /\ Head(rest) = "logout"
  /\ current_user_index' = 0
  /\ \E more \in {<<>>, Tail(rest)} : Continue(more)
  /\ UNCHANGED <<line, temp_user, temp_pass, users, current_user, active_tty, login_tty,
                 queue, thread_vars, left, reloads>>

(* execute_single_with_return on the first command left, here cmd_logout.  *)
(* It returns no value, so the line may stop or go on after it.            *)
RunLogout ==
  /\ handler = "shell" /\ Head(rest) = "logout"
  /\ current_user_index' = 0 /\ current_user' = <<>>
  /\ \E more \in {<<>>, Tail(rest)} : Continue(more)
  /\ UNCHANGED <<line, temp_user, temp_pass, users, active_tty, login_tty,
                 queue, thread_vars, left, reloads>>

(* The usr command, which returns no value either, and add_user. *)
RunUsrAdd(new) ==
  /\ handler = "shell" /\ Head(rest) = "usr"
  /\ users' = IF Len(users) < MaxUsers THEN Append(users, new) ELSE users
  /\ \E more \in {<<>>, Tail(rest)} : Continue(more)
  /\ UNCHANGED <<line, temp_user, temp_pass, current_user_index, current_user, active_tty,
                 login_tty, queue, thread_vars, left, reloads>>

(* cmd_pwait: timer_sleep in the handler; the rest of the line waits. *)
RunPwait ==
  /\ handler = "shell" /\ Head(rest) = "pwait"
  /\ handler' = "sleep" /\ rest' = Tail(rest)
  /\ left' = [left EXCEPT !["handler"] = SleepTicks]
  /\ UNCHANGED <<line, temp_user, temp_pass, session, queue, thread_vars, reloads>>

(* Any other command touches nothing here; it may fail.  A word that is    *)
(* not in commands_table, login among them, goes to                        *)
(* shell_try_execute_binary, which runs nothing and returns 0: the line    *)
(* goes on.                                                                *)
RunOther ==
  /\ handler = "shell" /\ Head(rest) \notin {"logout", "usr", "pwait"}
  /\ \E more \in {<<>>, Tail(rest)} :
       (Head(rest) = "login" => more = Tail(rest)) /\ Continue(more)
  /\ UNCHANGED <<line, temp_user, temp_pass, session, queue, thread_vars, left, reloads>>

(* Faulty variant: the session goes along to the other terminal. *)
SwitchTty_KeepsSession(id) ==
  /\ handler = "none" /\ id # active_tty
  /\ active_tty' = id
  /\ UNCHANGED <<handler, line, dialog, users, current_user_index, current_user, login_tty,
                 queue, thread_vars, left, reloads>>

(* keyboard_handler and tty_switch: a function key.  The line being typed  *)
(* stays.                                                                  *)
SwitchTty(id) ==
  /\ handler = "none" /\ id # active_tty
  /\ active_tty' = id
  /\ current_user_index' = 0 /\ current_user' = <<>>
  /\ UNCHANGED <<handler, line, dialog, users, login_tty, queue, thread_vars, left, reloads>>

-----------------------------------------------------------------------------
(* The thread, which the handler interrupts, and the timer.                *)

(* get_char waits for a character and loads it ... *)
GetCharLoad ==
  /\ handler = "none" /\ thread = "idle"
  /\ kbd_head # kbd_tail
  /\ c' = kbd_queue[kbd_tail] /\ thread' = "get_char"
  /\ UNCHANGED <<handler, line, dialog, session, queue, returned, left, reloads>>

(* ... and then moves the tail. *)
GetCharDone ==
  /\ handler = "none" /\ thread = "get_char"
  /\ kbd_tail' = (kbd_tail + 1) % QueueSize
  /\ returned' = c /\ thread' = "idle"
  /\ UNCHANGED <<handler, line, dialog, session, kbd_queue, kbd_head, c, left, reloads>>

(* timer_sleep: the target is set ... *)
Sleep ==
  /\ handler = "none" /\ thread = "idle"
  /\ thread' = "sleep"
  /\ left' = [left EXCEPT !["thread"] = SleepTicks]
  /\ UNCHANGED <<handler, line, dialog, session, queue, c, returned, reloads>>

(* ... and passed, in whoever called timer_sleep.  timer_ms is not         *)
(* volatile: at -O2 the loop need not load it a second time.               *)
SleepDone(who) ==
  /\ left[who] = 0 /\ (reloads \/ SleepTicks = 0)
  /\ \/ /\ who = "thread" /\ handler = "none" /\ thread = "sleep"
        /\ thread' = "idle" /\ UNCHANGED <<handler, rest>>
     \/ /\ who = "handler" /\ handler = "sleep"
        /\ Continue(rest) /\ UNCHANGED thread
  /\ UNCHANGED <<line, temp_user, temp_pass, session, queue, c, returned, left, reloads>>

(* timer_handler, as far as sleepers see it. *)
TimerIrq ==
  /\ handler = "none"
  /\ left' = [who \in DOMAIN left |-> IF left[who] > 0 THEN left[who] - 1 ELSE 0]
  /\ UNCHANGED <<handler, line, dialog, session, queue, thread_vars, reloads>>

-----------------------------------------------------------------------------
(* Steps of the handler that wait for no key. *)
HandlerRuns ==
  \/ RunLogout \/ RunPwait \/ RunOther \/ SleepDone("handler")
  \/ \E new \in NewUsers : RunUsrAdd(new)
  \/ \E ended \in BOOLEAN : handler = "check" /\ CheckLogin(ended)

Next ==
  \/ \E word \in Words : TypeWord(word)
  \/ Erase
  \/ Enter
  \/ \E id \in 1 .. MaxTtys : SwitchTty(id)
  \/ \E key \in NameWords \union {"enter", "erase"} : PollUsername(key) \/ PollPassword(key)
  \/ \E ended \in BOOLEAN : handler = "password" /\ CheckLogin(ended)
  \/ HandlerRuns
  \/ GetCharLoad \/ GetCharDone \/ Sleep \/ SleepDone("thread") \/ TimerIrq

Spec == Init /\ [][Next]_vars

(* The processor goes on with what it does, and the timer's interrupts     *)
(* keep coming.                                                            *)
FairSpec == Spec /\ WF_vars(HandlerRuns) /\ WF_vars(TimerIrq)

-----------------------------------------------------------------------------
(* The tables of the console have the values their bounds allow.           *)
TypeOK ==
  /\ handler \in {"none", "shell", "username", "password", "check", "sleep"}
  /\ line \in Seq(Words) /\ Len(line) < LineSize
  /\ rest \in Seq(Words) /\ (handler = "shell" => rest # <<>>)
  /\ temp_user \in Seq(NameWords) /\ Len(temp_user) < NameSize
  /\ temp_pass \in Seq(NameWords) /\ Len(temp_pass) < NameSize
  /\ users \in Seq(NewUsers) /\ Len(users) <= MaxUsers
  /\ current_user_index \in 0 .. MaxUsers
  /\ active_tty \in 1 .. MaxTtys /\ login_tty \in 1 .. MaxTtys
  /\ kbd_queue \in [0 .. QueueSize - 1 -> Kinds]
  /\ kbd_head \in 0 .. QueueSize - 1 /\ kbd_tail \in 0 .. QueueSize - 1
  /\ thread \in {"idle", "get_char", "sleep"}
  /\ c \in Kinds /\ returned \in Kinds
  /\ left \in [{"thread", "handler"} -> 0 .. SleepTicks]
  /\ reloads \in BOOLEAN

(* current_user_index and current_user are two records of one fact, kept   *)
(* by auth.c, commands.c and tty.c: they always agree.                     *)
SessionAgrees ==
  IF current_user_index = 0
    THEN current_user = <<>>
    ELSE current_user_index <= Len(users) /\ current_user = users[current_user_index].name

(* A session belongs to the terminal it was opened on: tty_switch ends it, *)
(* also when it comes in the middle of a line.                             *)
SessionOfThisTty == current_user_index # 0 => login_tty = active_tty

(* A session is opened only where a name and its password were typed: a    *)
(* record that has both, whatever else was typed, erased or cut off.       *)
LoginNeedsPassword ==
  [][ current_user_index' \notin {0, current_user_index} =>
        /\ handler \in {"password", "check"}
        /\ users[current_user_index'].name = temp_user
        /\ users[current_user_index'].password = temp_pass ]_vars

(* kbd_process_char in the handler and get_char in the thread share a ring *)
(* without a lock: it is a queue all the same.                             *)
Waiting ==
  [i \in 1 .. (kbd_head - kbd_tail + QueueSize) % QueueSize |->
     kbd_queue[(kbd_tail + i - 1) % QueueSize]]
Queue == INSTANCE CharQueue WITH
  Char <- Kinds, Capacity <- QueueSize - 1, waiting <- Waiting
ImplementsQueue == Queue!Spec

(* commands.c:1508 "Wait for process termination": pwait waits for a while *)
(* and comes back.                                                         *)
PwaitReturns == (handler = "sleep" /\ reloads) ~> (handler = "none")

=============================================================================
