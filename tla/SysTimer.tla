------------------------------ MODULE SysTimer ------------------------------
(***************************************************************************)
(* The x86 timer: its tick, the table of alarms and what can be read from  *)
(* the clock (arch/x86/timer.c, with drivers/rtc/rtc.c and the commands    *)
(* uptime and cal of usr/commands.c).  A thread sets an alarm in the order *)
(* of the assignments in the code, and ticks come in between.  A callback  *)
(* is seen as the data it gets.  An alarm's time is counted in ticks.      *)
(***************************************************************************)
EXTENDS Integers, Sequences, FiniteSets, FiniteSetsExt

CONSTANTS
  MAX_ALARMS,  \* length of the table
  MaxTicks,    \* bound: ticks until time stands still
  MaxAlarms,   \* bound: alarms set in a run
  Delays,      \* delays and intervals that are asked for
  Frequencies, \* frequencies that are asked for
  Instants,    \* milliseconds at which the clock is read
  Years        \* years whose calendar is printed

ASSUME SysTimerAssumption ==
  /\ MAX_ALARMS \in Nat \ {0} /\ MaxTicks \in Nat /\ MaxAlarms \in Nat
  /\ Delays \subseteq Nat /\ Frequencies \subseteq Nat \ {0}

VARIABLES
  timer_ms,      \* ticks since the start
  alarms,        \* the table
  next_alarm_id, \* number of alarms set so far
  setting,       \* how far the thread is in setting an alarm
  called,        \* history: data and slots of the callbacks the last tick ran
  timer_info,    \* the frequency, who set it, and the divisor the chip has
  reading        \* what was last read from the clock, and at which instant

timerVars ==
  <<timer_ms, alarms, next_alarm_id, setting, called, timer_info, reading>>

Slots == 0..(MAX_ALARMS - 1)
Idle == [at |-> "idle"]
\* A slot of the table; data says what was asked for: who, not before, how often
Free == [active |-> FALSE, trigger_time |-> 0, repeat |-> FALSE, interval |-> 0,
         data |-> [id |-> -1, first |-> 0, repeats |-> FALSE, period |-> 0]]

TimerInit ==
  /\ timer_ms = 0
  /\ alarms = [i \in Slots |-> Free]
  /\ next_alarm_id = 0
  /\ setting = Idle
  /\ called = {}
  /\ timer_info = [hz |-> 0, by |-> "nobody", divisor |-> 0, calibrated |-> 0]
  /\ reading = Idle

-----------------------------------------------------------------------------
(* Alarms *)

Due(a, now) == a.active /\ now >= a.trigger_time

Checked_KeepsTime(a, now) ==
  IF Due(a, now) /\ ~a.repeat THEN [a EXCEPT !.active = FALSE] ELSE a

\* timer_check_alarms: what becomes of a slot
Checked(a, now) ==
  IF ~Due(a, now) THEN a
  ELSE IF a.repeat THEN [a EXCEPT !.trigger_time = now + a.interval]
  ELSE [a EXCEPT !.active = FALSE]

\* timer_handler: the interrupt
Tick ==
  /\ timer_ms < MaxTicks
  /\ timer_ms' = timer_ms + 1
  /\ called' = { [slot |-> i, data |-> alarms[i].data] :
                   i \in { j \in Slots : Due(alarms[j], timer_ms + 1) } }
  /\ alarms' = [i \in Slots |-> Checked(alarms[i], timer_ms + 1)]
  /\ UNCHANGED <<next_alarm_id, setting, timer_info, reading>>

\* The head of timer_set_alarm and timer_set_repeating_alarm: the first free
\* slot gets its time and data; repeat tells the two functions apart
ChooseSlot(delay, repeat) ==
  /\ setting = Idle /\ next_alarm_id < MaxAlarms
  /\ \E i \in Slots : ~alarms[i].active
  /\ LET i == Min({ j \in Slots : ~alarms[j].active }) IN
     /\ alarms' = [alarms EXCEPT
          ![i].trigger_time = timer_ms + delay,
          ![i].data = [id |-> next_alarm_id, first |-> timer_ms + delay,
                       repeats |-> repeat, period |-> IF repeat THEN delay ELSE 0]]
     /\ setting' = [at |-> "chosen", slot |-> i, repeat |-> repeat, delay |-> delay]
  /\ UNCHANGED <<timer_ms, next_alarm_id, called, timer_info, reading>>

\* timer_set_alarm, ... : active = 1
Activate ==
  /\ setting.at = "chosen"
  /\ alarms' = [alarms EXCEPT ![setting.slot].active = TRUE]
  /\ setting' = [setting EXCEPT !.at = "active"]
  /\ UNCHANGED <<timer_ms, next_alarm_id, called, timer_info, reading>>

\* ... : repeat, which until now is what the slot's last alarm had
SetRepeat ==
  /\ setting.at = "active"
  /\ alarms' = [alarms EXCEPT ![setting.slot].repeat = setting.repeat]
  /\ setting' = [setting EXCEPT !.at = "repeat"]
  /\ UNCHANGED <<timer_ms, next_alarm_id, called, timer_info, reading>>

\* ... : interval, and the number of the alarm
FinishSetting ==
  /\ setting.at = "repeat"
  /\ alarms' = [alarms EXCEPT
       ![setting.slot].interval = IF setting.repeat THEN setting.delay ELSE 0]
  /\ next_alarm_id' = next_alarm_id + 1
  /\ setting' = Idle
  /\ UNCHANGED <<timer_ms, called, timer_info, reading>>

\* timer_cancel_alarm: the number of an alarm is taken for its slot
CancelAlarm(id) ==
  /\ setting = Idle /\ next_alarm_id > 0
  /\ id \in Slots
  /\ alarms' = [alarms EXCEPT ![id].active = FALSE]
  /\ UNCHANGED <<timer_ms, next_alarm_id, setting, called, timer_info, reading>>

-----------------------------------------------------------------------------
(* The chip *)

TIMER_FREQUENCY_HZ == 1193182
Divisor(hz) == (TIMER_FREQUENCY_HZ \div hz) % 65536   \* two writes of a byte

\* timer_init: no alarm is active afterwards
InitTimer(hz) ==
  /\ setting = Idle
  /\ alarms' = [i \in Slots |-> [alarms[i] EXCEPT !.active = FALSE]]
  /\ timer_info' = [hz |-> hz, by |-> "init", divisor |-> Divisor(hz),
                     calibrated |-> hz]   \* timer_calibrate
  /\ UNCHANGED <<timer_ms, next_alarm_id, setting, called, reading>>

Clamped(hz) == IF hz < 20 THEN 20 ELSE IF hz > 10000 THEN 10000 ELSE hz

SetFrequency(hz) ==
  /\ setting = Idle
  /\ timer_info' = [timer_info EXCEPT !.hz = Clamped(hz), !.by = "set",
                                       !.divisor = Divisor(Clamped(hz))]
  /\ UNCHANGED <<timer_ms, alarms, next_alarm_id, setting, called, reading>>

-----------------------------------------------------------------------------
(* Reading the clock: ms milliseconds after the start *)

SECOND == 1000
MINUTE == 60 * SECOND
HOUR == 60 * MINUTE
DAY == 24 * HOUR

\* The loops that write a number in decimal
Digits[n \in Nat] ==
  IF n < 10 THEN <<n>> ELSE Append(Digits[n \div 10], n % 10)

TwoDigits(n) == IF n < 10 THEN <<0, n>> ELSE <<n \div 10, n % 10>>
ThreeDigits(n) == <<n \div 100, (n \div 10) % 10, n % 10>>

\* timer_get_uptime_str: days if there are any, hours, minutes, seconds
UptimeStr(ms) ==
  (IF ms \div DAY > 0 THEN Digits[ms \div DAY] \o <<"d", " ">> ELSE <<>>)
    \o TwoDigits((ms % DAY) \div HOUR) \o <<":">>
    \o TwoDigits((ms % HOUR) \div MINUTE) \o <<":">>
    \o TwoDigits((ms % MINUTE) \div SECOND)

\* timer_get_time_str: time of day with milliseconds
TimeStr(ms) ==
  TwoDigits((ms \div HOUR) % 24) \o <<":">> \o TwoDigits((ms % HOUR) \div MINUTE)
    \o <<":">> \o TwoDigits((ms % MINUTE) \div SECOND)
    \o <<".">> \o ThreeDigits(ms % SECOND)

\* cmd_uptime and k_panic: hours, minutes and seconds of system_ticks
UptimeOfTicks(ticks) ==
  LET s == ticks \div 100 IN <<s \div 3600, (s % 3600) \div 60, s % 60>>

\* cmd_cal: the weekday of the first and the number of days of a month
LeapYear(y) == (y % 4 = 0 /\ y % 100 /= 0) \/ y % 400 = 0
DaysInMonth(y, m) ==
  IF m = 2 /\ LeapYear(y) THEN 29
  ELSE <<31, 28, 31, 30, 31, 30, 31, 31, 30, 31, 30, 31>>[m]
FirstDay_JanuaryIsEasy(year, month) ==
  LET m == IF month < 3 THEN month + 10 ELSE month - 2
  IN (1 + year + year \div 4 - year \div 100 + year \div 400 + (31 * m) \div 12) % 7

FirstDay(year, month) ==
  LET a == (14 - month) \div 12
      y == year - a
      m == month + 12 * a - 2
  IN (1 + y + y \div 4 - y \div 100 + y \div 400 + (31 * m) \div 12) % 7

\* bcd_to_bin, and get_local_time: four hours behind, a day back if need be
BcdToBin(val) == (val % 16) + ((val \div 16) * 10)
LocalTime(day, hour) ==
  IF hour < 4 THEN [day |-> day - 1, hour |-> hour + 20] ELSE [day |-> day, hour |-> hour - 4]

ReadClock(ms) ==
  /\ reading' = [at |-> "clock", ms |-> ms, uptime |-> UptimeStr(ms),
                 time |-> TimeStr(ms), uptimeCmd |-> UptimeOfTicks(ms \div 10)]
  /\ UNCHANGED <<timer_ms, alarms, next_alarm_id, setting, called, timer_info>>

\* cmd_cal in a month the chip gives, hour in BCD
PrintCal(year, month, bcdHour) ==
  /\ reading' = [at |-> "cal", year |-> year, month |-> month,
                 first |-> FirstDay(year, month), days |-> DaysInMonth(year, month),
                 bcd |-> bcdHour, today |-> LocalTime(1, BcdToBin(bcdHour))]
  /\ UNCHANGED <<timer_ms, alarms, next_alarm_id, setting, called, timer_info>>

\* timer_get_elapsed_ms since a tick; a division by zero before the frequency is set
ElapsedMs(start) ==
  IF timer_info.hz = 0 THEN "fault"
  ELSE ((timer_ms - start) * 1000) \div timer_info.hz

ReadElapsed(start) ==
  /\ start <= timer_ms
  /\ reading' = [at |-> "elapsed", start |-> start, ms |-> ElapsedMs(start)]
  /\ UNCHANGED <<timer_ms, alarms, next_alarm_id, setting, called, timer_info>>

\* timer_print_info: "Frequency: " is 11 characters long and the number is put
\* behind its end mark, so that line has no number
InfoLines ==
  [frequency |-> <<>>,
   ticks |-> Digits[timer_ms],
   uptime |-> UptimeStr(10 * timer_ms),
   time |-> TimeStr(10 * timer_ms),
   active |-> LET n == Cardinality({ i \in Slots : alarms[i].active })
              IN IF n < 10 THEN <<n>> ELSE TwoDigits(n)]

PrintInfo ==
  /\ reading' = [at |-> "info", lines |-> InfoLines]
  /\ UNCHANGED <<timer_ms, alarms, next_alarm_id, setting, called, timer_info>>

\* Nothing depends on what was read, so a reading ends a run (a bound)
TimerNext ==
  /\ reading = Idle
  /\ \/ Tick
     \/ \E d \in Delays, r \in BOOLEAN : ChooseSlot(d, r)
     \/ Activate
     \/ SetRepeat
     \/ FinishSetting
     \/ \E id \in Slots : CancelAlarm(id)
     \/ \E hz \in Frequencies : InitTimer(hz)
     \/ \E hz \in Frequencies : SetFrequency(hz)
     \/ \E ms \in Instants : timer_ms = 0 /\ setting = Idle /\ next_alarm_id = 0 /\ ReadClock(ms)
     \/ /\ timer_ms = 0 /\ setting = Idle /\ next_alarm_id = 0
        /\ \E y \in Years, m \in 1..12, h \in {0, 9, 16, 35} : PrintCal(y, m, h)
     \/ \E s \in {0, timer_ms} : setting = Idle /\ ReadElapsed(s)
     \/ setting = Idle /\ PrintInfo

TimerSpec == TimerInit /\ [][TimerNext]_timerVars

TimerTypeOK ==
  /\ timer_ms \in 0..MaxTicks
  /\ \A i \in Slots : /\ DOMAIN alarms[i] = DOMAIN Free
                      /\ alarms[i].active \in BOOLEAN /\ alarms[i].trigger_time \in Nat
  /\ setting.at \in {"idle", "chosen", "active", "repeat"}
  /\ next_alarm_id \in 0..MaxAlarms
  /\ timer_info.divisor \in Nat /\ timer_info.divisor < 65536

-----------------------------------------------------------------------------
\* The slot of a callback has the repeat and the interval of its alarm; or the tick
\* came while the thread had made the slot active and not yet written them.
AsAsked(c) ==
  /\ alarms[c.slot].repeat <=> c.data.repeats
  /\ c.data.repeats => alarms[c.slot].interval = c.data.period
HalfSet(c) ==
  \/ setting.at = "active" /\ setting.slot = c.slot
  \/ setting.at = "repeat" /\ setting.slot = c.slot /\ c.data.repeats

TickOnTime ==
  timer_ms' > timer_ms =>
    /\ \A c \in called' :
         /\ timer_ms' >= c.data.first
         /\ AsAsked(c) \/ HalfSet(c)
         /\ AsAsked(c) /\ ~c.data.repeats => ~alarms'[c.slot].active
         /\ AsAsked(c) /\ c.data.repeats =>
              /\ alarms'[c.slot].active
              /\ alarms'[c.slot].trigger_time = timer_ms' + c.data.period
    /\ \A i \in Slots :
         alarms'[i].active => timer_ms' <= alarms'[i].trigger_time

\* A callback runs only at or after the time it was asked for, and after a tick
\* no active alarm is overdue.  A one-shot alarm that rang is over and a repeating
\* one rings again one period later, whatever the slot was used for before, unless
\* the slot still has another repeat or interval, left by its last alarm; and only
\* a tick inside the setting of that very slot finds it so (timer_check_alarms,
\* timer_set_alarm, timer_set_repeating_alarm).
AlarmsOnTime == [][TickOnTime]_timerVars

\* What the clock says can be read back: the fields of the two strings and of
\* uptime are the instant; cal's first weekday and days are those of a count of
\* days since Thursday 1970-01-01; and the chip's divisor was not cut off when
\* it was set by timer_set_frequency.
NumberOf(ds) ==
  LET upTo[i \in 0..Len(ds)] == IF i = 0 THEN 0 ELSE 10 * upTo[i - 1] + ds[i]
  IN upTo[Len(ds)]

\* Days from 1970-01-01 to the first of January, and to the first of a month
DaysToYear[y \in 1970..2200] ==
  IF y = 1970 THEN 0 ELSE DaysToYear[y - 1] + (IF LeapYear(y - 1) THEN 366 ELSE 365)
DaysBefore(year, month) ==
  LET before[m \in 1..12] == IF m = 1 THEN 0 ELSE before[m - 1] + DaysInMonth(year, m - 1)
  IN DaysToYear[year] + before[month]

ClockReadsBack ==
  /\ reading.at = "clock" =>
       LET u == reading.uptime  n == Len(u)  t == reading.time IN
       /\ reading.ms \div SECOND =
            (IF n > 8 THEN 86400 * NumberOf(SubSeq(u, 1, n - 10)) ELSE 0)
              + 3600 * NumberOf(SubSeq(u, n - 7, n - 6)) + 60 * NumberOf(SubSeq(u, n - 4, n - 3))
              + NumberOf(SubSeq(u, n - 1, n))
       /\ reading.ms % DAY =
            HOUR * NumberOf(SubSeq(t, 1, 2)) + MINUTE * NumberOf(SubSeq(t, 4, 5))
              + SECOND * NumberOf(SubSeq(t, 7, 8)) + NumberOf(SubSeq(t, 10, 12))
       /\ reading.ms \div SECOND =
            3600 * reading.uptimeCmd[1] + 60 * reading.uptimeCmd[2] + reading.uptimeCmd[3]
  /\ reading.at = "cal" =>
       reading.first = (4 + DaysBefore(reading.year, reading.month)) % 7
  /\ timer_info.by = "set" => timer_info.divisor * timer_info.hz > TIMER_FREQUENCY_HZ - timer_info.hz
=============================================================================
