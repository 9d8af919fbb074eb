----------------------------- MODULE FileLogger -----------------------------
(***************************************************************************)
(* file_logger: lines go through the buffer of stdio to <name>.tmp, which  *)
(* is renamed to <name> when it is closed.  The name holds the base name,  *)
(* the date, the process and a number; output() switches to the next file  *)
(* when the day of the month has changed or the file has its lines.  The   *)
(* clock is read anew at every place the code reads it; the process may    *)
(* crash and be started again.  Levels, prefixes and directories are left  *)
(* out.                                                                    *)
(***************************************************************************)
EXTENDS Integers, Sequences, SequencesExt

CONSTANTS Bases,                       \* base names, none of them another one followed by "_"
          LOG_LINE_LIMIT_MIN, LOG_LINE_LIMIT_MAX,
          Limits,                      \* what callers give set_log_line_limit()
          MonthLength,                 \* after so many days tm_mday is the same
          MaxDay, MaxLines, MaxPid, MaxCalls   \* bounds

NoBase == "none"

ASSUME FileLoggerAssumption ==
  /\ {MonthLength, MaxDay, MaxLines, MaxPid, MaxCalls} \subseteq Nat \ {0}
  /\ Limits \subseteq Nat /\ NoBase \notin Bases
  /\ LOG_LINE_LIMIT_MIN \in Nat /\ LOG_LINE_LIMIT_MAX >= LOG_LINE_LIMIT_MIN

VARIABLES day,               \* the clock
          pid,
          is_open, line_limit, cur_line,
          base, date, num,   \* m_log_name, m_date, m_log_num
          pc, stamp,         \* output() and the day it has read
          pending,           \* lines in the buffer of stdio
          disk,              \* files by name
          flushed,           \* lines that have come to the disk
          written,           \* number of lines written so far
          calls,
          blame              \* what makes names come again

name_vars == <<base, date, num>>
vars == <<day, pid, is_open, line_limit, cur_line, name_vars, pc, stamp,
          pending, disk, flushed, written, calls, blame>>

DefaultLimits == Limits \intersect LOG_LINE_LIMIT_MIN .. LOG_LINE_LIMIT_MAX
Mday(d) == d % MonthLength

File(tmp) == [pid |-> pid, base |-> base, date |-> date, num |-> num, tmp |-> tmp]
Tmp == File(TRUE)

Init ==
  /\ day = 1 /\ pid = 1 /\ is_open = FALSE /\ line_limit \in DefaultLimits /\ cur_line = 0
  /\ base = NoBase /\ date = 0 /\ num = 0
  /\ pc = "idle" /\ stamp = 0 /\ pending = <<>> /\ disk = <<>>
  /\ flushed = {} /\ written = 0 /\ calls = 0 /\ blame = {}
-----------------------------------------------------------------------------
\* Settings, while the logger is closed

Calling == pc = "idle" /\ calls < MaxCalls /\ calls' = calls + 1

\* set_log_name() of another base name: the number begins anew, even if the name was
\* used before, on the same day, by this process or by one that had its number
SetLogName(b) ==
  /\ Calling /\ ~is_open /\ b # base
  /\ base' = b /\ date' = day /\ num' = 0
  /\ blame' = IF \E f \in DOMAIN disk : f.pid = pid /\ f.base = b /\ f.date = day
              THEN blame \union {"name again"} ELSE blame
  /\ UNCHANGED <<day, pid, is_open, line_limit, cur_line, stamp, pc,
                 pending, disk, flushed, written>>

\* set_log_line_limit(): it is the old limit that is looked at
SetLineLimit(limit) ==
  /\ Calling /\ ~is_open
  /\ line_limit' = IF line_limit \in LOG_LINE_LIMIT_MIN .. LOG_LINE_LIMIT_MAX
                   THEN limit ELSE line_limit
  /\ UNCHANGED <<day, pid, is_open, cur_line, name_vars, stamp, pc,
                 pending, disk, flushed, written, blame>>
-----------------------------------------------------------------------------
\* open() and close(), of callers and of __switch_logger_status()

\* The files of d with one that holds these lines, in place of one of that name
With(d, name, lines) ==
  [f \in DOMAIN d \union {name} |-> IF f = name THEN lines ELSE d[f]]

Opened ==
  /\ disk' = With(disk, Tmp, <<>>)
  /\ is_open' = TRUE /\ cur_line' = 0

Open ==
  /\ Calling /\ ~is_open /\ base # NoBase
  /\ Opened
  /\ UNCHANGED <<day, pid, line_limit, name_vars, stamp, pc, pending, flushed,
                 written, blame>>

Flushed == [disk EXCEPT ![Tmp] = @ \o pending]

\* The file has its final name; or it has not, and stays what it was
Renamed(d) == With([f \in DOMAIN d \ {Tmp} |-> d[f]], File(FALSE), d[Tmp])

\* A mutant: the number goes on only with the day
NextNumOfDay == 0

\* A mutant: the branches are exchanged
NextNumSwapped == IF Mday(day) = Mday(date) THEN 0 ELSE num + 1

\* __update_log_num(): the name of the next file
NextNum == IF Mday(day) # Mday(date) THEN 0 ELSE num + 1

Closed(renames) ==
  /\ disk' = IF renames THEN Renamed(Flushed) ELSE Flushed
  /\ flushed' = flushed \union ToSet(pending) /\ pending' = <<>>
  /\ is_open' = FALSE
  /\ num' = NextNum /\ date' = day

Close(renames) ==
  /\ Calling /\ is_open /\ Closed(renames)
  /\ UNCHANGED <<day, pid, line_limit, cur_line, base, stamp, pc, written, blame>>
-----------------------------------------------------------------------------
\* output() and flush()

\* A mutant: one line more
FullOrNextDayLate(d) == cur_line > line_limit \/ Mday(d) # Mday(date)

\* A mutant: the day is not looked at
FullOnly(d) == cur_line >= line_limit

FullOrNextDay(d) == cur_line >= line_limit \/ Mday(d) # Mday(date)

Begin ==
  /\ pc = "idle" /\ is_open /\ written < MaxLines
  /\ stamp' = day
  /\ IF FullOrNextDay(day)
     THEN /\ pc' = "close" /\ disk' = Flushed
          /\ flushed' = flushed \union ToSet(pending) /\ pending' = <<>>
     ELSE pc' = "write" /\ UNCHANGED <<disk, flushed, pending>>
  /\ UNCHANGED <<day, pid, is_open, line_limit, cur_line, name_vars,
                 written, calls, blame>>

SwitchClose(renames) ==
  /\ pc = "close" /\ Closed(renames)
  /\ pc' = IF renames THEN "open" ELSE "idle"
  /\ UNCHANGED <<day, pid, line_limit, cur_line, base, stamp, written, calls, blame>>

SwitchOpen ==
  /\ pc = "open" /\ Opened /\ pc' = "write"
  /\ UNCHANGED <<day, pid, line_limit, name_vars, stamp, pending, flushed,
                 written, calls, blame>>

SwitchOpenFails ==
  /\ pc = "open" /\ pc' = "idle"
  /\ UNCHANGED <<day, pid, is_open, line_limit, cur_line, name_vars, stamp,
                 pending, disk, flushed, written, calls, blame>>

Write ==
  /\ pc = "write" /\ pc' = "idle"
  /\ pending' = Append(pending, [id |-> written + 1, day |-> stamp])
  /\ written' = written + 1 /\ cur_line' = cur_line + 1
  /\ UNCHANGED <<day, pid, is_open, line_limit, name_vars, stamp, disk,
                 flushed, calls, blame>>

\* flush(), or the buffer of stdio is full
Flush ==
  /\ pc = "idle" /\ is_open /\ pending # <<>>
  /\ disk' = Flushed /\ flushed' = flushed \union ToSet(pending) /\ pending' = <<>>
  /\ UNCHANGED <<day, pid, is_open, line_limit, cur_line, name_vars, stamp,
                 pc, written, calls, blame>>
-----------------------------------------------------------------------------
\* The clock and the process

Tick ==
  /\ day < MaxDay /\ day' = day + 1
  /\ UNCHANGED <<pid, is_open, line_limit, cur_line, name_vars, pc, stamp,
                 pending, disk, flushed, written, calls, blame>>

SetBack ==
  /\ calls < MaxCalls /\ calls' = calls + 1
  /\ day > 1 /\ day' = day - 1 /\ blame' = blame \union {"clock set back"}
  /\ UNCHANGED <<pid, is_open, line_limit, cur_line, name_vars, pc, stamp,
                 pending, disk, flushed, written>>

\* A new process has a new logger and the number the system gives it: getpid() may
\* be that of an earlier one, after a wrap or in a container on the very same day
CrashAndRestart ==
  /\ pid' \in 1 .. MaxPid
  /\ is_open' = FALSE /\ cur_line' = 0 /\ line_limit' \in DefaultLimits
  /\ base' = NoBase /\ date' = 0 /\ num' = 0
  /\ pc' = "idle" /\ stamp' = 0 /\ pending' = <<>>
  /\ UNCHANGED <<day, disk, flushed, written, calls, blame>>

Calls == \/ \E b \in Bases : SetLogName(b)
         \/ \E limit \in Limits : SetLineLimit(limit)
         \/ Open
         \/ \E renames \in BOOLEAN : Close(renames)

Output == \/ Begin \/ SwitchOpen \/ SwitchOpenFails \/ Write
          \/ \E renames \in BOOLEAN : SwitchClose(renames)

Next == Calls \/ Output \/ Flush \/ Tick \/ SetBack \/ CrashAndRestart

Spec == Init /\ [][Next]_vars
-----------------------------------------------------------------------------
Lines == [id : 1 .. MaxLines, day : 1 .. MaxDay]
FileNames == [pid : 1 .. MaxPid, base : Bases, date : 1 .. MaxDay, num : Nat, tmp : BOOLEAN]

TypeOK ==
  /\ day \in 1 .. MaxDay /\ pid \in 1 .. MaxPid
  /\ pc \in {"idle", "close", "open", "write"} /\ is_open \in BOOLEAN
  /\ line_limit \in Limits /\ base \in Bases \union {NoBase}
  /\ date \in 0 .. MaxDay /\ num \in Nat /\ stamp \in 0 .. MaxDay
  /\ DOMAIN disk \subseteq FileNames /\ \A f \in DOMAIN disk : disk[f] \in Seq(Lines)
  /\ pending \in Seq(Lines) /\ flushed \subseteq Lines
  /\ written \in 0 .. MaxLines /\ cur_line \in 0 .. MaxLines /\ calls \in 0 .. MaxCalls

\* A line that has come to the disk stays there, through every switch, failure, crash
\* and restart, as long as no file gets a name that is in use: by a clock set back
\* over midnight, or by a base name taken again on the same day, by the process that
\* gave it up or by a later one with the same process number.
FlushedLinesStay ==
  blame = {} => \A l \in flushed : \E f \in DOMAIN disk : l \in ToSet(disk[f])

\* m_cur_line counts what the open file holds, flushed or not, and no file gets more
\* than its limit; a limit of zero is one.
LinesAreCounted ==
  is_open => LET n == Len(disk[Tmp]) + Len(pending) IN
             n = cur_line /\ (n <= line_limit \/ n <= 1)

\* In the files of one process number, name and date the lines are in the order of
\* the numbers, with the same exceptions.
NumbersAreInOrder == blame = {} => \A f, g \in DOMAIN disk :
  f.pid = g.pid /\ f.base = g.base /\ f.date = g.date /\ f.num < g.num =>
    \A l \in ToSet(disk[f]), m \in ToSet(disk[g]) : l.id < m.id

\* A line of a day is not in the file of an earlier day, unless nothing was written
\* for a month or the clock was set back.
NotInOlderFile == \A f \in DOMAIN disk : \A l \in ToSet(disk[f]) :
  l.day <= f.date \/ Mday(l.day) = Mday(f.date) \/ "clock set back" \in blame

=============================================================================
