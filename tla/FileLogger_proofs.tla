-------------------------- MODULE FileLogger_proofs --------------------------
(***************************************************************************)
(* Theorems about FileLogger, for every limit, calendar and number of      *)
(* lines, calls and processes.                                             *)
(*                                                                         *)
(* That no file is overwritten follows from the names: as long as nothing  *)
(* is to blame, every file of the process and base name is of an earlier   *)
(* date or number than the next one (Fresh).  That lines are in order      *)
(* follows from what still waits in the buffer of stdio (Ordered), that    *)
(* they are counted from the order of the steps of a switch (Phases).      *)
(***************************************************************************)
EXTENDS FileLogger, TLAPS

\* The bounds are positive.
LEMMA Bounds ==
  /\ MonthLength \in Nat \ {0} /\ MaxDay \in Nat \ {0} /\ MaxLines \in Nat \ {0}
  /\ MaxPid \in Nat \ {0} /\ MaxCalls \in Nat \ {0}
  /\ Limits \subseteq Nat /\ NoBase \notin Bases
  BY FileLoggerAssumption

Phases ==
  /\ pc \in {"close", "write"} => is_open
  /\ pc = "open" => ~is_open
  /\ ~is_open => pending = <<>>
  /\ is_open => Tmp \in DOMAIN disk
  /\ is_open \/ pc = "open" => base \in Bases /\ date \in 1 .. MaxDay
  /\ pc # "idle" => written < MaxLines /\ stamp \in 1 .. MaxDay
  /\ base # NoBase => date \in 1 .. MaxDay
  /\ cur_line <= written

Counted ==
  /\ is_open => /\ Len(disk[Tmp]) + Len(pending) = cur_line
                /\ cur_line <= line_limit \/ cur_line <= 1
  /\ pc = "write" => cur_line < line_limit \/ cur_line = 0

\* A file of this process and base name has had its turn
Ours(f) == f.pid = pid /\ f.base = base
Earlier(f) == f.date < date \/ (f.date = date /\ f.num < num)

Fresh ==
  /\ date <= day
  /\ \A f \in DOMAIN disk :
       /\ f.date <= day
       /\ Ours(f) => Earlier(f) \/ (is_open /\ f = Tmp)

Kept == \A l \in flushed : \E f \in DOMAIN disk : l \in ToSet(disk[f])

\* A line of day a may be in a file of date b
Fits(a, b, why) == a <= b \/ Mday(a) = Mday(b) \/ "clock set back" \in why

Dated ==
  /\ \A f \in DOMAIN disk : \A l \in ToSet(disk[f]) : Fits(l.day, f.date, blame)
  /\ \A l \in ToSet(pending) : Fits(l.day, date, blame)
  /\ pc \in {"open", "write"} => Fits(stamp, date, blame)
  /\ pc # "idle" => stamp <= day \/ "clock set back" \in blame

Numbered ==
  /\ \A f \in DOMAIN disk : \A l \in ToSet(disk[f]) : l.id <= written
  /\ \A l \in ToSet(pending) : l.id <= written

Ordered ==
  /\ \A f, g \in DOMAIN disk :
       f.pid = g.pid /\ f.base = g.base /\ f.date = g.date /\ f.num < g.num =>
         \A l \in ToSet(disk[f]), m \in ToSet(disk[g]) : l.id < m.id
  /\ \A f \in DOMAIN disk \ {Tmp} : Ours(f) =>
         \A l \in ToSet(disk[f]), m \in ToSet(pending) : l.id < m.id

IInv == TypeOK /\ Phases /\ Counted /\ Dated /\ Numbered
        /\ (blame = {} => Fresh /\ Kept /\ Ordered)
-----------------------------------------------------------------------------
\* Files and their lines

\* The lines of two sequences.
LEMMA JoinedLines ==
  ASSUME NEW S, NEW s \in Seq(S), NEW t \in Seq(S)
  PROVE  ToSet(s \o t) = ToSet(s) \union ToSet(t)
<1> DEFINE u == s \o t
<1>1. /\ u \in Seq(S) /\ Len(u) = Len(s) + Len(t)
      /\ \A i \in 1 .. Len(s) : u[i] = s[i]
      /\ \A i \in 1 .. Len(t) : u[Len(s) + i] = t[i]
  OBVIOUS
<1>2. /\ DOMAIN u = 1 .. Len(s) + Len(t) /\ DOMAIN s = 1 .. Len(s) /\ DOMAIN t = 1 .. Len(t)
      /\ Len(s) \in Nat /\ Len(t) \in Nat
  BY <1>1
<1> HIDE DEF u
<1>3. ASSUME NEW i \in DOMAIN u PROVE u[i] \in ToSet(s) \union ToSet(t)
  <2>1. CASE i \in 1 .. Len(s)
    BY <2>1, <1>1, <1>2 DEF ToSet
  <2>2. CASE i - Len(s) \in 1 .. Len(t)
    <3> DEFINE j == i - Len(s)
    <3>1. u[Len(s) + j] = t[j] /\ Len(s) + j = i
      BY <2>2, <1>1, <1>2
    <3> QED BY <3>1, <2>2, <1>2 DEF ToSet
  <2> QED BY <2>1, <2>2, <1>2
<1>4. ASSUME NEW i \in DOMAIN s PROVE s[i] \in ToSet(u)
  <2>1. i \in DOMAIN u /\ u[i] = s[i]
    BY <1>1, <1>2
  <2> QED BY <2>1 DEF ToSet
<1>5. ASSUME NEW i \in DOMAIN t PROVE t[i] \in ToSet(u)
  <2>1. Len(s) + i \in DOMAIN u /\ u[Len(s) + i] = t[i]
    BY <1>1, <1>2
  <2> QED BY <2>1 DEF ToSet
<1>6. ToSet(u) = ToSet(s) \union ToSet(t)
  BY <1>3, <1>4, <1>5 DEF ToSet
<1> QED BY <1>6 DEF u

\* The step that leaves the lines of the open file and of the buffer of stdio
\* in the file t, and all others where they are.
Moved(t) ==
  /\ t \in {Tmp, File(FALSE)}
  /\ DOMAIN disk' = (DOMAIN disk \ {Tmp}) \union {t}
  /\ \A f \in DOMAIN disk \ {Tmp, t} : disk'[f] = disk[f]
  /\ disk'[t] = disk[Tmp] \o pending

\* Flushing moves the lines of the buffer into the open file.
LEMMA FlushMoves ==
  ASSUME Tmp \in DOMAIN disk, disk' = Flushed
  PROVE  Moved(Tmp)
  BY DEF Moved, Flushed

\* Closing does, and gives the file its name, unless that fails.
LEMMA CloseMoves ==
  ASSUME Tmp \in DOMAIN disk, NEW renames \in BOOLEAN, Closed(renames)
  PROVE  \E t : Moved(t)
<1>1. CASE renames
  <2> DEFINE d == Flushed
  <2>1. DOMAIN d = DOMAIN disk /\ d[Tmp] = disk[Tmp] \o pending
        /\ \A f \in DOMAIN disk \ {Tmp} : d[f] = disk[f]
    BY DEF Flushed
  <2>2. disk' = Renamed(d)
    BY <1>1 DEF Closed
  <2> HIDE DEF d
  <2>3. Moved(File(FALSE))
    BY <2>1, <2>2 DEF Moved, Renamed, With
  <2> QED BY <2>3
<1>2. CASE ~renames
  BY <1>2, FlushMoves DEF Closed
<1> QED BY <1>1, <1>2

\* Opening adds an empty file.
LEMMA OpenAdds ==
  ASSUME Opened
  PROVE  /\ DOMAIN disk' = DOMAIN disk \union {Tmp} /\ disk'[Tmp] = <<>>
         /\ \A f \in DOMAIN disk \ {Tmp} : disk'[f] = disk[f]
  BY DEF Opened, With

\* What is open has a name.
LEMMA OpenNames ==
  ASSUME TypeOK, Phases, is_open \/ pc = "open"
  PROVE  /\ Tmp \in FileNames /\ File(FALSE) \in FileNames /\ Tmp # File(FALSE)
         /\ \A t \in {Tmp, File(FALSE)} :
              t.pid = pid /\ t.base = base /\ t.date = date /\ t.num = num
  BY DEF TypeOK, Phases, Tmp, File, FileNames

\* Moved lines are lines, in files with names.
LEMMA MovedTypes ==
  ASSUME TypeOK, Phases, is_open, NEW t, Moved(t)
  PROVE  /\ DOMAIN disk' \subseteq FileNames
         /\ \A f \in DOMAIN disk' : disk'[f] \in Seq(Lines)
         /\ ToSet(pending) \subseteq Lines
         /\ ToSet(disk'[t]) = ToSet(disk[Tmp]) \union ToSet(pending)
<1>1. Tmp \in DOMAIN disk /\ disk[Tmp] \in Seq(Lines) /\ pending \in Seq(Lines)
  BY DEF TypeOK, Phases
<1>2. disk'[t] \in Seq(Lines) /\ disk'[t] = disk[Tmp] \o pending
  BY <1>1 DEF Moved
<1>3. t \in FileNames
  BY OpenNames DEF Moved
<1>4. DOMAIN disk' \subseteq FileNames /\ \A f \in DOMAIN disk' : disk'[f] \in Seq(Lines)
  BY <1>2, <1>3 DEF Moved, TypeOK
<1>5. ToSet(pending) \subseteq Lines
  BY <1>1 DEF ToSet
<1> QED BY <1>1, <1>2, <1>4, <1>5, JoinedLines

\* An empty file is one with a name.
LEMMA OpenedTypes ==
  ASSUME TypeOK, Tmp \in FileNames, Opened
  PROVE  /\ DOMAIN disk' \subseteq FileNames
         /\ \A f \in DOMAIN disk' : disk'[f] \in Seq(Lines)
<1>1. <<>> \in Seq(Lines)
  OBVIOUS
<1> QED BY <1>1, OpenAdds DEF TypeOK
-----------------------------------------------------------------------------
\* A logger that was never used satisfies the invariant.
LEMMA InitHolds == Init => IInv
<1> SUFFICES ASSUME Init PROVE IInv
  OBVIOUS
<1>1. DOMAIN disk = {} /\ ToSet(pending) = {} /\ pending \in Seq(Lines)
  BY DEF Init, ToSet
<1>2. TypeOK
  <2>1. disk = <<>> /\ pending = <<>> /\ flushed = {}
    BY DEF Init
  <2>2. /\ day \in 1 .. MaxDay /\ pid \in 1 .. MaxPid
        /\ date \in 0 .. MaxDay /\ stamp \in 0 .. MaxDay
        /\ written \in 0 .. MaxLines /\ cur_line \in 0 .. MaxLines /\ calls \in 0 .. MaxCalls
    BY Bounds DEF Init
  <2>3. DOMAIN disk \subseteq FileNames /\ \A f \in DOMAIN disk : disk[f] \in Seq(Lines)
    BY <1>1
  <2>4. line_limit \in Limits
    BY DEF Init, DefaultLimits
  <2> QED BY <1>1, <2>1, <2>2, <2>3, <2>4 DEF Init, TypeOK
<1>3. Phases /\ Counted
  BY <1>1 DEF Init, Phases, Counted
<1>4. Dated /\ Numbered /\ Ordered
  BY <1>1 DEF Init, Dated, Numbered, Ordered
<1>5. Fresh /\ Kept
  BY <1>1 DEF Init, Fresh, Kept
<1> QED BY <1>2, <1>3, <1>4, <1>5 DEF IInv

\* The number and date after a close are those of the clock.
LEMMA NextIsLater ==
  ASSUME TypeOK
  PROVE  /\ NextNum \in Nat /\ day \in 1 .. MaxDay
         /\ date <= day => date < day \/ (date = day /\ num < NextNum)
  BY Bounds DEF TypeOK, NextNum, Mday

\* Steps that only set, read or tell the time.
Quiet == \/ \E b \in Bases : SetLogName(b)
         \/ \E limit \in Limits : SetLineLimit(limit)
         \/ SwitchOpenFails \/ Tick \/ SetBack \/ CrashAndRestart \/ UNCHANGED vars
         \/ Begin /\ ~FullOrNextDay(day)

\* Steps that move what waits, by kind, and steps that open.
Flushes == Flush \/ (Begin /\ FullOrNextDay(day))
Closes == \E renames \in BOOLEAN : Close(renames) \/ SwitchClose(renames)
Opens == Open \/ SwitchOpen

\* The kinds are all there are.
LEMMA Kinds == [Next]_vars => Quiet \/ Flushes \/ Closes \/ Opens \/ Write
  BY DEF Next, Calls, Output, Quiet, Flushes, Closes, Opens

\* Both ways to flush move the waiting lines and forget them.
LEMMA FlushesMove ==
  ASSUME TypeOK, Phases, Flushes
  PROVE  /\ is_open /\ Moved(Tmp)
         /\ pending' = <<>> /\ flushed' = flushed \union ToSet(pending)
         /\ UNCHANGED <<day, pid, is_open, line_limit, cur_line, base, date, num, written,
                        calls, blame>>
         /\ \/ pc' = pc /\ pc = "idle" /\ stamp' = stamp
            \/ pc' = "close" /\ stamp' = day /\ written < MaxLines
<1>1. is_open /\ Tmp \in DOMAIN disk /\ disk' = Flushed
  BY DEF Phases, Flushes, Flush, Begin
<1> QED BY <1>1, FlushMoves DEF Flushes, Flush, Begin, name_vars

\* Both ways to close do, and take the next name.
LEMMA ClosesMove ==
  ASSUME TypeOK, Phases, Closes
  PROVE  /\ is_open /\ ~is_open' /\ is_open' \in BOOLEAN /\ \E t : Moved(t)
         /\ pending' = <<>> /\ flushed' = flushed \union ToSet(pending)
         /\ num' = NextNum /\ date' = day
         /\ UNCHANGED <<day, pid, line_limit, cur_line, base, stamp, written, blame>>
         /\ pc' \in {"idle", "open"} /\ (pc' = "open" => pc = "close")
         /\ calls' \in {calls, calls + 1} /\ (calls' = calls + 1 => calls < MaxCalls)
<1>1. PICK renames \in BOOLEAN : Close(renames) \/ SwitchClose(renames)
  BY DEF Closes
<1>2. is_open /\ Tmp \in DOMAIN disk /\ Closed(renames)
  BY <1>1 DEF Phases, Close, SwitchClose
<1>3. \E t : Moved(t)
  BY <1>2, CloseMoves
<1>4. /\ ~is_open' /\ is_open' = FALSE /\ pending' = <<>>
      /\ flushed' = flushed \union ToSet(pending) /\ num' = NextNum /\ date' = day
  BY <1>2 DEF Closed
<1>5. CASE Close(renames)
  BY <1>2, <1>3, <1>4, <1>5 DEF Close, Calling
<1>6. CASE SwitchClose(renames)
  <2>1. calls \in Int
    BY Bounds DEF TypeOK
  <2>2. pc' \in {"idle", "open"} /\ (pc' = "open" => pc = "close")
    BY <1>6 DEF SwitchClose
  <2>3. calls' \in {calls, calls + 1} /\ (calls' = calls + 1 => calls < MaxCalls)
    BY <1>6, <2>1 DEF SwitchClose
  <2>4. UNCHANGED <<day, pid, line_limit, cur_line, base, stamp, written, blame>>
    BY <1>6 DEF SwitchClose
  <2> QED BY <1>2, <1>3, <1>4, <1>6, <2>2, <2>3, <2>4
<1> QED BY <1>1, <1>5, <1>6
-----------------------------------------------------------------------------

\* Steps that write and close nothing keep types and phases.
LEMMA QuietTypes ==
  ASSUME TypeOK, Phases, Quiet
  PROVE  TypeOK' /\ Phases'
<1>1. UNCHANGED <<disk, flushed, written>> /\ (pending' = pending \/ pending' = <<>>)
  BY DEF Quiet, SetLogName, SetLineLimit, SwitchOpenFails, Tick, SetBack,
         CrashAndRestart, vars, Begin
<1>2. /\ DOMAIN disk' \subseteq FileNames /\ \A f \in DOMAIN disk' : disk'[f] \in Seq(Lines)
      /\ pending' \in Seq(Lines) /\ flushed' \subseteq Lines /\ written' \in 0 .. MaxLines
  <2>1. <<>> \in Seq(Lines)
    OBVIOUS
  <2> QED BY <1>1, <2>1 DEF TypeOK
<1>3. CASE \E b \in Bases : SetLogName(b)
  <2>1. /\ ~is_open /\ is_open' = is_open /\ pc = "idle" /\ pc' = pc /\ base' \in Bases
        /\ date' = day /\ num' = 0 /\ calls < MaxCalls /\ calls' = calls + 1
        /\ UNCHANGED <<day, pid, line_limit, cur_line, stamp, pending>>
    BY <1>3 DEF SetLogName, Calling
  <2>2. TypeOK'
    BY <1>1, <1>2, <2>1, Bounds DEF TypeOK
  <2>3. Phases'
    BY <1>1, <2>1, Bounds DEF TypeOK, Phases
  <2> QED BY <2>2, <2>3
<1>4. CASE \E limit \in Limits : SetLineLimit(limit)
  <2>1. /\ line_limit' \in Limits /\ calls < MaxCalls /\ calls' = calls + 1
        /\ UNCHANGED <<day, pid, is_open, cur_line, base, date, num, stamp, pc, pending>>
    BY <1>4 DEF SetLineLimit, Calling, name_vars, TypeOK
  <2>2. TypeOK'
    BY <1>1, <1>2, <2>1, Bounds DEF TypeOK
  <2>3. Phases'
    BY <1>1, <2>1, Bounds DEF TypeOK, Phases, Tmp, File
  <2> QED BY <2>2, <2>3
<1>5. CASE SwitchOpenFails
  BY <1>1, <1>2, <1>5, Bounds DEF SwitchOpenFails, TypeOK, Phases, name_vars, Tmp, File
<1>6. CASE Tick
  BY <1>1, <1>2, <1>6, Bounds DEF Tick, TypeOK, Phases, name_vars, Tmp, File
<1>7. CASE SetBack
  <2>1. /\ day \in 2 .. MaxDay /\ day' = day - 1 /\ calls < MaxCalls /\ calls' = calls + 1
        /\ UNCHANGED <<pid, is_open, line_limit, cur_line, base, date, num, pc, stamp, pending>>
    <3>1. day \in 1 .. MaxDay
      BY DEF TypeOK
    <3>2. day > 1 /\ day' = day - 1 /\ calls < MaxCalls /\ calls' = calls + 1
      BY <1>7 DEF SetBack
    <3>3. UNCHANGED <<pid, is_open, line_limit, cur_line, base, date, num, pc, stamp, pending>>
      BY <1>7 DEF SetBack, name_vars
    <3>4. day \in 2 .. MaxDay
      BY <3>1, <3>2, Bounds
    <3> QED BY <3>2, <3>3, <3>4
  <2>2. TypeOK'
    BY <1>1, <1>2, <2>1, Bounds DEF TypeOK
  <2>3. Phases'
    BY <1>1, <2>1, Bounds DEF TypeOK, Phases, Tmp, File
  <2> QED BY <2>2, <2>3
<1>8. CASE CrashAndRestart
  <2>0. /\ pid' \in 1 .. MaxPid /\ line_limit' \in Limits
        /\ is_open' = FALSE /\ cur_line' = 0
        /\ base' = NoBase /\ date' = 0 /\ num' = 0 /\ pc' = "idle" /\ stamp' = 0
        /\ UNCHANGED <<day, calls>>
    BY <1>8 DEF CrashAndRestart, DefaultLimits
  <2>1. TypeOK'
    <3>1. /\ day' \in 1 .. MaxDay /\ pid' \in 1 .. MaxPid /\ num' \in Nat
          /\ date' \in 0 .. MaxDay /\ stamp' \in 0 .. MaxDay
          /\ written' \in 0 .. MaxLines /\ cur_line' \in 0 .. MaxLines /\ calls' \in 0 .. MaxCalls
      BY <1>1, <2>0, Bounds DEF TypeOK
    <3>2. /\ pc' \in {"idle", "close", "open", "write"} /\ is_open' \in BOOLEAN
          /\ line_limit' \in Limits /\ base' \in Bases \union {NoBase}
      BY <1>2, <2>0 DEF TypeOK
    <3>3. pending' \in Seq(Lines) /\ flushed' \subseteq Lines
      BY <1>2, <2>0 DEF TypeOK
    <3> QED BY <3>1, <3>2, <3>3, <1>2 DEF TypeOK
  <2>2. Phases'
    BY <1>1, <1>8, Bounds DEF CrashAndRestart, TypeOK, Phases
  <2> QED BY <2>1, <2>2
<1>9. CASE UNCHANGED vars
  BY <1>1, <1>2, <1>9, Bounds DEF vars, TypeOK, Phases, name_vars, Tmp, File
<1>10. CASE Begin /\ ~FullOrNextDay(day)
  BY <1>1, <1>2, <1>10, Bounds DEF Begin, TypeOK, Phases, name_vars, Tmp, File
<1> QED BY <1>3, <1>4, <1>5, <1>6, <1>7, <1>8, <1>9, <1>10 DEF Quiet

\* Every step keeps types and phases.
LEMMA TypeStep ==
  ASSUME TypeOK, Phases, [Next]_vars
  PROVE  TypeOK' /\ Phases'
<1> USE Bounds
<1>1. CASE Quiet
  BY <1>1, QuietTypes
<1>2. CASE Flushes
  <2>1. is_open /\ Moved(Tmp)
    BY <1>2, FlushesMove
  <2>2. /\ DOMAIN disk' \subseteq FileNames
        /\ \A f \in DOMAIN disk' : disk'[f] \in Seq(Lines)
        /\ ToSet(pending) \subseteq Lines
    BY <2>1, MovedTypes
  <2>3. Tmp' = Tmp /\ <<>> \in Seq(Lines) /\ Tmp \in DOMAIN disk'
    BY <1>2, <2>1, FlushesMove DEF Tmp, File, Moved
  <2>4. TypeOK'
    <3>1. /\ day' \in 1 .. MaxDay /\ pid' \in 1 .. MaxPid /\ num' \in Nat
          /\ date' \in 0 .. MaxDay /\ stamp' \in 0 .. MaxDay
          /\ written' \in 0 .. MaxLines /\ cur_line' \in 0 .. MaxLines /\ calls' \in 0 .. MaxCalls
      BY <1>2, FlushesMove, Bounds DEF TypeOK
    <3>2. /\ pc' \in {"idle", "close", "open", "write"} /\ is_open' \in BOOLEAN
          /\ line_limit' \in Limits /\ base' \in Bases \union {NoBase}
      BY <1>2, <2>2, <2>3, FlushesMove DEF TypeOK
    <3>3. pending' \in Seq(Lines) /\ flushed' \subseteq Lines
      BY <1>2, <2>2, <2>3, FlushesMove DEF TypeOK
    <3> QED BY <3>1, <3>2, <3>3, <2>2 DEF TypeOK
  <2>5. Phases'
    BY <1>2, <2>1, <2>3, FlushesMove DEF TypeOK, Phases
  <2> QED BY <2>4, <2>5
<1>3. CASE Closes
  <2>1. is_open /\ \E t : Moved(t)
    BY <1>3, ClosesMove
  <2>2. /\ DOMAIN disk' \subseteq FileNames
        /\ \A f \in DOMAIN disk' : disk'[f] \in Seq(Lines)
        /\ ToSet(pending) \subseteq Lines
    BY <2>1, MovedTypes
  <2>3. NextNum \in Nat /\ day \in 1 .. MaxDay /\ <<>> \in Seq(Lines)
    BY NextIsLater
  <2>4. TypeOK'
    <3>1. /\ day' \in 1 .. MaxDay /\ pid' \in 1 .. MaxPid /\ num' \in Nat
          /\ date' \in 0 .. MaxDay /\ stamp' \in 0 .. MaxDay
          /\ written' \in 0 .. MaxLines /\ cur_line' \in 0 .. MaxLines /\ calls' \in 0 .. MaxCalls
      <4>1. /\ num' = NextNum /\ date' = day /\ UNCHANGED <<day, pid, stamp, written, cur_line>>
            /\ calls' \in {calls, calls + 1} /\ (calls' = calls + 1 => calls < MaxCalls)
        BY <1>3, ClosesMove
      <4>2. calls' \in 0 .. MaxCalls
        BY <4>1, Bounds DEF TypeOK
      <4> QED BY <4>1, <4>2, <2>3, Bounds DEF TypeOK
    <3>2. /\ pc' \in {"idle", "close", "open", "write"} /\ is_open' \in BOOLEAN
          /\ line_limit' \in Limits /\ base' \in Bases \union {NoBase}
      BY <1>3, <2>2, <2>3, ClosesMove DEF TypeOK
    <3>3. pending' \in Seq(Lines) /\ flushed' \subseteq Lines
      BY <1>3, <2>2, <2>3, ClosesMove DEF TypeOK
    <3> QED BY <3>1, <3>2, <3>3, <2>2 DEF TypeOK
  <2>5. Phases'
    BY <1>3, <2>1, <2>3, ClosesMove DEF TypeOK, Phases
  <2> QED BY <2>4, <2>5
<1>4. CASE Opens
  <2>1. base \in Bases /\ date \in 1 .. MaxDay /\ Opened /\ ~is_open
    BY <1>4 DEF Opens, Open, SwitchOpen, TypeOK, Phases
  <2>2. Tmp \in FileNames
    BY <2>1 DEF TypeOK, Tmp, File, FileNames
  <2>3. /\ UNCHANGED <<day, pid, line_limit, base, date, num, stamp, pending, flushed, written>>
        /\ is_open' = TRUE /\ cur_line' = 0
        /\ \/ pc' = pc /\ pc = "idle" /\ calls' = calls + 1 /\ calls < MaxCalls
           \/ pc' = "write" /\ pc = "open" /\ calls' = calls
    BY <1>4 DEF Opens, Open, SwitchOpen, name_vars, Opened, Calling
  <2>4. Tmp' = Tmp
    BY <2>3 DEF Tmp, File
  <2>5. /\ DOMAIN disk' \subseteq FileNames
        /\ \A f \in DOMAIN disk' : disk'[f] \in Seq(Lines)
        /\ Tmp \in DOMAIN disk'
    BY <2>1, <2>2, OpenedTypes, OpenAdds
  <2>6. TypeOK'
    BY <2>1, <2>3, <2>5 DEF TypeOK
  <2>7. Phases'
    BY <2>1, <2>3, <2>4, <2>5 DEF TypeOK, Phases
  <2> QED BY <2>6, <2>7
<1>5. CASE Write
  <2>1. [id |-> written + 1, day |-> stamp] \in Lines
    BY <1>5 DEF Write, TypeOK, Phases, Lines
  <2>2. pending' \in Seq(Lines)
    BY <1>5, <2>1 DEF Write, TypeOK
  <2>3. TypeOK'
    BY <1>5, <2>2 DEF Write, TypeOK, Phases, name_vars
  <2>4. Phases'
    BY <1>5 DEF Write, TypeOK, Phases, name_vars, Tmp, File
  <2> QED BY <2>3, <2>4
<1> QED BY <1>1, <1>2, <1>3, <1>4, <1>5, Kinds
-----------------------------------------------------------------------------
\* Every step keeps count of the lines.
LEMMA CountStep ==
  ASSUME TypeOK, Phases, Counted, [Next]_vars
  PROVE  Counted'
<1>0. /\ line_limit \in Nat /\ cur_line \in Nat /\ Len(pending) \in Nat
      /\ is_open => Len(disk[Tmp]) \in Nat /\ disk[Tmp] \in Seq(Lines)
      /\ pending \in Seq(Lines)
  BY Bounds DEF TypeOK, Phases
<1>1. CASE Quiet
  <2>1. CASE Begin /\ ~FullOrNextDay(day)
    <3>1. /\ UNCHANGED <<is_open, line_limit, cur_line, disk, pending>> /\ Tmp' = Tmp
          /\ cur_line < line_limit
      BY <2>1, <1>0 DEF Begin, FullOrNextDay, Tmp, File, name_vars
    <3> QED BY <3>1 DEF Counted
  <2>2. CASE ~is_open'
    <3>1. pc' # "write"
      BY <1>1, <2>2 DEF Quiet, SetLogName, Calling, SetLineLimit, SwitchOpenFails, Tick, SetBack,
            CrashAndRestart, vars, Begin, Phases
    <3> QED BY <2>2, <3>1 DEF Counted
  <2>3. CASE is_open' /\ (Tick \/ SetBack \/ UNCHANGED vars \/ SwitchOpenFails)
    <3>1. /\ UNCHANGED <<is_open, line_limit, cur_line, disk, pending>> /\ Tmp' = Tmp
          /\ pc' = "write" => pc = "write"
      BY <2>3 DEF Tick, SetBack, vars, name_vars, SwitchOpenFails, Tmp, File
    <3> QED BY <3>1 DEF Counted
  <2>4. CASE is_open' /\ ((\E b \in Bases : SetLogName(b)) \/
                          (\E limit \in Limits : SetLineLimit(limit)) \/ CrashAndRestart)
    BY <2>4 DEF SetLogName, SetLineLimit, CrashAndRestart
  <2> QED BY <1>1, <2>1, <2>2, <2>3, <2>4 DEF Quiet
<1>2. CASE Flushes
  <2>1. /\ is_open /\ Moved(Tmp) /\ pending' = <<>> /\ pc' # "write"
        /\ UNCHANGED <<is_open, line_limit, cur_line>> /\ Tmp' = Tmp
    BY <1>2, FlushesMove DEF Tmp, File
  <2>2. Len(disk'[Tmp]) = Len(disk[Tmp]) + Len(pending)
    BY <1>0, <2>1 DEF Moved
  <2>3. Len(pending') = 0
    BY <2>1
  <2> QED BY <1>0, <2>1, <2>2, <2>3 DEF Counted
<1>3. CASE Closes
  BY <1>3, ClosesMove DEF Counted
<1>4. CASE Opens
  <2>1. /\ Opened /\ ~is_open /\ Tmp' = Tmp /\ UNCHANGED <<line_limit, pending>>
        /\ cur_line' = 0
    BY <1>4 DEF Opens, Open, SwitchOpen, Phases, Tmp, File, name_vars, Opened
  <2>2. Len(disk'[Tmp]) = 0 /\ Len(pending') = 0
    BY <2>1, OpenAdds DEF Phases
  <2> QED BY <1>0, <2>1, <2>2 DEF Counted
<1>5. CASE Write
  <2>1. /\ is_open /\ pc' = "idle" /\ cur_line' = cur_line + 1 /\ Tmp' = Tmp
        /\ UNCHANGED <<is_open, line_limit, disk>>
        /\ cur_line < line_limit \/ cur_line = 0
    BY <1>5 DEF Write, Phases, Counted, Tmp, File, name_vars
  <2>2. Len(pending') = Len(pending) + 1
    BY <1>0, <1>5 DEF Write
  <2>3. Len(disk[Tmp]) + Len(pending) = cur_line
    BY <2>1 DEF Counted
  <2>4. Len(disk[Tmp]) \in Nat
    BY <1>0, <2>1
  <2>5. Len(disk[Tmp]) + Len(pending') = cur_line'
    <3>1. \A a, b \in Nat : a + (b + 1) = (a + b) + 1
      OBVIOUS
    <3>2. Len(disk[Tmp]) + (Len(pending) + 1) = (Len(disk[Tmp]) + Len(pending)) + 1
      BY <1>0, <2>4, <3>1
    <3> QED BY <2>1, <2>2, <2>3, <3>2
  <2>6. cur_line' <= line_limit \/ cur_line' <= 1
    BY <1>0, <2>1
  <2> QED BY <2>1, <2>5, <2>6 DEF Counted
<1> QED BY <1>1, <1>2, <1>3, <1>4, <1>5, Kinds

\* What the clock did, nobody takes back.
LEMMA BlameStays == [Next]_vars => blame \subseteq blame'
<1> SUFFICES ASSUME [Next]_vars PROVE blame \subseteq blame'
  OBVIOUS
<1>1. CASE Quiet
  BY <1>1 DEF Quiet, SetLogName, SetLineLimit, SwitchOpenFails, Tick, SetBack,
            CrashAndRestart, vars, Begin
<1>2. CASE Flushes
  BY <1>2 DEF Flushes, Flush, Begin
<1>3. CASE Closes
  BY <1>3 DEF Closes, Close, SwitchClose
<1>4. CASE Opens \/ Write
  BY <1>4 DEF Opens, Open, SwitchOpen, Write
<1> QED BY <1>1, <1>2, <1>3, <1>4, Kinds

\* Where the lines of moved files come from.
LEMMA MovedFrom ==
  ASSUME TypeOK, Phases, is_open, NEW t, Moved(t), NEW f \in DOMAIN disk'
  PROVE  \/ f \in DOMAIN disk \ {Tmp, t} /\ disk'[f] = disk[f]
         \/ /\ f = t /\ ToSet(disk'[f]) = ToSet(disk[Tmp]) \union ToSet(pending)
            /\ Tmp \in DOMAIN disk
            /\ f.pid = pid /\ f.base = base /\ f.date = date /\ f.num = num
  BY MovedTypes, OpenNames DEF Moved, Phases

\* Lines stay with the days of their files.
LEMMA MovedDated ==
  ASSUME TypeOK, Phases, Dated, is_open, NEW t, Moved(t), blame' = blame
  PROVE  \A f \in DOMAIN disk' : \A l \in ToSet(disk'[f]) : Fits(l.day, f.date, blame')
<1> SUFFICES ASSUME NEW f \in DOMAIN disk', NEW l \in ToSet(disk'[f])
             PROVE  Fits(l.day, f.date, blame)
  BY DEF Fits
<1>1. CASE f \in DOMAIN disk \ {Tmp, t} /\ disk'[f] = disk[f]
  BY <1>1 DEF Dated
<1>2. CASE /\ ToSet(disk'[f]) = ToSet(disk[Tmp]) \union ToSet(pending)
           /\ Tmp \in DOMAIN disk /\ f.date = date
  <2>1. Tmp.date = date
    BY DEF Tmp, File
  <2> QED BY <1>2, <2>1 DEF Dated
<1> QED BY <1>1, <1>2, MovedFrom

\* The lines behind one more.
LEMMA OneMoreLine ==
  ASSUME NEW S, NEW s \in Seq(S), NEW e
  PROVE  ToSet(Append(s, e)) = ToSet(s) \union {e}
<1>1. /\ DOMAIN Append(s, e) = 1 .. Len(s) + 1 /\ DOMAIN s = 1 .. Len(s) /\ Len(s) \in Nat
      /\ \A i \in 1 .. Len(s) : Append(s, e)[i] = s[i]
      /\ Append(s, e)[Len(s) + 1] = e
  OBVIOUS
<1>2. \A i \in 1 .. Len(s) + 1 : i \in 1 .. Len(s) \/ i = Len(s) + 1
  BY <1>1
<1>3. 1 .. Len(s) \subseteq 1 .. Len(s) + 1 /\ Len(s) + 1 \in 1 .. Len(s) + 1
  BY <1>1
<1> QED BY <1>1, <1>2, <1>3 DEF ToSet

\* What a step that only sets, reads or tells the time does to lines and names.
LEMMA QuietLines ==
  ASSUME Phases, Quiet
  PROVE  /\ UNCHANGED <<disk, flushed, written>>
         /\ \/ pending' = <<>> /\ pc' = "idle"
            \/ UNCHANGED <<pending, pid, base, date, num>>
  BY DEF Quiet, SetLogName, Calling, SetLineLimit, SwitchOpenFails, Tick, SetBack,
         CrashAndRestart, vars, Begin, Phases, name_vars

\* Nothing waits.
LEMMA NoLines == ToSet(<<>>) = {}
  BY DEF ToSet

\* Opening adds no line.
LEMMA OpensAdd ==
  ASSUME Phases, Opens
  PROVE  /\ ~is_open /\ is_open' = TRUE /\ Tmp' = Tmp
         /\ DOMAIN disk' = DOMAIN disk \union {Tmp} /\ ToSet(disk'[Tmp]) = {}
         /\ \A f \in DOMAIN disk \ {Tmp} : disk'[f] = disk[f]
         /\ pending = <<>> /\ pending' = <<>> /\ ToSet(pending') = {}
         /\ UNCHANGED <<day, pid, base, date, num, stamp, flushed, written, blame>>
         /\ \/ pc' = "idle" 
            \/ pc' = "write" /\ pc = "open"
<1>1. Opened /\ ~is_open
  BY DEF Opens, Open, SwitchOpen, Phases
<1>2. UNCHANGED <<day, pid, base, date, num, stamp, flushed, written, blame, pending>>
  BY DEF Opens, Open, SwitchOpen, name_vars
<1>3. is_open' = TRUE /\ Tmp' = Tmp /\ pending = <<>>
  BY <1>1, <1>2 DEF Opened, Tmp, File, Phases
<1>4. pc' = "idle" \/ (pc' = "write" /\ pc = "open")
  BY DEF Opens, Open, SwitchOpen, Calling
<1> QED BY <1>1, <1>2, <1>3, <1>4, OpenAdds, NoLines

\* Every line of a day keeps to the files of that day.
LEMMA DatedStep ==
  ASSUME TypeOK, Phases, Dated, [Next]_vars
  PROVE  Dated'
<1>0. \A a, b : Fits(a, b, blame) => Fits(a, b, blame')
  BY BlameStays DEF Fits
<1>1. CASE Quiet
  <2>1. \A f \in DOMAIN disk' : \A l \in ToSet(disk'[f]) : Fits(l.day, f.date, blame')
    BY <1>0, <1>1, QuietLines DEF Dated
  <2>2. \A l \in ToSet(pending') : Fits(l.day, date', blame')
    BY <1>0, <1>1, QuietLines, NoLines DEF Dated
  <2>3. CASE Begin /\ ~FullOrNextDay(day)
    <3>1. stamp' = day /\ day' = day /\ date' = date /\ Mday(day) = Mday(date) /\ day \in Int
      BY <2>3 DEF Begin, FullOrNextDay, name_vars, TypeOK
    <3>2. Fits(stamp', date', blame') /\ stamp' <= day'
      BY <3>1 DEF Fits
    <3> QED BY <2>1, <2>2, <3>2 DEF Dated, Fits
  <2>4. CASE pc' = "idle"
    BY <2>1, <2>2, <2>4 DEF Dated, Fits
  <2>5. CASE Tick \/ UNCHANGED vars
    <3>1. UNCHANGED <<pc, stamp, date, blame>> /\ (day' = day \/ day' = day + 1)
      BY <2>5 DEF Tick, vars, name_vars
    <3>2. day \in Int /\ stamp \in Int
      BY DEF TypeOK
    <3>3. stamp <= day => stamp' <= day'
      BY <3>1, <3>2
    <3> QED BY <2>1, <2>2, <3>1, <3>3 DEF Dated, Fits
  <2>6. CASE SetBack
    <3>1. "clock set back" \in blame'
      BY <2>6 DEF SetBack
    <3> QED BY <3>1 DEF Dated, Fits
  <2>7. CASE (\E b \in Bases : SetLogName(b)) \/ (\E limit \in Limits : SetLineLimit(limit))
             \/ SwitchOpenFails \/ CrashAndRestart
    BY <2>4, <2>7 DEF SetLogName, SetLineLimit, SwitchOpenFails, CrashAndRestart, Calling
  <2> QED BY <1>1, <2>3, <2>5, <2>6, <2>7 DEF Quiet
<1>2. CASE Flushes
  <2>1. /\ is_open /\ Moved(Tmp) /\ pending' = <<>> /\ blame' = blame /\ day' = day
        /\ pc' = "idle" \/ (pc' = "close" /\ stamp' = day)
    BY <1>2, FlushesMove
  <2>2. \A f \in DOMAIN disk' : \A l \in ToSet(disk'[f]) : Fits(l.day, f.date, blame')
    BY <2>1, MovedDated
  <2>3. pc' # "idle" => pc' = "close" /\ stamp' <= day'
    BY <2>1 DEF TypeOK
  <2> QED BY <2>1, <2>2, <2>3, NoLines DEF Dated
<1>3. CASE Closes
  <2>1. /\ is_open /\ pending' = <<>> /\ blame' = blame /\ day' = day /\ date' = day
        /\ stamp' = stamp /\ pc' \in {"idle", "open"} /\ (pc' = "open" => pc = "close")
        /\ \E t : Moved(t)
    BY <1>3, ClosesMove
  <2>2. \A f \in DOMAIN disk' : \A l \in ToSet(disk'[f]) : Fits(l.day, f.date, blame')
    BY <2>1, MovedDated
  <2> QED BY <2>1, <2>2, NoLines DEF Dated, Fits
<1>4. CASE Opens
  <2>1. \A f \in DOMAIN disk' : \A l \in ToSet(disk'[f]) : Fits(l.day, f.date, blame')
    BY <1>0, <1>4, OpensAdd DEF Dated
  <2>2. \A l \in ToSet(pending') : Fits(l.day, date', blame')
    BY <1>4, OpensAdd
  <2> QED BY <1>4, <2>1, <2>2, OpensAdd DEF Dated, Fits
<1>5. CASE Write
  <2>1. /\ UNCHANGED <<disk, date, blame>> /\ pc' = "idle" /\ Fits(stamp, date, blame)
        /\ pending' = Append(pending, [id |-> written + 1, day |-> stamp])
    BY <1>5 DEF Write, name_vars, Dated
  <2>2. ToSet(pending') = ToSet(pending) \union {[id |-> written + 1, day |-> stamp]}
    BY <2>1, OneMoreLine DEF TypeOK
  <2>3. \A l \in ToSet(pending') : Fits(l.day, date, blame)
    <3>1. [id |-> written + 1, day |-> stamp].day = stamp
      OBVIOUS
    <3> QED BY <2>1, <2>2, <3>1 DEF Dated
  <2> QED BY <2>1, <2>3 DEF Dated, Fits
<1> QED BY <1>1, <1>2, <1>3, <1>4, <1>5, Kinds

\* Lines have numbers.
LEMMA LinesHaveNumbers ==
  ASSUME NEW s \in Seq(Lines), NEW l \in ToSet(s)
  PROVE  l.id \in Int
<1>1. \A i \in DOMAIN s : s[i] \in Lines
  OBVIOUS
<1>2. l \in Lines
  BY <1>1 DEF ToSet
<1> QED BY <1>2, Bounds DEF Lines

\* No line is on the disk or waits that was not written.
LEMMA NumberStep ==
  ASSUME TypeOK, Phases, Numbered, [Next]_vars
  PROVE  Numbered'
<1>1. CASE Quiet
  BY <1>1, QuietLines, NoLines DEF Numbered
<1>2. ASSUME is_open, NEW t, Moved(t), pending' = <<>>, written' = written PROVE Numbered'
  <2>1. ASSUME NEW f \in DOMAIN disk', NEW l \in ToSet(disk'[f]) PROVE l.id <= written
    <3>1. CASE f \in DOMAIN disk \ {Tmp, t} /\ disk'[f] = disk[f]
      BY <2>1, <3>1 DEF Numbered
    <3>2. CASE /\ ToSet(disk'[f]) = ToSet(disk[Tmp]) \union ToSet(pending)
               /\ Tmp \in DOMAIN disk
      BY <2>1, <3>2 DEF Numbered
    <3> QED BY <1>2, <2>1, <3>1, <3>2, MovedFrom
  <2> QED BY <1>2, <2>1, NoLines DEF Numbered
<1>3. CASE Flushes
  BY <1>2, <1>3, FlushesMove
<1>4. CASE Closes
  BY <1>2, <1>4, ClosesMove
<1>5. CASE Opens
  BY <1>5, OpensAdd DEF Numbered
<1>6. CASE Write
  <2> DEFINE line == [id |-> written + 1, day |-> stamp]
  <2>1. disk' = disk /\ written' = written + 1 /\ pending' = Append(pending, line)
    BY <1>6 DEF Write
  <2>2. ToSet(pending') = ToSet(pending) \union {line}
    BY <2>1, OneMoreLine DEF TypeOK
  <2>3. ASSUME NEW f \in DOMAIN disk, NEW l \in ToSet(disk[f]) PROVE l.id <= written + 1
    <3>1. l.id \in Int
      BY LinesHaveNumbers DEF TypeOK
    <3>2. written \in Int /\ l.id <= written
      BY DEF TypeOK, Numbered
    <3> QED BY <3>1, <3>2
  <2>4. ASSUME NEW l \in ToSet(pending') PROVE l.id <= written + 1
    <3>1. CASE l \in ToSet(pending)
      <4>1. l.id \in Int
        BY <3>1, LinesHaveNumbers DEF TypeOK
      <4>2. written \in Int /\ l.id <= written
        BY <3>1 DEF TypeOK, Numbered
      <4> QED BY <4>1, <4>2
    <3>2. CASE l = line
      <4>1. l.id = written + 1 /\ written \in Int
        BY <3>2 DEF TypeOK
      <4> QED BY <4>1
    <3> QED BY <2>2, <2>4, <3>1, <3>2
  <2> QED BY <2>1, <2>3, <2>4 DEF Numbered
<1> QED BY <1>1, <1>3, <1>4, <1>5, <1>6, Kinds

\* As long as nothing is to blame, the next name is new.
LEMMA FreshStep ==
  ASSUME TypeOK, Phases, Fresh, [Next]_vars, blame' = {}
  PROVE  Fresh'
<1>0. /\ day \in Int /\ date \in Int /\ num \in Nat
      /\ \A f \in DOMAIN disk : f.date \in Int /\ f.num \in Int
  BY Bounds DEF TypeOK, FileNames
<1>1. CASE Quiet
  <2>1. CASE \E b \in Bases : SetLogName(b)
    <3>1. /\ date' = day /\ num' = 0 /\ UNCHANGED <<disk, day, pid>>
          /\ \A f \in DOMAIN disk : ~(f.pid = pid /\ f.base = base' /\ f.date = day)
      BY <2>1 DEF SetLogName
    <3>2. \A f \in DOMAIN disk : f.date <= day
      BY DEF Fresh
    <3>3. ASSUME NEW f \in DOMAIN disk, Ours(f)' PROVE f.date < day
      BY <1>0, <3>1, <3>2, <3>3 DEF Ours
    <3> QED BY <1>0, <3>1, <3>2, <3>3 DEF Fresh, Earlier
  <2>2. CASE Tick
    <3>1. day' = day + 1 /\ UNCHANGED <<disk, pid, base, date, num, is_open>>
      BY <2>2 DEF Tick, name_vars
    <3>2. date <= day' /\ \A f \in DOMAIN disk : f.date <= day'
      BY <1>0, <3>1 DEF Fresh
    <3> QED BY <3>1, <3>2 DEF Fresh, Ours, Earlier, Tmp, File
  <2>3. CASE SetBack
    BY <2>3 DEF SetBack
  <2>4. CASE CrashAndRestart
    <3>1. base' = NoBase /\ date' = 0 /\ UNCHANGED <<disk, day>> /\ day >= 1
      BY <2>4, Bounds DEF CrashAndRestart, TypeOK
    <3>2. \A f \in DOMAIN disk : f.base \in Bases
      BY DEF TypeOK, FileNames
    <3>3. \A f \in DOMAIN disk' : f.date <= day' /\ ~Ours(f)'
      BY <3>1, <3>2, Bounds DEF Fresh, Ours
    <3> QED BY <1>0, <3>1, <3>3 DEF Fresh
  <2>5. CASE (\E limit \in Limits : SetLineLimit(limit)) \/ SwitchOpenFails \/ UNCHANGED vars
             \/ (Begin /\ ~FullOrNextDay(day))
    <3>1. UNCHANGED <<disk, day, pid, base, date, num, is_open>>
      BY <2>5 DEF SetLineLimit, SwitchOpenFails, vars, Begin, name_vars
    <3> QED BY <3>1 DEF Fresh, Ours, Earlier, Tmp, File
  <2> QED BY <1>1, <2>1, <2>2, <2>3, <2>4, <2>5 DEF Quiet
<1>2. CASE Flushes
  <2>1. /\ is_open /\ Moved(Tmp) /\ UNCHANGED <<day, pid, base, date, num, is_open>>
    BY <1>2, FlushesMove
  <2>2. DOMAIN disk' = DOMAIN disk /\ Tmp' = Tmp
    BY <2>1 DEF Moved, Phases, Tmp, File
  <2> QED BY <2>1, <2>2 DEF Fresh, Ours, Earlier
<1>3. CASE Closes
  <2>1. /\ is_open /\ num' = NextNum /\ date' = day /\ UNCHANGED <<day, pid, base>>
        /\ \E t : Moved(t)
    BY <1>3, ClosesMove
  <2>2. NextNum \in Nat /\ (date < day \/ (date = day /\ num < NextNum)) /\ date <= day
    BY NextIsLater DEF Fresh
  <2>3. PICK t : Moved(t)
    BY <2>1
  <2>4. ASSUME NEW f \in DOMAIN disk'
        PROVE  f.date <= day /\ (Ours(f) => f.date < day \/ (f.date = day /\ f.num < NextNum))
    <3>1. CASE f \in DOMAIN disk \ {Tmp, t}
      <4>1. f.date <= day /\ (Ours(f) => Earlier(f))
        BY <3>1 DEF Fresh
      <4>2. f.date \in Int /\ f.num \in Int
        BY <1>0, <3>1
      <4> QED BY <1>0, <2>2, <4>1, <4>2 DEF Earlier
    <3>2. CASE f.pid = pid /\ f.date = date /\ f.num = num
      BY <1>0, <2>2, <3>2
    <3> QED BY <2>1, <2>3, <2>4, <3>1, <3>2, MovedFrom
  <2>5. date' <= day' /\ \A f : (Ours(f)' <=> Ours(f))
    BY <1>0, <2>1 DEF Ours
  <2> QED BY <2>1, <2>4, <2>5 DEF Fresh, Earlier
<1>4. CASE Opens
  <2>1. /\ is_open' /\ UNCHANGED <<day, pid, base, date, num>> /\ Tmp' = Tmp
        /\ DOMAIN disk' = DOMAIN disk \union {Tmp} /\ ~is_open
    BY <1>4, OpensAdd
  <2>2. Tmp.date = date
    BY DEF Tmp, File
  <2>3. Tmp.date <= day
    BY <1>0, <2>2 DEF Fresh
  <2> QED BY <2>1, <2>3 DEF Fresh, Ours, Earlier
<1>5. CASE Write
  BY <1>5 DEF Write, Fresh, Ours, Earlier, Tmp, File, name_vars
<1> QED BY <1>1, <1>2, <1>3, <1>4, <1>5, Kinds

\* No other file has the name of the open one, nor the one it will get.
LEMMA OthersAreEarlier ==
  ASSUME TypeOK, Fresh, NEW f \in DOMAIN disk, ~is_open \/ f # Tmp,
         f.pid = pid, f.base = base
  PROVE  Earlier(f) /\ ~(f.date = date /\ f.num >= num)
<1>1. Earlier(f)
  BY DEF Fresh, Ours
<1>2. f.date \in Int /\ f.num \in Int /\ date \in Int /\ num \in Int
  BY Bounds DEF TypeOK, FileNames
<1> QED BY <1>1, <1>2 DEF Earlier

\* Nothing that came to the disk is overwritten.
LEMMA KeptStep ==
  ASSUME TypeOK, Phases, Fresh, Kept, [Next]_vars
  PROVE  Kept'
<1>1. CASE Quiet
  BY <1>1, QuietLines DEF Kept
<1>2. ASSUME is_open, NEW t, Moved(t), flushed' = flushed \union ToSet(pending) PROVE Kept'
  <2>1. /\ Tmp \in DOMAIN disk /\ t \in DOMAIN disk'
        /\ ToSet(disk'[t]) = ToSet(disk[Tmp]) \union ToSet(pending)
    BY <1>2, MovedTypes DEF Moved, Phases
  <2>2. t = Tmp \/ t \notin DOMAIN disk
    <3> SUFFICES ASSUME t # Tmp, t \in DOMAIN disk PROVE FALSE
      OBVIOUS
    <3>1. t.pid = pid /\ t.base = base /\ t.date = date /\ t.num = num
      BY <1>2, OpenNames DEF Moved
    <3>2. num >= num
      BY DEF TypeOK
    <3> QED BY <3>1, <3>2, OthersAreEarlier
  <2>3. ASSUME NEW l \in flushed PROVE \E f \in DOMAIN disk' : l \in ToSet(disk'[f])
    <3>1. PICK f \in DOMAIN disk : l \in ToSet(disk[f])
      BY <2>3 DEF Kept
    <3>2. CASE f = Tmp
      BY <2>1, <3>1, <3>2
    <3>3. CASE f # Tmp
      <4>1. f \in DOMAIN disk \ {Tmp, t}
        BY <2>2, <3>3
      <4> QED BY <1>2, <3>1, <4>1 DEF Moved
    <3> QED BY <3>2, <3>3
  <2> QED BY <1>2, <2>1, <2>3 DEF Kept
<1>3. CASE Flushes
  BY <1>2, <1>3, FlushesMove
<1>4. CASE Closes
  BY <1>2, <1>4, ClosesMove
<1>5. CASE Opens
  <2>1. Tmp \notin DOMAIN disk
    <3> SUFFICES ASSUME Tmp \in DOMAIN disk PROVE FALSE
      OBVIOUS
    <3>1. /\ Tmp.pid = pid /\ Tmp.base = base /\ Tmp.date = date /\ Tmp.num = num
          /\ num \in Int /\ ~is_open
      BY <1>5, OpensAdd DEF Tmp, File, TypeOK
    <3>2. num >= num
      BY <3>1
    <3> QED BY <3>1, <3>2, OthersAreEarlier
  <2> QED BY <1>5, <2>1, OpensAdd DEF Kept
<1>6. CASE Write
  BY <1>6 DEF Write, Kept
<1> QED BY <1>1, <1>3, <1>4, <1>5, <1>6, Kinds

\* Moving the waiting lines breaks no order.
LEMMA MovedOrdered ==
  ASSUME TypeOK, Phases, Fresh, Ordered, is_open, NEW t, Moved(t)
  PROVE  \A f, g \in DOMAIN disk' :
           f.pid = g.pid /\ f.base = g.base /\ f.date = g.date /\ f.num < g.num =>
             \A l \in ToSet(disk'[f]), m \in ToSet(disk'[g]) : l.id < m.id
<1> SUFFICES ASSUME NEW f \in DOMAIN disk', NEW g \in DOMAIN disk',
                    f.pid = g.pid, f.base = g.base, f.date = g.date, f.num < g.num,
                    NEW l \in ToSet(disk'[f]), NEW m \in ToSet(disk'[g])
             PROVE  l.id < m.id
  OBVIOUS
<1> DEFINE Stays(h) == h \in DOMAIN disk \ {Tmp, t} /\ disk'[h] = disk[h]
           Ends(h) == /\ ToSet(disk'[h]) = ToSet(disk[Tmp]) \union ToSet(pending)
                      /\ Tmp \in DOMAIN disk
                      /\ h.pid = pid /\ h.base = base /\ h.date = date /\ h.num = num
<1>1. (Stays(f) \/ Ends(f)) /\ (Stays(g) \/ Ends(g))
  BY MovedFrom
<1>2. Tmp.pid = pid /\ Tmp.base = base /\ Tmp.date = date /\ Tmp.num = num
  BY DEF Tmp, File
<1>3. num \in Int /\ \A h \in DOMAIN disk : h.num \in Int
  BY DEF TypeOK, FileNames
<1>4. CASE Stays(f) /\ Stays(g)
  BY <1>4 DEF Ordered
<1>5. CASE Stays(f) /\ Ends(g)
  <2>1. \A k \in ToSet(disk[f]) : \A n \in ToSet(disk[Tmp]) : k.id < n.id
    BY <1>2, <1>5 DEF Ordered
  <2>2. \A k \in ToSet(disk[f]) : \A n \in ToSet(pending) : k.id < n.id
    BY <1>5 DEF Ordered, Ours
  <2> QED BY <1>5, <2>1, <2>2
<1>6. CASE Ends(f) /\ Stays(g)
  <2>1. g.pid = pid /\ g.base = base /\ g.date = date /\ num < g.num /\ g \in DOMAIN disk /\ g # Tmp
    BY <1>6
  <2>2. g.num >= num
    BY <1>3, <2>1
  <2> QED BY <2>1, <2>2, OthersAreEarlier
<1>7. CASE Ends(f) /\ Ends(g)
  BY <1>3, <1>7
<1> QED BY <1>1, <1>4, <1>5, <1>6, <1>7

\* Lines stay in the order of the names of their files.
LEMMA OrderStep ==
  ASSUME TypeOK, Phases, Fresh, Ordered, Numbered, [Next]_vars
  PROVE  Ordered'
<1>1. CASE Quiet
  <2>1. CASE UNCHANGED <<disk, pending, pid, base, date, num>>
    <3>1. Tmp' = Tmp
      BY <2>1 DEF Tmp, File
    <3> QED BY <2>1, <3>1 DEF Ordered, Ours
  <2>2. CASE UNCHANGED disk /\ pending' = <<>>
    BY <2>2, NoLines DEF Ordered
  <2> QED BY <1>1, <2>1, <2>2, QuietLines
<1>2. CASE Flushes
  <2>1. is_open /\ Moved(Tmp) /\ pending' = <<>>
    BY <1>2, FlushesMove
  <2> QED BY <2>1, MovedOrdered, NoLines DEF Ordered
<1>3. CASE Closes
  <2>1. is_open /\ (\E t : Moved(t)) /\ pending' = <<>>
    BY <1>3, ClosesMove
  <2> QED BY <2>1, MovedOrdered, NoLines DEF Ordered
<1>4. CASE Opens
  <2>1. /\ DOMAIN disk' = DOMAIN disk \union {Tmp} /\ ToSet(disk'[Tmp]) = {}
        /\ \A f \in DOMAIN disk \ {Tmp} : disk'[f] = disk[f]
        /\ ToSet(pending') = {}
    BY <1>4, OpensAdd
  <2>2. ASSUME NEW f \in DOMAIN disk', NEW l \in ToSet(disk'[f])
        PROVE  f \in DOMAIN disk /\ l \in ToSet(disk[f])
    BY <2>1, <2>2
  <2> QED BY <2>1, <2>2 DEF Ordered
<1>5. CASE Write
  <2> DEFINE line == [id |-> written + 1, day |-> stamp]
  <2>1. disk' = disk /\ pending' = Append(pending, line) /\ UNCHANGED <<pid, base, date, num>>
    BY <1>5 DEF Write, name_vars
  <2>2. ToSet(pending') = ToSet(pending) \union {line} /\ Tmp' = Tmp
    BY <2>1, OneMoreLine DEF TypeOK, Tmp, File
  <2>3. ASSUME NEW f \in DOMAIN disk, NEW l \in ToSet(disk[f]) PROVE l.id < line.id
    <3>1. l.id \in Int
      BY LinesHaveNumbers DEF TypeOK
    <3>2. written \in Int /\ l.id <= written /\ line.id = written + 1
      BY DEF TypeOK, Numbered
    <3> QED BY <3>1, <3>2
  <2> HIDE DEF line
  <2> QED BY <2>1, <2>2, <2>3 DEF Ordered, Ours
<1> QED BY <1>1, <1>2, <1>3, <1>4, <1>5, Kinds

\* Every step keeps the invariant.
LEMMA NextHolds == IInv /\ [Next]_vars => IInv'
<1> SUFFICES ASSUME IInv, [Next]_vars PROVE IInv'
  OBVIOUS
<1>1. TypeOK' /\ Phases' /\ Counted' /\ Dated' /\ Numbered'
  BY TypeStep, CountStep, DatedStep, NumberStep DEF IInv
<1>2. ASSUME blame' = {} PROVE Fresh' /\ Kept' /\ Ordered'
  <2>1. blame = {}
    BY <1>2, BlameStays
  <2> QED BY <1>2, <2>1, FreshStep, KeptStep, OrderStep DEF IInv
<1> QED BY <1>1, <1>2 DEF IInv
-----------------------------------------------------------------------------
\* The inductive invariant holds for any limits, calendar and bounds.
THEOREM Invariance == Spec => []IInv
  BY InitHolds, NextHolds, PTL DEF Spec

\* Files, names and lines are well-formed, whatever fails.
THEOREM TypeCorrect == Spec => []TypeOK
<1>1. IInv => TypeOK
  BY DEF IInv
<1> QED BY <1>1, Invariance, PTL

\* No switch, failure, crash or restart takes a line from the disk, unless the
\* clock was set back or a base name was taken again on the same day under the same
\* process number.
THEOREM LinesStay == Spec => []FlushedLinesStay
<1>1. IInv => FlushedLinesStay
  BY DEF IInv, Kept, FlushedLinesStay
<1> QED BY <1>1, Invariance, PTL

\* m_cur_line is what the open file holds, and no more than its limit.
THEOREM CountIsRight == Spec => []LinesAreCounted
<1>1. IInv => LinesAreCounted
  <2> SUFFICES ASSUME IInv, is_open
               PROVE  LET n == Len(disk[Tmp]) + Len(pending) IN
                      n = cur_line /\ (n <= line_limit \/ n <= 1)
    BY DEF LinesAreCounted
  <2> QED BY DEF IInv, Counted
<1> QED BY <1>1, Invariance, PTL

\* The numbers of the files of a day order their lines.
THEOREM NumbersOrder == Spec => []NumbersAreInOrder
<1>1. IInv => NumbersAreInOrder
  BY DEF IInv, Ordered, NumbersAreInOrder
<1> QED BY <1>1, Invariance, PTL

\* No line is in a file of an earlier day, but for the day of the month coming
\* again and a clock set back.
THEOREM DaysAreRight == Spec => []NotInOlderFile
<1>1. IInv => NotInOlderFile
  BY DEF IInv, Dated, Fits, NotInOlderFile
<1> QED BY <1>1, Invariance, PTL
=============================================================================
