---------------------------- MODULE MCTimedTasks ----------------------------
(* Three names; intervals too small, too large and negative; events before  *)
(* and after the time given, one of them triggered already.                 *)
EXTENDS TimedTasks

Info(type, time, span, triggered) ==
  [type |-> type, time |-> time, span |-> span, triggered |-> triggered]

MCInfos == {Info(2, 0, 0, FALSE), Info(2, 0, -3, TRUE),
            Info(1, 0, 1, FALSE), Info(-1, 2, 1, TRUE)}
=============================================================================
