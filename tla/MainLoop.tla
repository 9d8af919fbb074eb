------------------------------ MODULE MainLoop ------------------------------
(***************************************************************************)
(* The main thread of a program built on the framework, as main() and      *)
(* main_app::run_business() drive the signal capturer: register every      *)
(* signal of the table, then loop: handle what is pending, leave if the    *)
(* flag said so, do the business of the round.                             *)
(***************************************************************************)
EXTENDS SignalCapturer

CONSTANTS Table,           \* g_sig_configs: the signals in the order of registration
          Config           \* and what is asked for each

ASSUME MainLoopAssumption == /\ Table \in Seq(Signals)
                             /\ Config \in [Signals -> Wishes]

VARIABLES phase,           \* "register", "loop", "handling", "business", "stopped"
          entry,           \* entries of the table begun
          due              \* signals that were owed when the exit flag was read last

loopvars == <<vars, phase, entry, due>>

LoopInit == Init /\ phase = "register" /\ entry = 0 /\ due = {}

\* register_signals(); nothing is registered twice
RegisterNext ==
  /\ phase = "register" /\ entry < Len(Table)
  /\ BeginRegister(Table[entry + 1], Config[Table[entry + 1]])
  /\ entry' = entry + 1
  /\ UNCHANGED <<phase, due>>

\* The rest of the start-up: timed tasks, the business' own initialisation
EnterLoop ==
  /\ phase = "register" /\ entry = Len(Table) /\ Begins
  /\ phase' = "loop"
  /\ UNCHANGED <<vars, entry, due>>

\* handle_all(should_exit)
HandlePending ==
  /\ phase = "loop"
  /\ BeginHandle(All)
  /\ phase' = "handling" /\ due' = owed
  /\ UNCHANGED entry

\* Mutants: the flag is acted upon before the signals are visited, or never
LeaveBeforeHandling ==
  /\ phase = "handling" /\ MainRuns
  /\ phase' = IF exiting THEN "stopped" ELSE "business"
  /\ UNCHANGED <<vars, entry, due>>

NeverLeave ==
  /\ phase = "handling" /\ Begins
  /\ phase' = "business"
  /\ UNCHANGED <<vars, entry, due>>

\* if (should_exit) break;
LeaveOrGoOn ==
  /\ phase = "handling" /\ Begins
  /\ phase' = IF exiting THEN "stopped" ELSE "business"
  /\ UNCHANGED <<vars, entry, due>>

\* Polling, timed tasks and the private business, which may ask to leave
DoBusiness ==
  /\ phase = "business" /\ Begins
  /\ phase' \in {"loop", "stopped"}
  /\ UNCHANGED <<vars, entry, due>>

\* The signals the loop still owes to the reading of the flag
InLoop(A) == A /\ due' = due \intersect owed' /\ UNCHANGED <<phase, entry>>

ArriveInLoop == phase # "stopped" /\ InLoop(\E s \in Signals : Arrive(s))
InnerInLoop == phase # "stopped" /\ InLoop(InnerHandler)
CallInLoop == InLoop(CallStep)

MainStep == \/ RegisterNext \/ EnterLoop \/ HandlePending
            \/ LeaveOrGoOn \/ DoBusiness \/ CallInLoop

LoopNext == ArriveInLoop \/ InnerInLoop \/ MainStep

\* The kernel returns from the inner handlers and schedules the program; a
\* poll has a timeout, so the business of a round ends.
LoopSpec == /\ LoopInit /\ [][LoopNext]_loopvars
            /\ WF_loopvars(InnerInLoop) /\ WF_loopvars(MainStep)
-----------------------------------------------------------------------------
LoopTypeOK ==
  /\ TypeOK
  /\ phase \in {"register", "loop", "handling", "business", "stopped"}
  /\ entry \in 0 .. Len(Table) /\ due \subseteq owed

\* Every handler whose signal had arrived when the flag was read has run
\* before the program leaves because of that flag, the exit signal's own
\* handler included: the flag is read BEFORE the signals are visited.
HandledBeforeLeaving == phase = "stopped" /\ exiting => due = {}

\* The program registers every signal once, so no null handler is called: the
\* handler is stored before handled_automatically, on which the call depends.
NeverCrashes == ~crashed

\* Once an exit signal has been noticed the program stops.
ExitSignalStops == should_exit ~> phase = "stopped"

\* A signal that arrives is handled, unless the program stops before.
ArrivalsAreHandled == \A s \in Signals : s \in owed ~> s \notin owed \/ phase = "stopped"

=============================================================================
