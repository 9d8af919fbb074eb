--------------------------- MODULE SignalCapturer ---------------------------
(***************************************************************************)
(* calns::signal_capturer: the settings a program registers for a signal,  *)
(* the inner handler the kernel runs on top of whatever is running, and    *)
(* the calls of the main thread, statement by statement, because a signal  *)
(* can arrive between any two of them.  The program's own code only makes  *)
(* progress when no inner handler is running; a signal is blocked while    *)
(* its own inner handler runs, another one interrupts it.                  *)
(***************************************************************************)
EXTENDS Integers, Sequences, SequencesExt

CONSTANTS NSig,            \* signals are numbered 1 .. NSig, as handle_all() visits them
          MaxArrivals      \* bound: signals that ever arrive

ASSUME SignalAssumption == NSig \in Nat \ {0} /\ MaxArrivals \in Nat

Signals == 1 .. NSig

VARIABLES captured,        \* signals whose kernel disposition is update_settings()
          status,          \* "unregistered", "idle" or "triggered"
          handler,         \* does m_settings hold a handler (not nullptr)
          exit_hint, handled_automatically,
          should_exit,     \* m_should_exit
          running,         \* signals whose inner handler runs, the innermost first
          at,              \* where each of them is: "mark", "hint", "call"
          op, sig, pc,     \* the call the main thread is in, its signal, its statement
          want,            \* the arguments of a register_one() in progress
          todo,            \* signals a handle_*() call has still to visit
          exiting,         \* the value the overloads with a flag hand out
          crashed,         \* a null handler was called
          owed,            \* signals that arrived and whose handler has not run since
          arrivals

settings == <<status, handler, exit_hint, handled_automatically>>
kernel == <<captured, running, at, arrivals>>
main == <<op, sig, pc, want, todo, exiting>>
vars == <<settings, kernel, main, should_exit, crashed, owed>>

\* What a caller may ask for: no handler means nothing to call automatically
Wishes == [handler : {TRUE}, hint : BOOLEAN, auto : BOOLEAN]
            \union [handler : {FALSE}, hint : BOOLEAN, auto : {FALSE}]

NoWish == [handler |-> FALSE, hint |-> FALSE, auto |-> FALSE]

Init ==
  /\ captured = {} /\ running = <<>> /\ at = [s \in Signals |-> "none"] /\ arrivals = 0
  /\ status = [s \in Signals |-> "unregistered"]
  /\ handler = [s \in Signals |-> FALSE]
  /\ exit_hint = [s \in Signals |-> FALSE]
  /\ handled_automatically = [s \in Signals |-> FALSE]
  /\ should_exit = FALSE /\ exiting = FALSE /\ crashed = FALSE
  /\ op = "none" /\ sig = 1 /\ pc = "none" /\ want = NoWish /\ todo = <<>>
  /\ owed = {}
-----------------------------------------------------------------------------
\* The kernel and the inner handler update_settings()

\* A signal counts as owed when its registration is complete
Armed(s) == status[s] # "unregistered" /\ ~(op \in {"register", "unregister"} /\ sig = s)

Arrive(s) ==
  /\ ~crashed
  /\ arrivals < MaxArrivals
  /\ s \in captured /\ at[s] = "none"
  /\ running' = <<s>> \o running
  /\ at' = [at EXCEPT ![s] = "mark"]
  /\ arrivals' = arrivals + 1
  /\ owed' = IF Armed(s) THEN owed \union {s} ELSE owed
  /\ UNCHANGED <<captured, settings, main, should_exit, crashed>>

Innermost(s, place) == ~crashed /\ running # <<>> /\ Head(running) = s /\ at[s] = place

Mark(s) ==
  /\ Innermost(s, "mark")
  /\ status' = [status EXCEPT ![s] = "triggered"]
  /\ at' = [at EXCEPT ![s] = "hint"]
  /\ UNCHANGED <<handler, exit_hint, handled_automatically, captured, running, arrivals,
                 main, should_exit, crashed, owed>>

Hint(s) ==
  /\ Innermost(s, "hint")
  /\ should_exit' = (should_exit \/ exit_hint[s])
  /\ at' = [at EXCEPT ![s] = "call"]
  /\ UNCHANGED <<settings, captured, running, arrivals, main, crashed, owed>>

\* The automatic call, which does not look whether there is a handler
Call(s) ==
  /\ Innermost(s, "call")
  /\ crashed' = (handled_automatically[s] /\ ~handler[s])
  /\ owed' = IF handled_automatically[s] THEN owed \ {s} ELSE owed
  /\ running' = Tail(running)
  /\ at' = [at EXCEPT ![s] = "none"]
  /\ UNCHANGED <<settings, captured, arrivals, main, should_exit>>

InnerHandler == \E s \in Signals : Mark(s) \/ Hint(s) \/ Call(s)
-----------------------------------------------------------------------------
\* The main thread: beginning a call, and its statements in order

MainRuns == ~crashed /\ running = <<>>
Begins == MainRuns /\ op = "none"
In(operation, place) == MainRuns /\ op = operation /\ pc = place

Return == op' = "none" /\ pc' = "none" /\ UNCHANGED <<sig, want, todo, exiting>>
Goto(place) == pc' = place /\ UNCHANGED <<op, sig, want, todo, exiting>>

BeginRegister(s, wish) ==
  /\ Begins
  /\ op' = "register" /\ sig' = s /\ want' = wish /\ pc' = "sigaction"
  /\ owed' = owed \ {s}
  /\ UNCHANGED <<todo, exiting, settings, kernel, should_exit, crashed>>

RegisterSigaction ==
  /\ In("register", "sigaction") /\ Goto("status")
  /\ captured' = captured \union {sig}
  /\ UNCHANGED <<running, at, arrivals, settings, should_exit, crashed, owed>>

RegisterStatus ==
  /\ In("register", "status") /\ Goto("handler")
  /\ status' = [status EXCEPT ![sig] = "idle"]
  /\ UNCHANGED <<handler, exit_hint, handled_automatically, kernel, should_exit, crashed, owed>>

\* A mutant: a second registration leaves the handler as it is
RegisterHandlerOnce ==
  /\ In("register", "handler") /\ Goto("hint")
  /\ UNCHANGED <<settings, kernel, should_exit, crashed, owed>>

RegisterHandler ==
  /\ In("register", "handler") /\ Goto("hint")
  /\ handler' = [handler EXCEPT ![sig] = want.handler]
  /\ UNCHANGED <<status, exit_hint, handled_automatically, kernel, should_exit, crashed, owed>>

RegisterHint ==
  /\ In("register", "hint") /\ Goto("auto")
  /\ exit_hint' = [exit_hint EXCEPT ![sig] = want.hint]
  /\ UNCHANGED <<status, handler, handled_automatically, kernel, should_exit, crashed, owed>>

RegisterAuto ==
  /\ In("register", "auto") /\ Return
  /\ handled_automatically' = [handled_automatically EXCEPT ![sig] = want.auto]
  /\ UNCHANGED <<status, handler, exit_hint, kernel, should_exit, crashed, owed>>

\* unregister() returns at once when nothing is registered
BeginUnregister(s) ==
  /\ Begins /\ status[s] # "unregistered"
  /\ op' = "unregister" /\ sig' = s /\ pc' = "sigaction"
  /\ owed' = owed \ {s}
  /\ UNCHANGED <<want, todo, exiting, settings, kernel, should_exit, crashed>>

\* A mutant: the signal stays captured
KeepCapturing ==
  /\ In("unregister", "sigaction") /\ Goto("status")
  /\ UNCHANGED <<kernel, settings, should_exit, crashed, owed>>

UnregisterSigaction ==
  /\ In("unregister", "sigaction") /\ Goto("status")
  /\ captured' = captured \ {sig}
  /\ UNCHANGED <<running, at, arrivals, settings, should_exit, crashed, owed>>

\* status and handler; no signal of this number can come in between any more
UnregisterSettings ==
  /\ In("unregister", "status") /\ Return
  /\ status' = [status EXCEPT ![sig] = "unregistered"]
  /\ handler' = [handler EXCEPT ![sig] = FALSE]
  /\ UNCHANGED <<exit_hint, handled_automatically, kernel, should_exit, crashed, owed>>

\* handle_one(s, flag) and handle_all(flag) read m_should_exit first
BeginHandle(visits) ==
  /\ Begins
  /\ op' = "handle" /\ todo' = visits /\ pc' = "check" /\ exiting' = should_exit
  /\ UNCHANGED <<sig, want, settings, kernel, should_exit, crashed, owed>>

InVisit(place) == In("handle", place) /\ todo # <<>>

\* A signal that is not registered or not triggered is passed over
PassOver ==
  /\ InVisit("check") /\ status[Head(todo)] # "triggered"
  /\ todo' = Tail(todo)
  /\ UNCHANGED <<op, sig, pc, want, exiting, settings, kernel, should_exit, crashed, owed>>

SeeTriggered ==
  /\ InVisit("check") /\ status[Head(todo)] = "triggered" /\ Goto("reset")
  /\ UNCHANGED <<settings, kernel, should_exit, crashed, owed>>

\* A mutant: every mark is removed
ResetEveryStatus ==
  /\ InVisit("reset") /\ Goto("call")
  /\ status' = [s \in Signals |-> IF status[s] = "triggered" THEN "idle" ELSE status[s]]
  /\ UNCHANGED <<handler, exit_hint, handled_automatically, kernel, should_exit, crashed, owed>>

ResetStatus ==
  /\ InVisit("reset") /\ Goto("call")
  /\ status' = [status EXCEPT ![Head(todo)] = "idle"]
  /\ UNCHANGED <<handler, exit_hint, handled_automatically, kernel, should_exit, crashed, owed>>

\* The handler, when there is one and it is not called automatically
CallHandler ==
  /\ InVisit("call")
  /\ todo' = Tail(todo) /\ pc' = "check"
  /\ owed' = IF handled_automatically[Head(todo)] THEN owed ELSE owed \ {Head(todo)}
  /\ UNCHANGED <<op, sig, want, exiting, settings, kernel, should_exit, crashed>>

EndHandle ==
  /\ In("handle", "check") /\ todo = <<>> /\ Return
  /\ UNCHANGED <<settings, kernel, should_exit, crashed, owed>>

RegisterStep == \/ RegisterSigaction \/ RegisterStatus \/ RegisterHandler
                \/ RegisterHint \/ RegisterAuto
UnregisterStep == UnregisterSigaction \/ UnregisterSettings
HandleStep == PassOver \/ SeeTriggered \/ ResetStatus \/ CallHandler \/ EndHandle
CallStep == RegisterStep \/ UnregisterStep \/ HandleStep
-----------------------------------------------------------------------------
\* A mutant: the loop begins with the second signal
AllButFirst == [i \in 1 .. NSig - 1 |-> i + 1]

All == [i \in Signals |-> i]

Next == \/ \E s \in Signals : Arrive(s)
        \/ InnerHandler
        \/ CallStep
        \/ \E s \in Signals, wish \in Wishes : BeginRegister(s, wish)
        \/ \E s \in Signals : BeginUnregister(s) \/ BeginHandle(<<s>>)
        \/ BeginHandle(All)

Spec == Init /\ [][Next]_vars
-----------------------------------------------------------------------------
TypeOK ==
  /\ captured \subseteq Signals /\ owed \subseteq Signals
  /\ status \in [Signals -> {"unregistered", "idle", "triggered"}]
  /\ handler \in [Signals -> BOOLEAN]
  /\ exit_hint \in [Signals -> BOOLEAN] /\ handled_automatically \in [Signals -> BOOLEAN]
  /\ should_exit \in BOOLEAN /\ exiting \in BOOLEAN /\ crashed \in BOOLEAN
  /\ running \in Seq(Signals) /\ todo \in Seq(Signals)
  /\ at \in [Signals -> {"none", "mark", "hint", "call"}]
  /\ op \in {"none", "register", "unregister", "handle"} /\ sig \in Signals
  /\ pc \in {"none", "sigaction", "status", "handler", "hint", "auto",
             "check", "reset", "call"}
  /\ want \in [handler : BOOLEAN, hint : BOOLEAN, auto : BOOLEAN]
  /\ arrivals \in Nat

\* A signal that arrives after its registration is not forgotten, at whatever
\* statement of a handle_*() call it comes in: until its handler runs it is
\* about to be marked, marked, or the one whose handler is called next.
NothingForgotten ==
  \A s \in owed : \/ at[s] = "mark" \/ status[s] = "triggered"
                  \/ op = "handle" /\ pc = "call" /\ todo # <<>> /\ Head(todo) = s

\* A null handler is only ever called while a register_one() of that very
\* signal is at work: between its sigaction() and its last assignment the
\* settings are a mixture of the earlier registration's and its own.
NullCallOnlyWhileRegistering ==
  [][crashed' /\ ~crashed =>
       op = "register" /\ sig = Head(running)]_vars

=============================================================================
