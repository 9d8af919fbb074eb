--------------------------- MODULE Program_proofs ---------------------------
(***************************************************************************)
(* Four proofs about the program around its connections.                   *)
(*                                                                         *)
(* The capturer, whoever calls it and in whatever order: for every number  *)
(* of signals and of arrivals, no signal that arrives after its            *)
(* registration is forgotten, and a null handler is only called while its  *)
(* own register_one() is at work.                                          *)
(*                                                                         *)
(* The loop, for every table of signals and every configuration of them:   *)
(* the program handles what had arrived before it leaves for an exit flag, *)
(* and never calls a null handler.  The loop takes only steps of the       *)
(* capturer, so the capturer's inductive invariant comes for free.         *)
(*                                                                         *)
(* main() from start to exit: whatever fails and whatever signals come,    *)
(* each step finds what it uses, but for three known places, and the exit  *)
(* functions take back what main() had made.                               *)
(*                                                                         *)
(* The command line, for any options and any words: after a parse that     *)
(* succeeded every option has as many values as it wants, and every value  *)
(* is where it belongs.                                                    *)
(***************************************************************************)
EXTENDS MainLoop, Lifecycle, CommandLine, SequenceTheorems, TLAPS
-----------------------------------------------------------------------------
\* The capturer

\* Inner handlers that have been entered and not left are on the stack; the
\* main thread's statements, which need an empty stack, see none of them.
EnteredIsOnStack ==
  \A s \in Signals : at[s] # "none" => \E i \in 1 .. Len(running) : running[i] = s

\* handle_*() skips signals handled automatically without calling anything:
\* safe because such a signal is owed only until its inner handler returns.
AutomaticInTime ==
  \A s \in owed : handled_automatically[s] => at[s] # "none"

\* The settings of a signal being registered or unregistered are in motion;
\* nothing is owed to it until they have settled.
NotOwedInMotion == op \in {"register", "unregister"} => sig \notin owed

\* register_one() asks for an automatic call only together with a handler.
WantIsWish == want \in Wishes

\* unregister() puts the handler away after the signal stops being captured.
ReleasedFirst == op = "unregister" /\ pc = "status" => sig \notin captured

\* An automatic call without a handler to call: the leftover of an unregistered
\* signal, which cannot arrive, or a registration not yet complete.
Leftover(s) == s \notin captured /\ at[s] = "none"
NullIsHarmless ==
  \A s \in Signals : handled_automatically[s] /\ ~handler[s] =>
                        Leftover(s) \/ (op = "register" /\ sig = s)

RegisteredHandler ==
  op = "register" /\ pc \in {"hint", "auto"} => handler[sig] = want.handler

IInv == /\ TypeOK
        /\ NothingForgotten /\ EnteredIsOnStack /\ AutomaticInTime /\ NotOwedInMotion
        /\ WantIsWish /\ ReleasedFirst /\ NullIsHarmless /\ RegisteredHandler
-----------------------------------------------------------------------------
\* The invariant without the part on the stack, which only a signal that comes
\* in and an inner handler that returns disturb.
Settled == /\ NothingForgotten /\ AutomaticInTime /\ NotOwedInMotion
           /\ WantIsWish /\ ReleasedFirst /\ NullIsHarmless /\ RegisteredHandler

\* Nothing is registered, captured or running at first.
LEMMA InitHolds == Init => IInv
<1> SUFFICES ASSUME Init PROVE IInv
  OBVIOUS
<1>1. TypeOK
  <2>1. 1 \in Signals
    BY SignalAssumption DEF Signals
  <2>2. want \in [handler : BOOLEAN, hint : BOOLEAN, auto : BOOLEAN]
    BY DEF Init, NoWish
  <2>3. running \in Seq(Signals) /\ todo \in Seq(Signals)
    BY DEF Init
  <2> QED BY <2>1, <2>2, <2>3 DEF Init, TypeOK
<1>2. EnteredIsOnStack
  BY DEF Init, EnteredIsOnStack
<1>3. Settled
  BY DEF Init, Settled, NothingForgotten, AutomaticInTime, NotOwedInMotion, WantIsWish,
         Wishes, NoWish, ReleasedFirst, NullIsHarmless, RegisteredHandler
<1> QED BY <1>1, <1>2, <1>3 DEF IInv, Settled

\* While the main thread is between two statements no inner handler is entered.
LEMMA NoneEntered ==
  ASSUME TypeOK, EnteredIsOnStack, MainRuns
  PROVE  \A s \in Signals : at[s] = "none"
BY DEF TypeOK, EnteredIsOnStack, MainRuns

\* The statements of register_one(), each of them on top of an empty stack.
LEMMA RegisteringKeeps ==
  ASSUME IInv, MainRuns,
         \/ \E s \in Signals, wish \in Wishes : BeginRegister(s, wish)
         \/ RegisterSigaction
         \/ RegisterStatus
         \/ RegisterHandler
         \/ RegisterHint
         \/ RegisterAuto
  PROVE  IInv'
<1>0. \A s \in Signals : at[s] = "none"
  BY NoneEntered DEF IInv
<1>1. ASSUME NEW s \in Signals, NEW wish \in Wishes, BeginRegister(s, wish)
      PROVE  TypeOK' /\ EnteredIsOnStack' /\ Settled'
  <2>1. TypeOK'
    BY <1>1 DEF IInv, TypeOK, BeginRegister, Begins, settings, kernel, main, Wishes
  <2>2. EnteredIsOnStack'
    BY <1>1 DEF IInv, EnteredIsOnStack, BeginRegister, Begins, kernel
  <2>3. Settled'
    BY <1>0, <1>1 DEF IInv, TypeOK, Settled, NothingForgotten, AutomaticInTime,
           NotOwedInMotion, WantIsWish, ReleasedFirst, NullIsHarmless, RegisteredHandler,
           Leftover, BeginRegister, Begins, settings, kernel, main, Wishes
  <2> QED BY <2>1, <2>2, <2>3
<1>2. ASSUME RegisterSigaction
      PROVE  TypeOK' /\ EnteredIsOnStack' /\ Settled'
  <2>1. TypeOK'
    BY <1>2 DEF IInv, TypeOK, RegisterSigaction, In, Goto, settings, kernel, main, Wishes
  <2>2. EnteredIsOnStack'
    BY <1>2 DEF IInv, EnteredIsOnStack, RegisterSigaction, In, Goto, kernel
  <2>3. Settled'
    BY <1>0, <1>2 DEF IInv, TypeOK, Settled, NothingForgotten, AutomaticInTime,
           NotOwedInMotion, WantIsWish, ReleasedFirst, NullIsHarmless, RegisteredHandler,
           Leftover, RegisterSigaction, In, Goto, settings, kernel, main, Wishes
  <2> QED BY <2>1, <2>2, <2>3
<1>3. ASSUME RegisterStatus
      PROVE  TypeOK' /\ EnteredIsOnStack' /\ Settled'
  <2>1. TypeOK'
    BY <1>3 DEF IInv, TypeOK, RegisterStatus, In, Goto, settings, kernel, main, Wishes
  <2>2. EnteredIsOnStack'
    BY <1>3 DEF IInv, EnteredIsOnStack, RegisterStatus, In, Goto, kernel
  <2>3. Settled'
    BY <1>0, <1>3 DEF IInv, TypeOK, Settled, NothingForgotten, AutomaticInTime,
           NotOwedInMotion, WantIsWish, ReleasedFirst, NullIsHarmless, RegisteredHandler,
           Leftover, RegisterStatus, In, Goto, settings, kernel, main, Wishes
  <2> QED BY <2>1, <2>2, <2>3
<1>4. ASSUME RegisterHandler
      PROVE  TypeOK' /\ EnteredIsOnStack' /\ Settled'
  <2>1. TypeOK'
    BY <1>4 DEF IInv, TypeOK, RegisterHandler, In, Goto, settings, kernel, main, Wishes
  <2>2. EnteredIsOnStack'
    BY <1>4 DEF IInv, EnteredIsOnStack, RegisterHandler, In, Goto, kernel
  <2>3. Settled'
    BY <1>0, <1>4 DEF IInv, TypeOK, Settled, NothingForgotten, AutomaticInTime,
           NotOwedInMotion, WantIsWish, ReleasedFirst, NullIsHarmless, RegisteredHandler,
           Leftover, RegisterHandler, In, Goto, settings, kernel, main, Wishes
  <2> QED BY <2>1, <2>2, <2>3
<1>5. ASSUME RegisterHint
      PROVE  TypeOK' /\ EnteredIsOnStack' /\ Settled'
  <2>1. TypeOK'
    BY <1>5 DEF IInv, TypeOK, RegisterHint, In, Goto, settings, kernel, main, Wishes
  <2>2. EnteredIsOnStack'
    BY <1>5 DEF IInv, EnteredIsOnStack, RegisterHint, In, Goto, kernel
  <2>3. Settled'
    BY <1>0, <1>5 DEF IInv, TypeOK, Settled, NothingForgotten, AutomaticInTime,
           NotOwedInMotion, WantIsWish, ReleasedFirst, NullIsHarmless, RegisteredHandler,
           Leftover, RegisterHint, In, Goto, settings, kernel, main, Wishes
  <2> QED BY <2>1, <2>2, <2>3
<1>6. ASSUME RegisterAuto
      PROVE  TypeOK' /\ EnteredIsOnStack' /\ Settled'
  <2>1. TypeOK'
    BY <1>6 DEF IInv, TypeOK, RegisterAuto, In, Return, settings, kernel, main, Wishes
  <2>2. EnteredIsOnStack'
    BY <1>6 DEF IInv, EnteredIsOnStack, RegisterAuto, In, Return, kernel
  <2>3. Settled'
    BY <1>0, <1>6 DEF IInv, TypeOK, Settled, NothingForgotten, AutomaticInTime,
           NotOwedInMotion, WantIsWish, ReleasedFirst, NullIsHarmless, RegisteredHandler,
           Leftover, RegisterAuto, In, Return, settings, kernel, main, Wishes
  <2> QED BY <2>1, <2>2, <2>3
<1> QED BY <1>1, <1>2, <1>3, <1>4, <1>5, <1>6 DEF IInv, Settled

\* The statements of unregister().
LEMMA UnregisteringKeeps ==
  ASSUME IInv, MainRuns,
         \/ \E s \in Signals : BeginUnregister(s)
         \/ UnregisterSigaction
         \/ UnregisterSettings
  PROVE  IInv'
<1>0. \A s \in Signals : at[s] = "none"
  BY NoneEntered DEF IInv
<1>1. ASSUME NEW s \in Signals, BeginUnregister(s)
      PROVE  TypeOK' /\ EnteredIsOnStack' /\ Settled'
  <2>1. TypeOK'
    BY <1>1 DEF IInv, TypeOK, BeginUnregister, Begins, settings, kernel, main, Wishes
  <2>2. EnteredIsOnStack'
    BY <1>1 DEF IInv, EnteredIsOnStack, BeginUnregister, Begins, kernel
  <2>3. Settled'
    BY <1>0, <1>1 DEF IInv, TypeOK, Settled, NothingForgotten, AutomaticInTime,
           NotOwedInMotion, WantIsWish, ReleasedFirst, NullIsHarmless, RegisteredHandler,
           Leftover, BeginUnregister, Begins, settings, kernel, main, Wishes
  <2> QED BY <2>1, <2>2, <2>3
<1>2. ASSUME UnregisterSigaction
      PROVE  TypeOK' /\ EnteredIsOnStack' /\ Settled'
  <2>1. TypeOK'
    BY <1>2 DEF IInv, TypeOK, UnregisterSigaction, In, Goto, settings, kernel, main, Wishes
  <2>2. EnteredIsOnStack'
    BY <1>2 DEF IInv, EnteredIsOnStack, UnregisterSigaction, In, Goto, kernel
  <2>3. Settled'
    BY <1>0, <1>2 DEF IInv, TypeOK, Settled, NothingForgotten, AutomaticInTime,
           NotOwedInMotion, WantIsWish, ReleasedFirst, NullIsHarmless, RegisteredHandler,
           Leftover, UnregisterSigaction, In, Goto, settings, kernel, main, Wishes
  <2> QED BY <2>1, <2>2, <2>3
<1>3. ASSUME UnregisterSettings
      PROVE  TypeOK' /\ EnteredIsOnStack' /\ Settled'
  <2>1. TypeOK'
    BY <1>3 DEF IInv, TypeOK, UnregisterSettings, In, Return, settings, kernel, main, Wishes
  <2>2. EnteredIsOnStack'
    BY <1>3 DEF IInv, EnteredIsOnStack, UnregisterSettings, In, Return, kernel
  <2>3. Settled'
    BY <1>0, <1>3 DEF IInv, TypeOK, Settled, NothingForgotten, AutomaticInTime,
           NotOwedInMotion, WantIsWish, ReleasedFirst, NullIsHarmless, RegisteredHandler,
           Leftover, UnregisterSettings, In, Return, settings, kernel, main, Wishes
  <2> QED BY <2>1, <2>2, <2>3
<1> QED BY <1>1, <1>2, <1>3 DEF IInv, Settled

\* The statements of handle_one() and handle_all(), for any list of visits.
LEMMA HandlingKeeps ==
  ASSUME IInv, MainRuns,
         \/ \E visits \in Seq(Signals) : BeginHandle(visits)
         \/ PassOver
         \/ SeeTriggered
         \/ ResetStatus
         \/ CallHandler
         \/ EndHandle
  PROVE  IInv'
<1>0. \A s \in Signals : at[s] = "none"
  BY NoneEntered DEF IInv
<1>1. ASSUME NEW visits \in Seq(Signals), BeginHandle(visits)
      PROVE  TypeOK' /\ EnteredIsOnStack' /\ Settled'
  <2>1. TypeOK'
    BY <1>1 DEF IInv, TypeOK, BeginHandle, Begins, settings, kernel, main, Wishes
  <2>2. EnteredIsOnStack'
    BY <1>1 DEF IInv, EnteredIsOnStack, BeginHandle, Begins, kernel
  <2>3. Settled'
    BY <1>0, <1>1 DEF IInv, TypeOK, Settled, NothingForgotten, AutomaticInTime,
           NotOwedInMotion, WantIsWish, ReleasedFirst, NullIsHarmless, RegisteredHandler,
           Leftover, BeginHandle, Begins, settings, kernel, main, Wishes
  <2> QED BY <2>1, <2>2, <2>3
<1>2. ASSUME PassOver
      PROVE  TypeOK' /\ EnteredIsOnStack' /\ Settled'
  <2>1. TypeOK'
    BY <1>2 DEF IInv, TypeOK, PassOver, InVisit, In, settings, kernel, main, Wishes
  <2>2. EnteredIsOnStack'
    BY <1>2 DEF IInv, EnteredIsOnStack, PassOver, InVisit, In, kernel
  <2>3. Settled'
    BY <1>0, <1>2 DEF IInv, TypeOK, Settled, NothingForgotten, AutomaticInTime,
           NotOwedInMotion, WantIsWish, ReleasedFirst, NullIsHarmless, RegisteredHandler,
           Leftover, PassOver, InVisit, In, settings, kernel, main, Wishes
  <2> QED BY <2>1, <2>2, <2>3
<1>3. ASSUME SeeTriggered
      PROVE  TypeOK' /\ EnteredIsOnStack' /\ Settled'
  <2>1. TypeOK'
    BY <1>3 DEF IInv, TypeOK, SeeTriggered, In, Goto, InVisit, settings, kernel, main, Wishes
  <2>2. EnteredIsOnStack'
    BY <1>3 DEF IInv, EnteredIsOnStack, SeeTriggered, In, Goto, InVisit, kernel
  <2>3. Settled'
    BY <1>0, <1>3 DEF IInv, TypeOK, Settled, NothingForgotten, AutomaticInTime,
           NotOwedInMotion, WantIsWish, ReleasedFirst, NullIsHarmless, RegisteredHandler,
           Leftover, SeeTriggered, In, Goto, InVisit, settings, kernel, main, Wishes
  <2> QED BY <2>1, <2>2, <2>3
<1>4. ASSUME ResetStatus
      PROVE  TypeOK' /\ EnteredIsOnStack' /\ Settled'
  <2>1. TypeOK'
    BY <1>4 DEF IInv, TypeOK, ResetStatus, In, Goto, InVisit, settings, kernel, main, Wishes
  <2>2. EnteredIsOnStack'
    BY <1>4 DEF IInv, EnteredIsOnStack, ResetStatus, In, Goto, InVisit, kernel
  <2>3. Settled'
    BY <1>0, <1>4 DEF IInv, TypeOK, Settled, NothingForgotten, AutomaticInTime,
           NotOwedInMotion, WantIsWish, ReleasedFirst, NullIsHarmless, RegisteredHandler,
           Leftover, ResetStatus, In, Goto, InVisit, settings, kernel, main, Wishes
  <2> QED BY <2>1, <2>2, <2>3
<1>5. ASSUME CallHandler
      PROVE  TypeOK' /\ EnteredIsOnStack' /\ Settled'
  <2>1. TypeOK'
    BY <1>5 DEF IInv, TypeOK, CallHandler, InVisit, In, settings, kernel, main, Wishes
  <2>2. EnteredIsOnStack'
    BY <1>5 DEF IInv, EnteredIsOnStack, CallHandler, InVisit, In, kernel
  <2>3. Settled'
    BY <1>0, <1>5 DEF IInv, TypeOK, Settled, NothingForgotten, AutomaticInTime,
           NotOwedInMotion, WantIsWish, ReleasedFirst, NullIsHarmless, RegisteredHandler,
           Leftover, CallHandler, InVisit, In, settings, kernel, main, Wishes
  <2> QED BY <2>1, <2>2, <2>3
<1>6. ASSUME EndHandle
      PROVE  TypeOK' /\ EnteredIsOnStack' /\ Settled'
  <2>1. TypeOK'
    BY <1>6 DEF IInv, TypeOK, EndHandle, In, Return, settings, kernel, main, Wishes
  <2>2. EnteredIsOnStack'
    BY <1>6 DEF IInv, EnteredIsOnStack, EndHandle, In, Return, kernel
  <2>3. Settled'
    BY <1>0, <1>6 DEF IInv, TypeOK, Settled, NothingForgotten, AutomaticInTime,
           NotOwedInMotion, WantIsWish, ReleasedFirst, NullIsHarmless, RegisteredHandler,
           Leftover, EndHandle, In, Return, settings, kernel, main, Wishes
  <2> QED BY <2>1, <2>2, <2>3
<1> QED BY <1>1, <1>2, <1>3, <1>4, <1>5, <1>6 DEF IInv, Settled

\* A signal that comes in enters its inner handler on top of the others.
LEMMA ArriveKeeps ==
  ASSUME IInv, NEW s \in Signals, Arrive(s)
  PROVE  IInv'
<1>1. /\ running' \in Seq(Signals) /\ Len(running') = Len(running) + 1
      /\ running'[1] = s
      /\ \A i \in 1 .. Len(running) : running'[i + 1] = running[i]
  BY DEF IInv, TypeOK, Arrive
<1>2. TypeOK'
  BY <1>1 DEF IInv, TypeOK, Arrive, settings, main
<1>3. EnteredIsOnStack'
  <2> SUFFICES ASSUME NEW x \in Signals, at'[x] # "none"
               PROVE  \E i \in 1 .. Len(running') : running'[i] = x
    BY DEF EnteredIsOnStack
  <2>1. Len(running) \in Nat
    BY DEF IInv, TypeOK
  <2>2. CASE x = s
    BY <1>1, <2>1, <2>2
  <2>3. CASE x # s
    <3>1. PICK i \in 1 .. Len(running) : running[i] = x
      BY <2>3 DEF IInv, TypeOK, EnteredIsOnStack, Arrive
    <3> QED BY <1>1, <2>1, <3>1
  <2> QED BY <2>2, <2>3
<1>4. Settled'
  BY DEF IInv, TypeOK, Settled, NothingForgotten, AutomaticInTime,
           NotOwedInMotion, WantIsWish, ReleasedFirst, NullIsHarmless, RegisteredHandler,
           Leftover, Armed, Arrive, settings, main
<1> QED BY <1>2, <1>3, <1>4 DEF IInv, Settled

\* The statements of the inner handler on top of the stack.
LEMMA InnerHandlerKeeps ==
  ASSUME IInv, NEW s \in Signals, Mark(s) \/ Hint(s) \/ Call(s)
  PROVE  IInv'
<1>1. ASSUME Mark(s) PROVE TypeOK' /\ EnteredIsOnStack' /\ Settled'
  <2>1. TypeOK'
    BY <1>1 DEF IInv, TypeOK, Mark, main
  <2>2. EnteredIsOnStack'
    BY <1>1 DEF IInv, TypeOK, EnteredIsOnStack, Mark, Innermost
  <2>3. Settled'
    BY <1>1 DEF IInv, TypeOK, Settled, NothingForgotten, AutomaticInTime,
           NotOwedInMotion, WantIsWish, ReleasedFirst, NullIsHarmless, RegisteredHandler,
           Leftover, Mark, Innermost, main
  <2> QED BY <2>1, <2>2, <2>3
<1>2. ASSUME Hint(s) PROVE TypeOK' /\ EnteredIsOnStack' /\ Settled'
  <2>1. TypeOK'
    BY <1>2 DEF IInv, TypeOK, Hint, settings, main
  <2>2. EnteredIsOnStack'
    BY <1>2 DEF IInv, TypeOK, EnteredIsOnStack, Hint, Innermost
  <2>3. Settled'
    BY <1>2 DEF IInv, TypeOK, Settled, NothingForgotten, AutomaticInTime,
           NotOwedInMotion, WantIsWish, ReleasedFirst, NullIsHarmless, RegisteredHandler,
           Leftover, Hint, Innermost, settings, main
  <2> QED BY <2>1, <2>2, <2>3
<1>3. ASSUME Call(s) PROVE TypeOK' /\ EnteredIsOnStack' /\ Settled'
  <2>0. /\ running # <<>> /\ Head(running) = running[1] /\ running[1] = s
        /\ running' \in Seq(Signals) /\ Len(running') = Len(running) - 1
        /\ \A i \in 1 .. Len(running') : running'[i] = running[i + 1]
    BY <1>3 DEF IInv, TypeOK, Call, Innermost
  <2>1. TypeOK'
    BY <1>3, <2>0 DEF IInv, TypeOK, Call, settings, main
  <2>2. EnteredIsOnStack'
    <3> SUFFICES ASSUME NEW x \in Signals, at'[x] # "none"
                 PROVE  \E i \in 1 .. Len(running') : running'[i] = x
      BY DEF EnteredIsOnStack
    <3>1. x # s
      BY <1>3 DEF IInv, TypeOK, Call
    <3>2. PICK i \in 1 .. Len(running) : running[i] = x
      BY <1>3, <3>1 DEF IInv, TypeOK, EnteredIsOnStack, Call
    <3>3. i # 1 /\ Len(running) \in Nat
      BY <2>0, <3>1, <3>2 DEF IInv, TypeOK
    <3>4. i - 1 \in 1 .. Len(running') /\ running'[i - 1] = x
      BY <2>0, <3>2, <3>3
    <3> QED BY <3>4
  <2>3. Settled'
    BY <1>3 DEF IInv, TypeOK, Settled, NothingForgotten, AutomaticInTime,
           NotOwedInMotion, WantIsWish, ReleasedFirst, NullIsHarmless, RegisteredHandler,
           Leftover, Call, Innermost, settings, main
  <2> QED BY <2>1, <2>2, <2>3
<1> QED BY <1>1, <1>2, <1>3 DEF IInv, Settled
-----------------------------------------------------------------------------
\* The invariant is inductive: one case per group of actions.
LEMMA StepKeeps == IInv /\ [Next]_vars => IInv'
<1> SUFFICES ASSUME IInv, [Next]_vars PROVE IInv'
  OBVIOUS
<1>1. CASE \E s \in Signals : Arrive(s)
  BY <1>1, ArriveKeeps
<1>2. CASE InnerHandler
  BY <1>2, InnerHandlerKeeps DEF InnerHandler
<1>3. CASE \/ \E s \in Signals, wish \in Wishes : BeginRegister(s, wish)
           \/ RegisterStep
  <2>1. MainRuns
    BY <1>3 DEF BeginRegister, Begins, RegisterStep, RegisterSigaction, RegisterStatus,
                RegisterHandler, RegisterHint, RegisterAuto, In
  <2> QED BY <1>3, <2>1, RegisteringKeeps DEF RegisterStep
<1>4. CASE (\E s \in Signals : BeginUnregister(s)) \/ UnregisterStep
  <2>1. MainRuns
    BY <1>4 DEF BeginUnregister, Begins, UnregisterStep, UnregisterSigaction,
                UnregisterSettings, In
  <2> QED BY <1>4, <2>1, UnregisteringKeeps DEF UnregisterStep
<1>5. CASE (\E s \in Signals : BeginHandle(<<s>>)) \/ BeginHandle(All) \/ HandleStep
  <2>1. MainRuns
    BY <1>5 DEF BeginHandle, Begins, HandleStep, PassOver, SeeTriggered, ResetStatus,
                CallHandler, EndHandle, InVisit, In
  <2>2. All \in Seq(Signals)
    BY SignalAssumption DEF All, Signals
  <2>3. \A s \in Signals : <<s>> \in Seq(Signals)
    OBVIOUS
  <2>4. (\E visits \in Seq(Signals) : BeginHandle(visits)) \/ HandleStep
    BY <1>5, <2>2, <2>3
  <2> QED BY <2>1, <2>4, HandlingKeeps DEF HandleStep
<1>6. CASE UNCHANGED vars
  <2>1. TypeOK'
    BY <1>6 DEF IInv, TypeOK, vars, settings, kernel, main
  <2>2. EnteredIsOnStack' /\ Settled'
    BY <1>6 DEF IInv, Settled, EnteredIsOnStack, NothingForgotten, AutomaticInTime,
                NotOwedInMotion, WantIsWish, ReleasedFirst, NullIsHarmless,
                RegisteredHandler, Leftover, vars, settings, kernel, main
  <2> QED BY <2>1, <2>2 DEF IInv, Settled
<1> QED BY <1>1, <1>2, <1>3, <1>4, <1>5, <1>6 DEF Next, CallStep

\* The invariant holds of every reachable state.
THEOREM Inductive == Spec => []IInv
BY InitHolds, StepKeeps, PTL DEF Spec

\* The settings, the kernel's state and the main thread's place are
\* well-formed for every number of signals and of arrivals.
THEOREM TypeCorrect == Spec => []TypeOK
<1>1. IInv => TypeOK
  BY DEF IInv
<1> QED BY <1>1, Inductive, PTL

\* A signal that arrives after its registration is complete stays marked, or
\* about to be, until its handler runs, wherever in a handle_*() call it
\* comes in and whichever inner handlers it interrupts.
THEOREM NotForgotten == Spec => []NothingForgotten
<1>1. IInv => NothingForgotten
  BY DEF IInv
<1> QED BY <1>1, Inductive, PTL

\* Only a signal that interrupts its own register_one() can make
\* update_settings() call a null handler.
THEOREM NullCallsExplained == Spec => NullCallOnlyWhileRegistering
<1> DEFINE Explained == crashed' /\ ~crashed => op = "register" /\ sig = Head(running)
<1>1. IInv /\ [Next]_vars => [Explained]_vars
  <2> SUFFICES ASSUME IInv, [Next]_vars, crashed', ~crashed
               PROVE  op = "register" /\ sig = Head(running)
    OBVIOUS
  <2>1. PICK s \in Signals : Call(s)
    BY DEF Next, InnerHandler, CallStep, Arrive, Mark, Hint, Call,
           BeginRegister, RegisterStep, RegisterSigaction, RegisterStatus, RegisterHandler,
           RegisterHint, RegisterAuto, BeginUnregister, UnregisterStep,
           UnregisterSigaction, UnregisterSettings, BeginHandle, HandleStep, PassOver,
           SeeTriggered, ResetStatus, CallHandler, EndHandle, vars
  <2>2. handled_automatically[s] /\ ~handler[s] /\ at[s] = "call" /\ Head(running) = s
    BY <2>1 DEF Call, Innermost
  <2> QED BY <2>2 DEF IInv, NullIsHarmless, Leftover
<1> QED BY <1>1, Inductive, PTL DEF Spec, NullCallOnlyWhileRegistering
-----------------------------------------------------------------------------
\* The loop

\* Which call can be under way in which phase; nothing is ever unregistered.
CallFitsPhase ==
  /\ op # "none" => \/ op = "register" /\ phase = "register"
                    \/ op = "handle" /\ phase = "handling"

\* What is due is still to be visited by the handle_all() at work, and nothing is
\* due at any other time.
Queued(s) == \E i \in 1 .. Len(todo) : todo[i] = s
DueIsQueued ==
  /\ due \subseteq owed
  /\ op = "handle" => \A s \in due : Queued(s)
  /\ op # "handle" => due = {}

\* Every entry of a signal asks for the same, so the fields of the settings agree
\* with each other as soon as the automatic call is asked for.
AutomaticHasHandler ==
  /\ op = "register" => want = Config[sig]
  /\ \A s \in Signals : handled_automatically[s] => Config[s].auto /\ handler[s]

LoopInv == /\ IInv /\ ~crashed
           /\ phase \in {"register", "loop", "handling", "business", "stopped"}
           /\ entry \in 0 .. Len(Table)
           /\ CallFitsPhase /\ DueIsQueued /\ AutomaticHasHandler
-----------------------------------------------------------------------------
\* The program before its first registration satisfies the invariant.
LEMMA LoopInitHolds == LoopInit => LoopInv
<1> SUFFICES ASSUME LoopInit PROVE LoopInv
  OBVIOUS
<1>1. IInv
  BY InitHolds DEF LoopInit
<1>2. Len(Table) \in Nat
  BY MainLoopAssumption
<1> QED BY <1>1, <1>2 DEF LoopInit, Init, LoopInv, CallFitsPhase, DueIsQueued,
           AutomaticHasHandler

\* An entry of the table is a signal, and its configuration is possible.
LEMMA TableEntry ==
  ASSUME NEW n \in 0 .. Len(Table), n < Len(Table)
  PROVE  Table[n + 1] \in Signals /\ Config[Table[n + 1]] \in Wishes
<1>1. Table \in Seq(Signals) /\ n + 1 \in 1 .. Len(Table)
  BY MainLoopAssumption
<1>2. Table[n + 1] \in Signals
  BY <1>1
<1> QED BY <1>2, MainLoopAssumption

\* The loop does nothing to the capturer that some caller could not do.
LEMMA LoopImplementsCapturer == LoopInv /\ [LoopNext]_loopvars => [Next]_vars
<1> SUFFICES ASSUME LoopInv, LoopNext PROVE [Next]_vars
  BY DEF loopvars
<1>1. CASE RegisterNext
  <2>1. Table[entry + 1] \in Signals /\ Config[Table[entry + 1]] \in Wishes
    BY <1>1, TableEntry DEF RegisterNext, LoopInv
  <2> QED BY <1>1, <2>1 DEF RegisterNext, Next
<1>2. CASE EnterLoop \/ LeaveOrGoOn \/ DoBusiness
  BY <1>2 DEF EnterLoop, LeaveOrGoOn, DoBusiness
<1>3. CASE HandlePending
  BY <1>3 DEF HandlePending, Next
<1>4. CASE ArriveInLoop \/ InnerInLoop \/ CallInLoop
  BY <1>4 DEF ArriveInLoop, InnerInLoop, CallInLoop, InLoop, Next
<1> QED BY <1>1, <1>2, <1>3, <1>4 DEF LoopNext, MainStep

\* A visit that passes over a signal, or has called its handler, leaves nothing owed
\* to it: between two statements of the main thread only a mark says so.
LEMMA VisitSettles ==
  ASSUME LoopInv, PassOver \/ CallHandler
  PROVE  Head(todo) \notin owed'
<1>0. \A s \in Signals : at[s] = "none"
  BY NoneEntered DEF LoopInv, IInv, PassOver, CallHandler, InVisit, In
<1>1. owed \subseteq Signals
  BY DEF LoopInv, IInv, TypeOK
<1>2. CASE PassOver
  BY <1>0, <1>1, <1>2 DEF PassOver, InVisit, In, LoopInv, IInv, NothingForgotten
<1>3. CASE CallHandler
  BY <1>0, <1>1, <1>3 DEF CallHandler, LoopInv, IInv, AutomaticInTime
<1> QED BY <1>2, <1>3

\* Who is not the first in the queue stays in it.
LEMMA TailKeepsQueued ==
  ASSUME TypeOK, todo # <<>>, NEW s, Queued(s), s # Head(todo)
  PROVE  \E i \in 1 .. Len(Tail(todo)) : Tail(todo)[i] = s
<1>1. todo \in Seq(Signals) /\ Len(todo) \in Nat \ {0}
  BY DEF TypeOK
<1>2. PICK i \in 1 .. Len(todo) : todo[i] = s
  BY DEF Queued
<1>3. i # 1
  BY <1>1, <1>2
<1>4. i - 1 \in 1 .. Len(Tail(todo)) /\ Tail(todo)[i - 1] = todo[i]
  BY <1>1, <1>2, <1>3
<1> QED BY <1>2, <1>4

\* Signals that arrive and inner handlers: no call of the main thread moves.
LEMMA InterruptStep ==
  ASSUME LoopInv, ArriveInLoop \/ InnerInLoop
  PROVE  ~crashed' /\ CallFitsPhase' /\ DueIsQueued' /\ AutomaticHasHandler'
<1>1. UNCHANGED <<main, handler, handled_automatically, phase, entry>>
  BY DEF ArriveInLoop, InnerInLoop, InLoop, Arrive, InnerHandler, Mark, Hint, Call,
         settings, main
<1>2. due' = due \intersect owed'
  BY DEF ArriveInLoop, InnerInLoop, InLoop
<1>3. ~crashed'
  <2>1. CASE ArriveInLoop
    BY <2>1 DEF ArriveInLoop, InLoop, Arrive
  <2>2. ASSUME NEW s \in Signals, Mark(s) \/ Hint(s) \/ Call(s)
        PROVE  ~crashed'
    BY <2>2 DEF Mark, Hint, Call, Innermost, LoopInv, AutomaticHasHandler
  <2> QED BY <2>1, <2>2 DEF InnerInLoop, InLoop, InnerHandler
<1>4. DueIsQueued'
  BY <1>1, <1>2 DEF LoopInv, DueIsQueued, Queued, main
<1> QED BY <1>1, <1>3, <1>4 DEF LoopInv, CallFitsPhase, AutomaticHasHandler, main

\* The statements of the call under way.
LEMMA CallInLoopStep ==
  ASSUME LoopInv, CallInLoop
  PROVE  ~crashed' /\ CallFitsPhase' /\ DueIsQueued' /\ AutomaticHasHandler'
<1>0. /\ due' = due \intersect owed' /\ UNCHANGED <<phase, entry>> /\ CallStep
      /\ TypeOK /\ ~crashed /\ CallFitsPhase /\ DueIsQueued /\ AutomaticHasHandler
  BY DEF CallInLoop, InLoop, LoopInv, IInv
<1>1. CASE RegisterStep
  <2>1. op = "register" /\ op' \in {"register", "none"} /\ ~crashed'
        /\ UNCHANGED <<sig, want>>
    BY <1>1 DEF RegisterStep, RegisterSigaction, RegisterStatus, RegisterHandler,
           RegisterHint, RegisterAuto, In, MainRuns, Goto, Return
  <2>2. want = Config[sig] /\ sig \in Signals
    BY <1>0, <2>1 DEF AutomaticHasHandler, TypeOK
  <2>3. \A s \in Signals : handled_automatically'[s] => Config[s].auto /\ handler'[s]
    <3>1. CASE RegisterSigaction \/ RegisterStatus \/ RegisterHint
      BY <1>0, <3>1 DEF RegisterSigaction, RegisterStatus, RegisterHint, settings,
             AutomaticHasHandler
    <3>2. CASE RegisterHandler
      <4>1. Config[sig] \in Wishes
        BY <2>2, MainLoopAssumption
      <4>2. Config[sig].auto => Config[sig].handler
        BY <4>1 DEF Wishes
      <4> QED BY <1>0, <2>2, <3>2, <4>2 DEF RegisterHandler, AutomaticHasHandler, TypeOK
    <3>3. CASE RegisterAuto
      <4>1. handler[sig] = want.handler
        BY <2>1, <3>3 DEF RegisterAuto, In, LoopInv, IInv, RegisteredHandler
      <4>2. Config[sig] \in Wishes
        BY <2>2, MainLoopAssumption
      <4>3. want.auto => want.handler
        BY <2>2, <4>2 DEF Wishes
      <4> QED BY <1>0, <2>2, <3>3, <4>1, <4>3 DEF RegisterAuto, AutomaticHasHandler, TypeOK
    <3> QED BY <1>1, <3>1, <3>2, <3>3 DEF RegisterStep
  <2> QED BY <1>0, <2>1, <2>2, <2>3 DEF CallFitsPhase, DueIsQueued, AutomaticHasHandler
<1>2. CASE UnregisterStep
  BY <1>0, <1>2 DEF UnregisterStep, UnregisterSigaction, UnregisterSettings, In,
         CallFitsPhase
<1>3. CASE HandleStep
  <2>1. op = "handle" /\ op' \in {"handle", "none"} /\ ~crashed'
        /\ UNCHANGED <<handler, handled_automatically>>
    BY <1>3 DEF HandleStep, PassOver, SeeTriggered, ResetStatus, CallHandler, EndHandle,
           InVisit, In, MainRuns, Goto, Return, settings
  <2>2. CASE PassOver \/ CallHandler
    <3>1. op' = op /\ todo' = Tail(todo) /\ todo # <<>>
      BY <2>2 DEF PassOver, CallHandler, InVisit
    <3>2. ASSUME NEW s \in due' PROVE Queued(s)'
      <4>1. s \in due /\ Queued(s) /\ s # Head(todo)
        BY <1>0, <2>1, <2>2, <3>2, VisitSettles DEF DueIsQueued
      <4> QED BY <1>0, <3>1, <4>1, TailKeepsQueued DEF Queued
    <3> QED BY <1>0, <2>1, <3>1, <3>2 DEF CallFitsPhase, DueIsQueued, AutomaticHasHandler
  <2>3. CASE SeeTriggered \/ ResetStatus
    <3>1. op' = op /\ todo' = todo
      BY <2>3 DEF SeeTriggered, ResetStatus, Goto
    <3> QED BY <1>0, <2>1, <3>1 DEF CallFitsPhase, DueIsQueued, Queued, AutomaticHasHandler
  <2>4. CASE EndHandle
    <3>1. todo = <<>> /\ op' = "none"
      BY <2>4 DEF EndHandle, Return
    <3>2. due = {}
      BY <1>0, <2>1, <3>1 DEF DueIsQueued, Queued
    <3> QED BY <1>0, <2>1, <3>1, <3>2 DEF CallFitsPhase, DueIsQueued, AutomaticHasHandler
  <2> QED BY <1>3, <2>2, <2>3, <2>4 DEF HandleStep
<1> QED BY <1>0, <1>1, <1>2, <1>3 DEF CallStep

\* The main thread between two calls.
LEMMA MainStepStep ==
  ASSUME LoopInv, RegisterNext \/ EnterLoop \/ HandlePending \/ LeaveOrGoOn \/ DoBusiness
  PROVE  ~crashed' /\ CallFitsPhase' /\ DueIsQueued' /\ AutomaticHasHandler'
<1>0. /\ op = "none" /\ ~crashed' /\ UNCHANGED <<handler, handled_automatically>>
      /\ due = {}
  BY DEF RegisterNext, EnterLoop, HandlePending, LeaveOrGoOn, DoBusiness, BeginRegister,
         BeginHandle, Begins, MainRuns, vars, settings, LoopInv, DueIsQueued
<1>1. CASE RegisterNext
  <2>1. op' = "register" /\ want' = Config[sig'] /\ UNCHANGED <<phase, due>>
        /\ phase = "register"
    BY <1>1 DEF RegisterNext, BeginRegister
  <2> QED BY <1>0, <2>1 DEF LoopInv, CallFitsPhase, DueIsQueued, AutomaticHasHandler
<1>2. CASE EnterLoop \/ LeaveOrGoOn \/ DoBusiness
  <2>1. UNCHANGED <<vars, due>>
    BY <1>2 DEF EnterLoop, LeaveOrGoOn, DoBusiness
  <2>2. op' = "none" /\ due' = {}
    BY <1>0, <2>1 DEF vars, main
  <2> QED BY <1>0, <2>2 DEF LoopInv, CallFitsPhase, DueIsQueued, AutomaticHasHandler
<1>3. CASE HandlePending
  <2>1. op' = "handle" /\ phase' = "handling" /\ due' = owed /\ owed' = owed /\ todo' = All
    BY <1>3 DEF HandlePending, BeginHandle
  <2>2. ASSUME NEW s \in owed PROVE \E i \in 1 .. Len(All) : All[i] = s
    <3>1. s \in Signals /\ NSig \in Nat
      BY <2>2, SignalAssumption DEF LoopInv, IInv, TypeOK
    <3>2. Len(All) = NSig /\ All[s] = s
      BY <3>1 DEF All, Signals
    <3> QED BY <3>1, <3>2 DEF Signals
  <2>3. DueIsQueued'
    BY <2>1, <2>2 DEF DueIsQueued, Queued
  <2> QED BY <1>0, <2>1, <2>3 DEF LoopInv, CallFitsPhase, AutomaticHasHandler
<1> QED BY <1>1, <1>2, <1>3

\* Phase and entry stay in their ranges.
LEMMA PhaseStep ==
  ASSUME LoopInv, LoopNext
  PROVE  /\ phase' \in {"register", "loop", "handling", "business", "stopped"}
         /\ entry' \in 0 .. Len(Table)
<1>1. CASE RegisterNext
  <2>1. Len(Table) \in Nat
    BY MainLoopAssumption
  <2> QED BY <1>1, <2>1 DEF RegisterNext, LoopInv
<1>2. CASE EnterLoop \/ HandlePending \/ LeaveOrGoOn \/ DoBusiness
  BY <1>2 DEF EnterLoop, HandlePending, LeaveOrGoOn, DoBusiness, LoopInv
<1>3. CASE ArriveInLoop \/ InnerInLoop \/ CallInLoop
  BY <1>3 DEF ArriveInLoop, InnerInLoop, CallInLoop, InLoop, LoopInv
<1> QED BY <1>1, <1>2, <1>3 DEF LoopNext, MainStep

\* Every step of the loop, of the capturer in it or of a signal keeps the invariant.
LEMMA LoopKeeps == LoopInv /\ [LoopNext]_loopvars => LoopInv'
<1> SUFFICES ASSUME LoopInv, [LoopNext]_loopvars PROVE LoopInv'
  OBVIOUS
<1>1. IInv'
  BY LoopImplementsCapturer, StepKeeps DEF LoopInv
<1>2. CASE LoopNext
  BY <1>1, <1>2, PhaseStep, InterruptStep, CallInLoopStep, MainStepStep
     DEF LoopInv, LoopNext, MainStep
<1>3. CASE UNCHANGED loopvars
  BY <1>1, <1>3 DEF LoopInv, CallFitsPhase, DueIsQueued, Queued, AutomaticHasHandler,
         loopvars, vars, settings, main
<1> QED BY <1>2, <1>3
-----------------------------------------------------------------------------
\* The invariant of the capturer and of the loop around it holds in every state.
THEOREM LoopInvariance == LoopSpec => []LoopInv
  BY LoopInitHolds, LoopKeeps, PTL DEF LoopSpec

\* The variables of program and capturer are well-formed for any table of signals.
THEOREM LoopTypeCorrect == LoopSpec => []LoopTypeOK
<1>1. LoopInv => LoopTypeOK
  BY DEF LoopInv, LoopTypeOK, IInv, DueIsQueued
<1> QED BY <1>1, LoopInvariance, PTL

\* run_business() leaves for an exit flag only when every handler owed at the time
\* handle_all() read the flag has run, for any table and any arrivals.
THEOREM LeavesAfterHandling == LoopSpec => []HandledBeforeLeaving
<1>1. LoopInv => HandledBeforeLeaving
  BY DEF LoopInv, HandledBeforeLeaving, DueIsQueued, CallFitsPhase
<1> QED BY <1>1, LoopInvariance, PTL

\* No signal ever finds an automatic call without a handler: what register_signals()
\* asks for a signal is always the same.
THEOREM NoNullHandler == LoopSpec => []NeverCrashes
<1>1. LoopInv => NeverCrashes
  BY DEF LoopInv, NeverCrashes
<1> QED BY <1>1, LoopInvariance, PTL
-----------------------------------------------------------------------------
\* The life of the program

\* The exit functions, in the order in which they are registered
Registrations == <<"config_manager", "resource_manager", "timed_task_scheduler", "main_app",
                   "clear_logger">>

Starting == {"prepare_prerequisites", "parse_command_line", "load_configurations",
             "prepare_loggers"}
Serving == {"handle_all", "poll_and_process", "check_and_execute", "run_private_business",
            "finalize_business"}
Networked == Serving \union {"prepare_extra_resource", "build_component_map", "register_signals",
                             "register_timed_tasks", "initialize_business", "release_resources"}
Running == Starting \union Networked \union {"prepare_network"}
Ending == {"exit", "gone"}

\* What a pointer names is there, and what no pointer names the business has made.
PointersHold ==
  /\ held \subseteq alive /\ alive \subseteq held \union {"extra_resource"}
  /\ "extra_resource" \notin held

\* The functions yet to run are the first ones registered; main() registers the
\* last one with the loggers.
ExitsInOrder ==
  /\ exits \in Seq({"config_manager", "resource_manager", "timed_task_scheduler", "main_app",
                    "clear_logger"})
  /\ Len(exits) <= 5 /\ \A i \in 1 .. Len(exits) : exits[i] = Registrations[i]
  /\ stage \in Starting => Len(exits) = 4
  /\ stage \in Running \ Starting => Len(exits) = 5
  /\ stage = "gone" => Len(exits) = 0

\* What main() has at each step.
HeldByMain ==
  /\ stage \in Running => {"resource", "tasks"} \subseteq held
  /\ stage \in Running \ {"prepare_prerequisites"} => "screen_logger" \in held
  /\ stage \in (Running \ Starting) \union {"prepare_loggers"} => "extra_config" \in held
  /\ stage \in Networked => Network \subseteq held

\* What is still held, some function yet to run deletes.
DeletedAtExit ==
  /\ "file_logger" \in held => Len(exits) = 5
  /\ "config_file" \in held => stage \notin Running /\ Len(exits) <= 4
  /\ "config_file" \in held /\ stage = "exit" => "screen_logger" \in held
  /\ Network \intersect held # {} => "resource" \in held
  /\ stage \in Ending /\ Len(exits) <= 3 => "resource" \notin held
  /\ stage \in Ending /\ Len(exits) <= 2 => "tasks" \notin held
  /\ stage \in Ending /\ Len(exits) = 0 => held \intersect {"config_file", "extra_config"} = {}

BusinessServes ==
  business = "running" => stage \in Serving \union {"crashed"} /\ Network \subseteq held

LifecycleInv ==
  /\ LifecycleTypeOK /\ stage \in Running \union Ending \union {"crashed"}
  /\ UsedWhileThere /\ PointersHold /\ ExitsInOrder /\ HeldByMain /\ DeletedAtExit /\ BusinessServes
-----------------------------------------------------------------------------
LEMMA LifecycleInitHolds == LifecycleInit => LifecycleInv
<1> SUFFICES ASSUME LifecycleInit PROVE LifecycleInv
  OBVIOUS
<1> USE DEF LifecycleInit
<1>1. LifecycleTypeOK
  <2>1. exits \in Seq({"config_manager", "resource_manager", "timed_task_scheduler", "main_app",
                      "clear_logger"})
    OBVIOUS
  <2>2. held \subseteq Objects /\ fault.of \subseteq Objects
    BY DEF Objects, NoFault
  <2> QED BY <2>1, <2>2 DEF LifecycleTypeOK
<1>2. stage \in Starting /\ fault = NoFault /\ business = "none"
  BY DEF Starting
<1>3. PointersHold
  BY DEF PointersHold
<1>4. ExitsInOrder
  BY <1>2 DEF ExitsInOrder, Registrations, Starting, Running
<1>5. HeldByMain
  BY DEF HeldByMain, Running, Starting, Networked, Serving
<1>6. DeletedAtExit
  BY DEF DeletedAtExit, Network, Ending, Running, Starting
<1> QED
  BY <1>1, <1>2, <1>3, <1>4, <1>5, <1>6 DEF LifecycleInv, UsedWhileThere, BusinessServes, Running

\* A step that finds what it uses.
LEMMA StepDone ==
  ASSUME PointersHold, NEW to, NEW uses, NEW made, NEW gone, uses \subseteq held,
         Step(to, uses, made, gone)
  PROVE  /\ stage' = to /\ held' = (held \ gone) \union made
         /\ alive' = (alive \ (gone \intersect held)) \union made /\ fault' = fault
<1>1. (uses \ (held \intersect alive)) \union ((gone \intersect held) \ alive) = {}
  BY DEF PointersHold
<1> QED BY <1>1 DEF Step

\* What main() holds does not change.
LEMMA NothingMade ==
  ASSUME PointersHold, NEW to, NEW uses, uses \subseteq held, Step(to, uses, {}, {})
  PROVE  stage' = to /\ held' = held /\ alive' = alive /\ fault' = fault
<1>1. /\ stage' = to /\ held' = (held \ {}) \union {}
      /\ alive' = (alive \ ({} \intersect held)) \union {} /\ fault' = fault
  BY StepDone
<1> QED BY <1>1

\* main() goes on to a step that may count on no more than the one it is at.
LEMMA GoOn ==
  ASSUME LifecycleInv, LifecycleTypeOK', NEW to \in Running \union {"exit"}, stage \in Running,
         stage' = to, held' = held, alive' = alive, fault' = fault, exits' = exits,
         to \in Running => (to \in Starting <=> stage \in Starting),
         to \in Networked => stage \in Networked,
         stage = "prepare_prerequisites" => "screen_logger" \in held,
         to \in (Running \ Starting) \union {"prepare_loggers"} =>
            stage \in (Running \ Starting) \union {"prepare_loggers"},
         BusinessServes'
  PROVE  LifecycleInv'
<1>1. PointersHold' /\ UsedWhileThere'
  BY DEF LifecycleInv, PointersHold, UsedWhileThere
<1>2. ExitsInOrder'
  BY DEF LifecycleInv, ExitsInOrder, Running, Networked, Starting, Serving
<1>3. HeldByMain'
  BY DEF LifecycleInv, HeldByMain, Running, Networked, Starting, Serving
<1>4. DeletedAtExit'
  <2>1. Len(exits) \in {4, 5} /\ "config_file" \notin held
    BY DEF LifecycleInv, ExitsInOrder, DeletedAtExit, Running
  <2>2. "file_logger" \in held => Len(exits) = 5
    BY DEF LifecycleInv, DeletedAtExit
  <2>3. Network \intersect held # {} => "resource" \in held
    BY DEF LifecycleInv, DeletedAtExit
  <2> QED BY <2>1, <2>2, <2>3 DEF DeletedAtExit
<1> QED BY <1>1, <1>2, <1>3, <1>4 DEF LifecycleInv, Ending

\* Types after a step, by what it may change.
LEMMA TypesKept ==
  ASSUME LifecycleInv, build' = build, config' \in Configs \union {config},
         held' \subseteq Objects, alive' \subseteq Objects, pending' \subseteq SignalNames,
         business' \in {"none", "running", "finalised"}, ExitsInOrder', fault'.of \subseteq Objects
  PROVE  LifecycleTypeOK'
BY DEF LifecycleInv, LifecycleTypeOK, ExitsInOrder

\* The exit functions stay as they are until exit() runs them.
LEMMA ExitsKept ==
  ASSUME LifecycleInv, exits' = exits, stage \in Running,
         stage' \in Running \union {"exit", "crashed"},
         stage' \in Running => (stage' \in Starting <=> stage \in Starting)
  PROVE  ExitsInOrder'
BY DEF LifecycleInv, ExitsInOrder, Running, Networked, Starting, Serving

\* main() gives up, or ends, and takes back the resources.
LEMMA TakenBack ==
  ASSUME LifecycleInv, stage \in Running \ Serving, stage' = "exit",
         held' = (held \ Cleared) \union {}, alive' = (alive \ (Cleared \intersect held)) \union {},
         UNCHANGED <<build, config, exits, pending, business, fault>>,
         stage # "prepare_prerequisites"
  PROVE  LifecycleInv'
<1>1. Cleared = Network \union {"resource", "extra_resource"}
  BY DEF LifecycleInv, HeldByMain, Cleared
<1>2. PointersHold' /\ UsedWhileThere'
  BY DEF LifecycleInv, PointersHold, UsedWhileThere
<1>3. ExitsInOrder'
  BY ExitsKept DEF Running, Starting, Networked, Serving
<1>4. LifecycleTypeOK'
  BY <1>3, TypesKept DEF LifecycleInv, LifecycleTypeOK
<1>5. HeldByMain'
  BY DEF HeldByMain, Running, Networked, Starting, Serving
<1>6. DeletedAtExit'
  <2>1. Len(exits) \in {4, 5} /\ "config_file" \notin held
    BY DEF LifecycleInv, ExitsInOrder, DeletedAtExit, Running
  <2>2. "file_logger" \in held => Len(exits) = 5
    BY DEF LifecycleInv, DeletedAtExit
  <2>3. Network \intersect held' = {}
    BY <1>1
  <2> QED BY <2>1, <2>2, <2>3 DEF DeletedAtExit
<1>7. BusinessServes'
  BY DEF LifecycleInv, BusinessServes, Running, Starting, Networked, Serving
<1> QED BY <1>2, <1>3, <1>4, <1>5, <1>6, <1>7 DEF LifecycleInv, Ending

\* The program crashes in one of the three known ways.
LEMMA Crashes ==
  ASSUME LifecycleInv, stage \in Running, stage' = "crashed",
         NEW gone \in {{}, Log}, held' = held \ gone, alive' = alive \ gone,
         UsedWhileThere', fault'.of \subseteq Objects,
         UNCHANGED <<build, config, exits, pending, business>> \/
           (UNCHANGED <<build, config, exits, business>> /\ pending' \subseteq SignalNames)
  PROVE  LifecycleInv'
<1>1. /\ UNCHANGED <<build, config, exits, business>> /\ pending' \subseteq SignalNames
  BY DEF LifecycleInv, LifecycleTypeOK
<1>2. PointersHold'
  BY DEF LifecycleInv, PointersHold, Log
<1>3. ExitsInOrder'
  BY <1>1, ExitsKept DEF Running, Starting, Networked, Serving
<1>4. LifecycleTypeOK'
  BY <1>1, <1>3, TypesKept DEF LifecycleInv, LifecycleTypeOK
<1>5. HeldByMain'
  BY DEF HeldByMain, Running, Networked, Starting, Serving
<1>6. DeletedAtExit'
  <2>1. Len(exits) \in {4, 5} /\ "config_file" \notin held
    BY DEF LifecycleInv, ExitsInOrder, DeletedAtExit, Running
  <2>2. "file_logger" \in held => Len(exits) = 5
    BY DEF LifecycleInv, DeletedAtExit
  <2>3. Network \intersect held' # {} => "resource" \in held'
    BY DEF LifecycleInv, DeletedAtExit, Network, Log
  <2> QED BY <1>1, <2>1, <2>2, <2>3 DEF DeletedAtExit, Running, Starting, Networked, Serving, Ending
<1>7. BusinessServes'
  BY <1>1 DEF LifecycleInv, BusinessServes, Network, Log
<1> QED BY <1>2, <1>3, <1>4, <1>5, <1>6, <1>7 DEF LifecycleInv
-----------------------------------------------------------------------------
\* What main() holds at a step it is at.
LEMMA LogHeld ==
  ASSUME LifecycleInv, stage \in Running \ {"prepare_prerequisites"}
  PROVE  Log \subseteq held
BY DEF LifecycleInv, HeldByMain, Log

LEMMA NetworkHeld ==
  ASSUME LifecycleInv, stage \in Networked
  PROVE  Network \subseteq held
BY DEF LifecycleInv, HeldByMain

\* A step of main() that uses what it has and goes on.
LEMMA GoesOn ==
  ASSUME LifecycleInv, NEW to \in Running \union {"exit"}, NEW uses, uses \subseteq held,
         Step(to, uses, {}, {}), stage \in Running \ {"prepare_prerequisites"},
         UNCHANGED <<build, config, exits>>, pending' \subseteq SignalNames,
         business' \in {"none", "running", "finalised"},
         to \in Running => (to \in Starting <=> stage \in Starting),
         to \in Networked => stage \in Networked,
         to \in (Running \ Starting) \union {"prepare_loggers"} =>
            stage \in (Running \ Starting) \union {"prepare_loggers"},
         business' = "running" => to \in Serving /\ stage \in Networked
  PROVE  LifecycleInv'
<1>1. stage' = to /\ held' = held /\ alive' = alive /\ fault' = fault
  BY NothingMade DEF LifecycleInv
<1>2. ExitsInOrder'
  BY <1>1, ExitsKept DEF Running
<1>3. LifecycleTypeOK'
  BY <1>1, <1>2, TypesKept DEF LifecycleInv, LifecycleTypeOK
<1>4. BusinessServes'
  BY <1>1, NetworkHeld DEF BusinessServes
<1> QED BY <1>1, <1>3, <1>4, GoOn

LEMMA PreparePrerequisitesKeeps == LifecycleInv /\ PreparePrerequisites => LifecycleInv'
<1> SUFFICES ASSUME LifecycleInv, PreparePrerequisites PROVE LifecycleInv'
  OBVIOUS
<1> USE DEF PreparePrerequisites, At
<1>1. /\ stage' = "parse_command_line" /\ held' = (held \ {}) \union Log
      /\ alive' = (alive \ ({} \intersect held)) \union Log /\ fault' = fault
  BY StepDone DEF LifecycleInv
<1>2. ExitsInOrder'
  BY <1>1, ExitsKept DEF Running, Starting
<1>3. LifecycleTypeOK'
  <2>1. held' \subseteq Objects /\ alive' \subseteq Objects
    BY <1>1 DEF LifecycleInv, LifecycleTypeOK, Objects, Log
  <2> QED BY <1>1, <1>2, <2>1, TypesKept DEF LifecycleInv, LifecycleTypeOK
<1>4. PointersHold' /\ UsedWhileThere'
  BY <1>1 DEF LifecycleInv, PointersHold, UsedWhileThere, Log
<1>5. HeldByMain'
  BY <1>1 DEF LifecycleInv, HeldByMain, Running, Starting, Networked, Serving, Log
<1>6. DeletedAtExit'
  BY <1>1
  DEF LifecycleInv, DeletedAtExit, Running, Starting, Networked, Serving, Ending, Log, Network
<1>7. BusinessServes'
  BY <1>1 DEF LifecycleInv, BusinessServes, Serving
<1> QED BY <1>1, <1>2, <1>3, <1>4, <1>5, <1>6, <1>7 DEF LifecycleInv, Running, Starting

\* Not read to its end: the document may stay open.
LEMMA LoadFailsKeeps == LifecycleInv /\ LoadFails => LifecycleInv'
<1> SUFFICES ASSUME LifecycleInv, LoadFails PROVE LifecycleInv'
  OBVIOUS
<1> USE DEF LoadFails, At
<1>1. PICK made \in {{}, {"config_file"}, {"config_file", "extra_config"}} :
        Step("exit", Log, made, {})
  OBVIOUS
<1>2. Log \subseteq held
  BY LogHeld DEF Running, Starting
<1>3. /\ stage' = "exit" /\ held' = (held \ {}) \union made
      /\ alive' = (alive \ ({} \intersect held)) \union made /\ fault' = fault
  BY <1>1, <1>2, StepDone DEF LifecycleInv
<1>4. ExitsInOrder'
  BY <1>3, ExitsKept DEF Running, Starting, Networked, Serving
<1>5. LifecycleTypeOK'
  <2>1. held' \subseteq Objects /\ alive' \subseteq Objects
    BY <1>3 DEF LifecycleInv, LifecycleTypeOK, Objects
  <2> QED BY <1>3, <1>4, <2>1, TypesKept DEF LifecycleInv, LifecycleTypeOK
<1>6. PointersHold' /\ UsedWhileThere'
  BY <1>3 DEF LifecycleInv, PointersHold, UsedWhileThere
<1>7. HeldByMain'
  BY <1>3 DEF HeldByMain, Running, Starting, Networked, Serving
<1>8. DeletedAtExit'
  <2>1. Len(exits) = 4 /\ "file_logger" \notin held
    BY DEF LifecycleInv, ExitsInOrder, DeletedAtExit, Starting
  <2>2. Network \intersect held' # {} => "resource" \in held'
    BY <1>3 DEF LifecycleInv, DeletedAtExit, Network
  <2> QED BY <1>2, <1>3, <2>1, <2>2 DEF DeletedAtExit, Log, Running, Starting, Networked, Serving
<1>9. BusinessServes'
  BY <1>3 DEF LifecycleInv, BusinessServes, Serving
<1> QED BY <1>3, <1>4, <1>5, <1>6, <1>7, <1>8, <1>9 DEF LifecycleInv, Ending

LEMMA LoadConfigurationsKeeps == LifecycleInv /\ LoadConfigurations => LifecycleInv'
<1> SUFFICES ASSUME LifecycleInv, LoadConfigurations PROVE LifecycleInv'
  OBVIOUS
<1> USE DEF LoadConfigurations, At
<1>1. held' = held \union {"extra_config"}
  BY DEF LifecycleInv, DeletedAtExit, Closed, Running, Starting
<1>2. ExitsInOrder'
  BY ExitsKept DEF Running, Starting
<1>3. LifecycleTypeOK'
  <2>1. held' \subseteq Objects /\ alive' \subseteq Objects
    BY <1>1 DEF LifecycleInv, LifecycleTypeOK, Objects
  <2> QED BY <1>1, <1>2, <2>1, TypesKept DEF LifecycleInv, LifecycleTypeOK
<1>4. PointersHold' /\ UsedWhileThere'
  BY <1>1 DEF LifecycleInv, PointersHold, UsedWhileThere
<1>5. HeldByMain'
  BY <1>1 DEF LifecycleInv, HeldByMain, Running, Starting, Networked, Serving
<1>6. DeletedAtExit'
  BY <1>1 DEF LifecycleInv, DeletedAtExit, Running, Starting, Networked, Serving, Ending, Network
<1>7. BusinessServes'
  BY DEF LifecycleInv, BusinessServes, Serving
<1> QED BY <1>2, <1>3, <1>4, <1>5, <1>6, <1>7 DEF LifecycleInv, Running, Starting

\* The logger of files comes with the function that closes it.
LEMMA InitLoggerKeeps == LifecycleInv /\ InitLogger => LifecycleInv'
<1> SUFFICES ASSUME LifecycleInv, InitLogger PROVE LifecycleInv'
  OBVIOUS
<1> USE DEF InitLogger, At
<1>1. Log \subseteq held
  BY LogHeld DEF Running, Starting
<1> DEFINE made == IF config.file_log THEN {"file_logger"} ELSE {}
<1>2. /\ stage' = "prepare_network" /\ held' = (held \ {}) \union made
      /\ alive' = (alive \ ({} \intersect held)) \union made /\ fault' = fault
  BY <1>1, StepDone DEF LifecycleInv
<1>3. made \subseteq {"file_logger"}
  OBVIOUS
<1> HIDE DEF made
<1>4. ExitsInOrder' /\ Len(exits') = 5
  <2> DEFINE Functions == {"config_manager", "resource_manager", "timed_task_scheduler", "main_app",
                           "clear_logger"}
  <2>1. exits \in Seq(Functions) /\ Len(exits) = 4 /\ \A i \in 1 .. 4 : exits[i] = Registrations[i]
    BY DEF LifecycleInv, ExitsInOrder, Starting
  <2>2. /\ exits' \in Seq(Functions) /\ Len(exits') = 5
        /\ exits'[5] = "clear_logger" /\ \A i \in 1 .. 4 : exits'[i] = exits[i]
    <3>1. exits' = Append(exits, "clear_logger") /\ "clear_logger" \in Functions
      OBVIOUS
    <3> HIDE DEF Functions
    <3>2. /\ Append(exits, "clear_logger") \in Seq(Functions)
          /\ Len(Append(exits, "clear_logger")) = Len(exits) + 1
          /\ \A i \in 1 .. Len(exits) : Append(exits, "clear_logger")[i] = exits[i]
          /\ Append(exits, "clear_logger")[Len(exits) + 1] = "clear_logger"
      <4>1. exits \in Seq(Functions) /\ "clear_logger" \in Functions
        BY <2>1, <3>1
      <4> QED BY <4>1, AppendProperties
    <3> QED BY <2>1, <3>1, <3>2
  <2>3. \A i \in 1 .. 5 : exits'[i] = Registrations[i]
    BY <2>1, <2>2 DEF Registrations
  <2> QED BY <1>2, <2>2, <2>3 DEF ExitsInOrder, Starting
<1>5. LifecycleTypeOK'
  <2>1. held' \subseteq Objects /\ alive' \subseteq Objects
    BY <1>2, <1>3 DEF LifecycleInv, LifecycleTypeOK, Objects
  <2> QED BY <1>2, <1>4, <2>1, TypesKept DEF LifecycleInv, LifecycleTypeOK
<1>6. PointersHold' /\ UsedWhileThere'
  BY <1>2, <1>3 DEF LifecycleInv, PointersHold, UsedWhileThere
<1>7. HeldByMain'
  BY <1>2, <1>3 DEF LifecycleInv, HeldByMain, Running, Starting, Networked, Serving
<1>8. DeletedAtExit'
  BY <1>2, <1>3, <1>4
  DEF LifecycleInv, DeletedAtExit, Running, Starting, Networked, Serving, Ending, Network
<1>9. BusinessServes'
  BY <1>2 DEF LifecycleInv, BusinessServes, Serving
<1> QED BY <1>2, <1>4, <1>5, <1>6, <1>7, <1>8, <1>9 DEF LifecycleInv, Running

LEMMA PrepareNetworkKeeps == LifecycleInv /\ PrepareNetwork => LifecycleInv'
<1> SUFFICES ASSUME LifecycleInv, PrepareNetwork PROVE LifecycleInv'
  OBVIOUS
<1> USE DEF PrepareNetwork, At
<1>1. CASE ComparesAddress /\ ~build.accepts
  <2>1. /\ stage' = "crashed" /\ fault' = [at |-> "prepare_network", of |-> {"server_listener"}]
        /\ held' = held \ {} /\ alive' = alive \ {}
    BY <1>1
  <2>2. UsedWhileThere' /\ fault'.of \subseteq Objects
    BY <2>1 DEF UsedWhileThere, Objects, Network
  <2> QED BY <2>1, <2>2, Crashes DEF Running
<1>2. CASE ~(ComparesAddress /\ ~build.accepts)
  <2>1. Log \subseteq held
    BY LogHeld DEF Running
  <2>2. Step("prepare_extra_resource", Log, Network, {})
    BY <1>2
  <2>3. /\ stage' = "prepare_extra_resource" /\ held' = (held \ {}) \union Network
        /\ alive' = (alive \ ({} \intersect held)) \union Network /\ fault' = fault
    BY <2>1, <2>2, StepDone DEF LifecycleInv
  <2>4. ExitsInOrder'
    BY <2>3, ExitsKept DEF Running, Starting, Networked
  <2>5. LifecycleTypeOK'
    <3>1. held' \subseteq Objects /\ alive' \subseteq Objects
      BY <2>3 DEF LifecycleInv, LifecycleTypeOK, Objects
    <3> QED BY <2>3, <2>4, <3>1, TypesKept DEF LifecycleInv, LifecycleTypeOK
  <2>6. PointersHold' /\ UsedWhileThere'
    BY <2>3 DEF LifecycleInv, PointersHold, UsedWhileThere, Network
  <2>7. HeldByMain'
    BY <2>3 DEF LifecycleInv, HeldByMain, Running, Starting, Networked, Serving
  <2>8. DeletedAtExit'
    <3>1. "resource" \in held
      BY DEF LifecycleInv, HeldByMain, Running
    <3> QED BY <2>3, <3>1
      DEF LifecycleInv, DeletedAtExit, Running, Starting, Networked, Serving, Ending, Network
  <2>9. BusinessServes'
    BY <2>3 DEF LifecycleInv, BusinessServes, Serving
  <2> QED BY <2>3, <2>4, <2>5, <2>6, <2>7, <2>8, <2>9 DEF LifecycleInv, Running, Networked
<1> QED BY <1>1, <1>2

\* What the business makes, no pointer names.
LEMMA PrepareExtraResourceKeeps == LifecycleInv /\ PrepareExtraResource => LifecycleInv'
<1> SUFFICES ASSUME LifecycleInv, PrepareExtraResource PROVE LifecycleInv'
  OBVIOUS
<1> USE DEF PrepareExtraResource, At
<1>1. alive \subseteq alive' /\ alive' \subseteq alive \union {"extra_resource"}
  OBVIOUS
<1>2. ExitsInOrder'
  BY ExitsKept DEF Running, Starting, Networked, Serving
<1>3. LifecycleTypeOK'
  <2>1. held' \subseteq Objects /\ alive' \subseteq Objects
    BY <1>1 DEF LifecycleInv, LifecycleTypeOK, Objects
  <2> QED BY <1>2, <2>1, TypesKept DEF LifecycleInv, LifecycleTypeOK
<1>4. PointersHold' /\ UsedWhileThere'
  BY <1>1 DEF LifecycleInv, PointersHold, UsedWhileThere
<1>5. HeldByMain'
  BY DEF LifecycleInv, HeldByMain, Running, Starting, Networked, Serving
<1>6. DeletedAtExit'
  BY DEF LifecycleInv, DeletedAtExit, Running, Starting, Networked, Serving, Ending, Network
<1>7. BusinessServes'
  BY DEF LifecycleInv, BusinessServes, Serving
<1> QED BY <1>2, <1>3, <1>4, <1>5, <1>6, <1>7 DEF LifecycleInv, Running, Networked

\* A start that fails with the loggers or later.
LEMMA FailuresKeep ==
  LifecycleInv /\ (PrepareLoggersFails \/ PrepareNetworkFails \/ PrepareExtraResourceFails)
    => LifecycleInv'
<1> SUFFICES ASSUME LifecycleInv,
                    PrepareLoggersFails \/ PrepareNetworkFails \/ PrepareExtraResourceFails
             PROVE  LifecycleInv'
  OBVIOUS
<1>1. stage \in {"prepare_loggers", "prepare_network", "prepare_extra_resource"}
  BY DEF PrepareLoggersFails, PrepareNetworkFails, PrepareExtraResourceFails, At
<1>2. /\ Step("exit", Log, {}, Cleared)
      /\ UNCHANGED <<build, config, exits, pending, business>>
  BY DEF PrepareLoggersFails, PrepareNetworkFails, PrepareExtraResourceFails
<1>3. stage \in Running \ Serving /\ stage # "prepare_prerequisites"
  BY <1>1 DEF Running, Starting, Networked, Serving
<1>4. /\ stage' = "exit" /\ held' = (held \ Cleared) \union {}
      /\ alive' = (alive \ (Cleared \intersect held)) \union {} /\ fault' = fault
  BY <1>2, <1>3, LogHeld, StepDone DEF LifecycleInv
<1> QED BY <1>2, <1>3, <1>4, TakenBack

LEMMA ParseCommandLineKeeps == LifecycleInv /\ ParseCommandLine => LifecycleInv'
<1> SUFFICES ASSUME LifecycleInv, ParseCommandLine PROVE LifecycleInv'
  OBVIOUS
<1>1. PICK to \in {"load_configurations", "exit"} : Step(to, {}, {}, {})
  BY DEF ParseCommandLine
<1>2. stage = "parse_command_line" /\ UNCHANGED <<build, config, exits, pending, business>>
  BY DEF ParseCommandLine, At
<1>3. pending' \subseteq SignalNames /\ business' \in {"none", "running", "finalised"}
  BY <1>2 DEF LifecycleInv, LifecycleTypeOK
<1>4. business # "running"
  BY <1>2 DEF LifecycleInv, BusinessServes, Serving
<1>5. /\ to \in Running \union {"exit"} /\ stage \in Running \ {"prepare_prerequisites"}
      /\ to \in Running => (to \in Starting <=> stage \in Starting)
      /\ to \notin Networked /\ to \notin (Running \ Starting) \union {"prepare_loggers"}
  BY <1>2 DEF Running, Starting, Networked, Serving
<1> QED BY <1>1, <1>2, <1>3, <1>4, <1>5, GoesOn

\* A logger that cannot be opened: the screen logger is gone before it is used.
LEMMA InitLoggerFailsKeeps == LifecycleInv /\ InitLoggerFails => LifecycleInv'
<1> SUFFICES ASSUME LifecycleInv, InitLoggerFails PROVE LifecycleInv'
  OBVIOUS
<1>1. /\ stage \in Running /\ stage' = "crashed" /\ held' = held \ Log /\ alive' = alive \ Log
      /\ UNCHANGED <<build, config, exits, pending, business>>
      /\ fault' = [at |-> "prepare_loggers", of |-> Log]
  BY DEF InitLoggerFails, At, Running, Starting
<1>2. UsedWhileThere' /\ fault'.of \subseteq Objects
  BY <1>1 DEF UsedWhileThere, Objects, Log
<1> QED BY <1>1, <1>2, Crashes

\* Between the resources and the loop.
LEMMA RegistrationsKeep ==
  LifecycleInv /\ (BuildOrRegister \/ RegisterTimedTasks) => LifecycleInv'
<1> SUFFICES ASSUME LifecycleInv, BuildOrRegister \/ RegisterTimedTasks PROVE LifecycleInv'
  OBVIOUS
<1>1. /\ stage \in {"build_component_map", "register_signals", "register_timed_tasks"}
      /\ UNCHANGED <<build, config, exits, pending, business>>
  BY DEF BuildOrRegister, RegisterTimedTasks, At
<1>2. /\ stage \in Running \ {"prepare_prerequisites"} /\ stage \in Networked
      /\ stage \notin Starting /\ stage \notin Serving
  BY <1>1 DEF Running, Starting, Networked, Serving
<1>3. pending' \subseteq SignalNames /\ business' \in {"none", "running", "finalised"}
  BY <1>1 DEF LifecycleInv, LifecycleTypeOK
<1>4. business # "running"
  BY <1>1 DEF LifecycleInv, BusinessServes, Serving
<1>5. Log \union {"tasks"} \subseteq held
  BY <1>2, LogHeld DEF LifecycleInv, HeldByMain
<1>6. \A to \in {"register_signals", "register_timed_tasks", "initialize_business", "exit"} :
        /\ to \in Running \union {"exit"} /\ to \notin Starting
  BY DEF Running, Starting, Networked, Serving
<1>7. ASSUME NEW to \in {"register_signals", "register_timed_tasks", "initialize_business", "exit"},
             NEW uses \in {Log, Log \union {"tasks"}}, Step(to, uses, {}, {})
      PROVE  LifecycleInv'
  BY <1>1, <1>2, <1>3, <1>4, <1>5, <1>6, <1>7, GoesOn
<1>8. ASSUME Step("exit", Log \union {"tasks"}, {}, Cleared)
      PROVE  LifecycleInv'
  <2>1. /\ stage' = "exit" /\ held' = (held \ Cleared) \union {}
        /\ alive' = (alive \ (Cleared \intersect held)) \union {} /\ fault' = fault
    BY <1>5, <1>8, StepDone DEF LifecycleInv
  <2> QED BY <1>1, <1>2, <2>1, TakenBack
<1>9. CASE BuildOrRegister
  BY <1>9, <1>7 DEF BuildOrRegister
<1>10. CASE RegisterTimedTasks
  BY <1>10, <1>7, <1>8 DEF RegisterTimedTasks
<1> QED BY <1>9, <1>10

LEMMA InitializeBusinessKeeps == LifecycleInv /\ InitializeBusiness => LifecycleInv'
<1> SUFFICES ASSUME LifecycleInv, InitializeBusiness PROVE LifecycleInv'
  OBVIOUS
<1>1. stage = "initialize_business" /\ UNCHANGED <<build, config, exits, pending>>
  BY DEF InitializeBusiness, At
<1>2. /\ stage \in Running \ {"prepare_prerequisites"} /\ stage \in Networked
      /\ stage \notin Starting /\ stage \notin Serving
  BY <1>1 DEF Running, Starting, Networked, Serving
<1>3. pending' \subseteq SignalNames
  BY <1>1 DEF LifecycleInv, LifecycleTypeOK
<1>4. CASE Step("handle_all", {}, {}, {}) /\ business' = "running"
  <2>1. /\ "handle_all" \in Running \union {"exit"} /\ "handle_all" \notin Starting
        /\ "handle_all" \in Serving
    BY DEF Running, Starting, Networked, Serving
  <2> QED BY <1>1, <1>2, <1>3, <1>4, <2>1, GoesOn
<1>5. CASE Step("exit", {}, {}, Cleared) /\ UNCHANGED business
  <2>1. /\ stage' = "exit" /\ held' = (held \ Cleared) \union {}
        /\ alive' = (alive \ (Cleared \intersect held)) \union {} /\ fault' = fault
    BY <1>5, StepDone DEF LifecycleInv
  <2> QED BY <1>1, <1>2, <1>5, <2>1, TakenBack
<1> QED BY <1>4, <1>5 DEF InitializeBusiness

\* The steps of the loop find what they use, but for the handler of SIGHUP.
LEMMA RoundKeeps == LifecycleInv /\ Loop => LifecycleInv'
<1> SUFFICES ASSUME LifecycleInv, Loop PROVE LifecycleInv'
  OBVIOUS
<1>1. /\ stage \in Serving \ {"finalize_business"}
      /\ UNCHANGED <<build, config, exits, business>> /\ pending' \subseteq pending
  BY DEF Loop, HandleSignal, HandleNothing, PollAndProcess, CheckAndExecute, RunPrivateBusiness,
         At, Serving
<1>2. /\ stage \in Running \ {"prepare_prerequisites"} /\ stage \in Networked
      /\ stage \notin Starting
  BY <1>1 DEF Running, Starting, Networked, Serving
<1>3. pending' \subseteq SignalNames /\ business' \in {"none", "running", "finalised"}
  BY <1>1 DEF LifecycleInv, LifecycleTypeOK
<1>4. Log \subseteq held /\ Network \subseteq held /\ {"tasks", "extra_config"} \subseteq held
  BY <1>2, LogHeld, NetworkHeld DEF LifecycleInv, HeldByMain
<1>5. Serving \subseteq Running /\ Serving \intersect Starting = {}
  BY DEF Running, Starting, Networked, Serving
<1>6. ASSUME NEW to \in Serving, NEW uses, uses \subseteq held, Step(to, uses, {}, {})
      PROVE  LifecycleInv'
  BY <1>1, <1>2, <1>3, <1>5, <1>6, GoesOn
<1>7. ASSUME NEW signal \in SignalNames, HandleSignal(signal) PROVE LifecycleInv'
  <2> DEFINE to == IF signal = "SIGTERM" THEN "finalize_business" ELSE "handle_all"
  <2>1. /\ stage = "handle_all" /\ Step(to, UsedBy(signal), {}, {})
        /\ UNCHANGED <<build, config, exits, business>>
    BY <1>7 DEF HandleSignal, At
  <2>2. to \in Serving
    BY DEF Serving
  <2>3. CASE signal # "SIGHUP"
    <3>1. UsedBy(signal) \subseteq held
      BY <2>3, <1>4 DEF UsedBy, SignalNames
    <3> QED BY <2>1, <2>2, <3>1, <1>6
  <2>4. CASE signal = "SIGHUP"
    <3>1. "config_file" \notin held
      BY <1>2 DEF LifecycleInv, DeletedAtExit
    <3>2. (UsedBy(signal) \ (held \intersect alive)) \union (({} \intersect held) \ alive)
            = {"config_file"}
      BY <2>4, <3>1, <1>4 DEF LifecycleInv, PointersHold, UsedBy
    <3>3. /\ stage' = "crashed" /\ fault' = [at |-> "handle_all", of |-> {"config_file"}]
          /\ held' = held \ {} /\ alive' = alive \ {}
      BY <2>1, <3>2 DEF Step
    <3>4. UsedWhileThere' /\ fault'.of \subseteq Objects
      BY <3>3 DEF UsedWhileThere, Objects
    <3> QED BY <1>1, <1>2, <1>3, <3>3, <3>4, Crashes
  <2> QED BY <2>3, <2>4
<1>8. CASE HandleNothing
  <2>1. Step("poll_and_process", {}, {}, {})
    BY <1>8 DEF HandleNothing
  <2> QED BY <2>1, <1>6 DEF Serving
<1>9. CASE PollAndProcess
  <2> DEFINE polled == (IF build.accepts THEN {"server_listener"} ELSE {}) \union
                       (IF build.upstream THEN {"client_requester"} ELSE {})
  <2>1. Step("check_and_execute", polled, {}, {}) \/ Step("finalize_business", polled, {}, {})
    BY <1>9 DEF PollAndProcess
  <2>2. polled \subseteq held
    BY <1>4 DEF Network
  <2> HIDE DEF polled
  <2> QED BY <2>1, <2>2, <1>6 DEF Serving
<1>10. CASE CheckAndExecute
  <2>1. Step("run_private_business", {"tasks"} \union Network, {}, {})
    BY <1>10 DEF CheckAndExecute
  <2> QED BY <2>1, <1>4, <1>6 DEF Serving
<1>11. CASE RunPrivateBusiness
  <2>1. \E to \in {"handle_all", "finalize_business"} : Step(to, {}, {}, {})
    BY <1>11 DEF RunPrivateBusiness
  <2> QED BY <2>1, <1>6 DEF Serving
<1> QED BY <1>7, <1>8, <1>9, <1>10, <1>11 DEF Loop

LEMMA EndOfBusinessKeeps ==
  LifecycleInv /\ (FinalizeBusiness \/ ReleaseResources) => LifecycleInv'
<1> SUFFICES ASSUME LifecycleInv, FinalizeBusiness \/ ReleaseResources PROVE LifecycleInv'
  OBVIOUS
<1>1. CASE FinalizeBusiness
  <2>1. /\ stage = "finalize_business" /\ business' = "finalised"
        /\ UNCHANGED <<build, config, exits, pending>> /\ Step("release_resources", Log, {}, {})
    BY <1>1 DEF FinalizeBusiness, At
  <2>2. /\ stage \in Running \ {"prepare_prerequisites"} /\ stage \in Networked
        /\ stage \notin Starting
        /\ "release_resources" \in Running /\ "release_resources" \notin Starting
    BY <2>1 DEF Running, Starting, Networked, Serving
  <2>3. pending' \subseteq SignalNames
    BY <2>1 DEF LifecycleInv, LifecycleTypeOK
  <2> QED BY <2>1, <2>2, <2>3, LogHeld, GoesOn
<1>2. CASE ReleaseResources
  <2>1. /\ stage = "release_resources" /\ Step("exit", {}, {}, Cleared)
        /\ UNCHANGED <<build, config, exits, pending, business>>
    BY <1>2 DEF ReleaseResources, At
  <2>2. stage \in Running \ Serving
    BY <2>1 DEF Running, Starting, Networked, Serving
  <2>3. /\ stage' = "exit" /\ held' = (held \ Cleared) \union {}
        /\ alive' = (alive \ (Cleared \intersect held)) \union {} /\ fault' = fault
    BY <2>1, StepDone DEF LifecycleInv
  <2> QED BY <2>1, <2>2, <2>3, TakenBack
<1> QED BY <1>1, <1>2

\* exit() takes the last of the functions.
LEMMA FrontOfExits ==
  ASSUME ExitsInOrder, exits # <<>>
  PROVE  /\ Len(exits) \in 1 .. 5 /\ Last(exits) = Registrations[Len(exits)]
         /\ Len(Front(exits)) = Len(exits) - 1
         /\ Front(exits) \in Seq({"config_manager", "resource_manager", "timed_task_scheduler",
                                  "main_app", "clear_logger"})
         /\ \A i \in 1 .. Len(exits) - 1 : Front(exits)[i] = Registrations[i]
<1> DEFINE F == {"config_manager", "resource_manager", "timed_task_scheduler", "main_app",
                 "clear_logger"}
<1>1. /\ exits \in Seq(F) /\ Len(exits) <= 5
      /\ \A i \in 1 .. Len(exits) : exits[i] = Registrations[i]
  BY DEF ExitsInOrder
<1> HIDE DEF F
<1>2. Len(exits) \in 1 .. 5 /\ \A i \in 1 .. Len(exits) : exits[i] \in F
  <2>1. Len(exits) \in Nat /\ Len(exits) # 0
    BY <1>1, EmptySeq, LenProperties
  <2>2. \A i \in 1 .. Len(exits) : exits[i] \in F
    BY <1>1, ElementOfSeq
  <2>3. Len(exits) <= 5
    BY <1>1
  <2>4. Len(exits) \in 1 .. 5
    <3>1. \A k \in Nat : k # 0 /\ k <= 5 => k \in 1 .. 5
      OBVIOUS
    <3> QED BY <2>1, <2>3, <3>1, Zenon
  <2> QED BY <2>2, <2>4
<1>3. /\ SubSeq(exits, 1, Len(exits) - 1) \in Seq(F)
      /\ Len(SubSeq(exits, 1, Len(exits) - 1)) = Len(exits) - 1
      /\ \A i \in 1 .. Len(exits) - 1 : SubSeq(exits, 1, Len(exits) - 1)[i] = exits[i]
  <2>1. Len(exits) - 1 \in 0 .. 4
    BY <1>2
  <2>2. ASSUME NEW k \in 0 .. 4, k = Len(exits) - 1
        PROVE  /\ SubSeq(exits, 1, k) \in Seq(F) /\ Len(SubSeq(exits, 1, k)) = k
               /\ \A i \in 1 .. k : SubSeq(exits, 1, k)[i] = exits[i]
    <3>1. \A i \in 1 .. k : exits[i] \in F
      BY <1>2, <2>2
    <3>2. /\ SubSeq(exits, 1, k) \in Seq(F)
          /\ Len(SubSeq(exits, 1, k)) = IF 1 <= k THEN k - 1 + 1 ELSE 0
          /\ \A i \in 1 .. k - 1 + 1 : SubSeq(exits, 1, k)[i] = exits[1 + i - 1]
      BY <3>1, SubSeqProperties
    <3> QED BY <3>2
  <2> QED BY <2>1, <2>2
<1>4. Last(exits) = Registrations[Len(exits)]
  BY <1>1, <1>2 DEF Last
<1> QED BY <1>1, <1>2, <1>3, <1>4 DEF Front, F

\* Each function deletes what it is there for; the logger is there when the
\* destructor of config_manager asks for it.
LEMMA ExitFunctionKeeps == LifecycleInv /\ ExitFunction => LifecycleInv'
<1> SUFFICES ASSUME LifecycleInv, ExitFunction PROVE LifecycleInv'
  OBVIOUS
<1> DEFINE n == Len(exits)
           f == Last(exits)
           gone == ExitDeletes(f)
<1>1. /\ stage = "exit" /\ exits # <<>> /\ Step("exit", ExitUses(f), {}, gone)
      /\ exits' = Front(exits) /\ UNCHANGED <<build, config, pending, business>>
  BY DEF ExitFunction, At
<1>2. ExitUses(f) \subseteq held
  BY <1>1 DEF LifecycleInv, DeletedAtExit, ExitUses, Log
<1>3. /\ stage' = "exit" /\ held' = (held \ gone) \union {}
      /\ alive' = (alive \ (gone \intersect held)) \union {} /\ fault' = fault
  BY <1>1, <1>2, StepDone DEF LifecycleInv
<1>4. /\ n \in 1 .. 5 /\ f = Registrations[n] /\ Len(exits') = n - 1
      /\ exits' \in Seq({"config_manager", "resource_manager", "timed_task_scheduler", "main_app",
                         "clear_logger"})
      /\ \A i \in 1 .. n - 1 : exits'[i] = Registrations[i]
  BY <1>1, FrontOfExits DEF LifecycleInv
<1>5. /\ n = 5 => f = "clear_logger"
      /\ n \in {2, 4} => f \in {"main_app", "resource_manager"}
      /\ n = 3 => f = "timed_task_scheduler"
      /\ n = 1 => f = "config_manager"
  <2>1. f = Registrations[n] /\ n \in 1 .. 5
    BY <1>4
  <2> HIDE DEF n, f
  <2> QED BY <2>1 DEF Registrations
<1>6. /\ n = 5 => gone = {"screen_logger", "file_logger"}
      /\ n \in {2, 4} => gone = Cleared
      /\ n = 3 => gone = {"tasks"}
      /\ n = 1 => gone = {"config_file", "extra_config"}
  BY <1>5 DEF ExitDeletes
<1> HIDE DEF f, gone
<1>7. ExitsInOrder'
  <2>1. Len(exits') <= 5
    <3>1. n \in 1 .. 5 /\ Len(exits') = n - 1
      BY <1>4
    <3> HIDE DEF n
    <3> QED BY <3>1
  <2>2. \A i \in 1 .. Len(exits') : exits'[i] = Registrations[i]
    BY <1>4
  <2>3. stage' \notin Starting /\ stage' \notin Running /\ stage' # "gone"
    BY <1>3 DEF Starting, Running, Networked, Serving
  <2> QED BY <1>4, <2>1, <2>2, <2>3 DEF ExitsInOrder
<1>8. LifecycleTypeOK'
  <2>1. held' \subseteq Objects /\ alive' \subseteq Objects
    BY <1>3 DEF LifecycleInv, LifecycleTypeOK
  <2> QED BY <1>1, <1>3, <1>7, <2>1, TypesKept DEF LifecycleInv, LifecycleTypeOK
<1>9. PointersHold' /\ UsedWhileThere'
  BY <1>3 DEF LifecycleInv, PointersHold, UsedWhileThere
<1>10. HeldByMain'
  BY <1>3 DEF HeldByMain, Running, Starting, Networked, Serving
<1>11. DeletedAtExit'
  <2>1. held' \subseteq held /\ held' = held \ gone
    BY <1>3
  <2>2. "file_logger" \in held' => Len(exits') = 5
    BY <1>4, <1>6, <2>1 DEF LifecycleInv, DeletedAtExit
  <2>3. "config_file" \in held' => Len(exits') <= 4 /\ "screen_logger" \in held'
    <3>1. "config_file" \in held' => "config_file" \in held /\ n <= 4 /\ "screen_logger" \in held
      BY <1>1, <2>1 DEF LifecycleInv, DeletedAtExit
    <3>2. "screen_logger" \notin Cleared
      BY DEF Cleared, Network
    <3> QED BY <3>1, <3>2, <2>1, <1>4, <1>6
  <2>4. /\ Network \intersect held' # {} => "resource" \in held'
        /\ Len(exits') <= 3 => "resource" \notin held'
    <3>1. n \in {2, 4} => "resource" \notin held' /\ Network \intersect held' = {}
      BY <2>1, <1>6 DEF LifecycleInv, DeletedAtExit, Cleared
    <3>2. n \notin {2, 4} => Network \intersect gone = {} /\ "resource" \notin gone
      BY <1>4, <1>6 DEF Network
    <3> QED BY <1>1, <1>4, <2>1, <3>1, <3>2 DEF LifecycleInv, DeletedAtExit, Ending
  <2>5. Len(exits') <= 2 => "tasks" \notin held'
    BY <1>1, <1>4, <1>6, <2>1 DEF LifecycleInv, DeletedAtExit, Ending
  <2>6. Len(exits') = 0 => held' \intersect {"config_file", "extra_config"} = {}
    BY <1>4, <1>6, <2>1
  <2> QED BY <1>3, <2>2, <2>3, <2>4, <2>5, <2>6
          DEF DeletedAtExit, Running, Starting, Networked, Serving
<1>12. BusinessServes'
  BY <1>1, <1>3 DEF LifecycleInv, BusinessServes, Serving
<1> QED BY <1>3, <1>7, <1>8, <1>9, <1>10, <1>11, <1>12 DEF LifecycleInv, Ending

LEMMA EndKeeps == LifecycleInv /\ End => LifecycleInv'
<1> SUFFICES ASSUME LifecycleInv, End PROVE LifecycleInv'
  OBVIOUS
<1>1. /\ stage = "exit" /\ exits = <<>> /\ stage' = "gone"
      /\ UNCHANGED <<build, config, held, alive, exits, pending, business, fault>>
  BY DEF End, At
<1>2. Len(exits) = 0
  BY <1>1
<1>3. ExitsInOrder'
  BY <1>1, <1>2 DEF LifecycleInv, ExitsInOrder, Starting, Running, Networked, Serving
<1>4. LifecycleTypeOK'
  BY <1>1, <1>3, TypesKept DEF LifecycleInv, LifecycleTypeOK
<1>5. PointersHold' /\ UsedWhileThere' /\ HeldByMain'
  BY <1>1
  DEF LifecycleInv, PointersHold, UsedWhileThere, HeldByMain, Starting, Running, Networked,
      Serving
<1>6. DeletedAtExit'
  BY <1>1, <1>2 DEF LifecycleInv, DeletedAtExit, Starting, Running, Networked, Serving, Ending
<1>7. BusinessServes'
  BY <1>1 DEF LifecycleInv, BusinessServes, Serving
<1> QED BY <1>1, <1>3, <1>4, <1>5, <1>6, <1>7 DEF LifecycleInv, Ending

\* Signals that arrive wait; a step of nothing changes nothing.
LEMMA WaitingKeeps ==
  ASSUME LifecycleInv, UNCHANGED <<build, config, stage, held, alive, exits, business, fault>>,
         pending' \subseteq SignalNames
  PROVE  LifecycleInv'
BY DEF LifecycleInv, LifecycleTypeOK, UsedWhileThere, PointersHold, ExitsInOrder, HeldByMain,
       DeletedAtExit, BusinessServes

LEMMA LifecycleNextHolds == LifecycleInv /\ [LifecycleNext]_lifecycle_vars => LifecycleInv'
<1> SUFFICES ASSUME LifecycleInv, [LifecycleNext]_lifecycle_vars PROVE LifecycleInv'
  OBVIOUS
<1>1. CASE Start
  BY <1>1, PreparePrerequisitesKeeps, ParseCommandLineKeeps, LoadFailsKeeps,
     LoadConfigurationsKeeps, InitLoggerFailsKeeps, InitLoggerKeeps, PrepareNetworkKeeps,
     PrepareExtraResourceKeeps, FailuresKeep, RegistrationsKeep, InitializeBusinessKeeps DEF Start
<1>2. CASE Finish
  BY <1>2, EndOfBusinessKeeps, ExitFunctionKeeps, EndKeeps DEF Finish
<1>3. ASSUME NEW s \in SignalNames, SignalArrives(s) PROVE LifecycleInv'
  <2>1. /\ pending' = pending \union {s}
        /\ UNCHANGED <<build, config, stage, held, alive, exits, business, fault>>
    BY <1>3 DEF SignalArrives
  <2> QED BY <2>1, WaitingKeeps DEF LifecycleInv, LifecycleTypeOK
<1>4. CASE UNCHANGED lifecycle_vars
  BY <1>4, WaitingKeeps DEF LifecycleInv, LifecycleTypeOK, lifecycle_vars
<1> QED BY <1>1, <1>2, <1>3, <1>4, RoundKeeps DEF LifecycleNext
-----------------------------------------------------------------------------
\* The invariant holds in every state.
THEOREM LifecycleInvariance == LifecycleSpec => []LifecycleInv
BY LifecycleInitHolds, LifecycleNextHolds, PTL DEF LifecycleSpec

\* The variables are well-formed for any builds and configurations.
THEOREM LifecycleTypeCorrect == LifecycleSpec => []LifecycleTypeOK
<1>1. LifecycleInv => LifecycleTypeOK
  BY DEF LifecycleInv
<1> QED BY <1>1, LifecycleInvariance, PTL

\* main(), the loop, the default handlers and the exit functions find what they use
\* but for three places, whatever fails in the start and whatever signals come.
THEOREM UsesAreSafe == LifecycleSpec => []UsedWhileThere
<1>1. LifecycleInv => UsedWhileThere
  BY DEF LifecycleInv
<1> QED BY <1>1, LifecycleInvariance, PTL

\* The exit functions take back all that main() had made when it ended, however far
\* it had come.
THEOREM AllIsTakenBack == LifecycleSpec => []NothingLeft
<1>1. LifecycleInv => NothingLeft
  <2> SUFFICES ASSUME LifecycleInv, stage = "gone"
               PROVE  alive \subseteq {"screen_logger", "extra_resource"}
    BY DEF NothingLeft
  <2>1. Len(exits) = 0
    BY DEF LifecycleInv, ExitsInOrder
  <2>2. held \intersect {"file_logger", "resource", "tasks", "config_file", "extra_config"} = {}
    BY <2>1 DEF LifecycleInv, DeletedAtExit, Ending
  <2>3. Network \intersect held = {}
    BY <2>2 DEF LifecycleInv, DeletedAtExit
  <2>4. held \subseteq {"screen_logger", "extra_resource"}
    BY <2>2, <2>3 DEF LifecycleInv, LifecycleTypeOK, Objects
  <2> QED BY <2>4 DEF LifecycleInv, PointersHold
<1> QED BY <1>1, LifecycleInvariance, PTL

\* The network is there as long as the business runs, and a program that ends by
\* itself has finalised the business it had initialised.
THEOREM BusinessIsFinalised == LifecycleSpec => []BusinessEndsFirst
<1>1. LifecycleInv => BusinessEndsFirst
  BY DEF LifecycleInv, BusinessServes, PointersHold, BusinessEndsFirst, Serving
<1> QED BY <1>1, LifecycleInvariance, PTL
-----------------------------------------------------------------------------
\* The command line

\* What the counts are before the check at the end: no option has more values than
\* it may, and the one that values go to is given.
CountsOfEntry(e) ==
  IF e.specified THEN e.fixed => Len(e.values) <= e.least
  ELSE e.values = Default(e.defaults) \/ (was_reset /\ e.values = <<>>)

CountsSoFar ==
  ~Confused =>
    /\ \A o \in DOMAIN entries : CountsOfEntry(entries[o])
    /\ option \in DOMAIN entries /\ ret = "parsing" => entries[option].specified

CommandLineInv ==
  /\ CommandLineTypeOK /\ "" \notin DOMAIN entries
  /\ CountsSoFar /\ (ret = "OK" => ~Insufficient(entries))
-----------------------------------------------------------------------------
\* The fields of an entry.
LEMMA EntryFields ==
  ASSUME CommandLineTypeOK, NEW o \in DOMAIN entries
  PROVE  /\ entries[o] \in OptionEntries /\ entries[o].least \in Nat /\ entries[o].fixed \in BOOLEAN
         /\ entries[o].specified \in BOOLEAN /\ entries[o].values \in Seq(Nat \X Nat)
         /\ Len(entries[o].values) \in Nat
<1>1. entries[o] \in OptionEntries
  BY DEF CommandLineTypeOK
<1>2. entries[o].values \in Seq(Nat \X Nat)
  BY <1>1 DEF OptionEntries
<1> QED BY <1>1, <1>2, LenProperties DEF OptionEntries

\* A name to an entry, or to another name, of options known before stays.
LEMMA StaysConfused ==
  ASSUME Confused, DOMAIN names \subseteq DOMAIN names', DOMAIN entries \subseteq DOMAIN entries',
         \A n \in DOMAIN names : names'[n] = names[n]
  PROVE  Confused'
BY DEF Confused

LEMMA DefaultValues ==
  ASSUME NEW n \in Nat
  PROVE  Default(n) \in Seq(Nat \X Nat)
BY DEF Default

LEMMA CommandLineInitHolds == CommandLineInit => CommandLineInv
<1> SUFFICES ASSUME CommandLineInit PROVE CommandLineInv
  OBVIOUS
<1>1. /\ DOMAIN names = {} /\ DOMAIN entries = {} /\ singles = <<>> /\ line = <<>>
      /\ ret = "none" /\ piece = 0 /\ has_parsed = FALSE /\ was_reset = FALSE
  BY DEF CommandLineInit, Empty
<1>2. names \in [DOMAIN names -> DOMAIN entries] /\ entries \in [DOMAIN entries -> OptionEntries]
  BY <1>1 DEF CommandLineInit, Empty
<1>3. singles \in Seq(Nat \X Nat) /\ line \in Seq(Words) /\ Len(line) <= MaxWords
  <2>1. MaxWords \in Nat
    BY CommandLineAssumption
  <2>2. <<>> \in Seq(Nat \X Nat) /\ <<>> \in Seq(Words) /\ Len(<<>>) = 0
    BY EmptySeq
  <2> QED BY <1>1, <2>1, <2>2
<1> QED BY <1>1, <1>2, <1>3 DEF CommandLineInv, CommandLineTypeOK, CountsSoFar

\* An option is learned before the parse, with its default values.
LEMMA LearnKeeps ==
  ASSUME CommandLineInv, NEW o \in Options, NEW fixed \in BOOLEAN,
         ~has_parsed, CanLearn(o, names, entries),
         names' = Inserted(names, o.long, o.short),
         entries' = Inserted(entries, o.short, Entry(o, fixed)),
         UNCHANGED <<singles, has_parsed, line, piece, option, ret, was_reset>>
  PROVE  CommandLineInv'
<1>1. /\ DOMAIN names' = DOMAIN names \union {o.long} /\ DOMAIN entries' = DOMAIN entries \union {o.short}
      /\ names' = [n \in DOMAIN names' |-> IF n = o.long THEN o.short ELSE names[n]]
      /\ entries' = [s \in DOMAIN entries' |-> IF s = o.short THEN Entry(o, fixed) ELSE entries[s]]
  BY DEF CanLearn, Inserted
<1>2. Entry(o, fixed) \in OptionEntries /\ CountsOfEntry(Entry(o, fixed))
  <2>1. o.least \in Nat /\ o.defaults \in Nat
    BY CommandLineAssumption
  <2> QED BY <2>1, DefaultValues DEF Entry, OptionEntries, CountsOfEntry
<1>3. /\ names' \in [DOMAIN names' -> DOMAIN entries']
      /\ entries' \in [DOMAIN entries' -> OptionEntries]
  <2>1. /\ \A n \in DOMAIN names : names[n] \in DOMAIN entries
        /\ \A s \in DOMAIN entries : entries[s] \in OptionEntries
    BY DEF CommandLineInv, CommandLineTypeOK
  <2>2. \A n \in DOMAIN names' : names'[n] \in DOMAIN entries'
    BY <1>1, <2>1
  <2>3. \A s \in DOMAIN entries' : entries'[s] \in OptionEntries
    BY <1>1, <1>2, <2>1
  <2>4. names' = [n \in DOMAIN names' |-> names'[n]] /\ entries' = [s \in DOMAIN entries' |-> entries'[s]]
    BY <1>1, Zenon
  <2> QED BY <2>2, <2>3, <2>4
<1>4. ret = "none"
  BY DEF CommandLineInv, CommandLineTypeOK
<1>5. CommandLineTypeOK'
  BY <1>3 DEF CommandLineInv, CommandLineTypeOK
<1>6. CountsSoFar'
  <2> SUFFICES ASSUME ~Confused', NEW s \in DOMAIN entries' PROVE CountsOfEntry(entries[s])'
    BY <1>4 DEF CountsSoFar
  <2>1. ~Confused
    BY <1>1, StaysConfused DEF CanLearn
  <2>2. CASE s = o.short
    BY <2>2, <1>1, <1>2 DEF CountsOfEntry
  <2>3. CASE s # o.short
    BY <2>3, <2>1, <1>1 DEF CommandLineInv, CountsSoFar, CountsOfEntry
  <2> QED BY <2>2, <2>3
<1>7. "" \notin DOMAIN entries'
  BY <1>1, CommandLineAssumption DEF CommandLineInv
<1> QED BY <1>4, <1>5, <1>6, <1>7 DEF CommandLineInv

\* A step that changes at most one entry: what it has to show.
LEMMA EntryChanged ==
  ASSUME CommandLineInv, NEW f \in DOMAIN entries, NEW e \in OptionEntries,
         entries' = [entries EXCEPT ![f] = e], ~Confused => CountsOfEntry(e),
         UNCHANGED <<names, singles, has_parsed, was_reset>>,
         ret = "parsing", ret' = "parsing", piece' \in Nat,
         line' \in Seq(Words), Len(line') <= MaxWords,
         ~Confused /\ option' \in DOMAIN entries => entries'[option'].specified
  PROVE  CommandLineInv'
<1>1. /\ DOMAIN entries' = DOMAIN entries /\ entries'[f] = e
      /\ \A o \in DOMAIN entries : o # f => entries'[o] = entries[o]
  OBVIOUS
<1>2. CommandLineTypeOK'
  <2>1. entries' \in [DOMAIN entries' -> OptionEntries]
    BY <1>1 DEF CommandLineInv, CommandLineTypeOK
  <2> QED BY <1>1, <2>1 DEF CommandLineInv, CommandLineTypeOK
<1>3. Confused' <=> Confused
  BY <1>1 DEF Confused
<1>4. CountsSoFar'
  <2> SUFFICES ASSUME ~Confused, NEW o \in DOMAIN entries PROVE CountsOfEntry(entries[o])'
    BY <1>1, <1>3 DEF CountsSoFar
  <2>1. CASE o = f
    BY <2>1, <1>1 DEF CountsOfEntry
  <2>2. CASE o # f
    BY <2>2, <1>1 DEF CommandLineInv, CountsSoFar, CountsOfEntry
  <2> QED BY <2>1, <2>2
<1> QED BY <1>1, <1>2, <1>4 DEF CommandLineInv

\* A step of parse() that leaves the entries alone.
LEMMA EntriesUnchanged ==
  ASSUME CommandLineInv, UNCHANGED <<names, entries, has_parsed, was_reset>>,
         singles' \in Seq(Nat \X Nat), ret = "parsing",
         ret' \in {"parsing", "UNKNOWN_CMD_LINE_OPTION", "INVALID_CMD_LINE_FORMAT"},
         piece' \in Nat, line' \in Seq(Words), Len(line') <= MaxWords,
         option' \in {option, ""}
  PROVE  CommandLineInv'
<1>1. CommandLineTypeOK'
  BY DEF CommandLineInv, CommandLineTypeOK
<1>2. CountsSoFar'
  <2>1. Confused' <=> Confused
    BY DEF Confused
  <2> QED BY <2>1 DEF CommandLineInv, CountsSoFar, CountsOfEntry
<1> QED BY <1>1, <1>2 DEF CommandLineInv

\* An option that is given takes values from now on.
LEMMA SpecifyKeeps ==
  ASSUME CommandLineInv, NEW name, Found(name) \in DOMAIN entries, Specify(name),
         UNCHANGED <<names, has_parsed, was_reset>>,
         ret = "parsing", piece' \in Nat, line' \in Seq(Words), Len(line') <= MaxWords
  PROVE  CommandLineInv'
<1> DEFINE f == Found(name)
           e == [entries[f] EXCEPT !.specified = TRUE,
                                   !.values = IF entries[f].specified THEN @ ELSE <<>>]
<1>1. entries' = [entries EXCEPT ![f] = e] /\ option' = name /\ UNCHANGED <<singles, ret>>
  BY DEF Specify
<1>2. /\ entries[f] \in OptionEntries /\ entries[f].least \in Nat
      /\ entries[f].values \in Seq(Nat \X Nat)
  BY EntryFields DEF CommandLineInv
<1>3. e \in OptionEntries
  BY <1>2, EmptySeq DEF OptionEntries
<1>4. ~Confused => CountsOfEntry(e)
  <2>1. entries[f].specified /\ ~Confused => CountsOfEntry(entries[f])
    BY DEF CommandLineInv, CountsSoFar
  <2>2. CASE entries[f].specified
    BY <2>1, <2>2, <1>2 DEF CountsOfEntry, OptionEntries
  <2>3. CASE ~entries[f].specified
    <3>1. e.values = <<>> /\ e.least \in Nat /\ e.specified
      BY <2>3, <1>2 DEF OptionEntries
    <3> HIDE DEF e
    <3> QED BY <3>1 DEF CountsOfEntry
  <2> QED BY <2>2, <2>3
<1>5. ~Confused /\ option' \in DOMAIN entries => entries'[option'].specified
  <2> SUFFICES ASSUME ~Confused, name \in DOMAIN entries PROVE entries'[name].specified
    BY <1>1
  <2>1. f = name
    BY DEF Confused, Found
  <2>2. entries'[f] = e /\ e.specified
    BY <1>1, <1>2 DEF OptionEntries
  <2> QED BY <2>1, <2>2
<1> HIDE DEF e, f
<1>6. f \in DOMAIN entries
  BY DEF f
<1> QED BY <1>1, <1>3, <1>4, <1>5, <1>6, EntryChanged

\* A value goes to an option that wants one more.
LEMMA TakeKeeps ==
  ASSUME CommandLineInv, option \in DOMAIN entries, ~Full(entries[option]),
         NEW value \in Nat \X Nat, Take(value), UNCHANGED <<names, has_parsed, was_reset>>,
         ret = "parsing", piece' \in Nat, line' \in Seq(Words), Len(line') <= MaxWords
  PROVE  CommandLineInv'
<1> DEFINE e == [entries[option] EXCEPT !.values = Append(@, value)]
<1>1. entries' = [entries EXCEPT ![option] = e] /\ UNCHANGED <<singles, option, ret>>
  BY DEF Take
<1>2. /\ entries[option] \in OptionEntries /\ entries[option].least \in Nat
      /\ entries[option].fixed \in BOOLEAN
      /\ entries[option].values \in Seq(Nat \X Nat) /\ Len(entries[option].values) \in Nat
  BY EntryFields DEF CommandLineInv
<1>3. /\ Append(entries[option].values, value) \in Seq(Nat \X Nat)
      /\ Len(Append(entries[option].values, value)) = Len(entries[option].values) + 1
  BY <1>2, AppendProperties
<1>4. /\ e \in OptionEntries /\ e.values = Append(entries[option].values, value)
      /\ e.specified = entries[option].specified
      /\ e.fixed = entries[option].fixed /\ e.least = entries[option].least
  BY <1>2, <1>3 DEF OptionEntries
<1>5. entries'[option] = e
  BY <1>1
<1> HIDE DEF e
<1>6. ~Confused => entries[option].specified
  BY DEF CommandLineInv, CountsSoFar
<1>7. ~Confused => CountsOfEntry(e)
  <2>1. e.fixed => Len(e.values) <= e.least
    BY <1>2, <1>3, <1>4 DEF Full
  <2> QED BY <1>4, <1>6, <2>1 DEF CountsOfEntry
<1>8. ~Confused /\ option' \in DOMAIN entries => entries'[option'].specified
  BY <1>1, <1>4, <1>5, <1>6
<1> QED BY <1>1, <1>4, <1>7, <1>8, EntryChanged

\* The next word joins those treated.
LEMMA TakesWord ==
  ASSUME CommandLineInv, NEW kind, NEW w \in Words, Takes(kind, w)
  PROVE  /\ ret = "parsing" /\ w.kind = kind /\ UNCHANGED <<names, has_parsed, was_reset>>
         /\ line' \in Seq(Words) /\ Len(line') = Len(line) + 1 /\ Len(line') \in Nat
         /\ Len(line') <= MaxWords
<1>1. line \in Seq(Words) /\ Len(line) \in Nat
  BY LenProperties DEF CommandLineInv, CommandLineTypeOK
<1>2. line' = Append(line, w)
  BY DEF Takes
<1>3. line' \in Seq(Words) /\ Len(line') = Len(line) + 1
  BY <1>1, <1>2, AppendProperties
<1>4. MaxWords \in Nat
  BY CommandLineAssumption
<1> QED BY <1>1, <1>3, <1>4 DEF Takes

\* A step within the last word leaves the line as it is.
LEMMA WithinWord ==
  ASSUME CommandLineInv, NEW kind, Within(kind)
  PROVE  /\ ret = "parsing" /\ UNCHANGED <<names, has_parsed, was_reset, line>>
         /\ line' \in Seq(Words) /\ Len(line') <= MaxWords /\ Len(line) \in Nat
         /\ piece \in Nat
BY LenProperties DEF CommandLineInv, CommandLineTypeOK, Within

LEMMA SinglesAppended ==
  ASSUME CommandLineInv, NEW value \in Nat \X Nat, singles' = Append(singles, value)
  PROVE  singles' \in Seq(Nat \X Nat)
BY AppendProperties DEF CommandLineInv, CommandLineTypeOK

LEMMA TakeValueKeeps ==
  ASSUME CommandLineInv, NEW w \in Words, TakeValue(w)
  PROVE  CommandLineInv'
<1>1. /\ ret = "parsing" /\ UNCHANGED <<names, has_parsed, was_reset>>
      /\ line' \in Seq(Words) /\ Len(line') \in Nat /\ Len(line') <= MaxWords /\ piece' = 0
  BY TakesWord DEF TakeValue
<1> DEFINE value == <<Len(line'), 0>>
<1>2. value \in Nat \X Nat /\ AddValue(value)
  BY <1>1 DEF TakeValue
<1> HIDE DEF value
<1>3. CASE option = "" /\ Single(value) /\ UNCHANGED option
  BY <1>1, <1>2, <1>3, SinglesAppended, EntriesUnchanged DEF Single
<1>4. CASE Returns("UNKNOWN_CMD_LINE_OPTION")
  <2>1. singles \in Seq(Nat \X Nat)
    BY DEF CommandLineInv, CommandLineTypeOK
  <2>2. /\ ret' = "UNKNOWN_CMD_LINE_OPTION" /\ piece' \in Nat
        /\ UNCHANGED <<names, entries, has_parsed, was_reset, singles, option>>
    BY <1>1, <1>4 DEF Returns
  <2> QED BY <1>1, <2>1, <2>2, EntriesUnchanged
<1>5. CASE Single(value) /\ option' = ""
  BY <1>1, <1>2, <1>5, SinglesAppended, EntriesUnchanged DEF Single
<1>6. CASE option \in DOMAIN entries /\ ~Full(entries[option]) /\ Take(value)
  BY <1>1, <1>2, <1>6, TakeKeeps
<1> QED BY <1>2, <1>3, <1>4, <1>5, <1>6 DEF AddValue

LEMMA TakeOthersKeep ==
  ASSUME CommandLineInv, NEW w \in Words, TakeDashes(w) \/ TakeMalformed(w) \/ TakeCluster(w)
  PROVE  CommandLineInv'
<1>1. singles \in Seq(Nat \X Nat) /\ piece \in Nat
  BY DEF CommandLineInv, CommandLineTypeOK
<1>2. CASE TakeDashes(w)
  BY <1>1, <1>2, TakesWord, EntriesUnchanged DEF TakeDashes
<1>3. CASE TakeMalformed(w)
  BY <1>1, <1>3, TakesWord, EntriesUnchanged DEF TakeMalformed, Returns
<1>4. CASE TakeCluster(w)
  BY <1>1, <1>4, TakesWord, EntriesUnchanged DEF TakeCluster
<1> QED BY <1>2, <1>3, <1>4

LEMMA TakeLongKeeps ==
  ASSUME CommandLineInv, NEW w \in Words, TakeLong(w)
  PROVE  CommandLineInv'
<1>1. /\ ret = "parsing" /\ UNCHANGED <<names, has_parsed, was_reset>>
      /\ line' \in Seq(Words) /\ Len(line') <= MaxWords
  BY TakesWord DEF TakeLong
<1>2. CASE w.name \in DOMAIN names /\ Found(names[w.name]) \in DOMAIN entries
  <2>1. Specify(names[w.name]) /\ piece' \in Nat
    BY <1>2 DEF TakeLong
  <2> QED BY <1>1, <1>2, <2>1, SpecifyKeeps
<1>3. CASE ~(w.name \in DOMAIN names /\ Found(names[w.name]) \in DOMAIN entries)
  <2>1. Returns("UNKNOWN_CMD_LINE_OPTION")
    BY <1>3 DEF TakeLong
  <2> QED BY <1>1, <2>1, EntriesUnchanged DEF Returns, CommandLineInv, CommandLineTypeOK
<1> QED BY <1>2, <1>3

LEMMA LetterKeeps == CommandLineInv /\ Letter => CommandLineInv'
<1> SUFFICES ASSUME CommandLineInv, Letter PROVE CommandLineInv'
  OBVIOUS
<1> DEFINE options == Last(line).options
<1>1. /\ ret = "parsing" /\ UNCHANGED <<names, has_parsed, was_reset, line>>
      /\ line' \in Seq(Words) /\ Len(line') <= MaxWords /\ piece \in Nat
  BY WithinWord DEF Letter
<1>2. CASE Found(options[piece]) \in DOMAIN entries
  <2>1. Specify(options[piece]) /\ Following(Len(options))
    BY <1>2 DEF Letter
  <2>2. piece' \in Nat
    BY <1>1, <2>1 DEF Following
  <2> QED BY <1>1, <1>2, <2>1, <2>2, SpecifyKeeps
<1>3. CASE Found(options[piece]) \notin DOMAIN entries
  <2>1. Returns("UNKNOWN_CMD_LINE_OPTION")
    BY <1>3 DEF Letter
  <2> QED BY <1>1, <2>1, EntriesUnchanged DEF Returns, CommandLineInv, CommandLineTypeOK
<1> QED BY <1>2, <1>3

LEMMA PartKeeps == CommandLineInv /\ Part => CommandLineInv'
<1> SUFFICES ASSUME CommandLineInv, Part PROVE CommandLineInv'
  OBVIOUS
<1>1. /\ ret = "parsing" /\ UNCHANGED <<names, has_parsed, was_reset, line>>
      /\ line' \in Seq(Words) /\ Len(line') <= MaxWords /\ piece \in Nat /\ Len(line) \in Nat
  BY WithinWord DEF Part
<1>2. piece' \in Nat
  BY <1>1 DEF Part, Following
<1>3. CASE option \in DOMAIN entries /\ ~Full(entries[option])
  <2>1. Take(<<Len(line), piece>>) /\ <<Len(line), piece>> \in Nat \X Nat
    BY <1>1, <1>3 DEF Part
  <2> QED BY <1>1, <1>2, <1>3, <2>1, TakeKeeps
<1>4. CASE ~(option \in DOMAIN entries /\ ~Full(entries[option]))
  <2>1. UNCHANGED <<entries, singles, option, ret>>
    BY <1>4 DEF Part
  <2> QED BY <1>1, <1>2, <2>1, EntriesUnchanged DEF CommandLineInv, CommandLineTypeOK
<1> QED BY <1>3, <1>4

\* No value has a place to go yet.
LEMMA BeginParseKeeps == CommandLineInv /\ BeginParse => CommandLineInv'
<1> SUFFICES ASSUME CommandLineInv, BeginParse PROVE CommandLineInv'
  OBVIOUS
<1>1. line' \in Seq(Words) /\ Len(line') <= MaxWords
  <2>1. MaxWords \in Nat /\ line' = <<>>
    BY CommandLineAssumption DEF BeginParse
  <2> QED BY <2>1, EmptySeq
<1>2. CommandLineTypeOK'
  BY <1>1 DEF BeginParse, CommandLineInv, CommandLineTypeOK
<1>3. CountsSoFar'
  BY DEF BeginParse, CommandLineInv, CountsSoFar, CountsOfEntry, Confused
<1> QED BY <1>2, <1>3 DEF BeginParse, CommandLineInv

LEMMA EndParseKeeps == CommandLineInv /\ EndParse => CommandLineInv'
<1> SUFFICES ASSUME CommandLineInv, EndParse PROVE CommandLineInv'
  OBVIOUS
<1>1. CommandLineTypeOK'
  BY DEF EndParse, CommandLineInv, CommandLineTypeOK
<1>2. CountsSoFar'
  BY DEF EndParse, CommandLineInv, CountsSoFar, CountsOfEntry, Confused
<1>3. ret' = "OK" => ~Insufficient(entries)'
  BY DEF EndParse, Insufficient
<1> QED BY <1>1, <1>2, <1>3 DEF EndParse, CommandLineInv

\* The entries have no values left, whether they were given or not.
LEMMA ResetKeeps == CommandLineInv /\ Reset => CommandLineInv'
<1> SUFFICES ASSUME CommandLineInv, Reset PROVE CommandLineInv'
  OBVIOUS
<1>1. /\ DOMAIN entries' = DOMAIN entries /\ names' = names /\ was_reset' = TRUE
      /\ entries' = [o \in DOMAIN entries |-> [entries[o] EXCEPT !.values = <<>>, !.specified = FALSE]]
  BY DEF Reset, Unspecified
<1>2. ASSUME NEW o \in DOMAIN entries
      PROVE  entries'[o] \in OptionEntries /\ entries'[o].values = <<>> /\ ~entries'[o].specified
  <2>1. entries[o] \in OptionEntries
    BY EntryFields DEF CommandLineInv
  <2>2. entries'[o] = [entries[o] EXCEPT !.values = <<>>, !.specified = FALSE]
    BY <1>1
  <2> QED BY <2>1, <2>2, EmptySeq DEF OptionEntries
<1>3. entries' \in [DOMAIN entries' -> OptionEntries]
  BY <1>1, <1>2
<1>4. /\ singles' = <<>> /\ line' = <<>> /\ ret' = "none" /\ has_parsed' = FALSE /\ piece' = piece
  BY DEF Reset
<1>5. singles' \in Seq(Nat \X Nat) /\ line' \in Seq(Words) /\ Len(line') <= MaxWords
  <2>1. MaxWords \in Nat
    BY CommandLineAssumption
  <2> QED BY <1>4, <2>1, EmptySeq
<1>6. CommandLineTypeOK'
  BY <1>1, <1>3, <1>4, <1>5 DEF CommandLineInv, CommandLineTypeOK
<1>7. CountsSoFar'
  BY <1>1, <1>2, <1>4 DEF CountsSoFar, CountsOfEntry
<1> QED BY <1>1, <1>4, <1>6, <1>7 DEF CommandLineInv

LEMMA CommandLineNextHolds ==
  CommandLineInv /\ [CommandLineNext]_commandline_vars => CommandLineInv'
<1> SUFFICES ASSUME CommandLineInv, [CommandLineNext]_commandline_vars PROVE CommandLineInv'
  OBVIOUS
<1>1. ASSUME NEW o \in Options, LearnOption(o) \/ LearnOptions(o) PROVE CommandLineInv'
  <2>1. o.fixed \in BOOLEAN /\ TRUE \in BOOLEAN
    BY CommandLineAssumption
  <2>2. CASE LearnOption(o)
    BY <2>1, <2>2, LearnKeeps DEF LearnOption
  <2>3. CASE LearnOptions(o)
    BY <2>1, <2>3, LearnKeeps DEF LearnOptions
  <2> QED BY <1>1, <2>2, <2>3
<1>2. ASSUME NEW w \in Words, \/ TakeValue(w) \/ TakeDashes(w) \/ TakeMalformed(w)
                              \/ TakeCluster(w) \/ TakeLong(w)
      PROVE  CommandLineInv'
  BY <1>2, TakeValueKeeps, TakeOthersKeep, TakeLongKeeps
<1>3. CASE UNCHANGED commandline_vars
  BY <1>3 DEF commandline_vars, CommandLineInv, CommandLineTypeOK, CountsSoFar, CountsOfEntry,
              Confused, Insufficient
<1> QED BY <1>1, <1>2, <1>3, LetterKeeps, PartKeeps, BeginParseKeeps, EndParseKeeps, ResetKeeps
        DEF CommandLineNext
-----------------------------------------------------------------------------
\* The invariant holds in every state.
THEOREM CommandLineInvariance == CommandLineSpec => []CommandLineInv
BY CommandLineInitHolds, CommandLineNextHolds, PTL DEF CommandLineSpec

\* The variables are well-formed for any options and any words.
THEOREM CommandLineTypeCorrect == CommandLineSpec => []CommandLineTypeOK
<1>1. CommandLineInv => CommandLineTypeOK
  BY DEF CommandLineInv
<1> QED BY <1>1, CommandLineInvariance, PTL

\* A parse that succeeded has given every option as many values as it wants, whatever
\* was learned and however the options are repeated, clustered and mixed with values.
THEOREM CountsHold == CommandLineSpec => []CountsAreKept
<1>1. CommandLineInv => CountsAreKept
  <2> SUFFICES ASSUME CommandLineInv, ret = "OK", ~Confused, NEW o \in DOMAIN entries
               PROVE  IF entries[o].specified
                      THEN /\ Len(entries[o].values) >= entries[o].least
                           /\ entries[o].fixed => Len(entries[o].values) = entries[o].least
                      ELSE \/ entries[o].values = Default(entries[o].defaults)
                           \/ was_reset /\ entries[o].values = <<>>
    BY DEF CountsAreKept
  <2>1. entries[o].least \in Nat /\ Len(entries[o].values) \in Nat
    BY EntryFields DEF CommandLineInv
  <2>2. entries[o].specified => ~(Len(entries[o].values) < entries[o].least)
    BY DEF CommandLineInv, Insufficient
  <2>3. CountsOfEntry(entries[o])
    BY DEF CommandLineInv, CountsSoFar
  <2> QED BY <2>1, <2>2, <2>3 DEF CountsOfEntry
<1> QED BY <1>1, CommandLineInvariance, PTL
-----------------------------------------------------------------------------
\* Where the values of a command line go: the invariant

\* Where parse() is: within the last word only at one of its pieces, and before it
\* nothing is given or single.
WithinLast ==
  /\ ret # "parsing" => piece = 0
  /\ piece > 0 => line # <<>> /\ Last(line).kind \in {"cluster", "long"}
                  /\ piece \in Pieces(Last(line))
  /\ ret = "none" => singles = <<>> /\ \A o \in DOMAIN entries : ~entries[o].specified

LastOption(q) == q \in OptionsPassed /\ \A r \in OptionsPassed : r = q \/ Before(r, q)

\* Options the line has named are given, the last of them is where values go until
\* it is full, and what it was offered so far an option has taken.
OwnSoFar == \A o \in DOMAIN entries : entries[o].specified => TakesItsOwn(entries[o], Offered(o))

PassedAreGiven ==
  \A q \in OptionsPassed : Gives[q] \in DOMAIN entries => entries[Gives[q]].specified

ValuesGoToLast ==
  /\ option # "" => \E q \in OptionsPassed : LastOption(q)
  /\ \A q \in OptionsPassed : LastOption(q) =>
       IF option # "" THEN Gives[q] = option
       ELSE Gives[q] \in DOMAIN entries => Full(entries[Gives[q]])

SinglesSoFar == InLineOrder(singles) /\ Range(singles) = WordsPassed \ TakenByOptions

PlacesSoFar == OwnSoFar /\ PassedAreGiven /\ ValuesGoToLast /\ SinglesSoFar

PlacesHold == WithinLast /\ (ret \in {"parsing", "OK"} /\ ~Confused => PlacesSoFar)

PlacesInv == CommandLineInv /\ PlacesHold
-----------------------------------------------------------------------------
\* The places of a line are ordered.
LEMMA BeforeIsOrder ==
  ASSUME NEW p \in Nat \X Nat, NEW q \in Nat \X Nat
  PROVE  /\ ~Before(p, p) /\ (Before(p, q) => ~Before(q, p))
         /\ p = q \/ Before(p, q) \/ Before(q, p)
         /\ \A r \in Nat \X Nat : Before(p, q) /\ Before(q, r) => Before(p, r)
<1>1. p = <<p[1], p[2]>> /\ q = <<q[1], q[2]>> /\ {p[1], p[2], q[1], q[2]} \subseteq Nat
  OBVIOUS
<1>2. p = q \/ Before(p, q) \/ Before(q, p)
  BY <1>1 DEF Before
<1>3. \A r \in Nat \X Nat : Before(p, q) /\ Before(q, r) => Before(p, r)
  BY DEF Before
<1> QED BY <1>1, <1>2, <1>3 DEF Before

LEMMA PiecesAreNumbers ==
  ASSUME NEW w \in Words
  PROVE  Pieces(w) \subseteq Nat
<1>1. w.kind = "cluster" => w.options \in Seq(STRING)
  BY CommandLineAssumption, SeqMonotonic
<1>2. w.kind = "cluster" => Len(w.options) \in Nat
  BY <1>1, LenProperties
<1>3. w.kind = "long" => w.parts \in Nat
  BY CommandLineAssumption
<1> QED BY <1>2, <1>3 DEF Pieces

\* What it means for a place to have been passed.
PassedAt(i, k) == /\ i \in 1 .. Len(line) /\ k \in Pieces(line[i])
                  /\ i < Len(line) \/ piece = 0 \/ k < piece

ArePlaces ==
  /\ \A p \in Passed : p \in Nat \X Nat /\ p = <<p[1], p[2]>> /\ PassedAt(p[1], p[2])
  /\ \A i, k : PassedAt(i, k) => <<i, k>> \in Passed

LEMMA PassedPlaces == CommandLineTypeOK => ArePlaces
<1> SUFFICES ASSUME CommandLineTypeOK PROVE ArePlaces
  OBVIOUS
<1>1. line \in Seq(Words) /\ Len(line) \in Nat
  BY LenProperties DEF CommandLineTypeOK
<1>2. ASSUME NEW p \in Passed
      PROVE  p \in Nat \X Nat /\ p = <<p[1], p[2]>> /\ PassedAt(p[1], p[2])
  <2>1. PICK i \in 1 .. Len(line) : p \in {i} \X Pieces(line[i])
    BY <1>2 DEF Passed
  <2>2. p = <<p[1], p[2]>> /\ p[1] = i /\ p[2] \in Pieces(line[i])
    BY <2>1
  <2>3. line[i] \in Words
    BY <1>1, <2>1, ElementOfSeq
  <2>4. p[2] \in Nat /\ i \in Nat
    BY <1>1, <2>1, <2>2, <2>3, PiecesAreNumbers
  <2> QED BY <1>2, <2>2, <2>4 DEF Passed, PassedAt
<1>3. ASSUME NEW i, NEW k, PassedAt(i, k) PROVE <<i, k>> \in Passed
  <2>1. i \in 1 .. Len(line) /\ <<i, k>> \in {i} \X Pieces(line[i])
    BY <1>3 DEF PassedAt
  <2>2. <<i, k>> \in UNION {{j} \X Pieces(line[j]) : j \in 1 .. Len(line)}
    BY <2>1
  <2> QED BY <1>3, <2>2 DEF Passed, PassedAt
<1> QED BY <1>2, <1>3 DEF ArePlaces

LEMMA PassedPlacesNext == CommandLineTypeOK' => ArePlaces'
BY PassedPlaces, PTL

\* Options and values are places, apart from each other.
LEMMA OptionsAndValues ==
  ASSUME CommandLineTypeOK
  PROVE  /\ OptionsPassed \subseteq Nat \X Nat /\ ValuesPassed \subseteq Nat \X Nat
         /\ WordsPassed \subseteq ValuesPassed
         /\ OptionsPassed \cap ValuesPassed = {} /\ OptionsPassed \union ValuesPassed = Passed
         /\ DOMAIN Gives = OptionsPassed
BY PassedPlaces DEF ArePlaces, OptionsPassed, ValuesPassed, WordsPassed, Gives
-----------------------------------------------------------------------------
\* What a step of parse() passes: nothing, one option more or one value more, after
\* all that was passed before.
GivesAsBefore == \A q \in OptionsPassed : Gives'[q] = Gives[q]

PassesNothing ==
  /\ OptionsPassed' = OptionsPassed /\ ValuesPassed' = ValuesPassed /\ WordsPassed' = WordsPassed
  /\ GivesAsBefore

PassesOption(q) ==
  /\ q \in Nat \X Nat /\ \A p \in Passed : Before(p, q)
  /\ OptionsPassed' = OptionsPassed \union {q}
  /\ ValuesPassed' = ValuesPassed /\ WordsPassed' = WordsPassed
  /\ GivesAsBefore

PassesValue(v) ==
  /\ v \in Nat \X Nat /\ \A p \in Passed : Before(p, v)
  /\ ValuesPassed' = ValuesPassed \union {v} /\ OptionsPassed' = OptionsPassed
  /\ WordsPassed' = WordsPassed \union (IF line'[v[1]].kind = "value" THEN {v} ELSE {})
  /\ GivesAsBefore

LEMMA NoMorePlaces ==
  ASSUME Passed' = Passed, \A p \in Passed : line'[p[1]] = line[p[1]], UNCHANGED names
  PROVE  PassesNothing
<1>1. WordsPassed' = WordsPassed
  BY DEF WordsPassed
<1>2. ValuesPassed' = ValuesPassed
  BY <1>1 DEF ValuesPassed
<1>3. OptionsPassed' = OptionsPassed /\ OptionsPassed \subseteq Passed
  BY <1>2 DEF OptionsPassed
<1>4. GivesAsBefore
  BY <1>3 DEF GivesAsBefore, Gives
<1> QED BY <1>1, <1>2, <1>3, <1>4 DEF PassesNothing

LEMMA OneMorePlace ==
  ASSUME NEW v \in Nat \X Nat, Passed' = Passed \union {v}, UNCHANGED names,
         \A p \in Passed : line'[p[1]] = line[p[1]] /\ Before(p, v), CommandLineTypeOK
  PROVE  LET kind == line'[v[1]].kind IN
         IF kind = "value" \/ (kind = "long" /\ v[2] > 0) THEN PassesValue(v)
         ELSE /\ PassesOption(v)
              /\ Gives'[v] = IF kind = "long" THEN names[line'[v[1]].name]
                             ELSE line'[v[1]].options[v[2]]
<1> DEFINE kind == line'[v[1]].kind
<1>0. v \notin Passed
  BY BeforeIsOrder
<1>1. WordsPassed' = WordsPassed \union (IF kind = "value" THEN {v} ELSE {})
  BY DEF WordsPassed
<1>2. ValuesPassed' = ValuesPassed \union
                        (IF kind = "value" \/ (kind = "long" /\ v[2] > 0) THEN {v} ELSE {})
  <2>1. {p \in Passed' : line'[p[1]].kind = "long" /\ p[2] > 0} =
          {p \in Passed : line[p[1]].kind = "long" /\ p[2] > 0}
            \union (IF kind = "long" /\ v[2] > 0 THEN {v} ELSE {})
    OBVIOUS
  <2> QED BY <1>1, <2>1 DEF ValuesPassed
<1>3. WordsPassed \subseteq Passed /\ ValuesPassed \subseteq Passed /\ OptionsPassed \subseteq Passed
  BY DEF WordsPassed, ValuesPassed, OptionsPassed
<1>4. OptionsPassed' = OptionsPassed \union
                         (IF kind = "value" \/ (kind = "long" /\ v[2] > 0) THEN {} ELSE {v})
  BY <1>0, <1>2, <1>3 DEF OptionsPassed
<1>5. GivesAsBefore
  <2> SUFFICES ASSUME NEW q \in OptionsPassed PROVE Gives'[q] = Gives[q]
    BY DEF GivesAsBefore
  <2>1. q \in OptionsPassed' /\ line'[q[1]] = line[q[1]]
    BY <1>3, <1>4
  <2> QED BY <2>1 DEF Gives
<1>6. CASE kind = "value" \/ (kind = "long" /\ v[2] > 0)
  BY <1>1, <1>2, <1>4, <1>5, <1>6 DEF PassesValue
<1>7. CASE ~(kind = "value" \/ (kind = "long" /\ v[2] > 0))
  <2>1. PassesOption(v)
    BY <1>1, <1>2, <1>4, <1>5, <1>7 DEF PassesOption
  <2>2. v \in OptionsPassed'
    BY <1>4, <1>7
  <2>3. Gives'[v] = IF kind = "long" THEN names[line'[v[1]].name] ELSE line'[v[1]].options[v[2]]
    BY <2>2 DEF Gives
  <2> QED BY <1>7, <2>1, <2>3
<1> QED BY <1>6, <1>7

\* The line grows by a word, the words before it stay where they are.
LEMMA LineGrows ==
  ASSUME CommandLineTypeOK, NEW w \in Words, line' = Append(line, w)
  PROVE  /\ Len(line) \in Nat /\ Len(line') = Len(line) + 1 /\ line'[Len(line) + 1] = w
         /\ \A i \in 1 .. Len(line) : line'[i] = line[i]
<1>1. line \in Seq(Words)
  BY DEF CommandLineTypeOK
<1> QED BY <1>1, LenProperties, AppendProperties

LEMMA PassedGrows ==
  ASSUME CommandLineTypeOK, CommandLineTypeOK', NEW N \in SUBSET (Nat \X Nat),
         \A i, k : PassedAt(i, k)' <=> PassedAt(i, k) \/ <<i, k>> \in N
  PROVE  Passed' = Passed \union N
<1>1. \A p \in Passed : p = <<p[1], p[2]>> /\ PassedAt(p[1], p[2])
  BY PassedPlaces DEF ArePlaces
<1>2. \A p \in Passed' : p = <<p[1], p[2]>> /\ PassedAt(p[1], p[2])'
  BY PassedPlacesNext DEF ArePlaces
<1>3. /\ \A i, k : PassedAt(i, k) => <<i, k>> \in Passed
      /\ \A i, k : PassedAt(i, k)' => <<i, k>> \in Passed'
  BY PassedPlaces, PassedPlacesNext DEF ArePlaces
<1>4. \A p \in N : p = <<p[1], p[2]>>
  OBVIOUS
<1>5. \A p \in Passed \union N : p \in Passed'
  BY <1>1, <1>3, <1>4
<1>6. \A p \in Passed' : p \in Passed \union N
  BY <1>2, <1>3
<1> QED BY <1>5, <1>6

\* A word of which nothing is treated yet, or that has nothing to give.
LEMMA WordWithoutPlace ==
  ASSUME CommandLineTypeOK, CommandLineTypeOK', NEW w \in Words, line' = Append(line, w),
         piece = 0, UNCHANGED names,
         \/ w.kind = "dashes" /\ piece' = 0
         \/ w.kind = "cluster" /\ piece' = 1
  PROVE  PassesNothing
<1>1. /\ Len(line) \in Nat /\ Len(line') = Len(line) + 1 /\ line'[Len(line) + 1] = w
      /\ \A i \in 1 .. Len(line) : line'[i] = line[i]
  BY LineGrows
<1>2. ASSUME NEW i, NEW k, PassedAt(i, k) PROVE PassedAt(i, k)'
  BY <1>1, <1>2 DEF PassedAt
<1>3. ASSUME NEW i, NEW k, PassedAt(i, k)' PROVE PassedAt(i, k)
  <2>1. CASE i = Len(line) + 1
    <3>1. k \in Pieces(w) /\ (piece' = 0 \/ k < piece')
      BY <1>1, <1>3, <2>1 DEF PassedAt
    <3>2. k \notin Pieces(w) \/ ~(piece' = 0 \/ k < piece')
      <4>1. CASE w.kind = "dashes" /\ piece' = 0
        BY <4>1 DEF Pieces
      <4>2. CASE w.kind = "cluster" /\ piece' = 1
        <5>1. w.options \in Seq(STRING)
          BY <4>2, CommandLineAssumption, SeqMonotonic
        <5>2. Pieces(w) = 1 .. Len(w.options) /\ Len(w.options) \in Nat
          BY <4>2, <5>1, LenProperties DEF Pieces
        <5> QED BY <4>2, <5>2
      <4> QED BY <4>1, <4>2
    <3> QED BY <3>1, <3>2
  <2>2. CASE i # Len(line) + 1
    BY <1>1, <1>3, <2>2 DEF PassedAt
  <2> QED BY <2>1, <2>2
<1>4. Passed' = Passed
  <2>1. /\ {} \in SUBSET (Nat \X Nat)
        /\ \A i, k : PassedAt(i, k)' <=> PassedAt(i, k) \/ <<i, k>> \in {}
    BY <1>2, <1>3
  <2>2. Passed' = Passed \union {}
    BY <2>1, PassedGrows
  <2> QED BY <2>2
<1>5. \A p \in Passed : line'[p[1]] = line[p[1]]
  BY <1>1, PassedPlaces DEF ArePlaces, PassedAt
<1> QED BY <1>4, <1>5, NoMorePlaces

\* A value, or the name of a long option, is passed with its word.
LEMMA WordPassed ==
  ASSUME CommandLineTypeOK, CommandLineTypeOK', NEW w \in Words, line' = Append(line, w),
         piece = 0,
         \/ w.kind = "value" /\ piece' = 0
         \/ w.kind = "long" /\ piece' = IF w.parts > 0 THEN 1 ELSE 0
  PROVE  /\ <<Len(line'), 0>> \in Nat \X Nat /\ line'[Len(line')] = w
         /\ Passed' = Passed \union {<<Len(line'), 0>>}
         /\ \A p \in Passed : line'[p[1]] = line[p[1]] /\ Before(p, <<Len(line'), 0>>)
<1>1. /\ Len(line) \in Nat /\ Len(line') = Len(line) + 1 /\ line'[Len(line) + 1] = w
      /\ \A i \in 1 .. Len(line) : line'[i] = line[i]
  BY LineGrows
<1>2. \A k : k \in Pieces(w) /\ (piece' = 0 \/ k < piece') <=> k = 0
  <2>1. CASE w.kind = "value" /\ piece' = 0
    BY <2>1 DEF Pieces
  <2>2. CASE w.kind = "long" /\ piece' = IF w.parts > 0 THEN 1 ELSE 0
    <3>1. w.parts \in Nat /\ Pieces(w) = 0 .. w.parts
      BY <2>2, CommandLineAssumption DEF Pieces
    <3> QED BY <2>2, <3>1
  <2> QED BY <2>1, <2>2
<1>3. ASSUME NEW i, NEW k
      PROVE  PassedAt(i, k)' <=> PassedAt(i, k) \/ <<i, k>> \in {<<Len(line'), 0>>}
  <2>1. CASE i = Len(line) + 1
    BY <1>1, <1>2, <2>1 DEF PassedAt
  <2>2. CASE i # Len(line) + 1
    BY <1>1, <2>2 DEF PassedAt
  <2> QED BY <2>1, <2>2
<1>4. <<Len(line'), 0>> \in Nat \X Nat
  BY <1>1
<1>5. Passed' = Passed \union {<<Len(line'), 0>>}
  BY <1>3, <1>4, PassedGrows
<1>6. \A p \in Passed : line'[p[1]] = line[p[1]] /\ Before(p, <<Len(line'), 0>>)
  BY <1>1, PassedPlaces DEF ArePlaces, PassedAt, Before
<1> QED BY <1>1, <1>4, <1>5, <1>6

\* A letter of a cluster, or a part behind a long name, is passed with its step.
LEMMA PiecePassed ==
  ASSUME CommandLineTypeOK, CommandLineTypeOK', UNCHANGED line,
         piece > 0, line # <<>>, piece \in Pieces(Last(line)),
         \/ Last(line).kind = "cluster" /\ Following(Len(Last(line).options))
         \/ Last(line).kind = "long" /\ Following(Last(line).parts)
  PROVE  /\ <<Len(line), piece>> \in Nat \X Nat /\ line'[Len(line)] = Last(line)
         /\ Passed' = Passed \union {<<Len(line), piece>>}
         /\ \A p \in Passed : line'[p[1]] = line[p[1]] /\ Before(p, <<Len(line), piece>>)
<1>1. /\ line \in Seq(Words) /\ Len(line) \in Nat /\ Len(line) > 0 /\ piece \in Nat
      /\ Last(line) = line[Len(line)] /\ Last(line) \in Words
  <2>1. line \in Seq(Words) /\ Len(line) \in Nat /\ Len(line) > 0 /\ piece \in Nat
    BY LenProperties, EmptySeq DEF CommandLineTypeOK
  <2> QED BY <2>1, ElementOfSeq DEF Last
<1> DEFINE w == Last(line)
<1>2. \A k \in Pieces(w) : (piece' = 0 \/ k < piece') <=> k < piece \/ k = piece
  <2>1. PICK n \in Nat, m \in Nat : Pieces(w) = m .. n /\ Following(n)
    <3>1. CASE w.kind = "cluster" /\ Following(Len(w.options))
      <4>1. w.options \in Seq(STRING)
        BY <1>1, <3>1, CommandLineAssumption, SeqMonotonic
      <4>2. Pieces(w) = 1 .. Len(w.options) /\ Len(w.options) \in Nat
        BY <3>1, <4>1, LenProperties DEF Pieces
      <4> QED BY <3>1, <4>2
    <3>2. CASE w.kind = "long" /\ Following(w.parts)
      <4>1. w.parts \in Nat /\ Pieces(w) = 0 .. w.parts
        BY <1>1, <3>2, CommandLineAssumption DEF Pieces
      <4> QED BY <3>2, <4>1
    <3> QED BY <3>1, <3>2
  <2>2. piece \in m .. n /\ piece' = IF piece < n THEN piece + 1 ELSE 0
    BY <2>1 DEF Following
  <2> QED BY <1>1, <2>1, <2>2
<1>3. ASSUME NEW i, NEW k
      PROVE  PassedAt(i, k)' <=> PassedAt(i, k) \/ <<i, k>> \in {<<Len(line), piece>>}
  <2>1. CASE i = Len(line)
    <3>1. PassedAt(i, k)' <=> k \in Pieces(w) /\ (piece' = 0 \/ k < piece')
      BY <1>1, <2>1 DEF PassedAt
    <3>2. PassedAt(i, k) <=> k \in Pieces(w) /\ k < piece
      BY <1>1, <2>1 DEF PassedAt
    <3> QED BY <1>2, <2>1, <3>1, <3>2
  <2>2. CASE i # Len(line)
    BY <1>1, <2>2 DEF PassedAt
  <2> QED BY <2>1, <2>2
<1>4. <<Len(line), piece>> \in Nat \X Nat
  BY <1>1
<1>5. Passed' = Passed \union {<<Len(line), piece>>}
  BY <1>3, <1>4, PassedGrows
<1>6. \A p \in Passed : line'[p[1]] = line[p[1]] /\ Before(p, <<Len(line), piece>>)
  BY <1>1, PassedPlaces DEF ArePlaces, PassedAt, Before
<1> QED BY <1>1, <1>4, <1>5, <1>6
-----------------------------------------------------------------------------
\* What options are offered after a step.
LEMMA OfferedNothing ==
  ASSUME PassesNothing, NEW o
  PROVE  Offered(o)' = Offered(o)
BY DEF PassesNothing, GivesAsBefore, Offered

LEMMA OfferedAfterOption ==
  ASSUME CommandLineTypeOK, NEW q, PassesOption(q), NEW o
  PROVE  Offered(o)' = Offered(o)
<1>1. /\ OptionsPassed \subseteq Nat \X Nat /\ ValuesPassed \subseteq Nat \X Nat
      /\ \A p \in OptionsPassed \union ValuesPassed : Before(p, q)
  BY OptionsAndValues DEF PassesOption
<1>2. \A p \in OptionsPassed \union ValuesPassed : ~Before(q, p) /\ p # q
  BY <1>1, BeforeIsOrder DEF PassesOption
<1>3. /\ OptionsPassed' = OptionsPassed \union {q} /\ ValuesPassed' = ValuesPassed
      /\ \A r \in OptionsPassed : Gives'[r] = Gives[r]
  BY DEF PassesOption, GivesAsBefore
<1>4. ASSUME NEW p \in ValuesPassed
      PROVE  p \in Offered(o)' <=> p \in Offered(o)
  <2>1. \A r \in OptionsPassed :
          (\A s \in OptionsPassed' : Before(s, r) \/ s = r \/ Before(p, s)) <=>
          (\A s \in OptionsPassed : Before(s, r) \/ s = r \/ Before(p, s))
    BY <1>1, <1>3
  <2> QED BY <1>2, <1>3, <2>1 DEF Offered
<1>5. Offered(o) \subseteq ValuesPassed /\ Offered(o)' \subseteq ValuesPassed
  BY <1>3 DEF Offered
<1> QED BY <1>4, <1>5

LEMMA OfferedAfterValue ==
  ASSUME CommandLineTypeOK, NEW v, PassesValue(v), NEW o
  PROVE  LET last == \E q \in OptionsPassed : LastOption(q) /\ Gives[q] = o IN
         (last => Offered(o)' = Offered(o) \union {v}) /\ (~last => Offered(o)' = Offered(o))
<1>1. /\ OptionsPassed \subseteq Nat \X Nat /\ ValuesPassed \subseteq Nat \X Nat
      /\ \A p \in OptionsPassed \union ValuesPassed : Before(p, v)
  BY OptionsAndValues DEF PassesValue
<1>2. \A p \in OptionsPassed \union ValuesPassed : ~Before(v, p) /\ p # v
  BY <1>1, BeforeIsOrder DEF PassesValue
<1>3. /\ OptionsPassed' = OptionsPassed /\ ValuesPassed' = ValuesPassed \union {v}
      /\ \A r \in OptionsPassed : Gives'[r] = Gives[r]
  BY DEF PassesValue, GivesAsBefore
<1>4. ASSUME NEW p \in ValuesPassed
      PROVE  p \in Offered(o)' <=> p \in Offered(o)
  BY <1>3 DEF Offered
<1>5. v \in Offered(o)' <=> \E q \in OptionsPassed : LastOption(q) /\ Gives[q] = o
  <2>1. v \in Offered(o)' <=>
          \E q \in OptionsPassed : /\ Gives[q] = o
                                   /\ \A r \in OptionsPassed : Before(r, q) \/ r = q
    BY <1>1, <1>2, <1>3 DEF Offered
  <2> QED BY <2>1 DEF LastOption
<1>6. Offered(o) \subseteq ValuesPassed /\ Offered(o)' \subseteq ValuesPassed \union {v}
  BY <1>3 DEF Offered
<1> QED BY <1>4, <1>5, <1>6

LEMMA ValueIsLast ==
  ASSUME CommandLineTypeOK, NEW v, PassesValue(v)
  PROVE  v \in Nat \X Nat /\ \A p \in ValuesPassed : Before(p, v) /\ p # v
<1>1. ValuesPassed \subseteq Nat \X Nat /\ ValuesPassed \subseteq Passed
  BY OptionsAndValues
<1> QED BY <1>1, BeforeIsOrder DEF PassesValue

\* A value appended after all those before.
LEMMA AppendedInOrder ==
  ASSUME NEW s \in Seq(Nat \X Nat), NEW v \in Nat \X Nat
  PROVE  /\ Append(s, v) \in Seq(Nat \X Nat) /\ Len(Append(s, v)) = Len(s) + 1
         /\ Range(Append(s, v)) = Range(s) \union {v}
         /\ InLineOrder(s) /\ (\A p \in Range(s) : Before(p, v)) => InLineOrder(Append(s, v))
<1> DEFINE t == Append(s, v)
<1>1. /\ t \in Seq(Nat \X Nat) /\ Len(t) = Len(s) + 1 /\ Len(s) \in Nat
      /\ \A i \in 1 .. Len(s) : t[i] = s[i]
      /\ t[Len(s) + 1] = v
      /\ DOMAIN s = 1 .. Len(s) /\ DOMAIN t = 1 .. Len(t)
  BY AppendProperties, LenProperties
<1> HIDE DEF t
<1> DEFINE n == Len(s)
<1>2. /\ n \in Nat /\ DOMAIN s = 1 .. n /\ DOMAIN t = 1 .. n + 1 /\ Len(t) = n + 1 /\ Len(s) = n
      /\ t[n + 1] = v /\ \A i \in 1 .. n : t[i] = s[i]
  BY <1>1
<1> HIDE DEF n
<1>3. 1 .. n + 1 = (1 .. n) \union {n + 1} /\ n + 1 \notin 1 .. n
  BY <1>2
<1>4. Range(t) = Range(s) \union {v}
  <2>1. /\ Range(s) = {s[i] : i \in 1 .. n}
        /\ Range(t) = {t[i] : i \in (1 .. n) \union {n + 1}}
    BY <1>2, <1>3 DEF Range
  <2> QED BY <1>2, <2>1
<1>5. ASSUME InLineOrder(s), \A p \in Range(s) : Before(p, v) PROVE InLineOrder(t)
  <2> SUFFICES ASSUME NEW j \in 1 .. n + 1, NEW k \in 1 .. n + 1, j < k
               PROVE  Before(t[j], t[k])
    BY <1>2 DEF InLineOrder
  <2>1. CASE k \in 1 .. n
    <3>1. j \in 1 .. n
      BY <1>2, <2>1
    <3> QED BY <1>2, <1>5, <2>1, <3>1 DEF InLineOrder
  <2>2. CASE k = n + 1
    <3>1. j \in 1 .. n
      BY <1>2, <2>2
    <3>2. t[j] = s[j] /\ s[j] \in Range(s)
      BY <1>2, <3>1 DEF Range
    <3> QED BY <1>2, <1>5, <2>2, <3>2
  <2> QED BY <1>3, <2>1, <2>2
<1> QED BY <1>1, <1>4, <1>5 DEF t

LEMMA EmptyInOrder == InLineOrder(<<>>) /\ Range(<<>>) = {}
<1>1. Len(<<>>) = 0 /\ DOMAIN <<>> = {}
  OBVIOUS
<1> QED BY <1>1 DEF InLineOrder, Range
-----------------------------------------------------------------------------
\* What the treatment of an option or a value keeps.
LEMMA LastStays ==
  ASSUME OptionsPassed' = OptionsPassed, NEW q
  PROVE  LastOption(q)' <=> LastOption(q)
BY DEF LastOption

LEMMA NothingKeepsPlaces ==
  ASSUME PlacesSoFar, PassesNothing, UNCHANGED <<entries, singles, option>>
  PROVE  PlacesSoFar'
<1>1. OptionsPassed' = OptionsPassed /\ WordsPassed' = WordsPassed /\ GivesAsBefore
  BY DEF PassesNothing
<1>2. OwnSoFar'
  BY OfferedNothing DEF PlacesSoFar, OwnSoFar
<1>3. PassedAreGiven'
  BY <1>1 DEF PlacesSoFar, PassedAreGiven, GivesAsBefore
<1>4. ValuesGoToLast'
  BY <1>1, LastStays DEF PlacesSoFar, ValuesGoToLast, GivesAsBefore
<1>5. SinglesSoFar'
  BY <1>1 DEF PlacesSoFar, SinglesSoFar, TakenByOptions
<1> QED BY <1>2, <1>3, <1>4, <1>5 DEF PlacesSoFar

\* An option that is given for the first time has been offered nothing.
LEMMA NotGivenNotOffered ==
  ASSUME PassedAreGiven, NEW o \in DOMAIN entries, ~entries[o].specified
  PROVE  Offered(o) = {}
BY DEF PassedAreGiven, Offered

LEMMA OptionKeepsPlaces ==
  ASSUME CommandLineInv, ~Confused, PlacesSoFar,
         NEW q, NEW name, name # "", PassesOption(q), Gives'[q] = name,
         Found(name) \in DOMAIN entries, Specify(name)
  PROVE  PlacesSoFar'
<1> DEFINE f == Found(name)
           e == [entries[f] EXCEPT !.specified = TRUE,
                                   !.values = IF entries[f].specified THEN @ ELSE <<>>]
<1>1. /\ entries' = [entries EXCEPT ![f] = e] /\ option' = name /\ singles' = singles
      /\ entries[f] \in OptionEntries
  BY EntryFields DEF Specify, CommandLineInv
<1>2. /\ e.specified /\ (entries[f].specified => e = entries[f])
      /\ (~entries[f].specified => e.values = <<>>)
  <2>1. e.specified /\ (~entries[f].specified => e.values = <<>>)
    BY <1>1 DEF OptionEntries
  <2>2. entries[f].specified => e = entries[f]
    BY <1>1 DEF OptionEntries
  <2> QED BY <2>1, <2>2
<1> HIDE DEF e
<1>3. /\ DOMAIN entries' = DOMAIN entries /\ entries'[f] = e /\ f \in DOMAIN entries
      /\ \A o \in DOMAIN entries : o # f => entries'[o] = entries[o]
      /\ entries \in [DOMAIN entries -> OptionEntries]
  BY <1>1 DEF CommandLineInv, CommandLineTypeOK
<1>4. name \in DOMAIN entries => f = name
  BY DEF Confused, Found
<1> HIDE DEF f
<1>5. OwnSoFar'
  <2> SUFFICES ASSUME NEW o \in DOMAIN entries, entries'[o].specified
               PROVE  TakesItsOwn(entries'[o], Offered(o)')
    BY <1>3 DEF OwnSoFar
  <2>1. Offered(o)' = Offered(o)
    BY OfferedAfterOption DEF CommandLineInv
  <2>2. CASE entries'[o] = entries[o]
    BY <2>1, <2>2 DEF PlacesSoFar, OwnSoFar
  <2>3. CASE entries'[o] # entries[o]
    <3>1. o = f /\ ~entries[f].specified /\ entries'[o].values = <<>>
      BY <1>2, <1>3, <2>3
    <3>2. Offered(o) = {}
      BY <3>1, NotGivenNotOffered DEF PlacesSoFar
    <3> QED BY <2>1, <3>1, <3>2, EmptyInOrder DEF TakesItsOwn
  <2> QED BY <2>2, <2>3
<1>6. OptionsPassed' = OptionsPassed \union {q} /\ WordsPassed' = WordsPassed /\ GivesAsBefore
  BY DEF PassesOption
<1>7. PassedAreGiven'
  <2> SUFFICES ASSUME NEW r \in OptionsPassed', Gives'[r] \in DOMAIN entries
               PROVE  entries'[Gives'[r]].specified
    BY <1>3 DEF PassedAreGiven
  <2>1. CASE r = q
    BY <1>2, <1>3, <1>4, <2>1
  <2>2. CASE r \in OptionsPassed
    BY <1>2, <1>3, <1>6, <2>2 DEF PlacesSoFar, PassedAreGiven, GivesAsBefore
  <2> QED BY <1>6, <2>1, <2>2
<1>8. ValuesGoToLast'
  <2>1. /\ OptionsPassed \subseteq Nat \X Nat /\ q \in Nat \X Nat
        /\ \A r \in OptionsPassed : Before(r, q)
    BY OptionsAndValues DEF PassesOption, CommandLineInv
  <2>2. \A r \in OptionsPassed : ~Before(q, r) /\ q # r
    BY <2>1, BeforeIsOrder
  <2>3. \A r : LastOption(r)' <=> r = q
    BY <1>6, <2>1, <2>2 DEF LastOption
  <2> QED BY <1>1, <1>6, <2>3 DEF ValuesGoToLast
<1>9. SinglesSoFar'
  <2>1. TakenByOptions' = TakenByOptions
    <3>1. \A p : p \in TakenByOptions <=>
            \E o \in DOMAIN entries : entries[o].specified /\ p \in Range(entries[o].values)
      BY DEF TakenByOptions
    <3>2. \A p : p \in TakenByOptions' <=>
            \E o \in DOMAIN entries : entries'[o].specified /\ p \in Range(entries'[o].values)
      BY <1>3 DEF TakenByOptions
    <3>3. ~entries[f].specified => Range(entries'[f].values) = {}
      BY <1>2, <1>3, EmptyInOrder
    <3>4. ASSUME NEW o \in DOMAIN entries, NEW p
          PROVE  entries'[o].specified /\ p \in Range(entries'[o].values) <=>
                 entries[o].specified /\ p \in Range(entries[o].values)
      BY <1>2, <1>3, <3>3
    <3> QED BY <3>1, <3>2, <3>4
  <2> QED BY <1>1, <1>6, <2>1 DEF PlacesSoFar, SinglesSoFar
<1> QED BY <1>5, <1>7, <1>8, <1>9 DEF PlacesSoFar

\* A value that no option takes: the last option named, if there is one, is full.
LastIsFull ==
  \A q \in OptionsPassed :
    LastOption(q) /\ Gives[q] \in DOMAIN entries => Full(entries[Gives[q]])

LEMMA NotTakenKeepsOwn ==
  ASSUME CommandLineInv, ~Confused, PlacesSoFar, NEW v, PassesValue(v), UNCHANGED entries,
         LastIsFull
  PROVE  OwnSoFar'
<1> SUFFICES ASSUME NEW o \in DOMAIN entries, entries[o].specified
             PROVE  TakesItsOwn(entries[o], Offered(o)')
  BY DEF OwnSoFar
<1>1. TakesItsOwn(entries[o], Offered(o))
  BY DEF PlacesSoFar, OwnSoFar
<1>2. CASE ~\E q \in OptionsPassed : LastOption(q) /\ Gives[q] = o
  <2>1. Offered(o)' = Offered(o)
    BY <1>2, OfferedAfterValue DEF CommandLineInv
  <2> QED BY <1>1, <2>1
<1>3. CASE \E q \in OptionsPassed : LastOption(q) /\ Gives[q] = o
  <2>1. Offered(o)' = Offered(o) \union {v}
    BY <1>3, OfferedAfterValue DEF CommandLineInv
  <2>2. entries[o].fixed /\ Len(entries[o].values) = entries[o].least
    <3>1. Full(entries[o])
      BY <1>3 DEF LastIsFull
    <3>2. entries[o].fixed => Len(entries[o].values) <= entries[o].least
      BY DEF CommandLineInv, CountsSoFar, CountsOfEntry
    <3>3. Len(entries[o].values) \in Nat /\ entries[o].least \in Nat
      BY EntryFields DEF CommandLineInv
    <3> QED BY <3>1, <3>2, <3>3 DEF Full
  <2>3. \A p \in Offered(o) : Before(p, v)
    BY OptionsAndValues DEF Offered, PassesValue, CommandLineInv
  <2> QED BY <1>1, <2>1, <2>2, <2>3 DEF TakesItsOwn
<1> QED BY <1>2, <1>3

\* A part that is lost.
LEMMA LostKeepsPlaces ==
  ASSUME CommandLineInv, ~Confused, PlacesSoFar, NEW v, PassesValue(v), LastIsFull,
         WordsPassed' = WordsPassed, UNCHANGED <<entries, singles, option>>
  PROVE  PlacesSoFar'
<1>1. OptionsPassed' = OptionsPassed /\ GivesAsBefore
  BY DEF PassesValue
<1>2. OwnSoFar'
  BY NotTakenKeepsOwn
<1>3. PassedAreGiven'
  BY <1>1 DEF PlacesSoFar, PassedAreGiven, GivesAsBefore
<1>4. ValuesGoToLast'
  BY <1>1, LastStays DEF PlacesSoFar, ValuesGoToLast, GivesAsBefore
<1>5. SinglesSoFar'
  BY DEF PlacesSoFar, SinglesSoFar, TakenByOptions
<1> QED BY <1>2, <1>3, <1>4, <1>5 DEF PlacesSoFar

\* What options have taken are values that have been passed.
LEMMA TakenWerePassed ==
  ASSUME PlacesSoFar
  PROVE  TakenByOptions \subseteq ValuesPassed
<1> SUFFICES ASSUME NEW o \in DOMAIN entries, entries[o].specified
             PROVE  Range(entries[o].values) \subseteq ValuesPassed
  BY DEF TakenByOptions
<1>1. TakesItsOwn(entries[o], Offered(o))
  BY DEF PlacesSoFar, OwnSoFar
<1> QED BY <1>1 DEF TakesItsOwn, Offered

\* A word that becomes a single parameter.
LEMMA SingleKeepsPlaces ==
  ASSUME CommandLineInv, ~Confused, PlacesSoFar, NEW v, PassesValue(v), LastIsFull,
         WordsPassed' = WordsPassed \union {v}, singles' = Append(singles, v), option' = "",
         UNCHANGED entries
  PROVE  PlacesSoFar'
<1>1. OptionsPassed' = OptionsPassed /\ GivesAsBefore /\ v \in Nat \X Nat
  BY DEF PassesValue
<1>2. OwnSoFar'
  BY NotTakenKeepsOwn
<1>3. PassedAreGiven'
  BY <1>1 DEF PlacesSoFar, PassedAreGiven, GivesAsBefore
<1>4. ValuesGoToLast'
  BY <1>1, LastStays DEF ValuesGoToLast, LastIsFull, GivesAsBefore
<1>5. SinglesSoFar'
  <2>1. singles \in Seq(Nat \X Nat) /\ InLineOrder(singles) /\ Range(singles) = WordsPassed \ TakenByOptions
    BY DEF CommandLineInv, CommandLineTypeOK, PlacesSoFar, SinglesSoFar
  <2>2. \A p \in ValuesPassed : Before(p, v) /\ p # v
    BY ValueIsLast DEF CommandLineInv
  <2>3. \A p \in Range(singles) : Before(p, v)
    BY <2>1, <2>2, OptionsAndValues DEF CommandLineInv
  <2>4. Range(singles') = Range(singles) \union {v} /\ InLineOrder(singles')
    BY <1>1, <2>1, <2>3, AppendedInOrder
  <2>5. v \notin TakenByOptions /\ TakenByOptions' = TakenByOptions
    BY <2>2, TakenWerePassed DEF TakenByOptions
  <2> QED BY <2>1, <2>4, <2>5 DEF SinglesSoFar
<1> QED BY <1>2, <1>3, <1>4, <1>5 DEF PlacesSoFar

\* A value the last option takes.
LEMMA TakeKeepsPlaces ==
  ASSUME CommandLineInv, ~Confused, PlacesSoFar, ret = "parsing", NEW v, PassesValue(v),
         option \in DOMAIN entries, ~Full(entries[option]), Take(v),
         WordsPassed' = WordsPassed \/ WordsPassed' = WordsPassed \union {v},
         WordsPassed' \subseteq ValuesPassed'
  PROVE  PlacesSoFar'
<1> DEFINE s == entries[option].values
<1>1. /\ OptionsPassed' = OptionsPassed /\ GivesAsBefore /\ v \in Nat \X Nat
      /\ UNCHANGED <<singles, option>>
  BY DEF PassesValue, Take
<1>2. /\ entries[option] \in OptionEntries /\ s \in Seq(Nat \X Nat)
      /\ Len(s) \in Nat /\ entries[option].least \in Nat
      /\ entries[option].specified /\ option # ""
  BY EntryFields DEF CommandLineInv, CountsSoFar
<1>3. /\ DOMAIN entries' = DOMAIN entries
      /\ \A o \in DOMAIN entries : o # option => entries'[o] = entries[o]
      /\ entries'[option].values = Append(s, v) /\ entries'[option].specified
  <2>1. entries \in [DOMAIN entries -> OptionEntries]
    BY DEF CommandLineInv, CommandLineTypeOK
  <2>2. entries' = [entries EXCEPT ![option] = [entries[option] EXCEPT !.values = Append(s, v)]]
    BY DEF Take
  <2>3. [entries[option] EXCEPT !.values = Append(s, v)].values = Append(s, v)
    BY <1>2 DEF OptionEntries
  <2>4. [entries[option] EXCEPT !.values = Append(s, v)].specified = entries[option].specified
    BY <1>2 DEF OptionEntries
  <2> QED BY <1>2, <2>1, <2>2, <2>3, <2>4
<1>4. PICK q \in OptionsPassed : LastOption(q) /\ Gives[q] = option
  BY <1>2 DEF PlacesSoFar, ValuesGoToLast
<1>5. \A r \in OptionsPassed : LastOption(r) => r = q
  BY <1>4, OptionsAndValues, BeforeIsOrder DEF LastOption, CommandLineInv
<1>6. TakesItsOwn(entries[option], Offered(option))
  BY <1>2 DEF PlacesSoFar, OwnSoFar
<1>7. \A p \in ValuesPassed : Before(p, v) /\ p # v
  BY ValueIsLast DEF CommandLineInv
<1>8. /\ InLineOrder(entries'[option].values)
      /\ Range(entries'[option].values) = Range(s) \union {v}
  <2>1. \A p \in Range(s) : Before(p, v)
    BY <1>6, <1>7 DEF TakesItsOwn, Offered
  <2>2. InLineOrder(s)
    BY <1>6 DEF TakesItsOwn
  <2> HIDE DEF s
  <2> QED BY <1>1, <1>2, <1>3, <2>1, <2>2, AppendedInOrder
<1> HIDE DEF s
<1>9. OwnSoFar'
  <2> SUFFICES ASSUME NEW o \in DOMAIN entries, entries'[o].specified
               PROVE  TakesItsOwn(entries'[o], Offered(o)')
    BY <1>3 DEF OwnSoFar
  <2>1. CASE o = option
    <3>1. Offered(o)' = Offered(o) \union {v}
      BY <1>4, <2>1, OfferedAfterValue DEF CommandLineInv
    <3>2. Offered(o) \subseteq Range(s)
      <4>1. ASSUME NEW p \in Offered(o) \ Range(s) PROVE FALSE
        <5>1. entries[option].fixed /\ Len(entries[option].values) = entries[option].least
          BY <1>6, <2>1 DEF TakesItsOwn, s
        <5>2. \A k \in Nat : k >= k
          OBVIOUS
        <5>3. Len(entries[option].values) >= entries[option].least
          BY <1>2, <5>1, <5>2, Zenon
        <5> QED BY <5>1, <5>3 DEF Full
      <4> QED BY <4>1
    <3>3. Range(s) \subseteq Offered(o)
      BY <1>6, <2>1 DEF TakesItsOwn, s
    <3> QED BY <1>8, <2>1, <3>1, <3>2, <3>3 DEF TakesItsOwn
  <2>2. CASE o # option
    <3>1. ~\E r \in OptionsPassed : LastOption(r) /\ Gives[r] = o
      BY <1>4, <1>5, <2>2
    <3>2. Offered(o)' = Offered(o)
      BY <3>1, OfferedAfterValue DEF CommandLineInv
    <3> QED BY <1>3, <2>2, <3>2 DEF PlacesSoFar, OwnSoFar
  <2> QED BY <2>1, <2>2
<1>10. PassedAreGiven'
  BY <1>1, <1>3 DEF PlacesSoFar, PassedAreGiven, GivesAsBefore
<1>11. ValuesGoToLast'
  BY <1>1, <1>2, LastStays DEF PlacesSoFar, ValuesGoToLast, GivesAsBefore
<1>12. SinglesSoFar'
  <2>1. TakenByOptions' = TakenByOptions \union {v}
    <3>1. \A p : p \in TakenByOptions <=>
            \E o \in DOMAIN entries : entries[o].specified /\ p \in Range(entries[o].values)
      BY DEF TakenByOptions
    <3>2. \A p : p \in TakenByOptions' <=>
            \E o \in DOMAIN entries : entries'[o].specified /\ p \in Range(entries'[o].values)
      BY <1>3 DEF TakenByOptions
    <3> QED BY <1>2, <1>3, <1>8, <3>1, <3>2 DEF s
  <2>2. v \notin WordsPassed
    BY <1>7, OptionsAndValues DEF CommandLineInv
  <2> QED BY <1>1, <2>1, <2>2 DEF PlacesSoFar, SinglesSoFar
<1> QED BY <1>9, <1>10, <1>11, <1>12 DEF PlacesSoFar
-----------------------------------------------------------------------------
\* The steps of parse().
LEMMA SameOptions ==
  ASSUME UNCHANGED names, DOMAIN entries' = DOMAIN entries
  PROVE  Confused' <=> Confused
BY DEF Confused

LEMMA RefusedHolds ==
  ASSUME ret' \in {"UNKNOWN_CMD_LINE_OPTION", "INVALID_CMD_LINE_FORMAT"}, piece' = 0
  PROVE  PlacesHold'
BY DEF PlacesHold, WithinLast

LEMMA LastOfGrown ==
  ASSUME CommandLineTypeOK, NEW w \in Words, line' = Append(line, w)
  PROVE  line' # <<>> /\ Last(line') = w
<1>1. /\ Len(line) \in Nat /\ Len(line') = Len(line) + 1 /\ line'[Len(line) + 1] = w
  BY LineGrows
<1>2. Len(line') # 0 /\ Last(line') = w
  BY <1>1 DEF Last
<1> QED BY <1>2

\* Values have no option to go to, or one that is full.
LEMMA NoneWantsMore ==
  ASSUME PlacesSoFar, ~(option \in DOMAIN entries /\ ~Full(entries[option]))
  PROVE  LastIsFull
BY DEF PlacesSoFar, ValuesGoToLast, LastIsFull

LEMMA TakeValuePlaces ==
  ASSUME PlacesInv, CommandLineInv', NEW w \in Words, TakeValue(w)
  PROVE  PlacesHold'
<1> DEFINE v == <<Len(line'), 0>>
<1>1. /\ ret = "parsing" /\ piece = 0 /\ piece' = 0 /\ line' = Append(line, w) /\ w.kind = "value"
      /\ UNCHANGED names /\ AddValue(v)
  BY DEF TakeValue, Takes
<1>2. CommandLineInv /\ CommandLineTypeOK /\ CommandLineTypeOK' /\ (~Confused => PlacesSoFar)
  BY <1>1 DEF PlacesInv, PlacesHold, CommandLineInv
<1>3. /\ v \in Nat \X Nat /\ line'[Len(line')] = w /\ Passed' = Passed \union {v}
      /\ \A p \in Passed : line'[p[1]] = line[p[1]] /\ Before(p, v)
  BY <1>1, <1>2, WordPassed
<1>4. v[1] = Len(line')
  OBVIOUS
<1> HIDE DEF v
<1>5. line'[v[1]].kind = "value"
  BY <1>1, <1>3, <1>4
<1>6. PassesValue(v)
  BY <1>1, <1>2, <1>3, <1>5, OneMorePlace
<1>7. WordsPassed' = WordsPassed \union {v}
  BY <1>5, <1>6 DEF PassesValue
<1>8. CASE Returns("UNKNOWN_CMD_LINE_OPTION")
  BY <1>8, RefusedHolds DEF Returns
<1>9. CASE /\ option = "" \/ (option \in DOMAIN entries /\ Full(entries[option]))
           /\ Single(v) /\ option' = ""
  <2>1. ~(option \in DOMAIN entries /\ ~Full(entries[option]))
    BY <1>2, <1>9 DEF CommandLineInv
  <2>2. /\ UNCHANGED <<entries, ret>> /\ singles' = Append(singles, v) /\ option' = ""
        /\ (Confused' <=> Confused)
    BY <1>1, <1>9, SameOptions DEF Single
  <2>3. ~Confused => PlacesSoFar'
    BY <1>2, <1>6, <1>7, <2>1, <2>2, NoneWantsMore, SingleKeepsPlaces
  <2>4. ret' = "parsing" /\ piece' = 0
    BY <1>1, <2>2
  <2>5. WithinLast'
    BY <2>4 DEF WithinLast
  <2> QED BY <2>2, <2>3, <2>5 DEF PlacesHold
<1>10. CASE option \in DOMAIN entries /\ ~Full(entries[option]) /\ Take(v)
  <2>1. DOMAIN entries' = DOMAIN entries /\ UNCHANGED ret
    BY <1>10 DEF Take
  <2>2. WordsPassed' \subseteq ValuesPassed'
    BY DEF ValuesPassed
  <2>3. ~Confused => PlacesSoFar'
    BY <1>1, <1>2, <1>6, <1>7, <1>10, <2>2, TakeKeepsPlaces
  <2>4. WithinLast'
    BY <1>1, <2>1 DEF WithinLast
  <2> QED BY <1>1, <2>1, <2>3, <2>4, SameOptions DEF PlacesHold
<1> QED BY <1>1, <1>8, <1>9, <1>10 DEF AddValue

LEMMA TakeOtherPlaces ==
  ASSUME PlacesInv, CommandLineInv', NEW w \in Words,
         TakeDashes(w) \/ TakeMalformed(w) \/ TakeCluster(w)
  PROVE  PlacesHold'
<1>1. CommandLineInv /\ CommandLineTypeOK /\ CommandLineTypeOK'
  BY DEF PlacesInv, CommandLineInv
<1>2. CASE TakeMalformed(w)
  BY <1>2, RefusedHolds DEF TakeMalformed, Returns
<1>3. CASE TakeDashes(w) \/ TakeCluster(w)
  <2>1. /\ ret = "parsing" /\ piece = 0 /\ line' = Append(line, w)
        /\ UNCHANGED <<names, entries, singles, option, ret>>
        /\ \/ w.kind = "dashes" /\ piece' = 0
           \/ w.kind = "cluster" /\ piece' = 1
    BY <1>3 DEF TakeDashes, TakeCluster, Takes
  <2>2. PassesNothing
    BY <1>1, <2>1, WordWithoutPlace
  <2>3. ~Confused' => PlacesSoFar'
    BY <2>1, <2>2, SameOptions, NothingKeepsPlaces DEF PlacesInv, PlacesHold
  <2>4. line' # <<>> /\ Last(line') = w
    BY <1>1, <2>1, LastOfGrown
  <2>5. w.kind = "cluster" => 1 \in Pieces(w)
    <3> SUFFICES ASSUME w.kind = "cluster" PROVE 1 \in Pieces(w)
      OBVIOUS
    <3>1. w.options \in Seq(STRING \ {""}) /\ w.options # <<>>
      BY CommandLineAssumption
    <3>2. Len(w.options) \in Nat /\ Len(w.options) # 0
      BY <3>1, LenProperties, EmptySeq
    <3> QED BY <3>2 DEF Pieces
  <2>6. WithinLast'
    BY <2>1, <2>4, <2>5 DEF WithinLast
  <2> QED BY <2>3, <2>6 DEF PlacesHold
<1> QED BY <1>2, <1>3

LEMMA TakeLongPlaces ==
  ASSUME PlacesInv, CommandLineInv', NEW w \in Words, TakeLong(w)
  PROVE  PlacesHold'
<1>1. CommandLineInv /\ CommandLineTypeOK /\ CommandLineTypeOK'
  BY DEF PlacesInv, CommandLineInv
<1>2. CASE ~(w.name \in DOMAIN names /\ Found(names[w.name]) \in DOMAIN entries)
  BY <1>2, RefusedHolds DEF TakeLong, Returns
<1>3. CASE w.name \in DOMAIN names /\ Found(names[w.name]) \in DOMAIN entries
  <2> DEFINE v == <<Len(line'), 0>>
             name == names[w.name]
  <2>1. /\ ret = "parsing" /\ piece = 0 /\ line' = Append(line, w) /\ w.kind = "long"
        /\ UNCHANGED names /\ Specify(name) /\ piece' = IF w.parts > 0 THEN 1 ELSE 0
    BY <1>3 DEF TakeLong, Takes
  <2>2. /\ v \in Nat \X Nat /\ line'[Len(line')] = w /\ Passed' = Passed \union {v}
        /\ \A p \in Passed : line'[p[1]] = line[p[1]] /\ Before(p, v)
    BY <1>1, <2>1, WordPassed
  <2>3. v[1] = Len(line') /\ v[2] = 0
    OBVIOUS
  <2> HIDE DEF v
  <2>4. line'[v[1]] = w
    BY <2>2, <2>3
  <2>5. PassesOption(v) /\ Gives'[v] = name
    <3>1. line'[v[1]].kind = "long" /\ ~(v[2] > 0) /\ line'[v[1]].name = w.name
      BY <2>1, <2>3, <2>4
    <3>2. PassesOption(v) /\ Gives'[v] = names[line'[v[1]].name]
      BY <1>1, <2>1, <2>2, <3>1, OneMorePlace
    <3> QED BY <3>1, <3>2
  <2>6. name # ""
    BY <1>1, <1>3 DEF CommandLineInv, CommandLineTypeOK
  <2> HIDE DEF name
  <2>7. Found(name) \in DOMAIN entries
    BY <1>3 DEF name
  <2>8. DOMAIN entries' = DOMAIN entries /\ UNCHANGED ret
    BY <2>1 DEF Specify
  <2>9. ~Confused' => PlacesSoFar'
    BY <1>1, <2>1, <2>5, <2>6, <2>7, <2>8, SameOptions, OptionKeepsPlaces DEF PlacesInv, PlacesHold
  <2>10. line' # <<>> /\ Last(line') = w
    BY <1>1, <2>1, LastOfGrown
  <2>11. w.parts > 0 => 1 \in Pieces(w)
    <3>1. w.parts \in Nat /\ Pieces(w) = 0 .. w.parts
      BY <2>1, CommandLineAssumption DEF Pieces
    <3> QED BY <3>1
  <2>12. WithinLast'
    BY <2>1, <2>8, <2>10, <2>11 DEF WithinLast
  <2> QED BY <2>9, <2>12 DEF PlacesHold
<1> QED BY <1>2, <1>3

\* Where a step within a word goes.
LEMMA FollowingPiece ==
  ASSUME NEW n \in Nat, NEW m \in Nat, piece \in m .. n, Following(n)
  PROVE  piece' \in Nat /\ (piece' > 0 => piece' \in m .. n)
BY DEF Following

LEMMA LastWord ==
  ASSUME PlacesInv, piece > 0
  PROVE  /\ line # <<>> /\ Last(line) \in Words /\ piece \in Pieces(Last(line))
         /\ Last(line).kind = "cluster" =>
              /\ Last(line).options \in Seq(STRING \ {""}) /\ Len(Last(line).options) \in Nat
              /\ Pieces(Last(line)) = 1 .. Len(Last(line).options)
         /\ Last(line).kind = "long" =>
              Last(line).parts \in Nat /\ Pieces(Last(line)) = 0 .. Last(line).parts
<1>1. line # <<>> /\ piece \in Pieces(Last(line)) /\ line \in Seq(Words)
  BY DEF PlacesInv, PlacesHold, WithinLast, CommandLineInv, CommandLineTypeOK
<1>2. Len(line) \in Nat /\ Len(line) # 0
  BY <1>1, LenProperties, EmptySeq
<1>3. Last(line) \in Words
  BY <1>1, <1>2, ElementOfSeq DEF Last
<1>4. Last(line).kind = "cluster" => /\ Last(line).options \in Seq(STRING \ {""})
                                     /\ Pieces(Last(line)) = 1 .. Len(Last(line).options)
  BY <1>3, CommandLineAssumption DEF Pieces
<1>5. Last(line).kind = "cluster" => Len(Last(line).options) \in Nat
  BY <1>4, LenProperties
<1>6. Last(line).kind = "long" => Last(line).parts \in Nat /\ Pieces(Last(line)) = 0 .. Last(line).parts
  BY <1>3, CommandLineAssumption DEF Pieces
<1> QED BY <1>1, <1>3, <1>4, <1>5, <1>6

LEMMA LetterPlaces ==
  ASSUME PlacesInv, CommandLineInv', Letter
  PROVE  PlacesHold'
<1> DEFINE w == Last(line)
           name == w.options[piece]
           v == <<Len(line), piece>>
<1>1. CommandLineInv /\ CommandLineTypeOK /\ CommandLineTypeOK'
  BY DEF PlacesInv, CommandLineInv
<1>2. ret = "parsing" /\ piece > 0 /\ w.kind = "cluster" /\ UNCHANGED <<names, line>>
  BY DEF Letter, Within
<1>3. CASE Found(name) \notin DOMAIN entries
  BY <1>3, RefusedHolds DEF Letter, Returns
<1>4. CASE Found(name) \in DOMAIN entries
  <2>1. /\ line # <<>> /\ w \in Words /\ piece \in Pieces(w) /\ w.options \in Seq(STRING \ {""})
        /\ Len(w.options) \in Nat /\ Pieces(w) = 1 .. Len(w.options)
    BY <1>2, LastWord
  <2>2. Specify(name) /\ Following(Len(w.options))
    BY <1>4 DEF Letter
  <2>3. /\ v \in Nat \X Nat /\ line'[Len(line)] = w /\ Passed' = Passed \union {v}
        /\ \A p \in Passed : line'[p[1]] = line[p[1]] /\ Before(p, v)
    BY <1>1, <1>2, <2>1, <2>2, PiecePassed
  <2>4. v[1] = Len(line) /\ v[2] = piece
    OBVIOUS
  <2> HIDE DEF v
  <2>5. line'[v[1]] = w
    BY <2>3, <2>4
  <2>6. PassesOption(v) /\ Gives'[v] = name
    BY <1>1, <1>2, <2>3, <2>4, <2>5, OneMorePlace
  <2>7. name # ""
    <3>1. name \in STRING \ {""}
      BY <2>1, ElementOfSeq
    <3> QED BY <3>1
  <2>8. DOMAIN entries' = DOMAIN entries /\ UNCHANGED ret
    BY <2>2 DEF Specify
  <2> HIDE DEF name
  <2>9. ~Confused' => PlacesSoFar'
    BY <1>1, <1>2, <1>4, <2>2, <2>6, <2>7, <2>8, SameOptions, OptionKeepsPlaces
       DEF PlacesInv, PlacesHold
  <2>10. piece' > 0 => piece' \in Pieces(w)
    BY <2>1, <2>2, FollowingPiece
  <2>11. WithinLast'
    BY <1>2, <2>1, <2>8, <2>10 DEF WithinLast
  <2> QED BY <2>9, <2>11 DEF PlacesHold
<1> QED BY <1>3, <1>4

LEMMA PartPlaces ==
  ASSUME PlacesInv, CommandLineInv', Part
  PROVE  PlacesHold'
<1> DEFINE w == Last(line)
           v == <<Len(line), piece>>
<1>1. CommandLineInv /\ CommandLineTypeOK /\ CommandLineTypeOK'
  BY DEF PlacesInv, CommandLineInv
<1>2. /\ ret = "parsing" /\ piece > 0 /\ w.kind = "long" /\ UNCHANGED <<names, line>>
      /\ Following(w.parts)
  BY DEF Part, Within
<1>3. line # <<>> /\ w \in Words /\ piece \in Pieces(w) /\ w.parts \in Nat /\ Pieces(w) = 0 .. w.parts
  BY <1>2, LastWord
<1>4. /\ v \in Nat \X Nat /\ line'[Len(line)] = w /\ Passed' = Passed \union {v}
      /\ \A p \in Passed : line'[p[1]] = line[p[1]] /\ Before(p, v)
  BY <1>1, <1>2, <1>3, PiecePassed
<1>5. v[1] = Len(line) /\ v[2] = piece
  OBVIOUS
<1>6. CASE option \in DOMAIN entries /\ ~Full(entries[option])
  <2>1. Take(v)
    BY <1>6 DEF Part
  <2> HIDE DEF v
  <2>2. PassesValue(v) /\ line'[v[1]].kind = "long"
    BY <1>1, <1>2, <1>4, <1>5, OneMorePlace
  <2>3. WordsPassed' = WordsPassed /\ WordsPassed' \subseteq ValuesPassed'
    BY <2>2 DEF PassesValue, ValuesPassed
  <2>4. DOMAIN entries' = DOMAIN entries /\ UNCHANGED ret
    BY <2>1 DEF Take
  <2>5. ~Confused' => PlacesSoFar'
    BY <1>1, <1>2, <1>6, <2>1, <2>2, <2>3, <2>4, SameOptions, TakeKeepsPlaces
       DEF PlacesInv, PlacesHold
  <2>6. piece' > 0 => piece' \in Pieces(w)
    BY <1>2, <1>3, FollowingPiece
  <2>7. WithinLast'
    BY <1>2, <1>3, <2>4, <2>6 DEF WithinLast
  <2> QED BY <2>5, <2>7 DEF PlacesHold
<1>7. CASE ~(option \in DOMAIN entries /\ ~Full(entries[option]))
  <2>1. UNCHANGED <<entries, singles, option, ret>>
    BY <1>7 DEF Part
  <2> HIDE DEF v
  <2>2. PassesValue(v) /\ line'[v[1]].kind = "long"
    BY <1>1, <1>2, <1>4, <1>5, OneMorePlace
  <2>3. WordsPassed' = WordsPassed
    BY <2>2 DEF PassesValue
  <2>4. ~Confused' => PlacesSoFar'
    BY <1>1, <1>2, <1>7, <2>1, <2>2, <2>3, SameOptions, NoneWantsMore, LostKeepsPlaces
       DEF PlacesInv, PlacesHold
  <2>5. piece' > 0 => piece' \in Pieces(w)
    BY <1>2, <1>3, FollowingPiece
  <2>6. WithinLast'
    BY <1>2, <1>3, <2>1, <2>5 DEF WithinLast
  <2> QED BY <2>4, <2>6 DEF PlacesHold
<1> QED BY <1>6, <1>7

\* Nothing is given when a parse begins.
LEMMA BeginParsePlaces ==
  ASSUME PlacesInv, CommandLineInv', BeginParse
  PROVE  PlacesHold'
<1>1. /\ line' = <<>> /\ piece' = 0 /\ option' = "" /\ ret' = "parsing"
      /\ UNCHANGED <<names, entries, singles>> /\ ret = "none"
  BY DEF BeginParse, PlacesInv, CommandLineInv, CommandLineTypeOK
<1>2. singles = <<>> /\ \A o \in DOMAIN entries : ~entries[o].specified
  BY <1>1 DEF PlacesInv, PlacesHold, WithinLast
<1>3. Passed' = {}
  <2>1. CommandLineTypeOK' /\ Len(line') = 0
    BY <1>1 DEF CommandLineInv
  <2>2. \A p \in Passed' : PassedAt(p[1], p[2])'
    BY <2>1, PassedPlacesNext DEF ArePlaces
  <2>3. \A i, k : ~PassedAt(i, k)'
    BY <2>1 DEF PassedAt
  <2> QED BY <2>2, <2>3
<1>4. WordsPassed' = {} /\ OptionsPassed' = {}
  BY <1>3 DEF WordsPassed, OptionsPassed
<1>5. OwnSoFar' /\ PassedAreGiven' /\ ValuesGoToLast'
  BY <1>1, <1>2, <1>4 DEF OwnSoFar, PassedAreGiven, ValuesGoToLast
<1>6. SinglesSoFar'
  BY <1>1, <1>2, <1>4, EmptyInOrder DEF SinglesSoFar
<1>7. WithinLast'
  <2>1. ret' = "parsing" /\ piece' = 0
    BY <1>1
  <2> QED BY <2>1 DEF WithinLast
<1> QED BY <1>5, <1>6, <1>7 DEF PlacesHold, PlacesSoFar

\* The check at the end moves nothing.
LEMMA UnmovedPlaces ==
  ASSUME PlacesInv, UNCHANGED <<names, entries, singles, line, piece, option>>,
         ret' = ret \/ (ret = "parsing" /\ piece = 0 /\ ret' # "none")
  PROVE  PlacesHold'
<1>1. Passed' = Passed /\ UNCHANGED line /\ UNCHANGED names
  BY DEF Passed
<1>2. PassesNothing
  BY <1>1, NoMorePlaces
<1>3. PlacesSoFar => PlacesSoFar'
  BY <1>2, NothingKeepsPlaces
<1>4. ret' \in {"parsing", "OK"} => ret \in {"parsing", "OK"}
  OBVIOUS
<1>5. WithinLast'
  BY DEF PlacesInv, PlacesHold, WithinLast
<1> QED BY <1>3, <1>4, <1>5, SameOptions DEF PlacesInv, PlacesHold

\* Outside of a parse nothing is given.
LEMMA OutsidePlaces ==
  ASSUME PlacesInv, ret' = "none", singles' = <<>>, UNCHANGED piece, ret # "parsing",
         \A o \in DOMAIN entries' : ~entries'[o].specified
  PROVE  PlacesHold'
BY DEF PlacesInv, PlacesHold, WithinLast

LEMMA LearnPlaces ==
  ASSUME PlacesInv, NEW o \in Options, LearnOption(o) \/ LearnOptions(o)
  PROVE  PlacesHold'
<1>1. PICK fixed \in {o.fixed, TRUE} : entries' = Inserted(entries, o.short, Entry(o, fixed))
  BY DEF LearnOption, LearnOptions
<1>2. ret = "none" /\ ret' = ret /\ singles' = singles /\ UNCHANGED piece
  BY DEF PlacesInv, CommandLineInv, CommandLineTypeOK, LearnOption, LearnOptions
<1>3. ~Entry(o, fixed).specified
  BY DEF Entry
<1>4. \A x \in DOMAIN entries : ~entries[x].specified
  BY <1>2 DEF PlacesInv, PlacesHold, WithinLast
<1>5. \A x \in DOMAIN entries' : ~entries'[x].specified
  BY <1>1, <1>3, <1>4 DEF Inserted
<1>6. singles = <<>>
  BY <1>2 DEF PlacesInv, PlacesHold, WithinLast
<1> QED BY <1>2, <1>5, <1>6, OutsidePlaces

LEMMA ResetPlaces ==
  ASSUME PlacesInv, Reset
  PROVE  PlacesHold'
<1>1. /\ ret # "parsing" /\ ret' = "none" /\ singles' = <<>> /\ UNCHANGED piece
      /\ entries' = Unspecified(entries)
  BY DEF Reset
<1>2. ASSUME NEW o \in DOMAIN entries' PROVE ~entries'[o].specified
  <2>1. o \in DOMAIN entries /\ entries'[o] = [entries[o] EXCEPT !.values = <<>>, !.specified = FALSE]
    BY <1>1 DEF Unspecified
  <2>2. entries[o] \in OptionEntries
    BY <2>1, EntryFields DEF PlacesInv, CommandLineInv
  <2> QED BY <2>1, <2>2 DEF OptionEntries
<1> QED BY <1>1, <1>2, OutsidePlaces

LEMMA PlacesInitHolds == CommandLineInit => PlacesInv
<1> SUFFICES ASSUME CommandLineInit PROVE PlacesInv
  OBVIOUS
<1>1. CommandLineInv
  BY CommandLineInitHolds
<1>2. ret = "none" /\ piece = 0 /\ singles = <<>> /\ DOMAIN entries = {}
  BY DEF CommandLineInit, Empty
<1>3. PlacesHold
  BY <1>2 DEF PlacesHold, WithinLast
<1> QED BY <1>1, <1>3 DEF PlacesInv

LEMMA PlacesNextHolds ==
  PlacesInv /\ [CommandLineNext]_commandline_vars => PlacesInv'
<1> SUFFICES ASSUME PlacesInv, [CommandLineNext]_commandline_vars PROVE PlacesInv'
  OBVIOUS
<1>0. CommandLineInv'
  BY CommandLineNextHolds DEF PlacesInv
<1>1. ASSUME NEW o \in Options, LearnOption(o) \/ LearnOptions(o) PROVE PlacesHold'
  BY <1>1, LearnPlaces
<1>2. ASSUME NEW w \in Words, \/ TakeValue(w) \/ TakeDashes(w) \/ TakeMalformed(w)
                              \/ TakeCluster(w) \/ TakeLong(w)
      PROVE  PlacesHold'
  BY <1>0, <1>2, TakeValuePlaces, TakeOtherPlaces, TakeLongPlaces
<1>3. ASSUME EndParse PROVE PlacesHold'
  BY <1>3, UnmovedPlaces DEF EndParse
<1>4. ASSUME UNCHANGED commandline_vars PROVE PlacesHold'
  BY <1>4, UnmovedPlaces DEF commandline_vars
<1>5. PlacesHold'
  BY <1>0, <1>1, <1>2, <1>3, <1>4, BeginParsePlaces, LetterPlaces, PartPlaces, ResetPlaces
     DEF CommandLineNext
<1> QED BY <1>0, <1>5 DEF PlacesInv

\* Whatever options were learned and whatever the words of a line are, in a parse that
\* succeeded no value is lost, doubled, out of order or with an option it was not
\* offered to: an option has what it was offered up to where it wanted no more, and the
\* single parameters are the words no option has.
THEOREM ValuesArePlaced == CommandLineSpec => []ValuesGoToTheirOption
<1>1. PlacesInv => ValuesGoToTheirOption
  BY DEF PlacesInv, PlacesHold, PlacesSoFar, OwnSoFar, SinglesSoFar, ValuesGoToTheirOption
<1> QED BY <1>1, PlacesInitHolds, PlacesNextHolds, PTL DEF CommandLineSpec
=============================================================================
