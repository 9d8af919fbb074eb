----------------------------- MODULE MCMainLoop -----------------------------
(***************************************************************************)
(* Three signals as the table has them: one that asks the program to exit  *)
(* (SIGTERM), one that does not (SIGUSR2), one handled automatically       *)
(* (SIGSEGV), registered in another order than they are visited.           *)
(***************************************************************************)
EXTENDS MainLoop

MCTable == <<3, 1, 2>>
MCConfig == [s \in 1 .. 3 |-> CASE s = 1 -> [handler |-> TRUE, hint |-> FALSE, auto |-> FALSE]
                                [] s = 2 -> [handler |-> TRUE, hint |-> TRUE, auto |-> TRUE]
                                [] s = 3 -> [handler |-> TRUE, hint |-> TRUE, auto |-> FALSE]]
=============================================================================
