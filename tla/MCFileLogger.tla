---------------------------- MODULE MCFileLogger ----------------------------
(* Months of two days, files of one or two lines, two processes.            *)
EXTENDS FileLogger

SomeBases == {"x", "y"}
=============================================================================
