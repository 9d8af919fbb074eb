----------------------------- MODULE MCRecvPath -----------------------------
(***************************************************************************)
(* Four packets, each with a header of two bytes, through a buffer of five *)
(* bytes: packets that fill the buffer, that end at its end, that arrive   *)
(* with and without their header whole.                                    *)
(***************************************************************************)
EXTENDS RecvPath

MCEnds == <<3, 5, 10, 13>>

=============================================================================
