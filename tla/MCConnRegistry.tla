--------------------------- MODULE MCConnRegistry ---------------------------
(* Two names of clients, one upstream server whose name a client may report  *)
(* too; three places in the listener's poller, one of them the listening    *)
(* connection.                                                              *)
EXTENDS ConnRegistry

MCObjects == 1 .. 5
MCFds == 1 .. 4
MCGroup == <<"c1", "upstream", "c2">>
=============================================================================
