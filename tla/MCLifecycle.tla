---------------------------- MODULE MCLifecycle ----------------------------
(* Every build with a network and every kind of configuration.              *)
EXTENDS Lifecycle

MCBuilds == {b \in [accepts : BOOLEAN, upstream : BOOLEAN] : b.accepts \/ b.upstream}
MCConfigs == [upstream : BOOLEAN, file_log : BOOLEAN]
=============================================================================
