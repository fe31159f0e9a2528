-------------------------- MODULE MCMitmSupervisor --------------------------
(***************************************************************************)
(* MitmSupervisor for TLC.  The settings a service may start with are cut  *)
(* down to two from which one command reaches the others: a server set by  *)
(* setopt, switched on with the default port or off with another port.     *)
(***************************************************************************)
EXTENDS MitmSupervisor

MCInit ==
    /\ Init
    /\ conf.type = "option"
    /\ conf.enable <=> conf.port = DefaultPort

MCSpec == MCInit /\ [][Next]_vars /\ Fairness

=============================================================================
