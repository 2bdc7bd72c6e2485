------------------------------- MODULE MCPod -------------------------------
(* Pod on a small instance: both probes of one pod, each told by its flag   *)
(* to fail once.                                                            *)
EXTENDS Pod

TwoProbes  == {"healthy", "ready"}
OneFailure == {1}
ForeverOr1 == {-1, 1}

=============================================================================
