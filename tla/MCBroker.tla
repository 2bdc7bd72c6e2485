------------------------------ MODULE MCBroker ------------------------------
(* Broker on small instances: the clients are interchangeable, and so are   *)
(* the queue names.                                                         *)
EXTENDS Broker, TLC

Symmetry == Permutations(Clients) \cup Permutations(Names)

=============================================================================
