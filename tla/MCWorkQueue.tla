----------------------------- MODULE MCWorkQueue -----------------------------
(* WorkQueue on small instances.  In OnePod the workers of one process take *)
(* turns: a PUT cancels one and starts the other.  In OneLocal one of them  *)
(* draws from the broker of its own process.                                *)
EXTENDS WorkQueue, TLC

OnePod   == [w \in Workers |-> "pod"]
OneLocal == [w \in Workers |-> IF w = "local" THEN "server" ELSE "pod"]

Symmetry == Permutations(Workers)

=============================================================================
