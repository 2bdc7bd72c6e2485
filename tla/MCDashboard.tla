----------------------------- MODULE MCDashboard -----------------------------
(* Dashboard on small instances. *)
EXTENDS Dashboard, TLC

ThreePages == [p \in Pages |-> IF p = "keygen" THEN "KeyGen"
                               ELSE IF p = "memq" THEN "MemQ" ELSE "Probe"]

=============================================================================
