----------------------------- MODULE MCSnapshots -----------------------------
(* Snapshots on a small instance: two snapshots of one volume, one of none. *)
EXTENDS Snapshots, TLC

SharedVolume == [s \in Ids |-> IF s = "bare" THEN NoVolume ELSE "vol"]

=============================================================================
