------------------------------ MODULE MCKeyGen ------------------------------
(* KeyGen on small instances. *)
EXTENDS KeyGen, TLC

Cfg(enable, num, time, memq, exit) ==
  [enable |-> enable, num |-> num, time |-> time, memq |-> memq, exit |-> exit]

(* A number of keys that is zero or negative is no limit. *)
Off     == Cfg(FALSE, 0, FALSE, FALSE, FALSE)
OneKey  == Cfg(TRUE, 1, FALSE, FALSE, TRUE)
Forever == Cfg(TRUE, -1, FALSE, FALSE, FALSE)
Timed   == Cfg(TRUE, -1, TRUE, FALSE, TRUE)
FromMemQ == Cfg(TRUE, 0, FALSE, TRUE, FALSE)
EmptyMemQ == Cfg(TRUE, 0, FALSE, TRUE, TRUE)

AllKinds  == {Off, OneKey, Timed, FromMemQ, EmptyMemQ}
PlainOnly == {Forever, OneKey, Timed}

Symmetry == Permutations(Callers)

=============================================================================
