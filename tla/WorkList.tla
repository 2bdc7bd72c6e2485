------------------------------- MODULE WorkList -------------------------------
(***************************************************************************)
(* What a MemQ work queue promises to whoever puts work items into it: an  *)
(* item is worked on by one worker at most, is done at most once, never    *)
(* comes back once it was taken, and a worker has one item at a time.      *)
(* It does not promise that an item is done: it may be lost at any moment, *)
(* while it waits (with its queue) or with the worker that took it.        *)
(***************************************************************************)
EXTENDS Naturals

CONSTANTS Items, Workers

VARIABLES
  where,    \* of each item: its stage, or the worker it was given to
  done      \* how often it was worked off

Init == /\ where = [i \in Items |-> "new"]
        /\ done = [i \in Items |-> 0]

Accept(i) ==
  /\ where[i] = "new"
  /\ where' = [where EXCEPT ![i] = "waiting"]
  /\ UNCHANGED done

Take(w, i) ==
  /\ where[i] = "waiting"
  /\ \A j \in Items : where[j] # w
  /\ where' = [where EXCEPT ![i] = w]
  /\ UNCHANGED done

Finish(i) ==
  /\ where[i] \in Workers
  /\ where' = [where EXCEPT ![i] = "done"]
  /\ done' = [done EXCEPT ![i] = @ + 1]

(* The items in lost are gone, all at once. *)
Lose(lost) ==
  /\ \A i \in lost : where[i] # "done"
  /\ where' = [i \in Items |-> IF i \in lost THEN "gone" ELSE where[i]]
  /\ UNCHANGED done

Next ==
  \/ \E i \in Items : Accept(i) \/ Finish(i) \/ \E w \in Workers : Take(w, i)
  \/ \E lost \in SUBSET Items : Lose(lost)

Spec == Init /\ [][Next]_<<where, done>>

=============================================================================
