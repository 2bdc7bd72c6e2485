------------------------------- MODULE Probe -------------------------------
(***************************************************************************)
(* The debug probes of kuard (pkg/debugprobe): each of /healthy and /ready *)
(* is a Probe that is told how many of its next calls to fail, and keeps a *)
(* history of its answers.                                                 *)
(*                                                                         *)
(* A caller is a goroutine of net/http with one request of some client.    *)
(* Every handler works under p.mu; its critical section is one step, but   *)
(* Handle has two (the decision, and the record of it) and APIPut has two  *)
(* critical sections.  A PUT whose body cannot be decoded changes nothing  *)
(* and has no action.                                                      *)
(***************************************************************************)
EXTENDS Integers, Sequences

CONSTANTS
  Callers,      \* goroutines that serve requests
  Nil,          \* no goroutine
  Probes,       \* the probes of the process
  Flags,        \* values of the fail-next flags of the command line
  FailNexts,    \* values of failNext that clients PUT
  maxHistory,   \* entries of history kept
  IDs,          \* bound: the history IDs start over at this
  MaxPuts       \* bound: number of PUT requests

ASSUME ProbeAssumption ==
  /\ Nil \notin Callers
  /\ Flags \subseteq Int /\ FailNexts \subseteq Int
  /\ maxHistory \in Nat /\ IDs \in Nat /\ IDs > maxHistory
  /\ MaxPuts \in Nat

VARIABLES
  flag,                          \* of each probe: its fail-next flag
  failNext, history, lastID, mu, \* of each probe: its fields
  pc,                            \* of each caller: where it is
  req,                           \* its request: probe, operation, value PUT
  code,                          \* the status it will answer with
  puts,                          \* number of PUT requests
  \* History variables: no step reads them.
  granted,    \* of each probe: FailNext as it was last set
  spent       \* failures recorded since, up to one too many

probeVars == <<flag, failNext, history, lastID, mu, granted, spent>>
vars      == <<probeVars, pc, req, code, puts>>

NextID(i) == IF i + 1 < IDs THEN i + 1 ELSE 0

NoReq == [probe |-> Nil, op |-> "none", n |-> 0]

Init ==
  /\ flag \in [Probes -> Flags]
  /\ failNext = flag
  /\ history = [k \in Probes |-> <<>>]
  /\ lastID = [k \in Probes |-> 0]
  /\ mu = [k \in Probes |-> Nil]
  /\ pc = [p \in Callers |-> "idle"]
  /\ req = [p \in Callers |-> NoReq]
  /\ code = [p \in Callers |-> 0]
  /\ puts = 0
  /\ granted = flag
  /\ spent = [k \in Probes |-> 0]

Goto(p, l)   == pc' = [pc EXCEPT ![p] = l]
Inside(p, op) == pc[p] = "in" /\ req[p].op = op
Unlock(k)    == mu' = [mu EXCEPT ![k] = Nil]

-----------------------------------------------------------------------------
(* A request arrives: GET of the probe (handle) or of its api (get). *)
Ask(p, k, op) ==
  /\ pc[p] = "idle"
  /\ req' = [req EXCEPT ![p] = [probe |-> k, op |-> op, n |-> 0]]
  /\ Goto(p, "lock")
  /\ UNCHANGED <<probeVars, code, puts>>

AskPut(p, k, n) ==
  /\ pc[p] = "idle"
  /\ puts < MaxPuts
  /\ puts' = puts + 1
  /\ req' = [req EXCEPT ![p] = [probe |-> k, op |-> "put", n |-> n]]
  /\ Goto(p, "lock")
  /\ UNCHANGED <<probeVars, code>>

Lock(p) ==
  /\ pc[p] = "lock"
  /\ mu[req[p].probe] = Nil
  /\ mu' = [mu EXCEPT ![req[p].probe] = p]
  /\ Goto(p, "in")
  /\ UNCHANGED <<flag, failNext, history, lastID, granted, spent, req, code, puts>>

(* An operator whose name begins with Bad is a mistake on purpose: put in   *)
(* the place of the definition after it, it makes a property fail.          *)

(* The assignment without the lock. *)
BadSetConfig(p) ==
  /\ pc[p] = "lock" /\ req[p].op = "put"
  /\ LET k == req[p].probe
     IN /\ failNext' = [failNext EXCEPT ![k] = req[p].n]
        /\ granted' = [granted EXCEPT ![k] = req[p].n]
        /\ spent' = [spent EXCEPT ![k] = 0]
  /\ req' = [req EXCEPT ![p].op = "get", ![p].n = 0]
  /\ UNCHANGED <<flag, history, lastID, mu, pc, code, puts>>

(* SetConfig; the APIGet that follows locks anew. *)
SetConfig(p) ==
  /\ Inside(p, "put")
  /\ LET k == req[p].probe
     IN /\ failNext' = [failNext EXCEPT ![k] = req[p].n]
        /\ granted' = [granted EXCEPT ![k] = req[p].n]
        /\ spent' = [spent EXCEPT ![k] = 0]
        /\ Unlock(k)
  /\ req' = [req EXCEPT ![p].op = "get", ![p].n = 0]
  /\ Goto(p, "lock")
  /\ UNCHANGED <<flag, history, lastID, code, puts>>

(* lockedGet only reads. *)
APIGet(p) ==
  /\ Inside(p, "get")
  /\ code' = [code EXCEPT ![p] = 200]
  /\ Unlock(req[p].probe)
  /\ Goto(p, "done")
  /\ UNCHANGED <<flag, failNext, history, lastID, granted, spent, req, puts>>

(* "Fail for ever" counts down, too. *)
BadCountDown(n) == IF n # 0 THEN n - 1 ELSE n

CountDown(n) == IF n > 0 THEN n - 1 ELSE n

(* FailNext stays. *)
BadHandle(p) ==
  /\ Inside(p, "handle")
  /\ code' = [code EXCEPT ![p] = IF failNext[req[p].probe] # 0 THEN 500 ELSE 200]
  /\ Goto(p, "record")
  /\ UNCHANGED <<flag, failNext, history, lastID, mu, granted, spent, req, puts>>

Handle(p) ==
  /\ Inside(p, "handle")
  /\ LET k == req[p].probe
     IN /\ code' = [code EXCEPT ![p] = IF failNext[k] # 0 THEN 500 ELSE 200]
        /\ failNext' = [failNext EXCEPT ![k] = CountDown(@)]
  /\ Goto(p, "record")
  /\ UNCHANGED <<flag, history, lastID, mu, granted, spent, req, puts>>



LastOf(s, n) == IF Len(s) > n THEN SubSeq(s, Len(s) - n + 1, Len(s)) ELSE s

RecordRequest(p) ==
  /\ pc[p] = "record"
  /\ LET k == req[p].probe
         id == NextID(lastID[k])
     IN /\ lastID' = [lastID EXCEPT ![k] = id]
        /\ history' = [history EXCEPT ![k] =
                         LastOf(Append(@, [ID |-> id, Code |-> code[p]]), maxHistory)]
        /\ spent' = [spent EXCEPT ![k] =
                       IF code[p] = 500 /\ @ <= granted[k] THEN @ + 1 ELSE @]
        /\ Unlock(k)
  /\ Goto(p, "done")
  /\ UNCHANGED <<flag, failNext, granted, req, code, puts>>

Finish(p) ==
  /\ pc[p] = "done"
  /\ Goto(p, "idle")
  /\ req' = [req EXCEPT ![p] = NoReq]
  /\ code' = [code EXCEPT ![p] = 0]
  /\ UNCHANGED <<probeVars, puts>>

-----------------------------------------------------------------------------
Visit(p) ==
  \E k \in Probes : \/ \E op \in {"handle", "get"} : Ask(p, k, op)
                    \/ \E n \in FailNexts : AskPut(p, k, n)

Serve(p) == SetConfig(p) \/ APIGet(p) \/ Handle(p) \/ RecordRequest(p)

Next == \E p \in Callers : Visit(p) \/ Lock(p) \/ Serve(p) \/ Finish(p)

Spec == Init /\ [][Next]_vars

-----------------------------------------------------------------------------
(* PROPERTIES *)

Entries == [ID : 0..IDs-1, Code : {200, 500}]

(* The fields of the probes and the locals of their handlers.  FailNext     *)
(* never leaves the range between what was configured and zero.             *)
TypeOK ==
  /\ flag \in [Probes -> Flags]
  /\ granted \in [Probes -> Flags \cup FailNexts]
  /\ failNext \in [Probes -> Int]
  /\ \A k \in Probes : failNext[k] = granted[k] \/ failNext[k] \in 0..granted[k]
  /\ history \in [Probes -> Seq(Entries)]
  /\ lastID \in [Probes -> 0..IDs-1]
  /\ mu \in [Probes -> Callers \cup {Nil}]
  /\ pc \in [Callers -> {"idle", "lock", "in", "record", "done"}]
  /\ req \in [Callers -> [probe : Probes \cup {Nil}, op : {"none", "handle", "get", "put"},
                          n : FailNexts \cup {0}]]
  /\ code \in [Callers -> {0, 200, 500}]
  /\ puts \in 0..MaxPuts
  /\ spent \in [Probes -> Nat]

(* A probe that is set to n > 0 records n failures and then successes, one  *)
(* that is set to n < 0 fails for ever, whoever calls it and however PUTs   *)
(* and calls overlap: each failure on record took one from FailNext.        *)
FailsAsConfigured ==
  \A k \in Probes : mu[k] = Nil =>
    failNext[k] = IF granted[k] > 0 THEN granted[k] - spent[k] ELSE granted[k]

(* The history that a GET shows has the latest calls, each one once and in  *)
(* the order of their IDs.                                                  *)
HistoryConsecutive ==
  \A k \in Probes : mu[k] = Nil =>
    LET h == history[k]
    IN /\ Len(h) <= maxHistory
       /\ \A i \in 1..Len(h)-1 : h[i+1].ID = NextID(h[i].ID)
       /\ h # <<>> => h[Len(h)].ID = lastID[k]

=============================================================================
