----------------------------- MODULE Pod_proofs -----------------------------
(***************************************************************************)
(* Theorems about Pod, for any number of callers, any failureThreshold and *)
(* any values PUT.                                                         *)
(*                                                                         *)
(* A step of the pod is a step of the probes, a verdict of the kubelet or  *)
(* the start of a new process, so the inductive invariant of Probe carries *)
(* over.  RestartEarned is strengthened to an account of every failure     *)
(* that was asked for: it is counted by the kubelet, on its way to it,     *)
(* still to be served, or gone to somebody else (AccountInv).              *)
(***************************************************************************)
EXTENDS Pod, Probe_proofs

(* The answer that a goroutine has decided on. *)
Answered(p) ==
  /\ pc[p] \in {"idle", "lock", "in"} => code[p] = 0
  /\ pc[p] = "done" => code[p] \in {200, 500}

(* The kubelet waits for goroutines that serve its probe. *)
WaitingFor(k) ==
  LET p == waiting[k]
  IN p # Nil => pc[p] # "idle" /\ req[p].probe = k /\ req[p].op = "handle"

KubeletInv == (\A p \in Callers : Answered(p)) /\ (\A k \in Probes : WaitingFor(k))

OnItsWay ==
  LET p == waiting["healthy"]
  IN IF p # Nil /\ code[p] = 500 THEN 1 ELSE 0

AccountInv ==
  \/ forever
  \/ /\ failNext["healthy"] >= 0
     /\ failures["healthy"] + OnItsWay + failNext["healthy"] <= asked + timeouts

PodIInv == IInv /\ PodTypeOK /\ KubeletInv /\ AccountInv

-----------------------------------------------------------------------------
LEMMA PositiveNat == ASSUME NEW n \in Int PROVE Positive(n) \in Nat /\ Positive(n) >= n
BY DEF Positive

(* Every kind of step but the start of a process is one of the probes. *)
LEMMA StepOfProbe ==
  ASSUME TypeOK, PodTypeOK, [PodNext]_allVars, ~Restart
  PROVE  [Next]_vars
<1>1. CASE UNCHANGED allVars
  BY <1>1 DEF allVars
<1>2. ASSUME NEW p \in Callers, Visitor(p) PROVE Next
  BY <1>2 DEF Visitor, Next
<1>3. ASSUME NEW p \in Callers, Process(p) PROVE Next
  BY <1>3 DEF Process, Next
<1>4. ASSUME NEW k \in Probes, NEW p \in Callers, Call(k, p) PROVE Next
  BY <1>4 DEF Call, Next, Visit
<1>5. ASSUME NEW k \in Probes, Result(k) PROVE Next
  <2>1. waiting[k] \in Callers
    BY <1>5 DEF Result, PodTypeOK
  <2> QED BY <1>5, <2>1 DEF Result, Next
<1>6. ASSUME NEW k \in Probes, Timeout(k) PROVE UNCHANGED vars
  BY <1>6 DEF Timeout
<1> QED BY <1>1, <1>2, <1>3, <1>4, <1>5, <1>6 DEF PodNext, Exit, Kill

(* A new process is in an initial state of the probes. *)
LEMMA RestartIInv == TypeOK /\ Restart => IInv'
<1>1. TypeOK /\ Restart => Fresh'
  BY DEF Restart, Configured, TypeOK, Fresh
<1>2. Fresh' => IInv'
  BY FreshIInv, PTL
<1> QED BY <1>1, <1>2

-----------------------------------------------------------------------------
(* ONE STEP *)

LEMMA InitPodIInv == PodInit => PodIInv
<1> SUFFICES ASSUME PodInit PROVE PodIInv
  OBVIOUS
<1> USE ProbeAssumption, PodAssumption
<1>1. IInv
  BY FreshIInv DEF PodInit, Init, Fresh
<1>2. flag["healthy"] \in Int /\ failNext["healthy"] = flag["healthy"]
  BY DEF PodInit, Init
<1>3. PodTypeOK
  <2>1. asked \in Nat
    BY <1>2, PositiveNat DEF PodInit
  <2>2. ready \in BOOLEAN /\ forever \in BOOLEAN
    <3>1. ready = FALSE /\ forever = (flag["healthy"] < 0)
      BY DEF PodInit
    <3>2. (flag["healthy"] < 0) \in BOOLEAN
      BY <1>2
    <3> QED BY <3>1, <3>2
  <2>3. /\ waiting \in [Probes -> Callers \cup {Nil}]
        /\ failures \in [Probes -> 0..failureThreshold]
        /\ timeouts \in 0..MaxTimeouts /\ exits \in 0..MaxExits
    BY DEF PodInit
  <2> QED BY <1>1, <2>1, <2>2, <2>3 DEF PodTypeOK, IInv
<1>4. KubeletInv
  BY DEF PodInit, Init, KubeletInv, Answered, WaitingFor
<1>5. AccountInv
  <2>1. OnItsWay = 0 /\ failures["healthy"] = 0 /\ timeouts = 0
    BY DEF PodInit, OnItsWay
  <2>2. asked = Positive(flag["healthy"]) /\ (flag["healthy"] < 0 => forever)
    BY DEF PodInit
  <2> QED BY <1>2, <2>1, <2>2 DEF AccountInv, Positive
<1> QED BY <1>1, <1>3, <1>4, <1>5 DEF PodIInv

LEMMA RestartPodIInv ==
  PodIInv /\ Restart /\ exits' \in 0..MaxExits => PodIInv'
<1> SUFFICES ASSUME PodIInv, Restart, exits' \in 0..MaxExits
             PROVE  PodIInv'
  OBVIOUS
<1> USE ProbeAssumption, PodAssumption
<1>1. IInv'
  BY RestartIInv DEF PodIInv, IInv
<1>2. failNext'["healthy"] \in Int
  BY <1>1 DEF IInv, TypeOK
<1>3. PodTypeOK'
  <2>1. asked' \in Nat
    BY <1>2, PositiveNat DEF Restart
  <2>2. ready' \in BOOLEAN /\ forever' \in BOOLEAN
    <3>1. ready' = FALSE /\ forever' = (failNext'["healthy"] < 0)
      BY DEF Restart
    <3>2. (failNext'["healthy"] < 0) \in BOOLEAN
      BY <1>2
    <3> QED BY <3>1, <3>2
  <2>3. /\ waiting' \in [Probes -> Callers \cup {Nil}]
        /\ failures' \in [Probes -> 0..failureThreshold]
        /\ timeouts' \in 0..MaxTimeouts
    BY DEF Restart, PodIInv, PodTypeOK
  <2> QED BY <1>1, <2>1, <2>2, <2>3 DEF PodTypeOK, IInv
<1>4. KubeletInv'
  BY DEF Restart, KubeletInv, Answered, WaitingFor
<1>5. AccountInv'
  <2>1. OnItsWay' = 0 /\ failures'["healthy"] = 0 /\ timeouts' \in Nat
    BY DEF Restart, OnItsWay, PodIInv, PodTypeOK
  <2>2. /\ asked' = Positive(failNext'["healthy"])
        /\ failNext'["healthy"] < 0 => forever'
    BY DEF Restart
  <2> QED BY <1>2, <2>1, <2>2 DEF AccountInv, Positive
<1> QED BY <1>1, <1>3, <1>4, <1>5 DEF PodIInv

LEMMA JudgeType ==
  ASSUME PodTypeOK, NEW k \in Probes, NEW ok \in BOOLEAN, Judge(k, ok)
  PROVE  /\ waiting' \in [Probes -> Callers \cup {Nil}]
         /\ failures' \in [Probes -> 0..failureThreshold]
         /\ ready' \in BOOLEAN
<1>1. waiting' \in [Probes -> Callers \cup {Nil}]
  BY DEF PodTypeOK, Judge
<1>2. failures' \in [Probes -> 0..failureThreshold]
  BY PodAssumption DEF PodTypeOK, Judge
<1>3. ready' \in BOOLEAN
  <2>1. /\ k # "ready" => ready' = ready
        /\ k = "ready" => ready' = (ok \/ (ready /\ failures'[k] < failureThreshold))
    BY DEF Judge
  <2> QED BY <2>1, Zenon DEF PodTypeOK
<1> QED BY <1>1, <1>2, <1>3

LEMMA PodTypeStep == PodIInv /\ [PodNext]_allVars /\ ~Restart => PodTypeOK'
<1> SUFFICES ASSUME PodIInv, [PodNext]_allVars, ~Restart PROVE PodTypeOK'
  OBVIOUS
<1>t. TypeOK'
  BY StepOfProbe, InvStep DEF PodIInv, IInv
<1>p. PodTypeOK
  BY DEF PodIInv
<1> USE PodAssumption
<1>1. CASE UNCHANGED allVars
  BY <1>1, <1>t, <1>p DEF allVars, podVars, kubeletVars, ghosts, PodTypeOK
<1>2. ASSUME NEW p \in Callers, Visitor(p) PROVE PodTypeOK'
  BY <1>2, <1>t, <1>p DEF Visitor, podVars, kubeletVars, ghosts, PodTypeOK
<1>3. ASSUME NEW p \in Callers, Process(p) PROVE PodTypeOK'
  <2>1. Inside(p, "put") => req[p].n \in Int
    BY ProbeAssumption DEF PodIInv, IInv, CallInv, WellPlaced, Inside
  <2>2. asked' \in Nat
    BY <1>3, <1>p, <2>1, PositiveNat DEF Process, ghosts, PodTypeOK
  <2>3. forever' \in BOOLEAN
    <3>1. \/ forever' = (forever \/ req[p].n < 0)
          \/ forever' = forever
      BY <1>3 DEF Process, ghosts
    <3> QED BY <1>p, <3>1, Zenon DEF PodTypeOK
  <2> QED BY <1>3, <1>t, <1>p, <2>2, <2>3 DEF Process, kubeletVars, PodTypeOK
<1>4. ASSUME NEW k \in Probes, NEW p \in Callers, Call(k, p) PROVE PodTypeOK'
  BY <1>4, <1>t, <1>p DEF Call, ghosts, PodTypeOK
<1>5. ASSUME NEW k \in Probes, Result(k) PROVE PodTypeOK'
  BY <1>5, <1>t, <1>p, JudgeType DEF Result, ghosts, PodTypeOK
<1>6. ASSUME NEW k \in Probes, Timeout(k) PROVE PodTypeOK'
  <2>1. timeouts' \in 0..MaxTimeouts
    BY <1>6, <1>p DEF Timeout, PodTypeOK
  <2> QED BY <1>6, <1>t, <1>p, <2>1, JudgeType DEF Timeout, ghosts, PodTypeOK
<1> QED BY <1>1, <1>2, <1>3, <1>4, <1>5, <1>6 DEF PodNext, Exit, Kill

(* Who answers the kubelet goes on doing so until the verdict. *)
LEMMA KubeletStep == PodIInv /\ [PodNext]_allVars /\ ~Restart => KubeletInv'
<1> SUFFICES ASSUME PodIInv, [PodNext]_allVars, ~Restart PROVE KubeletInv'
  OBVIOUS
<1> USE ProbeAssumption
<1>t. /\ waiting \in [Probes -> Callers \cup {Nil}]
      /\ pc \in [Callers -> {"idle", "lock", "in", "record", "done"}]
      /\ code \in [Callers -> {0, 200, 500}]
      /\ req \in [Callers -> Requests]
  BY DEF PodIInv, PodTypeOK, TypeOK, Requests
<1>k. /\ \A p \in Callers : Answered(p)
      /\ \A k \in Probes : WaitingFor(k)
  BY DEF PodIInv, KubeletInv
<1>w. \A p \in Callers : pc[p] = "record" => code[p] \in {200, 500}
  BY DEF PodIInv, IInv, CallInv, WellPlaced
<1>1. CASE UNCHANGED allVars
  BY <1>1, <1>k DEF allVars, vars, podVars, kubeletVars, KubeletInv, Answered, WaitingFor
(* A goroutine that nobody waits for, or one that works on its request. *)
<1>a. ASSUME NEW p \in Callers, waiting' = waiting, Answered(p)',
             \A q \in Callers : q # p => /\ pc'[q] = pc[q] /\ code'[q] = code[q]
                                         /\ req'[q] = req[q],
             \A k \in Probes : waiting[k] = p /\ req[p].op = "handle" =>
               pc'[p] # "idle" /\ req'[p] = req[p]
      PROVE  KubeletInv'
  <2>1. ASSUME NEW q \in Callers PROVE Answered(q)'
    BY <1>a, <1>k DEF Answered
  <2>2. ASSUME NEW k \in Probes PROVE WaitingFor(k)'
    BY <1>a, <1>k, <1>t DEF WaitingFor
  <2> QED BY <2>1, <2>2 DEF KubeletInv
<1>2. ASSUME NEW p \in Callers, Visitor(p) PROVE KubeletInv'
  <2>0. waiting' = waiting
    BY <1>2 DEF Visitor, podVars, kubeletVars
  <2>1. CASE Visit(p)
    <3>1. /\ pc[p] = "idle" /\ pc' = [pc EXCEPT ![p] = "lock"] /\ code' = code
          /\ \A q \in Callers : q # p => req'[q] = req[q]
      BY <2>1, <1>t DEF Visit, Ask, AskPut, Goto
    <3>2. \A k \in Probes : waiting[k] # p
      BY <3>1, <1>k, <1>t DEF WaitingFor
    <3>3. Answered(p)'
      BY <3>1, <1>k, <1>t DEF Answered
    <3> QED BY <2>0, <3>1, <3>2, <3>3, <1>a, <1>t
  <2>2. CASE Finish(p) /\ ~Awaited(p)
    <3>1. Answered(p)'
      BY <2>2, <1>t DEF Finish, Goto, Answered
    <3>2. \A q \in Callers : q # p => /\ pc'[q] = pc[q] /\ code'[q] = code[q]
                                      /\ req'[q] = req[q]
      BY <2>2, <1>t DEF Finish, Goto
    <3>3. \A k \in Probes : waiting[k] # p
      BY <2>2 DEF Awaited
    <3> QED BY <2>0, <3>1, <3>2, <3>3, <1>a
  <2> QED BY <1>2, <2>1, <2>2 DEF Visitor
<1>3. ASSUME NEW p \in Callers, Process(p) PROVE KubeletInv'
  <2>0. waiting' = waiting
    BY <1>3 DEF Process, kubeletVars
  <2>1. CASE Lock(p)
    <3>1. /\ pc[p] = "lock" /\ pc' = [pc EXCEPT ![p] = "in"] /\ code' = code /\ req' = req
      BY <2>1 DEF Lock, Goto
    <3>2. Answered(p)'
      BY <3>1, <1>k, <1>t DEF Answered
    <3> QED BY <2>0, <3>1, <3>2, <1>a, <1>t
  <2>2. CASE SetConfig(p)
    <3>1. /\ pc[p] = "in" /\ pc' = [pc EXCEPT ![p] = "lock"] /\ code' = code
          /\ req[p].op = "put" /\ \A q \in Callers : q # p => req'[q] = req[q]
      BY <2>2, <1>t DEF SetConfig, Inside, Goto
    <3>2. Answered(p)'
      BY <3>1, <1>k, <1>t DEF Answered
    <3> QED BY <2>0, <3>1, <3>2, <1>a, <1>t
  <2>3. CASE APIGet(p)
    <3>1. /\ pc' = [pc EXCEPT ![p] = "done"] /\ code' = [code EXCEPT ![p] = 200]
          /\ req' = req
      BY <2>3 DEF APIGet, Goto
    <3>2. Answered(p)'
      BY <3>1, <1>t DEF Answered
    <3> QED BY <2>0, <3>1, <3>2, <1>a, <1>t
  <2>4. CASE Handle(p)
    <3>1. /\ pc' = [pc EXCEPT ![p] = "record"] /\ req' = req
          /\ \A q \in Callers : q # p => code'[q] = code[q]
      BY <2>4, <1>t DEF Handle, Goto
    <3>2. Answered(p)'
      BY <3>1, <1>t DEF Answered
    <3> QED BY <2>0, <3>1, <3>2, <1>a, <1>t
  <2>5. CASE RecordRequest(p)
    <3>1. /\ pc' = [pc EXCEPT ![p] = "done"] /\ code' = code /\ req' = req
          /\ pc[p] = "record"
      BY <2>5 DEF RecordRequest, Goto
    <3>2. Answered(p)'
      BY <3>1, <1>t, <1>w DEF Answered
    <3> QED BY <2>0, <3>1, <3>2, <1>a, <1>t
  <2> QED BY <1>3, <2>1, <2>2, <2>3, <2>4, <2>5 DEF Process, Serve
<1>4. ASSUME NEW j \in Probes, NEW p \in Callers, Call(j, p) PROVE KubeletInv'
  <2>1. /\ pc[p] = "idle" /\ pc' = [pc EXCEPT ![p] = "lock"] /\ code' = code
        /\ req' = [req EXCEPT ![p] = [probe |-> j, op |-> "handle", n |-> 0]]
        /\ waiting' = [waiting EXCEPT ![j] = p]
    BY <1>4 DEF Call, Ask, Goto
  <2>2. ASSUME NEW q \in Callers PROVE Answered(q)'
    BY <2>1, <1>k, <1>t DEF Answered
  <2>3. req'[p].probe = j /\ req'[p].op = "handle" /\ pc'[p] = "lock"
    BY <2>1, <1>t
  <2>4. ASSUME NEW k \in Probes PROVE WaitingFor(k)'
    <3>1. CASE k = j
      BY <2>1, <2>3, <3>1, <1>t DEF WaitingFor
    <3>2. CASE k # j
      <4>1. waiting'[k] = waiting[k] /\ waiting[k] # p
        BY <2>1, <3>2, <1>k, <1>t DEF WaitingFor
      <4> QED BY <2>1, <4>1, <1>k, <1>t DEF WaitingFor
    <3> QED BY <3>1, <3>2
  <2> QED BY <2>2, <2>4 DEF KubeletInv
<1>5. ASSUME NEW j \in Probes, Result(j) PROVE KubeletInv'
  <2> DEFINE p == waiting[j]
  <2>0. p \in Callers /\ req[p].probe = j
    BY <1>5, <1>t, <1>k DEF Result, WaitingFor
  <2>1. /\ Finish(p) /\ waiting' = [waiting EXCEPT ![j] = Nil]
    BY <1>5 DEF Result, Judge
  <2>2. ASSUME NEW q \in Callers PROVE Answered(q)'
    BY <2>0, <2>1, <1>k, <1>t DEF Answered, Finish, Goto
  <2>3. ASSUME NEW k \in Probes PROVE WaitingFor(k)'
    <3>1. CASE k = j
      BY <2>1, <3>1, <1>t DEF WaitingFor
    <3>2. CASE k # j
      <4>1. waiting'[k] = waiting[k] /\ waiting[k] # p
        BY <2>0, <2>1, <3>2, <1>k, <1>t DEF WaitingFor
      <4> QED BY <2>1, <4>1, <1>k, <1>t DEF WaitingFor, Finish, Goto
    <3> QED BY <3>1, <3>2
  <2> QED BY <2>2, <2>3 DEF KubeletInv
<1>6. ASSUME NEW j \in Probes, Timeout(j) PROVE KubeletInv'
  <2>1. /\ waiting' = [waiting EXCEPT ![j] = Nil]
        /\ pc' = pc /\ code' = code /\ req' = req
    BY <1>6 DEF Timeout, Judge, vars
  <2> QED BY <2>1, <1>k, <1>t DEF KubeletInv, Answered, WaitingFor
<1> QED BY <1>1, <1>2, <1>3, <1>4, <1>5, <1>6 DEF PodNext, Exit, Kill

(* A failure of /healthy moves from failNext to an answer and from there to *)
(* the kubelet's count, or is lost to a visitor; none is made up.           *)
LEMMA AccountStep == PodIInv /\ [PodNext]_allVars /\ ~Restart => AccountInv'
<1> SUFFICES ASSUME PodIInv, [PodNext]_allVars, ~Restart PROVE AccountInv'
  OBVIOUS
<1> USE ProbeAssumption, PodAssumption
<1> DEFINE h == "healthy"
<1>t. /\ waiting \in [Probes -> Callers \cup {Nil}]
      /\ pc \in [Callers -> {"idle", "lock", "in", "record", "done"}]
      /\ code \in [Callers -> {0, 200, 500}]
      /\ req \in [Callers -> Requests]
      /\ failNext \in [Probes -> Int]
      /\ failures \in [Probes -> 0..failureThreshold]
  BY DEF PodIInv, PodTypeOK, TypeOK, Requests
<1>n. /\ h \in Probes /\ waiting[h] \in Callers \cup {Nil}
      /\ failNext[h] \in Int /\ failures[h] \in Nat
      /\ asked \in Nat /\ timeouts \in Nat /\ OnItsWay \in {0, 1}
  BY <1>t DEF PodIInv, PodTypeOK, OnItsWay
<1>k. /\ \A p \in Callers : Answered(p)
      /\ \A k \in Probes : WaitingFor(k)
  BY DEF PodIInv, KubeletInv
<1>a. AccountInv
  BY DEF PodIInv
<1>c. \A p \in Callers : pc[p] = "in" => req[p].probe \in Probes
  BY DEF PodIInv, IInv, CallInv, WellPlaced
<1>o. ASSUME waiting'[h] = waiting[h],
             waiting[h] # Nil => code'[waiting[h]] = code[waiting[h]]
      PROVE  OnItsWay' = OnItsWay
  BY <1>o DEF OnItsWay
(* Steps that leave the account as it is, or write a failure off. *)
<1>f. ASSUME UNCHANGED <<forever, asked, timeouts>>, failures'[h] = failures[h],
             failNext'[h] = failNext[h], OnItsWay' \in Int, OnItsWay' <= OnItsWay
      PROVE  AccountInv'
  BY <1>f, <1>n, <1>a DEF AccountInv
<1>1. CASE UNCHANGED allVars
  BY <1>1, <1>f, <1>o, <1>n DEF allVars, vars, probeVars, podVars, kubeletVars, ghosts
<1>2. ASSUME NEW p \in Callers, Visitor(p) PROVE AccountInv'
  <2>1. /\ UNCHANGED <<forever, asked, timeouts, failures, failNext, waiting>>
    BY <1>2 DEF Visitor, podVars, kubeletVars, ghosts, Visit, Ask, AskPut, Finish, probeVars
  <2>2. waiting[h] # Nil => code'[waiting[h]] = code[waiting[h]]
    <3>1. CASE Visit(p)
      BY <3>1 DEF Visit, Ask, AskPut
    <3>2. CASE Finish(p) /\ ~Awaited(p)
      BY <3>2, <1>n, <1>t DEF Finish, Awaited
    <3> QED BY <1>2, <3>1, <3>2 DEF Visitor
  <2> QED BY <1>f, <1>o, <1>n, <2>1, <2>2
<1>3. ASSUME NEW p \in Callers, Process(p) PROVE AccountInv'
  <2>0. UNCHANGED <<timeouts, failures, waiting>>
    BY <1>3 DEF Process, kubeletVars
  <2>1. CASE Lock(p) \/ RecordRequest(p)
    <3>1. UNCHANGED <<forever, asked>>
      BY <1>3, <2>1 DEF Process, Lock, RecordRequest, Inside, ghosts
    <3>2. UNCHANGED <<failNext, code>>
      BY <2>1 DEF Lock, RecordRequest
    <3> QED BY <1>f, <1>o, <1>n, <2>0, <3>1, <3>2
  <2>2. CASE APIGet(p)
    <3>1. UNCHANGED <<forever, asked>>
      BY <1>3, <2>2 DEF Process, APIGet, Inside, ghosts
    <3>2. failNext' = failNext /\ code' = [code EXCEPT ![p] = 200]
      BY <2>2 DEF APIGet
    <3>3. OnItsWay' \in {0, 1} /\ OnItsWay' <= OnItsWay
      BY <1>n, <1>t, <2>0, <3>2 DEF OnItsWay
    <3> QED BY <1>f, <2>0, <3>1, <3>2, <3>3
  <2>3. CASE Handle(p)
    <3>1. UNCHANGED <<forever, asked>>
      BY <1>3, <2>3 DEF Process, Handle, Inside, ghosts
    <3> DEFINE k == req[p].probe
    <3>2. /\ pc[p] = "in" /\ k \in Probes
          /\ code' = [code EXCEPT ![p] = IF failNext[k] # 0 THEN 500 ELSE 200]
          /\ failNext' = [failNext EXCEPT ![k] = CountDown(failNext[k])]
      BY <1>c, <2>3 DEF Handle, Inside
    <3>3. CASE k # h
      <4>1. failNext'[h] = failNext[h]
        BY <1>n, <1>t, <3>2, <3>3
      <4>2. waiting[h] # p
        BY <1>n, <1>k, <3>3 DEF WaitingFor
      <4>3. waiting[h] # Nil => code'[waiting[h]] = code[waiting[h]]
        BY <1>n, <1>t, <3>2, <4>2
      <4> QED BY <1>f, <1>o, <1>n, <2>0, <3>1, <4>1, <4>3
    <3>4. CASE k = h
      <4>1. failNext'[h] = CountDown(failNext[h])
        BY <1>n, <1>t, <3>2, <3>4
      <4>2. CASE waiting[h] = p
        <5>1. OnItsWay = 0
          BY <1>k, <3>2, <4>2 DEF OnItsWay, Answered
        <5>2. OnItsWay' = IF failNext[h] # 0 THEN 1 ELSE 0
          BY <1>t, <2>0, <3>2, <3>4, <4>2 DEF OnItsWay
        <5> QED BY <1>n, <1>a, <2>0, <3>1, <4>1, <5>1, <5>2 DEF AccountInv, CountDown
      <4>3. CASE waiting[h] # p
        <5>1. waiting[h] # Nil => code'[waiting[h]] = code[waiting[h]]
          BY <1>n, <1>t, <3>2, <4>3
        <5>2. OnItsWay' = OnItsWay
          BY <1>o, <2>0, <5>1
        <5> QED BY <1>n, <1>a, <2>0, <3>1, <4>1, <5>2 DEF AccountInv, CountDown
      <4> QED BY <4>2, <4>3
    <3> QED BY <3>3, <3>4
  <2>4. CASE SetConfig(p)
    <3>1. /\ Inside(p, "put") /\ pc[p] = "in" /\ req[p].n \in Int /\ code' = code
          /\ failNext' = [failNext EXCEPT ![req[p].probe] = req[p].n]
      BY <2>4 DEF SetConfig, Inside, PodIInv, IInv, CallInv, WellPlaced
    <3>2. OnItsWay' = OnItsWay
      BY <1>o, <2>0, <3>1
    <3>3. CASE req[p].probe # h
      <4>1. UNCHANGED <<forever, asked>>
        BY <1>3, <3>3 DEF Process, ghosts
      <4>2. failNext'[h] = failNext[h]
        BY <1>n, <1>t, <3>1, <3>3
      <4> QED BY <1>f, <1>n, <2>0, <3>2, <4>1, <4>2
    <3>4. CASE req[p].probe = h
      <4>1. /\ asked' = asked + Positive(req[p].n)
            /\ forever \/ req[p].n < 0 => forever'
        BY <1>3, <3>1, <3>4 DEF Process
      <4>2. failNext'[h] = req[p].n
        BY <1>n, <1>t, <3>1, <3>4
      <4> QED BY <1>n, <1>a, <2>0, <3>1, <3>2, <4>1, <4>2 DEF AccountInv, Positive
    <3> QED BY <3>3, <3>4
  <2> QED BY <1>3, <2>1, <2>2, <2>3, <2>4 DEF Process, Serve
<1>4. ASSUME NEW j \in Probes, NEW p \in Callers, Call(j, p) PROVE AccountInv'
  <2>1. /\ UNCHANGED <<forever, asked, timeouts, failures, failNext, code>>
        /\ pc[p] = "idle" /\ waiting[j] = Nil
        /\ waiting' = [waiting EXCEPT ![j] = p]
    BY <1>4 DEF Call, Ask, probeVars, ghosts
  <2>2. code[p] = 0
    BY <1>k, <2>1 DEF Answered
  <2>3. OnItsWay' = OnItsWay
    <3>1. CASE j = h
      BY <1>n, <1>t, <2>1, <2>2, <3>1 DEF OnItsWay
    <3>2. CASE j # h
      BY <1>n, <1>o, <1>t, <2>1, <3>2
    <3> QED BY <3>1, <3>2
  <2> QED BY <1>f, <1>n, <2>1, <2>3
<1>5. ASSUME NEW j \in Probes, Result(j) PROVE AccountInv'
  <2> DEFINE p == waiting[j]
  <2>1. /\ UNCHANGED <<forever, asked, timeouts, failNext>>
        /\ p # Nil /\ p \in Callers /\ pc[p] = "done"
        /\ code' = [code EXCEPT ![p] = 0]
        /\ waiting' = [waiting EXCEPT ![j] = Nil]
    BY <1>5, <1>t DEF Result, Finish, Judge, probeVars, ghosts
  <2>2. failures' = [failures EXCEPT ![j] =
                       IF code[p] = 200 THEN 0
                       ELSE IF failures[j] < failureThreshold THEN failures[j] + 1
                                                              ELSE failures[j]]
    BY <1>5 DEF Result, Judge
  <2>3. CASE j = h
    <3>1. code[p] \in {200, 500}
      BY <1>k, <2>1 DEF Answered
    <3>2. OnItsWay' = 0 /\ OnItsWay = IF code[p] = 500 THEN 1 ELSE 0
      BY <1>n, <1>t, <2>1, <2>3 DEF OnItsWay
    <3>3. failures'[h] \in Nat /\ failures'[h] <= failures[h] + OnItsWay
      BY <1>n, <1>t, <2>2, <2>3, <3>1, <3>2
    <3> QED BY <1>n, <1>a, <2>1, <3>2, <3>3 DEF AccountInv
  <2>4. CASE j # h
    <3>1. waiting[h] # p
      BY <1>n, <1>k, <2>1, <2>4 DEF WaitingFor
    <3>2. waiting'[h] = waiting[h] /\ failures'[h] = failures[h]
      BY <1>n, <1>t, <2>1, <2>2, <2>4
    <3>3. waiting[h] # Nil => code'[waiting[h]] = code[waiting[h]]
      BY <1>n, <1>t, <2>1, <3>1
    <3> QED BY <1>f, <1>o, <1>n, <2>1, <3>2, <3>3
  <2> QED BY <2>3, <2>4
<1>6. ASSUME NEW j \in Probes, Timeout(j) PROVE AccountInv'
  <2>1. /\ UNCHANGED <<forever, asked, failNext, code>>
        /\ timeouts' = timeouts + 1
        /\ waiting' = [waiting EXCEPT ![j] = Nil]
        /\ failures' = [failures EXCEPT ![j] =
                          IF failures[j] < failureThreshold THEN failures[j] + 1
                                                            ELSE failures[j]]
    BY <1>6 DEF Timeout, Judge, vars, probeVars, ghosts
  <2>2. OnItsWay' \in {0, 1} /\ OnItsWay' <= OnItsWay
    BY <1>n, <1>t, <2>1 DEF OnItsWay
  <2>3. failures'[h] \in Nat /\ failures'[h] <= failures[h] + 1
    BY <1>n, <1>t, <2>1
  <2> QED BY <1>n, <1>a, <2>1, <2>2, <2>3 DEF AccountInv
<1> QED BY <1>1, <1>2, <1>3, <1>4, <1>5, <1>6 DEF PodNext, Exit, Kill

-----------------------------------------------------------------------------
(* THEOREMS *)

LEMMA PodInvStep == PodIInv /\ [PodNext]_allVars => PodIInv'
<1> SUFFICES ASSUME PodIInv, [PodNext]_allVars PROVE PodIInv'
  OBVIOUS
<1>1. CASE Restart
  <2>1. exits' \in 0..MaxExits
    <3>1. exits \in 0..MaxExits /\ MaxExits \in Nat
      BY PodAssumption DEF PodIInv, PodTypeOK
    <3>2. \/ exits' = exits
          \/ exits < MaxExits /\ exits' = exits + 1
      BY DEF PodNext, Visitor, Process, Call, Result, Timeout, Exit, Kill, allVars, podVars
    <3> QED BY <3>1, <3>2
  <2> QED BY <1>1, <2>1, RestartPodIInv
<1>2. CASE ~Restart
  <2>1. IInv'
    BY <1>2, StepOfProbe, InvStep DEF PodIInv, IInv
  <2> QED BY <1>2, <2>1, PodTypeStep, KubeletStep, AccountStep DEF PodIInv
<1> QED BY <1>1, <1>2

(* PodIInv is inductive. *)
LEMMA PodInductive == PodSpec => []PodIInv
BY InitPodIInv, PodInvStep, PTL DEF PodSpec

(* Type correctness of the pod: of its probes over all restarts, and of     *)
(* what the kubelet keeps.                                                  *)
THEOREM PodTypeCorrect == PodSpec => []PodTypeOK
<1>1. PodIInv => PodTypeOK
  BY DEF PodIInv
<1> QED BY <1>1, PodInductive, PTL

(* The failures that are asked for are the failures that are served, over   *)
(* all restarts (probe.go, Handle; app.go, NewApp and LoadConfig).          *)
THEOREM PodFailuresAgree == PodSpec => []FailsAsConfigured
<1>1. PodIInv => FailsAsConfigured
  BY CountInvImplies DEF PodIInv
<1> QED BY <1>1, PodInductive, PTL

(* The history on show is an unbroken run, over all restarts.               *)
THEOREM PodHistoryAgrees == PodSpec => []HistoryConsecutive
<1>1. PodIInv => HistoryConsecutive
  BY HistoryInvImplies DEF PodIInv
<1> QED BY <1>1, PodInductive, PTL

(* No restart for want of health that was not asked for or caused by calls  *)
(* given up on, for every failureThreshold (kuard-pod.yaml, livenessProbe). *)
THEOREM RestartsEarned == PodSpec => []RestartEarned
<1>1. PodIInv => RestartEarned
  <2> SUFFICES ASSUME PodIInv, ~forever
               PROVE  failures["healthy"] <= asked + timeouts
    BY DEF RestartEarned
  <2>1. /\ failNext["healthy"] \in Int /\ failures["healthy"] \in Nat
        /\ asked \in Nat /\ timeouts \in Nat /\ OnItsWay \in {0, 1}
    BY PodAssumption DEF PodIInv, PodTypeOK, TypeOK, OnItsWay
  <2>2. /\ failNext["healthy"] >= 0
        /\ failures["healthy"] + OnItsWay + failNext["healthy"] <= asked + timeouts
    BY DEF PodIInv, AccountInv
  <2> QED BY <2>1, <2>2
<1> QED BY <1>1, PodInductive, PTL

=============================================================================
