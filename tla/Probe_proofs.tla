---------------------------- MODULE Probe_proofs ----------------------------
(***************************************************************************)
(* Theorems about Probe, for any number of callers and probes, any flags   *)
(* and any values PUT.                                                     *)
(*                                                                         *)
(* What a probe promises while nobody is inside rests on what it looks     *)
(* like between Handle's decision and its record (CountInv), and that on   *)
(* p.mu keeping everybody else out in between (LockInv).                   *)
(***************************************************************************)
EXTENDS Probe, SequenceTheorems, TLAPS

(* What the locals of a goroutine hold, from where it is. *)
WellPlaced(p) ==
  /\ pc[p] # "idle" => req[p].probe \in Probes
  /\ req[p].op = "put" => req[p].n \in FailNexts
  /\ pc[p] = "record" => code[p] \in {200, 500}

CallInv == \A p \in Callers : WellPlaced(p)

(* mu names the goroutine inside. *)
Holds(p, k) == pc[p] \in {"in", "record"} /\ req[p].probe = k

LockInv == \A p \in Callers : \A k \in Probes : mu[k] = p <=> Holds(p, k)

(* A failure is taken from failNext before it is on record. *)
Owed(k) ==
  IF mu[k] # Nil /\ pc[mu[k]] = "record" /\ code[mu[k]] = 500 THEN 1 ELSE 0

Counted(k) ==
  failNext[k] = IF granted[k] > 0 THEN granted[k] - spent[k] - Owed(k) ELSE granted[k]

CountInv == \A k \in Probes : Counted(k)

(* The history is never half done: it changes in one assignment. *)
Consecutive(h, last) ==
  /\ Len(h) <= maxHistory
  /\ \A i \in 1..Len(h)-1 : h[i+1].ID = NextID(h[i].ID)
  /\ h # <<>> => h[Len(h)].ID = last

HistoryInv == \A k \in Probes : Consecutive(history[k], lastID[k])

IInv == TypeOK /\ CallInv /\ LockInv /\ CountInv /\ HistoryInv

-----------------------------------------------------------------------------
(* FACTS ABOUT THE OPERATORS *)

(* history[len-n:] has the last n entries, in their order. *)
LEMMA LastOfIs ==
  ASSUME NEW S, NEW s \in Seq(S), NEW n \in Nat
  PROVE  /\ LastOf(s, n) \in Seq(S)
         /\ Len(LastOf(s, n)) = IF Len(s) > n THEN n ELSE Len(s)
         /\ \A i \in 1..Len(LastOf(s, n)) :
              LastOf(s, n)[i] = s[i + Len(s) - Len(LastOf(s, n))]
<1>1. CASE Len(s) <= n
  <2>1. Len(s) \in Nat /\ LastOf(s, n) = s
    BY <1>1, LenProperties DEF LastOf
  <2>2. \A i \in 1..Len(s) : i + Len(s) - Len(s) = i
    BY <2>1
  <2> QED BY <1>1, <2>1, <2>2
<1>2. CASE Len(s) > n
  <2> DEFINE m == Len(s) - n + 1
  <2>1. Len(s) \in Nat /\ m \in Int /\ m >= 1
    BY <1>2, LenProperties
  <2>2. \A i \in m..Len(s) : s[i] \in S
    BY <2>1, ElementOfSeq
  <2>3. /\ SubSeq(s, m, Len(s)) \in Seq(S)
        /\ Len(SubSeq(s, m, Len(s))) = IF m <= Len(s) THEN Len(s) - m + 1 ELSE 0
        /\ \A i \in 1..Len(s) - m + 1 : SubSeq(s, m, Len(s))[i] = s[m + i - 1]
    <3> HIDE DEF m
    <3> QED BY <2>1, <2>2, SubSeqProperties
  <2>4. LastOf(s, n) = SubSeq(s, m, Len(s))
    BY <1>2 DEF LastOf
  <2>5. Len(SubSeq(s, m, Len(s))) = n
    BY <2>1, <2>3
  <2>6. \A i \in 1..n : SubSeq(s, m, Len(s))[i] = s[i + Len(s) - n]
    <3> TAKE i \in 1..n
    <3>1. m + i - 1 = i + Len(s) - n /\ i \in 1..Len(s) - m + 1
      BY <2>1
    <3> QED BY <2>3, <3>1
  <2> QED BY <1>2, <2>3, <2>4, <2>5, <2>6
<1> QED BY <1>1, <1>2, LenProperties

(* An entry with the next ID keeps a history consecutive. *)
LEMMA RecordedIs ==
  ASSUME NEW h \in Seq(Entries), NEW last \in 0..IDs-1,
         NEW e \in Entries, e.ID = NextID(last), Consecutive(h, last)
  PROVE  /\ LastOf(Append(h, e), maxHistory) \in Seq(Entries)
         /\ Consecutive(LastOf(Append(h, e), maxHistory), e.ID)
<1> DEFINE a == Append(h, e)
           l == LastOf(a, maxHistory)
           d == Len(a) - Len(l)
<1>1. /\ a \in Seq(Entries)
      /\ Len(h) \in Nat /\ Len(a) = Len(h) + 1
      /\ \A i \in 1..Len(h) : a[i] = h[i]
      /\ a[Len(h) + 1] = e
  BY AppendProperties, LenProperties
<1>2. \A i \in 1..Len(a)-1 : a[i+1].ID = NextID(a[i].ID)
  <2> SUFFICES ASSUME NEW i \in 1..Len(a)-1
               PROVE  a[i+1].ID = NextID(a[i].ID)
    OBVIOUS
  <2> HIDE DEF a
  <2>1. CASE i < Len(h)
    BY <1>1, <2>1 DEF Consecutive
  <2>2. CASE i = Len(h)
    <3>1. h # <<>>
      BY <2>2, <1>1, EmptySeq
    <3> QED BY <1>1, <2>2, <3>1 DEF Consecutive
  <2> QED BY <1>1, <2>1, <2>2
<1>3. /\ l \in Seq(Entries)
      /\ Len(l) \in Nat /\ Len(l) <= maxHistory /\ d \in Nat
      /\ \A i \in 1..Len(l) : l[i] = a[i + d]
  <2> HIDE DEF a
  <2>1. /\ l \in Seq(Entries)
        /\ Len(l) = IF Len(a) > maxHistory THEN maxHistory ELSE Len(a)
        /\ \A i \in 1..Len(l) : l[i] = a[i + Len(a) - Len(l)]
    BY <1>1, LastOfIs, ProbeAssumption
  <2>2. Len(l) \in Nat /\ Len(l) <= maxHistory /\ d \in Nat
    <3> HIDE DEF l
    <3> QED BY <1>1, <2>1, ProbeAssumption
  <2>3. \A i \in 1..Len(l) : l[i] = a[i + d]
    <3> TAKE i \in 1..Len(l)
    <3>1. i + Len(a) - Len(l) = i + d
      <4> HIDE DEF l
      <4> QED BY <1>1, <2>2
    <3> QED BY <2>1, <3>1
  <2> QED BY <2>1, <2>2, <2>3
<1>4. \A i \in 1..Len(l)-1 : l[i+1].ID = NextID(l[i].ID)
  <2> SUFFICES ASSUME NEW i \in 1..Len(l)-1
               PROVE  l[i+1].ID = NextID(l[i].ID)
    OBVIOUS
  <2>1. i + d \in 1..Len(a)-1 /\ (i + 1) + d = (i + d) + 1
    <3> HIDE DEF a, l
    <3> QED BY <1>1, <1>3
  <2>2. l[i] = a[i + d] /\ l[i+1] = a[(i + d) + 1]
    <3> HIDE DEF a, l, d
    <3> QED BY <1>3, <2>1
  <2> HIDE DEF a, l, d
  <2> QED BY <1>2, <2>1, <2>2
<1>5. l # <<>> => l[Len(l)].ID = e.ID
  <2> SUFFICES ASSUME l # <<>>
               PROVE  l[Len(l)] = e
    OBVIOUS
  <2>1. Len(l) \in 1..Len(l)
    <3> HIDE DEF l
    <3> QED BY <1>3, EmptySeq
  <2>2. Len(l) + d = Len(h) + 1
    <3> HIDE DEF a, l
    <3> QED BY <1>1, <1>3
  <2> HIDE DEF a, l, d
  <2> QED BY <1>1, <1>3, <2>1, <2>2
<1> HIDE DEF d
<1> QED BY <1>3, <1>4, <1>5 DEF Consecutive

LEMMA NextIDType ==
  ASSUME NEW i \in 0..IDs-1
  PROVE  NextID(i) \in 0..IDs-1
BY ProbeAssumption DEF NextID

-----------------------------------------------------------------------------
(* THE INITIAL STATE *)

(* The state of a process that has served nobody. *)
Fresh ==
  /\ flag \in [Probes -> Flags] /\ failNext = flag /\ granted = flag
  /\ history = [k \in Probes |-> <<>>]
  /\ lastID = [k \in Probes |-> 0]
  /\ spent = [k \in Probes |-> 0]
  /\ mu = [k \in Probes |-> Nil]
  /\ pc = [p \in Callers |-> "idle"]
  /\ req = [p \in Callers |-> NoReq]
  /\ code = [p \in Callers |-> 0]
  /\ puts \in 0..MaxPuts

LEMMA FreshIInv == Fresh => IInv
<1> SUFFICES ASSUME Fresh PROVE IInv
  OBVIOUS
<1> USE ProbeAssumption DEF Fresh
<1>1. TypeOK
  <2>1. history \in [Probes -> Seq(Entries)]
    BY EmptySeq
  <2>2. req \in [Callers -> [probe : Probes \cup {Nil}, op : {"none", "handle", "get", "put"},
                             n : FailNexts \cup {0}]]
    BY DEF NoReq
  <2>3. /\ failNext \in [Probes -> Int]
        /\ granted \in [Probes -> Flags \cup FailNexts]
        /\ \A k \in Probes : failNext[k] = granted[k]
    OBVIOUS
  <2>4. /\ mu \in [Probes -> Callers \cup {Nil}]
        /\ lastID \in [Probes -> 0..IDs-1] /\ spent \in [Probes -> Nat]
        /\ pc \in [Callers -> {"idle", "lock", "in", "record", "done"}]
        /\ code \in [Callers -> {0, 200, 500}]
        /\ puts \in 0..MaxPuts
    OBVIOUS
  <2> QED BY <2>1, <2>2, <2>3, <2>4 DEF TypeOK
<1>2. CallInv
  BY DEF CallInv, WellPlaced, NoReq
<1>3. LockInv
  BY DEF LockInv, Holds
<1>4. CountInv
  <2> SUFFICES ASSUME NEW k \in Probes PROVE Counted(k)
    BY DEF CountInv
  <2>1. failNext[k] = granted[k] /\ spent[k] = 0 /\ Owed(k) = 0 /\ granted[k] \in Int
    BY DEF Owed
  <2> QED BY <2>1 DEF Counted
<1>5. HistoryInv
  <2> SUFFICES ASSUME NEW k \in Probes PROVE Consecutive(history[k], lastID[k])
    BY DEF HistoryInv
  <2> QED BY EmptySeq DEF Consecutive
<1> QED BY <1>1, <1>2, <1>3, <1>4, <1>5 DEF IInv

-----------------------------------------------------------------------------
(* ONE STEP *)

(* What was configured is a number. *)
LEMMA GrantedInt == TypeOK => \A k \in Probes : granted[k] \in Int
<1> SUFFICES ASSUME TypeOK, NEW k \in Probes PROVE granted[k] \in Int
  OBVIOUS
<1>1. granted[k] \in Flags \cup FailNexts
  BY DEF TypeOK
<1> QED BY <1>1, ProbeAssumption

Requests == [probe : Probes \cup {Nil}, op : {"none", "handle", "get", "put"},
             n : FailNexts \cup {0}]

(* What SetConfig leaves behind for the APIGet that follows it. *)
LEMMA PutServed ==
  ASSUME NEW r \in Requests
  PROVE  LET s == [r EXCEPT !.op = "get", !.n = 0]
         IN s \in Requests /\ s.probe = r.probe /\ s.op = "get" /\ s.n = 0
<1> DEFINE t == [r EXCEPT !.op = "get"]
           s == [t EXCEPT !.n = 0]
<1>1. t \in Requests /\ t.probe = r.probe /\ t.op = "get"
  BY DEF Requests
<1>2. s \in Requests /\ s.probe = t.probe /\ s.op = t.op /\ s.n = 0
  <2> HIDE DEF t
  <2> QED BY <1>1 DEF Requests
<1> QED BY <1>1, <1>2

(* The cases of a step, for the proofs below. *)
LEMMA TypeStep == TypeOK /\ CallInv /\ LockInv /\ [Next]_vars => TypeOK'
<1> SUFFICES ASSUME TypeOK, CallInv, LockInv, [Next]_vars
             PROVE  TypeOK'
  OBVIOUS
<1> USE ProbeAssumption
<1> DEFINE S == Seq(Entries)
<1>h. history \in [Probes -> S]
  BY DEF TypeOK
<1>r. req \in [Callers -> Requests]
  BY DEF TypeOK, Requests
<1>1. CASE UNCHANGED vars
  BY <1>1 DEF TypeOK, vars, probeVars
<1>2. ASSUME NEW p \in Callers, NEW k \in Probes, NEW op \in {"handle", "get"},
             Ask(p, k, op)
      PROVE  TypeOK'
  BY <1>2 DEF TypeOK, Ask, Goto, probeVars
<1>3. ASSUME NEW p \in Callers, NEW k \in Probes, NEW n \in FailNexts, AskPut(p, k, n)
      PROVE  TypeOK'
  BY <1>3 DEF TypeOK, AskPut, Goto, probeVars
<1>4. ASSUME NEW p \in Callers, Lock(p) PROVE TypeOK'
  BY <1>4 DEF TypeOK, Lock, Goto
<1>5. ASSUME NEW p \in Callers, SetConfig(p) PROVE TypeOK'
  <2> DEFINE k == req[p].probe
             n == req[p].n
  <2>1. k \in Probes /\ n \in FailNexts /\ req[p] \in Requests
    BY <1>5, <1>r DEF SetConfig, Inside, CallInv, WellPlaced
  <2>2. req' \in [Callers -> Requests]
    BY <1>5, <1>r, <2>1, PutServed DEF SetConfig
  <2>3. /\ granted' \in [Probes -> Flags \cup FailNexts]
        /\ spent' \in [Probes -> Nat]
        /\ mu' \in [Probes -> Callers \cup {Nil}]
        /\ pc' \in [Callers -> {"idle", "lock", "in", "record", "done"}]
    BY <1>5, <2>1 DEF TypeOK, SetConfig, Goto, Unlock
  <2>4. \A j \in Probes : failNext'[j] = granted'[j] \/ failNext'[j] \in 0..granted'[j]
    BY <1>5, <2>1 DEF TypeOK, SetConfig
  <2>5. failNext' \in [Probes -> Int]
    BY <1>5, <2>1 DEF TypeOK, SetConfig
  <2> QED BY <1>5, <2>2, <2>3, <2>4, <2>5 DEF TypeOK, SetConfig, Requests
<1>6. ASSUME NEW p \in Callers, APIGet(p) PROVE TypeOK'
  BY <1>6 DEF TypeOK, APIGet, Goto, Inside, Unlock
<1>7. ASSUME NEW p \in Callers, Handle(p) PROVE TypeOK'
  <2> DEFINE k == req[p].probe
  <2>1. k \in Probes
    BY <1>7, <1>r DEF Handle, Inside, CallInv, WellPlaced
  <2>2. /\ failNext' \in [Probes -> Int]
        /\ \A j \in Probes : failNext'[j] = granted[j] \/ failNext'[j] \in 0..granted[j]
    <3>1. \A j \in Probes : failNext[j] \in Int /\ granted[j] \in Int
      BY GrantedInt DEF TypeOK
    <3>2. /\ failNext' \in [Probes -> Int]
          /\ \A j \in Probes :
               failNext'[j] = IF j = k THEN CountDown(failNext[j]) ELSE failNext[j]
      BY <1>7, <2>1, <3>1 DEF TypeOK, Handle, CountDown
    <3>3. \A j \in Probes : failNext[j] = granted[j] \/ failNext[j] \in 0..granted[j]
      BY DEF TypeOK
    <3> QED BY <3>1, <3>2, <3>3 DEF CountDown
  <2>3. /\ pc' \in [Callers -> {"idle", "lock", "in", "record", "done"}]
        /\ code' \in [Callers -> {0, 200, 500}]
    BY <1>7 DEF TypeOK, Handle, Goto
  <2> QED BY <1>7, <2>2, <2>3 DEF TypeOK, Handle
<1>8. ASSUME NEW p \in Callers, RecordRequest(p) PROVE TypeOK'
  <2> DEFINE k  == req[p].probe
             id == NextID(lastID[k])
             e  == [ID |-> id, Code |-> code[p]]
             l  == LastOf(Append(history[k], e), maxHistory)
  <2>1. k \in Probes /\ code[p] \in {200, 500}
    BY <1>8, <1>r DEF RecordRequest, CallInv, WellPlaced
  <2>2. id \in 0..IDs-1
    BY <2>1, NextIDType DEF TypeOK
  <2>3. e \in Entries
    BY <2>1, <2>2 DEF Entries
  <2>4. l \in S
    <3> HIDE DEF e
    <3>1. history[k] \in Seq(Entries)
      BY <1>h, <2>1
    <3>2. Append(history[k], e) \in Seq(Entries)
      BY <2>3, <3>1, AppendProperties
    <3> QED BY <3>2, LastOfIs
  <2>5. history' = [history EXCEPT ![k] = l] /\ lastID' = [lastID EXCEPT ![k] = id]
    BY <1>8 DEF RecordRequest
  <2>6. history' \in [Probes -> S] /\ lastID' \in [Probes -> 0..IDs-1]
    <3> HIDE DEF S, l, id, k
    <3> QED BY <1>h, <2>2, <2>4, <2>5 DEF TypeOK
  <2>7. spent' \in [Probes -> Nat] /\ mu' \in [Probes -> Callers \cup {Nil}]
    BY <1>8, <2>1 DEF TypeOK, RecordRequest, Unlock
  <2>8. pc' \in [Callers -> {"idle", "lock", "in", "record", "done"}]
    BY <1>8 DEF TypeOK, RecordRequest, Goto
  <2> QED BY <1>8, <2>6, <2>7, <2>8 DEF TypeOK, RecordRequest
<1>9. ASSUME NEW p \in Callers, Finish(p) PROVE TypeOK'
  BY <1>9 DEF TypeOK, Finish, Goto, NoReq, probeVars
<1> QED BY <1>1, <1>2, <1>3, <1>4, <1>5, <1>6, <1>7, <1>8, <1>9 DEF Next, Visit, Serve

(* Only the caller that moves changes its place and its request. *)
LEMMA CallStep == TypeOK /\ CallInv /\ [Next]_vars => CallInv'
<1> SUFFICES ASSUME TypeOK, CallInv, [Next]_vars
             PROVE  CallInv'
  OBVIOUS
<1>r. req \in [Callers -> Requests]
  BY DEF TypeOK, Requests
<1> SUFFICES ASSUME NEW q \in Callers PROVE WellPlaced(q)'
  BY DEF CallInv
<1>q. WellPlaced(q) /\ req[q] \in Requests
  BY <1>r DEF CallInv
<1> USE DEF WellPlaced
<1>1. CASE UNCHANGED vars
  BY <1>1, <1>q DEF vars, probeVars
<1>2. ASSUME NEW p \in Callers, NEW k \in Probes, NEW op \in {"handle", "get"},
             Ask(p, k, op)
      PROVE  WellPlaced(q)'
  BY <1>2, <1>q DEF TypeOK, Ask, Goto, probeVars
<1>3. ASSUME NEW p \in Callers, NEW k \in Probes, NEW n \in FailNexts, AskPut(p, k, n)
      PROVE  WellPlaced(q)'
  BY <1>3, <1>q DEF TypeOK, AskPut, Goto, probeVars
<1>4. ASSUME NEW p \in Callers, Lock(p) PROVE WellPlaced(q)'
  BY <1>4, <1>q DEF TypeOK, Lock, Goto
<1>5. ASSUME NEW p \in Callers, SetConfig(p) PROVE WellPlaced(q)'
  <2>1. req'[q] = IF q = p THEN [req[p] EXCEPT !.op = "get", !.n = 0] ELSE req[q]
    BY <1>5, <1>r DEF SetConfig
  <2>2. req'[q].probe = req[q].probe /\ (req'[q].op = "put" => req'[q] = req[q])
    <3>1. req[p] \in Requests
      BY <1>5, <1>r DEF SetConfig
    <3>2. CASE q = p
      <4> DEFINE s == [req[p] EXCEPT !.op = "get", !.n = 0]
      <4>1. s.probe = req[p].probe /\ s.op = "get"
        BY <3>1, PutServed
      <4>2. req'[q] = s
        BY <2>1, <3>2
      <4> HIDE DEF s
      <4> QED BY <3>2, <4>1, <4>2
    <3> QED BY <2>1, <3>2
  <2>3. code' = code /\ pc[p] = "in" /\ pc'[q] = IF q = p THEN "lock" ELSE pc[q]
    BY <1>5 DEF TypeOK, SetConfig, Goto, Inside
  <2> QED BY <1>q, <2>2, <2>3
<1>6. ASSUME NEW p \in Callers, APIGet(p) PROVE WellPlaced(q)'
  BY <1>6, <1>q DEF TypeOK, APIGet, Goto, Inside
<1>7. ASSUME NEW p \in Callers, Handle(p) PROVE WellPlaced(q)'
  BY <1>7, <1>q DEF TypeOK, Handle, Goto, Inside
<1>8. ASSUME NEW p \in Callers, RecordRequest(p) PROVE WellPlaced(q)'
  BY <1>8, <1>q DEF TypeOK, RecordRequest, Goto
<1>9. ASSUME NEW p \in Callers, Finish(p) PROVE WellPlaced(q)'
  BY <1>9, <1>q DEF TypeOK, Finish, Goto, NoReq, probeVars
<1> QED BY <1>1, <1>2, <1>3, <1>4, <1>5, <1>6, <1>7, <1>8, <1>9 DEF Next, Visit, Serve

(* Mutual exclusion: Lock needs mu free, and who is past it leaves by the  *)
(* step that frees mu.                                                     *)
LEMMA LockStep == TypeOK /\ CallInv /\ LockInv /\ [Next]_vars => LockInv'
<1> SUFFICES ASSUME TypeOK, CallInv, LockInv, [Next]_vars
             PROVE  LockInv'
  OBVIOUS
<1> USE ProbeAssumption
<1>r. req \in [Callers -> Requests]
  BY DEF TypeOK, Requests
<1> SUFFICES ASSUME NEW q \in Callers, NEW j \in Probes
             PROVE  (mu[j] = q <=> Holds(q, j))'
  BY DEF LockInv
<1>q. mu[j] = q <=> Holds(q, j)
  BY DEF LockInv
<1> USE DEF Holds
<1>1. CASE UNCHANGED vars
  BY <1>1, <1>q DEF vars, probeVars
<1>2. ASSUME NEW p \in Callers, NEW k \in Probes, NEW op \in {"handle", "get"},
             Ask(p, k, op)
      PROVE  (mu[j] = q <=> Holds(q, j))'
  BY <1>2, <1>q DEF TypeOK, Ask, Goto, probeVars
<1>3. ASSUME NEW p \in Callers, NEW k \in Probes, NEW n \in FailNexts, AskPut(p, k, n)
      PROVE  (mu[j] = q <=> Holds(q, j))'
  BY <1>3, <1>q DEF TypeOK, AskPut, Goto, probeVars
<1>4. ASSUME NEW p \in Callers, Lock(p) PROVE (mu[j] = q <=> Holds(q, j))'
  BY <1>4, <1>q DEF TypeOK, Lock, Goto
<1>u. ASSUME NEW p \in Callers, req[p].probe \in Probes, Holds(p, req[p].probe),
             Unlock(req[p].probe), pc'[p] \notin {"in", "record"},
             q # p => pc'[q] = pc[q] /\ req'[q] = req[q]
      PROVE  (mu[j] = q <=> Holds(q, j))'
  <2>1. mu[req[p].probe] = p
    BY <1>u DEF LockInv
  <2>2. mu'[j] = IF j = req[p].probe THEN Nil ELSE mu[j]
    BY <1>u DEF TypeOK, Unlock
  <2>3. CASE q = p
    BY <1>q, <1>u, <2>2, <2>3
  <2>4. CASE q # p
    BY <1>q, <1>u, <2>1, <2>2, <2>4
  <2> QED BY <2>3, <2>4
<1>5. ASSUME NEW p \in Callers, SetConfig(p) PROVE (mu[j] = q <=> Holds(q, j))'
  BY <1>5, <1>u, <1>r DEF TypeOK, SetConfig, Goto, Inside, CallInv, WellPlaced
<1>6. ASSUME NEW p \in Callers, APIGet(p) PROVE (mu[j] = q <=> Holds(q, j))'
  BY <1>6, <1>u, <1>r DEF TypeOK, APIGet, Goto, Inside, CallInv, WellPlaced
<1>7. ASSUME NEW p \in Callers, Handle(p) PROVE (mu[j] = q <=> Holds(q, j))'
  BY <1>7, <1>q DEF TypeOK, Handle, Goto, Inside
<1>8. ASSUME NEW p \in Callers, RecordRequest(p) PROVE (mu[j] = q <=> Holds(q, j))'
  BY <1>8, <1>u, <1>r DEF TypeOK, RecordRequest, Goto, CallInv, WellPlaced
<1>9. ASSUME NEW p \in Callers, Finish(p) PROVE (mu[j] = q <=> Holds(q, j))'
  BY <1>9, <1>q, <1>r DEF TypeOK, Finish, Goto, NoReq, probeVars
<1> QED BY <1>1, <1>2, <1>3, <1>4, <1>5, <1>6, <1>7, <1>8, <1>9 DEF Next, Visit, Serve

(* A call takes from failNext when it decides and adds to what is spent     *)
(* when it records; in between it owes, and nobody else is inside.          *)
LEMMA CountStep ==
  TypeOK /\ CallInv /\ LockInv /\ CountInv /\ [Next]_vars => CountInv'
<1> SUFFICES ASSUME TypeOK, CallInv, LockInv, CountInv, [Next]_vars
             PROVE  CountInv'
  OBVIOUS
<1> USE ProbeAssumption
<1>r. req \in [Callers -> Requests]
  BY DEF TypeOK, Requests
<1> SUFFICES ASSUME NEW j \in Probes PROVE Counted(j)'
  BY DEF CountInv
<1>j. /\ Counted(j) /\ failNext[j] \in Int /\ granted[j] \in Int /\ spent[j] \in Nat
      /\ failNext[j] = granted[j] \/ failNext[j] \in 0..granted[j]
      /\ mu[j] \in Callers \cup {Nil}
  <2>1. Counted(j)
    BY DEF CountInv
  <2>2. granted[j] \in Int
    BY GrantedInt
  <2> QED BY <2>1, <2>2 DEF TypeOK
<1>o. \A p \in Callers : mu[j] = p <=> Holds(p, j)
  BY DEF LockInv
(* Whoever is not inside disturbs nobody's account. *)
<1>f. ASSUME NEW p \in Callers, mu[j] # p, mu'[j] = mu[j],
             failNext'[j] = failNext[j], granted'[j] = granted[j], spent'[j] = spent[j],
             \A q \in Callers : q # p => pc'[q] = pc[q] /\ code'[q] = code[q]
      PROVE  Counted(j)'
  <2>1. Owed(j)' = Owed(j)
    BY <1>f, <1>j DEF Owed
  <2> QED BY <1>f, <1>j, <2>1 DEF Counted
<1>1. CASE UNCHANGED vars
  BY <1>1, <1>j DEF vars, probeVars, Counted, Owed
<1>2. ASSUME NEW p \in Callers, NEW k \in Probes, NEW op \in {"handle", "get"},
             Ask(p, k, op)
      PROVE  Counted(j)'
  BY <1>2, <1>f, <1>o DEF TypeOK, Ask, Goto, probeVars, Holds
<1>3. ASSUME NEW p \in Callers, NEW k \in Probes, NEW n \in FailNexts, AskPut(p, k, n)
      PROVE  Counted(j)'
  BY <1>3, <1>f, <1>o DEF TypeOK, AskPut, Goto, probeVars, Holds
<1>4. ASSUME NEW p \in Callers, Lock(p) PROVE Counted(j)'
  <2>1. CASE req[p].probe = j
    <3>1. mu[j] = Nil /\ mu'[j] = p /\ pc'[p] = "in"
      BY <1>4, <2>1 DEF TypeOK, Lock, Goto
    <3>2. Owed(j) = 0 /\ Owed(j)' = 0
      BY <3>1 DEF Owed
    <3> QED BY <1>4, <1>j, <3>2 DEF Lock, Counted
  <2>2. CASE req[p].probe # j
    BY <1>4, <1>f, <1>o, <2>2 DEF TypeOK, Lock, Goto, Holds
  <2> QED BY <2>1, <2>2
(* A step of the goroutine inside another probe. *)
<1>e. ASSUME NEW p \in Callers, req[p].probe \in Probes, req[p].probe # j,
             SetConfig(p) \/ APIGet(p) \/ Handle(p) \/ RecordRequest(p)
      PROVE  Counted(j)'
  <2>1. mu[j] # p
    BY <1>e, <1>o DEF Holds
  <2>2. mu'[j] = mu[j]
    BY <1>e DEF TypeOK, SetConfig, APIGet, Handle, RecordRequest, Unlock
  <2>3. failNext'[j] = failNext[j] /\ granted'[j] = granted[j] /\ spent'[j] = spent[j]
    BY <1>e DEF TypeOK, SetConfig, APIGet, Handle, RecordRequest
  <2>4. \A q \in Callers : q # p => pc'[q] = pc[q] /\ code'[q] = code[q]
    BY <1>e DEF TypeOK, SetConfig, APIGet, Handle, RecordRequest, Goto
  <2> QED BY <1>f, <2>1, <2>2, <2>3, <2>4
<1>5. ASSUME NEW p \in Callers, SetConfig(p) PROVE Counted(j)'
  <2>1. req[p].probe \in Probes /\ req[p].n \in FailNexts
    BY <1>5 DEF SetConfig, Inside, CallInv, WellPlaced
  <2>2. CASE req[p].probe = j
    <3>1. mu'[j] = Nil
      BY <1>5, <2>2 DEF TypeOK, SetConfig, Unlock
    <3>2. failNext'[j] = req[p].n /\ granted'[j] = req[p].n /\ spent'[j] = 0
      BY <1>5, <2>2 DEF TypeOK, SetConfig
    <3>3. Owed(j)' = 0 /\ req[p].n \in Int
      BY <2>1, <3>1 DEF Owed
    <3> QED BY <3>2, <3>3 DEF Counted
  <2> QED BY <1>5, <1>e, <2>1, <2>2
<1>6. ASSUME NEW p \in Callers, APIGet(p) PROVE Counted(j)'
  <2>1. req[p].probe \in Probes
    BY <1>6 DEF APIGet, Inside, CallInv, WellPlaced
  <2>2. CASE req[p].probe = j
    <3>1. mu[j] = p /\ pc[p] = "in" /\ mu'[j] = Nil
      BY <1>6, <1>o, <2>2 DEF TypeOK, APIGet, Inside, Unlock, Holds
    <3>2. Owed(j) = 0 /\ Owed(j)' = 0
      BY <3>1 DEF Owed
    <3> QED BY <1>6, <1>j, <3>2 DEF APIGet, Counted
  <2> QED BY <1>6, <1>e, <2>1, <2>2
<1>7. ASSUME NEW p \in Callers, Handle(p) PROVE Counted(j)'
  <2>1. req[p].probe \in Probes
    BY <1>7 DEF Handle, Inside, CallInv, WellPlaced
  <2>2. CASE req[p].probe = j
    <3>1. mu[j] = p /\ pc[p] = "in" /\ mu'[j] = p /\ pc'[p] = "record"
      BY <1>7, <1>o, <2>2 DEF TypeOK, Handle, Goto, Inside, Holds
    <3>2. code'[p] = (IF failNext[j] # 0 THEN 500 ELSE 200)
      BY <1>7, <2>2 DEF TypeOK, Handle
    <3>3. Owed(j) = 0 /\ Owed(j)' = (IF failNext[j] # 0 THEN 1 ELSE 0)
      BY <3>1, <3>2 DEF Owed
    <3>4. failNext'[j] = CountDown(failNext[j])
      BY <1>7, <2>2 DEF TypeOK, Handle
    <3>5. granted' = granted /\ spent' = spent
      BY <1>7 DEF Handle
    <3> QED BY <1>j, <3>3, <3>4, <3>5 DEF Counted, CountDown
  <2> QED BY <1>7, <1>e, <2>1, <2>2
<1>8. ASSUME NEW p \in Callers, RecordRequest(p) PROVE Counted(j)'
  <2>1. req[p].probe \in Probes
    BY <1>8 DEF RecordRequest, CallInv, WellPlaced
  <2>2. CASE req[p].probe = j
    <3>1. mu[j] = p /\ pc[p] = "record" /\ mu'[j] = Nil
      BY <1>8, <1>o, <2>2 DEF TypeOK, RecordRequest, Unlock, Holds
    <3>2. Owed(j) = (IF code[p] = 500 THEN 1 ELSE 0) /\ Owed(j)' = 0
      BY <3>1, <1>j DEF Owed
    <3>3. spent'[j] = IF code[p] = 500 /\ spent[j] <= granted[j]
                        THEN spent[j] + 1 ELSE spent[j]
      BY <1>8, <2>2 DEF TypeOK, RecordRequest
    <3>4. failNext' = failNext /\ granted' = granted
      BY <1>8 DEF RecordRequest
    <3> QED BY <1>j, <3>2, <3>3, <3>4 DEF Counted
  <2> QED BY <1>8, <1>e, <2>1, <2>2
<1>9. ASSUME NEW p \in Callers, Finish(p) PROVE Counted(j)'
  BY <1>9, <1>f, <1>o DEF TypeOK, Finish, Goto, probeVars, Holds
<1> QED BY <1>1, <1>2, <1>3, <1>4, <1>5, <1>6, <1>7, <1>8, <1>9 DEF Next, Visit, Serve

(* Only RecordRequest changes a history, and with it lastID. *)
LEMMA HistoryStep == TypeOK /\ CallInv /\ HistoryInv /\ [Next]_vars => HistoryInv'
<1> SUFFICES ASSUME TypeOK, CallInv, HistoryInv, [Next]_vars
             PROVE  HistoryInv'
  OBVIOUS
<1>1. CASE history' = history /\ lastID' = lastID
  BY <1>1 DEF HistoryInv, Consecutive
<1>2. ASSUME NEW p \in Callers, RecordRequest(p) PROVE HistoryInv'
  <2> DEFINE k  == req[p].probe
             id == NextID(lastID[k])
             e  == [ID |-> id, Code |-> code[p]]
             l  == LastOf(Append(history[k], e), maxHistory)
             S  == Seq(Entries)
  <2>1. k \in Probes /\ code[p] \in {200, 500}
    BY <1>2 DEF RecordRequest, CallInv, WellPlaced
  <2>2. lastID[k] \in 0..IDs-1 /\ id \in 0..IDs-1
    BY <2>1, NextIDType DEF TypeOK
  <2>3. e \in Entries /\ e.ID = NextID(lastID[k])
    BY <2>1, <2>2 DEF Entries
  <2>4. history[k] \in S /\ history \in [Probes -> S]
    BY <2>1 DEF TypeOK
  <2>5. Consecutive(l, id)
    <3>1. Consecutive(history[k], lastID[k]) /\ e.ID = id
      BY <2>1 DEF HistoryInv
    <3> HIDE DEF e, k, id
    <3> QED BY <2>2, <2>3, <2>4, <3>1, RecordedIs
  <2>6. history' = [history EXCEPT ![k] = l] /\ lastID' = [lastID EXCEPT ![k] = id]
    BY <1>2 DEF RecordRequest
  <2>7. \A j \in Probes : /\ history'[j] = IF j = k THEN l ELSE history[j]
                          /\ lastID'[j] = IF j = k THEN id ELSE lastID[j]
    <3> HIDE DEF S, l, id, k
    <3> QED BY <2>4, <2>6 DEF TypeOK
  <2> HIDE DEF l, id, k
  <2> QED BY <2>5, <2>7 DEF HistoryInv, Consecutive
<1>3. \/ history' = history /\ lastID' = lastID
      \/ \E p \in Callers : RecordRequest(p)
  BY DEF Next, Visit, Ask, AskPut, Lock, Serve, SetConfig, APIGet, Handle, Finish,
         vars, probeVars
<1> QED BY <1>1, <1>2, <1>3

-----------------------------------------------------------------------------
(* THEOREMS *)

(* IInv is inductive. *)
LEMMA InvStep == IInv /\ [Next]_vars => IInv'
BY TypeStep, CallStep, LockStep, CountStep, HistoryStep DEF IInv

LEMMA Inductive == Spec => []IInv
<1>1. IInv /\ [Next]_vars => IInv'
  BY InvStep
<1>2. Init => IInv
  BY FreshIInv, ProbeAssumption DEF Init, Fresh
<1> QED BY <1>1, <1>2, PTL DEF Spec

(* Type correctness of the probes (pkg/debugprobe), whatever is PUT. *)
THEOREM TypeCorrect == Spec => []TypeOK
<1>1. IInv => TypeOK
  BY DEF IInv
<1> QED BY <1>1, Inductive, PTL

LEMMA CountInvImplies == IInv => FailsAsConfigured
<1> SUFFICES ASSUME IInv, NEW k \in Probes, mu[k] = Nil
             PROVE  failNext[k] = IF granted[k] > 0 THEN granted[k] - spent[k]
                                                    ELSE granted[k]
  BY DEF FailsAsConfigured
<1>1. Counted(k) /\ Owed(k) = 0
  BY DEF IInv, CountInv, Owed
<1>2. granted[k] \in Int /\ spent[k] \in Nat
  BY GrantedInt DEF IInv, TypeOK
<1> QED BY <1>1, <1>2 DEF Counted

LEMMA HistoryInvImplies == IInv => HistoryConsecutive
BY DEF IInv, HistoryInv, Consecutive, HistoryConsecutive

(* A probe that is told to fail n times fails n times, however calls and    *)
(* PUTs overlap: Handle's decision and its record are one to everybody else *)
(* (probe.go, Handle and recordRequest under p.mu).                         *)
THEOREM FailuresAgree == Spec => []FailsAsConfigured
BY CountInvImplies, Inductive, PTL

(* The history on show is an unbroken run of the latest calls, for every    *)
(* maxHistory (probe.go, recordRequest).                                    *)
THEOREM HistoryAgrees == Spec => []HistoryConsecutive
BY HistoryInvImplies, Inductive, PTL

=============================================================================
