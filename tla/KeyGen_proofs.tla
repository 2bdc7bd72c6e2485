---------------------------- MODULE KeyGen_proofs ----------------------------
(***************************************************************************)
(* Theorems about KeyGen, for any callers and configurations, any          *)
(* maxHistory and any number of LoadConfig calls.                          *)
(*                                                                         *)
(* The properties speak of quiet moments: an unlocked mutex, no Restart    *)
(* under way, a process that has ended.  The invariant says what holds in  *)
(* between: who is inside kg.mu (LockInv), that each context was paid for  *)
(* by a LoadConfig (LoadInv), which contexts are done (CancelInv), what a  *)
(* Restart that has decided has yet to do (SettleInv), what a workload has *)
(* done when it gets to each of its places (WorkInv), and what the history *)
(* looks like before its last line is counted (HistoryInv).                *)
(***************************************************************************)
EXTENDS KeyGen, FiniteSetTheorems, SequenceTheorems, TLAPS

Inside(p) == pc[p] \in {"restart", "kind", "start", "get"}
Writes(w) == at[w] \in {"append", "count"}

LockInv ==
  /\ \A p \in Callers : mu = p <=> Inside(p)
  /\ \A w \in Workloads : mu = w <=> Writes(w)

(* The LoadConfigs that have not got to the decision of their Restart yet. *)
Undecided == {p \in Callers : pc[p] \in {"write", "lock", "restart"}}

LoadInv ==
  IsFiniteSet(Undecided) /\ made + Cardinality(Undecided) <= loads

(* A Restart that has made a context has not started its workload yet. *)
Starting(p) == pc[p] \in {"kind", "start"}

CancelInv ==
  /\ \A w \in 1..made : ~cancelled[w] => w = cancelFunc
  /\ cancelFunc # NoWorkload => ~cancelled[cancelFunc]
  /\ \A w \in Workloads : w > made => ~cancelled[w] /\ at[w] = "none"
  /\ \A p \in Callers : Starting(p) => cancelFunc # NoWorkload /\ at[cancelFunc] = "none"

KindOf(cfg) == IF cfg.memq THEN "memq" ELSE "plain"

SettleInv ==
  Undecided = {} =>
    /\ config.enable <=> cancelFunc # NoWorkload
    /\ config.enable =>
         /\ (\A p \in Callers : pc[p] # "kind") => kind[cancelFunc] = KindOf(config)
         /\ (\A p \in Callers : ~Starting(p)) => c[cancelFunc] = config

(* Where a workload is, or will be once it has logged its line. *)
Logs(w) == at[w] \in {"log", "append", "count"}
Goal(w) == IF Logs(w) THEN after[w] ELSE at[w]

Bounded(w) ==
  kind[w] = "plain" /\ c[w].num > 0 =>
    generated[w] <= c[w].num /\ (at[w] = "gen" => generated[w] < c[w].num)

Earned(w) == kind[w] = "plain" => LimitReached(w) \/ timeout[w] = "fired"

WorkedWell(w) ==
  /\ Logs(w) => after[w] \in {"arm", "check", "sleep", "complete", "stopped"}
  /\ at[w] = "none" => generated[w] = 0 /\ late[w] = 0
  /\ at[w] = "dequeue" => kind[w] = "memq"
  /\ late[w] <= 1
  /\ late[w] = 1 => cancelled[w] /\ Goal(w) \in {"check", "complete", "stopped"}
  /\ Bounded(w)
  /\ Goal(w) = "complete" => Earned(w)

WorkInv == \A w \in Workloads : WorkedWell(w)

(* What WorkloadOutput has appended but not counted has the next ID. *)
Uncounted == \E w \in Workloads : at[w] = "count"

HistoryInv ==
  /\ Len(history) <= maxHistory
  /\ \A i \in 1..Len(history)-1 : history[i+1] = NextID(history[i])
  /\ history # <<>> => IF Uncounted THEN history[Len(history)] = nextHistoryID
                                    ELSE NextID(history[Len(history)]) = nextHistoryID

IInv == /\ TypeOK /\ LockInv /\ LoadInv /\ CancelInv /\ SettleInv
        /\ WorkInv /\ HistoryInv /\ ExitOnlyWhenComplete

CallerMoves(p) == Request(p) \/ Lock(p) \/ Handle(p)
WorkerMoves(w) == Run(w) \/ LockOutput(w) \/ TimeUp(w) \/ Answered(w)

-----------------------------------------------------------------------------
(* FACTS ABOUT THE OPERATORS *)

LEMMA ConfigTypes ==
  ASSUME NEW cfg \in ConfigType
  PROVE  /\ cfg.enable \in BOOLEAN /\ cfg.time \in BOOLEAN /\ cfg.memq \in BOOLEAN
         /\ cfg.exit \in BOOLEAN /\ cfg.num \in Int
BY DEF ConfigType

LEMMA NextIDType == ASSUME NEW i \in 0..HistoryIDs-1 PROVE NextID(i) \in 0..HistoryIDs-1
BY KeyGenAssumption DEF NextID

(* Nobody is a workload and a caller. *)
LEMMA Apart ==
  /\ \A p \in Callers : p # Nil /\ p \notin Workloads
  /\ \A w \in Workloads : w # Nil /\ w \notin Callers /\ w # NoWorkload
BY KeyGenAssumption DEF Workloads, NoWorkload

(* history[len-n:] is the rest of the list from some place on. *)
LEMMA LastOfIs ==
  ASSUME NEW S, NEW s \in Seq(S), NEW n \in Nat
  PROVE  /\ LastOf(s, n) \in Seq(S)
         /\ Len(LastOf(s, n)) <= n
         /\ \E d \in Nat : /\ Len(s) = Len(LastOf(s, n)) + d
                           /\ \A i \in 1..Len(LastOf(s, n)) : LastOf(s, n)[i] = s[i + d]
<1>1. CASE Len(s) <= n
  <2>1. Len(s) \in Nat /\ LastOf(s, n) = s
    BY <1>1, LenProperties DEF LastOf
  <2>2. \A i \in 1..Len(s) : s[i] = s[i + 0]
    BY <2>1
  <2> QED BY <1>1, <2>1, <2>2
<1>2. CASE Len(s) > n
  <2> DEFINE t == SubSeq(s, Len(s) - n + 1, Len(s))
  <2>1. LastOf(s, n) = t
    BY <1>2 DEF LastOf
  <2>2. Len(s) \in Nat /\ Len(s) - n \in Nat
    BY <1>2, LenProperties
  <2>3. /\ t \in Seq(S) /\ Len(t) = n
        /\ \A i \in 1..n : t[i] = s[i + (Len(s) - n)]
    <3>1. Len(s) - n + 1 \in 1..Len(s)+1 /\ Len(s) \in Len(s) - n .. Len(s)
      BY <1>2, <2>2
    <3>2. /\ t \in Seq(S)
          /\ Len(t) = IF Len(s) - n + 1 <= Len(s) THEN Len(s) - (Len(s) - n + 1) + 1 ELSE 0
          /\ \A i \in 1..Len(s) - (Len(s) - n + 1) + 1 : t[i] = s[Len(s) - n + 1 + i - 1]
      BY <3>1, SubSeqProperties
    <3>3. \A i \in 1..n : Len(s) - n + 1 + i - 1 = i + (Len(s) - n)
      BY <2>2
    <3>4. Len(s) - (Len(s) - n + 1) + 1 = n
      BY <2>2
    <3> HIDE DEF t
    <3>5. Len(t) = n
      BY <2>2, <3>2, <3>4
    <3> QED BY <3>2, <3>3, <3>4, <3>5
  <2> HIDE DEF t
  <2> QED BY <2>1, <2>2, <2>3
<1> QED BY <1>1, <1>2, LenProperties

-----------------------------------------------------------------------------
(* WHAT A STEP LEAVES ALONE *)

LEMMA CallerFrame ==
  ASSUME TypeOK, NEW p \in Callers, CallerMoves(p)
  PROVE  /\ \A q \in Callers \ {p} : pc'[q] = pc[q]
         /\ UNCHANGED <<history, nextHistoryID, generated, timeout, late, exited>>
<1> USE DEF TypeOK, Goto, workVars, kgVars
<1>1. CASE Request(p)
  BY <1>1 DEF Request, AskStatus, LoadConfig
<1>2. CASE Lock(p)
  BY <1>2 DEF Lock
<1>3. ASSUME NEW half \in Halves, WriteConfig(p, half)
      PROVE  /\ \A q \in Callers \ {p} : pc'[q] = pc[q]
             /\ UNCHANGED <<history, nextHistoryID, generated, timeout, late, exited>>
  BY <1>3 DEF WriteConfig
<1>4. CASE RestartDisabled(p) \/ RestartEnabled(p)
  BY <1>4 DEF RestartDisabled, RestartEnabled
<1>5. CASE ChooseKind(p) \/ StartWork(p) \/ ServeStatus(p)
  BY <1>5 DEF ChooseKind, StartWork, ServeStatus
<1> QED BY <1>1, <1>2, <1>3, <1>4, <1>5 DEF CallerMoves, Handle

LEMMA WorkerFrame ==
  ASSUME TypeOK, NEW w \in Workloads, WorkerMoves(w)
  PROVE  /\ UNCHANGED <<callerVars, config, cancelFunc, made, kind, c, cancelled>>
         /\ \A v \in Workloads \ {w} :
              /\ at'[v] = at[v] /\ after'[v] = after[v] /\ generated'[v] = generated[v]
              /\ timeout'[v] = timeout[v] /\ late'[v] = late[v]
<1> USE DEF TypeOK, LogThen, GoOn, kgVars
<1>1. CASE LockOutput(w) \/ AppendHistory(w) \/ CountHistory(w)
  BY <1>1 DEF LockOutput, AppendHistory, CountHistory
<1>2. CASE Arm(w) \/ TimeUp(w)
  BY <1>2 DEF Arm, TimeUp
<1>3. CASE IsDoneCancelled(w) \/ IsDoneTimeout(w) \/ IsDoneLimit(w)
  BY <1>3 DEF IsDoneCancelled, IsDoneTimeout, IsDoneLimit
<1>4. CASE IsNotDone(w) \/ Complete(w) \/ WakeUp(w)
  BY <1>4 DEF IsNotDone, Complete, WakeUp
<1>5. CASE GenerateKey(w)
  BY <1>5 DEF GenerateKey
<1>6. CASE DequeueError(w) \/ DequeueEmpty(w) \/ DequeueMessage(w)
  BY <1>6 DEF DequeueError, DequeueEmpty, DequeueMessage
<1> QED BY <1>1, <1>2, <1>3, <1>4, <1>5, <1>6 DEF WorkerMoves, Run, Answered

-----------------------------------------------------------------------------
(* TYPES *)

(* A Restart that makes a context belongs to a LoadConfig not counted yet. *)
LEMMA RoomForOne ==
  ASSUME TypeOK, LoadInv, NEW p \in Callers, pc[p] = "restart"
  PROVE  made + 1 \in 0..MaxLoads /\ made + 1 \in Workloads
<1>1. p \in Undecided /\ IsFiniteSet(Undecided)
  BY DEF LoadInv, Undecided
<1>2. Cardinality(Undecided) \in Nat /\ Cardinality(Undecided) # 0
  BY <1>1, FS_CardinalityType, FS_EmptySet
<1> QED BY <1>2, KeyGenAssumption DEF TypeOK, LoadInv, Workloads

LEMMA ContextIs ==
  ASSUME TypeOK, CancelInv, NEW p \in Callers, Starting(p)
  PROVE  cancelFunc \in Workloads /\ cancelFunc <= made /\ at[cancelFunc] = "none"
BY KeyGenAssumption DEF TypeOK, CancelInv, NoWorkload, Workloads

LEMMA AppendType ==
  ASSUME TypeOK
  PROVE  LastOf(Append(history, nextHistoryID), maxHistory) \in Seq(0..HistoryIDs-1)
<1>1. Append(history, nextHistoryID) \in Seq(0..HistoryIDs-1)
  BY DEF TypeOK
<1> QED BY <1>1, LastOfIs, KeyGenAssumption

LEMMA CallerType ==
  ASSUME TypeOK, LoadInv, CancelInv, NEW p \in Callers, CallerMoves(p)
  PROVE  TypeOK'
<1> USE DEF TypeOK, Goto, workVars, kgVars
<1>1. CASE AskStatus(p)
  BY <1>1 DEF AskStatus
<1>2. ASSUME NEW cfg \in Configs, LoadConfig(p, cfg) PROVE TypeOK'
  <2>1. cfg \in ConfigType
    BY KeyGenAssumption
  <2>2. loads' \in 0..MaxLoads
    BY <1>2, KeyGenAssumption DEF LoadConfig
  <2> QED BY <1>2, <2>1, <2>2 DEF LoadConfig
<1>3. CASE Lock(p)
  BY <1>3 DEF Lock
<1>4. ASSUME NEW half \in Halves, WriteConfig(p, half) PROVE TypeOK'
  (* A configuration that is torn between two is one all the same. *)
  <2>1. config' \in ConfigType
    <3> DEFINE a == arg[p]
    <3>1. a \in ConfigType /\ config \in ConfigType
      BY DEF TypeOK
    <3>2. config' = [f \in Fields |-> IF f \in half THEN a[f] ELSE config[f]]
      BY <1>4 DEF WriteConfig
    <3> HIDE DEF a
    <3> QED BY <3>1, <3>2 DEF ConfigType, Fields
  <2>2. ZeroConfig \in ConfigType
    BY DEF ZeroConfig, ConfigType
  <2>3. unwritten' \in [Callers -> SUBSET Halves]
    BY <1>4 DEF WriteConfig
  <2>4. arg' \in [Callers -> ConfigType]
    BY <1>4, <2>2 DEF WriteConfig
  <2> QED BY <1>4, <2>1, <2>3, <2>4 DEF WriteConfig
<1>5. CASE RestartDisabled(p)
  <2>1. cancelFunc' \in 0..made
    BY <1>5, KeyGenAssumption DEF RestartDisabled, NoWorkload
  <2>2. cancelled' \in [Workloads -> BOOLEAN]
    BY <1>5 DEF RestartDisabled, CancelRunning
  <2> QED BY <1>5, <2>1, <2>2 DEF RestartDisabled
<1>6. CASE RestartEnabled(p)
  <2>1. made' \in 0..MaxLoads /\ cancelFunc' \in 0..made'
    BY <1>6, RoomForOne DEF RestartEnabled
  <2>2. cancelled' \in [Workloads -> BOOLEAN]
    BY <1>6 DEF RestartEnabled, CancelRunning
  <2> QED BY <1>6, <2>1, <2>2 DEF RestartEnabled
<1>7. CASE ChooseKind(p)
  BY <1>7 DEF ChooseKind
<1>8. CASE StartWork(p)
  BY <1>8 DEF StartWork, Places
<1>9. CASE ServeStatus(p)
  BY <1>9 DEF ServeStatus
<1> QED BY <1>1, <1>2, <1>3, <1>4, <1>5, <1>6, <1>7, <1>8, <1>9 DEF CallerMoves, Request, Handle

LEMMA WorkerType ==
  ASSUME TypeOK, WorkInv, NEW w \in Workloads, WorkerMoves(w)
  PROVE  TypeOK'
<1> USE DEF TypeOK, LogThen, GoOn, callerVars, kgVars, Places
<1>1. CASE LockOutput(w)
  BY <1>1 DEF LockOutput
<1>2. CASE AppendHistory(w)
  BY <1>2, AppendType DEF AppendHistory
<1>3. CASE CountHistory(w)
  BY <1>3, NextIDType DEF CountHistory
<1>4. CASE Arm(w) \/ TimeUp(w)
  BY <1>4 DEF Arm, TimeUp
<1>5. CASE IsDoneCancelled(w) \/ IsDoneTimeout(w) \/ IsDoneLimit(w) \/ IsNotDone(w)
  BY <1>5 DEF IsDoneCancelled, IsDoneTimeout, IsDoneLimit, IsNotDone
<1>6. exited \in 0..MaxLoads => w \in 0..MaxLoads /\ NoWorkload \in 0..MaxLoads
  BY KeyGenAssumption DEF Workloads, NoWorkload
<1>7. CASE Complete(w) \/ WakeUp(w)
  BY <1>6, <1>7 DEF Complete, WakeUp
<1>8. CASE GenerateKey(w)
  <2>1. late' \in [Workloads -> 0..2]
    BY <1>8 DEF GenerateKey
  <2>2. generated' \in [Workloads -> Nat]
    BY <1>8 DEF GenerateKey
  <2> QED BY <1>8, <2>1, <2>2 DEF GenerateKey
<1>9. CASE Answered(w)
  BY <1>6, <1>9 DEF Answered, DequeueError, DequeueEmpty, DequeueMessage
<1> QED BY <1>1, <1>2, <1>3, <1>4, <1>5, <1>7, <1>8, <1>9 DEF WorkerMoves, Run

-----------------------------------------------------------------------------
(* THE MUTEX *)

LEMMA LockStep ==
  ASSUME TypeOK, LockInv, WorkInv, CancelInv, Next
  PROVE  LockInv'
<1> USE Apart DEF LockInv, Inside, Writes
<1>1. ASSUME NEW p \in Callers, CallerMoves(p) PROVE LockInv'
  <2>1. \A q \in Callers \ {p} : pc'[q] = pc[q]
    BY <1>1, CallerFrame
  <2>2. CASE ~StartWork(p)
    <3>1. at' = at
      BY <1>1, <2>2 DEF CallerMoves, Request, AskStatus, LoadConfig, Lock, Handle, WriteConfig,
             RestartDisabled, RestartEnabled, ChooseKind, ServeStatus, workVars
    <3>2. CASE Request(p) \/ \E half \in Halves : WriteConfig(p, half)
      <4>1. mu' = mu /\ ~Inside(p) /\ ~Inside(p)'
        BY <3>2 DEF Request, AskStatus, LoadConfig, WriteConfig, Goto, TypeOK, kgVars
      <4> QED BY <2>1, <3>1, <4>1
    <3>3. CASE Lock(p)
      <4>1. mu = Nil /\ mu' = p /\ Inside(p)'
        BY <3>3 DEF Lock, Goto, TypeOK
      <4> QED BY <2>1, <3>1, <4>1
    <3>4. CASE RestartEnabled(p) \/ ChooseKind(p)
      <4>1. mu' = mu /\ Inside(p) /\ Inside(p)'
        BY <3>4 DEF RestartEnabled, ChooseKind, Goto, TypeOK, kgVars
      <4> QED BY <2>1, <3>1, <4>1
    <3>5. CASE RestartDisabled(p) \/ ServeStatus(p)
      <4>1. mu' = Nil /\ Inside(p) /\ ~Inside(p)'
        BY <3>5 DEF RestartDisabled, ServeStatus, Goto, TypeOK
      <4> QED BY <2>1, <3>1, <4>1
    <3> QED BY <1>1, <2>2, <3>2, <3>3, <3>4, <3>5 DEF CallerMoves, Handle
  <2>3. CASE StartWork(p)
    <3>1. mu' = Nil /\ Inside(p) /\ ~Inside(p)'
      BY <2>3 DEF StartWork, Goto, TypeOK
    <3>2. \A w \in Workloads : Writes(w)' = Writes(w)
      BY <2>3, ContextIs DEF StartWork, Starting, TypeOK
    <3> QED BY <2>1, <3>1, <3>2
  <2> QED BY <2>2, <2>3
<1>2. ASSUME NEW w \in Workloads, WorkerMoves(w) PROVE LockInv'
  <2>1. pc' = pc /\ \A v \in Workloads \ {w} : at'[v] = at[v]
    BY <1>2, WorkerFrame DEF callerVars
  <2>2. CASE LockOutput(w)
    <3>1. mu = Nil /\ mu' = w /\ Writes(w)'
      BY <2>2 DEF LockOutput, TypeOK
    <3> QED BY <2>1, <3>1
  <2>3. CASE AppendHistory(w)
    <3>1. mu' = mu /\ Writes(w) /\ Writes(w)'
      BY <2>3 DEF AppendHistory, TypeOK
    <3> QED BY <2>1, <3>1
  <2>4. CASE CountHistory(w)
    <3>1. mu' = Nil /\ Writes(w) /\ ~Writes(w)'
      BY <2>4 DEF CountHistory, TypeOK, WorkInv, WorkedWell, Logs
    <3> QED BY <2>1, <3>1
  <2>5. CASE TimeUp(w)
    BY <2>1, <2>5 DEF TimeUp, kgVars
  <2>6. CASE ~(LockOutput(w) \/ AppendHistory(w) \/ CountHistory(w) \/ TimeUp(w))
    <3>1. mu' = mu /\ ~Writes(w) /\ ~Writes(w)'
      BY <1>2, <2>6 DEF WorkerMoves, Run, Arm, IsDoneCancelled, IsDoneTimeout, IsDoneLimit,
             IsNotDone, Complete, GenerateKey, WakeUp, Answered, DequeueError, DequeueEmpty,
             DequeueMessage, LogThen, GoOn, TypeOK, kgVars
    <3> QED BY <2>1, <3>1
  <2> QED BY <2>2, <2>3, <2>4, <2>5, <2>6
<1> QED BY <1>1, <1>2 DEF Next, CallerMoves, WorkerMoves

-----------------------------------------------------------------------------
(* LOADS AND CONTEXTS *)

LEMMA LoadStep ==
  ASSUME TypeOK, LoadInv, Next
  PROVE  LoadInv'
<1> USE DEF TypeOK, Goto
<1>1. ASSUME NEW w \in Workloads, WorkerMoves(w) PROVE LoadInv'
  <2>1. pc' = pc /\ made' = made /\ loads' = loads
    BY <1>1, WorkerFrame DEF callerVars
  <2> QED BY <2>1 DEF LoadInv, Undecided
<1>2. ASSUME NEW p \in Callers, CallerMoves(p) PROVE LoadInv'
  <2>1. \A q \in Callers \ {p} : pc'[q] = pc[q]
    BY <1>2, CallerFrame
  <2>2. IsFiniteSet(Undecided) /\ Cardinality(Undecided) \in Nat
    BY FS_CardinalityType DEF LoadInv
  <2>3. ASSUME NEW cfg \in Configs, LoadConfig(p, cfg) PROVE LoadInv'
    <3>1. Undecided' = Undecided \cup {p} /\ p \notin Undecided
      BY <2>1, <2>3 DEF LoadConfig, Undecided
    <3>2. IsFiniteSet(Undecided') /\ Cardinality(Undecided') = Cardinality(Undecided) + 1
      BY <2>2, <3>1, FS_AddElement
    <3> QED BY <2>2, <2>3, <3>2 DEF LoadConfig, LoadInv, kgVars
  <2>4. CASE RestartDisabled(p) \/ RestartEnabled(p)
    <3>1. Undecided' = Undecided \ {p} /\ p \in Undecided
      BY <2>1, <2>4 DEF RestartDisabled, RestartEnabled, Undecided
    <3>2. IsFiniteSet(Undecided') /\ Cardinality(Undecided') = Cardinality(Undecided) - 1
      BY <2>2, <3>1, FS_RemoveElement
    <3>3. made' <= made + 1 /\ made' \in Int /\ loads' = loads
      BY <2>4 DEF RestartDisabled, RestartEnabled
    <3> QED BY <2>2, <3>2, <3>3 DEF LoadInv
  <2>5. CASE \/ AskStatus(p) \/ Lock(p) \/ ChooseKind(p) \/ StartWork(p) \/ ServeStatus(p)
             \/ \E half \in Halves : WriteConfig(p, half)
    <3>1. /\ pc'[p] \in {"write", "lock", "restart"} <=> pc[p] \in {"write", "lock", "restart"}
          /\ made' = made /\ loads' = loads
      BY <2>5 DEF AskStatus, Lock, ChooseKind, StartWork, ServeStatus, WriteConfig, kgVars
    <3>2. Undecided' = Undecided
      BY <2>1, <3>1 DEF Undecided
    <3> QED BY <3>1, <3>2 DEF LoadInv
  <2> QED BY <1>2, <2>3, <2>4, <2>5 DEF CallerMoves, Request, Handle
<1> QED BY <1>1, <1>2 DEF Next, CallerMoves, WorkerMoves

LEMMA CancelStep ==
  ASSUME TypeOK, LockInv, LoadInv, CancelInv, Next
  PROVE  CancelInv'
<1> USE DEF CancelInv, Starting
<1>0. made \in Nat /\ cancelFunc \in 0..made /\ NoWorkload = 0
  BY KeyGenAssumption DEF TypeOK, NoWorkload
<1>1. ASSUME NEW w \in Workloads, WorkerMoves(w) PROVE CancelInv'
  <2>1. /\ UNCHANGED <<pc, made, cancelFunc, cancelled>>
        /\ \A v \in Workloads \ {w} : at'[v] = at[v]
    BY <1>1, WorkerFrame DEF callerVars
  <2>2. at[w] # "none" \/ at' = at
    BY <1>1 DEF WorkerMoves, Run, LockOutput, AppendHistory, CountHistory, Arm, TimeUp,
           IsDoneCancelled, IsDoneTimeout, IsDoneLimit, IsNotDone, Complete, GenerateKey, WakeUp,
           Answered, DequeueError, DequeueEmpty, DequeueMessage
  <2>3. \A v \in Workloads : at[v] = "none" => at'[v] = "none"
    BY <2>1, <2>2
  <2>4. cancelFunc # NoWorkload => cancelFunc \in Workloads
    BY <1>0, KeyGenAssumption DEF Workloads, TypeOK
  <2> QED BY <2>1, <2>3, <2>4
<1>2. ASSUME NEW p \in Callers, CallerMoves(p) PROVE CancelInv'
  <2>1. \A q \in Callers \ {p} : pc'[q] = pc[q]
    BY <1>2, CallerFrame
  <2>2. CASE RestartDisabled(p) \/ RestartEnabled(p)
    <3>1. \A w \in Workloads : cancelled'[w] <=> cancelled[w] \/ w = cancelFunc
      BY <2>2 DEF RestartDisabled, RestartEnabled, CancelRunning, TypeOK
    <3>2. \A q \in Callers \ {p} : ~Starting(q)'
      BY <2>1, <2>2 DEF RestartDisabled, RestartEnabled, LockInv, Inside
    <3>3. at' = at /\ 1..made \subseteq Workloads
      BY <1>0, <2>2, KeyGenAssumption DEF RestartDisabled, RestartEnabled, TypeOK, Workloads
    <3>4. CASE RestartDisabled(p)
      <4>1. made' = made /\ cancelFunc' = NoWorkload /\ ~Starting(p)'
        BY <3>4 DEF RestartDisabled, Goto, TypeOK
      <4> QED BY <1>0, <3>1, <3>2, <3>3, <4>1
    <3>5. CASE RestartEnabled(p)
      <4>1. made' = made + 1 /\ cancelFunc' = made + 1 /\ made + 1 \in Workloads
        BY <3>5, RoomForOne DEF RestartEnabled
      <4>2. ~cancelled'[made + 1] /\ at[made + 1] = "none" /\ made + 1 # NoWorkload
        BY <1>0, <3>1, <4>1
      <4>3. \A w \in 1..made : cancelled'[w]
        BY <3>1, <3>3
      <4>4. \A w \in 1..made + 1 : ~cancelled'[w] => w = made + 1
        BY <1>0, <4>3
      <4>5. \A w \in Workloads : w > made + 1 => ~cancelled'[w] /\ at'[w] = "none"
        BY <1>0, <3>1, <3>3 DEF Workloads
      <4> QED BY <3>2, <3>3, <4>1, <4>2, <4>4, <4>5
    <3> QED BY <2>2, <3>4, <3>5
  <2>3. CASE StartWork(p)
    <3>1. UNCHANGED <<made, cancelFunc, cancelled>> /\ ~Starting(p)'
      BY <2>3 DEF StartWork, Goto, TypeOK
    <3>2. \A q \in Callers \ {p} : ~Starting(q)'
      BY <2>1, <2>3 DEF StartWork, LockInv, Inside
    <3>3. cancelFunc \in Workloads /\ cancelFunc <= made
      BY <2>3, ContextIs DEF StartWork
    <3>4. \A w \in Workloads : w > made => at'[w] = at[w]
      BY <1>0, <2>3, <3>3 DEF StartWork, TypeOK, Workloads
    <3> QED BY <3>1, <3>2, <3>4
  <2>4. CASE \/ Request(p) \/ Lock(p) \/ ChooseKind(p) \/ ServeStatus(p)
             \/ \E half \in Halves : WriteConfig(p, half)
    <3>1. UNCHANGED <<made, cancelFunc, cancelled, at>>
      BY <2>4 DEF Request, AskStatus, LoadConfig, Lock, ChooseKind, ServeStatus, WriteConfig,
             workVars, kgVars
    <3>2. Starting(p)' => Starting(p)
      BY <2>4 DEF Request, AskStatus, LoadConfig, Lock, ChooseKind, ServeStatus, WriteConfig, Goto,
             TypeOK
    <3> QED BY <2>1, <3>1, <3>2
  <2> QED BY <1>2, <2>2, <2>3, <2>4 DEF CallerMoves, Handle
<1> QED BY <1>1, <1>2 DEF Next, CallerMoves, WorkerMoves

(* A LoadConfig that is still on its way leaves nothing to show. *)
LEMMA SettleStep ==
  ASSUME TypeOK, LockInv, LoadInv, CancelInv, SettleInv, Next
  PROVE  SettleInv'
<1> USE DEF SettleInv, Starting
<1>1. ASSUME NEW w \in Workloads, WorkerMoves(w) PROVE SettleInv'
  <2>1. UNCHANGED <<pc, config, cancelFunc, kind, c>>
    BY <1>1, WorkerFrame DEF callerVars
  <2> QED BY <2>1 DEF Undecided
<1>2. ASSUME NEW p \in Callers, CallerMoves(p) PROVE SettleInv'
  <2>1. \A q \in Callers \ {p} : pc'[q] = pc[q]
    BY <1>2, CallerFrame
  <2>2. CASE p \in Undecided'
    BY <2>2
  <2>3. CASE RestartDisabled(p)
    <3>1. config' = config /\ ~config.enable /\ cancelFunc' = NoWorkload
      BY <2>3 DEF RestartDisabled
    <3> QED BY <3>1
  <2>4. CASE RestartEnabled(p)
    <3>1. config' = config /\ config.enable /\ cancelFunc' = made + 1 /\ pc'[p] = "kind"
      BY <2>4 DEF RestartEnabled, Goto, TypeOK
    <3>2. made + 1 # NoWorkload
      BY <2>4, RoomForOne, Apart DEF RestartEnabled
    <3> QED BY <3>1, <3>2
  <2>5. CASE ChooseKind(p)
    <3>1. UNCHANGED <<config, cancelFunc, c>> /\ pc[p] = "kind" /\ pc'[p] = "start"
      BY <2>5 DEF ChooseKind, Goto, TypeOK, kgVars
    <3>2. kind'[cancelFunc] = KindOf(config)
      BY <2>5, ContextIs DEF ChooseKind, TypeOK, KindOf
    <3>3. Undecided' = Undecided
      BY <2>1, <3>1 DEF Undecided
    <3> QED BY <3>1, <3>2, <3>3
  <2>6. CASE StartWork(p)
    <3>1. UNCHANGED <<config, cancelFunc, kind>> /\ pc[p] = "start" /\ pc'[p] = "lockGet"
      BY <2>6 DEF StartWork, Goto, TypeOK
    <3>2. c'[cancelFunc] = config
      BY <2>6, ContextIs DEF StartWork, TypeOK
    <3>3. Undecided' = Undecided
      BY <2>1, <3>1 DEF Undecided
    <3>4. (\A q \in Callers : pc'[q] # "kind") => \A q \in Callers : pc[q] # "kind"
      BY <2>1, <3>1
    <3> QED BY <3>1, <3>2, <3>3, <3>4
  <2>7. CASE /\ p \notin Undecided'
             /\ \/ Request(p) \/ Lock(p) \/ ServeStatus(p)
                \/ \E half \in Halves : WriteConfig(p, half)
    <3>1. /\ pc[p] \in {"idle", "lockGet", "get"} /\ pc'[p] \in {"idle", "lockGet", "get"}
          /\ UNCHANGED <<config, cancelFunc, kind, c>>
      BY <2>7 DEF Undecided, Request, AskStatus, LoadConfig, Lock, ServeStatus, WriteConfig, Goto,
             TypeOK, workVars, kgVars
    <3>2. Undecided' = Undecided
      BY <2>1, <3>1 DEF Undecided
    <3> QED BY <2>1, <3>1, <3>2
  <2> QED BY <1>2, <2>2, <2>3, <2>4, <2>5, <2>6, <2>7 DEF CallerMoves, Handle
<1> QED BY <1>1, <1>2 DEF Next, CallerMoves, WorkerMoves

-----------------------------------------------------------------------------
(* THE WORK *)

LEMMA WorkerWorks ==
  ASSUME TypeOK, NEW w \in Workloads, WorkedWell(w), WorkerMoves(w)
  PROVE  WorkedWell(w)'
<1> USE DEF WorkedWell, Goal, Logs, LogThen, GoOn
<1>0. /\ at[w] \in Places /\ after[w] \in Places /\ generated[w] \in Nat /\ late[w] \in 0..2
      /\ at \in [Workloads -> Places] /\ after \in [Workloads -> Places]
      /\ generated \in [Workloads -> Nat] /\ late \in [Workloads -> 0..2]
      /\ timeout \in [Workloads -> {"unset", "running", "fired"}]
      /\ c[w].num \in Int
  BY ConfigTypes DEF TypeOK
<1>a. UNCHANGED <<kind, c, cancelled>>
  BY WorkerFrame
<1>b. UNCHANGED generated => LimitReached(w)' = LimitReached(w)
  BY <1>a DEF LimitReached
<1>1. CASE LockOutput(w) \/ AppendHistory(w)
  BY <1>0, <1>1, <1>a, <1>b DEF LockOutput, AppendHistory, Bounded, Earned
<1>2. CASE CountHistory(w)
  BY <1>0, <1>2, <1>a, <1>b DEF CountHistory, Bounded, Earned
<1>3. CASE Arm(w)
  BY <1>0, <1>3, <1>a DEF Arm, Bounded
<1>4. CASE TimeUp(w)
  BY <1>0, <1>4, <1>a, <1>b DEF TimeUp, Bounded, Earned
<1>5. CASE IsDoneCancelled(w)
  BY <1>0, <1>5, <1>a DEF IsDoneCancelled, Bounded
<1>6. CASE IsDoneTimeout(w) \/ IsDoneLimit(w)
  BY <1>0, <1>6, <1>a, <1>b DEF IsDoneTimeout, IsDoneLimit, Bounded, Earned
<1>7. CASE IsNotDone(w)
  <2>1. late[w] = 0 /\ late' = late /\ generated' = generated
    BY <1>0, <1>7 DEF IsNotDone
  <2>2. at'[w] = (IF kind[w] = "plain" THEN "gen" ELSE "dequeue") /\ kind[w] \in {"plain", "memq"}
    BY <1>0, <1>7 DEF IsNotDone, TypeOK
  <2>3. Bounded(w)'
    BY <1>0, <1>7, <1>a, <2>1 DEF IsNotDone, Bounded, LimitReached
  <2> QED BY <1>a, <2>1, <2>2, <2>3
<1>8. CASE Complete(w) \/ WakeUp(w)
  BY <1>0, <1>8, <1>a DEF Complete, WakeUp, Bounded
<1>9. CASE GenerateKey(w)
  <2>1. late[w] = 0
    BY <1>0, <1>9 DEF GenerateKey
  <2>2. late'[w] = IF cancelled[w] THEN 1 ELSE 0
    BY <1>0, <1>9, <2>1 DEF GenerateKey
  <2>3. Bounded(w)'
    BY <1>0, <1>9, <1>a DEF GenerateKey, Bounded
  <2>4. at'[w] = "log" /\ after'[w] = "check"
    BY <1>0, <1>9 DEF GenerateKey
  <2> QED BY <1>a, <2>2, <2>3, <2>4
<1>10. CASE Answered(w)
  BY <1>0, <1>10, <1>a DEF Answered, DequeueError, DequeueEmpty, DequeueMessage, Bounded
<1> QED BY <1>1, <1>2, <1>3, <1>4, <1>5, <1>6, <1>7, <1>8, <1>9, <1>10 DEF WorkerMoves, Run

(* Restart cancels workloads and makes one that has not begun. *)
LEMMA CallerWorks ==
  ASSUME TypeOK, CancelInv, NEW w \in Workloads, WorkedWell(w), NEW p \in Callers, CallerMoves(p)
  PROVE  WorkedWell(w)'
<1>0. UNCHANGED <<generated, timeout, late>>
  BY CallerFrame
<1>1. cancelled[w] => cancelled'[w]
  BY DEF TypeOK, CancelRunning, CallerMoves, Request, AskStatus, LoadConfig, Lock, Handle, WriteConfig,
         RestartDisabled, RestartEnabled, ChooseKind, StartWork, ServeStatus, workVars
<1>2. CASE ~(ChooseKind(p) \/ StartWork(p))
  <2>1. UNCHANGED <<at, after, kind, c>>
    BY <1>2 DEF CallerMoves, Request, AskStatus, LoadConfig, Lock, Handle, WriteConfig,
           RestartDisabled, RestartEnabled, ServeStatus, workVars
  <2>2. /\ LimitReached(w)' = LimitReached(w) /\ Bounded(w)' = Bounded(w)
        /\ Logs(w)' = Logs(w) /\ Goal(w)' = Goal(w)
    BY <1>0, <2>1 DEF LimitReached, Bounded, Logs, Goal
  <2> QED BY <1>0, <1>1, <2>1, <2>2 DEF WorkedWell, Earned
<1>3. CASE ChooseKind(p) \/ StartWork(p)
  <2>1. /\ cancelFunc \in Workloads /\ at[cancelFunc] = "none"
        /\ \A v \in Workloads \ {cancelFunc} :
             at'[v] = at[v] /\ after'[v] = after[v] /\ kind'[v] = kind[v] /\ c'[v] = c[v]
    BY <1>3, ContextIs DEF ChooseKind, StartWork, Starting, TypeOK
  <2>2. CASE w # cancelFunc
    <3>1. /\ LimitReached(w)' = LimitReached(w) /\ Bounded(w)' = Bounded(w)
          /\ Logs(w)' = Logs(w) /\ Goal(w)' = Goal(w)
      BY <1>0, <2>1, <2>2 DEF LimitReached, Bounded, Logs, Goal
    <3> QED BY <1>0, <1>1, <2>1, <2>2, <3>1 DEF WorkedWell, Earned
  <2>3. CASE w = cancelFunc
    <3>1. generated'[w] = 0 /\ late'[w] = 0
      BY <1>0, <2>1, <2>3 DEF WorkedWell
    <3>2. \/ at'[w] = "none"
          \/ at'[w] = "log" /\ after'[w] \in {"arm", "check"}
      BY <1>3, <2>1, <2>3 DEF ChooseKind, StartWork, TypeOK
    <3>3. c'[w] \in ConfigType
      BY <1>3, <2>1, <2>3 DEF ChooseKind, StartWork, TypeOK
    <3>4. Bounded(w)'
      BY <3>1, <3>2, <3>3, ConfigTypes DEF Bounded
    <3> QED BY <3>1, <3>2, <3>4 DEF WorkedWell, Goal, Logs
  <2> QED BY <2>2, <2>3
<1> QED BY <1>2, <1>3

LEMMA WorkStep ==
  ASSUME TypeOK, CancelInv, WorkInv, Next
  PROVE  WorkInv'
<1>1. ASSUME NEW p \in Callers, CallerMoves(p) PROVE WorkInv'
  BY <1>1, CallerWorks DEF WorkInv
<1>2. ASSUME NEW w \in Workloads, WorkerMoves(w) PROVE WorkInv'
  <2>1. ASSUME NEW v \in Workloads, v # w PROVE WorkedWell(v)'
    <3>1. /\ at'[v] = at[v] /\ after'[v] = after[v] /\ generated'[v] = generated[v]
          /\ timeout'[v] = timeout[v] /\ late'[v] = late[v]
          /\ kind'[v] = kind[v] /\ c'[v] = c[v] /\ cancelled'[v] = cancelled[v]
      BY <1>2, <2>1, WorkerFrame
    <3> QED BY <3>1 DEF WorkInv, WorkedWell, Logs, Goal, Bounded, Earned, LimitReached
  <2> QED BY <1>2, <2>1, WorkerWorks DEF WorkInv
<1> QED BY <1>1, <1>2 DEF Next, CallerMoves, WorkerMoves

LEMMA ExitStep ==
  ASSUME TypeOK, WorkInv, Next
  PROVE  ExitOnlyWhenComplete'
<1>1. ASSUME NEW p \in Callers, CallerMoves(p) PROVE ExitOnlyWhenComplete'
  BY <1>1, CallerFrame DEF Next, ExitOnlyWhenComplete
<1>2. ASSUME NEW w \in Workloads, WorkerMoves(w) PROVE ExitOnlyWhenComplete'
  <2>1. UNCHANGED <<kind, c>>
    BY <1>2, WorkerFrame
  <2>2. CASE Complete(w)
    <3>1. Earned(w)
      BY <2>2 DEF Complete, WorkInv, WorkedWell, Goal, Logs
    <3>2. Earned(w)'
      BY <2>1, <2>2, <3>1 DEF Complete, Earned, LimitReached
    <3> QED BY <2>1, <2>2, <3>2 DEF Complete, Earned, ExitOnlyWhenComplete
  <2>3. CASE DequeueEmpty(w)
    <3>1. kind[w] = "memq"
      BY <2>3 DEF DequeueEmpty, WorkInv, WorkedWell
    <3> QED BY <2>1, <2>3, <3>1 DEF DequeueEmpty, Next, ExitOnlyWhenComplete
  <2>4. CASE ~Complete(w) /\ ~DequeueEmpty(w)
    <3>1. exited' = NoWorkload
      BY <1>2, <2>4 DEF Next, WorkerMoves, Run, LockOutput, AppendHistory, CountHistory, Arm, TimeUp,
             IsDoneCancelled, IsDoneTimeout, IsDoneLimit, IsNotDone, GenerateKey, WakeUp,
             Answered, DequeueError, DequeueMessage
    <3> QED BY <3>1 DEF ExitOnlyWhenComplete
  <2> QED BY <2>2, <2>3, <2>4
<1> QED BY <1>1, <1>2 DEF Next, CallerMoves, WorkerMoves

-----------------------------------------------------------------------------
(* THE HISTORY *)

(* A list that ends before nextHistoryID, with nextHistoryID appended and   *)
(* trimmed, ends with it.                                                   *)
LEMMA AppendIs ==
  ASSUME TypeOK, HistoryInv, ~Uncounted
  PROVE  LET l == LastOf(Append(history, nextHistoryID), maxHistory)
         IN  /\ Len(l) <= maxHistory
             /\ \A i \in 1..Len(l)-1 : l[i+1] = NextID(l[i])
             /\ l # <<>> => l[Len(l)] = nextHistoryID
<1> DEFINE S == 0..HistoryIDs-1
           a == Append(history, nextHistoryID)
           l == LastOf(a, maxHistory)
<1>1. /\ Len(history) \in Nat /\ Len(a) = Len(history) + 1 /\ a \in Seq(S)
      /\ a[Len(history) + 1] = nextHistoryID
      /\ \A i \in 1..Len(history) : a[i] = history[i]
  BY DEF TypeOK
<1>2. \A i \in 1..Len(a)-1 : a[i+1] = NextID(a[i])
  <2> SUFFICES ASSUME NEW i \in 1..Len(a)-1 PROVE a[i+1] = NextID(a[i])
    OBVIOUS
  <2> HIDE DEF a
  <2>1. CASE i < Len(history)
    <3>1. i \in 1..Len(history)-1 /\ i \in 1..Len(history) /\ i + 1 \in 1..Len(history)
      BY <1>1, <2>1
    <3> QED BY <1>1, <3>1 DEF HistoryInv
  <2>2. CASE i = Len(history)
    <3>1. history # <<>> /\ i \in 1..Len(history)
      BY <1>1, <2>2, EmptySeq
    <3> QED BY <1>1, <2>2, <3>1 DEF HistoryInv
  <2> QED BY <1>1, <2>1, <2>2
<1>3. /\ l \in Seq(S) /\ Len(l) <= maxHistory
      /\ \E d \in Nat : Len(a) = Len(l) + d /\ \A i \in 1..Len(l) : l[i] = a[i + d]
  <2> HIDE DEF a, S
  <2>1. maxHistory \in Nat
    BY KeyGenAssumption
  <2>2. a \in Seq(S)
    BY <1>1
  <2>3. /\ LastOf(a, maxHistory) \in Seq(S)
        /\ Len(LastOf(a, maxHistory)) <= maxHistory
        /\ \E d \in Nat : /\ Len(a) = Len(LastOf(a, maxHistory)) + d
                          /\ \A i \in 1..Len(LastOf(a, maxHistory)) :
                               LastOf(a, maxHistory)[i] = a[i + d]
    BY <2>1, <2>2, LastOfIs, Zenon
  <2> QED BY <2>3, Zenon
<1>4. PICK d \in Nat : Len(a) = Len(l) + d /\ \A i \in 1..Len(l) : l[i] = a[i + d]
  BY <1>3
<1>5. Len(l) \in Nat /\ (l # <<>> => Len(l) \in 1..Len(l))
  <2> HIDE DEF l
  <2> QED BY <1>3
<1> HIDE DEF a, l, S
<1>6. ASSUME NEW i \in 1..Len(l)-1 PROVE l[i+1] = NextID(l[i])
  <2>1. i \in 1..Len(l) /\ i + 1 \in 1..Len(l) /\ i + d \in 1..Len(a)-1
    BY <1>1, <1>4, <1>5
  <2>2. l[i] = a[i + d] /\ l[i+1] = a[i + 1 + d] /\ i + 1 + d = i + d + 1
    BY <1>4, <2>1
  <2> QED BY <1>2, <2>1, <2>2
<1>7. ASSUME l # <<>> PROVE l[Len(l)] = nextHistoryID
  <2>1. l[Len(l)] = a[Len(l) + d]
    BY <1>4, <1>5, <1>7
  <2> QED BY <1>1, <1>4, <2>1
<1> QED BY <1>3, <1>6, <1>7 DEF a, l

LEMMA HistoryStep ==
  ASSUME TypeOK, LockInv, WorkInv, CancelInv, HistoryInv, Next
  PROVE  HistoryInv'
<1>1. ASSUME NEW p \in Callers, CallerMoves(p) PROVE HistoryInv'
  <2>1. UNCHANGED <<history, nextHistoryID>>
    BY <1>1, CallerFrame
  <2>2. \A w \in Workloads : at'[w] = "count" <=> at[w] = "count"
    <3>1. CASE StartWork(p)
      BY <3>1, ContextIs DEF StartWork, Starting, TypeOK
    <3>2. CASE ~StartWork(p)
      BY <1>1, <3>2 DEF CallerMoves, Request, AskStatus, LoadConfig, Lock, Handle, WriteConfig,
             RestartDisabled, RestartEnabled, ChooseKind, ServeStatus, workVars
    <3> QED BY <3>1, <3>2
  <2> QED BY <2>1, <2>2 DEF HistoryInv, Uncounted
<1>2. ASSUME NEW w \in Workloads, WorkerMoves(w) PROVE HistoryInv'
  <2>1. \A v \in Workloads \ {w} : at'[v] = at[v]
    BY <1>2, WorkerFrame
  <2>2. CASE AppendHistory(w)
    <3>1. ~Uncounted
      BY <2>2 DEF AppendHistory, Uncounted, LockInv, Writes
    <3>2. Uncounted'
      BY <2>2 DEF AppendHistory, Uncounted, TypeOK
    <3>3. /\ history' = LastOf(Append(history, nextHistoryID), maxHistory)
          /\ nextHistoryID' = nextHistoryID
      BY <2>2 DEF AppendHistory
    <3> QED BY <3>1, <3>2, <3>3, AppendIs DEF HistoryInv
  <2>3. CASE CountHistory(w)
    <3>1. Uncounted /\ at'[w] # "count"
      BY <2>3 DEF CountHistory, Uncounted, TypeOK, WorkInv, WorkedWell, Logs
    <3>2. ~Uncounted'
      BY <2>1, <2>3, <3>1 DEF CountHistory, Uncounted, LockInv, Writes
    <3>3. history' = history /\ nextHistoryID' = NextID(nextHistoryID)
      BY <2>3 DEF CountHistory
    <3> QED BY <3>1, <3>2, <3>3 DEF HistoryInv
  <2>4. CASE ~AppendHistory(w) /\ ~CountHistory(w)
    <3>1. /\ UNCHANGED <<history, nextHistoryID>>
          /\ at'[w] = "count" <=> at[w] = "count"
      BY <1>2, <2>4 DEF WorkerMoves, Run, LockOutput, Arm, TimeUp, IsDoneCancelled, IsDoneTimeout,
             IsDoneLimit, IsNotDone, Complete, GenerateKey, WakeUp, Answered, DequeueError,
             DequeueEmpty, DequeueMessage, LogThen, GoOn, TypeOK, kgVars
    <3>2. Uncounted' = Uncounted
      BY <2>1, <3>1 DEF Uncounted
    <3> QED BY <3>1, <3>2 DEF HistoryInv
  <2> QED BY <2>2, <2>3, <2>4
<1> QED BY <1>1, <1>2 DEF Next, CallerMoves, WorkerMoves

-----------------------------------------------------------------------------
(* THE INVARIANT *)

LEMMA InitIInv == Init => IInv
<1> SUFFICES ASSUME Init PROVE IInv
  OBVIOUS
<1> USE DEF Init
<1>1. TypeOK
  <2>1. ZeroConfig \in ConfigType
    BY DEF ZeroConfig, ConfigType
  <2>2. history \in Seq(0..HistoryIDs-1)
    BY EmptySeq
  <2>3. {} \in SUBSET Halves
    OBVIOUS
  <2>4. /\ nextHistoryID \in 0..HistoryIDs-1 /\ cancelFunc \in 0..made /\ made \in 0..MaxLoads
        /\ loads \in 0..MaxLoads /\ exited \in 0..MaxLoads
    BY KeyGenAssumption DEF NoWorkload
  <2> QED BY <2>1, <2>2, <2>3, <2>4 DEF TypeOK, Places
<1>2. LockInv
  BY Apart DEF LockInv, Inside, Writes
<1>3. LoadInv
  <2>1. Undecided = {}
    BY DEF Undecided
  <2> QED BY <2>1, FS_EmptySet DEF LoadInv
<1>4. CancelInv
  BY DEF CancelInv, Starting, NoWorkload
<1>5. SettleInv
  BY DEF SettleInv, ZeroConfig, NoWorkload
<1>6. WorkInv
  BY DEF WorkInv, WorkedWell, Logs, Goal, Bounded, ZeroConfig
<1>7. HistoryInv
  BY KeyGenAssumption DEF HistoryInv
<1>8. ExitOnlyWhenComplete
  BY DEF ExitOnlyWhenComplete
<1> QED BY <1>1, <1>2, <1>3, <1>4, <1>5, <1>6, <1>7, <1>8 DEF IInv

LEMMA NextIInv == IInv /\ [Next]_vars => IInv'
<1> SUFFICES ASSUME IInv, [Next]_vars PROVE IInv'
  OBVIOUS
<1>1. CASE Next
  <2>1. TypeOK'
    BY <1>1, CallerType, WorkerType DEF IInv, Next, CallerMoves, WorkerMoves
  <2> QED BY <1>1, <2>1, LockStep, LoadStep, CancelStep, SettleStep, WorkStep, HistoryStep, ExitStep
          DEF IInv
<1>2. CASE UNCHANGED vars
  <2> USE <1>2 DEF vars, callerVars, workVars, kgVars
  <2>1. TypeOK'
    BY DEF IInv, TypeOK
  <2>2. LockInv' /\ LoadInv' /\ CancelInv' /\ SettleInv'
    BY DEF IInv, LockInv, Inside, Writes, LoadInv, Undecided, CancelInv, Starting, SettleInv
  <2>3. WorkInv' /\ HistoryInv' /\ ExitOnlyWhenComplete'
    BY DEF IInv, WorkInv, WorkedWell, Logs, Goal, Bounded, Earned, LimitReached, HistoryInv,
           Uncounted, ExitOnlyWhenComplete
  <2> QED BY <2>1, <2>2, <2>3 DEF IInv
<1> QED BY <1>1, <1>2

LEMMA Inductive == Spec => []IInv
BY InitIInv, NextIInv, PTL DEF Spec

(* The contexts that nobody has cancelled: the one of cancelFunc, if any.   *)
LEMMA LiveIs == IInv => Live = {cancelFunc} \ {NoWorkload}
<1> SUFFICES ASSUME IInv PROVE Live = {cancelFunc} \ {NoWorkload}
  OBVIOUS
<1>1. cancelFunc # NoWorkload => cancelFunc \in 1..made
  BY KeyGenAssumption DEF IInv, TypeOK, NoWorkload
<1>2. NoWorkload \notin 1..made
  BY DEF NoWorkload
<1> QED BY <1>1, <1>2 DEF IInv, CancelInv, Live

-----------------------------------------------------------------------------
(* THE THEOREMS *)

(* The fields of KeyGen and the locals of its goroutines have their shapes, *)
(* a torn kg.config included (keygen.go, 34-41; workload.go, 28-36).        *)
THEOREM TypeCorrect == Spec => []TypeOK
<1>1. IInv => TypeOK
  BY DEF IInv
<1> QED BY <1>1, Inductive, PTL

(* Restart leaves one workload at most that is not cancelled, however many  *)
(* of them race (keygen.go, 55-83).                                         *)
THEOREM OneIsLive == Spec => []OneLive
<1>1. IInv => OneLive
  BY LiveIs DEF OneLive
<1> QED BY <1>1, Inductive, PTL

(* When every LoadConfig has gone through its Restart, the one workload is  *)
(* what kg.config says, a configuration mixed of two PUTs included          *)
(* (config.go, 69-72; keygen.go, 55-83).                                    *)
THEOREM LoadsSettle == Spec => []Settled
<1>1. IInv => Settled
  <2> SUFFICES ASSUME IInv, Quiet PROVE IF config.enable
           THEN \E w \in Live : /\ Live = {w} /\ w = cancelFunc /\ c[w] = config
                                /\ kind[w] = IF config.memq THEN "memq" ELSE "plain"
           ELSE Live = {}
    BY DEF Settled
  <2>1. Undecided = {} /\ \A p \in Callers : ~Starting(p) /\ pc[p] # "kind"
    BY DEF Quiet, Undecided, Starting
  <2>2. /\ config.enable <=> cancelFunc # NoWorkload
        /\ config.enable => kind[cancelFunc] = KindOf(config) /\ c[cancelFunc] = config
    BY <2>1 DEF IInv, SettleInv
  <2>3. Live = {cancelFunc} \ {NoWorkload}
    BY LiveIs
  <2>4. CASE config.enable
    <3>1. Live = {cancelFunc}
      BY <2>2, <2>3, <2>4
    <3> QED BY <2>2, <2>4, <3>1 DEF KindOf
  <2>5. CASE ~config.enable
    BY <2>2, <2>3, <2>5
  <2> QED BY <2>4, <2>5
<1> QED BY <1>1, Inductive, PTL

(* The history is the latest output without a gap or a repetition, whoever  *)
(* writes to it (keygen.go, 85-97).                                         *)
THEOREM HistoryAgrees == Spec => []HistoryConsecutive
<1>1. IInv => HistoryConsecutive
  <2> SUFFICES ASSUME IInv, mu = Nil PROVE ~Uncounted
    BY DEF IInv, HistoryInv, HistoryConsecutive
  <2> QED BY Apart DEF IInv, LockInv, Writes, Uncounted
<1> QED BY <1>1, Inductive, PTL

(* No workload makes more keys than NumToGen, or begins another one after   *)
(* it was cancelled (workload.go, 46-67 and 76-77).                         *)
THEOREM WorkIsBounded == Spec => []WorkBounded
<1>1. IInv => WorkBounded
  BY DEF IInv, WorkInv, WorkedWell, Bounded, WorkBounded
<1> QED BY <1>1, Inductive, PTL

(* Only a workload that is to end the process does, and a plain one only    *)
(* when it has made its keys or its time is up (workload.go, 51-74).        *)
THEOREM ExitsEarned == Spec => []ExitOnlyWhenComplete
<1>1. IInv => ExitOnlyWhenComplete
  BY DEF IInv
<1> QED BY <1>1, Inductive, PTL

=============================================================================
