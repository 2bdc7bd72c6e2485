------------------------------- MODULE KeyGen -------------------------------
(***************************************************************************)
(* The key generation workload of kuard (pkg/keygen): a configuration that *)
(* PUT requests replace, the Restart that cancels the running workload and *)
(* starts the next one, the two kinds of workload, and the history that    *)
(* all of them write to.                                                   *)
(*                                                                         *)
(* The goroutines are the callers of LoadConfig and APIGet (main, once,    *)
(* and the HTTP handlers) and the workloads.  kg.mu guards everything but  *)
(* the assignment kg.config = c of LoadConfig, which is a data race: a     *)
(* struct is written in parts, in any order, while others write or read    *)
(* it.  This module writes it in two Halves.                               *)
(*                                                                         *)
(* A PUT whose body cannot be decoded changes nothing and has no action.   *)
(***************************************************************************)
EXTENDS Integers, Sequences

CONSTANTS
  Callers,     \* goroutines that load or read a configuration
  Nil,         \* no goroutine
  Configs,     \* the configurations that are loaded
  maxHistory,  \* lines of output kept
  HistoryIDs,  \* bound: the history IDs start over at this
  MaxLoads     \* bound: number of LoadConfig calls

Workloads == 1..MaxLoads     \* the contexts that Restart may make
NoWorkload == 0

(* Config, with both MemQ strings as one flag and TimeToRun as another.     *)
(* NumToGen is an int, and a PUT may make it negative.                      *)
Fields == {"enable", "num", "time", "memq", "exit"}
Halves == {{"enable", "num", "time"}, {"memq", "exit"}}
ConfigType ==
  [enable : BOOLEAN, num : Int, time : BOOLEAN, memq : BOOLEAN, exit : BOOLEAN]

ZeroConfig ==
  [enable |-> FALSE, num |-> 0, time |-> FALSE, memq |-> FALSE, exit |-> FALSE]

ASSUME KeyGenAssumption ==
  /\ Nil \notin Callers \cup Workloads
  /\ Callers \cap Workloads = {}
  /\ Configs \subseteq ConfigType
  /\ maxHistory \in Nat /\ HistoryIDs \in Nat /\ HistoryIDs > maxHistory
  /\ MaxLoads \in Nat

VARIABLES
  config, mu, history, nextHistoryID, cancelFunc,  \* the fields of KeyGen
  made,        \* number of contexts that Restart has made
  loads,       \* number of LoadConfig calls
  pc, arg, unwritten,  \* of each caller: where it is, its Config, Halves to write
  at, after,   \* of each workload: where it is, and where it goes after a log line
  kind,        \* workload or memQWorker
  c,           \* its copy of the configuration
  generated,   \* keys generated, counted only when there is a limit
  timeout,     \* its timer: unset, running or fired
  cancelled,   \* its context is done
  exited,      \* the workload that ended the process
  late         \* history: keys generated after the cancellation, up to 2

callerVars == <<pc, arg, unwritten, loads>>
workVars   == <<at, after, kind, c, generated, timeout, cancelled, late>>
kgVars     == <<config, mu, history, nextHistoryID, cancelFunc, made>>
vars       == <<callerVars, workVars, kgVars, exited>>

Init ==
  /\ config = ZeroConfig /\ mu = Nil
  /\ history = <<>> /\ nextHistoryID = 0
  /\ cancelFunc = NoWorkload /\ made = 0 /\ loads = 0
  /\ pc = [p \in Callers |-> "idle"]
  /\ arg = [p \in Callers |-> ZeroConfig]
  /\ unwritten = [p \in Callers |-> {}]
  /\ at = [w \in Workloads |-> "none"]
  /\ after = [w \in Workloads |-> "none"]
  /\ kind = [w \in Workloads |-> "plain"]
  /\ c = [w \in Workloads |-> ZeroConfig]
  /\ generated = [w \in Workloads |-> 0]
  /\ timeout = [w \in Workloads |-> "unset"]
  /\ cancelled = [w \in Workloads |-> FALSE]
  /\ late = [w \in Workloads |-> 0]
  /\ exited = NoWorkload

NextID(i) == IF i + 1 < HistoryIDs THEN i + 1 ELSE 0

Goto(p, l) == pc' = [pc EXCEPT ![p] = l]

-----------------------------------------------------------------------------
(* LoadConfig and Restart.  A local that is no longer read is reset. *)
LoadConfig(p, cfg) ==
  /\ pc[p] = "idle"
  /\ loads < MaxLoads
  /\ loads' = loads + 1
  /\ arg' = [arg EXCEPT ![p] = cfg]
  /\ unwritten' = [unwritten EXCEPT ![p] = Halves]
  /\ Goto(p, "write")
  /\ UNCHANGED <<workVars, kgVars, exited>>

WriteConfig(p, half) ==
  /\ pc[p] = "write"
  /\ half \in unwritten[p]
  /\ config' = [f \in Fields |-> IF f \in half THEN arg[p][f] ELSE config[f]]
  /\ unwritten' = [unwritten EXCEPT ![p] = @ \ {half}]
  /\ \/ unwritten'[p] # {} /\ UNCHANGED <<pc, arg>>
     \/ unwritten'[p] = {} /\ Goto(p, "lock") /\ arg' = [arg EXCEPT ![p] = ZeroConfig]
  /\ UNCHANGED <<loads, workVars, mu, history, nextHistoryID, cancelFunc, made, exited>>

Lock(p) ==
  /\ pc[p] \in {"lock", "lockGet"}
  /\ mu = Nil
  /\ mu' = p
  /\ Goto(p, IF pc[p] = "lock" THEN "restart" ELSE "get")
  /\ UNCHANGED <<arg, unwritten, loads, workVars, config, history, nextHistoryID,
                 cancelFunc, made, exited>>

CancelRunning ==
  cancelled' = [w \in Workloads |-> cancelled[w] \/ w = cancelFunc]

(* An operator whose name begins with Bad is a mistake on purpose: put in   *)
(* the place of the definition after it, it makes a property fail.          *)

(* Disabled: return before the cancellation. *)
BadRestartDisabled(p) ==
  /\ pc[p] = "restart"
  /\ ~config.enable
  /\ mu' = Nil
  /\ Goto(p, "lockGet")
  /\ UNCHANGED <<arg, unwritten, loads, workVars, config, history, nextHistoryID,
                 cancelFunc, made, exited>>

RestartDisabled(p) ==
  /\ pc[p] = "restart"
  /\ ~config.enable
  /\ CancelRunning
  /\ cancelFunc' = NoWorkload
  /\ mu' = Nil
  /\ Goto(p, "lockGet")
  /\ UNCHANGED <<arg, unwritten, loads, at, after, kind, c, generated, timeout, late,
                 config, history, nextHistoryID, made, exited>>

(* The old cancelFunc is overwritten before it is called. *)
BadRestartEnabled(p) ==
  /\ pc[p] = "restart"
  /\ config.enable
  /\ made' = made + 1
  /\ cancelFunc' = made'
  /\ Goto(p, "kind")
  /\ UNCHANGED <<arg, unwritten, loads, workVars, config, mu, history, nextHistoryID, exited>>

RestartEnabled(p) ==
  /\ pc[p] = "restart"
  /\ config.enable
  /\ CancelRunning
  /\ made' = made + 1
  /\ cancelFunc' = made'
  /\ Goto(p, "kind")
  /\ UNCHANGED <<arg, unwritten, loads, at, after, kind, c, generated, timeout, late,
                 config, mu, history, nextHistoryID, exited>>

ChooseKind(p) ==
  /\ pc[p] = "kind"
  /\ kind' = [kind EXCEPT ![cancelFunc] = IF config.memq THEN "memq" ELSE "plain"]
  /\ Goto(p, "start")
  /\ UNCHANGED <<arg, unwritten, loads, at, after, c, generated, timeout, cancelled, late,
                 kgVars, exited>>

(* The workload's copy of the configuration, and go w.startWork(). *)
StartWork(p) ==
  /\ pc[p] = "start"
  /\ c' = [c EXCEPT ![cancelFunc] = config]
  /\ at' = [at EXCEPT ![cancelFunc] = "log"]
  /\ after' = [after EXCEPT ![cancelFunc] = IF kind[cancelFunc] = "plain" THEN "arm"
                                                                         ELSE "check"]
  /\ mu' = Nil
  /\ Goto(p, "lockGet")
  /\ UNCHANGED <<arg, unwritten, loads, kind, generated, timeout, cancelled, late,
                 config, history, nextHistoryID, cancelFunc, made, exited>>

(* APIGet, by itself or at the end of APIPut, answers while it holds kg.mu. *)
AskStatus(p) ==
  /\ pc[p] = "idle"
  /\ Goto(p, "lockGet")
  /\ UNCHANGED <<arg, unwritten, loads, workVars, kgVars, exited>>

ServeStatus(p) ==
  /\ pc[p] = "get"
  /\ mu' = Nil
  /\ Goto(p, "idle")
  /\ UNCHANGED <<arg, unwritten, loads, workVars, config, history, nextHistoryID,
                 cancelFunc, made, exited>>

-----------------------------------------------------------------------------
(* WorkloadOutput *)
LockOutput(w) ==
  /\ at[w] = "log"
  /\ mu = Nil
  /\ mu' = w
  /\ at' = [at EXCEPT ![w] = "append"]
  /\ UNCHANGED <<callerVars, after, kind, c, generated, timeout, cancelled, late,
                 config, history, nextHistoryID, cancelFunc, made, exited>>

(* history[:maxHistory] *)
BadLastOf(s, n) == IF Len(s) > n THEN SubSeq(s, 1, n) ELSE s

LastOf(s, n) == IF Len(s) > n THEN SubSeq(s, Len(s) - n + 1, Len(s)) ELSE s

AppendHistory(w) ==
  /\ at[w] = "append"
  /\ history' = LastOf(Append(history, nextHistoryID), maxHistory)
  /\ at' = [at EXCEPT ![w] = "count"]
  /\ UNCHANGED <<callerVars, after, kind, c, generated, timeout, cancelled, late,
                 config, mu, nextHistoryID, cancelFunc, made, exited>>

CountHistory(w) ==
  /\ at[w] = "count"
  /\ nextHistoryID' = NextID(nextHistoryID)
  /\ mu' = Nil
  /\ at' = [at EXCEPT ![w] = after[w]]
  /\ after' = [after EXCEPT ![w] = "none"]
  /\ UNCHANGED <<callerVars, kind, c, generated, timeout, cancelled, late,
                 config, history, cancelFunc, made, exited>>

(* w logs a line and goes to l, or it goes there at once. *)
LogThen(w, l) == at' = [at EXCEPT ![w] = "log"] /\ after' = [after EXCEPT ![w] = l]
GoOn(w, l)    == at' = [at EXCEPT ![w] = l] /\ UNCHANGED after

-----------------------------------------------------------------------------
(* workload: startWork, isDone, done and itemDone *)
Arm(w) ==
  /\ at[w] = "arm"
  /\ timeout' = [timeout EXCEPT ![w] = IF c[w].time THEN "running" ELSE "unset"]
  /\ GoOn(w, "check")
  /\ UNCHANGED <<callerVars, kind, c, generated, cancelled, late, kgVars, exited>>

TimeUp(w) ==
  /\ timeout[w] = "running" /\ at[w] # "stopped"
  /\ timeout' = [timeout EXCEPT ![w] = "fired"]
  /\ UNCHANGED <<callerVars, at, after, kind, c, generated, cancelled, late, kgVars, exited>>

(* done(false) for every end. *)
BadIsDoneCancelled(w) ==
  /\ at[w] = "check"
  /\ cancelled[w]
  /\ LogThen(w, "complete")
  /\ UNCHANGED <<callerVars, kind, c, generated, timeout, cancelled, late, kgVars, exited>>

(* The select of isDone takes any case that is ready, and looks at the      *)
(* limit only when none is.  The memQWorker has only the context.           *)
IsDoneCancelled(w) ==
  /\ at[w] = "check"
  /\ cancelled[w]
  /\ LogThen(w, "stopped")
  /\ UNCHANGED <<callerVars, kind, c, generated, timeout, cancelled, late, kgVars, exited>>

IsDoneTimeout(w) ==
  /\ at[w] = "check"
  /\ timeout[w] = "fired"
  /\ LogThen(w, "complete")
  /\ UNCHANGED <<callerVars, kind, c, generated, timeout, cancelled, late, kgVars, exited>>

(* One key too many. *)
BadLimitReached(w) == kind[w] = "plain" /\ c[w].num > 0 /\ generated[w] > c[w].num

LimitReached(w) == kind[w] = "plain" /\ c[w].num > 0 /\ generated[w] >= c[w].num

IsDoneLimit(w) ==
  /\ at[w] = "check"
  /\ ~cancelled[w] /\ timeout[w] # "fired"
  /\ LimitReached(w)
  /\ LogThen(w, "complete")
  /\ UNCHANGED <<callerVars, kind, c, generated, timeout, cancelled, late, kgVars, exited>>

(* Another round although the context is done. *)
BadIsNotDone(w) ==
  /\ at[w] = "check"
  /\ timeout[w] # "fired"
  /\ ~LimitReached(w)
  /\ GoOn(w, IF kind[w] = "plain" THEN "gen" ELSE "dequeue")
  /\ UNCHANGED <<callerVars, kind, c, generated, timeout, cancelled, late, kgVars, exited>>

IsNotDone(w) ==
  /\ at[w] = "check"
  /\ ~cancelled[w] /\ timeout[w] # "fired"
  /\ ~LimitReached(w)
  /\ GoOn(w, IF kind[w] = "plain" THEN "gen" ELSE "dequeue")
  /\ UNCHANGED <<callerVars, kind, c, generated, timeout, cancelled, late, kgVars, exited>>

(* done(false): os.Exit, or the goroutine ends. *)
Complete(w) ==
  /\ at[w] = "complete"
  /\ exited' = IF c[w].exit THEN w ELSE NoWorkload
  /\ GoOn(w, "stopped")
  /\ UNCHANGED <<callerVars, kind, c, generated, timeout, cancelled, late, kgVars>>

(* What is left is counted instead, from a zero that nobody has set.        *)
BadCountDown(w) ==
  /\ at[w] = "gen"
  /\ generated' = [generated EXCEPT ![w] =
                     IF kind[w] = "plain" /\ c[w].num > 0 THEN @ - 1 ELSE @]
  /\ late' = [late EXCEPT ![w] = IF cancelled[w] /\ @ < 2 THEN @ + 1 ELSE @]
  /\ LogThen(w, "check")
  /\ UNCHANGED <<callerVars, kind, c, timeout, cancelled, kgVars, exited>>

(* The key is not counted. *)
BadGenerateKey(w) ==
  /\ at[w] = "gen"
  /\ late' = [late EXCEPT ![w] = IF cancelled[w] /\ @ < 2 THEN @ + 1 ELSE @]
  /\ LogThen(w, "check")
  /\ UNCHANGED <<callerVars, kind, c, generated, timeout, cancelled, kgVars, exited>>

GenerateKey(w) ==
  /\ at[w] = "gen"
  /\ generated' = [generated EXCEPT ![w] =
                     IF kind[w] = "plain" /\ c[w].num > 0 THEN @ + 1 ELSE @]
  /\ late' = [late EXCEPT ![w] = IF cancelled[w] /\ @ < 2 THEN @ + 1 ELSE @]
  /\ LogThen(w, "check")
  /\ UNCHANGED <<callerVars, kind, c, timeout, cancelled, kgVars, exited>>

-----------------------------------------------------------------------------
(* memQWorker: the answer of memq.Dequeue is an error, no message or one.   *)
DequeueError(w) ==
  /\ at[w] = "dequeue"
  /\ LogThen(w, "sleep")
  /\ UNCHANGED <<callerVars, kind, c, generated, timeout, cancelled, late, kgVars, exited>>

DequeueEmpty(w) ==
  /\ at[w] = "dequeue"
  /\ \/ /\ c[w].exit
        /\ exited' = w
        /\ GoOn(w, "stopped")
     \/ /\ ~c[w].exit
        /\ UNCHANGED exited
        /\ LogThen(w, "sleep")
  /\ UNCHANGED <<callerVars, kind, c, generated, timeout, cancelled, late, kgVars>>

DequeueMessage(w) ==
  /\ at[w] = "dequeue"
  /\ GoOn(w, "gen")
  /\ UNCHANGED <<callerVars, kind, c, generated, timeout, cancelled, late, kgVars, exited>>

WakeUp(w) ==
  /\ at[w] = "sleep"
  /\ GoOn(w, "check")
  /\ UNCHANGED <<callerVars, kind, c, generated, timeout, cancelled, late, kgVars, exited>>

-----------------------------------------------------------------------------
Request(p) == AskStatus(p) \/ \E cfg \in Configs : LoadConfig(p, cfg)

Handle(p) ==
  \/ \E half \in Halves : WriteConfig(p, half)
  \/ RestartDisabled(p) \/ RestartEnabled(p) \/ ChooseKind(p) \/ StartWork(p)
  \/ ServeStatus(p)

Answered(w) == DequeueError(w) \/ DequeueEmpty(w) \/ DequeueMessage(w)

Run(w) ==
  \/ AppendHistory(w) \/ CountHistory(w)
  \/ Arm(w) \/ IsDoneCancelled(w) \/ IsDoneTimeout(w) \/ IsDoneLimit(w) \/ IsNotDone(w)
  \/ Complete(w) \/ GenerateKey(w) \/ WakeUp(w)

(* os.Exit stops every goroutine. *)
Next ==
  /\ exited = NoWorkload
  /\ \/ \E p \in Callers : Request(p) \/ Lock(p) \/ Handle(p)
     \/ \E w \in Workloads : Run(w) \/ LockOutput(w) \/ TimeUp(w) \/ Answered(w)

Spec == Init /\ [][Next]_vars

Alive(A) == exited = NoWorkload /\ A

(* Every runnable goroutine runs, sync.Mutex hands over to a waiter that    *)
(* starves, timers fire.  Nothing is assumed of the MemQ server: the client *)
(* has no timeout, so its Dequeue may never return.                         *)
Fairness ==
  /\ \A p \in Callers : WF_vars(Alive(Handle(p))) /\ SF_vars(Alive(Lock(p)))
  /\ \A w \in Workloads : /\ WF_vars(Alive(Run(w)))
                          /\ SF_vars(Alive(LockOutput(w)))
                          /\ WF_vars(Alive(TimeUp(w)))

FairSpec == Spec /\ Fairness

-----------------------------------------------------------------------------
(* PROPERTIES *)

Places == {"none", "log", "append", "count", "arm", "check", "gen", "dequeue", "sleep",
           "complete", "stopped"}

(* The fields of KeyGen, the callers' locals and the workloads have their   *)
(* shapes; no count of keys is negative.                                    *)
TypeOK ==
  /\ config \in ConfigType
  /\ mu \in Callers \cup Workloads \cup {Nil}
  /\ history \in Seq(0..HistoryIDs-1)
  /\ nextHistoryID \in 0..HistoryIDs-1
  /\ cancelFunc \in 0..made
  /\ made \in 0..MaxLoads /\ loads \in 0..MaxLoads
  /\ pc \in [Callers -> {"idle", "write", "lock", "restart", "kind", "start", "lockGet", "get"}]
  /\ arg \in [Callers -> ConfigType]
  /\ unwritten \in [Callers -> SUBSET Halves]
  /\ at \in [Workloads -> Places]
  /\ after \in [Workloads -> Places]
  /\ kind \in [Workloads -> {"plain", "memq"}]
  /\ c \in [Workloads -> ConfigType]
  /\ generated \in [Workloads -> Nat]
  /\ timeout \in [Workloads -> {"unset", "running", "fired"}]
  /\ cancelled \in [Workloads -> BOOLEAN]
  /\ late \in [Workloads -> 0..2]
  /\ exited \in 0..MaxLoads

Live == {w \in 1..made : ~cancelled[w]}

(* However Restarts race, they never leave two workloads running that       *)
(* nobody has cancelled.                                                    *)
OneLive == \A v, w \in Live : v = w

(* Once no LoadConfig is under way, what runs is what kg.config says, even  *)
(* if kg.config is a mixture of two PUTs: one workload, of the right kind   *)
(* and with that very configuration, or none.                               *)
Quiet == \A p \in Callers : pc[p] \in {"idle", "lockGet", "get"}
Settled ==
  Quiet => IF config.enable
           THEN \E w \in Live : /\ Live = {w} /\ w = cancelFunc
                                /\ c[w] = config
                                /\ kind[w] = IF config.memq THEN "memq" ELSE "plain"
           ELSE Live = {}

(* The history that a GET shows is the latest output, without a gap or a    *)
(* repetition, while old and new workloads write to it at once.             *)
HistoryConsecutive ==
  mu = Nil =>
    /\ Len(history) <= maxHistory
    /\ \A i \in 1..Len(history)-1 : history[i+1] = NextID(history[i])
    /\ history # <<>> => NextID(history[Len(history)]) = nextHistoryID

(* A workload makes no more keys than NumToGen, and after it is cancelled   *)
(* it finishes at most the one it was busy with.                            *)
WorkBounded ==
  \A w \in Workloads : /\ late[w] <= 1
                       /\ kind[w] = "plain" /\ c[w].num > 0 => generated[w] <= c[w].num

(* The process ends only by a workload that is configured to end it and,    *)
(* unless it takes its work from MemQ, has reached a limit.                 *)
ExitOnlyWhenComplete ==
  exited # NoWorkload =>
    /\ c[exited].exit
    /\ kind[exited] = "plain" => LimitReached(exited) \/ timeout[exited] = "fired"

(* A workload that Restart has cancelled does not end the process.          *)
CancelledNeverExits == exited # NoWorkload => ~cancelled[exited]

(* A cancelled workload ends, and so does one with a limit, unless the      *)
(* process does.  Not so a memQWorker, which may hang in its Dequeue.       *)
Ended(w) == at[w] = "stopped" \/ exited # NoWorkload
Limited(w) == c[w].time \/ c[w].num > 0

CancelledStops ==
  \A w \in Workloads : cancelled[w] /\ kind[w] = "plain" ~> Ended(w)

LimitedEnds ==
  \A w \in Workloads : at[w] # "none" /\ kind[w] = "plain" /\ Limited(w) ~> Ended(w)

=============================================================================
