-------------------------------- MODULE Pod --------------------------------
(***************************************************************************)
(* The pod of kuard-pod.yaml: the kuard process with its two debug probes, *)
(* and the kubelet, which calls /healthy and /ready from time to time,     *)
(* restarts the container when /healthy failed failureThreshold times in a *)
(* row, and starts it again whenever the process has ended                 *)
(* (restartPolicy: Always).                                                *)
(*                                                                         *)
(* The process starts over with its flags: all that was PUT is forgotten,  *)
(* and so is every request under way.  It may also end by itself, as the   *)
(* KeyGen workload makes it do.  The time between the end of a process and *)
(* the start of the next, when nobody is served, is no state of its own.   *)
(***************************************************************************)
EXTENDS Probe

CONSTANTS
  failureThreshold,
  MaxTimeouts,   \* bound: number of calls that the kubelet gives up on
  MaxExits       \* bound: number of times that the process ends by itself

ASSUME PodAssumption ==
  /\ "healthy" \in Probes /\ Probes \subseteq {"healthy", "ready"}
  /\ failureThreshold \in Nat \ {0}
  /\ MaxTimeouts \in Nat /\ MaxExits \in Nat

VARIABLES
  waiting,   \* of each probe: the goroutine that serves the kubelet's call
  failures,  \* its failures in a row
  ready,     \* the pod is in its services
  timeouts, exits,
  \* History variables: no step reads them.
  asked,     \* failures of /healthy configured since the process started
  forever    \* or failing for ever was

kubeletVars == <<waiting, failures, ready, timeouts>>
ghosts      == <<asked, forever>>
podVars     == <<kubeletVars, exits, ghosts>>
allVars     == <<vars, podVars>>

Positive(n) == IF n > 0 THEN n ELSE 0

PodInit ==
  /\ Init
  /\ waiting = [k \in Probes |-> Nil]
  /\ failures = [k \in Probes |-> 0]
  /\ ready = FALSE
  /\ timeouts = 0 /\ exits = 0
  /\ asked = Positive(flag["healthy"])
  /\ forever = (flag["healthy"] < 0)

Awaited(p) == \E k \in Probes : waiting[k] = p

-----------------------------------------------------------------------------
(* What the process does. *)
Visitor(p) ==
  /\ Visit(p) \/ (Finish(p) /\ ~Awaited(p))
  /\ UNCHANGED podVars

Process(p) ==
  /\ Lock(p) \/ Serve(p)
  /\ \/ /\ Inside(p, "put") /\ req[p].probe = "healthy"
        /\ asked' = asked + Positive(req[p].n)
        /\ forever' = (forever \/ req[p].n < 0)
     \/ /\ ~(Inside(p, "put") /\ req[p].probe = "healthy")
        /\ UNCHANGED ghosts
  /\ UNCHANGED <<kubeletVars, exits>>

(* What was PUT outlives the process. *)
BadConfigured(k) == failNext[k]

(* NewApp makes the probes, LoadConfig sets them to their flags, and only   *)
(* then does Run serve.                                                     *)
Configured(k) == flag[k]

Restart ==
  /\ failNext' = [k \in Probes |-> Configured(k)]
  /\ granted' = failNext'
  /\ spent' = [k \in Probes |-> 0]
  /\ history' = [k \in Probes |-> <<>>]
  /\ lastID' = [k \in Probes |-> 0]
  /\ mu' = [k \in Probes |-> Nil]
  /\ pc' = [p \in Callers |-> "idle"]
  /\ req' = [p \in Callers |-> NoReq]
  /\ code' = [p \in Callers |-> 0]
  /\ asked' = Positive(failNext'["healthy"])
  /\ forever' = (failNext'["healthy"] < 0)
  /\ waiting' = [k \in Probes |-> Nil]
  /\ failures' = [k \in Probes |-> 0]
  /\ ready' = FALSE
  /\ UNCHANGED <<flag, puts, timeouts>>

(* os.Exit in pkg/keygen *)
Exit ==
  /\ exits < MaxExits
  /\ exits' = exits + 1
  /\ Restart

-----------------------------------------------------------------------------
(* The kubelet: one call of each probe at a time, none to a container that  *)
(* it is about to restart.                                                  *)
Failed == failures["healthy"] >= failureThreshold

Call(k, p) ==
  /\ ~Failed
  /\ waiting[k] = Nil
  /\ Ask(p, k, "handle")
  /\ waiting' = [waiting EXCEPT ![k] = p]
  /\ UNCHANGED <<failures, ready, timeouts, exits, ghosts>>

(* The verdict on a call; successThreshold is 1. *)
Judge(k, ok) ==
  /\ waiting' = [waiting EXCEPT ![k] = Nil]
  /\ failures' = [failures EXCEPT ![k] = IF ok THEN 0
                                         ELSE IF @ < failureThreshold THEN @ + 1 ELSE @]
  /\ ready' = IF k # "ready" THEN ready
              ELSE ok \/ (ready /\ failures'[k] < failureThreshold)

Result(k) ==
  /\ waiting[k] # Nil
  /\ Finish(waiting[k])
  /\ Judge(k, code[waiting[k]] = 200)
  /\ UNCHANGED <<timeouts, exits, ghosts>>

(* The goroutine goes on serving the call that nobody waits for. *)
Timeout(k) ==
  /\ timeouts < MaxTimeouts
  /\ waiting[k] # Nil
  /\ timeouts' = timeouts + 1
  /\ Judge(k, FALSE)
  /\ UNCHANGED <<vars, exits, ghosts>>

Kill == Failed /\ Restart /\ UNCHANGED exits

PodNext ==
  \/ \E p \in Callers : Visitor(p) \/ Process(p)
  \/ \E k \in Probes : \/ \E p \in Callers : Call(k, p)
                       \/ Result(k) \/ Timeout(k)
  \/ Exit \/ Kill

PodSpec == PodInit /\ [][PodNext]_allVars

(* Go runs its goroutines and sync.Mutex starves none; net/http has always  *)
(* another goroutine for the kubelet, which never stops probing.            *)
PodFairness ==
  /\ \A p \in Callers : /\ WF_allVars(Serve(p) /\ Process(p))
                        /\ SF_allVars(Lock(p) /\ Process(p))
                        /\ WF_allVars(Visitor(p) /\ Finish(p))
  /\ \A k \in Probes : /\ SF_allVars(\E p \in Callers : Call(k, p))
                       /\ WF_allVars(Result(k))
  /\ WF_allVars(Kill)

PodFairSpec == PodSpec /\ PodFairness

-----------------------------------------------------------------------------
(* PROPERTIES *)

(* The probes and the kubelet's books have their shapes. *)
PodTypeOK ==
  /\ TypeOK
  /\ ready \in BOOLEAN /\ forever \in BOOLEAN
  /\ waiting \in [Probes -> Callers \cup {Nil}]
  /\ failures \in [Probes -> 0..failureThreshold]
  /\ timeouts \in 0..MaxTimeouts /\ exits \in 0..MaxExits
  /\ asked \in Nat

(* The kubelet never counts more failures of /healthy than this process was *)
(* asked for or calls were given up on: so "fail for next 2 calls" alone    *)
(* does not restart a container whose failureThreshold is 3, and a restart  *)
(* is not followed by another one for the same reason.                      *)
RestartEarned == forever \/ failures["healthy"] <= asked + timeouts

(* Whatever is PUT to /healthy, even to fail for ever, the pod heals by     *)
(* itself once the PUTs stop, for the process starts over with its flag; it *)
(* must ask for fewer failures than the kubelet waits for.                  *)
Heals ==
  flag["healthy"] \in 0..failureThreshold-1 => <>[](failNext["healthy"] = 0 /\ failures["healthy"] = 0)

(* And it takes requests again, unless /ready stays set to fail for ever.   *)
ReadyAgain ==
  flag["healthy"] \in 0..failureThreshold-1 =>
    (<>[](failNext["ready"] >= 0) => <>[]ready)

=============================================================================
