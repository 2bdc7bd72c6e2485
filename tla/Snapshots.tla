------------------------------ MODULE Snapshots ------------------------------
(***************************************************************************)
(* ebs-stale-snapshots.py: a Lambda function that deletes the snapshots    *)
(* whose volume is not attached.  Its state is in EC2 (external), where    *)
(* others go on attaching, deleting and registering while it runs.  It is  *)
(* invoked again and again, and invocations may overlap.                   *)
(*                                                                         *)
(* EC2's list has no order to rely on, so a run takes any listed snapshot  *)
(* next.  The running instances are collected and never looked at: an      *)
(* attachment counts, whether the instance runs or is stopped.             *)
(***************************************************************************)
EXTENDS Integers, FiniteSets

CONSTANTS
  Runs,         \* invocations that may overlap
  Ids,          \* snapshots
  Volumes,
  VolumeOf,     \* the volume of each snapshot, or NoVolume
  NoVolume, NoSnapshot,
  MaxChanges,   \* bound: what others do to volumes, instances and images
  MaxFaults     \* bound: calls that EC2 refuses, runs that are cut off

ASSUME SnapshotsAssumption ==
  /\ NoVolume \notin Volumes /\ NoSnapshot \notin Ids
  /\ VolumeOf \in [Ids -> Volumes \cup {NoVolume}]
  /\ MaxChanges \in Nat /\ MaxFaults \in Nat

VARIABLES
  exists,     \* the snapshots that there are
  used,       \* snapshots that an image is made of
  vol,        \* each volume: gone, free, or attached, to a running or a stopped instance
  at,         \* of each run: where it is
  todo, cur,  \* listed and not yet looked at; being looked at
  changes, faults,
  \* History variable: no step reads it.
  stale       \* since cur was taken, no running instance had its volume at some moment

ec2Vars == <<exists, used, vol, changes>>
runVars == <<at, todo, cur>>
vars    == <<ec2Vars, runVars, faults, stale>>

Attached(s)  == VolumeOf[s] \in Volumes /\ vol[VolumeOf[s]] \in {"running", "stopped"}
OnRunning(s) == VolumeOf[s] \in Volumes /\ vol[VolumeOf[s]] = "running"
Lost(s)      == VolumeOf[s] \in Volumes => vol[VolumeOf[s]] = "gone"

Init ==
  /\ exists = Ids
  /\ used \in SUBSET Ids
  /\ vol \in [Volumes -> {"gone", "free", "running", "stopped"}]
  /\ at = [r \in Runs |-> "idle"]
  /\ todo = [r \in Runs |-> {}]
  /\ cur = [r \in Runs |-> NoSnapshot]
  /\ changes = 0 /\ faults = 0
  /\ stale = [r \in Runs |-> FALSE]

-----------------------------------------------------------------------------
(* Others *)
Become(v, state) ==
  /\ vol' = [vol EXCEPT ![v] = state]
  /\ changes < MaxChanges /\ changes' = changes + 1
  /\ stale' = [r \in Runs |->
       \/ stale[r]
       \/ cur[r] \in Ids /\ VolumeOf[cur[r]] = v /\ state # "running"]
  /\ UNCHANGED <<exists, used, runVars, faults>>

Attach(v)        == vol[v] = "free" /\ \E state \in {"running", "stopped"} : Become(v, state)
Detach(v)        == vol[v] \in {"running", "stopped"} /\ Become(v, "free")
DeleteVolume(v)  == vol[v] = "free" /\ Become(v, "gone")
StopInstance(v)  == vol[v] = "running" /\ Become(v, "stopped")
StartInstance(v) == vol[v] = "stopped" /\ Become(v, "running")

(* An image is registered from a snapshot, or deregistered. *)
Image(s) ==
  /\ s \in exists
  /\ used' = IF s \in used THEN used \ {s} ELSE used \cup {s}
  /\ changes < MaxChanges /\ changes' = changes + 1
  /\ UNCHANGED <<exists, vol, runVars, faults, stale>>

-----------------------------------------------------------------------------
(* lambda_handler *)
Goto(r, l) == at' = [at EXCEPT ![r] = l]

(* On to the next snapshot, or out of the loop. *)
Leave(r, l) ==
  /\ Goto(r, l)
  /\ cur' = [cur EXCEPT ![r] = NoSnapshot]
  /\ stale' = [stale EXCEPT ![r] = FALSE]

(* describe_snapshots and describe_instances *)
Begin(r) ==
  /\ at[r] = "idle"
  /\ todo' = [todo EXCEPT ![r] = exists]
  /\ Goto(r, "next")
  /\ UNCHANGED <<ec2Vars, cur, faults, stale>>

(* for snapshot in response["Snapshots"] *)
Take(r, s) ==
  /\ at[r] = "next" /\ s \in todo[r]
  /\ cur' = [cur EXCEPT ![r] = s]
  /\ todo' = [todo EXCEPT ![r] = @ \ {s}]
  /\ Goto(r, IF VolumeOf[s] = NoVolume THEN "delete" ELSE "describe")
  /\ stale' = [stale EXCEPT ![r] = ~OnRunning(s)]
  /\ UNCHANGED <<ec2Vars, faults>>

End(r) ==
  /\ at[r] = "next" /\ todo[r] = {}
  /\ Goto(r, "idle")
  /\ UNCHANGED <<ec2Vars, todo, cur, faults, stale>>

(* The volume is found. *)
Describe(r) ==
  /\ at[r] = "describe" /\ ~Lost(cur[r])
  /\ IF Attached(cur[r]) THEN Leave(r, "next")
     ELSE Goto(r, "try delete") /\ UNCHANGED <<cur, stale>>
  /\ UNCHANGED <<ec2Vars, todo, faults>>

(* InvalidVolume.NotFound: the except clause deletes. *)
DescribeNotFound(r) ==
  /\ at[r] = "describe" /\ Lost(cur[r])
  /\ Goto(r, "delete")
  /\ UNCHANGED <<ec2Vars, todo, cur, faults, stale>>

(* Any error is taken for InvalidVolume.NotFound. *)
BadDescribeRefused(r) ==
  /\ at[r] = "describe"
  /\ faults < MaxFaults /\ faults' = faults + 1
  /\ Goto(r, "delete")
  /\ UNCHANGED <<ec2Vars, todo, cur, stale>>

(* Any other ClientError is passed over. *)
DescribeRefused(r) ==
  /\ at[r] = "describe"
  /\ faults < MaxFaults /\ faults' = faults + 1
  /\ Leave(r, "next")
  /\ UNCHANGED <<ec2Vars, todo>>

Delete(r) ==
  /\ at[r] \in {"delete", "try delete"}
  /\ cur[r] \in exists \ used
  /\ exists' = exists \ {cur[r]}
  /\ Leave(r, "next")
  /\ UNCHANGED <<used, vol, changes, todo, faults>>

(* InvalidSnapshot.InUse, InvalidSnapshot.NotFound, or a call refused *)
DeleteFails(r) ==
  \/ cur[r] \notin exists \ used /\ UNCHANGED faults
  \/ faults < MaxFaults /\ faults' = faults + 1

(* An exception there ends the run. *)
BadTryDeleteFails(r) ==
  /\ at[r] = "try delete"
  /\ DeleteFails(r)
  /\ todo' = [todo EXCEPT ![r] = {}]
  /\ Leave(r, "idle")
  /\ UNCHANGED ec2Vars

(* Within the try: the error is not InvalidVolume.NotFound. *)
TryDeleteFails(r) ==
  /\ at[r] = "try delete"
  /\ DeleteFails(r)
  /\ Leave(r, "next")
  /\ UNCHANGED <<ec2Vars, todo>>

(* Outside of it, or in its except clause, the exception ends the run. *)
BareDeleteFails(r) ==
  /\ at[r] = "delete"
  /\ DeleteFails(r)
  /\ todo' = [todo EXCEPT ![r] = {}]
  /\ Leave(r, "idle")
  /\ UNCHANGED ec2Vars

(* The run has used up its time. *)
CutOff(r) ==
  /\ at[r] # "idle"
  /\ faults < MaxFaults /\ faults' = faults + 1
  /\ todo' = [todo EXCEPT ![r] = {}]
  /\ Leave(r, "idle")
  /\ UNCHANGED ec2Vars

-----------------------------------------------------------------------------
Step(r) ==
  \/ Begin(r) \/ End(r) \/ \E s \in Ids : Take(r, s)
  \/ Describe(r) \/ DescribeNotFound(r) \/ DescribeRefused(r)
  \/ Delete(r) \/ TryDeleteFails(r) \/ BareDeleteFails(r)

Next ==
  \/ \E v \in Volumes : \/ Attach(v) \/ Detach(v) \/ DeleteVolume(v)
                        \/ StopInstance(v) \/ StartInstance(v)
  \/ \E s \in Ids : Image(s)
  \/ \E r \in Runs : Step(r) \/ CutOff(r)

Spec == Init /\ [][Next]_vars

(* The schedule starts the function again and again, and runs come to an    *)
(* end.                                                                     *)
FairSpec == Spec /\ \A r \in Runs : WF_vars(Step(r))

-----------------------------------------------------------------------------
(* PROPERTIES *)

(* No snapshot is deleted whose volume a running instance had all the time  *)
(* since the run took it up: whatever calls fail, whoever attaches, stops   *)
(* and starts, and whatever the run knows from before.  (A volume that is   *)
(* attached to a running instance between the check and the deletion can    *)
(* lose its snapshot.)                                                      *)
DeletesStaleOnly ==
  [][\A r \in Runs : exists' # exists /\ at'[r] # at[r] => stale[r]]_vars

(* The snapshots that cannot be deleted and stop every run that meets them  *)
(* before the others.                                                       *)
Blocks(s) == s \in exists \cap used /\ Lost(s)

(* A snapshot that stays without an attached volume is deleted in the end,  *)
(* although another one that is in use fails each time, unless that one has *)
(* lost its volume.                                                         *)
OrphansGo ==
  \A s \in Ids :
    <>[](~Attached(s) /\ s \notin used /\ ~\E b \in Ids : Blocks(b)) => <>(s \notin exists)

(* The rule that is announced: so is a snapshot whose volume is attached,   *)
(* but not to a running instance.  It is not what the code does.            *)
StaleGo ==
  \A s \in Ids :
    <>[](~OnRunning(s) /\ s \notin used /\ ~\E b \in Ids : Blocks(b)) => <>(s \notin exists)

=============================================================================
