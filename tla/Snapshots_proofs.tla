--------------------------- MODULE Snapshots_proofs ---------------------------
(***************************************************************************)
(* DeletesStaleOnly for any number of runs, snapshots and volumes, of      *)
(* changes and of faults.  The invariant: since a run that is about to     *)
(* delete took the snapshot up, its volume was without a running instance  *)
(* at some moment, and if it was not yet when the run is about to ask, it  *)
(* is with one, and so will be found attached.                             *)
(***************************************************************************)
EXTENDS Snapshots, TLAPS

Places == {"idle", "next", "describe", "delete", "try delete"}

Types ==
  /\ at \in [Runs -> Places]
  /\ cur \in [Runs -> Ids \cup {NoSnapshot}]
  /\ stale \in [Runs -> BOOLEAN]
  /\ vol \in [Volumes -> {"gone", "free", "running", "stopped"}]

Looking ==
  \A r \in Runs : at[r] = "describe" => cur[r] \in Ids /\ VolumeOf[cur[r]] \in Volumes

Asked ==
  \A r \in Runs : /\ at[r] \in {"delete", "try delete"} => stale[r]
                  /\ at[r] = "describe" => OnRunning(cur[r]) \/ stale[r]

Inv == Types /\ Looking /\ Asked

LEMMA InitInv == Init => Inv
  BY SnapshotsAssumption DEF Init, Inv, Types, Looking, Asked, Places

(* What others do to a volume is noted in every run that looks at it. *)
LEMMA BecomeInv ==
  ASSUME Inv, NEW v \in Volumes, NEW state \in {"gone", "free", "running", "stopped"}, Become(v, state)
  PROVE  Inv'
<1>1. Types'
  BY DEF Inv, Types, Become, runVars
<1>2. Looking'
  BY DEF Inv, Looking, Become, runVars
<1>3. ASSUME NEW r \in Runs
      PROVE  /\ at'[r] \in {"delete", "try delete"} => stale'[r]
             /\ at'[r] = "describe" => OnRunning(cur[r])' \/ stale'[r]
  <2>1. at'[r] = at[r] /\ cur'[r] = cur[r] /\ (stale[r] => stale'[r])
    BY DEF Inv, Types, Become, runVars
  <2>2. CASE at[r] = "describe"
    <3>1. cur[r] \in Ids /\ VolumeOf[cur[r]] \in Volumes
      BY <2>2 DEF Inv, Looking
    <3>2. CASE VolumeOf[cur[r]] # v
      BY <2>1, <2>2, <3>1, <3>2 DEF Inv, Types, Asked, OnRunning, Become
    <3>3. CASE VolumeOf[cur[r]] = v /\ state = "running"
      BY <2>1, <2>2, <3>1, <3>3 DEF Inv, Types, OnRunning, Become
    <3>4. CASE VolumeOf[cur[r]] = v /\ state # "running"
      BY <2>1, <2>2, <3>1, <3>4 DEF Inv, Types, Become
    <3> QED BY <3>2, <3>3, <3>4
  <2>3. CASE at[r] # "describe"
    BY <2>1, <2>3 DEF Inv, Asked
  <2> QED BY <2>2, <2>3
<1> QED BY <1>1, <1>2, <1>3 DEF Inv, Asked

(* A step that leaves the loop's body, or ends the run. *)
LEMMA LeaveInv ==
  ASSUME Inv, NEW r \in Runs, NEW l \in {"idle", "next"}, Leave(r, l), UNCHANGED vol
  PROVE  Inv'
<1>1. Types'
  BY DEF Inv, Types, Leave, Goto, Places
<1>2. \A q \in Runs : q # r => /\ at'[q] = at[q] /\ cur'[q] = cur[q]
                               /\ stale'[q] = stale[q]
  BY DEF Inv, Types, Leave, Goto
<1>3. at'[r] \in {"idle", "next"}
  BY DEF Inv, Types, Leave, Goto
<1>4. Looking'
  BY <1>2, <1>3 DEF Inv, Looking
<1>5. Asked'
  BY <1>2, <1>3 DEF Inv, Asked, OnRunning
<1> QED BY <1>1, <1>4, <1>5 DEF Inv

(* A step that goes elsewhere with the same snapshot. *)
LEMMA GotoInv ==
  ASSUME Inv, NEW r \in Runs, NEW l \in Places \ {"describe"}, Goto(r, l),
         l \in {"delete", "try delete"} => stale[r],
         UNCHANGED <<cur, stale, vol>>
  PROVE  Inv'
<1>1. Types'
  BY DEF Inv, Types, Goto, Places
<1>2. \A q \in Runs : at'[q] = IF q = r THEN l ELSE at[q]
  BY DEF Inv, Types, Goto
<1>3. Looking'
  BY <1>2 DEF Inv, Looking
<1>4. Asked'
  BY <1>2 DEF Inv, Asked, OnRunning
<1> QED BY <1>1, <1>3, <1>4 DEF Inv

LEMMA TakeInv == ASSUME Inv, NEW r \in Runs, NEW s \in Ids, Take(r, s) PROVE Inv'
<1>1. Types'
  BY DEF Inv, Types, Take, Goto, Places, OnRunning, ec2Vars
<1>2. \A q \in Runs : q # r => /\ at'[q] = at[q] /\ cur'[q] = cur[q]
                               /\ stale'[q] = stale[q]
  BY DEF Inv, Types, Take, Goto
<1>3. /\ at'[r] = IF VolumeOf[s] = NoVolume THEN "delete" ELSE "describe"
      /\ cur'[r] = s
      /\ stale'[r] = ~OnRunning(s)
      /\ vol' = vol
  BY DEF Inv, Types, Take, Goto, ec2Vars
<1>4. Looking'
  BY <1>2, <1>3, SnapshotsAssumption DEF Inv, Looking
<1>5. VolumeOf[s] = NoVolume => ~OnRunning(s)
  BY SnapshotsAssumption DEF OnRunning
<1>6. Asked'
  <2> SUFFICES ASSUME NEW q \in Runs
               PROVE  /\ at'[q] \in {"delete", "try delete"} => stale'[q]
                      /\ at'[q] = "describe" => OnRunning(cur[q])' \/ stale'[q]
    BY DEF Asked
  <2>1. CASE q = r
    BY <2>1, <1>3, <1>5 DEF OnRunning
  <2>2. CASE q # r
    BY <2>2, <1>2, <1>3 DEF Inv, Asked, OnRunning
  <2> QED BY <2>1, <2>2
<1> QED BY <1>1, <1>4, <1>6 DEF Inv

LEMMA NextInv == Inv /\ [Next]_vars => Inv'
<1> SUFFICES ASSUME Inv, [Next]_vars PROVE Inv'
  OBVIOUS
<1>1. CASE UNCHANGED vars
  BY <1>1 DEF Inv, Types, Looking, Asked, OnRunning, vars, ec2Vars, runVars
<1>2. ASSUME NEW v \in Volumes,
             \/ Attach(v) \/ Detach(v) \/ DeleteVolume(v)
             \/ StopInstance(v) \/ StartInstance(v)
      PROVE  Inv'
  BY <1>2, BecomeInv DEF Attach, Detach, DeleteVolume, StopInstance, StartInstance
<1>3. ASSUME NEW s \in Ids, Image(s) PROVE Inv'
  BY <1>3 DEF Image, Inv, Types, Looking, Asked, OnRunning, runVars
<1>4. ASSUME NEW r \in Runs, Step(r) \/ CutOff(r) PROVE Inv'
  <2>1. CASE Begin(r) \/ End(r)
    BY <2>1, GotoInv DEF Begin, End, ec2Vars, Places
  <2>2. CASE \E s \in Ids : Take(r, s)
    BY <2>2, TakeInv
  <2>3. CASE Describe(r)
    <3>1. CASE Attached(cur[r])
      BY <2>3, <3>1, LeaveInv DEF Describe, ec2Vars
    <3>2. CASE ~Attached(cur[r])
      <4>1. stale[r]
        BY <2>3, <3>2 DEF Describe, Inv, Asked, Attached, OnRunning
      <4> QED BY <2>3, <3>2, <4>1, GotoInv DEF Describe, ec2Vars, Places
    <3> QED BY <3>1, <3>2
  <2>4. CASE DescribeNotFound(r)
    <3>1. at[r] = "describe" /\ ~OnRunning(cur[r])
      BY <2>4 DEF DescribeNotFound, Lost, OnRunning
    <3>2. stale[r]
      BY <3>1 DEF Inv, Asked
    <3> QED BY <2>4, <3>2, GotoInv DEF DescribeNotFound, ec2Vars, Places
  <2>5. CASE \/ DescribeRefused(r) \/ Delete(r) \/ TryDeleteFails(r)
             \/ BareDeleteFails(r) \/ CutOff(r)
    BY <2>5, LeaveInv
    DEF DescribeRefused, Delete, TryDeleteFails, BareDeleteFails, CutOff, ec2Vars
  <2> QED BY <1>4, <2>1, <2>2, <2>3, <2>4, <2>5 DEF Step
<1> QED BY <1>1, <1>2, <1>3, <1>4 DEF Next

(* Only Delete changes the set of snapshots, and only its own run moves. *)
LEMMA OnlyDelete ==
  ASSUME Inv, Next, NEW r \in Runs, exists' # exists, at'[r] # at[r]
  PROVE  stale[r]
<1>1. PICK q \in Runs : Delete(q)
  BY DEF Next, Step, Attach, Detach, DeleteVolume, StopInstance, StartInstance, Become, Image,
         Begin, End, Take, Describe, DescribeNotFound, DescribeRefused, TryDeleteFails, BareDeleteFails, CutOff, ec2Vars
<1>2. q = r
  BY <1>1 DEF Delete, Leave, Goto, Inv, Types
<1> QED BY <1>1, <1>2 DEF Delete, Inv, Asked

(* A snapshot is deleted only if no running instance had its volume at some *)
(* moment after the run took it up (ebs-stale-snapshots.py, 19-45).         *)
THEOREM DeletesOnlyStale == Spec => DeletesStaleOnly
<1>1. Inv /\ [Next]_vars
        => [\A r \in Runs : exists' # exists /\ at'[r] # at[r] => stale[r]]_vars
  BY OnlyDelete
<1> QED BY <1>1, InitInv, NextInv, PTL DEF Spec, DeletesStaleOnly

=============================================================================
