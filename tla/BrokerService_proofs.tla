------------------------- MODULE BrokerService_proofs -------------------------
(***************************************************************************)
(* Broker implements QueueService, for any number of clients, names,       *)
(* queues and messages; and what a client may conclude from its answer.    *)
(*                                                                         *)
(* Beside the invariant of Broker_proofs the refinement needs to know what *)
(* a call has been answered so far (AskInv), that what it holds on to is   *)
(* something its name stood for since the request (SeenInv), and that the  *)
(* rows of a Stats are of the map as it is (ScanInv).                      *)
(***************************************************************************)
EXTENDS Broker_proofs

-----------------------------------------------------------------------------
(* THE INVARIANTS *)

(* A call is answered once, by the last step of its operation that decides. *)
Undecided(c) ==
  \/ pc[c] \in {"lockB", "inB", "rlockB", "lookup", "lockQ", "inQ", "scan", "row"}
  \/ At(c, "inQ2", {"dequeue"})

Asked(c) ==
  /\ pc[c] = "idle" => call[c] = NoCall
  /\ Undecided(c) => call[c].code = 0
  /\ At(c, "inQ2", {"enqueue", "drain"}) => call[c].code = 200
  /\ call[c].op # "stats" => call[c].rows = {}

AskInv == \A c \in Clients : Asked(c)

(* What a call holds on to is what its name stood for at some moment of it. *)
(* A drain and a row keep the map as it is; an enqueue does not, but then   *)
(* the call has seen its queue go.                                          *)
Holding(c) == pc[c] \in {"lockQ", "inQ", "inQ2"}
Acked(c) == call[c].op = "enqueue" /\ pc[c] = "done" /\ call[c].code = 200

Sees(c) ==
  /\ call[c].op \in NamedOps => queues[call[c].name] \in seen[c]
  /\ Holding(c) => call[c].q \in seen[c]
  /\ Holding(c) /\ call[c].op = "drain" => queues[call[c].name] = call[c].q
  /\ pc[c] = "row" => queues[call[c].name] = call[c].q
  /\ (Holding(c) /\ call[c].op = "enqueue") \/ Acked(c) =>
       queues[call[c].name] = call[c].q \/ NoQueue \in seen[c]

SeenInv == \A c \in Clients : Sees(c)

Steps(c) == Arrive(c) \/ Acquire(c) \/ Proceed(c)

-----------------------------------------------------------------------------
(* THE SCAN *)

OneRowEach(c) == \A r, s \in call[c].rows : r.Name = s.Name => r = s

ScanPlace(c) ==
  /\ pc[c] = "rlockB" => call[c].rows = {}
  /\ pc[c] \in {"scan", "row"} => Scanned(c) \subseteq Bound /\ OneRowEach(c)
  /\ pc[c] = "row" => call[c].name \in Bound \ Scanned(c)

ScanInv == \A c \in Clients : ScanPlace(c)

LEMMA InitScan == Init => ScanInv
  BY DEF Init, ScanInv, ScanPlace

(* The names that a reader of Broker.mu has seen bound stay bound. *)
LEMMA BoundStays ==
  ASSUME IInv, NEW c \in Clients, Arrive(c) \/ Acquire(c) \/ Proceed(c),
         NEW d \in Clients, pc[d] \in {"scan", "row"}
  PROVE  Bound \subseteq Bound'
<1>1. CASE DeleteQueue(c)
  <2>1. d \in bmu.r
    BY DEF IInv, LockInv, BLockInv, ReadsB
  <2> QED BY <1>1, <2>1 DEF DeleteQueue, NoReaders
<1>2. CASE CreateQueue(c)
  <2>1. call[c].q \in Refs /\ queues \in [Names -> Refs \cup {NoQueue}]
    BY <1>2 DEF CreateQueue, At, IInv, CallInv, WellPlaced, TypeOK
  <2>2. NoQueue \notin Refs
    BY DEF NoQueue, Refs
  <2> QED BY <1>2, <2>1, <2>2 DEF CreateQueue, Bind, Bound, Queue
<1>3. CASE ~DeleteQueue(c) /\ ~CreateQueue(c)
  <2>1. queues' = queues
    <3>1. CASE Arrive(c)
      BY <3>1 DEF Arrive, Request, Refuse
    <3>2. CASE Acquire(c)
      BY <3>2 DEF Acquire, LockB, RLockB, LockQ, RLockQ
    <3>3. CASE Proceed(c)
      BY <1>3, <3>3 DEF Proceed, RejectB, DrainLookup, Lookup, LookupFails, PutAppend, PutCount,
             GetEmpty, GetHead, GetDrop, DrainClear, DrainCount, ReadRow, StatsDone, Respond
    <3> QED BY <3>1, <3>2, <3>3
  <2> QED BY <2>1 DEF Bound
<1> QED BY <1>1, <1>2, <1>3

(* What the scanning goroutine does itself. *)
LEMMA OwnScan ==
  ASSUME IInv, ScanInv, NEW c \in Clients, Arrive(c) \/ Acquire(c) \/ Proceed(c)
  PROVE  ScanPlace(c)'
<1>0. /\ TypeOK /\ WellPlaced(c) /\ ScanPlace(c)
      /\ call \in [Clients -> Calls] /\ pc \in [Clients -> Labels]
  BY DEF IInv, CallInv, ScanInv, TypeOK
<1>1. CASE Arrive(c)
  <2>1. ASSUME NEW op \in Ops, NEW n \in Names, Request(c, op, n) PROVE ScanPlace(c)'
    <3>1. call'[c].rows = {} /\ pc'[c] \in {"lockB", "rlockB"}
      BY <1>0, <2>1 DEF Request, Goto
    <3> QED BY <3>1 DEF ScanPlace
  <2>2. ASSUME NEW op \in Ops, NEW k \in {400, 500}, Refuse(c, op, k) PROVE ScanPlace(c)'
    <3>1. pc'[c] = "done"
      BY <1>0, <2>2 DEF Refuse, Goto
    <3> QED BY <3>1 DEF ScanPlace
  <2> QED BY <1>1, <2>1, <2>2 DEF Arrive
<1>2. CASE RLockB(c)
  <2>1. /\ call' = call /\ queues' = queues /\ call[c].rows = {}
        /\ pc'[c] \in {"scan", "lookup"}
    BY <1>0, <1>2 DEF RLockB, Goto, ScanPlace
  <2> QED BY <2>1 DEF ScanPlace, Scanned, OneRowEach
<1>3. ASSUME NEW n \in Names, RLockQ(c, n) PROVE ScanPlace(c)'
  <2>1. /\ queues' = queues /\ pc[c] = "scan" /\ pc'[c] = "row"
        /\ call'[c].rows = call[c].rows /\ call'[c].name = n
        /\ n \in Bound \ Scanned(c)
    BY <1>0, <1>3 DEF RLockQ, Goto, Calls
  <2> QED BY <1>0, <2>1 DEF ScanPlace, Scanned, OneRowEach, Bound
<1>4. CASE ReadRow(c)
  <2> DEFINE row == Stat(Name(c), heap[Queue(c)])
  <2>1. /\ queues' = queues /\ pc[c] = "row" /\ pc'[c] = "scan"
        /\ call'[c].rows = call[c].rows \cup {row}
    BY <1>0, <1>4 DEF ReadRow, Goto, Calls
  <2>2. row.Name = call[c].name
    BY DEF Stat, Name
  <2>3. Scanned(c)' = Scanned(c) \cup {call[c].name}
    BY <2>1, <2>2 DEF Scanned
  <2>4. OneRowEach(c)'
    <3>1. \A r \in call[c].rows : r.Name # row.Name
      BY <1>0, <2>1, <2>2 DEF ScanPlace, Scanned
    <3> HIDE DEF row
    <3> QED BY <1>0, <2>1, <3>1 DEF ScanPlace, OneRowEach
  <2> QED BY <1>0, <2>1, <2>3, <2>4 DEF ScanPlace, Bound
<1>5. CASE LockB(c) \/ LockQ(c)
  <2>1. pc'[c] \in {"inB", "inQ"}
    BY <1>0, <1>5 DEF LockB, LockQ, Goto
  <2> QED BY <2>1 DEF ScanPlace
<1>6. CASE Proceed(c) /\ ~ReadRow(c)
  <2>1. pc'[c] \in {"done", "lockQ", "inQ2", "idle"}
    BY <1>0, <1>6 DEF Proceed, RejectB, CreateQueue, DeleteQueue, DrainLookup, Lookup, LookupFails,
           PutAppend, PutCount, GetEmpty, GetHead, GetDrop, DrainClear, DrainCount, StatsDone,
           Respond, Goto, UnlockQ
  <2> QED BY <2>1 DEF ScanPlace
<1> QED BY <1>1, <1>2, <1>3, <1>4, <1>5, <1>6 DEF Acquire

LEMMA NextScan == IInv /\ ScanInv /\ [Next]_vars => ScanInv'
<1> SUFFICES ASSUME IInv, ScanInv, [Next]_vars PROVE ScanInv'
  OBVIOUS
<1>1. CASE UNCHANGED vars
  BY <1>1 DEF vars, ScanInv, ScanPlace, Scanned, Bound, OneRowEach
<1>2. ASSUME NEW c \in Clients, Arrive(c) \/ Acquire(c) \/ Proceed(c) PROVE ScanInv'
  <2> SUFFICES ASSUME NEW d \in Clients PROVE ScanPlace(d)'
    BY DEF ScanInv
  <2>1. CASE d = c
    BY <1>2, <2>1, OwnScan
  <2>2. CASE d # c
    <3>1. pc'[d] = pc[d] /\ call'[d] = call[d]
      BY <1>2, <2>2, OthersStay DEF IInv
    <3>2. ScanPlace(d)
      BY DEF ScanInv
    <3>3. CASE pc[d] \in {"scan", "row"}
      <4>1. Bound \subseteq Bound'
        BY <1>2, <3>3, BoundStays
      <4> QED BY <3>1, <3>2, <4>1 DEF ScanPlace, Scanned, OneRowEach
    <3>4. CASE pc[d] \notin {"scan", "row"}
      BY <3>1, <3>2, <3>4 DEF ScanPlace
    <3> QED BY <3>3, <3>4
  <2> QED BY <2>1, <2>2
<1> QED BY <1>1, <1>2 DEF Next

(* No queue that Stats has a row of goes away before it answers, and none   *)
(* has two rows (broker.go, 176-195), whoever creates and deletes queues.   *)
THEOREM ScansAgree == Spec => []ScanIsSnapshot
<1>1. ScanInv => ScanIsSnapshot
  BY DEF ScanInv, ScanPlace, ScanIsSnapshot, OneRowEach
<1> QED BY <1>1, InitIInv, InitScan, NextIInv, NextScan, PTL DEF Spec


-----------------------------------------------------------------------------
(* WHAT A CALL HAS BEEN ANSWERED *)

(* The other ways in which a goroutine writes its locals. *)
LEMMA SetQueueIs ==
  ASSUME TypeOK, NEW c \in Clients, NEW q, call' = [call EXCEPT ![c].q = q]
  PROVE  /\ call'[c].op = call[c].op /\ call'[c].name = call[c].name /\ call'[c].q = q
         /\ call'[c].m = call[c].m /\ call'[c].code = call[c].code /\ call'[c].rows = call[c].rows
BY DEF TypeOK, Calls

LEMMA SetMessageIs ==
  ASSUME TypeOK, NEW c \in Clients, NEW m, call' = [call EXCEPT ![c].m = m]
  PROVE  /\ call'[c].op = call[c].op /\ call'[c].name = call[c].name /\ call'[c].q = call[c].q
         /\ call'[c].m = m /\ call'[c].code = call[c].code /\ call'[c].rows = call[c].rows
BY DEF TypeOK, Calls

LEMMA SetRowIs ==
  ASSUME TypeOK, NEW c \in Clients, NEW n \in Names, RLockQ(c, n)
  PROVE  /\ call'[c].op = call[c].op /\ call'[c].name = n /\ call'[c].q = queues[n]
         /\ call'[c].m = call[c].m /\ call'[c].code = call[c].code /\ call'[c].rows = call[c].rows
BY DEF TypeOK, Calls, RLockQ

LEMMA OwnAsked ==
  ASSUME IInv, AskInv, NEW c \in Clients, Steps(c)
  PROVE  Asked(c)'
<1>0. /\ TypeOK /\ WellPlaced(c) /\ Asked(c)
      /\ call \in [Clients -> Calls] /\ pc \in [Clients -> Labels]
  BY DEF IInv, CallInv, AskInv, TypeOK
<1> USE DEF Asked, Undecided, At
<1>1. ASSUME NEW op \in Ops, NEW n \in Names, Request(c, op, n) PROVE Asked(c)'
  <2>1. /\ call'[c].rows = {} /\ call'[c].code = 0 /\ pc'[c] \in {"lockB", "rlockB"}
    BY <1>0, <1>1 DEF Request, Goto
  <2> QED BY <2>1
<1>2. ASSUME NEW op \in Ops, NEW k \in {400, 500}, Refuse(c, op, k) PROVE Asked(c)'
  <2>1. call'[c].rows = {} /\ pc'[c] = "done"
    BY <1>0, <1>2 DEF Refuse, Goto, NoCall
  <2> QED BY <2>1
<1>3. CASE LockB(c) \/ RLockB(c) \/ LockQ(c)
  <2>1. /\ call'[c] = call[c] /\ pc[c] \in {"lockB", "rlockB", "lockQ"}
        /\ pc'[c] \in {"inB", "scan", "lookup", "inQ"}
    BY <1>0, <1>3 DEF LockB, RLockB, LockQ, Goto
  <2> QED BY <1>0, <2>1
<1>4. ASSUME NEW n \in Names, RLockQ(c, n) PROVE Asked(c)'
  <2>1. pc[c] = "scan" /\ pc'[c] = "row"
    BY <1>0, <1>4 DEF RLockQ, Goto
  <2>2. call'[c].op = call[c].op /\ call'[c].code = call[c].code /\ call'[c].rows = call[c].rows
    BY <1>0, <1>4, SetRowIs
  <2> QED BY <1>0, <2>1, <2>2
<1>5. CASE DrainLookup(c) \/ Lookup(c)
  <2>1. pc[c] \in {"inB", "lookup"} /\ pc'[c] = "lockQ"
    BY <1>0, <1>5 DEF DrainLookup, Lookup, Goto
  <2>2. call'[c].op = call[c].op /\ call'[c].code = call[c].code /\ call'[c].rows = call[c].rows
    BY <1>0, <1>5, SetQueueIs DEF DrainLookup, Lookup
  <2> QED BY <1>0, <2>1, <2>2
<1>6. CASE GetHead(c)
  <2>1. pc[c] = "inQ" /\ pc'[c] = "inQ2" /\ call[c].op = "dequeue"
    BY <1>0, <1>6 DEF GetHead, InQ, Goto
  <2>2. call'[c].op = call[c].op /\ call'[c].code = call[c].code /\ call'[c].rows = call[c].rows
    BY <1>0, <1>6, SetMessageIs DEF GetHead
  <2> QED BY <1>0, <2>1, <2>2
<1>7. CASE RejectB(c) \/ CreateQueue(c) \/ DeleteQueue(c) \/ LookupFails(c) \/ GetEmpty(c)
           \/ GetDrop(c) \/ StatsDone(c)
  <2>1. pc'[c] = "done" /\ \E k \in {200, 204, 400} : Answer(c, k)
    BY <1>0, <1>7 DEF RejectB, CreateQueue, DeleteQueue, LookupFails, GetEmpty, GetDrop,
           StatsDone, Goto, UnlockQ
  <2>2. call'[c].op = call[c].op /\ call'[c].rows = call[c].rows
    BY <1>0, <2>1, AnswerIs
  <2> QED BY <1>0, <2>1, <2>2
<1>8. CASE PutAppend(c) \/ DrainClear(c)
  <2>1. pc'[c] = "inQ2" /\ call[c].op \in {"enqueue", "drain"} /\ Answer(c, 200)
    BY <1>0, <1>8 DEF PutAppend, DrainClear, InQ, Goto
  <2>2. call'[c].op = call[c].op /\ call'[c].rows = call[c].rows /\ call'[c].code = 200
    BY <1>0, <2>1, AnswerIs
  <2> QED BY <1>0, <2>1, <2>2
<1>9. CASE PutCount(c) \/ DrainCount(c)
  <2>1. pc'[c] = "done" /\ call'[c] = call[c]
    BY <1>0, <1>9 DEF PutCount, DrainCount, Goto, UnlockQ
  <2> QED BY <1>0, <2>1
<1>10. CASE ReadRow(c)
  <2>1. pc[c] = "row" /\ pc'[c] = "scan" /\ call[c].op = "stats"
    BY <1>0, <1>10 DEF ReadRow, Goto, WellPlaced
  <2>2. call'[c].op = call[c].op /\ call'[c].code = call[c].code
    BY <1>0, <1>10 DEF ReadRow, Calls
  <2> QED BY <1>0, <2>1, <2>2
<1>11. CASE Respond(c)
  <2>1. pc'[c] = "idle" /\ call'[c] = NoCall
    BY <1>0, <1>11 DEF Respond, Goto
  <2> QED BY <2>1 DEF NoCall
<1> QED BY <1>1, <1>2, <1>3, <1>4, <1>5, <1>6, <1>7, <1>8, <1>9, <1>10, <1>11
     DEF Steps, Arrive, Acquire, Proceed

LEMMA NextAsk == IInv /\ AskInv /\ [Next]_vars => AskInv'
<1> SUFFICES ASSUME IInv, AskInv, [Next]_vars, NEW d \in Clients PROVE Asked(d)'
  BY DEF AskInv
<1>1. CASE UNCHANGED vars
  BY <1>1 DEF vars, AskInv, Asked, Undecided, At
<1>2. ASSUME NEW c \in Clients, Steps(c) PROVE Asked(d)'
  <2>1. CASE d = c
    BY <1>2, <2>1, OwnAsked
  <2>2. CASE d # c
    <3>1. pc'[d] = pc[d] /\ call'[d] = call[d]
      BY <1>2, <2>2, OthersStay DEF IInv, Steps
    <3> QED BY <3>1 DEF AskInv, Asked, Undecided, At
  <2> QED BY <2>1, <2>2
<1> QED BY <1>1, <1>2 DEF Next, Steps

-----------------------------------------------------------------------------
(* WHAT A CALL HAS SEEN *)

LEMMA BindIs ==
  ASSUME TypeOK, NEW n \in Names, NEW q, Bind(n, q)
  PROVE  /\ queues'[n] = q /\ \A m \in Names \ {n} : queues'[m] = queues[m]
         /\ \A d \in Clients :
              seen'[d] = IF call[d].op \in NamedOps /\ call[d].name = n THEN seen[d] \cup {q}
                                                                     ELSE seen[d]
BY DEF TypeOK, Bind, Name

(* Only a create or a delete changes the map; a call sees what they do, and *)
(* otherwise only its own beginning and end change what it has seen.        *)
LEMMA TableKept ==
  ASSUME TypeOK, NEW c \in Clients, Steps(c), ~CreateQueue(c), ~DeleteQueue(c)
  PROVE  /\ queues' = queues
         /\ \A d \in Clients \ {c} : seen'[d] = seen[d]
         /\ pc[c] \notin {"idle", "done"} => seen' = seen
<1>1. CASE Arrive(c)
  BY <1>1 DEF Arrive, Request, Refuse, TypeOK
<1>2. CASE Acquire(c)
  BY <1>2 DEF Acquire, LockB, RLockB, LockQ, RLockQ
<1>3. CASE Respond(c)
  BY <1>3 DEF Respond, TypeOK
<1>4. CASE Proceed(c) /\ ~Respond(c)
  BY <1>4 DEF Proceed, RejectB, DrainLookup, Lookup, LookupFails, PutAppend, PutCount,
         GetEmpty, GetHead, GetDrop, DrainClear, DrainCount, ReadRow, StatsDone
<1> QED BY <1>1, <1>2, <1>3, <1>4 DEF Steps

(* A create or a delete finds no reader of Broker.mu and no other writer.   *)
LEMMA AloneInB ==
  ASSUME IInv, NEW c \in Clients, CreateQueue(c) \/ DeleteQueue(c), NEW d \in Clients, d # c
  PROVE  pc[d] # "row" /\ ~(Holding(d) /\ call[d].op = "drain")
<1>1. pc[c] = "inB" /\ bmu.r = {}
  BY DEF CreateQueue, DeleteQueue, At, NoReaders
<1>2. bmu.w = c
  BY <1>1 DEF IInv, LockInv, BLockInv, HoldsB
<1>3. pc[d] # "row"
  BY <1>1 DEF IInv, LockInv, BLockInv, ReadsB
<1>4. ~(Holding(d) /\ call[d].op = "drain")
  BY <1>2 DEF IInv, LockInv, BLockInv, HoldsB, Holding
<1> QED BY <1>3, <1>4

(* What a create or a delete does to what the others have seen. *)
LEMMA BindKeepsSeen ==
  ASSUME IInv, SeenInv, NEW c \in Clients, CreateQueue(c) \/ DeleteQueue(c), NEW d \in Clients
  PROVE  Sees(d)'
<1>0. TypeOK /\ WellPlaced(c) /\ WellPlaced(d) /\ Sees(d) /\ Steps(c)
  BY DEF IInv, CallInv, SeenInv, Steps, Proceed
<1> DEFINE n == call[c].name
           q == IF call[c].op = "create" THEN call[c].q ELSE NoQueue
<1>1. /\ pc[c] = "inB" /\ n \in Names /\ Bind(n, q) /\ Answer(c, 200) /\ Goto(c, "done")
      /\ q = NoQueue \/ queues[n] = NoQueue
  <2>1. CASE CreateQueue(c)
    BY <1>0, <2>1 DEF CreateQueue, At, WellPlaced, Name, Queue, NamedOps
  <2>2. CASE DeleteQueue(c)
    BY <1>0, <2>2 DEF DeleteQueue, At, WellPlaced, Name, NamedOps
  <2> QED BY <2>1, <2>2
<1>2. /\ queues'[n] = q /\ \A m \in Names \ {n} : queues'[m] = queues[m]
      /\ seen'[d] = IF call[d].op \in NamedOps /\ call[d].name = n THEN seen[d] \cup {q}
                                                                  ELSE seen[d]
  <2> HIDE DEF n, q
  <2> QED BY <1>0, <1>1, BindIs
<1>3. call'[d].op = call[d].op /\ call'[d].name = call[d].name /\ call'[d].q = call[d].q
  BY <1>0, <1>1, AnswerIs
<1>4. call[d].op \in NamedOps => queues'[call[d].name] \in seen'[d]
  <2> HIDE DEF n, q
  <2> QED BY <1>0, <1>2 DEF Sees, WellPlaced
<1>5. CASE d = c
  <2>1. pc'[c] = "done" /\ call[c].op # "enqueue"
    BY <1>0, <1>1, GotoIs DEF WellPlaced, Labels
  <2> QED BY <1>3, <1>4, <1>5, <2>1 DEF Sees, Holding, Acked
<1>6. CASE d # c
  <2>1. pc'[d] = pc[d] /\ call'[d] = call[d]
    BY <1>0, <1>6, OthersStay DEF Steps
  <2>2. pc[d] # "row" /\ ~(Holding(d) /\ call[d].op = "drain")
    BY <1>6, AloneInB
  <2>3. ASSUME call[d].op = "enqueue", Holding(d) \/ Acked(d)
        PROVE  queues'[call[d].name] = call[d].q \/ NoQueue \in seen'[d]
    <3>1. /\ call[d].op \in NamedOps /\ call[d].name \in Names
          /\ queues[call[d].name] \in seen[d]
          /\ queues[call[d].name] = call[d].q \/ NoQueue \in seen[d]
      BY <1>0, <2>3 DEF Sees, WellPlaced, NamedOps, Acked
    <3>2. CASE call[d].name = n
      <4> HIDE DEF n, q
      <4> QED BY <1>1, <1>2, <3>1, <3>2
    <3>3. CASE call[d].name # n
      <4> HIDE DEF n, q
      <4> QED BY <1>2, <3>1, <3>3
    <3> QED BY <3>2, <3>3
  <2>4. Holding(d) => call[d].q \in seen'[d]
    BY <1>0, <1>2 DEF Sees
  <2> QED BY <1>4, <2>1, <2>2, <2>3, <2>4 DEF Sees, Holding, Acked
<1> QED BY <1>5, <1>6

LEMMA OwnSeen ==
  ASSUME IInv, AskInv, SeenInv, NEW c \in Clients, Steps(c), ~CreateQueue(c), ~DeleteQueue(c)
  PROVE  Sees(c)'
<1>0. /\ TypeOK /\ WellPlaced(c) /\ Asked(c) /\ Sees(c)
      /\ call \in [Clients -> Calls] /\ pc \in [Clients -> Labels]
  BY DEF IInv, CallInv, AskInv, SeenInv, TypeOK
<1>1. queues' = queues /\ (pc[c] \notin {"idle", "done"} => seen' = seen)
  BY <1>0, TableKept
<1> USE DEF Sees, Holding, Acked, At
<1>2. ASSUME NEW op \in Ops, NEW n \in Names, Request(c, op, n) PROVE Sees(c)'
  <2>1. /\ call'[c].op = op /\ (op # "stats" => call'[c].name = n)
        /\ pc'[c] \in {"lockB", "rlockB"}
        /\ op # "stats" => seen'[c] = {queues[n]}
    BY <1>0, <1>2 DEF Request, Goto, TypeOK
  <2> QED BY <1>1, <2>1 DEF NamedOps
<1>3. ASSUME NEW op \in Ops, NEW k \in {400, 500}, Refuse(c, op, k) PROVE Sees(c)'
  <2>1. call'[c].op = "refused" /\ pc'[c] = "done"
    BY <1>0, <1>3 DEF Refuse, Goto, NoCall
  <2> QED BY <2>1 DEF NamedOps
<1>4. CASE LockB(c) \/ RLockB(c) \/ LockQ(c)
  <2>1. /\ call'[c] = call[c] /\ pc[c] \in {"lockB", "rlockB", "lockQ"}
        /\ pc'[c] \in {"inB", "scan", "lookup", "inQ"}
        /\ pc'[c] = "inQ" => pc[c] = "lockQ"
    BY <1>0, <1>4 DEF LockB, RLockB, LockQ, Goto
  <2> QED BY <1>0, <1>1, <2>1
<1>5. ASSUME NEW n \in Names, RLockQ(c, n) PROVE Sees(c)'
  <2>1. pc[c] = "scan" /\ pc'[c] = "row" /\ call[c].op = "stats"
    BY <1>0, <1>5 DEF RLockQ, Goto, WellPlaced
  <2>2. call'[c].op = call[c].op /\ call'[c].name = n /\ call'[c].q = queues[n]
    BY <1>0, <1>5, SetRowIs
  <2> QED BY <1>1, <2>1, <2>2 DEF NamedOps
<1>6. CASE DrainLookup(c) \/ Lookup(c)
  <2>1. pc[c] \in {"inB", "lookup"} /\ pc'[c] = "lockQ" /\ call[c].op \in NamedOps
    BY <1>0, <1>6 DEF DrainLookup, Lookup, Goto, WellPlaced, NamedOps
  <2>2. /\ call'[c].op = call[c].op /\ call'[c].name = call[c].name
        /\ call'[c].q = queues[call[c].name]
    BY <1>0, <1>6, SetQueueIs DEF DrainLookup, Lookup, Name
  <2> QED BY <1>0, <1>1, <2>1, <2>2
<1>7. CASE GetHead(c)
  <2>1. pc[c] = "inQ" /\ pc'[c] = "inQ2" /\ call[c].op = "dequeue"
    BY <1>0, <1>7 DEF GetHead, InQ, Goto
  <2>2. call'[c].op = call[c].op /\ call'[c].name = call[c].name /\ call'[c].q = call[c].q
    BY <1>0, <1>7, SetMessageIs DEF GetHead
  <2> QED BY <1>0, <1>1, <2>1, <2>2
<1>8. CASE RejectB(c) \/ LookupFails(c) \/ GetEmpty(c) \/ GetDrop(c) \/ StatsDone(c)
  <2>1. /\ pc[c] \in {"inB", "lookup", "inQ", "inQ2", "scan"} /\ pc'[c] = "done"
        /\ Answer(c, 400) \/ (call[c].op # "enqueue" /\ \E k \in {200, 204} : Answer(c, k))
    BY <1>0, <1>8 DEF RejectB, LookupFails, GetEmpty, GetDrop, StatsDone, InQ, Goto, UnlockQ,
           WellPlaced
  <2>2. /\ call'[c].op = call[c].op /\ call'[c].name = call[c].name
        /\ call[c].op = "enqueue" => call'[c].code = 400
    BY <1>0, <2>1, AnswerIs
  <2> QED BY <1>0, <1>1, <2>1, <2>2
<1>9. CASE PutAppend(c) \/ DrainClear(c)
  <2>1. pc[c] = "inQ" /\ pc'[c] = "inQ2" /\ Answer(c, 200)
    BY <1>0, <1>9 DEF PutAppend, DrainClear, InQ, Goto
  <2>2. call'[c].op = call[c].op /\ call'[c].name = call[c].name /\ call'[c].q = call[c].q
    BY <1>0, <2>1, AnswerIs
  <2> QED BY <1>0, <1>1, <2>1, <2>2
<1>10. CASE PutCount(c) \/ DrainCount(c)
  <2>1. pc[c] = "inQ2" /\ pc'[c] = "done" /\ call'[c] = call[c]
    BY <1>0, <1>10 DEF PutCount, DrainCount, Goto, UnlockQ
  <2> QED BY <1>0, <1>1, <2>1
<1>11. CASE ReadRow(c)
  <2>1. pc[c] = "row" /\ pc'[c] = "scan" /\ call[c].op = "stats"
    BY <1>0, <1>11 DEF ReadRow, Goto, WellPlaced
  <2>2. call'[c].op = call[c].op
    BY <1>0, <1>11 DEF ReadRow, Calls
  <2> QED BY <2>1, <2>2 DEF NamedOps
<1>12. CASE Respond(c)
  <2>1. pc'[c] = "idle" /\ call'[c] = NoCall
    BY <1>0, <1>12 DEF Respond, Goto
  <2> QED BY <2>1 DEF NoCall, NamedOps
<1> QED BY <1>2, <1>3, <1>4, <1>5, <1>6, <1>7, <1>8, <1>9, <1>10, <1>11, <1>12
     DEF Steps, Arrive, Acquire, Proceed

LEMMA NextSeen == IInv /\ AskInv /\ SeenInv /\ [Next]_vars => SeenInv'
<1> SUFFICES ASSUME IInv, AskInv, SeenInv, [Next]_vars, NEW d \in Clients PROVE Sees(d)'
  BY DEF SeenInv
<1>0. TypeOK /\ Sees(d)
  BY DEF IInv, SeenInv
<1>1. CASE UNCHANGED vars
  BY <1>0, <1>1 DEF vars, Sees, Holding, Acked
<1>2. ASSUME NEW c \in Clients, Steps(c) PROVE Sees(d)'
  <2>1. CASE CreateQueue(c) \/ DeleteQueue(c)
    BY <2>1, BindKeepsSeen
  <2>2. CASE ~CreateQueue(c) /\ ~DeleteQueue(c) /\ d = c
    BY <1>2, <2>2, OwnSeen
  <2>3. CASE ~CreateQueue(c) /\ ~DeleteQueue(c) /\ d # c
    <3>1. queues' = queues /\ seen'[d] = seen[d]
      BY <1>0, <1>2, <2>3, TableKept
    <3>2. pc'[d] = pc[d] /\ call'[d] = call[d]
      BY <1>0, <1>2, <2>3, OthersStay DEF Steps
    <3> QED BY <1>0, <3>1, <3>2 DEF Sees, Holding, Acked
  <2> QED BY <2>1, <2>2, <2>3
<1> QED BY <1>1, <1>2 DEF Next, Steps

FullInv == IInv /\ ScanInv /\ AskInv /\ SeenInv

LEMMA InitFull == Init => FullInv
<1> SUFFICES ASSUME Init PROVE AskInv /\ SeenInv
  BY InitIInv, InitScan DEF FullInv
<1>1. AskInv
  BY DEF Init, AskInv, Asked, Undecided, At, NoCall
<1>2. SeenInv
  BY DEF Init, SeenInv, Sees, Holding, Acked, NoCall, NamedOps
<1> QED BY <1>1, <1>2

LEMMA NextFull == FullInv /\ [Next]_vars => FullInv'
BY NextIInv, NextScan, NextAsk, NextSeen DEF FullInv

LEMMA FullInductive == Spec => []FullInv
BY InitFull, NextFull, PTL DEF Spec

(* The 200 of an enqueue means that the message went to the queue that has  *)
(* the name now, or that the queue was deleted while the call was pending   *)
(* (broker.go, 128-156), whoever creates and deletes queues of that name.   *)
THEOREM AckedReached == Spec => []AckedIsReachable
<1>1. FullInv => AckedIsReachable
  BY DEF FullInv, SeenInv, Sees, Acked, AckedIsReachable, At, Name, Queue
<1> QED BY <1>1, FullInductive, PTL

-----------------------------------------------------------------------------
(* THE REFINEMENT: what a state of Broker looks like to QueueService *)

Putting(c, q) == At(c, "inQ2", {"enqueue"}) /\ call[c].q = q
Extra(q) == IF \E c \in Clients : Putting(c, q) THEN 1 ELSE 0

StoreOf(q) == [msgs |-> heap[q].Messages,
               enqueued |-> heap[q].Enqueued + Extra(q),
               dequeued |-> heap[q].Dequeued,
               drained |-> heap[q].Drained]

PhaseOf(c) ==
  IF pc[c] = "idle" THEN "idle"
  ELSE IF pc[c] = "done" \/ At(c, "inQ2", {"enqueue", "drain"}) THEN "answered" ELSE "pending"

ReqOf(c) == [op |-> call[c].op,
             name |-> IF call[c].op = "stats" THEN Nil ELSE call[c].name,
             q |-> IF call[c].op = "create" THEN call[c].q ELSE NoQueue,
             m |-> IF call[c].op = "enqueue" THEN call[c].m ELSE NoMessage]

AnsOf(c) == [code |-> call[c].code,
             m |-> IF call[c].code = 200 /\ call[c].op \in {"enqueue", "dequeue"}
                   THEN call[c].m ELSE NoMessage,
             rows |-> call[c].rows]

CallsShow ==
  /\ AbsPhase = [c \in Clients |-> PhaseOf(c)]
  /\ AbsReq = [c \in Clients |-> ReqOf(c)]
  /\ AbsAns = [c \in Clients |-> AnsOf(c)]

StoreShows == AbsStore = [q \in Refs |-> StoreOf(q)]

LEMMA ShownCalls == CallsShow
<1>1. AbsPhase = [c \in Clients |-> PhaseOf(c)]
  <2> SUFFICES ASSUME NEW c \in Clients PROVE AbsPhase[c] = PhaseOf(c)
    BY DEF AbsPhase
  <2>1. CASE pc[c] = "idle"
    BY <2>1 DEF AbsPhase, PhaseOf, At
  <2>2. CASE pc[c] # "idle" /\ (pc[c] = "done" \/ At(c, "inQ2", {"enqueue", "drain"}))
    BY <2>2 DEF AbsPhase, PhaseOf, At
  <2>3. CASE pc[c] # "idle" /\ ~(pc[c] = "done" \/ At(c, "inQ2", {"enqueue", "drain"}))
    BY <2>3 DEF AbsPhase, PhaseOf, At
  <2> QED BY <2>1, <2>2, <2>3
<1>2. AbsReq = [c \in Clients |-> ReqOf(c)]
  BY DEF AbsReq, ReqOf, Name, Queue
<1>3. AbsAns = [c \in Clients |-> AnsOf(c)]
  BY DEF AbsAns, AnsOf
<1> QED BY <1>1, <1>2, <1>3 DEF CallsShow

LEMMA ShownCallsNext == CallsShow'
BY ShownCalls, PTL

(* Halfway speaks of whoever has the lock, Putting of where a client is.    *)
LEMMA HalfwayIs ==
  ASSUME IInv, NEW q \in Refs
  PROVE  Halfway(q, "enqueue") <=> \E c \in Clients : Putting(c, q)
<1>1. \A c \in Clients : qmu[q].w = c <=> HoldsQ(c, q)
  BY DEF IInv, LockInv, QLockInv
<1>2. qmu[q].w \in Clients \cup {Nil} /\ Nil \notin Clients
  BY BrokerAssumption DEF IInv, TypeOK, RWMutex
<1>3. ASSUME Halfway(q, "enqueue") PROVE \E c \in Clients : Putting(c, q)
  <2>1. qmu[q].w \in Clients /\ At(qmu[q].w, "inQ2", {"enqueue"})
    BY <1>2, <1>3 DEF Halfway, Open
  <2> QED BY <1>1, <2>1 DEF HoldsQ, Putting
<1>4. ASSUME NEW c \in Clients, Putting(c, q) PROVE Halfway(q, "enqueue")
  <2>1. qmu[q].w = c
    BY <1>1, <1>4 DEF HoldsQ, Putting, At
  <2> QED BY <1>2, <1>4, <2>1 DEF Halfway, Open, Putting
<1> QED BY <1>3, <1>4

LEMMA ShownStore == IInv => StoreShows
<1> SUFFICES ASSUME IInv, NEW q \in Refs
             PROVE  (IF Halfway(q, "enqueue") THEN 1 ELSE 0) = Extra(q)
  BY DEF StoreShows, AbsStore, StoreOf
<1> QED BY HalfwayIs DEF Extra

LEMMA ShownStoreNext == IInv' => StoreShows'
BY ShownStore, PTL

(* A step of c shows in the call of c only. *)
LEMMA OwnCall ==
  ASSUME IInv, NEW c \in Clients, Steps(c)
  PROVE  /\ AbsPhase' = [AbsPhase EXCEPT ![c] = PhaseOf(c)']
         /\ AbsReq' = [AbsReq EXCEPT ![c] = ReqOf(c)']
         /\ AbsAns' = [AbsAns EXCEPT ![c] = AnsOf(c)']
<1>1. \A d \in Clients \ {c} : pc'[d] = pc[d] /\ call'[d] = call[d]
  BY OthersStay DEF IInv, Steps
<1>2. \A d \in Clients \ {c} : /\ PhaseOf(d)' = PhaseOf(d) /\ ReqOf(d)' = ReqOf(d)
                              /\ AnsOf(d)' = AnsOf(d)
  BY <1>1 DEF PhaseOf, ReqOf, AnsOf, At
<1>3. /\ AbsPhase' = [d \in Clients |-> PhaseOf(d)']
      /\ AbsReq' = [d \in Clients |-> ReqOf(d)']
      /\ AbsAns' = [d \in Clients |-> AnsOf(d)']
  BY ShownCallsNext DEF CallsShow
<1> QED BY <1>2, <1>3, ShownCalls DEF CallsShow

(* A step of c that does not touch an object, and neither begins nor ends   *)
(* the second half of a PutMessage on it, does not show in it.              *)
LEMMA ExtraStays ==
  ASSUME IInv, NEW c \in Clients, Steps(c), NEW q \in Refs, Putting(c, q)' <=> Putting(c, q)
  PROVE  Extra(q)' = Extra(q)
<1>1. \A d \in Clients \ {c} : pc'[d] = pc[d] /\ call'[d] = call[d]
  BY OthersStay DEF IInv, Steps
<1>2. \A d \in Clients : Putting(d, q)' <=> Putting(d, q)
  BY <1>1 DEF Putting, At
<1> QED BY <1>2 DEF Extra

LEMMA StoreSame ==
  ASSUME IInv, NEW c \in Clients, Steps(c), NEW q \in Refs,
         heap'[q] = heap[q], Putting(c, q)' <=> Putting(c, q)
  PROVE  StoreOf(q)' = StoreOf(q)
BY ExtraStays DEF StoreOf

LEMMA StoreStays ==
  ASSUME IInv, IInv', NEW c \in Clients, Steps(c), heap' = heap,
         ~At(c, "inQ2", {"enqueue"}), ~At(c, "inQ2", {"enqueue"})'
  PROVE  AbsStore' = AbsStore
<1>1. \A q \in Refs : StoreOf(q)' = StoreOf(q)
  BY StoreSame DEF Putting
<1>2. AbsStore' = [q \in Refs |-> StoreOf(q)'] /\ AbsStore = [q \in Refs |-> StoreOf(q)]
  BY ShownStore, ShownStoreNext DEF StoreShows
<1> QED BY <1>1, <1>2

(* A goroutine that has a queue for itself changes what it shows. *)
LEMMA StoreChanges ==
  ASSUME IInv, IInv', NEW c \in Clients, Steps(c), NEW q \in Refs, call[c].q = q, call'[c].q = q,
         \A r \in Refs \ {q} : heap'[r] = heap[r]
  PROVE  AbsStore' = [AbsStore EXCEPT ![q] = StoreOf(q)']
<1>1. ASSUME NEW r \in Refs \ {q} PROVE StoreOf(r)' = StoreOf(r)
  <2>1. ~Putting(c, r) /\ ~Putting(c, r)'
    BY <1>1 DEF Putting
  <2> QED BY <1>1, <2>1, StoreSame
<1>2. AbsStore' = [r \in Refs |-> StoreOf(r)'] /\ AbsStore = [r \in Refs |-> StoreOf(r)]
  BY ShownStore, ShownStoreNext DEF StoreShows
<1> QED BY <1>1, <1>2

(* Who is inside a queue is alone there: nobody else is halfway through.    *)
LEMMA ExtraIs ==
  ASSUME IInv, NEW c \in Clients, NEW q \in Refs, HoldsQ(c, q) \/ ReadsQ(c, q)
  PROVE  Extra(q) = IF Putting(c, q) THEN 1 ELSE 0
<1>1. ASSUME NEW d \in Clients, Putting(d, q) PROVE d = c
  <2>1. HoldsQ(d, q) /\ pc[d] = "inQ2"
    BY <1>1 DEF Putting, HoldsQ, At
  <2>2. ~ReadsQ(c, q)
    BY <2>1 DEF IInv, LockInv, QLockInv, Alone
  <2> QED BY <2>1, <2>2 DEF IInv, LockInv, QLockInv
<1> QED BY <1>1 DEF Extra

(* What becomes of the request of a call, and of an answer not yet given. *)
LEMMA ReqStays ==
  ASSUME NEW c \in Clients, call'[c].op = call[c].op,
         call[c].op # "stats" => call'[c].name = call[c].name,
         call[c].op = "create" => call'[c].q = call[c].q,
         call[c].op = "enqueue" => call'[c].m = call[c].m
  PROVE  ReqOf(c)' = ReqOf(c)
BY DEF ReqOf

LEMMA AnsStays ==
  ASSUME NEW c \in Clients, call[c].code = 0, call'[c].code = 0, call'[c].rows = call[c].rows
  PROVE  AnsOf(c)' = AnsOf(c)
BY DEF AnsOf

LEMMA GiveIs ==
  ASSUME IInv, NEW c \in Clients, Steps(c), PhaseOf(c)' = "answered", NEW a, AnsOf(c)' = a
  PROVE  Service!Give(c, a)
BY OwnCall DEF Service!Give

LEMMA CodeIs ==
  ASSUME NEW k, NEW m
  PROVE  /\ Service!Code(k) = [code |-> k, m |-> NoMessage, rows |-> {}]
         /\ [Service!Code(k) EXCEPT !.m = m] = [code |-> k, m |-> m, rows |-> {}]
<1>1. Service!Code(k) = [code |-> k, m |-> NoMessage, rows |-> {}]
  BY DEF Service!Code, Service!NoAns, Service!NoMessage, NoMessage
<1>2. [Service!Code(k) EXCEPT !.m = m] = [code |-> k, m |-> m, rows |-> {}]
  BY <1>1
<1> QED BY <1>1, <1>2

LEMMA NoReqIs == Service!NoReq = [op |-> "none", name |-> Nil, q |-> NoQueue, m |-> NoMessage]
BY DEF Service!NoReq, Service!NoQueue, NoQueue, Service!NoMessage, NoMessage

(* A step that does not show. *)
LEMMA Hidden ==
  ASSUME IInv, NEW c \in Clients, Steps(c),
         PhaseOf(c)' = PhaseOf(c), ReqOf(c)' = ReqOf(c), AnsOf(c)' = AnsOf(c),
         AbsStore' = AbsStore, UNCHANGED <<queues, seen, minted, allocated>>
  PROVE  UNCHANGED Service!vars
<1>1. AbsPhase' = AbsPhase /\ AbsReq' = AbsReq /\ AbsAns' = AbsAns
  BY OwnCall, ShownCalls DEF CallsShow
<1> QED BY <1>1 DEF Service!vars

(* Taking a lock, looking a name up and looking at the head of a queue do   *)
(* not show.                                                                *)
LEMMA AcquireHidden ==
  ASSUME FullInv, IInv', NEW c \in Clients, Acquire(c)
  PROVE  UNCHANGED Service!vars
<1>0. /\ IInv /\ TypeOK /\ WellPlaced(c) /\ Asked(c) /\ Steps(c)
      /\ call \in [Clients -> Calls] /\ pc \in [Clients -> Labels]
  BY DEF FullInv, IInv, CallInv, AskInv, TypeOK, Steps
<1>1. CASE LockB(c) \/ RLockB(c) \/ LockQ(c)
  <2>1. /\ call' = call /\ heap' = heap /\ pc[c] \in {"lockB", "rlockB", "lockQ"}
        /\ pc'[c] \in {"inB", "scan", "lookup", "inQ"}
        /\ UNCHANGED <<queues, seen, minted, allocated>>
    BY <1>0, <1>1 DEF LockB, RLockB, LockQ, Goto
  <2>2. PhaseOf(c)' = PhaseOf(c) /\ ReqOf(c)' = ReqOf(c) /\ AnsOf(c)' = AnsOf(c)
    BY <2>1 DEF PhaseOf, ReqOf, AnsOf, At
  <2>3. AbsStore' = AbsStore
    BY <1>0, <2>1, StoreStays DEF At
  <2> QED BY <1>0, <2>1, <2>2, <2>3, Hidden
<1>2. ASSUME NEW n \in Names, RLockQ(c, n) PROVE UNCHANGED Service!vars
  <2>1. /\ heap' = heap /\ pc[c] = "scan" /\ pc'[c] = "row"
        /\ call[c].op = "stats" /\ call[c].code = 0
        /\ UNCHANGED <<queues, seen, minted, allocated>>
    BY <1>0, <1>2 DEF RLockQ, Goto, WellPlaced, Asked, Undecided
  <2>2. call'[c].op = "stats" /\ call'[c].code = 0 /\ call'[c].rows = call[c].rows
    BY <1>0, <1>2, <2>1, SetRowIs
  <2>3. PhaseOf(c)' = PhaseOf(c) /\ ReqOf(c)' = ReqOf(c) /\ AnsOf(c)' = AnsOf(c)
    BY <2>1, <2>2, ReqStays, AnsStays DEF PhaseOf, At
  <2>4. AbsStore' = AbsStore
    BY <1>0, <2>1, StoreStays DEF At
  <2> QED BY <1>0, <2>1, <2>3, <2>4, Hidden
<1> QED BY <1>1, <1>2 DEF Acquire

LEMMA LookupHidden ==
  ASSUME FullInv, IInv', NEW c \in Clients, DrainLookup(c) \/ Lookup(c) \/ GetHead(c)
  PROVE  UNCHANGED Service!vars
<1>0. /\ IInv /\ TypeOK /\ WellPlaced(c) /\ Asked(c) /\ Steps(c)
      /\ call \in [Clients -> Calls] /\ pc \in [Clients -> Labels]
  BY DEF FullInv, IInv, CallInv, AskInv, TypeOK, Steps, Proceed
<1>1. /\ heap' = heap /\ UNCHANGED <<queues, seen, minted, allocated>>
      /\ \/ pc[c] \in {"inB", "lookup"} /\ pc'[c] = "lockQ"
         \/ pc[c] = "inQ" /\ pc'[c] = "inQ2" /\ call[c].op = "dequeue"
      /\ call[c].code = 0
  BY <1>0 DEF DrainLookup, Lookup, GetHead, InQ, At, Goto, Asked, Undecided
<1>2. /\ call'[c].op = call[c].op /\ call'[c].name = call[c].name
      /\ call'[c].code = 0 /\ call'[c].rows = call[c].rows
      /\ call[c].op = "create" => call'[c].q = call[c].q
      /\ call[c].op = "enqueue" => call'[c].m = call[c].m
  <2>1. CASE DrainLookup(c) \/ Lookup(c)
    BY <1>0, <1>1, <2>1, SetQueueIs DEF DrainLookup, Lookup, At, WellPlaced
  <2>2. CASE GetHead(c)
    BY <1>0, <1>1, <2>2, SetMessageIs DEF GetHead, InQ, At
  <2> QED BY <2>1, <2>2
<1>3. PhaseOf(c)' = PhaseOf(c) /\ ReqOf(c)' = ReqOf(c) /\ AnsOf(c)' = AnsOf(c)
  BY <1>1, <1>2, ReqStays, AnsStays DEF PhaseOf, At
<1>4. AbsStore' = AbsStore
  BY <1>0, <1>1, <1>2, StoreStays DEF At
<1> QED BY <1>0, <1>1, <1>3, <1>4, Hidden

(* Nor do the second halves of PutMessage and DrainQueue: they count what   *)
(* was counted already for QueueService.                                    *)
LEMMA CountHidden ==
  ASSUME FullInv, IInv', NEW c \in Clients, PutCount(c) \/ DrainCount(c)
  PROVE  UNCHANGED Service!vars
<1>0. /\ IInv /\ TypeOK /\ WellPlaced(c) /\ Asked(c) /\ Steps(c)
      /\ call \in [Clients -> Calls] /\ pc \in [Clients -> Labels]
  BY DEF FullInv, IInv, CallInv, AskInv, TypeOK, Steps, Proceed
<1>1. /\ call' = call /\ pc[c] = "inQ2" /\ pc'[c] = "done"
      /\ At(c, "inQ2", {"enqueue", "drain"})
      /\ UNCHANGED <<queues, seen, minted, allocated>>
  BY <1>0 DEF PutCount, DrainCount, UnlockQ, At, Goto
<1>2. PhaseOf(c)' = PhaseOf(c) /\ ReqOf(c)' = ReqOf(c) /\ AnsOf(c)' = AnsOf(c)
  BY <1>1 DEF PhaseOf, ReqOf, AnsOf
<1>3. PICK q \in Refs : q = call[c].q
  BY <1>0, <1>1 DEF WellPlaced
<1>4. \A r \in Refs \ {q} : heap'[r] = heap[r]
  BY <1>0, <1>3 DEF PutCount, DrainCount, TypeOK, Queue
<1>5. StoreOf(q)' = StoreOf(q)
  <2>1. HoldsQ(c, q) /\ Extra(q) = IF Putting(c, q) THEN 1 ELSE 0
    BY <1>0, <1>1, <1>3, ExtraIs DEF HoldsQ
  <2>2. heap[q] \in Objects /\ heap[q].Enqueued \in Int
    BY <1>0, FieldTypes DEF TypeOK
  <2>3. Extra(q)' = 0
    <3>1. ASSUME NEW d \in Clients, Putting(d, q)' PROVE FALSE
      <4>1. d # c
        BY <1>1, <3>1 DEF Putting, At
      <4>2. Putting(d, q)
        BY <1>0, <3>1, <4>1, OthersStay DEF Putting, At, Steps
      <4>3. HoldsQ(d, q)
        BY <4>2 DEF Putting, HoldsQ, At
      <4> QED BY <1>0, <2>1, <4>1, <4>3 DEF IInv, LockInv, QLockInv
    <3> QED BY <3>1 DEF Extra
  <2>4. CASE PutCount(c)
    <3>1. heap'[q] = Counted(heap[q]) /\ Putting(c, q)
      BY <1>0, <1>3, <2>4 DEF PutCount, TypeOK, Queue, Putting, At
    <3> QED BY <2>1, <2>2, <2>3, <3>1, CountedIs DEF StoreOf
  <2>5. CASE DrainCount(c)
    <3>1. heap'[q] = Zeroed(heap[q]) /\ ~Putting(c, q)
      BY <1>0, <1>3, <2>5 DEF DrainCount, TypeOK, Queue, Putting, At
    <3> QED BY <2>1, <2>2, <2>3, <3>1, ZeroedIs DEF StoreOf
  <2> QED BY <2>4, <2>5
<1>6. AbsStore' = AbsStore
  <2>1. AbsStore' = [AbsStore EXCEPT ![q] = StoreOf(q)']
    BY <1>0, <1>1, <1>3, <1>4, StoreChanges
  <2> QED BY <1>0, <1>5, <2>1, ShownStore DEF StoreShows
<1> QED BY <1>0, <1>1, <1>2, <1>6, Hidden

(* The steps that show.  Each is one of QueueService. *)
LEMMA RequestShows ==
  ASSUME FullInv, IInv', NEW c \in Clients, NEW op \in Ops, NEW n \in Names, Request(c, op, n)
  PROVE  Service!Ask(c, op, n)
<1>0. /\ IInv /\ TypeOK /\ TypeOK' /\ Asked(c) /\ Steps(c)
      /\ call \in [Clients -> Calls] /\ pc \in [Clients -> Labels]
  BY DEF FullInv, IInv, AskInv, TypeOK, Steps, Arrive
<1>1. /\ pc[c] = "idle" /\ call[c] = NoCall /\ heap' = heap /\ queues' = queues
      /\ pc'[c] \in {"lockB", "rlockB"}
      /\ minted' = IF op = "enqueue" THEN minted + 1 ELSE minted
      /\ allocated' = IF op = "create" THEN allocated + 1 ELSE allocated
      /\ allocated' \in 0..MaxQueues /\ minted' \in 0..MaxMessages
      /\ seen' = [seen EXCEPT ![c] = IF op = "stats" THEN {} ELSE {queues[n]}]
  BY <1>0 DEF Request, Goto, Asked, TypeOK
<1>2. /\ call'[c].op = op /\ call'[c].name = (IF op = "stats" THEN Nil ELSE n)
      /\ call'[c].q = (IF op = "create" THEN allocated' ELSE NoQueue)
      /\ call'[c].m = (IF op = "enqueue" THEN minted' ELSE NoMessage)
      /\ call'[c].code = 0 /\ call'[c].rows = {}
  BY <1>0 DEF Request
<1>3. PhaseOf(c) = "idle" /\ PhaseOf(c)' = "pending"
  BY <1>1 DEF PhaseOf, At
<1>4. ReqOf(c)' = [op |-> op, name |-> IF op = "stats" THEN Nil ELSE n,
                   q |-> IF op = "create" THEN allocated' ELSE NoQueue,
                   m |-> IF op = "enqueue" THEN minted' ELSE NoMessage]
  BY <1>2 DEF ReqOf
<1>5. AnsOf(c)' = AnsOf(c)
  <2>1. call[c].code = 0 /\ call[c].rows = {}
    BY <1>1 DEF NoCall
  <2> QED BY <1>2, <2>1, AnsStays
<1>6. AbsStore' = AbsStore
  BY <1>0, <1>1, StoreStays DEF At
<1>7. /\ AbsPhase[c] = "idle" /\ AbsPhase' = [AbsPhase EXCEPT ![c] = "pending"]
      /\ AbsReq' = [AbsReq EXCEPT ![c] = ReqOf(c)'] /\ AbsAns' = AbsAns
  BY <1>0, <1>3, <1>5, OwnCall, ShownCalls DEF CallsShow
<1>8. allocated' <= MaxQueues /\ minted' <= MaxMessages
  BY <1>1, BrokerAssumption
<1> QED BY <1>1, <1>4, <1>6, <1>7, <1>8
     DEF Service!Ask, Service!NoQueue, NoQueue, Service!NoMessage, NoMessage

LEMMA RefuseShows ==
  ASSUME FullInv, IInv', NEW c \in Clients, NEW op \in Ops \cap NamedOps, NEW k \in {400, 500},
         Refuse(c, op, k)
  PROVE  Service!Malformed(c)
<1>0. /\ IInv /\ TypeOK /\ Asked(c) /\ Steps(c)
      /\ call \in [Clients -> Calls] /\ pc \in [Clients -> Labels]
  BY DEF FullInv, IInv, AskInv, TypeOK, Steps, Arrive
<1>1. /\ pc[c] = "idle" /\ call[c] = NoCall /\ pc'[c] = "done" /\ heap' = heap
      /\ UNCHANGED <<queues, seen, minted, allocated>>
  BY <1>0 DEF Refuse, Goto, Asked
<1>2. /\ call'[c].op = "refused" /\ call'[c].name = Nil /\ call'[c].q = NoQueue
      /\ call'[c].m = NoMessage /\ call'[c].code = k /\ call'[c].rows = {}
  BY <1>0 DEF Refuse, NoCall
<1>3. PhaseOf(c) = "idle" /\ PhaseOf(c)' = "answered"
  BY <1>1 DEF PhaseOf
<1>4. ReqOf(c)' = [op |-> "refused", name |-> Nil, q |-> NoQueue, m |-> NoMessage]
  BY <1>2 DEF ReqOf
<1>5. ReqOf(c) = [op |-> "none", name |-> Nil, q |-> NoQueue, m |-> NoMessage]
  BY <1>1 DEF ReqOf, NoCall
<1>6. AnsOf(c)' = Service!Code(k)
  <2>1. AnsOf(c)' = [code |-> k, m |-> NoMessage, rows |-> {}]
    BY <1>2 DEF AnsOf
  <2> QED BY <2>1, CodeIs
<1>7. AbsStore' = AbsStore
  BY <1>0, <1>1, StoreStays DEF At
<1>8. /\ AbsPhase[c] = "idle" /\ AbsReq[c] = ReqOf(c)
      /\ AbsReq' = [AbsReq EXCEPT ![c] = ReqOf(c)'] /\ Service!Give(c, Service!Code(k))
  BY <1>0, <1>3, <1>6, OwnCall, GiveIs, ShownCalls DEF CallsShow
<1>9. AbsReq' = [AbsReq EXCEPT ![c].op = "refused"]
  <2> DEFINE a == ReqOf(c)
             b == ReqOf(c)'
  <2>1. [a EXCEPT !.op = "refused"] = b
    BY <1>4, <1>5
  <2>2. AbsReq' = [AbsReq EXCEPT ![c] = b] /\ AbsReq[c] = a
    BY <1>8
  <2> HIDE DEF a, b
  <2> QED BY <2>1, <2>2
<1>10. \E j \in {400, 500} : Service!Give(c, Service!Code(j))
  <2> DEFINE P(j) == Service!Give(c, Service!Code(j))
  <2>1. P(k)
    BY <1>8
  <2> HIDE DEF P
  <2>2. \E j \in {400, 500} : P(j)
    BY <2>1
  <2> QED BY <2>2 DEF P
<1>11. AbsPhase[c] = "idle" /\ UNCHANGED <<queues, AbsStore, seen, minted, allocated>>
  BY <1>1, <1>7, <1>8
<1> QED BY <1>9, <1>10, <1>11 DEF Service!Malformed

(* A call that is refused: its name stood for the wrong thing. *)
LEMMA RejectShows ==
  ASSUME FullInv, IInv', NEW c \in Clients, RejectB(c) \/ LookupFails(c)
  PROVE  Service!Fail(c)
<1>0. /\ IInv /\ TypeOK /\ WellPlaced(c) /\ Asked(c) /\ Sees(c) /\ Steps(c)
      /\ call \in [Clients -> Calls] /\ pc \in [Clients -> Labels]
  BY DEF FullInv, IInv, CallInv, AskInv, SeenInv, TypeOK, Steps, Proceed
<1>1. /\ pc[c] \in {"inB", "lookup"} /\ pc'[c] = "done" /\ heap' = heap
      /\ UNCHANGED <<queues, seen, minted, allocated>> /\ Answer(c, 400)
  BY <1>0 DEF RejectB, LookupFails, At, Goto
<1>2. /\ call'[c].op = call[c].op /\ call'[c].name = call[c].name /\ call'[c].q = call[c].q
      /\ call'[c].m = call[c].m /\ call'[c].rows = call[c].rows /\ call'[c].code = 400
  BY <1>0, <1>1, AnswerIs
<1>3. call[c].op \in NamedOps /\ call[c].op # "stats" /\ call[c].rows = {}
  BY <1>0 DEF RejectB, LookupFails, At, WellPlaced, NamedOps, Asked
<1>4. PhaseOf(c) = "pending" /\ PhaseOf(c)' = "answered" /\ ReqOf(c)' = ReqOf(c)
  BY <1>1, <1>2, ReqStays DEF PhaseOf, At
<1>5. AnsOf(c)' = Service!Code(400)
  <2>1. AnsOf(c)' = [code |-> 400, m |-> NoMessage, rows |-> {}]
    BY <1>2, <1>3 DEF AnsOf
  <2> QED BY <2>1, CodeIs
<1>6. AbsStore' = AbsStore
  BY <1>0, <1>1, StoreStays DEF At
<1>7. /\ AbsPhase[c] = "pending" /\ AbsReq[c].op = call[c].op /\ AbsReq' = AbsReq
      /\ Service!Give(c, Service!Code(400))
  BY <1>0, <1>4, <1>5, OwnCall, GiveIs, ShownCalls DEF CallsShow, ReqOf
<1>8. \/ call[c].op = "create" /\ seen[c] # {NoQueue}
      \/ call[c].op \in NamedOps \ {"create"} /\ NoQueue \in seen[c]
      \/ call[c].op = "enqueue"
  <2>1. queues[call[c].name] \in seen[c]
    BY <1>0, <1>3 DEF Sees
  <2>2. CASE RejectB(c)
    BY <1>3, <2>1, <2>2 DEF RejectB, Name
  <2>3. CASE LookupFails(c)
    BY <1>0, <1>3, <2>1, <2>3 DEF LookupFails, Name, WellPlaced
  <2> QED BY <2>2, <2>3
<1> QED BY <1>1, <1>6, <1>7, <1>8
     DEF Service!Fail, Service!NoQueue, NoQueue, Service!NamedOps, NamedOps

(* Binding a name shows: both keep track of what the calls have seen. *)
LEMMA RebindIs == ASSUME NEW n, NEW q, Bind(n, q) PROVE Service!Rebind(n, q)
<1> DEFINE F(d) == IF call[d].op \in NamedOps /\ call[d].name = n THEN seen[d] \cup {q}
                                                                  ELSE seen[d]
           G(d) == IF AbsReq[d].op \in NamedOps /\ AbsReq[d].name = n THEN seen[d] \cup {q}
                                                                      ELSE seen[d]
<1>1. ASSUME NEW d \in Clients PROVE F(d) = G(d)
  <2>1. AbsReq[d] = ReqOf(d)
    BY ShownCalls DEF CallsShow
  <2>2. /\ AbsReq[d].op = call[d].op
        /\ call[d].op \in NamedOps => AbsReq[d].name = call[d].name
    BY <2>1 DEF ReqOf, NamedOps
  <2> QED BY <2>2
<1>2. queues' = [queues EXCEPT ![n] = q] /\ seen' = [d \in Clients |-> F(d)]
  BY DEF Bind, Name
<1>3. seen' = [d \in Clients |-> G(d)]
  <2> HIDE DEF F, G
  <2> QED BY <1>1, <1>2
<1> QED BY <1>2, <1>3 DEF Service!Rebind, Service!NamedOps, NamedOps

LEMMA BindShows ==
  ASSUME FullInv, IInv', NEW c \in Clients, CreateQueue(c) \/ DeleteQueue(c)
  PROVE  Service!Create(c) \/ Service!Delete(c)
<1>0. /\ IInv /\ TypeOK /\ WellPlaced(c) /\ Asked(c) /\ Steps(c)
      /\ call \in [Clients -> Calls] /\ pc \in [Clients -> Labels]
  BY DEF FullInv, IInv, CallInv, AskInv, TypeOK, Steps, Proceed
<1>1. /\ pc[c] = "inB" /\ pc'[c] = "done" /\ heap' = heap
      /\ UNCHANGED <<minted, allocated>> /\ Answer(c, 200)
      /\ call[c].op \in {"create", "delete"}
  BY <1>0 DEF CreateQueue, DeleteQueue, At, Goto
<1>2. /\ call'[c].op = call[c].op /\ call'[c].name = call[c].name /\ call'[c].q = call[c].q
      /\ call'[c].m = call[c].m /\ call'[c].rows = call[c].rows /\ call'[c].code = 200
  BY <1>0, <1>1, AnswerIs
<1>3. PhaseOf(c) = "pending" /\ PhaseOf(c)' = "answered" /\ ReqOf(c)' = ReqOf(c)
  BY <1>1, <1>2, ReqStays DEF PhaseOf, At
<1>4. AnsOf(c)' = Service!Code(200)
  <2>1. AnsOf(c)' = [code |-> 200, m |-> NoMessage, rows |-> {}]
    BY <1>0, <1>1, <1>2 DEF AnsOf, Asked
  <2> QED BY <2>1, CodeIs
<1>5. AbsStore' = AbsStore
  BY <1>0, <1>1, StoreStays DEF At
<1>6. /\ AbsPhase[c] = "pending" /\ AbsReq[c] = ReqOf(c) /\ AbsReq' = AbsReq
      /\ Service!Give(c, Service!Code(200))
  BY <1>0, <1>3, <1>4, OwnCall, GiveIs, ShownCalls DEF CallsShow
<1>7. /\ AbsReq[c].op = call[c].op /\ AbsReq[c].name = call[c].name
      /\ call[c].op = "create" => AbsReq[c].q = call[c].q
  BY <1>1, <1>6 DEF ReqOf
<1>8. CASE CreateQueue(c)
  <2>1. queues[call[c].name] = NoQueue /\ Bind(call[c].name, call[c].q) /\ call[c].op = "create"
    BY <1>8 DEF CreateQueue, Name, Queue, At
  <2>2. Service!Rebind(AbsReq[c].name, AbsReq[c].q)
    BY <1>7, <2>1, RebindIs
  <2> QED BY <1>1, <1>5, <1>6, <1>7, <2>1, <2>2
       DEF Service!Create, Service!Pending, Service!NoQueue, NoQueue
<1>9. CASE DeleteQueue(c)
  <2>1. queues[call[c].name] # NoQueue /\ Bind(call[c].name, NoQueue) /\ call[c].op = "delete"
    BY <1>9 DEF DeleteQueue, Name, Queue, At
  <2>2. Service!Rebind(AbsReq[c].name, NoQueue)
    BY <1>7, <2>1, RebindIs
  <2> QED BY <1>1, <1>5, <1>6, <1>7, <2>1, <2>2
       DEF Service!Delete, Service!Pending, Service!NoQueue, NoQueue
<1> QED BY <1>8, <1>9

(* The store with two fields of one queue changed. *)
LEMMA EnqueuedStore ==
  ASSUME NEW q \in Refs, NEW m, NEW t,
         t = [msgs |-> Append(StoreOf(q).msgs, m), enqueued |-> StoreOf(q).enqueued + 1,
              dequeued |-> StoreOf(q).dequeued, drained |-> StoreOf(q).drained],
         AbsStore[q] = StoreOf(q)
  PROVE  [AbsStore EXCEPT ![q] = t]
           = [AbsStore EXCEPT ![q].msgs = Append(@, m), ![q].enqueued = @ + 1]
<1> DEFINE f == AbsStore
           s == AbsStore[q]
<1>1. DOMAIN f = Refs
  BY DEF AbsStore
<1>2. s = StoreOf(q) 
  OBVIOUS
<1> QED BY <1>1, <1>2 DEF StoreOf

(* A put shows when the message is appended; it is counted with it. *)
LEMMA PutShows ==
  ASSUME FullInv, IInv', NEW c \in Clients, PutAppend(c)
  PROVE  Service!Enqueue(c)
<1>0. /\ IInv /\ TypeOK /\ WellPlaced(c) /\ Asked(c) /\ Sees(c) /\ Steps(c)
      /\ call \in [Clients -> Calls] /\ pc \in [Clients -> Labels]
  BY DEF FullInv, IInv, CallInv, AskInv, SeenInv, TypeOK, Steps, Proceed
<1>1. /\ pc[c] = "inQ" /\ call[c].op = "enqueue" /\ pc'[c] = "inQ2"
      /\ UNCHANGED <<queues, seen, minted, allocated>> /\ Answer(c, 200)
  BY <1>0 DEF PutAppend, InQ, At, Goto
<1>2. PICK q \in Refs : q = call[c].q
  BY <1>0, <1>1 DEF WellPlaced
<1>3. PICK m \in Msgs : m = call[c].m
  BY <1>0, <1>1 DEF WellPlaced
<1>4. /\ heap'[q] = Appended(heap[q], m) /\ heap[q] \in Objects
      /\ \A r \in Refs \ {q} : heap'[r] = heap[r]
  BY <1>0, <1>2, <1>3 DEF PutAppend, TypeOK, Queue
<1>5. /\ call'[c].op = call[c].op /\ call'[c].name = call[c].name /\ call'[c].q = call[c].q
      /\ call'[c].m = call[c].m /\ call'[c].rows = call[c].rows /\ call'[c].code = 200
  BY <1>0, <1>1, AnswerIs
<1>6. PhaseOf(c) = "pending" /\ PhaseOf(c)' = "answered" /\ ReqOf(c)' = ReqOf(c)
  BY <1>1, <1>5, ReqStays DEF PhaseOf, At
<1>7. AnsOf(c)' = [Service!Code(200) EXCEPT !.m = m]
  <2>1. AnsOf(c)' = [code |-> 200, m |-> m, rows |-> {}]
    BY <1>0, <1>1, <1>3, <1>5 DEF AnsOf, Asked
  <2> QED BY <2>1, CodeIs
<1>8. /\ AbsPhase[c] = "pending" /\ AbsReq[c].op = "enqueue" /\ AbsReq[c].m = m
      /\ AbsReq' = AbsReq /\ Service!Give(c, [Service!Code(200) EXCEPT !.m = m])
  <2>1. ReqOf(c).op = "enqueue" /\ ReqOf(c).m = m
    BY <1>1, <1>3 DEF ReqOf
  <2> QED BY <1>0, <1>6, <1>7, <2>1, OwnCall, GiveIs, ShownCalls DEF CallsShow
<1>9. AbsStore' = [AbsStore EXCEPT ![q].msgs = Append(@, m), ![q].enqueued = @ + 1]
  <2>1. HoldsQ(c, q) /\ ~Putting(c, q)
    BY <1>1, <1>2 DEF HoldsQ, Putting, At
  <2>2. HoldsQ(c, q)' /\ Putting(c, q)'
    BY <1>1, <1>2, <1>5 DEF HoldsQ, Putting, At
  <2>3. Extra(q) = 0 /\ Extra(q)' = 1
    BY <1>0, <2>1, <2>2, ExtraIs DEF Extra
  <2>4. /\ heap'[q].Messages = Append(heap[q].Messages, m)
        /\ heap'[q].Enqueued = heap[q].Enqueued /\ heap[q].Enqueued \in Int
        /\ heap'[q].Dequeued = heap[q].Dequeued /\ heap'[q].Drained = heap[q].Drained
    <3> DEFINE s == heap[q]
    <3>1. s \in Objects /\ heap'[q] = Appended(s, m)
      BY <1>4
    <3> HIDE DEF s
    <3>2. /\ Appended(s, m).Messages = Append(s.Messages, m)
          /\ Appended(s, m).Enqueued = s.Enqueued /\ s.Enqueued \in Int
          /\ Appended(s, m).Dequeued = s.Dequeued /\ Appended(s, m).Drained = s.Drained
      BY <3>1, AppendedIs, FieldTypes
    <3> QED BY <3>1, <3>2 DEF s
  <2>5. StoreOf(q)' = [msgs |-> Append(StoreOf(q).msgs, m), enqueued |-> StoreOf(q).enqueued + 1,
                       dequeued |-> StoreOf(q).dequeued, drained |-> StoreOf(q).drained]
    <3>1. heap'[q].Enqueued + Extra(q)' = heap[q].Enqueued + Extra(q) + 1
      BY <2>3, <2>4
    <3> DEFINE ms == Append(heap[q].Messages, m)
    <3>2. heap'[q].Messages = ms
      BY <2>4
    <3> HIDE DEF ms
    <3>3. StoreOf(q)' = [msgs |-> ms, enqueued |-> heap[q].Enqueued + Extra(q) + 1,
                         dequeued |-> heap[q].Dequeued, drained |-> heap[q].Drained]
      BY <2>4, <3>1, <3>2 DEF StoreOf
    <3> QED BY <3>3 DEF StoreOf, ms
  <2>6. AbsStore' = [AbsStore EXCEPT ![q] = StoreOf(q)'] /\ AbsStore[q] = StoreOf(q)
    BY <1>0, <1>2, <1>4, <1>5, StoreChanges, ShownStore DEF StoreShows
  <2> QED BY <2>5, <2>6, EnqueuedStore
<1>10. q \in seen[c] \ {NoQueue}
  BY <1>0, <1>1, <1>2 DEF Sees, Holding, Refs, NoQueue
<1> QED BY <1>1, <1>8, <1>9, <1>10
     DEF Service!Enqueue, Service!Pending, Service!NoQueue, NoQueue

LEMMA DequeuedStore ==
  ASSUME NEW q \in Refs, NEW t,
         t = [msgs |-> Tail(StoreOf(q).msgs), enqueued |-> StoreOf(q).enqueued,
              dequeued |-> StoreOf(q).dequeued + 1, drained |-> StoreOf(q).drained],
         AbsStore[q] = StoreOf(q)
  PROVE  [AbsStore EXCEPT ![q] = t]
           = [AbsStore EXCEPT ![q].msgs = Tail(@), ![q].dequeued = @ + 1]
<1>1. DOMAIN AbsStore = Refs
  BY DEF AbsStore
<1> QED BY <1>1 DEF StoreOf

(* A get shows when it drops the head, not when it looks at it. *)
LEMMA GetShows ==
  ASSUME FullInv, IInv', NEW c \in Clients, GetDrop(c)
  PROVE  Service!Dequeue(c)
<1>0. /\ IInv /\ TypeOK /\ WellPlaced(c) /\ Asked(c) /\ Sees(c) /\ Steps(c)
      /\ call \in [Clients -> Calls] /\ pc \in [Clients -> Labels]
  BY DEF FullInv, IInv, CallInv, AskInv, SeenInv, TypeOK, Steps, Proceed
<1>1. /\ pc[c] = "inQ2" /\ call[c].op = "dequeue" /\ pc'[c] = "done" /\ At(c, "inQ2", {"dequeue"})
      /\ UNCHANGED <<queues, seen, minted, allocated>> /\ Answer(c, 200)
  BY <1>0 DEF GetDrop, UnlockQ, At, Goto
<1>2. PICK q \in Refs : q = call[c].q
  BY <1>0, <1>1 DEF WellPlaced
<1>3. /\ heap'[q] = Dropped(heap[q]) /\ heap[q] \in Objects
      /\ \A r \in Refs \ {q} : heap'[r] = heap[r]
  BY <1>0, <1>2 DEF GetDrop, TypeOK, Queue
<1>4. heap[q].Messages # <<>> /\ call[c].m = Head(heap[q].Messages)
  BY <1>0, <1>1, <1>2, HeadIs DEF Queue
<1>5. /\ call'[c].op = call[c].op /\ call'[c].name = call[c].name /\ call'[c].q = call[c].q
      /\ call'[c].m = call[c].m /\ call'[c].rows = call[c].rows /\ call'[c].code = 200
  BY <1>0, <1>1, AnswerIs
<1>6. PhaseOf(c) = "pending" /\ PhaseOf(c)' = "answered" /\ ReqOf(c)' = ReqOf(c)
  BY <1>1, <1>5, ReqStays DEF PhaseOf, At
<1>7. AnsOf(c)' = [Service!Code(200) EXCEPT !.m = Head(StoreOf(q).msgs)]
  <2> DEFINE m == Head(heap[q].Messages)
  <2>1. call'[c].m = m /\ Head(StoreOf(q).msgs) = m
    BY <1>4, <1>5 DEF StoreOf
  <2> HIDE DEF m
  <2>2. AnsOf(c)' = [code |-> 200, m |-> m, rows |-> {}]
    BY <1>0, <1>1, <1>5, <2>1 DEF AnsOf, Asked
  <2>3. [Service!Code(200) EXCEPT !.m = m] = [code |-> 200, m |-> m, rows |-> {}]
    BY CodeIs
  <2> QED BY <2>1, <2>2, <2>3
<1>8. /\ AbsPhase[c] = "pending" /\ AbsReq[c].op = "dequeue" /\ AbsReq' = AbsReq
      /\ Service!Give(c, [Service!Code(200) EXCEPT !.m = Head(StoreOf(q).msgs)])
  <2>1. ReqOf(c).op = "dequeue"
    BY <1>1 DEF ReqOf
  <2> QED BY <1>0, <1>6, <1>7, <2>1, OwnCall, GiveIs, ShownCalls DEF CallsShow
<1>9. /\ AbsStore' = [AbsStore EXCEPT ![q].msgs = Tail(@), ![q].dequeued = @ + 1]
      /\ AbsStore[q] = StoreOf(q)
  <2>1. Extra(q)' = Extra(q)
    BY <1>0, <1>1, ExtraStays DEF Putting, At
  <2>2. /\ heap'[q].Messages = Tail(heap[q].Messages)
        /\ heap'[q].Enqueued = heap[q].Enqueued
        /\ heap'[q].Dequeued = heap[q].Dequeued + 1 /\ heap'[q].Drained = heap[q].Drained
    <3> DEFINE s == heap[q]
    <3>1. s \in Objects /\ heap'[q] = Dropped(s) /\ s.Messages # <<>>
      BY <1>3, <1>4
    <3> HIDE DEF s
    <3>2. /\ Dropped(s).Messages = Tail(s.Messages) /\ Dropped(s).Enqueued = s.Enqueued
          /\ Dropped(s).Dequeued = s.Dequeued + 1 /\ Dropped(s).Drained = s.Drained
      BY <3>1, DroppedIs
    <3> QED BY <3>1, <3>2 DEF s
  <2>3. StoreOf(q)' = [msgs |-> Tail(StoreOf(q).msgs), enqueued |-> StoreOf(q).enqueued,
                       dequeued |-> StoreOf(q).dequeued + 1, drained |-> StoreOf(q).drained]
    <3> DEFINE ms == Tail(heap[q].Messages)
    <3>1. heap'[q].Messages = ms
      BY <2>2
    <3> HIDE DEF ms
    <3>2. StoreOf(q)' = [msgs |-> ms, enqueued |-> heap[q].Enqueued + Extra(q),
                         dequeued |-> heap[q].Dequeued + 1, drained |-> heap[q].Drained]
      BY <2>1, <2>2, <3>1 DEF StoreOf
    <3> QED BY <3>2 DEF StoreOf, ms
  <2>4. AbsStore' = [AbsStore EXCEPT ![q] = StoreOf(q)'] /\ AbsStore[q] = StoreOf(q)
    BY <1>0, <1>2, <1>3, <1>5, StoreChanges, ShownStore DEF StoreShows
  <2> QED BY <2>3, <2>4, DequeuedStore
<1>10. q \in seen[c] \ {NoQueue}
  BY <1>0, <1>1, <1>2 DEF Sees, Holding, Refs, NoQueue
<1>11. /\ AbsStore[q].msgs # <<>>
       /\ Service!Give(c, [Service!Code(200) EXCEPT !.m = Head(AbsStore[q].msgs)])
  BY <1>4, <1>8, <1>9 DEF StoreOf
<1> QED BY <1>1, <1>8, <1>9, <1>10, <1>11
     DEF Service!Dequeue, Service!Pending, Service!NoQueue, NoQueue

LEMMA EmptyShows ==
  ASSUME FullInv, IInv', NEW c \in Clients, GetEmpty(c)
  PROVE  Service!Dequeue(c)
<1>0. /\ IInv /\ TypeOK /\ WellPlaced(c) /\ Asked(c) /\ Sees(c) /\ Steps(c)
      /\ call \in [Clients -> Calls] /\ pc \in [Clients -> Labels]
  BY DEF FullInv, IInv, CallInv, AskInv, SeenInv, TypeOK, Steps, Proceed
<1>1. /\ pc[c] = "inQ" /\ call[c].op = "dequeue" /\ pc'[c] = "done" /\ heap' = heap
      /\ UNCHANGED <<queues, seen, minted, allocated>> /\ Answer(c, 204)
  BY <1>0 DEF GetEmpty, InQ, UnlockQ, At, Goto
<1>2. PICK q \in Refs : q = call[c].q
  BY <1>0, <1>1 DEF WellPlaced
<1>3. heap[q].Messages = <<>>
  <2>1. Len(heap[q].Messages) < 1
    BY <1>2 DEF GetEmpty, Queue
  <2>2. heap[q].Messages \in Seq(Msgs)
    BY <1>0, FieldTypes DEF TypeOK
  <2> QED BY <2>1, <2>2
<1>4. /\ call'[c].op = call[c].op /\ call'[c].name = call[c].name /\ call'[c].q = call[c].q
      /\ call'[c].m = call[c].m /\ call'[c].rows = call[c].rows /\ call'[c].code = 204
  BY <1>0, <1>1, AnswerIs
<1>5. PhaseOf(c) = "pending" /\ PhaseOf(c)' = "answered" /\ ReqOf(c)' = ReqOf(c)
  BY <1>1, <1>4, ReqStays DEF PhaseOf, At
<1>6. AnsOf(c)' = Service!Code(204)
  <2>1. AnsOf(c)' = [code |-> 204, m |-> NoMessage, rows |-> {}]
    <3>1. call[c].rows = {}
      BY <1>0, <1>1 DEF Asked
    <3> QED BY <1>4, <3>1 DEF AnsOf
  <2> QED BY <2>1, CodeIs
<1>7. /\ AbsPhase[c] = "pending" /\ AbsReq[c].op = "dequeue" /\ AbsReq' = AbsReq
      /\ Service!Give(c, Service!Code(204))
  <2>1. ReqOf(c).op = "dequeue"
    BY <1>1 DEF ReqOf
  <2> QED BY <1>0, <1>5, <1>6, <2>1, OwnCall, GiveIs, ShownCalls DEF CallsShow
<1>8. AbsStore' = AbsStore /\ AbsStore[q].msgs = <<>>
  BY <1>0, <1>1, <1>3, StoreStays, ShownStore DEF StoreShows, StoreOf, At
<1>9. q \in seen[c] \ {NoQueue}
  BY <1>0, <1>1, <1>2 DEF Sees, Holding, Refs, NoQueue
<1> QED BY <1>1, <1>7, <1>8, <1>9
     DEF Service!Dequeue, Service!Pending, Service!NoQueue, NoQueue

LEMMA DrainedStore ==
  ASSUME NEW q \in Refs, NEW t, NEW n,
         t = [msgs |-> <<>>, enqueued |-> StoreOf(q).enqueued,
              dequeued |-> StoreOf(q).dequeued, drained |-> StoreOf(q).drained + n],
         AbsStore[q] = StoreOf(q)
  PROVE  [AbsStore EXCEPT ![q] = t]
           = [AbsStore EXCEPT ![q].msgs = <<>>, ![q].drained = @ + n]
<1>1. DOMAIN AbsStore = Refs
  BY DEF AbsStore
<1> QED BY <1>1 DEF StoreOf

(* A drain shows when it empties the queue, which its name still stands     *)
(* for: what it counts as drained is what was there.                        *)
LEMMA DrainShows ==
  ASSUME FullInv, IInv', NEW c \in Clients, DrainClear(c)
  PROVE  Service!Drain(c)
<1>0. /\ IInv /\ TypeOK /\ WellPlaced(c) /\ Asked(c) /\ Sees(c) /\ Steps(c) /\ CountInv
      /\ call \in [Clients -> Calls] /\ pc \in [Clients -> Labels]
  BY DEF FullInv, IInv, CallInv, AskInv, SeenInv, TypeOK, Steps, Proceed
<1>1. /\ pc[c] = "inQ" /\ call[c].op = "drain" /\ pc'[c] = "inQ2"
      /\ UNCHANGED <<queues, seen, minted, allocated>> /\ Answer(c, 200)
  BY <1>0 DEF DrainClear, InQ, At, Goto
<1>2. PICK q \in Refs : q = call[c].q
  BY <1>0, <1>1 DEF WellPlaced
<1>3. /\ heap'[q] = Cleared(heap[q]) /\ heap[q] \in Objects
      /\ \A r \in Refs \ {q} : heap'[r] = heap[r]
  BY <1>0, <1>2 DEF DrainClear, TypeOK, Queue
<1>4. HoldsQ(c, q) /\ queues[call[c].name] = q /\ q # NoQueue
  BY <1>0, <1>1, <1>2 DEF HoldsQ, Sees, Holding, Refs, NoQueue
<1>5. heap[q].Depth = Len(heap[q].Messages)
  <2>1. \A d \in Clients : ~Inside(d, q)
    BY <1>0, <1>1, <1>4 DEF IInv, LockInv, QLockInv, HoldsQ, Inside
  <2> QED BY <1>0, <2>1 DEF CountInv, Settled
<1>6. /\ call'[c].op = call[c].op /\ call'[c].name = call[c].name /\ call'[c].q = call[c].q
      /\ call'[c].m = call[c].m /\ call'[c].rows = call[c].rows /\ call'[c].code = 200
  BY <1>0, <1>1, AnswerIs
<1>7. PhaseOf(c) = "pending" /\ PhaseOf(c)' = "answered" /\ ReqOf(c)' = ReqOf(c)
  BY <1>1, <1>6, ReqStays DEF PhaseOf, At
<1>8. AnsOf(c)' = Service!Code(200)
  <2>1. call[c].rows = {}
    BY <1>0, <1>1 DEF Asked
  <2>2. AnsOf(c)' = [code |-> 200, m |-> NoMessage, rows |-> {}]
    BY <1>1, <1>6, <2>1 DEF AnsOf
  <2> QED BY <2>2, CodeIs
<1>9. /\ AbsPhase[c] = "pending" /\ AbsReq[c].op = "drain" /\ AbsReq[c].name = call[c].name
      /\ AbsReq' = AbsReq /\ Service!Give(c, Service!Code(200))
  <2>1. ReqOf(c).op = "drain" /\ ReqOf(c).name = call[c].name
    BY <1>1 DEF ReqOf
  <2> QED BY <1>0, <1>7, <1>8, <2>1, OwnCall, GiveIs, ShownCalls DEF CallsShow
<1>10. /\ AbsStore' = [AbsStore EXCEPT ![q].msgs = <<>>, ![q].drained = @ + heap[q].Depth]
       /\ AbsStore[q] = StoreOf(q)
  <2>1. Extra(q)' = Extra(q)
    BY <1>0, <1>1, <1>6, ExtraStays DEF Putting, At
  <2>2. /\ heap'[q].Messages = <<>>
        /\ heap'[q].Enqueued = heap[q].Enqueued
        /\ heap'[q].Dequeued = heap[q].Dequeued
        /\ heap'[q].Drained = heap[q].Drained + heap[q].Depth
    <3> DEFINE s == heap[q]
    <3>1. s \in Objects /\ heap'[q] = Cleared(s)
      BY <1>3
    <3> HIDE DEF s
    <3>2. /\ Cleared(s).Messages = <<>> /\ Cleared(s).Enqueued = s.Enqueued
          /\ Cleared(s).Dequeued = s.Dequeued /\ Cleared(s).Drained = s.Drained + s.Depth
      BY <3>1, ClearedIs
    <3> QED BY <3>1, <3>2 DEF s
  <2>3. StoreOf(q)' = [msgs |-> <<>>, enqueued |-> StoreOf(q).enqueued,
                       dequeued |-> StoreOf(q).dequeued,
                       drained |-> StoreOf(q).drained + heap[q].Depth]
    <3> DEFINE ms == <<>>
    <3>1. heap'[q].Messages = ms
      BY <2>2
    <3> HIDE DEF ms
    <3>2. StoreOf(q)' = [msgs |-> ms, enqueued |-> heap[q].Enqueued + Extra(q),
                         dequeued |-> heap[q].Dequeued,
                         drained |-> heap[q].Drained + heap[q].Depth]
      BY <2>1, <2>2, <3>1 DEF StoreOf
    <3> QED BY <3>2 DEF StoreOf, ms
  <2>4. AbsStore' = [AbsStore EXCEPT ![q] = StoreOf(q)'] /\ AbsStore[q] = StoreOf(q)
    BY <1>0, <1>2, <1>3, <1>6, StoreChanges, ShownStore DEF StoreShows
  <2> DEFINE k == heap[q].Depth
             t == StoreOf(q)'
  <2>5. t = [msgs |-> <<>>, enqueued |-> StoreOf(q).enqueued,
             dequeued |-> StoreOf(q).dequeued, drained |-> StoreOf(q).drained + k]
    BY <2>3
  <2>6. AbsStore' = [AbsStore EXCEPT ![q] = t]
    BY <2>4
  <2> HIDE DEF k, t
  <2>7. [AbsStore EXCEPT ![q] = t] = [AbsStore EXCEPT ![q].msgs = <<>>, ![q].drained = @ + k]
    BY <2>4, <2>5, DrainedStore
  <2> QED BY <2>4, <2>6, <2>7 DEF k
<1>11. heap[q].Depth = Len(AbsStore[q].msgs)
  BY <1>5, <1>10 DEF StoreOf
<1>12. AbsStore' = [AbsStore EXCEPT ![q].msgs = <<>>, ![q].drained = @ + Len(AbsStore[q].msgs)]
  BY <1>10, <1>11
<1> QED BY <1>1, <1>4, <1>9, <1>12
     DEF Service!Drain, Service!Pending, Service!NoQueue, NoQueue

(* A row of Stats is what its queue shows: nobody is halfway through it.    *)
LEMMA RowShows ==
  ASSUME FullInv, IInv', NEW c \in Clients, ReadRow(c)
  PROVE  Service!StatsRow(c)
<1>0. /\ IInv /\ TypeOK /\ WellPlaced(c) /\ Asked(c) /\ Sees(c) /\ ScanPlace(c) /\ Steps(c)
      /\ CountInv /\ call \in [Clients -> Calls] /\ pc \in [Clients -> Labels]
  BY DEF FullInv, IInv, CallInv, AskInv, SeenInv, ScanInv, TypeOK, Steps, Proceed
<1>1. /\ pc[c] = "row" /\ call[c].op = "stats" /\ pc'[c] = "scan" /\ call[c].code = 0
      /\ heap' = heap /\ UNCHANGED <<queues, seen, minted, allocated>>
  BY <1>0 DEF ReadRow, Goto, WellPlaced, Asked, Undecided
<1>2. PICK q \in Refs : q = call[c].q
  BY <1>0, <1>1 DEF WellPlaced
<1>3. PICK n \in Names : n = call[c].name
  BY <1>0, <1>1 DEF WellPlaced
<1>4. /\ queues[n] = q /\ q # NoQueue /\ ReadsQ(c, q)
      /\ \A r \in call[c].rows : r.Name # n
  BY <1>0, <1>1, <1>2, <1>3 DEF Sees, ReadsQ, ScanPlace, Scanned, Refs, NoQueue
<1>5. Stat(n, heap[q]) = Service!Row(n, StoreOf(q))
  <2>1. \A d \in Clients : ~Inside(d, q)
    BY <1>0, <1>4 DEF IInv, LockInv, QLockInv, Alone, HoldsQ, Inside
  <2>2. heap[q].Depth = Len(heap[q].Messages)
    BY <1>0, <2>1 DEF CountInv, Settled
  <2>3. Extra(q) = 0
    BY <2>1 DEF Extra, Putting, Inside, At
  <2>4. heap[q].Enqueued + Extra(q) = heap[q].Enqueued
    BY <1>0, <2>3, FieldTypes DEF TypeOK
  <2> QED BY <2>2, <2>4 DEF Stat, Service!Row, StoreOf
<1>6. /\ call'[c].op = call[c].op /\ call'[c].code = call[c].code
      /\ call'[c].rows = call[c].rows \cup {Stat(n, heap[q])}
  BY <1>0, <1>2, <1>3 DEF ReadRow, Calls, Name, Queue
<1>7. PhaseOf(c)' = PhaseOf(c) /\ PhaseOf(c) = "pending" /\ ReqOf(c)' = ReqOf(c)
  BY <1>1, <1>6 DEF PhaseOf, ReqOf, At
<1>8. AbsStore' = AbsStore /\ AbsStore[q] = StoreOf(q)
  BY <1>0, <1>1, StoreStays, ShownStore DEF At, StoreShows
<1>9. /\ AnsOf(c) = [code |-> 0, m |-> NoMessage, rows |-> call[c].rows]
      /\ AnsOf(c)' = [code |-> 0, m |-> NoMessage,
                      rows |-> call[c].rows \cup {Service!Row(n, AbsStore[q])}]
  BY <1>1, <1>5, <1>6, <1>8 DEF AnsOf
<1>10. /\ AbsPhase[c] = "pending" /\ AbsReq[c].op = "stats"
       /\ AbsPhase' = AbsPhase /\ AbsReq' = AbsReq
       /\ AbsAns[c] = AnsOf(c) /\ AbsAns' = [AbsAns EXCEPT ![c] = AnsOf(c)']
  BY <1>0, <1>1, <1>7, OwnCall, ShownCalls DEF CallsShow, ReqOf
<1>11. AbsAns' = [AbsAns EXCEPT ![c].rows = @ \cup {Service!Row(n, AbsStore[queues[n]])}]
  <2> DEFINE a == AnsOf(c)
             b == AnsOf(c)'
             row == Service!Row(n, AbsStore[q])
  <2>1. [a EXCEPT !.rows = @ \cup {row}] = b
    BY <1>9
  <2>2. AbsAns' = [AbsAns EXCEPT ![c] = b] /\ AbsAns[c] = a
    BY <1>10
  <2>3. row = Service!Row(n, AbsStore[queues[n]])
    BY <1>4
  <2> HIDE DEF a, b, row
  <2>4. AbsAns' = [AbsAns EXCEPT ![c].rows = @ \cup {row}]
    BY <2>1, <2>2
  <2> QED BY <2>3, <2>4
<1>12. \A r \in AbsAns[c].rows : r.Name # n
  BY <1>4, <1>9, <1>10
<1> QED BY <1>1, <1>4, <1>8, <1>10, <1>11, <1>12
     DEF Service!StatsRow, Service!Pending, Service!NoQueue, NoQueue

(* Stats ends with a row of every queue of the map, and none besides. *)
LEMMA StatsShows ==
  ASSUME FullInv, IInv', NEW c \in Clients, StatsDone(c)
  PROVE  Service!StatsEnd(c)
<1>0. /\ IInv /\ TypeOK /\ WellPlaced(c) /\ Asked(c) /\ ScanPlace(c) /\ Steps(c)
      /\ call \in [Clients -> Calls] /\ pc \in [Clients -> Labels]
  BY DEF FullInv, IInv, CallInv, AskInv, ScanInv, TypeOK, Steps, Proceed
<1>1. /\ pc[c] = "scan" /\ call[c].op = "stats" /\ pc'[c] = "done" /\ call[c].code = 0
      /\ heap' = heap /\ UNCHANGED <<queues, seen, minted, allocated>> /\ Answer(c, 200)
      /\ Scanned(c) = Bound
  BY <1>0 DEF StatsDone, Goto, WellPlaced, Asked, Undecided, ScanPlace
<1>2. /\ call'[c].op = call[c].op /\ call'[c].name = call[c].name /\ call'[c].q = call[c].q
      /\ call'[c].m = call[c].m /\ call'[c].rows = call[c].rows /\ call'[c].code = 200
  BY <1>0, <1>1, AnswerIs
<1>3. PhaseOf(c) = "pending" /\ PhaseOf(c)' = "answered" /\ ReqOf(c)' = ReqOf(c)
  BY <1>1, <1>2, ReqStays DEF PhaseOf, At
<1>4. AbsStore' = AbsStore
  BY <1>0, <1>1, StoreStays DEF At
<1>5. /\ AnsOf(c) = [code |-> 0, m |-> NoMessage, rows |-> call[c].rows]
      /\ AnsOf(c)' = [code |-> 200, m |-> NoMessage, rows |-> call[c].rows]
  BY <1>1, <1>2 DEF AnsOf
<1>6. /\ AbsPhase[c] = "pending" /\ AbsReq[c].op = "stats" /\ AbsReq' = AbsReq
      /\ AbsAns[c] = AnsOf(c)
  BY <1>0, <1>1, <1>3, OwnCall, ShownCalls DEF CallsShow, ReqOf
<1>7. AnsOf(c)' = [AbsAns[c] EXCEPT !.code = 200]
  BY <1>5, <1>6
<1>8. Service!Give(c, [AbsAns[c] EXCEPT !.code = 200])
  BY <1>0, <1>3, <1>7, GiveIs
<1>9. {r.Name : r \in AbsAns[c].rows} = {n \in Names : queues[n] # NoQueue}
  BY <1>1, <1>5, <1>6 DEF Scanned, Bound
<1> QED BY <1>1, <1>4, <1>6, <1>8, <1>9
     DEF Service!StatsEnd, Service!Pending, Service!NoQueue, NoQueue

LEMMA RespondShows ==
  ASSUME FullInv, IInv', NEW c \in Clients, Respond(c)
  PROVE  Service!Forget(c)
<1>0. /\ IInv /\ TypeOK /\ Steps(c)
      /\ call \in [Clients -> Calls] /\ pc \in [Clients -> Labels]
  BY DEF FullInv, IInv, TypeOK, Steps, Proceed
<1>1. /\ pc[c] = "done" /\ pc'[c] = "idle" /\ call'[c] = NoCall /\ heap' = heap
      /\ UNCHANGED <<queues, minted, allocated>> /\ seen' = [seen EXCEPT ![c] = {}]
  BY <1>0 DEF Respond, Goto
<1>2. PhaseOf(c) = "answered" /\ PhaseOf(c)' = "idle"
  BY <1>1 DEF PhaseOf
<1>3. ReqOf(c)' = Service!NoReq
  BY <1>1, NoReqIs DEF ReqOf, NoCall
<1>4. AnsOf(c)' = Service!NoAns
  BY <1>1 DEF AnsOf, NoCall, Service!NoAns, Service!NoMessage, NoMessage
<1>5. AbsStore' = AbsStore
  BY <1>0, <1>1, StoreStays DEF At
<1>6. /\ AbsPhase[c] = "answered" /\ AbsPhase' = [AbsPhase EXCEPT ![c] = "idle"]
      /\ AbsReq' = [AbsReq EXCEPT ![c] = Service!NoReq]
      /\ AbsAns' = [AbsAns EXCEPT ![c] = Service!NoAns]
  BY <1>0, <1>2, <1>3, <1>4, OwnCall, ShownCalls DEF CallsShow
<1> QED BY <1>1, <1>5, <1>6 DEF Service!Forget

LEMMA InitShows == Init => Service!Init
<1> SUFFICES ASSUME Init PROVE Service!Init
  OBVIOUS
<1>1. IInv
  BY InitIInv
<1>2. \A c \in Clients : PhaseOf(c) = "idle"
  BY DEF Init, PhaseOf
<1>3. \A c \in Clients : ReqOf(c) = Service!NoReq
  BY NoReqIs DEF Init, ReqOf, NoCall
<1>4. \A c \in Clients : AnsOf(c) = Service!NoAns
  BY DEF Init, AnsOf, NoCall, Service!NoAns, Service!NoMessage, NoMessage
<1>5. \A q \in Refs : StoreOf(q) = Service!NewQueue
  <2> SUFFICES ASSUME NEW q \in Refs PROVE StoreOf(q) = Service!NewQueue
    OBVIOUS
  <2>1. Extra(q) = 0
    BY DEF Init, Extra, Putting, At
  <2>2. heap[q] = EmptyQueue
    BY DEF Init
  <2> QED BY <2>1, <2>2 DEF StoreOf, EmptyQueue, Service!NewQueue
<1>6. /\ AbsPhase = [c \in Clients |-> "idle"]
      /\ AbsReq = [c \in Clients |-> Service!NoReq]
      /\ AbsAns = [c \in Clients |-> Service!NoAns]
  BY <1>2, <1>3, <1>4, ShownCalls DEF CallsShow
<1>7. AbsStore = [q \in Refs |-> Service!NewQueue]
  BY <1>1, <1>5, ShownStore DEF StoreShows
<1> QED BY <1>6, <1>7
     DEF Init, Service!Init, Service!NoQueue, NoQueue, Service!Refs, Refs

LEMMA NextShows ==
  FullInv /\ FullInv' /\ [Next]_vars => [Service!Next]_(Service!vars)
<1> SUFFICES ASSUME FullInv, FullInv', [Next]_vars
             PROVE  Service!Next \/ UNCHANGED Service!vars
  OBVIOUS
<1>0. IInv'
  BY DEF FullInv
<1>1. CASE UNCHANGED vars
  BY <1>1 DEF vars, Service!vars, AbsStore, AbsPhase, AbsReq, AbsAns, Halfway, At, Name, Queue
<1>2. ASSUME NEW c \in Clients, Arrive(c) PROVE Service!Next
  <2>1. ASSUME NEW op \in Ops, NEW n \in Names, Request(c, op, n) PROVE Service!Next
    <3>1. op \in Service!NamedOps \cup {"stats"}
      BY BrokerAssumption DEF Service!NamedOps
    <3> QED BY <1>0, <2>1, <3>1, RequestShows DEF Service!Next
  <2>2. ASSUME NEW op \in Ops \cap NamedOps, NEW k \in {400, 500}, Refuse(c, op, k)
        PROVE  Service!Next
    BY <1>0, <2>2, RefuseShows DEF Service!Next
  <2> QED BY <1>2, <2>1, <2>2 DEF Arrive
<1>3. ASSUME NEW c \in Clients, Acquire(c) PROVE UNCHANGED Service!vars
  BY <1>0, <1>3, AcquireHidden
<1>4. ASSUME NEW c \in Clients, Proceed(c) PROVE Service!Next \/ UNCHANGED Service!vars
  <2>1. CASE DrainLookup(c) \/ Lookup(c) \/ GetHead(c) \/ PutCount(c) \/ DrainCount(c)
    BY <1>0, <2>1, LookupHidden, CountHidden
  <2>2. CASE RejectB(c) \/ LookupFails(c) \/ CreateQueue(c) \/ DeleteQueue(c)
    BY <1>0, <2>2, RejectShows, BindShows DEF Service!Next
  <2>3. CASE PutAppend(c) \/ GetDrop(c) \/ GetEmpty(c) \/ DrainClear(c)
    BY <1>0, <2>3, PutShows, GetShows, EmptyShows, DrainShows DEF Service!Next
  <2>4. CASE ReadRow(c) \/ StatsDone(c) \/ Respond(c)
    BY <1>0, <2>4, RowShows, StatsShows, RespondShows DEF Service!Next
  <2> QED BY <1>4, <2>1, <2>2, <2>3, <2>4 DEF Proceed
<1> QED BY <1>1, <1>2, <1>3, <1>4 DEF Next

(* Broker implements QueueService: every call takes effect in one step      *)
(* within its call, in FIFO order, on a queue that its name stood for, and  *)
(* every refusal is justified (broker.go, 83-195; api.go, 46-126), whatever *)
(* the interleaving.                                                        *)
THEOREM Refines == Spec => Implements
BY InitShows, NextShows, FullInductive, PTL DEF Spec, Implements, Service!Spec

=============================================================================
