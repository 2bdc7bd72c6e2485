---------------------------- MODULE Broker_proofs ----------------------------
(***************************************************************************)
(* Theorems about Broker, for any number of clients, names, queues and     *)
(* messages.                                                               *)
(*                                                                         *)
(* The safety properties are not inductive as they stand: that a queue     *)
(* balances while nobody is inside rests on what it looks like while one   *)
(* goroutine is halfway through (CountInv), which rests on the locks       *)
(* keeping every other goroutine out (LockInv), which rests on where each  *)
(* operation can be (CallInv).  That no message is delivered twice rests   *)
(* on where each message is (MsgInv), and on nobody else having been in    *)
(* the queue since a GetMessage looked at its head (HeadIs).               *)
(***************************************************************************)
EXTENDS Broker, TLAPS

(* Where the goroutine of each operation can be, and what it knows there. *)
WellPlaced(c) ==
  /\ pc[c] \in {"lockB", "inB"} => call[c].op \in {"create", "delete", "drain"}
  /\ pc[c] = "rlockB" => call[c].op \in {"enqueue", "dequeue", "stats"}
  /\ pc[c] = "lookup" => call[c].op \in {"enqueue", "dequeue"}
  /\ pc[c] \in {"lockQ", "inQ", "inQ2"} =>
       call[c].op \in {"drain", "enqueue", "dequeue"} /\ call[c].q \in Refs
  /\ pc[c] \in {"scan", "row"} => call[c].op = "stats"
  /\ pc[c] = "row" => call[c].q \in Refs /\ call[c].name \in Names
  /\ call[c].op \in NamedOps => call[c].name \in Names
  /\ call[c].op = "create" => call[c].q \in Refs
  /\ call[c].op = "enqueue" => call[c].m \in Msgs

CallInv == \A c \in Clients : WellPlaced(c)

(* Who holds which lock, for writing and for reading. *)
HoldsB(c)    == \/ pc[c] = "inB"
                \/ call[c].op = "drain" /\ pc[c] \in {"lockQ", "inQ", "inQ2"}
ReadsB(c)    == pc[c] \in {"lookup", "scan", "row"}
HoldsQ(c, q) == pc[c] \in {"inQ", "inQ2"} /\ call[c].q = q
ReadsQ(c, q) == pc[c] = "row" /\ call[c].q = q

BLockInv ==
  \A c \in Clients : (bmu.w = c <=> HoldsB(c)) /\ (c \in bmu.r <=> ReadsB(c))
QLockInv ==
  \A q \in Refs : \A c \in Clients :
    (qmu[q].w = c <=> HoldsQ(c, q)) /\ (c \in qmu[q].r <=> ReadsQ(c, q))
Alone ==
  \A q \in Refs : \A c \in Clients : HoldsQ(c, q) /\ pc[c] = "inQ2" => qmu[q].r = {}

LockInv == BLockInv /\ QLockInv /\ Alone

(* What a queue looks like, also while a goroutine is halfway through it. *)
Inside(c, q) == pc[c] = "inQ2" /\ call[c].q = q
Settled(s)   == /\ s.Depth = Len(s.Messages)
                /\ s.Enqueued = s.Dequeued + s.Drained + s.Depth

HalfDone(c, s) ==
  /\ call[c].op = "enqueue" => /\ s.Depth = Len(s.Messages)
                               /\ s.Enqueued + 1 = s.Dequeued + s.Drained + s.Depth
  /\ call[c].op = "dequeue" => /\ Settled(s)
                               /\ s.Messages # <<>>
                               /\ call[c].m = Head(s.Messages)
  /\ call[c].op = "drain" => /\ s.Messages = <<>>
                             /\ s.Enqueued = s.Dequeued + s.Drained

CountInv ==
  \A q \in Refs :
    /\ heap[q].Depth >= 0
    /\ (\A c \in Clients : ~Inside(c, q)) => Settled(heap[q])
    /\ \A c \in Clients : Inside(c, q) => HalfDone(c, heap[q])

IInv == TypeOK /\ CallInv /\ LockInv /\ CountInv /\ RowsBalanced

-----------------------------------------------------------------------------
(* The operators on the locks, the Queue objects and the calls. *)

LEMMA MutexTypes ==
  ASSUME NEW mu \in RWMutex, NEW c \in Clients
  PROVE  /\ Locked(mu, c) \in RWMutex
         /\ RLocked(mu, c) \in RWMutex
         /\ Released(mu) \in RWMutex
         /\ RReleased(mu, c) \in RWMutex
BY DEF RWMutex, Locked, RLocked, Released, RReleased

LEMMA MutexIs ==
  ASSUME NEW mu \in RWMutex, NEW c \in Clients
  PROVE  /\ Locked(mu, c).w = c /\ Locked(mu, c).r = mu.r
         /\ RLocked(mu, c).w = mu.w /\ RLocked(mu, c).r = mu.r \cup {c}
         /\ Released(mu).w = Nil /\ Released(mu).r = mu.r
         /\ RReleased(mu, c).w = mu.w /\ RReleased(mu, c).r = mu.r \ {c}
BY DEF RWMutex, Locked, RLocked, Released, RReleased

LEMMA FieldTypes ==
  ASSUME NEW s \in Objects
  PROVE  /\ s.Messages \in Seq(Msgs)
         /\ s.Depth \in Int /\ s.Enqueued \in Int
         /\ s.Dequeued \in Int /\ s.Drained \in Int
<1> DEFINE S == Seq(Msgs)
<1>1. Objects = [Messages : S, Depth : Int, Enqueued : Int, Dequeued : Int, Drained : Int]
  BY DEF Objects
<1> HIDE DEF S
<1>2. s.Messages \in S /\ s.Depth \in Int /\ s.Enqueued \in Int
        /\ s.Dequeued \in Int /\ s.Drained \in Int
  BY <1>1
<1> QED BY <1>2 DEF S

LEMMA SetMessages ==
  ASSUME NEW s \in Objects, NEW ms \in Seq(Msgs)
  PROVE  [s EXCEPT !.Messages = ms] \in Objects
<1> DEFINE S == Seq(Msgs)
<1>1. ms \in S
  OBVIOUS
<1>2. Objects = [Messages : S, Depth : Int, Enqueued : Int, Dequeued : Int, Drained : Int]
  BY DEF Objects
<1> HIDE DEF S
<1> QED BY <1>1, <1>2

LEMMA SetCount ==
  ASSUME NEW s \in Objects, NEW i \in Int
  PROVE  /\ [s EXCEPT !.Depth = i] \in Objects
         /\ [s EXCEPT !.Enqueued = i] \in Objects
         /\ [s EXCEPT !.Dequeued = i] \in Objects
         /\ [s EXCEPT !.Drained = i] \in Objects
<1> DEFINE S == Seq(Msgs)
<1>1. Objects = [Messages : S, Depth : Int, Enqueued : Int, Dequeued : Int, Drained : Int]
  BY DEF Objects
<1> HIDE DEF S
<1> QED BY <1>1

(* PutMessage's first half adds a message and counts it in Depth. *)
LEMMA AppendedIs ==
  ASSUME NEW s \in Objects, NEW m \in Msgs
  PROVE  /\ Appended(s, m) \in Objects
         /\ Appended(s, m).Messages = Append(s.Messages, m)
         /\ Appended(s, m).Depth = s.Depth + 1
         /\ Appended(s, m).Enqueued = s.Enqueued
         /\ Appended(s, m).Dequeued = s.Dequeued
         /\ Appended(s, m).Drained = s.Drained
<1> DEFINE t == [s EXCEPT !.Messages = Append(@, m)]
<1>1. Append(s.Messages, m) \in Seq(Msgs) /\ s.Depth + 1 \in Int
  BY FieldTypes
<1>2. t \in Objects
  BY <1>1, SetMessages
<1>3. /\ t.Messages = Append(s.Messages, m) /\ t.Depth = s.Depth
      /\ t.Enqueued = s.Enqueued /\ t.Dequeued = s.Dequeued /\ t.Drained = s.Drained
  BY DEF Objects
<1>4. Appended(s, m) = [t EXCEPT !.Depth = s.Depth + 1]
  BY DEF Appended, Objects
<1> HIDE DEF t
<1>5. [t EXCEPT !.Depth = s.Depth + 1] \in Objects
  BY <1>1, <1>2, SetCount
<1> QED BY <1>2, <1>3, <1>4, <1>5 DEF Objects

(* Its second half counts the message in Enqueued. *)
LEMMA CountedIs ==
  ASSUME NEW s \in Objects
  PROVE  /\ Counted(s) \in Objects
         /\ Counted(s).Messages = s.Messages
         /\ Counted(s).Depth = s.Depth
         /\ Counted(s).Enqueued = s.Enqueued + 1
         /\ Counted(s).Dequeued = s.Dequeued
         /\ Counted(s).Drained = s.Drained
<1>1. s.Enqueued + 1 \in Int
  BY FieldTypes
<1>2. Counted(s) \in Objects
  BY <1>1, SetCount DEF Counted
<1> QED BY <1>2 DEF Counted, Objects

(* GetMessage drops the head and counts it. *)
LEMMA DroppedIs ==
  ASSUME NEW s \in Objects, s.Messages # <<>>
  PROVE  /\ Dropped(s) \in Objects
         /\ Dropped(s).Messages = Tail(s.Messages)
         /\ Dropped(s).Depth = s.Depth - 1
         /\ Dropped(s).Enqueued = s.Enqueued
         /\ Dropped(s).Dequeued = s.Dequeued + 1
         /\ Dropped(s).Drained = s.Drained
<1> DEFINE t == [s EXCEPT !.Messages = Tail(@)]
           u == [t EXCEPT !.Depth = s.Depth - 1]
<1>1. s.Messages \in Seq(Msgs) /\ s.Depth - 1 \in Int /\ s.Dequeued + 1 \in Int
  BY FieldTypes
<1>2. Tail(s.Messages) \in Seq(Msgs)
  BY <1>1
<1>3. t \in Objects
  BY <1>2, SetMessages
<1>4. /\ t.Messages = Tail(s.Messages) /\ t.Depth = s.Depth
      /\ t.Enqueued = s.Enqueued /\ t.Dequeued = s.Dequeued /\ t.Drained = s.Drained
  BY DEF Objects
<1>5. Dropped(s) = [u EXCEPT !.Dequeued = s.Dequeued + 1]
  BY DEF Dropped, Objects
<1> HIDE DEF t
<1>6. u \in Objects
  BY <1>1, <1>3, SetCount
<1>7. /\ u.Messages = t.Messages /\ u.Depth = s.Depth - 1
      /\ u.Enqueued = t.Enqueued /\ u.Dequeued = t.Dequeued /\ u.Drained = t.Drained
  BY <1>3 DEF Objects
<1> HIDE DEF u
<1>8. [u EXCEPT !.Dequeued = s.Dequeued + 1] \in Objects
  BY <1>1, <1>6, SetCount
<1> QED BY <1>4, <1>5, <1>6, <1>7, <1>8 DEF Objects

(* DrainQueue's first half empties the queue and counts what was there. *)
LEMMA ClearedIs ==
  ASSUME NEW s \in Objects
  PROVE  /\ Cleared(s) \in Objects
         /\ Cleared(s).Messages = <<>>
         /\ Cleared(s).Depth = s.Depth
         /\ Cleared(s).Enqueued = s.Enqueued
         /\ Cleared(s).Dequeued = s.Dequeued
         /\ Cleared(s).Drained = s.Drained + s.Depth
<1> DEFINE t == [s EXCEPT !.Messages = <<>>]
<1>1. s.Drained + s.Depth \in Int
  BY FieldTypes
<1>2. t \in Objects
  BY <<>> \in Seq(Msgs), SetMessages
<1>3. /\ t.Messages = <<>> /\ t.Depth = s.Depth
      /\ t.Enqueued = s.Enqueued /\ t.Dequeued = s.Dequeued /\ t.Drained = s.Drained
  BY DEF Objects
<1>4. Cleared(s) = [t EXCEPT !.Drained = s.Drained + s.Depth]
  BY DEF Cleared, Objects
<1> HIDE DEF t
<1>5. [t EXCEPT !.Drained = s.Drained + s.Depth] \in Objects
  BY <1>1, <1>2, SetCount
<1> QED BY <1>2, <1>3, <1>4, <1>5 DEF Objects

(* Its second half resets Depth. *)
LEMMA ZeroedIs ==
  ASSUME NEW s \in Objects
  PROVE  /\ Zeroed(s) \in Objects
         /\ Zeroed(s).Messages = s.Messages
         /\ Zeroed(s).Depth = 0
         /\ Zeroed(s).Enqueued = s.Enqueued
         /\ Zeroed(s).Dequeued = s.Dequeued
         /\ Zeroed(s).Drained = s.Drained
<1>1. Zeroed(s) \in Objects
  BY DEF Zeroed, Objects
<1> QED BY <1>1 DEF Zeroed, Objects

(* The ways in which a goroutine writes its locals and moves on. *)
LEMMA AnswerIs ==
  ASSUME TypeOK, NEW c \in Clients, NEW k \in {200, 204, 400}, Answer(c, k)
  PROVE  /\ call' \in [Clients -> Calls]
         /\ call'[c].op = call[c].op /\ call'[c].name = call[c].name
         /\ call'[c].q = call[c].q /\ call'[c].m = call[c].m
         /\ call'[c].rows = call[c].rows /\ call'[c].code = k
         /\ \A d \in Clients \ {c} : call'[d] = call[d]
<1>1. call \in [Clients -> Calls] /\ call[c] \in Calls
  BY DEF TypeOK
<1> QED BY <1>1 DEF Answer, Calls

LEMMA GotoIs ==
  ASSUME TypeOK, NEW c \in Clients, NEW l \in Labels, Goto(c, l)
  PROVE  /\ pc' \in [Clients -> Labels]
         /\ pc'[c] = l
         /\ \A d \in Clients \ {c} : pc'[d] = pc[d]
BY DEF TypeOK, Goto

(* A goroutine in the second half of GetMessage has a queue and its head. *)
LEMMA HeadIs ==
  ASSUME IInv, NEW c \in Clients, At(c, "inQ2", {"dequeue"})
  PROVE  /\ Queue(c) \in Refs
         /\ heap[Queue(c)].Messages # <<>>
         /\ call[c].m = Head(heap[Queue(c)].Messages)
         /\ call[c].m \in Msgs
<1>1. Queue(c) \in Refs /\ Inside(c, Queue(c))
  BY DEF IInv, CallInv, WellPlaced, At, Queue, Inside
<1>2. /\ heap[Queue(c)].Messages # <<>>
      /\ call[c].m = Head(heap[Queue(c)].Messages)
  BY <1>1 DEF IInv, CountInv, HalfDone, At
<1>3. heap[Queue(c)].Messages \in Seq(Msgs)
  BY <1>1, FieldTypes DEF IInv, TypeOK
<1> QED BY <1>1, <1>2, <1>3

(* Every action keeps the shapes of the fields.  A step needs CallInv, WellPlaced to    *)
(* know that a goroutine which touches a queue does hold a reference to one,*)
(* and CountInv that the message it drops is there.                         *)
LEMMA TypeStep ==
  ASSUME IInv, NEW c \in Clients, Arrive(c) \/ Acquire(c) \/ Proceed(c)
  PROVE  TypeOK'
<1> TypeOK /\ CallInv
  BY DEF IInv
<1> USE DEF Labels
<1>1. ASSUME NEW op \in Ops, NEW n \in Names, Request(c, op, n) PROVE TypeOK'
  <2>1. minted' \in 0..MaxMessages /\ allocated' \in 0..MaxQueues
    BY <1>1, BrokerAssumption DEF TypeOK, Request
  <2>2. /\ op = "create" => allocated' \in Refs
        /\ op = "enqueue" => minted' \in Msgs
    BY <1>1, BrokerAssumption DEF TypeOK, Request, Refs, Msgs
  <2>3. [op |-> op, name |-> IF op = "stats" THEN Nil ELSE n,
         q |-> IF op = "create" THEN allocated' ELSE NoQueue,
         m |-> IF op = "enqueue" THEN minted' ELSE NoMessage,
         code |-> 0, rows |-> {}] \in Calls
    BY <2>2 DEF Calls
  <2>4. call' \in [Clients -> Calls]
    BY <1>1, <2>3 DEF TypeOK, Request
  <2>5. seen' \in [Clients -> SUBSET (Refs \cup {NoQueue})]
    BY <1>1 DEF TypeOK, Request
  <2> QED BY <1>1, <2>1, <2>4, <2>5, GotoIs DEF TypeOK, Request
<1>2. ASSUME NEW op \in Ops, NEW k \in {400, 500}, Refuse(c, op, k) PROVE TypeOK'
  <2> DEFINE r == [NoCall EXCEPT !.op = "refused"]
  <2>1. r \in Calls
    BY DEF NoCall, Calls
  <2> HIDE DEF r
  <2>2. [r EXCEPT !.code = k] \in Calls
    BY <2>1 DEF Calls
  <2>3. [NoCall EXCEPT !.op = "refused", !.code = k] \in Calls
    BY <2>2 DEF r
  <2> QED BY <1>2, <2>3, GotoIs DEF TypeOK, Refuse
<1>3. CASE LockB(c)
  BY <1>3, MutexTypes, GotoIs DEF TypeOK, LockB
<1>4. CASE RLockB(c)
  BY <1>4, MutexTypes, GotoIs DEF TypeOK, RLockB
<1>5. CASE LockQ(c)
  BY <1>5, MutexTypes, GotoIs DEF TypeOK, LockQ
<1>6. ASSUME NEW n \in Names, RLockQ(c, n) PROVE TypeOK'
  <2>1. queues[n] \in Refs
    BY <1>6 DEF TypeOK, RLockQ, Bound
  <2>2. [call[c] EXCEPT !.q = queues[n], !.name = n] \in Calls
    <3> DEFINE r == [call[c] EXCEPT !.q = queues[n]]
    <3>1. call[c] \in Calls
      BY DEF TypeOK
    <3>2. r \in Calls
      BY <2>1, <3>1 DEF Calls
    <3> HIDE DEF r
    <3>3. [r EXCEPT !.name = n] \in Calls
      BY <3>2 DEF Calls
    <3> QED BY <3>3 DEF r
  <2> QED BY <1>6, <2>1, <2>2, MutexTypes, GotoIs DEF TypeOK, RLockQ
<1>7. CASE RejectB(c)
  BY <1>7, MutexTypes, AnswerIs, GotoIs DEF TypeOK, RejectB
<1>8. CASE CreateQueue(c)
  <2>1. Queue(c) \in Refs
    BY <1>8 DEF CreateQueue, At, CallInv, WellPlaced, Queue
  <2>2. bmu' \in RWMutex
    BY <1>8, MutexTypes DEF TypeOK, CreateQueue
  <2>3. call' \in [Clients -> Calls]
    BY <1>8, AnswerIs DEF CreateQueue
  <2>4. pc' \in [Clients -> Labels]
    BY <1>8, GotoIs DEF CreateQueue
  <2> QED BY <1>8, <2>1, <2>2, <2>3, <2>4 DEF TypeOK, CreateQueue, Bind
<1>9. CASE DeleteQueue(c)
  <2>1. bmu' \in RWMutex
    BY <1>9, MutexTypes DEF TypeOK, DeleteQueue
  <2>2. call' \in [Clients -> Calls]
    BY <1>9, AnswerIs DEF DeleteQueue
  <2>3. pc' \in [Clients -> Labels]
    BY <1>9, GotoIs DEF DeleteQueue
  <2> QED BY <1>9, <2>1, <2>2, <2>3 DEF TypeOK, DeleteQueue, Bind
<1>10. CASE DrainLookup(c)
  <2>1. queues[Name(c)] \in Refs
    BY <1>10 DEF DrainLookup, TypeOK, At, CallInv, WellPlaced, Name, NamedOps
  <2>2. [call[c] EXCEPT !.q = queues[Name(c)]] \in Calls
    BY <2>1 DEF TypeOK, Calls
  <2> QED BY <1>10, <2>2, GotoIs DEF TypeOK, DrainLookup
<1>11. CASE Lookup(c)
  <2>1. queues[Name(c)] \in Refs
    BY <1>11 DEF Lookup, TypeOK, CallInv, WellPlaced, Name, NamedOps
  <2>2. [call[c] EXCEPT !.q = queues[Name(c)]] \in Calls
    BY <2>1 DEF TypeOK, Calls
  <2> QED BY <1>11, <2>2, MutexTypes, GotoIs DEF TypeOK, Lookup
<1>12. CASE LookupFails(c)
  <2>1. bmu' \in RWMutex
    BY <1>12, MutexTypes DEF TypeOK, LookupFails
  <2>2. call' \in [Clients -> Calls]
    BY <1>12, AnswerIs DEF LookupFails
  <2>3. pc' \in [Clients -> Labels]
    BY <1>12, GotoIs DEF LookupFails
  <2> QED BY <1>12, <2>1, <2>2, <2>3 DEF TypeOK, LookupFails
<1>13. CASE PutAppend(c)
  <2>1. Queue(c) \in Refs /\ call[c].m \in Msgs
    BY <1>13 DEF PutAppend, InQ, At, CallInv, WellPlaced, Queue
  <2>2. Appended(heap[Queue(c)], call[c].m) \in Objects
    BY <2>1, AppendedIs DEF TypeOK
  <2> QED BY <1>13, <2>2, AnswerIs, GotoIs DEF TypeOK, PutAppend
<1>14. CASE PutCount(c)
  <2>1. Queue(c) \in Refs
    BY <1>14 DEF PutCount, At, CallInv, WellPlaced, Queue
  <2>2. Counted(heap[Queue(c)]) \in Objects
    BY <2>1, CountedIs DEF TypeOK
  <2> QED BY <1>14, <2>2, MutexTypes, GotoIs DEF TypeOK, PutCount, UnlockQ
<1>15. CASE GetEmpty(c)
  <2>1. qmu' \in [Refs -> RWMutex]
    BY <1>15, MutexTypes DEF TypeOK, GetEmpty, UnlockQ
  <2>2. call' \in [Clients -> Calls]
    BY <1>15, AnswerIs DEF GetEmpty
  <2>3. pc' \in [Clients -> Labels]
    BY <1>15, GotoIs DEF GetEmpty, UnlockQ
  <2> QED BY <1>15, <2>1, <2>2, <2>3 DEF TypeOK, GetEmpty
<1>16. CASE GetHead(c)
  <2>1. heap[Queue(c)] \in Objects
    BY <1>16 DEF TypeOK, GetHead, InQ, At, CallInv, WellPlaced, Queue
  <2>2. heap[Queue(c)].Messages \in Seq(Msgs)
    BY <2>1, FieldTypes
  <2>3. Head(heap[Queue(c)].Messages) \in Msgs
    BY <1>16, <2>2 DEF GetHead
  <2>4. [call[c] EXCEPT !.m = Head(heap[Queue(c)].Messages)] \in Calls
    BY <2>3 DEF TypeOK, Calls
  <2> QED BY <1>16, <2>4, GotoIs DEF TypeOK, GetHead
<1>17. CASE GetDrop(c)
  <2>1. Queue(c) \in Refs /\ call[c].m \in Msgs /\ heap[Queue(c)].Messages # <<>>
    BY <1>17, HeadIs DEF GetDrop
  <2>2. Dropped(heap[Queue(c)]) \in Objects
    BY <2>1, DroppedIs DEF TypeOK
  <2>3. qmu' \in [Refs -> RWMutex]
    BY <1>17, MutexTypes DEF TypeOK, GetDrop, UnlockQ
  <2>4. call' \in [Clients -> Calls]
    BY <1>17, AnswerIs DEF GetDrop
  <2>5. pc' \in [Clients -> Labels]
    BY <1>17, GotoIs DEF GetDrop, UnlockQ
  <2> QED BY <1>17, <2>1, <2>2, <2>3, <2>4, <2>5 DEF TypeOK, GetDrop
<1>18. CASE DrainClear(c)
  <2>1. Queue(c) \in Refs
    BY <1>18 DEF DrainClear, InQ, At, CallInv, WellPlaced, Queue
  <2>2. Cleared(heap[Queue(c)]) \in Objects
    BY <2>1, ClearedIs DEF TypeOK
  <2> QED BY <1>18, <2>2, AnswerIs, GotoIs DEF TypeOK, DrainClear
<1>19. CASE DrainCount(c)
  <2>1. Queue(c) \in Refs
    BY <1>19 DEF DrainCount, At, CallInv, WellPlaced, Queue
  <2>2. Zeroed(heap[Queue(c)]) \in Objects
    BY <2>1, ZeroedIs DEF TypeOK
  <2> QED BY <1>19, <2>2, MutexTypes, GotoIs DEF TypeOK, DrainCount, UnlockQ
<1>20. CASE ReadRow(c)
  <2>1. Queue(c) \in Refs /\ Name(c) \in Names
    BY <1>20 DEF ReadRow, CallInv, WellPlaced, Queue, Name
  <2>2. Stat(Name(c), heap[Queue(c)]) \in Rows
    BY <2>1, FieldTypes DEF TypeOK, Stat, Rows
  <2>3. call[c] \in Calls
    BY DEF TypeOK
  <2>4. [call[c] EXCEPT !.rows = @ \cup {Stat(Name(c), heap[Queue(c)])}] \in Calls
    BY <2>2, <2>3 DEF Calls
  <2> QED BY <1>20, <2>4, MutexTypes, GotoIs DEF TypeOK, ReadRow
<1>21. CASE StatsDone(c)
  BY <1>21, MutexTypes, AnswerIs, GotoIs DEF TypeOK, StatsDone
<1>22. CASE Respond(c)
  <2>1. NoCall \in Calls
    BY DEF NoCall, Calls
  <2> QED BY <1>22, <2>1, GotoIs DEF TypeOK, Respond
<1> QED BY <1>1, <1>2, <1>3, <1>4, <1>5, <1>6, <1>7, <1>8, <1>9, <1>10, <1>11,
           <1>12, <1>13, <1>14, <1>15, <1>16, <1>17, <1>18, <1>19, <1>20, <1>21,
           <1>22 DEF Arrive, Acquire, Proceed

-----------------------------------------------------------------------------
(* A goroutine writes its own locals only. *)
LEMMA OthersStay ==
  ASSUME TypeOK, NEW c \in Clients, Arrive(c) \/ Acquire(c) \/ Proceed(c),
         NEW d \in Clients, d # c
  PROVE  pc'[d] = pc[d] /\ call'[d] = call[d]
<1> USE DEF TypeOK, Goto, Answer
<1>1. CASE Arrive(c)
  BY <1>1 DEF Arrive, Request, Refuse
<1>2. CASE Acquire(c)
  BY <1>2 DEF Acquire, LockB, RLockB, LockQ, RLockQ
<1>3. CASE Proceed(c)
  <2>1. CASE RejectB(c) \/ CreateQueue(c) \/ DeleteQueue(c) \/ DrainLookup(c)
    BY <2>1 DEF RejectB, CreateQueue, DeleteQueue, DrainLookup
  <2>2. CASE Lookup(c) \/ LookupFails(c)
    BY <2>2 DEF Lookup, LookupFails
  <2>3. CASE PutAppend(c) \/ PutCount(c)
    BY <2>3 DEF PutAppend, PutCount, UnlockQ
  <2>4. CASE GetEmpty(c) \/ GetHead(c) \/ GetDrop(c)
    BY <2>4 DEF GetEmpty, GetHead, GetDrop, UnlockQ
  <2>5. CASE DrainClear(c) \/ DrainCount(c)
    BY <2>5 DEF DrainClear, DrainCount, UnlockQ
  <2>6. CASE ReadRow(c) \/ StatsDone(c) \/ Respond(c)
    BY <2>6 DEF ReadRow, StatsDone, Respond
  <2> QED BY <1>3, <2>1, <2>2, <2>3, <2>4, <2>5, <2>6 DEF Proceed
<1> QED BY <1>1, <1>2, <1>3

(* Every action leaves its goroutine where its operation may be. *)
LEMMA CallStep ==
  ASSUME TypeOK, CallInv, NEW c \in Clients, Arrive(c) \/ Acquire(c) \/ Proceed(c)
  PROVE  CallInv'
<1>0. SUFFICES WellPlaced(c)'
  BY OthersStay DEF CallInv, WellPlaced
<1>0a. WellPlaced(c) /\ call[c] \in Calls /\ pc[c] \in Labels
  BY DEF TypeOK, CallInv
<1> USE <1>0a DEF WellPlaced
<1>1. ASSUME NEW op \in Ops, NEW n \in Names, Request(c, op, n) PROVE WellPlaced(c)'
  <2>1. /\ op = "create" => allocated' \in Refs
        /\ op = "enqueue" => minted' \in Msgs
    BY <1>1, BrokerAssumption DEF TypeOK, Request, Refs, Msgs
  <2>2. pc'[c] = IF op \in {"create", "delete", "drain"} THEN "lockB" ELSE "rlockB"
    BY <1>1 DEF TypeOK, Request, Goto
  <2>3. /\ call'[c].op = op
        /\ op # "stats" => call'[c].name = n
        /\ op = "create" => call'[c].q = allocated'
        /\ op = "enqueue" => call'[c].m = minted'
    BY <1>1 DEF TypeOK, Request
  <2> QED BY <2>1, <2>2, <2>3, BrokerAssumption DEF NamedOps
<1>2. ASSUME NEW op \in Ops, NEW k \in {400, 500}, Refuse(c, op, k) PROVE WellPlaced(c)'
  <2>1. pc'[c] = "done" /\ call'[c].op = "refused"
    BY <1>2 DEF TypeOK, Refuse, Goto, NoCall
  <2> QED BY <2>1 DEF NamedOps
<1>3. CASE LockB(c)
  BY <1>3 DEF TypeOK, LockB, Goto
<1>4. CASE RLockB(c)
  BY <1>4 DEF TypeOK, RLockB, Goto
<1>5. CASE LockQ(c)
  BY <1>5 DEF TypeOK, LockQ, Goto
<1>6. ASSUME NEW n \in Names, RLockQ(c, n) PROVE WellPlaced(c)'
  <2>1. queues[n] \in Refs
    BY <1>6 DEF TypeOK, RLockQ, Bound
  <2>2. call'[c].q = queues[n] /\ call'[c].name = n /\ call'[c].op = call[c].op
    BY <1>6 DEF TypeOK, RLockQ, Calls
  <2>3. call[c].op = "stats" /\ pc'[c] = "row"
    BY <1>6 DEF TypeOK, RLockQ, Goto
  <2> QED BY <2>1, <2>2, <2>3 DEF NamedOps
<1>7. CASE RejectB(c)
  BY <1>7, AnswerIs, GotoIs DEF RejectB, Labels
<1>8. CASE CreateQueue(c)
  BY <1>8, AnswerIs, GotoIs DEF CreateQueue, Labels
<1>9. CASE DeleteQueue(c)
  BY <1>9, AnswerIs, GotoIs DEF DeleteQueue, Labels
<1>10. CASE DrainLookup(c)
  <2>1. queues[Name(c)] \in Refs
    BY <1>10 DEF DrainLookup, TypeOK, At, Name, NamedOps
  <2>2. /\ call'[c].q = queues[Name(c)] /\ call'[c].name = call[c].name
        /\ call'[c].op = call[c].op /\ call'[c].m = call[c].m
    BY <1>10 DEF TypeOK, DrainLookup, Calls
  <2>3. call[c].op = "drain" /\ pc'[c] = "lockQ"
    BY <1>10 DEF TypeOK, DrainLookup, At, Goto
  <2> QED BY <2>1, <2>2, <2>3
<1>11. CASE Lookup(c)
  <2>1. queues[Name(c)] \in Refs
    BY <1>11 DEF Lookup, TypeOK, Name, NamedOps
  <2>2. /\ call'[c].q = queues[Name(c)] /\ call'[c].name = call[c].name
        /\ call'[c].op = call[c].op /\ call'[c].m = call[c].m
    BY <1>11 DEF TypeOK, Lookup, Calls
  <2>3. call[c].op \in {"enqueue", "dequeue"} /\ pc'[c] = "lockQ"
    BY <1>11 DEF TypeOK, Lookup, Goto
  <2> QED BY <2>1, <2>2, <2>3
<1>12. CASE LookupFails(c)
  BY <1>12, AnswerIs, GotoIs DEF LookupFails, Labels
<1>13. CASE PutAppend(c)
  BY <1>13, AnswerIs, GotoIs DEF PutAppend, InQ, At, Labels
<1>14. CASE PutCount(c)
  BY <1>14, GotoIs DEF PutCount, UnlockQ, Labels
<1>15. CASE GetEmpty(c)
  BY <1>15, AnswerIs, GotoIs DEF GetEmpty, UnlockQ, Labels
<1>16. CASE GetHead(c)
  <2>1. pc[c] = "inQ" /\ pc'[c] = "inQ2" /\ call[c].op = "dequeue"
    BY <1>16 DEF TypeOK, GetHead, InQ, At, Goto
  <2>2. /\ call'[c].q = call[c].q /\ call'[c].name = call[c].name
        /\ call'[c].op = call[c].op
    BY <1>16 DEF TypeOK, GetHead, Calls
  <2> QED BY <2>1, <2>2
<1>17. CASE GetDrop(c)
  BY <1>17, AnswerIs, GotoIs DEF GetDrop, UnlockQ, Labels
<1>18. CASE DrainClear(c)
  BY <1>18, AnswerIs, GotoIs DEF DrainClear, InQ, At, Labels
<1>19. CASE DrainCount(c)
  BY <1>19, GotoIs DEF DrainCount, UnlockQ, Labels
<1>20. CASE ReadRow(c)
  <2>1. call[c].op = "stats" /\ pc'[c] = "scan"
    BY <1>20 DEF TypeOK, ReadRow, Goto
  <2>2. call'[c].op = call[c].op
    BY <1>20 DEF TypeOK, ReadRow, Calls
  <2> QED BY <2>1, <2>2 DEF NamedOps
<1>21. CASE StatsDone(c)
  BY <1>21, AnswerIs, GotoIs DEF StatsDone, Labels
<1>22. CASE Respond(c)
  <2>1. call'[c].op = "none" /\ pc'[c] = "idle"
    BY <1>22 DEF TypeOK, Respond, NoCall, Goto
  <2> QED BY <2>1 DEF NamedOps
<1> QED BY <1>1, <1>2, <1>3, <1>4, <1>5, <1>6, <1>7, <1>8, <1>9, <1>10, <1>11,
           <1>12, <1>13, <1>14, <1>15, <1>16, <1>17, <1>18, <1>19, <1>20, <1>21,
           <1>22 DEF Arrive, Acquire, Proceed

-----------------------------------------------------------------------------
(* A lock is held by whoever is in the section it guards.  The steps that   *)
(* do not touch a lock stay on the same side of every section.              *)
LEMMA LockStep ==
  ASSUME TypeOK, CallInv, LockInv, NEW c \in Clients,
         Arrive(c) \/ Acquire(c) \/ Proceed(c)
  PROVE  LockInv'
<1>0. \A d \in Clients \ {c} : pc'[d] = pc[d] /\ call'[d] = call[d]
  BY OthersStay
<1>0a. /\ c # Nil /\ \A d \in Clients : d # Nil
       /\ bmu \in RWMutex /\ \A q \in Refs : qmu[q] \in RWMutex
       /\ call[c] \in Calls /\ WellPlaced(c)
  BY BrokerAssumption DEF TypeOK, CallInv
<1> USE <1>0, <1>0a DEF LockInv, BLockInv, QLockInv, Alone, HoldsB, ReadsB, HoldsQ, ReadsQ
<1>a. ASSUME pc[c] \notin {"inB", "lockQ", "inQ", "inQ2", "scan", "lookup", "row"},
             pc'[c] \notin {"inB", "lockQ", "inQ", "inQ2", "scan", "lookup", "row"},
             UNCHANGED <<bmu, qmu>>
      PROVE  LockInv'
  BY <1>a
<1>b. ASSUME pc[c] = "inB", pc'[c] = "done", UNCHANGED qmu,
             bmu'.w = Nil, bmu'.r = bmu.r, call'[c].op = call[c].op
      PROVE  LockInv'
  BY <1>b
<1>c. ASSUME NEW q \in Refs, HoldsQ(c, q), pc'[c] = "inQ2", UNCHANGED <<bmu, qmu>>,
             qmu[q].r = {}, call'[c].op = call[c].op, call'[c].q = call[c].q
      PROVE  LockInv'
  BY <1>c
<1>d. ASSUME NEW q \in Refs, HoldsQ(c, q), pc'[c] = "done",
             qmu'[q].w = Nil, qmu'[q].r = qmu[q].r,
             \A r \in Refs \ {q} : qmu'[r] = qmu[r]
      PROVE  QLockInv' /\ Alone'
  BY <1>d
<1>1. CASE Arrive(c)
  <2>1. pc[c] = "idle" /\ pc'[c] \in {"lockB", "rlockB", "done"} /\ UNCHANGED <<bmu, qmu>>
    BY <1>1 DEF Arrive, Request, Refuse, Goto, TypeOK
  <2> QED BY <2>1, <1>a
<1>3. CASE LockB(c)
  <2>1. pc[c] = "lockB" /\ pc'[c] = "inB" /\ UNCHANGED <<call, qmu>>
    BY <1>3, GotoIs DEF LockB, Labels
  <2>2. bmu.w = Nil /\ bmu'.w = c /\ bmu'.r = bmu.r
    BY <1>3, MutexIs DEF LockB, Open
  <2> QED BY <2>1, <2>2
<1>4. CASE RLockB(c)
  <2>1. pc[c] = "rlockB" /\ pc'[c] \in {"scan", "lookup"} /\ UNCHANGED <<call, qmu>>
    BY <1>4 DEF TypeOK, RLockB, Goto
  <2>2. bmu'.w = bmu.w /\ bmu'.r = bmu.r \cup {c}
    BY <1>4, MutexIs DEF RLockB
  <2> QED BY <2>1, <2>2
<1>5. CASE LockQ(c)
  <2>1. pc[c] = "lockQ" /\ pc'[c] = "inQ" /\ UNCHANGED <<call, bmu>> /\ call[c].q \in Refs
    BY <1>5, GotoIs DEF LockQ, Labels, WellPlaced
  <2>2. /\ qmu[call[c].q].w = Nil
        /\ qmu'[call[c].q].w = c /\ qmu'[call[c].q].r = qmu[call[c].q].r
        /\ \A q \in Refs \ {call[c].q} : qmu'[q] = qmu[q]
    BY <1>5, <2>1, MutexIs DEF LockQ, Open, Queue, TypeOK
  <2>3. \A d \in Clients \ {c} : ~HoldsQ(d, call[c].q)
    BY <2>1, <2>2
  <2>4. BLockInv'
    BY <2>1
  <2>5. QLockInv'
    BY <2>1, <2>2, <2>3
  <2>6. Alone'
    BY <2>1, <2>2, <2>3
  <2> QED BY <2>4, <2>5, <2>6
<1>6. ASSUME NEW n \in Names, RLockQ(c, n) PROVE LockInv'
  <2>1. pc[c] = "scan" /\ pc'[c] = "row" /\ UNCHANGED bmu /\ queues[n] \in Refs
    BY <1>6, GotoIs DEF RLockQ, Labels, Bound, TypeOK
  <2>2. call'[c].q = queues[n] /\ call[c].op = "stats" /\ call'[c].op = "stats"
    BY <1>6, <2>1 DEF TypeOK, RLockQ, Calls, WellPlaced
  <2>3. /\ qmu[queues[n]].w = Nil /\ qmu'[queues[n]].w = Nil
        /\ qmu'[queues[n]].r = qmu[queues[n]].r \cup {c}
        /\ \A q \in Refs \ {queues[n]} : qmu'[q] = qmu[q]
    BY <1>6, <2>1, MutexIs DEF RLockQ, Open, TypeOK
  <2>4. \A d \in Clients : ~HoldsQ(d, queues[n])
    BY <2>1, <2>3
  <2>5. BLockInv'
    BY <2>1, <2>2
  <2>6. QLockInv'
    BY <2>1, <2>2, <2>3, <2>4
  <2>7. Alone'
    BY <2>1, <2>2, <2>3, <2>4
  <2> QED BY <2>5, <2>6, <2>7
<1>7. CASE RejectB(c) \/ CreateQueue(c) \/ DeleteQueue(c)
  <2>1. pc[c] = "inB" /\ pc'[c] = "done" /\ UNCHANGED qmu
    BY <1>7, GotoIs DEF RejectB, CreateQueue, DeleteQueue, At, Labels
  <2>2. bmu'.w = Nil /\ bmu'.r = bmu.r
    BY <1>7, MutexIs DEF RejectB, CreateQueue, DeleteQueue
  <2>3. call'[c].op = call[c].op
    BY <1>7, AnswerIs DEF RejectB, CreateQueue, DeleteQueue
  <2> QED BY <2>1, <2>2, <2>3, <1>b
<1>10. CASE DrainLookup(c)
  <2>1. /\ pc[c] = "inB" /\ pc'[c] = "lockQ" /\ UNCHANGED <<bmu, qmu>>
        /\ call[c].op = "drain"
    BY <1>10, GotoIs DEF DrainLookup, At, Labels
  <2>2. call'[c].op = call[c].op
    BY <1>10 DEF TypeOK, DrainLookup, Calls
  <2> QED BY <2>1, <2>2
<1>11. CASE Lookup(c)
  <2>1. pc[c] = "lookup" /\ pc'[c] = "lockQ" /\ UNCHANGED qmu
    BY <1>11, GotoIs DEF Lookup, Labels
  <2>2. bmu'.w = bmu.w /\ bmu'.r = bmu.r \ {c}
    BY <1>11, MutexIs DEF Lookup
  <2>3. call'[c].op = call[c].op /\ call[c].op # "drain"
    BY <1>11 DEF TypeOK, Lookup, Calls, WellPlaced
  <2> QED BY <2>1, <2>2, <2>3
<1>12. CASE LookupFails(c) \/ StatsDone(c)
  <2>1. pc[c] \in {"lookup", "scan"} /\ pc'[c] = "done" /\ UNCHANGED qmu
    BY <1>12, GotoIs DEF LookupFails, StatsDone, Labels
  <2>2. bmu'.w = bmu.w /\ bmu'.r = bmu.r \ {c}
    BY <1>12, MutexIs DEF LookupFails, StatsDone
  <2> QED BY <2>1, <2>2
<1>13. CASE PutAppend(c) \/ DrainClear(c)
  <2>1. /\ pc[c] = "inQ" /\ pc'[c] = "inQ2" /\ UNCHANGED <<bmu, qmu>>
        /\ call[c].q \in Refs /\ qmu[call[c].q].r = {}
    BY <1>13, GotoIs DEF PutAppend, DrainClear, InQ, At, NoReaders, Queue, WellPlaced, Labels
  <2>2. call'[c].op = call[c].op /\ call'[c].q = call[c].q
    BY <1>13, AnswerIs DEF PutAppend, DrainClear
  <2> QED BY <2>1, <2>2, <1>c
<1>14. CASE GetHead(c)
  <2>1. /\ pc[c] = "inQ" /\ pc'[c] = "inQ2" /\ UNCHANGED <<bmu, qmu>>
        /\ call[c].q \in Refs /\ qmu[call[c].q].r = {}
    BY <1>14, GotoIs DEF GetHead, InQ, At, NoReaders, Queue, WellPlaced, Labels
  <2>2. call'[c].op = call[c].op /\ call'[c].q = call[c].q
    BY <1>14 DEF GetHead, TypeOK, Calls
  <2> QED BY <2>1, <2>2, <1>c
<1>15. CASE PutCount(c) \/ GetEmpty(c) \/ GetDrop(c)
  <2>1. /\ pc[c] \in {"inQ", "inQ2"} /\ UNCHANGED bmu
        /\ call[c].op \in {"enqueue", "dequeue"} /\ call[c].q \in Refs
    BY <1>15 DEF PutCount, GetEmpty, GetDrop, InQ, At, WellPlaced
  <2>2. UnlockQ(c)
    BY <1>15 DEF PutCount, GetEmpty, GetDrop
  <2>3. pc'[c] = "done"
    BY <2>2, GotoIs DEF UnlockQ, Labels
  <2>4. /\ qmu'[call[c].q].w = Nil /\ qmu'[call[c].q].r = qmu[call[c].q].r
        /\ \A q \in Refs \ {call[c].q} : qmu'[q] = qmu[q]
    BY <2>1, <2>2, MutexIs DEF UnlockQ, Queue, TypeOK
  <2>5. QLockInv' /\ Alone'
    BY <2>1, <2>3, <2>4, <1>d
  <2>6. BLockInv'
    BY <2>1, <2>3
  <2> QED BY <2>5, <2>6
<1>16. CASE DrainCount(c)
  <2>1. /\ pc[c] = "inQ2" /\ call[c].op = "drain" /\ call[c].q \in Refs
    BY <1>16 DEF DrainCount, At, WellPlaced
  <2>2. UnlockQ(c)
    BY <1>16 DEF DrainCount
  <2>3. pc'[c] = "done"
    BY <2>2, GotoIs DEF UnlockQ, Labels
  <2>4. /\ qmu'[call[c].q].w = Nil /\ qmu'[call[c].q].r = qmu[call[c].q].r
        /\ \A q \in Refs \ {call[c].q} : qmu'[q] = qmu[q]
    BY <2>1, <2>2, MutexIs DEF UnlockQ, Queue, TypeOK
  <2>5. QLockInv' /\ Alone'
    BY <2>1, <2>3, <2>4, <1>d
  <2>6. bmu'.w = Nil /\ bmu'.r = bmu.r
    BY <1>16, MutexIs DEF DrainCount
  <2>7. BLockInv'
    BY <2>1, <2>3, <2>6
  <2> QED BY <2>5, <2>7
<1>17. CASE ReadRow(c)
  <2>1. pc[c] = "row" /\ pc'[c] = "scan" /\ UNCHANGED bmu /\ call[c].q \in Refs
    BY <1>17, GotoIs DEF ReadRow, Labels, WellPlaced
  <2>2. call'[c].q = call[c].q /\ call[c].op = "stats" /\ call'[c].op = call[c].op
    BY <1>17 DEF ReadRow, TypeOK, Calls, WellPlaced
  <2>3. /\ qmu'[call[c].q].w = qmu[call[c].q].w
        /\ qmu'[call[c].q].r = qmu[call[c].q].r \ {c}
        /\ \A q \in Refs \ {call[c].q} : qmu'[q] = qmu[q]
    BY <1>17, <2>1, MutexIs DEF ReadRow, Queue, TypeOK
  <2>4. BLockInv'
    BY <2>1, <2>2
  <2>5. QLockInv' 
    BY <2>1, <2>2, <2>3
  <2>6. Alone'
    BY <2>1, <2>2, <2>3
  <2> QED BY <2>4, <2>5, <2>6
<1>18. CASE Respond(c)
  <2>1. pc[c] = "done" /\ pc'[c] = "idle" /\ UNCHANGED <<bmu, qmu>>
    BY <1>18, GotoIs DEF Respond, Labels
  <2> QED BY <2>1, <1>a
<1> QED BY <1>1, <1>3, <1>4, <1>5, <1>6, <1>7, <1>10, <1>11, <1>12, <1>13, <1>14,
           <1>15, <1>16, <1>17, <1>18 DEF Acquire, Proceed

-----------------------------------------------------------------------------
(* Two goroutines are never in one queue. *)
LEMMA Exclusive ==
  ASSUME TypeOK, LockInv, NEW q \in Refs, NEW c \in Clients, NEW d \in Clients,
         HoldsQ(c, q), HoldsQ(d, q)
  PROVE  c = d
BY DEF LockInv, QLockInv

(* The counts of a queue agree with each other and with its messages.  Only *)
(* the steps inside a queue change one; each is alone there.                *)
LEMMA CountStep ==
  ASSUME IInv, NEW c \in Clients, Arrive(c) \/ Acquire(c) \/ Proceed(c)
  PROVE  CountInv'
<1>0. \A d \in Clients \ {c} : pc'[d] = pc[d] /\ call'[d] = call[d]
  BY OthersStay DEF IInv
<1>0a. /\ TypeOK /\ LockInv /\ CountInv /\ WellPlaced(c)
       /\ \A q \in Refs : heap[q] \in Objects
  BY DEF IInv, TypeOK, CallInv
<1>a. ASSUME UNCHANGED heap, pc[c] # "inQ2", pc'[c] # "inQ2" PROVE CountInv'
  BY <1>0, <1>0a, <1>a DEF CountInv, Inside, HalfDone
<1>b. ASSUME NEW q \in Refs, HoldsQ(c, q), \A r \in Refs \ {q} : heap'[r] = heap[r],
             call'[c].q = q, heap'[q].Depth >= 0,
             \/ pc'[c] = "inQ2" /\ HalfDone(c, heap[q])'
             \/ pc'[c] # "inQ2" /\ Settled(heap[q])'
      PROVE  CountInv'
  <2>1. \A d \in Clients \ {c} : ~Inside(d, q) /\ ~Inside(d, q)'
    BY <1>0, <1>0a, <1>b, Exclusive DEF HoldsQ, Inside
  <2>2. ASSUME NEW r \in Refs \ {q}
        PROVE  /\ heap'[r].Depth >= 0
               /\ (\A d \in Clients : ~Inside(d, r)') => Settled(heap[r])'
               /\ \A d \in Clients : Inside(d, r)' => HalfDone(d, heap[r])'
    <3>1. ~Inside(c, r) /\ ~Inside(c, r)' /\ heap'[r] = heap[r]
      BY <1>b, <2>2 DEF HoldsQ, Inside
    <3> QED BY <1>0, <1>0a, <2>2, <3>1 DEF CountInv, Inside, HalfDone, Settled
  <2>3. /\ (\A d \in Clients : ~Inside(d, q)') => Settled(heap[q])'
        /\ \A d \in Clients : Inside(d, q)' => HalfDone(d, heap[q])'
    BY <1>b, <2>1 DEF Inside
  <2> QED BY <1>b, <2>2, <2>3 DEF CountInv
<1>c. ASSUME NEW q \in Refs, HoldsQ(c, q), pc[c] = "inQ" PROVE Settled(heap[q])
  <2>1. \A d \in Clients : ~Inside(d, q)
    BY <1>0a, <1>c, Exclusive DEF HoldsQ, Inside
  <2> QED BY <1>0a, <2>1 DEF CountInv
<1>1. CASE Arrive(c)
  BY <1>1, <1>a, <1>0a DEF Arrive, Request, Refuse, Goto, TypeOK
<1>2. CASE Acquire(c)
  BY <1>2, <1>a, <1>0a DEF Acquire, LockB, RLockB, LockQ, RLockQ, Goto, TypeOK
<1>3. CASE RejectB(c) \/ CreateQueue(c) \/ DeleteQueue(c) \/ DrainLookup(c)
  BY <1>3, <1>a, <1>0a
     DEF RejectB, CreateQueue, DeleteQueue, DrainLookup, At, Goto, TypeOK
<1>4. CASE Lookup(c) \/ LookupFails(c) \/ ReadRow(c) \/ StatsDone(c) \/ Respond(c)
  BY <1>4, <1>a, <1>0a DEF Lookup, LookupFails, ReadRow, StatsDone, Respond, Goto, TypeOK
<1>5. CASE GetEmpty(c)
  BY <1>5, <1>a, <1>0a DEF GetEmpty, InQ, At, UnlockQ, Goto, TypeOK
<1>6. CASE PutAppend(c)
  <2> DEFINE q == call[c].q
  <2>1. /\ HoldsQ(c, q) /\ pc[c] = "inQ" /\ q \in Refs /\ pc'[c] = "inQ2"
        /\ call[c].op = "enqueue" /\ call[c].m \in Msgs
    BY <1>6, <1>0a, GotoIs DEF PutAppend, InQ, At, HoldsQ, WellPlaced, Labels
  <2>2. call'[c].q = q /\ call'[c].op = "enqueue"
    BY <1>6, <1>0a, <2>1, AnswerIs DEF PutAppend
  <2>3. /\ heap'[q] = Appended(heap[q], call[c].m)
        /\ \A r \in Refs \ {q} : heap'[r] = heap[r]
    BY <1>6, <1>0a, <2>1 DEF PutAppend, TypeOK, Queue
  <2>4. heap[q].Messages \in Seq(Msgs) /\ heap[q].Depth \in Int /\ heap[q].Depth >= 0
    BY <1>0a, <2>1, FieldTypes DEF CountInv
  <2>5. Settled(heap[q])
    BY <2>1, <1>c
  <2>6. /\ heap'[q].Messages = Append(heap[q].Messages, call[c].m)
        /\ heap'[q].Depth = heap[q].Depth + 1 /\ heap'[q].Enqueued = heap[q].Enqueued
        /\ heap'[q].Dequeued = heap[q].Dequeued /\ heap'[q].Drained = heap[q].Drained
    BY <1>0a, <2>1, <2>3, AppendedIs
  <2>7. Len(heap'[q].Messages) = Len(heap[q].Messages) + 1
    BY <2>4, <2>6, <2>1
  <2>8. heap[q].Enqueued \in Int /\ heap[q].Dequeued \in Int /\ heap[q].Drained \in Int
    BY <1>0a, <2>1, FieldTypes
  <2>9. /\ heap'[q].Depth = Len(heap'[q].Messages)
        /\ heap'[q].Enqueued + 1 = heap'[q].Dequeued + heap'[q].Drained + heap'[q].Depth
        /\ heap'[q].Depth >= 0
    <3>1. heap'[q].Depth = Len(heap'[q].Messages)
      BY <2>5, <2>6, <2>7 DEF Settled
    <3>2. heap'[q].Enqueued + 1 = heap'[q].Dequeued + heap'[q].Drained + heap'[q].Depth
      <4> DEFINE en == heap[q].Enqueued
                 de == heap[q].Dequeued
                 dr == heap[q].Drained
                 dp == heap[q].Depth
      <4>1. en = de + dr + dp
        BY <2>5 DEF Settled
      <4>2. en \in Int /\ de \in Int /\ dr \in Int /\ dp \in Int
        BY <2>4, <2>8
      <4>3. /\ heap'[q].Enqueued = en /\ heap'[q].Dequeued = de
            /\ heap'[q].Drained = dr /\ heap'[q].Depth = dp + 1
        BY <2>6
      <4> HIDE DEF en, de, dr, dp
      <4>4. en + 1 = de + dr + (dp + 1)
        BY <4>1, <4>2
      <4> QED BY <4>3, <4>4
    <3>3. heap'[q].Depth >= 0
      BY <2>4, <2>6
    <3> QED BY <3>1, <3>2, <3>3
  <2>10. HalfDone(c, heap[q])' /\ heap'[q].Depth >= 0
    BY <2>2, <2>9 DEF HalfDone
  <2> QED BY <1>b, <2>1, <2>2, <2>3, <2>10
<1>7. CASE PutCount(c)
  <2> DEFINE q == call[c].q
  <2>1. /\ HoldsQ(c, q) /\ Inside(c, q) /\ q \in Refs
        /\ call[c].op = "enqueue" /\ call'[c].q = q
    BY <1>7, <1>0a DEF PutCount, At, HoldsQ, Inside, WellPlaced
  <2>2. pc'[c] = "done"
    BY <1>7, <1>0a, GotoIs DEF PutCount, UnlockQ, Labels
  <2>3. /\ heap'[q] = Counted(heap[q])
        /\ \A r \in Refs \ {q} : heap'[r] = heap[r]
    BY <1>7, <1>0a, <2>1 DEF PutCount, TypeOK, Queue
  <2>4. HalfDone(c, heap[q]) /\ heap[q].Depth >= 0
    BY <1>0a, <2>1 DEF CountInv
  <2>5. /\ heap'[q].Messages = heap[q].Messages
        /\ heap'[q].Depth = heap[q].Depth /\ heap'[q].Enqueued = heap[q].Enqueued + 1
        /\ heap'[q].Dequeued = heap[q].Dequeued /\ heap'[q].Drained = heap[q].Drained
    BY <1>0a, <2>1, <2>3, CountedIs
  <2>6. Settled(heap[q])' /\ heap'[q].Depth >= 0
    BY <2>1, <2>4, <2>5 DEF HalfDone, Settled
  <2> QED BY <1>b, <2>1, <2>2, <2>3, <2>6
<1>8. CASE GetHead(c)
  <2> DEFINE q == call[c].q
  <2>1. /\ HoldsQ(c, q) /\ pc[c] = "inQ" /\ q \in Refs /\ pc'[c] = "inQ2"
        /\ call[c].op = "dequeue" /\ heap' = heap
    BY <1>8, <1>0a, GotoIs DEF GetHead, InQ, At, HoldsQ, WellPlaced, Labels
  <2>2. /\ call'[c].q = q /\ call'[c].op = "dequeue"
        /\ call'[c].m = Head(heap[q].Messages)
    BY <1>8, <1>0a, <2>1 DEF GetHead, TypeOK, Calls, Queue
  <2>3. Settled(heap[q]) /\ heap[q].Depth >= 0
    BY <2>1, <1>c, <1>0a DEF CountInv
  <2>4. heap[q].Messages # <<>>
    BY <1>8, <2>1 DEF GetHead, Queue
  <2>5. HalfDone(c, heap[q])' /\ heap'[q].Depth >= 0
    BY <2>1, <2>2, <2>3, <2>4 DEF HalfDone, Settled
  <2> QED BY <1>b, <2>1, <2>2, <2>5
<1>9. CASE GetDrop(c)
  <2> DEFINE q == call[c].q
  <2>1. HoldsQ(c, q) /\ Inside(c, q) /\ q \in Refs /\ call[c].op = "dequeue"
    BY <1>9, <1>0a DEF GetDrop, At, HoldsQ, Inside, WellPlaced
  <2>2. pc'[c] = "done" /\ call'[c].q = q
    BY <1>9, <1>0a, GotoIs, AnswerIs DEF GetDrop, UnlockQ, Labels
  <2>3. /\ heap'[q] = Dropped(heap[q])
        /\ \A r \in Refs \ {q} : heap'[r] = heap[r]
    BY <1>9, <1>0a, <2>1 DEF GetDrop, TypeOK, Queue
  <2>4. Settled(heap[q]) /\ heap[q].Messages # <<>>
    BY <1>0a, <2>1 DEF CountInv, HalfDone
  <2>5. /\ heap'[q].Messages = Tail(heap[q].Messages)
        /\ heap'[q].Depth = heap[q].Depth - 1 /\ heap'[q].Enqueued = heap[q].Enqueued
        /\ heap'[q].Dequeued = heap[q].Dequeued + 1 /\ heap'[q].Drained = heap[q].Drained
    BY <1>0a, <2>1, <2>3, <2>4, DroppedIs
  <2>6. /\ heap[q].Messages \in Seq(Msgs) /\ heap[q].Depth \in Int
        /\ heap[q].Enqueued \in Int /\ heap[q].Dequeued \in Int /\ heap[q].Drained \in Int
    BY <1>0a, <2>1, FieldTypes
  <2>7. Len(Tail(heap[q].Messages)) = Len(heap[q].Messages) - 1
        /\ Len(heap[q].Messages) >= 1
    BY <2>4, <2>6
  <2>8. Settled(heap[q])' /\ heap'[q].Depth >= 0
    BY <2>2, <2>4, <2>5, <2>6, <2>7 DEF Settled
  <2> QED BY <1>b, <2>1, <2>2, <2>3, <2>8
<1>10. CASE DrainClear(c)
  <2> DEFINE q == call[c].q
  <2>1. /\ HoldsQ(c, q) /\ pc[c] = "inQ" /\ q \in Refs /\ pc'[c] = "inQ2"
        /\ call[c].op = "drain"
    BY <1>10, <1>0a, GotoIs DEF DrainClear, InQ, At, HoldsQ, WellPlaced, Labels
  <2>2. call'[c].q = q /\ call'[c].op = "drain"
    BY <1>10, <1>0a, <2>1, AnswerIs DEF DrainClear
  <2>3. /\ heap'[q] = Cleared(heap[q])
        /\ \A r \in Refs \ {q} : heap'[r] = heap[r]
    BY <1>10, <1>0a, <2>1 DEF DrainClear, TypeOK, Queue
  <2>4. Settled(heap[q]) /\ heap[q].Depth >= 0
    BY <2>1, <1>c, <1>0a DEF CountInv
  <2>5. /\ heap'[q].Messages = <<>>
        /\ heap'[q].Depth = heap[q].Depth /\ heap'[q].Enqueued = heap[q].Enqueued
        /\ heap'[q].Dequeued = heap[q].Dequeued
        /\ heap'[q].Drained = heap[q].Drained + heap[q].Depth
    BY <1>0a, <2>1, <2>3, ClearedIs
  <2>6. /\ heap[q].Depth \in Int /\ heap[q].Dequeued \in Int /\ heap[q].Drained \in Int
    BY <1>0a, <2>1, FieldTypes
  <2>7. HalfDone(c, heap[q])' /\ heap'[q].Depth >= 0
    BY <2>2, <2>4, <2>5, <2>6 DEF HalfDone, Settled
  <2> QED BY <1>b, <2>1, <2>2, <2>3, <2>7
<1>11. CASE DrainCount(c)
  <2> DEFINE q == call[c].q
  <2>1. /\ HoldsQ(c, q) /\ Inside(c, q) /\ q \in Refs
        /\ call[c].op = "drain" /\ call'[c].q = q
    BY <1>11, <1>0a DEF DrainCount, At, HoldsQ, Inside, WellPlaced
  <2>2. pc'[c] = "done"
    BY <1>11, <1>0a, GotoIs DEF DrainCount, UnlockQ, Labels
  <2>3. /\ heap'[q] = Zeroed(heap[q])
        /\ \A r \in Refs \ {q} : heap'[r] = heap[r]
    BY <1>11, <1>0a, <2>1 DEF DrainCount, TypeOK, Queue
  <2>4. HalfDone(c, heap[q])
    BY <1>0a, <2>1 DEF CountInv
  <2>5. /\ heap'[q].Messages = heap[q].Messages
        /\ heap'[q].Depth = 0 /\ heap'[q].Enqueued = heap[q].Enqueued
        /\ heap'[q].Dequeued = heap[q].Dequeued /\ heap'[q].Drained = heap[q].Drained
    BY <1>0a, <2>1, <2>3, ZeroedIs
  <2>6. heap[q].Dequeued \in Int /\ heap[q].Drained \in Int
    BY <1>0a, <2>1, FieldTypes
  <2>7. heap'[q].Messages = <<>>
    BY <2>1, <2>4, <2>5 DEF HalfDone
  <2>8. heap'[q].Enqueued = heap'[q].Dequeued + heap'[q].Drained + heap'[q].Depth
    BY <2>1, <2>4, <2>5, <2>6 DEF HalfDone
  <2>9. Settled(heap[q])' /\ heap'[q].Depth >= 0
    BY <2>1, <2>5, <2>7, <2>8 DEF Settled
  <2> QED BY <1>b, <2>1, <2>2, <2>3, <2>9
<1> QED BY <1>1, <1>2, <1>3, <1>4, <1>5, <1>6, <1>7, <1>8, <1>9, <1>10, <1>11
     DEF Proceed

(* While a goroutine reads a row, nobody is halfway through that queue. *)
LEMMA RowsStep ==
  ASSUME IInv, NEW c \in Clients, Arrive(c) \/ Acquire(c) \/ Proceed(c)
  PROVE  RowsBalanced'
<1>0. \A d \in Clients \ {c} : call'[d] = call[d]
  BY OthersStay DEF IInv
<1>0a. TypeOK /\ LockInv /\ CountInv /\ WellPlaced(c) /\ RowsBalanced
  BY DEF IInv, CallInv
<1>a. ASSUME call'[c].rows \subseteq call[c].rows PROVE RowsBalanced'
  BY <1>0, <1>0a, <1>a DEF RowsBalanced
<1>b. ASSUME call'[c].rows = {} PROVE RowsBalanced'
  BY <1>a, <1>b
<1>1. CASE ReadRow(c)
  <2> DEFINE q == call[c].q
             row == Stat(Name(c), heap[q])
  <2>1. q \in Refs /\ ReadsQ(c, q)
    BY <1>1, <1>0a DEF ReadRow, WellPlaced, ReadsQ
  <2>2. \A d \in Clients : ~Inside(d, q)
    BY <1>0a, <2>1 DEF LockInv, QLockInv, Alone, Inside, HoldsQ
  <2>3. Settled(heap[q]) /\ heap[q].Depth >= 0
    BY <1>0a, <2>1, <2>2 DEF CountInv
  <2>4. Balances(row)
    BY <2>3 DEF Balances, Settled, Stat
  <2>5. call'[c].rows = call[c].rows \cup {row}
    BY <1>1, <1>0a DEF ReadRow, Queue, TypeOK, Calls
  <2> QED BY <1>0, <1>0a, <2>4, <2>5 DEF RowsBalanced
<1>2. CASE Arrive(c)
  <2>1. ASSUME NEW op \in Ops, NEW n \in Names, Request(c, op, n) PROVE call'[c].rows = {}
    BY <1>0a, <2>1 DEF Request, TypeOK
  <2>2. ASSUME NEW op \in Ops, NEW k \in {400, 500}, Refuse(c, op, k)
        PROVE  call'[c].rows = {}
    BY <1>0a, <2>2 DEF Refuse, TypeOK, NoCall
  <2> QED BY <1>2, <1>b, <2>1, <2>2 DEF Arrive
<1>3. CASE Respond(c)
  BY <1>3, <1>0a, <1>b DEF Respond, TypeOK, NoCall
<1>4. CASE Acquire(c)
  <2>1. CASE LockB(c) \/ RLockB(c) \/ LockQ(c)
    BY <2>1, <1>a DEF LockB, RLockB, LockQ
  <2>2. ASSUME NEW n \in Names, RLockQ(c, n) PROVE RowsBalanced'
    BY <1>0a, <2>2, <1>a DEF RLockQ, TypeOK, Calls
  <2> QED BY <1>4, <2>1, <2>2 DEF Acquire
<1>5. CASE \/ RejectB(c) \/ CreateQueue(c) \/ DeleteQueue(c) \/ LookupFails(c)
           \/ PutAppend(c) \/ GetEmpty(c) \/ GetDrop(c) \/ DrainClear(c) \/ StatsDone(c)
  <2>1. \E k \in {200, 204, 400} : Answer(c, k)
    BY <1>5 DEF RejectB, CreateQueue, DeleteQueue, LookupFails, PutAppend, GetEmpty,
                GetDrop, DrainClear, StatsDone
  <2> QED BY <1>0a, <2>1, AnswerIs, <1>a
<1>6. CASE DrainLookup(c) \/ Lookup(c) \/ GetHead(c)
  BY <1>0a, <1>6, <1>a DEF DrainLookup, Lookup, GetHead, TypeOK, Calls
<1>7. CASE PutCount(c) \/ DrainCount(c)
  BY <1>7, <1>a DEF PutCount, DrainCount
<1> QED BY <1>1, <1>2, <1>3, <1>4, <1>5, <1>6, <1>7 DEF Proceed

-----------------------------------------------------------------------------
LEMMA InitIInv == Init => IInv
<1> SUFFICES ASSUME Init PROVE IInv
  OBVIOUS
<1> USE DEF Init
<1>1. EmptyQueue \in Objects
  <2>1. <<>> \in Seq(Msgs)
    OBVIOUS
  <2> HIDE DEF Init
  <2> DEFINE S == Seq(Msgs)
             e == <<>>
  <2>2. e \in S
    BY <2>1
  <2> HIDE DEF S, e
  <2>3. [Messages |-> e, Depth |-> 0, Enqueued |-> 0, Dequeued |-> 0, Drained |-> 0]
          \in [Messages : S, Depth : Int, Enqueued : Int, Dequeued : Int, Drained : Int]
    BY <2>2
  <2> QED BY <2>3 DEF EmptyQueue, Objects, S, e
<1>2. NoCall \in Calls /\ Unlocked \in RWMutex
  BY DEF NoCall, Calls, Unlocked, RWMutex
<1>3. TypeOK
  BY <1>1, <1>2, BrokerAssumption DEF TypeOK, Labels
<1>4. CallInv /\ RowsBalanced
  BY DEF CallInv, WellPlaced, RowsBalanced, NamedOps, NoCall
<1>5. LockInv
  BY BrokerAssumption
     DEF LockInv, BLockInv, QLockInv, Alone, HoldsB, ReadsB, HoldsQ, ReadsQ, Unlocked
<1>6. CountInv
  BY DEF CountInv, Settled, Inside, EmptyQueue
<1> QED BY <1>3, <1>4, <1>5, <1>6 DEF IInv

LEMMA NextIInv == IInv /\ [Next]_vars => IInv'
<1> SUFFICES ASSUME IInv, [Next]_vars PROVE IInv'
  OBVIOUS
<1>1. CASE Next
  <2>1. PICK c \in Clients : Arrive(c) \/ Acquire(c) \/ Proceed(c)
    BY <1>1 DEF Next
  <2> QED BY <2>1, TypeStep, CallStep, LockStep, CountStep, RowsStep DEF IInv
<1>2. CASE UNCHANGED vars
  BY <1>2 DEF vars, IInv, TypeOK, CallInv, WellPlaced, LockInv, BLockInv, QLockInv,
              Alone, HoldsB, ReadsB, HoldsQ, ReadsQ, CountInv, Inside, HalfDone,
              Settled, RowsBalanced
<1> QED BY <1>1, <1>2

LEMMA Inductive == Spec => []IInv
BY InitIInv, NextIInv, PTL DEF Spec

(* The broker's fields, its locks and the locals of its goroutines keep     *)
(* their shapes, whatever its clients ask for.                              *)
THEOREM TypeCorrect == Spec => []TypeOK
<1>1. IInv => TypeOK
  BY DEF IInv
<1> QED BY <1>1, Inductive, PTL

(* However puts, gets, drains and deletes of a queue interleave, its        *)
(* counters account for every message once no goroutine is inside it.       *)
THEOREM CountsAgree == Spec => []Balanced
<1>1. IInv => Balanced
  <2> SUFFICES ASSUME IInv, NEW q \in Refs, Open(qmu[q])
               PROVE  heap[q].Depth = Len(heap[q].Messages) /\ Balances(heap[q])
    BY DEF Balanced
  <2>1. \A c \in Clients : ~Inside(c, q)
    BY BrokerAssumption DEF IInv, LockInv, QLockInv, HoldsQ, Inside, Open
  <2>2. Settled(heap[q]) /\ heap[q].Depth >= 0
    BY <2>1 DEF IInv, CountInv
  <2> QED BY <2>2 DEF Settled, Balances
<1> QED BY <1>1, Inductive, PTL

(* Every row that Stats answers with shows its queue between two            *)
(* operations, never within one.                                            *)
THEOREM StatsAgree == Spec => []RowsBalanced
<1>1. IInv => RowsBalanced
  BY DEF IInv
<1> QED BY <1>1, Inductive, PTL

-----------------------------------------------------------------------------
(* WHERE A MESSAGE IS: with the PutMessage that made it, at one place of    *)
(* one queue, or delivered, and never at two of these.                      *)

Content(s) == {s[i] : i \in DOMAIN s}
NoRepeat(s) == \A i, j \in DOMAIN s : s[i] = s[j] => i = j
Stored(q)  == Content(heap[q].Messages)

(* PutMessage, before it has appended *)
Carries(c) == call[c].op = "enqueue" /\ pc[c] \in {"rlockB", "lookup", "lockQ", "inQ"}

Known  == /\ delivered \subseteq 1..minted
          /\ \A q \in Refs : Stored(q) \subseteq (1..minted) \ delivered
Apart  == \A q, r \in Refs : q # r => Stored(q) \cap Stored(r) = {}
Single == \A q \in Refs : NoRepeat(heap[q].Messages)
New    == \A c \in Clients : Carries(c) =>
            /\ call[c].m \in (1..minted) \ delivered
            /\ \A q \in Refs : call[c].m \notin Stored(q)
OneEach == \A c, d \in Clients : Carries(c) /\ Carries(d) /\ call[c].m = call[d].m => c = d

MsgInv == Known /\ Apart /\ Single /\ New /\ OneEach

-----------------------------------------------------------------------------
LEMMA AppendContent ==
  ASSUME NEW s \in Seq(Msgs), NEW m \in Msgs
  PROVE  /\ Content(Append(s, m)) = Content(s) \cup {m}
         /\ NoRepeat(s) /\ m \notin Content(s) => NoRepeat(Append(s, m))
<1> DEFINE t == Append(s, m)
<1>1. /\ Len(s) \in Nat /\ DOMAIN s = 1..Len(s) /\ DOMAIN t = 1..Len(s) + 1
      /\ t[Len(s) + 1] = m /\ \A i \in 1..Len(s) : t[i] = s[i]
  OBVIOUS
<1> HIDE DEF t
<1>2. Content(t) = Content(s) \cup {m}
  <2>1. ASSUME NEW x \in Content(t) PROVE x \in Content(s) \cup {m}
    BY <1>1, <2>1 DEF Content
  <2>2. ASSUME NEW x \in Content(s) \cup {m} PROVE x \in Content(t)
    BY <1>1, <2>2 DEF Content
  <2> QED BY <2>1, <2>2
<1>3. ASSUME NoRepeat(s), m \notin Content(s) PROVE NoRepeat(t)
  <2>1. \A i \in 1..Len(s) : s[i] # m
    BY <1>1, <1>3 DEF Content
  <2> QED BY <1>1, <1>3, <2>1 DEF NoRepeat
<1> QED BY <1>2, <1>3 DEF t

LEMMA TailContent ==
  ASSUME NEW s \in Seq(Msgs), s # <<>>, NoRepeat(s)
  PROVE  /\ Content(Tail(s)) \subseteq Content(s) \ {Head(s)}
         /\ NoRepeat(Tail(s))
         /\ Head(s) \in Content(s)
<1> DEFINE t == Tail(s)
<1>1. /\ Len(s) \in Nat /\ Len(s) > 0 /\ DOMAIN s = 1..Len(s) /\ DOMAIN t = 1..Len(s) - 1
      /\ Head(s) = s[1] /\ \A i \in 1..Len(s) - 1 : t[i] = s[i + 1]
  OBVIOUS
<1> HIDE DEF t
<1>2. ASSUME NEW x \in Content(t) PROVE x \in Content(s) \ {Head(s)}
  <2>1. PICK i \in 1..Len(s) - 1 : x = s[i + 1]
    BY <1>1, <1>2 DEF Content
  <2>2. i + 1 \in DOMAIN s /\ 1 \in DOMAIN s /\ i + 1 # 1
    BY <1>1
  <2> QED BY <1>1, <2>1, <2>2 DEF Content, NoRepeat
<1>3. NoRepeat(t)
  BY <1>1 DEF NoRepeat
<1>4. Head(s) \in Content(s)
  BY <1>1 DEF Content
<1> QED BY <1>2, <1>3, <1>4 DEF t

LEMMA MessagesType == ASSUME TypeOK, NEW q \in Refs PROVE heap[q].Messages \in Seq(Msgs)
  BY FieldTypes DEF TypeOK

-----------------------------------------------------------------------------
(* A step that brings no message anywhere. *)
LEMMA KeepMsg ==
  ASSUME MsgInv, UNCHANGED <<minted, delivered>>,
         \A q \in Refs : Stored(q)' \subseteq Stored(q) /\ NoRepeat(heap'[q].Messages),
         \A c \in Clients : Carries(c)' => Carries(c) /\ call'[c].m = call[c].m
  PROVE  MsgInv'
<1>1. Known' /\ Apart'
  BY DEF MsgInv, Known, Apart
<1>2. Single'
  BY DEF Single
<1>3. New'
  BY DEF MsgInv, New
<1>4. OneEach'
  BY DEF MsgInv, OneEach
<1> QED BY <1>1, <1>2, <1>3, <1>4 DEF MsgInv

(* A step that leaves the contents of all queues alone. *)
LEMMA SameMsg ==
  ASSUME MsgInv, UNCHANGED <<minted, delivered>>,
         \A q \in Refs : heap'[q].Messages = heap[q].Messages,
         \A c \in Clients : Carries(c)' => Carries(c) /\ call'[c].m = call[c].m
  PROVE  MsgInv'
<1>1. \A q \in Refs : Stored(q)' = Stored(q) /\ NoRepeat(heap'[q].Messages)
  BY DEF Stored, Content, MsgInv, Single, NoRepeat
<1> QED BY <1>1, KeepMsg

LEMMA RequestMsg ==
  ASSUME IInv, MsgInv, NEW c \in Clients, NEW op \in Ops, NEW n \in Names, Request(c, op, n)
  PROVE  MsgInv'
<1>0. /\ call \in [Clients -> Calls] /\ pc \in [Clients -> Labels] /\ minted \in Nat
  BY DEF IInv, TypeOK
<1>1. /\ heap' = heap /\ delivered' = delivered /\ call'[c].op = op
      /\ \A d \in Clients \ {c} : call'[d] = call[d] /\ pc'[d] = pc[d]
  BY <1>0 DEF Request, Goto
<1>2. CASE op # "enqueue"
  <2>1. minted' = minted
    BY <1>2 DEF Request
  <2>2. \A d \in Clients : Carries(d)' => Carries(d) /\ call'[d].m = call[d].m
    BY <1>1, <1>2 DEF Carries
  <2> QED BY <1>1, <2>1, <2>2, SameMsg
<1>3. CASE op = "enqueue"
  <2>1. minted' = minted + 1 /\ call'[c].m = minted + 1
    BY <1>0, <1>3 DEF Request
  <2>2. 1..minted \subseteq 1..minted' /\ minted' \in 1..minted' /\ minted' \notin 1..minted
    BY <1>0, <2>1
  <2>3. \A q \in Refs : Stored(q)' = Stored(q)
    BY <1>1 DEF Stored, Content
  <2>4. Known' /\ Apart'
    BY <1>1, <2>2, <2>3 DEF MsgInv, Known, Apart
  <2>5. Single'
    BY <1>1 DEF MsgInv, Single, NoRepeat
  <2>6. \A d \in Clients \ {c} : Carries(d)' => Carries(d) /\ call'[d].m = call[d].m
    BY <1>1 DEF Carries
  <2>7. New'
    BY <1>1, <2>1, <2>2, <2>3, <2>6 DEF MsgInv, New, Known
  <2>8. \A d \in Clients \ {c} : Carries(d)' => call'[d].m # call'[c].m
    BY <2>1, <2>2, <2>6 DEF MsgInv, New
  <2>9. OneEach'
    BY <2>6, <2>8 DEF MsgInv, OneEach
  <2> QED BY <2>4, <2>5, <2>7, <2>9 DEF MsgInv
<1> QED BY <1>2, <1>3

LEMMA PutMsg ==
  ASSUME IInv, MsgInv, NEW c \in Clients, PutAppend(c)
  PROVE  MsgInv'
<1>a. /\ TypeOK /\ pc[c] = "inQ" /\ call[c].op = "enqueue" /\ Carries(c)
      /\ call[c].q \in Refs /\ call[c].m \in Msgs /\ heap \in [Refs -> Objects]
  BY DEF IInv, CallInv, WellPlaced, TypeOK, PutAppend, InQ, At, Carries
<1>b. PICK q0 \in Refs, m \in Msgs : q0 = call[c].q /\ m = call[c].m
  BY <1>a
<1>0. /\ TypeOK /\ pc[c] = "inQ" /\ call[c].op = "enqueue" /\ Carries(c)
      /\ q0 = call[c].q /\ m = call[c].m /\ heap \in [Refs -> Objects]
  BY <1>a, <1>b
<1>1. \A d \in Clients : call'[d].op = call[d].op /\ call'[d].m = call[d].m
  BY <1>0, AnswerIs DEF PutAppend
<1>2. pc'[c] = "inQ2" /\ \A d \in Clients \ {c} : pc'[d] = pc[d]
  BY <1>0 DEF PutAppend, Goto, TypeOK
<1>3. /\ heap'[q0].Messages = Append(heap[q0].Messages, m)
      /\ \A q \in Refs \ {q0} : heap'[q] = heap[q]
      /\ UNCHANGED <<minted, delivered>>
  BY <1>0, AppendedIs DEF PutAppend, Queue
<1>4. /\ m \in (1..minted) \ delivered
      /\ \A q \in Refs : m \notin Stored(q)
  BY <1>0 DEF MsgInv, New
<1>5. /\ Stored(q0)' = Stored(q0) \cup {m}
      /\ NoRepeat(heap'[q0].Messages)
      /\ \A q \in Refs \ {q0} : Stored(q)' = Stored(q) /\ NoRepeat(heap'[q].Messages)
  <2>1. NoRepeat(heap[q0].Messages) /\ m \notin Content(heap[q0].Messages)
    BY <1>0, <1>4 DEF MsgInv, Single, Stored
  <2>2. /\ Content(heap'[q0].Messages) = Content(heap[q0].Messages) \cup {m}
        /\ NoRepeat(heap'[q0].Messages)
    BY <1>0, <1>3, <2>1, MessagesType, AppendContent
  <2> QED BY <1>3, <2>2 DEF Stored, Content, MsgInv, Single, NoRepeat
<1>6. \A d \in Clients : Carries(d)' => Carries(d) /\ d # c
  BY <1>1, <1>2 DEF Carries
<1>7. Known'
  BY <1>0, <1>3, <1>4, <1>5 DEF MsgInv, Known
<1>8. Apart'
  BY <1>0, <1>4, <1>5 DEF MsgInv, Apart
<1>9. Single'
  BY <1>0, <1>5 DEF Single
<1>10. \A d \in Clients : Carries(d)' => call'[d].m # m
  BY <1>0, <1>1, <1>6 DEF MsgInv, OneEach
<1>11. New'
  BY <1>0, <1>1, <1>3, <1>5, <1>6, <1>10 DEF MsgInv, New
<1>12. OneEach'
  BY <1>1, <1>6 DEF MsgInv, OneEach
<1> QED BY <1>7, <1>8, <1>9, <1>11, <1>12 DEF MsgInv

LEMMA DropMsg ==
  ASSUME IInv, MsgInv, NEW c \in Clients, GetDrop(c)
  PROVE  MsgInv' /\ call[c].m \notin delivered
<1>a. /\ TypeOK /\ pc[c] = "inQ2" /\ call[c].op = "dequeue" /\ heap \in [Refs -> Objects]
  BY DEF IInv, TypeOK, GetDrop, At
<1>b. /\ Queue(c) \in Refs /\ call[c].m \in Msgs
      /\ heap[Queue(c)].Messages # <<>> /\ call[c].m = Head(heap[Queue(c)].Messages)
  BY HeadIs DEF GetDrop
<1>c. PICK q0 \in Refs, m \in Msgs : q0 = call[c].q /\ m = call[c].m
  BY <1>b DEF Queue
<1>0. /\ TypeOK /\ pc[c] = "inQ2" /\ call[c].op = "dequeue"
      /\ q0 = call[c].q /\ m = call[c].m /\ heap \in [Refs -> Objects]
      /\ heap[q0].Messages # <<>> /\ m = Head(heap[q0].Messages)
  BY <1>a, <1>b, <1>c DEF Queue
<1>1. \A d \in Clients : call'[d].op = call[d].op /\ call'[d].m = call[d].m
  BY <1>0, AnswerIs DEF GetDrop
<1>2. pc'[c] = "done" /\ \A d \in Clients \ {c} : pc'[d] = pc[d]
  BY <1>0 DEF GetDrop, UnlockQ, Goto, TypeOK
<1>3. /\ heap'[q0].Messages = Tail(heap[q0].Messages)
      /\ \A q \in Refs \ {q0} : heap'[q] = heap[q]
      /\ minted' = minted /\ delivered' = delivered \cup {m}
  BY <1>0, DroppedIs DEF GetDrop, Queue
<1>4. /\ Stored(q0)' \subseteq Stored(q0) \ {m}
      /\ NoRepeat(heap'[q0].Messages)
      /\ m \in Stored(q0)
  <2>1. heap[q0].Messages \in Seq(Msgs) /\ NoRepeat(heap[q0].Messages)
    BY <1>0, MessagesType DEF MsgInv, Single
  <2>2. /\ Content(Tail(heap[q0].Messages)) \subseteq Content(heap[q0].Messages) \ {m}
        /\ NoRepeat(Tail(heap[q0].Messages))
        /\ m \in Content(heap[q0].Messages)
    BY <1>0, <2>1, TailContent
  <2>3. Stored(q0)' = Content(Tail(heap[q0].Messages))
    BY <1>3 DEF Stored, Content
  <2> QED BY <1>3, <2>2, <2>3 DEF Stored
<1>5. \A q \in Refs \ {q0} : Stored(q)' = Stored(q) /\ NoRepeat(heap'[q].Messages)
  BY <1>3 DEF Stored, Content, MsgInv, Single, NoRepeat
<1>6. \A d \in Clients : Carries(d)' => Carries(d)
  BY <1>1, <1>2 DEF Carries
<1>7. m \in (1..minted) \ delivered
  BY <1>0, <1>4 DEF MsgInv, Known
<1>8. \A q \in Refs : m \notin Stored(q)'
  BY <1>0, <1>4, <1>5 DEF MsgInv, Apart
<1>9. Known'
  BY <1>0, <1>3, <1>4, <1>5, <1>7, <1>8 DEF MsgInv, Known
<1>10. Apart'
  BY <1>0, <1>4, <1>5 DEF MsgInv, Apart
<1>11. Single'
  BY <1>0, <1>4, <1>5 DEF Single
<1>12. New'
  <2>1. \A d \in Clients : Carries(d) => call[d].m # m
    BY <1>0, <1>4 DEF MsgInv, New
  <2> QED BY <1>0, <1>1, <1>3, <1>4, <1>5, <1>6, <2>1 DEF MsgInv, New
<1>13. OneEach'
  BY <1>1, <1>6 DEF MsgInv, OneEach
<1> QED BY <1>7, <1>9, <1>10, <1>11, <1>12, <1>13, <1>0 DEF MsgInv

LEMMA ClearMsg ==
  ASSUME IInv, MsgInv, NEW c \in Clients, DrainClear(c)
  PROVE  MsgInv'
<1>a. /\ TypeOK /\ call[c].op = "drain" /\ pc[c] = "inQ"
      /\ call[c].q \in Refs /\ heap \in [Refs -> Objects]
  BY DEF IInv, CallInv, WellPlaced, TypeOK, DrainClear, InQ, At
<1>b. PICK q0 \in Refs : q0 = call[c].q
  BY <1>a
<1>0. /\ TypeOK /\ call[c].op = "drain" /\ pc[c] = "inQ"
      /\ q0 = call[c].q /\ heap \in [Refs -> Objects]
  BY <1>a, <1>b
<1>1. \A d \in Clients : call'[d].op = call[d].op /\ call'[d].m = call[d].m
  BY <1>0, AnswerIs DEF DrainClear
<1>2. pc'[c] = "inQ2" /\ \A d \in Clients \ {c} : pc'[d] = pc[d]
  BY <1>0 DEF DrainClear, Goto, TypeOK
<1>3. /\ heap'[q0].Messages = <<>>
      /\ \A q \in Refs \ {q0} : heap'[q] = heap[q]
      /\ UNCHANGED <<minted, delivered>>
  BY <1>0, ClearedIs DEF DrainClear, Queue
<1>4. Stored(q0)' = {} /\ NoRepeat(heap'[q0].Messages)
  BY <1>3 DEF Stored, Content, NoRepeat
<1>5. \A q \in Refs \ {q0} : Stored(q)' = Stored(q) /\ NoRepeat(heap'[q].Messages)
  BY <1>3 DEF Stored, Content, MsgInv, Single, NoRepeat
<1>6. \A d \in Clients : Carries(d)' => Carries(d) /\ call'[d].m = call[d].m
  BY <1>1, <1>2 DEF Carries
<1>7. \A q \in Refs : Stored(q)' \subseteq Stored(q) /\ NoRepeat(heap'[q].Messages)
  BY <1>4, <1>5
<1> QED BY <1>3, <1>6, <1>7, KeepMsg

(* The other steps move their goroutine and no message. *)
LEMMA OtherMsg ==
  ASSUME IInv, MsgInv, NEW c \in Clients,
         \/ Acquire(c) \/ \E op \in Ops, k \in {400, 500} : Refuse(c, op, k)
         \/ Proceed(c) /\ ~PutAppend(c) /\ ~GetDrop(c) /\ ~DrainClear(c)
  PROVE  MsgInv'
<1>0. /\ TypeOK /\ call \in [Clients -> Calls] /\ pc \in [Clients -> Labels]
      /\ heap \in [Refs -> Objects] /\ WellPlaced(c)
  BY DEF IInv, CallInv, TypeOK
<1>1. \A d \in Clients \ {c} : call'[d] = call[d] /\ pc'[d] = pc[d]
  <2>1. ASSUME NEW op \in Ops, NEW k \in {400, 500}, Refuse(c, op, k)
        PROVE  \A d \in Clients \ {c} : call'[d] = call[d] /\ pc'[d] = pc[d]
    BY <1>0, <2>1 DEF Refuse, Goto
  <2>2. CASE Acquire(c) \/ Proceed(c)
    BY <1>0, <2>2, OthersStay
  <2> QED BY <2>1, <2>2
<1>2. UNCHANGED <<minted, delivered>>
  BY DEF Acquire, LockB, RLockB, LockQ, RLockQ, Refuse, Proceed, RejectB, CreateQueue,
         DeleteQueue, DrainLookup, Lookup, LookupFails, PutCount, GetEmpty, GetHead,
         DrainCount, ReadRow, StatsDone, Respond
<1>3. \A q \in Refs : heap'[q].Messages = heap[q].Messages
  <2>1. CASE PutCount(c) \/ DrainCount(c)
    <3>1. call[c].q \in Refs
      BY <1>0, <2>1 DEF PutCount, DrainCount, At, WellPlaced
    <3>2. /\ Counted(heap[call[c].q]).Messages = heap[call[c].q].Messages
          /\ Zeroed(heap[call[c].q]).Messages = heap[call[c].q].Messages
      BY <1>0, <3>1, CountedIs, ZeroedIs
    <3> QED BY <1>0, <2>1, <3>1, <3>2 DEF PutCount, DrainCount, Queue
  <2>2. CASE ~PutCount(c) /\ ~DrainCount(c)
    <3>1. heap' = heap
      BY <2>2 DEF Acquire, LockB, RLockB, LockQ, RLockQ, Refuse, Proceed, RejectB, CreateQueue,
         DeleteQueue, DrainLookup, Lookup, LookupFails, GetEmpty, GetHead, ReadRow, StatsDone,
         Respond
    <3> QED BY <3>1
  <2> QED BY <2>1, <2>2
<1>4. Carries(c)' => Carries(c) /\ call'[c].m = call[c].m
  <2>1. ASSUME NEW op \in Ops, NEW k \in {400, 500}, Refuse(c, op, k) PROVE pc'[c] = "done"
    BY <1>0, <2>1 DEF Refuse, Goto
  <2>2. CASE LockB(c) \/ RLockB(c) \/ LockQ(c)
    BY <1>0, <2>2 DEF LockB, RLockB, LockQ, Goto, Carries, WellPlaced
  <2>3. ASSUME NEW n \in Names, RLockQ(c, n) PROVE pc'[c] = "row"
    BY <1>0, <2>3 DEF RLockQ, Goto
  <2>4. CASE Lookup(c)
    <3>1. call'[c].op = call[c].op /\ call'[c].m = call[c].m /\ pc[c] = "lookup"
      BY <1>0, <2>4 DEF Lookup, Calls
    <3> QED BY <3>1 DEF Carries
  <2>5. CASE DrainLookup(c)
    <3>1. call'[c].op = "drain"
      BY <1>0, <2>5 DEF DrainLookup, Calls, At
    <3> QED BY <3>1 DEF Carries
  <2>6. CASE \/ RejectB(c) \/ CreateQueue(c) \/ DeleteQueue(c) \/ LookupFails(c) \/ PutCount(c)
             \/ GetEmpty(c) \/ GetHead(c) \/ DrainCount(c) \/ ReadRow(c) \/ StatsDone(c)
             \/ Respond(c)
    <3>1. pc'[c] \in {"done", "inQ2", "scan", "idle"}
      BY <1>0, <2>6 DEF RejectB, CreateQueue, DeleteQueue, LookupFails, PutCount, GetEmpty,
             GetHead, DrainCount, ReadRow, StatsDone, Respond, UnlockQ, Goto
    <3> QED BY <3>1 DEF Carries
  <2> QED BY <2>1, <2>2, <2>3, <2>4, <2>5, <2>6 DEF Carries, Acquire, Proceed
<1>5. \A d \in Clients : Carries(d)' => Carries(d) /\ call'[d].m = call[d].m
  BY <1>1, <1>4 DEF Carries
<1> QED BY <1>2, <1>3, <1>5, SameMsg

-----------------------------------------------------------------------------
LEMMA InitMsg == Init => MsgInv
<1> SUFFICES ASSUME Init PROVE MsgInv
  OBVIOUS
<1>1. \A q \in Refs : heap[q].Messages = <<>>
  BY DEF Init, EmptyQueue
<1>2. \A q \in Refs : Stored(q) = {} /\ NoRepeat(heap[q].Messages)
  BY <1>1 DEF Stored, Content, NoRepeat
<1>3. \A c \in Clients : ~Carries(c)
  BY DEF Init, Carries
<1> QED BY <1>2, <1>3 DEF MsgInv, Known, Apart, Single, New, OneEach, Init

LEMMA NextMsg == IInv /\ MsgInv /\ [Next]_vars => MsgInv'
<1> SUFFICES ASSUME IInv, MsgInv, [Next]_vars PROVE MsgInv'
  OBVIOUS
<1>1. CASE UNCHANGED vars
  BY <1>1, SameMsg DEF vars, Carries
<1>2. ASSUME NEW c \in Clients, Arrive(c) \/ Acquire(c) \/ Proceed(c) PROVE MsgInv'
  <2>1. CASE Arrive(c)
    BY <2>1, RequestMsg, OtherMsg DEF Arrive
  <2>2. CASE Acquire(c) \/ Proceed(c)
    BY <2>2, PutMsg, DropMsg, ClearMsg, OtherMsg
  <2> QED BY <1>2, <2>1, <2>2
<1> QED BY <1>1, <1>2 DEF Next

(* Only the second half of GetMessage answers a dequeue with 200. *)
LEMMA OnlyDrop ==
  ASSUME IInv, MsgInv, Next, NEW c \in Clients,
         call[c].op = "dequeue", call[c].code = 0, call'[c].code = 200
  PROVE  call'[c].m \notin delivered
<1>1. PICK d \in Clients : Arrive(d) \/ Acquire(d) \/ Proceed(d)
  BY DEF Next
<1>2. d = c
  BY <1>1, OthersStay DEF IInv
<1>0. TypeOK /\ call \in [Clients -> Calls] /\ WellPlaced(c)
  BY DEF IInv, CallInv, TypeOK
<1>3. CASE GetDrop(c)
  <2>1. call'[c].m = call[c].m
    BY <1>0, <1>3, AnswerIs DEF GetDrop
  <2> QED BY <1>3, <2>1, DropMsg
<1>4. CASE Arrive(c)
  <2>1. ASSUME NEW op \in Ops, NEW n \in Names, Request(c, op, n) PROVE call'[c].code = 0
    BY <1>0, <2>1 DEF Request
  <2>2. ASSUME NEW op \in Ops, NEW k \in {400, 500}, Refuse(c, op, k)
        PROVE  call'[c].code = k
    BY <1>0, <2>2 DEF Refuse, NoCall
  <2> QED BY <1>4, <2>1, <2>2 DEF Arrive
<1>5. CASE Acquire(c)
  <2>1. ASSUME NEW n \in Names, RLockQ(c, n) PROVE call'[c].code = call[c].code
    BY <1>0, <2>1 DEF RLockQ, Calls
  <2>2. CASE LockB(c) \/ RLockB(c) \/ LockQ(c)
    BY <2>2 DEF LockB, RLockB, LockQ
  <2> QED BY <1>5, <2>1, <2>2 DEF Acquire
<1>6. CASE GetEmpty(c) \/ LookupFails(c) \/ RejectB(c)
  <2>1. \E k \in {204, 400} : Answer(c, k)
    BY <1>6 DEF GetEmpty, LookupFails, RejectB
  <2> QED BY <1>0, <2>1, AnswerIs
<1>7. CASE DrainLookup(c) \/ Lookup(c) \/ GetHead(c) \/ ReadRow(c)
  BY <1>0, <1>7 DEF DrainLookup, Lookup, GetHead, ReadRow, Calls
<1>8. CASE PutCount(c) \/ DrainCount(c)
  BY <1>8 DEF PutCount, DrainCount
<1>9. CASE Respond(c)
  BY <1>0, <1>9 DEF Respond, NoCall
<1>10. CASE CreateQueue(c) \/ DeleteQueue(c) \/ PutAppend(c) \/ DrainClear(c) \/ StatsDone(c)
  <2>1. call[c].op # "dequeue"
    BY <1>0, <1>10 DEF CreateQueue, DeleteQueue, PutAppend, DrainClear, StatsDone, InQ, At,
           WellPlaced
  <2> QED BY <2>1
<1> QED BY <1>1, <1>2, <1>3, <1>4, <1>5, <1>6, <1>7, <1>8, <1>9, <1>10 DEF Proceed

(* However puts, gets, drains and deletes interleave, and whichever objects *)
(* a name stands for in turn: no dequeue answers with a message that        *)
(* another one has answered with (broker.go, 158-174).                      *)
THEOREM DeliveredOnce == Spec => NoRedelivery
<1>1. IInv /\ MsgInv /\ [Next]_vars
        => [\A c \in Clients : call[c].op = "dequeue" /\ call[c].code = 0 /\ call'[c].code = 200
              => call'[c].m \notin delivered]_vars
  BY OnlyDrop
<1> QED BY <1>1, InitIInv, InitMsg, NextIInv, NextMsg, PTL DEF Spec, NoRedelivery

=============================================================================
