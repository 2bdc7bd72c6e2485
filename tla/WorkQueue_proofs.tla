--------------------------- MODULE WorkQueue_proofs ---------------------------
(***************************************************************************)
(* Theorems about WorkQueue, for any finite number of workers and users in *)
(* any processes, any number of items, queues, connections and faults.     *)
(*                                                                         *)
(* The invariant follows what is on its way.  Of the server: what a call   *)
(* has been answered (CallInv), that a queue which is not bound yet is     *)
(* empty (RefInv), that an item which is not in yet is new (MintInv).  Of  *)
(* the clients: whose a connection is (ActorInv), what the name led to     *)
(* since an exiting worker asked (PromiseInv), where each item is          *)
(* (PlaceInv), and who answers for a lost one (LossInv).                   *)
(***************************************************************************)
EXTENDS WorkQueue, FiniteSetTheorems, TLAPS

Ops    == Broker!NamedOps
Refs   == Broker!Refs
NoQueue == Broker!NoQueue
Msgs(q) == store[q].msgs

Pending(c, op) == Broker!Pending(c, op)

QueueType == [msgs : Seq(Items), enqueued : Nat, dequeued : Nat, drained : Nat]
ReqType   == [op : Ops \cup {"none"}, name : {Queue, Nil},
              q : Refs \cup {NoQueue}, m : Items \cup {NoItem}]
AnsType   == [code : {0, 200, 204, 400}, m : Items \cup {NoItem}, rows : {{}}]

ServerTypes ==
  /\ table \in [{Queue} -> Refs \cup {NoQueue}]
  /\ store \in [Refs -> QueueType]
  /\ phase \in [Conns -> {"idle", "pending", "answered"}]
  /\ req \in [Conns -> ReqType]
  /\ ans \in [Conns -> AnsType]
  /\ seen \in [Conns -> SUBSET (Refs \cup {NoQueue})]
  /\ minted \in 0..MaxMessages /\ allocated \in 0..MaxQueues

ActorTypes ==
  /\ conn \in [Actors -> Conns \cup {NoConn}]
  /\ at \in [Workers -> {"off", "check", "dequeue", "wait", "sleep", "gen", "stopped"}]
  /\ held \in [Workers -> Items \cup {NoItem}]
  /\ cancelled \in [Workers -> BOOLEAN] /\ files \in [Procs -> Nat]
  /\ faults \in Nat /\ puts \in Nat /\ broken \in Nat
  /\ acked \subseteq Items /\ left \subseteq Items
  /\ promised \in [Workers -> SUBSET Items]
  /\ done \in [Items -> 0..2]

TypeOK == ServerTypes /\ ActorTypes /\ entered \subseteq Items /\ taken \subseteq Items

CallInv ==
  \A c \in Conns :
    /\ phase[c] # "idle" => req[c].op \in Ops /\ req[c].name = Queue
    /\ phase[c] = "pending" => table[Queue] \in seen[c]
    /\ phase[c] = "answered" =>
         /\ ans[c].code \in {200, 204, 400}
         /\ ans[c].code # 200 => ans[c].m = NoItem
         /\ req[c].op = "enqueue" => ans[c].code # 204
         /\ (req[c].op = "enqueue" /\ ans[c].code = 200) => ans[c].m \in entered
         /\ (req[c].op = "dequeue" /\ ans[c].code = 200) => ans[c].m \in taken

RefInv ==
  /\ table[Queue] <= allocated
  /\ \A c \in Conns : \A q \in seen[c] : q <= allocated
  /\ \A q \in Refs : q > allocated => Msgs(q) = <<>>
  /\ \A c \in Conns : Pending(c, "create") =>
       /\ req[c].q \in 1..allocated /\ Msgs(req[c].q) = <<>>
       /\ req[c].q # table[Queue]
       /\ \A d \in Conns : req[c].q \notin seen[d]
       /\ \A d \in Conns : (Pending(d, "create") /\ req[c].q = req[d].q) => c = d

MintInv ==
  /\ entered \subseteq 1..minted /\ acked \subseteq entered
  /\ \A c \in Conns : Pending(c, "enqueue") =>
       /\ req[c].m \in (1..minted) \ entered
       /\ \A d \in Conns : (Pending(d, "enqueue") /\ req[c].m = req[d].m) => c = d

ActorInv ==
  /\ \A a \in Actors : conn[a] # NoConn =>
       /\ phase[conn[a]] # "idle"
       /\ \A b \in Actors : conn[a] = conn[b] => a = b
       /\ a \in Workers <=> req[conn[a]].op = "dequeue"
  /\ \A w \in Workers : /\ at[w] = "wait" <=> conn[w] # NoConn
                        /\ at[w] = "gen" <=> held[w] # NoItem

PromiseInv ==
  /\ \A w \in Workers :
       /\ promised[w] \subseteq acked
       /\ promised[w] \cap Waiting # {} =>
            /\ conn[w] # NoConn 
            /\ phase[conn[w]] = "pending" => seen[conn[w]] = {table[Queue]}
            /\ phase[conn[w]] = "answered" => ans[conn[w]].code # 204

Has(w) == IF held[w] # NoItem THEN held[w] ELSE IF Answered(w) THEN Item(w) ELSE NoItem

PlaceInv ==
  /\ Stored \cup taken \subseteq entered
  /\ Stored \cap taken = {}
  /\ \A i \in Items : done[i] > 0 => i \in taken
  /\ \A q \in Refs : \A j, k \in DOMAIN Msgs(q) : Msgs(q)[j] = Msgs(q)[k] => j = k
  /\ \A q, r \in Refs : q # r => Range(Msgs(q)) \cap Range(Msgs(r)) = {}
  /\ \A w \in Workers : Has(w) # NoItem =>
       /\ Has(w) \in taken /\ done[Has(w)] = 0
       /\ \A v \in Workers : Has(v) = Has(w) => v = w

Lost    == {i \in taken : done[i] = 0 /\ \A w \in Workers : Has(w) # i}
Orphans == {c \in Conns : Pending(c, "dequeue") /\ \A a \in Actors : conn[a] # c}

LossInv == Cardinality(Lost) + Cardinality(Orphans) <= broken

IInv ==
  /\ TypeOK /\ CallInv /\ RefInv /\ MintInv
  /\ ActorInv /\ PromiseInv /\ PlaceInv /\ LossInv

-----------------------------------------------------------------------------
(* TYPES *)

LEMMA Constants ==
  /\ Conns \subseteq Nat \ {NoConn}
  /\ Refs \subseteq Nat \ {NoQueue} /\ Items \subseteq Nat \ {NoItem}
  /\ NoConn = 0 /\ NoQueue = 0 /\ NoItem = 0 /\ NoItem = Broker!NoMessage
  /\ Refs = 1..MaxQueues /\ MaxQueues \in Nat /\ MaxMessages \in Nat
  /\ Ops = {"create", "delete", "drain", "enqueue", "dequeue"}
  /\ Actors = Workers \cup Users /\ Workers \cap Users = {} /\ IsFiniteSet(Workers)
  BY WorkQueueAssumption
  DEF WorkQueueAssumption, Conns, Refs, Items, NoConn, NoQueue, NoItem, Ops, Actors,
      Broker!Refs, Broker!NoQueue, Broker!NoMessage, Broker!NamedOps

LEMMA Blanks ==
  /\ Broker!NewQueue \in QueueType /\ Broker!NewQueue.msgs = <<>>
  /\ Broker!NoReq \in ReqType /\ Broker!NoReq.op = "none"
  /\ Broker!NoAns = [code |-> 0, m |-> NoItem, rows |-> {}] /\ Broker!NoAns \in AnsType
  /\ \A k \in {200, 204, 400} : /\ Broker!Code(k) \in AnsType
                              /\ Broker!Code(k) = [code |-> k, m |-> NoItem, rows |-> {}]
<1>1. Broker!NewQueue \in QueueType /\ Broker!NewQueue.msgs = <<>>
  BY DEF Broker!NewQueue, QueueType
<1>2. Broker!NoReq \in ReqType /\ Broker!NoReq.op = "none"
  BY Constants DEF Broker!NoReq, ReqType, Broker!NoQueue, NoQueue
<1>3. Broker!NoAns = [code |-> 0, m |-> NoItem, rows |-> {}] /\ Broker!NoAns \in AnsType
  BY Constants DEF Broker!NoAns, AnsType
<1>4. ASSUME NEW k \in {200, 204, 400}
      PROVE  /\ Broker!Code(k) \in AnsType
             /\ Broker!Code(k) = [code |-> k, m |-> NoItem, rows |-> {}]
  BY <1>3 DEF Broker!Code, AnsType
<1> QED
  BY <1>1, <1>2, <1>3, <1>4

LEMMA InitTypes == Init => TypeOK
  BY Blanks, Constants DEF Init, Broker!Init, TypeOK, ServerTypes, ActorTypes, Refs, NoQueue

LEMMA AskTypes ==
  ASSUME ServerTypes, NEW c \in Conns, NEW op \in Ops, Broker!Ask(c, op, Queue)
  PROVE  ServerTypes'
<1> DEFINE r == [op |-> op, name |-> IF op = "stats" THEN Nil ELSE Queue,
                 q |-> IF op = "create" THEN allocated' ELSE Broker!NoQueue,
                 m |-> IF op = "enqueue" THEN minted' ELSE Broker!NoMessage]
<1>1. minted' \in 0..MaxMessages /\ allocated' \in 0..MaxQueues
  BY Constants DEF ServerTypes, Broker!Ask
<1>2. op = "create" => allocated' \in Refs
  BY <1>1, Constants DEF Broker!Ask, ServerTypes
<1>3. op = "enqueue" => minted' \in Items
  BY <1>1, Constants DEF Broker!Ask, ServerTypes, Items
<1>4. r \in ReqType
  BY <1>2, <1>3, Constants DEF ReqType, NoQueue
<1>5. req' = [req EXCEPT ![c] = r]
  BY DEF Broker!Ask
<1> HIDE DEF r
<1>6. table[Queue] \in Refs \cup {NoQueue}
  BY DEF ServerTypes
<1> QED
  BY <1>1, <1>4, <1>5, <1>6 DEF ServerTypes, Broker!Ask

LEMMA ForgetTypes ==
  ASSUME ServerTypes, NEW c \in Conns, Broker!Forget(c)
  PROVE  ServerTypes'
  BY Blanks DEF ServerTypes, Broker!Forget

LEMMA ResetTypes ==
  ASSUME ServerTypes, ServerReset
  PROVE  ServerTypes'
  BY Blanks DEF ServerTypes, ServerReset, Refs, NoQueue

(* What each answer of the server is, and what becomes of the queues.       *)
Answers(c, k, i) ==
  /\ phase[c] = "pending" /\ phase' = [phase EXCEPT ![c] = "answered"]
  /\ ans' = [ans EXCEPT ![c] = [code |-> k, m |-> i, rows |-> {}]]
  /\ UNCHANGED <<req, minted, allocated>>

Became(q, s) == \A r \in Refs : Msgs(r)' = IF r = q THEN s ELSE Msgs(r)

LEMMA AnswerTypes ==
  ASSUME ServerTypes, NEW c \in Conns,
         NEW k \in {200, 204, 400}, NEW i \in Items \cup {NoItem}, Answers(c, k, i),
         table' \in [{Queue} -> Refs \cup {NoQueue}], store' \in [Refs -> QueueType],
         seen' \in [Conns -> SUBSET (Refs \cup {NoQueue})]
  PROVE  ServerTypes'
<1> DEFINE a == [code |-> k, m |-> i, rows |-> {}]
<1>1. a \in AnsType
  BY DEF AnsType
<1>2. ans' = [ans EXCEPT ![c] = a]
  BY DEF Answers
<1> HIDE DEF a
<1>3. ans' \in [Conns -> AnsType]
  BY <1>1, <1>2 DEF ServerTypes
<1>4. phase' \in [Conns -> {"idle", "pending", "answered"}]
  BY DEF ServerTypes, Answers
<1>5. /\ req' \in [Conns -> ReqType]
      /\ minted' \in 0..MaxMessages /\ allocated' \in 0..MaxQueues
  BY DEF ServerTypes, Answers
<1> QED
  BY <1>3, <1>4, <1>5 DEF ServerTypes

LEMMA RebindIs ==
  ASSUME ServerTypes, NEW c \in Conns, NEW q \in Refs \cup {NoQueue}, Broker!Rebind(Queue, q)
  PROVE  /\ table' \in [{Queue} -> Refs \cup {NoQueue}] /\ table'[Queue] = q
         /\ seen' \in [Conns -> SUBSET (Refs \cup {NoQueue})]
         /\ \A d \in Conns : seen'[d] = IF req[d].op \in Ops /\ req[d].name = Queue
                                        THEN seen[d] \cup {q} ELSE seen[d]
<1>1. table' \in [{Queue} -> Refs \cup {NoQueue}] /\ table'[Queue] = q
  BY DEF Broker!Rebind, ServerTypes
<1>2. seen' = [d \in Conns |-> IF req[d].op \in Ops /\ req[d].name = Queue
                               THEN seen[d] \cup {q} ELSE seen[d]]
  BY DEF Broker!Rebind, Ops
<1> QED
  BY <1>1, <1>2 DEF ServerTypes

LEMMA CreateIs ==
  ASSUME ServerTypes, NEW c \in Conns, Broker!Create(c), req[c].name = Queue, req[c].q \in Refs
  PROVE  /\ ServerTypes' /\ Answers(c, 200, NoItem) /\ store' = store
         /\ Pending(c, "create") /\ table[Queue] = NoQueue /\ table'[Queue] = req[c].q
         /\ \A d \in Conns : seen'[d] = IF req[d].op \in Ops /\ req[d].name = Queue
                                        THEN seen[d] \cup {req[c].q} ELSE seen[d]
<1>1. Answers(c, 200, NoItem) /\ store' = store /\ Pending(c, "create")
  BY Blanks DEF Broker!Create, Broker!Give, Answers, Pending, Broker!Pending
<1>2. Broker!Rebind(Queue, req[c].q) /\ table[Queue] = NoQueue
  BY DEF Broker!Create, NoQueue
<1>3. store' \in [Refs -> QueueType]
  BY <1>1 DEF ServerTypes
<1>4. ServerTypes'
  BY <1>1, <1>2, <1>3, RebindIs, AnswerTypes
<1> QED
  BY <1>1, <1>2, <1>4, RebindIs

LEMMA DeleteIs ==
  ASSUME ServerTypes, NEW c \in Conns, Broker!Delete(c), req[c].name = Queue
  PROVE  /\ ServerTypes' /\ Answers(c, 200, NoItem) /\ store' = store
         /\ Pending(c, "delete") /\ table'[Queue] = NoQueue
         /\ \A d \in Conns : seen'[d] = IF req[d].op \in Ops /\ req[d].name = Queue
                                        THEN seen[d] \cup {NoQueue} ELSE seen[d]
<1>1. Answers(c, 200, NoItem) /\ store' = store /\ Pending(c, "delete")
  BY Blanks DEF Broker!Delete, Broker!Give, Answers, Pending, Broker!Pending
<1>2. Broker!Rebind(Queue, NoQueue)
  BY DEF Broker!Delete, NoQueue
<1>3. store' \in [Refs -> QueueType]
  BY <1>1 DEF ServerTypes
<1>4. ServerTypes'
  BY <1>1, <1>2, <1>3, RebindIs, AnswerTypes
<1> QED
  BY <1>1, <1>2, <1>4, RebindIs

LEMMA FailIs ==
  ASSUME ServerTypes, NEW c \in Conns, Broker!Fail(c)
  PROVE  ServerTypes' /\ Answers(c, 400, NoItem) /\ UNCHANGED <<table, store, seen>>
<1>1. Answers(c, 400, NoItem) /\ UNCHANGED <<table, store, seen>>
  BY Blanks DEF Broker!Fail, Broker!Give, Answers
<1> QED
  BY <1>1, AnswerTypes DEF ServerTypes

LEMMA QueueFields ==
  ASSUME NEW s \in QueueType
  PROVE  /\ s.msgs \in Seq(Items) /\ s.enqueued \in Nat /\ s.dequeued \in Nat
         /\ s.drained \in Nat
<1> DEFINE S == Seq(Items)
<1>1. QueueType = [msgs : S, enqueued : Nat, dequeued : Nat, drained : Nat]
  BY DEF QueueType
<1> HIDE DEF S
<1>2. /\ s.msgs \in S /\ s.enqueued \in Nat /\ s.dequeued \in Nat
      /\ s.drained \in Nat
  BY <1>1
<1> QED
  BY <1>2 DEF S

(* The contents of a queue and one of its counts change together. *)
SetIn(s, x, n)  == [s EXCEPT !.msgs = x, !.enqueued = n]
SetOut(s, x, n) == [s EXCEPT !.msgs = x, !.dequeued = n]
Emptied(s, n)   == [s EXCEPT !.msgs = <<>>, !.drained = n]

LEMMA QueueSet ==
  ASSUME NEW s \in QueueType, NEW x \in Seq(Items), NEW n \in Nat
  PROVE  /\ SetIn(s, x, n) \in QueueType /\ SetIn(s, x, n).msgs = x
         /\ SetOut(s, x, n) \in QueueType /\ SetOut(s, x, n).msgs = x
         /\ Emptied(s, n) \in QueueType /\ Emptied(s, n).msgs = <<>>
<1> DEFINE S == Seq(Items)
           e == <<>>
<1>1. QueueType = [msgs : S, enqueued : Nat, dequeued : Nat, drained : Nat] /\ x \in S
  BY DEF QueueType
<1>2. e \in S
  OBVIOUS
<1>3. Emptied(s, n) = [s EXCEPT !.msgs = e, !.drained = n]
  BY DEF Emptied
<1> HIDE DEF S, e
<1>4. Emptied(s, n) \in QueueType /\ Emptied(s, n).msgs = e
  BY <1>1, <1>2, <1>3
<1> QED
  BY <1>1, <1>4 DEF SetIn, SetOut, e

LEMMA QueueBecame ==
  ASSUME ServerTypes, NEW q \in Refs, NEW s \in QueueType, store' = [store EXCEPT ![q] = s]
  PROVE  store' \in [Refs -> QueueType] /\ Became(q, s.msgs)
  BY DEF ServerTypes, Became, Msgs

LEMMA DrainIs ==
  ASSUME ServerTypes, NEW c \in Conns, Broker!Drain(c), req[c].name = Queue
  PROVE  /\ ServerTypes' /\ Answers(c, 200, NoItem) /\ UNCHANGED <<table, seen>>
         /\ Pending(c, "drain") /\ table[Queue] \in Refs /\ Became(table[Queue], <<>>)
<1> DEFINE q == table[Queue]
           y == store[q]
           n == y.drained + Len(y.msgs)
           s == Emptied(y, n)
<1>1. Answers(c, 200, NoItem) /\ UNCHANGED <<table, seen>> /\ Pending(c, "drain")
  BY Blanks DEF Broker!Drain, Broker!Give, Answers, Pending, Broker!Pending
<1>2. q \in Refs
  BY DEF Broker!Drain, ServerTypes, NoQueue
<1>3. y \in QueueType
  BY <1>2 DEF ServerTypes
<1>4. n \in Nat
  BY <1>3, QueueFields
<1>5. store' = [store EXCEPT ![q] = s]
  BY DEF Broker!Drain, ServerTypes, Emptied
<1> HIDE DEF q, y, n
<1>6. s \in QueueType /\ s.msgs = <<>>
  <2>1. <<>> \in Seq(Items)
    OBVIOUS
  <2> QED
    BY <1>3, <1>4, <2>1, QueueSet
<1> HIDE DEF s
<1>7. store' \in [Refs -> QueueType] /\ Became(q, <<>>)
  BY <1>2, <1>5, <1>6, QueueBecame
<1>8. ServerTypes'
  BY <1>1, <1>7, AnswerTypes DEF ServerTypes
<1> QED
  BY <1>1, <1>2, <1>7, <1>8 DEF q

LEMMA Found ==
  ASSUME NEW i
  PROVE  [Broker!Code(200) EXCEPT !.m = i] = [code |-> 200, m |-> i, rows |-> {}]
<1>1. Broker!Code(200) = [code |-> 200, m |-> NoItem, rows |-> {}]
  BY Blanks
<1> QED
  BY <1>1

LEMMA EnqueueIs ==
  ASSUME ServerTypes, NEW c \in Conns, Broker!Enqueue(c), req[c].m \in Items
  PROVE  /\ ServerTypes' /\ Answers(c, 200, req[c].m) /\ UNCHANGED <<table, seen>>
         /\ Pending(c, "enqueue")
         /\ \E q \in seen[c] \cap Refs : Became(q, Append(Msgs(q), req[c].m))
<1>1. PICK q \in seen[c] \ {Broker!NoQueue} :
        store' = [store EXCEPT ![q].msgs = Append(@, req[c].m), ![q].enqueued = @ + 1]
  BY DEF Broker!Enqueue
<1> DEFINE x == Append(Msgs(q), req[c].m)
           y == store[q]
           n == y.enqueued + 1
           s == SetIn(y, x, n)
<1>2. Answers(c, 200, req[c].m) /\ UNCHANGED <<table, seen>> /\ Pending(c, "enqueue")
  <2>1. [Broker!Code(200) EXCEPT !.m = req[c].m] = [code |-> 200, m |-> req[c].m, rows |-> {}]
    BY Found
  <2> QED
    BY <2>1 DEF Broker!Enqueue, Broker!Give, Answers, Pending, Broker!Pending
<1>3. q \in Refs /\ store[q] \in QueueType
  BY DEF ServerTypes, NoQueue
<1>9. y \in QueueType
  BY <1>3
<1>4. x \in Seq(Items) /\ n \in Nat
  BY <1>3, QueueFields DEF Msgs
<1>5. store' = [store EXCEPT ![q] = s]
  BY <1>1, <1>3 DEF ServerTypes, Msgs, SetIn
<1> HIDE DEF x, n, y
<1>6. s \in QueueType /\ s.msgs = x
  BY <1>9, <1>4, QueueSet
<1> HIDE DEF s
<1>7. store' \in [Refs -> QueueType] /\ Became(q, x)
  BY <1>3, <1>5, <1>6, QueueBecame
<1>8. ServerTypes'
  BY <1>2, <1>7, AnswerTypes DEF ServerTypes
<1> QED
  BY <1>2, <1>3, <1>7, <1>8 DEF x

LEMMA HeadTail ==
  ASSUME NEW s \in Seq(Items), s # <<>>
  PROVE  Head(s) \in Items /\ Tail(s) \in Seq(Items)
  OBVIOUS

LEMMA DequeueIs ==
  ASSUME ServerTypes, NEW c \in Conns, Broker!Dequeue(c)
  PROVE  /\ ServerTypes' /\ UNCHANGED <<table, seen>> /\ Pending(c, "dequeue")
         /\ \E q \in seen[c] \cap Refs :
              \/ /\ Msgs(q) # <<>> /\ Became(q, Tail(Msgs(q)))
                 /\ Head(Msgs(q)) \in Items /\ Answers(c, 200, Head(Msgs(q)))
              \/ Msgs(q) = <<>> /\ store' = store /\ Answers(c, 204, NoItem)
<1>1. PICK q \in seen[c] \ {Broker!NoQueue} :
       \/ /\ store[q].msgs # <<>>
          /\ store' = [store EXCEPT ![q].msgs = Tail(@), ![q].dequeued = @ + 1]
          /\ Broker!Give(c, [Broker!Code(200) EXCEPT !.m = Head(store[q].msgs)])
       \/ /\ store[q].msgs = <<>>
          /\ store' = store
          /\ Broker!Give(c, Broker!Code(204))
  BY DEF Broker!Dequeue
<1>2. UNCHANGED <<table, req, seen, minted, allocated>> /\ Pending(c, "dequeue")
  BY DEF Broker!Dequeue, Pending
<1>3. q \in Refs /\ q \in seen[c] /\ store[q] \in QueueType
  BY DEF ServerTypes, NoQueue
<1>4. CASE Msgs(q) = <<>>
  <2>1. store' = store /\ Answers(c, 204, NoItem)
    BY <1>1, <1>2, <1>4, Blanks DEF Msgs, Broker!Give, Answers, Pending, Broker!Pending
  <2>2. ServerTypes'
    BY <1>2, <2>1, AnswerTypes DEF ServerTypes
  <2> QED
    BY <1>2, <1>3, <1>4, <2>1, <2>2
<1>5. CASE Msgs(q) # <<>>
  <2> DEFINE h == Head(Msgs(q))
             x == Tail(Msgs(q))
             y == store[q]
             n == y.dequeued + 1
             s == SetOut(y, x, n)
  <2>1. /\ store' = [store EXCEPT ![q].msgs = Tail(@), ![q].dequeued = @ + 1]
        /\ Broker!Give(c, [Broker!Code(200) EXCEPT !.m = h])
    BY <1>1, <1>5 DEF Msgs
  <2>2. Answers(c, 200, h)
    <3>1. [Broker!Code(200) EXCEPT !.m = h] = [code |-> 200, m |-> h, rows |-> {}]
      BY Found
    <3> QED
      BY <1>2, <2>1, <3>1 DEF Broker!Give, Answers, Pending, Broker!Pending
  <2>3. h \in Items /\ x \in Seq(Items) /\ n \in Nat
    BY <1>3, <1>5, QueueFields, HeadTail DEF Msgs
  <2>8. y \in QueueType
    BY <1>3
  <2>4. store' = [store EXCEPT ![q] = s]
    BY <1>3, <2>1 DEF ServerTypes, Msgs, SetOut
  <2> HIDE DEF x, n, h, y
  <2>5. s \in QueueType /\ s.msgs = x
    BY <2>8, <2>3, QueueSet
  <2> HIDE DEF s
  <2>6. store' \in [Refs -> QueueType] /\ Became(q, x)
    BY <1>3, <2>4, <2>5, QueueBecame
  <2>7. ServerTypes'
    BY <1>2, <2>2, <2>3, <2>6, AnswerTypes DEF ServerTypes
  <2> QED
    BY <1>2, <1>3, <1>5, <2>2, <2>3, <2>6, <2>7 DEF x, h
<1> QED
  BY <1>4, <1>5

-----------------------------------------------------------------------------
(* THE CONTENTS OF THE QUEUES *)

NoRepeat(s) == \A j, k \in DOMAIN s : s[j] = s[k] => j = k

LEMMA AppendRange ==
  ASSUME NEW s \in Seq(Items), NEW i \in Items
  PROVE  /\ Range(Append(s, i)) = Range(s) \cup {i}
         /\ NoRepeat(s) /\ i \notin Range(s) => NoRepeat(Append(s, i))
<1> DEFINE t == Append(s, i)
<1>1. /\ Len(s) \in Nat /\ DOMAIN s = 1..Len(s) /\ DOMAIN t = 1..(Len(s) + 1)
      /\ t[Len(s) + 1] = i /\ \A j \in 1..Len(s) : t[j] = s[j]
  OBVIOUS
<1> HIDE DEF t
<1>2. Range(t) \subseteq Range(s) \cup {i} /\ Range(s) \cup {i} \subseteq Range(t)
  BY <1>1 DEF Range
<1>3. ASSUME NoRepeat(s), i \notin Range(s) PROVE NoRepeat(t)
  <2>1. \A j \in 1..Len(s) : s[j] # i
    BY <1>1, <1>3 DEF Range
  <2> QED
    BY <1>1, <1>3, <2>1 DEF NoRepeat
<1> QED
  BY <1>2, <1>3 DEF t

LEMMA TailRange ==
  ASSUME NEW s \in Seq(Items), s # <<>>, NoRepeat(s)
  PROVE  /\ Range(Tail(s)) = Range(s) \ {Head(s)} /\ Head(s) \in Range(s)
         /\ NoRepeat(Tail(s))
<1> DEFINE t == Tail(s)
<1>1. /\ Len(s) \in Nat /\ Len(s) > 0 /\ DOMAIN s = 1..Len(s) /\ DOMAIN t = 1..(Len(s) - 1)
      /\ Head(s) = s[1] /\ \A j \in 1..(Len(s) - 1) : t[j] = s[j + 1]
  OBVIOUS
<1> HIDE DEF t
<1>2. ASSUME NEW x \in Range(t) PROVE x \in Range(s) \ {Head(s)}
  <2>1. PICK j \in 1..(Len(s) - 1) : x = s[j + 1]
    BY <1>1, <1>2 DEF Range
  <2>2. j + 1 \in DOMAIN s /\ 1 \in DOMAIN s /\ j + 1 # 1
    BY <1>1
  <2> QED
    BY <1>1, <2>1, <2>2 DEF Range, NoRepeat
<1>3. ASSUME NEW x \in Range(s) \ {Head(s)} PROVE x \in Range(t)
  <2>1. PICK j \in 1..Len(s) : x = s[j]
    BY <1>1, <1>3 DEF Range
  <2>2. j - 1 \in DOMAIN t /\ t[j - 1] = x
    BY <1>1, <1>3, <2>1
  <2> QED
    BY <2>2 DEF Range
<1>4. ASSUME NEW j \in DOMAIN t, NEW k \in DOMAIN t, t[j] = t[k] PROVE j = k
  <2>1. j + 1 \in DOMAIN s /\ k + 1 \in DOMAIN s /\ s[j + 1] = s[k + 1]
    BY <1>1, <1>4
  <2>2. j + 1 = k + 1
    BY <2>1 DEF NoRepeat
  <2> QED
    BY <1>1, <2>2
<1>5. 1 \in DOMAIN s
  BY <1>1
<1>6. Head(s) \in Range(s)
  BY <1>1, <1>5 DEF Range
<1> QED
  BY <1>2, <1>3, <1>4, <1>6 DEF t, NoRepeat

In(q) == Range(Msgs(q))

LEMMA StoredIs == /\ \A i : i \in Stored <=> \E q \in Refs : i \in In(q)
                  /\ \A i : i \in Stored' <=> \E q \in Refs : i \in In(q)'
  BY DEF Stored, In, Msgs, Refs

LEMMA WaitingIs == \A i : i \in Waiting <=> table[Queue] # NoQueue /\ i \in In(table[Queue])
  BY DEF Waiting, In, Msgs, NoQueue

LEMMA InTypes == ASSUME ServerTypes, NEW q \in Refs PROVE Msgs(q) \in Seq(Items) /\ In(q) \subseteq Items
<1>1. Msgs(q) \in Seq(Items)
  BY QueueFields DEF ServerTypes, Msgs
<1> QED
  BY <1>1 DEF In, Range

(* The steps of the server, with what they do to the items.                 *)
Rebinds(q) ==
  /\ table'[Queue] = q /\ store' = store
  /\ \A d \in Conns : seen'[d] = IF req[d].op \in Ops /\ req[d].name = Queue
                                 THEN seen[d] \cup {q} ELSE seen[d]

Creates(c) == /\ Pending(c, "create") /\ Answers(c, 200, NoItem)
              /\ table[Queue] = NoQueue /\ Rebinds(req[c].q)
              /\ UNCHANGED <<entered, taken>>
Deletes(c) == /\ Pending(c, "delete") /\ Answers(c, 200, NoItem)
              /\ Rebinds(NoQueue)
              /\ UNCHANGED <<entered, taken>>
Fails(c)   == /\ Answers(c, 400, NoItem)
              /\ UNCHANGED <<table, store, seen, entered, taken>>
Drains(c)  == /\ Pending(c, "drain") /\ Answers(c, 200, NoItem)
              /\ table[Queue] \in Refs /\ Became(table[Queue], <<>>)
              /\ UNCHANGED <<table, seen, entered, taken>>
Puts(c, q) == /\ Pending(c, "enqueue") /\ Answers(c, 200, req[c].m) /\ req[c].m \in Items
              /\ Became(q, Append(Msgs(q), req[c].m))
              /\ entered' = entered \cup {req[c].m}
              /\ UNCHANGED <<table, seen, taken>>
Takes(c, q) == /\ Pending(c, "dequeue") /\ Answers(c, 200, Head(Msgs(q)))
               /\ Head(Msgs(q)) \in Items /\ Msgs(q) # <<>>
               /\ Became(q, Tail(Msgs(q)))
               /\ taken' = taken \cup {Head(Msgs(q))}
               /\ UNCHANGED <<table, seen, entered>>
TakesNone(c, q) == /\ Pending(c, "dequeue") /\ Answers(c, 204, NoItem)
                   /\ Msgs(q) = <<>>
                   /\ UNCHANGED <<table, store, seen, entered, taken>>

Serves(c) ==
  \/ Creates(c) \/ Deletes(c) \/ Fails(c) \/ Drains(c)
  \/ \E q \in seen[c] \cap Refs : Puts(c, q) \/ Takes(c, q) \/ TakesNone(c, q)

LEMMA BecameStored ==
  ASSUME NEW q \in Refs, NEW s, Became(q, s)
  PROVE  /\ In(q)' = Range(s) /\ \A r \in Refs \ {q} : In(r)' = In(r)
         /\ Stored' \subseteq Stored \cup Range(s)
         /\ Range(s) \subseteq Stored'
<1>1. In(q)' = Range(s) /\ \A r \in Refs \ {q} : In(r)' = In(r)
  BY DEF Became, In
<1> QED
  BY <1>1, StoredIs

LEMMA AnswerIs ==
  ASSUME ServerTypes, NEW c \in Conns, NEW k, NEW i, Answers(c, k, i)
  PROVE  ans'[c].m = i /\ ans'[c].code = k
  BY DEF Answers, ServerTypes

LEMMA ServeIs ==
  ASSUME IInv, NEW c \in Conns, Serve(c)
  PROVE  ServerTypes' /\ Serves(c)
<1>1. ServerTypes /\ CallInv /\ RefInv /\ MintInv /\ Stored \subseteq entered
  BY DEF IInv, TypeOK, PlaceInv
<1>2. phase[c] = "pending"
  BY DEF Serve, Broker!Create, Broker!Delete, Broker!Fail, Broker!Drain, Broker!Enqueue,
         Broker!Dequeue, Broker!Pending
<1>3. req[c].name = Queue
  BY <1>1, <1>2 DEF CallInv
<1>4. /\ entered' = entered \cup Stored'
      /\ taken' = IF req[c].op = "dequeue" THEN taken \cup ({ans'[c].m} \ {NoItem}) ELSE taken
  BY DEF Serve
<1>5. CASE Broker!Create(c)
  <2>1. req[c].q \in Refs
    BY <1>1, <1>5, Constants DEF Broker!Create, RefInv, Pending, ServerTypes
  <2>2. /\ ServerTypes' /\ Answers(c, 200, NoItem) /\ Pending(c, "create")
        /\ table[Queue] = NoQueue /\ Rebinds(req[c].q)
    BY <1>1, <1>3, <1>5, <2>1, CreateIs DEF Rebinds
  <2>3. entered' = entered /\ taken' = taken
    BY <1>1, <1>4, <2>2 DEF Rebinds, Stored, Pending, Broker!Pending
  <2> QED
    BY <2>2, <2>3 DEF Serves, Creates
<1>6. CASE Broker!Delete(c)
  <2>1. /\ ServerTypes' /\ Answers(c, 200, NoItem) /\ Pending(c, "delete")
        /\ Rebinds(NoQueue)
    BY <1>1, <1>3, <1>6, DeleteIs DEF Rebinds
  <2>2. entered' = entered /\ taken' = taken
    BY <1>1, <1>4, <2>1 DEF Rebinds, Stored, Pending, Broker!Pending
  <2> QED
    BY <2>1, <2>2 DEF Serves, Deletes
<1>7. CASE Broker!Fail(c)
  <2>1. ServerTypes' /\ Answers(c, 400, NoItem) /\ UNCHANGED <<table, store, seen>>
    BY <1>1, <1>7, FailIs
  <2>2. ans'[c].m = NoItem
    BY <1>1, <2>1, AnswerIs
  <2>3. entered' = entered /\ taken' = taken
    BY <1>1, <1>4, <2>1, <2>2 DEF Stored
  <2> QED
    BY <2>1, <2>3 DEF Serves, Fails
<1>8. CASE Broker!Drain(c)
  <2>1. /\ ServerTypes' /\ Answers(c, 200, NoItem) /\ UNCHANGED <<table, seen>>
        /\ Pending(c, "drain") /\ table[Queue] \in Refs /\ Became(table[Queue], <<>>)
    BY <1>1, <1>3, <1>8, DrainIs
  <2>2. Range(<<>>) = {}
    BY DEF Range
  <2>3. entered' = entered /\ taken' = taken
    BY <1>1, <1>4, <2>1, <2>2, BecameStored DEF Pending, Broker!Pending
  <2> QED
    BY <2>1, <2>3 DEF Serves, Drains
<1>9. CASE Broker!Enqueue(c)
  <2>1. req[c].m \in Items
    BY <1>1, <1>9, Constants DEF Broker!Enqueue, MintInv, Pending, ServerTypes, Items
  <2>2. /\ ServerTypes' /\ Answers(c, 200, req[c].m) /\ UNCHANGED <<table, seen>>
        /\ Pending(c, "enqueue")
    BY <1>1, <1>9, <2>1, EnqueueIs
  <2>3. PICK q \in seen[c] \cap Refs : Became(q, Append(Msgs(q), req[c].m))
    BY <1>1, <1>9, <2>1, EnqueueIs
  <2>4. Range(Append(Msgs(q), req[c].m)) = In(q) \cup {req[c].m}
    BY <1>1, <2>1, InTypes, AppendRange DEF In
  <2>5. entered' = entered \cup {req[c].m} /\ taken' = taken
    BY <1>1, <1>4, <2>2, <2>3, <2>4, BecameStored, StoredIs DEF Pending, Broker!Pending
  <2> QED
    BY <2>1, <2>2, <2>3, <2>5 DEF Serves, Puts
<1>10. CASE Broker!Dequeue(c)
  <2>1. ServerTypes' /\ UNCHANGED <<table, seen>> /\ Pending(c, "dequeue")
    BY <1>1, <1>10, DequeueIs
  <2>2. PICK q \in seen[c] \cap Refs :
              \/ /\ Msgs(q) # <<>> /\ Became(q, Tail(Msgs(q)))
                 /\ Head(Msgs(q)) \in Items /\ Answers(c, 200, Head(Msgs(q)))
              \/ Msgs(q) = <<>> /\ store' = store /\ Answers(c, 204, NoItem)
    BY <1>1, <1>10, DequeueIs
  <2>3. NoRepeat(Msgs(q)) /\ Msgs(q) \in Seq(Items)
    BY <1>1, InTypes DEF IInv, PlaceInv, NoRepeat
  <2>4. CASE Msgs(q) # <<>>
    <3>1. Became(q, Tail(Msgs(q))) /\ Head(Msgs(q)) \in Items /\ Answers(c, 200, Head(Msgs(q)))
      BY <2>2, <2>4
    <3>2. Range(Tail(Msgs(q))) \subseteq In(q)
      BY <2>3, <2>4, TailRange DEF In
    <3>3. entered' = entered
      BY <1>1, <1>4, <3>1, <3>2, BecameStored, StoredIs
    <3>4. ans'[c].m = Head(Msgs(q))
      BY <1>1, <3>1, AnswerIs
    <3>5. taken' = taken \cup {Head(Msgs(q))}
      BY <1>4, <2>1, <3>1, <3>4, Constants DEF Pending, Broker!Pending
    <3> QED
      BY <2>1, <2>4, <3>1, <3>3, <3>5 DEF Serves, Takes
  <2>5. CASE Msgs(q) = <<>>
    <3>1. store' = store /\ Answers(c, 204, NoItem)
      BY <2>2, <2>5
    <3>2. ans'[c].m = NoItem
      BY <1>1, <3>1, AnswerIs
    <3>3. entered' = entered /\ taken' = taken
      BY <1>1, <1>4, <2>1, <3>1, <3>2 DEF Stored
    <3> QED
      BY <2>1, <2>5, <3>1, <3>3 DEF Serves, TakesNone
  <2> QED
    BY <2>4, <2>5
<1> QED
  BY <1>5, <1>6, <1>7, <1>8, <1>9, <1>10 DEF Serve

-----------------------------------------------------------------------------
(* THE TYPES ARE KEPT *)

LEMMA CutOffSize ==
  ASSUME NEW p
  PROVE  /\ CutOff(p) \subseteq Workers /\ IsFiniteSet(CutOff(p))
         /\ Cardinality(CutOff(p)) \in Nat
         /\ \A w : IsFiniteSet(CutOff(p) \ {w}) /\ Cardinality(CutOff(p) \ {w}) \in Nat
<1>1. CutOff(p) \subseteq Workers
  BY DEF CutOff
<1>2. \A S : S \subseteq Workers => IsFiniteSet(S) /\ Cardinality(S) \in Nat
  BY FS_Subset, FS_CardinalityType, Constants
<1> QED
  BY <1>1, <1>2

(* What a user is told is in. *)
LEMMA ReturnedIsIn ==
  ASSUME IInv, NEW u \in Users, UserReturn(u)
  PROVE  acked' \subseteq entered /\ acked' \subseteq Items
<1>1. conn[u] \in Conns /\ phase[conn[u]] = "answered"
  BY DEF UserReturn, Receive, Answered, IInv, TypeOK, ActorTypes, Actors
<1>2. acked \subseteq entered /\ entered \subseteq Items
  BY DEF IInv, MintInv, TypeOK
<1>3. CASE req[conn[u]].op = "enqueue" /\ ~IsError(Code(u))
  <2>1. ans[conn[u]].code \in {200, 204, 400} /\ ans[conn[u]].code # 204
    BY <1>1, <1>3 DEF IInv, CallInv
  <2>2. ans[conn[u]].code = 200
    BY <1>3, <2>1 DEF IsError, Code
  <2>3. Item(u) \in entered
    BY <1>1, <1>3, <2>2 DEF IInv, CallInv, Item
  <2> QED
    BY <1>2, <1>3, <2>3 DEF UserReturn
<1>4. CASE ~(req[conn[u]].op = "enqueue" /\ ~IsError(Code(u)))
  BY <1>2, <1>4 DEF UserReturn
<1> QED
  BY <1>3, <1>4

LEMMA ProcIs == ASSUME NEW w \in Workers PROVE ProcOf[w] \in Procs
  BY DEF Procs

LEMMA GotoTypes ==
  ASSUME ActorTypes, NEW w \in Workers,
         NEW l \in {"off", "check", "dequeue", "wait", "sleep", "gen", "stopped"}, Goto(w, l)
  PROVE  /\ at' \in [Workers -> {"off", "check", "dequeue", "wait", "sleep", "gen", "stopped"}]
         /\ promised' \in [Workers -> SUBSET Items]
  BY DEF ActorTypes, Goto

LEMMA EndTypes ==
  ASSUME ActorTypes, NEW p \in Procs, End(p)
  PROVE  /\ conn' \in [Actors -> Conns \cup {NoConn}]
         /\ at' \in [Workers -> {"off", "check", "dequeue", "wait", "sleep", "gen", "stopped"}]
         /\ held' \in [Workers -> Items \cup {NoItem}]
         /\ cancelled' \in [Workers -> BOOLEAN] /\ files' \in [Procs -> Nat]
         /\ promised' \in [Workers -> SUBSET Items]
         /\ puts' \in Nat /\ acked' \subseteq Items /\ done' \in [Items -> 0..2]
<1>1. conn' \in [Actors -> Conns \cup {NoConn}]
  BY DEF ActorTypes, End
<1>2. at' \in [Workers -> {"off", "check", "dequeue", "wait", "sleep", "gen", "stopped"}]
  BY DEF ActorTypes, End
<1>3. held' \in [Workers -> Items \cup {NoItem}]
  BY DEF ActorTypes, End
<1>4. cancelled' \in [Workers -> BOOLEAN]
  BY Zenon DEF ActorTypes, End
<1>5. files' \in [Procs -> Nat]
  BY DEF ActorTypes, End
<1>6. promised' \in [Workers -> SUBSET Items]
  BY DEF ActorTypes, End
<1>7. puts' \in Nat /\ acked' \subseteq Items /\ done' \in [Items -> 0..2]
  BY DEF ActorTypes, End
<1> QED
  BY <1>1, <1>2, <1>3, <1>4, <1>5, <1>6, <1>7

(* The steps of the clients, by what they do to the server. *)
Quiet(w) ==
  IsDone(w) \/ ItemDone(w) \/ WakeUp(w) \/ DequeueNoSocket(w) \/ DequeueUnsent(w)
    \/ DequeueCutOff(w) \/ Start(w) \/ Put(w)

Forgets(c) ==
  \/ Discard(c)
  \/ \E u \in Users : conn[u] = c /\ UserReturn(u)
  \/ \E w \in Workers :
       /\ conn[w] = c
       /\ DequeueError(w) \/ DequeueEmpty(w) \/ DequeueMessage(w)
       
LEMMA QuietTypes ==
  ASSUME IInv, NEW w \in Workers, Quiet(w)
  PROVE  ActorTypes' /\ UNCHANGED <<serverVars, entered, taken, acked>>
<1>1. ActorTypes
  BY DEF IInv, TypeOK
<1>2. CASE IsDone(w)
  <2>1. Goto(w, "stopped") \/ Goto(w, "check") \/ Goto(w, "dequeue")
    BY <1>2 DEF IsDone
  <2> QED
    BY <1>1, <1>2, <2>1, GotoTypes DEF IsDone, ActorTypes, ghosts
<1>3. CASE ItemDone(w)
  <2>1. done' \in [Items -> 0..2]
    <3> DEFINE i == held[w]
               k == IF done[i] < 2 THEN done[i] + 1 ELSE done[i]
    <3>1. done' = [done EXCEPT ![i] = k] /\ done \in [Items -> 0..2]
      BY <1>1, <1>3 DEF ItemDone, ActorTypes
    <3>2. i \in Items => k \in 0..2
      BY <3>1
    <3> HIDE DEF i, k
    <3> QED
      BY <3>1, <3>2
  <2> QED
    BY <1>1, <1>3, <2>1, GotoTypes, Constants DEF ItemDone, ActorTypes
<1>4. CASE WakeUp(w) \/ DequeueNoSocket(w) \/ DequeueUnsent(w)
  <2>1. (Goto(w, "check") \/ Goto(w, "sleep")) /\ faults' \in Nat
    BY <1>1, <1>4 DEF WakeUp, DequeueNoSocket, DequeueUnsent, Fault, ActorTypes
  <2> QED
    BY <1>1, <1>4, <2>1, GotoTypes DEF WakeUp, DequeueNoSocket, DequeueUnsent, ActorTypes, ghosts
<1>5. CASE DequeueCutOff(w)
  <2>1. conn' \in [Actors -> Conns \cup {NoConn}]
    BY <1>1, <1>5 DEF DequeueCutOff, Hang, ActorTypes
  <2>2. faults' \in Nat /\ broken' \in Nat
    BY <1>1, <1>5 DEF DequeueCutOff, Fault, ActorTypes
  <2>3. Goto(w, "sleep")
    BY <1>5 DEF DequeueCutOff
  <2> QED
    BY <1>1, <1>5, <2>1, <2>2, <2>3, GotoTypes DEF DequeueCutOff, ActorTypes
<1>6. CASE Start(w)
  BY <1>1, <1>6, GotoTypes DEF Start, ActorTypes, ghosts
<1>7. CASE Put(w)
  <2>1. cancelled' \in [Workers -> BOOLEAN]
    BY <1>7, Zenon DEF Put
  <2>2. puts' \in Nat /\ Goto(w, "check")
    BY <1>1, <1>7 DEF Put, ActorTypes
  <2> QED
    BY <1>1, <1>7, <2>1, <2>2, GotoTypes DEF Put, ActorTypes, ghosts
<1> QED
  BY <1>2, <1>3, <1>4, <1>5, <1>6, <1>7 DEF Quiet

LEMMA ForgetsIs ==
  ASSUME IInv, NEW c \in Conns, Forgets(c)
  PROVE  /\ Broker!Forget(c) /\ phase[c] = "answered"
         /\ ActorTypes' /\ UNCHANGED <<entered, taken>> /\ acked' \subseteq entered
<1>1. ActorTypes /\ acked \subseteq entered
  BY DEF IInv, TypeOK, MintInv
<1>2. CASE Discard(c)
  BY <1>1, <1>2 DEF Discard, workVars, ghosts, ActorTypes, Broker!Forget
<1>3. ASSUME NEW u \in Users, conn[u] = c, UserReturn(u)
      PROVE  /\ Broker!Forget(c)
             /\ ActorTypes' /\ UNCHANGED <<entered, taken>> /\ acked' \subseteq entered
  <2>1. Broker!Forget(c) /\ conn' = [conn EXCEPT ![u] = NoConn]
    BY <1>3 DEF UserReturn, Receive, Hang
  <2>2. conn' \in [Actors -> Conns \cup {NoConn}]
    BY <1>1, <2>1 DEF ActorTypes
  <2> QED
    BY <1>1, <1>3, <2>1, <2>2, ReturnedIsIn DEF UserReturn, workVars, ActorTypes
<1>4. ASSUME NEW w \in Workers, conn[w] = c, DequeueError(w) \/ DequeueEmpty(w) \/ DequeueMessage(w)
      PROVE  /\ Broker!Forget(c)
             /\ ActorTypes' /\ UNCHANGED <<entered, taken>> /\ acked' \subseteq entered
  <2>1. Receive(w) /\ (Goto(w, "sleep") \/ Goto(w, "gen"))
    BY <1>4 DEF DequeueError, DequeueEmpty, DequeueMessage
  <2>2. Broker!Forget(c) /\ conn' = [conn EXCEPT ![w] = NoConn]
    BY <1>4, <2>1 DEF Receive, Hang
  <2>3. conn' \in [Actors -> Conns \cup {NoConn}]
    BY <1>1, <2>2 DEF ActorTypes
  <2>4. held' \in [Workers -> Items \cup {NoItem}]
    <3>1. Item(w) \in Items \cup {NoItem}
      BY <1>4 DEF Item, IInv, TypeOK, ServerTypes, AnsType
    <3> QED
      BY <1>1, <1>4, <3>1 DEF DequeueError, DequeueEmpty, DequeueMessage, ActorTypes
  <2>5. files' \in [Procs -> Nat]
    BY <1>1, <1>4, ProcIs DEF DequeueError, DequeueEmpty, DequeueMessage, ActorTypes
  <2>6. /\ UNCHANGED <<entered, taken, acked, left, broken, done, cancelled, puts, faults>>
    BY <1>4 DEF DequeueError, DequeueEmpty, DequeueMessage, ghosts
  <2> QED
    BY <1>1, <2>1, <2>2, <2>3, <2>4, <2>5, <2>6, GotoTypes DEF ActorTypes
<1> QED
  BY <1>2, <1>3, <1>4 DEF Forgets, Broker!Forget



(* A connection of its own for a call. *)
Connects(a, c, op) ==
  /\ phase[c] = "idle" /\ Broker!Ask(c, op, Queue)
  /\ conn' = [conn EXCEPT ![a] = c]

LEMMA UserCallIs ==
  ASSUME IInv, NEW u \in Users, NEW op \in UserOps, UserCall(u, op)
  PROVE  /\ \E c \in Conns : Connects(u, c, op)
         /\ conn[u] = NoConn /\ op \in Ops \ {"dequeue"}
         /\ ServerTypes' /\ ActorTypes' /\ UNCHANGED <<workVars, faults, promised, ghosts>>
<1>1. ServerTypes /\ ActorTypes
  BY DEF IInv, TypeOK
<1>2. op \in Ops \ {"dequeue"}
  BY WorkQueueAssumption, Constants DEF WorkQueueAssumption
<1>3. PICK c \in Conns : Connects(u, c, op)
  BY DEF UserCall, Send, Connects, Broker!Ask
<1>4. conn' \in [Actors -> Conns \cup {NoConn}]
  BY <1>1, <1>3 DEF ActorTypes, Connects
<1>5. UNCHANGED <<workVars, faults, promised, ghosts>> /\ conn[u] = NoConn
  BY DEF UserCall
<1>6. ServerTypes'
  BY <1>1, <1>2, <1>3, AskTypes DEF Connects
<1> QED
  BY <1>1, <1>2, <1>3, <1>4, <1>5, <1>6 DEF workVars, ghosts, ActorTypes

LEMMA DequeueSends ==
  ASSUME IInv, NEW w \in Workers, Dequeue(w)
  PROVE  /\ \E c \in Conns : Connects(w, c, "dequeue")
         /\ at[w] = "dequeue" /\ Goto(w, "wait")
         /\ ServerTypes' /\ ActorTypes' /\ UNCHANGED <<held, ghosts>>
<1>1. ServerTypes /\ ActorTypes /\ "dequeue" \in Ops
  BY Constants DEF IInv, TypeOK
<1>2. PICK c \in Conns : Connects(w, c, "dequeue")
  BY DEF Dequeue, Send, Connects, Broker!Ask
<1>3. conn' \in [Actors -> Conns \cup {NoConn}]
  BY <1>1, <1>2 DEF ActorTypes, Connects
<1>4. at[w] = "dequeue" /\ Goto(w, "wait") /\ UNCHANGED <<held, cancelled, files, puts, faults, ghosts>>
  BY DEF Dequeue
<1>5. ServerTypes'
  BY <1>1, <1>2, AskTypes DEF Connects
<1> QED
  BY <1>1, <1>2, <1>3, <1>4, <1>5, GotoTypes DEF ghosts, ActorTypes

(* The end of a process, by a fault or by one of its workers, w, that was   *)
(* told that the queue is empty.                                            *)
Ends(p) == Kill(p) \/ \E w \in Workers : p = ProcOf[w] /\ DequeueEmptyExit(w)

LEMMA EndsIs ==
  ASSUME IInv, NEW p \in Procs, Ends(p)
  PROVE  /\ ServerTypes' /\ ActorTypes' /\ End(p) /\ UNCHANGED <<entered, taken, acked, done>>
         /\ \/ ServerReset /\ p = Server
            \/ UNCHANGED serverVars /\ p # Server
            \/ (\E w \in Workers : p = ProcOf[w] /\ Answered(w) /\ Broker!Forget(conn[w])) /\ p # Server
<1>1. ServerTypes /\ ActorTypes
  BY DEF IInv, TypeOK

<1>3. CASE Kill(p)
  <2>1. End(p) /\ faults' \in Nat /\ broken' \in Nat /\ left' \subseteq Items
    BY <1>1, <1>3, CutOffSize DEF Kill, Fault, ActorTypes
  <2>2. (p = Server /\ ServerReset) \/ (p # Server /\ UNCHANGED serverVars)
    BY <1>3 DEF Kill
  <2>3. ServerTypes'
    BY <1>1, <2>2, ResetTypes DEF serverVars, ServerTypes
  <2> QED
    BY <1>1, <2>1, <2>2, <2>3, EndTypes DEF ActorTypes, End
<1>4. ASSUME NEW w \in Workers, p = ProcOf[w], DequeueEmptyExit(w)
      PROVE  /\ ServerTypes' /\ ActorTypes' /\ End(p)
             /\ (p = Server /\ ServerReset) \/ (p # Server /\ Answered(w) /\ Broker!Forget(conn[w]))
  <2>1. End(p) /\ faults' \in Nat /\ broken' \in Nat /\ left' \subseteq Items
    <3>1. End(p) /\ faults' = faults
      BY <1>4 DEF DequeueEmptyExit, Exit
    <3>2. /\ broken' = broken + Cardinality(CutOff(p) \ {w})
          /\ left' = left \cup (promised[w] \cap Waiting)
      BY <1>4 DEF DequeueEmptyExit, Exit
    <3>3. Cardinality(CutOff(p) \ {w}) \in Nat
      BY CutOffSize
    <3> QED
      BY <1>1, <3>1, <3>2, <3>3 DEF ActorTypes
  <2>2. Answered(w) /\ conn[w] \in Conns
    BY <1>1, <1>4 DEF DequeueEmptyExit, Answered, ActorTypes, Actors
  <2>3. (p = Server /\ ServerReset) \/ (p # Server /\ Broker!Forget(conn[w]))
    BY <1>4 DEF DequeueEmptyExit
  <2>4. ServerTypes'
    BY <1>1, <2>2, <2>3, ResetTypes, ForgetTypes
  <2> QED
    BY <1>1, <2>1, <2>2, <2>3, <2>4, EndTypes DEF ActorTypes
<1> QED
  BY <1>3, <1>4 DEF Ends, End

(* Every step is one of these. *)
LEMMA Steps ==
  ASSUME IInv, Next
  PROVE  \/ \E c \in Conns : Serve(c) \/ Forgets(c)
         \/ \E w \in Workers : Quiet(w) \/ Dequeue(w)
         \/ \E u \in Users, op \in UserOps : UserCall(u, op)
         \/ \E p \in Procs : Ends(p)
<1>1. ASSUME NEW a \in Actors, Receive(a) PROVE conn[a] \in Conns
  BY <1>1 DEF Receive, Answered, IInv, TypeOK, ActorTypes
<1>2. ASSUME NEW u \in Users, UserReturn(u) PROVE \E c \in Conns : Forgets(c)
  BY <1>1, <1>2 DEF UserReturn, Forgets, Actors
<1>3. ASSUME NEW w \in Workers, DequeueError(w) \/ DequeueEmpty(w) \/ DequeueMessage(w)
      PROVE  \E c \in Conns : Forgets(c)
  BY <1>1, <1>3 DEF DequeueError, DequeueEmpty, DequeueMessage, Forgets, Actors
<1>4. ASSUME NEW w \in Workers, DequeueEmptyExit(w) PROVE \E p \in Procs : Ends(p)
  BY <1>4, ProcIs DEF Ends
<1>5. ASSUME NEW w \in Workers,
             IsDone(w) \/ ItemDone(w) \/ WakeUp(w) \/ DequeueNoSocket(w) \/ DequeueUnsent(w)
               \/ DequeueCutOff(w) \/ Start(w) \/ Put(w)
      PROVE  Quiet(w)
  BY <1>5 DEF Quiet
<1>6. ASSUME NEW w \in Workers, WorkerStep(w)
      PROVE  Quiet(w) \/ (\E c \in Conns : Forgets(c)) \/ (\E p \in Procs : Ends(p))
  BY <1>3, <1>4, <1>5, <1>6 DEF WorkerStep
<1>7. \A c \in Conns : Discard(c) => Forgets(c)
  BY DEF Forgets
<1>8. \A p \in Procs : Kill(p) => Ends(p)
  BY DEF Ends
<1> QED
  BY <1>2, <1>5, <1>6, <1>7, <1>8 DEF Next

LEMMA TypeStep == ASSUME IInv, Next PROVE TypeOK'
<1>1. TypeOK
  BY DEF IInv
<1>2. ASSUME NEW c \in Conns, Serve(c) PROVE TypeOK'
  <2>1. ServerTypes' /\ Serves(c)
    BY <1>2, ServeIs
  <2>2. entered' \subseteq Items /\ taken' \subseteq Items
    BY <1>1, <2>1
    DEF TypeOK, Serves, Creates, Deletes, Fails, Drains, Puts, Takes, TakesNone
  <2>3. ActorTypes'
    BY <1>1, <1>2 DEF TypeOK, ActorTypes, Serve, workVars
  <2> QED
    BY <2>1, <2>2, <2>3 DEF TypeOK
<1>3. ASSUME NEW c \in Conns, Forgets(c) PROVE TypeOK'
  BY <1>1, <1>3, ForgetsIs, ForgetTypes DEF TypeOK
<1>4. ASSUME NEW w \in Workers, Quiet(w) PROVE TypeOK'
  BY <1>1, <1>4, QuietTypes DEF TypeOK, ServerTypes, serverVars
<1>5. ASSUME NEW w \in Workers, Dequeue(w) PROVE TypeOK'
  BY <1>1, <1>5, DequeueSends DEF TypeOK, ghosts
<1>6. ASSUME NEW u \in Users, NEW op \in UserOps, UserCall(u, op) PROVE TypeOK'
  BY <1>1, <1>6, UserCallIs DEF TypeOK, ghosts
<1>7. ASSUME NEW p \in Procs, Ends(p) PROVE TypeOK'
  BY <1>1, <1>7, EndsIs DEF TypeOK
<1> QED
  BY <1>2, <1>3, <1>4, <1>5, <1>6, <1>7, Steps

-----------------------------------------------------------------------------
(* THE CALLS, THE QUEUES THEY MAKE AND THE ITEMS THEY BRING *)

LEMMA AskIs ==
  ASSUME ServerTypes, NEW c \in Conns, NEW op \in Ops, Broker!Ask(c, op, Queue)
  PROVE  /\ phase[c] = "idle" /\ phase' = [phase EXCEPT ![c] = "pending"]
         /\ \A d \in Conns \ {c} : req'[d] = req[d] /\ seen'[d] = seen[d]
         /\ req'[c].op = op /\ req'[c].name = Queue /\ seen'[c] = {table[Queue]}
         /\ IF op = "create" THEN allocated' = allocated + 1 /\ req'[c].q = allocated'
                             ELSE allocated' = allocated
         /\ IF op = "enqueue" THEN minted' = minted + 1 /\ req'[c].m = minted'
                              ELSE minted' = minted
         /\ allocated' <= MaxQueues /\ minted' <= MaxMessages
         /\ UNCHANGED <<table, store, ans>>
<1>1. op # "stats"
  BY Constants
<1> QED
  BY <1>1 DEF ServerTypes, Broker!Ask

LEMMA AskKeeps ==
  ASSUME IInv, NEW c \in Conns, NEW op \in Ops, Broker!Ask(c, op, Queue),
         UNCHANGED <<entered, taken, acked>>
  PROVE  CallInv' /\ RefInv' /\ MintInv'
<1>1. ServerTypes /\ CallInv /\ RefInv /\ MintInv
  BY DEF IInv, TypeOK
<1>2. /\ phase[c] = "idle" /\ phase' = [phase EXCEPT ![c] = "pending"]
      /\ \A d \in Conns \ {c} : req'[d] = req[d] /\ seen'[d] = seen[d]
      /\ req'[c].op = op /\ req'[c].name = Queue /\ seen'[c] = {table[Queue]}
      /\ IF op = "create" THEN allocated' = allocated + 1 /\ req'[c].q = allocated'
                          ELSE allocated' = allocated
      /\ IF op = "enqueue" THEN minted' = minted + 1 /\ req'[c].m = minted'
                           ELSE minted' = minted
      /\ allocated' <= MaxQueues /\ minted' <= MaxMessages
      /\ UNCHANGED <<table, store, ans>>
  BY <1>1, AskIs
<1>3. phase'[c] = "pending" /\ \A d \in Conns \ {c} : phase'[d] = phase[d]
  BY <1>1, <1>2 DEF ServerTypes
<1>4. CallInv'
  BY <1>1, <1>2, <1>3 DEF CallInv
<1>5. \A d \in Conns : \A o : Pending(d, o)' <=> IF d = c THEN o = op ELSE Pending(d, o)
  BY <1>2, <1>3 DEF Pending, Broker!Pending
<1>6. /\ table[Queue] \in Nat /\ allocated \in Nat /\ minted \in Nat
      /\ \A d \in Conns : seen[d] \subseteq Nat /\ req[d].q \in Nat /\ req[d].m \in Nat
  <2>1. table[Queue] \in Nat /\ allocated \in Nat /\ minted \in Nat
    BY <1>1, Constants DEF ServerTypes
  <2>2. ASSUME NEW d \in Conns PROVE seen[d] \subseteq Nat
    BY <1>1, Constants DEF ServerTypes
  <2>3. ASSUME NEW d \in Conns PROVE req[d].q \in Nat /\ req[d].m \in Nat
    <3>1. req[d] \in ReqType
      BY <1>1 DEF ServerTypes
    <3>2. req[d].q \in Refs \cup {NoQueue} /\ req[d].m \in Items \cup {NoItem}
      BY <3>1 DEF ReqType
    <3>3. Refs \cup {NoQueue} \subseteq Nat /\ Items \cup {NoItem} \subseteq Nat
      BY Constants
    <3> QED
      BY <3>2, <3>3
  <2> QED
    BY <2>1, <2>2, <2>3
<1>7. RefInv'
  <2>1. /\ table'[Queue] <= allocated'
        /\ \A d \in Conns : \A q \in seen'[d] : q <= allocated'
    BY <1>1, <1>2, <1>6 DEF RefInv
  <2>2. \A q \in Refs : q > allocated' => Msgs(q)' = <<>>
    BY <1>1, <1>2, <1>6, Constants DEF RefInv, Msgs
  <2>3. ASSUME NEW d \in Conns, Pending(d, "create")'
        PROVE  /\ req'[d].q \in 1..allocated' /\ store'[req'[d].q].msgs = <<>>
               /\ req'[d].q # table'[Queue]
               /\ \A e \in Conns : req'[d].q \notin seen'[e]
               /\ \A e \in Conns : (Pending(e, "create")' /\ req'[d].q = req'[e].q) => d = e
    <3>1. CASE d = c
      <4>1. req'[c].q = allocated + 1 /\ allocated' = allocated + 1 /\ allocated + 1 \in Refs
        BY <1>2, <1>5, <1>6, <2>3, <3>1, Constants
      <4>2. store'[allocated + 1].msgs = <<>>
        <5>1. \A q \in Refs : q > allocated => store'[q].msgs = <<>>
          BY <1>1, <1>2 DEF RefInv, Msgs
        <5>2. allocated + 1 > allocated
          BY <1>6
        <5> QED
          BY <4>1, <5>1, <5>2
      <4>3. \A e \in Conns : allocated + 1 \notin seen'[e]
        BY <1>1, <1>2, <1>6 DEF RefInv
      <4>4. \A e \in Conns \ {c} : Pending(e, "create")' => req'[e].q # allocated + 1
        BY <1>1, <1>2, <1>5, <1>6 DEF RefInv
      <4>5. allocated + 1 # table'[Queue] /\ allocated + 1 \in 1..allocated'
        BY <1>1, <1>2, <1>6, <4>1 DEF RefInv
      <4> QED
        BY <3>1, <4>1, <4>2, <4>3, <4>4, <4>5
    <3>2. CASE d # c
      <4>1. Pending(d, "create") /\ req'[d].q = req[d].q
        BY <1>2, <1>5, <2>3, <3>2
      <4>2. /\ req[d].q \in 1..allocated /\ Msgs(req[d].q) = <<>>
            /\ req[d].q # table[Queue]
            /\ \A e \in Conns : req[d].q \notin seen[e]
            /\ \A e \in Conns : (Pending(e, "create") /\ req[d].q = req[e].q) => d = e
        BY <1>1, <4>1 DEF RefInv
      <4>3. \A e \in Conns : req[d].q \notin seen'[e]
        BY <1>2, <4>2
      <4>4. \A e \in Conns : (Pending(e, "create")' /\ req[d].q = req'[e].q) => d = e
        BY <1>2, <1>5, <1>6, <4>2
      <4> QED
        BY <1>2, <1>6, <4>1, <4>2, <4>3, <4>4 DEF Msgs
    <3> QED
      BY <3>1, <3>2
  <2> QED
    BY <2>1, <2>2, <2>3 DEF RefInv, Msgs
<1>8. MintInv'
  <2>1. ASSUME NEW d \in Conns, Pending(d, "enqueue")'
        PROVE  /\ req'[d].m \in (1..minted') \ entered
               /\ \A e \in Conns : (Pending(e, "enqueue")' /\ req'[d].m = req'[e].m) => d = e
    BY <1>1, <1>2, <1>5, <1>6, <2>1 DEF MintInv
  <2>2. entered \subseteq 1..minted'
    BY <1>1, <1>2, <1>6 DEF MintInv
  <2> QED
    BY <1>1, <2>1, <2>2 DEF MintInv
<1> QED
  BY <1>4, <1>7, <1>8

LEMMA SameKeeps ==
  ASSUME IInv, UNCHANGED <<serverVars, entered, taken, acked>>
  PROVE  CallInv' /\ RefInv' /\ MintInv'
<1>1. CallInv /\ RefInv /\ MintInv
  BY DEF IInv
<1>2. CallInv'
  BY <1>1 DEF serverVars, CallInv
<1>3. RefInv'
  BY <1>1 DEF serverVars, RefInv, Msgs, Pending, Broker!Pending
<1>4. MintInv'
  BY <1>1 DEF serverVars, MintInv, Pending, Broker!Pending
<1> QED
  BY <1>2, <1>3, <1>4

LEMMA ForgetKeeps ==
  ASSUME IInv, NEW c \in Conns, Broker!Forget(c), UNCHANGED <<entered, taken>>,
         acked' \subseteq entered
  PROVE  CallInv' /\ RefInv' /\ MintInv'
<1>1. ServerTypes /\ CallInv /\ RefInv /\ MintInv
  BY DEF IInv, TypeOK
<1>2. /\ phase'[c] = "idle" /\ seen'[c] = {} /\ UNCHANGED <<table, store, minted, allocated>>
      /\ \A d \in Conns \ {c} : /\ phase'[d] = phase[d] /\ req'[d] = req[d]
                                /\ ans'[d] = ans[d] /\ seen'[d] = seen[d]
  BY <1>1 DEF Broker!Forget, ServerTypes
<1>3. \A d \in Conns : \A o : Pending(d, o)' <=> d # c /\ Pending(d, o)
  BY <1>2 DEF Pending, Broker!Pending
<1>4. CallInv'
  BY <1>1, <1>2 DEF CallInv
<1>5. RefInv'
  <2>1. \A q : Msgs(q)' = Msgs(q)
    BY <1>2 DEF Msgs
  <2>2. \A d \in Conns : seen'[d] \subseteq seen[d]
    BY <1>2
  <2> QED
    BY <1>1, <1>2, <1>3, <2>1, <2>2 DEF RefInv
<1>6. MintInv'
  BY <1>1, <1>2, <1>3 DEF MintInv
<1> QED
  BY <1>4, <1>5, <1>6

LEMMA ResetKeeps ==
  ASSUME IInv, ServerReset, UNCHANGED <<entered, taken, acked>>
  PROVE  CallInv' /\ RefInv' /\ MintInv' /\ Stored' = {}
<1>1. ServerTypes /\ MintInv
  BY DEF IInv, TypeOK
<1>2. /\ table'[Queue] = 0 /\ UNCHANGED <<minted, allocated>>
      /\ \A q \in Refs : Msgs(q)' = <<>>
      /\ \A c \in Conns : phase'[c] = "idle" /\ seen'[c] = {}
  BY Blanks, Constants DEF ServerReset, Msgs, Refs, NoQueue
<1>3. CallInv'
  BY <1>2 DEF CallInv
<1>4. \A c \in Conns : \A o : ~Pending(c, o)'
  BY <1>2 DEF Pending, Broker!Pending
<1>5. RefInv'
  BY <1>1, <1>2, <1>4 DEF RefInv, ServerTypes
<1>6. MintInv'
  BY <1>1, <1>2, <1>4 DEF MintInv
<1>7. \A q \in Refs : In(q)' = {}
  BY <1>2 DEF In, Range
<1> QED
  BY <1>3, <1>5, <1>6, <1>7, StoredIs

LEMMA AnswersIs ==
  ASSUME ServerTypes, NEW c \in Conns, NEW k, NEW i, Answers(c, k, i)
  PROVE  /\ phase'[c] = "answered" /\ ans'[c].m = i /\ ans'[c].code = k
         /\ \A d \in Conns \ {c} : phase'[d] = phase[d] /\ ans'[d] = ans[d]
         /\ \A d \in Conns : \A o : Pending(d, o)' <=> d # c /\ Pending(d, o)
         /\ phase[c] = "pending" /\ UNCHANGED <<req, minted, allocated>>
<1>1. /\ phase'[c] = "answered" /\ ans'[c].m = i /\ ans'[c].code = k
      /\ \A d \in Conns \ {c} : phase'[d] = phase[d] /\ ans'[d] = ans[d]
      /\ phase[c] = "pending" /\ UNCHANGED <<req, minted, allocated>>
  BY DEF Answers, ServerTypes
<1>2. \A d \in Conns : \A o : Pending(d, o)' <=> d # c /\ Pending(d, o)
  BY <1>1 DEF Pending, Broker!Pending
<1> QED
  BY <1>1, <1>2

(* The code and the item of an answer fit its call. *)
LEMMA ServeFits ==
  ASSUME IInv, NEW c \in Conns, Serves(c)
  PROVE  \E k, i : /\ Answers(c, k, i) /\ k \in {200, 204, 400}
                   /\ k # 200 => i = NoItem
                   /\ req[c].op = "enqueue" => k # 204
                   /\ (req[c].op = "enqueue" /\ k = 200) => i \in entered'
                   /\ (req[c].op = "dequeue" /\ k = 200) => i \in taken'
<1>1. CASE Creates(c) \/ Deletes(c) \/ Drains(c)
  BY <1>1 DEF Creates, Deletes, Drains, Pending, Broker!Pending
<1>2. CASE Fails(c)
  BY <1>2 DEF Fails
<1>3. ASSUME NEW q \in Refs, Puts(c, q) \/ Takes(c, q) \/ TakesNone(c, q)
      PROVE  \E k, i : /\ Answers(c, k, i) /\ k \in {200, 204, 400}
                       /\ k # 200 => i = NoItem
                       /\ req[c].op = "enqueue" => k # 204
                       /\ (req[c].op = "enqueue" /\ k = 200) => i \in entered'
                       /\ (req[c].op = "dequeue" /\ k = 200) => i \in taken'
  BY <1>3 DEF Puts, Takes, TakesNone, Pending, Broker!Pending
<1> QED
  BY <1>1, <1>2, <1>3 DEF Serves

(* What a step of the server does to the names and the items. *)
LEMMA ServeMonotone ==
  ASSUME IInv, NEW c \in Conns, Serves(c)
  PROVE  /\ entered \subseteq entered' /\ taken \subseteq taken'
         /\ \/ UNCHANGED <<table, seen>>
            \/ Creates(c) \/ Deletes(c)
  BY DEF Serves, Creates, Deletes, Fails, Drains, Puts, Takes, TakesNone

LEMMA ServeCalls ==
  ASSUME IInv, NEW c \in Conns, Serves(c)
  PROVE  CallInv'
<1>1. ServerTypes /\ CallInv
  BY DEF IInv, TypeOK
<1>2. PICK k, i : /\ Answers(c, k, i) /\ k \in {200, 204, 400}
                  /\ k # 200 => i = NoItem
                  /\ req[c].op = "enqueue" => k # 204
                  /\ (req[c].op = "enqueue" /\ k = 200) => i \in entered'
                  /\ (req[c].op = "dequeue" /\ k = 200) => i \in taken'
  BY ServeFits
<1>3. /\ phase'[c] = "answered" /\ ans'[c].m = i /\ ans'[c].code = k
      /\ \A d \in Conns \ {c} : phase'[d] = phase[d] /\ ans'[d] = ans[d]
      /\ phase[c] = "pending" /\ req' = req
  BY <1>1, <1>2, AnswersIs
<1>4. entered \subseteq entered' /\ taken \subseteq taken'
  BY ServeMonotone
<1>5. ASSUME NEW d \in Conns, phase'[d] = "pending" PROVE table'[Queue] \in seen'[d]
  <2>1. /\ phase[d] = "pending" /\ table[Queue] \in seen[d]
        /\ req[d].op \in Ops /\ req[d].name = Queue
    BY <1>1, <1>3, <1>5 DEF CallInv
  <2>2. CASE UNCHANGED <<table, seen>>
    BY <2>1, <2>2
  <2>3. CASE Creates(c) \/ Deletes(c)
    BY <2>1, <2>3 DEF Creates, Deletes, Rebinds
  <2> QED
    BY <2>2, <2>3, ServeMonotone
<1> QED
  BY <1>1, <1>2, <1>3, <1>4, <1>5 DEF CallInv

LEMMA ServeRefs ==
  ASSUME IInv, NEW c \in Conns, Serves(c)
  PROVE  RefInv'
<1>1. ServerTypes /\ RefInv /\ CallInv
  BY DEF IInv, TypeOK
<1>2. PICK k, i : Answers(c, k, i)
  BY ServeFits
<1>3. /\ req' = req /\ allocated' = allocated
      /\ \A d \in Conns : \A o : Pending(d, o)' <=> d # c /\ Pending(d, o)
  BY <1>1, <1>2, AnswersIs
<1>4. /\ allocated \in Nat /\ \A d \in Conns : seen[d] \subseteq Refs \cup {NoQueue}
      /\ NoQueue = 0
  BY <1>1, Constants DEF ServerTypes
<1>5. CASE Creates(c) \/ Deletes(c)
  <2>1. PICK q \in {req[c].q, NoQueue} : Rebinds(q) /\ (q # NoQueue => Pending(c, "create"))
    BY <1>5 DEF Creates, Deletes
  <2>2. q <= allocated /\ q >= 0
    BY <1>1, <1>4, <2>1, Constants DEF RefInv
  <2>3. \A d \in Conns : seen'[d] \subseteq seen[d] \cup {q}
    BY <2>1 DEF Rebinds
  <2>4. table'[Queue] = q /\ \A r : Msgs(r)' = Msgs(r)
    BY <2>1 DEF Rebinds, Msgs
  <2>5. /\ table'[Queue] <= allocated'
        /\ \A d \in Conns : \A r \in seen'[d] : r <= allocated'
        /\ \A r \in Refs : r > allocated' => Msgs(r)' = <<>>
    BY <1>1, <1>3, <2>2, <2>3, <2>4 DEF RefInv
  <2>6. ASSUME NEW d \in Conns, Pending(d, "create")'
        PROVE  /\ req[d].q \in 1..allocated' /\ Msgs(req[d].q) = <<>>
               /\ req[d].q # table'[Queue]
               /\ \A e \in Conns : req[d].q \notin seen'[e]
               /\ \A e \in Conns : (Pending(e, "create")' /\ req[d].q = req[e].q) => d = e
    <3>1. Pending(d, "create") /\ d # c
      BY <1>3, <2>6
    <3>2. /\ req[d].q \in 1..allocated /\ Msgs(req[d].q) = <<>>
          /\ \A e \in Conns : req[d].q \notin seen[e]
          /\ \A e \in Conns : (Pending(e, "create") /\ req[d].q = req[e].q) => d = e
      BY <1>1, <3>1 DEF RefInv
    <3>3. req[d].q # q
      BY <1>4, <2>1, <3>1, <3>2
    <3> QED
      BY <1>3, <2>3, <2>4, <3>2, <3>3
  <2> QED
    BY <1>3, <2>1, <2>5, <2>6 DEF RefInv, Msgs, Rebinds
<1>6. CASE UNCHANGED <<table, seen>>
  <2>1. ASSUME NEW r \in Refs, Msgs(r)' # Msgs(r)
        PROVE  \E d \in Conns : r = table[Queue] \/ r \in seen[d]
    BY <2>1 DEF Serves, Creates, Deletes, Fails, Drains, Puts, Takes, TakesNone, Rebinds,
                Became, Msgs
  <2>2. \A r \in Refs : r > allocated => Msgs(r)' = <<>>
    BY <1>1, <1>4, <2>1, Constants DEF RefInv
  <2>3. ASSUME NEW d \in Conns, Pending(d, "create")'
        PROVE  /\ req[d].q \in 1..allocated' /\ store'[req[d].q].msgs = <<>>
               /\ req[d].q # table'[Queue]
               /\ \A e \in Conns : req[d].q \notin seen'[e]
               /\ \A e \in Conns : (Pending(e, "create")' /\ req[d].q = req[e].q) => d = e
    <3>1. Pending(d, "create")
      BY <1>3, <2>3
    <3>2. /\ req[d].q \in 1..allocated /\ Msgs(req[d].q) = <<>> /\ req[d].q # table[Queue]
          /\ \A e \in Conns : req[d].q \notin seen[e]
          /\ \A e \in Conns : (Pending(e, "create") /\ req[d].q = req[e].q) => d = e
      BY <1>1, <3>1 DEF RefInv
    <3>3. req[d].q \in Refs
      BY <1>1, <3>2, Constants DEF ServerTypes
    <3>4. store'[req[d].q].msgs = <<>>
      BY <2>1, <3>2, <3>3 DEF Msgs
    <3> QED
      BY <1>3, <1>6, <3>2, <3>4
  <2> QED
    BY <1>1, <1>3, <1>6, <2>2, <2>3 DEF RefInv, Msgs
<1> QED
  BY <1>5, <1>6, ServeMonotone

LEMMA ServeMints ==
  ASSUME IInv, NEW c \in Conns, Serves(c), acked' = acked
  PROVE  MintInv'
<1>1. ServerTypes /\ MintInv
  BY DEF IInv, TypeOK
<1>2. PICK k, i : Answers(c, k, i)
  BY ServeFits
<1>3. /\ req' = req /\ minted' = minted
      /\ \A d \in Conns : \A o : Pending(d, o)' <=> d # c /\ Pending(d, o)
  BY <1>1, <1>2, AnswersIs
<1>4. CASE entered' = entered
  BY <1>1, <1>3, <1>4 DEF MintInv
<1>5. CASE Pending(c, "enqueue") /\ entered' = entered \cup {req[c].m}
  BY <1>1, <1>3, <1>5 DEF MintInv
<1> QED
  BY <1>4, <1>5 DEF Serves, Creates, Deletes, Fails, Drains, Puts, Takes, TakesNone

LEMMA ServerStep == ASSUME IInv, Next PROVE CallInv' /\ RefInv' /\ MintInv'
<1>1. ASSUME NEW c \in Conns, Serve(c) PROVE CallInv' /\ RefInv' /\ MintInv'
  BY <1>1, ServeIs, ServeCalls, ServeRefs, ServeMints DEF Serve
<1>2. ASSUME NEW c \in Conns, Forgets(c) PROVE CallInv' /\ RefInv' /\ MintInv'
  BY <1>2, ForgetsIs, ForgetKeeps
<1>3. ASSUME NEW w \in Workers, Quiet(w) PROVE CallInv' /\ RefInv' /\ MintInv'
  BY <1>3, QuietTypes, SameKeeps
<1>4. ASSUME NEW w \in Workers, Dequeue(w) PROVE CallInv' /\ RefInv' /\ MintInv'
  <2>1. PICK c \in Conns : Connects(w, c, "dequeue")
    BY <1>4, DequeueSends
  <2>2. UNCHANGED <<entered, taken, acked>>
    BY <1>4, DequeueSends DEF ghosts
  <2> QED
    BY <2>1, <2>2, AskKeeps, Constants DEF Connects
<1>5. ASSUME NEW u \in Users, NEW op \in UserOps, UserCall(u, op)
      PROVE  CallInv' /\ RefInv' /\ MintInv'
  <2>1. PICK c \in Conns : Connects(u, c, op)
    BY <1>5, UserCallIs
  <2>2. UNCHANGED <<entered, taken, acked>> /\ op \in Ops
    BY <1>5, UserCallIs DEF ghosts
  <2> QED
    BY <2>1, <2>2, AskKeeps DEF Connects
<1>6. ASSUME NEW p \in Procs, Ends(p) PROVE CallInv' /\ RefInv' /\ MintInv'
  <2>1. UNCHANGED <<entered, taken, acked>> /\ acked \subseteq entered
    BY <1>6, EndsIs DEF IInv, MintInv
  <2>2. CASE ServerReset
    BY <2>1, <2>2, ResetKeeps
  <2>3. CASE UNCHANGED serverVars
    BY <2>1, <2>3, SameKeeps
  <2>4. ASSUME NEW w \in Workers, Answered(w), Broker!Forget(conn[w])
        PROVE  CallInv' /\ RefInv' /\ MintInv'
    <3>1. conn[w] \in Conns
      BY <2>4 DEF Answered, IInv, TypeOK, ActorTypes, Actors
    <3> QED
      BY <2>1, <2>4, <3>1, ForgetKeeps
  <2> QED
    BY <1>6, <2>2, <2>3, <2>4, EndsIs
<1> QED
  BY <1>1, <1>2, <1>3, <1>4, <1>5, <1>6, Steps

-----------------------------------------------------------------------------
(* WHOSE A CONNECTION IS *)

(* Most of the quiet steps take a worker from one idle place to another.    *)
LEMMA QuietIs ==
  ASSUME IInv, NEW w \in Workers, Quiet(w)
  PROVE  /\ \E l \in {"check", "stopped", "dequeue", "sleep"} : Goto(w, l)
         /\ left' = left
         /\ \/ ItemDone(w) \/ DequeueCutOff(w)
            \/ at[w] \notin {"wait", "gen"} /\ UNCHANGED <<conn, held, done, broken>>
<1>1. CASE IsDone(w) \/ WakeUp(w) \/ DequeueNoSocket(w) \/ DequeueUnsent(w) \/ Put(w)
  BY <1>1 DEF IsDone, WakeUp, DequeueNoSocket, DequeueUnsent, Put, ghosts
<1>2. CASE Start(w)
  <2>1. at[w] = "off"
    BY <1>2 DEF Start, InProc
  <2> QED
    BY <1>2, <2>1 DEF Start, ghosts
<1>3. CASE ItemDone(w) \/ DequeueCutOff(w)
  BY <1>3 DEF ItemDone, DequeueCutOff
<1> QED
  BY <1>1, <1>2, <1>3 DEF Quiet

LEMMA GotoIs ==
  ASSUME ActorTypes, NEW w \in Workers, NEW l, Goto(w, l)
  PROVE  /\ at'[w] = l /\ \A v \in Workers \ {w} : at'[v] = at[v] /\ promised'[v] = promised[v]
         /\ promised'[w] = IF l = "wait" /\ w \in Exits THEN acked ELSE {}
  BY DEF Goto, ActorTypes

Owns(a) ==
  conn[a] # NoConn =>
    /\ phase[conn[a]] # "idle"
    /\ \A b \in Actors : conn[a] = conn[b] => a = b
    /\ a \in Workers <=> req[conn[a]].op = "dequeue"

Busy(w) == /\ at[w] = "wait" <=> conn[w] # NoConn
           /\ at[w] = "gen" <=> held[w] # NoItem

(* A connection that is closed and calls that are answered harm nobody.     *)
LEMMA OwnsKept ==
  ASSUME ActorTypes, \A a \in Actors : Owns(a),
         \A a \in Actors : \/ conn'[a] = NoConn
                           \/ /\ conn'[a] = conn[a] /\ phase'[conn[a]] # "idle"
                              /\ req'[conn[a]].op = req[conn[a]].op
  PROVE  \A a \in Actors : Owns(a)'
  BY DEF Owns

LEMMA HangIs ==
  ASSUME ActorTypes, NEW a \in Actors, conn' = [conn EXCEPT ![a] = NoConn]
  PROVE  conn'[a] = NoConn /\ \A b \in Actors \ {a} : conn'[b] = conn[b]
  BY DEF ActorTypes

LEMMA ForgottenIs ==
  ASSUME ServerTypes, NEW c \in Conns, Broker!Forget(c)
  PROVE  \A d \in Conns \ {c} : phase'[d] = phase[d] /\ req'[d] = req[d] /\ ans'[d] = ans[d]
  BY DEF ServerTypes, Broker!Forget

(* What the receiver of an answer does.                                     *)
LEMMA ReceiverIs ==
  ASSUME IInv, NEW c \in Conns, Forgets(c), ~Discard(c)
  PROVE  \E a \in Actors :
           /\ conn[a] = c /\ Answered(a) /\ conn' = [conn EXCEPT ![a] = NoConn]
           /\ \/ a \in Users /\ UserReturn(a)
              \/ a \in Workers /\ (DequeueError(a) \/ DequeueEmpty(a) \/ DequeueMessage(a))
<1>1. ASSUME NEW u \in Users, conn[u] = c, UserReturn(u)
      PROVE  Answered(u) /\ conn' = [conn EXCEPT ![u] = NoConn]
  BY <1>1 DEF UserReturn, Receive, Hang
<1>2. ASSUME NEW w \in Workers, conn[w] = c, DequeueError(w) \/ DequeueEmpty(w) \/ DequeueMessage(w)
      PROVE  Answered(w) /\ conn' = [conn EXCEPT ![w] = NoConn]
  BY <1>2 DEF DequeueError, DequeueEmpty, DequeueMessage, Receive, Hang
<1> QED
  BY <1>1, <1>2 DEF Forgets, Actors

LEMMA InitActors == Init => ActorInv
  BY DEF Init, ActorInv, Actors

LEMMA ActorStep == ASSUME IInv, Next PROVE ActorInv'
<1>1. /\ ServerTypes /\ ActorTypes
      /\ \A a \in Actors : Owns(a) /\ conn[a] \in Conns \cup {NoConn}
      /\ \A w \in Workers : Busy(w) /\ w \in Actors
  BY DEF IInv, TypeOK, ActorTypes, ActorInv, Owns, Busy, Actors
<1>2. SUFFICES (\A a \in Actors : Owns(a)') /\ (\A w \in Workers : Busy(w)')
  BY DEF ActorInv, Owns, Busy
<1>3. ASSUME NEW c \in Conns, Serve(c)
      PROVE  (\A a \in Actors : Owns(a)') /\ (\A w \in Workers : Busy(w)')
  <2>1. UNCHANGED <<conn, at, held>>
    BY <1>3 DEF Serve, workVars
  <2>2. PICK k, i : Answers(c, k, i)
    BY <1>3, ServeIs, ServeFits
  <2>3. \A d \in Conns : req'[d] = req[d] /\ (phase[d] # "idle" => phase'[d] # "idle")
    BY <1>1, <2>2, AnswersIs
  <2>4. \A a \in Actors : Owns(a)'
    BY <1>1, <2>1, <2>3, OwnsKept DEF Owns
  <2> QED
    BY <1>1, <2>1, <2>4 DEF Busy
<1>4. ASSUME NEW c \in Conns, Discard(c)
      PROVE  (\A a \in Actors : Owns(a)') /\ (\A w \in Workers : Busy(w)')
  <2>1. UNCHANGED <<conn, at, held>> /\ (\A a \in Actors : conn[a] # c) /\ Broker!Forget(c)
    BY <1>4 DEF Discard, workVars
  <2>2. \A d \in Conns \ {c} : phase'[d] = phase[d] /\ req'[d] = req[d]
    BY <1>1, <2>1, ForgottenIs
  <2>3. \A a \in Actors : Owns(a)'
    BY <1>1, <2>1, <2>2, OwnsKept DEF Owns
  <2> QED
    BY <1>1, <2>1, <2>3 DEF Busy
<1>5. ASSUME NEW c \in Conns, Forgets(c), ~Discard(c)
      PROVE  (\A a \in Actors : Owns(a)') /\ (\A w \in Workers : Busy(w)')
  <2>1. PICK a \in Actors :
           /\ conn[a] = c /\ Answered(a) /\ conn' = [conn EXCEPT ![a] = NoConn]
           /\ \/ a \in Users /\ UserReturn(a)
              \/ a \in Workers /\ (DequeueError(a) \/ DequeueEmpty(a) \/ DequeueMessage(a))
    BY <1>5, ReceiverIs
  <2>2. Broker!Forget(c)
    BY <1>5, ForgetsIs
  <2>3. \A d \in Conns \ {c} : phase'[d] = phase[d] /\ req'[d] = req[d]
    BY <1>1, <2>2, ForgottenIs
  <2>4. conn'[a] = NoConn /\ \A b \in Actors \ {a} : conn'[b] = conn[b] /\ conn[b] # c
    BY <1>1, <2>1, HangIs, Constants DEF Owns
  <2>5. \A b \in Actors : Owns(b)'
    BY <1>1, <2>3, <2>4, OwnsKept DEF Owns
  <2>6. CASE a \in Users /\ UserReturn(a)
    BY <1>1, <2>4, <2>5, <2>6, Constants DEF Busy, UserReturn, workVars
  <2>7. CASE a \in Workers /\ (DequeueError(a) \/ DequeueEmpty(a))
    <3>1. held' = held /\ Goto(a, "sleep")
      BY <2>7 DEF DequeueError, DequeueEmpty
    <3>2. at[a] = "wait"
      BY <1>1, <2>1, <2>7 DEF Busy, Answered
    <3> QED
      BY <1>1, <2>4, <2>5, <2>7, <3>1, <3>2, GotoIs DEF Busy
  <2>8. CASE a \in Workers /\ DequeueMessage(a)
    <3>1. held' = [held EXCEPT ![a] = Item(a)] /\ Goto(a, "gen") /\ Code(a) = 200
      BY <2>8 DEF DequeueMessage
    <3>2. Item(a) # NoItem
      <4>1. req[c].op = "dequeue" /\ phase[c] = "answered" /\ ans[c].code = 200
        BY <1>1, <2>1, <2>8, <3>1, Constants DEF Owns, Answered, Code
      <4>2. ans[c].m \in taken /\ taken \subseteq Items
        BY <4>1 DEF IInv, CallInv, TypeOK
      <4> QED
        BY <2>1, <4>2, Constants DEF Item
    <3>3. held'[a] = Item(a) /\ \A v \in Workers \ {a} : held'[v] = held[v]
      BY <1>1, <2>8, <3>1 DEF ActorTypes
    <3> QED
      BY <1>1, <2>4, <2>5, <2>8, <3>1, <3>2, <3>3, GotoIs DEF Busy
  <2> QED
    BY <2>1, <2>6, <2>7, <2>8
<1>6. ASSUME NEW w \in Workers, Quiet(w)
      PROVE  (\A a \in Actors : Owns(a)') /\ (\A v \in Workers : Busy(v)')
  <2>1. UNCHANGED <<phase, req>>
    BY <1>6, QuietTypes DEF serverVars
  <2>2. PICK l \in {"check", "stopped", "dequeue", "sleep"} : Goto(w, l)
    BY <1>6, QuietIs
  <2>3. at'[w] = l /\ \A v \in Workers \ {w} : at'[v] = at[v]
    BY <1>1, <2>2, GotoIs
  <2>4. CASE at[w] \notin {"wait", "gen"} /\ UNCHANGED <<conn, held>>
    BY <1>1, <2>1, <2>3, <2>4 DEF Owns, Busy
  <2>5. CASE ItemDone(w)
    <3>1. conn' = conn /\ held'[w] = NoItem /\ at[w] = "gen"
          /\ \A v \in Workers \ {w} : held'[v] = held[v]
      BY <1>1, <2>5 DEF ItemDone, ActorTypes
    <3> QED
      BY <1>1, <2>1, <2>3, <3>1 DEF Owns, Busy
  <2>6. CASE DequeueCutOff(w)
    <3>1. held' = held /\ at[w] = "wait" /\ conn' = [conn EXCEPT ![w] = NoConn]
      BY <2>6 DEF DequeueCutOff, Hang
    <3>2. conn'[w] = NoConn /\ \A b \in Actors \ {w} : conn'[b] = conn[b]
      BY <1>1, <3>1, HangIs
    <3>3. \A a \in Actors : Owns(a)'
      BY <1>1, <2>1, <3>2, OwnsKept DEF Owns
    <3> QED
      BY <1>1, <2>3, <3>1, <3>2, <3>3 DEF Busy
  <2> QED
    BY <1>6, <2>4, <2>5, <2>6, QuietIs
<1>7. ASSUME NEW a \in Actors, NEW c \in Conns, NEW op \in Ops, Connects(a, c, op),
             conn[a] = NoConn, a \in Workers <=> op = "dequeue"
      PROVE  \A b \in Actors : Owns(b)'
  <2>1. conn'[a] = c /\ \A b \in Actors \ {a} : conn'[b] = conn[b]
    BY <1>1, <1>7 DEF Connects, ActorTypes
  <2>2. /\ phase[c] = "idle" /\ phase'[c] = "pending" /\ req'[c].op = op
        /\ \A d \in Conns \ {c} : phase'[d] = phase[d] /\ req'[d] = req[d]
    BY <1>1, <1>7, AskIs DEF Connects, ServerTypes
  <2>3. \A b \in Actors \ {a} : conn[b] # c
    BY <1>1, <2>2, Constants DEF Owns
  <2> QED
    BY <1>1, <1>7, <2>1, <2>2, <2>3 DEF Owns
<1>8. ASSUME NEW w \in Workers, Dequeue(w)
      PROVE  (\A a \in Actors : Owns(a)') /\ (\A v \in Workers : Busy(v)')
  <2>1. PICK c \in Conns : Connects(w, c, "dequeue")
    BY <1>8, DequeueSends
  <2>2. at[w] = "dequeue" /\ Goto(w, "wait") /\ held' = held
    BY <1>8, DequeueSends
  <2>3. conn[w] = NoConn
    BY <1>1, <2>2 DEF Busy
  <2>4. \A a \in Actors : Owns(a)'
    BY <1>1, <1>7, <2>1, <2>3, Constants
  <2>5. conn'[w] = c /\ c # NoConn /\ \A v \in Workers \ {w} : conn'[v] = conn[v]
    BY <1>1, <2>1, Constants DEF Connects, ActorTypes
  <2> QED
    BY <1>1, <2>2, <2>4, <2>5, GotoIs DEF Busy
<1>9. ASSUME NEW u \in Users, NEW op \in UserOps, UserCall(u, op)
      PROVE  (\A a \in Actors : Owns(a)') /\ (\A w \in Workers : Busy(w)')
  <2>1. PICK c \in Conns : Connects(u, c, op)
    BY <1>9, UserCallIs
  <2>2. conn[u] = NoConn /\ op \in Ops \ {"dequeue"} /\ UNCHANGED <<at, held>>
    BY <1>9, UserCallIs DEF workVars
  <2>3. \A a \in Actors : Owns(a)'
    BY <1>7, <2>1, <2>2, Constants
  <2>4. \A w \in Workers : conn'[w] = conn[w]
    BY <1>1, <2>1, Constants DEF Connects, ActorTypes
  <2> QED
    BY <1>1, <2>2, <2>3, <2>4 DEF Busy
<1>10. ASSUME NEW p \in Procs, Ends(p)
       PROVE  (\A a \in Actors : Owns(a)') /\ (\A w \in Workers : Busy(w)')
  <2>1. End(p)
    BY <1>10, EndsIs
  <2>2. \A a \in Actors : conn'[a] = IF a \in Hit(p) THEN NoConn ELSE conn[a]
    BY <2>1 DEF End
  <2>3. ASSUME NEW w \in Workers PROVE Busy(w)'
    <3>1. /\ at'[w] = IF w \in InProc(p) THEN "off" ELSE IF w \in CutOff(p) THEN "sleep" ELSE at[w]
          /\ held'[w] = IF w \in InProc(p) THEN NoItem ELSE held[w]
      BY <2>1 DEF End
    <3>2. CASE w \in InProc(p)
      BY <1>1, <2>2, <3>1, <3>2 DEF Busy, Hit
    <3>3. CASE w \notin InProc(p) /\ w \in CutOff(p)
      <4>1. w \in Hit(p) /\ conn[w] # NoConn
        BY <3>3 DEF CutOff
      <4>2. held[w] = NoItem
        BY <1>1, <4>1 DEF Busy
      <4> QED
        BY <1>1, <2>2, <3>1, <3>3, <4>1, <4>2 DEF Busy
    <3>4. CASE w \notin InProc(p) /\ w \notin CutOff(p)
      <4>1. conn'[w] = conn[w]
        BY <1>1, <2>2, <3>4 DEF CutOff
      <4> QED
        BY <1>1, <3>1, <3>4, <4>1 DEF Busy
    <3> QED
      BY <3>2, <3>3, <3>4
  <2>4. CASE p = Server
    <3>1. \A a \in Actors : conn'[a] = NoConn
      BY <2>2, <2>4 DEF Hit
    <3> QED
      BY <2>3, <3>1 DEF Owns
  <2>5. CASE UNCHANGED serverVars
    <3>1. \A a \in Actors : Owns(a)'
      BY <1>1, <2>2, <2>5, OwnsKept DEF Owns, serverVars
    <3> QED
      BY <2>3, <3>1
  <2>6. ASSUME NEW w \in Workers, p = ProcOf[w], Answered(w), Broker!Forget(conn[w])
        PROVE  \A a \in Actors : Owns(a)'
    <3>1. conn[w] \in Conns
      BY <1>1, <2>6 DEF Answered
    <3>2. \A d \in Conns \ {conn[w]} : phase'[d] = phase[d] /\ req'[d] = req[d]
      BY <1>1, <2>6, <3>1, ForgottenIs
    <3>3. conn'[w] = NoConn
      BY <1>1, <2>2, <2>6 DEF Hit, InProc
    <3>4. \A a \in Actors \ {w} : conn[a] # conn[w]
      BY <1>1, <3>1, Constants DEF Owns
    <3> QED
      BY <1>1, <2>2, <3>2, <3>3, <3>4, OwnsKept DEF Owns
  <2> QED
    BY <1>10, <2>3, <2>4, <2>5, <2>6, EndsIs
<1> QED
  BY <1>3, <1>4, <1>5, <1>6, <1>8, <1>9, <1>10, Steps

-----------------------------------------------------------------------------
(* WHAT AN EXITING WORKER WAS PROMISED *)

(* An item that was in before w asked, and that the name still leads to, is *)
(* in the only queue that w's Dequeue can look at.                          *)
Faithful(w) ==
  /\ promised[w] \subseteq acked
  /\ promised[w] \cap Waiting # {} =>
       /\ conn[w] # NoConn
       /\ phase[conn[w]] = "pending" => seen[conn[w]] = {table[Queue]}
       /\ phase[conn[w]] = "answered" => ans[conn[w]].code # 204

LEMMA InitPromise == Init => PromiseInv
  BY DEF Init, PromiseInv

LEMMA FaithfulKept ==
  ASSUME NEW w \in Workers, Faithful(w), acked \subseteq acked',
         promised'[w] = promised[w], Waiting' \subseteq Waiting,
         Waiting' # {} => table'[Queue] = table[Queue],
         conn'[w] = conn[w], conn[w] # NoConn => /\ phase'[conn[w]] = phase[conn[w]]
                                                 /\ ans'[conn[w]] = ans[conn[w]]
                                                 /\ seen'[conn[w]] = seen[conn[w]] \/ Waiting' = {}
  PROVE  Faithful(w)'
  BY DEF Faithful

LEMMA ServeWaiting ==
  ASSUME IInv, NEW c \in Conns, Serves(c)
  PROVE  /\ \A w \in Workers : promised[w] \cap Waiting' \subseteq promised[w] \cap Waiting
         /\ Waiting' # {} => UNCHANGED <<table, seen>>
<1>1. /\ ServerTypes /\ MintInv /\ RefInv /\ acked \subseteq entered
      /\ \A w \in Workers : promised[w] \subseteq acked
  BY DEF IInv, TypeOK, MintInv, PromiseInv
<1>2. Waiting' = IF table'[Queue] = NoQueue THEN {} ELSE Range(store'[table'[Queue]].msgs)
  BY DEF Waiting, NoQueue
<1>3. Range(<<>>) = {}
  BY DEF Range
<1>4. CASE Creates(c)
  <2>1. table'[Queue] = req[c].q /\ store' = store /\ Msgs(req[c].q) = <<>>
    BY <1>1, <1>4 DEF Creates, Rebinds, RefInv
  <2>2. Waiting' = {}
    BY <1>2, <1>3, <2>1 DEF Msgs
  <2> QED
    BY <2>2
<1>5. CASE Deletes(c)
  <2>1. table'[Queue] = NoQueue
    BY <1>5 DEF Deletes, Rebinds
  <2> QED
    BY <1>2, <2>1
<1>6. CASE Drains(c)
  <2>1. Msgs(table[Queue])' = <<>> /\ table' = table
    BY <1>6 DEF Drains, Became
  <2>2. Waiting' = {}
    BY <1>2, <1>3, <2>1 DEF Msgs
  <2> QED
    BY <2>2
<1>7. CASE Fails(c) \/ \E q \in seen[c] \cap Refs : TakesNone(c, q)
  BY <1>7 DEF Fails, TakesNone, Waiting
<1>8. ASSUME NEW q \in Refs, Puts(c, q)
      PROVE  /\ \A w \in Workers : promised[w] \cap Waiting' \subseteq promised[w] \cap Waiting
             /\ UNCHANGED <<table, seen>>
  <2>1. UNCHANGED <<table, seen>> /\ Became(q, Append(Msgs(q), req[c].m)) /\ req[c].m \in Items
    BY <1>8 DEF Puts
  <2>2. Range(Append(Msgs(q), req[c].m)) = In(q) \cup {req[c].m}
    BY <1>1, <2>1, InTypes, AppendRange DEF In
  <2>3. Waiting' \subseteq Waiting \cup {req[c].m}
    <3>1. CASE table[Queue] = NoQueue
      BY <1>2, <2>1, <3>1
    <3>2. CASE table[Queue] # NoQueue
      <4>1. table[Queue] \in Refs
        BY <1>1, <3>2 DEF ServerTypes
      <4>2. Msgs(table[Queue])' = IF table[Queue] = q THEN Append(Msgs(q), req[c].m)
                                                      ELSE Msgs(table[Queue])
        BY <2>1, <4>1 DEF Became, Msgs
      <4>3. Waiting' = Range(Msgs(table[Queue])') /\ Waiting = In(table[Queue])
        BY <1>2, <2>1, <3>2 DEF Waiting, In, Msgs, NoQueue
      <4> QED
        BY <2>2, <4>2, <4>3 DEF In
    <3> QED
      BY <3>1, <3>2
  <2>4. req[c].m \notin entered
    BY <1>1, <1>8 DEF Puts, MintInv
  <2> QED
    BY <1>1, <2>1, <2>3, <2>4
<1>9. ASSUME NEW q \in Refs, Takes(c, q)
      PROVE  Waiting' \subseteq Waiting /\ UNCHANGED <<table, seen>>
  <2>1. UNCHANGED <<table, seen>> /\ Became(q, Tail(Msgs(q))) /\ Msgs(q) # <<>>
    BY <1>9 DEF Takes
  <2>2. Range(Tail(Msgs(q))) \subseteq In(q)
    <3>1. NoRepeat(Msgs(q)) /\ Msgs(q) \in Seq(Items)
      BY <1>1, InTypes DEF IInv, PlaceInv, NoRepeat
    <3> QED
      BY <2>1, <3>1, TailRange DEF In
  <2>3. CASE table[Queue] = NoQueue
    BY <1>2, <2>1, <2>3
  <2>4. CASE table[Queue] # NoQueue
    <3>1. table[Queue] \in Refs
      BY <1>1, <2>4 DEF ServerTypes
    <3>2. Msgs(table[Queue])' = IF table[Queue] = q THEN Tail(Msgs(q)) ELSE Msgs(table[Queue])
      BY <2>1, <3>1 DEF Became, Msgs
    <3>3. Waiting' = Range(Msgs(table[Queue])') /\ Waiting = In(table[Queue])
      BY <1>2, <2>1, <2>4 DEF Waiting, In, Msgs, NoQueue
    <3> QED
      BY <2>1, <2>2, <3>2, <3>3 DEF In
  <2> QED
    BY <2>3, <2>4
<1> QED
  BY <1>4, <1>5, <1>6, <1>7, <1>8, <1>9 DEF Serves, Fails, TakesNone

LEMMA ServePromise ==
  ASSUME IInv, NEW c \in Conns, Serve(c), NEW w \in Workers
  PROVE  Faithful(w)'
<1>1. ServerTypes /\ Faithful(w) /\ w \in Actors /\ conn[w] \in Conns \cup {NoConn}
  BY DEF IInv, TypeOK, PromiseInv, Faithful, Actors, ActorTypes
<1>2. UNCHANGED <<conn, promised, acked>> /\ Serves(c)
  BY ServeIs DEF Serve
<1>3. /\ promised[w] \cap Waiting' \subseteq promised[w] \cap Waiting
      /\ Waiting' # {} => UNCHANGED <<table, seen>>
  BY <1>2, ServeWaiting
<1>4. SUFFICES ASSUME promised[w] \cap Waiting' # {}
      PROVE  /\ conn[w] # NoConn
             /\ phase'[conn[w]] = "pending" => seen'[conn[w]] = {table'[Queue]}
             /\ phase'[conn[w]] = "answered" => ans'[conn[w]].code # 204
  BY <1>1, <1>2 DEF Faithful
<1>5. /\ conn[w] \in Conns /\ UNCHANGED <<table, seen>>
      /\ phase[conn[w]] = "pending" => seen[conn[w]] = {table[Queue]}
      /\ phase[conn[w]] = "answered" => ans[conn[w]].code # 204
  BY <1>1, <1>3, <1>4 DEF Faithful
<1>6. PICK k, i : Answers(c, k, i) /\ k \in {200, 204, 400}
  BY <1>2, ServeFits
<1>7. /\ phase'[c] = "answered" /\ ans'[c].code = k /\ phase[c] = "pending"
      /\ \A d \in Conns \ {c} : phase'[d] = phase[d] /\ ans'[d] = ans[d]
  BY <1>1, <1>6, AnswersIs
<1>8. CASE conn[w] # c
  BY <1>5, <1>7, <1>8, Constants
<1>9. CASE conn[w] = c
  <2>1. seen[c] = {table[Queue]}
    BY <1>5, <1>7, <1>9
  <2>2. ASSUME NEW q \in seen[c] \cap Refs, TakesNone(c, q) PROVE FALSE
    <3>1. q = table[Queue] /\ Msgs(q) = <<>>
      BY <2>1, <2>2 DEF TakesNone
    <3>2. Waiting = {}
      BY <3>1 DEF Waiting, Msgs, Range
    <3> QED
      BY <1>3, <1>4, <3>2
  <2>3. k # 204
    <3>1. Creates(c) \/ Deletes(c) \/ Fails(c) \/ Drains(c)
            \/ \E q \in seen[c] \cap Refs : Puts(c, q) \/ Takes(c, q)
      BY <1>2, <2>2 DEF Serves
    <3>2. \E j \in {200, 400} : \E m : Answers(c, j, m)
      BY <3>1 DEF Creates, Deletes, Fails, Drains, Puts, Takes
    <3> QED
      BY <1>1, <1>7, <3>2, AnswersIs
  <2> QED
    BY <1>5, <1>7, <1>9, <2>3, Constants
<1> QED
  BY <1>8, <1>9

LEMMA PromiseStep == ASSUME IInv, Next PROVE PromiseInv' /\ (left = {} => left' = {})
<1>1. /\ ServerTypes /\ ActorTypes
      /\ \A w \in Workers : Faithful(w) /\ w \in Actors /\ conn[w] \in Conns \cup {NoConn}
      /\ \A a \in Actors : Owns(a)
  BY DEF IInv, TypeOK, PromiseInv, Faithful, Actors, ActorTypes, ActorInv, Owns
<1>2. SUFFICES (\A w \in Workers : Faithful(w)') /\ (left = {} => left' = {})
  BY DEF PromiseInv, Faithful
<1>3. \A w \in Workers : promised'[w] = {} => Faithful(w)'
  BY DEF Faithful
<1>4. ASSUME NEW c \in Conns, Serve(c)
      PROVE  (\A w \in Workers : Faithful(w)') /\ left' = left
  BY <1>4, ServePromise DEF Serve
<1>5. ASSUME NEW c \in Conns, Discard(c)
      PROVE  (\A w \in Workers : Faithful(w)') /\ left' = left
  <2>1. /\ Broker!Forget(c) /\ UNCHANGED <<conn, promised, acked, left>>
        /\ \A a \in Actors : conn[a] # c
    BY <1>5 DEF Discard, ghosts
  <2>2. /\ UNCHANGED <<table, store>>
        /\ \A d \in Conns \ {c} : /\ phase'[d] = phase[d] /\ ans'[d] = ans[d]
                                  /\ seen'[d] = seen[d]
    BY <1>1, <2>1 DEF Broker!Forget, ServerTypes
  <2>3. Waiting' = Waiting
    BY <2>2 DEF Waiting
  <2> QED
    BY <1>1, <2>1, <2>2, <2>3, FaithfulKept
<1>6. ASSUME NEW c \in Conns, Forgets(c), ~Discard(c)
      PROVE  (\A w \in Workers : Faithful(w)') /\ left' = left
  <2>1. PICK a \in Actors :
           /\ conn[a] = c /\ Answered(a) /\ conn' = [conn EXCEPT ![a] = NoConn]
           /\ \/ a \in Users /\ UserReturn(a)
              \/ a \in Workers /\ (DequeueError(a) \/ DequeueEmpty(a) \/ DequeueMessage(a))
    BY <1>6, ReceiverIs
  <2>2. Broker!Forget(c)
    BY <1>6, ForgetsIs
  <2>3. /\ UNCHANGED <<table, store>>
        /\ \A d \in Conns \ {c} : /\ phase'[d] = phase[d] /\ ans'[d] = ans[d]
                                  /\ seen'[d] = seen[d]
    BY <1>1, <2>2 DEF Broker!Forget, ServerTypes
  <2>4. Waiting' = Waiting
    BY <2>3 DEF Waiting
  <2>5. conn'[a] = NoConn /\ \A b \in Actors \ {a} : conn'[b] = conn[b] /\ conn[b] # c
    BY <1>1, <2>1, HangIs, Constants DEF Owns
  <2>6. left' = left /\ acked \subseteq acked'
    BY <2>1 DEF UserReturn, DequeueError, DequeueEmpty, DequeueMessage, ghosts
  <2>7. ASSUME NEW w \in Workers, w # a PROVE promised'[w] = promised[w]
    <3>1. CASE UserReturn(a)
      BY <3>1 DEF UserReturn
    <3>2. CASE a \in Workers /\ (DequeueError(a) \/ DequeueEmpty(a) \/ DequeueMessage(a))
      <4>1. Goto(a, "sleep") \/ Goto(a, "gen")
        BY <3>2 DEF DequeueError, DequeueEmpty, DequeueMessage
      <4> QED
        BY <1>1, <2>7, <3>2, <4>1, GotoIs
    <3> QED
      BY <2>1, <3>1, <3>2
  <2>8. ASSUME NEW w \in Workers, w # a PROVE Faithful(w)'
    BY <1>1, <2>3, <2>4, <2>5, <2>6, <2>7, <2>8, FaithfulKept
  <2>9. ASSUME a \in Workers PROVE Faithful(a)'
    <3>1. Goto(a, "sleep") \/ Goto(a, "gen")
      BY <2>1, <2>9, Constants DEF DequeueError, DequeueEmpty, DequeueMessage
    <3> QED
      BY <1>1, <1>3, <2>9, <3>1, GotoIs
  <2> QED
    BY <2>6, <2>8, <2>9
<1>7. ASSUME NEW w \in Workers, Quiet(w)
      PROVE  (\A v \in Workers : Faithful(v)') /\ left' = left
  <2>1. UNCHANGED <<serverVars, acked>> /\ left' = left
    BY <1>7, QuietTypes, QuietIs
  <2>2. PICK l \in {"check", "stopped", "dequeue", "sleep"} : Goto(w, l)
    BY <1>7, QuietIs
  <2>3. promised'[w] = {} /\ \A v \in Workers \ {w} : promised'[v] = promised[v]
    BY <1>1, <2>2, GotoIs
  <2>4. \A v \in Workers \ {w} : conn'[v] = conn[v]
    <3>1. CASE ItemDone(w)
      BY <3>1 DEF ItemDone
    <3>2. CASE DequeueCutOff(w)
      BY <1>1, <3>2, HangIs DEF DequeueCutOff, Hang
    <3> QED
      BY <1>7, <3>1, <3>2, QuietIs
  <2>5. Waiting' = Waiting
    BY <2>1 DEF Waiting, serverVars
  <2> QED
    BY <1>1, <1>3, <2>1, <2>3, <2>4, <2>5, FaithfulKept DEF serverVars
<1>8. ASSUME NEW a \in Actors, NEW c \in Conns, NEW op \in Ops, Connects(a, c, op),
             acked' = acked, NEW w \in Workers, w # a, promised'[w] = promised[w]
      PROVE  Faithful(w)'
  <2>1. conn'[w] = conn[w]
    BY <1>1, <1>8 DEF Connects, ActorTypes
  <2>2. /\ phase[c] = "idle" /\ UNCHANGED <<table, store, ans>>
        /\ \A d \in Conns \ {c} : phase'[d] = phase[d] /\ seen'[d] = seen[d]
    BY <1>1, <1>8, AskIs DEF Connects, ServerTypes
  <2>3. conn[w] # c
    BY <1>1, <2>2, Constants DEF Owns
  <2>4. Waiting' = Waiting
    BY <2>2 DEF Waiting
  <2> QED
    BY <1>1, <1>8, <2>1, <2>2, <2>3, <2>4, FaithfulKept
<1>9. ASSUME NEW w \in Workers, Dequeue(w)
      PROVE  (\A v \in Workers : Faithful(v)') /\ left' = left
  <2>1. PICK c \in Conns : Connects(w, c, "dequeue")
    BY <1>9, DequeueSends
  <2>2. Goto(w, "wait") /\ acked' = acked /\ left' = left
    BY <1>9, DequeueSends DEF ghosts
  <2>3. promised'[w] \subseteq acked /\ \A v \in Workers \ {w} : promised'[v] = promised[v]
    BY <1>1, <2>2, GotoIs
  <2>4. conn'[w] = c /\ c # NoConn
    BY <1>1, <2>1, Constants DEF Connects, ActorTypes
  <2>5. phase'[c] = "pending" /\ seen'[c] = {table[Queue]} /\ table' = table
    BY <1>1, <2>1, AskIs, Constants DEF Connects, ServerTypes
  <2>6. Faithful(w)'
    BY <2>2, <2>3, <2>4, <2>5 DEF Faithful
  <2>7. \A v \in Workers \ {w} : Faithful(v)'
    BY <1>1, <1>8, <2>1, <2>2, <2>3, Constants
  <2> QED
    BY <2>2, <2>6, <2>7
<1>10. ASSUME NEW u \in Users, NEW op \in UserOps, UserCall(u, op)
       PROVE  (\A w \in Workers : Faithful(w)') /\ left' = left
  <2>1. PICK c \in Conns : Connects(u, c, op)
    BY <1>10, UserCallIs
  <2>2. op \in Ops /\ UNCHANGED <<promised, acked, left>>
    BY <1>10, UserCallIs DEF ghosts
  <2>3. u \in Actors /\ \A w \in Workers : w # u
    BY Constants
  <2> QED
    BY <1>8, <2>1, <2>2, <2>3
<1>11. ASSUME NEW p \in Procs, Ends(p)
       PROVE  (\A w \in Workers : Faithful(w)') /\ (left = {} => left' = {})
  <2>1. End(p) /\ acked' = acked
    BY <1>11, EndsIs
  <2>2. \A w \in Workers : promised'[w] = IF w \in Hit(p) THEN {} ELSE promised[w]
    BY <2>1 DEF End
  <2>3. \A w \in Workers \ Hit(p) : conn'[w] = conn[w]
    BY <1>1, <2>1 DEF End
  <2>4. ASSUME NEW w \in Workers, w \notin Hit(p) PROVE Faithful(w)'
    <3>1. p # Server
      BY <1>1, <2>4 DEF Hit
    <3>2. CASE UNCHANGED serverVars
      <4>1. Waiting' = Waiting
        BY <3>2 DEF Waiting, serverVars
      <4> QED
        BY <1>1, <2>1, <2>2, <2>3, <2>4, <3>2, <4>1, FaithfulKept DEF serverVars
    <3>3. ASSUME NEW v \in Workers, p = ProcOf[v], Answered(v), Broker!Forget(conn[v])
          PROVE  Faithful(w)'
      <4>1. v \in Hit(p) /\ conn[v] \in Conns
        BY <1>1, <3>3 DEF Hit, InProc, Answered
      <4>2. /\ UNCHANGED <<table, store>>
            /\ \A d \in Conns \ {conn[v]} : /\ phase'[d] = phase[d] /\ ans'[d] = ans[d]
                                            /\ seen'[d] = seen[d]
        BY <1>1, <3>3, <4>1 DEF Broker!Forget, ServerTypes
      <4>3. conn[w] # conn[v]
        BY <1>1, <2>4, <4>1, Constants DEF Owns
      <4>4. Waiting' = Waiting
        BY <4>2 DEF Waiting
      <4> QED
        BY <1>1, <2>1, <2>2, <2>3, <2>4, <4>2, <4>3, <4>4, FaithfulKept
    <3> QED
      BY <1>11, <3>1, <3>2, <3>3, EndsIs
  <2>5. ASSUME left = {} PROVE left' = {}
    <3>1. CASE Kill(p)
      BY <2>5, <3>1 DEF Kill
    <3>2. ASSUME NEW w \in Workers, DequeueEmptyExit(w) PROVE left' = {}
      <4>1. phase[conn[w]] = "answered" /\ ans[conn[w]].code = 204
        BY <3>2 DEF DequeueEmptyExit, Answered, Code
      <4>2. promised[w] \cap Waiting = {}
        BY <1>1, <4>1 DEF Faithful
      <4> QED
        BY <2>5, <3>2, <4>2 DEF DequeueEmptyExit, Exit
    <3> QED
      BY <1>11, <3>1, <3>2 DEF Ends
  <2> QED
    BY <1>3, <2>2, <2>4, <2>5
<1> QED
  BY <1>4, <1>5, <1>6, <1>7, <1>9, <1>10, <1>11, Steps

-----------------------------------------------------------------------------
(* WHERE THE ITEMS ARE *)

(* What a step does to the items that the workers of C are cut off from.    *)
CutsOff(C) ==
  /\ C \subseteq Workers /\ broken' = broken + Cardinality(C)
  /\ \A v \in Workers : Has(v)' = IF v \in C THEN NoItem ELSE Has(v)
  /\ Orphans' \subseteq Orphans \cup {conn[v] : v \in {u \in C : Has(u) = NoItem}}
  /\ \A q \in Refs : Msgs(q)' \in {Msgs(q), <<>>}
  /\ UNCHANGED <<entered, taken, done>>

LEMMA NoneCut ==
  ASSUME ActorTypes, broken' = broken, \A v \in Workers : Has(v)' = Has(v), Orphans' \subseteq Orphans,
         store' = store, UNCHANGED <<entered, taken, done>>
  PROVE  CutsOff({})
<1>1. Cardinality({}) = 0
  BY FS_EmptySet
<1> QED
  BY <1>1 DEF CutsOff, Msgs, ActorTypes

(* A worker has nothing, its item in hand, or one on its way.               *)
LEMMA HasIs ==
  ASSUME ActorTypes, ServerTypes, ActorInv, NEW w \in Workers
  PROVE  /\ Has(w) \in Items \cup {NoItem}
         /\ held[w] # NoItem => conn[w] = NoConn /\ Has(w) = held[w]
         /\ (conn[w] # NoConn /\ phase[conn[w]] = "answered") => Has(w) = ans[conn[w]].m
         /\ (held[w] = NoItem /\ conn[w] = NoConn) => Has(w) = NoItem
         /\ (conn[w] # NoConn /\ phase[conn[w]] # "answered") => Has(w) = NoItem
<1>1. /\ at[w] = "wait" <=> conn[w] # NoConn
      /\ at[w] = "gen" <=> held[w] # NoItem
  BY DEF ActorInv
<1>2. conn[w] # NoConn => held[w] = NoItem
  BY <1>1
<1>3. held[w] \in Items \cup {NoItem} /\ conn[w] \in Conns \cup {NoConn}
  BY DEF ActorTypes, Actors
<1>4. \A c \in Conns : ans[c].m \in Items \cup {NoItem}
  BY DEF ServerTypes, AnsType
<1> QED
  BY <1>2, <1>3, <1>4 DEF Has, Answered, Item

LEMMA HasSame ==
  ASSUME NEW w \in Workers, held'[w] = held[w], conn'[w] = conn[w],
         conn[w] # NoConn => phase'[conn[w]] = phase[conn[w]] /\ ans'[conn[w]] = ans[conn[w]]
  PROVE  Has(w)' = Has(w)
  BY DEF Has, Answered, Item

LEMMA OrphansIs ==
  /\ \A c \in Conns : c \in Orphans <=> /\ phase[c] = "pending" /\ req[c].op = "dequeue"
                                        /\ \A a \in Actors : conn[a] # c
  /\ \A c \in Conns : c \in Orphans' <=> /\ phase'[c] = "pending" /\ req'[c].op = "dequeue"
                                         /\ \A a \in Actors : conn'[a] # c
  /\ Orphans \subseteq Conns /\ Orphans' \subseteq Conns
  BY DEF Orphans, Pending, Broker!Pending

(* An answer other than a message brings nothing. *)
LEMMA EmptyHanded ==
  ASSUME IInv, NEW w \in Workers, Answered(w), Code(w) # 200
  PROVE  Has(w) = NoItem
<1>1. conn[w] \in Conns /\ phase[conn[w]] = "answered" /\ conn[w] # NoConn
  BY DEF Answered, IInv, TypeOK, ActorTypes, Actors
<1>2. ans[conn[w]].m = NoItem
  BY <1>1 DEF IInv, CallInv, Code
<1> QED
  BY <1>1, <1>2, HasIs DEF IInv, TypeOK

LEMMA ForgetsCut ==
  ASSUME IInv, NEW c \in Conns, Forgets(c)
  PROVE  CutsOff({})
<1>1. /\ ServerTypes /\ ActorTypes /\ ActorInv
      /\ \A a \in Actors : Owns(a) /\ conn[a] \in Conns \cup {NoConn}
      /\ \A w \in Workers : w \in Actors
  BY DEF IInv, TypeOK, ActorTypes, ActorInv, Owns, Actors
<1>2. /\ Broker!Forget(c) /\ phase[c] = "answered" /\ UNCHANGED <<entered, taken>>
  BY <1>1, ForgetsIs
<1>3. /\ \A d \in Conns \ {c} : phase'[d] = phase[d] /\ req'[d] = req[d] /\ ans'[d] = ans[d]
      /\ phase'[c] = "idle" /\ store' = store
  BY <1>1, <1>2 DEF Broker!Forget, ServerTypes
<1>4. CASE Discard(c)
  <2>1. UNCHANGED <<conn, held, broken, done>> /\ \A a \in Actors : conn[a] # c
    BY <1>4 DEF Discard, workVars, ghosts
  <2>2. \A v \in Workers : Has(v)' = Has(v)
    BY <1>1, <1>3, <2>1, HasSame
  <2>3. Orphans' \subseteq Orphans
    BY <1>3, <2>1, OrphansIs
  <2> QED
    BY <1>1, <1>2, <1>3, <2>1, <2>2, <2>3, NoneCut
<1>5. CASE ~Discard(c)
  <2>1. PICK a \in Actors :
           /\ conn[a] = c /\ Answered(a) /\ conn' = [conn EXCEPT ![a] = NoConn]
           /\ \/ a \in Users /\ UserReturn(a)
              \/ a \in Workers /\ (DequeueError(a) \/ DequeueEmpty(a) \/ DequeueMessage(a))
    BY <1>5, ReceiverIs
  <2>2. conn'[a] = NoConn /\ \A b \in Actors \ {a} : conn'[b] = conn[b] /\ conn[b] # c
    BY <1>1, <2>1, HangIs, Constants DEF Owns
  <2>3. UNCHANGED <<broken, done>>
    BY <2>1 DEF UserReturn, DequeueError, DequeueEmpty, DequeueMessage, ghosts
  <2>4. ASSUME NEW d \in Orphans' PROVE d \in Orphans
    <3>1. d \in Conns /\ phase'[d] = "pending" /\ req'[d].op = "dequeue"
          /\ \A b \in Actors : conn'[b] # d
      BY OrphansIs
    <3>2. d # c /\ \A b \in Actors : conn[b] # d
      BY <1>3, <2>1, <2>2, <3>1
    <3> QED
      BY <1>3, <3>1, <3>2, OrphansIs
  <2>5. ASSUME NEW v \in Workers, v # a PROVE held'[v] = held[v]
    BY <1>1, <2>1, <2>5
    DEF UserReturn, DequeueError, DequeueEmpty, DequeueMessage, workVars, ActorTypes
  <2>6. \A v \in Workers \ {a} : Has(v)' = Has(v)
    BY <1>1, <1>3, <2>2, <2>5, HasSame
  <2>7. ASSUME a \in Workers PROVE Has(a)' = Has(a)
    <3>1. held[a] = NoItem /\ conn[a] # NoConn /\ phase[conn[a]] = "answered"
      BY <1>1, <2>1, <2>7, HasIs DEF Answered
    <3>2. ~Answered(a)'
      BY <2>2 DEF Answered
    <3>3. CASE DequeueError(a) \/ DequeueEmpty(a)
      <4>1. held' = held /\ Code(a) # 200
        BY <3>3 DEF DequeueError, DequeueEmpty, IsError
      <4>2. Has(a) = NoItem
        BY <2>1, <2>7, <4>1, EmptyHanded
      <4> QED
        BY <3>1, <3>2, <4>1, <4>2 DEF Has
    <3>4. CASE DequeueMessage(a)
      <4>1. held'[a] = Item(a)
        BY <1>1, <2>7, <3>4 DEF DequeueMessage, ActorTypes
      <4>2. Has(a) = Item(a)
        BY <1>1, <2>7, <3>1, HasIs DEF Item
      <4>3. Has(a)' = held'[a] \/ (Has(a)' = NoItem /\ held'[a] = NoItem)
        BY <3>2 DEF Has
      <4> QED
        BY <4>1, <4>2, <4>3
    <3> QED
      BY <2>1, <2>7, <3>3, <3>4, Constants
  <2> QED
    BY <1>1, <1>2, <1>3, <2>3, <2>4, <2>6, <2>7, NoneCut
<1> QED
  BY <1>4, <1>5

LEMMA CallCut ==
  ASSUME IInv, NEW a \in Actors, NEW c \in Conns, NEW op \in Ops, Connects(a, c, op),
         conn[a] = NoConn, a \in Workers => held[a] = NoItem,
         UNCHANGED <<held, broken, entered, taken, done>>
  PROVE  CutsOff({})
<1>1. /\ ServerTypes /\ ActorTypes /\ ActorInv
      /\ \A b \in Actors : Owns(b) /\ conn[b] \in Conns \cup {NoConn}
      /\ \A w \in Workers : w \in Actors
  BY DEF IInv, TypeOK, ActorTypes, ActorInv, Owns, Actors
<1>2. conn'[a] = c /\ \A b \in Actors \ {a} : conn'[b] = conn[b]
  BY <1>1 DEF Connects, ActorTypes
<1>3. /\ phase[c] = "idle" /\ phase'[c] = "pending" /\ UNCHANGED <<store, ans>>
      /\ \A d \in Conns \ {c} : phase'[d] = phase[d] /\ req'[d] = req[d]
  BY <1>1, AskIs DEF Connects, ServerTypes
<1>4. \A b \in Actors \ {a} : conn[b] # c
  BY <1>1, <1>3, Constants DEF Owns
<1>5. \A v \in Workers \ {a} : Has(v)' = Has(v)
  BY <1>1, <1>2, <1>3, <1>4, HasSame
<1>6. a \in Workers => Has(a)' = Has(a)
  BY <1>1, <1>2, <1>3 DEF Has, Answered
<1>7. ASSUME NEW d \in Orphans' PROVE d \in Orphans
  <2>1. d \in Conns /\ phase'[d] = "pending" /\ req'[d].op = "dequeue"
        /\ \A b \in Actors : conn'[b] # d
    BY OrphansIs
  <2>2. d # c /\ \A b \in Actors : conn[b] # d
    BY <1>2, <2>1, Constants
  <2> QED
    BY <1>3, <2>1, <2>2, OrphansIs
<1> QED
  BY <1>1, <1>3, <1>5, <1>6, <1>7, NoneCut

LEMMA QuietCut ==
  ASSUME IInv, NEW w \in Workers, Quiet(w), ~ItemDone(w)
  PROVE  \E C : CutsOff(C)
<1>1. /\ ServerTypes /\ ActorTypes /\ ActorInv
      /\ \A b \in Actors : conn[b] \in Conns \cup {NoConn}
      /\ \A v \in Workers : v \in Actors
  BY DEF IInv, TypeOK, ActorTypes, Actors
<1>2. UNCHANGED <<phase, req, ans, store, entered, taken>>
  BY QuietTypes DEF serverVars
<1>3. CASE UNCHANGED <<conn, held, done, broken>>
  <2>1. \A v \in Workers : Has(v)' = Has(v)
    BY <1>2, <1>3, HasSame
  <2>2. Orphans' \subseteq Orphans
    BY <1>2, <1>3, OrphansIs
  <2> QED
    BY <1>1, <1>2, <1>3, <2>1, <2>2, NoneCut
<1>4. CASE DequeueCutOff(w)
  <2>1. /\ at[w] = "wait" /\ conn' = [conn EXCEPT ![w] = NoConn]
        /\ broken' = broken + 1 /\ UNCHANGED <<held, done>>
    BY <1>4 DEF DequeueCutOff, Hang
  <2>2. conn'[w] = NoConn /\ \A b \in Actors \ {w} : conn'[b] = conn[b]
    BY <1>1, <2>1, HangIs
  <2>3. conn[w] \in Conns /\ conn[w] # NoConn /\ held[w] = NoItem
    BY <1>1, <2>1 DEF ActorInv
  <2>4. \A v \in Workers \ {w} : Has(v)' = Has(v)
    BY <1>1, <1>2, <2>1, <2>2, HasSame
  <2>5. Has(w)' = NoItem
    BY <2>1, <2>2, <2>3 DEF Has, Answered
  <2>6. Orphans' \subseteq Orphans \cup {conn[v] : v \in {u \in {w} : Has(u) = NoItem}}
    <3>1. ASSUME NEW d \in Orphans', d \notin Orphans PROVE d = conn[w] /\ Has(w) = NoItem
      <4>1. d \in Conns /\ phase[d] = "pending" /\ d = conn[w]
        BY <1>2, <2>2, <3>1, OrphansIs
      <4> QED
        BY <1>1, <2>3, <4>1, HasIs
    <3> QED
      BY <3>1
  <2>7. Cardinality({w}) = 1
    BY FS_Singleton
  <2> QED
    BY <1>2, <2>1, <2>4, <2>5, <2>6, <2>7 DEF CutsOff, Msgs
<1> QED
  BY <1>3, <1>4, QuietIs

LEMMA EndCut ==
  ASSUME IInv, NEW p \in Procs, Ends(p)
  PROVE  \E C : CutsOff(C)
<1>1. /\ ServerTypes /\ ActorTypes /\ ActorInv
      /\ \A a \in Actors : Owns(a) /\ conn[a] \in Conns \cup {NoConn}
      /\ \A w \in Workers : w \in Actors /\ Busy(w)
  BY DEF IInv, TypeOK, ActorTypes, ActorInv, Owns, Busy, Actors
<1>2. End(p) /\ UNCHANGED <<entered, taken, done>>
  BY EndsIs
<1>3. /\ \A a \in Actors : conn'[a] = IF a \in Hit(p) THEN NoConn ELSE conn[a]
      /\ \A w \in Workers : held'[w] = IF w \in InProc(p) THEN NoItem ELSE held[w]
  BY <1>2 DEF End
<1>4. ASSUME NEW w \in Workers, w \in CutOff(p) PROVE Has(w)' = NoItem
  <2>1. held'[w] = NoItem
    BY <1>1, <1>3, <1>4 DEF CutOff, Busy
  <2>2. conn'[w] = NoConn
    BY <1>1, <1>3, <1>4 DEF CutOff, Busy, Hit
  <2> QED
    BY <2>1, <2>2 DEF Has, Answered
<1>5. ASSUME NEW w \in Workers, w \in Hit(p), w \notin CutOff(p) PROVE Has(w)' = Has(w)
  <2>1. conn[w] = NoConn /\ conn'[w] = NoConn /\ held'[w] = held[w]
    BY <1>1, <1>3, <1>5 DEF CutOff
  <2> QED
    BY <2>1 DEF Has, Answered
(* Nobody else's connection or call changes. *)
<1>6. ASSUME NEW w \in Workers, w \notin Hit(p)
      PROVE  Has(w)' = Has(w)
  <2>1. conn'[w] = conn[w] /\ held'[w] = held[w] /\ p # Server
    BY <1>1, <1>3, <1>6 DEF Hit
  <2>2. conn[w] # NoConn => phase'[conn[w]] = phase[conn[w]] /\ ans'[conn[w]] = ans[conn[w]]
    <3>1. CASE UNCHANGED serverVars
      BY <3>1 DEF serverVars
    <3>2. ASSUME NEW v \in Workers, p = ProcOf[v], Answered(v), Broker!Forget(conn[v])
          PROVE  conn[w] # NoConn => phase'[conn[w]] = phase[conn[w]] /\ ans'[conn[w]] = ans[conn[w]]
      <4>1. v \in Hit(p) /\ conn[v] \in Conns
        BY <1>1, <3>2 DEF Hit, InProc, Answered
      <4>2. conn[w] # NoConn => conn[w] \in Conns \ {conn[v]}
        BY <1>1, <1>6, <4>1 DEF Owns
      <4> QED
        BY <1>1, <3>2, <4>1, <4>2, ForgottenIs
    <3> QED
      BY <2>1, <3>1, <3>2, EndsIs
  <2> QED
    BY <2>1, <2>2, HasSame
<1>7. \A q \in Refs : Msgs(q)' \in {Msgs(q), <<>>}
  <2>1. CASE ServerReset
    BY <2>1, Blanks DEF ServerReset, Msgs, Refs
  <2>2. CASE UNCHANGED serverVars
    BY <2>2 DEF serverVars, Msgs
  <2>3. ASSUME NEW v, Broker!Forget(conn[v]) PROVE \A q \in Refs : Msgs(q)' \in {Msgs(q), <<>>}
    BY <2>3 DEF Broker!Forget, Msgs
  <2> QED
    BY <2>1, <2>2, <2>3, EndsIs
(* A call that is left alone was somebody's, and not answered yet. *)
<1>8. ASSUME NEW d \in Orphans', d \notin Orphans
      PROVE  \E w \in CutOff(p) : d = conn[w] /\ Has(w) = NoItem /\ phase[conn[w]] = "pending"
  <2>1. d \in Conns /\ phase'[d] = "pending" /\ req'[d].op = "dequeue"
        /\ \A a \in Actors : conn'[a] # d
    BY OrphansIs
  <2>2. phase[d] = "pending" /\ req[d].op = "dequeue"
    <3>1. CASE ServerReset
      BY <2>1, <3>1 DEF ServerReset
    <3>2. CASE UNCHANGED serverVars
      BY <2>1, <3>2 DEF serverVars
    <3>3. ASSUME NEW v \in Workers, Answered(v), Broker!Forget(conn[v])
          PROVE  phase[d] = "pending" /\ req[d].op = "dequeue"
      <4>1. conn[v] \in Conns
        BY <1>1, <3>3 DEF Answered
      <4>2. phase'[conn[v]] = "idle"
        BY <1>1, <3>3, <4>1 DEF Broker!Forget, ServerTypes
      <4> QED
        BY <1>1, <2>1, <3>3, <4>1, <4>2, ForgottenIs
    <3> QED
      BY <3>1, <3>2, <3>3, EndsIs
  <2>3. PICK a \in Actors : conn[a] = d
    BY <1>8, <2>1, <2>2, OrphansIs
  <2>4. a \in Workers /\ a \in Hit(p) /\ conn[a] # NoConn
    BY <1>1, <1>3, <2>1, <2>2, <2>3, Constants DEF Owns
  <2>5. a \in CutOff(p)
    BY <2>4 DEF CutOff
  <2>6. Has(a) = NoItem
    BY <1>1, <2>2, <2>3, <2>4, HasIs
  <2> QED
    BY <2>2, <2>3, <2>5, <2>6
<1>9. CASE Kill(p)
  <2>1. broken' = broken + Cardinality(CutOff(p))
    BY <1>9 DEF Kill
  <2>2. CutOff(p) \subseteq Workers
    BY DEF CutOff
  <2>3. \A v \in Workers : Has(v)' = IF v \in CutOff(p) THEN NoItem ELSE Has(v)
    BY <1>4, <1>5, <1>6
  <2>4. Orphans' \subseteq Orphans \cup {conn[v] : v \in {u \in CutOff(p) : Has(u) = NoItem}}
    BY <1>8
  <2> QED
    BY <1>2, <1>7, <2>1, <2>2, <2>3, <2>4 DEF CutsOff
<1>10. ASSUME NEW w \in Workers, p = ProcOf[w], DequeueEmptyExit(w)
       PROVE  CutsOff(CutOff(p) \ {w})
  <2>1. broken' = broken + Cardinality(CutOff(p) \ {w})
    BY <1>10 DEF DequeueEmptyExit, Exit
  <2>2. CutOff(p) \ {w} \subseteq Workers
    BY DEF CutOff
  <2>3. Answered(w) /\ Code(w) # 200
    BY <1>10 DEF DequeueEmptyExit
  <2>4. Has(w) = NoItem
    BY <2>3, EmptyHanded
  <2>5. \A v \in Workers : Has(v)' = IF v \in CutOff(p) \ {w} THEN NoItem ELSE Has(v)
    BY <1>4, <1>5, <1>6, <2>4
  <2>6. phase[conn[w]] = "answered"
    BY <2>3 DEF Answered
  <2>7. Orphans' \subseteq Orphans \cup {conn[v] : v \in {u \in CutOff(p) \ {w} : Has(u) = NoItem}}
    BY <1>8, <2>6
  <2> QED
    BY <1>2, <1>7, <2>1, <2>2, <2>5, <2>7 DEF CutsOff
<1> QED
  BY <1>9, <1>10 DEF Ends

(* Every step that is not of the server and finishes no item.               *)
LEMMA OtherCut ==
  ASSUME IInv, Next, \A c \in Conns : ~Serve(c), \A w \in Workers : ~ItemDone(w)
  PROVE  \E C : CutsOff(C)
<1>1. /\ \A w \in Workers : Busy(w) /\ w \in Actors
      /\ \A u \in Users : u \in Actors /\ u \notin Workers
  BY Constants DEF IInv, ActorInv, Busy, Actors
<1>2. ASSUME NEW c \in Conns, Forgets(c) PROVE \E C : CutsOff(C)
  BY <1>2, ForgetsCut
<1>3. ASSUME NEW w \in Workers, Quiet(w) PROVE \E C : CutsOff(C)
  BY <1>3, QuietCut
<1>4. ASSUME NEW w \in Workers, Dequeue(w) PROVE \E C : CutsOff(C)
  <2>1. PICK c \in Conns : Connects(w, c, "dequeue")
    BY <1>4, DequeueSends
  <2>2. at[w] = "dequeue" /\ UNCHANGED <<held, broken, entered, taken, done>>
    BY <1>4, DequeueSends DEF ghosts
  <2>3. conn[w] = NoConn /\ held[w] = NoItem
    BY <1>1, <2>2 DEF Busy
  <2> QED
    BY <1>1, <2>1, <2>2, <2>3, CallCut, Constants
<1>5. ASSUME NEW u \in Users, NEW op \in UserOps, UserCall(u, op) PROVE \E C : CutsOff(C)
  <2>1. PICK c \in Conns : Connects(u, c, op)
    BY <1>5, UserCallIs
  <2>2. conn[u] = NoConn /\ op \in Ops /\ UNCHANGED <<held, broken, entered, taken, done>>
    BY <1>5, UserCallIs DEF workVars, ghosts
  <2> QED
    BY <1>1, <2>1, <2>2, CallCut
<1>6. ASSUME NEW p \in Procs, Ends(p) PROVE \E C : CutsOff(C)
  BY <1>6, EndCut
<1> QED
  BY <1>2, <1>3, <1>4, <1>5, <1>6, Steps

(* What the server does to the items: a put, a take, or it cuts nobody off. *)
LEMMA ServeHas ==
  ASSUME IInv, NEW c \in Conns, Serve(c)
  PROVE  /\ Serves(c) /\ UNCHANGED <<conn, held, done, broken>>
         /\ \A v \in Workers : conn[v] = c => /\ Has(v) = NoItem /\ Has(v)' = ans'[c].m
                                              /\ req[c].op = "dequeue"
         /\ \A v \in Workers : conn[v] # c => Has(v)' = Has(v)
         /\ \A d \in Conns : d \in Orphans' <=> d \in Orphans /\ d # c
<1>1. /\ ServerTypes /\ ActorTypes /\ ActorInv
      /\ \A a \in Actors : Owns(a) /\ conn[a] \in Conns \cup {NoConn}
      /\ \A w \in Workers : w \in Actors
  BY DEF IInv, TypeOK, ActorTypes, ActorInv, Owns, Actors
<1>2. Serves(c) /\ UNCHANGED <<conn, held, done, broken>>
  BY ServeIs DEF Serve, workVars
<1>3. PICK k, i : Answers(c, k, i)
  BY <1>2, ServeFits
<1>4. /\ phase'[c] = "answered" /\ phase[c] = "pending" /\ req' = req
      /\ \A d \in Conns \ {c} : phase'[d] = phase[d] /\ ans'[d] = ans[d]
  BY <1>1, <1>3, AnswersIs
<1>5. ASSUME NEW v \in Workers, conn[v] = c
      PROVE  Has(v) = NoItem /\ Has(v)' = ans'[c].m /\ req[c].op = "dequeue"
  <2>1. conn[v] # NoConn /\ held[v] = NoItem /\ Has(v) = NoItem
    BY <1>1, <1>4, <1>5, HasIs, Constants
  <2>2. Has(v)' = ans'[c].m
    BY <1>2, <1>4, <1>5, <2>1 DEF Has, Answered, Item
  <2> QED
    BY <1>1, <1>5, <2>1, <2>2 DEF Owns
<1>6. ASSUME NEW v \in Workers, conn[v] # c PROVE Has(v)' = Has(v)
  BY <1>1, <1>2, <1>4, <1>6, HasSame
<1>7. \A d \in Conns : d \in Orphans' <=> d \in Orphans /\ d # c
  BY <1>2, <1>4, OrphansIs
<1> QED
  BY <1>2, <1>5, <1>6, <1>7

LEMMA ServeCut ==
  ASSUME IInv, NEW c \in Conns, Serve(c)
  PROVE  \/ \E C : CutsOff(C)
         \/ \E q \in seen[c] \cap Refs : Puts(c, q) \/ Takes(c, q)
<1>1. ServerTypes /\ ActorTypes
  BY DEF IInv, TypeOK
<1>2. SUFFICES ASSUME \/ Creates(c) \/ Deletes(c) \/ Fails(c) \/ Drains(c)
                      \/ \E q \in seen[c] \cap Refs : TakesNone(c, q)
               PROVE  CutsOff({})
  BY ServeHas DEF Serves
<1>3. \E k \in {200, 204, 400} : Answers(c, k, NoItem)
  BY <1>2 DEF Creates, Deletes, Fails, Drains, TakesNone
<1>4. ans'[c].m = NoItem
  BY <1>1, <1>3, AnswersIs
<1>5. \A v \in Workers : Has(v)' = Has(v)
  BY <1>4, ServeHas
<1>6. Orphans' \subseteq Orphans
  BY ServeHas, OrphansIs
<1>7. UNCHANGED <<entered, taken, done, broken>>
  BY <1>2, ServeHas DEF Creates, Deletes, Fails, Drains, TakesNone
<1>8. \A q \in Refs : Msgs(q)' \in {Msgs(q), <<>>}
  BY <1>2 DEF Creates, Deletes, Rebinds, Fails, Drains, Became, TakesNone, Msgs
<1>9. Cardinality({}) = 0
  BY FS_EmptySet
<1> QED
  BY <1>1, <1>5, <1>6, <1>7, <1>8, <1>9 DEF CutsOff, ActorTypes

(* Every step, by what it does to the items. *)
LEMMA ItemSteps ==
  ASSUME IInv, Next
  PROVE  \/ \E C : CutsOff(C)
         \/ \E w \in Workers : ItemDone(w)
         \/ \E c \in Conns : \E q \in Refs : Serve(c) /\ (Puts(c, q) \/ Takes(c, q))
  BY OtherCut, ServeCut

LEMMA InitPlace == Init => PlaceInv
<1> SUFFICES ASSUME Init PROVE PlaceInv
  OBVIOUS
<1>1. \A q \in Refs : Msgs(q) = <<>>
  BY Blanks DEF Init, Broker!Init, Msgs, Refs
<1>2. /\ entered = {} /\ taken = {} /\ \A i \in Items : done[i] = 0
      /\ \A w \in Workers : Has(w) = NoItem
  BY DEF Init, Has, Answered, Actors
<1>3. \A q \in Refs : In(q) = {}
  BY <1>1 DEF In, Range
<1>4. Stored = {}
  BY <1>3, StoredIs
<1>5. \A q \in Refs : NoRepeat(Msgs(q))
  BY <1>1 DEF NoRepeat
<1> QED
  BY <1>1, <1>2, <1>3, <1>4, <1>5 DEF PlaceInv, In, NoRepeat

LEMMA CutPlace ==
  ASSUME IInv, NEW C, CutsOff(C)
  PROVE  PlaceInv' /\ Stored' \subseteq Stored
<1>1. PlaceInv
  BY DEF IInv
<1>2. \A q \in Refs : In(q)' = In(q) \/ In(q)' = {}
  BY DEF CutsOff, In, Range
<1>3. Stored' \subseteq Stored
  BY <1>2, StoredIs
<1>4. \A q \in Refs : NoRepeat(Msgs(q)')
  BY <1>1 DEF CutsOff, PlaceInv, NoRepeat
<1>5. \A q, r \in Refs : q # r => In(q)' \cap In(r)' = {}
  BY <1>1, <1>2 DEF PlaceInv, In
<1>6. ASSUME NEW w \in Workers, Has(w)' # NoItem
      PROVE  /\ Has(w)' \in taken' /\ done'[Has(w)'] = 0
             /\ \A v \in Workers : Has(v)' = Has(w)' => v = w
  <2>1. \A v \in Workers : Has(v)' # NoItem => Has(v)' = Has(v)
    BY DEF CutsOff
  <2> QED
    BY <1>1, <1>6, <2>1 DEF PlaceInv, CutsOff
<1>7. (Stored \cup taken \subseteq entered)' /\ (Stored \cap taken = {})'
      /\ \A i \in Items : done'[i] > 0 => i \in taken'
  BY <1>1, <1>3 DEF PlaceInv, CutsOff
<1> QED
  BY <1>3, <1>4, <1>5, <1>6, <1>7 DEF PlaceInv, NoRepeat, In

LEMMA DoneHas ==
  ASSUME IInv, NEW w \in Workers, ItemDone(w)
  PROVE  /\ Has(w) = held[w] /\ held[w] \in Items /\ Has(w)' = NoItem
         /\ \A v \in Workers \ {w} : Has(v)' = Has(v)
         /\ done[held[w]] = 0 /\ done' = [done EXCEPT ![held[w]] = done[held[w]] + 1]
         /\ UNCHANGED <<phase, req, conn, store, entered, taken, broken>>
<1>1. ServerTypes /\ ActorTypes /\ ActorInv /\ PlaceInv
  BY DEF IInv, TypeOK
<1>2. /\ at[w] = "gen" /\ UNCHANGED <<serverVars, conn, entered, taken, broken>>
      /\ done' = [done EXCEPT ![held[w]] = IF done[held[w]] < 2 THEN done[held[w]] + 1 ELSE done[held[w]]]
      /\ held' = [held EXCEPT ![w] = NoItem]
  BY DEF ItemDone
<1>3. held[w] # NoItem /\ conn[w] = NoConn /\ Has(w) = held[w] /\ held[w] \in Items
  BY <1>1, <1>2, HasIs DEF ActorInv, ActorTypes
<1>4. held'[w] = NoItem /\ \A v \in Workers \ {w} : held'[v] = held[v]
  BY <1>1, <1>2 DEF ActorTypes
<1>5. Has(w)' = NoItem
  BY <1>2, <1>3, <1>4 DEF Has, Answered
<1>6. \A v \in Workers \ {w} : Has(v)' = Has(v)
  BY <1>2, <1>4, HasSame DEF serverVars
<1>7. done[held[w]] = 0
  BY <1>1, <1>3 DEF PlaceInv
<1> QED
  BY <1>2, <1>3, <1>5, <1>6, <1>7 DEF serverVars

LEMMA DonePlace ==
  ASSUME IInv, NEW w \in Workers, ItemDone(w)
  PROVE  PlaceInv'
<1>1. PlaceInv /\ ActorTypes
  BY DEF IInv, TypeOK
<1> DEFINE i == held[w]
<1>2. /\ Has(w) = i /\ i \in Items /\ Has(w)' = NoItem /\ i # NoItem
      /\ \A v \in Workers \ {w} : Has(v)' = Has(v)
      /\ UNCHANGED <<store, entered, taken>>
  BY DoneHas, Constants
<1>3. done'[i] = 1 /\ \A j \in Items \ {i} : done'[j] = done[j]
  BY <1>1, DoneHas DEF ActorTypes
<1> HIDE DEF i
<1>4. Stored' = Stored /\ \A q : Msgs(q)' = Msgs(q)
  BY <1>2 DEF Stored, Msgs
<1>5. i \in taken /\ \A v \in Workers : Has(v) = i => v = w
  BY <1>1, <1>2 DEF PlaceInv
<1>6. ASSUME NEW v \in Workers, Has(v)' # NoItem
      PROVE  /\ Has(v)' \in taken' /\ done'[Has(v)'] = 0
             /\ \A u \in Workers : Has(u)' = Has(v)' => u = v
  <2>1. v # w /\ Has(v)' = Has(v) /\ Has(v) # i
    BY <1>2, <1>5, <1>6
  <2>2. Has(v) \in taken /\ done[Has(v)] = 0
    BY <1>1, <1>6, <2>1 DEF PlaceInv
  <2>3. Has(v) \in Items
    BY <2>2 DEF IInv, TypeOK
  <2>4. ASSUME NEW u \in Workers, Has(u)' = Has(v)' PROVE u = v
    BY <1>1, <1>2, <1>6, <2>1, <2>4 DEF PlaceInv
  <2> QED
    BY <1>2, <1>3, <2>1, <2>2, <2>3, <2>4
<1>7. \A j \in Items : done'[j] > 0 => j \in taken'
  BY <1>1, <1>2, <1>3, <1>5 DEF PlaceInv
<1> QED
  BY <1>1, <1>2, <1>4, <1>6, <1>7 DEF PlaceInv

LEMMA PutPlace ==
  ASSUME IInv, NEW c \in Conns, NEW q \in Refs, Serve(c), Puts(c, q)
  PROVE  /\ PlaceInv' /\ req[c].m \in Items \ entered
         /\ Stored' = Stored \cup {req[c].m} /\ entered' = entered \cup {req[c].m}
         /\ \A v \in Workers : Has(v)' = Has(v)
         /\ UNCHANGED <<taken, done, broken>> /\ Orphans' \subseteq Orphans
<1>1. ServerTypes /\ PlaceInv /\ MintInv /\ \A r \in Refs : Msgs(r) \in Seq(Items)
  BY InTypes DEF IInv, TypeOK
<1> DEFINE m == req[c].m
<1>2. /\ m \in Items /\ Became(q, Append(Msgs(q), m)) /\ Pending(c, "enqueue")
      /\ entered' = entered \cup {m} /\ taken' = taken
  BY DEF Puts
<1>3. m \notin entered
  BY <1>1, <1>2 DEF MintInv
<1> HIDE DEF m
<1>4. /\ Range(Append(Msgs(q), m)) = In(q) \cup {m}
      /\ NoRepeat(Msgs(q)) /\ m \notin In(q) => NoRepeat(Append(Msgs(q), m))
  BY <1>1, <1>2, AppendRange DEF In
<1>5. /\ In(q)' = In(q) \cup {m} /\ \A r \in Refs \ {q} : In(r)' = In(r)
      /\ Msgs(q)' = Append(Msgs(q), m) /\ \A r \in Refs \ {q} : Msgs(r)' = Msgs(r)
  BY <1>2, <1>4, BecameStored DEF Became
<1>6. \A r \in Refs : m \notin In(r)
  BY <1>1, <1>3, StoredIs DEF PlaceInv
<1>7. Stored' = Stored \cup {m}
  BY <1>5, StoredIs
<1>8. \A v \in Workers : Has(v)' = Has(v)
  BY <1>2, ServeHas DEF Pending, Broker!Pending
<1>9. UNCHANGED <<done, broken>> /\ Orphans' \subseteq Orphans
  BY ServeHas, OrphansIs
<1>10. \A r \in Refs : NoRepeat(Msgs(r)')
  BY <1>1, <1>4, <1>5, <1>6 DEF PlaceInv, NoRepeat
<1>11. ASSUME NEW r \in Refs, NEW s \in Refs, r # s PROVE In(r)' \cap In(s)' = {}
  <2>1. In(r) \cap In(s) = {}
    BY <1>1, <1>11 DEF PlaceInv, In
  <2>2. /\ In(r)' \subseteq In(r) \cup {m} /\ In(s)' \subseteq In(s) \cup {m}
        /\ r # q => In(r)' = In(r)
        /\ s # q => In(s)' = In(s)
    BY <1>5
  <2>3. m \notin In(r) /\ m \notin In(s)
    BY <1>6
  <2> QED
    BY <1>11, <2>1, <2>2, <2>3
<1>12. \A v \in Workers : Has(v)' # NoItem =>
         /\ Has(v)' \in taken' /\ done'[Has(v)'] = 0
         /\ \A u \in Workers : Has(u)' = Has(v)' => u = v
  BY <1>1, <1>2, <1>8, <1>9 DEF PlaceInv
<1>13. (Stored \cup taken \subseteq entered)' /\ (Stored \cap taken = {})'
       /\ \A i \in Items : done'[i] > 0 => i \in taken'
  BY <1>1, <1>2, <1>3, <1>7, <1>9 DEF PlaceInv
<1>14. PlaceInv'
  BY <1>10, <1>11, <1>12, <1>13 DEF PlaceInv, NoRepeat, In
<1> QED
  BY <1>2, <1>3, <1>7, <1>8, <1>9, <1>14 DEF m

LEMMA TakePlace ==
  ASSUME IInv, NEW c \in Conns, NEW q \in Refs, Serve(c), Takes(c, q)
  PROVE  /\ PlaceInv'
         /\ Head(Msgs(q)) \in Stored /\ Head(Msgs(q)) \in Items
         /\ Stored' = Stored \ {Head(Msgs(q))}
         /\ taken' = taken \cup {Head(Msgs(q))} /\ done[Head(Msgs(q))] = 0
         /\ \A v \in Workers : Has(v)' = IF conn[v] = c THEN Head(Msgs(q)) ELSE Has(v)
         /\ \A v \in Workers : conn[v] = c => Has(v) = NoItem
         /\ UNCHANGED <<entered, done, broken>>
<1>1. /\ ServerTypes /\ PlaceInv /\ \A r \in Refs : Msgs(r) \in Seq(Items)
      /\ \A a \in Actors : Owns(a)
  BY InTypes DEF IInv, TypeOK, ActorInv, Owns
<1> DEFINE h == Head(Msgs(q))
<1>2. /\ h \in Items /\ Became(q, Tail(Msgs(q))) /\ Msgs(q) # <<>>
      /\ entered' = entered /\ taken' = taken \cup {h} /\ Answers(c, 200, h)
  BY DEF Takes
<1>3. NoRepeat(Msgs(q))
  BY <1>1 DEF PlaceInv, NoRepeat
<1>4. /\ Range(Tail(Msgs(q))) = In(q) \ {h} /\ h \in In(q)
      /\ NoRepeat(Tail(Msgs(q)))
  BY <1>1, <1>2, <1>3, TailRange DEF In
<1>5. /\ In(q)' = In(q) \ {h} /\ \A r \in Refs \ {q} : In(r)' = In(r)
      /\ Msgs(q)' = Tail(Msgs(q)) /\ \A r \in Refs \ {q} : Msgs(r)' = Msgs(r)
  BY <1>2, <1>4, BecameStored DEF Became
<1>6. ans'[c].m = h
  BY <1>1, <1>2, AnswersIs
<1> HIDE DEF h
<1>7. \A r \in Refs \ {q} : h \notin In(r)
  BY <1>1, <1>4 DEF PlaceInv, In
<1>8. h \in Stored /\ Stored' = Stored \ {h}
  BY <1>4, <1>5, <1>7, StoredIs
<1>9. h \notin taken /\ done[h] = 0
  BY <1>1, <1>2, <1>8 DEF PlaceInv, IInv, TypeOK, ActorTypes
<1>10. /\ \A v \in Workers : Has(v)' = IF conn[v] = c THEN h ELSE Has(v)
       /\ \A v \in Workers : conn[v] = c => Has(v) = NoItem
       /\ UNCHANGED <<done, broken>>
  BY <1>6, ServeHas
<1>11. \A r \in Refs : NoRepeat(Msgs(r)')
  BY <1>1, <1>4, <1>5 DEF PlaceInv, NoRepeat
<1>12. ASSUME NEW r \in Refs, NEW s \in Refs, r # s PROVE In(r)' \cap In(s)' = {}
  <2>1. In(r) \cap In(s) = {}
    BY <1>1, <1>12 DEF PlaceInv, In
  <2>2. In(r)' \subseteq In(r) /\ In(s)' \subseteq In(s)
    BY <1>5
  <2> QED
    BY <2>1, <2>2
<1>13. ASSUME NEW v \in Workers, Has(v)' # NoItem
       PROVE  /\ Has(v)' \in taken' /\ done'[Has(v)'] = 0
              /\ \A u \in Workers : Has(u)' = Has(v)' => u = v
  <2>1. CASE conn[v] = c
    <3>1. Has(v)' = h
      BY <1>10, <2>1
    <3>2. \A u \in Workers : Has(u) # h
      BY <1>1, <1>2, <1>9, Constants DEF PlaceInv
    <3>3. ASSUME NEW u \in Workers, Has(u)' = h PROVE u = v
      <4>1. conn[u] = c /\ conn[u] # NoConn /\ u \in Actors /\ v \in Actors
        BY <1>10, <3>2, <3>3, Constants
      <4> QED
        BY <1>1, <2>1, <4>1 DEF Owns
    <3> QED
      BY <1>2, <1>9, <1>10, <3>1, <3>3
  <2>2. CASE conn[v] # c
    <3>1. Has(v)' = Has(v) /\ Has(v) # NoItem
      BY <1>10, <1>13, <2>2
    <3>2. /\ Has(v) \in taken /\ done[Has(v)] = 0
          /\ \A u \in Workers : Has(u) = Has(v) => u = v
      BY <1>1, <3>1 DEF PlaceInv
    <3>3. ASSUME NEW u \in Workers, Has(u)' = Has(v) PROVE u = v
      BY <1>9, <1>10, <3>2, <3>3
    <3> QED
      BY <1>2, <1>10, <3>1, <3>2, <3>3
  <2> QED
    BY <2>1, <2>2
<1>14. (Stored \cup taken \subseteq entered)' /\ (Stored \cap taken = {})'
       /\ \A i \in Items : done'[i] > 0 => i \in taken'
  BY <1>1, <1>2, <1>8, <1>10 DEF PlaceInv
<1>15. PlaceInv'
  BY <1>11, <1>12, <1>13, <1>14 DEF PlaceInv, NoRepeat, In
<1> QED
  BY <1>2, <1>8, <1>9, <1>10, <1>15 DEF h

LEMMA PlaceStep == ASSUME IInv, Next PROVE PlaceInv'
  BY ItemSteps, CutPlace, DonePlace, PutPlace, TakePlace

-----------------------------------------------------------------------------
(* WHO ANSWERS FOR A LOST ITEM *)

ImageOf(f, S) == {f[x] : x \in S}

LEMMA ImageSize ==
  ASSUME NEW S, IsFiniteSet(S), NEW f, S \subseteq DOMAIN f
  PROVE  /\ IsFiniteSet(ImageOf(f, S))
         /\ Cardinality(ImageOf(f, S)) <= Cardinality(S)
<1> DEFINE T == {f[x] : x \in S}
           g == [x \in S |-> f[x]]
<1>1. g \in Surjection(S, T)
  BY DEF Surjection
<1> QED
  BY <1>1, FS_Surjection DEF ImageOf

(* What C is cut off from is one thing each: an item or a call. *)
LEMMA CutSize ==
  ASSUME NEW L, IsFiniteSet(L), NEW O, IsFiniteSet(O), NEW C, IsFiniteSet(C),
         NEW D \in SUBSET C, NEW f, C \subseteq DOMAIN f, NEW g, C \subseteq DOMAIN g,
         NEW L2, L2 \subseteq L \cup ImageOf(f, C \ D),
         NEW O2, O2 \subseteq O \cup ImageOf(g, D)
  PROVE  Cardinality(L2) + Cardinality(O2) <= Cardinality(L) + Cardinality(O) + Cardinality(C)
<1> DEFINE E == C \ D
           F == ImageOf(f, E)
           G == ImageOf(g, D)
<1>1. IsFiniteSet(D) /\ IsFiniteSet(E)
  BY FS_Subset
<1>2. Cardinality(C) = Cardinality(D) + Cardinality(E)
  <2>1. D \cup E = C /\ D \cap E = {}
    OBVIOUS
  <2>2. Cardinality(D \cap E) = 0
    BY <2>1, FS_EmptySet
  <2>3. Cardinality(D \cup E) = Cardinality(D) + Cardinality(E) - Cardinality(D \cap E)
    BY <1>1, FS_Union
  <2>4. Cardinality(D) \in Nat /\ Cardinality(E) \in Nat
    BY <1>1, FS_CardinalityType
  <2> HIDE DEF E
  <2>5. Cardinality(D \cup E) = Cardinality(C)
    BY <2>1
  <2> DEFINE u == Cardinality(D \cup E)
             n == Cardinality(D \cap E)
             d == Cardinality(D)
             e == Cardinality(E)
  <2>6. u = d + e - n /\ n = 0 /\ d \in Nat /\ e \in Nat /\ u = Cardinality(C)
    BY <2>2, <2>3, <2>4, <2>5
  <2> HIDE DEF u, n, d, e
  <2>7. u = d + e
    BY <2>6
  <2> QED
    BY <2>6, <2>7 DEF d, e
<1>3. IsFiniteSet(F) /\ Cardinality(F) <= Cardinality(E)
  BY <1>1, ImageSize
<1>4. IsFiniteSet(G) /\ Cardinality(G) <= Cardinality(D)
  BY <1>1, ImageSize
<1> HIDE DEF E, F, G
<1>5. ASSUME NEW S, IsFiniteSet(S), NEW T, IsFiniteSet(T), NEW U, U \subseteq S \cup T
      PROVE  IsFiniteSet(U) /\ Cardinality(U) <= Cardinality(S) + Cardinality(T)
  <2>1. /\ IsFiniteSet(S \cup T)
        /\ Cardinality(S \cup T) = Cardinality(S) + Cardinality(T) - Cardinality(S \cap T)
    BY <1>5, FS_Union
  <2>2. IsFiniteSet(S \cap T) /\ IsFiniteSet(U) /\ Cardinality(U) <= Cardinality(S \cup T)
    BY <1>5, <2>1, FS_Subset
  <2>3. /\ Cardinality(S) \in Nat /\ Cardinality(T) \in Nat /\ Cardinality(U) \in Nat
        /\ Cardinality(S \cap T) \in Nat
    BY <1>5, <2>2, FS_CardinalityType
  <2> HIDE DEF E, F, G
  <2> QED
    BY <2>1, <2>2, <2>3
<1>6. Cardinality(L2) <= Cardinality(L) + Cardinality(F) /\ IsFiniteSet(L2)
  BY <1>3, <1>5 DEF F, E
<1>7. Cardinality(O2) <= Cardinality(O) + Cardinality(G) /\ IsFiniteSet(O2)
  BY <1>4, <1>5 DEF G
<1>8. /\ {Cardinality(L), Cardinality(O), Cardinality(C), Cardinality(D), Cardinality(E),
          Cardinality(F), Cardinality(G), Cardinality(L2), Cardinality(O2)} \subseteq Nat
  BY <1>1, <1>3, <1>4, <1>6, <1>7, FS_CardinalityType
<1> QED
  BY <1>2, <1>3, <1>4, <1>6, <1>7, <1>8

LEMMA ThingsFinite ==
  ASSUME IInv
  PROVE  /\ IsFiniteSet(Lost) /\ Cardinality(Lost) \in Nat
         /\ IsFiniteSet(Orphans) /\ Cardinality(Orphans) \in Nat
<1>1. IsFiniteSet(Items) /\ IsFiniteSet(Conns)
  BY FS_Interval, WorkQueueAssumption DEF WorkQueueAssumption, Items, Conns
<1>2. Lost \subseteq Items /\ Orphans \subseteq Conns
  BY DEF Lost, Orphans, IInv, TypeOK
<1> QED
  BY <1>1, <1>2, FS_Subset, FS_CardinalityType

LEMMA LossStep == ASSUME IInv, Next PROVE LossInv'
<1>1. /\ ActorTypes /\ PlaceInv /\ taken \subseteq Items
      /\ LossInv /\ broken \in Nat
  BY DEF IInv, TypeOK, ActorTypes
<1>2. /\ IsFiniteSet(Lost) /\ Cardinality(Lost) \in Nat
      /\ IsFiniteSet(Orphans) /\ Cardinality(Orphans) \in Nat
  BY ThingsFinite
<1>3. ASSUME Lost' \subseteq Lost, Orphans' \subseteq Orphans, broken' = broken
      PROVE  LossInv'
  <2>1. /\ IsFiniteSet(Lost') /\ Cardinality(Lost') <= Cardinality(Lost)
        /\ IsFiniteSet(Orphans') /\ Cardinality(Orphans') <= Cardinality(Orphans)
    BY <1>2, <1>3, FS_Subset
  <2>2. Cardinality(Lost') \in Nat /\ Cardinality(Orphans') \in Nat
    BY <2>1, FS_CardinalityType
  <2> QED
    BY <1>1, <1>2, <1>3, <2>1, <2>2 DEF LossInv
<1>4. ASSUME NEW C, CutsOff(C) PROVE LossInv'
  <2> DEFINE D == {u \in C : Has(u) = NoItem}
             f == [v \in Workers |-> Has(v)]
  <2>1. C \subseteq Workers /\ broken' = broken + Cardinality(C)
    BY <1>4 DEF CutsOff
  <2>2. IsFiniteSet(C) /\ Cardinality(C) \in Nat
    BY <2>1, Constants, FS_Subset, FS_CardinalityType
  <2>3. Orphans' \subseteq Orphans \cup ImageOf(conn, D)
    BY <1>4 DEF CutsOff, ImageOf
  <2>4. Lost' \subseteq Lost \cup ImageOf(f, C \ D)
    <3>1. ASSUME NEW i \in Lost', i \notin Lost PROVE \E v \in C \ D : i = f[v]
      <4>1. i \in taken /\ done[i] = 0 /\ \A w \in Workers : Has(w)' # i
        BY <1>4 DEF Lost, CutsOff
      <4>2. PICK v \in Workers : Has(v) = i
        BY <3>1, <4>1 DEF Lost
      <4>3. v \in C
        BY <1>4, <4>1, <4>2 DEF CutsOff
      <4>4. i # NoItem
        BY <1>1, <4>1, Constants
      <4> QED
        BY <4>2, <4>3, <4>4
    <3> QED
      BY <3>1 DEF ImageOf
  <2>5. C \subseteq DOMAIN f /\ C \subseteq DOMAIN conn /\ D \in SUBSET C
    BY <1>1, <2>1, Constants DEF ActorTypes
  <2> HIDE DEF D, f
  <2>6. Cardinality(Lost') + Cardinality(Orphans')
        <= Cardinality(Lost) + Cardinality(Orphans) + Cardinality(C)
    BY <1>2, <2>2, <2>3, <2>4, <2>5, CutSize
  <2>7. Cardinality(Lost') \in Nat /\ Cardinality(Orphans') \in Nat
    <3>1. Lost' \subseteq Items /\ Orphans' \subseteq Conns
      BY <1>1, <1>4, OrphansIs DEF CutsOff, Lost
    <3>2. IsFiniteSet(Items) /\ IsFiniteSet(Conns)
      BY FS_Interval, WorkQueueAssumption DEF WorkQueueAssumption, Items, Conns
    <3> QED
      BY <3>1, <3>2, FS_Subset, FS_CardinalityType
  <2> QED
    BY <1>1, <1>2, <2>1, <2>2, <2>6, <2>7 DEF LossInv
<1>5. ASSUME NEW w \in Workers, ItemDone(w) PROVE LossInv'
  <2>1. /\ Has(w) = held[w] /\ held[w] \in Items /\ done[held[w]] = 0
        /\ \A v \in Workers \ {w} : Has(v)' = Has(v)
        /\ done' = [done EXCEPT ![held[w]] = done[held[w]] + 1]
        /\ UNCHANGED <<phase, req, conn, taken, broken>>
    BY <1>5, DoneHas
  <2>2. Orphans' \subseteq Orphans
    BY <2>1, OrphansIs
  <2>3. ASSUME NEW i \in Lost' PROVE i \in Lost
    <3>1. i \in taken /\ i \in Items /\ done'[i] = 0 /\ \A v \in Workers : Has(v)' # i
      BY <1>1, <2>1 DEF Lost
    <3>2. i # held[w] /\ done[i] = 0
      BY <1>1, <2>1, <3>1 DEF ActorTypes
    <3> QED
      BY <2>1, <3>1, <3>2 DEF Lost
  <2> QED
    BY <1>3, <2>1, <2>2, <2>3
<1>6. ASSUME NEW c \in Conns, NEW q \in Refs, Serve(c), Puts(c, q) PROVE LossInv'
  <2>1. /\ \A v \in Workers : Has(v)' = Has(v)
        /\ UNCHANGED <<taken, done, broken>> /\ Orphans' \subseteq Orphans
    BY <1>6, PutPlace
  <2>2. Lost' \subseteq Lost
    BY <2>1 DEF Lost
  <2> QED
    BY <1>3, <2>1, <2>2
(* An item that nobody waits for is lost in place of the call that takes it. *)
<1>7. ASSUME NEW c \in Conns, NEW q \in Refs, Serve(c), Takes(c, q) PROVE LossInv'
  <2> DEFINE h == Head(Msgs(q))
  <2>1. /\ taken' = taken \cup {h} /\ UNCHANGED <<done, broken>>
        /\ \A v \in Workers : Has(v)' = IF conn[v] = c THEN h ELSE Has(v)
        /\ \A v \in Workers : conn[v] = c => Has(v) = NoItem
    BY <1>7, TakePlace
  <2> HIDE DEF h
  <2>2. \A d \in Conns : d \in Orphans' <=> d \in Orphans /\ d # c
    BY <1>7, ServeHas
  <2>3. Orphans' = Orphans \ {c}
    BY <2>2, OrphansIs
  <2>4. ASSUME NEW i \in Lost', i \notin Lost, i # h PROVE FALSE
    <3>1. i \in taken /\ done[i] = 0 /\ \A v \in Workers : Has(v)' # i
      BY <2>1, <2>4 DEF Lost
    <3>2. \A v \in Workers : Has(v) # i
      BY <1>1, <2>1, <3>1, Constants
    <3> QED
      BY <2>4, <3>1, <3>2 DEF Lost
  <2>5. CASE \E v \in Workers : conn[v] = c
    <3>1. h \notin Lost'
      BY <2>1, <2>5 DEF Lost
    <3>2. Lost' \subseteq Lost
      BY <2>4, <3>1
    <3> QED
      BY <1>3, <2>1, <2>3, <3>2
  <2>6. CASE \A v \in Workers : conn[v] # c
    <3>1. Pending(c, "dequeue")
      BY <1>7 DEF Takes
    <3>2. \A a \in Actors : conn[a] # c
      BY <2>6, <3>1, Constants DEF IInv, ActorInv, Pending, Broker!Pending, NoConn, Conns
    <3>3. c \in Orphans
      BY <3>1, <3>2 DEF Orphans
    <3>4. IsFiniteSet(Orphans') /\ Cardinality(Orphans') = Cardinality(Orphans) - 1
      BY <1>2, <2>3, <3>3, FS_RemoveElement
    <3>5. Lost' \subseteq Lost \cup {h}
      BY <2>4
    <3>6. /\ IsFiniteSet(Lost \cup {h}) /\ Cardinality(Lost \cup {h}) \in Nat
          /\ Cardinality(Lost \cup {h}) <= Cardinality(Lost) + 1
      <4>1. /\ IsFiniteSet(Lost \cup {h})
            /\ Cardinality(Lost \cup {h}) \in {Cardinality(Lost), Cardinality(Lost) + 1}
        BY <1>2, FS_AddElement
      <4> QED
        BY <1>2, <4>1
    <3>7. IsFiniteSet(Lost') /\ Cardinality(Lost') <= Cardinality(Lost \cup {h})
      BY <3>5, <3>6, FS_Subset
    <3>8. Cardinality(Lost') \in Nat /\ Cardinality(Orphans') \in Nat
      BY <3>4, <3>7, FS_CardinalityType
    <3> QED
      BY <1>1, <1>2, <2>1, <3>4, <3>6, <3>7, <3>8 DEF LossInv
  <2> QED
    BY <2>5, <2>6
<1> QED
  BY <1>4, <1>5, <1>6, <1>7, ItemSteps

LEMMA InitIInv == Init => IInv
<1> SUFFICES ASSUME Init PROVE IInv
  OBVIOUS
<1>1. /\ \A c \in Conns : phase[c] = "idle" /\ seen[c] = {}
      /\ \A q \in Refs : Msgs(q) = <<>>
      /\ table[Queue] = NoQueue /\ allocated = 0
  BY Blanks DEF Init, Broker!Init, Msgs, Refs, NoQueue
<1>2. /\ entered = {} /\ acked = {} /\ taken = {} /\ broken = 0
  BY DEF Init
<1>3. CallInv
  BY <1>1 DEF CallInv
<1>4. RefInv
  <2>1. \A c \in Conns : ~Pending(c, "create")
    BY <1>1 DEF Pending, Broker!Pending
  <2>2. table[Queue] <= allocated
    BY <1>1, Constants
  <2> QED
    BY <1>1, <2>1, <2>2 DEF RefInv
<1>5. MintInv
  BY <1>1, <1>2 DEF MintInv, Pending, Broker!Pending
<1>6. LossInv
  <2>1. Lost = {} /\ Orphans = {}
    BY <1>1, <1>2 DEF Lost, Orphans, Pending, Broker!Pending
  <2> QED
    BY <1>2, <2>1, FS_EmptySet DEF LossInv
<1> QED
  BY <1>3, <1>4, <1>5, <1>6, InitTypes, InitActors, InitPromise, InitPlace DEF IInv

LEMMA Stutter ==
  ASSUME IInv, UNCHANGED vars
  PROVE  IInv'
<1>1. /\ TypeOK' /\ CallInv' /\ RefInv' /\ MintInv'
  BY DEF IInv, vars, serverVars, workVars, ghosts, TypeOK, ServerTypes, ActorTypes,
         CallInv, RefInv, MintInv, Msgs, Pending, Broker!Pending
<1>2. ActorInv' /\ PromiseInv'
  BY DEF IInv, vars, serverVars, workVars, ghosts, ActorInv, PromiseInv, Waiting
<1>3. \A w : Has(w)' = Has(w)
  BY DEF vars, serverVars, workVars, Has, Answered, Item
<1>4. UNCHANGED <<Stored, Lost, Orphans>> /\ \A q : Msgs(q)' = Msgs(q)
  BY <1>3 DEF vars, serverVars, ghosts, Stored, Lost, Orphans, Msgs, Pending, Broker!Pending
<1>5. PlaceInv' /\ LossInv'
  BY <1>3, <1>4 DEF IInv, vars, serverVars, ghosts, PlaceInv, LossInv
<1> QED
  BY <1>1, <1>2, <1>5 DEF IInv

LEMMA Step == IInv /\ [Next]_vars => IInv'
<1>1. ASSUME IInv, Next PROVE IInv'
  BY <1>1, TypeStep, ServerStep, ActorStep, PromiseStep, PlaceStep, LossStep DEF IInv
<1> QED
  BY <1>1, Stutter

LEMMA Invariant == Spec => []IInv
  BY InitIInv, Step, PTL DEF Spec

-----------------------------------------------------------------------------
(* THEOREMS *)

(* Every variable keeps its type: what startWork, the client's calls and    *)
(* the broker's handlers store (memq.go, 47-69; client.go, 47-132;          *)
(* broker.go, 83-174).                                                      *)
THEOREM TypeCorrect == Spec => []TypeOK
  BY Invariant, PTL DEF IInv

(* Of the items that a Dequeue removed, no more are missing - neither       *)
(* worked off, nor held by a worker, nor in an answer to one - than workers *)
(* were cut off from their call or their item (client.go, 109-132;          *)
(* memq.go, 47-69).                                                         *)
THEOREM LossesAnswered == Spec => []LossesExplained
<1>1. IInv => LossesExplained
  <2> SUFFICES ASSUME IInv PROVE LossesExplained
    OBVIOUS
  <2> DEFINE M == {i \in taken : done[i] = 0} \ (Held \cup OnWay)
  <2>1. ServerTypes /\ ActorTypes /\ ActorInv /\ LossInv /\ broken \in Nat /\ taken \subseteq Items
    BY DEF IInv, TypeOK, ActorTypes
  <2>2. /\ IsFiniteSet(Lost) /\ Cardinality(Lost) \in Nat /\ Cardinality(Orphans) \in Nat
    BY ThingsFinite
  <2>3. ASSUME NEW i \in M PROVE i \in Lost
    <3>1. i \in taken /\ done[i] = 0 /\ i \notin Held /\ i \notin OnWay /\ i # NoItem
      BY <2>1, Constants
    <3>2. \A w \in Workers : held[w] # i /\ ~(Answered(w) /\ Item(w) = i)
      BY <2>1, <3>1 DEF Held, OnWay, Range, ActorTypes
    <3>3. \A w \in Workers : Has(w) # i
      BY <3>1, <3>2 DEF Has
    <3> QED
      BY <3>1, <3>3 DEF Lost
  <2>4. M \subseteq Lost
    BY <2>3
  <2> HIDE DEF M
  <2>5. Cardinality(M) \in Nat /\ Cardinality(M) <= Cardinality(Lost)
    BY <2>2, <2>4, FS_Subset, FS_CardinalityType
  <2>6. Cardinality(M) <= broken
    BY <2>1, <2>2, <2>5 DEF LossInv
  <2> QED
    BY <2>6 DEF LossesExplained, M
<1> QED
  BY <1>1, Invariant, PTL

(* A worker that leaves because the queue is empty (ExitOnComplete,         *)
(* memq.go, 57-61) leaves no item in the queue of the name that was         *)
(* accepted before it asked, however often the queue was deleted, created   *)
(* or drained meanwhile.                                                    *)
THEOREM ExitsTaken == Spec => []ExitMeansTaken
<1>1. Init => ExitMeansTaken
  BY DEF Init, ExitMeansTaken
<1>2. IInv /\ ExitMeansTaken /\ [Next]_vars => ExitMeansTaken'
  BY PromiseStep DEF ExitMeansTaken, vars, ghosts
<1> QED
  BY <1>1, <1>2, Invariant, PTL DEF Spec

-----------------------------------------------------------------------------
(* THE REFINEMENT: what stage each item is at *)

(* i is neither in a queue nor with a worker.                               *)
Away(i) == i \in entered /\ i \notin Stored /\ \A w \in Workers : Has(w) # i

Some(S) == CHOOSE x \in S : TRUE

WhereIs(i) ==
  Where[i] = IF i \notin entered THEN "new" ELSE IF i \in Stored THEN "waiting"
             ELSE IF Holder(i) # {} THEN Some(Holder(i)) ELSE IF done[i] > 0 THEN "done" ELSE "gone"

WhereFits == /\ Where = [i \in Items |-> Where[i]]
             /\ \A i \in Items : WhereIs(i)

LEMMA WhereCases == WhereFits
  BY DEF WhereFits, Where, WhereIs, Some

LEMMA WhereNext == WhereFits'
  BY WhereCases, PTL

Staged ==
  /\ Where = [i \in Items |-> Where[i]]
  /\ \A i \in Items :
       /\ i \notin entered => Where[i] = "new"
       /\ i \in Stored => Where[i] = "waiting"
       /\ \A w \in Workers : Has(w) = i => Where[i] = w
       /\ (Away(i) /\ done[i] > 0) => Where[i] = "done"
       /\ (Away(i) /\ ~(done[i] > 0)) => Where[i] = "gone"

LEMMA StagedIs == IInv => Staged
<1> SUFFICES ASSUME IInv PROVE Staged
  OBVIOUS
<1>1. ServerTypes /\ ActorTypes /\ ActorInv /\ PlaceInv
  BY DEF IInv, TypeOK
<1>2. /\ Where = [i \in Items |-> Where[i]]
      /\ \A i \in Items : WhereIs(i)
  BY WhereCases DEF WhereFits
<1>6. \A i \in Items : i \in Stored => i \in entered
  BY <1>1 DEF PlaceInv
<1>3. ASSUME NEW i \in Items PROVE Holder(i) = {w \in Workers : Has(w) = i}
  <2>1. i # NoItem
    BY Constants
  <2>2. ASSUME NEW w \in Workers PROVE w \in Holder(i) <=> Has(w) = i
    <3>1. CASE held[w] = i
      BY <1>1, <2>1, <3>1, HasIs DEF Holder
    <3>2. CASE held[w] # i /\ Answered(w) /\ Item(w) = i
      BY <1>1, <2>1, <3>2, HasIs DEF Holder, Answered, Item
    <3>3. CASE held[w] # i /\ ~(Answered(w) /\ Item(w) = i)
      BY <2>1, <3>3 DEF Holder, Has
    <3> QED
      BY <3>1, <3>2, <3>3
  <2> QED
    BY <2>2 DEF Holder
<1>4. ASSUME NEW i \in Items, NEW w \in Workers, Has(w) = i PROVE Where[i] = w
  <2>1. i \in taken /\ i \in entered /\ i \notin Stored /\ \A v \in Workers : Has(v) = i => v = w
    BY <1>1, <1>4, Constants DEF PlaceInv
  <2>2. Holder(i) = {w}
    BY <1>3, <1>4, <2>1
  <2>3. Holder(i) # {} /\ (CHOOSE v \in Holder(i) : TRUE) = w
    BY <2>2
  <2> QED
    BY <1>2, <2>1, <2>3 DEF WhereIs, Some
<1>5. ASSUME NEW i \in Items, Away(i) PROVE Holder(i) = {}
  BY <1>3, <1>5 DEF Away
<1>7. ASSUME NEW i \in Items
      PROVE  /\ i \notin entered => Where[i] = "new"
             /\ i \in Stored => Where[i] = "waiting"
  BY <1>2, <1>6 DEF WhereIs
<1>8. ASSUME NEW i \in Items, Away(i) PROVE Where[i] = IF done[i] > 0 THEN "done" ELSE "gone"
  <2>1. i \in entered /\ i \notin Stored /\ Holder(i) = {}
    BY <1>5, <1>8 DEF Away
  <2> QED
    BY <1>2, <2>1 DEF WhereIs
<1> QED
  BY <1>2, <1>4, <1>7, <1>8 DEF Staged

(* What leaves an item at its stage.                                        *)
LEMMA StageKept ==
  ASSUME Staged, Staged', NEW i \in Items, i \in entered' <=> i \in entered,
         i \in Stored' <=> i \in Stored, \A w \in Workers : Has(w)' = i <=> Has(w) = i,
         done'[i] = done[i]
  PROVE  Where'[i] = Where[i]
<1>1. CASE i \notin entered
  BY <1>1 DEF Staged
<1>2. CASE i \in Stored
  BY <1>2 DEF Staged
<1>3. CASE \E w \in Workers : Has(w) = i
  BY <1>3 DEF Staged
<1>4. CASE Away(i)
  <2>1. Away(i)'
    BY <1>4 DEF Away
  <2> QED
    BY <1>4, <2>1 DEF Staged
<1> QED
  BY <1>1, <1>2, <1>3, <1>4 DEF Away

LEMMA CutLoses ==
  ASSUME IInv, Staged, Staged', NEW C, CutsOff(C)
  PROVE  \E lost \in SUBSET Items : List!Lose(lost)
<1>1. PlaceInv /\ ActorTypes
  BY DEF IInv, TypeOK
<1>2. /\ Stored' \subseteq Stored /\ UNCHANGED <<entered, taken, done>>
      /\ \A v \in Workers : Has(v)' = IF v \in C THEN NoItem ELSE Has(v)
  BY CutPlace DEF CutsOff
<1>3. ASSUME NEW i \in Items, Where'[i] # Where[i] PROVE Where'[i] = "gone" /\ Where[i] # "done"
  <2>1. i # NoItem
    BY Constants
  <2>2. \A v \in Workers : Has(v)' = i => Has(v) = i
    BY <1>2, <2>1
  <2>3. done[i] \in 0..2
    BY <1>1 DEF ActorTypes
  <2>4. CASE i \in Stored /\ i \notin Stored'
    <3>1. i \in entered /\ i \notin taken /\ done[i] = 0 /\ \A v \in Workers : Has(v) # i
      BY <1>1, <2>1, <2>3, <2>4 DEF PlaceInv
    <3>2. Away(i)'
      BY <1>2, <2>2, <2>4, <3>1 DEF Away
    <3> QED
      BY <1>2, <2>4, <3>1, <3>2 DEF Staged
  <2>5. CASE \E w \in Workers : Has(w) = i /\ Has(w)' # i
    <3>1. PICK w \in Workers : Has(w) = i /\ Has(w)' # i
      BY <2>5
    <3>2. /\ i \in entered /\ i \notin Stored /\ done[i] = 0
          /\ \A v \in Workers : Has(v) = i => v = w
      BY <1>1, <2>1, <3>1 DEF PlaceInv
    <3>3. Away(i)'
      BY <1>2, <2>2, <3>1, <3>2 DEF Away
    <3>4. Where[i] = w /\ w # "done"
      BY <3>1, WorkQueueAssumption DEF Staged, WorkQueueAssumption
    <3> QED
      BY <1>2, <3>2, <3>3, <3>4 DEF Staged
  <2> QED
    BY <1>2, <1>3, <2>2, <2>4, <2>5, StageKept
<1> DEFINE lost == {i \in Items : Where'[i] # Where[i]}
<1>4. Where' = [i \in Items |-> IF i \in lost THEN "gone" ELSE Where[i]]
  <2>1. Where' = [i \in Items |-> Where'[i]]
    BY DEF Staged
  <2> QED
    BY <1>3, <2>1
<1>5. lost \in SUBSET Items /\ \A i \in lost : Where[i] # "done"
  BY <1>3
<1> QED
  BY <1>2, <1>4, <1>5 DEF List!Lose

LEMMA DoneFinishes ==
  ASSUME IInv, Staged, Staged', NEW w \in Workers, ItemDone(w)
  PROVE  List!Finish(held[w])
<1>1. PlaceInv /\ ActorTypes
  BY DEF IInv, TypeOK
<1>0. PICK i \in Items : i = held[w]
  BY DoneHas
<1>2. /\ Has(w) = i /\ i \in Items /\ i # NoItem /\ Has(w)' = NoItem /\ done[i] = 0
      /\ \A v \in Workers \ {w} : Has(v)' = Has(v)
      /\ done' = [done EXCEPT ![i] = done[i] + 1]
      /\ UNCHANGED <<store, entered, taken>>
  BY <1>0, DoneHas, Constants
<1>3. Stored' = Stored
  BY <1>2 DEF Stored
<1>4. i \in entered /\ i \notin Stored /\ \A v \in Workers : Has(v) = i => v = w
  BY <1>1, <1>2 DEF PlaceInv
<1>5. Away(i)' /\ done'[i] = 1
  BY <1>1, <1>2, <1>3, <1>4 DEF Away, ActorTypes
<1>6. Where[i] = w /\ Where'[i] = "done"
  BY <1>2, <1>5 DEF Staged
<1>7. ASSUME NEW j \in Items \ {i} PROVE Where'[j] = Where[j]
  <2>1. done'[j] = done[j] /\ j # NoItem
    BY <1>1, <1>2, Constants DEF ActorTypes
  <2>2. \A v \in Workers : Has(v)' = j <=> Has(v) = j
    BY <1>2, <2>1
  <2> QED
    BY <1>2, <1>3, <2>1, <2>2, StageKept
<1>8. Where' = [Where EXCEPT ![i] = "done"]
  BY <1>6, <1>7 DEF Staged
<1> QED
  BY <1>0, <1>2, <1>6, <1>8 DEF List!Finish

LEMMA PutAccepts ==
  ASSUME IInv, Staged, Staged', NEW c \in Conns, NEW q \in Refs, Serve(c), Puts(c, q)
  PROVE  \E m \in Items : List!Accept(m)
<1> DEFINE m == req[c].m
<1>1. /\ m \in Items /\ m \notin entered
      /\ Stored' = Stored \cup {m} /\ entered' = entered \cup {m}
      /\ \A v \in Workers : Has(v)' = Has(v)
      /\ UNCHANGED <<taken, done, broken>>
  BY PutPlace
<1> HIDE DEF m
<1>2. Where[m] = "new" /\ Where'[m] = "waiting"
  BY <1>1 DEF Staged
<1>3. \A j \in Items \ {m} : Where'[j] = Where[j]
  BY <1>1, StageKept
<1>4. Where' = [Where EXCEPT ![m] = "waiting"]
  BY <1>2, <1>3 DEF Staged
<1> QED
  BY <1>1, <1>2, <1>4 DEF List!Accept

LEMMA TakeTakes ==
  ASSUME IInv, Staged, Staged', NEW c \in Conns, NEW q \in Refs, Serve(c), Takes(c, q)
  PROVE  \/ \E i \in Items, w \in Workers : List!Take(w, i)
         \/ \E lost \in SUBSET Items : List!Lose(lost)
<1>0. PICK h \in Items : h = Head(Msgs(q))
  BY TakePlace
<1>1. PlaceInv /\ ActorInv
  BY DEF IInv
<1>2. /\ PlaceInv' /\ h \in Stored /\ h \in Items
      /\ Stored' = Stored \ {h} /\ taken' = taken \cup {h} /\ done[h] = 0
      /\ \A v \in Workers : Has(v)' = IF conn[v] = c THEN h ELSE Has(v)
      /\ \A v \in Workers : conn[v] = c => Has(v) = NoItem
      /\ UNCHANGED <<entered, done, broken>>
  BY <1>0, TakePlace
<1>3. h \in entered /\ \A v \in Workers : Has(v) # h
  BY <1>1, <1>2, Constants DEF PlaceInv
<1>4. Where[h] = "waiting"
  BY <1>2 DEF Staged
<1>5. ASSUME NEW j \in Items \ {h} PROVE Where'[j] = Where[j]
  <2>1. \A v \in Workers : Has(v)' = j <=> Has(v) = j
    BY <1>2, Constants
  <2> QED
    BY <1>2, <2>1, StageKept
<1>6. ASSUME NEW w \in Workers, conn[w] = c PROVE List!Take(w, h)
  <2>1. Has(w)' = h /\ Has(w) = NoItem
    BY <1>2, <1>6
  <2>2. Where'[h] = w
    BY <1>2, <2>1 DEF Staged
  <2>3. ASSUME NEW j \in Items, Where[j] = w PROVE FALSE
    <3>1. w \notin {"new", "waiting", "done", "gone"}
      BY WorkQueueAssumption DEF WorkQueueAssumption
    <3>2. \E v \in Workers : Has(v) = j
      BY <2>3, <3>1 DEF Staged, Away
    <3>3. Has(w) = j
      BY <2>3, <3>2 DEF Staged
    <3> QED
      BY <2>1, <3>3, Constants
  <2>4. Where' = [Where EXCEPT ![h] = w]
    BY <1>5, <2>2 DEF Staged
  <2> QED
    BY <1>2, <1>4, <2>3, <2>4 DEF List!Take
<1>7. ASSUME \A v \in Workers : conn[v] # c PROVE List!Lose({h})
  <2>1. Away(h)'
    BY <1>2, <1>3, <1>7 DEF Away
  <2>2. Where'[h] = "gone"
    BY <1>2, <2>1 DEF Staged
  <2>3. Where' = [i \in Items |-> IF i \in {h} THEN "gone" ELSE Where[i]]
    <3>1. Where' = [i \in Items |-> Where'[i]]
      BY DEF Staged
    <3> QED
      BY <1>5, <2>2, <3>1
  <2> QED
    BY <1>2, <1>4, <2>3 DEF List!Lose
<1> QED
  BY <1>2, <1>6, <1>7

LEMMA StepListed ==
  ASSUME IInv, Staged, Staged', [Next]_vars
  PROVE  [List!Next]_<<Where, done>>
<1>1. CASE Next
  <2>1. ASSUME NEW C, CutsOff(C) PROVE List!Next
    BY <2>1, CutLoses DEF List!Next
  <2>2. ASSUME NEW w \in Workers, ItemDone(w) PROVE List!Next
    BY <2>2, DoneFinishes, DoneHas DEF List!Next
  <2>3. ASSUME NEW c \in Conns, NEW q \in Refs, Serve(c), Puts(c, q) \/ Takes(c, q)
        PROVE  List!Next
    BY <2>3, PutAccepts, TakeTakes DEF List!Next
  <2> QED
    BY <1>1, <2>1, <2>2, <2>3, ItemSteps
<1>2. CASE UNCHANGED vars
  <2>1. UNCHANGED <<entered, done, held, conn, phase, ans, store>>
    BY <1>2 DEF vars, serverVars, workVars, ghosts
  <2>2. Stored' = Stored /\ \A i : Holder(i)' = Holder(i)
    BY <2>1 DEF Stored, Holder, Answered, Item
  <2>3. \A i \in Items : Where'[i] = Where[i]
    BY <2>1, <2>2, WhereCases, WhereNext DEF WhereFits, WhereIs
  <2>4. Where' = Where
    BY <2>3, WhereCases, WhereNext DEF WhereFits
  <2> QED
    BY <2>1, <2>4
<1> QED
  BY <1>1, <1>2

LEMMA InitListed == Init => List!Init
<1> SUFFICES ASSUME Init PROVE List!Init
  OBVIOUS
<1>1. entered = {} /\ done = [i \in Items |-> 0]
  BY DEF Init
<1>2. \A i \in Items : Where[i] = "new"
  BY <1>1, WhereCases DEF WhereFits, WhereIs
<1>3. Where = [i \in Items |-> "new"]
  BY <1>2, WhereCases DEF WhereFits
<1> QED
  BY <1>1, <1>3 DEF List!Init

(* The workers and the server implement WorkList: an item is worked on by   *)
(* one worker at a time, done once at most, and never comes back once it    *)
(* was taken; whatever breaks can only lose it (memq.go, 47-69; client.go,  *)
(* 109-132; broker.go, 128-174).                                            *)
THEOREM Refines == Spec => Implements
  BY InitListed, StepListed, StagedIs, Invariant, PTL DEF Spec, Implements, List!Spec

=============================================================================
