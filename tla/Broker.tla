------------------------------- MODULE Broker -------------------------------
(***************************************************************************)
(* The MemQ broker of kuard (pkg/memq/server/broker.go) under the HTTP     *)
(* handlers of pkg/memq/server/api.go.                                     *)
(*                                                                         *)
(* Every client has one request outstanding at a time; net/http runs each  *)
(* request in a goroutine of its own, so the steps of different clients    *)
(* interleave.  A step of this module ends where a goroutine can be        *)
(* overtaken: when it takes or releases one of the two kinds of lock       *)
(* (Broker.mu and the mu of each Queue), and once in the middle of each    *)
(* critical section, so that a lock that is not taken would show.          *)
(*                                                                         *)
(* A Queue object is known by a reference, because a name can be deleted   *)
(* and created again while a goroutine still holds the older object.       *)
(***************************************************************************)
EXTENDS Integers, Sequences

CONSTANTS
  Clients,      \* HTTP clients
  Names,        \* queue names
  Nil,          \* no client, no name
  Ops,          \* the operations that the clients ask for
  MaxQueues,    \* bound: number of create calls
  MaxMessages   \* bound: number of enqueue calls

ASSUME BrokerAssumption ==
  /\ Nil \notin Clients \cup Names
  /\ Ops \subseteq {"create", "delete", "drain", "enqueue", "dequeue", "stats"}
  /\ MaxQueues \in Nat
  /\ MaxMessages \in Nat

Refs     == 1..MaxQueues      \* the Queue objects that create calls may make
Msgs     == 1..MaxMessages    \* the Messages that enqueue calls may make
NoQueue   == 0                \* the map entry of a name that is not there
NoMessage == 0

NamedOps == {"create", "delete", "drain", "enqueue", "dequeue"}

VARIABLES
  queues,     \* Broker.Queues
  heap,       \* the Queue objects, reachable from Broker.Queues or not
  bmu,        \* Broker.mu
  qmu,        \* Queue.mu of every object
  pc,         \* where each client's goroutine is
  call,       \* its local variables and the answer it will give
  minted,     \* number of enqueue calls so far
  allocated,  \* number of create calls so far
  \* History variables: no step reads them.
  seen,       \* what each outstanding call's name has stood for so far
  delivered   \* messages that some dequeue answered with

vars == <<queues, heap, bmu, qmu, pc, call, minted, allocated, seen, delivered>>

-----------------------------------------------------------------------------
(* sync.RWMutex.  Lock() first shuts out every other Lock and RLock (w) and *)
(* then waits until the readers that were let in before it (r) are gone.    *)

Unlocked        == [w |-> Nil, r |-> {}]
Open(mu)        == mu.w = Nil
Locked(mu, c)   == [mu EXCEPT !.w = c]
RLocked(mu, c)  == [mu EXCEPT !.r = @ \cup {c}]
Released(mu)    == [mu EXCEPT !.w = Nil]
RReleased(mu,c) == [mu EXCEPT !.r = @ \ {c}]
NoReaders(mu)   == mu.r = {}

-----------------------------------------------------------------------------
(* A Queue object: newQueue, and what the assignments of the three          *)
(* operations make of it.                                                   *)
(*                                                                          *)
(* An operator whose name begins with Bad is a mistake on purpose: put in   *)
(* the place of the definition after it, it makes a property fail.          *)

(* make([]*memq.Message, 1) *)
BadEmptyQueue ==
  [Messages |-> <<NoMessage>>, Depth |-> 0, Enqueued |-> 0, Dequeued |-> 0, Drained |-> 0]

EmptyQueue ==
  [Messages |-> <<>>, Depth |-> 0, Enqueued |-> 0, Dequeued |-> 0, Drained |-> 0]

(* The message goes to the front. *)
BadAppended(s, m) == [s EXCEPT !.Messages = <<m>> \o @, !.Depth = @ + 1]

(* The counters move, the messages do not. *)
BadDropped(s) == [s EXCEPT !.Depth = @ - 1, !.Dequeued = @ + 1]

(* Depth is not reset. *)
BadZeroed(s) == s

Appended(s, m) == [s EXCEPT !.Messages = Append(@, m), !.Depth = @ + 1]
Counted(s)     == [s EXCEPT !.Enqueued = @ + 1]
Dropped(s)     == [s EXCEPT !.Messages = Tail(@), !.Depth = @ - 1, !.Dequeued = @ + 1]
Cleared(s)     == [s EXCEPT !.Messages = <<>>, !.Drained = @ + s.Depth]
Zeroed(s)      == [s EXCEPT !.Depth = 0]

NoCall == [op |-> "none", name |-> Nil, q |-> NoQueue, m |-> NoMessage,
           code |-> 0, rows |-> {}]

Init ==
  /\ queues = [n \in Names |-> NoQueue]
  /\ heap = [q \in Refs |-> EmptyQueue]
  /\ bmu = Unlocked
  /\ qmu = [q \in Refs |-> Unlocked]
  /\ pc = [c \in Clients |-> "idle"]
  /\ call = [c \in Clients |-> NoCall]
  /\ minted = 0
  /\ allocated = 0
  /\ seen = [c \in Clients |-> {}]
  /\ delivered = {}

At(c, l, ops)  == pc[c] = l /\ call[c].op \in ops
Goto(c, l)     == pc' = [pc EXCEPT ![c] = l]
Name(c)        == call[c].name
Queue(c)       == call[c].q
Answer(c, k)   == call' = [call EXCEPT ![c].code = k]

(* The name n stands for q from now on; whoever is asking about n has seen it. *)
Bind(n, q) ==
  /\ queues' = [queues EXCEPT ![n] = q]
  /\ seen' = [c \in Clients |->
                IF call[c].op \in NamedOps /\ Name(c) = n THEN seen[c] \cup {q}
                                                          ELSE seen[c]]

-----------------------------------------------------------------------------
(* api.go: a request arrives and passes the handler's own checks.  The     *)
(* message an enqueue would make and the object a create would make are    *)
(* given their identities here.                                            *)
Request(c, op, n) ==
  /\ pc[c] = "idle"
  /\ op = "enqueue" => minted < MaxMessages
  /\ op = "create" => allocated < MaxQueues
  /\ minted' = IF op = "enqueue" THEN minted + 1 ELSE minted
  /\ allocated' = IF op = "create" THEN allocated + 1 ELSE allocated
  /\ call' = [call EXCEPT ![c] =
                [op |-> op,
                 name |-> IF op = "stats" THEN Nil ELSE n,
                 q |-> IF op = "create" THEN allocated' ELSE NoQueue,
                 m |-> IF op = "enqueue" THEN minted' ELSE NoMessage,
                 code |-> 0,
                 rows |-> {}]]
  /\ seen' = [seen EXCEPT ![c] = IF op = "stats" THEN {} ELSE {queues[n]}]
  /\ Goto(c, IF op \in {"create", "delete", "drain"} THEN "lockB" ELSE "rlockB")
  /\ UNCHANGED <<queues, heap, bmu, qmu, delivered>>

(* The handler refuses the request itself: an empty queue name, or a body  *)
(* that ReadAll could not read.                                            *)
Refuse(c, op, k) ==
  /\ pc[c] = "idle"
  /\ \/ k = 400
     \/ op = "enqueue" /\ k = 500
  /\ call' = [call EXCEPT ![c] = [NoCall EXCEPT !.op = "refused", !.code = k]]
  /\ Goto(c, "done")
  /\ UNCHANGED <<queues, heap, bmu, qmu, minted, allocated, seen, delivered>>

Respond(c) ==
  /\ pc[c] = "done"
  /\ call' = [call EXCEPT ![c] = NoCall]
  /\ seen' = [seen EXCEPT ![c] = {}]
  /\ Goto(c, "idle")
  /\ UNCHANGED <<queues, heap, bmu, qmu, minted, allocated, delivered>>

-----------------------------------------------------------------------------
(* broker.go: CreateQueue, DeleteQueue and DrainQueue hold Broker.mu for    *)
(* writing, to the end.                                                     *)
LockB(c) ==
  /\ pc[c] = "lockB"
  /\ Open(bmu)
  /\ bmu' = Locked(bmu, c)
  /\ Goto(c, "inB")
  /\ UNCHANGED <<queues, heap, qmu, call, minted, allocated, seen, delivered>>

(* A return without Unlock. *)
BadRejectB(c) ==
  /\ At(c, "inB", {"create", "delete", "drain"}) /\ NoReaders(bmu)
  /\ (call[c].op = "create") <=> (queues[Name(c)] # NoQueue)
  /\ Answer(c, 400)
  /\ Goto(c, "done")
  /\ UNCHANGED <<queues, heap, bmu, qmu, minted, allocated, seen, delivered>>

(* ErrAlreadyExist, ErrNotExist *)
RejectB(c) ==
  /\ At(c, "inB", {"create", "delete", "drain"}) /\ NoReaders(bmu)
  /\ (call[c].op = "create") <=> (queues[Name(c)] # NoQueue)
  /\ Answer(c, 400)
  /\ bmu' = Released(bmu)
  /\ Goto(c, "done")
  /\ UNCHANGED <<queues, heap, qmu, minted, allocated, seen, delivered>>

(* The queue that is there already is replaced. *)
BadCreateQueue(c) ==
  /\ At(c, "inB", {"create"}) /\ NoReaders(bmu)
  /\ Bind(Name(c), Queue(c))
  /\ Answer(c, 200)
  /\ bmu' = Released(bmu)
  /\ Goto(c, "done")
  /\ UNCHANGED <<heap, qmu, minted, allocated, delivered>>

CreateQueue(c) ==
  /\ At(c, "inB", {"create"}) /\ NoReaders(bmu)
  /\ queues[Name(c)] = NoQueue
  /\ Bind(Name(c), Queue(c))
  /\ Answer(c, 200)
  /\ bmu' = Released(bmu)
  /\ Goto(c, "done")
  /\ UNCHANGED <<heap, qmu, minted, allocated, delivered>>

DeleteQueue(c) ==
  /\ At(c, "inB", {"delete"}) /\ NoReaders(bmu)
  /\ queues[Name(c)] # NoQueue
  /\ Bind(Name(c), NoQueue)
  /\ Answer(c, 200)
  /\ bmu' = Released(bmu)
  /\ Goto(c, "done")
  /\ UNCHANGED <<heap, qmu, minted, allocated, delivered>>

DrainLookup(c) ==
  /\ At(c, "inB", {"drain"}) /\ NoReaders(bmu)
  /\ queues[Name(c)] # NoQueue
  /\ call' = [call EXCEPT ![c].q = queues[Name(c)]]
  /\ Goto(c, "lockQ")
  /\ UNCHANGED <<queues, heap, bmu, qmu, minted, allocated, seen, delivered>>

-----------------------------------------------------------------------------
(* Stats walks the map without the lock. *)
BadRLockB(c) ==
  /\ pc[c] = "rlockB"
  /\ Open(bmu)
  /\ bmu' = IF call[c].op = "stats" THEN bmu ELSE RLocked(bmu, c)
  /\ Goto(c, IF call[c].op = "stats" THEN "scan" ELSE "lookup")
  /\ UNCHANGED <<queues, heap, qmu, call, minted, allocated, seen, delivered>>

(* getQueue and Stats hold Broker.mu for reading. *)
RLockB(c) ==
  /\ pc[c] = "rlockB"
  /\ Open(bmu)
  /\ bmu' = RLocked(bmu, c)
  /\ Goto(c, IF call[c].op = "stats" THEN "scan" ELSE "lookup")
  /\ UNCHANGED <<queues, heap, qmu, call, minted, allocated, seen, delivered>>

Lookup(c) ==
  /\ pc[c] = "lookup"
  /\ queues[Name(c)] # NoQueue
  /\ call' = [call EXCEPT ![c].q = queues[Name(c)]]
  /\ bmu' = RReleased(bmu, c)
  /\ Goto(c, "lockQ")
  /\ UNCHANGED <<queues, heap, qmu, minted, allocated, seen, delivered>>

(* ErrNotExist; or, in PutMessage, newMessage could not draw an ID. *)
LookupFails(c) ==
  /\ pc[c] = "lookup"
  /\ queues[Name(c)] = NoQueue \/ call[c].op = "enqueue"
  /\ Answer(c, 400)
  /\ bmu' = RReleased(bmu, c)
  /\ Goto(c, "done")
  /\ UNCHANGED <<queues, heap, qmu, minted, allocated, seen, delivered>>

-----------------------------------------------------------------------------
(* PutMessage, GetMessage and DrainQueue hold the mu of their Queue. *)
LockQ(c) ==
  /\ pc[c] = "lockQ"
  /\ Open(qmu[Queue(c)])
  /\ qmu' = [qmu EXCEPT ![Queue(c)] = Locked(@, c)]
  /\ Goto(c, "inQ")
  /\ UNCHANGED <<queues, heap, bmu, call, minted, allocated, seen, delivered>>

InQ(c, op) == At(c, "inQ", {op}) /\ NoReaders(qmu[Queue(c)])

UnlockQ(c) ==
  /\ qmu' = [qmu EXCEPT ![Queue(c)] = Released(@)]
  /\ Goto(c, "done")

PutAppend(c) ==
  /\ InQ(c, "enqueue")
  /\ heap' = [heap EXCEPT ![Queue(c)] = Appended(@, call[c].m)]
  /\ Answer(c, 200)
  /\ Goto(c, "inQ2")
  /\ UNCHANGED <<queues, bmu, qmu, minted, allocated, seen, delivered>>

PutCount(c) ==
  /\ At(c, "inQ2", {"enqueue"})
  /\ heap' = [heap EXCEPT ![Queue(c)] = Counted(@)]
  /\ UnlockQ(c)
  /\ UNCHANGED <<queues, bmu, call, minted, allocated, seen, delivered>>

(* ErrEmptyQueue: 204 *)
GetEmpty(c) ==
  /\ InQ(c, "dequeue")
  /\ Len(heap[Queue(c)].Messages) < 1
  /\ Answer(c, 204)
  /\ UnlockQ(c)
  /\ UNCHANGED <<queues, heap, bmu, minted, allocated, seen, delivered>>

GetHead(c) ==
  /\ InQ(c, "dequeue")
  /\ Len(heap[Queue(c)].Messages) >= 1
  /\ call' = [call EXCEPT ![c].m = Head(heap[Queue(c)].Messages)]
  /\ Goto(c, "inQ2")
  /\ UNCHANGED <<queues, heap, bmu, qmu, minted, allocated, seen, delivered>>

GetDrop(c) ==
  /\ At(c, "inQ2", {"dequeue"})
  /\ heap' = [heap EXCEPT ![Queue(c)] = Dropped(@)]
  /\ Answer(c, 200)
  /\ delivered' = delivered \cup {call[c].m}
  /\ UnlockQ(c)
  /\ UNCHANGED <<queues, bmu, minted, allocated, seen>>

DrainClear(c) ==
  /\ InQ(c, "drain")
  /\ heap' = [heap EXCEPT ![Queue(c)] = Cleared(@)]
  /\ Answer(c, 200)
  /\ Goto(c, "inQ2")
  /\ UNCHANGED <<queues, bmu, qmu, minted, allocated, seen, delivered>>

DrainCount(c) ==
  /\ At(c, "inQ2", {"drain"})
  /\ heap' = [heap EXCEPT ![Queue(c)] = Zeroed(@)]
  /\ UnlockQ(c)
  /\ bmu' = Released(bmu)
  /\ UNCHANGED <<queues, call, minted, allocated, seen, delivered>>

-----------------------------------------------------------------------------
(* Stats: the range over the map, in any order. *)
Scanned(c) == {r.Name : r \in call[c].rows}
Bound      == {n \in Names : queues[n] # NoQueue}

(* Stats reads a queue without waiting for its writer. *)
BadRLockQ(c, n) ==
  /\ pc[c] = "scan"
  /\ n \in Bound \ Scanned(c)
  /\ qmu' = [qmu EXCEPT ![queues[n]] = RLocked(@, c)]
  /\ call' = [call EXCEPT ![c] = [@ EXCEPT !.q = queues[n], !.name = n]]
  /\ Goto(c, "row")
  /\ UNCHANGED <<queues, heap, bmu, minted, allocated, seen, delivered>>

RLockQ(c, n) ==
  /\ pc[c] = "scan"
  /\ n \in Bound \ Scanned(c)
  /\ Open(qmu[queues[n]])
  /\ qmu' = [qmu EXCEPT ![queues[n]] = RLocked(@, c)]
  /\ call' = [call EXCEPT ![c] = [@ EXCEPT !.q = queues[n], !.name = n]]
  /\ Goto(c, "row")
  /\ UNCHANGED <<queues, heap, bmu, minted, allocated, seen, delivered>>

(* memq.Stat of an object *)
Stat(n, q) == [Name |-> n, Depth |-> q.Depth, Enqueued |-> q.Enqueued,
               Dequeued |-> q.Dequeued, Drained |-> q.Drained]

ReadRow(c) ==
  /\ pc[c] = "row"
  /\ call' = [call EXCEPT ![c].rows = @ \cup {Stat(Name(c), heap[Queue(c)])}]
  /\ qmu' = [qmu EXCEPT ![Queue(c)] = RReleased(@, c)]
  /\ Goto(c, "scan")
  /\ UNCHANGED <<queues, heap, bmu, minted, allocated, seen, delivered>>

StatsDone(c) ==
  /\ pc[c] = "scan"
  /\ Bound \subseteq Scanned(c)
  /\ Answer(c, 200)
  /\ bmu' = RReleased(bmu, c)
  /\ Goto(c, "done")
  /\ UNCHANGED <<queues, heap, qmu, minted, allocated, seen, delivered>>

-----------------------------------------------------------------------------
(* Taking a lock, and everything else a goroutine does on its own. *)
Acquire(c) ==
  \/ LockB(c) \/ RLockB(c) \/ LockQ(c)
  \/ \E n \in Names : RLockQ(c, n)

Proceed(c) ==
  \/ RejectB(c) \/ CreateQueue(c) \/ DeleteQueue(c) \/ DrainLookup(c)
  \/ Lookup(c) \/ LookupFails(c)
  \/ PutAppend(c) \/ PutCount(c)
  \/ GetEmpty(c) \/ GetHead(c) \/ GetDrop(c)
  \/ DrainClear(c) \/ DrainCount(c)
  \/ ReadRow(c) \/ StatsDone(c)
  \/ Respond(c)

Arrive(c) ==
  \/ \E op \in Ops, n \in Names : Request(c, op, n)
  \/ \E op \in Ops \cap NamedOps, k \in {400, 500} : Refuse(c, op, k)

Next == \E c \in Clients : Arrive(c) \/ Acquire(c) \/ Proceed(c)

Spec == Init /\ [][Next]_vars

(* The Go scheduler runs every runnable goroutine, and RWMutex starves      *)
(* neither readers nor writers: Unlock lets the waiting readers in before   *)
(* the next writer, and its inner Mutex hands over to a starving waiter.    *)
Fairness == \A c \in Clients : WF_vars(Proceed(c)) /\ SF_vars(Acquire(c))

FairSpec == Spec /\ Fairness

-----------------------------------------------------------------------------
(* The refinement: a queue is what its object will be once the goroutine    *)
(* that is halfway through its critical section has finished; the call of   *)
(* that goroutine has been answered already (a dequeue has not: it has only *)
(* looked at the head).                                                     *)

Halfway(q, op) == ~Open(qmu[q]) /\ At(qmu[q].w, "inQ2", {op})

AbsStore ==
  [q \in Refs |->
     [msgs |-> heap[q].Messages,
      enqueued |-> heap[q].Enqueued + (IF Halfway(q, "enqueue") THEN 1 ELSE 0),
      dequeued |-> heap[q].Dequeued,
      drained |-> heap[q].Drained]]

AbsPhase ==
  [c \in Clients |-> CASE pc[c] = "idle" -> "idle"
                       [] pc[c] = "done" \/ At(c, "inQ2", {"enqueue", "drain"}) -> "answered"
                       [] OTHER -> "pending"]

AbsReq ==
  [c \in Clients |->
     [op |-> call[c].op,
      name |-> IF call[c].op = "stats" THEN Nil ELSE Name(c),
      q |-> IF call[c].op = "create" THEN Queue(c) ELSE NoQueue,
      m |-> IF call[c].op = "enqueue" THEN call[c].m ELSE NoMessage]]

AbsAns ==
  [c \in Clients |->
     [code |-> call[c].code,
      m |-> IF call[c].code = 200 /\ call[c].op \in {"enqueue", "dequeue"}
            THEN call[c].m ELSE NoMessage,
      rows |-> call[c].rows]]

Service == INSTANCE QueueService
             WITH table <- queues, store <- AbsStore, phase <- AbsPhase,
                  req <- AbsReq, ans <- AbsAns

-----------------------------------------------------------------------------
(* PROPERTIES *)

(* The shapes of the broker's fields, the locks and the goroutines' locals. *)
Objects == [Messages : Seq(Msgs), Depth : Int, Enqueued : Int, Dequeued : Int,
            Drained : Int]
Rows    == [Name : Names, Depth : Int, Enqueued : Int, Dequeued : Int, Drained : Int]
RWMutex == [w : Clients \cup {Nil}, r : SUBSET Clients]
Labels  == {"idle", "lockB", "inB", "rlockB", "lookup", "lockQ", "inQ", "inQ2",
            "scan", "row", "done"}
Calls   == [op : Ops \cup {"none", "refused"}, name : Names \cup {Nil},
            q : Refs \cup {NoQueue}, m : Msgs \cup {NoMessage},
            code : {0, 200, 204, 400, 500}, rows : SUBSET Rows]

TypeOK ==
  /\ queues \in [Names -> Refs \cup {NoQueue}]
  /\ heap \in [Refs -> Objects]
  /\ bmu \in RWMutex
  /\ qmu \in [Refs -> RWMutex]
  /\ pc \in [Clients -> Labels]
  /\ call \in [Clients -> Calls]
  /\ minted \in 0..MaxMessages
  /\ allocated \in 0..MaxQueues
  /\ seen \in [Clients -> SUBSET (Refs \cup {NoQueue})]
  /\ delivered \subseteq Msgs

(* No message is lost or counted twice by interleaved puts, gets and drains *)
(* of one queue: while no goroutine is inside, Depth is the number of       *)
(* messages, and whatever was enqueued was dequeued, drained or is there.   *)
Balances(s) == s.Depth >= 0 /\ s.Enqueued = s.Dequeued + s.Drained + s.Depth

Balanced ==
  \A q \in Refs : Open(qmu[q]) => /\ heap[q].Depth = Len(heap[q].Messages)
                                 /\ Balances(heap[q])

(* Stats never shows a queue in the middle of a put, a get or a drain.      *)
RowsBalanced == \A c \in Clients : \A r \in call[c].rows : Balances(r)

(* While Stats walks the map, no queue it has a row of goes away, and no    *)
(* queue has two rows, however creates and deletes interleave with it.      *)
ScanIsSnapshot ==
  \A c \in Clients : pc[c] \in {"scan", "row"} =>
    /\ Scanned(c) \subseteq Bound
    /\ \A r, s \in call[c].rows : r.Name = s.Name => r = s

(* PutMessage uses the queue after getQueue has let go of the map.  Its 200 *)
(* still means that the message went to the queue which carries the name    *)
(* now, unless the name stood for no queue at some moment of the call: it   *)
(* was deleted meanwhile, or not yet created when the request came.         *)
AckedIsReachable ==
  \A c \in Clients : At(c, "done", {"enqueue"}) /\ call[c].code = 200 =>
    queues[Name(c)] = Queue(c) \/ NoQueue \in seen[c]

(* Two dequeues never answer with the same message, whether they race on    *)
(* one queue or run one after the other.                                    *)
NoRedelivery ==
  [][\A c \in Clients : call[c].op = "dequeue" /\ call[c].code = 0 /\ call'[c].code = 200
       => call'[c].m \notin delivered]_vars

(* The broker keeps the promises of QueueService: FIFO order, every effect  *)
(* in one step and within its call, every refusal justified.                *)
Implements == Service!Spec

(* No request waits for ever: the two levels of locks are always taken in   *)
(* the same order and always given back, on the error paths too.            *)
EveryCallAnswered == \A c \in Clients : pc[c] # "idle" ~> pc[c] = "idle"

=============================================================================
