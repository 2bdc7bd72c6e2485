------------------------------ MODULE WorkQueue ------------------------------
(***************************************************************************)
(* MemQ as a work queue: memQWorkers (pkg/keygen/memq.go) and other users  *)
(* reach the broker through its client (pkg/memq/client) over a network.   *)
(*                                                                         *)
(* The broker is the one of QueueService, which Broker implements; its     *)
(* "clients" are connections here, for a request lives on in the server    *)
(* when the one who made it has given up or died.  net/http resends no     *)
(* POST, PUT or DELETE that may have reached the server, and the client    *)
(* sets no timeout.                                                        *)
(***************************************************************************)
EXTENDS Integers, Sequences, FiniteSets, Functions

CONSTANTS
  Workers, Users,
  ProcOf,       \* the process that each worker runs in
  Server,       \* the process of the broker; workers may run in it too
  Exits,        \* the workers that are configured with ExitOnComplete
  UserOps,      \* what users ask for
  Queue,        \* the name of the queue
  Nil,
  MaxConns,     \* bound: requests that the server has at a time
  MaxQueues, MaxMessages,    \* bounds: number of create and enqueue calls
  MaxFaults,    \* bound: broken connections and killed processes
  MaxPuts,      \* bound: reconfigurations of a running worker
  MaxFiles      \* sockets that a process can have open

Actors == Workers \cup Users
Procs  == {ProcOf[w] : w \in Workers} \cup {Server}
Conns  == 1..MaxConns
NoConn == 0
NoItem == 0
Items  == 1..MaxMessages

ASSUME WorkQueueAssumption ==
  /\ Workers \cap Users = {} /\ Exits \subseteq Workers /\ IsFiniteSet(Workers)
  /\ Workers \cap {"new", "waiting", "done", "gone"} = {}   \* no stage of an item
  /\ DOMAIN ProcOf = Workers
  /\ UserOps \subseteq {"create", "delete", "drain", "enqueue"}
  /\ {MaxConns, MaxQueues, MaxMessages, MaxFaults, MaxPuts, MaxFiles} \subseteq Nat

VARIABLES
  table, store, phase, req, ans, seen, minted, allocated,  \* of QueueService
  conn,       \* the connection on which each actor waits for an answer
  at,         \* where each worker is in its loop
  held,       \* the item it works on
  cancelled,  \* its context is done
  files,      \* sockets that each process has lost to unread answers
  faults, puts,
  \* History variables: no step reads them.
  entered,    \* items that were put into a queue
  acked,      \* items whose Enqueue returned to its caller
  promised,   \* what was acked when the Dequeue was sent that a worker waits for
  taken,      \* items that a Dequeue removed
  done,       \* how often each item was worked off, up to 2
  broken,     \* how often a worker was cut off from a call or from its item
  left        \* promised items that waited when a worker ended the process

serverVars == <<table, store, phase, req, ans, seen, minted, allocated>>
workVars   == <<at, held, cancelled, files, puts>>
ghosts     == <<entered, acked, taken, done, broken, left>>
vars       == <<serverVars, conn, workVars, faults, promised, ghosts>>

Broker == INSTANCE QueueService WITH Clients <- Conns, Names <- {Queue}

Init ==
  /\ Broker!Init
  /\ conn = [a \in Actors |-> NoConn]
  /\ at = [w \in Workers |-> "off"]
  /\ held = [w \in Workers |-> NoItem]
  /\ cancelled = [w \in Workers |-> FALSE]
  /\ files = [p \in Procs |-> 0]
  /\ faults = 0 /\ puts = 0
  /\ entered = {} /\ acked = {} /\ taken = {} /\ broken = 0 /\ left = {}
  /\ promised = [w \in Workers |-> {}]
  /\ done = [i \in Items |-> 0]

(* Worker w goes to l; at the answer the promise has served its purpose.    *)
Goto(w, l) ==
  /\ at' = [at EXCEPT ![w] = l]
  /\ promised' = [promised EXCEPT ![w] = IF l = "wait" /\ w \in Exits THEN acked ELSE {}]

Hang(a)    == conn' = [conn EXCEPT ![a] = NoConn]
Fault      == faults < MaxFaults /\ faults' = faults + 1

Stored  == UNION {Range(store[q].msgs) : q \in Broker!Refs}
Waiting == IF table[Queue] = Broker!NoQueue THEN {} ELSE Range(store[table[Queue]].msgs)

-----------------------------------------------------------------------------
(* The server: the handlers run to their end whoever is listening. *)
Serve(c) ==
  /\ \/ Broker!Create(c) \/ Broker!Delete(c) \/ Broker!Fail(c)
     \/ Broker!Drain(c) \/ Broker!Enqueue(c) \/ Broker!Dequeue(c)
  /\ entered' = entered \cup Stored'
  /\ taken' = IF req[c].op = "dequeue" THEN taken \cup ({ans'[c].m} \ {NoItem}) ELSE taken
  /\ UNCHANGED <<conn, workVars, faults, promised, acked, done, broken, left>>

(* An answer that nobody waits for. *)
Discard(c) ==
  /\ \A a \in Actors : conn[a] # c
  /\ Broker!Forget(c)
  /\ UNCHANGED <<conn, workVars, faults, promised, ghosts>>

-----------------------------------------------------------------------------
(* The client.  http.DefaultClient.Do sends the request on a connection of  *)
(* its own.                                                                 *)
Send(a, op) ==
  \E c \in Conns : /\ \A d \in 1..(c - 1) : phase[d] # "idle"
                   /\ Broker!Ask(c, op, Queue)
                   /\ conn' = [conn EXCEPT ![a] = c]

Code(a)    == ans[conn[a]].code
Item(a)    == ans[conn[a]].m
Answered(a) == conn[a] # NoConn /\ phase[conn[a]] = "answered"
Receive(a) == Answered(a) /\ Broker!Forget(conn[a]) /\ Hang(a)

(* errorFromResponse *)
IsError(code) == code >= 300

(* CreateQueue, DeleteQueue, DrainQueue and Enqueue of a user.  One whose   *)
(* answer is lost knows less than one who reads it, so it always comes.     *)
UserCall(u, op) ==
  /\ conn[u] = NoConn
  /\ Send(u, op)
  /\ UNCHANGED <<workVars, faults, promised, ghosts>>

UserReturn(u) ==
  /\ Receive(u)
  /\ acked' = IF req[conn[u]].op = "enqueue" /\ ~IsError(Code(u)) THEN acked \cup {Item(u)}
                                                                  ELSE acked
  /\ UNCHANGED <<workVars, faults, promised, entered, taken, done, broken, left>>

-----------------------------------------------------------------------------
(* The end of a process.  What its workers held is lost, their requests are *)
(* not.  With the server go all queues and connections, and the calls of    *)
(* the workers elsewhere return an error.                                   *)
InProc(p) == {w \in Workers : ProcOf[w] = p}
Hit(p)    == InProc(p) \cup (IF p = Server THEN Actors ELSE {})
CutOff(p) == {w \in Workers : \/ w \in Hit(p) /\ conn[w] # NoConn
                              \/ w \in InProc(p) /\ held[w] # NoItem}

ServerReset ==
  /\ table' = [n \in {Queue} |-> Broker!NoQueue]
  /\ store' = [q \in Broker!Refs |-> Broker!NewQueue]
  /\ phase' = [c \in Conns |-> "idle"]
  /\ req' = [c \in Conns |-> Broker!NoReq]
  /\ ans' = [c \in Conns |-> Broker!NoAns]
  /\ seen' = [c \in Conns |-> {}]
  /\ UNCHANGED <<minted, allocated>>

End(p) ==
  /\ at' = [w \in Workers |-> IF w \in InProc(p) THEN "off"
                              ELSE IF w \in CutOff(p) THEN "sleep" ELSE at[w]]
  /\ held' = [w \in Workers |-> IF w \in InProc(p) THEN NoItem ELSE held[w]]
  /\ cancelled' = [w \in Workers |-> cancelled[w] /\ w \notin InProc(p)]
  /\ conn' = [a \in Actors |-> IF a \in Hit(p) THEN NoConn ELSE conn[a]]
  /\ files' = [files EXCEPT ![p] = 0]
  /\ promised' = [w \in Workers |-> IF w \in Hit(p) THEN {} ELSE promised[w]]
  /\ UNCHANGED <<puts, entered, acked, taken, done>>

Kill(p) ==
  /\ Fault
  /\ End(p)
  /\ IF p = Server THEN ServerReset ELSE UNCHANGED serverVars
  /\ broken' = broken + Cardinality(CutOff(p))
  /\ UNCHANGED left

(* w calls os.Exit. *)
Exit(w) ==
  /\ End(ProcOf[w])
  /\ broken' = broken + Cardinality(CutOff(ProcOf[w]) \ {w})
  /\ left' = left \cup (promised[w] \cap Waiting)

-----------------------------------------------------------------------------
(* A new process starts the worker of its flags. *)
Start(w) ==
  /\ \A v \in InProc(ProcOf[w]) : at[v] = "off"
  /\ Goto(w, "check")
  /\ UNCHANGED <<serverVars, conn, held, cancelled, files, puts, faults, ghosts>>

(* KeyGen.Restart: the running worker is cancelled, another one starts. *)
Put(w) ==
  /\ puts < MaxPuts /\ puts' = puts + 1
  /\ at[w] \in {"off", "stopped"}
  /\ \E v \in InProc(ProcOf[w]) : at[v] # "off"
  /\ cancelled' = [v \in Workers |->
       /\ v # w
       /\ cancelled[v] \/ (v \in InProc(ProcOf[w]) /\ at[v] \notin {"off", "stopped"})]
  /\ Goto(w, "check")
  /\ UNCHANGED <<serverVars, conn, held, files, faults, ghosts>>

(* startWork: the test of the loop *)
IsDone(w) ==
  /\ at[w] = "check"
  /\ Goto(w, IF cancelled[w] THEN "stopped" ELSE "dequeue")
  /\ cancelled' = [cancelled EXCEPT ![w] = FALSE]
  /\ UNCHANGED <<serverVars, conn, held, files, puts, faults, ghosts>>

SocketsOf(p) == files[p] + Cardinality({w \in InProc(p) : conn[w] # NoConn})

Dequeue(w) ==
  /\ at[w] = "dequeue"
  /\ SocketsOf(ProcOf[w]) < MaxFiles
  /\ Send(w, "dequeue")
  /\ Goto(w, "wait")
  /\ UNCHANGED <<held, cancelled, files, puts, faults, ghosts>>

(* The server is not reached. *)
DequeueUnsent(w) ==
  /\ at[w] = "dequeue"
  /\ Fault
  /\ Goto(w, "sleep")
  /\ UNCHANGED <<serverVars, conn, held, cancelled, files, puts, ghosts>>

(* No socket is left to reach the server with. *)
DequeueNoSocket(w) ==
  /\ at[w] = "dequeue"
  /\ SocketsOf(ProcOf[w]) >= MaxFiles
  /\ Goto(w, "sleep")
  /\ UNCHANGED <<serverVars, conn, held, cancelled, files, puts, faults, ghosts>>

(* There is an error and no message; only the message is looked at. *)
BadDequeueCutOff(w) ==
  /\ at[w] = "wait"
  /\ Fault
  /\ IF w \in Exits
     THEN Exit(w)
     ELSE Hang(w) /\ Goto(w, "sleep") /\ UNCHANGED <<held, cancelled, files, puts, ghosts>>
  /\ UNCHANGED serverVars

(* The connection breaks, or the body of the answer cannot be decoded. *)
DequeueCutOff(w) ==
  /\ at[w] = "wait"
  /\ Fault
  /\ Hang(w)
  /\ Goto(w, "sleep")
  /\ broken' = broken + 1
  /\ UNCHANGED <<serverVars, held, cancelled, files, puts,
                 entered, acked, taken, done, left>>

(* The worker returns, as if it could not be retried. *)
BadDequeueError(w) ==
  /\ Receive(w)
  /\ IsError(Code(w))
  /\ Goto(w, "stopped")
  /\ files' = [files EXCEPT ![ProcOf[w]] = @ + 1]
  /\ UNCHANGED <<held, cancelled, puts, faults, ghosts>>

(* An HTTP error.  The body is neither read nor closed, so the connection   *)
(* is not used again and its socket stays open.                             *)
DequeueError(w) ==
  /\ Receive(w)
  /\ IsError(Code(w))
  /\ Goto(w, "sleep")
  /\ files' = [files EXCEPT ![ProcOf[w]] = @ + 1]
  /\ UNCHANGED <<held, cancelled, puts, faults, ghosts>>

(* 204: no message and no error *)
DequeueEmpty(w) ==
  /\ w \notin Exits
  /\ Receive(w)
  /\ Code(w) = 204
  /\ Goto(w, "sleep")
  /\ UNCHANGED <<held, cancelled, files, puts, faults, ghosts>>

DequeueEmptyExit(w) ==
  /\ w \in Exits
  /\ Answered(w)
  /\ Code(w) = 204
  /\ Exit(w)
  /\ IF ProcOf[w] = Server THEN ServerReset ELSE Broker!Forget(conn[w])
  /\ UNCHANGED faults

(* A worker that was cancelled meanwhile drops the message. *)
BadDequeueMessage(w) ==
  /\ Receive(w)
  /\ Code(w) = 200
  /\ held' = [held EXCEPT ![w] = IF cancelled[w] THEN NoItem ELSE Item(w)]
  /\ Goto(w, IF cancelled[w] THEN "stopped" ELSE "gen")
  /\ UNCHANGED <<cancelled, files, puts, faults, ghosts>>

DequeueMessage(w) ==
  /\ Receive(w)
  /\ Code(w) = 200
  /\ held' = [held EXCEPT ![w] = Item(w)]
  /\ Goto(w, "gen")
  /\ UNCHANGED <<cancelled, files, puts, faults, ghosts>>

(* The work goes on with the same message. *)
BadItemDone(w) ==
  /\ at[w] = "gen"
  /\ done' = [done EXCEPT ![held[w]] = IF @ < 2 THEN @ + 1 ELSE @]
  /\ UNCHANGED <<serverVars, conn, workVars, faults, promised,
                 entered, acked, taken, broken, left>>

(* generateKey and itemDone *)
ItemDone(w) ==
  /\ at[w] = "gen"
  /\ done' = [done EXCEPT ![held[w]] = IF @ < 2 THEN @ + 1 ELSE @]
  /\ held' = [held EXCEPT ![w] = NoItem]
  /\ Goto(w, "check")
  /\ UNCHANGED <<serverVars, conn, cancelled, files, puts, faults,
                 entered, acked, taken, broken, left>>

WakeUp(w) ==
  /\ at[w] = "sleep"
  /\ Goto(w, "check")
  /\ UNCHANGED <<serverVars, conn, held, cancelled, files, puts, faults, ghosts>>

-----------------------------------------------------------------------------
WorkerStep(w) ==
  \/ IsDone(w) \/ ItemDone(w) \/ WakeUp(w) \/ DequeueNoSocket(w)
  \/ DequeueError(w) \/ DequeueEmpty(w) \/ DequeueEmptyExit(w) \/ DequeueMessage(w)

Next ==
  \/ \E c \in Conns : Serve(c) \/ Discard(c)
  \/ \E u \in Users : \/ \E op \in UserOps : UserCall(u, op)
                      \/ UserReturn(u)
  \/ \E w \in Workers : \/ WorkerStep(w) \/ Dequeue(w)
                        \/ DequeueUnsent(w) \/ DequeueCutOff(w)
                        \/ Start(w) \/ Put(w)
  \/ \E p \in Procs : Kill(p)

Spec == Init /\ [][Next]_vars

(* The server answers (Broker!EveryCallAnswered is what it has for that),   *)
(* answers arrive unless the connection breaks, goroutines run, a process   *)
(* that ended is started again, and there is a connection to be had time    *)
(* and again.                                                               *)
Fairness ==
  /\ \A c \in Conns : WF_vars(Serve(c)) /\ WF_vars(Discard(c))
  /\ \A u \in Users : WF_vars(UserReturn(u))
  /\ \A w \in Workers : WF_vars(WorkerStep(w)) /\ SF_vars(Dequeue(w))
  /\ \A p \in Procs : WF_vars(\E w \in InProc(p) : Start(w))

FairSpec == Spec /\ Fairness

-----------------------------------------------------------------------------
(* PROPERTIES *)

Held    == Range(held) \ {NoItem}
OnWay   == {Item(w) : w \in {v \in Workers : Answered(v)}} \ {NoItem}

Holder(i) == {w \in Workers : held[w] = i \/ (Answered(w) /\ Item(w) = i)}

Where ==
  [i \in Items |-> IF i \notin entered THEN "new"
                   ELSE IF i \in Stored THEN "waiting"
                   ELSE IF Holder(i) # {} THEN CHOOSE w \in Holder(i) : TRUE
                   ELSE IF done[i] > 0 THEN "done"
                   ELSE "gone"]

List == INSTANCE WorkList WITH where <- Where

(* No item is worked on by two workers or done twice, none comes back once  *)
(* it was taken, whatever breaks: connections, workers, the server.         *)
Implements == List!Spec

(* An item that was taken is lost only with a worker that was cut off from  *)
(* it: by a broken connection or the end of its process, one item each      *)
(* time.  Cancellation alone, an empty queue or a retry lose nothing.       *)
LossesExplained ==
  Cardinality({i \in taken : done[i] = 0} \ (Held \cup OnWay)) <= broken

(* A worker that ends the process because the queue is empty leaves no item *)
(* behind that was accepted before it asked; that its call breaks off does  *)
(* not count as an empty queue.                                             *)
ExitMeansTaken == left = {}

(* The items that a Dequeue can still find: in the queue of the name, or in *)
(* one that a pending Dequeue may have looked up before.                    *)
Findable ==
  LET looked == UNION {seen[c] : c \in {d \in Conns : Broker!Pending(d, "dequeue")}}
  IN UNION {Range(store[q].msgs) : q \in (looked \cup {table[Queue]}) \ {Broker!NoQueue}}

(* Once connections and processes hold, every accepted item is done or gone *)
(* with its queue or its worker, unless a process has run out of sockets.   *)
EventuallySettled ==
  \A i \in Items : i \in acked ~> \/ i \notin Findable \cup Held \cup OnWay
                                  \/ \E p \in Procs : files[p] = MaxFiles

(* After an error a worker asks the server again.                           *)
KeepsAsking ==
  \A w \in Workers : at[w] = "sleep" ~> at[w] \in {"wait", "stopped", "off"}

=============================================================================
