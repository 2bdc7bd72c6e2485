---------------------------- MODULE QueueService ----------------------------
(***************************************************************************)
(* What the MemQ broker promises its clients: every call takes effect in   *)
(* one step, between its request and its answer, on a queue that its name  *)
(* stood for at some moment of the call.  There are no locks here, no      *)
(* lookup before the use, and no Depth beside the messages themselves.     *)
(*                                                                         *)
(* Stats is the exception: it is one step per queue, so its rows belong to *)
(* different moments; only the set of names is that of the answer.         *)
(***************************************************************************)
EXTENDS Integers, Sequences

CONSTANTS Clients, Names, Nil, MaxQueues, MaxMessages

Refs     == 1..MaxQueues
NoQueue   == 0
NoMessage == 0
NamedOps == {"create", "delete", "drain", "enqueue", "dequeue"}

VARIABLES
  table,      \* what each name stands for
  store,      \* the contents and the counts of every queue
  phase,      \* of each client's call: idle, pending or answered
  req,        \* the call: operation, name, the identities it would use
  ans,        \* its answer: HTTP status, message, rows of statistics
  seen,       \* what the name of the call has stood for since the request
  minted, allocated

vars == <<table, store, phase, req, ans, seen, minted, allocated>>

NewQueue == [msgs |-> <<>>, enqueued |-> 0, dequeued |-> 0, drained |-> 0]
NoReq    == [op |-> "none", name |-> Nil, q |-> NoQueue, m |-> NoMessage]
NoAns    == [code |-> 0, m |-> NoMessage, rows |-> {}]

Init ==
  /\ table = [n \in Names |-> NoQueue]
  /\ store = [q \in Refs |-> NewQueue]
  /\ phase = [c \in Clients |-> "idle"]
  /\ req = [c \in Clients |-> NoReq]
  /\ ans = [c \in Clients |-> NoAns]
  /\ seen = [c \in Clients |-> {}]
  /\ minted = 0
  /\ allocated = 0

Pending(c, op) == phase[c] = "pending" /\ req[c].op = op
Give(c, a) == /\ ans' = [ans EXCEPT ![c] = a]
              /\ phase' = [phase EXCEPT ![c] = "answered"]
Code(k) == [NoAns EXCEPT !.code = k]

Ask(c, op, n) ==
  /\ phase[c] = "idle"
  /\ minted' = IF op = "enqueue" THEN minted + 1 ELSE minted
  /\ allocated' = IF op = "create" THEN allocated + 1 ELSE allocated
  /\ allocated' <= MaxQueues /\ minted' <= MaxMessages
  /\ phase' = [phase EXCEPT ![c] = "pending"]
  /\ req' = [req EXCEPT ![c] =
               [op |-> op,
                name |-> IF op = "stats" THEN Nil ELSE n,
                q |-> IF op = "create" THEN allocated' ELSE NoQueue,
                m |-> IF op = "enqueue" THEN minted' ELSE NoMessage]]
  /\ seen' = [seen EXCEPT ![c] = IF op = "stats" THEN {} ELSE {table[n]}]
  /\ UNCHANGED <<table, store, ans>>

(* A malformed request is answered at once. *)
Malformed(c) ==
  /\ phase[c] = "idle"
  /\ \E k \in {400, 500} : Give(c, Code(k))
  /\ req' = [req EXCEPT ![c].op = "refused"]
  /\ UNCHANGED <<table, store, seen, minted, allocated>>

Rebind(n, q) ==
  /\ table' = [table EXCEPT ![n] = q]
  /\ seen' = [c \in Clients |->
                IF req[c].op \in NamedOps /\ req[c].name = n
                THEN seen[c] \cup {q} ELSE seen[c]]

Create(c) ==
  /\ Pending(c, "create")
  /\ table[req[c].name] = NoQueue
  /\ Rebind(req[c].name, req[c].q)
  /\ Give(c, Code(200))
  /\ UNCHANGED <<store, req, minted, allocated>>

Delete(c) ==
  /\ Pending(c, "delete")
  /\ table[req[c].name] # NoQueue
  /\ Rebind(req[c].name, NoQueue)
  /\ Give(c, Code(200))
  /\ UNCHANGED <<store, req, minted, allocated>>

(* There was no such queue, or there was one to create already.  An enqueue *)
(* may also fail for want of a message ID.                                  *)
Fail(c) ==
  /\ phase[c] = "pending"
  /\ \/ req[c].op = "create" /\ seen[c] # {NoQueue}
     \/ req[c].op \in NamedOps \ {"create"} /\ NoQueue \in seen[c]
     \/ req[c].op = "enqueue"
  /\ Give(c, Code(400))
  /\ UNCHANGED <<table, store, req, seen, minted, allocated>>

Drain(c) ==
  /\ Pending(c, "drain")
  /\ LET q == table[req[c].name]
     IN /\ q # NoQueue
        /\ store' = [store EXCEPT ![q].msgs = <<>>,
                                  ![q].drained = @ + Len(store[q].msgs)]
  /\ Give(c, Code(200))
  /\ UNCHANGED <<table, req, seen, minted, allocated>>

Enqueue(c) ==
  /\ Pending(c, "enqueue")
  /\ \E q \in seen[c] \ {NoQueue} :
       store' = [store EXCEPT ![q].msgs = Append(@, req[c].m), ![q].enqueued = @ + 1]
  /\ Give(c, [Code(200) EXCEPT !.m = req[c].m])
  /\ UNCHANGED <<table, req, seen, minted, allocated>>

Dequeue(c) ==
  /\ Pending(c, "dequeue")
  /\ \E q \in seen[c] \ {NoQueue} :
       \/ /\ store[q].msgs # <<>>
          /\ store' = [store EXCEPT ![q].msgs = Tail(@), ![q].dequeued = @ + 1]
          /\ Give(c, [Code(200) EXCEPT !.m = Head(store[q].msgs)])
       \/ /\ store[q].msgs = <<>>
          /\ store' = store
          /\ Give(c, Code(204))
  /\ UNCHANGED <<table, req, seen, minted, allocated>>

Row(n, q) == [Name |-> n, Depth |-> Len(q.msgs), Enqueued |-> q.enqueued,
              Dequeued |-> q.dequeued, Drained |-> q.drained]

StatsRow(c) ==
  /\ Pending(c, "stats")
  /\ \E n \in Names :
       /\ table[n] # NoQueue
       /\ \A r \in ans[c].rows : r.Name # n
       /\ ans' = [ans EXCEPT ![c].rows = @ \cup {Row(n, store[table[n]])}]
  /\ UNCHANGED <<table, store, phase, req, seen, minted, allocated>>

StatsEnd(c) ==
  /\ Pending(c, "stats")
  /\ {r.Name : r \in ans[c].rows} = {n \in Names : table[n] # NoQueue}
  /\ Give(c, [ans[c] EXCEPT !.code = 200])
  /\ UNCHANGED <<table, store, req, seen, minted, allocated>>

Forget(c) ==
  /\ phase[c] = "answered"
  /\ phase' = [phase EXCEPT ![c] = "idle"]
  /\ req' = [req EXCEPT ![c] = NoReq]
  /\ ans' = [ans EXCEPT ![c] = NoAns]
  /\ seen' = [seen EXCEPT ![c] = {}]
  /\ UNCHANGED <<table, store, minted, allocated>>

Next ==
  \E c \in Clients :
    \/ \E op \in NamedOps \cup {"stats"}, n \in Names : Ask(c, op, n)
    \/ Malformed(c) \/ Create(c) \/ Delete(c) \/ Fail(c) \/ Drain(c)
    \/ Enqueue(c) \/ Dequeue(c) \/ StatsRow(c) \/ StatsEnd(c) \/ Forget(c)

Spec == Init /\ [][Next]_vars

=============================================================================
