------------------------------ MODULE MutexQueue ------------------------------
(***************************************************************************)
(* podrum/queue.c, statement by statement: an array and its count behind   *)
(* one mutex (podrum/worker.c).  Between lock and unlock the array and the *)
(* count disagree, a grown cell holds whatever realloc left in it, and a   *)
(* thread may be suspended at any of these points.                         *)
(***************************************************************************)
EXTENDS Naturals, Sequences

CONSTANTS Threads, Items,
          NULL,     \* the C null pointer
          Garbage,  \* the contents of a cell nobody wrote
          NoThread, \* the owner of a free mutex
          MaxLen    \* bound: no put_queue is called on an array this long

ASSUME ItemsAreItems == NULL \notin Items /\ Garbage \notin Items
ASSUME NoThreadIsNoThread == NoThread \notin Threads
ASSUME MaxLenIsNat == MaxLen \in Nat

VARIABLES lock,         \* queue_t.lock: its owner
          items_count,  \* queue_t.items_count
          items,        \* the cells of the allocation queue_t.items points to
          pc,           \* per thread: the next statement of its call
          reg           \* per thread: put_queue's data, get_queue's item

vars == <<lock, items_count, items, pc, reg>>

PutSteps == {"p_lock", "p_count", "p_grow", "p_store", "p_unlock"}
GetSteps == {"g_lock", "g_take", "g_shift", "g_unlock"}
\* The statements executed between worker_mutex_lock and worker_mutex_unlock.
Locked == {"p_count", "p_grow", "p_store", "p_unlock", "g_take", "g_shift", "g_unlock"}

Cell(i) == IF i \in 1..Len(items) THEN items[i] ELSE Garbage
Goto(t, from, to) == pc[t] = from /\ pc' = [pc EXCEPT ![t] = to]

\* new_queue
Init ==
  /\ lock = NoThread
  /\ items_count = 0
  /\ items = <<>>
  /\ pc = [t \in Threads |-> "idle"]
  /\ reg = [t \in Threads |-> NULL]

CallPut(t, d) ==
  /\ Len(items) < MaxLen
  /\ Goto(t, "idle", "p_lock")
  /\ reg' = [reg EXCEPT ![t] = d]
  /\ UNCHANGED <<lock, items_count, items>>

CallGet(t) ==
  /\ Goto(t, "idle", "g_lock")
  /\ UNCHANGED <<lock, items_count, items, reg>>

\* worker_mutex_lock: blocks while another thread owns the mutex.
Lock(t) ==
  /\ lock = NoThread
  /\ lock' = t
  /\ \/ Goto(t, "p_lock", "p_count") /\ UNCHANGED reg
     \/ Goto(t, "g_lock", "g_take") /\ reg' = [reg EXCEPT ![t] = NULL]
  /\ UNCHANGED <<items_count, items>>

PutCount(t) ==
  /\ Goto(t, "p_count", "p_grow")
  /\ items_count' = items_count + 1
  /\ UNCHANGED <<lock, items, reg>>

\* Mutant: realloc keeps the old size.
MutPutGrow(t) ==
  /\ Goto(t, "p_grow", "p_store")
  /\ items' = [i \in 1..(items_count - 1) |-> Cell(i)]
  /\ UNCHANGED <<lock, items_count, reg>>

PutGrow(t) ==
  /\ Goto(t, "p_grow", "p_store")
  /\ items' = [i \in 1..items_count |-> Cell(i)]
  /\ UNCHANGED <<lock, items_count, reg>>

PutStore(t) ==
  /\ Goto(t, "p_store", "p_unlock")
  /\ items' = [items EXCEPT ![items_count] = reg[t]]
  /\ UNCHANGED <<lock, items_count, reg>>

GetTake(t) ==
  \/ /\ items_count > 0
     /\ Goto(t, "g_take", "g_shift")
     /\ items_count' = items_count - 1
     /\ reg' = [reg EXCEPT ![t] = Cell(1)]
     /\ UNCHANGED <<lock, items>>
  \/ /\ items_count = 0
     /\ Goto(t, "g_take", "g_unlock")
     /\ UNCHANGED <<lock, items_count, items, reg>>

\* Mutant: the copy keeps the head and drops the last item.
MutGetShift(t) ==
  /\ Goto(t, "g_shift", "g_unlock")
  /\ items' = [i \in 1..items_count |-> Cell(i)]
  /\ UNCHANGED <<lock, items_count, reg>>

GetShift(t) ==
  /\ Goto(t, "g_shift", "g_unlock")
  /\ items' = [i \in 1..items_count |-> Cell(i + 1)]
  /\ UNCHANGED <<lock, items_count, reg>>

\* Mutant: the early return of an empty queue forgets the mutex.
MutUnlock(t) ==
  /\ Goto(t, "p_unlock", "idle") \/ Goto(t, "g_unlock", "idle")
  /\ lock' = IF pc[t] = "g_unlock" /\ reg[t] = NULL THEN lock ELSE NoThread
  /\ reg' = [reg EXCEPT ![t] = NULL]
  /\ UNCHANGED <<items_count, items>>

\* worker_mutex_unlock, and the return to the caller.
Unlock(t) ==
  /\ Goto(t, "p_unlock", "idle") \/ Goto(t, "g_unlock", "idle")
  /\ lock' = NoThread
  /\ reg' = [reg EXCEPT ![t] = NULL]
  /\ UNCHANGED <<items_count, items>>

Inside(t) == PutCount(t) \/ PutGrow(t) \/ PutStore(t) \/ GetTake(t) \/ GetShift(t) \/ Unlock(t)

Next ==
  \E t \in Threads :
    \/ \E d \in Items : CallPut(t, d)
    \/ CallGet(t)
    \/ Lock(t)
    \/ Inside(t)

Spec == Init /\ [][Next]_vars

\* The scheduler runs every thread that can run; pthread mutexes promise no more.
FairSpec == Spec /\ \A t \in Threads : WF_vars(Inside(t))
------------------------------------------------------------------------------
\* Every variable stays in its type; only here may a cell hold garbage.
TypeOK ==
  /\ lock \in Threads \cup {NoThread}
  /\ items_count \in Nat
  /\ items \in Seq(Items \cup {Garbage})
  /\ pc \in [Threads -> {"idle"} \cup PutSteps \cup GetSteps]
  /\ reg \in [Threads -> Items \cup {NULL, Garbage}]

\* At most one thread is between lock and unlock, and it owns the mutex.
OneInside == \A t \in Threads : pc[t] \in Locked <=> lock = t

\* What the owner of the mutex may rely on at each of its statements: how far
\* the count is from the array, and that no cell it can hand out is garbage.
Consistent ==
  LET at(s) == \E t \in Threads : pc[t] \in s
  IN /\ ~at({"p_grow", "g_shift"}) => items_count = Len(items)
     /\ at({"p_grow"}) => items_count = Len(items) + 1
     /\ at({"g_shift"}) => Len(items) = items_count + 1
     /\ at({"p_store"}) => Len(items) > 0
     /\ \A i \in 1..Len(items) : items[i] \in Items \/ (i = Len(items) /\ at({"p_store"}))

\* What a caller dereferences is a message: get_queue never returns a cell that
\* nobody wrote, and returns the head of the array when the array has one.
NoGarbage ==
  \A t \in Threads :
    /\ pc[t] \in PutSteps => reg[t] \in Items
    /\ pc[t] = "g_shift" => reg[t] = items[1]
    /\ pc[t] = "g_unlock" => reg[t] \in Items \cup {NULL}
    /\ pc[t] \in {"idle", "g_lock", "g_take"} => reg[t] = NULL

\* The mutex protects the queue: one thread inside at a time, the count as far from the array
\* as its statement expects, and nothing handed out that was not put (queue.c:14-40).
LockProtects == TypeOK /\ OneInside /\ Consistent /\ NoGarbage

\* The queue an outside observer sees: a put takes effect at its store, a get
\* at its read of items[0].
Contents ==
  IF \E t \in Threads : pc[t] = "p_store" THEN SubSeq(items, 1, Len(items) - 1)
  ELSE IF \E t \in Threads : pc[t] = "g_shift" THEN Tail(items)
  ELSE items

CallOf(t) ==
  IF pc[t] \in PutSteps \ {"p_unlock"} THEN [op |-> "put", val |-> reg[t]]
  ELSE IF pc[t] \in {"g_lock", "g_take"} THEN [op |-> "get", val |-> NULL]
  ELSE IF pc[t] = "p_unlock" THEN [op |-> "returned", val |-> NULL]
  ELSE IF pc[t] \in {"g_shift", "g_unlock"} THEN [op |-> "returned", val |-> reg[t]]
  ELSE [op |-> "none", val |-> NULL]

Abstract == INSTANCE WorkQueue WITH q <- Contents, call <- [t \in Threads |-> CallOf(t)]

\* queue.c implements the atomic first-in first-out queue: whatever the
\* interleaving, no message is lost, doubled, reordered or invented.
ImplementsWorkQueue == Abstract!Spec

\* A thread that holds the mutex releases it: no path through get_queue or
\* put_queue keeps it, so nobody waits for ever on a mutex nobody will free.
LockReleased == \A t \in Threads : lock = t ~> lock # t
==============================================================================
