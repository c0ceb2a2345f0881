------------------------------ MODULE WorkQueue ------------------------------
(***************************************************************************)
(* What podrum/queue.c promises to the threads that share a queue_t: a     *)
(* first-in first-out queue whose put and get each take effect at one      *)
(* instant between the call and the return.  The RakNet tick thread, the   *)
(* main worker and the console thread exchange every message through two   *)
(* such queues (rakserver.h: thread_to_main_queue, main_to_thread_queue).  *)
(***************************************************************************)
EXTENDS Naturals, Sequences

CONSTANTS Threads,  \* the threads that call get_queue and put_queue
          Items,    \* the values they put (pointers to messages)
          NULL      \* what get_queue returns when there is nothing

VARIABLES q,    \* the values in the queue, oldest first
          call  \* per thread: the call in progress and its argument or result

vars == <<q, call>>

NoCall == [op |-> "none", val |-> NULL]
PutCall(d) == [op |-> "put", val |-> d]
GetCall == [op |-> "get", val |-> NULL]
Returned(v) == [op |-> "returned", val |-> v]

Init == q = <<>> /\ call = [t \in Threads |-> NoCall]

Invoke(t) ==
  /\ call[t] = NoCall
  /\ \/ \E d \in Items : call' = [call EXCEPT ![t] = PutCall(d)]
     \/ call' = [call EXCEPT ![t] = GetCall]
  /\ UNCHANGED q

Put(t) ==
  \E d \in Items :
    /\ call[t] = PutCall(d)
    /\ q' = Append(q, d)
    /\ call' = [call EXCEPT ![t] = Returned(NULL)]

Get(t) ==
  /\ call[t] = GetCall
  /\ \/ q # <<>> /\ q' = Tail(q) /\ call' = [call EXCEPT ![t] = Returned(Head(q))]
     \/ q = <<>> /\ UNCHANGED q /\ call' = [call EXCEPT ![t] = Returned(NULL)]

Return(t) ==
  /\ call[t].op = "returned"
  /\ call' = [call EXCEPT ![t] = NoCall]
  /\ UNCHANGED q

Next == \E t \in Threads : Invoke(t) \/ Put(t) \/ Get(t) \/ Return(t)

Spec == Init /\ [][Next]_vars
==============================================================================
