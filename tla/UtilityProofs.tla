---------------------------- MODULE UtilityProofs -----------------------------
(***************************************************************************)
(* Proofs about the general utilities.  podrum/queue.c, for any number of  *)
(* threads and messages: the inductive invariant of the critical section,  *)
(* and that the code implements the atomic queue of WorkQueue.             *)
(* binary_stream.c, for any size of a byte and any values: what is put     *)
(* into a stream is what is got from it.  base64.c, for any bytes: they    *)
(* come back from every text that encodes them, and within their room.     *)
(***************************************************************************)
EXTENDS MutexQueue, BinaryStream, Base64Exchange, FiniteSetTheorems, SequenceTheorems, WellFoundedInduction, TLAPS

\* The strengthening: OneInside makes at most one thread disturb the array, and
\* Consistent says how far from well formed that thread leaves it at each step.
IInv == TypeOK /\ OneInside /\ Consistent /\ NoGarbage

USE DEF PutSteps, GetSteps, Locked, Goto

LEMMA InitInv == Init => IInv
BY ItemsAreItems, NoThreadIsNoThread DEF Init, IInv, TypeOK, OneInside, Consistent, NoGarbage

LEMMA CallPutInv == ASSUME IInv, NEW t \in Threads, NEW d \in Items, CallPut(t, d) PROVE IInv'
BY ItemsAreItems, NoThreadIsNoThread, SMTT(30) DEF CallPut, IInv, TypeOK, OneInside, Consistent, NoGarbage

LEMMA CallGetInv == ASSUME IInv, NEW t \in Threads, CallGet(t) PROVE IInv'
BY ItemsAreItems, NoThreadIsNoThread, SMTT(30) DEF CallGet, IInv, TypeOK, OneInside, Consistent, NoGarbage

LEMMA LockInv == ASSUME IInv, NEW t \in Threads, Lock(t) PROVE IInv'
BY ItemsAreItems, NoThreadIsNoThread, SMTT(30) DEF Lock, IInv, TypeOK, OneInside, Consistent, NoGarbage

LEMMA PutCountInv == ASSUME IInv, NEW t \in Threads, PutCount(t) PROVE IInv'
BY ItemsAreItems, NoThreadIsNoThread, SMTT(30) DEF PutCount, IInv, TypeOK, OneInside, Consistent, NoGarbage

LEMMA PutGrowInv == ASSUME IInv, NEW t \in Threads, PutGrow(t) PROVE IInv'
BY ItemsAreItems, NoThreadIsNoThread, SMTT(30) DEF PutGrow, Cell, IInv, TypeOK, OneInside, Consistent, NoGarbage

LEMMA PutStoreInv == ASSUME IInv, NEW t \in Threads, PutStore(t) PROVE IInv'
BY ItemsAreItems, NoThreadIsNoThread, SMTT(30) DEF PutStore, IInv, TypeOK, OneInside, Consistent, NoGarbage

LEMMA GetTakeInv == ASSUME IInv, NEW t \in Threads, GetTake(t) PROVE IInv'
BY ItemsAreItems, NoThreadIsNoThread, SMTT(30) DEF GetTake, Cell, IInv, TypeOK, OneInside, Consistent, NoGarbage

LEMMA GetShiftInv == ASSUME IInv, NEW t \in Threads, GetShift(t) PROVE IInv'
BY ItemsAreItems, NoThreadIsNoThread, SMTT(30) DEF GetShift, Cell, IInv, TypeOK, OneInside, Consistent, NoGarbage

LEMMA UnlockInv == ASSUME IInv, NEW t \in Threads, Unlock(t) PROVE IInv'
BY ItemsAreItems, NoThreadIsNoThread, SMTT(30) DEF Unlock, IInv, TypeOK, OneInside, Consistent, NoGarbage

LEMMA NextInv == IInv /\ [Next]_vars => IInv'
<1> SUFFICES ASSUME IInv, [Next]_vars PROVE IInv'
  OBVIOUS
<1>1. CASE UNCHANGED vars
  BY <1>1 DEF vars, IInv, TypeOK, OneInside, Consistent, NoGarbage
<1>2. ASSUME NEW t \in Threads, NEW d \in Items, CallPut(t, d) PROVE IInv'
  BY <1>2, CallPutInv
<1>3. ASSUME NEW t \in Threads, CallGet(t) \/ Lock(t) PROVE IInv'
  BY <1>3, CallGetInv, LockInv
<1>4. ASSUME NEW t \in Threads, Inside(t) PROVE IInv'
  BY <1>4, PutCountInv, PutGrowInv, PutStoreInv, GetTakeInv, GetShiftInv, UnlockInv DEF Inside
<1> QED
  BY <1>1, <1>2, <1>3, <1>4 DEF Next

\* The count, the array and every thread's statement keep their types.
THEOREM TypeCorrect == Spec => []TypeOK
<1>1. IInv => TypeOK
  BY DEF IInv
<1> QED
  BY InitInv, NextInv, <1>1, PTL DEF Spec

\* The mutex of queue_t does protect its array: one thread at most is inside,
\* whatever the number of threads.
THEOREM MutualExclusion == Spec => []OneInside
<1>1. IInv => OneInside
  BY DEF IInv
<1> QED
  BY InitInv, NextInv, <1>1, PTL DEF Spec

\* At each statement the count is exactly as far from the array as the code
\* expects, so that no cell outside of the allocation is read or written.
THEOREM CountFollowsArray == Spec => []Consistent
<1>1. IInv => Consistent
  BY DEF IInv
<1> QED
  BY InitInv, NextInv, <1>1, PTL DEF Spec

\* get_queue never hands out a cell that realloc left unwritten.
THEOREM GetReturnsMessages == Spec => []NoGarbage
<1>1. IInv => NoGarbage
  BY DEF IInv
<1> QED
  BY InitInv, NextInv, <1>1, PTL DEF Spec

\* All of them together are what the mutex of queue_t is for.
THEOREM LockIsEnough == Spec => []LockProtects
<1>1. IInv => LockProtects
  BY DEF IInv, LockProtects
<1> QED
  BY InitInv, NextInv, <1>1, PTL DEF Spec
------------------------------------------------------------------------------
\* The refinement: new_queue is an empty queue, and each statement is a step of
\* the atomic queue or does not show.
LEMMA InitRefines == Init => Abstract!Init
BY DEF Init, Abstract!Init, Contents, CallOf, Abstract!NoCall

LEMMA StepRefines == ASSUME IInv, [Next]_vars PROVE [Abstract!Next]_(Abstract!vars)
<1> DEFINE calls == [t \in Threads |-> CallOf(t)]
<1>1. CASE UNCHANGED vars
  BY <1>1 DEF vars, Abstract!vars, Contents, CallOf
<1>2. ASSUME NEW t \in Threads, NEW d \in Items, CallPut(t, d) PROVE Abstract!Invoke(t)
  <2>1. Contents' = Contents
    BY <1>2 DEF CallPut, Contents, IInv, TypeOK
  <2>2. calls[t] = Abstract!NoCall /\ calls' = [calls EXCEPT ![t] = Abstract!PutCall(d)]
    BY <1>2 DEF CallPut, CallOf, IInv, TypeOK, NoGarbage, Abstract!NoCall, Abstract!PutCall
  <2> QED
    BY <2>1, <2>2 DEF Abstract!Invoke
<1>3. ASSUME NEW t \in Threads, CallGet(t) PROVE Abstract!Invoke(t)
  <2>1. Contents' = Contents
    BY <1>3 DEF CallGet, Contents, IInv, TypeOK
  <2>2. calls[t] = Abstract!NoCall /\ calls' = [calls EXCEPT ![t] = Abstract!GetCall]
    BY <1>3 DEF CallGet, CallOf, IInv, TypeOK, NoGarbage, Abstract!NoCall, Abstract!GetCall
  <2> QED
    BY <2>1, <2>2 DEF Abstract!Invoke
<1>4. ASSUME NEW t \in Threads, Lock(t) \/ PutCount(t) PROVE UNCHANGED Abstract!vars
  <2>1. Contents' = Contents
    BY <1>4 DEF Lock, PutCount, Contents, IInv, TypeOK, OneInside
  <2>2. calls' = calls
    BY <1>4 DEF Lock, PutCount, CallOf, IInv, TypeOK, NoGarbage
  <2> QED
    BY <2>1, <2>2 DEF Abstract!vars
<1>5. ASSUME NEW t \in Threads, PutGrow(t) PROVE UNCHANGED Abstract!vars
  <2>1. Contents = items /\ items_count = Len(items) + 1
    BY <1>5 DEF PutGrow, Contents, IInv, TypeOK, OneInside, Consistent
  <2>2. Contents' = SubSeq(items', 1, Len(items))
    BY <1>5, <2>1 DEF PutGrow, Contents, IInv, TypeOK
  <2>3. \A i \in 1..Len(items) : items'[i] = items[i]
    BY <1>5, <2>1 DEF PutGrow, Cell, IInv, TypeOK
  <2>4. SubSeq(items', 1, Len(items)) = items
    BY <2>3, SubSeqProperties, SeqEqual DEF IInv, TypeOK
  <2>5. calls' = calls
    BY <1>5 DEF PutGrow, CallOf, IInv, TypeOK
  <2> QED
    BY <2>1, <2>2, <2>4, <2>5 DEF Abstract!vars
<1>6. ASSUME NEW t \in Threads, PutStore(t) PROVE Abstract!Put(t)
  <2>1. Contents' = Append(Contents, reg[t])
    BY <1>6 DEF PutStore, Contents, IInv, TypeOK, OneInside, Consistent, NoGarbage
  <2>2. calls[t] = Abstract!PutCall(reg[t]) /\ calls' = [calls EXCEPT ![t] = Abstract!Returned(NULL)]
    BY <1>6 DEF PutStore, CallOf, IInv, TypeOK, Abstract!PutCall, Abstract!Returned
  <2>3. reg[t] \in Items
    BY <1>6 DEF PutStore, IInv, NoGarbage
  <2> QED
    BY <2>1, <2>2, <2>3 DEF Abstract!Put
<1>7. ASSUME NEW t \in Threads, GetTake(t) PROVE Abstract!Get(t)
  <2>1. calls[t] = Abstract!GetCall
    BY <1>7 DEF GetTake, CallOf, IInv, TypeOK, Abstract!GetCall
  <2>2. Contents = items /\ items_count = Len(items)
    BY <1>7 DEF GetTake, Contents, IInv, TypeOK, OneInside, Consistent
  <2>3. CASE items_count > 0
    <3>1. Contents' = Tail(Contents) /\ Contents # <<>>
      BY <1>7, <2>2, <2>3 DEF GetTake, Contents, IInv, TypeOK, OneInside
    <3>2. Cell(1) = Head(Contents)
      BY <2>2, <2>3 DEF Cell, IInv, TypeOK
    <3>3. calls' = [calls EXCEPT ![t] = Abstract!Returned(Cell(1))]
      <4>1. Goto(t, "g_take", "g_shift") /\ reg' = [reg EXCEPT ![t] = Cell(1)]
        BY <1>7, <2>3 DEF GetTake
      <4>2. CallOf(t)' = Abstract!Returned(Cell(1))
        BY <4>1 DEF CallOf, IInv, TypeOK, Abstract!Returned
      <4>3. \A u \in Threads \ {t} : CallOf(u)' = CallOf(u)
        BY <4>1 DEF CallOf, IInv, TypeOK
      <4> QED
        BY <4>2, <4>3
    <3> QED
      BY <2>1, <3>1, <3>2, <3>3 DEF Abstract!Get
  <2>4. CASE items_count = 0
    <3>1. Goto(t, "g_take", "g_unlock") /\ UNCHANGED <<lock, items_count, items, reg>>
      BY <1>7, <2>4 DEF GetTake
    <3>2. Contents' = Contents
      BY <2>2, <3>1 DEF Contents, IInv, TypeOK, OneInside
    <3>3. Contents = <<>>
      BY <2>2, <2>4, EmptySeq DEF IInv, TypeOK
    <3>4. calls' = [calls EXCEPT ![t] = Abstract!Returned(NULL)]
      BY <3>1 DEF CallOf, IInv, TypeOK, NoGarbage, Abstract!Returned
    <3> QED
      BY <2>1, <3>2, <3>3, <3>4 DEF Abstract!Get
  <2> QED
    BY <2>3, <2>4 DEF IInv, TypeOK
<1>8. ASSUME NEW t \in Threads, GetShift(t) PROVE UNCHANGED Abstract!vars
  <2>1. Len(items) = items_count + 1 /\ Contents = Tail(items)
    BY <1>8 DEF GetShift, Contents, IInv, TypeOK, OneInside, Consistent
  <2>2. items' = [i \in 1..items_count |-> items[i + 1]]
    BY <1>8, <2>1 DEF GetShift, Cell, IInv, TypeOK
  <2>3. items' = Tail(items)
    <3> DEFINE S == Items \cup {Garbage}
    <3>1. items # <<>> /\ Len(items) \in Nat /\ items \in Seq(S)
      BY <2>1, EmptySeq DEF IInv, TypeOK
    <3>2. items' \in Seq(S) /\ Len(items') = items_count
      BY <2>1, <2>2, <3>1 DEF IInv, TypeOK
    <3>3. Tail(items) \in Seq(S) /\ Len(Tail(items)) = items_count
      BY <2>1, <3>1, HeadTailProperties DEF IInv, TypeOK
    <3>4. \A i \in 1..items_count : items'[i] = Tail(items)[i]
      BY <2>1, <2>2, <3>1, HeadTailProperties DEF IInv, TypeOK
    <3> HIDE DEF S
    <3> QED
      BY <3>2, <3>3, <3>4, SeqEqual
  <2>4. Contents' = items'
    BY <1>8 DEF GetShift, Contents, IInv, TypeOK, OneInside
  <2>5. calls' = calls
    BY <1>8 DEF GetShift, CallOf, IInv, TypeOK
  <2> QED
    BY <2>1, <2>3, <2>4, <2>5 DEF Abstract!vars
<1>9. ASSUME NEW t \in Threads, Unlock(t) PROVE Abstract!Return(t)
  <2>1. Contents' = Contents
    BY <1>9 DEF Unlock, Contents, IInv, TypeOK, OneInside
  <2>2. calls[t].op = "returned" /\ calls' = [calls EXCEPT ![t] = Abstract!NoCall]
    BY <1>9 DEF Unlock, CallOf, IInv, TypeOK, Abstract!NoCall
  <2> QED
    BY <2>1, <2>2 DEF Abstract!Return
<1> QED
  BY <1>1, <1>2, <1>3, <1>4, <1>5, <1>6, <1>7, <1>8, <1>9 DEF Next, Inside, Abstract!Next

\* queue.c implements the atomic first-in first-out queue for any number of
\* threads: every interleaving of its statements is a history of WorkQueue.
THEOREM Refinement == Spec => ImplementsWorkQueue
BY InitInv, NextInv, InitRefines, StepRefines, PTL DEF Spec, ImplementsWorkQueue, Abstract!Spec

HIDE DEF PutSteps, GetSteps, Locked, Goto
-------------------------------------------------------------------------------
\* A set of numbers has a smallest one.
LEMMA SmallestNat == ASSUME NEW T \in SUBSET Nat, T # {} PROVE \E n \in T : \A t \in T : n <= t
<1>1. IsWellFoundedOn(OpToRel(<, Nat), Nat)
  BY NatLessThanWellFounded
<1>2. PICK n \in T : \A t \in T : <<t, n>> \notin OpToRel(<, Nat)
  BY <1>1, WFMin
<1>3. \A t \in T : ~(t < n)
  BY <1>2 DEF OpToRel
<1> QED
  BY <1>3

\* h is the function that starts with base and goes on with step, up to n.
Follows(h, base, step, n) == \A k \in 0 .. n : h[k] = IF k = 0 THEN base ELSE step[k][h[k - 1]]

\* Such a function exists: what gives the recursive functions of the stream a value.
LEMMA FollowsExists ==
  ASSUME NEW N \in Nat, NEW base \in Int, NEW step \in [1 .. N -> [Int -> Int]]
  PROVE  \A n \in 0 .. N : \E h \in [0 .. n -> Int] : Follows(h, base, step, n)
<1> DEFINE T == {n \in 0 .. N : ~ \E h \in [0 .. n -> Int] : Follows(h, base, step, n)}
<1> SUFFICES ASSUME T # {} PROVE FALSE
  OBVIOUS
<1>1. PICK n \in T : \A t \in T : n <= t
  <2>1. T \in SUBSET Nat
    OBVIOUS
  <2> QED
    BY <2>1, SmallestNat
<1>2. n # 0
  <2>1. [k \in 0 .. 0 |-> base] \in [0 .. 0 -> Int] /\ Follows([k \in 0 .. 0 |-> base], base, step, 0)
    BY DEF Follows
  <2> QED
    BY <2>1
<1>3. n - 1 \in 0 .. N /\ n - 1 \notin T
  <2>1. n - 1 \in 0 .. N /\ ~(n <= n - 1)
    BY <1>2
  <2> QED
    BY <1>1, <2>1
<1>4. PICK h \in [0 .. n - 1 -> Int] : Follows(h, base, step, n - 1)
  BY <1>3
<1> DEFINE g == [k \in 0 .. n |-> IF k = n THEN step[n][h[n - 1]] ELSE h[k]]
<1>5. h[n - 1] \in Int /\ n \in 1 .. N /\ step[n][h[n - 1]] \in Int
  BY <1>2
<1>6. g \in [0 .. n -> Int]
  BY <1>2, <1>5
<1>7. Follows(g, base, step, n)
  <2> SUFFICES ASSUME NEW k \in 0 .. n PROVE g[k] = IF k = 0 THEN base ELSE step[k][g[k - 1]]
    BY DEF Follows
  <2>1. CASE k = n
    BY <2>1, <1>2
  <2>2. CASE k # n
    <3>1. k \in 0 .. n - 1 /\ g[k] = h[k] /\ (k # 0 => g[k - 1] = h[k - 1])
      BY <2>2, <1>2
    <3> QED
      BY <3>1, <1>4 DEF Follows
  <2> QED
    BY <2>1, <2>2
<1> QED
  BY <1>6, <1>7

\* What holds at 0 and goes on from each number to the next holds up to n.
LEMMA Climbs ==
  ASSUME NEW n \in Nat, NEW S, 0 \in S, \A k \in 1 .. n : k - 1 \in S => k \in S
  PROVE  \A k \in 0 .. n : k \in S
<1> DEFINE T == {k \in 0 .. n : k \notin S}
<1> SUFFICES ASSUME T # {} PROVE FALSE
  OBVIOUS
<1>1. PICK k \in T : \A t \in T : k <= t
  <2>1. T \in SUBSET Nat
    OBVIOUS
  <2> QED
    BY <2>1, SmallestNat
<1>2. k # 0 /\ k \in 1 .. n /\ k - 1 \in 0 .. n /\ ~(k <= k - 1)
  OBVIOUS
<1>3. k - 1 \notin T
  BY <1>1, <1>2
<1> QED
  BY <1>2, <1>3

\* Power is the last value of the function that multiplies.
LEMMA PowerUnfolds ==
  ASSUME NEW base \in Int, NEW n \in Nat
  PROVE  \E p \in [0 .. n -> Int] :
           /\ \A k \in 0 .. n : p[k] = IF k = 0 THEN 1 ELSE base * p[k - 1]
           /\ Power(base, n) = p[n]
<1> DEFINE step == [k \in 1 .. n |-> [x \in Int |-> base * x]]
           body(f) == [k \in 0 .. n |-> IF k = 0 THEN 1 ELSE base * f[k - 1]]
           power == CHOOSE f : f = body(f)
<1>1. \A x \in Int : base * x \in Int
  OBVIOUS
<1>2. step \in [1 .. n -> [Int -> Int]]
  BY <1>1
<1>3. PICK h \in [0 .. n -> Int] : Follows(h, 1, step, n)
  <2>1. n \in 0 .. n
    OBVIOUS
  <2> HIDE DEF step
  <2>2. \A m \in 0 .. n : \E h \in [0 .. m -> Int] : Follows(h, 1, step, m)
    <3>1. 1 \in Int
      OBVIOUS
    <3> QED
      BY <1>2, <3>1, FollowsExists, Zenon
  <2> QED
    BY <2>1, <2>2
<1>4. \A k \in 0 .. n : h[k] = IF k = 0 THEN 1 ELSE base * h[k - 1]
  <2> TAKE k \in 0 .. n
  <2>1. k # 0 => h[k - 1] \in Int /\ k \in 1 .. n
    BY <1>3
  <2> QED
    BY <1>3, <2>1 DEF Follows
<1>5. h = body(h)
  BY <1>3, <1>4
<1>6. power = body(power)
  <2> HIDE DEF body
  <2> QED
    BY <1>5
<1>7. Power(base, n) = power[n]
  BY DEF Power
<1> HIDE DEF power
<1>8. \A k \in 0 .. n : power[k] = h[k]
  <2> DEFINE S == {k \in 0 .. n : power[k] = h[k]}
  <2>1. 0 \in S
    BY <1>4, <1>6
  <2>2. \A k \in 1 .. n : k - 1 \in S => k \in S
    BY <1>4, <1>6
  <2> QED
    <3> HIDE DEF S
    <3>1. \A k \in 0 .. n : k \in S
      BY <2>1, <2>2, Climbs
    <3> QED
      BY <3>1 DEF S
<1>9. Power(base, n) = h[n]
  BY <1>7, <1>8
<1> QED
  BY <1>3, <1>4, <1>9

LEMMA PowerZero == ASSUME NEW b \in Int PROVE Power(b, 0) = 1
<1>1. PICK p \in [0 .. 0 -> Int] :
        (\A k \in 0 .. 0 : p[k] = IF k = 0 THEN 1 ELSE b * p[k - 1]) /\ Power(b, 0) = p[0]
  <2>1. 0 \in Nat
    OBVIOUS
  <2> QED
    BY <2>1, PowerUnfolds, Zenon
<1> QED
  BY <1>1

LEMMA PowerNext == ASSUME NEW b \in Int, NEW n \in Nat PROVE Power(b, n + 1) = b * Power(b, n)
<1>1. PICK p \in [0 .. n -> Int] :
        (\A k \in 0 .. n : p[k] = IF k = 0 THEN 1 ELSE b * p[k - 1]) /\ Power(b, n) = p[n]
  BY PowerUnfolds, Zenon
<1>2. PICK q \in [0 .. n + 1 -> Int] :
        (\A k \in 0 .. n + 1 : q[k] = IF k = 0 THEN 1 ELSE b * q[k - 1]) /\ Power(b, n + 1) = q[n + 1]
  <2>1. n + 1 \in Nat
    OBVIOUS
  <2> QED
    BY <2>1, PowerUnfolds, Zenon
<1> DEFINE S == {k \in 0 .. n : q[k] = p[k]}
<1>3. 0 \in S
  BY <1>1, <1>2
<1>4. \A k \in 1 .. n : k - 1 \in S => k \in S
  <2> SUFFICES ASSUME NEW k \in 1 .. n, k - 1 \in S PROVE k \in S
    OBVIOUS
  <2>1. k # 0 /\ k \in 0 .. n /\ k \in 0 .. n + 1 /\ q[k - 1] = p[k - 1]
    OBVIOUS
  <2>2. q[k] = b * q[k - 1] /\ p[k] = b * p[k - 1]
    BY <1>1, <1>2, <2>1
  <2> QED
    BY <2>1, <2>2
<1>5. n \in S
  <2> HIDE DEF S
  <2>1. \A k \in 0 .. n : k \in S
    BY <1>3, <1>4, Climbs
  <2> QED
    BY <2>1
<1>6. n + 1 \in 0 .. n + 1 /\ n + 1 # 0 /\ (n + 1) - 1 = n
  OBVIOUS
<1> QED
  BY <1>1, <1>2, <1>5, <1>6

LEMMA PowerIsPositive == ASSUME NEW b \in Nat \ {0} PROVE \A n \in Nat : Power(b, n) \in Nat \ {0}
<1> TAKE n \in Nat
<1> DEFINE S == {k \in 0 .. n : Power(b, k) \in Nat \ {0}}
<1>1. 0 \in S
  BY PowerZero
<1>2. \A k \in 1 .. n : k - 1 \in S => k \in S
  <2> SUFFICES ASSUME NEW k \in 1 .. n, k - 1 \in S PROVE k \in S
    OBVIOUS
  <2>1. k - 1 \in Nat /\ (k - 1) + 1 = k /\ Power(b, k - 1) \in Nat \ {0}
    OBVIOUS
  <2>2. Power(b, k) = b * Power(b, k - 1)
    BY <2>1, PowerNext
  <2>3. \A x \in Nat \ {0} : b * x \in Nat \ {0}
    OBVIOUS
  <2> QED
    BY <2>1, <2>2, <2>3
<1> HIDE DEF S
<1>3. \A k \in 0 .. n : k \in S
  BY <1>1, <1>2, Climbs
<1> QED
  BY <1>3 DEF S

\* Division of a multiple and a remainder.
LEMMA Quotient ==
  ASSUME NEW p \in Nat \ {0}, NEW a \in Nat, NEW k \in 0 .. p - 1
  PROVE  (a * p + k) \div p = a /\ (a * p + k) % p = k
BY SMT

LEMMA Division ==
  ASSUME NEW v \in Nat, NEW p \in Nat \ {0}
  PROVE  v \div p \in Nat /\ v % p \in 0 .. p - 1 /\ v = (v \div p) * p + (v % p)
BY SMT

LEMMA Products == \A x, y \in Nat : x * y \in Nat /\ x * y = y * x
BY SMT

\* Division by one number and then by another is division by their product.
LEMMA DivisionTwice ==
  ASSUME NEW v \in Nat, NEW p \in Nat \ {0}, NEW b \in Nat \ {0}
  PROVE  (v \div p) \div b = v \div (b * p)
<1> DEFINE q == v \div p
           r == v % p
           Q == q \div b
           R == q % b
<1>1. q \in Nat /\ r \in 0 .. p - 1 /\ v = q * p + r
  BY Division
<1>2. Q \in Nat /\ R \in 0 .. b - 1 /\ q = Q * b + R
  BY <1>1, Division
<1> HIDE DEF q, r, Q, R
<1>3. q * p = Q * (b * p) + R * p
  <2>1. (Q * b + R) * p = (Q * b) * p + R * p
    BY <1>1, <1>2, SMT
  <2>2. (Q * b) * p = Q * (b * p)
    BY <1>1, <1>2, SMT
  <2> QED
    BY <1>2, <2>1, <2>2
<1>4. R * p + r \in 0 .. b * p - 1 /\ b * p \in Nat \ {0} /\ Q * (b * p) \in Nat
  <2>1. R * p \in Nat /\ b * p \in Nat /\ R * p <= (b - 1) * p
    BY <1>2, SMT
  <2>2. (b - 1) * p = b * p - p
    BY SMT
  <2>3. Q * (b * p) \in Nat
    BY <1>2, <2>1, Products
  <2> QED
    BY <1>1, <2>1, <2>2, <2>3
<1>5. v = Q * (b * p) + (R * p + r)
  BY <1>1, <1>2, <1>3, <1>4
<1>6. v \div (b * p) = Q
  BY <1>2, <1>4, <1>5, Quotient
<1> QED
  BY <1>6 DEF q, Q

\* Number is the last value of the function that adds digit after digit.
LEMMA NumberUnfolds ==
  ASSUME NEW base \in Nat \ {0}, NEW s \in Seq(Nat)
  PROVE  \E sum \in [0 .. Len(s) -> Int] :
           /\ \A k \in 0 .. Len(s) :
                sum[k] = IF k = 0 THEN 0 ELSE sum[k - 1] + (s[k] % base) * Power(base, k - 1)
           /\ Number(s, base) = sum[Len(s)]
<1> DEFINE n == Len(s)
           digit == [k \in 1 .. n |-> (s[k] % base) * Power(base, k - 1)]
           step == [k \in 1 .. n |-> [x \in Int |-> x + digit[k]]]
           body(f) == [k \in 0 .. n |-> IF k = 0 THEN 0 ELSE f[k - 1] + (s[k] % base) * Power(base, k - 1)]
           sum == CHOOSE f : f = body(f)
<1>0. n \in Nat
  OBVIOUS
<1>1. \A k \in 1 .. n : digit[k] \in Int
  <2> TAKE k \in 1 .. n
  <2>1. s[k] \in Nat /\ k - 1 \in Nat
    OBVIOUS
  <2>2. s[k] % base \in 0 .. base - 1
    BY <2>1, Division, Zenon
  <2>3. Power(base, k - 1) \in Nat
    BY <2>1, PowerIsPositive
  <2> QED
    BY <2>2, <2>3, Products
<1>2. step \in [1 .. n -> [Int -> Int]]
  BY <1>1
<1>3. PICK h \in [0 .. n -> Int] : Follows(h, 0, step, n)
  <2>1. n \in 0 .. n /\ n \in Nat /\ 0 \in Int
    OBVIOUS
  <2> HIDE DEF step, n
  <2>2. \A m \in 0 .. n : \E h \in [0 .. m -> Int] : Follows(h, 0, step, m)
    BY <1>2, <2>1, FollowsExists, Zenon
  <2> QED
    BY <2>1, <2>2
<1>4. \A k \in 0 .. n : h[k] = IF k = 0 THEN 0 ELSE h[k - 1] + (s[k] % base) * Power(base, k - 1)
  <2> TAKE k \in 0 .. n
  <2> HIDE DEF n
  <2>1. k # 0 => h[k - 1] \in Int /\ k \in 1 .. n
    <3> HAVE k # 0
    <3>1. k - 1 \in 0 .. n /\ k \in 1 .. n
      BY <1>0
    <3> QED
      BY <1>3, <3>1
  <2>2. k # 0 => step[k][h[k - 1]] = h[k - 1] + (s[k] % base) * Power(base, k - 1)
    BY <2>1, Zenon
  <2> QED
    BY <1>3, <2>1, <2>2 DEF Follows
<1>5. h = body(h)
  <2> HIDE DEF n
  <2> QED
    BY <1>3, <1>4
<1>6. sum = body(sum)
  <2> HIDE DEF body
  <2> QED
    BY <1>5
<1>7. Number(s, base) = sum[n]
  BY DEF Number
<1> HIDE DEF sum, n
<1>8. \A k \in 0 .. n : sum[k] = h[k]
  <2> DEFINE S == {k \in 0 .. n : sum[k] = h[k]}
  <2>1. 0 \in S
    BY <1>0, <1>4, <1>6
  <2>2. \A k \in 1 .. n : k - 1 \in S => k \in S
    <3> SUFFICES ASSUME NEW k \in 1 .. n, k - 1 \in S PROVE k \in S
      OBVIOUS
    <3>1. k # 0 /\ k \in 0 .. n /\ sum[k - 1] = h[k - 1]
      BY <1>0
    <3>2. h[k] = h[k - 1] + (s[k] % base) * Power(base, k - 1)
      BY <1>4, <3>1
    <3>3. sum[k] = sum[k - 1] + (s[k] % base) * Power(base, k - 1)
      BY <1>6, <3>1
    <3> QED
      BY <3>1, <3>2, <3>3
  <2> HIDE DEF S
  <2>3. \A k \in 0 .. n : k \in S
    BY <1>0, <2>1, <2>2, Climbs
  <2> QED
    BY <2>3 DEF S
<1>9. Number(s, base) = h[n] /\ h \in [0 .. n -> Int]
  BY <1>0, <1>3, <1>7, <1>8
<1> USE DEF n
<1> QED
  <2> WITNESS h \in [0 .. Len(s) -> Int]
  <2> QED
    BY <1>4, <1>9, Zenon

\* The digits of a number make the number, up to those that are left out.
LEMMA DigitsMakeTheNumber ==
  ASSUME NEW base \in Nat \ {0}, NEW v \in Nat, NEW s \in Seq(Nat),
         \A k \in 1 .. Len(s) : s[k] % base = (v \div Power(base, k - 1)) % base
  PROVE  v = Number(s, base) + (v \div Power(base, Len(s))) * Power(base, Len(s))
<1> DEFINE n == Len(s)
<1>0. n \in Nat
  OBVIOUS
<1>1. PICK sum \in [0 .. n -> Int] :
        /\ \A k \in 0 .. n : sum[k] = IF k = 0 THEN 0 ELSE sum[k - 1] + (s[k] % base) * Power(base, k - 1)
        /\ Number(s, base) = sum[n]
  BY NumberUnfolds, Zenon
<1> HIDE DEF n
<1> DEFINE S == {k \in 0 .. n : v = sum[k] + (v \div Power(base, k)) * Power(base, k)}
<1>2. 0 \in S
  <2>1. Power(base, 0) = 1 /\ sum[0] = 0 /\ 0 \in 0 .. n
    BY <1>0, <1>1, PowerZero
  <2>2. v = 0 + (v \div 1) * 1
    OBVIOUS
  <2> QED
    BY <2>1, <2>2
<1>3. ASSUME NEW k \in 1 .. n, k - 1 \in S PROVE k \in S
  <2> DEFINE P == Power(base, k - 1)
             q == v \div P
             Q == q \div base
             R == q % base
  <2>1. k \in 0 .. n /\ k # 0 /\ k - 1 \in Nat /\ (k - 1) + 1 = k /\ sum[k - 1] \in Int
    BY <1>0, <1>1
  <2>2. P \in Nat \ {0} /\ Power(base, k) = base * P
    <3>1. Power(base, k - 1) \in Nat \ {0}
      BY <2>1, PowerIsPositive, Zenon
    <3>2. Power(base, (k - 1) + 1) = base * Power(base, k - 1)
      <4>1. base \in Int
        OBVIOUS
      <4> QED
        BY <2>1, <4>1, PowerNext, Zenon
    <3> QED
      BY <2>1, <3>1, <3>2
  <2>3. v = sum[k - 1] + q * P
    BY <1>3
  <2>4. sum[k] = sum[k - 1] + R * P
    <3>1. s[k] % base = R
      BY DEF n
    <3> QED
      BY <1>1, <2>1, <3>1
  <2>5. q \in Nat /\ Q \in Nat /\ R \in Nat /\ q = Q * base + R
    <3>1. q \in Nat
      BY <2>2, Division
    <3> HIDE DEF q
    <3>2. q \div base \in Nat /\ q % base \in 0 .. base - 1 /\ q = (q \div base) * base + (q % base)
      BY <3>1, Division, Zenon
    <3>3. \A x \in 0 .. base - 1 : x \in Nat
      OBVIOUS
    <3> QED
      BY <3>1, <3>2, <3>3, Zenon
  <2>6. v \div Power(base, k) = Q
    BY <2>2, DivisionTwice
  <2> HIDE DEF P, q, Q, R
  <2>7. q * P = Q * (base * P) + R * P
    <3>1. (Q * base + R) * P = (Q * base) * P + R * P
      BY <2>2, <2>5, SMT
    <3>2. (Q * base) * P = Q * (base * P)
      BY <2>2, <2>5, SMT
    <3> QED
      BY <2>5, <3>1, <3>2
  <2>8. R * P \in Nat /\ Q * (base * P) \in Nat
    BY <2>2, <2>5, Products
  <2>9. v = sum[k] + Q * (base * P)
    BY <2>1, <2>3, <2>4, <2>7, <2>8
  <2> QED
    BY <2>1, <2>2, <2>6, <2>9
<1> HIDE DEF S
<1>4. \A k \in 0 .. n : k \in S
  BY <1>0, <1>2, <1>3, Climbs
<1>5. n \in S
  BY <1>0, <1>4
<1> QED
  BY <1>1, <1>5 DEF S, n

\* A number below the power of its digits is made of them.
LEMMA DigitsAreEnough ==
  ASSUME NEW base \in Nat \ {0}, NEW v \in Nat, NEW s \in Seq(Nat), v < Power(base, Len(s)),
         \A k \in 1 .. Len(s) : s[k] % base = (v \div Power(base, k - 1)) % base
  PROVE  Number(s, base) = v
<1> DEFINE P == Power(base, Len(s))
<1>1. P \in Nat \ {0}
  BY PowerIsPositive
<1>2. v = Number(s, base) + (v \div P) * P
  BY DigitsMakeTheNumber
<1> HIDE DEF P
<1>3. v \div P = 0
  <2>1. v = 0 * P + v /\ v \in 0 .. P - 1
    BY <1>1 DEF P
  <2> QED
    BY <1>1, <2>1, Quotient
<1>4. Number(s, base) \in Int
  <2>1. PICK sum \in [0 .. Len(s) -> Int] : Number(s, base) = sum[Len(s)]
    BY NumberUnfolds, Zenon
  <2> QED
    BY <2>1
<1> QED
  BY <1>1, <1>2, <1>3, <1>4

LEMMA ByteHalves == Group \in Nat /\ Group >= 2 /\ ByteSize = 2 * Group /\ ByteSize \in Nat \ {0}
BY ByteAssumption, SMT DEF Group

\* Digits are below the base.
LEMMA DigitsType ==
  ASSUME NEW v \in Nat, NEW base \in Nat \ {0}, NEW n \in Nat
  PROVE  /\ Digits(v, base, n) \in Seq(Nat) /\ Len(Digits(v, base, n)) = n
         /\ \A k \in 1 .. n : /\ Digits(v, base, n)[k] = (v \div Power(base, k - 1)) % base
                              /\ Digits(v, base, n)[k] \in 0 .. base - 1
<1> DEFINE d == Digits(v, base, n)
<1>1. ASSUME NEW k \in 1 .. n
      PROVE  (v \div Power(base, k - 1)) % base \in 0 .. base - 1
  <2>1. k - 1 \in Nat
    OBVIOUS
  <2>2. Power(base, k - 1) \in Nat \ {0}
    BY <2>1, PowerIsPositive, Zenon
  <2>3. v \div Power(base, k - 1) \in Nat
    BY <2>2, Division, Zenon
  <2> QED
    BY <2>3, Division, Zenon
<1>2. d = [k \in 1 .. n |-> (v \div Power(base, k - 1)) % base]
  BY DEF Digits
<1>3. d \in [1 .. n -> Nat]
  BY <1>1, <1>2
<1> QED
  BY <1>1, <1>2, <1>3

LEMMA SmallRemainder == \A p \in Nat \ {0} : \A x \in 0 .. p - 1 : x % p = x
BY SMT

\* Putting a sequence in order twice gives it back.
LEMMA OrderedTwice ==
  ASSUME NEW s \in Seq(Nat), NEW kind
  PROVE  /\ Ordered(s, kind) \in Seq(Nat) /\ Len(Ordered(s, kind)) = Len(s)
         /\ Ordered(Ordered(s, kind), kind) = s
         /\ \A X : (\A k \in 1 .. Len(s) : s[k] \in X) => (\A k \in 1 .. Len(s) : Ordered(s, kind)[k] \in X)
<1>1. CASE kind \notin HighestFirst
  BY <1>1 DEF Ordered
<1>2. CASE kind \in HighestFirst
  <2> DEFINE n == Len(s)
             r == [k \in 1 .. n |-> s[(n - k) + 1]]
  <2>1. Reverse(s) = r
    BY DEF Reverse
  <2>2. n \in Nat /\ \A k \in 1 .. n : (n - k) + 1 \in 1 .. n /\ (n - ((n - k) + 1)) + 1 = k /\ s[k] \in Nat
    OBVIOUS
  <2>3. r \in Seq(Nat) /\ Len(r) = n
    BY <2>2
  <2>4. Reverse(r) = [k \in 1 .. n |-> r[(n - k) + 1]]
    BY <2>3 DEF Reverse
  <2>5. s = [k \in 1 .. n |-> s[k]]
    OBVIOUS
  <2> HIDE DEF n
  <2>6. \A k \in 1 .. n : r[(n - k) + 1] = s[k]
    BY <2>2
  <2>7. Reverse(r) = s
    BY <2>4, <2>5, <2>6
  <2>8. ASSUME NEW X, \A k \in 1 .. n : s[k] \in X PROVE \A k \in 1 .. n : r[k] \in X
    BY <2>2, <2>8
  <2> HIDE DEF r
  <2> QED
    BY <1>2, <2>1, <2>3, <2>7, <2>8 DEF Ordered, n
<1> QED
  BY <1>1, <1>2

LEMMA FixedType == \A kind \in Fixed : BytesOf(kind) \in 1 .. 8
BY DEF Fixed, OneByte, TwoBytes, ThreeBytes, FourBytes, EightBytes, BytesOf

\* The bytes put_unsigned_* writes of a number give it back, in either order.
LEMMA FixedReadsBack ==
  ASSUME NEW kind \in Fixed, NEW raw \in 0 .. SizeOf(kind) - 1
  PROVE  LET bytes == PutFixed(raw, kind)
         IN bytes \in Seq(Byte) /\ Len(bytes) = BytesOf(kind) /\ GetFixed(bytes, kind) = raw
<1> DEFINE n == BytesOf(kind)
           d == Digits(raw, ByteSize, n)
           t == Ordered(d, kind)
<1>1. n \in Nat /\ ByteSize \in Nat \ {0}
  BY FixedType, ByteHalves
<1>2. raw \in Nat /\ raw < Power(ByteSize, n)
  <2> HIDE DEF n
  <2>1. Power(ByteSize, n) \in Nat
    BY <1>1, PowerIsPositive
  <2> QED
    BY <2>1 DEF SizeOf, n
<1>3. PutFixed(raw, kind) = t /\ GetFixed(t, kind) = Number(Ordered(t, kind), ByteSize)
  BY DEF PutFixed, GetFixed
<1> HIDE DEF n
<1>4. /\ d \in Seq(Nat) /\ Len(d) = n
      /\ \A k \in 1 .. n : d[k] = (raw \div Power(ByteSize, k - 1)) % ByteSize /\ d[k] \in 0 .. ByteSize - 1
  BY <1>1, <1>2, DigitsType
<1> HIDE DEF d
<1>5. \A k \in 1 .. n : d[k] % ByteSize = (raw \div Power(ByteSize, k - 1)) % ByteSize
  BY <1>1, <1>4, SmallRemainder
<1>6. Number(d, ByteSize) = raw
  BY <1>1, <1>2, <1>4, <1>5, DigitsAreEnough
<1>7. /\ t \in Seq(Nat) /\ Len(t) = n /\ Ordered(t, kind) = d
      /\ \A k \in 1 .. n : t[k] \in Byte
  <2>1. \A k \in 1 .. Len(d) : d[k] \in Byte
    BY <1>4 DEF Byte
  <2> QED
    BY <1>4, <2>1, OrderedTwice
<1> HIDE DEF t
<1>8. t \in Seq(Byte)
  BY <1>7
<1> QED
  BY <1>3, <1>6, <1>7, <1>8 DEF n

\* put_var_* writes the fewest groups that hold the number.
LEMMA GroupsAre ==
  ASSUME NEW rounds \in Nat \ {0}, NEW raw \in Nat, raw < Power(Group, rounds)
  PROVE  /\ Groups(raw, rounds) \in 1 .. rounds
         /\ raw < Power(Group, Groups(raw, rounds))
         /\ \A k \in 1 .. Groups(raw, rounds) - 1 : raw >= Power(Group, k)
<1> DEFINE T == {n \in 1 .. rounds : raw < Power(Group, n)}
           IsLast(n) == (n = rounds \/ raw < Power(Group, n)) /\ \A k \in 1 .. n - 1 : raw >= Power(Group, k)
<1>1. PICK n \in T : \A t \in T : n <= t
  <2>1. rounds \in T /\ T \in SUBSET Nat
    OBVIOUS
  <2> HIDE DEF T
  <2>2. T # {}
    BY <2>1
  <2> QED
    BY <2>1, <2>2, SmallestNat
<1>2. n \in 1 .. rounds /\ IsLast(n)
  <2>1. ASSUME NEW k \in 1 .. n - 1 PROVE raw >= Power(Group, k)
    <3>1. k \in 1 .. rounds /\ ~(n <= k) /\ k \in Nat
      OBVIOUS
    <3>2. k \notin T
      BY <1>1, <3>1
    <3>3. Power(Group, k) \in Nat
      <4>1. Group \in Nat \ {0}
        BY ByteHalves
      <4> QED
        BY <3>1, <4>1, PowerIsPositive
    <3> QED
      BY <3>1, <3>2, <3>3
  <2> QED
    BY <2>1
<1>3. \E m \in 1 .. rounds : IsLast(m)
  BY <1>2
<1> DEFINE g == CHOOSE m \in 1 .. rounds : IsLast(m)
<1>4. g \in 1 .. rounds /\ IsLast(g)
  <2> HIDE DEF IsLast
  <2> QED
    BY <1>3
<1>5. Groups(raw, rounds) = g
  BY DEF Groups
<1> HIDE DEF g
<1> QED
  BY <1>4, <1>5

\* The loops of put_var_* and get_var_*: what is read from bytes that start with those put is the
\* number, and as many are taken.
LEMMA VarReadsBack ==
  ASSUME NEW rounds \in Nat \ {0}, NEW raw \in Nat, raw < Power(Group, rounds)
  PROVE  LET bytes == PutVar(raw, rounds)
         IN /\ bytes \in Seq(Byte) /\ Len(bytes) \in 1 .. rounds
            /\ \A s \in Seq(Byte) :
                 Len(s) >= Len(bytes) /\ (\A k \in 1 .. Len(bytes) : s[k] = bytes[k])
                   => GetVar(s, rounds) = [raw |-> raw, taken |-> Len(bytes)]
<1> DEFINE n == Groups(raw, rounds)
           d == Digits(raw, Group, n)
           e == PutVar(raw, rounds)
<1>1. Group \in Nat \ {0} /\ Group >= 2 /\ ByteSize = 2 * Group
  BY ByteHalves
<1>2. n \in 1 .. rounds /\ raw < Power(Group, n) /\ \A k \in 1 .. n - 1 : raw >= Power(Group, k)
  BY GroupsAre
<1>3. \A k \in 1 .. n : Power(Group, k) \in Nat
  BY <1>1, PowerIsPositive
<1> HIDE DEF n
<1>4. /\ d \in Seq(Nat) /\ Len(d) = n
      /\ \A k \in 1 .. n : d[k] = (raw \div Power(Group, k - 1)) % Group /\ d[k] \in 0 .. Group - 1
  <2>1. n \in Nat
    BY <1>2
  <2> QED
    BY <1>1, <2>1, DigitsType, Zenon
<1>5. e = [k \in 1 .. n |-> d[k] + (IF raw >= Power(Group, k) THEN Group ELSE 0)]
  <2>1. DOMAIN d = 1 .. n
    BY <1>4
  <2> QED
    BY <2>1 DEF PutVar, n
<1> HIDE DEF d, e
<1>6. e \in Seq(Byte) /\ Len(e) = n
  <2>1. \A k \in 1 .. n : e[k] \in Byte
    BY <1>1, <1>4, <1>5 DEF Byte
  <2>2. n \in Nat /\ e \in [1 .. n -> Byte]
    BY <1>2, <1>5, <2>1
  <2> QED
    BY <2>2
<1>7. e[n] < Group /\ \A k \in 1 .. n - 1 : e[k] >= Group
  <2>1. e[n] = d[n] + 0 /\ d[n] \in 0 .. Group - 1
    BY <1>2, <1>3, <1>4, <1>5
  <2>2. \A k \in 1 .. n - 1 : k \in 1 .. n /\ e[k] = d[k] + Group /\ d[k] \in 0 .. Group - 1
    BY <1>2, <1>4, <1>5
  <2> QED
    BY <1>1, <2>1, <2>2
<1>8. \A k \in 1 .. n : e[k] % Group = (raw \div Power(Group, k - 1)) % Group
  <2> TAKE k \in 1 .. n
  <2>1. d[k] \in 0 .. Group - 1 /\ d[k] = (raw \div Power(Group, k - 1)) % Group
    BY <1>4
  <2>2. e[k] = 0 * Group + d[k] \/ e[k] = 1 * Group + d[k]
    BY <1>1, <1>5, <2>1
  <2>3. (0 * Group + d[k]) % Group = d[k] /\ (1 * Group + d[k]) % Group = d[k]
    <3>1. 0 \in Nat /\ 1 \in Nat
      OBVIOUS
    <3> QED
      BY <1>1, <2>1, <3>1, Quotient, Zenon
  <2> QED
    BY <2>1, <2>2, <2>3
<1>9. ASSUME NEW s \in Seq(Byte), Len(s) >= n, \A k \in 1 .. n : s[k] = e[k]
      PROVE  GetVar(s, rounds) = [raw |-> raw, taken |-> n]
  <2> DEFINE Ends(m) == (m = rounds + 1 \/ s[m] < Group) /\ \A k \in 1 .. m - 1 : s[k] >= Group
             m == CHOOSE x \in 1 .. rounds + 1 : Ends(x)
  <2>1. n \in 1 .. rounds + 1 /\ Ends(n)
    BY <1>2, <1>7, <1>9
  <2>2. m \in 1 .. rounds + 1 /\ Ends(m)
    <3> HIDE DEF Ends
    <3> QED
      BY <2>1
  <2>3. m = Ending(s, rounds)
    BY DEF Ending
  <2> HIDE DEF m
  <2>4. \A k \in 1 .. n : s[k] \in Nat
    BY <1>2, <1>9, <1>1 DEF Byte
  <2>5. m = n
    <3>1. ~(m > n)
      <4> SUFFICES ASSUME m > n PROVE FALSE
        OBVIOUS
      <4>1. n \in 1 .. m - 1
        BY <1>2, <2>2
      <4>2. s[n] >= Group /\ s[n] < Group /\ s[n] \in Nat
        BY <1>2, <1>7, <1>9, <2>2, <2>4, <4>1
      <4> QED
        BY <1>1, <4>2
    <3>2. ~(m < n)
      <4> SUFFICES ASSUME m < n PROVE FALSE
        OBVIOUS
      <4>1. m \in 1 .. n - 1 /\ m \in 1 .. n /\ m # rounds + 1
        BY <1>2, <2>2
      <4>2. s[m] < Group /\ s[m] >= Group /\ s[m] \in Nat
        BY <1>7, <1>9, <2>2, <2>4, <4>1
      <4> QED
        BY <1>1, <4>2
    <3> QED
      BY <1>2, <2>2, <3>1, <3>2
  <2> DEFINE u == SubSeq(s, 1, n)
  <2>6. u \in Seq(Nat) /\ Len(u) = n /\ \A k \in 1 .. n : u[k] = s[k]
    <3>1. n \in 1 .. Len(s)
      BY <1>2, <1>9
    <3>2. u = [k \in 1 .. n |-> s[k]]
      BY <3>1
    <3>3. u \in [1 .. n -> Nat]
      BY <2>4, <3>2
    <3> HIDE DEF u
    <3>4. n \in Nat /\ u \in Seq(Nat)
      BY <1>2, <3>3
    <3> QED
      BY <3>2, <3>4
  <2> HIDE DEF u
  <2>7. \A k \in 1 .. Len(u) : u[k] % Group = (raw \div Power(Group, k - 1)) % Group
    BY <1>8, <1>9, <2>6
  <2>8. Number(u, Group) = raw
    BY <1>1, <1>2, <2>6, <2>7, DigitsAreEnough
  <2>9. ~(n > rounds)
    BY <1>2
  <2> QED
    BY <2>3, <2>5, <2>8, <2>9 DEF GetVar, u
<1> QED
  BY <1>2, <1>6, <1>9 DEF e

\* Half of a power of the byte is a number: the sign bit.
LEMMA PowerHalves ==
  ASSUME NEW n \in Nat \ {0}
  PROVE  \E h \in Nat \ {0} : Power(ByteSize, n) = 2 * h
<1> DEFINE p == Power(ByteSize, n - 1)
<1>1. n - 1 \in Nat /\ (n - 1) + 1 = n
  OBVIOUS
<1>2. p \in Nat \ {0}
  BY <1>1, ByteHalves, PowerIsPositive, Zenon
<1>3. Power(ByteSize, n) = ByteSize * p
  <2>1. ByteSize \in Int
    BY ByteHalves
  <2>2. Power(ByteSize, (n - 1) + 1) = ByteSize * Power(ByteSize, n - 1)
    BY <1>1, <2>1, PowerNext, Zenon
  <2> QED
    BY <1>1, <2>2
<1> HIDE DEF p
<1>4. (2 * Group) * p = 2 * (Group * p) /\ Group * p \in Nat \ {0}
  BY <1>2, ByteHalves, SMT
<1> QED
  BY <1>3, <1>4, ByteHalves

LEMMA SizeHalves ==
  ASSUME NEW kind \in Kinds \ {"bytes"}
  PROVE  BytesOf(kind) \in 1 .. 8 /\ \E h \in Nat \ {0} : SizeOf(kind) = 2 * h
<1>1. BytesOf(kind) \in 1 .. 8
  BY DEF Kinds, UnsignedVar, SignedVar, Fixed, OneByte, TwoBytes, ThreeBytes, FourBytes, EightBytes, BytesOf
<1>2. BytesOf(kind) \in Nat \ {0}
  BY <1>1
<1> QED
  BY <1>1, <1>2, PowerHalves DEF SizeOf

\* Two's complement.
LEMMA Wraps ==
  ASSUME NEW h \in Nat \ {0}
  PROVE  /\ \A v \in Int : Wrap(v, 2 * h) \in 0 .. 2 * h - 1
         /\ \A v \in InUnsigned(2 * h) : Wrap(v, 2 * h) = v
         /\ \A v \in InSigned(2 * h) : Unwrap(Wrap(v, 2 * h), 2 * h) = v
<1>1. (2 * h) \div 2 = h
  BY SMT
<1>2. \A v \in Int : Wrap(v, 2 * h) \in 0 .. 2 * h - 1
  BY SMT DEF Wrap
<1>3. \A v \in InUnsigned(2 * h) : Wrap(v, 2 * h) = v
  BY SMT DEF Wrap, InUnsigned
<1>4. ASSUME NEW v \in InSigned(2 * h) PROVE Unwrap(Wrap(v, 2 * h), 2 * h) = v
  <2>1. v \in -h .. h - 1
    BY <1>1 DEF InSigned
  <2>2. CASE v >= 0
    <3>1. v % (2 * h) = v
      BY <2>1, <2>2, SMT
    <3> QED
      BY <1>1, <2>1, <2>2, <3>1 DEF Wrap, Unwrap
  <2>3. CASE v < 0
    <3>1. v % (2 * h) = v + 2 * h
      BY <2>1, <2>3, SMT
    <3> QED
      BY <1>1, <2>1, <2>3, <3>1 DEF Wrap, Unwrap
  <2> QED
    BY <2>1, <2>2, <2>3
<1> QED
  BY <1>2, <1>3, <1>4

\* The sign in the lowest bit.
LEMMA ZigZags ==
  ASSUME NEW h \in Nat \ {0}, NEW v \in InSigned(2 * h)
  PROVE  ZigZag(v) \in 0 .. 2 * h - 1 /\ UnZigZag(ZigZag(v)) = v
<1>1. v \in -h .. h - 1
  <2>1. (2 * h) \div 2 = h
    BY SMT
  <2> QED
    BY <2>1 DEF InSigned
<1>2. CASE v >= 0
  BY <1>1, <1>2, SMT DEF ZigZag, UnZigZag
<1>3. CASE v < 0
  <2>1. (2 * (-1 - v) + 1) % 2 = 1 /\ (2 * (-1 - v) + 1) \div 2 = -1 - v
    BY <1>1, <1>3, SMT
  <2> QED
    BY <1>1, <1>3, <2>1 DEF ZigZag, UnZigZag
<1> QED
  BY <1>1, <1>2, <1>3

\* The loops of the var formats reach every value of their types.
LEMMA RoundsAreEnough ==
  ASSUME NEW kind \in UnsignedVar \cup SignedVar
  PROVE  Rounds(kind) \in Nat \ {0} /\ SizeOf(kind) <= Power(Group, Rounds(kind))
<1>1. CASE kind \in {"var_int", "signed_var_int"}
  <2>1. BytesOf(kind) = 4
    BY <1>1 DEF BytesOf, OneByte, TwoBytes, ThreeBytes, FourBytes, EightBytes
  <2> QED
    BY <1>1, <2>1, VarAssumption DEF Rounds, SizeOf
<1>2. CASE kind \in {"var_long", "signed_var_long"}
  <2>1. BytesOf(kind) = 8
    BY <1>2 DEF BytesOf, OneByte, TwoBytes, ThreeBytes, FourBytes, EightBytes
  <2> QED
    BY <1>2, <2>1, VarAssumption DEF Rounds, SizeOf
<1> QED
  BY <1>1, <1>2 DEF UnsignedVar, SignedVar

\* s begins with e.
Starts(s, e) == Len(s) >= Len(e) /\ \A k \in 1 .. Len(e) : s[k] = e[k]

\* What is put, as PutItem records it, and the count get_bytes is asked for.
Item(kind, v) == [kind |-> kind, value |-> v]
Count(kind, v) == IF kind = "bytes" THEN Len(v) ELSE 0

\* The get function reads the value from bytes that begin with those its put function writes,
\* and takes no other.
ReadsAs(kind, v) ==
  /\ Encode(kind, v) \in Seq(Byte)
  /\ Meant(Item(kind, v)) \in Int \cup Seq(Byte)
  /\ \A s \in Seq(Byte) :
       Starts(s, Encode(kind, v))
         => Decode(kind, s, Count(kind, v)) = [value |-> Meant(Item(kind, v)), taken |-> Len(Encode(kind, v))]

LEMMA StartIsRead ==
  ASSUME NEW s \in Seq(Byte), NEW e \in Seq(Byte), Starts(s, e)
  PROVE  SubSeq(s, 1, Len(e)) = e
<1>1. Len(e) \in 0 .. Len(s)
  BY DEF Starts
<1>2. SubSeq(s, 1, Len(e)) = [k \in 1 .. Len(e) |-> s[k]]
  BY <1>1
<1> QED
  BY <1>2 DEF Starts

LEMMA FixedComesBack ==
  ASSUME NEW kind \in Fixed, NEW v \in Legal(kind)
  PROVE  ReadsAs(kind, v)
<1> DEFINE size == SizeOf(kind)
           raw == Wrap(v, size)
           e == PutFixed(raw, kind)
<1>1. kind \in Kinds \ {"bytes"} /\ kind \notin UnsignedVar /\ kind \notin SignedVar /\ kind # "bytes"
  BY DEF Kinds, SignedVar, UnsignedVar, Fixed, OneByte, TwoBytes, ThreeBytes, FourBytes, EightBytes
<1>2. PICK h \in Nat \ {0} : size = 2 * h
  BY <1>1, SizeHalves
<1>3. /\ kind \in Triads => v \in InSigned(Power(ByteSize, 4))
      /\ kind \in SignedFixed => v \in InSigned(size)
      /\ kind \notin Triads /\ kind \notin SignedFixed => v \in InUnsigned(size)
  <2>1. kind \in Triads => kind \notin SignedFixed
    BY DEF Triads, SignedFixed
  <2> QED
    BY <1>1, <2>1 DEF Legal
<1>4. v \in Int
  <2>1. \A x \in Nat : InUnsigned(x) \subseteq Int /\ InSigned(x) \subseteq Int
    BY DEF InUnsigned, InSigned
  <2>2. size \in Nat /\ Power(ByteSize, 4) \in Nat
    BY <1>2, ByteHalves, PowerIsPositive
  <2> QED
    BY <1>3, <2>1, <2>2, Zenon
<1> HIDE DEF size
<1>5. /\ raw \in 0 .. size - 1
      /\ kind \in SignedFixed => Unwrap(raw, size) = v
      /\ kind \notin Triads /\ kind \notin SignedFixed => raw = v
  BY <1>2, <1>3, <1>4, Wraps, Zenon
<1> HIDE DEF raw
<1>6. e \in Seq(Byte) /\ Len(e) = BytesOf(kind) /\ GetFixed(e, kind) = raw
  BY <1>5, FixedReadsBack DEF size
<1> HIDE DEF e
<1>7. Encode(kind, v) = e
  BY <1>1 DEF Encode, e, raw, size
<1>8. Meant(Item(kind, v)) = IF kind \in SignedFixed THEN Unwrap(raw, size) ELSE raw
  <2>1. kind \in Triads => kind \notin SignedFixed
    BY DEF Triads, SignedFixed
  <2> QED
    BY <1>5, <2>1 DEF Meant, Item, raw, size
<1>9. Meant(Item(kind, v)) \in Int
  <2>1. kind \notin SignedFixed => raw \in Int
    BY <1>5, <1>2
  <2> QED
    BY <1>4, <1>5, <1>8, <2>1
<1>10. ASSUME NEW s \in Seq(Byte), Starts(s, e)
       PROVE  Decode(kind, s, Count(kind, v)) = [value |-> Meant(Item(kind, v)), taken |-> Len(e)]
  <2>1. SubSeq(s, 1, BytesOf(kind)) = e
    BY <1>6, <1>10, StartIsRead
  <2>2. Decode(kind, s, Count(kind, v))
          = [value |-> IF kind \in SignedFixed THEN Unwrap(raw, size) ELSE raw, taken |-> BytesOf(kind)]
    BY <1>1, <1>6, <2>1 DEF Decode, size
  <2> QED
    BY <1>6, <1>8, <2>2
<1> QED
  BY <1>6, <1>7, <1>9, <1>10 DEF ReadsAs

LEMMA VarComesBack ==
  ASSUME NEW kind \in UnsignedVar \cup SignedVar, NEW v \in Legal(kind)
  PROVE  ReadsAs(kind, v)
<1> DEFINE rounds == Rounds(kind)
           size == SizeOf(kind)
           raw == IF kind \in SignedVar THEN ZigZag(v) ELSE v
           e == PutVar(raw, rounds)
<1>1. /\ kind \in Kinds \ {"bytes"} /\ kind \notin Fixed /\ kind # "bytes"
      /\ kind \notin Triads /\ kind \notin SignedFixed
      /\ kind \in UnsignedVar <=> kind \notin SignedVar
  BY DEF Kinds, UnsignedVar, SignedVar, Fixed, OneByte, TwoBytes, ThreeBytes, FourBytes, EightBytes, Triads, SignedFixed
<1>2. PICK h \in Nat \ {0} : size = 2 * h
  BY <1>1, SizeHalves
<1>3. v \in IF kind \in SignedVar THEN InSigned(size) ELSE InUnsigned(size)
  BY <1>1 DEF Legal
<1>4. rounds \in Nat \ {0} /\ size <= Power(Group, rounds) /\ Power(Group, rounds) \in Nat
  <2>1. Group \in Nat \ {0}
    BY ByteHalves
  <2> QED
    BY <2>1, RoundsAreEnough, PowerIsPositive
<1> HIDE DEF size, rounds
<1>5. raw \in 0 .. 2 * h - 1 /\ v \in Int /\ (kind \in SignedVar => UnZigZag(raw) = v)
  <2>1. CASE kind \in SignedVar
    BY <1>2, <1>3, <2>1, ZigZags DEF InSigned
  <2>2. CASE kind \notin SignedVar
    BY <1>2, <1>3, <2>2 DEF InUnsigned
  <2> QED
    BY <2>1, <2>2
<1> HIDE DEF raw
<1>6. raw \in Nat /\ raw < Power(Group, rounds)
  BY <1>2, <1>4, <1>5
<1>7. /\ e \in Seq(Byte)
      /\ \A s \in Seq(Byte) : Starts(s, e) => GetVar(s, rounds) = [raw |-> raw, taken |-> Len(e)]
  BY <1>4, <1>6, VarReadsBack DEF Starts
<1> HIDE DEF e
<1>8. Encode(kind, v) = e
  BY <1>1 DEF Encode, e, raw, rounds
<1>9. Meant(Item(kind, v)) = v
  BY <1>1 DEF Meant, Item
<1>10. ASSUME NEW s \in Seq(Byte), Starts(s, e)
       PROVE  Decode(kind, s, Count(kind, v)) = [value |-> v, taken |-> Len(e)]
  <2>1. GetVar(s, Rounds(kind)) = [raw |-> raw, taken |-> Len(e)]
    BY <1>7, <1>10 DEF rounds
  <2>2. CASE kind \in SignedVar
    BY <1>1, <1>5, <2>1, <2>2 DEF Decode
  <2>3. CASE kind \notin SignedVar
    BY <1>1, <2>1, <2>3 DEF Decode, raw
  <2> QED
    BY <2>2, <2>3
<1> QED
  BY <1>5, <1>7, <1>8, <1>9, <1>10 DEF ReadsAs

\* What a put function writes, its get function reads, whatever follows.
LEMMA ComesBack == \A kind \in Kinds : \A v \in Legal(kind) : ReadsAs(kind, v)
<1> TAKE kind \in Kinds
<1> TAKE v \in Legal(kind)
<1>1. CASE kind = "bytes"
  <2>1. /\ "bytes" \notin Fixed /\ "bytes" \notin UnsignedVar /\ "bytes" \notin SignedVar /\ "bytes" \notin Triads
        /\ "bytes" \notin SignedFixed
    BY DEF UnsignedVar, SignedVar, Fixed, OneByte, TwoBytes, ThreeBytes, FourBytes, EightBytes, Triads, SignedFixed
  <2>2. v \in Seq(Byte)
    BY <1>1, <2>1 DEF Legal
  <2>3. Encode(kind, v) = v /\ Meant(Item(kind, v)) = v /\ Count(kind, v) = Len(v)
    BY <1>1, <2>1 DEF Encode, Meant, Item, Count
  <2>4. ASSUME NEW s \in Seq(Byte), Starts(s, v)
        PROVE  Decode(kind, s, Len(v)) = [value |-> v, taken |-> Len(v)]
    <3>1. SubSeq(s, 1, Len(v)) = v
      BY <2>2, <2>4, StartIsRead
    <3> QED
      BY <1>1, <2>1, <3>1 DEF Decode
  <2> QED
    BY <2>2, <2>3, <2>4 DEF ReadsAs
<1>2. CASE kind # "bytes"
  BY <1>2, FixedComesBack, VarComesBack DEF Kinds
<1> QED
  BY <1>1, <1>2

LEMMA LegalNumbers == \A kind \in Kinds \ {"bytes"} : Legal(kind) \subseteq Int
<1> TAKE kind \in Kinds \ {"bytes"}
<1>1. PICK h \in Nat \ {0} : SizeOf(kind) = 2 * h
  BY SizeHalves
<1>2. Power(ByteSize, 4) \in Nat
  BY ByteHalves, PowerIsPositive
<1>3. \A size \in Nat : InUnsigned(size) \subseteq Int /\ InSigned(size) \subseteq Int
  BY DEF InUnsigned, InSigned
<1>4. SizeOf(kind) \in Nat
  BY <1>1
<1>5. kind \in SignedFixed \cup SignedVar \/ kind \in Triads \/ kind \in (Fixed \ (SignedFixed \cup Triads)) \cup UnsignedVar
  BY DEF Kinds
<1>6. Legal(kind) \in {InSigned(Power(ByteSize, 4)), InSigned(SizeOf(kind)), InUnsigned(SizeOf(kind))}
  BY <1>5 DEF Legal
<1> QED
  BY <1>2, <1>3, <1>4, <1>6

LEMMA ElementType ==
  ASSUME NEW S, NEW s \in Seq(S), NEW n \in 1 .. Len(s)
  PROVE  s[n] \in S /\ n \in DOMAIN s
OBVIOUS

LEMMA WrittenType ==
  ASSUME NEW stored \in Seq([kind : Kinds, value : Int \cup Seq(Byte)]),
         \A n \in DOMAIN stored : stored[n].value \in Legal(stored[n].kind)
  PROVE  \A n \in 1 .. Len(stored) : Encode(stored[n].kind, stored[n].value) \in Seq(Byte)
<1> TAKE n \in 1 .. Len(stored)
<1>1. stored[n].kind \in Kinds /\ stored[n].value \in Legal(stored[n].kind)
  <2>1. stored[n] \in [kind : Kinds, value : Int \cup Seq(Byte)] /\ n \in DOMAIN stored
    BY ElementType, Zenon
  <2> QED
    BY <2>1
<1>2. ReadsAs(stored[n].kind, stored[n].value)
  BY <1>1, ComesBack, Zenon
<1> QED
  BY <1>2 DEF ReadsAs

\* The bytes of the n-th item.
Written(n) == Encode(put[n].kind, put[n].value)

\* The n-th item ends at ends[n], and between the ends stands what its put function wrote.
LaidOut(ends) ==
  /\ ends[0] = 0
  /\ ends[Len(put)] = Len(buffer)
  /\ ends[Len(got)] = offset
  /\ \A n \in 1 .. Len(put) :
       /\ ends[n] = ends[n - 1] + Len(Written(n))
       /\ \A k \in 1 .. Len(Written(n)) : buffer[ends[n - 1] + k] = Written(n)[k]

StreamInv ==
  /\ StreamTypeOK
  /\ \E ends \in [0 .. Len(put) -> 0 .. Len(buffer)] : LaidOut(ends)
  /\ \A n \in DOMAIN got : got[n] = Meant(put[n])

\* The empty stream is laid out.
LEMMA StreamInitInv == StreamInit => StreamInv
<1> SUFFICES ASSUME StreamInit PROVE StreamInv
  OBVIOUS
<1>1. buffer = <<>> /\ offset = 0 /\ put = <<>> /\ got = <<>>
  BY DEF StreamInit
<1>2. StreamTypeOK
  BY <1>1 DEF StreamTypeOK
<1>3. \E ends \in [0 .. Len(put) -> 0 .. Len(buffer)] : LaidOut(ends)
  <2> DEFINE ends == [n \in 0 .. 0 |-> 0]
  <2>1. Len(put) = 0 /\ Len(buffer) = 0 /\ Len(got) = 0
    BY <1>1
  <2>2. ends \in [0 .. Len(put) -> 0 .. Len(buffer)]
    BY <2>1
  <2>3. LaidOut(ends)
    BY <1>1, <2>1 DEF LaidOut
  <2> QED
    BY <2>2, <2>3
<1> QED
  BY <1>1, <1>2, <1>3 DEF StreamInv

\* What is put ends the buffer, and nothing before it moves.
LEMMA PutItemInv ==
  ASSUME StreamInv, NEW kind \in Kinds, NEW v \in PutValues(kind), PutItem(kind, v)
  PROVE  StreamInv'
<1> DEFINE e == Encode(kind, v)
<1>0. PICK p \in Nat : p = Len(put)
  <2>1. Len(put) \in Nat
    BY DEF StreamInv, StreamTypeOK
  <2> QED
    BY <2>1
<1>1. v \in Legal(kind)
  BY ValuesAssumption
<1>2. e \in Seq(Byte)
  BY <1>1, ComesBack DEF ReadsAs
<1>3. v \in Int \cup Seq(Byte)
  <2>1. CASE kind = "bytes"
    BY <1>2, <2>1 DEF Encode, Fixed, OneByte, TwoBytes, ThreeBytes, FourBytes, EightBytes, UnsignedVar, SignedVar
  <2>2. CASE kind # "bytes"
    BY <1>1, <2>2, LegalNumbers
  <2> QED
    BY <2>1, <2>2
<1>4. /\ buffer' = buffer \o e /\ offset' = offset /\ got' = got
      /\ put' = Append(put, [kind |-> kind, value |-> v])
  BY DEF PutItem
<1>5. /\ buffer \in Seq(Byte) /\ offset \in Nat /\ put \in Seq([kind : Kinds, value : Int \cup Seq(Byte)])
      /\ \A n \in DOMAIN put : put[n].value \in Legal(put[n].kind)
      /\ got \in Seq(Int \cup Seq(Byte)) /\ Len(got) <= Len(put)
  BY DEF StreamInv, StreamTypeOK
<1> HIDE DEF e
<1>6. /\ Len(put') = p + 1 /\ p \in Nat /\ Len(got) \in Nat
      /\ \A n \in 1 .. p : put'[n] = put[n]
      /\ put'[p + 1] = [kind |-> kind, value |-> v]
  BY <1>0, <1>4, <1>5
<1>7. /\ buffer' \in Seq(Byte) /\ Len(buffer') = Len(buffer) + Len(e) /\ Len(e) \in Nat /\ Len(buffer) \in Nat
      /\ \A k \in 1 .. Len(buffer) : buffer'[k] = buffer[k]
      /\ \A k \in 1 .. Len(e) : buffer'[Len(buffer) + k] = e[k]
  BY <1>2, <1>4, <1>5
<1>8. StreamTypeOK'
  <2>1. put' \in Seq([kind : Kinds, value : Int \cup Seq(Byte)])
    BY <1>3, <1>4, <1>5
  <2>2. \A n \in DOMAIN put' : put'[n].value \in Legal(put'[n].kind)
    <3> SUFFICES ASSUME NEW n \in 1 .. p + 1 PROVE put'[n].value \in Legal(put'[n].kind)
      BY <1>6, <2>1
    <3>1. CASE n = p + 1
      BY <1>1, <1>6, <3>1
    <3>2. CASE n \in 1 .. p
      <4>1. n \in DOMAIN put
        BY <1>0, <1>5, <3>2, ElementType
      <4>2. put[n].value \in Legal(put[n].kind)
        BY <1>5, <4>1
      <4> QED
        BY <1>6, <3>2, <4>2
    <3> QED
      BY <1>6, <3>1, <3>2
  <2> QED
    BY <1>4, <1>5, <1>6, <1>7, <2>1, <2>2 DEF StreamTypeOK
<1>9. PICK ends \in [0 .. p -> 0 .. Len(buffer)] : LaidOut(ends)
  BY <1>0 DEF StreamInv
<1>19. PICK longer : longer = [n \in 0 .. p + 1 |-> IF n = p + 1 THEN Len(buffer) + Len(e) ELSE ends[n]]
  OBVIOUS
<1>10. longer \in [0 .. Len(put') -> 0 .. Len(buffer')]
  BY <1>6, <1>7, <1>9, <1>19
<1>11. \A n \in 0 .. p : longer[n] = ends[n] /\ ends[n] \in 0 .. Len(buffer)
  BY <1>6, <1>9, <1>19
<1>12. longer[p + 1] = Len(buffer) + Len(e)
  BY <1>6, <1>19
<1>13. /\ ends[0] = 0 /\ ends[p] = Len(buffer) /\ ends[Len(got)] = offset
       /\ \A n \in 1 .. p :
            /\ ends[n] = ends[n - 1] + Len(Written(n))
            /\ \A k \in 1 .. Len(Written(n)) : buffer[ends[n - 1] + k] = Written(n)[k]
  BY <1>0, <1>9 DEF LaidOut
<1>14. Encode(put'[p + 1].kind, put'[p + 1].value) = e /\ Written(p + 1)' = e /\ \A n \in 1 .. p : Written(n)' = Written(n)
  BY <1>6 DEF Written, e
<1>15. ASSUME NEW n \in 1 .. p + 1
       PROVE  /\ longer[n] = longer[n - 1] + Len(Written(n)')
              /\ \A k \in 1 .. Len(Written(n)') : buffer'[longer[n - 1] + k] = Written(n)'[k]
  <2>1. CASE n = p + 1
    <3>1. n - 1 = p /\ p \in 0 .. p
      BY <1>6, <2>1
    <3> QED
      BY <1>7, <1>11, <1>12, <1>13, <1>14, <2>1, <3>1, SMTT(60)
  <2>2. CASE n \in 1 .. p
    <3>1. n \in 0 .. p /\ n - 1 \in 0 .. p
      BY <1>6, <2>2
    <3>2. ends[n] = ends[n - 1] + Len(Written(n)) /\ Written(n)' = Written(n)
      BY <1>13, <1>14, <2>2
    <3>3. ASSUME NEW k \in 1 .. Len(Written(n))
          PROVE  buffer'[longer[n - 1] + k] = Written(n)[k]
      <4>1. ends[n - 1] + k \in 1 .. Len(buffer)
        <5>1. Len(Written(n)) \in Nat
          BY <1>0, <1>5, <2>2, WrittenType DEF Written
        <5>2. ends[n] \in 0 .. Len(buffer) /\ ends[n - 1] \in 0 .. Len(buffer)
          BY <1>11, <3>1
        <5>3. k \in 1 .. Len(Written(n)) /\ ends[n] = ends[n - 1] + Len(Written(n))
          BY <3>2
        <5> HIDE DEF Written
        <5> QED
          BY <1>7, <5>1, <5>2, <5>3
      <4> QED
        BY <1>7, <1>11, <1>13, <2>2, <3>1, <4>1
    <3> QED
      BY <1>11, <3>1, <3>2, <3>3
  <2> QED
    BY <1>6, <2>1, <2>2
<1>16. LaidOut(longer)'
  <2>1. 0 \in 0 .. p /\ Len(got) \in 0 .. p
    BY <1>0, <1>5, <1>6
  <2> QED
    BY <1>4, <1>6, <1>7, <1>11, <1>12, <1>13, <1>15, <2>1 DEF LaidOut
<1>17. \A n \in DOMAIN got' : got'[n] = Meant(put'[n])
  <2> SUFFICES ASSUME NEW n \in DOMAIN got PROVE got[n] = Meant(put'[n])
    BY <1>4
  <2>1. n \in 1 .. p
    BY <1>0, <1>5, <1>6
  <2> QED
    BY <1>6, <2>1 DEF StreamInv
<1>18. StreamInv'
  <2>1. (\E x \in [0 .. Len(put) -> 0 .. Len(buffer)] : LaidOut(x))'
    BY <1>10, <1>16
  <2> QED
    BY <1>8, <1>17, <2>1 DEF StreamInv, Meant
<1> QED
  BY <1>18

\* What is got begins where the last item ended, so its get function reads what was put.
LEMMA GetItemInv == ASSUME StreamInv, GetItem PROVE StreamInv'
<1> DEFINE n == Len(got) + 1
           item == put[n]
           e == Written(n)
           s == SubSeq(buffer, offset + 1, Len(buffer))
           r == Decode(item.kind, s, IF item.kind = "bytes" THEN Len(item.value) ELSE 0)
<1>1. /\ buffer \in Seq(Byte) /\ offset \in Nat /\ put \in Seq([kind : Kinds, value : Int \cup Seq(Byte)])
      /\ \A m \in DOMAIN put : put[m].value \in Legal(put[m].kind)
      /\ got \in Seq(Int \cup Seq(Byte)) /\ Len(got) <= Len(put)
  BY DEF StreamInv, StreamTypeOK
<1>2. /\ Len(got) < Len(put) /\ got' = Append(got, r.value) /\ offset' = offset + r.taken
      /\ buffer' = buffer /\ put' = put
  BY DEF GetItem
<1>3. n \in 1 .. Len(put) /\ n \in 0 .. Len(put) /\ n - 1 = Len(got) /\ Len(got) \in 0 .. Len(put) /\ Len(buffer) \in Nat
  BY <1>1, <1>2
<1>4. item.kind \in Kinds /\ item.value \in Legal(item.kind) /\ item = [kind |-> item.kind, value |-> item.value]
  <2> HIDE DEF n
  <2>1. item \in [kind : Kinds, value : Int \cup Seq(Byte)] /\ n \in DOMAIN put
    BY <1>1, <1>3, ElementType, Zenon
  <2>2. item.value \in Legal(item.kind)
    BY <1>1, <2>1
  <2> HIDE DEF item
  <2> QED
    BY <2>1, <2>2
<1>5. ReadsAs(item.kind, item.value)
  BY <1>4, ComesBack, Zenon
<1>6. e \in Seq(Byte) /\ e = Encode(item.kind, item.value)
  BY <1>5 DEF ReadsAs, Written
<1>7. PICK ends \in [0 .. Len(put) -> 0 .. Len(buffer)] : LaidOut(ends)
  BY DEF StreamInv
<1>8. /\ ends[n] = offset + Len(e) /\ ends[n] \in 0 .. Len(buffer) /\ ends[Len(got)] = offset
      /\ \A k \in 1 .. Len(e) : buffer[offset + k] = e[k]
  <2> HIDE DEF n, e
  <2> QED
    BY <1>3, <1>7 DEF LaidOut, e
<1>9. s \in Seq(Byte) /\ Starts(s, e)
  <2>1. offset + 1 \in 1 .. Len(buffer) + 1 /\ offset <= Len(buffer) /\ Len(e) \in Nat
    BY <1>1, <1>3, <1>6, <1>8
  <2> HIDE DEF n, e
  <2>2. s = [k \in 1 .. Len(buffer) - offset |-> buffer[offset + k]]
    BY <1>1, <1>3, <2>1
  <2>3. s \in Seq(Byte) /\ Len(s) = Len(buffer) - offset
    BY <1>1, <1>3, <2>1, <2>2
  <2>4. Len(s) >= Len(e)
    BY <1>3, <1>8, <2>1, <2>3
  <2>5. \A k \in 1 .. Len(e) : k \in 1 .. Len(buffer) - offset
    BY <1>3, <1>8, <2>1
  <2> HIDE DEF s
  <2> QED
    BY <1>8, <2>2, <2>3, <2>4, <2>5 DEF Starts
<1> HIDE DEF s
<1>10. r = [value |-> Meant(item), taken |-> Len(e)] /\ Meant(item) \in Int \cup Seq(Byte)
  <2> HIDE DEF n, item, e
  <2>1. Item(item.kind, item.value) = item
    BY <1>4 DEF Item
  <2>2. Count(item.kind, item.value) = IF item.kind = "bytes" THEN Len(item.value) ELSE 0
    BY DEF Count
  <2> QED
    BY <1>5, <1>6, <1>9, <2>1, <2>2 DEF ReadsAs
<1> HIDE DEF r, item, e, n
<1>11. got' = Append(got, Meant(item)) /\ offset' = offset + Len(e) /\ Len(e) \in Nat
  BY <1>2, <1>6, <1>10
<1>12. /\ got' \in Seq(Int \cup Seq(Byte)) /\ Len(got') = n
       /\ \A m \in 1 .. Len(got) : got'[m] = got[m]
       /\ got'[n] = Meant(item)
  BY <1>1, <1>10, <1>11 DEF n
<1>13. StreamTypeOK'
  <2>1. offset' \in Nat
    BY <1>1, <1>11
  <2> QED
    BY <1>1, <1>2, <1>3, <1>12, <2>1 DEF StreamTypeOK
<1>14. LaidOut(ends)'
  <2>1. \A m \in 1 .. Len(put) : Written(m)' = Written(m)
    BY <1>2 DEF Written
  <2> QED
    BY <1>2, <1>7, <1>8, <1>11, <1>12, <2>1 DEF LaidOut
<1>15. \A m \in DOMAIN got' : got'[m] = Meant(put[m])
  <2> SUFFICES ASSUME NEW m \in 1 .. n PROVE got'[m] = Meant(put[m])
    BY <1>12
  <2>1. CASE m = n
    BY <1>12, <2>1 DEF item
  <2>2. CASE m \in 1 .. Len(got)
    <3>1. m \in DOMAIN got
      BY <1>1, <2>2
    <3>2. got[m] = Meant(put[m])
      BY <3>1 DEF StreamInv
    <3> QED
      BY <1>12, <2>2, <3>2
  <2> QED
    BY <1>1, <2>1, <2>2 DEF n
<1>16. (\E x \in [0 .. Len(put) -> 0 .. Len(buffer)] : LaidOut(x))'
  BY <1>2, <1>7, <1>14
<1> QED
  BY <1>2, <1>13, <1>15, <1>16 DEF StreamInv

LEMMA StreamStepInv == StreamInv /\ [StreamNext]_stream => StreamInv'
<1> SUFFICES ASSUME StreamInv, [StreamNext]_stream PROVE StreamInv'
  OBVIOUS
<1>1. ASSUME NEW kind \in Kinds, NEW v \in PutValues(kind), PutItem(kind, v) PROVE StreamInv'
  BY <1>1, PutItemInv
<1>2. CASE GetItem
  BY <1>2, GetItemInv
<1>3. CASE UNCHANGED stream
  BY <1>3 DEF stream, StreamInv, StreamTypeOK, LaidOut, Written
<1> QED
  BY <1>1, <1>2, <1>3 DEF StreamNext

LEMMA StreamAlwaysInv == StreamSpec => []StreamInv
BY StreamInitInv, StreamStepInv, PTL DEF StreamSpec

\* The buffer of a stream holds bytes, and the get functions return values of their types
\* (binary_stream.c).
THEOREM StreamTypeCorrect == StreamSpec => []StreamTypeOK
<1>1. StreamInv => StreamTypeOK
  BY DEF StreamInv
<1> QED
  BY <1>1, StreamAlwaysInv, PTL

\* Whatever is put into a stream, in any order of kinds, each get function returns what its put
\* function was given, the reader never leaves the buffer and ends at its end: for every size of
\* a byte, every value of the types and every length (binary_stream.c).
THEOREM NumbersComeBack == StreamSpec => []NumbersReadBack
<1>1. StreamInv => NumbersReadBack
  <2> SUFFICES ASSUME StreamInv PROVE NumbersReadBack
    OBVIOUS
  <2>1. PICK ends \in [0 .. Len(put) -> 0 .. Len(buffer)] : LaidOut(ends)
    BY DEF StreamInv
  <2>2. Len(got) \in 0 .. Len(put) /\ offset = ends[Len(got)] /\ ends[Len(put)] = Len(buffer)
    BY <2>1 DEF StreamInv, StreamTypeOK, LaidOut
  <2>3. offset \in 0 .. Len(buffer)
    BY <2>1, <2>2
  <2> QED
    BY <2>2, <2>3 DEF NumbersReadBack, StreamInv
<1> QED
  BY <1>1, StreamAlwaysInv, PTL
-------------------------------------------------------------------------------
(***************************************************************************)
(* Base64.  A text spells bytes in a table when its characters are the     *)
(* table's symbols of their digits, and padding behind them or none.  The  *)
(* encoders write such texts, what happens on the way leaves them such or  *)
(* puts one line feed in, and each decoder, given one it is for, makes the *)
(* bytes of the digits.                                                    *)
(***************************************************************************)
Octet == 0 .. 255
Digit64 == 0 .. 63
Tables == {BASE64_TABLE, BASE64_URL_TABLE}

LEMMA TableValues ==
  \A d \in Digit64 :
    /\ BASE64_TABLE[d] \in Nat \ {Pad, LineFeed, 45, 95}
    /\ BASE64_URL_TABLE[d] \in Nat \ {Pad, LineFeed, 43, 47}
    /\ BASE64_URL_TABLE[d] = IF d = 62 THEN 45 ELSE IF d = 63 THEN 95 ELSE BASE64_TABLE[d]
    /\ BASE64_TABLE[d] = 43 <=> d = 62
    /\ BASE64_TABLE[d] = 47 <=> d = 63
BY DEF Digit64, BASE64_TABLE, BASE64_URL_TABLE, Pad, LineFeed

LEMMA TableIsOneToOne ==
  \A table \in Tables : \A d, e \in Digit64 : table[d] = table[e] => d = e
<1>1. \A d, e \in Digit64 : BASE64_TABLE[d] = BASE64_TABLE[e] => d = e
  BY DEF Digit64, BASE64_TABLE
<1>2. \A d, e \in Digit64 : BASE64_URL_TABLE[d] = BASE64_URL_TABLE[e] => d = e
  BY <1>1, TableValues
<1> QED
  BY <1>1, <1>2 DEF Tables

LEMMA DigitOfSymbol ==
  ASSUME NEW table \in Tables, NEW d \in Digit64
  PROVE  /\ Digit(table, table[d]) = d /\ table[d] \in Known(table)
         /\ table[d] \in Nat /\ table[d] # Pad /\ table[d] # LineFeed
<1>1. table[d] \in Nat /\ table[d] # Pad /\ table[d] # LineFeed
  BY TableValues DEF Tables
<1>2. \E x \in 0 .. 63 : table[x] = table[d]
  BY DEF Digit64
<1> DEFINE g == CHOOSE x \in 0 .. 63 : table[x] = table[d]
<1>3. g \in Digit64 /\ table[g] = table[d]
  BY <1>2 DEF Digit64
<1>4. Digit(table, table[d]) = g
  BY <1>1, <1>2 DEF Digit
<1> HIDE DEF g
<1>5. g = d
  BY <1>3, TableIsOneToOne
<1> QED
  BY <1>1, <1>4, <1>5 DEF Known, Digit64

\* Three bytes from the digits that were made of them.
LEMMA ThreeBytesBack ==
  ASSUME NEW a \in Octet, NEW b \in Octet, NEW c \in Octet
  PROVE  /\ ByteOf(a \div 4, (a % 4) * 16 + (b \div 16), 0) = a
         /\ ByteOf((a % 4) * 16 + (b \div 16), (b % 16) * 4 + (c \div 64), 1) = b
         /\ ByteOf((b % 16) * 4 + (c \div 64), c % 64, 2) = c
<1>1. ByteOf(a \div 4, (a % 4) * 16 + (b \div 16), 0) = a
  <2>1. ((a % 4) * 16 + (b \div 16)) \div 16 = a % 4
    BY DEF Octet
  <2>2. a % 4 < 4 /\ 4 * (a \div 4) + (a % 4) = a /\ a % 256 = a
    BY DEF Octet
  <2> QED
    BY <2>1, <2>2 DEF ByteOf, Joined
<1>2. ByteOf((a % 4) * 16 + (b \div 16), (b % 16) * 4 + (c \div 64), 1) = b
  <2>1. ((b % 16) * 4 + (c \div 64)) \div 4 = b % 16
    BY DEF Octet
  <2>2. b % 16 < 16 /\ (16 * ((a % 4) * 16 + (b \div 16)) + (b % 16)) % 256 = b
    BY DEF Octet
  <2> QED
    BY <2>1, <2>2 DEF ByteOf, Joined
<1>3. ByteOf((b % 16) * 4 + (c \div 64), c % 64, 2) = c
  <2>1. c % 64 < 64 /\ (64 * ((b % 16) * 4 + (c \div 64)) + (c % 64)) % 256 = c
    BY DEF Octet
  <2> QED
    BY <2>1 DEF ByteOf, Joined
<1> QED
  BY <1>1, <1>2, <1>3

LEMMA ByteAtType == ASSUME NEW bytes \in Seq(Octet) PROVE \A i \in Nat : ByteAt(bytes, i) \in Octet
<1> TAKE i \in Nat
<1>1. CASE i < Len(bytes)
  <2>1. i + 1 \in 1 .. Len(bytes)
    BY <1>1
  <2>2. bytes[i + 1] \in Octet
    BY <2>1
  <2> QED
    BY <1>1, <2>2 DEF ByteAt
<1>2. CASE ~(i < Len(bytes))
  BY <1>2 DEF ByteAt, Octet
<1> QED
  BY <1>1, <1>2

LEMMA DigitAtType == ASSUME NEW bytes \in Seq(Octet) PROVE \A p \in Nat : DigitAt(bytes, p) \in Digit64
<1> TAKE p \in Nat
<1> DEFINE i == 3 * (p \div 4)
           a == ByteAt(bytes, i)
           b == ByteAt(bytes, i + 1)
           c == ByteAt(bytes, i + 2)
<1>1. i \in Nat /\ i + 1 \in Nat /\ i + 2 \in Nat
  BY SMT
<1>2. a \in Octet /\ b \in Octet /\ c \in Octet
  BY <1>1, ByteAtType
<1>3. DigitAt(bytes, p) = CASE p % 4 = 0 -> a \div 4
                            [] p % 4 = 1 -> (a % 4) * 16 + (b \div 16)
                            [] p % 4 = 2 -> (b % 16) * 4 + (c \div 64)
                            [] p % 4 = 3 -> c % 64
  BY DEF DigitAt
<1> HIDE DEF i, a, b, c
<1>4. p % 4 \in {0, 1, 2, 3}
  BY SMT
<1>5. /\ a \div 4 \in Digit64 /\ (a % 4) * 16 + (b \div 16) \in Digit64
      /\ (b % 16) * 4 + (c \div 64) \in Digit64 /\ c % 64 \in Digit64
  BY <1>2 DEF Octet, Digit64
<1> QED
  BY <1>3, <1>4, <1>5

LEMMA PlaceType ==
  ASSUME NEW n \in Nat, NEW q \in 0 .. n - 1
  PROVE  PlaceOf(q) \in Nat /\ PlaceOf(q) + 1 < DigitsOf(n)
<1>1. PICK g \in Nat : q = 3 * g \/ q = 3 * g + 1 \/ q = 3 * g + 2
  <2>1. q \div 3 \in Nat /\ (q = 3 * (q \div 3) \/ q = 3 * (q \div 3) + 1 \/ q = 3 * (q \div 3) + 2)
    BY SMT
  <2> QED
    BY <2>1
<1> QED
  BY <1>1, SMT DEF PlaceOf, DigitsOf

\* The byte at offset q from the two digits that hold it.
LEMMA ByteIsBack ==
  ASSUME NEW bytes \in Seq(Octet), NEW q \in 0 .. Len(bytes) - 1
  PROVE  ByteOf(DigitAt(bytes, PlaceOf(q)), DigitAt(bytes, PlaceOf(q) + 1), q % 3) = bytes[q + 1]
<1> DEFINE g == q \div 3
           p == PlaceOf(q)
           i == 3 * g
           a == ByteAt(bytes, i)
           b == ByteAt(bytes, i + 1)
           c == ByteAt(bytes, i + 2)
<1>1. g \in Nat /\ i \in Nat /\ i + 1 \in Nat /\ i + 2 \in Nat
  BY SMT
<1>2. a \in Octet /\ b \in Octet /\ c \in Octet
  BY <1>1, ByteAtType
<1>3. \/ q % 3 = 0 /\ q = i /\ p = 4 * g
      \/ q % 3 = 1 /\ q = i + 1 /\ p = 4 * g + 1
      \/ q % 3 = 2 /\ q = i + 2 /\ p = 4 * g + 2
  BY SMT DEF PlaceOf
<1>4. ByteAt(bytes, q) = bytes[q + 1]
  BY DEF ByteAt
<1> HIDE DEF g
<1>5. /\ DigitAt(bytes, 4 * g) = a \div 4
      /\ DigitAt(bytes, 4 * g + 1) = (a % 4) * 16 + (b \div 16)
      /\ DigitAt(bytes, 4 * g + 2) = (b % 16) * 4 + (c \div 64)
      /\ DigitAt(bytes, 4 * g + 3) = c % 64
  <2>1. \A k \in {0, 1, 2, 3} : (4 * g + k) \div 4 = g /\ (4 * g + k) % 4 = k
    BY <1>1, SMT
  <2>2. /\ (4 * g) \div 4 = g /\ (4 * g) % 4 = 0 /\ (4 * g + 1) \div 4 = g /\ (4 * g + 1) % 4 = 1
        /\ (4 * g + 2) \div 4 = g /\ (4 * g + 2) % 4 = 2 /\ (4 * g + 3) \div 4 = g /\ (4 * g + 3) % 4 = 3
    BY <1>1, SMT
  <2> HIDE DEF a, b, c, i
  <2> QED
    BY <2>2 DEF DigitAt, a, b, c, i
<1> HIDE DEF a, b, c, i, p
<1>6. CASE q % 3 = 0 /\ q = i /\ p = 4 * g
  BY <1>2, <1>4, <1>5, <1>6, ThreeBytesBack DEF a, p
<1>7. CASE q % 3 = 1 /\ q = i + 1 /\ p = 4 * g + 1
  <2>1. p + 1 = 4 * g + 2
    BY <1>1, <1>7
  <2> QED
    BY <1>2, <1>4, <1>5, <1>7, <2>1, ThreeBytesBack DEF b, p
<1>8. CASE q % 3 = 2 /\ q = i + 2 /\ p = 4 * g + 2
  <2>1. p + 1 = 4 * g + 3
    BY <1>1, <1>8
  <2> QED
    BY <1>2, <1>4, <1>5, <1>8, <2>1, ThreeBytesBack DEF c, p
<1> QED
  BY <1>3, <1>6, <1>7, <1>8

\* A text spells bytes in a table: the digits, and padding up to the end of the group or none.
Spells(t, bytes, table) ==
  /\ t \in Seq(Nat)
  /\ Len(t) \in {DigitsOf(Len(bytes)), 4 * GroupsOf(Len(bytes), 3)}
  /\ \A p \in 1 .. DigitsOf(Len(bytes)) : t[p] = table[DigitAt(bytes, p - 1)]
  /\ \A p \in DigitsOf(Len(bytes)) + 1 .. Len(t) : t[p] = Pad

LEMMA Sizes ==
  ASSUME NEW n \in Nat
  PROVE  /\ DigitsOf(n) \in Nat /\ GroupsOf(n, 3) \in Nat
         /\ DigitsOf(n) <= 4 * GroupsOf(n, 3) /\ 4 * GroupsOf(n, 3) <= DigitsOf(n) + 2
         /\ n > 0 => DigitsOf(n) > 4 * GroupsOf(n, 3) - 3
         /\ (4 * GroupsOf(n, 3) - DigitsOf(n)) = 3 * GroupsOf(n, 3) - n
<1>1. PICK g \in Nat : n = 3 * g \/ n = 3 * g + 1 \/ n = 3 * g + 2
  <2>1. n \div 3 \in Nat /\ (n = 3 * (n \div 3) \/ n = 3 * (n \div 3) + 1 \/ n = 3 * (n \div 3) + 2)
    BY SMT
  <2> QED
    BY <2>1
<1>2. CASE n = 3 * g
  BY <1>2, SMT DEF DigitsOf, GroupsOf
<1>3. CASE n = 3 * g + 1
  BY <1>3, SMT DEF DigitsOf, GroupsOf
<1>4. CASE n = 3 * g + 2
  BY <1>4, SMT DEF DigitsOf, GroupsOf
<1> QED
  BY <1>1, <1>2, <1>3, <1>4

LEMMA DigitsBelow ==
  ASSUME NEW bytes \in Seq(Octet), NEW table \in Tables
  PROVE  \A p \in 1 .. DigitsOf(Len(bytes)) : table[DigitAt(bytes, p - 1)] \in Nat
<1> TAKE p \in 1 .. DigitsOf(Len(bytes))
<1>1. p - 1 \in Nat
  BY Sizes
<1>2. DigitAt(bytes, p - 1) \in Digit64
  BY <1>1, DigitAtType
<1> QED
  BY <1>2, DigitOfSymbol

LEMMA CharsSpell ==
  ASSUME NEW bytes \in Seq(Octet)
  PROVE  /\ Spells(char_base64_encode(bytes), bytes, BASE64_TABLE)
         /\ Spells(char_base64_url_encode(bytes), bytes, BASE64_URL_TABLE)
         /\ Len(char_base64_encode(bytes)) = 4 * GroupsOf(Len(bytes), 3)
         /\ Len(char_base64_url_encode(bytes)) = DigitsOf(Len(bytes))
<1> DEFINE n == Len(bytes)
           N == DigitsOf(n)
           M == 4 * GroupsOf(n, 3)
           t == char_base64_encode(bytes)
           u == char_base64_url_encode(bytes)
<1>1. N \in Nat /\ M \in Nat /\ N <= M
  <2>1. n \in Nat
    OBVIOUS
  <2> HIDE DEF n
  <2>2. DigitsOf(n) \in Nat /\ GroupsOf(n, 3) \in Nat /\ DigitsOf(n) <= 4 * GroupsOf(n, 3)
    BY <2>1, Sizes, Zenon
  <2> QED
    BY <2>2, SMT
<1>2. /\ t = [p \in 1 .. M |-> IF p <= N THEN BASE64_TABLE[DigitAt(bytes, p - 1)] ELSE Pad]
      /\ u = [p \in 1 .. N |-> BASE64_URL_TABLE[DigitAt(bytes, p - 1)]]
  BY DEF char_base64_encode, char_base64_url_encode
<1>3. /\ \A p \in 1 .. N : BASE64_TABLE[DigitAt(bytes, p - 1)] \in Nat
      /\ \A p \in 1 .. N : BASE64_URL_TABLE[DigitAt(bytes, p - 1)] \in Nat
  BY DigitsBelow DEF Tables
<1> HIDE DEF N, M, t, u
<1>4. t \in [1 .. M -> Nat] /\ u \in [1 .. N -> Nat]
  BY <1>1, <1>2, <1>3 DEF Pad
<1>5. t \in Seq(Nat) /\ Len(t) = M /\ u \in Seq(Nat) /\ Len(u) = N
  BY <1>1, <1>4
<1>6. \A p \in 1 .. N : t[p] = BASE64_TABLE[DigitAt(bytes, p - 1)] /\ u[p] = BASE64_URL_TABLE[DigitAt(bytes, p - 1)]
  BY <1>1, <1>2
<1>7. (\A p \in N + 1 .. M : t[p] = Pad) /\ (\A p \in N + 1 .. N : u[p] = Pad)
  BY <1>1, <1>2
<1> QED
  BY <1>5, <1>6, <1>7 DEF Spells, N, M, t, u

\* The four groups of six bits in 24.
LEMMA SixBits ==
  ASSUME NEW a \in Octet, NEW b \in Octet, NEW c \in Octet, NEW x, x = 65536 * a + 256 * b + c
  PROVE  /\ (x \div 262144) % 64 = a \div 4
         /\ (x \div 4096) % 64 = (a % 4) * 16 + (b \div 16)
         /\ (x \div 64) % 64 = (b % 16) * 4 + (c \div 64)
         /\ (x \div 1) % 64 = c % 64
<1>1. PICK d \in 0 .. 63, d1 \in 0 .. 3 : a = 4 * d + d1 /\ a \div 4 = d /\ a % 4 = d1
  <2>1. a \div 4 \in 0 .. 63 /\ a % 4 \in 0 .. 3 /\ a = 4 * (a \div 4) + (a % 4)
    BY SMT DEF Octet
  <2> USE <2>1
  <2> WITNESS a \div 4 \in 0 .. 63, a % 4 \in 0 .. 3
  <2> QED
    BY SMT
<1>2. PICK e \in 0 .. 15, e1 \in 0 .. 15 : b = 16 * e + e1 /\ b \div 16 = e /\ b % 16 = e1
  <2>1. b \div 16 \in 0 .. 15 /\ b % 16 \in 0 .. 15 /\ b = 16 * (b \div 16) + (b % 16)
    BY SMT DEF Octet
  <2> USE <2>1
  <2> WITNESS b \div 16 \in 0 .. 15, b % 16 \in 0 .. 15
  <2> QED
    BY SMT
<1>3. PICK f \in 0 .. 3, f1 \in 0 .. 63 : c = 64 * f + f1 /\ c \div 64 = f /\ c % 64 = f1
  <2>1. c \div 64 \in 0 .. 3 /\ c % 64 \in 0 .. 63 /\ c = 64 * (c \div 64) + (c % 64)
    BY SMT DEF Octet
  <2> USE <2>1
  <2> WITNESS c \div 64 \in 0 .. 3, c % 64 \in 0 .. 63
  <2> QED
    BY SMT
<1>4. x = 262144 * d + 65536 * d1 + 4096 * e + 256 * e1 + 64 * f + f1
  BY <1>1, <1>2, <1>3, SMT
<1>5. x \div 262144 = d /\ d % 64 = d
  BY <1>4, SMT
<1>6. x \div 4096 = 64 * d + (16 * d1 + e) /\ (64 * d + (16 * d1 + e)) % 64 = 16 * d1 + e
  BY <1>4, SMT
<1>7. x \div 64 = 64 * (64 * d + 16 * d1 + e) + (4 * e1 + f) /\ (64 * (64 * d + 16 * d1 + e) + (4 * e1 + f)) % 64 = 4 * e1 + f
  BY <1>4, SMT
<1>8. x \div 1 = 64 * (4096 * d + 1024 * d1 + 64 * e + 4 * e1 + f) + f1 /\ (64 * (4096 * d + 1024 * d1 + 64 * e + 4 * e1 + f) + f1) % 64 = f1
  BY <1>4, SMT
<1>9. d1 * 16 + e = 16 * d1 + e /\ e1 * 4 + f = 4 * e1 + f
  BY SMT
<1>10. (x \div 262144) % 64 = a \div 4
  BY <1>1, <1>5, SMT
<1>11. (x \div 4096) % 64 = (a % 4) * 16 + (b \div 16)
  BY <1>1, <1>2, <1>6, <1>9, SMT
<1>12. (x \div 64) % 64 = (b % 16) * 4 + (c \div 64)
  BY <1>2, <1>3, <1>7, <1>9, SMT
<1>13. (x \div 1) % 64 = c % 64
  BY <1>3, <1>8, SMT
<1> QED
  BY <1>10, <1>11, <1>12, <1>13

\* The two ways to the digits are one.
LEMMA StringsAndBytesAgree ==
  ASSUME NEW bytes \in Seq(Octet)
  PROVE  base64_encode(bytes) = char_base64_encode(bytes)
<1> DEFINE n == Len(bytes)
           M == 4 * GroupsOf(n, 3)
           String(p) ==
             LET i         == 3 * ((p - 1) \div 4)
                 k         == (p - 1) % 4
                 bit_array == 65536 * ByteAt(bytes, i) + 256 * ByteAt(bytes, i + 1) + ByteAt(bytes, i + 2)
                 padding   == (IF i + 1 < n THEN 0 ELSE 1) + (IF i + 2 < n THEN 0 ELSE 1)
             IN IF k <= 3 - padding THEN BASE64_TABLE[(bit_array \div <<262144, 4096, 64, 1>>[k + 1]) % 64] ELSE Pad
           Chars(p) == IF p <= DigitsOf(n) THEN BASE64_TABLE[DigitAt(bytes, p - 1)] ELSE Pad
<1>0. n \in Nat
  OBVIOUS
<1>1. ASSUME NEW p \in 1 .. M PROVE String(p) = Chars(p)
  <2> DEFINE g == (p - 1) \div 4
             i == 3 * g
             k == (p - 1) % 4
             a == ByteAt(bytes, i)
             b == ByteAt(bytes, i + 1)
             c == ByteAt(bytes, i + 2)
             bit_array == 65536 * a + 256 * b + c
             padding == (IF i + 1 < n THEN 0 ELSE 1) + (IF i + 2 < n THEN 0 ELSE 1)
  <2> HIDE DEF n
  <2>0. p - 1 \in Nat /\ n \in Nat
    BY <1>0, Sizes
  <2>1. g \in Nat /\ k \in {0, 1, 2, 3} /\ p - 1 = 4 * g + k /\ i \in Nat /\ i + 1 \in Nat /\ i + 2 \in Nat
    BY <2>0, SMT
  <2>2. a \in Octet /\ b \in Octet /\ c \in Octet
    BY <2>1, ByteAtType
  <2>3. DigitAt(bytes, p - 1) = CASE k = 0 -> a \div 4
                                  [] k = 1 -> (a % 4) * 16 + (b \div 16)
                                  [] k = 2 -> (b % 16) * 4 + (c \div 64)
                                  [] k = 3 -> c % 64
    BY DEF DigitAt
  <2> HIDE DEF a, b, c, k, g
  <2>4. (bit_array \div <<262144, 4096, 64, 1>>[k + 1]) % 64 = DigitAt(bytes, p - 1)
    <3>1. CASE k = 0
      <4>1. (bit_array \div 262144) % 64 = a \div 4
        BY <2>2, SixBits, SMT DEF bit_array
      <4> QED
        BY <2>3, <3>1, <4>1, SMT
    <3>2. CASE k = 1
      <4>1. (bit_array \div 4096) % 64 = (a % 4) * 16 + (b \div 16)
        BY <2>2, SixBits, SMT DEF bit_array
      <4> QED
        BY <2>3, <3>2, <4>1, SMT
    <3>3. CASE k = 2
      <4>1. (bit_array \div 64) % 64 = (b % 16) * 4 + (c \div 64)
        BY <2>2, SixBits, SMT DEF bit_array
      <4> QED
        BY <2>3, <3>3, <4>1, SMT
    <3>4. CASE k = 3
      <4>1. (bit_array \div 1) % 64 = c % 64
        BY <2>2, SixBits, SMT DEF bit_array
      <4> QED
        BY <2>3, <3>4, <4>1, SMT
    <3> QED
      BY <2>1, <3>1, <3>2, <3>3, <3>4, SMT
  <2>5. (k <= 3 - padding) <=> (p <= DigitsOf(n))
    <3>1. g < GroupsOf(n, 3)
      <4>1. 4 * g < 4 * GroupsOf(n, 3) /\ GroupsOf(n, 3) \in Nat
        <5>1. GroupsOf(n, 3) \in Nat
          BY <2>0, Sizes, Zenon
        <5>2. p \in 1 .. 4 * GroupsOf(n, 3)
          OBVIOUS
        <5> QED
          BY <2>1, <5>1, <5>2, SMT
      <4> QED
        BY <2>1, <4>1, SMT
    <3>2. 3 * g < n
      BY <2>0, <2>1, <3>1, SMT DEF GroupsOf
    <3>3. p = 4 * g + k + 1
      BY <2>1
    <3>4. CASE n = 3 * g + 1
      <4>1. DigitsOf(n) = 4 * g + 2 /\ padding = 2
        BY <2>1, <3>4, SMT DEF DigitsOf
      <4> QED
        BY <2>1, <3>3, <4>1
    <3>5. CASE n = 3 * g + 2
      <4>1. DigitsOf(n) = 4 * g + 3 /\ padding = 1
        BY <2>1, <3>5, SMT DEF DigitsOf
      <4> QED
        BY <2>1, <3>3, <4>1
    <3>6. CASE n > 3 * g + 2
      <4>1. DigitsOf(n) >= 4 * g + 4 /\ padding = 0
        BY <2>0, <2>1, <3>6, SMT DEF DigitsOf
      <4>2. DigitsOf(n) \in Nat
        BY <2>0, Sizes
      <4> QED
        BY <2>1, <3>3, <4>1, <4>2
    <3> QED
      BY <2>0, <2>1, <3>2, <3>4, <3>5, <3>6
  <2>6. String(p) = IF k <= 3 - padding THEN BASE64_TABLE[(bit_array \div <<262144, 4096, 64, 1>>[k + 1]) % 64] ELSE Pad
    BY SMT DEF padding, bit_array, a, b, c, k, g
  <2> HIDE DEF padding, bit_array
  <2> QED
    BY <2>4, <2>5, <2>6, SMT
<1>2. base64_encode(bytes) = [p \in 1 .. M |-> String(p)] /\ char_base64_encode(bytes) = [p \in 1 .. M |-> Chars(p)]
  BY SMT DEF base64_encode, char_base64_encode
<1> HIDE DEF String, Chars, M
<1> QED
  BY <1>1, <1>2

\* The first k of a text.
First(s, k) == [i \in 1 .. k |-> s[i]]

LEMMA FirstOf ==
  ASSUME NEW s \in Seq(Nat), NEW k \in 0 .. Len(s)
  PROVE  /\ First(s, k) \in Seq(Nat) /\ Len(First(s, k)) = k
         /\ k = 0 => First(s, k) = <<>>
         /\ k = Len(s) => First(s, k) = s
         /\ k > 0 => First(s, k) = Append(First(s, k - 1), s[k])
<1>1. \A i \in 1 .. Len(s) : s[i] \in Nat
  OBVIOUS
<1>2. ASSUME NEW j \in 0 .. Len(s) PROVE First(s, j) \in Seq(Nat) /\ Len(First(s, j)) = j
  BY <1>1, <1>2 DEF First
<1>3. k = 0 => First(s, k) = <<>>
  BY DEF First
<1>4. k = Len(s) => First(s, k) = s
  BY <1>1 DEF First
<1>5. ASSUME k > 0 PROVE First(s, k) = Append(First(s, k - 1), s[k])
  <2>1. k - 1 \in 0 .. Len(s) /\ k \in 1 .. Len(s) /\ s[k] \in Nat
    BY <1>5
  <2>2. First(s, k - 1) \in Seq(Nat) /\ Len(First(s, k - 1)) = k - 1
    BY <1>2, <2>1
  <2>3. Append(First(s, k - 1), s[k]) \in Seq(Nat) /\ Len(Append(First(s, k - 1), s[k])) = k
    BY <2>1, <2>2
  <2>4. First(s, k) \in Seq(Nat) /\ Len(First(s, k)) = k
    BY <1>2
  <2>5. \A i \in 1 .. k : First(s, k)[i] = Append(First(s, k - 1), s[k])[i]
    <3> TAKE i \in 1 .. k
    <3>1. CASE i = k
      BY <2>1, <2>2, <3>1 DEF First
    <3>2. CASE i # k
      <4>1. i \in 1 .. k - 1
        BY <3>2
      <4>2. Append(First(s, k - 1), s[k])[i] = First(s, k - 1)[i]
        BY <2>1, <2>2, <4>1
      <4> QED
        BY <4>1, <4>2 DEF First
    <3> QED
      BY <3>1, <3>2
  <2> HIDE DEF First
  <2> QED
    BY <2>3, <2>4, <2>5, SeqEqual
<1> QED
  BY <1>2, <1>3, <1>4, <1>5

\* A function that starts empty and takes what is in S step by step ends with what is kept.
LEMMA KeptIs ==
  ASSUME NEW s \in Seq(Nat), NEW S, NEW h, h = [k \in 0 .. Len(s) |-> h[k]], h[0] = <<>>,
         \A k \in 1 .. Len(s) : h[k] = IF s[k] \in S THEN Append(h[k - 1], s[k]) ELSE h[k - 1]
  PROVE  Kept(s, S) = h[Len(s)]
<1> DEFINE n == Len(s)
           body(f) == [k \in 0 .. n |-> IF k = 0 THEN <<>> ELSE IF s[k] \in S THEN Append(f[k - 1], s[k]) ELSE f[k - 1]]
           kept == CHOOSE f : f = body(f)
<1>0. n \in Nat
  OBVIOUS
<1>1. h = body(h)
  <2>1. \A k \in 0 .. n : h[k] = IF k = 0 THEN <<>> ELSE IF s[k] \in S THEN Append(h[k - 1], s[k]) ELSE h[k - 1]
    <3> TAKE k \in 0 .. n
    <3>1. k # 0 => k \in 1 .. n
      BY <1>0
    <3> QED
      BY <3>1
  <2>2. h = [k \in 0 .. n |-> h[k]]
    OBVIOUS
  <2>3. [k \in 0 .. n |-> h[k]] = body(h)
    BY <2>1
  <2> QED
    BY <2>2, <2>3
<1>2. kept = body(kept)
  <2> HIDE DEF body
  <2> QED
    BY <1>1
<1>3. Kept(s, S) = kept[n]
  BY DEF Kept
<1> HIDE DEF kept, n
<1> DEFINE T == {k \in 0 .. n : kept[k] = h[k]}
<1>4. 0 \in T
  BY <1>0, <1>1, <1>2
<1>5. \A k \in 1 .. n : k - 1 \in T => k \in T
  <2> SUFFICES ASSUME NEW k \in 1 .. n, kept[k - 1] = h[k - 1] PROVE kept[k] = h[k] /\ k \in 0 .. n
    BY Zenon
  <2>1. k \in 0 .. n /\ k # 0
    BY <1>0
  <2>2. kept[k] = IF s[k] \in S THEN Append(kept[k - 1], s[k]) ELSE kept[k - 1]
    BY <1>2, <2>1
  <2>3. h[k] = IF s[k] \in S THEN Append(h[k - 1], s[k]) ELSE h[k - 1]
    BY <1>1, <2>1
  <2> QED
    BY <2>1, <2>2, <2>3
<1>6. n \in T
  <2> HIDE DEF T
  <2>1. \A k \in 0 .. n : k \in T
    BY <1>0, <1>4, <1>5, Climbs
  <2> QED
    BY <1>0, <2>1
<1> QED
  BY <1>3, <1>6 DEF n

\* What begins with the kept and goes on with the others.
LEMMA KeptOfPrefix ==
  ASSUME NEW s \in Seq(Nat), NEW S, NEW m \in 0 .. Len(s),
         \A k \in 1 .. m : s[k] \in S, \A k \in m + 1 .. Len(s) : s[k] \notin S
  PROVE  Kept(s, S) = First(s, m)
<1> DEFINE h == [k \in 0 .. Len(s) |-> IF k <= m THEN First(s, k) ELSE First(s, m)]
<1>0. Len(s) \in Nat /\ m \in Nat
  OBVIOUS
<1>1. h[0] = <<>>
  BY <1>0, FirstOf
<1>2. \A k \in 1 .. Len(s) : h[k] = IF s[k] \in S THEN Append(h[k - 1], s[k]) ELSE h[k - 1]
  <2> TAKE k \in 1 .. Len(s)
  <2>1. CASE k <= m
    <3>1. k - 1 \in 0 .. Len(s) /\ k \in 0 .. Len(s) /\ k - 1 <= m /\ s[k] \in S /\ k > 0
      BY <1>0, <2>1
    <3>2. First(s, k) = Append(First(s, k - 1), s[k])
      BY <3>1, FirstOf
    <3> QED
      BY <2>1, <3>1, <3>2
  <2>2. CASE ~(k <= m)
    <3>1. k - 1 \in 0 .. Len(s) /\ k \in 0 .. Len(s) /\ s[k] \notin S
      BY <1>0, <2>2
    <3>2. h[k] = First(s, m) /\ h[k - 1] = First(s, m)
      BY <1>0, <2>2, <3>1, SMTT(60)
    <3> QED
      BY <3>1, <3>2
  <2> QED
    BY <2>1, <2>2
<1>3. h[Len(s)] = First(s, m)
  BY <1>0
<1>4. h = [k \in 0 .. Len(s) |-> h[k]]
  OBVIOUS
<1> HIDE DEF h
<1> QED
  BY <1>1, <1>2, <1>3, <1>4, KeptIs, Zenon

\* A line feed in a text is not kept.
LEMMA KeptOfBroken ==
  ASSUME NEW u \in Seq(Nat), NEW S, NEW n \in 0 .. Len(u), \A k \in 1 .. Len(u) : u[k] \in S, LineFeed \notin S
  PROVE  /\ WithLineFeed(u, n) \in Seq(Nat) /\ Len(WithLineFeed(u, n)) = Len(u) + 1
         /\ Kept(WithLineFeed(u, n), S) = u
<1> DEFINE s == WithLineFeed(u, n)
           L == Len(u)
<1>0. L \in Nat /\ n \in Nat /\ n <= L /\ \A k \in 1 .. L : u[k] \in Nat
  OBVIOUS
<1>1. s = [k \in 1 .. L + 1 |-> IF k <= n THEN u[k] ELSE IF k = n + 1 THEN LineFeed ELSE u[k - 1]]
  BY DEF WithLineFeed
<1>2. \A k \in 1 .. L + 1 : s[k] \in Nat
  <2> TAKE k \in 1 .. L + 1
  <2> HIDE DEF s, L
  <2> QED
    BY <1>0, <1>1 DEF LineFeed
<1>3. s \in Seq(Nat) /\ Len(s) = L + 1
  <2> HIDE DEF s, L
  <2>1. s \in [1 .. L + 1 -> Nat]
    BY <1>1, <1>2
  <2> QED
    BY <1>0, <2>1
<1> DEFINE h == [k \in 0 .. L + 1 |-> IF k <= n THEN First(u, k) ELSE First(u, k - 1)]
<1>4. h[0] = <<>>
  BY <1>0, FirstOf
<1>5. \A k \in 1 .. L + 1 : h[k] = IF s[k] \in S THEN Append(h[k - 1], s[k]) ELSE h[k - 1]
  <2> TAKE k \in 1 .. L + 1
  <2> HIDE DEF s
  <2>0. k - 1 \in 0 .. L + 1 /\ k \in 0 .. L + 1 /\ k > 0
    BY <1>0
  <2>1. CASE k <= n
    <3>1. k \in 0 .. L /\ k \in 1 .. L /\ k - 1 <= n /\ s[k] = u[k] /\ s[k] \in S
      BY <1>0, <1>1, <2>1
    <3>2. First(u, k) = Append(First(u, k - 1), u[k])
      BY <2>0, <3>1, FirstOf
    <3> QED
      BY <2>0, <2>1, <3>1, <3>2
  <2>2. CASE k = n + 1
    <3>1. s[k] = LineFeed /\ k - 1 <= n /\ ~(k <= n)
      BY <1>0, <1>1, <2>2
    <3> QED
      BY <2>0, <3>1
  <2>3. CASE k > n + 1
    <3>1. k - 1 \in 0 .. L /\ k - 1 \in 1 .. L /\ ~(k - 1 <= n) /\ ~(k <= n) /\ k - 1 > 0 /\ s[k] = u[k - 1]
      BY <1>0, <1>1, <2>3
    <3>2. s[k] \in S
      BY <3>1
    <3>3. First(u, k - 1) = Append(First(u, (k - 1) - 1), u[k - 1])
      BY <3>1, FirstOf
    <3>4. h[k] = First(u, k - 1) /\ h[k - 1] = First(u, (k - 1) - 1)
      BY <2>0, <3>1
    <3> QED
      BY <3>1, <3>2, <3>3, <3>4
  <2> QED
    BY <1>0, <2>1, <2>2, <2>3
<1>6. h[L + 1] = u
  <2>1. L \in 0 .. Len(u) /\ First(u, L) = u
    BY <1>0, FirstOf
  <2> QED
    BY <1>0, <2>1
<1>7. h = [k \in 0 .. L + 1 |-> h[k]]
  OBVIOUS
<1>8. Kept(s, S) = h[Len(s)]
  <2> HIDE DEF h, s, L
  <2>1. h = [k \in 0 .. Len(s) |-> h[k]] /\ \A k \in 1 .. Len(s) : h[k] = IF s[k] \in S THEN Append(h[k - 1], s[k]) ELSE h[k - 1]
    BY <1>3, <1>5, <1>7
  <2> QED
    BY <1>3, <1>4, <2>1, KeptIs, Zenon
<1> HIDE DEF h
<1> QED
  BY <1>3, <1>6, <1>8

\* How many groups, digits and padding the bytes need.
LEMMA Shape ==
  ASSUME NEW n \in Nat
  PROVE  \E G \in Nat, d \in 0 .. 2 :
           /\ G = GroupsOf(n, 3) /\ n = 3 * G - d /\ DigitsOf(n) = 4 * G - d
           /\ G = 0 => d = 0
           /\ \A len \in {4 * G, 4 * G - d} : GroupsOf(len, 4) = G
<1>1. PICK g \in Nat : n = 3 * g \/ n = 3 * g + 1 \/ n = 3 * g + 2
  <2>1. n \div 3 \in Nat /\ (n = 3 * (n \div 3) \/ n = 3 * (n \div 3) + 1 \/ n = 3 * (n \div 3) + 2)
    BY SMT
  <2> QED
    BY <2>1
<1>2. CASE n = 3 * g
  <2>1. /\ g \in Nat /\ 0 \in 0 .. 2
        /\ g = GroupsOf(n, 3) /\ n = 3 * g - 0 /\ DigitsOf(n) = 4 * g - 0
        /\ \A len \in {4 * g, 4 * g - 0} : GroupsOf(len, 4) = g
    BY <1>2, SMT DEF GroupsOf, DigitsOf
  <2> QED
    BY <2>1, Zenon
<1>3. CASE n = 3 * g + 1
  <2>1. /\ g + 1 \in Nat /\ 2 \in 0 .. 2 /\ g + 1 # 0
        /\ g + 1 = GroupsOf(n, 3) /\ n = 3 * (g + 1) - 2 /\ DigitsOf(n) = 4 * (g + 1) - 2
        /\ \A len \in {4 * (g + 1), 4 * (g + 1) - 2} : GroupsOf(len, 4) = g + 1
    BY <1>3, SMT DEF GroupsOf, DigitsOf
  <2> QED
    BY <2>1, Zenon
<1>4. CASE n = 3 * g + 2
  <2>1. /\ g + 1 \in Nat /\ 1 \in 0 .. 2 /\ g + 1 # 0
        /\ g + 1 = GroupsOf(n, 3) /\ n = 3 * (g + 1) - 1 /\ DigitsOf(n) = 4 * (g + 1) - 1
        /\ \A len \in {4 * (g + 1), 4 * (g + 1) - 1} : GroupsOf(len, 4) = g + 1
    BY <1>4, SMT DEF GroupsOf, DigitsOf
  <2> QED
    BY <2>1, Zenon
<1> QED
  BY <1>1, <1>2, <1>3, <1>4

\* The characters of a text: digits, then padding.
LEMMA SpelledCharacters ==
  ASSUME NEW bytes \in Seq(Octet), NEW table \in Tables, NEW t, Spells(t, bytes, table)
  PROVE  /\ DigitsOf(Len(bytes)) \in Nat /\ DigitsOf(Len(bytes)) <= Len(t) /\ Len(t) \in Nat
         /\ \A p \in 1 .. DigitsOf(Len(bytes)) :
              /\ DigitAt(bytes, p - 1) \in Digit64
              /\ t[p] = table[DigitAt(bytes, p - 1)]
              /\ Digit(table, t[p]) = DigitAt(bytes, p - 1)
              /\ t[p] \in Known(table) /\ t[p] # Pad /\ t[p] # LineFeed
         /\ \A p \in 1 .. Len(t) : t[p] = Pad <=> p > DigitsOf(Len(bytes))
         /\ \A p \in 1 .. Len(t) : t[p] \in Known(table) /\ t[p] # LineFeed
<1> DEFINE N == DigitsOf(Len(bytes))
<1>1. N \in Nat /\ N <= 4 * GroupsOf(Len(bytes), 3) /\ GroupsOf(Len(bytes), 3) \in Nat
  <2>1. Len(bytes) \in Nat
    OBVIOUS
  <2> QED
    BY <2>1, Sizes, Zenon
<1>2. t \in Seq(Nat) /\ Len(t) \in {N, 4 * GroupsOf(Len(bytes), 3)}
  BY DEF Spells
<1>3. \A p \in 1 .. N : DigitAt(bytes, p - 1) \in Digit64 /\ t[p] = table[DigitAt(bytes, p - 1)]
  <2> TAKE p \in 1 .. N
  <2>1. p - 1 \in Nat
    BY <1>1
  <2> QED
    BY <2>1, DigitAtType, Zenon DEF Spells
<1>4. \A p \in N + 1 .. Len(t) : t[p] = Pad
  BY DEF Spells
<1> HIDE DEF N
<1>5. Len(t) \in Nat /\ N <= Len(t)
  BY <1>1, <1>2
<1>6. \A p \in 1 .. N : /\ DigitAt(bytes, p - 1) \in Digit64
                        /\ t[p] = table[DigitAt(bytes, p - 1)]
                        /\ Digit(table, t[p]) = DigitAt(bytes, p - 1)
                        /\ t[p] \in Known(table) /\ t[p] # Pad /\ t[p] # LineFeed
  BY <1>3, DigitOfSymbol
<1>7. Pad \in Known(table) /\ Pad # LineFeed
  BY DEF Known, Pad, LineFeed
<1>8. \A p \in 1 .. Len(t) : (p \in 1 .. N /\ ~(p > N)) \/ (p \in N + 1 .. Len(t) /\ p > N)
  BY <1>1, <1>5
<1> QED
  BY <1>1, <1>4, <1>5, <1>6, <1>7, <1>8 DEF N

\* A byte from the digits of a text.
LEMMA ByteIsRead ==
  ASSUME NEW bytes \in Seq(Octet), NEW table \in Tables, NEW t, Spells(t, bytes, table),
         NEW q \in 0 .. Len(bytes) - 1
  PROVE  /\ PlaceOf(q) \in Nat /\ PlaceOf(q) + 1 < Len(t)
         /\ Digit(table, t[PlaceOf(q) + 1]) \in Digit64 /\ Digit(table, t[PlaceOf(q) + 1 + 1]) \in Digit64
         /\ ByteOf(Digit(table, t[PlaceOf(q) + 1]), Digit(table, t[PlaceOf(q) + 1 + 1]), q % 3) = bytes[q + 1]
<1> DEFINE p == PlaceOf(q)
           N == DigitsOf(Len(bytes))
<1>1. p \in Nat /\ p + 1 < N
  <2>1. Len(bytes) \in Nat
    OBVIOUS
  <2> QED
    BY <2>1, PlaceType, Zenon
<1>2. N \in Nat /\ N <= Len(t) /\ Len(t) \in Nat
  BY SpelledCharacters
<1>3. ByteOf(DigitAt(bytes, p), DigitAt(bytes, p + 1), q % 3) = bytes[q + 1]
  BY ByteIsBack
<1> HIDE DEF p
<1>4. p + 1 \in 1 .. N /\ (p + 1) - 1 = p /\ p + 1 + 1 \in 1 .. N /\ (p + 1 + 1) - 1 = p + 1
  BY <1>1, <1>2
<1>5. /\ Digit(table, t[p + 1]) = DigitAt(bytes, p) /\ DigitAt(bytes, p) \in Digit64
      /\ Digit(table, t[p + 1 + 1]) = DigitAt(bytes, p + 1) /\ DigitAt(bytes, p + 1) \in Digit64
  BY <1>4, SpelledCharacters
<1> HIDE DEF N
<1> QED
  BY <1>1, <1>2, <1>3, <1>5 DEF p

LEMMA BytesOfText ==
  ASSUME NEW bytes \in Seq(Octet), NEW out, out = [q \in 1 .. Len(bytes) |-> bytes[q]]
  PROVE  out = bytes
OBVIOUS

\* char_base64_decode, whatever was skipped.
LEMMA CharDecodes ==
  ASSUME NEW bytes \in Seq(Octet), NEW t, Spells(Kept(t, Known(BASE64_TABLE)), bytes, BASE64_TABLE),
         Len(Kept(t, Known(BASE64_TABLE))) = 4 * GroupsOf(Len(bytes), 3)
  PROVE  /\ bytes = <<>> => char_base64_decode(t) = Null
         /\ bytes # <<>> => char_base64_decode(t) = Buffer(bytes, GroupsOf(Len(bytes), 3) * 3)
<1> DEFINE u == Kept(t, Known(BASE64_TABLE))
<1>1. PICK G \in Nat, d \in 0 .. 2 : /\ G = GroupsOf(Len(bytes), 3) /\ Len(bytes) = 3 * G - d
                                     /\ DigitsOf(Len(bytes)) = 4 * G - d /\ (G = 0 => d = 0)
  <2>1. Len(bytes) \in Nat
    OBVIOUS
  <2> QED
    BY <2>1, Shape, Zenon
<1>0. /\ Len(bytes) = 3 * G - d /\ DigitsOf(Len(bytes)) = 4 * G - d /\ (G = 0 => d = 0)
      /\ ~(d > 2)
  BY <1>1
<1>2. u \in Seq(Nat) /\ Len(u) = 4 * G
  BY <1>1 DEF Spells
<1>3. CASE bytes = <<>>
  <2>1. Len(bytes) = 0
    BY <1>3
  <2>2. G = 0
    BY <1>0, <2>1
  <2> HIDE DEF u
  <2>3. u = <<>>
    BY <1>2, <2>2
  <2> QED
    BY <1>3, <2>3, Zenon DEF char_base64_decode, u
<1>4. CASE bytes # <<>>
  <2> DEFINE groups == Len(u) \div 4
             Pads(n) == Cardinality({k \in 1 .. 4 : u[4 * (n - 1) + k] = Pad})
             padded == {n \in 1 .. groups : Pads(n) > 0}
             last == IF padded = {} THEN groups ELSE CHOOSE n \in padded : \A p \in padded : n <= p
             At(p) == Digit(BASE64_TABLE, u[p + 1])
             out == [q \in 1 .. 3 * last - Pads(last) |-> ByteOf(At(PlaceOf(q - 1)), At(PlaceOf(q - 1) + 1), (q - 1) % 3)]
  <2>1. char_base64_decode(t) = IF u = <<>> \/ Len(u) % 4 # 0 \/ Pads(last) > 2 THEN Null ELSE Buffer(out, groups * 3)
    BY Zenon DEF char_base64_decode
  <2> HIDE DEF u
  <2>2. groups = G /\ Len(u) % 4 = 0 /\ G > 0
    <3>1. Len(bytes) > 0
      BY <1>4
    <3>2. (4 * G) \div 4 = G /\ (4 * G) % 4 = 0
      BY SMT
    <3> QED
      BY <1>0, <1>2, <3>1, <3>2
  <2>0. Spells(u, bytes, BASE64_TABLE) /\ BASE64_TABLE \in Tables
    BY DEF u, Tables
  <2>9. \A p \in 1 .. Len(u) : u[p] = Pad <=> p > DigitsOf(Len(bytes))
    <3> HIDE DEF groups, Pads, padded, last, At, out
    <3> QED
      BY <2>0, SpelledCharacters
  <2>3. \A n \in 1 .. G : Pads(n) = IF n = G THEN d ELSE 0
    <3> TAKE n \in 1 .. G
    <3>1. \A k \in 1 .. 4 : 4 * (n - 1) + k \in 1 .. Len(u) /\ (u[4 * (n - 1) + k] = Pad <=> 4 * (n - 1) + k > 4 * G - d)
      <4> TAKE k \in 1 .. 4
      <4>1. 4 * (n - 1) + k \in 1 .. Len(u)
        BY <1>2, SMT
      <4>2. u[4 * (n - 1) + k] = Pad <=> 4 * (n - 1) + k > DigitsOf(Len(bytes))
        BY <2>9, <4>1, Zenon
      <4> QED
        BY <1>0, <4>1, <4>2, Zenon
    <3>2. {k \in 1 .. 4 : u[4 * (n - 1) + k] = Pad} = IF n = G THEN 5 - d .. 4 ELSE 1 .. 0
      <4>1. CASE n = G
        <5>1. \A k \in 1 .. 4 : u[4 * (n - 1) + k] = Pad <=> k \in 5 - d .. 4
          <6> TAKE k \in 1 .. 4
          <6>1. (4 * (n - 1) + k > 4 * G - d) <=> k \in 5 - d .. 4
            BY <4>1, SMT
          <6> QED
            BY <3>1, <6>1, Zenon
        <5>2. \A k \in 5 - d .. 4 : k \in 1 .. 4
          OBVIOUS
        <5>3. {k \in 1 .. 4 : u[4 * (n - 1) + k] = Pad} = 5 - d .. 4
          BY <5>1, <5>2, Zenon
        <5> QED
          BY <4>1, <5>3, Zenon
      <4>2. CASE n # G
        <5>1. \A k \in 1 .. 4 : u[4 * (n - 1) + k] # Pad
          <6> TAKE k \in 1 .. 4
          <6>1. ~(4 * (n - 1) + k > 4 * G - d)
            BY <4>2, SMT
          <6> QED
            BY <3>1, <6>1, Zenon
        <5>2. {k \in 1 .. 4 : u[4 * (n - 1) + k] = Pad} = {} /\ 1 .. 0 = {}
          BY <5>1
        <5> QED
          BY <4>2, <5>2, Zenon
      <4> QED
        BY <4>1, <4>2
    <3>3. Cardinality(5 - d .. 4) = d /\ Cardinality(1 .. 0) = 0
      BY FS_Interval
    <3> QED
      BY <3>2, <3>3
  <2> HIDE DEF Pads, groups
  <2>4. G \in 1 .. G
    BY <2>2
  <2>5. last = G /\ Pads(last) = d
    <3>1. CASE d = 0
      <4>1. padded = {}
        BY <2>2, <2>3, <3>1
      <4> QED
        BY <2>2, <2>3, <2>4, <3>1, <4>1
    <3>2. CASE d # 0
      <4>1. padded = {G}
        BY <2>2, <2>3, <2>4, <3>2
      <4>2. (CHOOSE n \in {G} : \A p \in {G} : n <= p) = G
        OBVIOUS
      <4> QED
        BY <2>2, <2>3, <2>4, <4>1, <4>2
    <3> QED
      BY <3>1, <3>2
  <2> HIDE DEF last
  <2>6. out = bytes
    <3>1. \A q \in 1 .. Len(bytes) : ByteOf(At(PlaceOf(q - 1)), At(PlaceOf(q - 1) + 1), (q - 1) % 3) = bytes[q]
      <4> TAKE q \in 1 .. Len(bytes)
      <4>1. q - 1 \in 0 .. Len(bytes) - 1 /\ (q - 1) + 1 = q
        OBVIOUS
      <4> QED
        BY <2>0, <4>1, ByteIsRead
    <3>2. 3 * last - Pads(last) = Len(bytes)
      BY <1>0, <2>5
    <3>3. out = [q \in 1 .. Len(bytes) |-> bytes[q]]
      BY <3>1, <3>2
    <3> HIDE DEF out
    <3> QED
      BY <3>3, BytesOfText
  <2> HIDE DEF out
  <2>7. u # <<>>
    BY <1>2, <2>2
  <2>8. ~(d > 2) /\ groups * 3 = GroupsOf(Len(bytes), 3) * 3
    BY <1>0, <1>1, <2>2
  <2> HIDE DEF out
  <2> QED
    BY <1>4, <2>1, <2>2, <2>5, <2>6, <2>7, <2>8, Zenon
<1> QED
  BY <1>3, <1>4

\* char_base64_url_decode of a text without padding.
LEMMA UrlDecodes ==
  ASSUME NEW bytes \in Seq(Octet), NEW t, Spells(t, bytes, BASE64_URL_TABLE), \A p \in 1 .. Len(t) : t[p] # Pad
  PROVE  /\ bytes = <<>> \/ Len(bytes) % 3 # 0 => char_base64_url_decode(t) = Null
         /\ bytes # <<>> /\ Len(bytes) % 3 = 0 => char_base64_url_decode(t) = Buffer(bytes, Len(bytes))
<1> DEFINE L == Len(bytes)
           N == Len(t)
           count == Cardinality({n \in DOMAIN t : t[n] \in Known(BASE64_URL_TABLE)})
           At(p) == Digit(BASE64_URL_TABLE, t[p + 1])
           out == [q \in 1 .. 3 * (Len(t) \div 4) |-> ByteOf(At(PlaceOf(q - 1)), At(PlaceOf(q - 1) + 1), (q - 1) % 3)]
<1>1. char_base64_url_decode(t) = IF count = 0 \/ count % 4 # 0 THEN Null ELSE Buffer(out, (count \div 4) * 3)
  BY Zenon DEF char_base64_url_decode
<1>2. BASE64_URL_TABLE \in Tables /\ t \in Seq(Nat)
  BY DEF Tables, Spells
<1>3. PICK G \in Nat, d \in 0 .. 2 : L = 3 * G - d /\ DigitsOf(L) = 4 * G - d /\ (G = 0 => d = 0)
  <2>1. L \in Nat
    OBVIOUS
  <2> QED
    BY <2>1, Shape, ZenonT(60)
<1>4. N = 4 * G - d /\ N \in Nat
  <2>1. N \in Nat /\ DigitsOf(L) \in Nat /\ DigitsOf(L) <= N
    BY <1>2, SpelledCharacters
  <2>2. \A p \in 1 .. N : ~(p > DigitsOf(L))
    BY <1>2, SpelledCharacters
  <2> HIDE DEF N, L
  <2>3. N = DigitsOf(L)
    BY <2>1, <2>2
  <2> QED
    BY <1>3, <2>1, <2>3
<1>5. count = N
  <2>1. {n \in DOMAIN t : t[n] \in Known(BASE64_URL_TABLE)} = 1 .. N
    <3>1. DOMAIN t = 1 .. N
      BY <1>2
    <3>2. \A n \in 1 .. N : t[n] \in Known(BASE64_URL_TABLE)
      BY <1>2, SpelledCharacters
    <3> HIDE DEF N
    <3> QED
      BY <3>1, <3>2
  <2> HIDE DEF N
  <2>2. Cardinality(1 .. N) = N
    BY <1>4, FS_Interval
  <2> QED
    BY <2>1, <2>2, Zenon
<1> HIDE DEF count
<1>6. ASSUME bytes # <<>>, L % 3 = 0 PROVE char_base64_url_decode(t) = Buffer(bytes, L)
  <2>1. d = 0 /\ G > 0
    <3>1. L > 0
      BY <1>6
    <3> HIDE DEF L
    <3> QED
      BY <1>3, <1>6, <3>1, SMT
  <2>2. L = 3 * G /\ N = 4 * G
    BY <1>3, <1>4, <2>1
  <2>3. count # 0 /\ count % 4 = 0 /\ (count \div 4) * 3 = L /\ 3 * (N \div 4) = L
    <3> HIDE DEF N, L
    <3>1. (4 * G) % 4 = 0 /\ (4 * G) \div 4 = G /\ 4 * G # 0
      BY <2>1, SMT
    <3> QED
      BY <1>5, <2>2, <3>1
  <2>4. out = bytes
    <3>1. \A q \in 1 .. L : ByteOf(At(PlaceOf(q - 1)), At(PlaceOf(q - 1) + 1), (q - 1) % 3) = bytes[q]
      <4> TAKE q \in 1 .. L
      <4>1. q - 1 \in 0 .. L - 1 /\ (q - 1) + 1 = q
        OBVIOUS
      <4> QED
        BY <1>2, <4>1, ByteIsRead
    <3>2. out = [q \in 1 .. L |-> bytes[q]]
      BY <2>3, <3>1
    <3> HIDE DEF out
    <3> QED
      BY <3>2, BytesOfText
  <2> HIDE DEF out, L
  <2> QED
    BY <1>1, <2>3, <2>4, Zenon
<1>7. ASSUME bytes = <<>> \/ L % 3 # 0 PROVE char_base64_url_decode(t) = Null
  <2>1. CASE bytes = <<>>
    <3>1. L = 0
      BY <2>1
    <3> HIDE DEF L, N
    <3>2. count = 0
      BY <1>3, <1>4, <1>5, <3>1, SMT
    <3> HIDE DEF out
    <3> QED
      BY <1>1, <3>2, Zenon
  <2>2. CASE L % 3 # 0
    <3> HIDE DEF L, N
    <3>1. d # 0
      BY <1>3, <2>2, SMT
    <3>2. count % 4 # 0
      BY <1>4, <1>5, <3>1, SMT
    <3> HIDE DEF out
    <3> QED
      BY <1>1, <3>2, Zenon
  <2> QED
    BY <1>7, <2>1, <2>2
<1> QED
  BY <1>6, <1>7, Zenon DEF L

LEMMA FirstGrows ==
  ASSUME NEW s \in Seq(Nat), NEW k \in 0 .. Len(s), NEW m \in Nat, k + m <= Len(s)
  PROVE  First(s, k) \o [q \in 1 .. m |-> s[k + q]] = First(s, k + m)
<1> DEFINE more == [q \in 1 .. m |-> s[k + q]]
<1>1. k + m \in 0 .. Len(s)
  OBVIOUS
<1>2. First(s, k) \in Seq(Nat) /\ Len(First(s, k)) = k /\ First(s, k + m) \in Seq(Nat) /\ Len(First(s, k + m)) = k + m
  BY <1>1, FirstOf
<1>3. \A q \in 1 .. m : s[k + q] \in Nat
  <2> TAKE q \in 1 .. m
  <2>1. k + q \in 1 .. Len(s)
    OBVIOUS
  <2> QED
    BY <2>1
<1>4. more \in Seq(Nat) /\ Len(more) = m
  <2>1. more \in [1 .. m -> Nat]
    BY <1>3
  <2> HIDE DEF more
  <2> QED
    BY <2>1
<1>5. \A i \in 1 .. k + m : (First(s, k) \o more)[i] = First(s, k + m)[i]
  <2> TAKE i \in 1 .. k + m
  <2>1. CASE i <= k
    <3>1. (First(s, k) \o more)[i] = First(s, k)[i]
      <4> HIDE DEF more
      <4> QED
        BY <1>2, <1>4, <2>1
    <3> QED
      BY <2>1, <3>1 DEF First
  <2>2. CASE i > k
    <3>1. (First(s, k) \o more)[i] = more[i - k]
      <4> HIDE DEF more
      <4>1. i \in 1 .. Len(First(s, k)) + Len(more) /\ ~(i <= Len(First(s, k)))
        BY <1>2, <1>4, <2>2, SMT
      <4>2. (First(s, k) \o more)[i] = more[i - Len(First(s, k))]
        BY <1>2, <1>4, <4>1, ConcatProperties, Zenon
      <4> QED
        BY <1>2, <4>2, Zenon
    <3>2. i - k \in 1 .. m /\ k + (i - k) = i
      BY <2>2
    <3>3. more[i - k] = s[i]
      <4>1. more[i - k] = s[k + (i - k)]
        BY <3>2
      <4> QED
        BY <3>2, <4>1, Zenon
    <3>4. First(s, k + m)[i] = s[i]
      BY DEF First
    <3> QED
      BY <3>1, <3>3, <3>4, Zenon
  <2>3. i <= k \/ i > k
    BY SMT
  <2> QED
    BY <2>1, <2>2, <2>3, Zenon
<1>6. First(s, k) \o more \in Seq(Nat) /\ Len(First(s, k) \o more) = k + m
  <2> HIDE DEF more
  <2>1. First(s, k) \o more \in Seq(Nat) /\ Len(First(s, k) \o more) = Len(First(s, k)) + Len(more)
    BY <1>2, <1>4, ConcatProperties, Zenon
  <2> QED
    BY <1>2, <1>4, <2>1, Zenon
<1> HIDE DEF more
<1>7. First(s, k) \o more = First(s, k + m)
  BY <1>2, <1>5, <1>6, SeqEqual
<1> QED
  BY <1>7 DEF more

\* base64_decode, with the padding or without it.
LEMMA StreamDecodes ==
  ASSUME NEW bytes \in Seq(Octet), NEW t, Spells(t, bytes, BASE64_TABLE)
  PROVE  base64_decode(t) = bytes
<1> DEFINE L == Len(bytes)
           N == DigitsOf(L)
           T == Len(t)
           Char(p) == IF p < T THEN t[p + 1] ELSE Pad
           At(p)   == Digit(BASE64_TABLE, Char(p)) % 128
           Pads(n) == Cardinality({p \in 0 .. 4 * n - 1 : Char(p) = Pad})
           Bytes(n) == [q \in 1 .. 3 - Pads(n) |->
                          ByteOf(At(PlaceOf(3 * (n - 1) + q - 1)), At(PlaceOf(3 * (n - 1) + q - 1) + 1), (3 * (n - 1) + q - 1) % 3)]
           last == GroupsOf(T, 4)
           body(f) == [n \in 0 .. last |->
                         IF n = 0 THEN <<>> ELSE IF T < 4 * n - 2 \/ Pads(n) > 2 THEN f[n - 1] ELSE f[n - 1] \o Bytes(n)]
           out == CHOOSE f : f = body(f)
<1>1. base64_decode(t) = out[last]
  BY Zenon DEF base64_decode
<1>2. BASE64_TABLE \in Tables
  BY DEF Tables
<1>0. L \in Nat
  OBVIOUS
<1>3. PICK G \in Nat, d \in 0 .. 2 : /\ L = 3 * G - d /\ N = 4 * G - d /\ (G = 0 => d = 0)
                                     /\ last = G /\ (T = 4 * G \/ T = 4 * G - d)
  <2>1. L \in Nat
    OBVIOUS
  <2>2. PICK G \in Nat, d \in 0 .. 2 : /\ G = GroupsOf(L, 3) /\ L = 3 * G - d /\ N = 4 * G - d /\ (G = 0 => d = 0)
                                       /\ \A len \in {4 * G, 4 * G - d} : GroupsOf(len, 4) = G
    BY <2>1, Shape, Zenon
  <2>3. T \in {4 * G, 4 * G - d}
    BY <2>2 DEF Spells
  <2> HIDE DEF T, L, N
  <2>4. last = G
    BY <2>2, <2>3, Zenon
  <2> QED
    BY <2>2, <2>3, <2>4, Zenon
<1>4. \A p \in 0 .. 4 * G - 1 : Char(p) = Pad <=> p >= 4 * G - d
  <2> TAKE p \in 0 .. 4 * G - 1
  <2>1. CASE p < T
    <3>1. p + 1 \in 1 .. Len(t)
      BY <1>3, <2>1
    <3>2. t[p + 1] = Pad <=> p + 1 > N
      BY <1>2, <3>1, SpelledCharacters
    <3> HIDE DEF N
    <3>3. p + 1 > N <=> p >= 4 * G - d
      BY <1>3
    <3> QED
      BY <2>1, <3>2, <3>3
  <2>2. CASE ~(p < T)
    <3>1. p >= 4 * G - d /\ Char(p) = Pad
      <4> HIDE DEF T
      <4> QED
        BY <1>3, <2>2
    <3> QED
      BY <3>1
  <2> QED
    BY <2>1, <2>2
<1>5. \A n \in 1 .. G : Pads(n) = IF n = G THEN d ELSE 0
  <2> TAKE n \in 1 .. G
  <2> HIDE DEF Char
  <2>1. CASE n = G
    <3>1. \A p \in 0 .. 4 * n - 1 : Char(p) = Pad <=> p \in 4 * G - d .. 4 * G - 1
      <4> TAKE p \in 0 .. 4 * n - 1
      <4>1. p \in 0 .. 4 * G - 1 /\ (p >= 4 * G - d <=> p \in 4 * G - d .. 4 * G - 1)
        BY <2>1, SMT
      <4> QED
        BY <1>4, <4>1, Zenon
    <3>2. \A p \in 4 * G - d .. 4 * G - 1 : p \in 0 .. 4 * n - 1
      BY <2>1, SMT
    <3>3. {p \in 0 .. 4 * n - 1 : Char(p) = Pad} = 4 * G - d .. 4 * G - 1
      BY <3>1, <3>2, Zenon
    <3>4. Cardinality(4 * G - d .. 4 * G - 1) = d
      <4>1. 4 * G - d \in Int /\ 4 * G - 1 \in Int
        OBVIOUS
      <4> QED
        BY <4>1, FS_Interval
    <3> QED
      BY <2>1, <3>3, <3>4, Zenon
  <2>2. CASE n # G
    <3>1. \A p \in 0 .. 4 * n - 1 : Char(p) # Pad
      <4> TAKE p \in 0 .. 4 * n - 1
      <4>1. p \in 0 .. 4 * G - 1 /\ ~(p >= 4 * G - d)
        BY <2>2, SMT
      <4> QED
        BY <1>4, <4>1, Zenon
    <3>2. {p \in 0 .. 4 * n - 1 : Char(p) = Pad} = {}
      BY <3>1, Zenon
    <3> QED
      BY <2>2, <3>2, FS_EmptySet, Zenon
  <2> QED
    BY <2>1, <2>2
<1>6. \A q \in 0 .. L - 1 : ByteOf(At(PlaceOf(q)), At(PlaceOf(q) + 1), q % 3) = bytes[q + 1]
  <2> TAKE q \in 0 .. L - 1
  <2>1. PlaceOf(q) \in Nat /\ PlaceOf(q) + 1 < T
    BY <1>2, ByteIsRead
  <2> DEFINE p == PlaceOf(q)
  <2>2. T \in Nat
    BY DEF Spells
  <2>3. p < T /\ p + 1 < T
    <3> HIDE DEF p, T
    <3> QED
      BY <2>1, <2>2 DEF p
  <2>4. Char(p) = t[p + 1] /\ Char(p + 1) = t[p + 1 + 1]
    BY <2>3
  <2>5. \A x \in Digit64 : x % 128 = x
    BY SMT DEF Digit64
  <2>6. At(p) = Digit(BASE64_TABLE, t[p + 1]) /\ At(p + 1) = Digit(BASE64_TABLE, t[p + 1 + 1])
    BY <1>2, <2>4, <2>5, ByteIsRead, Zenon
  <2>7. ByteOf(Digit(BASE64_TABLE, t[p + 1]), Digit(BASE64_TABLE, t[p + 1 + 1]), q % 3) = bytes[q + 1]
    BY <1>2, ByteIsRead
  <2> HIDE DEF At
  <2> QED
    BY <2>6, <2>7, Zenon
<1> DEFINE Upto(n) == IF n < G THEN 3 * n ELSE L
           h == [n \in 0 .. G |-> First(bytes, Upto(n))]
<1>7. bytes \in Seq(Nat)
  <2>1. \A i \in 1 .. Len(bytes) : bytes[i] \in Nat
    <3>1. \A i \in 1 .. Len(bytes) : bytes[i] \in Octet
      OBVIOUS
    <3>2. \A x \in Octet : x \in Nat
      BY DEF Octet
    <3> QED
      BY <3>1, <3>2, Zenon
  <2>2. bytes \in [1 .. Len(bytes) -> Nat]
    BY <2>1
  <2> QED
    BY <2>2
<1>8. h = body(h)
  <2>1. \A n \in 0 .. G : h[n] = IF n = 0 THEN <<>> ELSE IF T < 4 * n - 2 \/ Pads(n) > 2 THEN h[n - 1] ELSE h[n - 1] \o Bytes(n)
    <3> TAKE n \in 0 .. G
    <3>1. CASE n = 0
      <4>1. Upto(n) = 0
        <5> HIDE DEF L
        <5> QED
          BY <1>3, <3>1, SMT
      <4>2. First(bytes, 0) = <<>>
        BY DEF First
      <4> QED
        BY <3>1, <4>1, <4>2, Zenon
    <3>2. CASE n # 0
      <4>1. n \in 1 .. G /\ n - 1 \in 0 .. G
        BY <3>2
      <4>2. Pads(n) = IF n = G THEN d ELSE 0
        BY <1>5, <4>1
      <4> DEFINE m == 3 - Pads(n)
      <4> HIDE DEF Pads
      <4>3. ~(T < 4 * n - 2) /\ ~(Pads(n) > 2)
        <5> HIDE DEF T
        <5> QED
          BY <1>3, <4>1, <4>2, SMT
      <4>4. Upto(n - 1) = 3 * (n - 1) /\ Upto(n) = 3 * (n - 1) + m /\ m \in Nat /\ Upto(n) <= L /\ 3 * (n - 1) \in 0 .. L
        <5> HIDE DEF L
        <5> QED
          BY <1>3, <4>1, <4>2, SMT
      <4>5. Bytes(n) = [q \in 1 .. m |-> bytes[3 * (n - 1) + q]]
        <5>1. \A q \in 1 .. m : ByteOf(At(PlaceOf(3 * (n - 1) + q - 1)), At(PlaceOf(3 * (n - 1) + q - 1) + 1), (3 * (n - 1) + q - 1) % 3) = bytes[3 * (n - 1) + q]
          <6> TAKE q \in 1 .. m
          <6>1. 3 * (n - 1) + q - 1 \in 0 .. L - 1 /\ (3 * (n - 1) + q - 1) + 1 = 3 * (n - 1) + q
            <7> HIDE DEF L, m, Upto
            <7> QED
              BY <1>0, <4>1, <4>4, SMT
          <6> HIDE DEF At
          <6> QED
            BY <1>6, <6>1
        <5> HIDE DEF At
        <5> QED
          BY <5>1, Zenon
      <4>6. First(bytes, 3 * (n - 1)) \o [q \in 1 .. m |-> bytes[3 * (n - 1) + q]] = First(bytes, 3 * (n - 1) + m)
        <5> HIDE DEF m
        <5>1. 3 * (n - 1) \in 0 .. Len(bytes) /\ 3 * (n - 1) + m <= Len(bytes)
          BY <4>4
        <5> QED
          BY <1>7, <4>4, <5>1, FirstGrows, Zenon
      <4>7. h[n] = First(bytes, 3 * (n - 1) + m) /\ h[n - 1] = First(bytes, 3 * (n - 1))
        <5> HIDE DEF Upto, m
        <5> QED
          BY <4>1, <4>4
      <4> HIDE DEF h, Bytes, m
      <4> QED
        BY <3>2, <4>3, <4>5, <4>6, <4>7, Zenon
    <3> QED
      BY <3>1, <3>2
  <2>2. h = [n \in 0 .. G |-> h[n]]
    BY Zenon
  <2> HIDE DEF h, Bytes, Pads, T
  <2>3. [n \in 0 .. G |-> h[n]] = body(h)
    <3>1. 0 .. last = 0 .. G
      BY <1>3, Zenon
    <3> HIDE DEF last
    <3> QED
      BY <2>1, <3>1, Zenon
  <2> QED
    BY <2>2, <2>3, Zenon
<1> HIDE DEF h, Bytes, Pads, T, last
<1>9. out = body(out)
  <2> HIDE DEF body
  <2> QED
    BY <1>8, Zenon
<1> HIDE DEF out
<1> DEFINE Same == {n \in 0 .. G : out[n] = h[n]}
<1>10. 0 \in Same
  <2>1. 0 \in 0 .. G /\ 0 .. last = 0 .. G
    BY <1>3
  <2> QED
    BY <1>8, <1>9, <2>1, Zenon
<1>11. \A n \in 1 .. G : n - 1 \in Same => n \in Same
  <2> SUFFICES ASSUME NEW n \in 1 .. G, out[n - 1] = h[n - 1] PROVE n \in 0 .. G /\ out[n] = h[n]
    BY Zenon
  <2>1. n \in 0 .. G /\ n # 0 /\ 0 .. last = 0 .. G
    BY <1>3
  <2>2. out[n] = IF T < 4 * n - 2 \/ Pads(n) > 2 THEN out[n - 1] ELSE out[n - 1] \o Bytes(n)
    BY <1>9, <2>1, Zenon
  <2>3. h[n] = IF T < 4 * n - 2 \/ Pads(n) > 2 THEN h[n - 1] ELSE h[n - 1] \o Bytes(n)
    BY <1>8, <2>1, Zenon
  <2> QED
    BY <2>1, <2>2, <2>3, Zenon
<1>12. G \in Same
  <2> HIDE DEF Same
  <2>1. \A n \in 0 .. G : n \in Same
    BY <1>10, <1>11, Climbs, Zenon
  <2> QED
    BY <2>1, SMT
<1>13. h[G] = First(bytes, L)
  BY DEF h
<1>14. First(bytes, L) = bytes
  BY <1>7, FirstOf
<1> QED
  BY <1>1, <1>3, <1>12, <1>13, <1>14, Zenon

TableOf(e) == IF e \in {"char_base64_url_encode", "base64_url_encode"} THEN BASE64_URL_TABLE ELSE BASE64_TABLE

\* A text of the same length with the same padding, whose digits are those of another table.
LEMMA Respelled ==
  ASSUME NEW bytes \in Seq(Octet), NEW table \in Tables, NEW other \in Tables, NEW t, Spells(t, bytes, table),
         NEW u, u \in Seq(Nat), Len(u) = Len(t),
         \A p \in 1 .. Len(t) : t[p] = Pad => u[p] = Pad,
         \A p \in 1 .. Len(t) : \A d \in Digit64 : t[p] = table[d] => u[p] = other[d]
  PROVE  Spells(u, bytes, other)
<1> DEFINE N == DigitsOf(Len(bytes))
<1>1. N \in Nat /\ N <= Len(t) /\ Len(t) \in Nat
  BY SpelledCharacters
<1>2. \A p \in 1 .. N : u[p] = other[DigitAt(bytes, p - 1)]
  <2> TAKE p \in 1 .. N
  <2>1. DigitAt(bytes, p - 1) \in Digit64 /\ t[p] = table[DigitAt(bytes, p - 1)]
    BY SpelledCharacters
  <2> HIDE DEF N
  <2>2. p \in 1 .. Len(t)
    BY <1>1
  <2> QED
    BY <2>1, <2>2
<1>3. \A p \in N + 1 .. Len(t) : u[p] = Pad
  <2> TAKE p \in N + 1 .. Len(t)
  <2>1. t[p] = Pad
    BY DEF Spells
  <2> HIDE DEF N
  <2>2. p \in 1 .. Len(t)
    BY <1>1
  <2> QED
    BY <2>1, <2>2
<1> QED
  BY <1>2, <1>3 DEF Spells

LEMMA TablesAre == BASE64_TABLE \in Tables /\ BASE64_URL_TABLE \in Tables
BY DEF Tables

LEMMA TranslatedText ==
  ASSUME NEW t \in Seq(Nat), NEW a \in Nat, NEW b \in Nat, NEW c \in Nat, NEW d \in Nat
  PROVE  /\ Translated(t, <<a, b>>, <<c, d>>) \in Seq(Nat) /\ Len(Translated(t, <<a, b>>, <<c, d>>)) = Len(t)
         /\ \A p \in 1 .. Len(t) : Translated(t, <<a, b>>, <<c, d>>)[p] = IF t[p] = a THEN c ELSE IF t[p] = b THEN d ELSE t[p]
<1> DEFINE u == Translated(t, <<a, b>>, <<c, d>>)
<1>1. u = [p \in 1 .. Len(t) |-> IF t[p] = a THEN c ELSE IF t[p] = b THEN d ELSE t[p]]
  BY DEF Translated
<1>2. u \in [1 .. Len(t) -> Nat]
  <2>1. \A p \in 1 .. Len(t) : t[p] \in Nat
    OBVIOUS
  <2> HIDE DEF u
  <2> QED
    BY <1>1, <2>1, SMT
<1> HIDE DEF u
<1>3. u \in Seq(Nat) /\ Len(u) = Len(t)
  BY <1>2
<1> QED
  BY <1>1, <1>3 DEF u

\* base64_url_encode turns the symbols of one table into those of the other.
LEMMA UrlSpells ==
  ASSUME NEW bytes \in Seq(Octet), NEW t, Spells(t, bytes, BASE64_TABLE)
  PROVE  /\ Spells(Translated(t, <<43, 47>>, <<45, 95>>), bytes, BASE64_URL_TABLE)
         /\ Len(Translated(t, <<43, 47>>, <<45, 95>>)) = Len(t)
<1> DEFINE u == Translated(t, <<43, 47>>, <<45, 95>>)
<1>1. t \in Seq(Nat)
  BY DEF Spells
<1>2. /\ u \in Seq(Nat) /\ Len(u) = Len(t)
      /\ \A p \in 1 .. Len(t) : u[p] = IF t[p] = 43 THEN 45 ELSE IF t[p] = 47 THEN 95 ELSE t[p]
  BY <1>1, TranslatedText
<1> HIDE DEF u
<1>3. \A p \in 1 .. Len(t) : t[p] = Pad => u[p] = Pad
  BY <1>2, SMTT(60) DEF Pad
<1>4. \A p \in 1 .. Len(t) : \A d \in Digit64 : t[p] = BASE64_TABLE[d] => u[p] = BASE64_URL_TABLE[d]
  BY <1>2, TableValues, SMTT(60)
<1>5. u \in Seq(Nat) /\ Len(u) = Len(t)
  BY <1>2
<1>6. Spells(u, bytes, BASE64_URL_TABLE)
  BY <1>3, <1>4, <1>5, Respelled, TablesAre, Zenon
<1> QED
  BY <1>5, <1>6 DEF u

\* base64_url_decode turns them back, and leaves those of the other table as they are.
LEMMA TranslatedBackSpells ==
  ASSUME NEW bytes \in Seq(Octet), NEW table \in Tables, NEW t, Spells(t, bytes, table)
  PROVE  Spells(Translated(t, <<45, 95>>, <<43, 47>>), bytes, BASE64_TABLE)
<1> DEFINE u == Translated(t, <<45, 95>>, <<43, 47>>)
<1>1. t \in Seq(Nat)
  BY DEF Spells
<1>2. /\ u \in Seq(Nat) /\ Len(u) = Len(t)
      /\ \A p \in 1 .. Len(t) : u[p] = IF t[p] = 45 THEN 43 ELSE IF t[p] = 95 THEN 47 ELSE t[p]
  BY <1>1, TranslatedText
<1> HIDE DEF u
<1>3. \A p \in 1 .. Len(t) : t[p] = Pad => u[p] = Pad
  BY <1>2 DEF Pad
<1>4. \A p \in 1 .. Len(t) : \A d \in Digit64 : t[p] = table[d] => u[p] = BASE64_TABLE[d]
  <2>1. CASE table = BASE64_TABLE
    BY <1>2, <2>1, TableValues
  <2>2. CASE table = BASE64_URL_TABLE
    <3> TAKE p \in 1 .. Len(t)
    <3> TAKE d \in Digit64
    <3> HAVE t[p] = table[d]
    <3>1. BASE64_TABLE[62] = 43 /\ BASE64_TABLE[63] = 47
      BY DEF BASE64_TABLE
    <3>2. CASE d = 62
      BY <1>2, <2>2, <3>1, <3>2, TableValues
    <3>3. CASE d = 63
      BY <1>2, <2>2, <3>1, <3>3, TableValues
    <3>4. CASE d # 62 /\ d # 63
      BY <1>2, <2>2, <3>4, TableValues
    <3> QED
      BY <3>2, <3>3, <3>4
  <2> QED
    BY <2>1, <2>2 DEF Tables
<1>5. u \in Seq(Nat) /\ Len(u) = Len(t)
  BY <1>2
<1>6. Spells(u, bytes, BASE64_TABLE)
  BY <1>3, <1>4, <1>5, Respelled, TablesAre, Zenon
<1> QED
  BY <1>6 DEF u

\* A text without the symbols in which the tables differ spells its bytes in both.
LEMMA PlainSpells ==
  ASSUME NEW bytes \in Seq(Octet), NEW table \in Tables, NEW other \in Tables, NEW t, Spells(t, bytes, table),
         \A p \in 1 .. Len(t) : t[p] \notin {43, 45, 47, 95}
  PROVE  Spells(t, bytes, other)
<1>1. t \in Seq(Nat)
  BY DEF Spells
<1>2. \A p \in 1 .. Len(t) : \A d \in Digit64 : t[p] = table[d] => t[p] = other[d]
  <2> TAKE p \in 1 .. Len(t)
  <2> TAKE d \in Digit64
  <2> HAVE t[p] = table[d]
  <2>1. d # 62 /\ d # 63
    <3>1. BASE64_TABLE[62] = 43 /\ BASE64_TABLE[63] = 47 /\ BASE64_URL_TABLE[62] = 45 /\ BASE64_URL_TABLE[63] = 95
      BY DEF BASE64_TABLE, BASE64_URL_TABLE
    <3> QED
      BY <3>1 DEF Tables
  <2> QED
    BY <2>1, TableValues DEF Tables
<1> QED
  BY <1>1, <1>2, Respelled, ZenonT(60)

\* Only padding is dropped.
LEMMA UnpaddedSpells ==
  ASSUME NEW bytes \in Seq(Octet), NEW table \in Tables, NEW t, Spells(t, bytes, table)
  PROVE  /\ WithoutPadding(t) = First(t, DigitsOf(Len(bytes)))
         /\ Spells(WithoutPadding(t), bytes, table)
         /\ Len(WithoutPadding(t)) = DigitsOf(Len(bytes))
         /\ Len(t) = DigitsOf(Len(bytes)) => WithoutPadding(t) = t
<1> DEFINE N == DigitsOf(Len(bytes))
<1>1. N \in Nat /\ N <= Len(t) /\ Len(t) \in Nat /\ t \in Seq(Nat)
  BY SpelledCharacters DEF Spells
<1>2. \A p \in 1 .. Len(t) : t[p] = Pad <=> p > N
  BY SpelledCharacters
<1>3. \A p \in 1 .. N : t[p] = table[DigitAt(bytes, p - 1)]
  BY SpelledCharacters
<1> HIDE DEF N
<1>4. N \in 0 .. Len(t)
  BY <1>1
<1>5. \A p \in 1 .. N : t[p] \in Nat \ {Pad}
  <2> TAKE p \in 1 .. N
  <2>1. p \in 1 .. Len(t) /\ ~(p > N)
    BY <1>1
  <2>2. t[p] \in Nat
    BY <1>1, <2>1
  <2> QED
    BY <1>2, <2>1, <2>2
<1>6. \A p \in N + 1 .. Len(t) : t[p] \notin Nat \ {Pad}
  <2> TAKE p \in N + 1 .. Len(t)
  <2>1. p \in 1 .. Len(t) /\ p > N
    BY <1>1
  <2> QED
    BY <1>2, <2>1
<1>7. WithoutPadding(t) = First(t, N)
  <2>1. Kept(t, Nat \ {Pad}) = First(t, N)
    BY <1>1, <1>4, <1>5, <1>6, KeptOfPrefix, Zenon
  <2> QED
    BY <2>1 DEF WithoutPadding
<1>8. First(t, N) \in Seq(Nat) /\ Len(First(t, N)) = N /\ (N = Len(t) => First(t, N) = t)
  BY <1>1, <1>4, FirstOf
<1>9. \A p \in 1 .. N : First(t, N)[p] = table[DigitAt(bytes, p - 1)]
  BY <1>3 DEF First
<1>10. Spells(First(t, N), bytes, table)
  <2>1. \A p \in N + 1 .. N : First(t, N)[p] = Pad
    BY <1>1
  <2> QED
    BY <1>8, <1>9, <2>1 DEF Spells, N
<1> QED
  BY <1>7, <1>8, <1>10 DEF N

\* What each of the encoders writes.
LEMMA EncodedSpells ==
  ASSUME NEW bytes \in Seq(Octet), NEW e \in Encoders
  PROVE  /\ Spells(EncodedBy(e, bytes), bytes, TableOf(e)) /\ TableOf(e) \in Tables
         /\ Len(EncodedBy(e, bytes)) = IF e = "char_base64_url_encode" THEN DigitsOf(Len(bytes)) ELSE 4 * GroupsOf(Len(bytes), 3)
<1>1. CASE e = "char_base64_encode"
  BY <1>1, CharsSpell, TablesAre DEF EncodedBy, TableOf
<1>2. CASE e = "char_base64_url_encode"
  BY <1>2, CharsSpell, TablesAre DEF EncodedBy, TableOf
<1>3. CASE e = "base64_encode"
  BY <1>3, CharsSpell, StringsAndBytesAgree, TablesAre DEF EncodedBy, TableOf
<1>4. CASE e = "base64_url_encode"
  <2>1. base64_url_encode(bytes) = Translated(char_base64_encode(bytes), <<43, 47>>, <<45, 95>>)
    BY StringsAndBytesAgree DEF base64_url_encode
  <2>2. /\ Spells(Translated(char_base64_encode(bytes), <<43, 47>>, <<45, 95>>), bytes, BASE64_URL_TABLE)
        /\ Len(Translated(char_base64_encode(bytes), <<43, 47>>, <<45, 95>>)) = Len(char_base64_encode(bytes))
    BY CharsSpell, UrlSpells, Zenon
  <2> QED
    BY <1>4, <2>1, <2>2, CharsSpell, TablesAre DEF EncodedBy, TableOf
<1> QED
  BY <1>1, <1>2, <1>3, <1>4 DEF Encoders

\* The text is what the way has made of what the encoder has written, and decoded is what the
\* decoder makes of it.
TextWritten == EncodedBy(encoder, original)

TextInv ==
  /\ original \in Seq(Octet)
  /\ encoder \in Encoders \cup {"none"} /\ decoder \in Decoders \cup {"none"}
  /\ encoder = "none" => way = "direct" /\ decoder = "none"
  /\ encoder # "none" =>
       \/ way = "direct" /\ text = TextWritten
       \/ way = "unpadded" /\ text = WithoutPadding(TextWritten)
       \/ way = "broken" /\ \E n \in 0 .. Len(TextWritten) : text = WithLineFeed(TextWritten, n)
  /\ decoder # "none" => decoded = DecodedBy(decoder, text)

LEMMA TextInitInv == TextInit => TextInv
<1> SUFFICES ASSUME TextInit PROVE TextInv
  OBVIOUS
<1>1. original \in Seq(Octet)
  BY InputsAreBytes DEF TextInit, Octet
<1> QED
  BY <1>1 DEF TextInit, TextInv

LEMMA TextStepInv == TextInv /\ [TextNext]_letter => TextInv'
<1> SUFFICES ASSUME TextInv, [TextNext]_letter PROVE TextInv'
  OBVIOUS
<1>1. ASSUME NEW e \in Encoders, WriteText(e) PROVE TextInv'
  <2>1. encoder' = e /\ e # "none" /\ original' = original /\ way' = "direct" /\ decoder' = "none"
    BY <1>1 DEF WriteText, TextInv, Encoders
  <2>2. TextWritten' = EncodedBy(e, original)
    BY <2>1 DEF TextWritten
  <2>3. text' = TextWritten'
    BY <1>1, <2>2 DEF WriteText
  <2> QED
    BY <2>1, <2>3 DEF TextInv
<1>2. CASE DropPadding
  <2>1. /\ encoder' = encoder /\ encoder # "none" /\ original' = original /\ decoder' = "none" /\ way = "direct"
        /\ way' = "unpadded" /\ text' = WithoutPadding(text)
    BY <1>2 DEF DropPadding, OnTheWay
  <2>2. TextWritten' = TextWritten /\ text = TextWritten
    BY <2>1 DEF TextWritten, TextInv
  <2> QED
    BY <2>1, <2>2 DEF TextInv
<1>3. CASE BreakLine
  <2>1. /\ encoder' = encoder /\ encoder # "none" /\ original' = original /\ decoder' = "none" /\ way = "direct"
        /\ way' = "broken" /\ \E n \in 0 .. Len(text) : text' = WithLineFeed(text, n)
    BY <1>3 DEF BreakLine, OnTheWay
  <2>2. TextWritten' = TextWritten /\ text = TextWritten
    BY <2>1 DEF TextWritten, TextInv
  <2> QED
    BY <2>1, <2>2 DEF TextInv
<1>4. ASSUME NEW d \in Decoders, ReadText(d) PROVE TextInv'
  <2>1. /\ encoder' = encoder /\ encoder # "none" /\ original' = original /\ way' = way /\ text' = text
        /\ decoder' = d /\ decoded' = DecodedBy(d, text)
    BY <1>4 DEF ReadText
  <2>2. TextWritten' = TextWritten
    BY <2>1 DEF TextWritten
  <2>3. decoded' = DecodedBy(decoder', text')
    BY <2>1
  <2> QED
    BY <2>1, <2>2, <2>3 DEF TextInv
<1>5. CASE UNCHANGED letter
  <2>1. /\ encoder' = encoder /\ original' = original /\ way' = way /\ text' = text
        /\ decoder' = decoder /\ decoded' = decoded
    BY <1>5 DEF letter
  <2>2. TextWritten' = TextWritten
    BY <2>1 DEF TextWritten
  <2> QED
    BY <2>1, <2>2 DEF TextInv
<1> QED
  BY <1>1, <1>2, <1>3, <1>4, <1>5 DEF TextNext

\* Two texts of one length that spell the same bytes in one table are the same.
LEMMA SpelledOnce ==
  ASSUME NEW bytes \in Seq(Octet), NEW table \in Tables, NEW t, Spells(t, bytes, table),
         NEW u, Spells(u, bytes, table), Len(t) = Len(u)
  PROVE  t = u
<1> DEFINE N == DigitsOf(Len(bytes))
<1>1. N \in Nat /\ N <= Len(t) /\ Len(t) \in Nat /\ t \in Seq(Nat) /\ u \in Seq(Nat)
  BY SpelledCharacters DEF Spells
<1>2. /\ \A p \in 1 .. N : t[p] = table[DigitAt(bytes, p - 1)] /\ u[p] = table[DigitAt(bytes, p - 1)]
      /\ \A p \in N + 1 .. Len(t) : t[p] = Pad /\ u[p] = Pad
  BY DEF Spells
<1> HIDE DEF N
<1>3. \A p \in 1 .. Len(t) : t[p] = u[p]
  <2> TAKE p \in 1 .. Len(t)
  <2>1. p \in 1 .. N \/ p \in N + 1 .. Len(t)
    BY <1>1
  <2> QED
    BY <1>2, <2>1
<1> QED
  BY <1>1, <1>3, SeqEqual

\* A text that no line feed was put into.
LEMMA WholeText ==
  ASSUME TextInv, encoder # "none", way # "broken"
  PROVE  /\ Spells(text, original, TableOf(encoder)) /\ TableOf(encoder) \in Tables
         /\ way = "unpadded" => Len(text) = DigitsOf(Len(original))
         /\ way = "direct" => text = TextWritten
<1>1. original \in Seq(Octet) /\ encoder \in Encoders
  BY DEF TextInv
<1>2. Spells(TextWritten, original, TableOf(encoder)) /\ TableOf(encoder) \in Tables
  BY <1>1, EncodedSpells, Zenon DEF TextWritten
<1>3. CASE way = "direct"
  BY <1>2, <1>3 DEF TextInv
<1>4. CASE way = "unpadded"
  <2>1. text = WithoutPadding(TextWritten)
    BY <1>4 DEF TextInv
  <2>2. Spells(WithoutPadding(TextWritten), original, TableOf(encoder)) /\ Len(WithoutPadding(TextWritten)) = DigitsOf(Len(original))
    BY <1>1, <1>2, UnpaddedSpells, Zenon
  <2> QED
    BY <1>2, <1>4, <2>1, <2>2
<1> QED
  BY <1>3, <1>4 DEF TextInv

LEMMA NoLineFeed ==
  ASSUME NEW bytes \in Seq(Octet), NEW table \in Tables, NEW t, Spells(t, bytes, table)
  PROVE  Len(t) \in Nat /\ \A p \in 1 .. Len(t) : t[p] # LineFeed /\ t[p] \in Known(table)
BY SpelledCharacters

LEMMA CountUpTo == \A n \in Nat : Cardinality(1 .. n) = n /\ IsFiniteSet(1 .. n)
BY FS_Interval

\* The line feed does not count among the visible characters, and is not one of a table's.
LEMMA VisibleCount ==
  ASSUME TextInv, encoder # "none"
  PROVE  /\ way # "broken" => Cardinality(Visible) = Len(text)
         /\ way = "broken" => Cardinality(Visible) = Len(TextWritten)
<1>1. original \in Seq(Octet) /\ encoder \in Encoders
  BY DEF TextInv
<1>2. CASE way # "broken"
  <2>1. Spells(text, original, TableOf(encoder)) /\ TableOf(encoder) \in Tables
    BY <1>2, WholeText
  <2>2. Len(text) \in Nat /\ \A p \in 1 .. Len(text) : text[p] # LineFeed
    BY <1>1, <2>1, NoLineFeed, Zenon
  <2>3. DOMAIN text = 1 .. Len(text)
    BY <2>1 DEF Spells
  <2>4. Visible = 1 .. Len(text)
    BY <2>2, <2>3 DEF Visible
  <2>5. Cardinality(1 .. Len(text)) = Len(text)
    BY <2>2, CountUpTo, Zenon
  <2> QED
    BY <1>2, <2>4, <2>5
<1>3. CASE way = "broken"
  <2>1. PICK n \in 0 .. Len(TextWritten) : text = WithLineFeed(TextWritten, n)
    BY <1>3 DEF TextInv
  <2>2. Spells(TextWritten, original, TableOf(encoder)) /\ TableOf(encoder) \in Tables
    BY <1>1, EncodedSpells, Zenon DEF TextWritten
  <2> DEFINE u == TextWritten
             L == Len(TextWritten)
  <2>3. u \in Seq(Nat) /\ L \in Nat /\ \A p \in 1 .. L : u[p] # LineFeed
    <3>1. L \in Nat /\ \A p \in 1 .. L : u[p] # LineFeed
      BY <1>1, <2>2, NoLineFeed, Zenon
    <3> QED
      BY <2>2, <3>1 DEF Spells
  <2>4. text = [k \in 1 .. L + 1 |-> IF k <= n THEN u[k] ELSE IF k = n + 1 THEN LineFeed ELSE u[k - 1]]
    BY <2>1 DEF WithLineFeed
  <2> HIDE DEF u, L
  <2>5. \A k \in 1 .. L + 1 : text[k] = LineFeed <=> k = n + 1
    <3>1. n \in 0 .. L
      BY <2>1 DEF L
    <3> TAKE k \in 1 .. L + 1
    <3>2. CASE k <= n
      <4>1. k \in 1 .. L /\ k # n + 1 /\ text[k] = u[k]
        BY <2>3, <2>4, <3>1, <3>2
      <4> QED
        BY <2>3, <4>1
    <3>3. CASE k = n + 1
      BY <2>3, <2>4, <3>1, <3>3
    <3>4. CASE k > n + 1
      <4>1. k - 1 \in 1 .. L /\ k # n + 1 /\ text[k] = u[k - 1]
        BY <2>3, <2>4, <3>1, <3>4
      <4> QED
        BY <2>3, <4>1
    <3> QED
      BY <2>3, <3>1, <3>2, <3>3, <3>4
  <2>6. Visible = (1 .. L + 1) \ {n + 1}
    BY <2>4, <2>5 DEF Visible
  <2>7. n + 1 \in 1 .. L + 1 /\ IsFiniteSet(1 .. L + 1) /\ Cardinality(1 .. L + 1) = L + 1
    <3>1. n \in 0 .. L
      BY <2>1 DEF L
    <3>2. IsFiniteSet(1 .. L + 1) /\ Cardinality(1 .. L + 1) = L + 1
      BY <2>3, FS_Interval
    <3> QED
      BY <2>3, <3>1, <3>2
  <2>8. Cardinality((1 .. L + 1) \ {n + 1}) = (L + 1) - 1
    BY <2>7, FS_RemoveElement, Zenon
  <2> QED
    BY <1>3, <2>3, <2>6, <2>8 DEF L
<1> QED
  BY <1>2, <1>3

\* A length that is a multiple of four is that of the padded text.
LEMMA FullLength ==
  ASSUME NEW bytes \in Seq(Octet), NEW table, NEW t, Spells(t, bytes, table), Len(t) % 4 = 0
  PROVE  Len(t) = 4 * GroupsOf(Len(bytes), 3)
<1>1. PICK G \in Nat, d \in 0 .. 2 : G = GroupsOf(Len(bytes), 3) /\ DigitsOf(Len(bytes)) = 4 * G - d
  <2>1. Len(bytes) \in Nat
    OBVIOUS
  <2> QED
    BY <2>1, Shape, Zenon
<1>2. Len(t) = 4 * G \/ Len(t) = 4 * G - d
  BY <1>1 DEF Spells
<1>3. DigitsOf(Len(bytes)) = 4 * G - d
  BY <1>1
<1>4. Len(t) = 4 * G
  <2>1. CASE Len(t) = 4 * G - d
    <3>1. (4 * G - d) % 4 = 0
      BY <2>1
    <3>2. d = 0
      BY <3>1, SMT
    <3> QED
      BY <2>1, <3>2
  <2> QED
    BY <1>2, <2>1
<1> QED
  BY <1>1, <1>4

\* Where IsFor lets a decoder read, it makes this of the text.
LEMMA CharReads ==
  ASSUME TextInv, decoder = "char_base64_decode", IsFor(decoder)
  PROVE  decoded = IF original = <<>> THEN Null ELSE Buffer(original, GroupsOf(Len(original), 3) * 3)
<1>1. original \in Seq(Octet) /\ encoder \in Encoders /\ encoder # "none"
  BY DEF TextInv, Encoders
<1>2. decoded = char_base64_decode(text)
  BY DEF TextInv, DecodedBy
<1>3. (~Url \/ Plain) /\ Cardinality(Visible) % 4 = 0
  BY DEF IsFor
<1>4. ~Url => TableOf(encoder) = BASE64_TABLE
  BY DEF Url, TableOf
<1> DEFINE taken == Kept(text, Known(BASE64_TABLE))
<1>5. Spells(taken, original, BASE64_TABLE) /\ Len(taken) = 4 * GroupsOf(Len(original), 3)
  <2>1. CASE way # "broken"
    <3>1. Spells(text, original, TableOf(encoder)) /\ TableOf(encoder) \in Tables /\ Cardinality(Visible) = Len(text)
      BY <1>1, <2>1, WholeText, VisibleCount
    <3>2. Spells(text, original, BASE64_TABLE)
      <4>1. CASE ~Url
        BY <1>4, <3>1, <4>1
      <4>2. CASE Plain
        <5>1. \A p \in 1 .. Len(text) : text[p] \notin {43, 45, 47, 95}
          BY <3>1, <4>2 DEF Plain, Spells
        <5> QED
          BY <1>1, <3>1, <5>1, PlainSpells, TablesAre
      <4> QED
        BY <1>3, <4>1, <4>2
    <3>3. Len(text) = 4 * GroupsOf(Len(original), 3)
      BY <1>1, <1>3, <3>1, <3>2, FullLength
    <3>4. text \in Seq(Nat) /\ Len(text) \in Nat /\ \A p \in 1 .. Len(text) : text[p] \in Known(BASE64_TABLE)
      BY <1>1, <3>2, TablesAre, NoLineFeed DEF Spells
    <3>5. Len(text) \in 0 .. Len(text) /\ \A p \in Len(text) + 1 .. Len(text) : text[p] \notin Known(BASE64_TABLE)
      BY <3>4
    <3>6. taken = First(text, Len(text))
      BY <3>4, <3>5, KeptOfPrefix, Zenon
    <3>7. First(text, Len(text)) = text
      BY <3>4, <3>5, FirstOf
    <3> QED
      BY <3>2, <3>3, <3>6, <3>7
  <2>2. CASE way = "broken"
    <3>1. PICK n \in 0 .. Len(TextWritten) : text = WithLineFeed(TextWritten, n)
      BY <1>1, <2>2 DEF TextInv
    <3>2. Spells(TextWritten, original, TableOf(encoder)) /\ TableOf(encoder) \in Tables /\ Cardinality(Visible) = Len(TextWritten)
      BY <1>1, <2>2, EncodedSpells, VisibleCount DEF TextWritten
    <3>3. TextWritten \in Seq(Nat) /\ Len(TextWritten) \in Nat
      BY <1>1, <3>2, NoLineFeed DEF Spells
    <3>4. Spells(TextWritten, original, BASE64_TABLE)
      <4>1. CASE ~Url
        BY <1>4, <3>2, <4>1
      <4>2. CASE Plain
        <5> DEFINE u == TextWritten
                   L == Len(TextWritten)
        <5>1. text = [k \in 1 .. L + 1 |-> IF k <= n THEN u[k] ELSE IF k = n + 1 THEN LineFeed ELSE u[k - 1]]
          BY <3>1 DEF WithLineFeed
        <5>2. n \in 0 .. L /\ L \in Nat
          BY <3>3
        <5> HIDE DEF u, L
        <5>3. \A k \in 1 .. L + 1 : text[k] \notin {43, 45, 47, 95}
          BY <4>2, <5>1 DEF Plain
        <5>4. \A p \in 1 .. L : u[p] \notin {43, 45, 47, 95}
          <6> TAKE p \in 1 .. L
          <6>1. CASE p <= n
            <7>1. p \in 1 .. L + 1 /\ text[p] = u[p]
              BY <5>1, <5>2, <6>1
            <7> QED
              BY <5>3, <7>1
          <6>2. CASE p > n
            <7>1. p + 1 \in 1 .. L + 1 /\ text[p + 1] = u[p]
              BY <5>1, <5>2, <6>2
            <7> QED
              BY <5>3, <7>1
          <6> QED
            BY <5>2, <6>1, <6>2
        <5> QED
          BY <1>1, <3>2, <5>4, PlainSpells, TablesAre DEF u, L
      <4> QED
        BY <1>3, <4>1, <4>2
    <3>5. Len(TextWritten) = 4 * GroupsOf(Len(original), 3)
      BY <1>1, <1>3, <3>2, <3>4, FullLength
    <3>6. \A p \in 1 .. Len(TextWritten) : TextWritten[p] \in Known(BASE64_TABLE)
      BY <1>1, <3>4, TablesAre, NoLineFeed
    <3>7. LineFeed \notin Known(BASE64_TABLE)
      <4>1. \A d \in 0 .. 63 : BASE64_TABLE[d] # LineFeed
        BY TableValues DEF Digit64
      <4>2. Pad # LineFeed
        BY DEF Pad, LineFeed
      <4> QED
        BY <4>1, <4>2 DEF Known
    <3>8. taken = TextWritten
      BY <3>1, <3>3, <3>6, <3>7, KeptOfBroken, Zenon
    <3> QED
      BY <3>4, <3>5, <3>8
  <2> QED
    BY <2>1, <2>2
<1> QED
  BY <1>1, <1>2, <1>5, CharDecodes, Zenon

LEMMA UrlReads ==
  ASSUME TextInv, decoder = "char_base64_url_decode", IsFor(decoder)
  PROVE  decoded = IF original = <<>> THEN Null ELSE Buffer(original, Len(original))
<1>1. original \in Seq(Octet) /\ encoder \in Encoders /\ encoder # "none"
  BY DEF TextInv, Encoders
<1>2. decoded = char_base64_url_decode(text)
  BY DEF TextInv, DecodedBy
<1>3. (Url \/ Plain) /\ Unpadded /\ Len(original) % 3 = 0 /\ way # "broken"
  BY DEF IsFor
<1>4. Url => TableOf(encoder) = BASE64_URL_TABLE
  BY DEF Url, TableOf
<1>5. Spells(text, original, TableOf(encoder)) /\ TableOf(encoder) \in Tables
  BY <1>1, <1>3, WholeText
<1>6. DOMAIN text = 1 .. Len(text)
  BY <1>5 DEF Spells
<1>7. Spells(text, original, BASE64_URL_TABLE)
  <2>1. CASE Url
    BY <1>4, <1>5, <2>1
  <2>2. CASE Plain
    <3>1. \A p \in 1 .. Len(text) : text[p] \notin {43, 45, 47, 95}
      BY <1>6, <2>2 DEF Plain
    <3> QED
      BY <1>1, <1>5, <3>1, PlainSpells, TablesAre
  <2> QED
    BY <1>3, <2>1, <2>2
<1>8. \A p \in 1 .. Len(text) : text[p] # Pad
  BY <1>3, <1>6 DEF Unpadded
<1> QED
  BY <1>1, <1>2, <1>3, <1>7, <1>8, UrlDecodes, Zenon

LEMMA StreamReads ==
  ASSUME TextInv, decoder \in {"base64_decode", "base64_url_decode"}, IsFor(decoder)
  PROVE  decoded = Buffer(original, Len(original))
<1>1. original \in Seq(Octet) /\ encoder \in Encoders /\ encoder # "none"
  BY DEF TextInv, Encoders
<1>2. way # "broken"
  BY DEF IsFor
<1>3. Spells(text, original, TableOf(encoder)) /\ TableOf(encoder) \in Tables
  BY <1>1, <1>2, WholeText
<1>4. CASE decoder = "base64_decode"
  <2>1. ~Url \/ Plain
    BY <1>4 DEF IsFor
  <2>2. Spells(text, original, BASE64_TABLE)
    <3>1. CASE ~Url
      BY <1>3, <3>1 DEF Url, TableOf
    <3>2. CASE Plain
      <4>1. \A p \in 1 .. Len(text) : text[p] \notin {43, 45, 47, 95}
        BY <1>3, <3>2 DEF Plain, Spells
      <4> QED
        BY <1>1, <1>3, <4>1, PlainSpells, TablesAre
    <3> QED
      BY <2>1, <3>1, <3>2
  <2>3. base64_decode(text) = original
    BY <1>1, <2>2, StreamDecodes, Zenon
  <2> QED
    BY <1>4, <2>3 DEF TextInv, DecodedBy
<1>5. CASE decoder = "base64_url_decode"
  <2>1. Spells(Translated(text, <<45, 95>>, <<43, 47>>), original, BASE64_TABLE)
    BY <1>1, <1>3, TranslatedBackSpells
  <2>2. base64_decode(Translated(text, <<45, 95>>, <<43, 47>>)) = original
    BY <1>1, <2>1, StreamDecodes
  <2>3. base64_url_decode(text) = original
    BY <2>2 DEF base64_url_decode
  <2> QED
    BY <1>5, <2>3 DEF TextInv, DecodedBy
<1> QED
  BY <1>4, <1>5

\* What a decoder makes of a text it is for: the bytes, in a room they fit in, or nothing of nothing.
LEMMA Reads ==
  ASSUME TextInv, decoder # "none", IsFor(decoder)
  PROVE  \/ original = <<>> /\ decoded = Null
         \/ \E room \in Nat : decoded = Buffer(original, room) /\ Len(original) <= room
<1>1. original \in Seq(Octet) /\ decoder \in Decoders
  BY DEF TextInv
<1>2. Len(original) \in Nat
  BY <1>1
<1>3. CASE decoder = "char_base64_decode"
  <2>1. GroupsOf(Len(original), 3) * 3 \in Nat /\ Len(original) <= GroupsOf(Len(original), 3) * 3
    <3>1. PICK G \in Nat, d \in 0 .. 2 : GroupsOf(Len(original), 3) = G /\ Len(original) = 3 * G - d
      BY <1>2, Shape, Zenon
    <3>2. G * 3 \in Nat /\ 3 * G - d <= G * 3
      BY SMT
    <3> QED
      BY <3>1, <3>2, Zenon
  <2> QED
    BY <1>3, <2>1, CharReads, Zenon
<1>4. CASE decoder = "char_base64_url_decode"
  <2>1. Len(original) <= Len(original)
    BY <1>2
  <2> QED
    BY <1>2, <1>4, <2>1, UrlReads, Zenon
<1>5. CASE decoder \in {"base64_decode", "base64_url_decode"}
  <2>1. Len(original) <= Len(original)
    BY <1>2
  <2> QED
    BY <1>2, <1>5, <2>1, StreamReads, Zenon
<1> QED
  BY <1>1, <1>3, <1>4, <1>5 DEF Decoders

LEMMA BytesAreBack == TextInv => BytesComeBack
<1> SUFFICES ASSUME TextInv, decoder # "none", IsFor(decoder), original # <<>>
             PROVE  decoded.status = "ok" /\ decoded.bytes = original
  BY DEF BytesComeBack
<1>1. PICK room \in Nat : decoded = Buffer(original, room)
  BY Reads
<1> QED
  BY <1>1 DEF Buffer

LEMMA NoOtherLengthIsRead == TextInv => NoOtherLength
<1> SUFFICES ASSUME TextInv, decoder = "char_base64_url_decode", Url, way = "unpadded", decoded.status = "ok"
             PROVE  Len(decoded.bytes) = Len(original)
  BY DEF NoOtherLength
<1>1. original \in Seq(Octet) /\ encoder # "none"
  BY DEF TextInv
<1>2. Spells(text, original, BASE64_URL_TABLE) /\ Len(text) = DigitsOf(Len(original))
  <2>1. way # "broken"
    OBVIOUS
  <2> QED
    BY <1>1, <2>1, WholeText DEF Url, TableOf
<1>3. \A p \in 1 .. Len(text) : text[p] # Pad
  <2>1. /\ DigitsOf(Len(original)) \in Nat
        /\ \A p \in 1 .. Len(text) : text[p] = Pad <=> p > DigitsOf(Len(original))
    BY <1>1, <1>2, TablesAre, SpelledCharacters
  <2> QED
    BY <1>2, <2>1
<1>4. decoded = char_base64_url_decode(text)
  BY DEF TextInv, DecodedBy
<1>5. decoded # Null
  BY DEF Null
<1>6. original # <<>> /\ Len(original) % 3 = 0 /\ decoded = Buffer(original, Len(original))
  BY <1>1, <1>2, <1>3, <1>4, <1>5, UrlDecodes, Zenon
<1> QED
  BY <1>6 DEF Buffer

LEMMA EncodersDoAgree == TextInv => EncodersAgree
<1> SUFFICES ASSUME TextInv, way = "direct" PROVE EncodersAgree
  BY DEF EncodersAgree
<1>1. original \in Seq(Octet)
  BY DEF TextInv
<1>2. ASSUME encoder = "char_base64_encode" PROVE text = base64_encode(original)
  <2>1. text = char_base64_encode(original)
    BY <1>2 DEF TextInv, TextWritten, EncodedBy
  <2> QED
    BY <1>1, <2>1, StringsAndBytesAgree
<1>3. ASSUME encoder = "char_base64_url_encode" PROVE text = WithoutPadding(base64_url_encode(original))
  <2>1. text = char_base64_url_encode(original)
    BY <1>3 DEF TextInv, TextWritten, EncodedBy
  <2>2. Spells(text, original, BASE64_URL_TABLE) /\ Len(text) = DigitsOf(Len(original))
    BY <1>1, <2>1, CharsSpell
  <2> DEFINE u == base64_url_encode(original)
  <2>3. Spells(u, original, BASE64_URL_TABLE)
    <3>1. u = Translated(char_base64_encode(original), <<43, 47>>, <<45, 95>>)
      BY <1>1, StringsAndBytesAgree DEF base64_url_encode
    <3>2. Spells(Translated(char_base64_encode(original), <<43, 47>>, <<45, 95>>), original, BASE64_URL_TABLE)
      BY <1>1, CharsSpell, UrlSpells
    <3> QED
      BY <3>1, <3>2
  <2> HIDE DEF u
  <2>4. Spells(WithoutPadding(u), original, BASE64_URL_TABLE) /\ Len(WithoutPadding(u)) = DigitsOf(Len(original))
    BY <1>1, <2>3, TablesAre, UnpaddedSpells, Zenon
  <2>5. text = WithoutPadding(u)
    BY <1>1, <2>2, <2>4, TablesAre, SpelledOnce, Zenon
  <2> QED
    BY <2>5 DEF u
<1> QED
  BY <1>2, <1>3 DEF EncodersAgree

LEMMA TextFits == TextInv => StaysInRoom
<1> SUFFICES ASSUME TextInv PROVE StaysInRoom
  OBVIOUS
<1>1. original \in Seq(Octet) /\ Len(original) \in Nat
  BY DEF TextInv
<1>2. ASSUME way = "direct", encoder # "none" PROVE Len(text) + 1 <= EncodedRoom(Len(original))
  <2>1. PICK G \in Nat, d \in 0 .. 2 : GroupsOf(Len(original), 3) = G /\ Len(original) = 3 * G - d /\ DigitsOf(Len(original)) = 4 * G - d
    BY <1>1, Shape, Zenon
  <2>2. Spells(text, original, TableOf(encoder))
    BY <1>2, WholeText
  <2>3. Len(text) = 4 * G \/ Len(text) = 4 * G - d
    BY <2>1, <2>2 DEF Spells
  <2>4. ((3 * G - d) * 4) \div 3 >= 4 * G - 3
    BY SMT
  <2>5. EncodedRoom(3 * G - d) >= 4 * G + 2
    <3>1. \A x \in Int : x >= 4 * G - 3 => (x + 4) + ((x + 4) \div 72) + 1 >= 4 * G + 2
      BY SMT
    <3>2. ((3 * G - d) * 4) \div 3 \in Int
      BY SMT
    <3> QED
      BY <2>4, <3>1, <3>2, Zenon DEF EncodedRoom
  <2>6. \A r \in Int : r >= 4 * G + 2 => Len(text) + 1 <= r
    BY <2>3, SMT
  <2>7. EncodedRoom(3 * G - d) \in Int
    BY SMT DEF EncodedRoom
  <2> QED
    BY <2>1, <2>5, <2>6, <2>7, Zenon
<1>3. ASSUME decoder # "none", IsFor(decoder), decoded.status = "ok" PROVE Len(decoded.bytes) <= decoded.room
  <2>1. decoded # Null
    BY <1>3 DEF Null
  <2>2. PICK room \in Nat : decoded = Buffer(original, room) /\ Len(original) <= room
    BY <1>3, <2>1, Reads
  <2> QED
    BY <2>2 DEF Buffer
<1> QED
  BY <1>2, <1>3 DEF StaysInRoom

\* Whatever bytes a program encodes with any of the four encoders, and whatever the way does to
\* the text, the decoders that are for it give the bytes back, of their length and in their room
\* (base64.c).
THEOREM EncodedBytesComeBack == TextSpec => []TextComesBack
<1>1. TextInv => TextComesBack
  BY BytesAreBack, NoOtherLengthIsRead, EncodersDoAgree, TextFits DEF TextComesBack
<1>2. TextSpec => []TextInv
  BY TextInitInv, TextStepInv, PTL DEF TextSpec
<1> QED
  BY <1>1, <1>2, PTL
===============================================================================
