---------------------------- MODULE BudgetProofs ----------------------------
(* Proofs about Budget, for every set of reservations and every ceiling: the  *)
(* queue is exactly the reservations that wait, and is served in strict order. *)
EXTENDS Budget, SumProofs, SequenceTheorems

(* What the inductive invariant says of a queue and of the statuses. *)
Queues(ws, st) ==
  /\ \A r \in Requests :
       st[r] = "waiting" <=> \E k \in 1..Len(ws) : ws[k] = r
  /\ \A j, k \in 1..Len(ws) : ws[j] = ws[k] => j = k

(* The loads of a queue are numbers. *)
LEMMA LoadsTyped ==
  ASSUME NEW ws \in Seq(Requests)
  PROVE  /\ ItemLoad(ws) \in [0..Len(ws) -> Nat]
         /\ ByteLoad(ws) \in [0..Len(ws) -> Nat]
<1>1. ASSUME NEW a \in [1..Len(ws) -> Nat]
      PROVE  PrefixSum(a) \in [0..Len(ws) -> Nat]
  <2>1. a \in Seq(Nat) /\ Len(a) = Len(ws)
    OBVIOUS
  <2> QED
    BY <2>1, PrefixSumTotals
<1>2. /\ [k \in 1..Len(ws) |-> Need[ws[k]].items] \in [1..Len(ws) -> Nat]
      /\ [k \in 1..Len(ws) |-> Need[ws[k]].bytes] \in [1..Len(ws) -> Nat]
  BY BudgetAssumption
<1> QED
  BY <1>1, <1>2 DEF ItemLoad, ByteLoad

(* The loop of grantLocked has a first waiter that does not fit, or none.      *)
LEMMA ServableDefined ==
  ASSUME NEW ws \in Seq(Requests), NEW i, NEW b
  PROVE  /\ Servable(ws, i, b) \in 0..Len(ws)
         /\ IsServable(ws, i, b, Servable(ws, i, b))
         /\ Servable(ws, i, b) < Len(ws)
              => ~IsServable(ws, i, b, Servable(ws, i, b) + 1)
<1> DEFINE Stuck == {j \in 1..Len(ws) :
                       ~Fits(i + ItemLoad(ws)[j], b + ByteLoad(ws)[j])}
           Longest(k) == /\ IsServable(ws, i, b, k)
                         /\ k < Len(ws) => ~IsServable(ws, i, b, k + 1)
<1>1. CASE Stuck = {}
  <2>1. Longest(Len(ws))
    BY <1>1 DEF IsServable
  <2> QED
    BY <2>1 DEF Servable
<1>2. CASE Stuck # {}
  <2>1. PICK n \in Stuck : \A m \in Stuck : n <= m
    <3>1. Stuck \subseteq Nat
      OBVIOUS
    <3> HIDE DEF Stuck
    <3> QED
      BY <1>2, <3>1, Smallest
  <2>2. n \in 1..Len(ws) /\ n \in Nat /\ n - 1 \in 0..Len(ws) /\ (n - 1) + 1 = n
    BY <2>1
  <2>3. \A j \in 1..(n - 1) : j \in 1..Len(ws) /\ ~(n <= j)
    BY <2>2
  <2>4. IsServable(ws, i, b, n - 1)
    BY <2>1, <2>3 DEF IsServable
  <2>5. ~IsServable(ws, i, b, n)
    BY <2>1, <2>2 DEF IsServable
  <2> QED
    BY <2>2, <2>4, <2>5 DEF Servable
<1> QED
  BY <1>1, <1>2
-----------------------------------------------------------------------------
(* The queue and the statuses that grantLocked leaves when it serves the first *)
(* k members of ws.                                                            *)
Left(ws, k) == SubSeq(ws, k + 1, Len(ws))

Granted(ws, k, st) ==
  [r \in Requests |-> IF \E j \in 1..k : ws[j] = r THEN "granted" ELSE st[r]]

LEMMA LeftIsSuffix ==
  ASSUME NEW ws \in Seq(Requests), NEW k \in 0..Len(ws)
  PROVE  /\ Left(ws, k) \in Seq(Requests)
         /\ Len(Left(ws, k)) = Len(ws) - k
         /\ \A j \in 1..Len(Left(ws, k)) : Left(ws, k)[j] = ws[j + k]
<1>1. k \in Nat /\ Len(ws) \in Nat /\ k <= Len(ws)
  OBVIOUS
<1>2. \A j \in (k + 1)..Len(ws) : ws[j] \in Requests
  BY <1>1
<1>3. /\ Left(ws, k) \in Seq(Requests)
      /\ Len(Left(ws, k)) =
           IF k + 1 <= Len(ws) THEN Len(ws) - (k + 1) + 1 ELSE 0
      /\ \A j \in 1..(Len(ws) - (k + 1) + 1) :
           Left(ws, k)[j] = ws[(k + 1) + j - 1]
  BY <1>1, <1>2, SubSeqProperties DEF Left
<1>4. Len(Left(ws, k)) = Len(ws) - k
  <2>1. CASE k + 1 <= Len(ws)
    <3>1. Len(Left(ws, k)) = Len(ws) - (k + 1) + 1
      BY <1>3, <2>1
    <3>2. Len(ws) - (k + 1) + 1 = Len(ws) - k
      BY <1>1
    <3> QED
      BY <3>1, <3>2
  <2>2. CASE ~(k + 1 <= Len(ws))
    <3>1. Len(Left(ws, k)) = 0 /\ Len(ws) - k = 0
      BY <1>1, <1>3, <2>2
    <3> QED
      BY <3>1
  <2> QED
    BY <2>1, <2>2
<1>5. ASSUME NEW j \in 1..Len(Left(ws, k)) PROVE Left(ws, k)[j] = ws[j + k]
  <2>1. j \in 1..(Len(ws) - (k + 1) + 1) /\ (k + 1) + j - 1 = j + k
    BY <1>1, <1>4
  <2> QED
    BY <1>3, <2>1
<1> QED
  BY <1>3, <1>4, <1>5

(* Serving a prefix keeps queue and statuses matched.                          *)
LEMMA ServingKeepsQueues ==
  ASSUME NEW ws \in Seq(Requests), NEW k \in 0..Len(ws),
         NEW st \in [Requests -> Status], Queues(ws, st)
  PROVE  Queues(Left(ws, k), Granted(ws, k, st))
<1> DEFINE left == Left(ws, k)
           now  == Granted(ws, k, st)
<1>1. Len(left) = Len(ws) - k /\ \A j \in 1..Len(left) : left[j] = ws[j + k]
  BY LeftIsSuffix
<1>2. k \in Nat /\ Len(ws) \in Nat /\ Len(left) \in Nat
  BY <1>1
<1>3. \A j \in 1..Len(left) : j + k \in 1..Len(ws)
  BY <1>1, <1>2
<1> HIDE DEF left
<1>4. ASSUME NEW r \in Requests
      PROVE  now[r] = "waiting" <=> \E j \in 1..Len(left) : left[j] = r
  <2>1. ASSUME now[r] = "waiting"
        PROVE  \E j \in 1..Len(left) : left[j] = r
    <3>1. st[r] = "waiting" /\ ~ \E j \in 1..k : ws[j] = r
      BY <2>1 DEF Granted
    <3>2. PICK n \in 1..Len(ws) : ws[n] = r
      BY <3>1 DEF Queues
    <3>3. n \notin 1..k
      BY <3>1, <3>2
    <3>4. n - k \in 1..Len(left) /\ (n - k) + k = n
      BY <1>1, <1>2, <3>3
    <3> QED
      BY <1>1, <3>2, <3>4
  <2>2. ASSUME NEW j \in 1..Len(left), left[j] = r
        PROVE  now[r] = "waiting"
    <3>1. j + k \in 1..Len(ws) /\ ws[j + k] = r
      BY <1>1, <1>3, <2>2
    <3>2. st[r] = "waiting"
      BY <3>1 DEF Queues
    <3>3. \A m \in 1..k : m \in 1..Len(ws) /\ m # j + k
      BY <1>1, <1>2
    <3>4. ~ \E m \in 1..k : ws[m] = r
      BY <3>1, <3>3 DEF Queues
    <3> QED
      BY <3>2, <3>4 DEF Granted
  <2> QED
    BY <2>1, <2>2
<1>5. ASSUME NEW j \in 1..Len(left), NEW n \in 1..Len(left), left[j] = left[n]
      PROVE  j = n
  <2>1. j + k \in 1..Len(ws) /\ n + k \in 1..Len(ws) /\ ws[j + k] = ws[n + k]
    BY <1>1, <1>3, <1>5
  <2>2. j + k = n + k
    BY <2>1 DEF Queues
  <2> QED
    BY <1>2, <2>2
<1> QED
  BY <1>4, <1>5 DEF Queues, left

(* No waiter is served while one before it is left waiting.                   *)
LEMMA ServingIsInOrder ==
  ASSUME NEW ws \in Seq(Requests), NEW k \in 0..Len(ws),
         NEW st \in [Requests -> Status], Queues(ws, st),
         NEW j \in 1..Len(ws), NEW n \in 1..Len(ws), j < n,
         Granted(ws, k, st)[ws[n]] = "granted"
  PROVE  Granted(ws, k, st)[ws[j]] # "waiting"
<1>1. ws[n] \in Requests /\ ws[j] \in Requests /\ st[ws[n]] = "waiting"
  BY DEF Queues
<1>2. PICK m \in 1..k : ws[m] = ws[n]
  BY <1>1 DEF Granted
<1>3. m = n
  <2>1. m \in 1..Len(ws)
    BY <1>2
  <2> QED
    BY <1>2, <2>1 DEF Queues
<1>4. j \in 1..k
  BY <1>3
<1> QED
  BY <1>1, <1>4 DEF Granted
-----------------------------------------------------------------------------
(* grantLocked on a queue that matches its statuses keeps every type and the   *)
(* match, and leaves an empty queue empty.                                    *)
LEMMA GrantLockedKeeps ==
  ASSUME NEW ws \in Seq(Requests), NEW i \in Int, NEW b \in Int,
         NEW st \in [Requests -> Status],
         Queues(ws, st), GrantLocked(ws, i, b, st)
  PROVE  /\ items' \in Int /\ bytes' \in Int
         /\ waiters' \in Seq(Requests)
         /\ status' \in [Requests -> Status]
         /\ Queues(waiters', status')
         /\ ws = <<>> => waiters' = <<>>
<1> DEFINE k == Servable(ws, i, b)
<1>1. k \in 0..Len(ws)
  BY ServableDefined
<1>2. ItemLoad(ws)[k] \in Int /\ ByteLoad(ws)[k] \in Int
  BY <1>1, LoadsTyped
<1>3. items' = i + ItemLoad(ws)[k] /\ bytes' = b + ByteLoad(ws)[k]
  BY DEF GrantLocked
<1>4. waiters' = Left(ws, k) /\ status' = Granted(ws, k, st)
  BY DEF GrantLocked, Left, Granted
<1> HIDE DEF k
<1>5. waiters' \in Seq(Requests) /\ Queues(waiters', status')
  BY <1>1, <1>4, LeftIsSuffix, ServingKeepsQueues
<1>6. status' \in [Requests -> Status]
  BY <1>4 DEF Granted, Status
<1>7. ASSUME ws = <<>> PROVE waiters' = <<>>
  <2>1. Len(ws) = 0
    BY <1>7
  <2>2. k = 0
    BY <1>1, <2>1
  <2>3. SubSeq(ws, k + 1, Len(ws)) = <<>>
    BY <2>1, <2>2, SubSeqEmpty
  <2> QED
    BY <1>4, <2>3 DEF Left
<1> QED
  BY <1>2, <1>3, <1>5, <1>6, <1>7

(* Removing the k-th member moves those after it one place to the front.      *)
LEMMA RemovingAt ==
  ASSUME NEW ws \in Seq(Requests), NEW k \in 1..Len(ws)
  PROVE  /\ RemoveAt(ws, k) \in Seq(Requests)
         /\ Len(RemoveAt(ws, k)) = Len(ws) - 1
         /\ \A j \in 1..Len(RemoveAt(ws, k)) :
              RemoveAt(ws, k)[j] = ws[IF j < k THEN j ELSE j + 1]
<1> DEFINE left == RemoveAt(ws, k)
           At(j) == IF j < k THEN j ELSE j + 1
<1>1. k \in Nat /\ Len(ws) \in Nat /\ 1 <= k /\ k <= Len(ws)
  OBVIOUS
<1>2. /\ \A j \in 1..(k - 1) : ws[j] \in Requests
      /\ \A j \in (k + 1)..Len(ws) : ws[j] \in Requests
  BY <1>1
<1>3. /\ SubSeq(ws, 1, k - 1) \in Seq(Requests)
      /\ Len(SubSeq(ws, 1, k - 1)) = k - 1
      /\ \A j \in 1..(k - 1) : SubSeq(ws, 1, k - 1)[j] = ws[j]
  OBVIOUS
<1>4. /\ SubSeq(ws, k + 1, Len(ws)) \in Seq(Requests)
      /\ Len(SubSeq(ws, k + 1, Len(ws))) = Len(ws) - k
      /\ \A j \in 1..(Len(ws) - k) : SubSeq(ws, k + 1, Len(ws))[j] = ws[k + j]
  <2>1. k \in 0..Len(ws)
    BY <1>1
  <2>2. /\ Left(ws, k) \in Seq(Requests)
        /\ Len(Left(ws, k)) = Len(ws) - k
        /\ \A j \in 1..Len(Left(ws, k)) : Left(ws, k)[j] = ws[j + k]
    BY <2>1, LeftIsSuffix
  <2>3. \A j \in 1..(Len(ws) - k) : j + k = k + j
    BY <1>1
  <2> QED
    BY <2>2, <2>3 DEF Left
<1>5. /\ left \in Seq(Requests)
      /\ Len(left) = Len(ws) - 1
      /\ \A j \in 1..Len(left) : left[j] = ws[At(j)]
  <2> DEFINE front == SubSeq(ws, 1, k - 1)
             back  == SubSeq(ws, k + 1, Len(ws))
  <2>1. left = front \o back
    BY DEF RemoveAt
  <2> HIDE DEF front, back, left
  <2>2. /\ front \in Seq(Requests) /\ Len(front) = k - 1
        /\ back \in Seq(Requests) /\ Len(back) = Len(ws) - k
    BY <1>3, <1>4 DEF front, back
  <2>3. /\ front \o back \in Seq(Requests)
        /\ Len(front \o back) = Len(front) + Len(back)
        /\ \A i \in 1..(Len(front) + Len(back)) : (front \o back)[i] =
             IF i <= Len(front) THEN front[i] ELSE back[i - Len(front)]
    BY <2>2, ConcatProperties
  <2>4. Len(front) + Len(back) = Len(ws) - 1
    BY <1>1, <2>2
  <2>5. ASSUME NEW j \in 1..(Len(ws) - 1) PROVE left[j] = ws[At(j)]
    <3>1. CASE j < k
      <4>1. j <= Len(front) /\ j \in 1..(k - 1)
        BY <1>1, <2>2, <3>1
      <4>2. left[j] = front[j]
        BY <2>1, <2>3, <2>4, <4>1
      <4>3. front[j] = ws[j]
        BY <1>3, <4>1 DEF front
      <4> QED
        BY <3>1, <4>2, <4>3
    <3>2. CASE ~(j < k)
      <4>1. ~(j <= Len(front)) /\ j - Len(front) \in 1..(Len(ws) - k)
        BY <1>1, <2>2, <3>2
      <4>2. left[j] = back[j - Len(front)]
        BY <2>1, <2>3, <2>4, <4>1
      <4>3. back[j - Len(front)] = ws[k + (j - Len(front))]
        BY <1>4, <4>1 DEF back
      <4>4. k + (j - Len(front)) = j + 1
        BY <1>1, <2>2
      <4> QED
        BY <3>2, <4>2, <4>3, <4>4
    <3> QED
      BY <3>1, <3>2
  <2> QED
    BY <2>1, <2>3, <2>4, <2>5
<1> QED
  BY <1>5

(* The queue without its k-th member, whose reservation no longer waits.       *)
LEMMA RemovingKeepsQueues ==
  ASSUME NEW ws \in Seq(Requests), NEW k \in 1..Len(ws),
         NEW st \in [Requests -> Status], NEW s \in Status, s # "waiting",
         Queues(ws, st)
  PROVE  /\ RemoveAt(ws, k) \in Seq(Requests)
         /\ Queues(RemoveAt(ws, k), [st EXCEPT ![ws[k]] = s])
<1> DEFINE left == RemoveAt(ws, k)
           now  == [st EXCEPT ![ws[k]] = s]
           At(j) == IF j < k THEN j ELSE j + 1
<1>1. k \in Nat /\ Len(ws) \in Nat /\ 1 <= k /\ k <= Len(ws)
  OBVIOUS
<1>2. /\ left \in Seq(Requests)
      /\ Len(left) = Len(ws) - 1
      /\ \A j \in 1..Len(left) : left[j] = ws[At(j)]
  BY RemovingAt
<1> HIDE DEF left
<1>3. \A j \in 1..Len(left) : At(j) \in 1..Len(ws) /\ At(j) # k
  BY <1>1, <1>2
<1>4. \A j, n \in 1..Len(left) : At(j) = At(n) => j = n
  BY <1>1
<1>5. \A n \in 1..Len(ws) : n # k => \E j \in 1..Len(left) : At(j) = n
  <2> SUFFICES ASSUME NEW n \in 1..Len(ws), n # k
               PROVE  \E j \in 1..Len(left) : At(j) = n
    OBVIOUS
  <2>1. CASE n < k
    <3>1. n \in 1..Len(left) /\ At(n) = n
      BY <1>1, <1>2, <2>1
    <3> QED
      BY <3>1
  <2>2. CASE ~(n < k)
    <3>1. n - 1 \in 1..Len(left) /\ At(n - 1) = n
      BY <1>1, <1>2, <2>2
    <3> QED
      BY <3>1
  <2> QED
    BY <2>1, <2>2
<1> HIDE DEF At
<1>6. ws[k] \in Requests
  BY <1>1
<1>7. ASSUME NEW r \in Requests
       PROVE  now[r] = "waiting" <=> \E j \in 1..Len(left) : left[j] = r
  <2>1. CASE r = ws[k]
    <3>1. now[r] = s
      BY <2>1
    <3>2. \A j \in 1..Len(left) : left[j] # r
      BY <1>2, <1>3, <2>1 DEF Queues
    <3> QED
      BY <3>1, <3>2
  <2>2. CASE r # ws[k]
    <3>1. now[r] = st[r]
      BY <2>2
    <3>2. (\E n \in 1..Len(ws) : ws[n] = r)
            <=> \E j \in 1..Len(left) : left[j] = r
      BY <1>2, <1>3, <1>5, <2>2
    <3> QED
      BY <3>1, <3>2 DEF Queues
  <2> QED
    BY <2>1, <2>2
<1>8. \A j, n \in 1..Len(left) : left[j] = left[n] => j = n
  BY <1>2, <1>3, <1>4 DEF Queues
<1> QED
  BY <1>2, <1>7, <1>8 DEF Queues, left
-----------------------------------------------------------------------------
(* A reservation that did not wait joins the queue at its end.                *)
LEMMA AppendingKeepsQueues ==
  ASSUME NEW ws \in Seq(Requests), NEW r \in Requests,
         NEW st \in [Requests -> Status], st[r] # "waiting", Queues(ws, st)
  PROVE  /\ Append(ws, r) \in Seq(Requests)
         /\ [st EXCEPT ![r] = "waiting"] \in [Requests -> Status]
         /\ Queues(Append(ws, r), [st EXCEPT ![r] = "waiting"])
<1> DEFINE more == Append(ws, r)
           now  == [st EXCEPT ![r] = "waiting"]
<1>1. /\ more \in Seq(Requests)
      /\ Len(more) = Len(ws) + 1 /\ Len(ws) \in Nat
      /\ \A j \in 1..Len(ws) : more[j] = ws[j]
      /\ more[Len(ws) + 1] = r
  BY AppendProperties
<1>2. now \in [Requests -> Status]
  BY DEF Status
<1> HIDE DEF more
<1>3. \A j \in 1..Len(ws) : ws[j] # r
  BY DEF Queues
<1>4. \A j \in 1..Len(more) : j \in 1..Len(ws) \/ j = Len(ws) + 1
  BY <1>1
<1>5. 1..Len(ws) \subseteq 1..Len(more) /\ Len(ws) + 1 \in 1..Len(more)
  BY <1>1
<1>6. ASSUME NEW q \in Requests
      PROVE  now[q] = "waiting" <=> \E j \in 1..Len(more) : more[j] = q
  <2>1. CASE q = r
    BY <1>1, <1>5, <2>1
  <2>2. CASE q # r
    <3>1. now[q] = st[q]
      BY <2>2
    <3>2. (\E j \in 1..Len(ws) : ws[j] = q)
            <=> \E j \in 1..Len(more) : more[j] = q
      BY <1>1, <1>4, <1>5, <2>2
    <3> QED
      BY <3>1, <3>2 DEF Queues
  <2> QED
    BY <2>1, <2>2
<1>7. \A j, k \in 1..Len(more) : more[j] = more[k] => j = k
  BY <1>1, <1>3, <1>4 DEF Queues
<1> QED
  BY <1>1, <1>2, <1>6, <1>7 DEF Queues, more

(* The status of a reservation outside the queue may change to another one.   *)
LEMMA MarkingKeepsQueues ==
  ASSUME NEW ws \in Seq(Requests), NEW r \in Requests,
         NEW st \in [Requests -> Status], st[r] # "waiting",
         NEW s \in Status, s # "waiting", Queues(ws, st)
  PROVE  /\ [st EXCEPT ![r] = s] \in [Requests -> Status]
         /\ Queues(ws, [st EXCEPT ![r] = s])
BY DEF Queues

(* The inductive invariant: the match needs the types, and the types need       *)
(* nothing else.                                                              *)
IInv == Typed /\ QueueIsWaiting

LEMMA QueueIsWaitingQueues ==
  QueueIsWaiting <=> Queues(waiters, status) /\ (closed => waiters = <<>>)
BY DEF QueueIsWaiting, Queues

LEMMA InitIInv == Init => IInv
<1> SUFFICES ASSUME Init PROVE IInv
  OBVIOUS
<1>1. Typed
  <2>1. <<>> \in Seq(Requests)
    OBVIOUS
  <2>2. [r \in Requests |-> "new"] \in [Requests -> Status]
    BY DEF Status
  <2>3. items \in Int /\ bytes \in Int
    BY DEF Init
  <2>4. closed \in BOOLEAN
    BY Zenon DEF Init
  <2>5. waiters \in Seq(Requests) /\ status \in [Requests -> Status]
    BY <2>1, <2>2, Zenon DEF Init
  <2> QED
    BY <2>3, <2>4, <2>5 DEF Typed
<1>2. QueueIsWaiting
  BY DEF Init, QueueIsWaiting
<1> QED
  BY <1>1, <1>2 DEF IInv

(* Each method of the budget keeps the invariant, under the condition its       *)
(* callers respect.                                                           *)
LEMMA ReserveKeeps ==
  ASSUME IInv, NEW r \in Requests, status[r] # "waiting", Reserve(r)
  PROVE  IInv'
<1> DEFINE ws == Append(waiters, r)
           st == [status EXCEPT ![r] = "waiting"]
<1>1. Typed /\ Queues(waiters, status) /\ ~closed
  BY QueueIsWaitingQueues DEF IInv, Reserve, Refuses
<1>2. ws \in Seq(Requests) /\ st \in [Requests -> Status] /\ Queues(ws, st)
  BY <1>1, AppendingKeepsQueues DEF Typed
<1>3. GrantLocked(ws, items, bytes, st) /\ closed' = closed
  BY DEF Reserve
<1> HIDE DEF ws, st
<1>4. /\ items' \in Int /\ bytes' \in Int /\ waiters' \in Seq(Requests)
      /\ status' \in [Requests -> Status] /\ Queues(waiters', status')
  BY <1>1, <1>2, <1>3, GrantLockedKeeps DEF Typed, GrantLocked
<1>5. Typed'
  BY <1>1, <1>3, <1>4 DEF Typed
<1>6. QueueIsWaiting'
  BY <1>1, <1>3, <1>4 DEF QueueIsWaiting, Queues
<1> QED
  BY <1>5, <1>6 DEF IInv

LEMMA ReturnKeeps ==
  ASSUME IInv, NEW r \in Requests, NEW s \in {"cancelled", "released"},
         status[r] # "waiting",
         GrantLocked(waiters, items - Need[r].items, bytes - Need[r].bytes,
                     [status EXCEPT ![r] = s]),
         UNCHANGED closed
  PROVE  IInv'
<1> DEFINE st == [status EXCEPT ![r] = s]
           i  == items - Need[r].items
           b  == bytes - Need[r].bytes
<1>1. /\ Typed /\ Queues(waiters, status) /\ (closed => waiters = <<>>)
      /\ s \in Status /\ s # "waiting"
  BY QueueIsWaitingQueues DEF IInv, Status
<1>2. st \in [Requests -> Status] /\ Queues(waiters, st)
  BY <1>1, MarkingKeepsQueues DEF Typed
<1>3. i \in Int /\ b \in Int
  BY <1>1, BudgetAssumption DEF Typed
<1>9. GrantLocked(waiters, i, b, st)
  OBVIOUS
<1> HIDE DEF st, i, b
<1>4. /\ items' \in Int /\ bytes' \in Int /\ waiters' \in Seq(Requests)
      /\ status' \in [Requests -> Status] /\ Queues(waiters', status')
      /\ waiters = <<>> => waiters' = <<>>
  BY ONLY <1>1, <1>2, <1>3, <1>9, GrantLockedKeeps DEF Typed, GrantLocked
<1>5. Typed'
  BY <1>1, <1>4 DEF Typed
<1>6. QueueIsWaiting'
  BY <1>1, <1>4 DEF QueueIsWaiting, Queues
<1> QED
  BY <1>5, <1>6 DEF IInv

LEMMA MarkKeeps ==
  ASSUME IInv, NEW r \in Requests, status[r] # "waiting",
         NEW s \in Status, s # "waiting",
         status' = [status EXCEPT ![r] = s], UNCHANGED <<waiters, closed>>,
         items' \in Int, bytes' \in Int
  PROVE  IInv'
<1>1. /\ Typed /\ Queues(waiters, status) /\ (closed => waiters = <<>>)
  BY QueueIsWaitingQueues DEF IInv
<1>2. status' \in [Requests -> Status] /\ Queues(waiters, status')
  BY <1>1, MarkingKeepsQueues DEF Typed
<1>3. Typed'
  BY <1>1, <1>2 DEF Typed
<1>4. QueueIsWaiting'
  BY <1>1, <1>2 DEF QueueIsWaiting, Queues
<1> QED
  BY <1>3, <1>4 DEF IInv

LEMMA CancelWaitingKeeps ==
  ASSUME IInv, NEW r \in Requests, CancelWaiting(r)
  PROVE  IInv'
<1>1. /\ Typed /\ Queues(waiters, status) /\ (closed => waiters = <<>>)
  BY QueueIsWaitingQueues DEF IInv
<1>2. PICK k \in 1..Len(waiters) :
        waiters[k] = r /\ waiters' = RemoveAt(waiters, k)
  BY DEF CancelWaiting
<1>3. /\ status' = [status EXCEPT ![r] = "cancelled"]
      /\ UNCHANGED <<items, bytes, closed>>
  BY DEF CancelWaiting
<1>4. "cancelled" \in Status /\ "cancelled" # "waiting"
  BY DEF Status
<1>5. waiters' \in Seq(Requests) /\ Queues(waiters', status')
  BY <1>1, <1>2, <1>3, <1>4, RemovingKeepsQueues DEF Typed
<1>6. Typed'
  BY <1>1, <1>3, <1>5, <1>4 DEF Typed
<1>7. waiters # <<>>
  BY <1>2
<1>8. QueueIsWaiting'
  BY <1>1, <1>3, <1>5, <1>7 DEF QueueIsWaiting, Queues
<1> QED
  BY <1>6, <1>8 DEF IInv

LEMMA CloseKeeps ==
  ASSUME IInv, Close
  PROVE  IInv'
<1>1. /\ Typed /\ Queues(waiters, status) /\ (closed => waiters = <<>>)
  BY QueueIsWaitingQueues DEF IInv
<1>2. waiters' = <<>> /\ closed' = TRUE /\ UNCHANGED <<items, bytes>>
  BY <1>1 DEF Close
<1>3. \A r \in Requests : status'[r] # "waiting"
  BY <1>1 DEF Close, Queues, Typed
<1>4. Typed'
  BY <1>1, <1>2 DEF Close, Typed, Status
<1>5. QueueIsWaiting'
  BY <1>2, <1>3 DEF QueueIsWaiting
<1> QED
  BY <1>4, <1>5 DEF IInv
-----------------------------------------------------------------------------
(* Every step of the callers' protocol keeps the invariant.                   *)
LEMMA NextKeepsIInv == IInv /\ [Next]_vars => IInv'
<1> SUFFICES ASSUME IInv, [Next]_vars PROVE IInv'
  OBVIOUS
<1>0. Typed
  BY DEF IInv
<1>1. ASSUME NEW r \in Requests, Make(r) PROVE IInv'
  <2>1. status[r] # "waiting"
    BY <1>1 DEF Make
  <2>2. CASE Reserve(r)
    BY <2>1, <2>2, ReserveKeeps
  <2>3. CASE Refuse(r)
    <3>1. items' \in Int /\ bytes' \in Int
      BY <1>0, <2>3 DEF Refuse, Typed
    <3>2. /\ status' = [status EXCEPT ![r] = "refused"]
          /\ UNCHANGED <<waiters, closed>>
          /\ "refused" \in Status
      BY <2>3 DEF Refuse, Status
    <3> QED
      BY <2>1, <3>1, <3>2, MarkKeeps
  <2> QED
    BY <1>1, <2>2, <2>3 DEF Make
<1>2. ASSUME NEW r \in Requests, GiveUp(r) PROVE IInv'
  <2>1. CASE CancelGranted(r)
    BY <2>1, ReturnKeeps DEF CancelGranted
  <2>2. CASE CancelWaiting(r)
    BY <2>2, CancelWaitingKeeps
  <2>3. CASE UNCHANGED vars
    BY <2>3 DEF vars, IInv, Typed, QueueIsWaiting
  <2> QED
    BY <1>2, <2>1, <2>2, <2>3 DEF GiveUp, Cancel
<1>3. ASSUME NEW r \in Requests, ForceCharge(r) PROVE IInv'
  <2>1. status[r] # "waiting" /\ Charge(r)
    BY <1>3 DEF ForceCharge
  <2>2. items' \in Int /\ bytes' \in Int
    BY <1>0, <2>1, BudgetAssumption DEF Charge, Typed
  <2>3. /\ status' = [status EXCEPT ![r] = "charged"]
        /\ UNCHANGED <<waiters, closed>>
        /\ "charged" \in Status
    BY <2>1 DEF Charge, Status
  <2> QED
    BY <2>1, <2>2, <2>3, MarkKeeps
<1>4. ASSUME NEW r \in Requests, GiveBack(r) PROVE IInv'
  BY <1>4, ReturnKeeps DEF GiveBack, Release
<1>5. CASE Close
  BY <1>5, CloseKeeps
<1>6. CASE UNCHANGED vars
  BY <1>6 DEF vars, IInv, Typed, QueueIsWaiting
<1> QED
  BY <1>1, <1>2, <1>3, <1>4, <1>5, <1>6 DEF Next

LEMMA SpecIInv == Spec => []IInv
BY InitIInv, NextKeepsIInv, PTL DEF Spec

(* The counts stay integers, the queue a sequence of reservations and every     *)
(* status one of the seven, whatever the callers interleave.                  *)
THEOREM SpecTyped == Spec => []Typed
<1>1. IInv => Typed
  BY DEF IInv
<1> QED
  BY <1>1, SpecIInv, PTL

(* The queue of the budget holds exactly the reservations that wait, each once, *)
(* and none once it is closed: reserve, grantLocked, cancel and close never      *)
(* close a ready channel twice nor forget a waiter.                           *)
THEOREM SpecQueueIsWaiting == Spec => []QueueIsWaiting
<1>1. IInv => QueueIsWaiting
  BY DEF IInv
<1> QED
  BY <1>1, SpecIInv, PTL
-----------------------------------------------------------------------------
(* Strict arrival order, step by step: among the waiters, and for a newcomer.  *)
InOrder ==
  /\ \A j, k \in 1..Len(waiters) :
       (j < k /\ status'[waiters[k]] = "granted")
          => status'[waiters[j]] # "waiting"
  /\ \A r \in Requests, j \in 1..Len(waiters) :
       (status[r] = "new" /\ status'[r] = "granted")
          => status'[waiters[j]] # "waiting"

(* grantLocked grants nothing but what waits in its queue.                    *)
LEMMA GrantLockedGrantsWaiters ==
  ASSUME NEW ws \in Seq(Requests), NEW i \in Int, NEW b \in Int,
         NEW st \in [Requests -> Status],
         Queues(ws, st), GrantLocked(ws, i, b, st),
         NEW q \in Requests, status'[q] = "granted", st[q] # "granted"
  PROVE  st[q] = "waiting"
<1> DEFINE k == Servable(ws, i, b)
<1>1. k \in 0..Len(ws)
  BY ServableDefined
<1>2. status' = Granted(ws, k, st)
  BY DEF GrantLocked, Granted
<1> HIDE DEF k
<1>3. PICK j \in 1..k : ws[j] = q
  BY <1>2 DEF Granted
<1>4. j \in 1..Len(ws)
  BY <1>1
<1> QED
  BY <1>3, <1>4 DEF Queues

(* What grantLocked grants, it grants in the order of its queue.              *)
LEMMA GrantLockedInOrder ==
  ASSUME NEW ws \in Seq(Requests), NEW i \in Int, NEW b \in Int,
         NEW st \in [Requests -> Status],
         Queues(ws, st), GrantLocked(ws, i, b, st),
         NEW j \in 1..Len(ws), NEW n \in 1..Len(ws), j < n,
         status'[ws[n]] = "granted"
  PROVE  status'[ws[j]] # "waiting"
<1> DEFINE k == Servable(ws, i, b)
<1>1. k \in 0..Len(ws)
  BY ServableDefined
<1>2. status' = Granted(ws, k, st)
  BY DEF GrantLocked, Granted
<1> HIDE DEF k
<1> QED
  BY <1>1, <1>2, ServingIsInOrder

LEMMA ReserveInOrder ==
  ASSUME IInv, NEW r \in Requests, status[r] # "waiting", Reserve(r)
  PROVE  InOrder
<1> DEFINE ws == Append(waiters, r)
           st == [status EXCEPT ![r] = "waiting"]
<1>1. Typed /\ Queues(waiters, status)
  BY QueueIsWaitingQueues DEF IInv
<1>2. ws \in Seq(Requests) /\ st \in [Requests -> Status] /\ Queues(ws, st)
  BY <1>1, AppendingKeepsQueues DEF Typed
<1>3. /\ Len(ws) = Len(waiters) + 1 /\ Len(waiters) \in Nat
      /\ \A j \in 1..Len(waiters) : ws[j] = waiters[j]
  BY <1>1, AppendProperties DEF Typed
<1>4. GrantLocked(ws, items, bytes, st) /\ items \in Int /\ bytes \in Int
  BY <1>1 DEF Reserve, Typed
<1> HIDE DEF ws, st
<1>5. \A j, n \in 1..Len(ws) :
        j < n /\ status'[ws[n]] = "granted" => status'[ws[j]] # "waiting"
  BY ONLY <1>2, <1>4, GrantLockedInOrder DEF GrantLocked
<1>6. 1..Len(waiters) \subseteq 1..Len(ws)
  BY <1>3
<1>7. ws[Len(ws)] = r /\ \A q \in Requests : q # r => st[q] = status[q]
  BY <1>1, AppendProperties DEF ws, st, Typed
<1>8. ASSUME NEW q \in Requests, status[q] = "new", status'[q] = "granted"
      PROVE  q = r
  <2> SUFFICES ASSUME q # r PROVE FALSE
    OBVIOUS
  <2>1. st[q] = "new"
    BY <1>7, <1>8
  <2>2. st[q] = "waiting"
    BY ONLY <1>2, <1>4, <1>8, <2>1, GrantLockedGrantsWaiters
  <2> QED
    BY <2>1, <2>2
<1>9. ASSUME NEW q \in Requests, NEW j \in 1..Len(waiters),
             status[q] = "new", status'[q] = "granted"
      PROVE  status'[waiters[j]] # "waiting"
  <2>1. j \in 1..Len(ws) /\ Len(ws) \in 1..Len(ws) /\ j < Len(ws)
    BY <1>3
  <2>2. status'[ws[Len(ws)]] = "granted"
    BY <1>7, <1>8, <1>9
  <2> QED
    BY <1>3, <1>5, <2>1, <2>2
<1> QED
  BY <1>3, <1>5, <1>6, <1>9 DEF InOrder

LEMMA ReturnInOrder ==
  ASSUME IInv, NEW r \in Requests, NEW s \in {"cancelled", "released"},
         status[r] # "waiting",
         GrantLocked(waiters, items - Need[r].items, bytes - Need[r].bytes,
                     [status EXCEPT ![r] = s])
  PROVE  InOrder
<1> DEFINE st == [status EXCEPT ![r] = s]
           i  == items - Need[r].items
           b  == bytes - Need[r].bytes
<1>1. Typed /\ Queues(waiters, status) /\ s \in Status /\ s # "waiting"
  BY QueueIsWaitingQueues DEF IInv, Status
<1>2. /\ waiters \in Seq(Requests) /\ st \in [Requests -> Status]
      /\ Queues(waiters, st)
  BY <1>1, MarkingKeepsQueues DEF Typed
<1>3. i \in Int /\ b \in Int
  BY <1>1, BudgetAssumption DEF Typed
<1>4. GrantLocked(waiters, i, b, st)
  OBVIOUS
<1> HIDE DEF st, i, b
<1>5. \A j, n \in 1..Len(waiters) :
        j < n /\ status'[waiters[n]] = "granted"
          => status'[waiters[j]] # "waiting"
  BY ONLY <1>2, <1>3, <1>4, GrantLockedInOrder DEF GrantLocked
<1>6. \A q \in Requests : st[q] = status[q] \/ st[q] = s
  BY <1>1 DEF st, Typed
<1>7. ASSUME NEW q \in Requests, status[q] = "new", status'[q] = "granted"
      PROVE  FALSE
  <2>1. st[q] # "granted" /\ st[q] # "waiting"
    BY <1>1, <1>6, <1>7
  <2> QED
    BY ONLY <1>2, <1>3, <1>4, <1>7, <2>1, GrantLockedGrantsWaiters
<1> QED
  BY <1>5, <1>7 DEF InOrder

(* A step that leaves every waiter's status as it was, or takes it out of the   *)
(* queue without granting it, grants nothing.                                 *)
LEMMA NoGrantInOrder ==
  ASSUME IInv, \A q \in Requests : status'[q] = "granted" => status[q] = "granted"
  PROVE  InOrder
<1>1. Typed /\ Queues(waiters, status)
  BY QueueIsWaitingQueues DEF IInv
<1>2. \A k \in 1..Len(waiters) :
        waiters[k] \in Requests /\ status[waiters[k]] = "waiting"
  BY <1>1 DEF Typed, Queues
<1> QED
  BY <1>2 DEF InOrder

LEMMA NextInOrder == IInv /\ [Next]_vars => InOrder
<1> SUFFICES ASSUME IInv, [Next]_vars PROVE InOrder
  OBVIOUS
<1>0. Typed
  BY DEF IInv
<1>1. ASSUME NEW r \in Requests, Make(r) PROVE InOrder
  <2>1. CASE Reserve(r)
    BY <1>1, <2>1, ReserveInOrder DEF Make
  <2>2. CASE Refuse(r)
    BY <1>0, <2>2, NoGrantInOrder DEF Refuse, Typed
  <2> QED
    BY <1>1, <2>1, <2>2 DEF Make
<1>2. ASSUME NEW r \in Requests, GiveUp(r) PROVE InOrder
  <2>1. CASE CancelGranted(r)
    BY <2>1, ReturnInOrder DEF CancelGranted
  <2>2. CASE CancelWaiting(r)
    BY <1>0, <2>2, NoGrantInOrder DEF CancelWaiting, Typed
  <2>3. CASE UNCHANGED vars
    BY <2>3, NoGrantInOrder DEF vars
  <2> QED
    BY <1>2, <2>1, <2>2, <2>3 DEF GiveUp, Cancel
<1>3. ASSUME NEW r \in Requests, ForceCharge(r) PROVE InOrder
  BY <1>0, <1>3, NoGrantInOrder DEF ForceCharge, Charge, Typed
<1>4. ASSUME NEW r \in Requests, GiveBack(r) PROVE InOrder
  BY <1>4, ReturnInOrder DEF GiveBack, Release
<1>5. CASE Close
  BY <1>0, <1>5, NoGrantInOrder DEF Close, Typed
<1>6. CASE UNCHANGED vars
  BY <1>6, NoGrantInOrder DEF vars
<1> QED
  BY <1>1, <1>2, <1>3, <1>4, <1>5, <1>6 DEF Next

(* No reservation is granted while an older one waits on.                     *)
THEOREM SpecNoBarging == Spec => NoBarging
<1>1. IInv /\ [Next]_vars =>
        [/\ \A j, k \in 1..Len(waiters) :
              (j < k /\ status'[waiters[k]] = "granted")
                 => status'[waiters[j]] # "waiting"
         /\ \A r \in Requests, j \in 1..Len(waiters) :
              (status[r] = "new" /\ status'[r] = "granted")
                 => status'[waiters[j]] # "waiting"]_vars
  BY NextInOrder DEF InOrder
<1> QED
  BY <1>1, SpecIInv, PTL DEF Spec, NoBarging
-----------------------------------------------------------------------------
(* The next load of a queue adds what its next reservation asks for.          *)
LEMMA LoadsAdd ==
  ASSUME NEW ws \in Seq(Requests), NEW k \in 1..Len(ws)
  PROVE  /\ ItemLoad(ws)[k] = ItemLoad(ws)[k - 1] + Need[ws[k]].items
         /\ ByteLoad(ws)[k] = ByteLoad(ws)[k - 1] + Need[ws[k]].bytes
<1>1. ASSUME NEW a \in [1..Len(ws) -> Nat]
      PROVE  PrefixSum(a)[k] = PrefixSum(a)[k - 1] + a[k]
  <2>1. a \in Seq(Nat) /\ Len(a) = Len(ws)
    OBVIOUS
  <2> QED
    BY <2>1, PrefixSumTotals
<1> DEFINE is == [j \in 1..Len(ws) |-> Need[ws[j]].items]
           bs == [j \in 1..Len(ws) |-> Need[ws[j]].bytes]
<1>2. is \in [1..Len(ws) -> Nat] /\ bs \in [1..Len(ws) -> Nat]
  BY BudgetAssumption
<1>3. is[k] = Need[ws[k]].items /\ bs[k] = Need[ws[k]].bytes
  OBVIOUS
<1>4. ItemLoad(ws) = PrefixSum(is) /\ ByteLoad(ws) = PrefixSum(bs)
  BY DEF ItemLoad, ByteLoad
<1> HIDE DEF is, bs
<1> QED
  BY <1>1, <1>2, <1>3, <1>4

LEMMA LoadsStart ==
  ASSUME NEW ws \in Seq(Requests), NEW i \in Int, NEW b \in Int
  PROVE  i + ItemLoad(ws)[0] = i /\ b + ByteLoad(ws)[0] = b
<1>1. ASSUME NEW a \in [1..Len(ws) -> Nat] PROVE PrefixSum(a)[0] = 0
  <2>1. a \in Seq(Nat)
    OBVIOUS
  <2> QED
    BY <2>1, PrefixSumTotals
<1> DEFINE is == [j \in 1..Len(ws) |-> Need[ws[j]].items]
           bs == [j \in 1..Len(ws) |-> Need[ws[j]].bytes]
<1>2. is \in [1..Len(ws) -> Nat] /\ bs \in [1..Len(ws) -> Nat]
  BY BudgetAssumption
<1>3. ItemLoad(ws) = PrefixSum(is) /\ ByteLoad(ws) = PrefixSum(bs)
  BY DEF ItemLoad, ByteLoad
<1> HIDE DEF is, bs
<1> QED
  BY <1>1, <1>2, <1>3

(* The head that grantLocked leaves does not fit in what it leaves.           *)
LEMMA ServingStopsAtWhatDoesNotFit ==
  ASSUME NEW ws \in Seq(Requests), NEW i \in Int, NEW b \in Int,
         NEW k, k = Servable(ws, i, b), Left(ws, k) # <<>>
  PROVE  ~Fits((i + ItemLoad(ws)[k]) + Need[Head(Left(ws, k))].items,
               (b + ByteLoad(ws)[k]) + Need[Head(Left(ws, k))].bytes)
<1>1. /\ k \in 0..Len(ws) /\ k \in Int /\ Len(ws) \in Nat
      /\ IsServable(ws, i, b, k)
      /\ k < Len(ws) => ~IsServable(ws, i, b, k + 1)
  BY ServableDefined
<1>2. /\ Left(ws, k) \in Seq(Requests)
      /\ Len(Left(ws, k)) = Len(ws) - k
      /\ \A j \in 1..Len(Left(ws, k)) : Left(ws, k)[j] = ws[j + k]
  BY <1>1, LeftIsSuffix
<1>3. k < Len(ws) /\ 1 \in 1..Len(Left(ws, k)) /\ 1 + k = k + 1
  BY <1>1, <1>2
<1>4. Head(Left(ws, k)) = ws[k + 1]
  <2>1. Head(Left(ws, k)) = Left(ws, k)[1]
    BY <1>2
  <2> QED
    BY <1>2, <1>3, <2>1
<1>5. PICK j \in 1..(k + 1) : ~Fits(i + ItemLoad(ws)[j], b + ByteLoad(ws)[j])
  BY <1>1, <1>3 DEF IsServable
<1>6. j = k + 1
  BY <1>1, <1>5 DEF IsServable
<1>7. k + 1 \in 1..Len(ws) /\ (k + 1) - 1 = k
  BY <1>1, <1>3
<1>8. /\ ItemLoad(ws)[k + 1] = ItemLoad(ws)[k] + Need[ws[k + 1]].items
      /\ ByteLoad(ws)[k + 1] = ByteLoad(ws)[k] + Need[ws[k + 1]].bytes
  BY <1>7, LoadsAdd
<1>9. /\ ItemLoad(ws)[k] \in Int /\ ByteLoad(ws)[k] \in Int
      /\ Need[ws[k + 1]].items \in Int /\ Need[ws[k + 1]].bytes \in Int
  BY SMTT(60), <1>1, <1>7, LoadsTyped, BudgetAssumption
<1>10. /\ i + ItemLoad(ws)[k + 1] = (i + ItemLoad(ws)[k]) + Need[ws[k + 1]].items
       /\ b + ByteLoad(ws)[k + 1] = (b + ByteLoad(ws)[k]) + Need[ws[k + 1]].bytes
  BY <1>8, <1>9
<1> QED
  BY <1>4, <1>5, <1>6, <1>10

LEMMA GrantLockedWakes ==
  ASSUME NEW ws \in Seq(Requests), NEW i \in Int, NEW b \in Int, NEW st,
         GrantLocked(ws, i, b, st)
  PROVE  HeadDoesNotFit'
<1> DEFINE k == Servable(ws, i, b)
<1>1. /\ waiters' = Left(ws, k)
      /\ items' = i + ItemLoad(ws)[k] /\ bytes' = b + ByteLoad(ws)[k]
  BY DEF GrantLocked, Left
<1>2. Left(ws, k) # <<>> =>
        ~Fits((i + ItemLoad(ws)[k]) + Need[Head(Left(ws, k))].items,
              (b + ByteLoad(ws)[k]) + Need[Head(Left(ws, k))].bytes)
  BY ServingStopsAtWhatDoesNotFit
<1> HIDE DEF k
<1> QED
  BY <1>1, <1>2 DEF HeadDoesNotFit, Fits

(* What the step of WakesWhatFits promises.                                   *)
Wakes ==
  (items' < items \/ bytes' < bytes \/ Len(waiters') > Len(waiters))
     => HeadDoesNotFit'

LEMMA NextWakes == IInv /\ [Next]_vars => Wakes
<1> SUFFICES ASSUME IInv, [Next]_vars PROVE Wakes
  OBVIOUS
<1>0. Typed /\ Len(waiters) \in Nat
  BY DEF IInv, Typed
<1>1. ASSUME NEW r \in Requests, Reserve(r) PROVE Wakes
  <2> DEFINE ws == Append(waiters, r)
             st == [status EXCEPT ![r] = "waiting"]
  <2>1. ws \in Seq(Requests) /\ items \in Int /\ bytes \in Int
    BY <1>0 DEF Typed
  <2>2. GrantLocked(ws, items, bytes, st)
    BY <1>1 DEF Reserve
  <2> HIDE DEF ws, st
  <2>3. HeadDoesNotFit'
    BY ONLY <2>1, <2>2, GrantLockedWakes DEF GrantLocked
  <2> QED
    BY <2>3 DEF Wakes
<1>2. ASSUME NEW r \in Requests, NEW s,
             GrantLocked(waiters, items - Need[r].items, bytes - Need[r].bytes,
                         [status EXCEPT ![r] = s])
      PROVE  Wakes
  <2> DEFINE i == items - Need[r].items
             b == bytes - Need[r].bytes
             st == [status EXCEPT ![r] = s]
  <2>1. i \in Int /\ b \in Int /\ waiters \in Seq(Requests)
    BY <1>0, BudgetAssumption DEF Typed
  <2>2. GrantLocked(waiters, i, b, st)
    BY <1>2
  <2> HIDE DEF i, b, st
  <2>3. HeadDoesNotFit'
    BY ONLY <2>1, <2>2, GrantLockedWakes DEF GrantLocked
  <2> QED
    BY <2>3 DEF Wakes
<1>3. ASSUME items' = items, bytes' = bytes, Len(waiters') <= Len(waiters)
      PROVE  Wakes
  BY <1>0, <1>3 DEF Wakes, Typed
<1>4. ASSUME NEW r \in Requests, CancelWaiting(r) PROVE Wakes
  <2>1. PICK k \in 1..Len(waiters) : waiters' = RemoveAt(waiters, k)
    BY <1>4 DEF CancelWaiting
  <2>2. Len(waiters') = Len(waiters) - 1
    BY <1>0, <2>1, RemovingAt DEF Typed
  <2> QED
    BY <1>0, <1>4, <2>2, <1>3 DEF CancelWaiting
<1>5. ASSUME NEW r \in Requests, Charge(r) PROVE Wakes
  <2>1. Need[r].items \in Nat /\ Need[r].bytes \in Nat
    BY BudgetAssumption
  <2>2. ~(items' < items) /\ ~(bytes' < bytes) /\ waiters' = waiters
    BY <1>0, <1>5, <2>1 DEF Charge, Typed
  <2> QED
    BY <1>0, <2>2 DEF Wakes
<1>6. CASE Close
  <2>1. waiters' = waiters \/ waiters' = <<>>
    BY <1>6 DEF Close
  <2>2. Len(waiters') <= Len(waiters)
    BY <1>0, <2>1
  <2> QED
    BY <1>3, <1>6, <2>2 DEF Close
<1>7. CASE UNCHANGED vars
  BY <1>0, <1>3, <1>7 DEF vars
<1>8. ASSUME NEW r \in Requests, Refuse(r) PROVE Wakes
  BY <1>0, <1>3, <1>8 DEF Refuse
<1> QED
  BY <1>1, <1>2, <1>4, <1>5, <1>6, <1>7, <1>8
     DEF Next, Make, GiveUp, ForceCharge, GiveBack, Cancel, CancelGranted, Release

(* Returning capacity wakes whatever now fits.                                *)
THEOREM SpecWakesWhatFits == Spec => WakesWhatFits
<1>1. IInv /\ [Next]_vars =>
        [(items' < items \/ bytes' < bytes \/ Len(waiters') > Len(waiters))
           => HeadDoesNotFit']_vars
  BY NextWakes DEF Wakes
<1> QED
  BY <1>1, SpecIInv, PTL DEF Spec, WakesWhatFits
-----------------------------------------------------------------------------
(* Capacity.  What each reservation asks for, those that hold capacity under   *)
(* the statuses st, and those among them that were granted it.                *)
ItemNeed == [r \in Requests |-> Need[r].items]
ByteNeed == [r \in Requests |-> Need[r].bytes]

HeldIn(st)    == {r \in Requests : st[r] \in {"granted", "charged"}}
GrantedIn(st) == {r \in Requests : st[r] = "granted"}

(* i items and b bytes in use are what is held, and finitely many hold it.     *)
Accounted(i, b, st) ==
  /\ IsFiniteSet(HeldIn(st))
  /\ i = SumFunctionOnSet(ItemNeed, HeldIn(st))
  /\ b = SumFunctionOnSet(ByteNeed, HeldIn(st))

(* What was granted never exceeds the ceiling, whatever was charged beside it. *)
Within(st) ==
  /\ SumFunctionOnSet(ItemNeed, GrantedIn(st)) <= MaxItems
  /\ SumFunctionOnSet(ByteNeed, GrantedIn(st)) <= MaxBytes

Accounts == Accounted(items, bytes, status) /\ Within(status)

LEMMA NeedsTyped ==
  ASSUME NEW r \in Requests
  PROVE  /\ ItemNeed[r] = Need[r].items /\ ItemNeed[r] \in Nat
         /\ ByteNeed[r] = Need[r].bytes /\ ByteNeed[r] \in Nat
BY BudgetAssumption DEF ItemNeed, ByteNeed

(* One reservation more holds capacity.                                       *)
LEMMA HoldingMore ==
  ASSUME NEW i, NEW b, NEW st, Accounted(i, b, st), NEW r \in Requests,
         r \notin HeldIn(st), NEW now, HeldIn(now) = HeldIn(st) \cup {r}
  PROVE  Accounted(i + Need[r].items, b + Need[r].bytes, now)
<1> DEFINE held == HeldIn(st)
<1>1. \A q \in held \cup {r} : ItemNeed[q] \in Int /\ ByteNeed[q] \in Int
  BY NeedsTyped DEF HeldIn
<1>2. IsFiniteSet(held) /\ r \notin held
  BY DEF Accounted
<1> HIDE DEF held
<1>3. /\ IsFiniteSet(held \cup {r})
      /\ SumFunctionOnSet(ItemNeed, held \cup {r})
           = SumFunctionOnSet(ItemNeed, held) + ItemNeed[r]
      /\ SumFunctionOnSet(ByteNeed, held \cup {r})
           = SumFunctionOnSet(ByteNeed, held) + ByteNeed[r]
  BY <1>1, <1>2, SumWith
<1> QED
  BY <1>3, NeedsTyped DEF Accounted, held

(* One reservation less.                                                      *)
LEMMA HoldingLess ==
  ASSUME NEW i, NEW b, NEW st, Accounted(i, b, st), NEW r \in HeldIn(st),
         NEW now, HeldIn(now) = HeldIn(st) \ {r}
  PROVE  Accounted(i - Need[r].items, b - Need[r].bytes, now)
<1> DEFINE held == HeldIn(st)
<1>1. \A q \in held : ItemNeed[q] \in Int /\ ByteNeed[q] \in Int
  BY NeedsTyped DEF HeldIn
<1>2. IsFiniteSet(held) /\ r \in held /\ r \in Requests
  BY DEF Accounted, HeldIn
<1> HIDE DEF held
<1>3. /\ IsFiniteSet(held \ {r})
      /\ SumFunctionOnSet(ItemNeed, held \ {r})
           = SumFunctionOnSet(ItemNeed, held) - ItemNeed[r]
      /\ SumFunctionOnSet(ByteNeed, held \ {r})
           = SumFunctionOnSet(ByteNeed, held) - ByteNeed[r]
  BY <1>1, <1>2, SumWithout
<1> QED
  BY <1>2, <1>3, NeedsTyped DEF Accounted, held

(* Granted capacity only shrinks.                                             *)
LEMMA GrantedShrinks ==
  ASSUME NEW i, NEW b, NEW st, Accounted(i, b, st), Within(st),
         NEW now, GrantedIn(now) \subseteq GrantedIn(st)
  PROVE  Within(now)
<1> DEFINE old == GrantedIn(st)
           new == GrantedIn(now)
<1>1. IsFiniteSet(old) /\ new \in SUBSET old
  <2>1. old \in SUBSET HeldIn(st)
    BY DEF GrantedIn, HeldIn
  <2> QED
    BY <2>1, FS_Subset DEF Accounted
<1>2. \A q \in old : ItemNeed[q] \in Nat /\ ByteNeed[q] \in Nat
  BY NeedsTyped DEF GrantedIn
<1> HIDE DEF old, new
<1>3. /\ SumFunctionOnSet(ItemNeed, new) <= SumFunctionOnSet(ItemNeed, old)
      /\ SumFunctionOnSet(ByteNeed, new) <= SumFunctionOnSet(ByteNeed, old)
  BY <1>1, <1>2, SumGrows
<1>4. IsFiniteSet(new) /\ \A q \in new : ItemNeed[q] \in Nat /\ ByteNeed[q] \in Nat
  BY <1>1, <1>2, FS_Subset
<1>5. /\ SumFunctionOnSet(ItemNeed, new) \in Nat
      /\ SumFunctionOnSet(ByteNeed, new) \in Nat
      /\ SumFunctionOnSet(ItemNeed, old) \in Nat
      /\ SumFunctionOnSet(ByteNeed, old) \in Nat
  BY <1>1, <1>2, <1>4, SumCounts
<1> QED
  BY <1>3, <1>5, BudgetAssumption DEF Within, old, new
-----------------------------------------------------------------------------
(* Serving a prefix of the queue adds exactly what that prefix asks for.       *)
LEMMA ServingAccounts ==
  ASSUME NEW ws \in Seq(Requests), NEW k \in 0..Len(ws),
         NEW i \in Int, NEW b \in Int, NEW st \in [Requests -> Status],
         Queues(ws, st), Accounted(i, b, st)
  PROVE  Accounted(i + ItemLoad(ws)[k], b + ByteLoad(ws)[k], Granted(ws, k, st))
<1> DEFINE Good == {j \in 0..k :
             Accounted(i + ItemLoad(ws)[j], b + ByteLoad(ws)[j], Granted(ws, j, st))}
<1>1. k \in Nat /\ Len(ws) \in Nat /\ k <= Len(ws)
  OBVIOUS
<1>2. 0 \in Good
  <2>1. HeldIn(Granted(ws, 0, st)) = HeldIn(st)
    BY DEF HeldIn, Granted
  <2>2. i + ItemLoad(ws)[0] = i /\ b + ByteLoad(ws)[0] = b
    BY LoadsStart
  <2> QED
    BY <1>1, <2>1, <2>2 DEF Accounted
<1>3. ASSUME NEW j \in 0..k, j \in Good, j < k PROVE j + 1 \in Good
  <2> DEFINE r == ws[j + 1]
             was == Granted(ws, j, st)
             now == Granted(ws, j + 1, st)
  <2>1. j + 1 \in 1..Len(ws) /\ j + 1 \in 0..k /\ (j + 1) - 1 = j /\ j \in 0..Len(ws)
    BY <1>1, <1>3
  <2>2. r \in Requests /\ st[r] = "waiting" /\ ~ \E m \in 1..j : ws[m] = r
    <3>1. \A m \in 1..j : m \in 1..Len(ws) /\ m # j + 1
      BY <1>1, <1>3
    <3> QED
      BY <2>1, <3>1 DEF Queues
  <2>3. r \notin HeldIn(was)
    BY <2>2 DEF HeldIn, Granted
  <2>4. HeldIn(now) = HeldIn(was) \cup {r}
    <3>1. 1..(j + 1) = (1..j) \cup {j + 1}
      BY <1>1, <1>3
    <3> QED
      BY <2>2, <3>1 DEF HeldIn, Granted
  <2>5. /\ ItemLoad(ws)[j + 1] = ItemLoad(ws)[j] + Need[r].items
        /\ ByteLoad(ws)[j + 1] = ByteLoad(ws)[j] + Need[r].bytes
    BY <2>1, LoadsAdd
  <2>6. /\ ItemLoad(ws)[j] \in Int /\ ByteLoad(ws)[j] \in Int
        /\ Need[r].items \in Int /\ Need[r].bytes \in Int
    <3>1. ItemLoad(ws)[j] \in Nat /\ ByteLoad(ws)[j] \in Nat
      BY <2>1, LoadsTyped
    <3>2. Need[r].items \in Nat /\ Need[r].bytes \in Nat
      BY <2>2, BudgetAssumption
    <3> QED
      BY <3>1, <3>2
  <2> HIDE DEF r, was, now
  <2>7. Accounted((i + ItemLoad(ws)[j]) + Need[r].items,
                  (b + ByteLoad(ws)[j]) + Need[r].bytes, now)
    <3>1. Accounted(i + ItemLoad(ws)[j], b + ByteLoad(ws)[j], was)
      BY <1>3 DEF was
    <3> QED
      BY <2>2, <2>3, <2>4, <3>1, HoldingMore
  <2>8. /\ (i + ItemLoad(ws)[j]) + Need[r].items = i + ItemLoad(ws)[j + 1]
        /\ (b + ByteLoad(ws)[j]) + Need[r].bytes = b + ByteLoad(ws)[j + 1]
    BY SMTT(60), <2>5, <2>6
  <2> QED
    BY <2>1, <2>7, <2>8 DEF now
<1>4. k \in Good
  <2> HIDE DEF Good
  <2>1. \A j \in 0..k : j \in Good
    BY <1>1, <1>2, <1>3, CountingUp
  <2> QED
    BY <1>1, <2>1
<1> QED
  BY <1>4

(* What grantLocked serves stays under the ceiling together with all that was  *)
(* granted before.                                                            *)
LEMMA GrantLockedAccounts ==
  ASSUME NEW ws \in Seq(Requests), NEW i \in Int, NEW b \in Int,
         NEW st \in [Requests -> Status],
         Queues(ws, st), Accounted(i, b, st), Within(st),
         GrantLocked(ws, i, b, st)
  PROVE  Accounts'
<1> DEFINE k == Servable(ws, i, b)
<1>1. k \in 0..Len(ws) /\ IsServable(ws, i, b, k)
  BY ServableDefined
<1>2. /\ items' = i + ItemLoad(ws)[k] /\ bytes' = b + ByteLoad(ws)[k]
      /\ status' = Granted(ws, k, st)
  BY DEF GrantLocked, Granted
<1> HIDE DEF k
<1>3. Accounted(items', bytes', status')
  BY <1>1, <1>2, ServingAccounts
<1>4. CASE k = 0
  <2>1. GrantedIn(status') \subseteq GrantedIn(st)
    BY <1>2, <1>4 DEF GrantedIn, Granted
  <2> QED
    BY <1>3, <2>1, GrantedShrinks DEF Accounts, Within, Accounted, HeldIn, GrantedIn
<1>5. CASE k # 0
  <2>1. items' <= MaxItems /\ bytes' <= MaxBytes
    BY <1>1, <1>2, <1>5 DEF IsServable, Fits
  <2> DEFINE held == HeldIn(status')
             granted == GrantedIn(status')
  <2>2. IsFiniteSet(held) /\ granted \in SUBSET held
    BY <1>3 DEF Accounted, HeldIn, GrantedIn
  <2>3. \A q \in held : ItemNeed[q] \in Nat /\ ByteNeed[q] \in Nat
    BY NeedsTyped DEF HeldIn
  <2>4. /\ items' = SumFunctionOnSet(ItemNeed, held)
        /\ bytes' = SumFunctionOnSet(ByteNeed, held)
    BY <1>3 DEF Accounted
  <2> HIDE DEF held, granted
  <2>5. IsFiniteSet(granted) /\ \A q \in granted : ItemNeed[q] \in Nat /\ ByteNeed[q] \in Nat
    BY <2>2, <2>3, FS_Subset
  <2>6. /\ SumFunctionOnSet(ItemNeed, granted) <= SumFunctionOnSet(ItemNeed, held)
        /\ SumFunctionOnSet(ByteNeed, granted) <= SumFunctionOnSet(ByteNeed, held)
    BY <2>2, <2>3, SumGrows
  <2>7. /\ SumFunctionOnSet(ItemNeed, granted) \in Nat
        /\ SumFunctionOnSet(ByteNeed, granted) \in Nat
        /\ SumFunctionOnSet(ItemNeed, held) \in Nat
        /\ SumFunctionOnSet(ByteNeed, held) \in Nat
    BY <2>2, <2>3, <2>5, SumCounts
  <2>8. /\ SumFunctionOnSet(ItemNeed, granted) <= MaxItems
        /\ SumFunctionOnSet(ByteNeed, granted) <= MaxBytes
    BY <2>1, <2>4, <2>6, <2>7, BudgetAssumption
  <2>9. Within(status')
    BY <2>8 DEF Within, granted
  <2> QED
    BY <1>3, <2>9 DEF Accounts, Accounted, Within, HeldIn, GrantedIn
<1> QED
  BY <1>4, <1>5
-----------------------------------------------------------------------------
LEMMA InitAccounts == Init => Accounts
<1> SUFFICES ASSUME Init PROVE Accounts
  OBVIOUS
<1>1. HeldIn(status) = {} /\ GrantedIn(status) = {}
  BY DEF Init, HeldIn, GrantedIn
<1>2. IsFiniteSet({}) /\ 0 <= MaxItems /\ 0 <= MaxBytes
  BY FS_EmptySet, BudgetAssumption
<1>3. SumFunctionOnSet(ItemNeed, {}) = 0 /\ SumFunctionOnSet(ByteNeed, {}) = 0
  BY SumOfNone
<1>4. Accounted(items, bytes, status)
  BY <1>1, <1>2, <1>3 DEF Init, Accounted
<1>5. Within(status)
  BY <1>1, <1>2, <1>3 DEF Within
<1> QED
  BY <1>4, <1>5 DEF Accounts

(* A status that held nothing and holds nothing moves no capacity.             *)
LEMMA IdleMarkAccounts ==
  ASSUME IInv, Accounts, NEW st \in [Requests -> Status],
         HeldIn(st) = HeldIn(status), GrantedIn(st) = GrantedIn(status)
  PROVE  Accounted(items, bytes, st) /\ Within(st)
BY DEF Accounts, Accounted, Within

LEMMA ReserveAccounts ==
  ASSUME IInv, Accounts, NEW r \in Requests, status[r] = "new", Reserve(r)
  PROVE  Accounts'
<1> DEFINE ws == Append(waiters, r)
           st == [status EXCEPT ![r] = "waiting"]
<1>1. Typed /\ Queues(waiters, status)
  BY QueueIsWaitingQueues DEF IInv
<1>2. ws \in Seq(Requests) /\ st \in [Requests -> Status] /\ Queues(ws, st)
  BY <1>1, AppendingKeepsQueues DEF Typed
<1>3. HeldIn(st) = HeldIn(status) /\ GrantedIn(st) = GrantedIn(status)
  BY <1>1 DEF HeldIn, GrantedIn, Typed
<1>4. GrantLocked(ws, items, bytes, st) /\ items \in Int /\ bytes \in Int
  BY <1>1 DEF Reserve, Typed
<1> HIDE DEF ws, st
<1>5. Accounted(items, bytes, st) /\ Within(st)
  BY <1>2, <1>3, IdleMarkAccounts
<1> QED
  BY ONLY <1>2, <1>4, <1>5, GrantLockedAccounts DEF GrantLocked

(* cancel and release give back exactly what the reservation held.            *)
LEMMA ReturnAccounts ==
  ASSUME IInv, Accounts, NEW r \in Requests, NEW s \in {"cancelled", "released"},
         status[r] \in {"granted", "charged"},
         GrantLocked(waiters, items - Need[r].items, bytes - Need[r].bytes,
                     [status EXCEPT ![r] = s])
  PROVE  Accounts'
<1> DEFINE st == [status EXCEPT ![r] = s]
           i  == items - Need[r].items
           b  == bytes - Need[r].bytes
<1>1. Typed /\ Queues(waiters, status) /\ s \in Status /\ s # "waiting"
  BY QueueIsWaitingQueues DEF IInv, Status
<1>2. /\ waiters \in Seq(Requests) /\ st \in [Requests -> Status]
      /\ Queues(waiters, st)
  BY <1>1, MarkingKeepsQueues DEF Typed
<1>3. i \in Int /\ b \in Int
  BY <1>1, BudgetAssumption DEF Typed
<1>4. GrantLocked(waiters, i, b, st)
  OBVIOUS
<1>5. r \in HeldIn(status) /\ HeldIn(st) = HeldIn(status) \ {r}
  BY <1>1 DEF HeldIn, Typed
<1>6. GrantedIn(st) \subseteq GrantedIn(status)
  BY <1>1 DEF GrantedIn, Typed
<1> HIDE DEF st
<1>7. Accounted(i, b, st)
  BY <1>5, HoldingLess DEF Accounts
<1>8. Within(st)
  BY <1>6, GrantedShrinks DEF Accounts
<1> HIDE DEF i, b
<1> QED
  BY ONLY <1>2, <1>3, <1>4, <1>7, <1>8, GrantLockedAccounts DEF GrantLocked

(* A step that leaves the counts alone and moves no status in or out of those   *)
(* that hold capacity.                                                        *)
LEMMA IdleStepAccounts ==
  ASSUME Accounts, items' = items, bytes' = bytes,
         HeldIn(status') = HeldIn(status), GrantedIn(status') = GrantedIn(status)
  PROVE  Accounts'
BY DEF Accounts, Accounted, Within, HeldIn, GrantedIn

LEMMA ChargeAccounts ==
  ASSUME IInv, Accounts, NEW r \in Requests,
         status[r] \in {"new", "refused", "cancelled"}, Charge(r)
  PROVE  Accounts'
<1>1. Typed /\ status' = [status EXCEPT ![r] = "charged"]
  BY DEF IInv, Charge
<1>2. r \notin HeldIn(status) /\ HeldIn(status') = HeldIn(status) \cup {r}
  BY <1>1 DEF HeldIn, Typed
<1>3. GrantedIn(status') \subseteq GrantedIn(status)
  BY <1>1 DEF GrantedIn, Typed
<1>4. Accounted(items + Need[r].items, bytes + Need[r].bytes, status')
  BY <1>2, HoldingMore DEF Accounts
<1>5. Within(status')
  BY <1>3, GrantedShrinks DEF Accounts
<1> QED
  BY <1>4, <1>5 DEF Charge, Accounts, Accounted, Within, HeldIn, GrantedIn

LEMMA NextKeepsAccounts == IInv /\ Accounts /\ [Next]_vars => Accounts'
<1> SUFFICES ASSUME IInv, Accounts, [Next]_vars PROVE Accounts'
  OBVIOUS
<1>0. Typed
  BY DEF IInv
<1>1. ASSUME NEW r \in Requests, Make(r) PROVE Accounts'
  <2>1. CASE Reserve(r)
    BY <1>1, <2>1, ReserveAccounts DEF Make
  <2>2. CASE Refuse(r)
    <3>1. /\ status[r] = "new" /\ status' = [status EXCEPT ![r] = "refused"]
          /\ items' = items /\ bytes' = bytes
      BY <1>1, <2>2 DEF Make, Refuse
    <3>2. HeldIn(status') = HeldIn(status) /\ GrantedIn(status') = GrantedIn(status)
      BY <1>0, <3>1 DEF HeldIn, GrantedIn, Typed
    <3> QED
      BY <3>1, <3>2, IdleStepAccounts
  <2> QED
    BY <1>1, <2>1, <2>2 DEF Make
<1>2. ASSUME NEW r \in Requests, GiveUp(r) PROVE Accounts'
  <2>1. CASE CancelGranted(r)
    BY <2>1, ReturnAccounts DEF CancelGranted
  <2>2. CASE CancelWaiting(r)
    <3>1. /\ status[r] = "waiting" /\ status' = [status EXCEPT ![r] = "cancelled"]
          /\ items' = items /\ bytes' = bytes
      BY <2>2 DEF CancelWaiting
    <3>2. HeldIn(status') = HeldIn(status) /\ GrantedIn(status') = GrantedIn(status)
      BY <1>0, <3>1 DEF HeldIn, GrantedIn, Typed
    <3> QED
      BY <3>1, <3>2, IdleStepAccounts
  <2>3. CASE UNCHANGED vars
    BY <2>3, IdleStepAccounts DEF vars
  <2> QED
    BY <1>2, <2>1, <2>2, <2>3 DEF GiveUp, Cancel
<1>3. ASSUME NEW r \in Requests, ForceCharge(r) PROVE Accounts'
  BY <1>3, ChargeAccounts DEF ForceCharge
<1>4. ASSUME NEW r \in Requests, GiveBack(r) PROVE Accounts'
  BY <1>4, ReturnAccounts DEF GiveBack, Release
<1>5. CASE Close
  <2>1. /\ items' = items /\ bytes' = bytes
        /\ status' = [r \in Requests |->
                        IF ~closed /\ status[r] = "waiting" THEN "refused"
                        ELSE status[r]]
    BY <1>5 DEF Close
  <2>2. HeldIn(status') = HeldIn(status) /\ GrantedIn(status') = GrantedIn(status)
    BY <2>1 DEF HeldIn, GrantedIn
  <2> QED
    BY <2>1, <2>2, IdleStepAccounts
<1>6. CASE UNCHANGED vars
  BY <1>6, IdleStepAccounts DEF vars
<1> QED
  BY <1>1, <1>2, <1>3, <1>4, <1>5, <1>6 DEF Next

LEMMA SpecAccounts == Spec => []Accounts
<1>1. Init => IInv /\ Accounts
  BY InitIInv, InitAccounts
<1>2. (IInv /\ Accounts) /\ [Next]_vars => (IInv /\ Accounts)'
  BY NextKeepsIInv, NextKeepsAccounts
<1> QED
  BY <1>1, <1>2, PTL DEF Spec

(* Nothing leaks and nothing is counted twice: the items and bytes in use are   *)
(* the sum of what is held, and they exceed the ceiling only while something    *)
(* forced in by charge is held.                                               *)
THEOREM SpecCapacityAddsUp == Spec => []CapacityAddsUp
<1>1. ASSUME IInv, Accounts PROVE CapacityAddsUp
  <2>1. Held = HeldIn(status) /\ IsFiniteSet(Held)
    BY <1>1 DEF Held, HeldIn, Accounts, Accounted
  <2>2. Balanced
    BY <1>1, <2>1 DEF Balanced, Accounts, Accounted, ItemNeed, ByteNeed
  <2>3. ASSUME \A r \in Requests : status[r] # "charged"
        PROVE  items <= MaxItems /\ bytes <= MaxBytes
    <3>1. HeldIn(status) = GrantedIn(status)
      BY <2>3 DEF HeldIn, GrantedIn
    <3> QED
      BY <1>1, <3>1 DEF Accounts, Accounted, Within
  <2> QED
    BY <2>2, <2>3 DEF CapacityAddsUp, WithinCeiling
<1>2. IInv /\ Accounts => CapacityAddsUp
  BY <1>1
<1> QED
  BY <1>2, SpecIInv, SpecAccounts, PTL

(* release never panics: the counts are natural numbers.                      *)
THEOREM SpecTypeOK == Spec => []TypeOK
<1>1. ASSUME IInv, Accounts PROVE TypeOK
  <2> DEFINE held == HeldIn(status)
  <2>1. IsFiniteSet(held) /\ \A q \in held : ItemNeed[q] \in Nat /\ ByteNeed[q] \in Nat
    BY <1>1, NeedsTyped DEF Accounts, Accounted, HeldIn
  <2>2. items = SumFunctionOnSet(ItemNeed, held) /\ bytes = SumFunctionOnSet(ByteNeed, held)
    BY <1>1 DEF Accounts, Accounted
  <2> HIDE DEF held
  <2>3. items \in Nat /\ bytes \in Nat
    BY <2>1, <2>2, SumCounts
  <2> QED
    BY <1>1, <2>3 DEF TypeOK, IInv
<1>2. IInv /\ Accounts => TypeOK
  BY <1>1
<1> QED
  BY <1>2, SpecIInv, SpecAccounts, PTL
-----------------------------------------------------------------------------
(***************************************************************************)
(* What one call does to the reservation it is made for, and what it may do to *)
(* the others: grant or refuse those that wait, and nothing else.             *)
(***************************************************************************)
Settled(q) ==
  \/ status'[q] = status[q]
  \/ status[q] = "waiting" /\ status'[q] \in {"granted", "refused"}

Others(r) == \A q \in Requests : q # r => Settled(q)

(* grantLocked grants what waits in its queue and leaves every other status.   *)
LEMMA GrantLockedSettles ==
  ASSUME NEW ws \in Seq(Requests), NEW i \in Int, NEW b \in Int,
         NEW st \in [Requests -> Status],
         Queues(ws, st), GrantLocked(ws, i, b, st),
         NEW q \in Requests, status'[q] # st[q]
  PROVE  st[q] = "waiting" /\ status'[q] = "granted"
<1> DEFINE k == Servable(ws, i, b)
<1>1. k \in 0..Len(ws)
  BY ServableDefined
<1>2. status' = Granted(ws, k, st)
  BY DEF GrantLocked, Granted
<1> HIDE DEF k
<1>3. ASSUME NEW j \in 1..k, ws[j] = q PROVE st[q] = "waiting"
  <2>1. j \in 1..Len(ws)
    BY <1>1
  <2> QED
    BY <1>3, <2>1 DEF Queues
<1> QED
  BY <1>2, <1>3 DEF Granted

LEMMA ReserveSettles ==
  ASSUME IInv, NEW r \in Requests, status[r] = "new", Reserve(r)
  PROVE  status'[r] \in {"waiting", "granted"} /\ Others(r)
<1> DEFINE ws == Append(waiters, r)
           st == [status EXCEPT ![r] = "waiting"]
<1>1. Typed /\ Queues(waiters, status)
  BY QueueIsWaitingQueues DEF IInv
<1>2. ws \in Seq(Requests) /\ st \in [Requests -> Status] /\ Queues(ws, st)
  BY <1>1, AppendingKeepsQueues DEF Typed
<1>3. st[r] = "waiting" /\ \A q \in Requests : q # r => st[q] = status[q]
  BY <1>1 DEF Typed
<1>4. GrantLocked(ws, items, bytes, st) /\ items \in Int /\ bytes \in Int
  BY <1>1 DEF Reserve, Typed
<1> HIDE DEF ws, st
<1>5. ASSUME NEW q \in Requests, status'[q] # st[q]
      PROVE  st[q] = "waiting" /\ status'[q] = "granted"
  BY ONLY <1>2, <1>4, <1>5, GrantLockedSettles
<1> QED
  BY <1>3, <1>5 DEF Others, Settled

LEMMA ReturnSettles ==
  ASSUME IInv, NEW r \in Requests, NEW s \in {"cancelled", "released"},
         status[r] # "waiting",
         GrantLocked(waiters, items - Need[r].items, bytes - Need[r].bytes,
                     [status EXCEPT ![r] = s])
  PROVE  status'[r] = s /\ Others(r)
<1> DEFINE st == [status EXCEPT ![r] = s]
           i  == items - Need[r].items
           b  == bytes - Need[r].bytes
<1>1. Typed /\ Queues(waiters, status) /\ s \in Status /\ s # "waiting"
  BY QueueIsWaitingQueues DEF IInv, Status
<1>2. /\ waiters \in Seq(Requests) /\ st \in [Requests -> Status]
      /\ Queues(waiters, st)
  BY <1>1, MarkingKeepsQueues DEF Typed
<1>3. i \in Int /\ b \in Int
  BY <1>1, BudgetAssumption DEF Typed
<1>4. GrantLocked(waiters, i, b, st)
  OBVIOUS
<1>5. st[r] = s /\ \A q \in Requests : q # r => st[q] = status[q]
  BY <1>1 DEF Typed
<1> HIDE DEF st, i, b
<1>6. ASSUME NEW q \in Requests, status'[q] # st[q]
      PROVE  st[q] = "waiting" /\ status'[q] = "granted"
  BY ONLY <1>2, <1>3, <1>4, <1>6, GrantLockedSettles
<1> QED
  BY <1>1, <1>5, <1>6 DEF Others, Settled

(* The calls of the protocol, one by one.                                     *)
LEMMA CallsSettle ==
  ASSUME IInv, NEW r \in Requests
  PROVE  /\ status[r] = "new" /\ Reserve(r) =>
              status'[r] \in {"waiting", "granted"} /\ Others(r)
         /\ Refuse(r) => status'[r] = "refused" /\ Others(r)
         /\ status[r] \in {"waiting", "granted", "refused"} /\ Cancel(r) =>
              status'[r] \in {"cancelled", "refused"} /\ Others(r)
         /\ Charge(r) => status'[r] = "charged" /\ Others(r)
         /\ status[r] \in {"granted", "charged"} /\ Release(r) =>
              status'[r] = "released" /\ Others(r)
<1>0. Typed
  BY DEF IInv
<1>1. ASSUME NEW s \in {"refused", "cancelled", "charged"},
             status' = [status EXCEPT ![r] = s]
      PROVE  status'[r] = s /\ Others(r)
  BY <1>0, <1>1 DEF Typed, Others, Settled
<1>2. ASSUME CancelWaiting(r) \/ (status[r] = "refused" /\ UNCHANGED vars)
      PROVE  status'[r] \in {"cancelled", "refused"} /\ Others(r)
  BY <1>1, <1>2 DEF CancelWaiting, vars, Others, Settled
<1>3. ASSUME CancelGranted(r)
      PROVE  status'[r] = "cancelled" /\ Others(r)
  BY <1>3, ReturnSettles DEF CancelGranted
<1>4. ASSUME status[r] \in {"granted", "charged"}, Release(r)
      PROVE  status'[r] = "released" /\ Others(r)
  BY <1>4, ReturnSettles DEF Release
<1> QED
  BY <1>1, <1>2, <1>3, <1>4, ReserveSettles DEF Refuse, Cancel, Charge

LEMMA CloseSettles == ASSUME Close PROVE \A q \in Requests : Settled(q)
BY DEF Close, Settled

(* What a step grants, it grants under the ceiling: nothing is granted by a step *)
(* that leaves more in use than the ceiling allows.                           *)
GrantFits ==
  (\E q \in Requests : status'[q] = "granted" /\ status[q] # "granted")
    => items' <= MaxItems /\ bytes' <= MaxBytes

LEMMA GrantLockedFits ==
  ASSUME NEW ws \in Seq(Requests), NEW i \in Int, NEW b \in Int,
         NEW st \in [Requests -> Status], GrantLocked(ws, i, b, st),
         NEW q \in Requests, status'[q] = "granted", st[q] # "granted"
  PROVE  items' <= MaxItems /\ bytes' <= MaxBytes
<1> DEFINE k == Servable(ws, i, b)
<1>1. k \in 0..Len(ws) /\ IsServable(ws, i, b, k)
  BY ServableDefined
<1>2. /\ items' = i + ItemLoad(ws)[k] /\ bytes' = b + ByteLoad(ws)[k]
      /\ status' = Granted(ws, k, st)
  BY DEF GrantLocked, Granted
<1> HIDE DEF k
<1>3. k # 0
  BY <1>2 DEF Granted
<1> QED
  BY <1>1, <1>2, <1>3 DEF IsServable, Fits

LEMMA NextGrantFits == IInv /\ [Next]_vars => GrantFits
<1> SUFFICES ASSUME IInv, [Next]_vars,
                    NEW q \in Requests, status'[q] = "granted", status[q] # "granted"
             PROVE  items' <= MaxItems /\ bytes' <= MaxBytes
  BY DEF GrantFits
<1>0. Typed
  BY DEF IInv
<1>1. ASSUME NEW r \in Requests, Reserve(r)
      PROVE  items' <= MaxItems /\ bytes' <= MaxBytes
  <2> DEFINE ws == Append(waiters, r)
             st == [status EXCEPT ![r] = "waiting"]
  <2>1. /\ ws \in Seq(Requests) /\ items \in Int /\ bytes \in Int
        /\ st \in [Requests -> Status]
    BY <1>0 DEF Typed, Status
  <2>2. GrantLocked(ws, items, bytes, st) /\ st[q] # "granted"
    BY <1>0, <1>1 DEF Reserve, Typed
  <2> HIDE DEF ws, st
  <2> QED
    BY ONLY ZenonT(60), <2>1, <2>2, status'[q] = "granted", q \in Requests, GrantLockedFits
       DEF GrantLocked
<1>2. ASSUME NEW r \in Requests, NEW s \in {"cancelled", "released"},
             GrantLocked(waiters, items - Need[r].items, bytes - Need[r].bytes,
                         [status EXCEPT ![r] = s])
      PROVE  items' <= MaxItems /\ bytes' <= MaxBytes
  <2> DEFINE i == items - Need[r].items
             b == bytes - Need[r].bytes
             st == [status EXCEPT ![r] = s]
  <2>1. /\ waiters \in Seq(Requests) /\ i \in Int /\ b \in Int
        /\ st \in [Requests -> Status]
    BY <1>0, BudgetAssumption DEF Typed, Status
  <2>2. GrantLocked(waiters, i, b, st) /\ st[q] # "granted"
    BY <1>0, <1>2 DEF Typed
  <2> HIDE DEF i, b, st
  <2> QED
    BY ONLY <2>1, <2>2, status'[q] = "granted", q \in Requests, GrantLockedFits
       DEF GrantLocked
<1>3. ASSUME NEW r \in Requests, NEW s \in {"refused", "cancelled", "charged"},
             status' = [status EXCEPT ![r] = s]
      PROVE  FALSE
  BY <1>0, <1>3 DEF Typed
<1>4. ~Close /\ ~UNCHANGED vars
  BY DEF Close, vars
<1> QED
  BY <1>1, <1>2, <1>3, <1>4
     DEF Next, Make, GiveUp, ForceCharge, GiveBack, Refuse, Cancel, CancelGranted,
         CancelWaiting, Charge, Release
-----------------------------------------------------------------------------
(* Where every reservation asks for an item, what is held outnumbers any        *)
(* queue of the held that leaves one of them out.                             *)
LEMMA HeldOutnumber ==
  ASSUME Accounts, \A r \in Requests : Need[r].items >= 1,
         NEW s \in Seq(Requests), NEW q \in Requests, q \in Held,
         \A k \in 1..Len(s) : s[k] \in Held /\ s[k] # q,
         \A j, k \in 1..Len(s) : s[j] = s[k] => j = k
  PROVE  items \in Int /\ Len(s) < items
<1> DEFINE n == Len(s)
           held == HeldIn(status)
           f == [k \in 1..(n + 1) |-> IF k = n + 1 THEN q ELSE s[k]]
<1>1. n \in Nat /\ held = Held
  BY DEF HeldIn, Held
<1>2. IsFiniteSet(held) /\ items = SumFunctionOnSet(ItemNeed, held)
  BY DEF Accounts, Accounted
<1>3. \A r \in held : ItemNeed[r] \in Nat /\ ItemNeed[r] >= 1
  BY NeedsTyped DEF HeldIn
<1>4. \A k \in 1..(n + 1) : k # n + 1 => k \in 1..n
  BY <1>1
<1>5. f \in [1..(n + 1) -> held]
  BY <1>1, <1>4
<1>6. \A j, k \in 1..(n + 1) : f[j] = f[k] => j = k
  BY <1>4
<1> HIDE DEF f, held
<1>7. f \in Injection(1..(n + 1), held)
  BY <1>5, <1>6 DEF Injection, IsInjective
<1>8. Cardinality(1..(n + 1)) <= Cardinality(held)
  BY <1>2, <1>7, FS_Injection
<1>9. Cardinality(1..(n + 1)) = n + 1
  <2>1. 1 \in Int /\ n + 1 \in Int /\ ~(1 > n + 1)
    BY <1>1
  <2> QED
    BY <2>1, FS_Interval
<1>10. items \in Nat /\ Cardinality(held) <= items
  BY <1>2, <1>3, SumCounts
<1>11. Cardinality(held) \in Nat
  BY <1>2, FS_CardinalityType
<1> QED
  BY <1>1, <1>8, <1>9, <1>10, <1>11
=============================================================================
