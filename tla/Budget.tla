------------------------------- MODULE Budget -------------------------------
(***************************************************************************)
(* The shared item and byte allowance of a stream (stream_budget.go): one  *)
(* mutex-protected counter pair and one FIFO queue of reservations.  Each   *)
(* method runs under budget.mu, so each is one atomic step here; what the   *)
(* callers do between two calls is theirs to interleave.                    *)
(*                                                                         *)
(* A reservation is named by a member of Requests and is made at most once. *)
(* status[r] is what its budgetWaiter records (granted, err, ready), with   *)
(* "charged" and "released" added for what the caller does with it next.    *)
(***************************************************************************)
EXTENDS Integers, Sequences, SequencesExt, PrefixSums

CONSTANTS
  Requests,   (* the reservations ever made                                 *)
  Need,       (* what each asks for: [Requests -> [items, bytes : Nat]]      *)
  MaxItems,   (* budget.maxItems                                            *)
  MaxBytes    (* budget.maxBytes                                            *)

ASSUME BudgetAssumption ==
  /\ MaxItems \in Nat
  /\ MaxBytes \in Nat
  /\ Need \in [Requests -> [items : Nat, bytes : Nat]]

VARIABLES
  items,      (* budget.items: items in use                                 *)
  bytes,      (* budget.bytes: bytes in use                                 *)
  waiters,    (* budget.waiters: pending reservations, oldest first         *)
  closed,     (* budget.closed # nil                                        *)
  status      (* what became of each reservation                            *)

vars == <<items, bytes, waiters, closed, status>>

Status ==
  {"new", "waiting", "granted", "refused", "cancelled", "charged", "released"}

(* Capacity a caller has and must give back. *)
Held == {r \in Requests : status[r] \in {"granted", "charged"}}

Init ==
  /\ items = 0
  /\ bytes = 0
  /\ waiters = <<>>
  /\ closed = FALSE
  /\ status = [r \in Requests |-> "new"]
-----------------------------------------------------------------------------
(* ItemLoad(ws)[k] and ByteLoad(ws)[k] are what the first k reservations of   *)
(* ws ask for together.                                                      *)
ItemLoad(ws) == PrefixSum([k \in 1..Len(ws) |-> Need[ws[k]].items])
ByteLoad(ws) == PrefixSum([k \in 1..Len(ws) |-> Need[ws[k]].bytes])

Fits(i, b) == i <= MaxItems /\ b <= MaxBytes

(* How many waiters the loop of grantLocked serves before a head that does  *)
(* not fit stops it: the longest prefix whose every member fits in turn.    *)
IsServable(ws, i, b, k) ==
  \A j \in 1..k : Fits(i + ItemLoad(ws)[j], b + ByteLoad(ws)[j])

(* Faulty: only the head is served, however much now fits. *)
ServeHeadOnly(ws, i, b) ==
  IF Len(ws) > 0 /\ IsServable(ws, i, b, 1) THEN 1 ELSE 0

Servable(ws, i, b) ==
  CHOOSE k \in 0..Len(ws) :
    /\ IsServable(ws, i, b, k)
    /\ k < Len(ws) => ~IsServable(ws, i, b, k + 1)

(* grantLocked on queue ws with i items and b bytes in use and statuses st. *)
GrantLocked(ws, i, b, st) ==
  LET k == Servable(ws, i, b)
  IN  /\ waiters' = SubSeq(ws, k + 1, Len(ws))
      /\ items' = i + ItemLoad(ws)[k]
      /\ bytes' = b + ByteLoad(ws)[k]
      /\ status' = [r \in Requests |->
                      IF \E j \in 1..k : ws[j] = r THEN "granted" ELSE st[r]]
-----------------------------------------------------------------------------
(* Faulty: what can never fit is queued all the same. *)
NeverTooLarge(r) == FALSE

(* reserve returns an error and no waiter. *)
TooLarge(r) == ~Fits(Need[r].items, Need[r].bytes)

Refuses(r) == closed \/ TooLarge(r)

(* Faulty: the newest reservation goes to the head of the queue. *)
ReserveAtHead(r) ==
  /\ ~Refuses(r)
  /\ GrantLocked(<<r>> \o waiters, items, bytes,
                 [status EXCEPT ![r] = "waiting"])
  /\ UNCHANGED closed

(* reserve: a newcomer joins the queue and the queue is served. *)
Reserve(r) ==
  /\ ~Refuses(r)
  /\ GrantLocked(Append(waiters, r), items, bytes,
                 [status EXCEPT ![r] = "waiting"])
  /\ UNCHANGED closed

Refuse(r) ==
  /\ Refuses(r)
  /\ status' = [status EXCEPT ![r] = "refused"]
  /\ UNCHANGED <<items, bytes, waiters, closed>>

(* Faulty: the capacity granted in the lost race leaks. *)
CancelGrantedLeaks(r) ==
  /\ status[r] = "granted"
  /\ status' = [status EXCEPT ![r] = "cancelled"]
  /\ UNCHANGED <<items, bytes, waiters, closed>>

(* cancel.  A granted reservation is refunded and the queue served; one that *)
(* still waits is only taken out of the queue; one the close already refused *)
(* is left alone.                                                            *)
CancelGranted(r) ==
  /\ status[r] = "granted"
  /\ GrantLocked(waiters, items - Need[r].items, bytes - Need[r].bytes,
                 [status EXCEPT ![r] = "cancelled"])
  /\ UNCHANGED closed

(* Faulty: the cancelled reservation stays in the queue. *)
CancelWaitingStays(r) ==
  /\ status[r] = "waiting"
  /\ status' = [status EXCEPT ![r] = "cancelled"]
  /\ UNCHANGED <<items, bytes, waiters, closed>>

CancelWaiting(r) ==
  /\ status[r] = "waiting"
  /\ \E k \in 1..Len(waiters) :
       waiters[k] = r /\ waiters' = RemoveAt(waiters, k)
  /\ status' = [status EXCEPT ![r] = "cancelled"]
  /\ UNCHANGED <<items, bytes, closed>>

Cancel(r) ==
  \/ CancelGranted(r)
  \/ CancelWaiting(r)
  \/ status[r] = "refused" /\ UNCHANGED vars

(* charge: no ceiling and no queue, not even on a closed budget. *)
Charge(r) ==
  /\ items' = items + Need[r].items
  /\ bytes' = bytes + Need[r].bytes
  /\ status' = [status EXCEPT ![r] = "charged"]
  /\ UNCHANGED <<waiters, closed>>

Release(r) ==
  /\ GrantLocked(waiters, items - Need[r].items, bytes - Need[r].bytes,
                 [status EXCEPT ![r] = "released"])
  /\ UNCHANGED closed

(* close: only the first call does anything. *)
Close ==
  /\ status' = [r \in Requests |->
                  IF ~closed /\ status[r] = "waiting" THEN "refused"
                  ELSE status[r]]
  /\ closed' = TRUE
  /\ waiters' = IF closed THEN waiters ELSE <<>>
  /\ UNCHANGED <<items, bytes>>
-----------------------------------------------------------------------------
(***************************************************************************)
(* The callers' protocol: a reservation is made once, cancelled only by the *)
(* call that waits for it, charged only when it was not granted, and         *)
(* released once by whoever holds it.  Stream is shown to keep it.           *)
(***************************************************************************)
Make(r)     == status[r] = "new" /\ (Reserve(r) \/ Refuse(r))
GiveUp(r)   == status[r] \in {"waiting", "granted", "refused"} /\ Cancel(r)
ForceCharge(r)    == status[r] \in {"new", "refused", "cancelled"} /\ Charge(r)
GiveBack(r) == status[r] \in {"granted", "charged"} /\ Release(r)

Next ==
  \/ \E r \in Requests : Make(r) \/ GiveUp(r) \/ ForceCharge(r) \/ GiveBack(r)
  \/ Close

Spec == Init /\ [][Next]_vars

(* Whoever holds capacity returns it in the end: Read, the dispatcher and    *)
(* processWrite release what they took.                                      *)
FairSpec == Spec /\ \A r \in Requests : WF_vars(GiveBack(r))
-----------------------------------------------------------------------------
Typed ==
  /\ items \in Int
  /\ bytes \in Int
  /\ waiters \in Seq(Requests)
  /\ closed \in BOOLEAN
  /\ status \in [Requests -> Status]

(* The counts are natural numbers: release panics when one would not be        *)
(* (stream_budget.go:190-192).                                                *)
TypeOK == Typed /\ items >= 0 /\ bytes >= 0

(* What is in use is what is held, to the item and to the byte: no race       *)
(* between a grant and a cancellation leaks capacity, or returns it twice     *)
(* (stream_budget.go:94-95).                                                 *)
Balanced ==
  /\ items = SumFunctionOnSet([r \in Requests |-> Need[r].items], Held)
  /\ bytes = SumFunctionOnSet([r \in Requests |-> Need[r].bytes], Held)

(* The queue holds exactly the reservations that wait, each once, so ready    *)
(* is closed once per waiter (closing it twice would panic), and a closed      *)
(* budget keeps nobody waiting.                                              *)
QueueIsWaiting ==
  /\ \A r \in Requests :
       status[r] = "waiting" <=> \E k \in 1..Len(waiters) : waiters[k] = r
  /\ \A j, k \in 1..Len(waiters) : waiters[j] = waiters[k] => j = k
  /\ closed => waiters = <<>>

(* The configured ceiling is the whole stream's ceiling: only a forced        *)
(* charge steps over it (stream_budget.go:9-12, 166-174).                    *)
WithinCeiling ==
  (\A r \in Requests : status[r] # "charged")
    => items <= MaxItems /\ bytes <= MaxBytes

(* Together: the counters neither leak nor run over.                          *)
CapacityAddsUp == Balanced /\ WithinCeiling

(* Strict arrival order: no reservation is granted while an older one waits  *)
(* on, whether it was queued behind it or has only just been made             *)
(* (stream_budget.go:14-16).                                                 *)
NoBarging ==
  [][/\ \A j, k \in 1..Len(waiters) :
          (j < k /\ status'[waiters[k]] = "granted")
             => status'[waiters[j]] # "waiting"
     /\ \A r \in Requests, j \in 1..Len(waiters) :
          (status[r] = "new" /\ status'[r] = "granted")
             => status'[waiters[j]] # "waiting"]_vars

(* A queued reservation waits because it does not fit: the head of the queue   *)
(* never asks for what is free (stream_budget.go:14-16, 78).                  *)
HeadDoesNotFit ==
  waiters # <<>> => ~Fits(items + Need[Head(waiters)].items,
                          bytes + Need[Head(waiters)].bytes)

(* Returning capacity wakes whatever now fits (stream_budget.go:183): after a *)
(* step that lowered the use or lengthened the queue, the head does not fit. *)
WakesWhatFits ==
  [][(items' < items \/ bytes' < bytes \/ Len(waiters') > Len(waiters))
        => HeadDoesNotFit']_vars

(* No reservation waits for ever while holders return what they hold: a large *)
(* one is not starved by smaller ones (stream_budget.go:14-16).              *)
EveryWaiterAnswered ==
  \A r \in Requests : status[r] = "waiting" ~> status[r] # "waiting"
=============================================================================
