------------------------------- MODULE History -------------------------------
(***************************************************************************)
(* The history ring (history/ring.go), which keeps the latest observations     *)
(* under a bound on their number and one on their bytes, as the second of the   *)
(* two sinks of a MultiSink (capture/multi_sink.go) whose first may fail.  A     *)
(* stream ends with the first observation that a sink refuses; this one may be   *)
(* observed further, as a caller of the sink could.                            *)
(*                                                                         *)
(* An observation is its size; its sequence number is its place in `offered`.   *)
(***************************************************************************)
EXTENDS Naturals, Sequences, FiniteSetsExt, Functions

CONSTANTS
  Sizes,          (* sizes of observations                                  *)
  MaxRecords,     (* Ring.maxRecords                                        *)
  MaxBytes,       (* Ring.maxBytes                                          *)
  MaxOffered      (* bound: observations offered                            *)

HistoryAssumption ==
  /\ Sizes \subseteq Nat /\ MaxOffered \in Nat
  /\ MaxRecords \in Nat \ {0} /\ MaxBytes \in Nat \ {0}

VARIABLES
  offered,    (* history: sizes of the observations given to the MultiSink   *)
  kept,       (* sequence numbers of what the first sink accepted             *)
  records,    (* Ring.records, as sequence numbers, oldest first              *)
  bytes,      (* Ring.bytes                                                 *)
  dropped     (* Ring.dropped                                               *)

vars == <<offered, kept, records, bytes, dropped>>

Init ==
  offered = <<>> /\ kept = <<>> /\ records = <<>> /\ bytes = 0 /\ dropped = 0

(* What the ring has after the loop of Observe has dropped the first n of held.  *)
Load(held, sizes, n) ==
  SumFunctionOnSet(sizes, {held[i] : i \in (n + 1)..Len(held)})

(* Faulty: a record larger than the bound is dropped as well.                  *)
FitsStrict(held, sizes, n) ==
  /\ Len(held) - n <= MaxRecords
  /\ Load(held, sizes, n) <= MaxBytes

(* The loop's condition is false: both bounds hold, or one outsized record is    *)
(* left.                                                                      *)
Fits(held, sizes, n) ==
  /\ Len(held) - n <= MaxRecords
  /\ Load(held, sizes, n) <= MaxBytes \/ Len(held) - n <= 1

(* The loop stops as soon as its condition is false.                          *)
Drops(held, sizes) == Min({n \in 0..Len(held) : Fits(held, sizes, n)})

(* Ring.Observe of the last of sizes.                                         *)
RingObserves(sizes) ==
  LET held == Append(records, Len(sizes))
      n    == Drops(held, sizes)
  IN  /\ records' = SubSeq(held, n + 1, Len(held))
      /\ bytes' = Load(held, sizes, n)
      /\ dropped' = dropped + n

(* MultiSink.Observe: the ring is given what the first sink has accepted.       *)
Observe(size) ==
  /\ Len(offered) < MaxOffered
  /\ offered' = Append(offered, size)
  /\ \/ kept' = Append(kept, Len(offered')) /\ RingObserves(offered')
     \/ UNCHANGED <<kept, records, bytes, dropped>>

Next == \E size \in Sizes : Observe(size)

Spec == Init /\ [][Next]_vars
-----------------------------------------------------------------------------
(* Ring.bytes is what the records kept come to.                               *)
TypeOK ==
  /\ Len(offered) <= MaxOffered
  /\ bytes = Load(records, offered, 0)
  /\ dropped <= Len(offered)

(* The ring is a window on the first sink's log: what it keeps is the end of       *)
(* it, and what it says it dropped is all the rest (ring.go:99-100: "the number   *)
(* that says whether a snapshot is the whole story").                          *)
WindowOnTheLog ==
  /\ dropped + Len(records) = Len(kept)
  /\ records = SubSeq(kept, dropped + 1, Len(kept))

(* Both bounds hold except for one outsized record kept alone, the latest is      *)
(* always there, and nothing is dropped that there was room for: with the record  *)
(* dropped last the ring would be over a bound (ring.go:68-78).                *)
AsMuchAsFits ==
  /\ Len(records) <= MaxRecords
  /\ bytes <= MaxBytes \/ Len(records) = 1
  /\ kept # <<>> => Len(records) > 0
  /\ dropped > 0 => \/ Len(records) + 1 > MaxRecords
                    \/ bytes + offered[kept[dropped]] > MaxBytes
=============================================================================
