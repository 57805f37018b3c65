------------------------------ MODULE MCStream ------------------------------
(* Stream on a few packets.  A configuration picks which of them the peer and *)
(* the callers send, so that each run has the interleavings its question needs. *)
EXTENDS Stream

CONSTANTS a, b, c, v, w, bye   (* inbound a, b, c; outbound v, w; disconnect *)

OneArrival    == <<a>>
TwoArrivals   == <<a, b>>
ThreeArrivals == <<a, b, c>>
SmallAndLarge == <<a, c>>

(* Payloads of one byte, b of two, and c and v larger than any budget here. *)
Sizes == [p \in Packets |-> CASE p = b -> 2 [] p \in {c, v} -> 4 [] OTHER -> 1]
=============================================================================
