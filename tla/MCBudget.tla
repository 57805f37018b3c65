------------------------------ MODULE MCBudget ------------------------------
(* Budget on a ceiling of two items and three bytes, for five reservations: *)
(* two small packets, one as large as the whole budget, one write (an item   *)
(* and no byte) and one observation that never fits.                         *)
EXTENDS Budget

MCRequests == {"small", "other", "large", "write", "huge"}

MCNeed ==
  [r \in MCRequests |->
     CASE r \in {"small", "other"} -> [items |-> 1, bytes |-> 1]
       [] r = "large" -> [items |-> 1, bytes |-> 3]
       [] r = "write" -> [items |-> 1, bytes |-> 0]
       [] r = "huge"  -> [items |-> 1, bytes |-> 4]]
=============================================================================
