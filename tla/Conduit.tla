------------------------------ MODULE Conduit ------------------------------
(***************************************************************************)
(* The byte stage between a transport and the pumps of a stream              *)
(* (conduit.go), as a value: the units in transit towards it, the read       *)
(* buffer, what the reader has taken out of the buffer and not yet           *)
(* transformed, the count it last published, and the two ciphers.            *)
(*                                                                         *)
(* A frame travels as two units, its length and its payload, which is what   *)
(* ReadFrame asks for one after the other; a unit says whether it was        *)
(* enciphered when it was written.  The transport may deliver any number of   *)
(* units to one read.                                                        *)
(***************************************************************************)
EXTENDS Naturals, Sequences

NewConduit ==
  [wire |-> <<>>, buffered |-> <<>>, inHand |-> <<>>, pending |-> 0,
   decrypt |-> FALSE, encrypt |-> FALSE]

Units(frame, enciphered) ==
  <<[frame |-> frame, part |-> "length", enciphered |-> enciphered],
    [frame |-> frame, part |-> "payload", enciphered |-> enciphered]>>

(* Write, as the receiving conduit sees it: the cipher active when Write is   *)
(* called covers the whole frame.                                            *)
Receive(conduit, sender, frame) ==
  [conduit EXCEPT !.wire = @ \o Units(frame, sender.encrypt)]

(* Read, up to the lock.  An empty buffer is filled by one transport read,    *)
(* which returns the first n units in transit.                               *)
CanRead(conduit) ==
  conduit.inHand = <<>> /\ (conduit.buffered # <<>> \/ conduit.wire # <<>>)

ReadAheads(conduit) ==
  IF conduit.buffered = <<>> THEN 1..Len(conduit.wire) ELSE {0}

BufferedRead(conduit, n) ==
  LET held == conduit.buffered \o SubSeq(conduit.wire, 1, n)
  IN  [conduit EXCEPT !.wire     = SubSeq(@, n + 1, Len(@)),
                      !.inHand   = <<Head(held)>>,
                      !.buffered = Tail(held)]

(* Read, from the lock on: what it hands out is readable only if the cipher   *)
(* active now is the one it was written under.                               *)
HandOut(conduit) ==
  [conduit EXCEPT !.inHand = <<>>, !.pending = Len(conduit.buffered)]

HandsOutClear(conduit) ==
  Head(conduit.inHand).enciphered = conduit.decrypt

(* EnableReadEncryption, EnableWriteEncryption and EnableEncryption: the      *)
(* answer, and the conduit after it.                                         *)
Switchable(conduit) == IF conduit.pending > 0 THEN "overrun" ELSE "ok"

EnableAnswer(conduit, half) ==
  CASE half = "inbound"  -> IF conduit.decrypt THEN "enabled"
                            ELSE Switchable(conduit)
    [] half = "outbound" -> IF conduit.encrypt THEN "enabled" ELSE "ok"
    [] half = "both"     -> IF conduit.decrypt \/ conduit.encrypt THEN "enabled"
                            ELSE Switchable(conduit)

Enable(conduit, half) ==
  IF EnableAnswer(conduit, half) # "ok" THEN conduit
  ELSE [conduit EXCEPT !.decrypt = @ \/ half \in {"inbound", "both"},
                       !.encrypt = @ \/ half \in {"outbound", "both"}]
=============================================================================
