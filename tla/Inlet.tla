-------------------------------- MODULE Inlet --------------------------------
(***************************************************************************)
(* A running stream as the one who reads it sees it (stream_runtime.go): frames  *)
(* of a peer that may be malformed, the one packet that is decoded and has no     *)
(* place in the queue yet, those that wait to be read, and an end with its first   *)
(* cause, at which packets may be lost.  Module Stream has what is inside.        *)
(*                                                                         *)
(* What matters of a failure here is what it wraps.  A frame that ends where a    *)
(* field begins fails with io.EOF at the bottom (wire/java/varint.go:15-16,       *)
(* buffer.go:374-376), like a peer that closed the connection; one that ends      *)
(* inside a field, is malformed otherwise, or is larger than the whole queue does  *)
(* not.                                                                      *)
(***************************************************************************)
EXTENDS Integers, Sequences

VARIABLES
  transit,  (* frames on their way                                          *)
  peer,     (* "here", or how it went                                        *)
  held,     (* the packet the coordinator has pending, a sequence of at most one  *)
  inbox,    (* decoded packets nobody has read                               *)
  cause,    (* the first fatal cause, or "none"                              *)
  phase,    (* "running", "stopping", "left" by the coordinator, "done"          *)
  arrived   (* history: every packet that was decoded                         *)

inlet == <<transit, peer, held, inbox, cause, phase, arrived>>

Connected ==
  /\ transit = <<>> /\ peer = "here" /\ held = <<>> /\ inbox = <<>>
  /\ cause = "none" /\ phase = "running" /\ arrived = <<>>

FirstCause(why) == cause' = IF phase = "running" THEN why ELSE cause

(* fail and stop, by anybody but the coordinator.                               *)
Ends(why) ==
  /\ FirstCause(why)
  /\ phase' = IF phase = "running" THEN "stopping" ELSE phase

(* What the coordinator itself fails at, or a shutdown: it returns there and then,   *)
(* whatever it held.                                                          *)
Breaks(why) ==
  /\ FirstCause(why)
  /\ phase' = "left" /\ held' = <<>>

PeerSends(kind, fate) ==
  /\ peer = "here"
  /\ transit' = Append(transit, [kind |-> kind, fate |-> fate])
  /\ UNCHANGED <<peer, held, inbox, cause, phase, arrived>>

PeerGoes(how) ==
  /\ peer = "here" /\ peer' = how
  /\ UNCHANGED <<transit, held, inbox, cause, phase, arrived>>

(* The stop is only one of the channels that the coordinator selects from.        *)
Coordinating == phase \in {"running", "stopping"}

(* decodeInbound, with what coordinate does when it fails.                     *)
Decodes ==
  /\ Coordinating /\ held = <<>> /\ transit # <<>>
  /\ transit' = Tail(transit)
  /\ IF Head(transit).fate = "whole"
       THEN /\ held' = <<Head(transit).kind>>
            /\ arrived' = Append(arrived, Head(transit).kind)
            /\ UNCHANGED <<cause, phase>>
       ELSE Breaks(Head(transit).fate) /\ UNCHANGED arrived
  /\ UNCHANGED <<peer, inbox>>

(* The queue has room for the packet: its grant, and at the stop deliverArrival.     *)
Queues ==
  /\ Coordinating /\ held # <<>>
  /\ inbox' = inbox \o held /\ held' = <<>>
  /\ UNCHANGED <<transit, peer, cause, phase, arrived>>

(* deliverArrival finds the queue full.                                         *)
Drops ==
  /\ phase = "stopping" /\ held # <<>> /\ inbox # <<>>
  /\ held' = <<>>
  /\ UNCHANGED <<transit, peer, inbox, cause, phase, arrived>>

(* The coordinator returns for a stop: with handOff, for which the queue may be full,  *)
(* or without, when a grant was refused or a write failed on it.                     *)
Leaves ==
  /\ phase = "stopping" /\ phase' = "left"
  /\ held' = <<>> /\ inbox' \in {inbox, inbox \o held}
  /\ UNCHANGED <<transit, peer, cause, arrived>>

(* reportReadFailure, behind the last frame: a connection that is reset may lose   *)
(* what was still in transit.                                                 *)
SeesThePeerGo ==
  /\ phase = "running" /\ peer # "here"
  /\ transit = <<>> \/ peer = "resets"
  /\ Ends(peer)
  /\ UNCHANGED <<transit, peer, held, inbox, arrived>>

(* Read of what is queued.                                                    *)
TakesPacket ==
  /\ inbox # <<>> /\ inbox' = Tail(inbox)
  /\ UNCHANGED <<transit, peer, held, cause, phase, arrived>>

(* errors.Is(err, io.EOF) of the error that Read or Wait returns.                *)
IsEOF(why) == why \in {"none", "leaves", "short"}

Undecodable == {"short", "wrong"}
-----------------------------------------------------------------------------
(* What is left of t when some of it is taken out.                              *)
IsSubsequence(s, t) ==
  \E f \in [DOMAIN s -> DOMAIN t] :
    /\ \A i, j \in DOMAIN s : i < j => f[i] < f[j]
    /\ \A i \in DOMAIN s : s[i] = t[f[i]]

(* What was read so far is what arrived, in its order and nothing twice: while the    *)
(* stream runs all of it but what waits to be read, and whatever is lost is lost      *)
(* only when it ends (stream_runtime.go 234-262, 286-333).                        *)
ReadsInOrder(read) ==
  /\ phase = "running" => read \o inbox \o held = arrived
  /\ IsSubsequence(read \o inbox, arrived)
=============================================================================
