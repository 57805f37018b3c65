------------------------------- MODULE Duplex -------------------------------
(***************************************************************************)
(* What a managed stream promises to those who read and write it (the comments    *)
(* on Read, Write, Shutdown and Wait in stream.go and stream_runtime.go): inbound   *)
(* packets in order and without repetition, and without a gap too for as long as    *)
(* nothing has stopped the stream; an answer to every Write that can be relied on   *)
(* for ever after; a disconnect that is the last word; and an end after which       *)
(* nothing reaches the peer.  Goroutines, queues and capacity do not show.        *)
(***************************************************************************)
EXTENDS Naturals, Sequences, SequencesExt

CONSTANTS
  Inbound,   (* the packets the peer sends, in order                            *)
  Writes,    (* the packets of the Write calls                                 *)
  Bye        (* the disconnect                                                *)

VARIABLES
  delivered,   (* what Read has returned                                        *)
  wire,        (* what the peer has been sent                                   *)
  told,        (* what each Write call returned, or "none"                       *)
  ending,      (* something has stopped the stream                               *)
  over         (* the stream has terminated                                     *)

promises == <<delivered, wire, told, ending, over>>

Init ==
  /\ delivered = <<>> /\ wire = <<>>
  /\ told = [w \in Writes |-> "none"]
  /\ ending = FALSE /\ over = FALSE

(* Read drains what is queued before it reports the end.  Of what still arrives    *)
(* while the stream stops, a queue without room loses some.                      *)
Deliver ==
  /\ \E k \in 1..Len(Inbound) :
       /\ \A d \in 1..Len(delivered) : \E j \in 1..(k - 1) : delivered[d] = Inbound[j]
       /\ ~ending => k = Len(delivered) + 1
       /\ delivered' = Append(delivered, Inbound[k])
  /\ UNCHANGED <<wire, told, ending, over>>

(* Only a write whose outcome its caller does not know can still arrive.          *)
Transmit ==
  /\ ~over /\ Bye \notin ToSet(wire)
  /\ \E p \in (Writes \union {Bye}) \ ToSet(wire) :
       /\ p \in Writes => told[p] \in {"none", "ambiguous"}
       /\ wire' = Append(wire, p)
  /\ UNCHANGED <<delivered, told, ending, over>>

(* The answer holds for ever, and one that leaves it open is the stream's last.   *)
Tell(w, answer) ==
  /\ told[w] = "none"
  /\ answer = "ok" => w \in ToSet(wire)
  /\ answer \in {"cancelled", "rejected", "closed"} => w \notin ToSet(wire)
  /\ told' = [told EXCEPT ![w] = answer]
  /\ ending' = (ending \/ answer = "ambiguous")
  /\ UNCHANGED <<delivered, wire, over>>

Stop == ~ending /\ ending' = TRUE /\ UNCHANGED <<delivered, wire, told, over>>

End == ending /\ ~over /\ over' = TRUE /\ UNCHANGED <<delivered, wire, told, ending>>

Answers == {"ok", "cancelled", "rejected", "closed", "error", "ambiguous"}

Next ==
  \/ Deliver \/ Transmit \/ Stop \/ End
  \/ \E w \in Writes, answer \in Answers : Tell(w, answer)

Spec == Init /\ [][Next]_promises
=============================================================================
