-------------------------------- MODULE Router --------------------------------
(***************************************************************************)
(* A router (router/router.go) that reads packets of a stream and runs the        *)
(* handlers registered for each, inside a middleware that counts what passes      *)
(* (middleware/middleware.go).  A packet is its key, a handler a name that may    *)
(* succeed, fail, or try to register another handler.                            *)
(***************************************************************************)
EXTENDS Inlet, SequencesExt

CONSTANTS
  Fates, Goings, (* how a frame may turn out, and a peer go: see Inlet           *)
  Keys,         (* packets, by state, direction and ID                         *)
  Handlers,
  NoHandler,
  MaxHandlers,  (* bound: handlers registered on one key                       *)
  MaxPackets    (* bound: packets the peer sends                              *)

RouterAssumption ==
  NoHandler \notin Handlers /\ MaxHandlers \in Nat /\ MaxPackets \in Nat

VARIABLES
  handlers,     (* a sequence of handlers for every key                        *)
  fallback,
  running,      (* stored by the first Run and never taken back                  *)
  pending,      (* handlers the current packet still has to run                  *)
  counted,      (* the packets that the middleware has seen                     *)
  calls,        (* [handler, packet, ok] of every call                         *)
  returned,     (* what Run returned, or "not yet"                             *)
  cancelled     (* Run's context                                              *)

routing == <<handlers, fallback, running, pending, counted, calls, returned, cancelled>>

vars == <<inlet, routing>>
-----------------------------------------------------------------------------
Init ==
  /\ Connected /\ handlers = [key \in Keys |-> <<>>] /\ fallback = NoHandler
  /\ running = FALSE /\ pending = <<>> /\ counted = <<>> /\ calls = <<>>
  /\ returned = "not yet" /\ cancelled = FALSE

PeerWrites ==
  /\ Len(arrived) + Len(transit) < MaxPackets
  /\ \E key \in Keys, fate \in Fates : PeerSends(key, fate)
  /\ UNCHANGED routing

PeerLeaves == (\E how \in Goings : PeerGoes(how)) /\ UNCHANGED routing

(* A handler or anybody else writes to a peer that has gone.                      *)
SendFails ==
  /\ phase = "running" /\ peer # "here" /\ Breaks("unsent")
  /\ UNCHANGED <<transit, peer, inbox, arrived>>

Finishes ==
  /\ phase = "left" /\ phase' = "done"
  /\ UNCHANGED <<transit, peer, held, inbox, cause, arrived>>

StreamRuns ==
  /\ Decodes \/ Queues \/ Drops \/ Leaves \/ SeesThePeerGo \/ SendFails \/ Finishes
  /\ UNCHANGED routing

Cancel ==
  /\ ~cancelled /\ cancelled' = TRUE
  /\ UNCHANGED <<inlet, handlers, fallback, running, pending, counted, calls, returned>>
-----------------------------------------------------------------------------
(* HandleID, from the goroutine that owns the router: before Run, or inside a      *)
(* handler, when it is refused.                                               *)
HandleID(key, handler) ==
  IF running THEN UNCHANGED handlers
  ELSE /\ Len(handlers[key]) < MaxHandlers
       /\ handlers' = [handlers EXCEPT ![key] = Append(@, handler)]

Register ==
  /\ ~running /\ \E key \in Keys, handler \in Handlers : HandleID(key, handler)
  /\ UNCHANGED <<inlet, fallback, running, pending, counted, calls, returned, cancelled>>

Fallback ==
  /\ ~running /\ fallback' \in Handlers
  /\ UNCHANGED <<inlet, handlers, running, pending, counted, calls, returned, cancelled>>

(* dispatch: a key nobody registered for goes to the fallback, or to nobody.       *)
Dispatched(key) ==
  IF handlers[key] = <<>> /\ fallback # NoHandler THEN <<fallback>> ELSE handlers[key]

Run ==
  /\ ~running /\ running' = TRUE
  /\ UNCHANGED <<inlet, handlers, fallback, pending, counted, calls, returned, cancelled>>

(* Between two packets.                                                       *)
Reading == running /\ pending = <<>> /\ returned = "not yet"

Receive ==
  /\ Reading /\ ~cancelled
  /\ TakesPacket
  /\ counted' = Append(counted, Head(inbox)) /\ pending' = Dispatched(Head(inbox))
  /\ UNCHANGED <<handlers, fallback, running, calls, returned, cancelled>>

(* Receive fails with the stream's end; io.EOF is a clean one.                    *)
EndsWithStream ==
  /\ Reading /\ ~cancelled /\ inbox = <<>> /\ phase = "done"
  /\ returned' = IF IsEOF(cause) THEN "nil" ELSE cause

RunEnds ==
  /\ EndsWithStream \/ (Reading /\ cancelled /\ returned' = "cancelled")
  /\ UNCHANGED <<inlet, handlers, fallback, running, pending, counted, calls, cancelled>>

(* A handler that fails ends the packet and the run.                            *)
Fails ==
  /\ pending' = <<>> /\ returned' = "handler"
  /\ calls' = Append(calls, [handler |-> Head(pending), packet |-> Len(counted), ok |-> FALSE])
  /\ UNCHANGED handlers

Succeeds ==
  /\ pending' = Tail(pending)
  /\ calls' = Append(calls, [handler |-> Head(pending), packet |-> Len(counted), ok |-> TRUE])
  /\ \/ UNCHANGED handlers
     \/ \E key \in Keys, handler \in Handlers : HandleID(key, handler)
  /\ UNCHANGED returned

Handle ==
  /\ pending # <<>> /\ (Fails \/ Succeeds)
  /\ UNCHANGED <<inlet, fallback, running, counted, cancelled>>
-----------------------------------------------------------------------------
Next ==
  \/ PeerWrites \/ PeerLeaves \/ StreamRuns \/ Cancel
  \/ Register \/ Fallback \/ Run \/ Receive \/ Handle \/ RunEnds

Spec == Init /\ [][Next]_vars
-----------------------------------------------------------------------------
TypeOK ==
  /\ handlers \in [Keys -> UNION {[1..n -> Handlers] : n \in 0..MaxHandlers}]
  /\ \A i \in DOMAIN pending : pending[i] \in Handlers
  /\ fallback \in Handlers \cup {NoHandler} /\ running \in BOOLEAN /\ cancelled \in BOOLEAN
  /\ Len(counted) \in 0..MaxPackets
  /\ returned \in {"not yet", "nil", "handler", "cancelled", "unsent"} \cup Goings \cup Fates

(* What should have been called for the first n packets that were received: each    *)
(* with everything registered for it, in order of registration, or else the         *)
(* fallback.                                                                  *)
Due(n) ==
  FlattenSeq([i \in 1..n |->
    LET for == IF handlers[counted[i]] # <<>> THEN handlers[counted[i]]
               ELSE IF fallback # NoHandler THEN <<fallback>> ELSE <<>>
    IN  [j \in DOMAIN for |-> [handler |-> for[j], packet |-> i]]])

(* "Handlers on one key run in registration order, and the first error stops the   *)
(* rest" (router.go:137-138), packets in the order they arrived, and the fallback   *)
(* "for packets no other handler claimed" (router.go:189): the calls are the first  *)
(* of those that are due by the table, which nothing changes once the router runs,  *)
(* and behind a failure there is none.                                         *)
HandledAsRegistered ==
  /\ IsPrefix([i \in DOMAIN calls |-> [handler |-> calls[i].handler, packet |-> calls[i].packet]],
              Due(Len(counted)))
  /\ \A i \in DOMAIN calls : calls[i].ok \/ i = Len(calls)

(* A middleware "that counts" (router.go:83-85) counts what arrived, in its order and    *)
(* once: nothing passes it by while the stream runs.                             *)
CountsInOrder == ReadsInOrder(counted)

(* A run that ends with nil or with what the stream failed of has handled every     *)
(* packet that the stream queued, also those behind which it ended.                *)
EndsHavingHandledAll ==
  returned \notin {"not yet", "handler", "cancelled"} =>
    inbox = <<>> /\ Len(calls) = Len(Due(Len(counted)))

(* "It returns nil on a clean end of stream ... and otherwise whatever failed"      *)
(* (router.go:255-256): after nil, the peer has left and all it sent was decoded.   *)
NilMeansClean == returned = "nil" => peer = "leaves" /\ transit = <<>> /\ cause = "leaves"
=============================================================================
