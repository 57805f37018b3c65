------------------------------- MODULE Stream -------------------------------
(***************************************************************************)
(* A started managed stream (stream.go, stream_runtime.go, stream_linger.go, *)
(* observation.go): the read pump, the write pump, the coordinator, the      *)
(* observation dispatcher and the supervisor that joins them, with the       *)
(* concurrent Read, Write, Shutdown and Close calls, the peer, and the       *)
(* shared budget of module Budget.                                           *)
(*                                                                         *)
(* Each goroutine is a control point and one action per blocking step.  A    *)
(* select is one disjunct per case: when several are ready any may be taken, *)
(* and a context that may end at any moment is a case that is always ready.  *)
(* An unbuffered channel is a joint step of its sender and its receiver.     *)
(***************************************************************************)
EXTENDS Integers, Sequences, SequencesExt

CONSTANTS
  Inbound,        (* the packets the peer sends, in order: a sequence        *)
  Writes,         (* one packet per Write call                               *)
  Bye,            (* the disconnect packet                                   *)
  None,           (* no packet                                               *)
  Size,           (* payload length of every packet                          *)
  Malformed,      (* inbound packets that do not decode or whose transition  *)
                  (* is refused: decodeInbound fails on them                 *)
  Unsendable,     (* packets EncodeFrame, the policy or BuildFrame refuses   *)
  Transitions,    (* packets that imply a session transition                 *)
  QueueItems, QueueBytes,   (* the budget: MaxQueueItems, queuedByteCapacity *)
  HasSink,        (* WithObservationSink was given                           *)
  SinkFails,      (* the sink may report an error                            *)
  HasDisconnect,  (* role and state have a disconnect packet                 *)
  HalfCloser,     (* the transport can close its write side on its own       *)
  Acts            (* which acts of its users and its peer this instance has  *)

Arrivals == {Inbound[k] : k \in 1..Len(Inbound)}
Packets  == Arrivals \cup Writes \cup {Bye}
Stages   == {"raw", "packet", "rejected"}

(* Everything that ever asks the budget for capacity: a decoded packet, a     *)
(* Write call, and an observation record, named by its stage and its packet.  *)
Records      == Stages \X Packets
Reservations == Arrivals \cup Writes \cup Records

(* decodeInbound asks for an item and the payload, Write for an item, observe *)
(* for an item and the bytes of the record.                                   *)
Need ==
  [r \in Reservations |->
     [items |-> 1,
      bytes |-> IF r \in Records
                THEN IF r[1] = "rejected" THEN 0 ELSE Size[r[2]]
                ELSE IF r \in Arrivals THEN Size[r] ELSE 0]]

ASSUME StreamAssumption ==
  /\ \A j, k \in 1..Len(Inbound) : Inbound[j] = Inbound[k] => j = k
  /\ Inbound \in Seq(Arrivals)
  /\ Arrivals \cap Writes = {}
  /\ Bye \notin Arrivals \cup Writes
  /\ None \notin Packets
  /\ Packets \cap Records = {}
  /\ Size \in [Packets -> Nat]
  /\ QueueItems \in Nat \ {0}
  /\ QueueBytes \in Nat
  /\ {HasSink, SinkFails, HasDisconnect, HalfCloser} \subseteq BOOLEAN
  /\ Acts \subseteq {"hang up", "close", "end context", "shut down",
                     "expire shutdown", "cancel write", "time out"}
-----------------------------------------------------------------------------
VARIABLES items, bytes, waiters, closed, status     (* s.queued              *)

Queued == INSTANCE Budget WITH
  Requests <- Reservations, MaxItems <- QueueItems, MaxBytes <- QueueBytes

VARIABLES
  (* the peer and the bytes between it and the stream *)
  sent,        (* frames the peer has sent: a prefix of Inbound              *)
  hungUp,      (* the peer closed its side                                   *)
  wire,        (* frames the transport has taken, in order                   *)
  (* the read pump and the processing slot that follows its frame *)
  reader,      (* "acquire", "reading", "handing", "stopping", "exited"      *)
  framed,      (* frames ReadFrame has returned                              *)
  processing,  (* the slot is in its channel: nobody holds it                *)
  (* the write pump *)
  writer,      (* "idle", "writing", "sent", "exited"                        *)
  job,         (* the packet of its current writeJob                         *)
  outcome,     (* that job's result channel: "none", "ok", "error"           *)
  (* the coordinator, then run and supervise on the same goroutine *)
  at,          (* its control point                                          *)
  current,     (* the packet it is working on                                *)
  pending,     (* the decoded packet that waits for capacity, or None        *)
  inboundPackets, (* the Read queue                                          *)
  decoded,     (* how many frames have been decoded                          *)
  applied,     (* packets whose transition the session has committed         *)
  (* the observation dispatcher *)
  observations, (* the channel of records                                    *)
  dispatcher,  (* "idle", "observing", "failing", "stopping", "exited"       *)
  record,      (* the record the sink is being given                         *)
  draining,    (* it has seen observationsDone                               *)
  (* shutdown state *)
  stopPhase,   (* how far stop() has come: 0, then 1 stopping is closed,     *)
               (* 2 the budget is closed, 3 the transport is interrupted     *)
  cause,       (* "none" while causeSet is false; "clean" after succeed      *)
  cancelled,   (* the context given to Start has ended                       *)
  closing, graceful, lingering,
  (* the callers *)
  call,        (* Write calls: "idle", "acquiring", "sending", "waiting",    *)
               (* "returned"                                                 *)
  begun,       (* writeRequest.state: "queued", "started", "abandoned"       *)
  reply,       (* writeRequest.result: "none", "ok", "closed", "error"       *)
  result,      (* what Write returned                                        *)
  reading,     (* the Read caller: "idle", "releasing", "ended"              *)
  delivered,   (* the packets Read returned, in order                        *)
  shutdown,    (* the Shutdown call: "idle", "sending", "waiting", "returned" *)
  farewell     (* shutdownRequest.result: "none", "ok", "error"              *)

budget     == <<items, bytes, waiters, closed, status>>
peer       == <<sent, hungUp>>
readPump   == <<reader, framed>>
writePump  == <<writer, job, outcome>>
session    == <<decoded, applied>>
dispatch   == <<dispatcher, record, draining>>
ending     == <<stopPhase, cause>>
flags      == <<cancelled, closing, graceful, lingering>>
writeCalls == <<call, begun, reply, result>>
readCall   == <<reading, delivered>>
endCall    == <<shutdown, farewell>>

vars == <<budget, peer, wire, readPump, processing, writePump, at, current,
          pending, inboundPackets, session, observations, dispatch, ending,
          flags, writeCalls, readCall, endCall>>

Init ==
  /\ Queued!Init
  /\ sent = 0 /\ hungUp = FALSE /\ wire = <<>>
  /\ reader = "acquire" /\ framed = 0 /\ processing = TRUE
  /\ writer = "idle" /\ job = None /\ outcome = "none"
  /\ at = "select" /\ current = None /\ pending = None
  /\ inboundPackets = <<>> /\ decoded = 0 /\ applied = {}
  /\ observations = <<>> /\ record = None /\ draining = FALSE
  /\ dispatcher = IF HasSink THEN "idle" ELSE "exited"
  /\ stopPhase = 0 /\ cause = "none"
  /\ cancelled = FALSE /\ closing = FALSE
  /\ graceful = FALSE /\ lingering = FALSE
  /\ call = [w \in Writes |-> "idle"]
  /\ begun = [w \in Writes |-> "queued"]
  /\ reply = [w \in Writes |-> "none"]
  /\ result = [w \in Writes |-> "none"]
  /\ reading = "idle" /\ delivered = <<>>
  /\ shutdown = "idle" /\ farewell = "none"
-----------------------------------------------------------------------------
(* fail or succeed, then stop: the first cause and the first stop win.  The  *)
(* goroutine that stops first goes on to close the budget and to interrupt   *)
(* the transport (StopGoesOn); any other caller of stop waits for it.        *)
FirstCause(c) == cause' = IF cause = "none" THEN c ELSE cause

(* Faulty: stop is not guarded by its Once. *)
FailAndStopAgain(c) == FirstCause(c) /\ stopPhase' = stopPhase + 1

FailAndStop(c) ==
  /\ FirstCause(c)
  /\ stopPhase' = IF stopPhase = 0 THEN 1 ELSE stopPhase

Stopping == stopPhase > 0
Stopped  == stopPhase = 3

(* Faulty: stop forgets to close the budget. *)
StopLeavesBudgetOpen ==
  /\ stopPhase \in {1, 2}
  /\ stopPhase' = stopPhase + 1
  /\ UNCHANGED <<budget, peer, wire, readPump, processing, writePump, at,
                 current, pending, inboundPackets, session, observations,
                 dispatch, cause, flags, writeCalls, readCall, endCall>>

StopGoesOn ==
  /\ stopPhase' = stopPhase + 1
  /\ \/ stopPhase = 1 /\ Queued!Close
     \/ stopPhase = 2 /\ UNCHANGED budget
  /\ UNCHANGED <<peer, wire, readPump, processing, writePump, at, current,
                 pending, inboundPackets, session, observations, dispatch,
                 cause, flags, writeCalls, readCall, endCall>>
-----------------------------------------------------------------------------
(* The peer. *)
PeerSends ==
  /\ ~hungUp /\ sent < Len(Inbound)
  /\ sent' = sent + 1
  /\ UNCHANGED <<budget, hungUp, wire, readPump, processing, writePump, at,
                 current, pending, inboundPackets, session, observations,
                 dispatch, ending, flags, writeCalls, readCall, endCall>>

PeerHangsUp ==
  /\ "hang up" \in Acts
  /\ ~hungUp
  /\ hungUp' = TRUE
  /\ UNCHANGED <<budget, sent, wire, readPump, processing, writePump, at,
                 current, pending, inboundPackets, session, observations,
                 dispatch, ending, flags, writeCalls, readCall, endCall>>
-----------------------------------------------------------------------------
(* The read pump (readPump, reportReadFailure). *)
ReaderRest == <<budget, peer, wire, writePump, current, pending, at,
                inboundPackets, session, observations, dispatch, flags,
                writeCalls, readCall, endCall>>

(* Faulty: the read pump frames without taking the slot. *)
AcquireNothing ==
  /\ reader = "acquire"
  /\ reader' \in {"reading"} \cup (IF Stopping THEN {"exited"} ELSE {})
  /\ UNCHANGED <<processing, framed, ending, ReaderRest>>

AcquireProcessing ==
  /\ reader = "acquire"
  /\ \/ processing /\ processing' = FALSE /\ reader' = "reading"
     \/ Stopping /\ reader' = "exited" /\ UNCHANGED processing
  /\ UNCHANGED <<framed, ending, ReaderRest>>

ReadFrame ==
  /\ reader = "reading" /\ framed < sent
  /\ framed' = framed + 1
  /\ reader' = "handing"
  /\ UNCHANGED <<processing, ending, ReaderRest>>

(* EOF after the last frame, or an interrupted transport.  Neither is a fault *)
(* once the stream is stopping or lingering.                                  *)
ReadFails ==
  /\ reader = "reading"
  /\ Stopped \/ (hungUp /\ framed = sent)
  /\ processing' = TRUE
  /\ IF Stopping \/ lingering
     THEN reader' = "exited" /\ UNCHANGED ending
     ELSE reader' = "stopping" /\ FailAndStop("peer closed")
  /\ UNCHANGED <<framed, ReaderRest>>

(* Faulty: the read pump hands its frame over without watching the stop. *)
ReaderHandsOverOnly ==
  /\ reader = "stopping" /\ Stopped
  /\ reader' = "exited"
  /\ UNCHANGED <<processing, framed, ending, ReaderRest>>

ReaderGivesUp ==
  /\ \/ reader = "handing" /\ Stopping /\ processing' = TRUE
     \/ reader = "stopping" /\ Stopped /\ UNCHANGED processing
  /\ reader' = "exited"
  /\ UNCHANGED <<framed, ending, ReaderRest>>

ReadPump == AcquireProcessing \/ ReadFrame \/ ReadFails \/ ReaderGivesUp
-----------------------------------------------------------------------------
(* The write pump.  The bytes reach the peer before the call returns; a call  *)
(* that has sent nothing yet fails when the peer is gone or interrupted.      *)
WriterRest == <<budget, peer, readPump, processing, job, at, current, pending,
                inboundPackets, session, observations, dispatch, ending, flags,
                writeCalls, readCall, endCall>>

WriteReaches ==
  /\ writer = "writing" /\ ~Stopped
  /\ wire' = Append(wire, job)
  /\ writer' = "sent"
  /\ UNCHANGED <<outcome, WriterRest>>

WriteReturns ==
  /\ \/ writer = "sent" /\ outcome' = "ok"
     \/ writer = "writing" /\ (Stopped \/ hungUp) /\ outcome' = "error"
  /\ writer' = "idle"
  /\ UNCHANGED <<wire, WriterRest>>

WriterExits ==
  /\ writer = "idle" /\ Stopping
  /\ writer' = "exited"
  /\ UNCHANGED <<wire, outcome, WriterRest>>

(* Faulty: a job needs headroom, which unread packets and its own item may lack. *)
HandJobWithRoom(p) ==
  /\ writer = "idle" /\ items < QueueItems
  /\ writer' = "writing" /\ job' = p /\ outcome' = "none"

(* writeJobs <- job: a joint step of the coordinator and the idle pump. *)
HandJob(p) ==
  /\ writer = "idle"
  /\ writer' = "writing" /\ job' = p /\ outcome' = "none"
-----------------------------------------------------------------------------
(***************************************************************************)
(* observe on the coordinator.  At an observation point it charges the       *)
(* budget for the record (acquireUntil), queues the record and goes on; when  *)
(* the stream stops first it gives the capacity back and takes the error.    *)
(***************************************************************************)
Observed ==
  [rawIn     |-> [stage |-> "raw",      then |-> "decode"],
   packetIn  |-> [stage |-> "packet",   then |-> "enqueue"],
   rawOut    |-> [stage |-> "raw",      then |-> "packetOut"],
   packetOut |-> [stage |-> "packet",   then |-> "confirm"],
   refused   |-> [stage |-> "rejected", then |-> "refuse"],
   rawBye    |-> [stage |-> "raw",      then |-> "packetBye"],
   packetBye |-> [stage |-> "packet",   then |-> "bye"]]

Observing == at \in DOMAIN Observed

TheRecord == <<Observed[at].stage, current>>

(* Where control goes when a record is due at point p, and when it is not. *)
Observe(p, otherwise) == IF HasSink THEN p ELSE otherwise

CoordinatorRest == <<peer, wire, readPump, processing, dispatch, flags, call,
                     begun, result, readCall, shutdown>>

ObserveReserves ==
  /\ Observing /\ status[TheRecord] = "new"
  /\ Queued!Reserve(TheRecord)
  /\ UNCHANGED <<writePump, at, current, pending, inboundPackets, session,
                 observations, ending, reply, farewell, CoordinatorRest>>

ObserveQueues ==
  /\ Observing /\ status[TheRecord] = "granted"
  /\ Len(observations) < QueueItems
  /\ observations' = Append(observations, TheRecord)
  /\ at' = Observed[at].then
  /\ UNCHANGED <<budget, writePump, current, pending, inboundPackets, session,
                 ending, reply, farewell, CoordinatorRest>>

(* What each caller of observe makes of its error: while the stream is ending *)
(* the record is lost and the work goes on (observeArrival, finishWrite,      *)
(* sendDisconnect); otherwise it is fatal, save for a rejected write, whose   *)
(* record is not missed (observeRejected).                                    *)
ObserveError ==
  \/ /\ at = "refused"
     /\ at' = "refuse" /\ UNCHANGED <<ending, reply>>
  \/ /\ at \in {"rawBye", "packetBye"}
     /\ at' = IF Stopping THEN "bye" ELSE "byeFailed"
     /\ UNCHANGED <<ending, reply>>
  \/ /\ at \in {"rawOut", "packetOut"} /\ Stopping
     /\ at' = "confirm" /\ UNCHANGED <<ending, reply>>
  \/ /\ at \in {"rawOut", "packetOut"} /\ ~Stopping
     /\ at' = "stopWrite" /\ FailAndStop("observe")
     /\ reply' = [reply EXCEPT ![current] = "error"]
  \/ /\ at \in {"rawIn", "packetIn"} /\ Stopping
     /\ at' = Observed[at].then /\ UNCHANGED <<ending, reply>>
  \/ /\ at \in {"rawIn", "packetIn"} /\ ~Stopping
     /\ at' = "stopping" /\ FailAndStop("observe") /\ UNCHANGED reply

(* Faulty: a record that is given up keeps its place in the budget. *)
ObserveAbandons ==
  /\ Observing
  /\ \/ status[TheRecord] = "new" /\ Queued!Refuse(TheRecord)
     \/ /\ Stopping /\ status[TheRecord] \in {"waiting", "granted", "refused"}
        /\ UNCHANGED budget
  /\ ObserveError
  /\ UNCHANGED <<writePump, current, pending, inboundPackets, session,
                 observations, farewell, CoordinatorRest>>

ObserveFails ==
  /\ Observing
  /\ \/ status[TheRecord] = "new" /\ Queued!Refuse(TheRecord)
     \/ /\ Stopping /\ status[TheRecord] \in {"waiting", "granted", "refused"}
        /\ Queued!Cancel(TheRecord)
  /\ ObserveError
  /\ UNCHANGED <<writePump, current, pending, inboundPackets, session,
                 observations, farewell, CoordinatorRest>>
-----------------------------------------------------------------------------
(* The inbound half of the coordinator (coordinate, decodeInbound, handOff). *)
InboundRest == <<peer, wire, framed, writePump, observations, dispatch, flags,
                 writeCalls, readCall, endCall>>

(* Faulty: the commit is forgotten. *)
CommitNothing(p) == applied' = applied

(* session.ApplyTransition, when the packet implies one. *)
Commit(p) == applied' = applied \cup ({p} \cap Transitions)

(* Faulty: a frame is taken while a packet still waits for capacity. *)
TakeFrameAnyway ==
  /\ at = "select" /\ reader = "handing"
  /\ reader' = "acquire"
  /\ current' = Inbound[framed]
  /\ at' = Observe("rawIn", "decode")
  /\ UNCHANGED <<budget, processing, pending, inboundPackets, session, ending,
                 InboundRest>>

(* frame := <-inboundFrames: the slot travels with the frame. *)
TakeFrame ==
  /\ at = "select" /\ pending = None /\ reader = "handing"
  /\ reader' = "acquire"
  /\ current' = Inbound[framed]
  /\ at' = Observe("rawIn", "decode")
  /\ UNCHANGED <<budget, processing, pending, inboundPackets, session, ending,
                 InboundRest>>

Decode ==
  /\ at = "decode"
  /\ processing' = TRUE
  /\ IF current \in Malformed
     THEN /\ at' = "stopping" /\ FailAndStop("malformed")
          /\ UNCHANGED session
     ELSE /\ at' = Observe("packetIn", "enqueue")
          /\ decoded' = decoded + 1
          /\ Commit(current)
          /\ UNCHANGED ending
  /\ UNCHANGED <<budget, reader, current, pending, inboundPackets, InboundRest>>

(* deliverArrival(p), then to control point next.  A packet the queue has no  *)
(* room for is dropped, and its charge released in a second step.             *)
DeliverArrival(p, next, full) ==
  /\ Queued!Charge(p)
  /\ IF Len(inboundPackets) < QueueItems
     THEN inboundPackets' = Append(inboundPackets, p) /\ at' = next
     ELSE UNCHANGED inboundPackets /\ at' = full

Enqueue ==
  /\ at = "enqueue"
  /\ \/ /\ Queued!Reserve(current)
        /\ pending' = current /\ at' = "select"
        /\ UNCHANGED <<inboundPackets, ending>>
     \/ /\ Queued!Refuses(current) /\ Stopping
        /\ DeliverArrival(current, "select", "discard")
        /\ UNCHANGED <<pending, ending>>
     \/ /\ ~Stopping /\ Queued!Refuse(current)
        /\ at' = "stopping" /\ FailAndStop("queue")
        /\ UNCHANGED <<pending, inboundPackets>>
  /\ UNCHANGED <<reader, processing, current, session, InboundRest>>

Discard ==
  /\ at \in {"discard", "discardLast"}
  /\ Queued!Release(current)
  /\ at' = IF at = "discard" THEN "select" ELSE "ended"
  /\ UNCHANGED <<reader, processing, current, pending, inboundPackets, session,
                 ending, InboundRest>>

(* <-granted, in the select. *)
Deliver ==
  /\ at = "select" /\ pending # None /\ status[pending] = "granted"
  /\ Len(inboundPackets) < QueueItems
  /\ inboundPackets' = Append(inboundPackets, pending)
  /\ pending' = None
  /\ UNCHANGED <<budget, reader, processing, at, current, session, ending,
                 InboundRest>>

PendingRefused ==
  /\ at = "select" /\ pending # None /\ status[pending] = "refused"
  /\ FailAndStop("queue")
  /\ at' = "stopping"
  /\ UNCHANGED <<budget, reader, processing, current, pending, inboundPackets,
                 session, InboundRest>>

(* <-stopping, in the select: handOff.  A waiter still in the queue is        *)
(* withdrawn first, and may be granted or refused before it is.               *)
NoticeStop ==
  /\ at = "select" /\ Stopping
  /\ \/ /\ pending = None
        /\ at' = "ended" /\ UNCHANGED <<current, pending, inboundPackets>>
     \/ /\ pending # None /\ status[pending] = "granted"
        /\ Len(inboundPackets) < QueueItems
        /\ inboundPackets' = Append(inboundPackets, pending)
        /\ pending' = None /\ at' = "ended" /\ UNCHANGED current
     \/ /\ pending # None /\ status[pending] \in {"waiting", "refused"}
        /\ at' = IF status[pending] = "waiting" THEN "withdraw" ELSE "handOff"
        /\ current' = pending
        /\ UNCHANGED <<pending, inboundPackets>>
  /\ UNCHANGED <<budget, reader, processing, session, ending, InboundRest>>

(* Faulty: the waiter is left in the queue. *)
WithdrawNothing ==
  /\ at = "withdraw"
  /\ at' = "handOff"
  /\ UNCHANGED <<budget, reader, processing, current, pending, inboundPackets,
                 session, ending, InboundRest>>

Withdraw ==
  /\ at = "withdraw"
  /\ Queued!Cancel(pending)
  /\ at' = "handOff"
  /\ UNCHANGED <<reader, processing, current, pending, inboundPackets, session,
                 ending, InboundRest>>

HandOff ==
  /\ at = "handOff"
  /\ DeliverArrival(pending, "ended", "discardLast")
  /\ pending' = None
  /\ UNCHANGED <<reader, processing, current, session, ending, InboundRest>>
-----------------------------------------------------------------------------
(* The outbound half (processWrite, finishWrite). *)
OutboundRest == <<peer, wire, readPump, processing, pending, inboundPackets,
                  decoded, observations, dispatch, flags, result, readCall,
                  endCall>>

(* request := <-writeRequests *)
TakeWrite(w) ==
  /\ at = "select" /\ call[w] = "sending"
  /\ call' = [call EXCEPT ![w] = "waiting"]
  /\ current' = w
  /\ at' = "encode"
  /\ UNCHANGED <<budget, writePump, applied, ending, begun, reply, OutboundRest>>

(* Faulty: the request is not claimed before it is sent. *)
EncodeUnclaimed ==
  /\ at = "encode"
  /\ at' = IF current \in Unsendable THEN Observe("refused", "refuse")
           ELSE "handJob"
  /\ UNCHANGED <<budget, writePump, current, applied, ending, call, begun, reply,
                 OutboundRest>>

(* Encode, resolve and frame; then begin, which an abandoned request fails. *)
Encode ==
  /\ at = "encode"
  /\ IF current \in Unsendable \/ begun[current] = "abandoned"
     THEN at' = Observe("refused", "refuse") /\ UNCHANGED begun
     ELSE at' = "handJob" /\ begun' = [begun EXCEPT ![current] = "started"]
  /\ UNCHANGED <<budget, writePump, current, applied, ending, call, reply,
                 OutboundRest>>

(* Faulty: a write that cannot be sent is refused without an answer. *)
RefuseSilently ==
  /\ at = "refuse"
  /\ at' = "release"
  /\ UNCHANGED <<budget, writePump, current, applied, ending, call, begun, reply,
                 OutboundRest>>

(* A request abandoned before it began is answered by nobody. *)
Refuse ==
  /\ at = "refuse"
  /\ reply' = IF current \in Unsendable
              THEN [reply EXCEPT ![current] = "error"] ELSE reply
  /\ at' = "release"
  /\ UNCHANGED <<budget, writePump, current, applied, ending, call, begun,
                 OutboundRest>>

GiveJob ==
  /\ at = "handJob"
  /\ \/ HandJob(current) /\ at' = "writing" /\ UNCHANGED reply
     \/ /\ Stopping
        /\ reply' = [reply EXCEPT ![current] = "closed"]
        /\ at' = "releaseLast" /\ UNCHANGED writePump
  /\ UNCHANGED <<budget, current, applied, ending, call, begun, OutboundRest>>

(* <-result, with no other case: the pump always answers. *)
FinishWrite ==
  /\ at = "writing"
  /\ \/ /\ outcome = "ok"
        /\ Commit(current)
        /\ at' = Observe("rawOut", "confirm")
        /\ UNCHANGED <<reply, ending>>
     \/ /\ outcome = "error"
        /\ reply' = [reply EXCEPT ![current] = "error"]
        /\ FailAndStop("write")
        /\ at' = "stopWrite" /\ UNCHANGED applied
  /\ UNCHANGED <<budget, writePump, current, call, begun, OutboundRest>>

Confirm ==
  /\ at = "confirm"
  /\ reply' = [reply EXCEPT ![current] = "ok"]
  /\ at' = "release"
  /\ UNCHANGED <<budget, writePump, current, applied, ending, call, begun,
                 OutboundRest>>

(* The deferred release, and back to the select or out of coordinate. *)
ReleaseWrite ==
  /\ \/ at = "release" /\ at' = "select"
     \/ at = "releaseLast" /\ at' = "ended"
     \/ at = "stopWrite" /\ Stopped /\ at' = "ended"
  /\ Queued!Release(current)
  /\ UNCHANGED <<writePump, current, applied, ending, call, begun, reply,
                 OutboundRest>>
-----------------------------------------------------------------------------
(* Graceful shutdown on the coordinator (finishShutdown, sendDisconnect). *)
ByeRest == <<budget, peer, wire, readPump, processing, pending, inboundPackets,
             session, observations, dispatch, cancelled, closing, lingering,
             writeCalls, readCall>>

TakeShutdown ==
  /\ at = "select" /\ shutdown = "sending"
  /\ shutdown' = "waiting"
  /\ current' = Bye
  /\ at' = IF Bye \in Unsendable THEN "byeFailed"
           ELSE IF HasDisconnect THEN "byeJob" ELSE "bye"
  /\ UNCHANGED <<writePump, graceful, ending, farewell, ByeRest>>

GiveBye ==
  /\ at = "byeJob"
  /\ \/ HandJob(Bye) /\ at' = "byeWriting"
     \/ (Stopping \/ cancelled) /\ at' = "byeFailed" /\ UNCHANGED writePump
  /\ UNCHANGED <<current, graceful, ending, shutdown, farewell, ByeRest>>

AwaitBye ==
  /\ at = "byeWriting"
  /\ \/ outcome = "ok" /\ at' = Observe("rawBye", "bye")
     \/ outcome = "error" /\ at' = "byeFailed"
     \/ outcome = "none" /\ Stopping /\ at' = "byeFailed"
     \/ cancelled /\ at' = "byeFailed"
  /\ UNCHANGED <<writePump, current, graceful, ending, shutdown, farewell,
                 ByeRest>>

(* Faulty: the coordinator keeps running after the disconnect. *)
FinishShutdownOnly ==
  /\ at = "bye" /\ graceful' = TRUE /\ FirstCause("clean") /\ farewell' = "ok"
  /\ at' = "select"
  /\ UNCHANGED <<writePump, current, stopPhase, shutdown, ByeRest>>

FinishShutdown ==
  /\ \/ at = "bye" /\ graceful' = TRUE /\ FirstCause("clean") /\ farewell' = "ok"
     \/ /\ at = "byeFailed" /\ FirstCause("disconnect") /\ farewell' = "error"
        /\ UNCHANGED graceful
  /\ at' = "ended"
  /\ UNCHANGED <<writePump, current, stopPhase, shutdown, ByeRest>>
-----------------------------------------------------------------------------
(***************************************************************************)
(* run after coordinate, and supervise after run: wait for the dispatcher,   *)
(* linger, stop, join the pumps, close done.  From "ended" on,               *)
(* observationsDone is closed.                                               *)
(***************************************************************************)
Over == {"ended", "lingering", "stop", "joining", "done"}

RunRest == <<budget, peer, wire, readPump, processing, writePump, current,
             pending, inboundPackets, session, observations, dispatch,
             cancelled, closing, graceful, writeCalls, readCall, endCall>>

CoordinatorReturns ==
  /\ at = "stopping" /\ Stopped
  /\ at' = "ended"
  /\ UNCHANGED <<ending, lingering, RunRest>>

(* Faulty: the run goes on without waiting for the dispatcher. *)
LingerAtOnce ==
  /\ at = "ended"
  /\ at' = "stop"
  /\ UNCHANGED <<ending, lingering, RunRest>>

Linger ==
  /\ at = "ended" /\ dispatcher = "exited"
  /\ IF graceful /\ HalfCloser
     THEN /\ lingering' = TRUE
          /\ at' \in {"lingering", "stop"}       (* CloseWrite may fail *)
     ELSE at' = "stop" /\ UNCHANGED lingering
  /\ UNCHANGED <<ending, RunRest>>

(* <-readDone, or the context, or the timer.  An instance without the act      *)
(* "time out" is one in which the peer has closed before the timer fires.      *)
LingerEnds ==
  /\ at = "lingering"
  /\ reader = "exited" \/ cancelled \/ "time out" \in Acts
  /\ at' = "stop"
  /\ UNCHANGED <<ending, lingering, RunRest>>

RunStops ==
  /\ at = "stop"
  /\ stopPhase' = IF stopPhase = 0 THEN 1 ELSE stopPhase
  /\ at' = "joining"
  /\ UNCHANGED <<cause, lingering, RunRest>>

(* Faulty: only the read pump is joined. *)
FinishEarly ==
  /\ at = "joining" /\ Stopped /\ reader = "exited"
  /\ at' = "done"
  /\ UNCHANGED <<ending, lingering, RunRest>>

Finish ==
  /\ at = "joining" /\ Stopped
  /\ reader = "exited" /\ writer = "exited"
  /\ IF cancelled THEN FirstCause("context") ELSE UNCHANGED cause
  /\ at' = "done"
  /\ UNCHANGED <<stopPhase, lingering, RunRest>>
-----------------------------------------------------------------------------
(* dispatchObservations and drainObservations. *)
DispatchRest == <<peer, wire, readPump, processing, writePump, at, current,
                  pending, inboundPackets, session, flags, writeCalls, readCall,
                  endCall>>

TakeRecord ==
  /\ dispatcher = "idle" /\ observations # <<>>
  /\ record' = Head(observations)
  /\ observations' = Tail(observations)
  /\ dispatcher' = "observing"
  /\ UNCHANGED <<budget, draining, ending, DispatchRest>>

SinkReturns ==
  /\ dispatcher = "observing"
  /\ Queued!Release(record)
  /\ \/ dispatcher' = "idle"
     \/ SinkFails /\ dispatcher' = "failing"
  /\ UNCHANGED <<observations, record, draining, ending, DispatchRest>>

SinkFailure ==
  /\ dispatcher = "failing"
  /\ FailAndStop("sink")
  /\ dispatcher' = "stopping"
  /\ UNCHANGED <<budget, observations, record, draining, DispatchRest>>

(* <-observationsDone *)
StartDrain ==
  /\ dispatcher = "idle" /\ at \in Over /\ ~draining
  /\ draining' = TRUE
  /\ UNCHANGED <<budget, observations, dispatcher, record, ending, DispatchRest>>

DispatcherExits ==
  /\ \/ dispatcher = "idle" /\ ~draining /\ Stopping
     \/ dispatcher = "idle" /\ draining /\ observations = <<>>
     \/ dispatcher = "stopping" /\ Stopped
  /\ dispatcher' = "exited"
  /\ UNCHANGED <<budget, observations, record, draining, ending, DispatchRest>>
-----------------------------------------------------------------------------
(* Write, one call for each member of Writes. *)
WriteRest == <<peer, wire, readPump, processing, writePump, at, current,
               pending, inboundPackets, session, observations, dispatch, flags,
               reply, readCall, endCall>>

Returns(w, r) ==
  /\ call' = [call EXCEPT ![w] = "returned"]
  /\ result' = [result EXCEPT ![w] = r]

(* writable *)
WriteStarts(w) ==
  /\ call[w] = "idle"
  /\ IF at = "done" \/ closing \/ Stopping
     THEN Returns(w, "rejected")
     ELSE call' = [call EXCEPT ![w] = "acquiring"] /\ UNCHANGED result
  /\ UNCHANGED <<budget, begun, ending, WriteRest>>

WriteReserves(w) ==
  /\ call[w] = "acquiring" /\ status[w] = "new"
  /\ \/ Queued!Reserve(w) /\ UNCHANGED <<call, result>>
     \/ Queued!Refuse(w) /\ Returns(w, "rejected")
  /\ UNCHANGED <<begun, ending, WriteRest>>

WriteAcquires(w) ==
  /\ call[w] = "acquiring"
  /\ \/ /\ status[w] = "granted"
        /\ call' = [call EXCEPT ![w] = "sending"] /\ UNCHANGED result
     \/ status[w] = "refused" /\ Returns(w, "rejected")
  /\ UNCHANGED <<budget, begun, ending, WriteRest>>

(* Faulty: a rejected call keeps its item. *)
WriteRejectedCharged(w) ==
  /\ call[w] = "sending" /\ Stopping
  /\ Returns(w, "rejected")
  /\ UNCHANGED <<budget, begun, ending, WriteRest>>

WriteRejected(w) ==
  /\ call[w] = "sending" /\ Stopping
  /\ Queued!Release(w)
  /\ Returns(w, "rejected")
  /\ UNCHANGED <<begun, ending, WriteRest>>

WriteAnswered(w) ==
  /\ call[w] = "waiting" /\ reply[w] # "none"
  /\ Returns(w, reply[w])
  /\ UNCHANGED <<budget, begun, ending, WriteRest>>

(* <-ctx.Done(), wherever the call waits. *)
WriteCancelled(w) ==
  /\ "cancel write" \in Acts
  /\ \/ /\ call[w] = "acquiring" /\ status[w] # "new"
        /\ Queued!Cancel(w)
        /\ Returns(w, "cancelled")
        /\ UNCHANGED <<begun, ending>>
     \/ /\ call[w] = "sending"
        /\ Queued!Release(w)
        /\ Returns(w, "cancelled")
        /\ UNCHANGED <<begun, ending>>
     \/ /\ call[w] = "waiting" /\ begun[w] = "queued"
        /\ begun' = [begun EXCEPT ![w] = "abandoned"]
        /\ Returns(w, "cancelled")
        /\ UNCHANGED <<budget, ending>>
     \/ /\ call[w] = "waiting" /\ begun[w] = "started"
        /\ FailAndStop("ambiguous")
        /\ Returns(w, "ambiguous")
        /\ UNCHANGED <<budget, begun>>
  /\ UNCHANGED WriteRest
-----------------------------------------------------------------------------
(* Read, called again and again by one reader. *)
ReadRest == <<peer, wire, readPump, processing, writePump, at, current, pending,
              session, observations, dispatch, ending, flags, writeCalls,
              endCall>>

ReadTakes ==
  /\ reading = "idle" /\ inboundPackets # <<>>
  /\ delivered' = Append(delivered, Head(inboundPackets))
  /\ inboundPackets' = Tail(inboundPackets)
  /\ reading' = "releasing"
  /\ UNCHANGED <<budget, ReadRest>>

ReadReleases ==
  /\ reading = "releasing"
  /\ Queued!Release(Last(delivered))
  /\ reading' = "idle"
  /\ UNCHANGED <<delivered, inboundPackets, ReadRest>>

(* <-done, and nothing left to drain *)
ReadEnds ==
  /\ reading = "idle" /\ at = "done" /\ inboundPackets = <<>>
  /\ reading' = "ended"
  /\ UNCHANGED <<budget, delivered, inboundPackets, ReadRest>>
-----------------------------------------------------------------------------
(* Shutdown, its context, Close, and the context given to Start. *)
EndRest == <<budget, peer, wire, readPump, processing, writePump, at, current,
             pending, inboundPackets, session, observations, dispatch, graceful,
             lingering, writeCalls, readCall, farewell>>

ShutdownStarts ==
  /\ "shut down" \in Acts
  /\ shutdown = "idle"
  /\ IF at = "done" THEN shutdown' = "returned" /\ UNCHANGED closing
     ELSE shutdown' = "sending" /\ closing' = TRUE
  /\ UNCHANGED <<cancelled, ending, EndRest>>

ShutdownReturns ==
  /\ \/ shutdown = "sending" /\ Stopping
     \/ shutdown = "waiting" /\ (farewell # "none" \/ at = "done")
  /\ shutdown' = "returned"
  /\ UNCHANGED <<cancelled, closing, ending, EndRest>>

AbortShutdown ==
  /\ "expire shutdown" \in Acts
  /\ shutdown \in {"sending", "waiting"}
  /\ FailAndStop("shutdown expired")
  /\ shutdown' = "returned"
  /\ UNCHANGED <<cancelled, closing, EndRest>>

CloseCalled ==
  /\ "close" \in Acts
  /\ at # "done" /\ stopPhase = 0
  /\ FailAndStop("closed")
  /\ UNCHANGED <<cancelled, closing, shutdown, EndRest>>

ContextEnds ==
  /\ "end context" \in Acts
  /\ ~cancelled
  /\ cancelled' = TRUE
  /\ UNCHANGED <<closing, ending, shutdown, EndRest>>

(* The watcher goroutine of supervise. *)
WatchContext ==
  /\ cancelled /\ stopPhase = 0
  /\ FailAndStop("context")
  /\ UNCHANGED <<cancelled, closing, shutdown, EndRest>>
-----------------------------------------------------------------------------
Coordinate ==
  \/ ObserveReserves \/ ObserveQueues \/ ObserveFails
  \/ TakeFrame \/ Decode \/ Enqueue \/ Discard
  \/ Deliver \/ PendingRefused \/ NoticeStop \/ Withdraw \/ HandOff
  \/ \E w \in Writes : TakeWrite(w)
  \/ Encode \/ Refuse \/ GiveJob \/ FinishWrite \/ Confirm \/ ReleaseWrite
  \/ TakeShutdown \/ GiveBye \/ AwaitBye \/ FinishShutdown
  \/ CoordinatorReturns \/ Linger \/ LingerEnds \/ RunStops \/ Finish

Dispatch ==
  TakeRecord \/ SinkReturns \/ SinkFailure \/ StartDrain \/ DispatcherExits

WriteProceeds(w) ==
  WriteReserves(w) \/ WriteAcquires(w) \/ WriteRejected(w) \/ WriteAnswered(w)

(* What the runtime schedules, and what its users and its peer may do. *)
System ==
  \/ StopGoesOn \/ ReadPump \/ WriteReaches \/ WriteReturns \/ WriterExits
  \/ Coordinate \/ Dispatch \/ WatchContext \/ ReadReleases \/ ReadEnds
  \/ ShutdownReturns
  \/ \E w \in Writes : WriteProceeds(w)

User ==
  \/ PeerSends \/ PeerHangsUp \/ ReadTakes
  \/ ShutdownStarts \/ AbortShutdown \/ CloseCalled \/ ContextEnds
  \/ \E w \in Writes : WriteStarts(w) \/ WriteCancelled(w)

Next == System \/ User

Spec == Init /\ [][Next]_vars

(* Goroutines run, the sink returns, and an interrupted transport call        *)
(* returns; nothing obliges the peer to read or the users to act.             *)
Fairness ==
  /\ WF_vars(StopGoesOn) /\ WF_vars(ReadPump) /\ WF_vars(WriteReturns)
  /\ WF_vars(WriterExits) /\ WF_vars(Coordinate) /\ WF_vars(Dispatch)
  /\ WF_vars(WatchContext) /\ WF_vars(ReadReleases)
  /\ WF_vars(ShutdownReturns)
  /\ \A w \in Writes : WF_vars(WriteProceeds(w))

FairSpec == Spec /\ Fairness

(* The same with a peer that reads what it is sent. *)
ServedSpec == FairSpec /\ WF_vars(WriteReaches)
-----------------------------------------------------------------------------
TypeOK ==
  /\ Queued!Typed
  /\ sent \in 0..Len(Inbound) /\ framed \in 0..Len(Inbound)
  /\ {hungUp, processing, draining, cancelled, closing, graceful, lingering}
       \subseteq BOOLEAN
  /\ wire \in Seq(Packets)
  /\ reader \in {"acquire", "reading", "handing", "stopping", "exited"}
  /\ writer \in {"idle", "writing", "sent", "exited"}
  /\ job \in Packets \cup {None} /\ outcome \in {"none", "ok", "error"}
  /\ at \in DOMAIN Observed \cup Over \cup
       {"select", "decode", "enqueue", "discard", "discardLast", "withdraw",
        "handOff", "encode", "refuse", "handJob", "writing", "confirm",
        "release", "releaseLast", "stopWrite", "byeJob", "byeWriting", "bye",
        "byeFailed", "stopping"}
  /\ current \in Packets \cup {None} /\ pending \in Arrivals \cup {None}
  /\ inboundPackets \in Seq(Arrivals) /\ delivered \in Seq(Arrivals)
  /\ decoded \in 0..Len(Inbound) /\ applied \in SUBSET Transitions
  /\ observations \in Seq(Records) /\ record \in Records \cup {None}
  /\ dispatcher \in {"idle", "observing", "failing", "stopping", "exited"}
  /\ stopPhase \in 0..3
  /\ cause \in {"none", "clean", "peer closed", "observe", "malformed",
                "queue", "write", "disconnect", "context", "sink", "ambiguous",
                "shutdown expired", "closed"}
  /\ call \in [Writes ->
       {"idle", "acquiring", "sending", "waiting", "returned"}]
  /\ begun \in [Writes -> {"queued", "started", "abandoned"}]
  /\ reply \in [Writes -> {"none", "ok", "closed", "error"}]
  /\ result \in [Writes -> {"none", "ok", "closed", "error", "rejected",
                            "cancelled", "ambiguous"}]
  /\ reading \in {"idle", "releasing", "ended"}
  /\ shutdown \in {"idle", "sending", "waiting", "returned"}
  /\ farewell \in {"none", "ok", "error"}

(* Control points at which the coordinator has a frame it has not decoded,    *)
(* and at which it works on a Write call.                                     *)
Undecoded == {"rawIn", "decode"}
OnWrite   == {"encode", "refused", "refuse", "handJob", "writing", "rawOut",
              "packetOut", "confirm", "release", "releaseLast", "stopWrite"}

(* The packets and records the stream keeps in memory, by who keeps them.     *)
InQueue(s, x) == \E k \in 1..Len(s) : s[k] = x

Retained(r) ==
  \/ InQueue(inboundPackets, r)
  \/ pending = r /\ status[r] = "granted"
  \/ reading = "releasing" /\ Last(delivered) = r
  \/ at \in {"discard", "discardLast"} /\ current = r
  \/ r \in Writes /\ call[r] = "acquiring" /\ status[r] = "granted"
  \/ r \in Writes /\ call[r] = "sending"
  \/ at \in OnWrite /\ current = r
  \/ InQueue(observations, r)
  \/ dispatcher = "observing" /\ record = r
  \/ Observing /\ TheRecord = r /\ status[r] = "granted"

(* The budget is charged for exactly what the stream retains, at every step    *)
(* of every goroutine: nothing is released twice, which would panic, and no    *)
(* cancellation, refusal or hand-over leaks capacity (stream.go:71-74).        *)
ChargedForRetained ==
  \A r \in Reservations : r \in Queued!Held <=> Retained(r)

(* "A granted budget always has somewhere to put the packet"                   *)
(* (stream.go:37-39): whoever is granted an item for the Read queue, or for    *)
(* the observation channel, finds room there, so neither send can block while  *)
(* it keeps capacity everybody else waits for.                                 *)
GrantedHasRoom ==
  /\ pending # None /\ status[pending] = "granted"
       => Len(inboundPackets) < QueueItems
  /\ Observing /\ status[TheRecord] = "granted"
       => Len(observations) < QueueItems

(* Together: what is charged is what is kept, and what is granted has a place to go. *)
CapacityIsKept == ChargedForRetained /\ GrantedHasRoom

(* The processing slot follows the frame (stream.go:75-78): it is in its       *)
(* channel only while neither the read pump nor the coordinator has a frame    *)
(* that is not decoded yet, and at most one of them has, so releaseProcessing  *)
(* never finds the channel full.                                               *)
OneFrameInFlight ==
  /\ processing => reader \notin {"reading", "handing"} /\ at \notin Undecoded
  /\ reader \in {"reading", "handing"} => at \notin Undecoded

(* What Read has returned, then the queue, then the pending packet, is in the  *)
(* order of the wire without repetition, and while the stream runs nothing     *)
(* decoded is missing from it.                                                 *)
ToRead == delivered \o inboundPackets \o
            (IF pending = None THEN <<>> ELSE <<pending>>)

Position(p) == CHOOSE k \in 1..Len(Inbound) : Inbound[k] = p

ReadInOrder ==
  /\ \A j, k \in 1..Len(ToRead) :
       j < k => Position(ToRead[j]) < Position(ToRead[k])
  /\ (~Stopping /\ at \notin {"packetIn", "enqueue"} \cup Over)
       => ToRead = SubSeq(Inbound, 1, decoded)

(* A packet Read can see has had its transition committed                      *)
(* (stream_runtime.go:342-344), and an outbound transition is committed only   *)
(* once the whole frame is on the wire (stream_runtime.go:461-463), always     *)
(* before its Write call learns of it.                                         *)
TransitionsCommitted ==
  /\ \A k \in 1..Len(ToRead) :
       ToRead[k] \in Transitions => ToRead[k] \in applied
  /\ \A w \in Writes \cap Transitions :
       /\ w \in applied => InQueue(wire, w)
       /\ result[w] = "ok" => w \in applied

(* Write tells the truth: "ok" means that the peer has the frame, and an error *)
(* other than a failed or ambiguous write means that it never will have, even  *)
(* when the call was cancelled while the coordinator was taking the request    *)
(* (stream_runtime.go:1046-1051).                                              *)
WriteTellsTheTruth ==
  \A w \in Writes :
    /\ result[w] = "ok" => InQueue(wire, w)
    /\ result[w] \in {"cancelled", "rejected", "closed"}
         => ~InQueue(wire, w) /\ job # w

(* The disconnect is the last frame, and a shutdown that reports success has   *)
(* sent it (stream_runtime.go:643-645, 708-710).                               *)
DisconnectIsLast ==
  /\ \A k \in 1..Len(wire) : wire[k] = Bye => k = Len(wire)
  /\ farewell = "ok" /\ HasDisconnect => InQueue(wire, Bye)

(* A graceful shutdown does not truncate the capture                           *)
(* (stream_runtime.go:112-115): when the run reaches its own stop, and no one  *)
(* else stopped the stream, the sink has been given every record.              *)
CaptureIsComplete ==
  at \in {"lingering", "stop"} /\ ~Stopping
    => observations = <<>> /\ dispatcher = "exited"

(* Done means done: no goroutine of the stream is left running and the         *)
(* transport is interrupted, so nothing reaches Read or the wire any more.     *)
DoneMeansOver ==
  at = "done" =>
    /\ Stopped /\ cause # "none"
    /\ reader = "exited" /\ writer = "exited" /\ dispatcher = "exited"

(* The coordinator never leaves a decoded packet behind: "it goes to the       *)
(* reader" (stream_runtime.go:213-220).                                        *)
NoArrivalAbandoned == at \in Over => pending = None

(* Once the stream is told to stop it ends, and takes every waiting caller     *)
(* with it.                                                                    *)
StopEnds == Stopping ~> at = "done"

WritesReturn ==
  \A w \in Writes :
    (Stopping /\ call[w] \notin {"idle", "returned"}) ~> call[w] = "returned"

(* A graceful shutdown ends the stream although nobody reads the inbound queue *)
(* (stream_runtime.go:643-645).                                                *)
ShutdownEnds == shutdown = "sending" ~> at = "done"

(* A request the coordinator has accepted is answered although nobody reads    *)
(* the inbound queue.                                                          *)
AcceptedWriteAnswered ==
  \A w \in Writes : call[w] = "waiting" ~> call[w] = "returned"

(* "Keep reading until the peer closes in turn, and only then close the        *)
(* socket" (stream_linger.go:31-34): a peer that closes ends the linger.       *)
LingerReadsOn == (at = "lingering" /\ hungUp) ~> at # "lingering"

(* What the budget can never hold ends the stream instead of waiting for      *)
(* capacity that cannot come (stream_budget.go:43-45): a payload larger than   *)
(* the whole budget, once it or its record asks for room.                      *)
OversizeEnds ==
  (\E r \in Reservations : Need[r].bytes > QueueBytes /\ status[r] # "new")
     ~> at = "done"

(* The budget as the stream uses it keeps the protocol of its callers.         *)
KeepsBudgetProtocol == Queued!Spec

(* The stream keeps what it promises its users, whatever its goroutines do: it     *)
(* implements module Duplex (stream_runtime.go:986-1092, 643-645, stream.go:302).  *)
Promised == INSTANCE Duplex WITH
  told <- result, ending <- Stopping, over <- at = "done"

KeepsPromises == Promised!Spec
=============================================================================
